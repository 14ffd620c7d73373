------------------------------- MODULE Parser -------------------------------
(***************************************************************************)
(* The table-driven predictive parser (Parser::parse and what it calls).   *)
(*                                                                         *)
(* A token is an element of TokenTypes; a run parses one of InputStreams.  *)
(* The token before the lookahead is abstracted to its index, so that the  *)
(* lookahead is an index too: Len(tokens) + 1 stands for the "$" that      *)
(* nextToken makes up once the tokens are used up.                         *)
(*                                                                         *)
(* The history variables done and at list the symbols that left the stack  *)
(* by a match or an action, with the token matched or, for an action, the  *)
(* token whose lexeme it was given.                                        *)
(***************************************************************************)
EXTENDS Grammar

CONSTANTS
  FirstSets,     \* what computeFirstSets left in the table
  FollowSets,    \* what computeFollowSets left in the table
  EpsilonFirst,  \* the nonterminals with "&epsilon" in their FIRST set
  TokenTypes,    \* the types the scanner gives to tokens
  SkippedTypes,  \* comments and invalid tokens, which nextToken passes over
  InputStreams   \* the token sequences to parse

ASSUME SetsAssumption ==
  /\ FirstSets \in [NonTerminals -> SUBSET Terminals]
  /\ FollowSets \in [NonTerminals -> SUBSET Terminals]
  /\ EpsilonFirst \subseteq NonTerminals

ASSUME TokensAssumption ==
  /\ End \notin TokenTypes
  /\ \A s \in InputStreams : s \in Seq(TokenTypes)

VARIABLES
  tokens,         \* the tokens of the scanner
  pc,             \* "start", "parsing" or "finished"
  stack,          \* the parse stack, top first
  look,           \* the index of the lookahead
  currentLexeme,  \* the index of the last matched token, 0 for ""
  error,          \* parse's local flag
  syntaxErrors,   \* the messages: <<what, index of the lookahead>>
  result,         \* what parse returns
  done, at        \* history

vars == <<tokens, pc, stack, look, currentLexeme, error, syntaxErrors, result,
          done, at>>

-----------------------------------------------------------------------------

Eof == Len(tokens) + 1

TypeAt(i) == IF i = Eof THEN End ELSE tokens[i]

\* The indices of the tokens that nextToken does not pass over.
Significant == {i \in 1 .. Len(tokens) : tokens[i] \notin SkippedTypes}

\* nextToken: k is the first significant token after i, or the end.
IsNextToken(i, k) ==
  /\ k \in Significant \cup {Eof} /\ k > i
  /\ (i + 1 .. k - 1) \cap Significant = {}

InFirst(A, t) == A \in NonTerminals /\ t \in FirstSets[A]
InFollow(A, t) == A \in NonTerminals /\ t \in FollowSets[A]
Acceptable(A, t) == InFirst(A, t) \/ (A \in EpsilonFirst /\ InFollow(A, t))

-----------------------------------------------------------------------------

Init ==
  /\ tokens \in InputStreams
  /\ pc = "start"
  /\ stack = <<>>
  /\ look = 0
  /\ currentLexeme = 0
  /\ error = FALSE
  /\ syntaxErrors = {}
  /\ result = FALSE
  /\ done = <<>>
  /\ at = <<>>

\* Bug: "$" is not pushed.
NoBottom == <<Start>>

\* push("$"), push("START").
InitialStack == <<Start, End>>

Begin ==
  /\ pc = "start"
  /\ pc' = "parsing"
  /\ stack' = InitialStack
  /\ \E k \in 1 .. Eof : IsNextToken(0, k) /\ look' = k
  /\ UNCHANGED <<tokens, currentLexeme, error, syntaxErrors, result, done, at>>

\* The loop runs while the top of the stack is not "$".
Top == Head(stack)
InLoop == pc = "parsing" /\ Top # End

Match ==
  /\ InLoop /\ Top \in Terminals
  /\ Top = TypeAt(look)
  /\ stack' = Tail(stack)
  /\ currentLexeme' = look
  /\ \E k \in look + 1 .. Eof : IsNextToken(look, k) /\ look' = k
  /\ done' = Append(done, Top)
  /\ at' = Append(at, look)
  /\ UNCHANGED <<tokens, pc, error, syntaxErrors, result>>

Expand ==
  /\ InLoop /\ Top \in NonTerminals
  /\ HasProduction(Top, TypeAt(look))
  /\ stack' = Rhs(Top, TypeAt(look)) \o Tail(stack)
  /\ UNCHANGED <<tokens, pc, look, currentLexeme, error, syntaxErrors, result,
                 done, at>>

\* The token whose lexeme performAction is given.
ActionLexeme == currentLexeme

\* performAction and pop.  What the action does to the AST is not modelled here.
PerformAction ==
  /\ InLoop /\ Top \in Actions
  /\ stack' = Tail(stack)
  /\ done' = Append(done, Top)
  /\ at' = Append(at, ActionLexeme)
  /\ UNCHANGED <<tokens, pc, look, currentLexeme, error, syntaxErrors, result>>

-----------------------------------------------------------------------------

\* Bug: the loop reports the token that it reads next, not the one it skips.
PassedLate(k) == (look + 1 .. k) \cap Significant

\* The tokens that the skipping loop reports when it moves the lookahead to k.
Passed(k) == (look .. k - 1) \cap Significant

\* Bug: at the end of the input nothing is popped.
CanPopInFollow(A) == InFollow(A, TypeAt(look))

\* skipErrors pops A when the lookahead is "$" or may follow A ...
CanPop(A) == look = Eof \/ InFollow(A, TypeAt(look))

\* ... and otherwise moves the lookahead to the first acceptable token, which
\* may be the lookahead itself, or to the end.
SkipsTo(A, k) ==
  /\ k = Eof \/ (k \in Significant /\ Acceptable(A, TypeAt(k)))
  /\ \A i \in Passed(k) : ~Acceptable(A, TypeAt(i))

SkipErrors(A, what) ==
  /\ error' = TRUE
  /\ LET messages == syntaxErrors \cup {<<what, look>>, <<"unexpected", look>>}
     IN  \/ /\ CanPop(A)
            /\ stack' = Tail(stack)
            /\ syntaxErrors' = messages
            /\ UNCHANGED look
         \/ /\ ~CanPop(A)
            /\ \E k \in look .. Eof :
                 /\ SkipsTo(A, k)
                 /\ look' = k
                 /\ syntaxErrors' = messages \cup {<<"skipping", i>> : i \in Passed(k)}
            /\ UNCHANGED stack
  /\ UNCHANGED <<tokens, pc, currentLexeme, result, done, at>>

Mismatch ==
  /\ InLoop /\ Top \in Terminals
  /\ Top # TypeAt(look)
  /\ SkipErrors(Top, "expected")

NoProduction ==
  /\ InLoop /\ Top \in NonTerminals
  /\ ~HasProduction(Top, TypeAt(look))
  /\ SkipErrors(Top, "noProduction")

\* Bug: reaching the end of the input counts as success.
ResultIgnoringErrors == look = Eof

Result == look = Eof /\ ~error

Finish ==
  /\ pc = "parsing"
  /\ Top = End
  /\ pc' = "finished"
  /\ result' = Result
  /\ UNCHANGED <<tokens, stack, look, currentLexeme, error, syntaxErrors, done, at>>

Next ==
  \/ Begin
  \/ Match \/ Expand \/ PerformAction
  \/ Mismatch \/ NoProduction
  \/ Finish

Spec == Init /\ [][Next]_vars

\* parse runs to its end on the caller's thread.
FairSpec == Spec /\ WF_vars(Next)

-----------------------------------------------------------------------------

Messages ==
  {"expected", "noProduction", "unexpected", "skipping"} \X (1 .. Eof)

\* Types of the variables.
TypeOK ==
  /\ tokens \in InputStreams
  /\ pc \in {"start", "parsing", "finished"}
  /\ stack \in Seq(Symbols)
  /\ look \in 0 .. Eof
  /\ currentLexeme \in 0 .. Len(tokens)
  /\ error \in BOOLEAN
  /\ syntaxErrors \subseteq Messages
  /\ result \in BOOLEAN
  /\ done \in Seq(Terminals \cup Actions)
  /\ at \in Seq(0 .. Len(tokens))
  /\ Len(at) = Len(done)

\* parse calls top() and pop() on its stack without a test for emptiness, and
\* leaves its loop only when it sees "$" (Parser.cpp:72).  That "$" stays at the
\* bottom and is nowhere else, so no sequence of matches, expansions, actions
\* and recoveries pops an empty stack.
HasBottom(s) == /\ s # <<>>
                /\ \A i \in DOMAIN s : s[i] = End <=> i = Len(s)

BottomMarker == pc # "start" => HasBottom(stack)

\* The matched terminals of done are at increasing indices and carry the type
\* of the token they were matched with.
MatchedAreTokens ==
  \A i \in DOMAIN done : done[i] \in Terminals =>
    /\ at[i] \in Significant
    /\ tokens[at[i]] = done[i]
    /\ \A j \in 1 .. i - 1 : at[j] < at[i]

Matched == {at[i] : i \in {j \in DOMAIN done : done[j] \in Terminals}}
Skipped == {i \in Significant : <<"skipping", i>> \in syntaxErrors}

\* Recovery loses no token silently and reads none twice: a token before the
\* lookahead was either matched, once and in the order of the input, or
\* reported as skipped, and a token after it was neither.
TokensAccounted ==
  /\ MatchedAreTokens
  /\ Matched \cap Skipped = {}
  /\ pc # "start" => Matched \cup Skipped = {i \in Significant : i < look}

\* The result is TRUE only when the input was read to its end, each of its
\* significant tokens was matched, and nothing was reported.  The comment above the
\* return statement (Parser.cpp:140), "Always return true if the parse reaches "$",
\* even if errors were encountered", is not what the code does.
AcceptMeansMatched ==
  result => /\ syntaxErrors = {}
            /\ Matched = Significant
            /\ MatchedAreTokens

\* The parser constructs a leftmost derivation until its first syntax error:
\* what it has matched followed by what is on its stack is the sentential form.
Derivation == INSTANCE LeftmostDerivation WITH
  form <- IF error THEN <<>>
          ELSE IF pc = "start" THEN <<Start, End>> ELSE done \o stack,
  status <- IF pc = "finished" THEN IF result THEN "accepted" ELSE "rejected"
            ELSE IF error THEN "failed" ELSE "deriving"

DerivesLeftmost == Derivation!Spec

\* parse returns, whatever the input.
Terminates == <>(pc = "finished")

=============================================================================
