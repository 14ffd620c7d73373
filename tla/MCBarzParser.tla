---------------------------- MODULE MCBarzParser ----------------------------
(***************************************************************************)
(* The parser and the AST builder on programs of the BARZ language.        *)
(***************************************************************************)
EXTENDS BarzParser, BarzGrammar, AstShape, FiniteSets

CONSTANTS AccessLength, ExpressionLength, ControlLength, DeclarationLength, DamagedLength

MCTable == BarzTable
MCActions == BarzActions
MCFollow == BarzFollow
MCFirst == BarzFirst
NoEpsilon == {}
BarzTokenTypes == BarzTerminals \ {"$"}

\* The sets are such as the construction ends with: no cell of the table has anything
\* to add to them.
ASSUME FixpointAssumption ==
  /\ \A A \in NonTerminals : InitialFollow[A] \subseteq FollowSets[A]
  /\ \A c \in DOMAIN Table :
       /\ FirstAfter(FirstSets, c[1], c[2]) = FirstSets
       /\ FollowAfter(FirstSets, FollowSets, c[1], c[2]) = FollowSets

-----------------------------------------------------------------------------

(* The token sequences given to the parser over the BARZ table: every      *)
(* sentence of some nonterminals up to a length, over a small alphabet, in *)
(* a context that makes it a program.                                      *)

RhsOf(A) == {p.rhs : p \in {q \in BarzProductions : q.row = A}}

\* The strings over alphabet, of at most n tokens, that w derives without a
\* right-hand side in banned.
RECURSIVE Derived(_, _, _, _)
Derived(w, n, alphabet, banned) ==
  IF w = <<>> THEN {<<>>}
  ELSE IF Cardinality({i \in DOMAIN w : w[i] \in BarzTerminals}) > n THEN {}
  ELSE LET x == Head(w)
           rest == Tail(w)
       IN  CASE x \in BarzTerminals ->
                  IF x \in alphabet
                  THEN {<<x>> \o s : s \in Derived(rest, n - 1, alphabet, banned)}
                  ELSE {}
             [] x \in BarzNonTerminals ->
                  UNION {Derived(rhs \o rest, n, alphabet, banned) : rhs \in RhsOf(x) \ banned}
             [] OTHER -> Derived(rest, n, alphabet, banned)

\* A statement or a local variable as the body of a free function.
InFunction(s) ==
  <<"function", "id", "lpar", "rpar", "arrow", "void", "lcurbr">> \o s \o <<"rcurbr">>

-----------------------------------------------------------------------------

\* What the actions of performAction do not build a tree for.
EmptyBlock == <<"_addEmptyBlock">>
Constructor == <<"constructor", "_setConstructor", "lpar", "FPARAMS", "rpar",
                 "_createConstructorSignature">>
SelectFromCall == <<"dot", "id", "_processFunctionReturn", "FUNCALLORASSIGN2">>
ReadFromCall == <<"lpar", "APARAMS", "rpar", "_createFunctionCall", "VARIDNEST">>
Signed == <<"SIGN", "FACTOR", "_applySign">>
Negated == <<"not", "FACTOR", "_createNotExpr">>
NotBuilt == {EmptyBlock, Constructor, SelectFromCall, ReadFromCall, Signed, Negated}

\* An index on a member, unless it is a member of a plain identifier.
IndexesDeepMember(s) ==
  \E i \in 2 .. Len(s) - 2 :
    /\ s[i] = "dot" /\ s[i + 1] = "id" /\ s[i + 2] = "lsqbr"
    /\ \/ s[i - 1] # "id"
       \/ i > 2 /\ s[i - 2] = "dot"

-----------------------------------------------------------------------------

\* Assignments to, and calls of, anything that can be selected and indexed.
Accesses(n, banned) ==
  Derived(<<"FUNCALLORASSIGN", "semi">>, n,
          {"id", "self", "dot", "lsqbr", "rsqbr", "intlit", "lpar", "rpar", "assign", "semi"},
          banned)

Expressions(n, banned) ==
  {<<"write">> \o s : s \in
     Derived(<<"lpar", "EXPR", "rpar", "semi">>, n,
             {"id", "plus", "mult", "lpar", "rpar", "lt", "semi"}, banned)}

Control(n, banned) ==
  Derived(<<"STATEMENT">>, n,
          {"id", "intlit", "while", "if", "then", "else", "lpar", "rpar", "lt", "lcurbr",
           "rcurbr", "semi", "assign"}, banned)

Reading(n, banned) ==
  {<<"read">> \o s : s \in
     Derived(<<"lpar", "VARIABLE", "rpar", "semi">>, n,
             {"id", "self", "dot", "lsqbr", "rsqbr", "intlit", "lpar", "rpar", "semi"}, banned)}

\* Classes, implementations and functions with their parameters and variables.
Declarations(n, banned) ==
  Derived(<<"START">>, n,
          {"class", "id", "isa", "comma", "lcurbr", "rcurbr", "semi", "public", "attribute",
           "function", "colon", "int", "lsqbr", "intlit", "rsqbr", "lpar", "rpar", "arrow",
           "void", "implementation", "local"}, banned)

-----------------------------------------------------------------------------

\* Every sentence of bounded length, without what performAction does not build.
BuiltStatements ==
  UNION {Accesses(AccessLength, NotBuilt), Expressions(ExpressionLength, NotBuilt),
         Control(ControlLength, NotBuilt), Reading(AccessLength, NotBuilt)}
BuiltPrograms ==
  {InFunction(s) : s \in {t \in BuiltStatements : ~IndexesDeepMember(t)}}
    \cup Declarations(DeclarationLength, NotBuilt)

\* Programs with a token missing: most of them have a syntax error.
Damaged ==
  UNION {{RemoveAt(p, i) : i \in DOMAIN p} :
           p \in {InFunction(s) : s \in Accesses(DamagedLength, NotBuilt)
                                         \cup Control(DamagedLength, NotBuilt)}
                  \cup Declarations(DamagedLength + 5, NotBuilt)}

BuiltAndDamaged == BuiltPrograms \cup Damaged

EmptyBodies == {InFunction(s) : s \in Control(ControlLength, NotBuilt \ {EmptyBlock})}

-----------------------------------------------------------------------------

\* performAction calls back() and pop_back() on its stack without a test: the
\* table must place each action where its operands are.  No program reads below
\* the bottom of the stack or loses the root, before its first syntax error.
StaysDefined == undefined => error

Accepted == pc = "finished" /\ result

\* What is left of a program is its tree alone, and each node of it has the
\* children that the visitors look for at their positions.
LeavesOneTree ==
  Accepted => /\ Len(nodes) = 1
              /\ nodes[1].kind = "PROGRAM"
              /\ WellFormed(nodes[1])

\* The tokens whose lexeme matters.
Meaningful == {"id", "intlit", "floatlit", "int", "float", "void", "public", "private",
               "plus", "minus", "or", "mult", "div", "and",
               "eq", "neq", "lt", "gt", "leq", "geq"}

\* The tree says what the program says: each of the three lists of the root, read
\* in order, spells its part of the program, and together they have every name,
\* literal, type, visibility and operator once, with the lexeme of the right token
\* although actions run after the lookahead has moved on.
Increasing(s) == \A i \in 1 .. Len(s) - 1 : s[i] < s[i + 1]

SpellsProgram ==
  Accepted =>
    LET lists == nodes[1].kids
        parts == [i \in DOMAIN lists |-> Spelling(lists[i])]
        meant == {i \in DOMAIN tokens : tokens[i] \in Meaningful}
    IN  /\ \A i \in DOMAIN parts : Increasing(parts[i])
        /\ ToSet(FlattenSeq(parts)) = meant
        /\ Len(FlattenSeq(parts)) = Cardinality(meant)

\* Operators bind as in the grammar and associate to the left.
KeepsPrecedence == Accepted => KeepsBinding(nodes[1], tokens)

-----------------------------------------------------------------------------

\* "Add the statement to the block" (AST.cpp:533).
StatementsJoinTheBlock ==
  InLoop /\ Top = "_addBodyStatement" /\ ~error => BelowIs(nodes, {"STATEMENTS_LIST"})

=============================================================================
