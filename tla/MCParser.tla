------------------------------ MODULE MCParser ------------------------------
(***************************************************************************)
(* The parser on every token sequence of bounded length, over a small      *)
(* LL(1) table of the same make as the BARZ one: statements and blocks,    *)
(* with actions, with empty productions that carry an action, and with a   *)
(* nonterminal (EXPR) that recovery can pop before the end of the input.   *)
(***************************************************************************)
EXTENDS Parser, Functions, SequencesExt

BlockColumns == <<"$", "id", "assign", "semi", "lcurbr", "rcurbr">>
BlockRows == <<"START", "LIST", "EXPR", "REST", "STAT">>

\* <<row, columns, right-hand side, with "&epsilon">>
BlockProductions == {
  <<"START", {"$", "id", "lcurbr"}, <<"_root", "LIST">>, FALSE>>,
  <<"LIST", {"id", "lcurbr"}, <<"STAT", "_add", "LIST">>, FALSE>>,
  <<"LIST", {"$", "rcurbr"}, <<>>, TRUE>>,
  <<"STAT", {"id"}, <<"id", "REST", "semi", "_statement">>, FALSE>>,
  <<"STAT", {"lcurbr"}, <<"lcurbr", "LIST", "rcurbr", "_block">>, FALSE>>,
  <<"REST", {"assign"}, <<"assign", "EXPR">>, FALSE>>,
  <<"REST", {"semi"}, <<"_call">>, TRUE>>,
  <<"EXPR", {"id"}, <<"id", "_operand">>, FALSE>>}

BlockTable ==
  [c \in UNION {{p[1]} \X p[2] : p \in BlockProductions} |->
     LET p == CHOOSE q \in BlockProductions : q[1] = c[1] /\ c[2] \in q[2]
     IN  [lhs |-> p[1], rhs |-> p[3], empty |-> p[4]]]

BlockTerminals == Range(BlockColumns)
BlockNonTerminals == Range(BlockRows)
BlockActions == {"_root", "_add", "_statement", "_block", "_call", "_operand"}

\* The sets that the construction of the table computes.
BlockFirst == [A \in BlockNonTerminals |-> {}]
BlockFollow ==
  [BlockFirst EXCEPT !["START"] = {"$"}, !["LIST"] = {"$", "rcurbr"},
                     !["REST"] = {"semi"}, !["EXPR"] = {"semi"}]

-----------------------------------------------------------------------------

(***************************************************************************)
(* The language of the grammar in the table, by exhaustive search: every   *)
(* production of a nonterminal is tried, whatever its columns.  This is    *)
(* the reference for what the parser accepts.                              *)
(***************************************************************************)

\* The positions of s at which a derivation from w that starts at i can end.
RECURSIVE Ends(_, _, _)
Ends(s, w, i) ==
  IF w = <<>> THEN {i}
  ELSE LET x == Head(w)
           next == CASE x \in Terminals ->
                          IF i <= Len(s) /\ s[i] = x THEN {i + 1} ELSE {}
                     [] x \in NonTerminals ->
                          UNION {Ends(s, rhs, i) :
                                   rhs \in {Table[c].rhs : c \in {d \in DOMAIN Table : d[1] = x}}}
                     [] OTHER -> {i}
       IN  UNION {Ends(s, Tail(w), j) : j \in next}

IsSentence(s) == Len(s) + 1 \in Ends(s, <<Start>>, 1)

-----------------------------------------------------------------------------

CONSTANT MaxTokens  \* the length of the longest input

BlockTokens == (BlockTerminals \ {"$"}) \cup {"inlinecmt"}
Inputs == BoundedSeq(BlockTokens, MaxTokens)
NoEpsilon == {}

\* The sets are those of the grammar of this instance: no cell of its table has
\* anything to add to them.
ASSUME FixpointAssumption ==
  /\ \A A \in NonTerminals : InitialFollow[A] \subseteq FollowSets[A]
  /\ \A c \in DOMAIN Table :
       /\ FirstAfter(FirstSets, c[1], c[2]) = FirstSets
       /\ FollowAfter(FirstSets, FollowSets, c[1], c[2]) = FollowSets

\* parse answers TRUE exactly for the sentences of its grammar, comments and
\* invalid tokens left out: its result is "lookahead is $ and no error"
\* (Parser.cpp:141).  The comment above that line says "Always return true if the
\* parse reaches "$", even if errors were encountered"; the callers stop on FALSE.
AcceptsSentences ==
  pc = "finished" =>
    result = IsSentence(SelectSeq(tokens, LAMBDA t : t \notin SkippedTypes))

=============================================================================
