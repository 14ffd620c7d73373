---------------------------- MODULE TextbookSets ----------------------------
(***************************************************************************)
(* FIRST and FOLLOW as compiler textbooks define them, for the grammar     *)
(* whose productions are the cells of the table.  Semantic actions derive  *)
(* the empty string.  This is the reference for what ParsingTable and the  *)
(* parser do; nothing here is code of the repository.                      *)
(***************************************************************************)
EXTENDS Grammar

Productions == {<<c[1], Table[c].rhs>> : c \in DOMAIN Table}

\* A string derives the empty one if its symbols do, N being the nonterminals
\* that do.
Vanishes(N, w) == \A i \in DOMAIN w : w[i] \in Actions \cup N

Nullable ==
  LET grow[N \in SUBSET NonTerminals] ==
        LET M == N \cup {p[1] : p \in {q \in Productions : Vanishes(N, q[2])}}
        IN  IF M = N THEN N ELSE grow[M]
  IN  grow[{}]

\* The symbols that can begin what w derives, before w's own nonterminals are
\* replaced.
Beginnings(N, w) ==
  {w[i] : i \in {j \in DOMAIN w : Vanishes(N, SubSeq(w, 1, j - 1))}}

\* What edges lead to from the symbols in S at once, and in the end.
Targets(edges, S) == {e[2] : e \in {d \in edges : d[1] \in S}}

Reached(edges) ==
  LET reached[S \in SUBSET Symbols] ==
        IF Targets(edges, S) \subseteq S THEN S ELSE reached[S \cup Targets(edges, S)]
  IN  reached

ReachableTerminals(edges) == [A \in NonTerminals |-> Reached(edges)[{A}] \cap Terminals]

FirstGiven(N) ==
  ReachableTerminals(UNION {{p[1]} \X Beginnings(N, p[2]) : p \in Productions})

FirstOfString(N, first, w) ==
  UNION {FirstOfSymbol(first, s) : s \in Beginnings(N, w)}

\* What follows the occurrence of a nonterminal at position i of production p:
\* terminals or, at the end of what p derives, what follows its left-hand side.
After(N, first, p, rest) ==
  FirstOfString(N, first, rest) \cup IF Vanishes(N, rest) THEN {p[1]} ELSE {}

Occurrences(p) == {i \in DOMAIN p[2] : p[2][i] \in NonTerminals}

FollowEdges(N, first) ==
  {<<Start, End>>} \cup
  UNION {UNION {{p[2][i]} \X After(N, first, p, SubSeq(p[2], i + 1, Len(p[2]))) :
                  i \in Occurrences(p)} : p \in Productions}

FollowGiven(N, first) == ReachableTerminals(FollowEdges(N, first))

\* The columns under which an LL(1) table holds each production.
PredictedGiven(N, first, follow) ==
  [p \in Productions |->
     FirstOfString(N, first, p[2])
       \cup IF Vanishes(N, p[2]) THEN follow[p[1]] ELSE {}]

FollowOf(N) == FollowGiven(N, FirstGiven(N))
TextbookFollow == FollowOf(Nullable)
PredictedOf(N, first) == PredictedGiven(N, first, FollowGiven(N, first))
PredictedFrom(N) == PredictedOf(N, FirstGiven(N))
Predicted == PredictedFrom(Nullable)

=============================================================================
