---------------------------- MODULE ParsingTable ----------------------------
(***************************************************************************)
(* The construction of a ParsingTable, after loadFromCSV: computeFirstSets *)
(* and then computeFollowSets sweep over the table, row by row and column  *)
(* by column, until a whole sweep changes nothing.                         *)
(***************************************************************************)
EXTENDS TextbookSets, FiniteSets

CONSTANTS Rows, Columns  \* nonTerminals and terminals, in the order of the file

ASSUME OrderAssumption ==
  /\ Rows \in Seq(NonTerminals) /\ Columns \in Seq(Terminals)
  /\ Rows # <<>> /\ Columns # <<>>
  /\ {Rows[i] : i \in DOMAIN Rows} = NonTerminals
  /\ {Columns[i] : i \in DOMAIN Columns} = Terminals

\* The table has been read from a file; what marks its arrows and empty right-hand
\* sides is no word of its grammar.
ASSUME MarksAssumption ==
  IsFiniteSet(Symbols) /\ {Arrow, Epsilon} \cap (Terminals \cup NonTerminals) = {}

VARIABLES
  phase,       \* "first", "follow" or "ready"
  firstSets, followSets,
  row, column, \* the cell the sweep visits next
  changed      \* the flag of the sweep

vars == <<phase, firstSets, followSets, row, column, changed>>

Init ==
  /\ phase = "first"
  /\ firstSets = NoSets
  /\ followSets = NoSets
  /\ row = 1 /\ column = 1
  /\ changed = FALSE

InSweep == row <= Len(Rows)

\* Bug: one column too few.
AdvanceEarly ==
  IF column < Len(Columns) - 1 THEN row' = row /\ column' = column + 1
                               ELSE row' = row + 1 /\ column' = 1

Advance ==
  IF column < Len(Columns) THEN row' = row /\ column' = column + 1
                           ELSE row' = row + 1 /\ column' = 1

\* changed |= ...
Noted(added) == changed \/ added

VisitFirst ==
  /\ phase = "first" /\ InSweep
  /\ firstSets' = FirstAfter(firstSets, Rows[row], Columns[column])
  /\ changed' = Noted(firstSets' # firstSets)
  /\ Advance
  /\ UNCHANGED <<phase, followSets>>

VisitFollow ==
  /\ phase = "follow" /\ InSweep
  /\ followSets' = FollowAfter(firstSets, followSets, Rows[row], Columns[column])
  /\ changed' = Noted(followSets' # followSets)
  /\ Advance
  /\ UNCHANGED <<phase, firstSets>>

\* Bug: the flag is not reset.
StartSweepChanged == row' = 1 /\ column' = 1 /\ UNCHANGED changed

StartSweep == row' = 1 /\ column' = 1 /\ changed' = FALSE

SweepAgain ==
  /\ ~InSweep /\ changed
  /\ StartSweep
  /\ UNCHANGED <<phase, firstSets, followSets>>

EndFirst ==
  /\ phase = "first" /\ ~InSweep /\ ~changed
  /\ phase' = "follow"
  /\ followSets' = InitialFollow
  /\ StartSweep
  /\ UNCHANGED firstSets

EndFollow ==
  /\ phase = "follow" /\ ~InSweep /\ ~changed
  /\ phase' = "ready"
  /\ UNCHANGED <<firstSets, followSets, row, column, changed>>

Next == VisitFirst \/ VisitFollow \/ SweepAgain \/ EndFirst \/ EndFollow

\* The constructor runs to its end.
Spec == Init /\ [][Next]_vars /\ WF_vars(Next)

-----------------------------------------------------------------------------

\* Types of the variables.
TypeOK ==
  /\ phase \in {"first", "follow", "ready"}
  /\ firstSets \in [NonTerminals -> SUBSET Terminals]
  /\ followSets \in [NonTerminals -> SUBSET Terminals]
  /\ row \in 1 .. Len(Rows) + 1 /\ column \in 1 .. Len(Columns)
  /\ changed \in BOOLEAN

\* "Iterates ... until no more changes occur": when the construction is over, no
\* cell, whatever its place in the order of the sweep, has anything to add.
EndsAtFixpoint ==
  phase = "ready" => \A c \in DOMAIN Table :
    /\ FirstAfter(firstSets, c[1], c[2]) = firstSets
    /\ FollowAfter(firstSets, followSets, c[1], c[2]) = followSets

\* Panic-mode recovery pops a nonterminal when the lookahead is in its FOLLOW
\* set (Parser.cpp:217), so a terminal that cannot follow it must not be there:
\* the sets, which only grow, end within the textbook ones.
Within(sets, bounds) == \A A \in NonTerminals : sets[A] \subseteq bounds[A]
FollowIsSound == phase = "ready" => Within(followSets, TextbookFollow)

\* The sweeps come to an end.
Terminates == <>(phase = "ready")

=============================================================================
