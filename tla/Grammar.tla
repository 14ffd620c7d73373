------------------------------ MODULE Grammar ------------------------------
(***************************************************************************)
(* The table that drives the BARZ parser, as ParsingTable.h loads it from  *)
(* a CSV file: a partial map from a nonterminal (a row) and a terminal (a  *)
(* column) to a production.  The words of a production that are neither    *)
(* terminals nor nonterminals are semantic actions ("_createRoot", ...).   *)
(* The marker "&epsilon", which only ever ends a production, is a flag of  *)
(* the production here.                                                    *)
(***************************************************************************)
EXTENDS Integers, Sequences

CONSTANTS
  Terminals,     \* the columns of the table, the end marker included
  NonTerminals,  \* the rows of the table
  Actions,       \* the semantic actions
  Start,         \* "START"
  End,           \* "$"
  Table          \* <<row, column>> |-> [lhs, rhs, empty]; empty cells are absent

Symbols == Terminals \cup NonTerminals \cup Actions

ASSUME SymbolAssumption ==
  /\ Start \in NonTerminals
  /\ End \in Terminals
  /\ Terminals \cap NonTerminals = {}
  /\ Actions \cap (Terminals \cup NonTerminals) = {}

\* The cells hold the productions of a grammar that never mentions "$".  (The
\* left-hand side of a cell need not be its row: nothing in the code checks it.)
ASSUME TableAssumption ==
  /\ DOMAIN Table \subseteq NonTerminals \X Terminals
  /\ \A c \in DOMAIN Table :
       /\ Table[c].lhs \in NonTerminals
       /\ Table[c].rhs \in Seq(Symbols \ {End})
       /\ Table[c].empty \in BOOLEAN

\* Bug: a cell with an empty production is taken for an empty cell.
HasProductionUnlessEmpty(nt, t) ==
  <<nt, t>> \in DOMAIN Table /\ ~Table[<<nt, t>>].empty

\* ParsingTable::getProduction answers "error" for a cell that is absent.
HasProduction(nt, t) == <<nt, t>> \in DOMAIN Table

\* Bugs: the marker is pushed like any other word; the words are pushed in the
\* order in which they are read.
RhsWithMarker(nt, t) ==
  Table[<<nt, t>>].rhs \o (IF Table[<<nt, t>>].empty THEN <<"&epsilon">> ELSE <<>>)
RhsUnreversed(nt, t) ==
  LET w == Table[<<nt, t>>].rhs
  IN  [i \in DOMAIN w |-> w[Len(w) + 1 - i]]

\* What a production leaves on the parse stack, future top first.
Rhs(nt, t) == Table[<<nt, t>>].rhs

-----------------------------------------------------------------------------

(***************************************************************************)
(* What one cell of the table adds to the FIRST and to the FOLLOW sets     *)
(* when ParsingTable::computeFirstSets and computeFollowSets visit it.     *)
(* Both read the whole text of the cell, its left-hand side and its arrow  *)
(* included.                                                               *)
(***************************************************************************)

Arrow == "->"
Epsilon == "&epsilon"

\* The words of a cell, as an istringstream separates them.
Words(nt, t) ==
  LET p == Table[<<nt, t>>]
  IN  <<p.lhs, Arrow>> \o p.rhs \o (IF p.empty THEN <<Epsilon>> ELSE <<>>)

\* A word that is neither a terminal nor a row has no FIRST set: the map gives
\* the empty one.
FirstOfSymbol(first, w) ==
  CASE w \in Terminals    -> {w}
    [] w \in NonTerminals -> first[w]
    [] OTHER              -> {}

FirstAfter(first, nt, t) ==
  IF HasProduction(nt, t)
  THEN [first EXCEPT ![nt] = @ \cup FirstOfSymbol(first, Words(nt, t)[1])]
  ELSE first

\* Bug: the place of the word is not compared with the last one.
IsAWord(w, A) == A \in {w[i] : i \in DOMAIN w}

\* The last word of the cell gets the FOLLOW set of its row.
IsLast(w, A) == w[Len(w)] = A

\* Each nonterminal word gets FIRST of the next word ...
FromNext(first, w, A) ==
  UNION {FirstOfSymbol(first, w[i + 1]) : i \in {j \in 1 .. Len(w) - 1 : w[j] = A}}

\* ... and the last one gets FOLLOW of the row, to which this production may just have
\* added.
Gained(first, follow, nt, w, A) ==
  FromNext(first, w, A)
    \cup IF IsLast(w, A) THEN follow[nt] \cup FromNext(first, w, nt) ELSE {}

FollowAfter(first, follow, nt, t) ==
  IF ~HasProduction(nt, t) THEN follow
  ELSE CHOOSE after \in {[A \in NonTerminals |->
                            follow[A] \cup Gained(first, follow, nt, w, A)]
                           : w \in {Words(nt, t)}} : TRUE

NoSets == [A \in NonTerminals |-> {}]
InitialFollow == [NoSets EXCEPT ![Start] = {End}]

=============================================================================
