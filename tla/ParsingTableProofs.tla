------------------------ MODULE ParsingTableProofs ------------------------
(***************************************************************************)
(* ParsingTableProofs: the construction of a parsing table, for any table. *)
(*                                                                         *)
(* While a sweep has changed nothing, the cells it has visited add nothing *)
(* to the sets as they are: the sweep that ends so ends at a fixpoint.     *)
(* The sets of FIRST are those they began with: what a cell adds is FIRST  *)
(* of its own left-hand side, the first word of its text.                  *)
(*                                                                         *)
(* The sets of FOLLOW stay within those of a textbook.  The textbook's are *)
(* the least that are closed under edges from a nonterminal to what comes  *)
(* after it; with empty sets of FIRST, whatever a cell adds is an edge.    *)
(***************************************************************************)
EXTENDS ParsingTable, SequenceLemmas, FiniteSetTheorems, TLAPS

Sets == [NonTerminals -> SUBSET Terminals]

Visited(i, j) == i < row \/ (i = row /\ j < column)

FirstSettled(i, j) == FirstAfter(firstSets, Rows[i], Columns[j]) = firstSets
FollowSettled(i, j) ==
  FollowAfter(firstSets, followSets, Rows[i], Columns[j]) = followSets

Swept ==
  ~ changed =>
    \A i \in DOMAIN Rows, j \in DOMAIN Columns : Visited(i, j) =>
      /\ phase = "first" => FirstSettled(i, j)
      /\ phase = "follow" => FollowSettled(i, j)

Settled ==
  \A i \in DOMAIN Rows, j \in DOMAIN Columns :
    /\ phase # "first" => FirstSettled(i, j)
    /\ phase = "ready" => FollowSettled(i, j)

IInv == TypeOK /\ Swept /\ Settled

-----------------------------------------------------------------------------

LEMMA Order ==
  /\ Len(Rows) \in Nat /\ Len(Columns) \in Nat /\ Len(Rows) >= 1 /\ Len(Columns) >= 1
  /\ DOMAIN Rows = 1 .. Len(Rows) /\ DOMAIN Columns = 1 .. Len(Columns)
  /\ \A i \in DOMAIN Rows : Rows[i] \in NonTerminals
  /\ \A j \in DOMAIN Columns : Columns[j] \in Terminals
BY OrderAssumption

LEMMA ConcatFirst ==
  ASSUME NEW S, NEW a \in S, NEW b \in S, NEW q \in Seq(S), NEW r \in Seq(S)
  PROVE  (<<a, b>> \o q \o r)[1] = a
<1>1. <<a, b>> \in Seq(S) /\ Len(<<a, b>>) = 2 /\ <<a, b>>[1] = a OBVIOUS
<1>2. <<a, b>> \o q \in Seq(S) /\ Len(<<a, b>> \o q) >= 2 /\ (<<a, b>> \o q)[1] = a
  BY <1>1
<1> DEFINE u == <<a, b>> \o q
<1>3. u \in Seq(S) /\ Len(u) >= 2 /\ u[1] = a BY <1>2
<1> HIDE DEF u
<1>4. (u \o r)[1] = u[1] BY <1>3
<1> QED BY <1>3, <1>4 DEF u

\* The first word of a cell is its left-hand side.
LEMMA FirstWord ==
  ASSUME NEW nt, NEW t, HasProduction(nt, t)
  PROVE  Words(nt, t)[1] = Table[<<nt, t>>].lhs /\ Table[<<nt, t>>].lhs \in NonTerminals
<1> DEFINE p == Table[<<nt, t>>]
           S == Symbols \cup {Arrow, Epsilon}
           tail == IF p.empty THEN <<Epsilon>> ELSE <<>>
<1>1. p.lhs \in NonTerminals /\ p.rhs \in Seq(Symbols \ {End})
  BY TableAssumption DEF HasProduction
<1>2. p.lhs \in S /\ Arrow \in S BY <1>1 DEF Symbols
<1>3. p.rhs \in Seq(S)
  <2> DEFINE q == p.rhs
             B == Symbols \ {End}
  <2>1. q \in Seq(B) /\ B \subseteq S BY <1>1
  <2> HIDE DEF q, B, S
  <2>2. q \in Seq(S) BY <2>1
  <2> QED BY <2>2 DEF q
<1>4. tail \in Seq(S)
  <2>1. Epsilon \in S OBVIOUS
  <2> HIDE DEF S
  <2>2. <<Epsilon>> \in Seq(S) /\ <<>> \in Seq(S) BY <2>1
  <2> QED BY <2>2
<1>5. Words(nt, t) = <<p.lhs, Arrow>> \o p.rhs \o tail BY DEF Words
<1> HIDE DEF S, tail, p
<1>6. Words(nt, t)[1] = p.lhs BY <1>2, <1>3, <1>4, <1>5, ConcatFirst
<1> QED BY <1>1, <1>6 DEF p

LEMMA FirstOfSymbolType ==
  ASSUME NEW first \in Sets, NEW w
  PROVE  FirstOfSymbol(first, w) \subseteq Terminals
BY DEF FirstOfSymbol, Sets

\* A cell adds nothing to FIRST that its left-hand side has not.
LEMMA FirstAfterIs ==
  ASSUME NEW first \in Sets, NEW nt \in NonTerminals, NEW t
  PROVE  /\ FirstAfter(first, nt, t) \in Sets
         /\ first = NoSets => FirstAfter(first, nt, t) = NoSets
<1>1. CASE ~ HasProduction(nt, t) BY <1>1 DEF FirstAfter
<1>2. CASE HasProduction(nt, t)
  <2> DEFINE w == Words(nt, t)[1]
             added == FirstOfSymbol(first, w)
  <2>1. FirstAfter(first, nt, t) = [first EXCEPT ![nt] = @ \cup added]
    BY <1>2 DEF FirstAfter
  <2>2. added \subseteq Terminals BY FirstOfSymbolType
  <2>3. first = NoSets => added = {}
    <3>1. w \in NonTerminals BY <1>2, FirstWord
    <3>2. w \notin Terminals BY <3>1, SymbolAssumption
    <3> HIDE DEF w
    <3> QED BY <3>1, <3>2 DEF FirstOfSymbol, NoSets
  <2> HIDE DEF added
  <2>4. [first EXCEPT ![nt] = @ \cup added] \in Sets BY <2>2 DEF Sets
  <2>5. first = NoSets => [first EXCEPT ![nt] = @ \cup added] = NoSets
    BY <2>3 DEF NoSets
  <2> QED BY <2>1, <2>4, <2>5
<1> QED BY <1>1, <1>2

LEMMA FollowAfterType ==
  ASSUME NEW first \in Sets, NEW follow \in Sets, NEW nt \in NonTerminals, NEW t
  PROVE  FollowAfter(first, follow, nt, t) \in Sets
<1>1. CASE ~ HasProduction(nt, t) BY <1>1 DEF FollowAfter
<1>2. CASE HasProduction(nt, t)
  <2> DEFINE after(w) == [A \in NonTerminals |-> follow[A] \cup Gained(first, follow, nt, w, A)]
             w0 == Words(nt, t)
  <2>1. \A w, A : FromNext(first, w, A) \subseteq Terminals
    BY FirstOfSymbolType DEF FromNext
  <2>2. \A w, A : Gained(first, follow, nt, w, A) \subseteq Terminals
    <3>1. follow[nt] \subseteq Terminals BY DEF Sets
    <3> QED BY <2>1, <3>1 DEF Gained
  <2>3. after(w0) \in Sets
    BY <2>2 DEF Sets
  <2>4. FollowAfter(first, follow, nt, t) = CHOOSE a \in {after(w) : w \in {w0}} : TRUE
    BY <1>2 DEF FollowAfter
  <2> HIDE DEF after, w0
  <2>5. {after(w) : w \in {w0}} = {after(w0)} OBVIOUS
  <2>6. (CHOOSE a \in {after(w0)} : TRUE) = after(w0) OBVIOUS
  <2> QED BY <2>3, <2>4, <2>5, <2>6
<1> QED BY <1>1, <1>2

LEMMA InitialSets == NoSets \in Sets /\ InitialFollow \in Sets
BY SymbolAssumption DEF NoSets, InitialFollow, Sets

\* The next cell is in the table or the sweep is over, and one more is behind.
LEMMA Advances ==
  ASSUME TypeOK, InSweep, Advance
  PROVE  /\ row' \in 1 .. Len(Rows) + 1 /\ column' \in 1 .. Len(Columns)
         /\ \A i \in DOMAIN Rows, j \in DOMAIN Columns :
              Visited(i, j)' => Visited(i, j) \/ (i = row /\ j = column)
<1>1. row \in 1 .. Len(Rows) /\ column \in 1 .. Len(Columns) /\ Len(Rows) \in Nat /\ Len(Columns) \in Nat
  BY Order DEF TypeOK, InSweep
<1> DEFINE m == Len(Rows)
           n == Len(Columns)
<1>2. DOMAIN Rows = 1 .. m /\ DOMAIN Columns = 1 .. n BY Order
<1>3. \/ column < n /\ row' = row /\ column' = column + 1
      \/ column = n /\ row' = row + 1 /\ column' = 1
  <2>1. column < n \/ column = n BY <1>1
  <2> QED BY <2>1 DEF Advance
<1> SUFFICES /\ row' \in 1 .. m + 1 /\ column' \in 1 .. n
             /\ \A i \in 1 .. m, j \in 1 .. n :
                  Visited(i, j)' => Visited(i, j) \/ (i = row /\ j = column)
  BY <1>2
<1>4. m \in Nat /\ n \in Nat /\ row \in 1 .. m /\ column \in 1 .. n BY <1>1
<1> HIDE DEF m, n
<1> QED BY <1>3, <1>4 DEF Visited

-----------------------------------------------------------------------------

LEMMA InitHolds == Init => IInv
<1> SUFFICES ASSUME Init PROVE IInv
  OBVIOUS
<1>1. TypeOK
  <2>1. 1 \in 1 .. Len(Rows) + 1 /\ 1 \in 1 .. Len(Columns) BY Order
  <2>2. row = 1 /\ column = 1 /\ phase = "first" /\ changed \in BOOLEAN BY DEF Init
  <2>3. firstSets \in Sets /\ followSets \in Sets BY InitialSets DEF Init
  <2> QED BY <2>1, <2>2, <2>3 DEF TypeOK, Sets
<1>2. ASSUME NEW i \in DOMAIN Rows, NEW j \in DOMAIN Columns PROVE ~ Visited(i, j)
  <2>1. i \in Nat /\ j \in Nat /\ i >= 1 /\ j >= 1 BY Order
  <2> QED BY <2>1 DEF Visited, Init
<1>3. Swept BY <1>2 DEF Swept
<1>4. Settled BY DEF Init, Settled
<1> QED BY <1>1, <1>3, <1>4 DEF IInv

LEMMA VisitFirstHolds == IInv /\ VisitFirst => IInv'
<1> SUFFICES ASSUME IInv, VisitFirst PROVE IInv'
  OBVIOUS
<1>1. TypeOK /\ InSweep /\ Advance /\ phase = "first" /\ phase' = "first" /\ followSets' = followSets
      /\ firstSets' = FirstAfter(firstSets, Rows[row], Columns[column])
      /\ changed' = (changed \/ firstSets' # firstSets)
  BY DEF IInv, VisitFirst, Noted
<1>2. row \in DOMAIN Rows /\ column \in DOMAIN Columns
  BY <1>1, Order DEF TypeOK, InSweep
<1>3. firstSets' \in Sets
  BY <1>1, <1>2, Order, FirstAfterIs DEF TypeOK, Sets
<1>4. TypeOK'
  BY <1>1, <1>3, Advances DEF TypeOK, Sets
<1>5. Swept'
  <2>1. SUFFICES ASSUME ~ changed', NEW i \in DOMAIN Rows, NEW j \in DOMAIN Columns, Visited(i, j)'
                 PROVE  FirstSettled(i, j)'
    BY <1>1 DEF Swept
  <2>2. ~ changed /\ firstSets' = firstSets
    BY <1>1, <2>1
  <2>3. CASE Visited(i, j)
    BY <1>1, <2>2, <2>3 DEF IInv, Swept, FirstSettled
  <2>4. CASE i = row /\ j = column
    BY <1>1, <2>2, <2>4 DEF FirstSettled
  <2> QED BY <1>1, <2>1, <2>3, <2>4, Advances
<1>6. Settled'
  BY <1>1 DEF Settled
<1> QED BY <1>4, <1>5, <1>6 DEF IInv

LEMMA VisitFollowHolds == IInv /\ VisitFollow => IInv'
<1> SUFFICES ASSUME IInv, VisitFollow PROVE IInv'
  OBVIOUS
<1>1. TypeOK /\ InSweep /\ Advance /\ phase = "follow" /\ phase' = "follow" /\ firstSets' = firstSets
      /\ followSets' = FollowAfter(firstSets, followSets, Rows[row], Columns[column])
      /\ changed' = (changed \/ followSets' # followSets)
  BY DEF IInv, VisitFollow, Noted
<1>2. row \in DOMAIN Rows /\ column \in DOMAIN Columns
  BY <1>1, Order DEF TypeOK, InSweep
<1>3. followSets' \in Sets
  BY <1>1, <1>2, Order, FollowAfterType DEF TypeOK, Sets
<1>4. TypeOK'
  BY <1>1, <1>3, Advances DEF TypeOK, Sets
<1>5. Swept'
  <2>1. SUFFICES ASSUME ~ changed', NEW i \in DOMAIN Rows, NEW j \in DOMAIN Columns, Visited(i, j)'
                 PROVE  FollowSettled(i, j)'
    BY <1>1 DEF Swept
  <2>2. ~ changed /\ followSets' = followSets
    BY <1>1, <2>1
  <2>3. CASE Visited(i, j)
    BY <1>1, <2>2, <2>3 DEF IInv, Swept, FollowSettled
  <2>4. CASE i = row /\ j = column
    BY <1>1, <2>2, <2>4 DEF FollowSettled
  <2> QED BY <1>1, <2>1, <2>3, <2>4, Advances
<1>6. Settled'
  BY <1>1 DEF Settled, IInv, FirstSettled
<1> QED BY <1>4, <1>5, <1>6 DEF IInv

\* At the start of a sweep no cell is behind.
LEMMA SweepStarts ==
  ASSUME StartSweep
  PROVE  row' = 1 /\ column' = 1 /\ changed' = FALSE /\ Swept'
<1>1. row' = 1 /\ column' = 1 /\ changed' = FALSE BY DEF StartSweep
<1>2. ASSUME NEW i \in DOMAIN Rows, NEW j \in DOMAIN Columns PROVE ~ Visited(i, j)'
  <2>1. i \in Nat /\ j \in Nat /\ i >= 1 /\ j >= 1 BY Order
  <2> QED BY <1>1, <2>1 DEF Visited
<1> QED BY <1>1, <1>2 DEF Swept

LEMMA SweepAgainHolds == IInv /\ SweepAgain => IInv'
<1> SUFFICES ASSUME IInv, SweepAgain PROVE IInv'
  OBVIOUS
<1>1. StartSweep /\ phase' = phase /\ firstSets' = firstSets /\ followSets' = followSets
  BY DEF SweepAgain
<1>2. TypeOK' BY <1>1, SweepStarts, Order DEF IInv, TypeOK
<1>3. Settled' BY <1>1 DEF IInv, Settled, FirstSettled, FollowSettled
<1> QED BY <1>1, <1>2, <1>3, SweepStarts DEF IInv

\* When the sweep is over all cells are behind.
LEMMA SweepEnds ==
  ASSUME TypeOK, ~ InSweep
  PROVE  \A i \in DOMAIN Rows, j \in DOMAIN Columns : Visited(i, j)
BY Order DEF TypeOK, InSweep, Visited

LEMMA EndFirstHolds == IInv /\ EndFirst => IInv'
<1> SUFFICES ASSUME IInv, EndFirst PROVE IInv'
  OBVIOUS
<1>1. /\ StartSweep /\ phase = "first" /\ phase' = "follow" /\ ~ changed /\ ~ InSweep
      /\ firstSets' = firstSets /\ followSets' = InitialFollow
  BY DEF EndFirst
<1>2. TypeOK' BY <1>1, SweepStarts, Order, InitialSets DEF IInv, TypeOK, Sets
<1>3. Settled'
  <2>1. \A i \in DOMAIN Rows, j \in DOMAIN Columns : FirstSettled(i, j)
    BY <1>1, SweepEnds DEF IInv, Swept
  <2> QED BY <1>1, <2>1 DEF Settled, FirstSettled
<1> QED BY <1>1, <1>2, <1>3, SweepStarts DEF IInv

LEMMA EndFollowHolds == IInv /\ EndFollow => IInv'
<1> SUFFICES ASSUME IInv, EndFollow PROVE IInv'
  OBVIOUS
<1>1. /\ phase = "follow" /\ phase' = "ready" /\ ~ changed /\ ~ InSweep
      /\ UNCHANGED <<firstSets, followSets, row, column, changed>>
  BY DEF EndFollow
<1>2. TypeOK' BY <1>1 DEF IInv, TypeOK
<1>3. Settled'
  <2>1. \A i \in DOMAIN Rows, j \in DOMAIN Columns : FollowSettled(i, j)
    BY <1>1, SweepEnds DEF IInv, Swept
  <2> QED BY <1>1, <2>1 DEF IInv, Settled, FirstSettled, FollowSettled
<1>4. Swept' BY <1>1 DEF Swept
<1> QED BY <1>2, <1>3, <1>4 DEF IInv

LEMMA NextHolds == IInv /\ [Next]_vars => IInv'
<1> SUFFICES ASSUME IInv, [Next]_vars PROVE IInv'
  OBVIOUS
<1>1. CASE Next
  BY <1>1, VisitFirstHolds, VisitFollowHolds, SweepAgainHolds, EndFirstHolds, EndFollowHolds DEF Next
<1>2. CASE UNCHANGED vars
  BY <1>2 DEF vars, IInv, TypeOK, Swept, Settled, Visited, FirstSettled, FollowSettled
<1> QED BY <1>1, <1>2

LEMMA Invariant == Spec => []IInv
BY InitHolds, NextHolds, PTL DEF Spec

-----------------------------------------------------------------------------

\* The sets stay sets of terminals and the sweep stays in the table.
THEOREM TableTypes == Spec => []TypeOK
<1>1. IInv => TypeOK BY DEF IInv
<1> QED BY Invariant, <1>1, PTL

\* Whatever the table and its order, the construction ends where no cell adds anything.
THEOREM FixpointIsReached == Spec => []EndsAtFixpoint
<1>1. IInv => EndsAtFixpoint
  <2> SUFFICES ASSUME IInv, phase = "ready", NEW c \in DOMAIN Table
               PROVE  /\ FirstAfter(firstSets, c[1], c[2]) = firstSets
                      /\ FollowAfter(firstSets, followSets, c[1], c[2]) = followSets
    BY DEF EndsAtFixpoint
  <2>1. c[1] \in NonTerminals /\ c[2] \in Terminals BY TableAssumption
  <2>2. PICK i \in DOMAIN Rows : Rows[i] = c[1] BY <2>1, OrderAssumption
  <2>3. PICK j \in DOMAIN Columns : Columns[j] = c[2] BY <2>1, OrderAssumption
  <2>4. FirstSettled(i, j) /\ FollowSettled(i, j) BY DEF IInv, Settled
  <2> QED BY <2>2, <2>3, <2>4 DEF FirstSettled, FollowSettled
<1> QED BY Invariant, <1>1, PTL

\* Whatever the table, its FIRST sets stay empty: the first word of the text of a cell
\* is its left-hand side, a nonterminal.
THEOREM FirstSetsStayEmpty == Spec => [](firstSets = NoSets)
<1>1. Init => firstSets = NoSets BY DEF Init
<1>2. ASSUME IInv, firstSets = NoSets, [Next]_vars
      PROVE  (firstSets = NoSets)'
  <2>1. CASE VisitFirst
    <3>1. row \in DOMAIN Rows BY <1>2, <2>1, Order DEF IInv, VisitFirst, InSweep, TypeOK
    <3>2. Rows[row] \in NonTerminals BY <3>1, Order
    <3>3. firstSets' = FirstAfter(firstSets, Rows[row], Columns[column]) BY <2>1 DEF VisitFirst
    <3>4. firstSets' = NoSets BY <1>2, <3>2, <3>3, FirstAfterIs, InitialSets
    <3> QED BY <3>4 DEF NoSets
  <2>2. CASE ~ VisitFirst
    <3>1. firstSets' = firstSets
      BY <1>2, <2>2 DEF Next, VisitFollow, SweepAgain, EndFirst, EndFollow, vars
    <3> QED BY <1>2, <3>1 DEF NoSets
  <2> QED BY <2>1, <2>2
<1>3. IInv /\ firstSets = NoSets /\ [Next]_vars => (firstSets = NoSets)'
  BY <1>2
<1> QED BY Invariant, <1>1, <1>3, PTL DEF Spec

-----------------------------------------------------------------------------

Closed(edges, T) == Targets(edges, T) \subseteq T

\* The step of the definition of Reached.
ReachedStep(edges, r, S) ==
  IF Targets(edges, S) \subseteq S THEN S ELSE r[S \cup Targets(edges, S)]

LEMMA TargetsGrow ==
  ASSUME NEW edges, NEW S, NEW T, S \subseteq T
  PROVE  Targets(edges, S) \subseteq Targets(edges, T)
BY DEF Targets

LEMMA TargetsAreSymbols ==
  ASSUME NEW edges \in SUBSET (Symbols \X Symbols), NEW S
  PROVE  Targets(edges, S) \subseteq Symbols
BY DEF Targets

\* The least closed sets are a solution.
LEMMA ReachedIs ==
  ASSUME NEW edges \in SUBSET (Symbols \X Symbols)
  PROVE  Reached(edges) = [S \in SUBSET Symbols |-> ReachedStep(edges, Reached(edges), S)]
<1> DEFINE Least(S) == {x \in Symbols : \A T \in SUBSET Symbols :
                                          S \subseteq T /\ Closed(edges, T) => x \in T}
           f == [S \in SUBSET Symbols |-> Least(S)]
<1>1. ASSUME NEW S \in SUBSET Symbols
      PROVE  f[S] = ReachedStep(edges, f, S)
  <2> DEFINE U == S \cup Targets(edges, S)
  <2>0. U \in SUBSET Symbols
    BY TargetsAreSymbols
  <2>1. CASE Closed(edges, S)
    <3>1. Least(S) = S
      BY <2>1
    <3> QED BY <2>1, <3>1 DEF Closed, ReachedStep
  <2>2. CASE ~ Closed(edges, S)
    <3>1. ASSUME NEW T \in SUBSET Symbols, Closed(edges, T)
          PROVE  S \subseteq T <=> U \subseteq T
      BY <3>1, TargetsGrow DEF Closed
    <3>2. Least(S) = Least(U)
      BY <3>1
    <3>3. f[S] = Least(S) /\ f[U] = Least(U)
      BY <2>0
    <3>4. ReachedStep(edges, f, S) = f[U]
      BY <2>2 DEF Closed, ReachedStep
    <3> QED BY <3>2, <3>3, <3>4
  <2> QED BY <2>1, <2>2
<1> HIDE DEF Least
<1>2. f = [S \in SUBSET Symbols |-> ReachedStep(edges, f, S)]
  <2> HIDE DEF f
  <2>1. f = [S \in SUBSET Symbols |-> f[S]]
    BY DEF f
  <2> QED BY <1>1, <2>1
<1> HIDE DEF f
<1> QED BY <1>2 DEF Reached, ReachedStep

\* A symbol that is reached is reached by an edge from one that is reached.
LEMMA ReachedCloses ==
  ASSUME NEW edges \in SUBSET (Symbols \X Symbols)
  PROVE  \A S \in SUBSET Symbols :
           /\ S \subseteq Reached(edges)[S] /\ Reached(edges)[S] \in SUBSET Symbols
           /\ Closed(edges, Reached(edges)[S])
           /\ \A T \in SUBSET Symbols : S \subseteq T /\ Closed(edges, T)
                                          => Reached(edges)[S] \subseteq T
<1> DEFINE r == Reached(edges)
           Good(S) == /\ S \subseteq r[S] /\ r[S] \in SUBSET Symbols
                      /\ Closed(edges, r[S])
                      /\ \A T \in SUBSET Symbols : S \subseteq T /\ Closed(edges, T) => r[S] \subseteq T
           P == {n \in Nat : \A S \in SUBSET Symbols : Cardinality(Symbols \ S) <= n => Good(S)}
<1>0. \A S \in SUBSET Symbols : r[S] = ReachedStep(edges, r, S)
  BY ReachedIs
<1> HIDE DEF r
<1>1. ASSUME NEW S \in SUBSET Symbols, Closed(edges, S)
      PROVE  Good(S)
  <2>1. r[S] = S
    BY <1>0, <1>1 DEF ReachedStep, Closed
  <2> QED BY <1>1, <2>1
<1>2. ASSUME NEW S \in SUBSET Symbols, ~ Closed(edges, S), Good(S \cup Targets(edges, S))
      PROVE  Good(S)
  <2> DEFINE U == S \cup Targets(edges, S)
  <2>1. r[S] = r[U]
    BY <1>0, <1>2 DEF ReachedStep, Closed
  <2>2. ASSUME NEW T \in SUBSET Symbols, S \subseteq T, Closed(edges, T)
        PROVE  U \subseteq T
    BY <2>2, TargetsGrow DEF Closed
  <2>3. /\ U \subseteq r[U] /\ r[U] \in SUBSET Symbols /\ Closed(edges, r[U])
        /\ \A T \in SUBSET Symbols : U \subseteq T /\ Closed(edges, T) => r[U] \subseteq T
    BY <1>2
  <2>4. S \subseteq U
    OBVIOUS
  <2> HIDE DEF U
  <2> QED BY <2>1, <2>2, <2>3, <2>4
<1>3. ASSUME NEW S \in SUBSET Symbols
      PROVE  IsFiniteSet(Symbols \ S) /\ Cardinality(Symbols \ S) \in Nat
  <2>1. IsFiniteSet(Symbols \ S)
    BY MarksAssumption, FS_Subset
  <2> QED BY <2>1, FS_CardinalityType
<1>4. ASSUME NEW S \in SUBSET Symbols, NEW U \in SUBSET Symbols, S \subseteq U, S # U
      PROVE  Cardinality(Symbols \ U) < Cardinality(Symbols \ S)
  <2>1. Symbols \ U \subseteq Symbols \ S /\ Symbols \ U # Symbols \ S
    BY <1>4
  <2>2. IsFiniteSet(Symbols \ S)
    BY <1>3
  <2>3. Cardinality(Symbols \ U) <= Cardinality(Symbols \ S)
    BY <2>1, <2>2, FS_Subset
  <2>4. Cardinality(Symbols \ U) # Cardinality(Symbols \ S)
    BY <2>1, <2>2, FS_Subset
  <2> QED BY <1>3, <2>3, <2>4
<1> HIDE DEF Good
<1>5. 0 \in P
  <2>1. ASSUME NEW S \in SUBSET Symbols, Cardinality(Symbols \ S) <= 0
        PROVE  Good(S)
    <3>1. S = Symbols
      <4>1. Cardinality(Symbols \ S) = 0 /\ IsFiniteSet(Symbols \ S)
        BY <1>3, <2>1
      <4>2. Symbols \ S = {}
        BY <4>1, FS_EmptySet
      <4> QED BY <4>2
    <3>2. Closed(edges, S)
      BY <3>1, TargetsAreSymbols DEF Closed
    <3> QED BY <1>1, <3>2
  <2> QED BY <2>1
<1>6. ASSUME NEW n \in Nat, n \in P
      PROVE  n + 1 \in P
  <2> SUFFICES ASSUME NEW S \in SUBSET Symbols, Cardinality(Symbols \ S) <= n + 1
               PROVE  Good(S)
    OBVIOUS
  <2>1. CASE Closed(edges, S)
    BY <1>1, <2>1
  <2>2. CASE ~ Closed(edges, S)
    <3> DEFINE U == S \cup Targets(edges, S)
    <3>1. U \in SUBSET Symbols /\ S \subseteq U /\ S # U
      BY <2>2, TargetsAreSymbols DEF Closed
    <3>2. Cardinality(Symbols \ U) < Cardinality(Symbols \ S)
      BY <1>4, <3>1
    <3>3. Cardinality(Symbols \ U) <= n
      <4> HIDE DEF U
      <4>1. Cardinality(Symbols \ U) \in Nat /\ Cardinality(Symbols \ S) \in Nat
        BY <1>3, <3>1
      <4> QED BY <3>2, <4>1
    <3>4. Good(U)
      BY <1>6, <3>1, <3>3
    <3> QED BY <1>2, <2>2, <3>4
  <2> QED BY <2>1, <2>2
<1>7. ASSUME NEW S \in SUBSET Symbols
      PROVE  Good(S)
  <2> HIDE DEF P
  <2>1. Nat \subseteq P
    BY <1>5, <1>6, CountingOn
  <2>2. Cardinality(Symbols \ S) \in P /\ Cardinality(Symbols \ S) \in Nat
    BY <1>3, <2>1
  <2> QED BY <2>2 DEF P
<1> QED BY <1>7 DEF Good, r

\* What an edge leads to is reached.
LEMMA EdgesLead ==
  ASSUME NEW edges \in SUBSET (Symbols \X Symbols), NEW A \in NonTerminals
  PROVE  /\ \A t \in Terminals : <<A, t>> \in edges => t \in ReachableTerminals(edges)[A]
         /\ \A B \in NonTerminals : <<A, B>> \in edges =>
              ReachableTerminals(edges)[B] \subseteq ReachableTerminals(edges)[A]
<1> DEFINE r == Reached(edges)
<1>1. \A B \in NonTerminals :
        /\ {B} \subseteq r[{B}] /\ r[{B}] \in SUBSET Symbols /\ Closed(edges, r[{B}])
        /\ \A T \in SUBSET Symbols : {B} \subseteq T /\ Closed(edges, T) => r[{B}] \subseteq T
  <2>1. \A B \in NonTerminals : {B} \in SUBSET Symbols
    BY DEF Symbols
  <2> QED BY <2>1, ReachedCloses
<1>2. \A B \in NonTerminals : ReachableTerminals(edges)[B] = r[{B}] \cap Terminals
  BY DEF ReachableTerminals
<1> HIDE DEF r
<1>3. A \in r[{A}] /\ Targets(edges, r[{A}]) \subseteq r[{A}] /\ r[{A}] \in SUBSET Symbols
  BY <1>1 DEF Closed
<1>4. ASSUME NEW x, <<A, x>> \in edges
      PROVE  x \in r[{A}]
  <2>1. x \in Targets(edges, r[{A}])
    BY <1>3, <1>4 DEF Targets
  <2> QED BY <1>3, <2>1
<1>5. ASSUME NEW B \in NonTerminals, <<A, B>> \in edges
      PROVE  r[{B}] \subseteq r[{A}]
  <2>1. {B} \subseteq r[{A}] /\ Closed(edges, r[{A}])
    BY <1>1, <1>4, <1>5
  <2> QED BY <1>1, <1>3, <2>1
<1> QED BY <1>2, <1>4, <1>5

LEMMA FirstGivenType ==
  ASSUME NEW N
  PROVE  FirstGiven(N) \in Sets
BY DEF FirstGiven, ReachableTerminals, Sets

\* The edges of FOLLOW lead from the nonterminals to terminals and nonterminals.
LEMMA FollowEdgesAre ==
  ASSUME NEW N, NEW first \in Sets
  PROVE  FollowEdges(N, first) \in SUBSET (Symbols \X Symbols)
<1>1. ASSUME NEW p \in Productions, NEW w
      PROVE  After(N, first, p, w) \subseteq Symbols
  <2>1. FirstOfString(N, first, w) \subseteq Terminals
    BY FirstOfSymbolType DEF FirstOfString
  <2>2. p[1] \in NonTerminals
    BY TableAssumption DEF Productions
  <2> QED BY <2>1, <2>2 DEF After, Symbols
<1>2. ASSUME NEW p \in Productions, NEW i \in Occurrences(p)
      PROVE  {p[2][i]} \X After(N, first, p, SubSeq(p[2], i + 1, Len(p[2])))
               \subseteq Symbols \X Symbols
  <2>1. p[2][i] \in Symbols
    BY DEF Occurrences, Symbols
  <2> QED BY <1>1, <2>1
<1>3. <<Start, End>> \in Symbols \X Symbols
  BY SymbolAssumption DEF Symbols
<1> QED BY <1>2, <1>3 DEF FollowEdges

IsJoined(c, a, b) ==
  /\ Len(c) = Len(a) + Len(b)
  /\ \A i \in 1 .. Len(a) : c[i] = a[i]
  /\ \A i \in 1 .. Len(b) : c[i + Len(a)] = b[i]

LEMMA Joined ==
  ASSUME NEW S, NEW a \in Seq(S), NEW b \in Seq(S)
  PROVE  a \o b \in Seq(S) /\ IsJoined(a \o b, a, b)
<1> DEFINE c == a \o b
<1>1. c \in Seq(S) /\ Len(c) = Len(a) + Len(b)
  OBVIOUS
<1>2. ASSUME NEW i \in 1 .. Len(a)
      PROVE  c[i] = a[i]
  OBVIOUS
<1>3. ASSUME NEW i \in 1 .. Len(b)
      PROVE  c[i + Len(a)] = b[i]
  <2>1. Len(a) \in Nat /\ Len(b) \in Nat
    OBVIOUS
  <2>2. PICK j : j = i + Len(a)
    OBVIOUS
  <2>3. j \in Nat /\ j > Len(a) /\ j <= Len(a) + Len(b) /\ j - Len(a) = i
    BY <2>1, <2>2
  <2>4. c[j] = b[j - Len(a)]
    BY <2>3
  <2> QED BY <2>2, <2>3, <2>4
<1> QED BY <1>1, <1>2, <1>3 DEF IsJoined

\* The words of a cell: its left-hand side, an arrow, its right-hand side, a mark.
LEMMA WordsAre ==
  ASSUME NEW nt, NEW t, HasProduction(nt, t),
         NEW w, w = Words(nt, t), NEW rhs, rhs = Table[<<nt, t>>].rhs
  PROVE  /\ rhs \in Seq(Symbols)
         /\ w[1] \in NonTerminals /\ w[2] = Arrow
         /\ \A i \in 1 .. Len(rhs) : w[i + 2] = rhs[i]
         /\ \/ Len(w) = Len(rhs) + 2
            \/ Len(w) = Len(rhs) + 3 /\ w[Len(w)] = Epsilon
<1> DEFINE p == Table[<<nt, t>>]
           S == Symbols \cup {Arrow, Epsilon}
           tail == IF p.empty THEN <<Epsilon>> ELSE <<>>
<1>1. p.lhs \in NonTerminals /\ rhs \in Seq(Symbols \ {End})
  BY TableAssumption DEF HasProduction
<1>2. p.lhs \in S /\ Arrow \in S /\ Epsilon \in S
  BY <1>1 DEF Symbols
<1>3. rhs \in Seq(Symbols) /\ rhs \in Seq(S)
  <2> DEFINE B == Symbols \ {End}
  <2>1. B \subseteq Symbols /\ B \subseteq S /\ rhs \in Seq(B)
    BY <1>1
  <2> HIDE DEF B, S
  <2> QED BY <2>1
<1>4. w = <<p.lhs, Arrow>> \o rhs \o tail
  BY DEF Words
<1> DEFINE l == p.lhs
           a == <<l, Arrow>>
           u == a \o rhs
<1>5. a \in Seq(S) /\ Len(a) = 2 /\ a[1] = l /\ a[2] = Arrow
  <2> HIDE DEF l, S
  <2> QED BY <1>2 DEF l
<1>6. tail \in Seq(S) /\ (Len(tail) = 0 \/ (Len(tail) = 1 /\ tail[1] = Epsilon))
  <2> HIDE DEF S
  <2>1. CASE p.empty
    BY <1>2, <2>1
  <2>2. CASE ~ p.empty
    <3>1. tail = <<>>
      BY <2>2
    <3>2. <<>> \in Seq(S) /\ Len(<<>>) = 0
      OBVIOUS
    <3> HIDE DEF tail
    <3>3. tail \in Seq(S) BY <3>1, <3>2, Zenon
    <3>4. Len(tail) = 0 BY <3>1, <3>2, Zenon
    <3> QED BY <3>3, <3>4
  <2> QED BY <2>1, <2>2
<1>7. w = u \o tail
  BY <1>4
<1>8. Len(rhs) \in Nat
  BY <1>3
<1> HIDE DEF a, S, tail, p
<1>9. u \in Seq(S) /\ IsJoined(u, a, rhs)
  BY <1>3, <1>5, Joined, Zenon
<1> HIDE DEF u, l
<1>10. IsJoined(w, u, tail)
  <2>1. u \o tail \in Seq(S) /\ IsJoined(u \o tail, u, tail)
    BY <1>6, <1>9, Joined, Zenon
  <2> QED BY <1>7, <2>1
<1>11. w[1] = l /\ w[2] = Arrow
  <2>1. Len(u) = Len(rhs) + 2 /\ u[1] = l /\ u[2] = Arrow
    BY <1>5, <1>8, <1>9 DEF IsJoined
  <2>2. 1 \in 1 .. Len(u) /\ 2 \in 1 .. Len(u)
    BY <1>8, <2>1
  <2>3. \A i \in 1 .. Len(u) : w[i] = u[i]
    BY <1>10 DEF IsJoined
  <2> QED BY <2>1, <2>2, <2>3
<1>12. \A i \in 1 .. Len(rhs) : w[i + 2] = rhs[i]
  <2>1. TAKE i \in 1 .. Len(rhs)
  <2>2. u[i + 2] = rhs[i] /\ i + 2 \in 1 .. Len(u)
    <3>1. u[i + Len(a)] = rhs[i] /\ Len(u) = Len(a) + Len(rhs)
      BY <1>9 DEF IsJoined
    <3>2. Len(a) = 2 /\ i + Len(a) = i + 2
      BY <1>5
    <3>3. i + 2 \in 1 .. Len(u)
      BY <1>8, <3>1, <3>2
    <3> QED BY <3>1, <3>2, <3>3
  <2>3. PICK k : k = i + 2
    OBVIOUS
  <2>4. k \in 1 .. Len(u) /\ u[k] = rhs[i]
    BY <2>2, <2>3
  <2>5. w[k] = u[k]
    BY <1>10, <2>4 DEF IsJoined
  <2> QED BY <2>3, <2>4, <2>5
<1>13. \/ Len(w) = Len(rhs) + 2
       \/ Len(w) = Len(rhs) + 3 /\ w[Len(w)] = Epsilon
  <2>1. Len(u) = Len(rhs) + 2
    BY <1>5, <1>8, <1>9 DEF IsJoined
  <2>2. CASE Len(tail) = 0
    BY <1>8, <1>10, <2>1, <2>2 DEF IsJoined
  <2>3. CASE Len(tail) = 1 /\ tail[1] = Epsilon
    <3>1. Len(w) = Len(rhs) + 3 /\ Len(w) = 1 + Len(u)
      BY <1>8, <1>10, <2>1, <2>3 DEF IsJoined
    <3>2. 1 \in 1 .. Len(tail)
      BY <2>3
    <3>3. w[1 + Len(u)] = tail[1]
      BY <1>10, <3>2 DEF IsJoined
    <3> QED BY <2>3, <3>1, <3>3
  <2> QED BY <1>6, <2>2, <2>3
<1>14. w[1] \in NonTerminals
  BY <1>1, <1>11 DEF l
<1> QED BY <1>3, <1>11, <1>12, <1>13, <1>14

\* The nonterminals of a right-hand side have the edges of what is after them.
LEMMA OccurrenceEdges ==
  ASSUME NEW N, NEW first, NEW nt, NEW t, HasProduction(nt, t),
         NEW rhs, rhs = Table[<<nt, t>>].rhs,
         NEW i \in DOMAIN rhs, rhs[i] \in NonTerminals,
         NEW x \in FirstOfString(N, first, SubSeq(rhs, i + 1, Len(rhs)))
           \cup (IF Vanishes(N, SubSeq(rhs, i + 1, Len(rhs))) THEN {nt} ELSE {})
  PROVE  <<rhs[i], x>> \in FollowEdges(N, first)
<1> DEFINE p == <<nt, rhs>>
<1>1. p \in Productions
  BY DEF Productions, HasProduction
<1>2. p[1] = nt /\ p[2] = rhs
  OBVIOUS
<1> HIDE DEF p
<1>3. i \in Occurrences(p)
  BY <1>2 DEF Occurrences
<1>4. x \in After(N, first, p, SubSeq(p[2], i + 1, Len(p[2])))
  BY <1>2 DEF After
<1>5. <<rhs[i], x>> \in {p[2][i]} \X After(N, first, p, SubSeq(p[2], i + 1, Len(p[2])))
  BY <1>2, <1>4
<1> QED BY <1>1, <1>3, <1>5 DEF FollowEdges

\* The next word of a cell follows the nonterminal before it.
LEMMA NextWordFollows ==
  ASSUME NEW N, NEW first \in Sets, NEW nt, NEW t, HasProduction(nt, t),
         NEW A \in NonTerminals, NEW x \in FromNext(NoSets, Words(nt, t), A)
  PROVE  x \in Terminals /\ <<A, x>> \in FollowEdges(N, first)
<1> DEFINE w == Words(nt, t)
           rhs == Table[<<nt, t>>].rhs
<1>1. /\ rhs \in Seq(Symbols) /\ w[2] = Arrow
      /\ \A i \in 1 .. Len(rhs) : w[i + 2] = rhs[i]
      /\ \/ Len(w) = Len(rhs) + 2
         \/ Len(w) = Len(rhs) + 3 /\ w[Len(w)] = Epsilon
  BY WordsAre
<1>2. PICK i \in 1 .. Len(w) - 1 : w[i] = A /\ x \in FirstOfSymbol(NoSets, w[i + 1])
  BY DEF FromNext
<1> HIDE DEF w
<1>3. w[i + 1] \in Terminals /\ x = w[i + 1]
  BY <1>2 DEF FirstOfSymbol, NoSets
<1>4. Arrow \notin Terminals /\ Arrow \notin NonTerminals /\ Epsilon \notin Terminals
  BY MarksAssumption
<1>5. Len(rhs) \in Nat /\ DOMAIN rhs = 1 .. Len(rhs)
  BY <1>1
<1> HIDE DEF rhs
<1>6. i # 1 /\ i # 2
  BY <1>1, <1>2, <1>3, <1>4
<1> DEFINE j == i - 2
<1>7. i \in Int /\ i <= Len(w) - 1 /\ i >= 3
  BY <1>1, <1>2, <1>5, <1>6
<1>8. j \in Nat /\ j >= 1 /\ j <= Len(rhs) /\ i = j + 2
  BY <1>1, <1>5, <1>7
<1>9. j + 1 <= Len(rhs)
  <2>1. CASE Len(w) = Len(rhs) + 2
    BY <1>5, <1>7, <2>1
  <2>2. CASE Len(w) = Len(rhs) + 3 /\ w[Len(w)] = Epsilon
    <3>1. i + 1 # Len(w)
      BY <1>3, <1>4, <2>2
    <3> QED BY <1>5, <1>7, <2>2, <3>1
  <2> QED BY <1>1, <2>1, <2>2
<1>10. rhs[j] = A
  <2>1. j \in 1 .. Len(rhs)
    BY <1>5, <1>8
  <2> HIDE DEF j
  <2> QED BY <1>1, <1>2, <1>8, <2>1
<1>11. rhs[j + 1] = x
  <2>1. j + 1 \in 1 .. Len(rhs) /\ (j + 1) + 2 = i + 1
    BY <1>5, <1>8, <1>9
  <2> DEFINE k == j + 1
  <2> HIDE DEF k
  <2>2. k \in 1 .. Len(rhs) /\ k + 2 = i + 1
    BY <2>1 DEF k
  <2> QED BY <1>1, <1>3, <2>2 DEF k
<1> HIDE DEF j
<1> DEFINE rest == SubSeq(rhs, j + 1, Len(rhs))
<1>12. rest \in Seq(Symbols) /\ Len(rest) >= 1 /\ rest[1] = x
  BY <1>1, <1>5, <1>8, <1>9, <1>11
<1>13. x \in Beginnings(N, rest)
  <2> HIDE DEF rest
  <2>1. 1 \in DOMAIN rest
    BY <1>12
  <2>2. Vanishes(N, SubSeq(rest, 1, 1 - 1))
    BY <1>12 DEF Vanishes
  <2> QED BY <1>12, <2>1, <2>2 DEF Beginnings
<1>14. x \in FirstOfString(N, first, rest)
  <2> HIDE DEF rest
  <2>1. x \in FirstOfSymbol(first, x)
    <3>1. x \in Terminals
      BY <1>3
    <3> QED BY <3>1, SymbolAssumption DEF FirstOfSymbol
  <2> QED BY <1>13, <2>1 DEF FirstOfString
<1>15. <<rhs[j], x>> \in FollowEdges(N, first)
  <2>1. j \in DOMAIN rhs
    BY <1>5, <1>8
  <2> QED BY <1>10, <1>14, <2>1, OccurrenceEdges DEF rhs
<1> QED BY <1>3, <1>10, <1>15

\* What follows the row of a cell follows its last word.
LEMMA LastWordFollows ==
  ASSUME NEW N, NEW first \in Sets, NEW nt, NEW t, HasProduction(nt, t),
         NEW A \in NonTerminals, IsLast(Words(nt, t), A)
  PROVE  <<A, nt>> \in FollowEdges(N, first)
<1> DEFINE w == Words(nt, t)
           rhs == Table[<<nt, t>>].rhs
<1>1. /\ rhs \in Seq(Symbols) /\ w[2] = Arrow
      /\ \A i \in 1 .. Len(rhs) : w[i + 2] = rhs[i]
      /\ \/ Len(w) = Len(rhs) + 2
         \/ Len(w) = Len(rhs) + 3 /\ w[Len(w)] = Epsilon
  BY WordsAre
<1>2. w[Len(w)] = A
  BY DEF IsLast
<1>3. Arrow \notin NonTerminals /\ Epsilon \notin NonTerminals
  BY MarksAssumption
<1> HIDE DEF w, rhs
<1>4. Len(rhs) \in Nat /\ DOMAIN rhs = 1 .. Len(rhs)
  BY <1>1
<1>5. Len(w) = Len(rhs) + 2 /\ Len(rhs) # 0
  BY <1>1, <1>2, <1>3, <1>4
<1>6. Len(rhs) \in DOMAIN rhs /\ rhs[Len(rhs)] = A
  BY <1>1, <1>2, <1>4, <1>5
<1> DEFINE k == Len(rhs)
           rest == SubSeq(rhs, k + 1, Len(rhs))
<1>7. Vanishes(N, rest)
  <2>1. rest = <<>>
    BY <1>1, <1>4
  <2> QED BY <2>1 DEF Vanishes
<1>8. <<rhs[k], nt>> \in FollowEdges(N, first)
  <2> HIDE DEF k
  <2>1. k \in DOMAIN rhs /\ rhs[k] \in NonTerminals
    BY <1>6 DEF k
  <2> QED BY <1>7, <2>1, OccurrenceEdges DEF rhs
<1> QED BY <1>6, <1>8

-----------------------------------------------------------------------------

Sound(follow) == Within(follow, TextbookFollow)

\* The edges of the textbook's FOLLOW.
LEMMA TextbookEdges ==
  \E edges \in SUBSET (Symbols \X Symbols) :
    /\ edges = FollowEdges(Nullable, FirstGiven(Nullable))
    /\ TextbookFollow = ReachableTerminals(edges)
<1>1. FollowEdges(Nullable, FirstGiven(Nullable)) \in SUBSET (Symbols \X Symbols)
  BY FirstGivenType, FollowEdgesAre
<1> QED BY <1>1 DEF TextbookFollow, FollowOf, FollowGiven

\* What a cell adds to the FOLLOW sets follows.
LEMMA CellsAreSound ==
  ASSUME NEW follow \in Sets, Sound(follow), NEW nt \in NonTerminals, NEW t
  PROVE  Sound(FollowAfter(NoSets, follow, nt, t))
<1>1. CASE ~ HasProduction(nt, t)
  BY <1>1 DEF FollowAfter
<1>2. CASE HasProduction(nt, t)
  <2>1. PICK edges \in SUBSET (Symbols \X Symbols) :
               /\ edges = FollowEdges(Nullable, FirstGiven(Nullable))
               /\ TextbookFollow = ReachableTerminals(edges)
    BY TextbookEdges
  <2>2. FirstGiven(Nullable) \in Sets
    BY FirstGivenType
  <2> DEFINE w0 == Words(nt, t)
  <2>3. ASSUME NEW A \in NonTerminals
        PROVE  FromNext(NoSets, w0, A) \subseteq TextbookFollow[A]
    <3>1. ASSUME NEW x \in FromNext(NoSets, w0, A)
          PROVE  x \in TextbookFollow[A]
      <4>1. x \in Terminals /\ <<A, x>> \in edges
        BY <1>2, <2>1, <2>2, NextWordFollows
      <4> QED BY <2>1, <4>1, EdgesLead
    <3> QED BY <3>1
  <2>4. ASSUME NEW A \in NonTerminals, IsLast(w0, A)
        PROVE  TextbookFollow[nt] \subseteq TextbookFollow[A]
    <3>1. <<A, nt>> \in edges
      BY <1>2, <2>1, <2>2, <2>4, LastWordFollows
    <3> QED BY <2>1, <3>1, EdgesLead
  <2> HIDE DEF w0
  <2>5. ASSUME NEW A \in NonTerminals
        PROVE  follow[A] \cup Gained(NoSets, follow, nt, w0, A) \subseteq TextbookFollow[A]
    <3>1. follow[A] \subseteq TextbookFollow[A] /\ follow[nt] \subseteq TextbookFollow[nt]
      BY DEF Sound, Within
    <3> QED BY <2>3, <2>4, <3>1 DEF Gained
  <2> DEFINE after(w) == [A \in NonTerminals |-> follow[A] \cup Gained(NoSets, follow, nt, w, A)]
  <2>6. Sound(after(w0))
    BY <2>5 DEF Sound, Within
  <2>7. FollowAfter(NoSets, follow, nt, t) = CHOOSE a \in {after(w) : w \in {w0}} : TRUE
    BY <1>2 DEF FollowAfter, w0
  <2> HIDE DEF after
  <2>8. {after(w) : w \in {w0}} = {after(w0)}
    OBVIOUS
  <2>9. (CHOOSE a \in {after(w0)} : TRUE) = after(w0)
    OBVIOUS
  <2> QED BY <2>6, <2>7, <2>8, <2>9
<1> QED BY <1>1, <1>2

LEMMA FirstSetsAreSound == Sound(NoSets) /\ Sound(InitialFollow)
<1>1. Sound(NoSets)
  BY DEF Sound, Within, NoSets
<1>2. PICK edges \in SUBSET (Symbols \X Symbols) :
             /\ edges = FollowEdges(Nullable, FirstGiven(Nullable))
             /\ TextbookFollow = ReachableTerminals(edges)
  BY TextbookEdges
<1>3. <<Start, End>> \in edges
  BY <1>2 DEF FollowEdges
<1>4. End \in TextbookFollow[Start]
  BY <1>2, <1>3, EdgesLead, SymbolAssumption
<1>5. Sound(InitialFollow)
  BY <1>4, SymbolAssumption DEF Sound, Within, NoSets, InitialFollow
<1> QED BY <1>1, <1>5

\* Whatever the table, no terminal gets into a FOLLOW set that cannot follow the
\* nonterminal: what a cell adds to the sets is an edge of the textbook's.
THEOREM FollowStaysSound == Spec => []FollowIsSound
<1>1. Init => Sound(followSets)
  BY FirstSetsAreSound DEF Init
<1>2. ASSUME IInv, firstSets = NoSets, Sound(followSets), [Next]_vars
      PROVE  Sound(followSets')
  <2>1. CASE VisitFollow
    <3>1. row \in DOMAIN Rows /\ followSets \in Sets
      BY <1>2, <2>1, Order DEF IInv, VisitFollow, InSweep, TypeOK, Sets
    <3>2. Rows[row] \in NonTerminals
      BY <3>1, Order
    <3>3. followSets' = FollowAfter(NoSets, followSets, Rows[row], Columns[column])
      BY <1>2, <2>1 DEF VisitFollow
    <3> QED BY <1>2, <3>1, <3>2, <3>3, CellsAreSound
  <2>2. CASE EndFirst
    BY <2>2, FirstSetsAreSound DEF EndFirst
  <2>3. CASE ~ VisitFollow /\ ~ EndFirst
    <3>1. followSets' = followSets
      BY <1>2, <2>3 DEF Next, VisitFirst, SweepAgain, EndFollow, vars
    <3> QED BY <1>2, <3>1
  <2> QED BY <2>1, <2>2, <2>3
<1>3. IInv /\ firstSets = NoSets /\ Sound(followSets) /\ [Next]_vars => Sound(followSets)'
  BY <1>2 DEF Sound, Within
<1>4. Sound(followSets) => FollowIsSound
  BY DEF Sound, FollowIsSound
<1> QED BY Invariant, FirstSetsStayEmpty, <1>1, <1>3, <1>4, PTL DEF Spec

=============================================================================
