--------------------------- MODULE SequenceLemmas ---------------------------
(***************************************************************************)
(* Counting, and what Kept makes of a sequence.                            *)
(*                                                                         *)
(* The induction theorems of the library are about an operator; those here *)
(* are about a set, and serve as well.  Kept is a recursive function, and  *)
(* first of all it has to be shown that there is one.                      *)
(***************************************************************************)
EXTENDS Common, SequenceTheorems, WellFoundedInduction, TLAPS

\* A set of numbers that has an element has a least one.
LEMMA LeastNumber ==
  ASSUME NEW T \in SUBSET Nat, T # {}
  PROVE  \E x \in T : \A y \in T : x <= y
<1> DEFINE R == OpToRel(<, Nat)
<1>1. IsWellFoundedOn(R, Nat) BY NatLessThanWellFounded
<1> HIDE DEF R
<1>2. PICK x \in T : \A y \in T : ~ (<<y, x>> \in R) BY <1>1, WFMin
<1>3. \A y \in T : y < x => <<y, x>> \in R BY DEF R, OpToRel
<1>4. \A y \in T : ~ (y < x) BY <1>2, <1>3
<1>5. \A y \in T : x <= y
  <2>1. TAKE y \in T
  <2>2. y \in Nat /\ x \in Nat /\ ~ (y < x) BY <1>4
  <2> QED BY <2>2
<1> QED BY <1>5

\* A set of numbers with 0 that is closed under counting on is that of all of them.
LEMMA CountingOn ==
  ASSUME NEW P, 0 \in P, \A n \in Nat : n \in P => n + 1 \in P
  PROVE  Nat \subseteq P
<1> DEFINE T == {n \in Nat : n \notin P}
<1> SUFFICES ASSUME T # {} PROVE FALSE
  OBVIOUS
<1>1. PICK x \in T : \A y \in T : x <= y
  BY LeastNumber
<1>2. x \in Nat /\ x # 0 /\ x - 1 \in Nat /\ ~ (x <= x - 1)
  BY <1>1
<1>3. x - 1 \in P
  BY <1>1, <1>2
<1>4. x \in P
  BY <1>2, <1>3
<1> QED BY <1>1, <1>4

\* What Kept has made of the elements of s up to the i-th, if it has made g[i - 1] of
\* those before.
FilterStep(s, S, g, i) ==
  IF i = 0 THEN <<>>
  ELSE IF s[i] \in S THEN Append(g[i - 1], s[i]) ELSE g[i - 1]

IsFilter(s, S, g, n) == g = [i \in 0 .. n |-> FilterStep(s, S, g, i)]

\* There is a filter for any number of elements.
LEMMA FilterExists ==
  ASSUME NEW s, NEW S, NEW n \in Nat
  PROVE  \E g : IsFilter(s, S, g, n)
<1> DEFINE P == {m \in Nat : \E g : IsFilter(s, S, g, m)}
<1>1. 0 \in P
  <2> DEFINE g == [i \in 0 .. 0 |-> <<>>]
  <2>1. \A i \in 0 .. 0 : FilterStep(s, S, g, i) = <<>>
    BY DEF FilterStep
  <2>2. IsFilter(s, S, g, 0)
    BY <2>1 DEF IsFilter
  <2> QED BY <2>2
<1>2. ASSUME NEW m \in Nat, m \in P
      PROVE  m + 1 \in P
  <2>1. PICK g : IsFilter(s, S, g, m)
    BY <1>2
  <2> DEFINE h == [i \in 0 .. m + 1 |-> IF i = m + 1 THEN FilterStep(s, S, g, i) ELSE g[i]]
  <2>2. ASSUME NEW i \in 0 .. m + 1
        PROVE  h[i] = FilterStep(s, S, h, i)
    <3>1. i # 0 => i - 1 \in 0 .. m /\ h[i - 1] = g[i - 1]
      OBVIOUS
    <3>2. FilterStep(s, S, h, i) = FilterStep(s, S, g, i)
      BY <3>1 DEF FilterStep
    <3>3. i # m + 1 => i \in 0 .. m /\ g[i] = FilterStep(s, S, g, i)
      BY <2>1 DEF IsFilter
    <3> QED BY <3>2, <3>3
  <2>3. IsFilter(s, S, h, m + 1)
    BY <2>2 DEF IsFilter
  <2> QED BY <2>3
<1> HIDE DEF P
<1>3. n \in P
  BY <1>1, <1>2, CountingOn
<1> QED BY <1>3 DEF P

\* Kept is the last value of one.
LEMMA KeptFilters ==
  ASSUME NEW A, NEW s \in Seq(A), NEW S
  PROVE  \E g : IsFilter(s, S, g, Len(s)) /\ Kept(s, S) = g[Len(s)]
<1> DEFINE g == CHOOSE kept : kept = [i \in 0 .. Len(s) |->
                   IF i = 0 THEN <<>>
                   ELSE IF s[i] \in S THEN Append(kept[i - 1], s[i]) ELSE kept[i - 1]]
<1>1. Kept(s, S) = g[Len(s)]
  BY DEF Kept
<1>0. Len(s) \in Nat
  OBVIOUS
<1>2. PICK h : IsFilter(s, S, h, Len(s))
  <2> DEFINE n == Len(s)
  <2> HIDE DEF n
  <2>1. \E h : IsFilter(s, S, h, n)
    BY <1>0, FilterExists DEF n
  <2> QED BY <2>1 DEF n
<1>3. \E kept : kept = [i \in 0 .. Len(s) |->
                   IF i = 0 THEN <<>>
                   ELSE IF s[i] \in S THEN Append(kept[i - 1], s[i]) ELSE kept[i - 1]]
  BY <1>2 DEF IsFilter, FilterStep
<1>4. g = [i \in 0 .. Len(s) |->
                   IF i = 0 THEN <<>>
                   ELSE IF s[i] \in S THEN Append(g[i - 1], s[i]) ELSE g[i - 1]]
  BY <1>3
<1>5. IsFilter(s, S, g, Len(s))
  BY <1>4 DEF IsFilter, FilterStep
<1> QED BY <1>1, <1>5

\* r has elements of s, each from a later place than the one before it.
IsPick(at, r, s, n) ==
  /\ at \in [1 .. Len(r) -> 1 .. n]
  /\ \A k \in 1 .. Len(r) : r[k] = s[at[k]]
  /\ \A k, l \in 1 .. Len(r) : k < l => at[k] < at[l]

\* r has the elements of s up to the n-th that are in S.
Sifts(r, s, S, n) ==
  /\ r \in Seq(S)
  /\ \A i \in 1 .. n : s[i] \in S => \E k \in 1 .. Len(r) : r[k] = s[i]
  /\ \E at : IsPick(at, r, s, n)

\* One more element.
LEMMA SiftStep ==
  ASSUME NEW s, NEW S, NEW n \in Nat, NEW r, Sifts(r, s, S, n)
  PROVE  /\ s[n + 1] \notin S => Sifts(r, s, S, n + 1)
         /\ s[n + 1] \in S => Sifts(Append(r, s[n + 1]), s, S, n + 1)
<1>1. PICK at : IsPick(at, r, s, n)
  BY DEF Sifts
<1>2. Len(r) \in Nat /\ r \in Seq(S)
  BY DEF Sifts
<1>3. ASSUME s[n + 1] \notin S
      PROVE  Sifts(r, s, S, n + 1)
  <2>1. IsPick(at, r, s, n + 1)
    BY <1>1, <1>2 DEF IsPick
  <2>2. \A i \in 1 .. n + 1 : s[i] \in S => i \in 1 .. n
    BY <1>3
  <2> QED BY <1>2, <2>1, <2>2 DEF Sifts
<1>4. ASSUME s[n + 1] \in S
      PROVE  Sifts(Append(r, s[n + 1]), s, S, n + 1)
  <2> DEFINE x == s[n + 1]
             q == Append(r, x)
             m == Len(r)
             on == [k \in 1 .. m + 1 |-> IF k = m + 1 THEN n + 1 ELSE at[k]]
  <2>1. q \in Seq(S) /\ Len(q) = m + 1 /\ q[m + 1] = x /\ \A k \in 1 .. m : q[k] = r[k]
    BY <1>2, <1>4
  <2> HIDE DEF q, m, x
  <2>2. m \in Nat /\ at \in [1 .. m -> 1 .. n]
    BY <1>1, <1>2 DEF IsPick, m
  <2>3. IsPick(on, q, s, n + 1)
    <3>1. on \in [1 .. m + 1 -> 1 .. n + 1]
      BY <2>2
    <3>2. ASSUME NEW k \in 1 .. m + 1
          PROVE  q[k] = s[on[k]]
      <4>1. CASE k = m + 1
        BY <4>1, <2>1 DEF x
      <4>2. CASE k # m + 1
        <5>1. k \in 1 .. m /\ on[k] = at[k] /\ q[k] = r[k]
          BY <4>2, <2>1, <2>2
        <5> QED BY <5>1, <1>1 DEF IsPick, m
      <4> QED BY <4>1, <4>2
    <3>3. ASSUME NEW k \in 1 .. m + 1, NEW l \in 1 .. m + 1, k < l
          PROVE  on[k] < on[l]
      <4>1. k \in 1 .. m /\ on[k] = at[k] /\ at[k] \in 1 .. n
        BY <3>3, <2>2
      <4>2. CASE l = m + 1
        BY <4>1, <4>2, <2>2
      <4>3. CASE l # m + 1
        <5>1. l \in 1 .. m /\ on[l] = at[l]
          BY <4>3, <2>2
        <5> QED BY <3>3, <4>1, <5>1, <1>1 DEF IsPick, m
      <4> QED BY <4>2, <4>3
    <3> HIDE DEF on
    <3> QED BY <2>1, <3>1, <3>2, <3>3 DEF IsPick
  <2>4. ASSUME NEW i \in 1 .. n + 1, s[i] \in S
        PROVE  \E k \in 1 .. Len(q) : q[k] = s[i]
    <3>1. CASE i = n + 1
      <4>1. m + 1 \in 1 .. Len(q) /\ q[m + 1] = s[i]
        BY <3>1, <2>1, <2>2 DEF x
      <4> QED BY <4>1
    <3>2. CASE i # n + 1
      <4>1. PICK k \in 1 .. m : r[k] = s[i]
        BY <3>2, <2>4 DEF Sifts, m
      <4>2. k \in 1 .. Len(q) /\ q[k] = s[i]
        BY <4>1, <2>1, <2>2
      <4> QED BY <4>2
    <3> QED BY <3>1, <3>2
  <2>5. Sifts(q, s, S, n + 1)
    BY <2>1, <2>3, <2>4 DEF Sifts
  <2> QED BY <2>5 DEF q, x
<1> QED BY <1>3, <1>4

\* Kept(s, S) has the elements of s that are in S, and no others, in their order.
LEMMA KeptSifts ==
  ASSUME NEW A, NEW s \in Seq(A), NEW S
  PROVE  Sifts(Kept(s, S), s, S, Len(s))
<1>1. PICK g : IsFilter(s, S, g, Len(s)) /\ Kept(s, S) = g[Len(s)]
  BY KeptFilters
<1>2. Len(s) \in Nat
  OBVIOUS
<1>3. \A i \in 0 .. Len(s) : g[i] = FilterStep(s, S, g, i)
  BY <1>1 DEF IsFilter
<1> DEFINE P == {m \in Nat : m <= Len(s) => Sifts(g[m], s, S, m)}
<1>4. 0 \in P
  <2>1. g[0] = <<>>
    BY <1>2, <1>3 DEF FilterStep
  <2> DEFINE r == <<>>
  <2>2. r \in Seq(S) /\ Len(r) = 0
    OBVIOUS
  <2> HIDE DEF r
  <2>3. IsPick([k \in 1 .. 0 |-> 0], r, s, 0)
    BY <2>2 DEF IsPick
  <2>4. Sifts(r, s, S, 0)
    BY <2>2, <2>3 DEF Sifts
  <2> QED BY <2>1, <2>4 DEF r
<1>5. ASSUME NEW m \in Nat, m \in P
      PROVE  m + 1 \in P
  <2> SUFFICES ASSUME m + 1 <= Len(s) PROVE Sifts(g[m + 1], s, S, m + 1)
    OBVIOUS
  <2>1. Sifts(g[m], s, S, m)
    BY <1>2, <1>5
  <2>2. m + 1 \in 0 .. Len(s) /\ m + 1 # 0 /\ (m + 1) - 1 = m
    BY <1>2
  <2>3. g[m + 1] = IF s[m + 1] \in S THEN Append(g[m], s[m + 1]) ELSE g[m]
    BY <1>3, <2>2 DEF FilterStep
  <2> QED BY <2>1, <2>3, SiftStep
<1> HIDE DEF P
<1>6. Len(s) \in P
  BY <1>2, <1>4, <1>5, CountingOn
<1> QED BY <1>1, <1>2, <1>6 DEF P

\* What follows for the elements of the result.
LEMMA KeptElements ==
  ASSUME NEW A, NEW s \in Seq(A), NEW S
  PROVE  /\ Kept(s, S) \in Seq(A) /\ Kept(s, S) \in Seq(S)
         /\ \A k \in DOMAIN Kept(s, S) : Kept(s, S)[k] \in S /\ \E i \in DOMAIN s : Kept(s, S)[k] = s[i]
         /\ \A i \in DOMAIN s : s[i] \in S => \E k \in DOMAIN Kept(s, S) : Kept(s, S)[k] = s[i]
<1> DEFINE r == Kept(s, S)
<1>1. Sifts(r, s, S, Len(s))
  BY KeptSifts
<1> HIDE DEF r
<1>2. PICK at : IsPick(at, r, s, Len(s))
  BY <1>1 DEF Sifts
<1>3. r \in Seq(S) /\ DOMAIN r = 1 .. Len(r) /\ DOMAIN s = 1 .. Len(s) /\ Len(r) \in Nat
  BY <1>1 DEF Sifts
<1>4. \A k \in 1 .. Len(r) : r[k] \in S /\ at[k] \in 1 .. Len(s) /\ r[k] = s[at[k]]
  BY <1>2, <1>3 DEF IsPick
<1>5. \A k \in 1 .. Len(r) : r[k] \in A
  BY <1>3, <1>4
<1>6. r \in Seq(A)
  BY <1>3, <1>5, SeqDef
<1>7. \A i \in DOMAIN s : s[i] \in S => \E k \in DOMAIN r : r[k] = s[i]
  BY <1>1, <1>3 DEF Sifts
<1> QED BY <1>3, <1>4, <1>6, <1>7 DEF r

=============================================================================
