----------------------------- MODULE CodeProofs -----------------------------
(***************************************************************************)
(* That the code generator gives back every register, for the functions of *)
(* every program, and that the slots of their frames do not overlap.       *)
(*                                                                         *)
(* A visit keeps R if it starts and ends with the registers of R in the    *)
(* pool, each once.  Every visit keeps every R: what is held around it is  *)
(* not in the pool, and is freed later.  R may be empty, since a register  *)
(* that is not there is the number -1, which is not freed.                 *)
(***************************************************************************)
EXTENDS CodePromises, Frames, SequenceLemmas, FiniteSetTheorems

\* p has the registers of R, each once.
Enumerates(p, R) ==
  /\ p \in Seq(R)
  /\ \A r \in R : \E i \in 1 .. Len(p) : p[i] = r
  /\ \A i, j \in 1 .. Len(p) : p[i] = p[j] => i = j

IsState(st) ==
  /\ st = [pool |-> st.pool, labels |-> st.labels, last |-> st.last, code |-> st.code]
  /\ st.labels \in Nat /\ st.last \in Int

\* The pool of the state st has the registers of R.
Good(st, R) == IsState(st) /\ Enumerates(st.pool, R)

OrNone(R) == R \cup {-1}

\* What is emitted is not in the pool.
LEMMA WithCode ==
  ASSUME NEW st, NEW R, Good(st, R), NEW d
  PROVE  /\ Good([st EXCEPT !.code = d], R)
         /\ [st EXCEPT !.code = d].pool = st.pool /\ [st EXCEPT !.code = d].code = d
<1>1. [st EXCEPT !.code = d] = [pool |-> st.pool, labels |-> st.labels, last |-> st.last, code |-> d]
  BY DEF Good, IsState
<1> QED BY <1>1 DEF Good, IsState

LEMMA EmitKeeps ==
  ASSUME NEW st, NEW R, Good(st, R), NEW c
  PROVE  Good(Emit(st, c), R) /\ Emit(st, c).pool = st.pool
<1> DEFINE d == st.code \o c
<1>1. Emit(st, c) = [st EXCEPT !.code = d]
  BY DEF Emit
<1> HIDE DEF d
<1> QED BY <1>1, WithCode

LEMMA LabelsKeep ==
  ASSUME NEW st, NEW R, Good(st, R), NEW k \in Nat
  PROVE  Good(Labels(st, k), R)
<1>1. Labels(st, k) = [pool |-> st.pool, labels |-> st.labels + k, last |-> st.last, code |-> st.code]
  BY DEF Good, IsState, Labels
<1> QED BY <1>1 DEF Good, IsState

LEMMA LastKeeps ==
  ASSUME NEW st, NEW R, Good(st, R), NEW d \in Int
  PROVE  Good([st EXCEPT !.last = d], R)
<1>1. [st EXCEPT !.last = d] = [pool |-> st.pool, labels |-> st.labels, last |-> d, code |-> st.code]
  BY DEF Good, IsState
<1> QED BY <1>1 DEF Good, IsState

LEMMA WithPool ==
  ASSUME NEW st, IsState(st), NEW q, NEW R, Enumerates(q, R)
  PROVE  Good([st EXCEPT !.pool = q], R) /\ [st EXCEPT !.pool = q].pool = q
<1>1. [st EXCEPT !.pool = q] = [pool |-> q, labels |-> st.labels, last |-> st.last, code |-> st.code]
  BY DEF IsState
<1> QED BY <1>1 DEF Good, IsState

-----------------------------------------------------------------------------

\* The register on top of the pool is taken, if there is one.
LEMMA Take ==
  ASSUME NEW R, NEW st, Good(st, R)
  PROVE  /\ Reg(st, 1) \in OrNone(R)
         /\ R \subseteq Registers => Good(Allocated(st, 1), R \ {Reg(st, 1)})
<1> DEFINE p == st.pool
           q == SubSeq(p, 2, Len(p))
<1>1. p \in Seq(R) /\ Len(p) \in Nat /\ DOMAIN p = 1 .. Len(p)
  BY DEF Good, Enumerates
<1>2. Enumerates(p, R)
  BY DEF Good
<1>3. Allocated(st, 1) = [st EXCEPT !.pool = q]
  BY DEF Allocated
<1> DEFINE r == Reg(st, 1)
<1>4. CASE p = <<>>
  <2>1. r = -1 /\ R = {}
    BY <1>1, <1>2, <1>4 DEF Reg, Enumerates
  <2>2. q = <<>>
    BY <1>4
  <2>3. Enumerates(q, R \ {r})
    <3> HIDE DEF q, r
    <3>1. q \in Seq(R \ {r}) /\ Len(q) = 0
      BY <2>2
    <3> QED BY <3>1, <2>1 DEF Enumerates
  <2> HIDE DEF q
  <2>4. Good([st EXCEPT !.pool = q], R \ {r})
    BY <2>3, WithPool DEF Good
  <2> QED BY <2>1, <2>4, <1>3 DEF OrNone
<1>5. CASE p # <<>>
  <2>1. Len(p) >= 1 /\ r = p[1] /\ r \in R
    BY <1>1, <1>5 DEF Reg
  <2>2. Len(q) = Len(p) - 1 /\ \A i \in 1 .. Len(q) : q[i] = p[i + 1]
    BY <1>1, <2>1
  <2>2a. DOMAIN q = 1 .. Len(q) /\ Len(q) \in Nat /\ q \in Seq(R)
    BY <1>1, <2>1
  <2> HIDE DEF q, p
  <2>3. \A i \in 1 .. Len(q) : q[i] \in R \ {r}
    <3>1. TAKE i \in 1 .. Len(q)
    <3>2. i + 1 \in 1 .. Len(p) /\ i + 1 # 1 /\ 1 \in 1 .. Len(p)
      BY <2>1, <2>2, <1>1
    <3>3. p[i + 1] \in R /\ p[i + 1] # p[1]
      BY <3>2, <1>1, <1>2 DEF Enumerates
    <3> QED BY <3>3, <2>1, <2>2
  <2>4. q \in Seq(R \ {r})
    BY <2>2a, <2>3, SeqDef
  <2>5. \A x \in R \ {r} : \E i \in 1 .. Len(q) : q[i] = x
    <3>1. TAKE x \in R \ {r}
    <3>2. PICK i \in 1 .. Len(p) : p[i] = x
      BY <1>2 DEF Enumerates
    <3>3. i # 1 /\ i - 1 \in 1 .. Len(q) /\ (i - 1) + 1 = i
      BY <3>2, <2>1, <2>2, <1>1
    <3> QED BY <3>2, <3>3, <2>2
  <2>6. \A i, j \in 1 .. Len(q) : q[i] = q[j] => i = j
    <3>1. TAKE i, j \in 1 .. Len(q)
    <3>2. i + 1 \in 1 .. Len(p) /\ j + 1 \in 1 .. Len(p)
      BY <2>1, <2>2, <1>1
    <3>3. p[i + 1] = p[j + 1] => i + 1 = j + 1
      BY <3>2, <1>2 DEF Enumerates
    <3> QED BY <3>3, <2>2
  <2>7. Enumerates(q, R \ {r})
    BY <2>4, <2>5, <2>6 DEF Enumerates
  <2> HIDE DEF r
  <2>8. Good([st EXCEPT !.pool = q], R \ {r})
    BY <2>7, WithPool DEF Good
  <2> QED BY <2>1, <2>8, <1>3 DEF OrNone, r
<1> QED BY <1>4, <1>5

\* A register that was taken is given back.
LEMMA Give ==
  ASSUME NEW R, R \subseteq Registers, NEW r \in OrNone(R), NEW st, Good(st, R \ {r})
  PROVE  Good(Freed(st, r), R)
<1>1. CASE r = -1
  <2>1. r \notin Registers /\ r \notin R
    BY <1>1 DEF Registers
  <2>2. R \ {r} = R /\ Freed(st, r) = st
    BY <2>1 DEF Freed
  <2> QED BY <2>2
<1>2. CASE r # -1
  <2>1. r \in R /\ r \in Registers
    BY <1>2 DEF OrNone
  <2> DEFINE p == st.pool
             q == <<r>> \o p
  <2>2. Freed(st, r) = [st EXCEPT !.pool = q]
    BY <2>1 DEF Freed
  <2>3. Enumerates(p, R \ {r}) /\ p \in Seq(R \ {r}) /\ Len(p) \in Nat
    BY DEF Good, Enumerates
  <2>4. q \in Seq(R) /\ Len(q) = Len(p) + 1 /\ q[1] = r /\ \A i \in 1 .. Len(p) : q[i + 1] = p[i]
    <3>1. p \in Seq(R)
      BY <2>3
    <3> HIDE DEF p
    <3> QED BY <3>1, <2>1
  <2> HIDE DEF q, p
  <2>5. \A i \in 2 .. Len(q) : i - 1 \in 1 .. Len(p) /\ q[i] = p[i - 1] /\ q[i] \in R \ {r}
    <3>1. TAKE i \in 2 .. Len(q)
    <3>2. i - 1 \in 1 .. Len(p) /\ (i - 1) + 1 = i
      BY <2>3, <2>4
    <3>3. q[i] = p[i - 1]
      BY <3>2, <2>4
    <3>4. p[i - 1] \in R \ {r}
      BY <3>2, <2>3
    <3> QED BY <3>2, <3>3, <3>4
  <2>6. \A x \in R : \E i \in 1 .. Len(q) : q[i] = x
    <3>1. TAKE x \in R
    <3>2. CASE x = r
      <4>1. 1 \in 1 .. Len(q)
        BY <2>3, <2>4
      <4> QED BY <3>2, <4>1, <2>4
    <3>3. CASE x # r
      <4>1. PICK i \in 1 .. Len(p) : p[i] = x
        BY <3>3, <2>3 DEF Enumerates
      <4>2. i + 1 \in 1 .. Len(q)
        BY <2>3, <2>4
      <4> QED BY <4>1, <4>2, <2>4
    <3> QED BY <3>2, <3>3
  <2>7. \A i, j \in 1 .. Len(q) : q[i] = q[j] => i = j
    <3>1. TAKE i, j \in 1 .. Len(q)
    <3>2. i = 1 \/ i \in 2 .. Len(q)
      BY <2>3, <2>4
    <3>3. j = 1 \/ j \in 2 .. Len(q)
      BY <2>3, <2>4
    <3>4. CASE i \in 2 .. Len(q) /\ j \in 2 .. Len(q)
      <4>1. p[i - 1] = p[j - 1] => i - 1 = j - 1
        BY <3>4, <2>3, <2>5 DEF Enumerates
      <4> QED BY <3>4, <4>1, <2>5
    <3> QED BY <3>2, <3>3, <3>4, <2>4, <2>5
  <2>8. Enumerates(q, R)
    BY <2>4, <2>6, <2>7 DEF Enumerates
  <2>9. Good([st EXCEPT !.pool = q], R)
    BY <2>8, WithPool DEF Good
  <2> QED BY <2>2, <2>9
<1> QED BY <1>1, <1>2

LEMMA TakeMore ==
  ASSUME NEW R, NEW st, Good(st, R), NEW n \in Nat
  PROVE  /\ Allocated(st, n + 1) = Allocated(Allocated(st, n), 1)
         /\ Reg(st, n + 1) = Reg(Allocated(st, n), 1)
<1> DEFINE p == st.pool
           q == SubSeq(p, n + 1, Len(p))
           t == SubSeq(p, (n + 1) + 1, Len(p))
<1>1. p \in Seq(R) /\ Len(p) \in Nat /\ DOMAIN p = 1 .. Len(p)
  BY DEF Good, Enumerates
<1>2. Allocated(st, n) = [st EXCEPT !.pool = q] /\ Allocated(st, n + 1) = [st EXCEPT !.pool = t]
  BY DEF Allocated
<1>3. /\ q \in Seq(R) /\ DOMAIN q = 1 .. Len(q)
      /\ Len(q) = IF n < Len(p) THEN Len(p) - n ELSE 0
      /\ \A i \in 1 .. Len(q) : q[i] = p[n + i]
  BY <1>1
<1>4. /\ t \in Seq(R) /\ DOMAIN t = 1 .. Len(t)
      /\ Len(t) = IF n + 1 < Len(p) THEN Len(p) - (n + 1) ELSE 0
      /\ \A i \in 1 .. Len(t) : t[i] = p[(n + 1) + i]
  BY <1>1
<1> DEFINE u == SubSeq(q, 2, Len(q))
<1>5. /\ u \in Seq(R) /\ DOMAIN u = 1 .. Len(u)
      /\ Len(u) = IF 1 < Len(q) THEN Len(q) - 1 ELSE 0
      /\ \A i \in 1 .. Len(u) : u[i] = q[i + 1]
  <2> HIDE DEF q
  <2>1. q \in Seq(R) /\ Len(q) \in Nat
    BY <1>3
  <2> QED BY <2>1
<1> HIDE DEF q, t, u, p
<1> DEFINE P == Len(p)
           Q == Len(q)
<1>11. P \in Nat /\ Q = (IF n < P THEN P - n ELSE 0)
  BY <1>1, <1>3
<1>12. Len(t) = (IF n + 1 < P THEN P - (n + 1) ELSE 0) /\ Len(u) = (IF 1 < Q THEN Q - 1 ELSE 0)
  BY <1>4, <1>5
<1> HIDE DEF P, Q
<1>6. u = t
  <2>1. Len(u) = Len(t)
    BY <1>11, <1>12
  <2>2. ASSUME NEW i \in 1 .. Len(t) PROVE u[i] = t[i]
    <3>1. i + 1 \in 1 .. Len(q) /\ n + (i + 1) = (n + 1) + i
      BY <1>11, <1>12 DEF Q
    <3> QED BY <3>1, <2>1, <1>3, <1>4, <1>5
  <2> QED BY <2>1, <2>2, <1>4, <1>5, SeqEqual
<1>7. IsState(st)
  BY DEF Good
<1>8. [st EXCEPT !.pool = q].pool = q /\ [[st EXCEPT !.pool = q] EXCEPT !.pool = u] = [st EXCEPT !.pool = u]
  BY <1>7 DEF IsState
<1>9. Allocated(Allocated(st, n), 1) = [[st EXCEPT !.pool = q] EXCEPT !.pool = u]
  <2>1. Allocated([st EXCEPT !.pool = q], 1) = [[st EXCEPT !.pool = q] EXCEPT !.pool = SubSeq(@, 1 + 1, Len(@))]
    BY DEF Allocated
  <2>2. 1 + 1 = 2
    OBVIOUS
  <2> QED BY <2>1, <2>2, <1>2, <1>8 DEF u
<1>10. Reg(st, n + 1) = Reg(Allocated(st, n), 1)
  <2>1. n + 1 \in DOMAIN p <=> 1 \in DOMAIN q
    <3>1. n + 1 \in 1 .. P <=> 1 \in 1 .. Q
      BY <1>11
    <3> QED BY <3>1, <1>1, <1>3 DEF P, Q
  <2>2. 1 \in DOMAIN q => q[1] = p[n + 1]
    BY <1>3
  <2> QED BY <2>1, <2>2, <1>2, <1>8 DEF Reg, p
<1> QED BY <1>2, <1>6, <1>8, <1>9, <1>10

\* Two registers that are held are freed in any order.
LEMMA Swap ==
  ASSUME NEW S, S \subseteq Registers, NEW r \in OrNone(S), NEW f \in OrNone(S \ {r})
  PROVE  /\ (S \ {r}) \ {f} = (S \ {f}) \ {r}
         /\ r \in OrNone(S \ {f}) /\ f \in OrNone(S)
<1>1. -1 \notin S
  BY DEF Registers
<1> QED BY <1>1 DEF OrNone

LEMMA TakeTwo ==
  ASSUME NEW R, R \subseteq Registers, NEW st, Good(st, R)
  PROVE  /\ Reg(st, 1) \in OrNone(R) /\ Reg(st, 2) \in OrNone(R \ {Reg(st, 1)})
         /\ Good(Allocated(st, 2), (R \ {Reg(st, 1)}) \ {Reg(st, 2)})
<1> DEFINE a == Allocated(st, 1)
           v == Reg(st, 1)
<1>1. Good(a, R \ {v}) /\ v \in OrNone(R)
  BY Take
<1>2. Allocated(st, 1 + 1) = Allocated(a, 1) /\ Reg(st, 1 + 1) = Reg(a, 1)
  BY TakeMore
<1>3. 1 + 1 = 2
  OBVIOUS
<1> HIDE DEF a, v
<1>4. R \ {v} \subseteq Registers
  OBVIOUS
<1>5. Good(Allocated(a, 1), (R \ {v}) \ {Reg(a, 1)}) /\ Reg(a, 1) \in OrNone(R \ {v})
  BY <1>1, <1>4, Take
<1> QED BY <1>1, <1>2, <1>3, <1>5 DEF v

LEMMA TakeThree ==
  ASSUME NEW R, R \subseteq Registers, NEW st, Good(st, R)
  PROVE  /\ Reg(st, 1) \in OrNone(R) /\ Reg(st, 2) \in OrNone(R \ {Reg(st, 1)})
         /\ Reg(st, 3) \in OrNone((R \ {Reg(st, 1)}) \ {Reg(st, 2)})
         /\ Good(Allocated(st, 3), ((R \ {Reg(st, 1)}) \ {Reg(st, 2)}) \ {Reg(st, 3)})
<1> DEFINE a == Allocated(st, 2)
           S == (R \ {Reg(st, 1)}) \ {Reg(st, 2)}
<1>1. Reg(st, 1) \in OrNone(R) /\ Reg(st, 2) \in OrNone(R \ {Reg(st, 1)}) /\ Good(a, S)
  BY TakeTwo
<1>2. Allocated(st, 2 + 1) = Allocated(a, 1) /\ Reg(st, 2 + 1) = Reg(a, 1)
  BY TakeMore
<1>3. 2 + 1 = 3
  OBVIOUS
<1> HIDE DEF a
<1>4. S \subseteq Registers
  OBVIOUS
<1> HIDE DEF S
<1>5. Good(Allocated(a, 1), S \ {Reg(a, 1)}) /\ Reg(a, 1) \in OrNone(S)
  BY <1>1, <1>4, Take
<1> QED BY <1>1, <1>2, <1>3, <1>5 DEF S

\* The register held first is freed first.
LEMMA GiveTwo ==
  ASSUME NEW R, R \subseteq Registers, NEW v \in OrNone(R), NEW c \in OrNone(R \ {v}),
         NEW st, Good(st, (R \ {v}) \ {c})
  PROVE  Good(Freed(Freed(st, v), c), R) /\ Good(Freed(Freed(st, c), v), R)
<1>1. /\ (R \ {v}) \ {c} = (R \ {c}) \ {v}
      /\ v \in OrNone(R \ {c}) /\ c \in OrNone(R)
  BY Swap
<1>2. R \ {c} \subseteq Registers /\ R \ {v} \subseteq Registers
  OBVIOUS
<1>3. Good(st, (R \ {c}) \ {v})
  BY <1>1
<1>4. Good(Freed(st, v), R \ {c})
  BY <1>1, <1>2, <1>3, Give
<1>5. Good(Freed(st, c), R \ {v})
  BY <1>2, Give
<1> QED BY <1>1, <1>4, <1>5, Give

LEMMA GiveThree ==
  ASSUME NEW R, R \subseteq Registers, NEW l \in OrNone(R), NEW r \in OrNone(R \ {l}),
         NEW d \in OrNone((R \ {l}) \ {r}), NEW st, Good(st, ((R \ {l}) \ {r}) \ {d})
  PROVE  Good(Freed(Freed(Freed(st, l), r), d), R) /\ Good(Freed(Freed(Freed(st, r), l), d), R)
<1>1. /\ (R \ {l}) \ {r} = (R \ {r}) \ {l}
      /\ l \in OrNone(R \ {r}) /\ r \in OrNone(R)
  BY Swap
<1>2. R \ {l} \subseteq Registers /\ R \ {r} \subseteq Registers
  OBVIOUS
<1>3. /\ ((R \ {l}) \ {r}) \ {d} = ((R \ {l}) \ {d}) \ {r}
      /\ r \in OrNone((R \ {l}) \ {d}) /\ d \in OrNone(R \ {l})
  BY <1>2, Swap
<1>4. ((R \ {r}) \ {l}) \ {d} = ((R \ {r}) \ {d}) \ {l}
      /\ l \in OrNone((R \ {r}) \ {d}) /\ d \in OrNone(R \ {r})
  BY <1>1, <1>2, Swap
<1>5. Good(Freed(st, r), (R \ {l}) \ {d}) /\ Good(Freed(st, l), (R \ {r}) \ {d})
  <2>1. (R \ {l}) \ {d} \subseteq Registers /\ (R \ {r}) \ {d} \subseteq Registers
    OBVIOUS
  <2>2. Good(st, ((R \ {l}) \ {d}) \ {r})
    BY <1>3
  <2>3. Good(st, ((R \ {r}) \ {d}) \ {l})
    BY <1>1, <1>4
  <2> QED BY <1>3, <1>4, <2>1, <2>2, <2>3, Give
<1> QED BY <1>1, <1>3, <1>4, <1>5, GiveTwo

-----------------------------------------------------------------------------

(***************************************************************************)
(* The instructions around the visits of the children.                     *)
(***************************************************************************)

LEMMA OneRegister ==
  ASSUME NEW R, R \subseteq Registers, NEW st, Good(st, R), NEW c
  PROVE  Good(Freed(Emit(Allocated(st, 1), c), Reg(st, 1)), R)
<1> DEFINE r == Reg(st, 1)
           a == Allocated(st, 1)
<1>1. r \in OrNone(R) /\ Good(a, R \ {r})
  BY Take
<1> HIDE DEF r, a
<1>2. Good(Emit(a, c), R \ {r})
  BY <1>1, EmitKeeps
<1>3. Good(Freed(Emit(a, c), r), R)
  BY <1>1, <1>2, Give
<1> QED BY <1>3 DEF r, a

LEMMA LiteralKeeps ==
  ASSUME NEW R, R \subseteq Registers, NEW st, Good(st, R), NEW node, NEW env
  PROVE  Good(Literal(node, st, env), R)
<1> DEFINE r == Reg(st, 1)
           c == <<<<"addi", r, 0, node.value>>>> \o Store(node, r, env)
<1>1. Literal(node, st, env) = Freed(Emit(Allocated(st, 1), c), r)
  BY DEF Literal
<1> HIDE DEF c
<1> QED BY <1>1, OneRegister

LEMMA BranchKeeps ==
  ASSUME NEW R, R \subseteq Registers, NEW st, Good(st, R), NEW label
  PROVE  Good(Branch(st, label), R)
<1> DEFINE r == Reg(st, 1)
           c == <<<<"add", r, st.last, 0>>, <<"bz", r, label>>>>
<1>1. Branch(st, label) = Freed(Emit(Allocated(st, 1), c), r)
  BY DEF Branch
<1> HIDE DEF c
<1> QED BY <1>1, OneRegister

LEMMA ReadKeeps ==
  ASSUME NEW R, R \subseteq Registers, NEW st, Good(st, R), NEW target, NEW env
  PROVE  Good(ReadValue(target, st, env), R)
<1> DEFINE r == Reg(st, 1)
           c == Down(env) \o BufferIn(r) \o ArgumentIn(r) \o JumpAndLink("getstr")
                  \o BufferIn(r) \o ArgumentIn(r) \o JumpAndLink("strint") \o Up(env)
                  \o Store(target, Result, env)
<1>1. ReadValue(target, st, env) = Freed(Emit(Allocated(st, 1), c), r)
  BY DEF ReadValue
<1> HIDE DEF c
<1> QED BY <1>1, OneRegister

LEMMA ReturnKeeps ==
  ASSUME NEW R, R \subseteq Registers, NEW st, Good(st, R), NEW e, NEW env
  PROVE  Good(ReturnValue(e, st, env), R)
<1> DEFINE r == Reg(st, 1)
           c == Load(r, e, env) \o <<<<"sw", 0, Sp, r>>, <<"add", Result, r, 0>>>>
           f == Freed(Emit(Allocated(st, 1), c), r)
<1>1. ReturnValue(e, st, env) = Emit(f, ReturnFrom)
  BY DEF ReturnValue
<1> HIDE DEF c
<1>2. Good(f, R)
  BY OneRegister
<1> HIDE DEF f
<1> QED BY <1>1, <1>2, EmitKeeps

LEMMA PassKeeps ==
  ASSUME NEW R, R \subseteq Registers, NEW st, Good(st, R), NEW arg, NEW place, NEW env
  PROVE  Good(PassArgument(arg, place, st, env), R)
<1> DEFINE r == Reg(st, 1)
           isArray == arg.kind = "IDENTIFIER" /\ Slots(env)[arg.value].dims # <<>>
           value == IF isArray THEN <<<<"subi", r, Sp, -NodeOffset(arg, env)>>>> ELSE Load(r, arg, env)
           c == value \o <<<<"sw", place, Sp, r>>>>
<1>1. PassArgument(arg, place, st, env) = Freed(Emit(Allocated(st, 1), c), r)
  BY DEF PassArgument
<1> HIDE DEF c
<1> QED BY <1>1, OneRegister

LEMMA IndexKeeps ==
  ASSUME NEW R, R \subseteq Registers, NEW st, Good(st, R), NEW total, NEW index, NEW by, NEW env
  PROVE  Good(AddIndex(total, index, by, st, env), R)
<1> DEFINE v == Reg(st, 1)
           w == Reg(st, 2)
           c == <<<<"lw", v, NodeOffset(index, env), Sp>>, <<"muli", w, v, by>>,
                  <<"add", total, total, w>>>>
           a == Allocated(st, 2)
<1>1. AddIndex(total, index, by, st, env) = Freed(Freed(Emit(a, c), v), w)
  BY DEF AddIndex
<1>2. v \in OrNone(R) /\ w \in OrNone(R \ {v}) /\ Good(a, (R \ {v}) \ {w})
  BY TakeTwo
<1> HIDE DEF c, a, v, w
<1>3. Good(Emit(a, c), (R \ {v}) \ {w})
  BY <1>2, EmitKeeps
<1> QED BY <1>1, <1>2, <1>3, GiveTwo

LEMMA WriteKeeps ==
  ASSUME NEW R, R \subseteq Registers, NEW st, Good(st, R), NEW e, NEW env
  PROVE  Good(WriteValue(e, st, env), R)
<1> DEFINE r1 == Reg(st, 1)
           r2 == Reg(st, 2)
           a == Reg(st, 3)
           load == IF IsAddressed(e) THEN <<<<"lw", a, OffsetOnNode(e, env), Sp>>, <<"lw", r1, 0, a>>>>
                   ELSE Load(r1, e, env)
           freed == IF IsAddressed(e) THEN Freed(Allocated(st, 3), a) ELSE Allocated(st, 2)
           c == load \o Down(env) \o ArgumentIn(r1) \o BufferIn(r1)
                  \o <<<<"sw", -12, Sp, r1>>>> \o JumpAndLink("intstr")
                  \o ArgumentIn(Result) \o JumpAndLink("putstr")
                  \o JumpAndLink("putnl") \o Up(env)
<1>1. WriteValue(e, st, env) = Freed(Freed(Emit(freed, c), r1), r2)
  BY DEF WriteValue
<1> DEFINE S == (R \ {r1}) \ {r2}
<1>2. r1 \in OrNone(R) /\ r2 \in OrNone(R \ {r1}) /\ Good(Allocated(st, 2), S)
  BY TakeTwo
<1>3. a \in OrNone(S) /\ Good(Allocated(st, 3), S \ {a})
  BY TakeThree
<1>4. S \subseteq Registers
  OBVIOUS
<1> HIDE DEF c, load, r1, r2, a
<1>5. Good(Freed(Allocated(st, 3), a), S)
  <2> HIDE DEF S
  <2> QED BY <1>3, <1>4, Give
<1>6. Good(freed, S)
  BY <1>2, <1>5
<1> HIDE DEF freed
<1>7. Good(Emit(freed, c), S)
  BY <1>6, EmitKeeps
<1> QED BY <1>1, <1>2, <1>7, GiveTwo

LEMMA OperationKeeps ==
  ASSUME NEW R, R \subseteq Registers, NEW st, Good(st, R), NEW node, NEW env
  PROVE  Good(Operation(node, st, env), R)
<1> DEFINE l == Reg(st, 1)
           r == Reg(st, 2)
           d == Reg(st, 3)
           logical == node.value \in {"or", "and"}
           compute == IF logical THEN Logical(node.value, d, l, r, st.labels)
                      ELSE <<<<OpCode(node.value), d, l, r>>>>
           c == Operand(l, node, 1, env) \o Operand(r, node, 2, env) \o compute \o Store(node, d, env)
           a == Allocated(st, 3)
           done == Emit(a, c)
           k == IF logical THEN 1 ELSE 0
           labelled == Labels([done EXCEPT !.last = d], k)
           S == ((R \ {l}) \ {r}) \ {d}
<1>1. Operation(node, st, env) = Freed(Freed(Freed(labelled, l), r), d)
  BY DEF Operation
<1>2. /\ l \in OrNone(R) /\ r \in OrNone(R \ {l}) /\ d \in OrNone((R \ {l}) \ {r})
      /\ Good(a, S)
  BY TakeThree
<1>3. d \in Int
  <2> HIDE DEF d
  <2>1. d \in Registers \/ d = -1
    BY <1>2 DEF OrNone
  <2> QED BY <2>1 DEF Registers
<1>4. k \in Nat
  OBVIOUS
<1> HIDE DEF c, a, l, r, d, k
<1>5. Good(done, S)
  BY <1>2, EmitKeeps
<1> HIDE DEF done, S
<1>6. Good([done EXCEPT !.last = d], S)
  BY <1>3, <1>5, LastKeeps
<1>7. Good(labelled, S)
  BY <1>4, <1>6, LabelsKeep
<1> HIDE DEF labelled
<1> QED BY <1>1, <1>2, <1>7, GiveThree DEF S

-----------------------------------------------------------------------------

(***************************************************************************)
(* The visits of the children, one after the other.  There is a sequence   *)
(* of states that goes through them, and it ends with the state that       *)
(* Through gives.                                                          *)
(***************************************************************************)

\* visit keeps the registers of the pool, whatever they are.
Keeps(visit, nodes) ==
  \A n \in nodes : \A R \in SUBSET Registers : \A st :
    Good(st, R) /\ st.code = <<>> => Good(visit[<<n, st>>], R)

LEMMA VisitedKeeps ==
  ASSUME NEW visit, NEW nodes, Keeps(visit, nodes), NEW n \in nodes,
         NEW R, R \subseteq Registers, NEW st, Good(st, R)
  PROVE  Good(Visited(visit, n, st), R)
<1> DEFINE s == [st EXCEPT !.code = <<>>]
           r == visit[<<n, s>>]
           c == st.code \o r.code
<1>1. Good(s, R) /\ s.code = <<>>
  BY WithCode
<1>2. Visited(visit, n, st) = [r EXCEPT !.code = c]
  BY DEF Visited
<1> HIDE DEF s
<1>3. Good(r, R)
  BY <1>1 DEF Keeps
<1> HIDE DEF r, c
<1> QED BY <1>2, <1>3, WithCode

\* What each application of Through applies to the i-th element.
StepOf(how, s, i) ==
  CASE how[1] = "children" -> Visited(how[2], how[3][i], s)
    [] how[1] = "indices" -> GenIndex(how[2], how[3], how[4], i, how[5], s, how[6])
    [] how[1] = "arguments" -> GenArgument(how[2], how[3], how[4], i, s, how[5])
    [] how[1] = "functions" -> GenFunction(s, how[2].funs[i], how[2])
    [] how[1] = "heights" -> [a \in how[3] |-> Gen(s, a[1], a[2], how[2])]
    [] how[1] = "layouts" -> Append(s, Generated(Layouts[i]))
    [] how[1] = "dimensions" -> s * how[2][i]
    [] how[1] = "symbols" -> Place(s, how[2].order[i], how[2].syms[how[2].order[i]], how[3])
    [] how[1] = "attributes" ->
         AddSymbol(s, how[2][i].name, Symbol("VARIABLE", how[2][i].type, how[2][i].dims))
    [] how[1] = "classes" ->
         WithClass(s, how[2][i].name, Frame(ClassTable(how[2][i]), 0, s.known[""]))

IsRun(how, st, n, g) ==
  g = [i \in 0 .. n |-> IF i = 0 THEN st ELSE StepOf(how, g[i - 1], i)]

LEMMA RunExists ==
  ASSUME NEW how, NEW st, NEW n \in Nat
  PROVE  \E g : IsRun(how, st, n, g)
<1> DEFINE F(s, i) == StepOf(how, s, i)
           Is(m, g) == IsRun(how, st, m, g)
           P == {m \in Nat : \E g : Is(m, g)}
<1>0. \A m, g : Is(m, g) <=> g = [i \in 0 .. m |-> IF i = 0 THEN st ELSE F(g[i - 1], i)]
  BY DEF IsRun
<1> HIDE DEF F, Is
<1>1. 0 \in P
  <2> DEFINE g == [i \in 0 .. 0 |-> st]
  <2>1. g = [i \in 0 .. 0 |-> IF i = 0 THEN st ELSE F(g[i - 1], i)]
    OBVIOUS
  <2> HIDE DEF g
  <2>2. Is(0, g)
    BY <2>1, <1>0
  <2> QED BY <2>2
<1>2. ASSUME NEW m \in Nat, m \in P
      PROVE  m + 1 \in P
  <2>1. PICK g : Is(m, g)
    BY <1>2
  <2>2. g = [i \in 0 .. m |-> IF i = 0 THEN st ELSE F(g[i - 1], i)]
    BY <2>1, <1>0
  <2> DEFINE h == [i \in 0 .. m + 1 |-> IF i = 0 THEN st ELSE F(g[i - 1], i)]
  <2>3. \A i \in 0 .. m : h[i] = g[i]
    BY <2>2
  <2>4. \A i \in 0 .. m + 1 : i # 0 => i - 1 \in 0 .. m
    OBVIOUS
  <2>5. h = [i \in 0 .. m + 1 |-> IF i = 0 THEN st ELSE F(h[i - 1], i)]
    BY <2>3, <2>4
  <2> HIDE DEF h
  <2>6. Is(m + 1, h)
    BY <2>5, <1>0
  <2> QED BY <2>6
<1> HIDE DEF P
<1>3. n \in P
  BY <1>1, <1>2, CountingOn
<1> QED BY <1>3 DEF P, Is

\* If each step keeps R, so does the run.
LEMMA RunKeeps ==
  ASSUME NEW how, NEW st, NEW n \in Nat, NEW g, IsRun(how, st, n, g),
         NEW R, Good(st, R),
         \A i \in 1 .. n : \A s : Good(s, R) => Good(StepOf(how, s, i), R)
  PROVE  Good(g[n], R)
<1>1. \A i \in 0 .. n : g[i] = IF i = 0 THEN st ELSE StepOf(how, g[i - 1], i)
  BY DEF IsRun
<1> DEFINE P == {m \in Nat : m <= n => Good(g[m], R)}
<1>2. 0 \in P
  BY <1>1
<1>3. ASSUME NEW m \in Nat, m \in P
      PROVE  m + 1 \in P
  <2> SUFFICES ASSUME m + 1 <= n PROVE Good(g[m + 1], R)
    OBVIOUS
  <2>1. m + 1 \in 1 .. n /\ m + 1 \in 0 .. n /\ m + 1 # 0 /\ (m + 1) - 1 = m /\ m <= n
    OBVIOUS
  <2>2. g[m + 1] = StepOf(how, g[m], m + 1)
    BY <2>1, <1>1
  <2>3. Good(g[m], R)
    BY <2>1, <1>3
  <2> QED BY <2>1, <2>2, <2>3
<1> HIDE DEF P
<1>4. n \in P
  BY <1>2, <1>3, CountingOn
<1> QED BY <1>4 DEF P

\* The children of a node.
LEMMA AllGoes ==
  ASSUME NEW visit, NEW nodes, NEW st, Len(nodes) \in Nat
  PROVE  \E g : /\ IsRun(<<"children", visit, nodes>>, st, Len(nodes), g)
                /\ GenAll(visit, nodes, st) = g[Len(nodes)]
<1> DEFINE how == <<"children", visit, nodes>>
           Body(g, i) == IF i = 0 THEN st
                         ELSE CHOOSE r \in {Visited(visit, nodes[i], s) : s \in {g[i - 1]}} : TRUE
           A(g) == g = [i \in 0 .. Len(nodes) |-> Body(g, i)]
<1>1. GenAll(visit, nodes, st) = (CHOOSE g : A(g))[Len(nodes)]
  BY DEF GenAll, Through
<1>2. ASSUME NEW g, NEW i \in 0 .. Len(nodes)
      PROVE  Body(g, i) = IF i = 0 THEN st ELSE StepOf(how, g[i - 1], i)
  <2>1. ASSUME NEW x PROVE (CHOOSE r \in {Visited(visit, nodes[i], s) : s \in {x}} : TRUE) = Visited(visit, nodes[i], x)
    OBVIOUS
  <2>2. ASSUME NEW x, i # 0 PROVE Visited(visit, nodes[i], x) = StepOf(how, x, i)
    BY DEF StepOf
  <2> QED BY <2>1, <2>2
<1> HIDE DEF Body, how
<1>3. \A g : A(g) <=> IsRun(how, st, Len(nodes), g)
  BY <1>2 DEF IsRun
<1>4. \E g : A(g)
  BY <1>3, RunExists
<1> HIDE DEF A
<1>5. A(CHOOSE g : A(g))
  BY <1>4
<1> QED BY <1>1, <1>3, <1>5 DEF how

LEMMA AllKeep ==
  ASSUME NEW visit, NEW nodes, Keeps(visit, nodes), NEW q \in Seq(nodes),
         NEW R, R \subseteq Registers, NEW st, Good(st, R)
  PROVE  Good(GenAll(visit, q, st), R)
<1>1. Len(q) \in Nat /\ \A i \in 1 .. Len(q) : q[i] \in nodes
  OBVIOUS
<1> DEFINE how == <<"children", visit, q>>
<1>2. PICK g : IsRun(how, st, Len(q), g) /\ GenAll(visit, q, st) = g[Len(q)]
  BY <1>1, AllGoes
<1>3. ASSUME NEW i \in 1 .. Len(q), NEW s, Good(s, R)
      PROVE  Good(StepOf(how, s, i), R)
  <2>1. StepOf(how, s, i) = Visited(visit, q[i], s)
    BY DEF StepOf
  <2> QED BY <2>1, <1>1, <1>3, VisitedKeeps
<1> HIDE DEF how
<1> QED BY <1>1, <1>2, <1>3, RunKeeps

\* The indices of an element.
LEMMA IndicesGo ==
  ASSUME NEW visit, NEW node, NEW object, NEW t, NEW env, NEW st,
         Len(node.kids[2].kids) \in Nat, DOMAIN node.kids[2].kids = 1 .. Len(node.kids[2].kids)
  PROVE  \E g : /\ IsRun(<<"indices", visit, node, object, t, env>>, st, Len(node.kids[2].kids), g)
                /\ GenIndices(visit, node, object, t, st, env) = g[Len(node.kids[2].kids)]
<1> DEFINE how == <<"indices", visit, node, object, t, env>>
           q == node.kids[2].kids
           n == Len(q)
           numbers == [i \in DOMAIN q |-> i]
           Body(g, i) == IF i = 0 THEN st
                         ELSE CHOOSE r \in {GenIndex(visit, node, object, numbers[i], t, s, env) :
                                               s \in {g[i - 1]}} : TRUE
           A(g) == g = [i \in 0 .. n |-> Body(g, i)]
<1>0. Len(numbers) = n /\ n \in Nat
  OBVIOUS
<1>1. GenIndices(visit, node, object, t, st, env)
        = (CHOOSE g : A(g))[n]
  <2>1. GenIndices(visit, node, object, t, st, env)
          = (CHOOSE g : g = [i \in 0 .. Len(numbers) |-> Body(g, i)])[Len(numbers)]
    BY DEF Through, GenIndices
  <2> QED BY <2>1, <1>0
<1>2. ASSUME NEW g, NEW i \in 0 .. n
      PROVE  Body(g, i) = IF i = 0 THEN st ELSE StepOf(how, g[i - 1], i)
  <2>1. ASSUME NEW x
        PROVE  (CHOOSE r \in {GenIndex(visit, node, object, numbers[i], t, s, env) :
                                 s \in {x}} : TRUE)
                 = GenIndex(visit, node, object, numbers[i], t, x, env)
    OBVIOUS
  <2>2. ASSUME NEW x, i # 0
        PROVE  GenIndex(visit, node, object, numbers[i], t, x, env) = StepOf(how, x, i)
    <3>1. numbers[i] = i
      BY <2>2, <1>0
    <3> QED BY <3>1 DEF StepOf
  <2> QED BY <2>1, <2>2
<1> HIDE DEF Body, how
<1>3. \A g : A(g) <=> IsRun(how, st, n, g)
  BY <1>2 DEF IsRun
<1>4. \E g : A(g)
  BY <1>0, <1>3, RunExists
<1> HIDE DEF A
<1>5. A(CHOOSE g : A(g))
  BY <1>4
<1> QED BY <1>1, <1>3, <1>5 DEF how

\* The arguments of a call.
LEMMA ArgumentsGo ==
  ASSUME NEW visit, NEW node, NEW callee, NEW env, NEW st,
         Len(node.kids[2].kids) \in Nat, DOMAIN node.kids[2].kids = 1 .. Len(node.kids[2].kids)
  PROVE  \E g : /\ IsRun(<<"arguments", visit, node, callee, env>>, st, Len(node.kids[2].kids), g)
                /\ GenArguments(visit, node, callee, st, env) = g[Len(node.kids[2].kids)]
<1> DEFINE how == <<"arguments", visit, node, callee, env>>
           q == node.kids[2].kids
           n == Len(q)
           numbers == [i \in DOMAIN q |-> i]
           Body(g, i) == IF i = 0 THEN st
                         ELSE CHOOSE r \in {GenArgument(visit, node, callee, numbers[i], s, env) :
                                               s \in {g[i - 1]}} : TRUE
           A(g) == g = [i \in 0 .. n |-> Body(g, i)]
<1>0. Len(numbers) = n /\ n \in Nat
  OBVIOUS
<1>1. GenArguments(visit, node, callee, st, env)
        = (CHOOSE g : A(g))[n]
  <2>1. GenArguments(visit, node, callee, st, env)
          = (CHOOSE g : g = [i \in 0 .. Len(numbers) |-> Body(g, i)])[Len(numbers)]
    BY DEF Through, GenArguments
  <2> QED BY <2>1, <1>0
<1>2. ASSUME NEW g, NEW i \in 0 .. n
      PROVE  Body(g, i) = IF i = 0 THEN st ELSE StepOf(how, g[i - 1], i)
  <2>1. ASSUME NEW x
        PROVE  (CHOOSE r \in {GenArgument(visit, node, callee, numbers[i], s, env) :
                                 s \in {x}} : TRUE)
                 = GenArgument(visit, node, callee, numbers[i], x, env)
    OBVIOUS
  <2>2. ASSUME NEW x, i # 0
        PROVE  GenArgument(visit, node, callee, numbers[i], x, env) = StepOf(how, x, i)
    <3>1. numbers[i] = i
      BY <2>2, <1>0
    <3> QED BY <3>1 DEF StepOf
  <2> QED BY <2>1, <2>2
<1> HIDE DEF Body, how
<1>3. \A g : A(g) <=> IsRun(how, st, n, g)
  BY <1>2 DEF IsRun
<1>4. \E g : A(g)
  BY <1>0, <1>3, RunExists
<1> HIDE DEF A
<1>5. A(CHOOSE g : A(g))
  BY <1>4
<1> QED BY <1>1, <1>3, <1>5 DEF how

\* The functions of a program.
LEMMA FunctionsGo ==
  ASSUME NEW layout, Len(layout.funs) \in Nat
  PROVE  \E g : /\ IsRun(<<"functions", layout>>, EmptyState, Len(layout.funs), g)
                /\ GenFunctions(layout) = g[Len(layout.funs)]
<1> DEFINE how == <<"functions", layout>>
           Body(g, i) == IF i = 0 THEN EmptyState
                         ELSE CHOOSE r \in {GenFunction(s, layout.funs[i], layout) : s \in {g[i - 1]}} : TRUE
           A(g) == g = [i \in 0 .. Len(layout.funs) |-> Body(g, i)]
<1>1. GenFunctions(layout) = (CHOOSE g : A(g))[Len(layout.funs)]
  BY DEF GenFunctions, Through
<1>2. ASSUME NEW g, NEW i \in 0 .. Len(layout.funs)
      PROVE  Body(g, i) = IF i = 0 THEN EmptyState ELSE StepOf(how, g[i - 1], i)
  <2>1. ASSUME NEW x PROVE (CHOOSE r \in {GenFunction(s, layout.funs[i], layout) : s \in {x}} : TRUE) = GenFunction(x, layout.funs[i], layout)
    OBVIOUS
  <2>2. ASSUME NEW x, i # 0 PROVE GenFunction(x, layout.funs[i], layout) = StepOf(how, x, i)
    BY DEF StepOf
  <2> QED BY <2>1, <2>2
<1> HIDE DEF Body, how
<1>3. \A g : A(g) <=> IsRun(how, EmptyState, Len(layout.funs), g)
  BY <1>2 DEF IsRun
<1>4. \E g : A(g)
  BY <1>3, RunExists
<1> HIDE DEF A
<1>5. A(CHOOSE g : A(g))
  BY <1>4
<1> QED BY <1>1, <1>3, <1>5 DEF how

-----------------------------------------------------------------------------

(***************************************************************************)
(* Each kind of node.                                                      *)
(***************************************************************************)

LEMMA GenIndexKeeps ==
  ASSUME NEW visit, NEW nodes, Keeps(visit, nodes), NEW node, NEW object, NEW i, NEW t, NEW env,
         node.kids[2].kids[i] \in nodes,
         NEW R, R \subseteq Registers, NEW st, Good(st, R)
  PROVE  Good(GenIndex(visit, node, object, i, t, st, env), R)
<1> DEFINE index == node.kids[2].kids[i]
           symbol == ArraySymbol(node.kids[1], object, env)
           by == Multiplier(symbol, ElementSize(node.kids[1], symbol), i)
           s == Visited(visit, index, st)
<1>1. GenIndex(visit, node, object, i, t, st, env)
        = IF i \notin DOMAIN symbol.dims THEN st ELSE AddIndex(t, index, by, s, env)
  BY DEF GenIndex
<1>2. Good(s, R)
  BY VisitedKeeps
<1> HIDE DEF by, s
<1>3. Good(AddIndex(t, index, by, s, env), R)
  BY <1>2, IndexKeeps
<1> QED BY <1>1, <1>3

LEMMA GenArgumentKeeps ==
  ASSUME NEW visit, NEW nodes, Keeps(visit, nodes), NEW node, NEW callee, NEW i, NEW env,
         node.kids[2].kids[Len(node.kids[2].kids) + 1 - i] \in nodes,
         NEW R, R \subseteq Registers, NEW st, Good(st, R)
  PROVE  Good(GenArgument(visit, node, callee, i, st, env), R)
<1> DEFINE arg == node.kids[2].kids[Len(node.kids[2].kids) + 1 - i]
           params == ParamSlots(callee)
           place == Scope(env) + IF i \in DOMAIN params THEN params[i].offset ELSE 0
           s == Visited(visit, arg, st)
<1>1. GenArgument(visit, node, callee, i, st, env) = PassArgument(arg, place, s, env)
  BY DEF GenArgument
<1>2. Good(s, R)
  BY VisitedKeeps
<1> HIDE DEF place, s, arg
<1> QED BY <1>1, <1>2, PassKeeps

\* The children of a node are nodes, and so are theirs.
LEMMA Kids ==
  ASSUME NEW nodes, IsTree(nodes), NEW n \in nodes
  PROVE  /\ n.kids \in Seq(nodes) /\ Len(n.kids) \in Nat /\ DOMAIN n.kids = 1 .. Len(n.kids)
         /\ \A i \in 1 .. Len(n.kids) : n.kids[i] \in nodes
         /\ \A i \in 1 .. Arity(n.kind) : n.kids[i] \in nodes
<1>1. n.kids \in Seq(nodes) /\ Len(n.kids) >= Arity(n.kind)
  BY DEF IsTree
<1> DEFINE q == n.kids
<1>2. Len(q) \in Nat /\ DOMAIN q = 1 .. Len(q) /\ \A i \in 1 .. Len(q) : q[i] \in nodes
  BY <1>1
<1>3. Arity(n.kind) \in Nat
  BY DEF Arity
<1>4. \A i \in 1 .. Arity(n.kind) : i \in 1 .. Len(q)
  BY <1>1, <1>2, <1>3
<1> QED BY <1>1, <1>2, <1>4

LEMMA AccessTotalKeeps ==
  ASSUME NEW visit, NEW nodes, IsTree(nodes), Keeps(visit, nodes),
         NEW node, node.kids[2] \in nodes, NEW object, NEW env,
         NEW R, R \subseteq Registers, NEW b \in OrNone(R), NEW t \in OrNone(R \ {b}),
         NEW st, Good(st, (R \ {b}) \ {t})
  PROVE  Good(AccessTotal(visit, node, object, b, t, st, env), R)
<1> DEFINE S == (R \ {b}) \ {t}
           symbol == ArraySymbol(node.kids[1], object, env)
           c == ArrayAddress(node.kids[1], object, symbol, b) \o <<<<"addi", t, 0, 0>>>>
           start == Emit(st, c)
           q == node.kids[2].kids
           counted == GenIndices(visit, node, object, t, start, env)
           f == Reg(counted, 1)
           e == <<<<"sub", f, b, t>>, <<"sw", NodeOffset(node.kids[2], env), Sp, f>>>>
           done == Emit(Allocated(counted, 1), e)
<1>1. AccessTotal(visit, node, object, b, t, st, env) = Freed(Freed(Freed(done, t), b), f)
  BY DEF AccessTotal
<1>2. Len(q) \in Nat /\ DOMAIN q = 1 .. Len(q) /\ \A i \in 1 .. Len(q) : q[i] \in nodes
  BY Kids
<1>3. S \subseteq Registers
  OBVIOUS
<1> HIDE DEF c, S
<1>4. Good(start, S)
  BY EmitKeeps DEF S
<1> HIDE DEF start
<1> DEFINE how == <<"indices", visit, node, object, t, env>>
<1>5. PICK g : IsRun(how, start, Len(q), g) /\ counted = g[Len(q)]
  BY <1>2, IndicesGo
<1>6. ASSUME NEW i \in 1 .. Len(q), NEW s, Good(s, S)
      PROVE  Good(StepOf(how, s, i), S)
  <2>1. StepOf(how, s, i) = GenIndex(visit, node, object, i, t, s, env)
    BY DEF StepOf
  <2>2. node.kids[2].kids[i] \in nodes
    BY <1>2
  <2> QED BY <2>1, <2>2, <1>3, <1>6, GenIndexKeeps
<1> HIDE DEF how, counted, q
<1>7. Good(counted, S)
  BY <1>2, <1>4, <1>5, <1>6, RunKeeps
<1>8. f \in OrNone(S) /\ Good(Allocated(counted, 1), S \ {f})
  BY <1>3, <1>7, Take
<1> HIDE DEF f, e
<1>9. Good(done, S \ {f})
  BY <1>8, EmitKeeps
<1> HIDE DEF done
<1>10. Good(Freed(Freed(Freed(done, t), b), f), R)
  BY <1>8, <1>9, GiveThree DEF S
<1> QED BY <1>1, <1>10

\* What keeps a register is an index of what has no dimensions.
LEMMA AccessKeeps ==
  ASSUME NEW visit, NEW nodes, IsTree(nodes), Keeps(visit, nodes),
         NEW node, node.kids[2] \in nodes, NEW object, NEW env,
         ArraySymbol(node.kids[1], object, env).dims # <<>>,
         NEW R, R \subseteq Registers, NEW st, Good(st, R)
  PROVE  Good(GenAccess(visit, node, object, st, env), R)
<1> DEFINE b == Reg(st, 1)
           t == Reg(st, 2)
           a == Allocated(st, 2)
<1>1. GenAccess(visit, node, object, st, env) = AccessTotal(visit, node, object, b, t, a, env)
  BY DEF GenAccess
<1>2. b \in OrNone(R) /\ t \in OrNone(R \ {b}) /\ Good(a, (R \ {b}) \ {t})
  BY TakeTwo
<1> HIDE DEF b, t, a
<1> QED BY <1>1, <1>2, AccessTotalKeeps

LEMMA CallKeeps ==
  ASSUME NEW visit, NEW nodes, IsTree(nodes), Keeps(visit, nodes),
         NEW node, node.kids[2] \in nodes, NEW object, NEW env,
         NEW R, R \subseteq Registers, NEW st, Good(st, R)
  PROVE  Good(GenCall(visit, node, object, st, env), R)
<1> DEFINE isMember == node.kids[1].kind = "DOT_IDENTIFIER"
           callee == FunctionsOf(env, IF isMember THEN object.class ELSE "", node.kids[1].value)[1]
           self == IF isMember
                   THEN <<<<"sw", Scope(env) + callee.frame.scope, Sp, object.reg>>>> ELSE <<>>
           start == Emit(st, self)
           q == node.kids[2].kids
           passed == GenArguments(visit, node, callee, start, env)
           c == Down(env) \o JumpAndLink(FunctionLabel(callee)) \o Up(env)
<1>1. GenCall(visit, node, object, st, env) = Emit(passed, c)
  BY DEF GenCall
<1>2. Len(q) \in Nat /\ DOMAIN q = 1 .. Len(q) /\ \A i \in 1 .. Len(q) : q[i] \in nodes
  BY Kids
<1> HIDE DEF self, c, callee
<1>3. Good(start, R)
  BY EmitKeeps
<1> HIDE DEF start
<1> DEFINE how == <<"arguments", visit, node, callee, env>>
<1>4. PICK g : IsRun(how, start, Len(q), g) /\ passed = g[Len(q)]
  BY <1>2, ArgumentsGo
<1>5. ASSUME NEW i \in 1 .. Len(q), NEW s, Good(s, R)
      PROVE  Good(StepOf(how, s, i), R)
  <2>1. StepOf(how, s, i) = GenArgument(visit, node, callee, i, s, env)
    BY DEF StepOf
  <2>2. (Len(q) + 1) - i \in 1 .. Len(q)
    <3> DEFINE n == Len(q)
    <3>1. n \in Nat /\ i \in 1 .. n
      BY <1>2
    <3> HIDE DEF n
    <3>2. (n + 1) - i \in 1 .. n
      BY <3>1
    <3> QED BY <3>2 DEF n
  <2>3. node.kids[2].kids[Len(node.kids[2].kids) + 1 - i] \in nodes
    BY <1>2, <2>2
  <2> QED BY <2>1, <2>3, <1>5, GenArgumentKeeps
<1> HIDE DEF how, passed, q
<1>6. Good(passed, R)
  BY <1>2, <1>3, <1>4, <1>5, RunKeeps
<1> QED BY <1>1, <1>6, EmitKeeps

LEMMA MemberAddressKeeps ==
  ASSUME NEW node, NEW object, NEW env, NEW R, R \subseteq Registers, object.reg \in OrNone(R),
         NEW st, Good(st, R \ {object.reg})
  PROVE  Good(MemberAddress(node, object, st, env), R)
<1> DEFINE slot == env.layout.classes[object.class].slots[MemberName(node.kids[2])]
           f == Reg(st, 1)
           c == <<<<"subi", f, object.reg, slot.offset + slot.size>>>> \o Store(node, f, env)
           a == Allocated(st, 1)
           r == object.reg
<1>1. MemberAddress(node, object, st, env) = Freed(Freed(Emit(a, c), r), f)
  BY DEF MemberAddress
<1>2. R \ {r} \subseteq Registers
  OBVIOUS
<1> HIDE DEF c, r
<1>3. f \in OrNone(R \ {r}) /\ Good(a, (R \ {r}) \ {f})
  BY <1>2, Take DEF r
<1> HIDE DEF f, a
<1>4. Good(Emit(a, c), (R \ {r}) \ {f})
  BY <1>3, EmitKeeps
<1>5. r \in OrNone(R)
  BY DEF r
<1>6. Good(Freed(Freed(Emit(a, c), r), f), R)
  BY <1>3, <1>4, <1>5, GiveTwo
<1> QED BY <1>1, <1>6

LEMMA MemberKeeps ==
  ASSUME NEW visit, NEW nodes, IsTree(nodes), Keeps(visit, nodes),
         NEW member \in nodes, NEW object, NEW env,
         member.kind = "ARRAY_ACCESS" => ArraySymbol(member.kids[1], object, env).dims # <<>>,
         NEW R, R \subseteq Registers, NEW st, Good(st, R)
  PROVE  Good(GenMember(visit, member, object, st, env), R)
<1>1. CASE member.kind = "FUNCTION_CALL"
  <2>1. member.kids[2] \in nodes
    BY <1>1, Kids DEF Arity
  <2>2. GenMember(visit, member, object, st, env) = GenCall(visit, member, object, st, env)
    BY <1>1 DEF GenMember
  <2> QED BY <2>1, <2>2, CallKeeps
<1>2. CASE member.kind = "ARRAY_ACCESS"
  <2>1. member.kids[2] \in nodes
    BY <1>2, Kids DEF Arity
  <2>2. GenMember(visit, member, object, st, env) = GenAccess(visit, member, object, st, env)
    BY <1>2 DEF GenMember
  <2> QED BY <1>2, <2>1, <2>2, AccessKeeps
<1>3. CASE member.kind \notin {"FUNCTION_CALL", "ARRAY_ACCESS"}
  <2>1. GenMember(visit, member, object, st, env) = Visited(visit, member, st)
    BY <1>3 DEF GenMember
  <2> QED BY <2>1, VisitedKeeps
<1> QED BY <1>1, <1>2, <1>3

LEMMA DotKeeps ==
  ASSUME NEW visit, NEW nodes, IsTree(nodes), Keeps(visit, nodes),
         NEW node \in nodes, node.kind = "DOT_ACCESS", NEW env, ~ IndexesNoArray(node, env),
         NEW R, R \subseteq Registers, NEW st, Good(st, R)
  PROVE  Good(GenDot(visit, node, st, env), R)
<1> DEFINE member == node.kids[2]
           visited == Visited(visit, node.kids[1], st)
           class == ObjectClass(node.kids[1], env)
           r == Reg(visited, 1)
           object == [class |-> class, reg |-> r]
           c == ObjectAddress(node.kids[1], object.reg, env)
           a == Allocated(visited, 1)
           addressed == Emit(a, c)
           done == GenMember(visit, member, object, addressed, env)
<1>1. GenDot(visit, node, st, env)
        = IF member.kind = "FUNCTION_CALL" THEN Freed(done, object.reg)
          ELSE MemberAddress(node, object, done, env)
  BY DEF GenDot
<1>2. node.kids[1] \in nodes /\ node.kids[2] \in nodes
  BY Kids DEF Arity
<1>3. Good(visited, R)
  BY <1>2, VisitedKeeps
<1>4. member.kind = "ARRAY_ACCESS" => ArraySymbol(member.kids[1], object, env).dims # <<>>
  <2>1. member.kind = "ARRAY_ACCESS"
          => ArraySymbol(member.kids[1], [class |-> class, reg |-> 0], env).dims # <<>>
    BY DEF IndexesNoArray
  <2> HIDE DEF class, r, member
  <2>2. ArraySymbol(member.kids[1], object, env)
          = ArraySymbol(member.kids[1], [class |-> class, reg |-> 0], env)
    BY DEF ArraySymbol
  <2> QED BY <2>1, <2>2
<1> HIDE DEF visited, c, class
<1>5. r \in OrNone(R) /\ Good(a, R \ {r}) /\ object.reg = r
  BY <1>3, Take
<1> HIDE DEF r, a, object
<1>6. Good(addressed, R \ {r}) /\ R \ {r} \subseteq Registers
  BY <1>5, EmitKeeps
<1> HIDE DEF addressed, member
<1>7. Good(done, R \ {r})
  BY <1>2, <1>4, <1>6, MemberKeeps DEF member
<1> HIDE DEF done
<1>8. Good(Freed(done, object.reg), R)
  BY <1>5, <1>7, Give
<1>9. Good(MemberAddress(node, object, done, env), R)
  BY <1>5, <1>7, MemberAddressKeeps
<1> QED BY <1>1, <1>8, <1>9

LEMMA AssignToKeeps ==
  ASSUME NEW target, NEW env, NEW R, R \subseteq Registers, NEW v \in OrNone(R),
         NEW st, Good(st, R \ {v})
  PROVE  Good(AssignTo(target, v, st, env), R)
<1> DEFINE a == Reg(st, 1)
           c == Deliver(target, v, a, env)
           delivered == Emit(st, c)
           S == R \ {v}
<1>1. AssignTo(target, v, st, env)
        = IF IsAddressed(target) THEN Freed(Freed(Allocated(delivered, 1), a), v)
          ELSE Freed(delivered, v)
  BY DEF AssignTo
<1> HIDE DEF c
<1>2. Good(delivered, S) /\ delivered.pool = st.pool
  BY EmitKeeps
<1>3. a = Reg(delivered, 1)
  BY <1>2 DEF Reg
<1> HIDE DEF delivered, a, S
<1>4. S \subseteq Registers
  BY DEF S
<1>5. Good(Allocated(delivered, 1), S \ {a}) /\ a \in OrNone(S)
  BY <1>2, <1>3, <1>4, Take
<1>6. Good(Freed(Allocated(delivered, 1), a), S)
  BY <1>4, <1>5, Give
<1>7. Good(Freed(Freed(Allocated(delivered, 1), a), v), R)
  BY <1>6, Give DEF S
<1>8. Good(Freed(delivered, v), R)
  BY <1>2, Give DEF S
<1> QED BY <1>1, <1>7, <1>8

LEMMA AssignKeeps ==
  ASSUME NEW visit, NEW nodes, Keeps(visit, nodes), NEW target \in nodes, NEW value, NEW env,
         NEW R, R \subseteq Registers, NEW st, Good(st, R)
  PROVE  Good(AssignValue(visit, target, value, st, env), R)
<1> DEFINE v == Reg(st, 1)
           a == Reg(st, 2)
           c == Fetch(value, v, a, env)
           taken == Allocated(st, 1)
           fetched == Emit(taken, c)
           ready == IF value.kind = "ARRAY_ACCESS" THEN Freed(Allocated(fetched, 1), a) ELSE fetched
           s == IF IsAddressed(target) THEN Visited(visit, target, ready) ELSE ready
           S == R \ {v}
<1>1. AssignValue(visit, target, value, st, env) = AssignTo(target, v, s, env)
  BY DEF AssignValue
<1>2. v \in OrNone(R) /\ Good(taken, S)
  BY Take
<1>3. a = Reg(taken, 1)
  <2>1. Reg(st, 1 + 1) = Reg(Allocated(st, 1), 1) /\ 1 + 1 = 2
    BY TakeMore
  <2> QED BY <2>1
<1> HIDE DEF c, a, v, taken
<1>4. Good(fetched, S) /\ fetched.pool = taken.pool
  BY <1>2, EmitKeeps
<1>5. a = Reg(fetched, 1)
  BY <1>3, <1>4 DEF Reg
<1>6. S \subseteq Registers
  OBVIOUS
<1> HIDE DEF fetched, S
<1>7. Good(Allocated(fetched, 1), S \ {a}) /\ a \in OrNone(S)
  BY <1>4, <1>5, <1>6, Take
<1>8. Good(Freed(Allocated(fetched, 1), a), S)
  BY <1>6, <1>7, Give
<1>9. Good(ready, S)
  BY <1>4, <1>8
<1> HIDE DEF ready
<1>10. Good(Visited(visit, target, ready), S)
  BY <1>6, <1>9, VisitedKeeps
<1>11. Good(s, S)
  BY <1>9, <1>10
<1> HIDE DEF s
<1>12. Good(AssignTo(target, v, s, env), R)
  BY <1>2, <1>11, AssignToKeeps DEF S
<1> QED BY <1>1, <1>12

LEMMA IfKeeps ==
  ASSUME NEW visit, NEW nodes, IsTree(nodes), Keeps(visit, nodes),
         NEW node \in nodes, node.kind = "IF_STATEMENT",
         NEW R, R \subseteq Registers, NEW st, Good(st, R)
  PROVE  Good(GenIf(visit, node, st), R)
<1> DEFINE n == st.labels
           else == Label("else_", n + 1)
           end == Label("endif_", n + 2)
           labelled == Labels(st, 3)
           condition == Visited(visit, node.kids[1], labelled)
           tested == Branch(condition, else)
           c == <<LabelAt(Label("then_", n))>>
           then == Visited(visit, node.kids[2], Emit(tested, c))
           d == <<<<"j", end>>, LabelAt(else)>>
           otherwise == Visited(visit, node.kids[3], Emit(then, d))
           e == <<LabelAt(end)>>
<1>1. GenIf(visit, node, st) = Emit(otherwise, e)
  BY DEF GenIf
<1>2. node.kids[1] \in nodes /\ node.kids[2] \in nodes /\ node.kids[3] \in nodes
  BY Kids DEF Arity
<1> HIDE DEF n, else, end, c, d, e
<1>3. Good(labelled, R)
  BY LabelsKeep
<1> HIDE DEF labelled
<1>4. Good(condition, R)
  BY <1>2, <1>3, VisitedKeeps
<1> HIDE DEF condition
<1>5. Good(tested, R)
  BY <1>4, BranchKeeps
<1> HIDE DEF tested
<1>6. Good(Emit(tested, c), R)
  BY <1>5, EmitKeeps
<1>7. Good(then, R)
  BY <1>2, <1>6, VisitedKeeps
<1> HIDE DEF then
<1>8. Good(Emit(then, d), R)
  BY <1>7, EmitKeeps
<1>9. Good(otherwise, R)
  BY <1>2, <1>8, VisitedKeeps
<1> HIDE DEF otherwise
<1> QED BY <1>1, <1>9, EmitKeeps

LEMMA WhileKeeps ==
  ASSUME NEW visit, NEW nodes, IsTree(nodes), Keeps(visit, nodes),
         NEW node \in nodes, node.kind = "WHILE_STATEMENT",
         NEW R, R \subseteq Registers, NEW st, Good(st, R)
  PROVE  Good(GenWhile(visit, node, st), R)
<1> DEFINE n == st.labels
           start == Label("while_start_", n)
           end == Label("while_end_", n + 1)
           labelled == Labels(st, 2)
           c == <<LabelAt(start)>>
           condition == Visited(visit, node.kids[1], Emit(labelled, c))
           tested == Branch(condition, end)
           body == Visited(visit, node.kids[2], tested)
           e == <<<<"j", start>>, LabelAt(end)>>
<1>1. GenWhile(visit, node, st) = Emit(body, e)
  BY DEF GenWhile
<1>2. node.kids[1] \in nodes /\ node.kids[2] \in nodes
  BY Kids DEF Arity
<1> HIDE DEF n, start, end, c, e
<1>3. Good(labelled, R)
  BY LabelsKeep
<1> HIDE DEF labelled
<1>4. Good(Emit(labelled, c), R)
  BY <1>3, EmitKeeps
<1>5. Good(condition, R)
  BY <1>2, <1>4, VisitedKeeps
<1> HIDE DEF condition
<1>6. Good(tested, R)
  BY <1>5, BranchKeeps
<1> HIDE DEF tested
<1>7. Good(body, R)
  BY <1>2, <1>6, VisitedKeeps
<1> HIDE DEF body
<1> QED BY <1>1, <1>7, EmitKeeps

LEMMA GenKeeps ==
  ASSUME NEW visit, NEW nodes, IsTree(nodes), Keeps(visit, nodes),
         NEW node \in nodes, NEW env, ~ IndexesNoArray(node, env),
         NEW R, R \subseteq Registers, NEW st, Good(st, R)
  PROVE  Good(Gen(visit, node, st, env), R)
<1> DEFINE all == GenAll(visit, node.kids, st)
<1>1. node.kids \in Seq(nodes)
  BY Kids
<1>2. Good(all, R)
  BY <1>1, AllKeep
<1> HIDE DEF all
<1>3. CASE node.kind = "INT"
  <2>1. Gen(visit, node, st, env) = Literal(node, st, env)
    BY <1>3 DEF Gen
  <2> QED BY <2>1, LiteralKeeps
<1>4. CASE node.kind \in {"ADD_OP", "MULT_OP", "REL_OP"}
  <2>1. Gen(visit, node, st, env) = Operation(node, all, env)
    BY <1>4 DEF Gen, all
  <2> QED BY <1>2, <2>1, OperationKeeps
<1>5. CASE node.kind = "ARRAY_ACCESS"
  <2>1. Gen(visit, node, st, env)
          = IF node.kids[1].kind = "IDENTIFIER" THEN GenAccess(visit, node, NoObject, st, env) ELSE st
    BY <1>5 DEF Gen
  <2>2. node.kids[2] \in nodes
    BY <1>5, Kids DEF Arity
  <2>3. ASSUME node.kids[1].kind = "IDENTIFIER"
        PROVE  Good(GenAccess(visit, node, NoObject, st, env), R)
    <3>1. ArraySymbol(node.kids[1], NoObject, env).dims # <<>>
      BY <1>5, <2>3 DEF IndexesNoArray
    <3> QED BY <3>1, <2>2, AccessKeeps
  <2> QED BY <2>1, <2>3
<1>6. CASE node.kind = "DOT_ACCESS"
  <2>1. Gen(visit, node, st, env) = GenDot(visit, node, st, env)
    BY <1>6 DEF Gen
  <2> QED BY <1>6, <2>1, DotKeeps
<1>7. CASE node.kind = "FUNCTION_CALL"
  <2>1. Gen(visit, node, st, env) = GenCall(visit, node, NoObject, st, env)
    BY <1>7 DEF Gen
  <2>2. node.kids[2] \in nodes
    BY <1>7, Kids DEF Arity
  <2> QED BY <2>1, <2>2, CallKeeps
<1>8. CASE node.kind = "ASSIGNMENT"
  <2> DEFINE s == Visited(visit, node.kids[2], st)
  <2>1. Gen(visit, node, st, env) = AssignValue(visit, node.kids[1], node.kids[2], s, env)
    BY <1>8 DEF Gen, GenAssignment
  <2>2. node.kids[1] \in nodes /\ node.kids[2] \in nodes
    BY <1>8, Kids DEF Arity
  <2>3. Good(s, R)
    BY <2>2, VisitedKeeps
  <2> HIDE DEF s
  <2> QED BY <2>1, <2>2, <2>3, AssignKeeps
<1>9. CASE node.kind = "WRITE_STATEMENT"
  <2>1. Gen(visit, node, st, env) = WriteValue(node.kids[1], all, env)
    BY <1>9 DEF Gen, all
  <2> QED BY <1>2, <2>1, WriteKeeps
<1>10. CASE node.kind = "READ_STATEMENT"
  <2>1. Gen(visit, node, st, env) = ReadValue(node.kids[1], st, env)
    BY <1>10 DEF Gen
  <2> QED BY <2>1, ReadKeeps
<1>11. CASE node.kind = "RETURN_STATEMENT"
  <2>1. Gen(visit, node, st, env) = ReturnValue(node.kids[1], all, env)
    BY <1>11 DEF Gen, all
  <2> QED BY <1>2, <2>1, ReturnKeeps
<1>12. CASE node.kind = "IF_STATEMENT"
  <2>1. Gen(visit, node, st, env) = GenIf(visit, node, st)
    BY <1>12 DEF Gen
  <2> QED BY <1>12, <2>1, IfKeeps
<1>13. CASE node.kind = "WHILE_STATEMENT"
  <2>1. Gen(visit, node, st, env) = GenWhile(visit, node, st)
    BY <1>13 DEF Gen
  <2> QED BY <1>13, <2>1, WhileKeeps
<1>14. CASE node.kind \notin {"INT", "ADD_OP", "MULT_OP", "REL_OP", "ARRAY_ACCESS", "DOT_ACCESS",
                              "FUNCTION_CALL", "ASSIGNMENT", "WRITE_STATEMENT", "READ_STATEMENT",
                              "RETURN_STATEMENT", "IF_STATEMENT", "WHILE_STATEMENT"}
  <2>1. Gen(visit, node, st, env) = all
    BY <1>14 DEF Gen, all
  <2> QED BY <1>2, <2>1
<1> QED BY <1>3, <1>4, <1>5, <1>6, <1>7, <1>8, <1>9, <1>10, <1>11, <1>12, <1>13, <1>14

-----------------------------------------------------------------------------

(***************************************************************************)
(* Trees of every height, functions and programs.                          *)
(***************************************************************************)

LEMMA GoodStates ==
  ASSUME NEW R, R \subseteq Registers, NEW st, Good(st, R), st.code = <<>>
  PROVE  st \in States
<1> DEFINE p == st.pool
<1>1. p \in Seq(R)
  BY DEF Good, Enumerates
<1> HIDE DEF p
<1>2. R \subseteq Int
  BY DEF Registers
<1>3. p \in Seq(Int)
  <2>1. \A i \in 1 .. Len(p) : p[i] \in R
    BY <1>1
  <2>2. \A i \in 1 .. Len(p) : p[i] \in Int
    BY <1>2, <2>1
  <2>3. DOMAIN p = 1 .. Len(p) /\ Len(p) \in Nat /\ p = [i \in 1 .. Len(p) |-> p[i]]
    BY <1>1
  <2> QED BY <2>2, <2>3, SeqDef
<1>4. /\ st = [pool |-> p, labels |-> st.labels, last |-> st.last, code |-> st.code]
      /\ st.labels \in Nat /\ st.last \in Int /\ st.code \in {<<>>}
  BY DEF Good, IsState, p
<1> QED BY <1>3, <1>4 DEF States

LEMMA VisitsGo ==
  ASSUME NEW env, MaxHeight \in Nat
  PROVE  \E g : /\ IsRun(<<"heights", env, NodesOf(env.fun.body) \X States>>,
                         [a \in NodesOf(env.fun.body) \X States |-> a[2]], MaxHeight + 1, g)
                /\ Visits(env) = g[MaxHeight + 1]
<1> DEFINE arguments == NodesOf(env.fun.body) \X States
           how == <<"heights", env, arguments>>
           start == [a \in arguments |-> a[2]]
           Body(g, h) == IF h = 0 THEN [a \in arguments |-> a[2]]
                         ELSE [a \in arguments |-> Gen(g[h - 1], a[1], a[2], env)]
           A(g) == g = [h \in 0 .. MaxHeight + 1 |-> Body(g, h)]
<1>1. Visits(env) = (CHOOSE g : A(g))[MaxHeight + 1]
  BY DEF Visits
<1> HIDE DEF arguments
<1>2. ASSUME NEW g, NEW h \in 0 .. MaxHeight + 1
      PROVE  Body(g, h) = IF h = 0 THEN start ELSE StepOf(how, g[h - 1], h)
  BY DEF StepOf
<1> HIDE DEF Body, how, start
<1>3. \A g : A(g) <=> IsRun(how, start, MaxHeight + 1, g)
  BY <1>2 DEF IsRun
<1>4. \E g : A(g)
  BY <1>3, RunExists
<1> HIDE DEF A
<1>5. A(CHOOSE g : A(g))
  BY <1>4
<1>6. IsRun(how, start, MaxHeight + 1, CHOOSE g : A(g))
  BY <1>3, <1>5
<1> QED BY <1>1, <1>6 DEF how, start, arguments

LEMMA VisitsKeep ==
  ASSUME NEW env, MaxHeight \in Nat, NEW nodes, nodes = NodesOf(env.fun.body), IsTree(nodes),
         \A n \in nodes : ~ IndexesNoArray(n, env)
  PROVE  Keeps(Visits(env), nodes)
<1> DEFINE arguments == nodes \X States
           how == <<"heights", env, arguments>>
           start == [a \in arguments |-> a[2]]
           M == MaxHeight + 1
<1>1. PICK g : IsRun(how, start, M, g) /\ Visits(env) = g[M]
  BY VisitsGo
<1>2. \A h \in 0 .. M : g[h] = IF h = 0 THEN start ELSE StepOf(how, g[h - 1], h)
  BY <1>1 DEF IsRun
<1>3. M \in Nat
  OBVIOUS
<1> HIDE DEF M, how, arguments
<1> DEFINE P == {m \in Nat : m <= M => Keeps(g[m], nodes)}
<1>4. 0 \in P
  <2>1. g[0] = start
    BY <1>2, <1>3
  <2>2. ASSUME NEW n \in nodes, NEW R \in SUBSET Registers, NEW st, Good(st, R), st.code = <<>>
        PROVE  Good(g[0][<<n, st>>], R)
    <3>1. st \in States
      BY <2>2, GoodStates
    <3>2. <<n, st>> \in arguments
      BY <3>1 DEF arguments
    <3>3. start[<<n, st>>] = st
      BY <3>2
    <3> QED BY <2>1, <2>2, <3>3
  <2> HIDE DEF start
  <2>3. Keeps(g[0], nodes)
    BY <2>2 DEF Keeps
  <2> QED BY <2>3
<1> HIDE DEF start
<1>5. ASSUME NEW m \in Nat, m \in P
      PROVE  m + 1 \in P
  <2> SUFFICES ASSUME m + 1 <= M PROVE Keeps(g[m + 1], nodes)
    OBVIOUS
  <2>1. m + 1 \in 0 .. M /\ m + 1 # 0 /\ (m + 1) - 1 = m /\ m <= M
    BY <1>3
  <2>2. Keeps(g[m], nodes)
    BY <1>5, <2>1
  <2> DEFINE v == g[m]
  <2>3. g[m + 1] = [a \in arguments |-> Gen(v, a[1], a[2], env)]
    <3>1. g[m + 1] = StepOf(how, v, m + 1)
      BY <1>2, <2>1
    <3> QED BY <3>1 DEF StepOf, how
  <2> HIDE DEF v
  <2>4. ASSUME NEW n \in nodes, NEW R \in SUBSET Registers, NEW st, Good(st, R), st.code = <<>>
        PROVE  Good(g[m + 1][<<n, st>>], R)
    <3>1. st \in States
      BY <2>4, GoodStates
    <3>2. <<n, st>> \in arguments
      BY <3>1 DEF arguments
    <3>3. g[m + 1][<<n, st>>] = Gen(v, n, st, env)
      BY <2>3, <3>2
    <3>4. ~ IndexesNoArray(n, env) /\ Keeps(v, nodes)
      BY <2>2 DEF v
    <3> QED BY <2>4, <3>3, <3>4, GenKeeps
  <2> QED BY <2>4 DEF Keeps
<1> HIDE DEF P
<1>6. M \in P
  BY <1>3, <1>4, <1>5, CountingOn
<1>7. Keeps(g[M], nodes)
  BY <1>3, <1>6 DEF P
<1> QED BY <1>1, <1>7

LEMMA FunctionKeeps ==
  ASSUME NEW fun, NEW layout, MaxHeight \in Nat, IsTree(NodesOf(fun.body)),
         \A n \in NodesOf(fun.body) : ~ IndexesNoArray(n, [fun |-> fun, layout |-> layout]),
         NEW R, R \subseteq Registers, NEW st, Good(st, R)
  PROVE  Good(GenFunction(st, fun, layout), R)
<1> DEFINE env == [fun |-> fun, layout |-> layout]
           entry == <<LabelAt(FunctionLabel(fun))>>
                      \o IF fun.name = "main" THEN <<<<"addi", Sp, 0, TopAddress>>>>
                         ELSE <<<<"sw", -4, Sp, Link>>>>
           nodes == NodesOf(fun.body)
           start == Emit(st, entry)
           visit == Visits(env)
           done == Visited(visit, fun.body, start)
           c == IF fun.name = "main" THEN <<>> ELSE ReturnFrom
<1>1. GenFunction(st, fun, layout) = Emit(done, c)
  BY DEF GenFunction
<1>2. env.fun.body = fun.body
  OBVIOUS
<1>3. fun.body \in nodes
  BY DEF NodesOf
<1>4. IsTree(nodes) /\ nodes = NodesOf(env.fun.body) /\ \A n \in nodes : ~ IndexesNoArray(n, env)
  BY <1>2
<1> HIDE DEF entry, c, nodes, env
<1>5. Keeps(visit, nodes)
  BY <1>4, VisitsKeep
<1>6. Good(start, R)
  BY EmitKeeps
<1> HIDE DEF visit, start
<1>7. Good(done, R)
  BY <1>3, <1>5, <1>6, VisitedKeeps
<1> HIDE DEF done
<1> QED BY <1>1, <1>7, EmitKeeps

LEMMA EmptyIsGood == Good(EmptyState, Registers)
<1> DEFINE p == [i \in 1 .. 12 |-> i]
<1>1. p \in Seq(1 .. 12) /\ Len(p) = 12 /\ \A i \in 1 .. 12 : p[i] = i
  OBVIOUS
<1>2. EmptyState = [pool |-> p, labels |-> 0, last |-> 0, code |-> <<>>]
  BY DEF EmptyState, Registers
<1> HIDE DEF p
<1>3. Enumerates(p, Registers)
  BY <1>1 DEF Enumerates, Registers
<1> QED BY <1>2, <1>3 DEF Good, IsState

LEMMA ProgramKeeps ==
  ASSUME NEW layout, MaxHeight \in Nat, IsLayout(layout), OnlyArraysIndexed(layout)
  PROVE  Good(Generated(layout), Registers)
<1> DEFINE n == Len(layout.funs)
           how == <<"functions", layout>>
<1>1. n \in Nat /\ DOMAIN layout.funs = 1 .. n
  BY DEF IsLayout, IsSequence
<1>2. PICK g : IsRun(how, EmptyState, n, g) /\ GenFunctions(layout) = g[n]
  BY <1>1, FunctionsGo
<1>3. ASSUME NEW i \in 1 .. n, NEW s, Good(s, Registers)
      PROVE  Good(StepOf(how, s, i), Registers)
  <2> DEFINE fun == layout.funs[i]
  <2>1. StepOf(how, s, i) = GenFunction(s, fun, layout)
    BY DEF StepOf
  <2>2. IsTree(NodesOf(fun.body))
    BY <1>1 DEF IsLayout
  <2>3. \A m \in NodesOf(fun.body) : ~ IndexesNoArray(m, [fun |-> fun, layout |-> layout])
    BY <1>1 DEF OnlyArraysIndexed
  <2> HIDE DEF fun, how
  <2> QED BY <1>3, <2>1, <2>2, <2>3, FunctionKeeps
<1> HIDE DEF how, n
<1>4. Good(g[n], Registers)
  BY <1>1, <1>2, <1>3, EmptyIsGood, RunKeeps
<1>5. Generated(layout) = Emit(GenFunctions(layout), <<<<"hlt">>>>)
  BY DEF Generated
<1> QED BY <1>2, <1>4, <1>5, EmitKeeps

\* The code of all the programs.
LEMMA CompiledGo ==
  ASSUME Len(Layouts) \in Nat
  PROVE  \E g : IsRun(<<"layouts">>, <<>>, Len(Layouts), g) /\ Compiled = g[Len(Layouts)]
<1> DEFINE how == <<"layouts">>
           n == Len(Layouts)
           Body(g, i) == IF i = 0 THEN <<>>
                         ELSE CHOOSE r \in {Append(s, Generated(Layouts[i])) : s \in {g[i - 1]}} : TRUE
           A(g) == g = [i \in 0 .. n |-> Body(g, i)]
<1>1. Compiled = (CHOOSE g : A(g))[n]
  BY DEF Compiled, Through
<1>2. ASSUME NEW g, NEW i \in 0 .. n
      PROVE  Body(g, i) = IF i = 0 THEN <<>> ELSE StepOf(how, g[i - 1], i)
  <2>1. ASSUME NEW x
        PROVE  (CHOOSE r \in {Append(s, Generated(Layouts[i])) : s \in {x}} : TRUE)
                 = Append(x, Generated(Layouts[i]))
    OBVIOUS
  <2>2. ASSUME NEW x, i # 0 PROVE Append(x, Generated(Layouts[i])) = StepOf(how, x, i)
    BY DEF StepOf
  <2> QED BY <2>1, <2>2
<1> HIDE DEF Body, how
<1>3. \A g : A(g) <=> IsRun(how, <<>>, n, g)
  BY <1>2 DEF IsRun
<1>4. \E g : A(g)
  BY <1>3, RunExists
<1> HIDE DEF A
<1>5. A(CHOOSE g : A(g))
  BY <1>4
<1> QED BY <1>1, <1>3, <1>5 DEF how

LEMMA CompiledIs ==
  ASSUME NEW p \in 1 .. Len(Layouts), Len(Layouts) \in Nat
  PROVE  Compiled[p] = Generated(Layouts[p])
<1> DEFINE n == Len(Layouts)
           how == <<"layouts">>
           U == {Generated(Layouts[k]) : k \in 1 .. n}
           Is(m, q) == q \in Seq(U) /\ Len(q) = m /\ \A k \in 1 .. m : q[k] = Generated(Layouts[k])
<1>1. PICK g : IsRun(how, <<>>, n, g) /\ Compiled = g[n]
  BY CompiledGo
<1>2. \A i \in 0 .. n : g[i] = IF i = 0 THEN <<>> ELSE StepOf(how, g[i - 1], i)
  BY <1>1 DEF IsRun
<1>3. n \in Nat
  OBVIOUS
<1> HIDE DEF n
<1> DEFINE P == {m \in Nat : m <= n => Is(m, g[m])}
<1>4. 0 \in P
  <2>1. g[0] = <<>>
    BY <1>2, <1>3
  <2>2. Is(0, <<>>)
    OBVIOUS
  <2> QED BY <2>1, <2>2
<1>5. ASSUME NEW m \in Nat, m \in P
      PROVE  m + 1 \in P
  <2> SUFFICES ASSUME m + 1 <= n PROVE Is(m + 1, g[m + 1])
    OBVIOUS
  <2>1. m + 1 \in 0 .. n /\ m + 1 \in 1 .. n /\ m + 1 # 0 /\ (m + 1) - 1 = m /\ m <= n
    BY <1>3
  <2> DEFINE q == g[m]
             e == Generated(Layouts[m + 1])
  <2>2. g[m + 1] = Append(q, e)
    BY <1>2, <2>1 DEF StepOf
  <2>3. q \in Seq(U) /\ Len(q) = m /\ \A k \in 1 .. m : q[k] = Generated(Layouts[k])
    BY <1>5, <2>1
  <2>4. e \in U
    BY <2>1
  <2> HIDE DEF q, e, U
  <2>5. Append(q, e) \in Seq(U) /\ Len(Append(q, e)) = m + 1
    BY <2>3, <2>4
  <2>6. \A k \in 1 .. m + 1 : Append(q, e)[k] = IF k = m + 1 THEN e ELSE q[k]
    BY <2>3, <2>4
  <2>7. \A k \in 1 .. m + 1 : Append(q, e)[k] = Generated(Layouts[k])
    <3>1. TAKE k \in 1 .. m + 1
    <3>2. k # m + 1 => k \in 1 .. m
      OBVIOUS
    <3> QED BY <3>2, <2>3, <2>6 DEF e
  <2> QED BY <2>2, <2>5, <2>7
<1> HIDE DEF P
<1>6. n \in P
  BY <1>3, <1>4, <1>5, CountingOn
<1>7. Is(n, g[n])
  BY <1>3, <1>6 DEF P
<1> QED BY <1>1, <1>7 DEF n

\* A pool that has every register once has twelve.
LEMMA WholePool ==
  ASSUME NEW st, Good(st, Registers)
  PROVE  IsWholePool(st.pool)
<1> DEFINE p == st.pool
           n == Len(p)
<1>1. Enumerates(p, Registers)
  BY DEF Good
<1>2. p \in Seq(Registers) /\ n \in Nat /\ DOMAIN p = 1 .. n /\ p \in [1 .. n -> Registers]
  BY <1>1 DEF Enumerates
<1> HIDE DEF p
<1>3. \A i \in 1 .. n : p[i] \in Registers
  BY <1>2
<1>4. ToSet(p) = Registers
  BY <1>1, <1>2, <1>3 DEF ToSet, Enumerates
<1>5. p \in Bijection(1 .. n, Registers)
  BY <1>1, <1>2 DEF Bijection, Injection, Surjection, IsInjective, Enumerates
<1>6. Cardinality(Registers) = n
  BY <1>2, <1>5, FS_CountingElements DEF ExistsBijection
<1>7. Cardinality(1 .. 12) = 12
  <2>1. 1 \in Int /\ 12 \in Int /\ ~ (1 > 12) /\ 12 - 1 + 1 = 12
    OBVIOUS
  <2>2. \A a, b \in Int : Cardinality(a .. b) = IF a > b THEN 0 ELSE b - a + 1
    BY FS_Interval
  <2> QED BY <2>1, <2>2
<1> QED BY <1>4, <1>6, <1>7 DEF IsWholePool, Registers, p

\* The program that runs is one of those compiled.
LEMMA ProgramStays == Spec => [](prog \in DOMAIN Inputs)
<1>1. Init => prog \in DOMAIN Inputs
  BY DEF Init
<1>2. prog \in DOMAIN Inputs /\ [Next]_vars => (prog \in DOMAIN Inputs)'
  BY DEF Next, vars, LoadProgram, Instruction, LibraryRoutine, Stopped, Compute, LoadWord, StoreWord,
         Jump, JumpAndSaveLink, JumpToRegister, Halt, IntStr, PutStr, PutNl, GetStr, StrInt, Back
<1> QED BY <1>1, <1>2, PTL DEF Spec

\* For programs of any size, with any trees and frames: the code generator frees every
\* register that it takes, once (allocateRegister, freeRegister), unless the program
\* indexes a name without dimensions.
THEOREM RegistersStayFree == Spec => []RegistersAreFreed
<1>1. prog \in DOMAIN Inputs => RegistersAreFreed
  <2> SUFFICES ASSUME prog \in DOMAIN Inputs, OnlyArraysIndexed(Layouts[prog])
               PROVE  IsWholePool(Compiled[prog].pool)
    BY DEF RegistersAreFreed
  <2> DEFINE n == Len(Layouts)
  <2>1. n \in Nat /\ DOMAIN Layouts = 1 .. n /\ MaxHeight \in Nat
    BY LayoutsAssumption DEF AreLayouts, IsSequence
  <2>2. prog \in 1 .. n /\ IsLayout(Layouts[prog])
    BY <2>1, ProgramsAssumption, LayoutsAssumption DEF AreLayouts
  <2>3. Compiled[prog] = Generated(Layouts[prog])
    BY <2>1, <2>2, CompiledIs
  <2>4. Good(Generated(Layouts[prog]), Registers)
    BY <2>1, <2>2, ProgramKeeps
  <2> QED BY <2>3, <2>4, WholePool
<1> QED BY <1>1, ProgramStays, PTL

-----------------------------------------------------------------------------

\* Dimensions are numbers; one that is not positive makes a dynamic array.
AreDims(dims) == dims \in Seq(Int)

AreSizes(sizes) == \A c \in DOMAIN sizes : sizes[c] \in Nat

IsTable(table) ==
  /\ table.order \in Seq(DOMAIN table.syms)
  /\ \A x \in DOMAIN table.syms : AreDims(table.syms[x].dims)

\* An array is as large as its elements.
LEMMA SizeGoes ==
  ASSUME NEW size, NEW dims, Len(dims) \in Nat
  PROVE  \E g : /\ IsRun(<<"dimensions", dims>>, size, Len(dims), g)
                /\ Through(LAMBDA s, d : s * d, size, dims) = g[Len(dims)]
<1> DEFINE how == <<"dimensions", dims>>
           n == Len(dims)
           Body(g, i) == IF i = 0 THEN size
                         ELSE CHOOSE r \in {s * dims[i] : s \in {g[i - 1]}} : TRUE
           A(g) == g = [i \in 0 .. n |-> Body(g, i)]
<1>1. Through(LAMBDA s, d : s * d, size, dims) = (CHOOSE g : A(g))[n]
  BY DEF Through
<1>2. ASSUME NEW g, NEW i \in 0 .. n
      PROVE  Body(g, i) = IF i = 0 THEN size ELSE StepOf(how, g[i - 1], i)
  <2>1. ASSUME NEW x PROVE (CHOOSE r \in {s * dims[i] : s \in {x}} : TRUE) = x * dims[i]
    OBVIOUS
  <2>2. ASSUME NEW x, i # 0 PROVE x * dims[i] = StepOf(how, x, i)
    BY DEF StepOf
  <2> QED BY <2>1, <2>2
<1> HIDE DEF Body, how
<1>3. \A g : A(g) <=> IsRun(how, size, n, g)
  BY <1>2 DEF IsRun
<1>4. \E g : A(g)
  BY <1>3, RunExists
<1> HIDE DEF A
<1>5. A(CHOOSE g : A(g))
  BY <1>4
<1> QED BY <1>1, <1>3, <1>5 DEF how

LEMMA SizeIsNumber ==
  ASSUME NEW symbol, AreDims(symbol.dims), NEW sizes, AreSizes(sizes)
  PROVE  SymbolSize(symbol, sizes) \in Nat
<1> DEFINE size == TypeSize(symbol.type, sizes)
           d == symbol.dims
           n == Len(d)
           how == <<"dimensions", d>>
<1>1. size \in Nat
  BY DEF TypeSize, AreSizes, IntSize, FloatSize, PointerSize
<1>2. n \in Nat /\ DOMAIN d = 1 .. n /\ d \in Seq(Int)
  BY DEF AreDims
<1>3. CASE \A i \in DOMAIN d : d[i] > 0
  <2> HIDE DEF size, d
  <2>1. PICK g : IsRun(how, size, n, g) /\ Through(LAMBDA s, e : s * e, size, d) = g[n]
    BY <1>2, SizeGoes
  <2>2. \A i \in 0 .. n : g[i] = IF i = 0 THEN size ELSE StepOf(how, g[i - 1], i)
    BY <2>1 DEF IsRun
  <2>3. \A i \in 1 .. n : StepOf(how, g[i - 1], i) = g[i - 1] * d[i]
    BY DEF StepOf
  <2>4. \A i \in 1 .. n : d[i] \in Nat
    BY <1>2, <1>3
  <2> DEFINE P == {m \in Nat : m <= n => g[m] \in Nat}
  <2> HIDE DEF n, how
  <2>5. 0 \in P
    BY <1>1, <1>2, <2>2
  <2>6. ASSUME NEW m \in Nat, m \in P
        PROVE  m + 1 \in P
    <3> SUFFICES ASSUME m + 1 <= n PROVE g[m + 1] \in Nat
      OBVIOUS
    <3>1. m + 1 \in 0 .. n /\ m + 1 \in 1 .. n /\ m + 1 # 0 /\ (m + 1) - 1 = m /\ m <= n
      BY <1>2
    <3>2. g[m] \in Nat /\ d[m + 1] \in Nat
      BY <2>4, <2>6, <3>1
    <3>3. g[m + 1] = g[m] * d[m + 1]
      BY <2>2, <2>3, <3>1
    <3>4. \A a, b \in Nat : a * b \in Nat
      OBVIOUS
    <3> QED BY <3>2, <3>3, <3>4
  <2> HIDE DEF P
  <2>7. n \in P
    BY <1>2, <2>5, <2>6, CountingOn
  <2>8. g[n] \in Nat
    BY <1>2, <2>7 DEF P
  <2>9. SymbolSize(symbol, sizes) = Through(LAMBDA s, e : s * e, size, d)
    BY <1>3 DEF SymbolSize, size, d
  <2> QED BY <2>1, <2>8, <2>9
<1>4. CASE ~ \A i \in DOMAIN d : d[i] > 0
  BY <1>4 DEF SymbolSize, PointerSize
<1> QED BY <1>3, <1>4

-----------------------------------------------------------------------------

IsBelow(s, t) == s.offset + s.size <= t.offset

\* The slots of a frame lie between its scope offset and its start, apart from each other.
AreApart(frame, initial) ==
  /\ frame.scope \in Int /\ frame.scope <= initial
  /\ \A x \in DOMAIN frame.slots :
       /\ frame.slots[x].offset \in Int /\ frame.slots[x].size \in Nat
       /\ frame.scope <= frame.slots[x].offset
       /\ frame.slots[x].offset + frame.slots[x].size <= initial
  /\ \A x, y \in DOMAIN frame.slots :
       x # y => \/ IsBelow(frame.slots[x], frame.slots[y])
                \/ IsBelow(frame.slots[y], frame.slots[x])

\* The symbols of S have a slot, of their size.
HasSlots(frame, table, S, sizes) ==
  /\ DOMAIN frame.slots = S
  /\ \A x \in S : frame.slots[x].size = SymbolSize(table.syms[x], sizes)

LEMMA PlaceKeeps ==
  ASSUME NEW frame, NEW initial \in Int, AreApart(frame, initial),
         NEW table, NEW S, NEW sizes, HasSlots(frame, table, S, sizes),
         NEW x, SymbolSize(table.syms[x], sizes) \in Nat
  PROVE  LET next == Place(frame, x, table.syms[x], sizes)
         IN  AreApart(next, initial) /\ HasSlots(next, table, S \cup {x}, sizes)
<1> DEFINE size == SymbolSize(table.syms[x], sizes)
           symbol == table.syms[x]
           low == frame.scope - size
           slot == [offset |-> low, size |-> size, kind |-> symbol.kind,
                    type |-> symbol.type, dims |-> symbol.dims]
           slots == Put(frame.slots, x, slot)
           next == Place(frame, x, symbol, sizes)
<1>1. next = [slots |-> slots, scope |-> low]
  BY DEF Place
<1>2. slot.offset = low /\ slot.size = size
  OBVIOUS
<1> HIDE DEF slot, next, symbol
<1>3. /\ DOMAIN slots = S \cup {x}
      /\ slots[x] = slot
      /\ \A y \in S : y # x => slots[y] = frame.slots[y]
  BY DEF Put, HasSlots
<1> HIDE DEF slots, size
<1>4. low \in Int /\ size \in Nat /\ low <= frame.scope /\ low <= initial
      /\ low + size = frame.scope /\ frame.scope \in Int /\ frame.scope <= initial
  BY DEF AreApart, size
<1>5. ASSUME NEW y \in S \cup {x}
      PROVE  /\ slots[y].offset \in Int /\ slots[y].size \in Nat
             /\ low <= slots[y].offset
             /\ slots[y].offset + slots[y].size <= initial
             /\ y # x => frame.scope <= slots[y].offset
  <2>1. CASE y = x
    BY <2>1, <1>2, <1>3, <1>4
  <2>2. CASE y # x
    <3>1. y \in DOMAIN frame.slots /\ slots[y] = frame.slots[y]
      BY <2>2, <1>3 DEF HasSlots
    <3> QED BY <3>1, <1>4 DEF AreApart
  <2> QED BY <2>1, <2>2
<1>6. ASSUME NEW y \in S \cup {x}, NEW z \in S \cup {x}, y # z
      PROVE  IsBelow(slots[y], slots[z]) \/ IsBelow(slots[z], slots[y])
  <2>1. CASE y = x
    BY <2>1, <1>2, <1>3, <1>4, <1>5, <1>6 DEF IsBelow
  <2>2. CASE z = x
    BY <2>2, <1>2, <1>3, <1>4, <1>5, <1>6 DEF IsBelow
  <2>3. CASE y # x /\ z # x
    <3>1. y \in DOMAIN frame.slots /\ slots[y] = frame.slots[y] /\ z \in DOMAIN frame.slots
          /\ slots[z] = frame.slots[z]
      BY <2>3, <1>3 DEF HasSlots
    <3> QED BY <3>1, <1>6 DEF AreApart
  <2> QED BY <2>1, <2>2, <2>3
<1>7. next.slots = slots /\ next.scope = low
  BY <1>1
<1> HIDE DEF low
<1>8. AreApart(next, initial)
  BY <1>3, <1>4, <1>5, <1>6, <1>7 DEF AreApart
<1>9. \A y \in S \cup {x} : slots[y].size = SymbolSize(table.syms[y], sizes)
  BY <1>2, <1>3 DEF HasSlots, size
<1>10. HasSlots(next, table, S \cup {x}, sizes)
  BY <1>3, <1>7, <1>9 DEF HasSlots
<1> QED BY <1>8, <1>10 DEF next, symbol

LEMMA FrameGoes ==
  ASSUME NEW table, NEW initial, NEW sizes, Len(table.order) \in Nat
  PROVE  \E g : /\ IsRun(<<"symbols", table, sizes>>, [slots |-> <<>>, scope |-> initial],
                         Len(table.order), g)
                /\ Frame(table, initial, sizes) = g[Len(table.order)]
<1> DEFINE how == <<"symbols", table, sizes>>
           n == Len(table.order)
           st == [slots |-> <<>>, scope |-> initial]
           After(s, i) == Place(s, table.order[i], table.syms[table.order[i]], sizes)
           Body(g, i) == IF i = 0 THEN st
                         ELSE CHOOSE r \in {After(s, i) : s \in {g[i - 1]}} : TRUE
           A(g) == g = [i \in 0 .. n |-> Body(g, i)]
<1>1. Frame(table, initial, sizes) = (CHOOSE g : A(g))[n]
  BY DEF Frame, Through
<1> HIDE DEF st
<1>2. ASSUME NEW g, NEW i \in 0 .. n
      PROVE  Body(g, i) = IF i = 0 THEN st ELSE StepOf(how, g[i - 1], i)
  <2>1. ASSUME NEW x PROVE (CHOOSE r \in {After(s, i) : s \in {x}} : TRUE) = After(x, i)
    OBVIOUS
  <2>2. ASSUME NEW x, i # 0 PROVE After(x, i) = StepOf(how, x, i)
    BY DEF StepOf
  <2> QED BY <2>1, <2>2
<1> HIDE DEF Body, how
<1>3. \A g : A(g) <=> IsRun(how, st, n, g)
  BY <1>2 DEF IsRun
<1>4. \E g : A(g)
  BY <1>3, RunExists
<1> HIDE DEF A
<1>5. A(CHOOSE g : A(g))
  BY <1>4
<1> QED BY <1>1, <1>3, <1>5 DEF how, st

\* Whatever the symbols and their sizes, each has a slot of its own.
LEMMA FrameApart ==
  ASSUME NEW table, IsTable(table), NEW initial \in Int, NEW sizes, AreSizes(sizes)
  PROVE  /\ AreApart(Frame(table, initial, sizes), initial)
         /\ HasSlots(Frame(table, initial, sizes), table, Range(table.order), sizes)
<1> DEFINE order == table.order
           n == Len(order)
           how == <<"symbols", table, sizes>>
           st == [slots |-> <<>>, scope |-> initial]
           S(m) == {order[i] : i \in 1 .. m}
           Is(m, frame) == AreApart(frame, initial) /\ HasSlots(frame, table, S(m), sizes)
<1>1. n \in Nat /\ DOMAIN order = 1 .. n /\ \A i \in 1 .. n : order[i] \in DOMAIN table.syms
  BY DEF IsTable
<1>2. PICK g : IsRun(how, st, n, g) /\ Frame(table, initial, sizes) = g[n]
  BY <1>1, FrameGoes
<1>3. \A i \in 0 .. n : g[i] = IF i = 0 THEN st ELSE StepOf(how, g[i - 1], i)
  BY <1>2 DEF IsRun
<1>4. \A i \in 1 .. n : StepOf(how, g[i - 1], i) = Place(g[i - 1], order[i], table.syms[order[i]], sizes)
  BY DEF StepOf
<1>5. \A x \in DOMAIN table.syms : SymbolSize(table.syms[x], sizes) \in Nat
  BY SizeIsNumber DEF IsTable
<1>6. Is(0, st)
  <2>1. DOMAIN st.slots = {} /\ st.scope = initial /\ S(0) = {}
    OBVIOUS
  <2> HIDE DEF st, S
  <2> QED BY <2>1 DEF AreApart, HasSlots
<1> HIDE DEF st, how, order, n
<1> DEFINE P == {m \in Nat : m <= n => Is(m, g[m])}
<1>7. 0 \in P
  <2>1. g[0] = st
    BY <1>1, <1>3
  <2> HIDE DEF S, Is
  <2>2. Is(0, g[0])
    BY <2>1, <1>6
  <2> QED BY <2>2
<1>8. ASSUME NEW m \in Nat, m \in P
      PROVE  m + 1 \in P
  <2> SUFFICES ASSUME m + 1 <= n PROVE Is(m + 1, g[m + 1])
    OBVIOUS
  <2>1. m + 1 \in 0 .. n /\ m + 1 \in 1 .. n /\ m + 1 # 0 /\ (m + 1) - 1 = m /\ m <= n
    BY <1>1
  <2> DEFINE x == order[m + 1]
  <2>2. g[m + 1] = Place(g[m], x, table.syms[x], sizes)
    BY <1>3, <1>4, <2>1
  <2>3. Is(m, g[m])
    BY <1>8, <2>1
  <2>4. S(m + 1) = S(m) \cup {x}
    OBVIOUS
  <2>5. SymbolSize(table.syms[x], sizes) \in Nat
    BY <1>1, <1>5, <2>1
  <2> HIDE DEF x, S
  <2> QED BY <2>2, <2>3, <2>4, <2>5, PlaceKeeps
<1> HIDE DEF P
<1>9. n \in P
  BY <1>1, <1>7, <1>8, CountingOn
<1>10. Is(n, g[n])
  BY <1>1, <1>9 DEF P
<1>11. Range(order) = S(n)
  BY <1>1 DEF Range
<1> HIDE DEF S
<1> QED BY <1>2, <1>10, <1>11 DEF order

-----------------------------------------------------------------------------

AreAttributes(attributes) ==
  /\ Len(attributes) \in Nat
  /\ \A i \in 1 .. Len(attributes) : AreDims(attributes[i].dims)

HasFields(table) == {"syms", "order"} \subseteq DOMAIN table

LEMMA AttributeKeeps ==
  ASSUME NEW table, HasFields(table), IsTable(table), NEW name, NEW type, NEW dims, AreDims(dims)
  PROVE  LET next == AddSymbol(table, name, Symbol("VARIABLE", type, dims))
         IN  HasFields(next) /\ IsTable(next)
<1> DEFINE symbol == Symbol("VARIABLE", type, dims)
           syms == Put(table.syms, name, symbol)
           order == Append(table.order, name)
           next == [table EXCEPT !.syms = syms, !.order = order]
<1>1. symbol.kind = "VARIABLE" /\ symbol.dims = dims
  BY DEF Symbol
<1> HIDE DEF symbol
<1>2. AddSymbol(table, name, symbol) = IF name \in DOMAIN table.syms THEN table ELSE next
  BY <1>1 DEF AddSymbol, AddOther
<1>3. DOMAIN syms = DOMAIN table.syms \cup {name} /\ syms[name] = symbol
      /\ \A x \in DOMAIN table.syms : x # name => syms[x] = table.syms[x]
  BY DEF Put
<1>4. order \in Seq(DOMAIN syms)
  BY <1>3 DEF IsTable
<1> HIDE DEF syms, order
<1>5. next.syms = syms /\ next.order = order /\ DOMAIN next = DOMAIN table
  BY DEF HasFields
<1> HIDE DEF next
<1>6. \A x \in DOMAIN syms : AreDims(syms[x].dims)
  BY <1>1, <1>3 DEF IsTable
<1>7. HasFields(next) /\ IsTable(next)
  BY <1>4, <1>5, <1>6 DEF HasFields, IsTable
<1> QED BY <1>2, <1>7 DEF symbol

LEMMA ClassTableGoes ==
  ASSUME NEW class, Len(class.attributes) \in Nat
  PROVE  \E g : /\ IsRun(<<"attributes", class.attributes>>, EmptyTable("class", <<>>),
                         Len(class.attributes), g)
                /\ ClassTable(class) = g[Len(class.attributes)]
<1> DEFINE q == class.attributes
           how == <<"attributes", q>>
           n == Len(q)
           st == EmptyTable("class", <<>>)
           After(s, i) == AddSymbol(s, q[i].name, Symbol("VARIABLE", q[i].type, q[i].dims))
           Body(g, i) == IF i = 0 THEN st
                         ELSE CHOOSE r \in {After(s, i) : s \in {g[i - 1]}} : TRUE
           A(g) == g = [i \in 0 .. n |-> Body(g, i)]
<1>1. ClassTable(class) = (CHOOSE g : A(g))[n]
  BY DEF ClassTable, Through
<1> HIDE DEF st
<1>2. ASSUME NEW g, NEW i \in 0 .. n
      PROVE  Body(g, i) = IF i = 0 THEN st ELSE StepOf(how, g[i - 1], i)
  <2>1. ASSUME NEW x PROVE (CHOOSE r \in {After(s, i) : s \in {x}} : TRUE) = After(x, i)
    OBVIOUS
  <2>2. ASSUME NEW x, i # 0 PROVE After(x, i) = StepOf(how, x, i)
    BY DEF StepOf
  <2> QED BY <2>1, <2>2
<1> HIDE DEF Body, how
<1>3. \A g : A(g) <=> IsRun(how, st, n, g)
  BY <1>2 DEF IsRun
<1>4. \E g : A(g)
  BY <1>3, RunExists
<1> HIDE DEF A
<1>5. A(CHOOSE g : A(g))
  BY <1>4
<1> QED BY <1>1, <1>3, <1>5 DEF how, st

LEMMA ClassTableIs ==
  ASSUME NEW class, AreAttributes(class.attributes)
  PROVE  IsTable(ClassTable(class))
<1> DEFINE q == class.attributes
           n == Len(q)
           how == <<"attributes", q>>
           st == EmptyTable("class", <<>>)
<1>1. n \in Nat /\ \A i \in 1 .. n : AreDims(q[i].dims)
  BY DEF AreAttributes
<1>2. PICK g : IsRun(how, st, n, g) /\ ClassTable(class) = g[n]
  BY <1>1, ClassTableGoes
<1>3. \A i \in 0 .. n : g[i] = IF i = 0 THEN st ELSE StepOf(how, g[i - 1], i)
  BY <1>2 DEF IsRun
<1>4. \A i \in 1 .. n : StepOf(how, g[i - 1], i)
                           = AddSymbol(g[i - 1], q[i].name, Symbol("VARIABLE", q[i].type, q[i].dims))
  BY DEF StepOf
<1>5. HasFields(st) /\ IsTable(st)
  <2>1. st.syms = <<>> /\ st.order = <<>> /\ DOMAIN <<>> = {} /\ HasFields(st)
    BY DEF EmptyTable, HasFields
  <2>2. <<>> \in Seq({})
    OBVIOUS
  <2> HIDE DEF st
  <2> QED BY <2>1, <2>2 DEF IsTable
<1> HIDE DEF st, how, n, q
<1> DEFINE P == {m \in Nat : m <= n => HasFields(g[m]) /\ IsTable(g[m])}
<1>6. 0 \in P
  BY <1>1, <1>3, <1>5
<1>7. ASSUME NEW m \in Nat, m \in P
      PROVE  m + 1 \in P
  <2> SUFFICES ASSUME m + 1 <= n PROVE HasFields(g[m + 1]) /\ IsTable(g[m + 1])
    OBVIOUS
  <2>1. m + 1 \in 0 .. n /\ m + 1 \in 1 .. n /\ m + 1 # 0 /\ (m + 1) - 1 = m /\ m <= n
    BY <1>1
  <2>2. HasFields(g[m]) /\ IsTable(g[m])
    BY <1>7, <2>1
  <2>3. AreDims(q[m + 1].dims)
    BY <1>1, <2>1
  <2>4. g[m + 1] = AddSymbol(g[m], q[m + 1].name, Symbol("VARIABLE", q[m + 1].type, q[m + 1].dims))
    BY <1>3, <1>4, <2>1
  <2> QED BY <2>2, <2>3, <2>4, AttributeKeeps
<1> HIDE DEF P
<1>8. n \in P
  BY <1>1, <1>6, <1>7, CountingOn
<1> QED BY <1>1, <1>2, <1>8 DEF P

-----------------------------------------------------------------------------

AreClasses(classes) ==
  /\ Len(classes) \in Nat
  /\ \A k \in 1 .. Len(classes) : AreAttributes(classes[k].attributes)

\* What is known of the classes of names.
AreKnown(acc, names) ==
  /\ DOMAIN acc.known = names \cup {""}
  /\ \A c \in DOMAIN acc.known : AreSizes(acc.known[c])
  /\ \A c \in DOMAIN acc.frames : AreApart(acc.frames[c], 0)

LEMMA ClassKeeps ==
  ASSUME NEW acc, NEW names, AreKnown(acc, names), NEW c, NEW frame, AreApart(frame, 0)
  PROVE  AreKnown(WithClass(acc, c, frame), names \cup {c})
<1> DEFINE sizes == Put(acc.known[""], c, -frame.scope)
           known == WithSizes(acc.known, c, sizes)
           frames == Put(acc.frames, c, frame)
<1>1. WithClass(acc, c, frame) = [frames |-> frames, known |-> known]
  BY DEF WithClass
<1>2. -frame.scope \in Nat
  BY DEF AreApart
<1>3. AreSizes(sizes)
  BY <1>2 DEF AreKnown, AreSizes, Put
<1> HIDE DEF sizes
<1>4. DOMAIN known = (DOMAIN acc.known \cup {c}) \cup {""}
      /\ \A d \in DOMAIN known : known[d] = sizes \/ (d \in DOMAIN acc.known /\ known[d] = acc.known[d])
  BY DEF WithSizes, Put
<1>5. \A d \in DOMAIN frames : frames[d] = frame \/ (d \in DOMAIN acc.frames /\ frames[d] = acc.frames[d])
  BY DEF Put
<1> HIDE DEF known, frames
<1>6. WithClass(acc, c, frame).known = known /\ WithClass(acc, c, frame).frames = frames
  BY <1>1
<1>7. DOMAIN known = (names \cup {c}) \cup {""}
  BY <1>4 DEF AreKnown
<1>8. \A d \in DOMAIN known : AreSizes(known[d])
  BY <1>3, <1>4 DEF AreKnown
<1>9. \A d \in DOMAIN frames : AreApart(frames[d], 0)
  BY <1>5 DEF AreKnown
<1> QED BY <1>6, <1>7, <1>8, <1>9 DEF AreKnown

NoClasses == [frames |-> <<>>, known |-> [c \in {""} |-> <<>>]]

LEMMA ClassesGo ==
  ASSUME NEW program, Len(program.classes) \in Nat
  PROVE  \E g : /\ IsRun(<<"classes", program.classes>>, NoClasses, Len(program.classes), g)
                /\ ClassFrames(program) = g[Len(program.classes)]
<1> DEFINE q == program.classes
           how == <<"classes", q>>
           n == Len(q)
           After(s, i) == WithClass(s, q[i].name, Frame(ClassTable(q[i]), 0, s.known[""]))
           Body(g, i) == IF i = 0 THEN NoClasses
                         ELSE CHOOSE r \in {After(s, i) : s \in {g[i - 1]}} : TRUE
           A(g) == g = [i \in 0 .. n |-> Body(g, i)]
<1>1. ClassFrames(program) = (CHOOSE g : A(g))[n]
  BY DEF ClassFrames, Through, NoClasses
<1>2. ASSUME NEW g, NEW i \in 0 .. n
      PROVE  Body(g, i) = IF i = 0 THEN NoClasses ELSE StepOf(how, g[i - 1], i)
  <2>1. ASSUME NEW x PROVE (CHOOSE r \in {After(s, i) : s \in {x}} : TRUE) = After(x, i)
    OBVIOUS
  <2>2. ASSUME NEW x, i # 0 PROVE After(x, i) = StepOf(how, x, i)
    BY DEF StepOf
  <2> QED BY <2>1, <2>2
<1> HIDE DEF Body, how
<1>3. \A g : A(g) <=> IsRun(how, NoClasses, n, g)
  BY <1>2 DEF IsRun
<1>4. \E g : A(g)
  BY <1>3, RunExists
<1> HIDE DEF A
<1>5. A(CHOOSE g : A(g))
  BY <1>4
<1> QED BY <1>1, <1>3, <1>5 DEF how

\* The sizes of the classes are known where they are needed, and members are apart.
LEMMA ClassesKnown ==
  ASSUME NEW program, AreClasses(program.classes)
  PROVE  AreKnown(ClassFrames(program),
                  {program.classes[k].name : k \in 1 .. Len(program.classes)})
<1> DEFINE q == program.classes
           n == Len(q)
           how == <<"classes", q>>
           names(m) == {q[k].name : k \in 1 .. m}
           Is(m, acc) == AreKnown(acc, names(m))
<1>1. n \in Nat /\ \A k \in 1 .. n : AreAttributes(q[k].attributes)
  BY DEF AreClasses
<1>2. PICK g : IsRun(how, NoClasses, n, g) /\ ClassFrames(program) = g[n]
  BY <1>1, ClassesGo
<1>3. \A i \in 0 .. n : g[i] = IF i = 0 THEN NoClasses ELSE StepOf(how, g[i - 1], i)
  BY <1>2 DEF IsRun
<1>4. \A i \in 1 .. n : StepOf(how, g[i - 1], i)
          = WithClass(g[i - 1], q[i].name, Frame(ClassTable(q[i]), 0, g[i - 1].known[""]))
  BY DEF StepOf
<1>5. Is(0, NoClasses)
  <2>1. names(0) = {}
    OBVIOUS
  <2>2. NoClasses.known = [c \in {""} |-> <<>>] /\ NoClasses.frames = <<>> /\ DOMAIN <<>> = {}
    BY DEF NoClasses
  <2> HIDE DEF names
  <2> QED BY <2>1, <2>2 DEF AreKnown, AreSizes
<1> HIDE DEF how, n, q
<1> DEFINE P == {m \in Nat : m <= n => Is(m, g[m])}
<1>6. 0 \in P
  <2>1. g[0] = NoClasses
    BY <1>1, <1>3
  <2> HIDE DEF Is
  <2>2. Is(0, g[0])
    BY <2>1, <1>5
  <2> QED BY <2>2
<1>7. ASSUME NEW m \in Nat, m \in P
      PROVE  m + 1 \in P
  <2> SUFFICES ASSUME m + 1 <= n PROVE Is(m + 1, g[m + 1])
    OBVIOUS
  <2>1. m + 1 \in 0 .. n /\ m + 1 \in 1 .. n /\ m + 1 # 0 /\ (m + 1) - 1 = m /\ m <= n
    BY <1>1
  <2> DEFINE c == q[m + 1]
             frame == Frame(ClassTable(c), 0, g[m].known[""])
  <2>2. Is(m, g[m])
    BY <1>7, <2>1
  <2>3. g[m + 1] = WithClass(g[m], c.name, frame)
    BY <1>3, <1>4, <2>1
  <2>4. IsTable(ClassTable(c))
    BY <1>1, <2>1, ClassTableIs
  <2>5. names(m + 1) = names(m) \cup {c.name}
    OBVIOUS
  <2>6. AreSizes(g[m].known[""])
    BY <2>2 DEF AreKnown
  <2>7. AreApart(frame, 0)
    <3> DEFINE t == ClassTable(c)
               sizes == g[m].known[""]
    <3> HIDE DEF t, sizes
    <3>1. IsTable(t) /\ AreSizes(sizes)
      BY <2>4, <2>6 DEF t, sizes
    <3> DEFINE start == 0
    <3>2. start \in Int
      OBVIOUS
    <3> HIDE DEF start
    <3>3. AreApart(Frame(t, start, sizes), start)
      BY <3>1, <3>2, FrameApart
    <3> QED BY <3>3 DEF t, sizes, start
  <2> HIDE DEF c, frame, names
  <2> QED BY <2>2, <2>3, <2>5, <2>7, ClassKeeps
<1> HIDE DEF P
<1>8. n \in P
  BY <1>1, <1>6, <1>7, CountingOn
<1>9. Is(n, g[n])
  BY <1>1, <1>8 DEF P
<1> QED BY <1>2, <1>9 DEF n, q

-----------------------------------------------------------------------------

\* A function is free, or of a class of the program.
IsOf(fun, program) ==
  fun.class \in {program.classes[k].name : k \in 1 .. Len(program.classes)} \cup {""}

LEMMA StartIsBelowLink ==
  ASSUME NEW fun, NEW sizes, AreSizes(sizes)
  PROVE  InitialOffset(fun, sizes) \in Int /\ InitialOffset(fun, sizes) <= -4
<1> DEFINE size == TypeSize(fun.type, sizes)
<1>1. size \in Nat
  BY DEF TypeSize, AreSizes, IntSize, FloatSize, PointerSize
<1>2. InitialOffset(fun, sizes) = AlignedBelow(0, size) - 4
  BY DEF InitialOffset
<1> HIDE DEF size
<1>3. size - 0 = size /\ size \div 8 \in Nat /\ size \div 4 \in Nat
  BY <1>1
<1>4. AlignedBelow(0, size) = IF size >= 8 THEN -((size \div 8) * 8) ELSE -((size \div 4) * 4)
  BY <1>3 DEF AlignedBelow
<1>5. AlignedBelow(0, size) \in Int /\ AlignedBelow(0, size) <= 0
  <2>1. ASSUME NEW a \in Nat PROVE -(a * 8) \in Int /\ -(a * 8) <= 0 /\ -(a * 4) \in Int /\ -(a * 4) <= 0
    OBVIOUS
  <2> QED BY <1>3, <1>4, <2>1
<1> QED BY <1>2, <1>5

\* The word that a function saves its link in, and a slot of a function that is called as
\* its caller addresses it.
SavedLink == [offset |-> -4, size |-> 4]
InCaller(slot, frame) == [offset |-> frame.scope + slot.offset, size |-> slot.size]

\* In any program each symbol of a function has a slot of its size; slots are apart from
\* each other and below the saved link (calculateTableOffsets,
\* calculateFunctionInitialOffset).  A call moves the stack pointer by the scope offset of
\* the caller: the saved link and the slots of the function that is called are below all
\* slots of the caller (generateFunctionPrologue, visitFunctionCall).
THEOREM FramesStayApart ==
  ASSUME NEW program, AreClasses(program.classes),
         NEW fun, IsOf(fun, program), NEW table, IsTable(table),
         NEW callee, IsOf(callee, program), NEW called, IsTable(called)
  PROVE  LET classes == ClassFrames(program)
             frame == FunctionFrame(fun, table, classes)
             below == FunctionFrame(callee, called, classes)
         IN  /\ AreApart(frame, SavedLink.offset)
             /\ DOMAIN frame.slots = Range(table.order)
             /\ \A x \in DOMAIN frame.slots :
                  /\ IsBelow(InCaller(SavedLink, frame), frame.slots[x])
                  /\ \A y \in DOMAIN below.slots :
                       IsBelow(InCaller(below.slots[y], frame), frame.slots[x])
<1> DEFINE classes == ClassFrames(program)
           frame == FunctionFrame(fun, table, classes)
           below == FunctionFrame(callee, called, classes)
<1>1. ASSUME NEW f, IsOf(f, program), NEW t, IsTable(t)
      PROVE  AreApart(FunctionFrame(f, t, classes), -4)
             /\ DOMAIN FunctionFrame(f, t, classes).slots = Range(t.order)
  <2> DEFINE sizes == classes.known[f.class]
             initial == InitialOffset(f, sizes)
             g == Frame(t, initial, sizes)
  <2>1. AreSizes(sizes)
    BY <1>1, ClassesKnown DEF AreKnown, IsOf
  <2> HIDE DEF sizes
  <2>2. initial \in Int /\ initial <= -4
    BY <2>1, StartIsBelowLink
  <2> HIDE DEF initial
  <2>3. AreApart(g, initial) /\ HasSlots(g, t, Range(t.order), sizes)
    BY <1>1, <2>1, <2>2, FrameApart
  <2>4. FunctionFrame(f, t, classes) = g
    BY DEF FunctionFrame, g, initial, sizes
  <2> HIDE DEF g
  <2>5. AreApart(g, -4)
    BY <2>2, <2>3 DEF AreApart
  <2> QED BY <2>3, <2>4, <2>5 DEF HasSlots
<1>2. /\ AreApart(frame, -4) /\ DOMAIN frame.slots = Range(table.order)
      /\ AreApart(below, -4)
  BY <1>1
<1> HIDE DEF frame, below
<1>3. SavedLink.offset = -4 /\ SavedLink.size = 4
  BY DEF SavedLink
<1>4. ASSUME NEW x \in DOMAIN frame.slots
      PROVE  IsBelow(InCaller(SavedLink, frame), frame.slots[x])
  BY <1>2, <1>3 DEF IsBelow, InCaller, AreApart
<1>5. ASSUME NEW x \in DOMAIN frame.slots, NEW y \in DOMAIN below.slots
      PROVE  IsBelow(InCaller(below.slots[y], frame), frame.slots[x])
  BY <1>2 DEF IsBelow, InCaller, AreApart
<1> QED BY <1>2, <1>3, <1>4, <1>5 DEF frame, below

=============================================================================
