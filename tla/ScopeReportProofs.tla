------------------------- MODULE ScopeReportProofs -------------------------
(***************************************************************************)
(* ScopeReportProofs: what SymbolTableVisitor reports of the declarations  *)
(* of every program, and what it leaves in the tables of each.             *)
(*                                                                         *)
(* The rules speak of the declarations, the code looks into the tables.    *)
(* The invariant says what the one knows of the other: each declaration    *)
(* that was visited has its name and its signature in the table of its     *)
(* scope, and whatever is in a table comes from a declaration; while the   *)
(* body of a function is visited its table has the parameters visited so   *)
(* far and the local variables, and if the function is free nothing else.  *)
(***************************************************************************)
EXTENDS ScopeRules, SequenceLemmas

-----------------------------------------------------------------------------

(***************************************************************************)
(* That the tables are sound, whatever the names, the types and the size   *)
(* of the program.                                                         *)
(***************************************************************************)

Fields == {"scope", "owner", "syms", "order", "funs", "defined", "nested"}

\* The order of a table lists symbols, each once, and all of them; its functions have
\* symbols, and the symbol of a name is that of one of its signatures.
Enumerates(q, S) ==
  /\ q \in Seq(S)
  /\ \A y \in S : \E i \in 1 .. Len(q) : q[i] = y
  /\ \A i, j \in 1 .. Len(q) : q[i] = q[j] => i = j

IsOverload(t, x) ==
  LET own == Signature(x, t.syms[x].params) IN own \in DOMAIN t.funs /\ t.funs[own] = t.syms[x]

TableOK(t) ==
  /\ DOMAIN t = Fields
  /\ Enumerates(t.order, DOMAIN t.syms)
  /\ \A sig \in DOMAIN t.funs :
       /\ sig[1] \in DOMAIN t.syms /\ t.syms[sig[1]].kind = "FUNCTION"
       /\ IsOverload(t, sig[1])

LEMMA EmptyTableOK ==
  ASSUME NEW s, NEW o
  PROVE  TableOK(EmptyTable(s, o)) /\ EmptyTable(s, o).syms = <<>>
<1> DEFINE t == EmptyTable(s, o)
<1>1. DOMAIN t = Fields
  BY DEF EmptyTable, Fields
<1>2. t.order = <<>> /\ t.syms = <<>> /\ t.funs = <<>>
  BY DEF EmptyTable
<1>3. Len(t.order) = 0 /\ t.order \in Seq(DOMAIN t.syms) /\ DOMAIN t.syms = {} /\ DOMAIN t.funs = {}
  BY <1>2
<1> QED BY <1>1, <1>2, <1>3 DEF TableOK, Enumerates

\* Appending a new element to an enumeration of a set.
LEMMA AppendEnumerates ==
  ASSUME NEW S, NEW q, NEW x, x \notin S, Enumerates(q, S)
  PROVE  Enumerates(Append(q, x), S \cup {x})
<1> DEFINE r == Append(q, x)
           n == Len(q)
<1>1. q \in Seq(S) /\ q \in Seq(S \cup {x}) /\ x \in S \cup {x} /\ n \in Nat
  BY DEF Enumerates
<1>2. r \in Seq(S \cup {x}) /\ Len(r) = n + 1 /\ r[n + 1] = x
  BY <1>1
<1>3. \A i \in 1 .. n : r[i] = q[i] /\ q[i] \in S
  BY <1>1
<1> HIDE DEF r, n
<1>4. ASSUME NEW y \in S \cup {x}
      PROVE  \E i \in 1 .. Len(r) : r[i] = y
  <2>1. CASE y = x
    <3>1. n + 1 \in 1 .. Len(r)
      BY <1>1, <1>2
    <3> QED BY <1>2, <2>1, <3>1
  <2>2. CASE y \in S
    <3>1. PICK i \in 1 .. n : q[i] = y
      BY <2>2 DEF n, Enumerates
    <3>2. i \in 1 .. Len(r)
      BY <1>1, <1>2, <3>1
    <3> QED BY <1>3, <3>1, <3>2
  <2> QED BY <2>1, <2>2
<1>5. ASSUME NEW i \in 1 .. Len(r), NEW j \in 1 .. Len(r), r[i] = r[j]
      PROVE  i = j
  <2>1. (i \in 1 .. n \/ i = n + 1) /\ (j \in 1 .. n \/ j = n + 1)
    BY <1>1, <1>2
  <2>2. CASE i \in 1 .. n /\ j \in 1 .. n
    BY <1>3, <1>5, <2>2 DEF n, Enumerates
  <2>3. CASE i = n + 1 /\ j \in 1 .. n
    BY <1>2, <1>3, <1>5, <2>3
  <2>4. CASE i \in 1 .. n /\ j = n + 1
    BY <1>2, <1>3, <1>5, <2>4
  <2> QED BY <2>1, <2>2, <2>3, <2>4
<1> QED BY <1>2, <1>4, <1>5 DEF r, Enumerates

LEMMA AddOtherOK ==
  ASSUME NEW t, TableOK(t), NEW x, NEW s, s.kind # "FUNCTION"
  PROVE  TableOK(AddOther(t, x, s))
<1> DEFINE u == AddOther(t, x, s)
<1>1. CASE x \in DOMAIN t.syms
  BY <1>1 DEF AddOther
<1>2. CASE x \notin DOMAIN t.syms
  <2>1. u.syms = Put(t.syms, x, s) /\ u.order = Append(t.order, x) /\ u.funs = t.funs /\ DOMAIN u = Fields
    BY <1>2 DEF AddOther, TableOK, Fields
  <2>2. DOMAIN u.syms = DOMAIN t.syms \cup {x} /\ \A y \in DOMAIN t.syms : u.syms[y] = t.syms[y]
    BY <1>2, <2>1 DEF Put
  <2>3. Enumerates(u.order, DOMAIN u.syms)
    BY <1>2, <2>1, <2>2, AppendEnumerates DEF TableOK
  <2>4. \A sig \in DOMAIN u.funs :
          sig[1] \in DOMAIN u.syms /\ u.syms[sig[1]].kind = "FUNCTION" /\ IsOverload(u, sig[1])
    BY <2>1, <2>2 DEF TableOK, IsOverload
  <2> QED BY <2>1, <2>3, <2>4 DEF TableOK
<1> QED BY <1>1, <1>2

LEMMA AddFunctionOK ==
  ASSUME NEW t, TableOK(t), NEW x, NEW s, s.kind = "FUNCTION"
  PROVE  TableOK(AddFunction(t, x, s))
<1> DEFINE u == AddFunction(t, x, s)
           sig0 == Signature(x, s.params)
<1>1. CASE HasFunction(t, x, s.params)
  BY <1>1 DEF AddFunction
<1>2. CASE ~ HasFunction(t, x, s.params)
  <2>1. u.syms = Put(t.syms, x, s) /\ u.order = NewIn(t.order, x) /\ DOMAIN u = Fields
        /\ u.funs = Put(t.funs, sig0, s)
    BY <1>2 DEF AddFunction, TableOK, Fields
  <2>2. /\ DOMAIN u.syms = DOMAIN t.syms \cup {x} /\ DOMAIN u.funs = DOMAIN t.funs \cup {sig0}
        /\ u.syms[x] = s /\ \A y \in DOMAIN t.syms \ {x} : u.syms[y] = t.syms[y]
    BY <2>1 DEF Put
  <2>3. sig0[1] = x /\ \A y, ps : Signature(y, ps)[1] = y
    BY DEF Signature
  <2>7. u.funs[sig0] = s /\ \A sig \in DOMAIN t.funs \ {sig0} : u.funs[sig] = t.funs[sig]
    BY <2>1 DEF Put
  <2>4. ASSUME NEW sig \in DOMAIN u.funs
        PROVE  /\ sig[1] \in DOMAIN u.syms /\ u.syms[sig[1]].kind = "FUNCTION"
               /\ IsOverload(u, sig[1])
    <3>1. CASE sig[1] = x
      <4>1. IsOverload(u, x)
        BY <2>2, <2>7 DEF IsOverload
      <4> QED BY <2>2, <3>1, <4>1
    <3>2. CASE sig[1] # x
      <4>1. sig \in DOMAIN t.funs
        BY <2>2, <2>3, <3>2
      <4>2. sig[1] \in DOMAIN t.syms /\ u.syms[sig[1]] = t.syms[sig[1]] /\ IsOverload(t, sig[1])
            /\ t.syms[sig[1]].kind = "FUNCTION"
        BY <2>2, <3>2, <4>1 DEF TableOK
      <4> DEFINE own == Signature(sig[1], t.syms[sig[1]].params)
      <4>3. own # sig0
        BY <2>3, <3>2
      <4>4. own \in DOMAIN t.funs /\ t.funs[own] = t.syms[sig[1]]
        BY <4>2 DEF IsOverload
      <4>5. own \in DOMAIN u.funs /\ u.funs[own] = u.syms[sig[1]]
        BY <2>2, <2>7, <4>2, <4>3, <4>4
      <4>6. IsOverload(u, sig[1])
        BY <4>2, <4>5 DEF IsOverload
      <4> QED BY <2>2, <4>2, <4>6
    <3> QED BY <3>1, <3>2
  <2>5. CASE x \in DOMAIN t.syms
    <3>1. u.order = t.order /\ DOMAIN u.syms = DOMAIN t.syms
      BY <2>1, <2>2, <2>5 DEF NewIn, TableOK, Enumerates
    <3> QED BY <2>1, <2>4, <3>1 DEF TableOK
  <2>6. CASE x \notin DOMAIN t.syms
    <3>1. \A i \in 1 .. Len(t.order) : t.order[i] \in DOMAIN t.syms /\ DOMAIN t.order = 1 .. Len(t.order)
      BY DEF TableOK, Enumerates
    <3>2. u.order = Append(t.order, x)
      BY <2>1, <2>6, <3>1 DEF NewIn, TableOK
    <3>3. Enumerates(u.order, DOMAIN u.syms)
      BY <2>2, <2>6, <3>2, AppendEnumerates DEF TableOK
    <3> QED BY <2>1, <2>4, <3>3 DEF TableOK
  <2> QED BY <2>5, <2>6
<1> QED BY <1>1, <1>2

LEMMA AddSymbolOK ==
  ASSUME NEW t, TableOK(t), NEW x, NEW s
  PROVE  TableOK(AddSymbol(t, x, s))
BY AddFunctionOK, AddOtherOK DEF AddSymbol

\* What the invariant does not look at.
LEMMA OtherFieldsOK ==
  ASSUME NEW t, TableOK(t), NEW v
  PROVE  /\ TableOK([t EXCEPT !.nested = v]) /\ [t EXCEPT !.nested = v].syms = t.syms
         /\ TableOK([t EXCEPT !.defined = v]) /\ [t EXCEPT !.defined = v].syms = t.syms
         /\ TableOK([t EXCEPT !.owner = v]) /\ [t EXCEPT !.owner = v].syms = t.syms
BY DEF TableOK, IsOverload, Fields

LEMMA Paths ==
  ASSUME NEW c, NEW k
  PROVE  /\ Append(<<>>, k) = <<k>> /\ Append(<<c>>, k) = <<c, k>>
         /\ Parent(<<k>>) = <<>> /\ Parent(<<c, k>>) = <<c>>
         /\ <<k>> # <<>> /\ <<c, k>> # <<>>
<1> DEFINE q == Append(<<c>>, k)
           r == <<c, k>>
<1>1. <<c>> \in Seq({c, k}) /\ r \in Seq({c, k}) /\ Len(r) = 2 /\ r[1] = c /\ r[2] = k
  OBVIOUS
<1>2. q \in Seq({c, k}) /\ Len(q) = 2 /\ q[1] = c /\ q[2] = k
  BY <1>1, AppendProperties
<1>3. \A i \in 1 .. 2 : q[i] = r[i]
  BY <1>1, <1>2
<1> HIDE DEF q, r
<1>4. q = r
  BY <1>1, <1>2, <1>3, SeqEqual
<1>5. Append(<<>>, k) = <<k>>
  OBVIOUS
<1>6. Len(<<k>>) = 1 /\ Len(<<c, k>>) = 2
  OBVIOUS
<1>7. Parent(<<k>>) = <<>> /\ Parent(<<c, k>>) = <<c>>
  BY <1>6 DEF Parent
<1> QED BY <1>4, <1>5, <1>7 DEF q, r

\* The place in the tree decides how deep the current table is, and the tables are
\* at most two deep, each below one that is there.
ScopeFits ==
  /\ place \in {"classes", "implementations", "functions", "done"} => scope = <<>>
  /\ place \in {"class", "implementation", "function"} => scope = <<scope[1]>>
  /\ place \in {"declaration", "method"} => scope = <<scope[1], scope[2]>>
  /\ place \in {"classes", "implementations", "functions", "done", "class", "implementation",
                "function", "declaration", "method"}

Nesting(paths) ==
  /\ <<>> \in paths
  /\ \A p \in paths : \/ p = <<>>
                     \/ p = <<p[1]>>
                     \/ (p = <<p[1], p[2]>> /\ <<p[1]>> \in paths)

ClassesIn(ts) ==
  \A c \in DOMAIN ts[<<>>].syms : ts[<<>>].syms[c].kind = "CLASS" => <<c>> \in DOMAIN ts

AllOK(ts) == \A p \in DOMAIN ts : TableOK(ts[p])

WellFormed(ts) == AllOK(ts) /\ Nesting(DOMAIN ts) /\ ClassesIn(ts)

IInv == ScopeFits /\ scope \in DOMAIN tables /\ WellFormed(tables)

SameSymbols(ts, us, paths) == \A p \in paths : us[p].syms = ts[p].syms

Shallow(path) == path = <<>> \/ path = <<path[1]>>

LEMMA NestingGrows ==
  ASSUME NEW paths, Nesting(paths), NEW p \in paths, NEW k, Shallow(p)
  PROVE  Nesting(paths \cup {Append(p, k)}) /\ Append(p, k) \notin {<<>>, p}
<1>1. CASE p = <<>>
  <2>1. Append(p, k) = <<k>> /\ <<k>>[1] = k
    BY <1>1, Paths
  <2> QED BY <1>1, <2>1 DEF Nesting
<1>2. CASE p = <<p[1]>>
  <2>1. Append(p, k) = <<p[1], k>>
    BY <1>2, Paths
  <2>2. <<p[1], k>>[1] = p[1] /\ <<p[1], k>>[2] = k /\ Len(<<p[1], k>>) = 2 /\ Len(<<p[1]>>) = 1
    OBVIOUS
  <2>3. <<p[1], k>> # <<p[1]>>
    BY <2>2
  <2> QED BY <1>2, <2>1, <2>2, <2>3 DEF Nesting
<1> QED BY <1>1, <1>2 DEF Shallow

\* addNestedTable of a good table below a table that is there.
LEMMA AddNestedOK ==
  ASSUME NEW ts, NEW p, p \in DOMAIN ts, NEW k, Append(p, k) # p, NEW new, TableOK(new), AllOK(ts)
  PROVE  /\ DOMAIN AddNested(ts, p, k, new) = DOMAIN ts \cup {Append(p, k)}
         /\ AllOK(AddNested(ts, p, k, new))
         /\ AddNested(ts, p, k, new)[Append(p, k)] = new
         /\ SameSymbols(ts, AddNested(ts, p, k, new), DOMAIN ts \ {Append(p, k)})
<1> DEFINE vs == [ts EXCEPT ![p].nested = Append(@, k)]
           q == Append(p, k)
<1>1. DOMAIN vs = DOMAIN ts
  OBVIOUS
<1>2. \A r \in DOMAIN ts : TableOK(vs[r]) /\ vs[r].syms = ts[r].syms
  BY OtherFieldsOK DEF AllOK
<1>3. AddNested(ts, p, k, new) = Put(vs, q, new)
  BY DEF AddNested
<1> HIDE DEF vs, q
<1>4. DOMAIN AddNested(ts, p, k, new) = DOMAIN ts \cup {q}
  BY <1>1, <1>3 DEF Put
<1>5. AllOK(AddNested(ts, p, k, new)) /\ AddNested(ts, p, k, new)[q] = new
  BY <1>1, <1>2, <1>3 DEF Put, AllOK
<1>6. SameSymbols(ts, AddNested(ts, p, k, new), DOMAIN ts \ {q})
  BY <1>1, <1>2, <1>3 DEF Put, SameSymbols
<1> QED BY <1>4, <1>5, <1>6 DEF q

-----------------------------------------------------------------------------

\* addSymbol leaves the other symbols of a table alone.
LEMMA AddedSymbols ==
  ASSUME NEW t, TableOK(t), NEW x, NEW s
  PROVE  \A y \in DOMAIN AddSymbol(t, x, s).syms :
           \/ y \in DOMAIN t.syms /\ AddSymbol(t, x, s).syms[y] = t.syms[y]
           \/ y = x /\ AddSymbol(t, x, s).syms[y] = s
BY DEF AddSymbol, AddFunction, AddOther, Put, TableOK, Fields

Changed(ts, p, u) == [ts EXCEPT ![p] = u]

KeepsClasses(ts, p, u) ==
  p = <<>> => \A c \in DOMAIN u.syms : u.syms[c].kind = "CLASS" => <<c>> \in DOMAIN ts

\* Any change of one table that keeps it in order and adds no class.
LEMMA ChangeOK ==
  ASSUME NEW ts, WellFormed(ts), NEW p, p \in DOMAIN ts, NEW u, TableOK(u), KeepsClasses(ts, p, u)
  PROVE  WellFormed(Changed(ts, p, u)) /\ DOMAIN Changed(ts, p, u) = DOMAIN ts
<1> DEFINE us == Changed(ts, p, u)
<1>1. DOMAIN us = DOMAIN ts /\ us[p] = u /\ \A r \in DOMAIN ts \ {p} : us[r] = ts[r]
  BY DEF Changed
<1> HIDE DEF us
<1>2. AllOK(us)
  BY <1>1 DEF WellFormed, AllOK
<1>3. Nesting(DOMAIN us) /\ <<>> \in DOMAIN ts
  BY <1>1 DEF WellFormed, Nesting
<1>4. ClassesIn(us)
  <2>1. CASE p = <<>>
    BY <1>1, <2>1 DEF KeepsClasses, ClassesIn
  <2>2. CASE p # <<>>
    BY <1>1, <1>3, <2>2 DEF WellFormed, ClassesIn
  <2> QED BY <2>1, <2>2
<1> QED BY <1>1, <1>2, <1>3, <1>4 DEF us, WellFormed

\* Adding a symbol, unless it is a class in the global table.
LEMMA AddOK ==
  ASSUME NEW ts, WellFormed(ts), NEW p, p \in DOMAIN ts, NEW x, NEW s,
         p # <<>> \/ s.kind # "CLASS"
  PROVE  TableOK(AddSymbol(ts[p], x, s)) /\ KeepsClasses(ts, p, AddSymbol(ts[p], x, s))
<1>1. TableOK(ts[p])
  BY DEF WellFormed, AllOK
<1>2. \A y \in DOMAIN AddSymbol(ts[p], x, s).syms :
        \/ y \in DOMAIN ts[p].syms /\ AddSymbol(ts[p], x, s).syms[y] = ts[p].syms[y]
        \/ y = x /\ AddSymbol(ts[p], x, s).syms[y] = s
  BY <1>1, AddedSymbols
<1> QED BY <1>1, <1>2, AddSymbolOK DEF WellFormed, ClassesIn, KeepsClasses

\* Nesting an empty table below the global one or below one of its tables.
LEMMA NestOK ==
  ASSUME NEW ts, WellFormed(ts), NEW p, p \in DOMAIN ts, Shallow(p),
         NEW k, NEW new, TableOK(new)
  PROVE  /\ WellFormed(AddNested(ts, p, k, new))
         /\ DOMAIN AddNested(ts, p, k, new) = DOMAIN ts \cup {Append(p, k)}
<1> DEFINE us == AddNested(ts, p, k, new)
           q == Append(p, k)
<1> HIDE DEF us, q
<1>1. Nesting(DOMAIN ts \cup {q}) /\ q # <<>> /\ q # p
  BY NestingGrows DEF WellFormed, q
<1>2. DOMAIN us = DOMAIN ts \cup {q} /\ AllOK(us) /\ SameSymbols(ts, us, DOMAIN ts \ {q})
  <2>1. AllOK(ts) /\ Append(p, k) # p
    BY <1>1 DEF WellFormed, q
  <2>2. /\ DOMAIN AddNested(ts, p, k, new) = DOMAIN ts \cup {Append(p, k)}
        /\ AllOK(AddNested(ts, p, k, new))
        /\ SameSymbols(ts, AddNested(ts, p, k, new), DOMAIN ts \ {Append(p, k)})
    BY <2>1, AddNestedOK, ZenonT(60)
  <2> QED BY <2>2 DEF us, q
<1>3. <<>> \in DOMAIN ts /\ us[<<>>].syms = ts[<<>>].syms
  BY <1>1, <1>2 DEF WellFormed, Nesting, SameSymbols
<1>4. ClassesIn(us)
  BY <1>2, <1>3 DEF WellFormed, ClassesIn
<1> QED BY <1>1, <1>2, <1>4 DEF WellFormed, us, q

-----------------------------------------------------------------------------

LEMMA InitOK == Init => IInv
<1> SUFFICES ASSUME Init PROVE IInv
  OBVIOUS
<1>1. DOMAIN tables = {<<>>} /\ tables[<<>>] = EmptyTable("global", <<>>) /\ scope = <<>> /\ place = "classes"
  BY DEF Init
<1>2. TableOK(tables[<<>>]) /\ DOMAIN tables[<<>>].syms = {}
  BY <1>1, EmptyTableOK
<1>3. AllOK(tables) /\ ClassesIn(tables)
  BY <1>1, <1>2 DEF AllOK, ClassesIn
<1>4. Nesting(DOMAIN tables) /\ scope \in DOMAIN tables
  BY <1>1 DEF Nesting
<1>5. ScopeFits
  BY <1>1 DEF ScopeFits
<1> QED BY <1>3, <1>4, <1>5 DEF IInv, WellFormed

\* A symbol that is added to the current table, when this is not the global one.
LEMMA AddBelowOK ==
  ASSUME IInv, scope # <<>>, NEW x, NEW s, tables' = [tables EXCEPT ![scope] = AddSymbol(@, x, s)],
         UNCHANGED scope, ScopeFits'
  PROVE  IInv'
<1> DEFINE u == AddSymbol(tables[scope], x, s)
<1>1. TableOK(u) /\ KeepsClasses(tables, scope, u) /\ tables' = Changed(tables, scope, u)
  BY AddOK DEF IInv, Changed
<1>2. WellFormed(tables) /\ scope \in DOMAIN tables
  BY DEF IInv
<1> HIDE DEF u
<1>3. WellFormed(Changed(tables, scope, u)) /\ DOMAIN Changed(tables, scope, u) = DOMAIN tables
  BY <1>1, <1>2, ChangeOK
<1> QED BY <1>1, <1>2, <1>3 DEF IInv

LEMMA EnterClassOK ==
  ASSUME IInv, NEW c, NEW parents, EnterClass(c, parents)
  PROVE  IInv'
<1>1. CASE c \in DOMAIN tables[<<>>].syms
  <2>1. UNCHANGED <<tables, scope, place>>
    BY <1>1 DEF EnterClass
  <2> QED BY <2>1 DEF IInv, ScopeFits
<1>2. CASE c \notin DOMAIN tables[<<>>].syms
  <2> DEFINE s == [Symbol("CLASS", c, <<>>) EXCEPT !.parents = Known(c, parents)]
             ts == [tables EXCEPT ![<<>>] = AddSymbol(@, c, s)]
             new == EmptyTable("class", <<>>)
  <2>1. tables' = AddNested(ts, <<>>, c, new) /\ scope' = <<c>> /\ place' = "class"
    BY <1>2 DEF EnterClass
  <2>2. <<>> \in DOMAIN ts /\ DOMAIN ts = DOMAIN tables /\ ts[<<>>] = AddSymbol(tables[<<>>], c, s)
        /\ \A p \in DOMAIN ts \ {<<>>} : ts[p] = tables[p]
    BY DEF IInv, WellFormed, Nesting
  <2>3. AllOK(ts)
    BY <2>2, AddSymbolOK DEF IInv, WellFormed, AllOK
  <2>4. Append(<<>>, c) = <<c>> /\ <<c>> # <<>>
    BY Paths
  <2>5. TableOK(new)
    BY EmptyTableOK
  <2>6. TableOK(tables[<<>>])
    BY <2>2 DEF IInv, WellFormed, AllOK
  <2> HIDE DEF ts, new, s
  <2>7. /\ DOMAIN tables' = DOMAIN ts \cup {<<c>>}
        /\ AllOK(tables')
        /\ tables'[<<>>].syms = ts[<<>>].syms
    <3> DEFINE g == <<>>
    <3>1. g \in DOMAIN ts /\ Append(g, c) # g /\ tables' = AddNested(ts, g, c, new)
      BY <2>1, <2>2, <2>4
    <3> HIDE DEF g
    <3>2. /\ DOMAIN AddNested(ts, g, c, new) = DOMAIN ts \cup {Append(g, c)}
          /\ AllOK(AddNested(ts, g, c, new))
          /\ SameSymbols(ts, AddNested(ts, g, c, new), DOMAIN ts \ {Append(g, c)})
      BY <2>3, <2>5, <3>1, AddNestedOK, ZenonT(60)
    <3>3. /\ DOMAIN tables' = DOMAIN ts \cup {Append(g, c)}
          /\ AllOK(tables')
          /\ SameSymbols(ts, tables', DOMAIN ts \ {Append(g, c)})
      BY <3>1, <3>2
    <3>4. tables'[g].syms = ts[g].syms
      BY <3>1, <3>3 DEF SameSymbols
    <3> QED BY <2>4, <3>3, <3>4 DEF g
  <2>8. Nesting(DOMAIN tables')
    BY <2>2, <2>4, <2>7, NestingGrows DEF IInv, WellFormed, Nesting
  <2>9. \A y \in DOMAIN ts[<<>>].syms :
          y = c \/ (y \in DOMAIN tables[<<>>].syms /\ ts[<<>>].syms[y] = tables[<<>>].syms[y])
    BY <2>2, <2>6, AddedSymbols
  <2>10. ClassesIn(tables')
    BY <2>2, <2>7, <2>9 DEF IInv, WellFormed, ClassesIn
  <2>11. ScopeFits'
    BY <2>1 DEF ScopeFits
  <2> QED BY <2>1, <2>7, <2>8, <2>10, <2>11 DEF IInv, WellFormed
<1> QED BY <1>1, <1>2

LEMMA AttributeOK ==
  ASSUME IInv, NEW v, NEW x, NEW t, NEW d, Attribute(v, x, t, d)
  PROVE  IInv'
<1>1. scope # <<>> /\ UNCHANGED <<scope, place>>
  BY Paths DEF Attribute, IInv, ScopeFits
<1>2. PICK s : tables' = [tables EXCEPT ![scope] = AddSymbol(@, x, s)]
  BY DEF Attribute, AddVariable
<1> QED BY <1>1, <1>2, AddBelowOK DEF IInv, ScopeFits

LEMMA LocalVariableOK ==
  ASSUME IInv, NEW x, NEW t, NEW d, LocalVariable(x, t, d)
  PROVE  IInv'
<1>1. scope # <<>> /\ UNCHANGED <<scope, place>>
  BY Paths DEF LocalVariable, InBody, IInv, ScopeFits
<1>2. PICK s : tables' = [tables EXCEPT ![scope] = AddSymbol(@, x, s)]
  BY DEF LocalVariable, AddVariable
<1> QED BY <1>1, <1>2, AddBelowOK DEF IInv, ScopeFits

LEMMA ParamOK ==
  ASSUME IInv, Param
  PROVE  IInv'
<1>1. scope # <<>> /\ UNCHANGED <<scope, place>>
  BY Paths DEF Param, InBody, IInv, ScopeFits
<1>2. ScopeFits'
  BY <1>1 DEF IInv, ScopeFits
<1>3. CASE UNCHANGED tables
  BY <1>1, <1>2, <1>3 DEF IInv
<1>4. CASE ~ UNCHANGED tables
  <2>1. PICK x, s : tables' = [tables EXCEPT ![scope] = AddSymbol(@, x, s)]
    BY <1>4 DEF Param
  <2> QED BY <1>1, <1>2, <2>1, AddBelowOK
<1> QED BY <1>3, <1>4

LEMMA DeclaredParamOK ==
  ASSUME IInv, DeclaredParam
  PROVE  IInv'
<1>1. scope # <<>> /\ UNCHANGED <<scope, place>>
  BY Paths DEF DeclaredParam, IInv, ScopeFits
<1>2. PICK x, s : tables' = [tables EXCEPT ![scope] = AddSymbol(@, x, s)]
  BY DEF DeclaredParam
<1> QED BY <1>1, <1>2, AddBelowOK DEF IInv, ScopeFits

LEMMA BelowClass ==
  ASSUME NEW p, p = <<p[1]>>, NEW k
  PROVE  Append(p, k) = <<Append(p, k)[1], Append(p, k)[2]>> /\ Append(p, k) # <<>>
<1>1. Append(p, k) = <<p[1], k>>
  BY Paths
<1> QED BY <1>1, Paths

LEMMA ParentThere ==
  ASSUME NEW paths, Nesting(paths), NEW p \in paths
  PROVE  Parent(p) \in paths
<1>1. CASE p = <<>>
  <2>1. Parent(<<>>) = <<>>
    BY DEF Parent
  <2> QED BY <1>1, <2>1 DEF Nesting
<1>2. CASE p = <<p[1]>>
  BY <1>2, Paths DEF Nesting
<1>3. CASE p = <<p[1], p[2]>> /\ <<p[1]>> \in paths
  BY <1>3, Paths
<1> QED BY <1>1, <1>2, <1>3 DEF Nesting

\* The end of a declaration or of a function: back to the table around it.
LEMMA UpFits ==
  ASSUME IInv, place \in {"declaration", "method", "function"}, scope' = Parent(scope),
         place' = CASE place = "declaration" -> "class"
                    [] place = "method" -> "implementation"
                    [] place = "function" -> "functions"
  PROVE  ScopeFits'
<1>1. CASE place = "function"
  <2>1. scope' = <<>>
    BY <1>1, Paths DEF IInv, ScopeFits
  <2> QED BY <1>1, <2>1 DEF ScopeFits
<1>2. CASE place # "function"
  <2>1. scope' = <<scope[1]>>
    BY <1>2, Paths DEF IInv, ScopeFits
  <2> QED BY <1>2, <2>1 DEF ScopeFits
<1> QED BY <1>1, <1>2

LEMMA DeclarationOK ==
  ASSUME IInv, NEW vis, NEW f, NEW params, NEW type, Declaration(vis, f, params, type)
  PROVE  IInv'
<1> DEFINE formatted == Formatted(params)
           key == UniqueKey(f, formatted)
           s == FunctionSymbol(type, formatted, vis)
           u == AddSymbol(tables[scope], f, s)
           ts == Changed(tables, scope, u)
           new == EmptyTable("function", Signature(f, formatted))
<1>1. scope = <<scope[1]>> /\ scope # <<>> /\ Shallow(scope) /\ place = "class"
  BY Paths DEF Declaration, IInv, ScopeFits, Shallow
<1>2. CASE HasFunction(tables[scope], f, formatted)
  <2>1. UNCHANGED <<tables, scope, place>>
    BY <1>2 DEF Declaration
  <2> QED BY <2>1 DEF IInv, ScopeFits
<1>3. CASE ~ HasFunction(tables[scope], f, formatted)
  <2>1. tables' = AddNested(ts, scope, key, new) /\ scope' = Append(scope, key)
        /\ place' = "declaration"
    BY <1>3 DEF Declaration, Changed
  <2>2. WellFormed(tables) /\ scope \in DOMAIN tables
    BY DEF IInv
  <2>3. TableOK(u) /\ KeepsClasses(tables, scope, u) /\ TableOK(new)
    BY <1>1, <2>2, AddOK, EmptyTableOK
  <2> HIDE DEF u, new, key
  <2>4. WellFormed(ts) /\ DOMAIN ts = DOMAIN tables
    BY <2>2, <2>3, ChangeOK
  <2> HIDE DEF ts
  <2>5. /\ WellFormed(AddNested(ts, scope, key, new))
        /\ DOMAIN AddNested(ts, scope, key, new) = DOMAIN ts \cup {Append(scope, key)}
    <3>1. WellFormed(ts) /\ scope \in DOMAIN ts /\ Shallow(scope) /\ TableOK(new)
      BY <1>1, <2>2, <2>3, <2>4
    <3> QED BY <3>1, NestOK, ZenonT(60)
  <2>6. ScopeFits'
    BY <1>1, <2>1, BelowClass DEF ScopeFits
  <2> QED BY <2>1, <2>5, <2>6 DEF IInv
<1> QED BY <1>2, <1>3

\* The table of a function that is defined, new or not.
LEMMA WithTableOK ==
  ASSUME WellFormed(tables), scope \in DOMAIN tables, Shallow(scope), NEW key, NEW owner
  PROVE  /\ WellFormed(WithTable(key, owner))
         /\ DOMAIN WithTable(key, owner) = DOMAIN tables \cup {Append(scope, key)}
<1> DEFINE new == EmptyTable("function", owner)
           q == Append(scope, key)
<1>1. TableOK(new)
  BY EmptyTableOK
<1> HIDE DEF new
<1>2. /\ WellFormed(AddNested(tables, scope, key, new))
      /\ DOMAIN AddNested(tables, scope, key, new) = DOMAIN tables \cup {Append(scope, key)}
  BY <1>1, NestOK, ZenonT(60)
<1> HIDE DEF q
<1>3. /\ WithTable(key, owner) = IF q \in DOMAIN tables THEN tables ELSE AddNested(tables, scope, key, new)
      /\ DOMAIN AddNested(tables, scope, key, new) = DOMAIN tables \cup {q}
  BY <1>2 DEF WithTable, new, q
<1> QED BY <1>2, <1>3 DEF q

LEMMA EnterMethodOK ==
  ASSUME IInv, NEW f, NEW params, NEW type, EnterMethod(f, params, type)
  PROVE  IInv'
<1> DEFINE formatted == Formatted(params)
           key == UniqueKey(f, formatted)
           sig == Signature(f, formatted)
           ts == WithTable(key, sig)
           q == Append(scope, key)
           u == Defined(ts[scope], sig)
           us == Changed(ts, scope, u)
           v == [us[q] EXCEPT !.owner = sig]
<1>1. scope = <<scope[1]>> /\ scope # <<>> /\ Shallow(scope) /\ place = "implementation"
  BY Paths DEF EnterMethod, IInv, ScopeFits, Shallow
<1>2. CASE ~ HasFunction(tables[scope], f, formatted)
  <2>1. UNCHANGED <<tables, scope, place>>
    BY <1>2 DEF EnterMethod
  <2> QED BY <2>1 DEF IInv, ScopeFits
<1>3. CASE HasFunction(tables[scope], f, formatted)
  <2>1. tables' = Changed(us, q, v) /\ scope' = q /\ place' = "method"
    BY <1>3 DEF EnterMethod, Changed
  <2>2. WellFormed(ts) /\ DOMAIN ts = DOMAIN tables \cup {q} /\ scope \in DOMAIN ts
    BY <1>1, WithTableOK DEF IInv
  <2>3. TableOK(ts[scope])
    BY <2>2 DEF WellFormed, AllOK
  <2> HIDE DEF ts, q, sig
  <2>4. TableOK(u) /\ KeepsClasses(ts, scope, u)
    BY <1>1, <2>3, OtherFieldsOK DEF KeepsClasses, Defined
  <2> HIDE DEF u
  <2>5. WellFormed(us) /\ DOMAIN us = DOMAIN ts
    BY <2>2, <2>4, ChangeOK
  <2>6. q \in DOMAIN us /\ TableOK(us[q])
    BY <2>2, <2>5 DEF WellFormed, AllOK
  <2>7. ScopeFits' /\ q # <<>>
    BY <1>1, <2>1, BelowClass DEF ScopeFits, q
  <2> HIDE DEF us
  <2>8. TableOK(v) /\ KeepsClasses(us, q, v)
    BY <2>6, <2>7, OtherFieldsOK DEF KeepsClasses
  <2> HIDE DEF v
  <2>9. WellFormed(tables') /\ DOMAIN tables' = DOMAIN us
    BY <2>1, <2>5, <2>6, <2>8, ChangeOK
  <2> QED BY <2>1, <2>6, <2>7, <2>9 DEF IInv
<1> QED BY <1>2, <1>3

LEMMA EnterFunctionOK ==
  ASSUME IInv, NEW f, NEW params, NEW type, EnterFunction(f, params, type)
  PROVE  IInv'
<1> DEFINE formatted == Formatted(params)
           key == UniqueKey(f, formatted)
           sig == Signature(f, formatted)
           s == FunctionSymbol(type, formatted, visibility)
           ts == WithTable(key, sig)
           u == AddSymbol(ts[scope], f, s)
           v == Defined(u, sig)
<1>1. scope = <<>> /\ Shallow(scope) /\ place = "functions"
  BY DEF EnterFunction, IInv, ScopeFits, Shallow
<1>2. CASE HasFunction(tables[scope], f, formatted)
  <2>1. UNCHANGED <<tables, scope, place>>
    BY <1>2 DEF EnterFunction
  <2> QED BY <2>1 DEF IInv, ScopeFits
<1>3. CASE ~ HasFunction(tables[scope], f, formatted)
  <2>1. tables' = Changed(ts, scope, v) /\ scope' = Append(scope, key) /\ place' = "function"
    BY <1>3 DEF EnterFunction, Changed
  <2>2. /\ WellFormed(ts) /\ scope \in DOMAIN ts
        /\ DOMAIN ts = DOMAIN tables \cup {Append(scope, key)}
    BY <1>1, WithTableOK DEF IInv
  <2>3. s.kind = "FUNCTION"
    BY DEF FunctionSymbol, Symbol
  <2> HIDE DEF ts, sig, s, key
  <2>4. TableOK(u) /\ KeepsClasses(ts, scope, u)
    BY <2>2, <2>3, AddOK
  <2> HIDE DEF u
  <2>5. TableOK(v) /\ KeepsClasses(ts, scope, v)
    BY <2>4, OtherFieldsOK DEF KeepsClasses, Defined
  <2> HIDE DEF v
  <2>6. WellFormed(tables') /\ DOMAIN tables' = DOMAIN ts
    BY <2>1, <2>2, <2>5, ChangeOK
  <2>7. ScopeFits'
    BY <1>1, <2>1, Paths DEF ScopeFits
  <2> QED BY <2>1, <2>2, <2>6, <2>7 DEF IInv
<1> QED BY <1>2, <1>3

\* What only moves between the tables.
LEMMA MoveOK ==
  ASSUME IInv, UNCHANGED tables, ScopeFits',
         scope' = scope \/ scope' = Parent(scope) \/ scope' = <<>>
  PROVE  IInv'
<1>1. <<>> \in DOMAIN tables /\ Parent(scope) \in DOMAIN tables
  BY ParentThere DEF IInv, WellFormed, Nesting
<1> QED BY <1>1 DEF IInv

LEMMA EnterImplementationOK ==
  ASSUME IInv, NEW c, EnterImplementation(c)
  PROVE  IInv'
<1>1. CASE IsClass(c)
  <2>1. scope' = <<c>> /\ place' = "implementation" /\ UNCHANGED tables
    BY <1>1 DEF EnterImplementation
  <2>2. <<c>> \in DOMAIN tables
    BY <1>1 DEF IInv, WellFormed, ClassesIn, IsClass
  <2>3. ScopeFits'
    BY <2>1 DEF ScopeFits
  <2> QED BY <2>1, <2>2, <2>3 DEF IInv
<1>2. CASE ~ IsClass(c)
  BY <1>2 DEF EnterImplementation, IInv, ScopeFits
<1> QED BY <1>1, <1>2

LEMMA LeavesOK ==
  ASSUME IInv, \/ LeaveDeclaration \/ LeaveClass \/ StartImplementations \/ LeaveImplementation
               \/ StartFunctions \/ LeaveFunction \/ Finish
  PROVE  IInv'
<1>1. CASE LeaveDeclaration \/ LeaveFunction
  BY <1>1, UpFits, MoveOK DEF LeaveDeclaration, LeaveFunction, InBody
<1>2. CASE LeaveClass \/ StartImplementations \/ LeaveImplementation \/ StartFunctions \/ Finish
  <2>1. ScopeFits' /\ UNCHANGED tables /\ scope' \in {scope, <<>>}
    BY <1>2 DEF LeaveClass, StartImplementations, LeaveImplementation, StartFunctions, Finish,
                IInv, ScopeFits
  <2> QED BY <2>1, MoveOK
<1> QED BY <1>1, <1>2

-----------------------------------------------------------------------------

LEMMA NextOK == IInv /\ [Next]_vars => IInv'
<1> SUFFICES ASSUME IInv, [Next]_vars PROVE IInv'
  OBVIOUS
<1>1. CASE \E c \in ClassNames, ps \in ParentLists : EnterClass(c, ps)
  BY <1>1, EnterClassOK
<1>2. CASE \E v \in Visibilities, x \in VariableNames, t \in Types, d \in DimLists :
             Attribute(v, x, t, d)
  BY <1>2, AttributeOK
<1>3. CASE \E v \in Visibilities, f \in FunctionNames, ps \in ParamLists, t \in Types :
             Declaration(v, f, ps, t)
  BY <1>3, DeclarationOK
<1>4. CASE DeclaredParam
  BY <1>4, DeclaredParamOK
<1>5. CASE \E c \in ClassNames : EnterImplementation(c)
  BY <1>5, EnterImplementationOK
<1>6. CASE \E f \in FunctionNames, ps \in ParamLists, t \in Types : EnterMethod(f, ps, t)
  BY <1>6, EnterMethodOK
<1>7. CASE \E f \in FunctionNames, ps \in ParamLists, t \in Types : EnterFunction(f, ps, t)
  BY <1>7, EnterFunctionOK
<1>8. CASE Param
  BY <1>8, ParamOK
<1>9. CASE \E x \in VariableNames, t \in Types, d \in DimLists : LocalVariable(x, t, d)
  BY <1>9, LocalVariableOK
<1>10. CASE \/ LeaveDeclaration \/ LeaveClass \/ StartImplementations \/ LeaveImplementation
            \/ StartFunctions \/ LeaveFunction \/ Finish
  BY <1>10, LeavesOK
<1>11. CASE UNCHANGED vars
  BY <1>11 DEF vars, IInv, ScopeFits
<1> QED BY <1>1, <1>2, <1>3, <1>4, <1>5, <1>6, <1>7, <1>8, <1>9, <1>10, <1>11 DEF Next

\* The current table is at most two tables below the global one, every table stands
\* in one that is there, and every class has its table, so that no visit of a member
\* function fails to find one.
THEOREM ScopesAreSound == Spec => []IInv
<1> QED BY InitOK, NextOK, PTL DEF Spec

LEMMA OrderHolds == IInv => OrderEnumerates
<1> SUFFICES ASSUME IInv, NEW p \in DOMAIN tables
             PROVE  LET t == tables[p]
                    IN  /\ \A x \in DOMAIN t.syms : \E i \in DOMAIN t.order : t.order[i] = x
                        /\ \A i \in DOMAIN t.order :
                             /\ t.order[i] \in DOMAIN t.syms
                             /\ \A j \in DOMAIN t.order : t.order[i] = t.order[j] => i = j
  BY DEF OrderEnumerates
<1> DEFINE q == tables[p].order
           S == DOMAIN tables[p].syms
<1>1. Enumerates(q, S)
  BY DEF IInv, WellFormed, AllOK, TableOK
<1> HIDE DEF q, S
<1>2. DOMAIN q = 1 .. Len(q) /\ \A i \in DOMAIN q : q[i] \in S
  BY <1>1 DEF Enumerates
<1>3. /\ \A x \in S : \E i \in DOMAIN q : q[i] = x
      /\ \A i, j \in DOMAIN q : q[i] = q[j] => i = j
  BY <1>1, <1>2 DEF Enumerates
<1> QED BY <1>2, <1>3 DEF q, S

LEMMA LinksHold == IInv => TablesAreLinked
BY ParentThere DEF TablesAreLinked, IInv, WellFormed

\* The order in which a table lists its symbols is an enumeration of them, in every
\* program, though an overload replaces the symbol of its name.
THEOREM OrderIsEnumeration == Spec => []OrderEnumerates
<1> QED BY ScopesAreSound, OrderHolds, PTL

\* Every signature of a table has a function under its name, so that the copy
\* constructor never meets a signature without one.
THEOREM SignaturesHaveSymbols == Spec => []FunctionsHaveSymbols
<1>1. IInv => FunctionsHaveSymbols
  BY DEF FunctionsHaveSymbols, IInv, WellFormed, AllOK, TableOK
<1> QED BY <1>1, ScopesAreSound, PTL

LEMMA CopyHolds == IInv => CopiesKeepFunctions
<1> SUFFICES ASSUME IInv, NEW p \in DOMAIN tables
             PROVE  LET t == tables[p]
                        copy == Copied(t)
                    IN  /\ DOMAIN copy.funs = DOMAIN t.funs
                        /\ \A sig \in DOMAIN t.funs :
                             (\A other \in DOMAIN t.funs : other[1] = sig[1] => other = sig)
                               => /\ copy.funs[sig] = t.funs[sig]
                                  /\ sig \in copy.defined <=> sig \in t.defined
  BY DEF CopiesKeepFunctions
<1> DEFINE t == tables[p]
           copy == Copied(t)
<1>1. TableOK(t)
  BY DEF IInv, WellFormed, AllOK
<1> HIDE DEF t
<1>2. /\ copy.funs = [sig \in DOMAIN t.funs |->
                         IF sig[1] \in DOMAIN t.syms THEN t.syms[sig[1]] ELSE t.funs[sig]]
      /\ copy.defined = {sig \in DOMAIN t.funs : Shared(t, sig) \in t.defined}
  BY <1>1 DEF Copied, TableOK, Fields
<1> HIDE DEF copy
<1>3. ASSUME NEW sig \in DOMAIN t.funs,
             \A other \in DOMAIN t.funs : other[1] = sig[1] => other = sig
      PROVE  copy.funs[sig] = t.funs[sig] /\ (sig \in copy.defined <=> sig \in t.defined)
  <2> DEFINE own == Signature(sig[1], t.syms[sig[1]].params)
  <2>1. sig[1] \in DOMAIN t.syms /\ own \in DOMAIN t.funs /\ t.funs[own] = t.syms[sig[1]]
    BY <1>1 DEF TableOK, IsOverload
  <2>2. own[1] = sig[1]
    BY DEF Signature
  <2> HIDE DEF own
  <2>3. own = sig
    BY <1>3, <2>1, <2>2
  <2>4. Shared(t, sig) = own
    BY <2>1 DEF Shared, own
  <2>5. copy.funs[sig] = t.syms[sig[1]]
    BY <1>2, <2>1
  <2>6. sig \in copy.defined <=> Shared(t, sig) \in t.defined
    BY <1>2
  <2> QED BY <2>1, <2>3, <2>4, <2>5, <2>6
<1>4. DOMAIN copy.funs = DOMAIN t.funs
  BY <1>2
<1> QED BY <1>3, <1>4 DEF copy, t

\* The passes behind this one see, of every function whose name is not overloaded, the
\* symbol it was given and whether it is defined, in copies of any table.
THEOREM CopiesAreFaithful == Spec => []CopiesKeepFunctions
<1> QED BY ScopesAreSound, CopyHolds, PTL

\* The tables are a tree: the current one is there, and so is the one around each.
THEOREM TablesFormATree == Spec => []TablesAreLinked
<1> QED BY ScopesAreSound, LinksHold, PTL

\* In every program the tables are a tree, and the order, the signatures and the
\* symbols of each agree.
THEOREM TablesStaySound == Spec => []TablesAreSound
<1>1. OrderEnumerates /\ FunctionsHaveSymbols /\ TablesAreLinked => TablesAreSound
  BY DEF TablesAreSound
<1> QED BY <1>1, OrderIsEnumeration, SignaturesHaveSymbols, TablesFormATree, PTL

-----------------------------------------------------------------------------

(***************************************************************************)
(* What the operations on tables change, field by field.                   *)
(***************************************************************************)

Alike(t, u) == u.scope = t.scope /\ u.syms = t.syms /\ u.funs = t.funs /\ u.defined = t.defined

\* u is t with a symbol that is no function, unless t has that name.
WithSymbol(t, u, x, s) ==
  /\ u.scope = t.scope /\ u.funs = t.funs /\ u.defined = t.defined
  /\ DOMAIN u.syms = DOMAIN t.syms \cup {x}
  /\ \A y \in DOMAIN t.syms : u.syms[y] = t.syms[y]
  /\ x \notin DOMAIN t.syms => u.syms[x] = s

\* u is t with a new function, which has replaced the symbol of its name.
WithFunction(t, u, f, s) ==
  /\ u.scope = t.scope
  /\ DOMAIN u.funs = DOMAIN t.funs \cup {Signature(f, s.params)}
  /\ DOMAIN u.syms = DOMAIN t.syms \cup {f}
  /\ \A y \in DOMAIN t.syms \ {f} : u.syms[y] = t.syms[y]
  /\ u.syms[f] = s

LEMMA AddSymbolAdds ==
  ASSUME NEW t, TableOK(t), NEW x, NEW s, s.kind # "FUNCTION"
  PROVE  WithSymbol(t, AddSymbol(t, x, s), x, s)
<1> DEFINE u == AddSymbol(t, x, s)
<1>1. CASE x \in DOMAIN t.syms
  <2>1. u = t
    BY <1>1 DEF AddSymbol, AddOther
  <2> QED BY <1>1, <2>1 DEF WithSymbol
<1>2. CASE x \notin DOMAIN t.syms
  <2>1. u.syms = Put(t.syms, x, s) /\ u.funs = t.funs /\ u.defined = t.defined /\ u.scope = t.scope
    BY <1>2 DEF AddSymbol, AddOther, TableOK, Fields
  <2>2. DOMAIN u.syms = DOMAIN t.syms \cup {x} /\ u.syms[x] = s
        /\ \A y \in DOMAIN t.syms : u.syms[y] = t.syms[y]
    BY <1>2, <2>1 DEF Put
  <2> QED BY <2>1, <2>2 DEF WithSymbol
<1> QED BY <1>1, <1>2

LEMMA AddFunctionAdds ==
  ASSUME NEW t, TableOK(t), NEW f, NEW s, s.kind = "FUNCTION", ~ HasFunction(t, f, s.params)
  PROVE  WithFunction(t, AddSymbol(t, f, s), f, s) /\ AddSymbol(t, f, s).defined = t.defined
<1> DEFINE u == AddSymbol(t, f, s)
<1>1. /\ u.syms = Put(t.syms, f, s) /\ u.funs = Put(t.funs, Signature(f, s.params), s)
      /\ u.defined = t.defined /\ u.scope = t.scope
  BY DEF AddSymbol, AddFunction, TableOK, Fields
<1>2. /\ DOMAIN u.syms = DOMAIN t.syms \cup {f} /\ u.syms[f] = s
      /\ \A y \in DOMAIN t.syms \ {f} : u.syms[y] = t.syms[y]
      /\ DOMAIN u.funs = DOMAIN t.funs \cup {Signature(f, s.params)}
  BY <1>1 DEF Put
<1> QED BY <1>1, <1>2 DEF WithFunction

LEMMA AlikeFields ==
  ASSUME NEW t, TableOK(t), NEW v
  PROVE  /\ Alike(t, [t EXCEPT !.nested = v]) /\ Alike(t, [t EXCEPT !.owner = v])
         /\ TableOK([t EXCEPT !.nested = v]) /\ TableOK([t EXCEPT !.owner = v])
         /\ LET u == Defined(t, v)
            IN  /\ u.scope = t.scope /\ u.syms = t.syms /\ u.funs = t.funs
                /\ u.defined = t.defined \cup {v}
<1>1. TableOK([t EXCEPT !.nested = v]) /\ TableOK([t EXCEPT !.owner = v])
  BY OtherFieldsOK
<1> QED BY <1>1 DEF Alike, Defined, TableOK, Fields

\* us is ts with a table nested in the one at p.
IsNested(ts, p, k, new, us) ==
  /\ DOMAIN us = DOMAIN ts \cup {Append(p, k)} /\ us[Append(p, k)] = new
  /\ Alike(ts[p], us[p])
  /\ \A r \in DOMAIN ts \ {p, Append(p, k)} : us[r] = ts[r]

LEMMA NestedAdds ==
  ASSUME NEW ts, NEW p, p \in DOMAIN ts, NEW k, Append(p, k) # p, NEW new, AllOK(ts)
  PROVE  IsNested(ts, p, k, new, AddNested(ts, p, k, new))
<1> DEFINE vs == [ts EXCEPT ![p].nested = Append(@, k)]
           q == Append(p, k)
           us == AddNested(ts, p, k, new)
           v == Append(ts[p].nested, k)
<1>1. DOMAIN vs = DOMAIN ts /\ vs[p] = [ts[p] EXCEPT !.nested = v] /\ \A r \in DOMAIN ts \ {p} : vs[r] = ts[r]
  <2> DEFINE w == [ts[p] EXCEPT !.nested = v]
  <2>1. vs = [ts EXCEPT ![p] = w]
    OBVIOUS
  <2> HIDE DEF vs, v, w
  <2>2. DOMAIN vs = DOMAIN ts /\ vs[p] = w /\ \A r \in DOMAIN ts \ {p} : vs[r] = ts[r]
    BY <2>1
  <2> QED BY <2>2 DEF w
<1>2. us = Put(vs, q, new)
  BY DEF AddNested
<1> HIDE DEF vs, us, v
<1>3. Alike(ts[p], vs[p]) /\ TableOK(vs[p])
  <2> DEFINE t == ts[p]
  <2>1. TableOK(t)
    BY DEF AllOK
  <2>2. vs[p] = [t EXCEPT !.nested = v]
    BY <1>1
  <2> HIDE DEF t
  <2>3. Alike(t, [t EXCEPT !.nested = v]) /\ TableOK([t EXCEPT !.nested = v])
    BY <2>1, AlikeFields
  <2> QED BY <2>2, <2>3 DEF t
<1> HIDE DEF q
<1>4. DOMAIN us = DOMAIN ts \cup {q} /\ us[q] = new /\ \A r \in DOMAIN ts \ {q} : us[r] = vs[r]
  BY <1>1, <1>2 DEF Put
<1>5. q # p
  BY DEF q
<1> QED BY <1>1, <1>3, <1>4, <1>5 DEF q, us, IsNested

LEMMA EmptyFields ==
  ASSUME NEW k, NEW o
  PROVE  LET t == EmptyTable(k, o)
         IN  /\ t.scope = k /\ DOMAIN t.syms = {} /\ DOMAIN t.funs = {} /\ t.defined = {}
             /\ TableOK(t)
BY EmptyTableOK DEF EmptyTable


\* A table without anything.
Blank(t, k) == t.scope = k /\ DOMAIN t.syms = {} /\ DOMAIN t.funs = {} /\ t.defined = {}

\* What WithTable does to a table that is there, or makes of one that is not.
Kindled(q) ==
  IF q \in DOMAIN tables THEN Alike(tables[q], tables'[q]) ELSE Blank(tables'[q], "function")

OthersStay(paths) == \A r \in DOMAIN tables \ paths : tables'[r] = tables[r]

-----------------------------------------------------------------------------

(***************************************************************************)
(* What the visits change.                                                 *)
(***************************************************************************)

VariableAdded(x, s) ==
  /\ DOMAIN tables' = DOMAIN tables
  /\ WithSymbol(tables[scope], tables'[scope], x, s)
  /\ OthersStay({scope})

ClassAdded(c, s) ==
  /\ DOMAIN tables' = DOMAIN tables \cup {<<c>>}
  /\ WithSymbol(tables[<<>>], tables'[<<>>], c, s)
  /\ Blank(tables'[<<c>>], "class")
  /\ OthersStay({<<>>, <<c>>})

FunctionAdded(f, s, q, defined) ==
  /\ DOMAIN tables' = DOMAIN tables \cup {q} /\ q # scope
  /\ WithFunction(tables[scope], tables'[scope], f, s)
  /\ tables'[scope].defined = tables[scope].defined \cup defined
  /\ OthersStay({scope, q})

MethodDefined(sig, q) ==
  /\ DOMAIN tables' = DOMAIN tables \cup {q} /\ q # scope
  /\ LET t == tables[scope]
         u == tables'[scope]
     IN  /\ u.scope = t.scope /\ u.syms = t.syms /\ u.funs = t.funs
         /\ u.defined = t.defined \cup {sig}
  /\ Kindled(q)
  /\ OthersStay({scope, q})

LEMMA SymbolAddedAt ==
  ASSUME IInv, NEW x, NEW s, s.kind # "FUNCTION",
         tables' = [tables EXCEPT ![scope] = AddSymbol(@, x, s)]
  PROVE  VariableAdded(x, s)
<1> DEFINE t == tables[scope]
           u == AddSymbol(t, x, s)
<1>1. TableOK(t) /\ scope \in DOMAIN tables
  BY DEF IInv, WellFormed, AllOK
<1>2. tables' = [tables EXCEPT ![scope] = u]
  OBVIOUS
<1> HIDE DEF t
<1>3. WithSymbol(t, u, x, s)
  BY <1>1, AddSymbolAdds
<1> HIDE DEF u
<1>4. DOMAIN tables' = DOMAIN tables /\ tables'[scope] = u /\ OthersStay({scope})
  BY <1>1, <1>2 DEF OthersStay
<1> QED BY <1>3, <1>4 DEF VariableAdded, t

\* visitVariable adds the symbol s.
VariableVisited(what, x, dims, s) ==
  /\ VariableAdded(x, s) /\ s.kind = "VARIABLE" /\ s.dims = Pushed(dims)
  /\ errors \subseteq errors' /\ Noticed(what, x, <<>>, <<dims>>, <<>>)
  /\ x \in DOMAIN tables[scope].syms => Error(what, scope, x) \in errors'
  /\ \A e \in errors' \ errors :
       \/ e.what = "dimension" /\ BadDims(dims) /\ e.in = scope /\ e.name = x
       \/ e = Error(what, scope, x) /\ x \in DOMAIN tables[scope].syms

LEMMA VariableStep ==
  ASSUME IInv, NEW what, NEW x, NEW type, NEW dims, NEW vis, AddVariable(what, x, type, dims, vis)
  PROVE  \E s : VariableVisited(what, x, dims, s)
<1> DEFINE s == [Symbol("VARIABLE", type, Pushed(dims)) EXCEPT !.visibility = vis]
<1>1. s.kind = "VARIABLE" /\ s.dims = Pushed(dims)
  BY DEF Symbol
<1>2. tables' = [tables EXCEPT ![scope] = AddSymbol(@, x, s)]
  BY DEF AddVariable
<1>3. /\ errors \subseteq errors' /\ Noticed(what, x, <<>>, <<dims>>, <<>>)
      /\ x \in DOMAIN tables[scope].syms => Error(what, scope, x) \in errors'
      /\ \A e \in errors' \ errors :
           \/ e.what = "dimension" /\ BadDims(dims) /\ e.in = scope /\ e.name = x
           \/ e = Error(what, scope, x) /\ x \in DOMAIN tables[scope].syms
  BY DEF AddVariable, Error
<1> HIDE DEF s
<1>4. VariableAdded(x, s)
  BY <1>1, <1>2, SymbolAddedAt
<1>5. VariableVisited(what, x, dims, s)
  BY <1>1, <1>3, <1>4 DEF VariableVisited
<1> QED BY <1>5

\* A change of the current table, and a new table, which is empty, nested in it.
LEMMA NestedUnder ==
  ASSUME IInv, Shallow(scope), NEW u, TableOK(u), NEW k, NEW kind, NEW o,
         tables' = AddNested([tables EXCEPT ![scope] = u], scope, k, EmptyTable(kind, o))
  PROVE  LET q == Append(scope, k)
         IN  /\ DOMAIN tables' = DOMAIN tables \cup {q} /\ q # scope
             /\ Alike(u, tables'[scope]) /\ Blank(tables'[q], kind)
             /\ OthersStay({scope, q})
<1> DEFINE vs == [tables EXCEPT ![scope] = u]
           q == Append(scope, k)
           blank == EmptyTable(kind, o)
<1>1. scope \in DOMAIN tables /\ AllOK(tables) /\ Nesting(DOMAIN tables)
  BY DEF IInv, WellFormed
<1>2. DOMAIN vs = DOMAIN tables /\ vs[scope] = u /\ \A r \in DOMAIN tables \ {scope} : vs[r] = tables[r]
  BY <1>1
<1>3. q # scope
  BY <1>1, NestingGrows
<1>4. Blank(blank, kind)
  BY EmptyFields DEF Blank
<1>5. tables' = AddNested(vs, scope, k, blank)
  OBVIOUS
<1> HIDE DEF vs, blank
<1>6. AllOK(vs)
  BY <1>1, <1>2 DEF AllOK
<1>7. /\ DOMAIN tables' = DOMAIN vs \cup {Append(scope, k)} /\ tables'[Append(scope, k)] = blank
      /\ Alike(vs[scope], tables'[scope])
      /\ \A r \in DOMAIN vs \ {scope, Append(scope, k)} : tables'[r] = vs[r]
  <2>1. scope \in DOMAIN vs /\ Append(scope, k) # scope
    BY <1>1, <1>2, <1>3
  <2>2. IsNested(vs, scope, k, blank, AddNested(vs, scope, k, blank))
    BY <1>6, <2>1, NestedAdds
  <2> QED BY <1>5, <2>2 DEF IsNested
<1> HIDE DEF q
<1> QED BY <1>2, <1>3, <1>4, <1>7 DEF OthersStay, q

LEMMA AlikeKeeps ==
  ASSUME NEW t, NEW u, NEW v, Alike(u, v), NEW x, NEW s
  PROVE  /\ WithSymbol(t, u, x, s) => WithSymbol(t, v, x, s)
         /\ WithFunction(t, u, x, s) => WithFunction(t, v, x, s)
BY DEF Alike, WithSymbol, WithFunction

LEMMA ClassStep ==
  ASSUME IInv, NEW c, NEW parents, EnterClass(c, parents), c \notin DOMAIN tables[<<>>].syms
  PROVE  \E s : /\ ClassAdded(c, s) /\ scope' = <<c>> /\ place' = "class"
               /\ s.kind = "CLASS" /\ s.dims = <<>> /\ s.parents = Known(c, parents)
<1> DEFINE s == [Symbol("CLASS", c, <<>>) EXCEPT !.parents = Known(c, parents)]
           u == AddSymbol(tables[<<>>], c, s)
<1>1. s.kind = "CLASS" /\ s.dims = <<>> /\ s.parents = Known(c, parents)
  BY DEF Symbol
<1>2. /\ tables' = AddNested([tables EXCEPT ![<<>>] = u], <<>>, c, EmptyTable("class", <<>>))
      /\ scope' = <<c>> /\ place' = "class" /\ scope = <<>>
  BY DEF EnterClass, IInv, ScopeFits
<1>3. TableOK(tables[<<>>])
  BY DEF IInv, WellFormed, AllOK, Nesting
<1> HIDE DEF s
<1>4. WithSymbol(tables[<<>>], u, c, s) /\ TableOK(u)
  BY <1>1, <1>3, AddSymbolAdds, AddSymbolOK
<1> HIDE DEF u
<1>5. LET q == Append(scope, c)
      IN  /\ DOMAIN tables' = DOMAIN tables \cup {q} /\ q # scope
          /\ Alike(u, tables'[scope]) /\ Blank(tables'[q], "class")
          /\ OthersStay({scope, q})
  <2>1. Shallow(scope)
    BY <1>2 DEF Shallow
  <2>2. tables' = AddNested([tables EXCEPT ![scope] = u], scope, c, EmptyTable("class", <<>>))
    BY <1>2
  <2> QED BY <1>4, <2>1, <2>2, NestedUnder, ZenonT(60)
<1>6. Append(scope, c) = <<c>>
  BY <1>2, Paths
<1>7. WithSymbol(tables[<<>>], tables'[<<>>], c, s)
  BY <1>2, <1>4, <1>5, AlikeKeeps
<1>8. ClassAdded(c, s)
  BY <1>2, <1>5, <1>6, <1>7 DEF ClassAdded
<1> QED BY <1>1, <1>2, <1>8

LEMMA DeclarationStep ==
  ASSUME IInv, NEW vis, NEW f, NEW params, NEW type, Declaration(vis, f, params, type),
         ~ HasFunction(tables[scope], f, Formatted(params))
  PROVE  \E s, k :
           /\ FunctionAdded(f, s, Append(scope, k), {}) /\ Blank(tables'[Append(scope, k)], "function")
           /\ s.kind = "FUNCTION" /\ s.dims = <<>> /\ s.params = Formatted(params)
           /\ scope' = Append(scope, k) /\ place' = "declaration"
<1> DEFINE formatted == Formatted(params)
           s == FunctionSymbol(type, formatted, vis)
           k == UniqueKey(f, formatted)
           t == tables[scope]
           u == AddSymbol(t, f, s)
           o == Signature(f, formatted)
<1>1. s.kind = "FUNCTION" /\ s.dims = <<>> /\ s.params = formatted
  BY DEF FunctionSymbol, Symbol
<1>2. /\ tables' = AddNested([tables EXCEPT ![scope] = u], scope, k, EmptyTable("function", o))
      /\ scope' = Append(scope, k) /\ place' = "declaration" /\ Shallow(scope)
  BY DEF Declaration, IInv, ScopeFits, Shallow
<1>3. TableOK(t) /\ ~ HasFunction(t, f, s.params)
  BY <1>1 DEF IInv, WellFormed, AllOK
<1> HIDE DEF s, k, t, o
<1>4. WithFunction(t, u, f, s) /\ TableOK(u) /\ u.defined = t.defined
  BY <1>1, <1>3, AddFunctionAdds, AddSymbolOK
<1> HIDE DEF u
<1>5. LET q == Append(scope, k)
      IN  /\ DOMAIN tables' = DOMAIN tables \cup {q} /\ q # scope
          /\ Alike(u, tables'[scope]) /\ Blank(tables'[q], "function")
          /\ OthersStay({scope, q})
  BY <1>2, <1>4, NestedUnder, ZenonT(60)
<1>6. WithFunction(t, tables'[scope], f, s)
  BY <1>4, <1>5, AlikeKeeps
<1>7. tables'[scope].defined = t.defined \cup {}
  BY <1>4, <1>5 DEF Alike
<1>8. FunctionAdded(f, s, Append(scope, k), {})
  BY <1>5, <1>6, <1>7 DEF FunctionAdded, t
<1> QED BY <1>1, <1>2, <1>5, <1>8

\* The tables with the one of a function that is defined.
IsWith(ts, key) ==
  LET q == Append(scope, key)
  IN  /\ DOMAIN ts = DOMAIN tables \cup {q} /\ q # scope
      /\ Alike(tables[scope], ts[scope]) /\ TableOK(ts[scope])
      /\ IF q \in DOMAIN tables THEN Alike(tables[q], ts[q]) ELSE Blank(ts[q], "function")
      /\ TableOK(ts[q])
      /\ \A r \in DOMAIN tables \ {scope, q} : ts[r] = tables[r]

LEMMA WithTableIs ==
  ASSUME IInv, Shallow(scope), NEW key, NEW owner
  PROVE  IsWith(WithTable(key, owner), key)
<1> DEFINE q == Append(scope, key)
           ts == WithTable(key, owner)
           blank == EmptyTable("function", owner)
<1>1. scope \in DOMAIN tables /\ AllOK(tables) /\ Nesting(DOMAIN tables) /\ WellFormed(tables)
  BY DEF IInv, WellFormed
<1>2. q # scope
  BY <1>1, NestingGrows
<1>3. Blank(blank, "function")
  BY EmptyFields DEF Blank
<1>4. WellFormed(WithTable(key, owner))
      /\ DOMAIN WithTable(key, owner) = DOMAIN tables \cup {Append(scope, key)}
  BY <1>1, WithTableOK
<1>5. AllOK(ts) /\ DOMAIN ts = DOMAIN tables \cup {q}
  BY <1>4 DEF WellFormed
<1>6. CASE q \in DOMAIN tables
  <2>1. ts = tables
    BY <1>6 DEF WithTable
  <2> QED BY <1>1, <1>2, <1>5, <1>6, <2>1 DEF IsWith, Alike, AllOK
<1>7. CASE q \notin DOMAIN tables
  <2>1. ts = AddNested(tables, scope, key, blank)
    BY <1>7 DEF WithTable
  <2> HIDE DEF blank
  <2>2. IsNested(tables, scope, key, blank, AddNested(tables, scope, key, blank))
    BY <1>1, <1>2, NestedAdds
  <2> HIDE DEF ts
  <2>3. IsNested(tables, scope, key, blank, ts)
    BY <2>1, <2>2
  <2> HIDE DEF q
  <2>4. /\ DOMAIN ts = DOMAIN tables \cup {q} /\ ts[q] = blank /\ Alike(tables[scope], ts[scope])
        /\ \A r \in DOMAIN tables \ {scope, q} : ts[r] = tables[r]
    BY <2>3 DEF IsNested, q
  <2>5. TableOK(ts[scope]) /\ TableOK(ts[q])
    BY <1>1, <1>5, <2>4 DEF AllOK
  <2>6. IsWith(ts, key)
    BY <1>2, <1>3, <1>7, <2>4, <2>5 DEF IsWith, q
  <2> QED BY <2>6 DEF ts
<1> QED BY <1>6, <1>7

LEMMA MethodStep ==
  ASSUME IInv, NEW f, NEW params, NEW type, EnterMethod(f, params, type),
         HasFunction(tables[scope], f, Formatted(params))
  PROVE  \E k : MethodDefined(Signature(f, Formatted(params)), Append(scope, k))
               /\ scope' = Append(scope, k) /\ place' = "method"
<1> DEFINE k == UniqueKey(f, Formatted(params))
           sig == Signature(f, Formatted(params))
           q == Append(scope, k)
           ts == WithTable(k, sig)
<1>1. scope' = q /\ place' = "method" /\ Shallow(scope)
      /\ tables' = [ts EXCEPT ![scope] = Defined(@, sig), ![q].owner = sig]
  BY DEF EnterMethod, IInv, ScopeFits, Shallow
<1> HIDE DEF k, sig
<1>2. IsWith(ts, k)
  BY <1>1, WithTableIs
<1> HIDE DEF ts
<1>3. /\ DOMAIN ts = DOMAIN tables \cup {q} /\ q # scope /\ scope \in DOMAIN tables
      /\ Alike(tables[scope], ts[scope]) /\ TableOK(ts[scope])
      /\ IF q \in DOMAIN tables THEN Alike(tables[q], ts[q]) ELSE Blank(ts[q], "function")
      /\ TableOK(ts[q])
      /\ \A r \in DOMAIN tables \ {scope, q} : ts[r] = tables[r]
  BY <1>2 DEF IsWith, IInv
<1> DEFINE u == Defined(ts[scope], sig)
           v == [ts[q] EXCEPT !.owner = sig]
<1>4. u.scope = ts[scope].scope /\ u.syms = ts[scope].syms /\ u.funs = ts[scope].funs
      /\ u.defined = ts[scope].defined \cup {sig}
  BY <1>3, AlikeFields
<1>5. Alike(ts[q], v)
  BY <1>3, AlikeFields
<1> HIDE DEF q
<1>6. tables' = [ts EXCEPT ![scope] = u, ![q] = v]
  BY <1>1, <1>3
<1> HIDE DEF u, v
<1>7. /\ DOMAIN tables' = DOMAIN ts /\ tables'[scope] = u /\ tables'[q] = v
      /\ \A r \in DOMAIN ts \ {scope, q} : tables'[r] = ts[r]
  BY <1>3, <1>6
<1>8. Kindled(q)
  BY <1>3, <1>5, <1>7 DEF Kindled, Alike, Blank
<1>9. MethodDefined(sig, q)
  BY <1>3, <1>4, <1>7, <1>8 DEF MethodDefined, OthersStay, Alike
<1> QED BY <1>1, <1>9 DEF q, sig

LEMMA FunctionStep ==
  ASSUME IInv, NEW f, NEW params, NEW type, EnterFunction(f, params, type),
         ~ HasFunction(tables[scope], f, Formatted(params))
  PROVE  \E s :
           LET k == UniqueKey(f, Formatted(params))
           IN  /\ FunctionAdded(f, s, <<k>>, {Signature(f, Formatted(params))}) /\ Kindled(<<k>>)
               /\ s.kind = "FUNCTION" /\ s.dims = <<>> /\ s.params = Formatted(params)
               /\ scope = <<>> /\ scope' = <<k>> /\ place' = "function"
<1> DEFINE formatted == Formatted(params)
           k == UniqueKey(f, formatted)
           sig == Signature(f, formatted)
           s == FunctionSymbol(type, formatted, visibility)
           q == Append(scope, k)
           ts == WithTable(k, sig)
           u == AddSymbol(ts[scope], f, s)
           v == Defined(u, sig)
<1>1. s.kind = "FUNCTION" /\ s.dims = <<>> /\ s.params = formatted
  BY DEF FunctionSymbol, Symbol
<1>2. scope' = q /\ place' = "function" /\ Shallow(scope) /\ scope = <<>>
      /\ tables' = [ts EXCEPT ![scope] = v]
  BY DEF EnterFunction, IInv, ScopeFits, Shallow
<1>3. sig \notin DOMAIN tables[scope].funs /\ sig = Signature(f, s.params)
  BY <1>1 DEF HasFunction
<1> HIDE DEF k, sig, s
<1>4. IsWith(ts, k)
  BY <1>2, WithTableIs
<1> HIDE DEF ts
<1>5. /\ DOMAIN ts = DOMAIN tables \cup {q} /\ q # scope /\ scope \in DOMAIN tables
      /\ Alike(tables[scope], ts[scope]) /\ TableOK(ts[scope])
      /\ IF q \in DOMAIN tables THEN Alike(tables[q], ts[q]) ELSE Blank(ts[q], "function")
      /\ \A r \in DOMAIN tables \ {scope, q} : ts[r] = tables[r]
  BY <1>4 DEF IsWith, IInv
<1>6. ~ HasFunction(ts[scope], f, s.params)
  BY <1>3, <1>5 DEF HasFunction, Alike
<1> DEFINE t == ts[scope]
<1>7. TableOK(t) /\ ~ HasFunction(t, f, s.params) /\ u = AddSymbol(t, f, s)
  BY <1>5, <1>6
<1> HIDE DEF t, u
<1>8. WithFunction(t, u, f, s) /\ u.defined = t.defined /\ TableOK(u)
  BY <1>1, <1>7, AddFunctionAdds, AddSymbolOK
<1>9. v.scope = u.scope /\ v.syms = u.syms /\ v.funs = u.funs /\ v.defined = u.defined \cup {sig}
  BY <1>8, AlikeFields
<1> HIDE DEF v, q
<1>10. /\ DOMAIN tables' = DOMAIN ts /\ tables'[scope] = v
       /\ \A r \in DOMAIN ts \ {scope} : tables'[r] = ts[r]
  BY <1>2, <1>5
<1>11. WithFunction(tables[scope], tables'[scope], f, s)
  BY <1>5, <1>8, <1>9, <1>10 DEF WithFunction, Alike, t
<1>12. tables'[scope].defined = tables[scope].defined \cup {sig}
  BY <1>5, <1>8, <1>9, <1>10 DEF Alike, t
<1>13. Kindled(q) /\ OthersStay({scope, q}) /\ DOMAIN tables' = DOMAIN tables \cup {q}
  BY <1>5, <1>10 DEF Kindled, OthersStay
<1>14. q = <<k>>
  BY <1>2, Paths DEF q
<1>15. FunctionAdded(f, s, q, {sig})
  BY <1>5, <1>11, <1>12, <1>13 DEF FunctionAdded
<1> QED BY <1>1, <1>2, <1>13, <1>14, <1>15 DEF k, sig

LEMMA DeclaredParamStep ==
  ASSUME IInv, DeclaredParam
  PROVE  \E s : VariableAdded(Head(pending).name, s) /\ s.kind = "PARAMETER" /\ s.dims = <<>>
<1> DEFINE x == Head(pending).name
           s == Symbol("PARAMETER", Head(pending).type, <<>>)
<1>1. s.kind = "PARAMETER" /\ s.dims = <<>>
  BY DEF Symbol
<1>2. tables' = [tables EXCEPT ![scope] = AddSymbol(@, x, s)]
  BY DEF DeclaredParam
<1> HIDE DEF x, s
<1>3. VariableAdded(x, s)
  BY <1>1, <1>2, SymbolAddedAt
<1> QED BY <1>1, <1>3 DEF x

LEMMA ParamStep ==
  ASSUME IInv, Param, tables[scope].scope = "function"
  PROVE  \E s : /\ VariableAdded(Head(pending).name, s) /\ s.kind = "PARAMETER"
               /\ s.dims = Pushed(Head(pending).dims)
               /\ s.type = TypeText(Head(pending).type, Pushed(Head(pending).dims))
<1> DEFINE x == Head(pending).name
           dims == Pushed(Head(pending).dims)
           s == Symbol("PARAMETER", TypeText(Head(pending).type, dims), dims)
<1>1. s.kind = "PARAMETER" /\ s.dims = dims /\ s.type = TypeText(Head(pending).type, dims)
  BY DEF Symbol
<1>2. tables' = [tables EXCEPT ![scope] = AddSymbol(@, x, s)]
  BY DEF Param
<1> HIDE DEF s
<1>3. VariableAdded(x, s)
  BY <1>1, <1>2, SymbolAddedAt
<1> QED BY <1>1, <1>3

-----------------------------------------------------------------------------

(***************************************************************************)
(* The dimensions of every symbol are usable.                              *)
(***************************************************************************)

\* A symbol that was in no table before is s.
OnlyNew(s) ==
  \A p \in DOMAIN tables' : \A x \in DOMAIN tables'[p].syms :
    \/ /\ p \in DOMAIN tables /\ x \in DOMAIN tables[p].syms
       /\ tables'[p].syms[x] = tables[p].syms[x]
    \/ tables'[p].syms[x] = s

LEMMA NewSymbols ==
  ASSUME IInv, NEW x, NEW s, NEW q, NEW D
  PROVE  /\ VariableAdded(x, s) => OnlyNew(s)
         /\ ClassAdded(x, s) => OnlyNew(s)
         /\ FunctionAdded(x, s, q, D) /\ (Kindled(q) \/ Blank(tables'[q], "function")) => OnlyNew(s)
         /\ MethodDefined(x, q) => OnlyNew(s)
<1>0. scope \in DOMAIN tables /\ <<>> \in DOMAIN tables
  BY DEF IInv, WellFormed, Nesting
<1>1. VariableAdded(x, s) => OnlyNew(s)
  BY <1>0 DEF VariableAdded, OthersStay, WithSymbol, OnlyNew
<1>2. ClassAdded(x, s) => OnlyNew(s)
  BY <1>0 DEF ClassAdded, OthersStay, WithSymbol, Blank, OnlyNew
<1>3. ASSUME FunctionAdded(x, s, q, D), Kindled(q) \/ Blank(tables'[q], "function")
      PROVE  OnlyNew(s)
  BY <1>0, <1>3 DEF FunctionAdded, OthersStay, WithFunction, Blank, Kindled, Alike, OnlyNew
<1>4. ASSUME MethodDefined(x, q)
      PROVE  OnlyNew(s)
  BY <1>0, <1>4 DEF MethodDefined, OthersStay, Blank, Kindled, Alike, OnlyNew
<1> QED BY <1>1, <1>2, <1>3, <1>4

LEMMA PushedFits ==
  ASSUME NEW dims \in Seq(Int)
  PROVE  \A i \in DOMAIN Pushed(dims) : Pushed(dims)[i] \in Sizes
<1> DEFINE cut == [i \in DOMAIN dims |-> IF dims[i] > MaxInt THEN Dynamic ELSE dims[i]]
<1>1. cut \in Seq(Int \cup {Dynamic})
  OBVIOUS
<1> HIDE DEF cut
<1>2. \A k \in DOMAIN Kept(cut, Sizes) : Kept(cut, Sizes)[k] \in Sizes
  BY <1>1, KeptElements
<1> QED BY <1>2 DEF Pushed, cut

Fit(s) == \A i \in DOMAIN s.dims : s.dims[i] \in Sizes

\* The parameters of a function that were not visited yet.
PendingOK == InBody => pending \in Seq(ParamNodes)

AllFit == \A p \in DOMAIN tables : \A x \in DOMAIN tables[p].syms : Fit(tables[p].syms[x])

LEMMA StillFit ==
  ASSUME AllFit, NEW s, Fit(s), OnlyNew(s)
  PROVE  AllFit'
<1>1. \A p \in DOMAIN tables' : \A x \in DOMAIN tables'[p].syms : Fit(tables'[p].syms[x])
  BY DEF AllFit, OnlyNew
<1> QED BY <1>1 DEF AllFit

LEMMA FitKept ==
  ASSUME IInv, AllFit, PendingOK, [Next]_vars
  PROVE  AllFit' /\ PendingOK'
<1> DEFINE Goal == AllFit' /\ PendingOK'
<1>0. ASSUME UNCHANGED <<tables, pending>>, InBody' => InBody
      PROVE  Goal
  BY <1>0 DEF AllFit, Fit, PendingOK
<1>1. ASSUME NEW c \in ClassNames, NEW ps \in ParentLists, EnterClass(c, ps)
      PROVE  Goal
  <2>1. CASE c \in DOMAIN tables[<<>>].syms
    BY <1>0, <1>1, <2>1 DEF EnterClass, InBody
  <2>2. CASE c \notin DOMAIN tables[<<>>].syms
    <3>1. PICK s : ClassAdded(c, s) /\ place' = "class" /\ s.dims = <<>>
      BY <1>1, <2>2, ClassStep
    <3>2. OnlyNew(s)
      BY <3>1, NewSymbols
    <3>3. Fit(s)
      BY <3>1 DEF Fit
    <3> QED BY <3>1, <3>2, <3>3, StillFit DEF PendingOK, InBody
  <2> QED BY <2>1, <2>2
<1>2. ASSUME NEW v, NEW x, NEW t, NEW d \in DimLists, Attribute(v, x, t, d) \/ LocalVariable(x, t, d)
      PROVE  Goal
  <2>1. PICK what, vis : AddVariable(what, x, t, d, vis) /\ UNCHANGED <<place, pending>>
    BY <1>2 DEF Attribute, LocalVariable
  <2>2. PICK s : VariableVisited(what, x, d, s)
    BY <2>1, VariableStep
  <2>3. OnlyNew(s) /\ s.dims = Pushed(d)
    BY <2>2, NewSymbols DEF VariableVisited
  <2>4. Fit(s)
    BY <2>3, PushedFits, ListsAssumption DEF Fit
  <2> QED BY <2>1, <2>3, <2>4, StillFit DEF PendingOK, InBody
<1>3. ASSUME NEW v, NEW f, NEW ps \in ParamLists, NEW t, Declaration(v, f, ps, t)
      PROVE  Goal
  <2>1. CASE HasFunction(tables[scope], f, Formatted(ps))
    BY <1>0, <1>3, <2>1 DEF Declaration, InBody
  <2>2. CASE ~ HasFunction(tables[scope], f, Formatted(ps))
    <3>1. PICK s, k : /\ FunctionAdded(f, s, Append(scope, k), {})
                      /\ Blank(tables'[Append(scope, k)], "function")
                      /\ s.dims = <<>> /\ place' = "declaration"
      BY <1>3, <2>2, DeclarationStep
    <3> DEFINE q == Append(scope, k)
    <3> HIDE DEF q
    <3>2. FunctionAdded(f, s, q, {}) /\ Blank(tables'[q], "function")
      BY <3>1 DEF q
    <3>3. OnlyNew(s)
      BY <3>2, NewSymbols
    <3>4. Fit(s)
      BY <3>1 DEF Fit
    <3> QED BY <3>1, <3>3, <3>4, StillFit DEF PendingOK, InBody
  <2> QED BY <2>1, <2>2
<1>4. ASSUME DeclaredParam
      PROVE  Goal
  <2>1. PICK x, s : VariableAdded(x, s) /\ s.dims = <<>>
    BY <1>4, DeclaredParamStep
  <2>2. OnlyNew(s) /\ Fit(s)
    BY <2>1, NewSymbols DEF Fit
  <2> QED BY <1>4, <2>2, StillFit DEF PendingOK, InBody, DeclaredParam
<1>5. ASSUME NEW f, NEW ps \in ParamLists, NEW t, EnterMethod(f, ps, t)
      PROVE  Goal
  <2>1. CASE ~ HasFunction(tables[scope], f, Formatted(ps))
    BY <1>0, <1>5, <2>1 DEF EnterMethod, InBody
  <2>2. CASE HasFunction(tables[scope], f, Formatted(ps))
    <3> DEFINE sig == Signature(f, Formatted(ps))
               s == Symbol("VARIABLE", t, <<>>)
    <3>1. PICK k : MethodDefined(sig, Append(scope, k))
      BY <1>5, <2>2, MethodStep
    <3> DEFINE q == Append(scope, k)
    <3>2. Fit(s)
      BY DEF Fit, Symbol
    <3> HIDE DEF q, sig, s
    <3>3. MethodDefined(sig, q)
      BY <3>1 DEF q
    <3>4. OnlyNew(s)
      BY <3>3, NewSymbols
    <3>5. pending' \in Seq(ParamNodes)
      BY <1>5, <2>2, ListsAssumption DEF EnterMethod
    <3> QED BY <3>2, <3>4, <3>5, StillFit DEF PendingOK
  <2> QED BY <2>1, <2>2
<1>6. ASSUME NEW f, NEW ps \in ParamLists, NEW t, EnterFunction(f, ps, t)
      PROVE  Goal
  <2>1. CASE HasFunction(tables[scope], f, Formatted(ps))
    BY <1>0, <1>6, <2>1 DEF EnterFunction, InBody
  <2>2. CASE ~ HasFunction(tables[scope], f, Formatted(ps))
    <3> DEFINE k == UniqueKey(f, Formatted(ps))
               D == {Signature(f, Formatted(ps))}
    <3>1. PICK s : FunctionAdded(f, s, <<k>>, D) /\ Kindled(<<k>>) /\ s.dims = <<>>
      BY <1>6, <2>2, FunctionStep
    <3> DEFINE q == <<k>>
    <3> HIDE DEF q, D
    <3>2. FunctionAdded(f, s, q, D) /\ Kindled(q)
      BY <3>1 DEF q
    <3>3. OnlyNew(s) /\ Fit(s)
      BY <3>1, <3>2, NewSymbols DEF Fit
    <3>4. pending' \in Seq(ParamNodes)
      BY <1>6, <2>2, ListsAssumption DEF EnterFunction
    <3> QED BY <3>3, <3>4, StillFit DEF PendingOK
  <2> QED BY <2>1, <2>2
<1>7. ASSUME Param
      PROVE  Goal
  <2>1. pending \in Seq(ParamNodes) /\ pending # <<>> /\ pending' = Tail(pending)
    BY <1>7 DEF Param, PendingOK
  <2>2. pending' \in Seq(ParamNodes) /\ Head(pending) \in ParamNodes
    BY <2>1
  <2>3. CASE tables[scope].scope = "function"
    <3>1. PICK s : VariableAdded(Head(pending).name, s) /\ s.dims = Pushed(Head(pending).dims)
      BY <1>7, <2>3, ParamStep
    <3>2. OnlyNew(s)
      BY <3>1, NewSymbols
    <3>3. Fit(s)
      BY <2>2, <3>1, PushedFits DEF Fit, ParamNodes
    <3> QED BY <2>2, <3>2, <3>3, StillFit DEF PendingOK
  <2>4. CASE tables[scope].scope # "function"
    <3>1. UNCHANGED tables
      BY <1>7, <2>4 DEF Param
    <3> QED BY <2>2, <3>1 DEF AllFit, Fit, PendingOK
  <2> QED BY <2>3, <2>4
<1>8. ASSUME NEW c, EnterImplementation(c)
      PROVE  Goal
  BY <1>0, <1>8 DEF EnterImplementation, InBody
<1>9. ASSUME \/ LeaveDeclaration \/ LeaveClass \/ StartImplementations \/ LeaveImplementation
             \/ StartFunctions \/ LeaveFunction \/ Finish
      PROVE  Goal
  <2>1. UNCHANGED <<tables, pending>> /\ (InBody' => InBody)
    BY <1>9 DEF LeaveDeclaration, LeaveClass, StartImplementations, LeaveImplementation,
                StartFunctions, LeaveFunction, Finish, InBody
  <2> QED BY <1>0, <2>1
<1>10. ASSUME UNCHANGED vars
       PROVE  Goal
  BY <1>0, <1>10 DEF vars, InBody
<1> HIDE DEF Goal
<1>11. Goal
  BY <1>1, <1>2, <1>3, <1>4, <1>5, <1>6, <1>7, <1>8, <1>9, <1>10 DEF Next
<1> QED BY <1>11 DEF Goal

LEMMA FitAtFirst == Init => AllFit /\ PendingOK
<1> SUFFICES ASSUME Init PROVE AllFit /\ PendingOK
  OBVIOUS
<1>1. DOMAIN tables = {<<>>} /\ tables[<<>>] = EmptyTable("global", <<>>) /\ place = "classes"
  BY DEF Init
<1>2. DOMAIN tables[<<>>].syms = {}
  BY <1>1, EmptyFields
<1> QED BY <1>1, <1>2 DEF AllFit, PendingOK, InBody

\* Every dimension of a symbol is one that the later phases can take a size from, be
\* it written as 0, as a number beyond the range of int, or not at all.
THEOREM DimensionsStayUsable == Spec => []DimensionsAreUsable
<1>1. IInv /\ AllFit /\ PendingOK /\ [Next]_vars => AllFit' /\ PendingOK'
  BY FitKept
<1>2. AllFit => DimensionsAreUsable
  BY DEF AllFit, Fit, DimensionsAreUsable
<1> QED BY <1>1, <1>2, FitAtFirst, ScopesAreSound, PTL DEF Spec

-----------------------------------------------------------------------------

(***************************************************************************)
(* The declarations and the tables.                                        *)
(***************************************************************************)

IsList(s) == \E S : s \in Seq(S)

Entries == {seen[i] : i \in DOMAIN seen}

SigOf(e) == Signature(e.name, e.params)

\* What is in the table at a path, if there is one.
Names(p) == IF p \in DOMAIN tables THEN DOMAIN tables[p].syms ELSE {}
Funs(p) == IF p \in DOMAIN tables THEN DOMAIN tables[p].funs ELSE {}
Defs(p) == IF p \in DOMAIN tables THEN tables[p].defined ELSE {}

\* Where a declaration stands.
EntryOK(e) ==
  /\ e.what = "class" => e.in = <<>> /\ e.name \in ClassNames
  /\ e.what \in Members => e.in = <<e.in[1]>> /\ e.in[1] \in ClassNames
  /\ e.what = "function" =>
       e.in = <<>> /\ e.name \in FunctionNames /\ \E ps \in ParamLists : e.params = Formatted(ps)
  /\ e.what = "method" => e.in = <<e.in[1]>>

SeenOK == IsList(seen) /\ \A e \in Entries : EntryOK(e)

\* What the visit of a declaration left in the table of its scope.
LinkOK(e) ==
  /\ e.what = "class" => e.name \in Names(<<>>)
  /\ e.what \in Members => e.name \in Names(e.in)
  /\ e.what = "declaration" => SigOf(e) \in Funs(e.in)
  /\ e.what = "function" => SigOf(e) \in Funs(<<>>)
  /\ e.what = "method" /\ SigOf(e) \in Funs(e.in) => SigOf(e) \in Defs(e.in)

Linked == \A e \in Entries : LinkOK(e)

\* A signature in the global table comes from a function, one in the table of a class
\* from a declaration, and what is defined in a class from the definition of a member.
IsSource(e, p) == IF p = <<>> THEN e.what = "function" ELSE e.what = "declaration" /\ e.in = p

Sourced ==
  \A p : Shallow(p) =>
    /\ \A sig \in Funs(p) : \E e \in Entries : SigOf(e) = sig /\ IsSource(e, p)
    /\ p # <<>> => \A sig \in Defs(p) :
         \E e \in Entries : SigOf(e) = sig /\ e.what = "method" /\ e.in = p

\* The tables of a program of which only classes were visited.
InClasses == place \in {"classes", "class", "declaration"}

ClassPhase ==
  InClasses =>
    /\ \A e \in Entries : e.what = "class" \/ e.what \in Members
    /\ \A k : <<k>> \in DOMAIN tables => k \in Names(<<>>)
    /\ \A k \in Names(<<>>) : \E e \in Entries : e.what = "class" /\ e.name = k
    /\ \A k : \A x \in Names(<<k>>) : \E e \in Entries :
         e.what \in Members /\ e.in = <<k>> /\ e.name = x

InClass == place \in {"class", "declaration"} => scope[1] \in ClassNames /\ IsClass(scope[1])

ClassesAreSeen ==
  \A c \in Names(<<>>) : IsClass(c) => \E e \in Entries : e.what = "class" /\ e.name = c

LInv == SeenOK /\ Linked /\ Sourced /\ ClassPhase /\ InClass /\ ClassesAreSeen

\* The tables in which things are looked up by a path of one name or none have got
\* what they had, and the one at path has got names, signatures and definitions.
Grown(path, names, sigs, defs) ==
  \A p : Shallow(p) =>
    /\ Names(p)' = Names(p) \cup (IF p = path THEN names ELSE {})
    /\ Funs(p)' = Funs(p) \cup (IF p = path THEN sigs ELSE {})
    /\ Defs(p)' = Defs(p) \cup (IF p = path THEN defs ELSE {})

LEMMA GrownAt ==
  ASSUME NEW path \in DOMAIN tables, NEW q, NEW names, NEW sigs, NEW defs,
         DOMAIN tables' = DOMAIN tables \cup {q},
         DOMAIN tables'[path].syms = DOMAIN tables[path].syms \cup names,
         DOMAIN tables'[path].funs = DOMAIN tables[path].funs \cup sigs,
         tables'[path].defined = tables[path].defined \cup defs,
         OthersStay({path, q}),
         q # path => ~ Shallow(q) \/ Kindled(q)
                       \/ (q \notin DOMAIN tables /\ \E k : Blank(tables'[q], k))
  PROVE  Grown(path, names, sigs, defs)
<1> SUFFICES ASSUME NEW p, Shallow(p)
             PROVE  /\ Names(p)' = Names(p) \cup (IF p = path THEN names ELSE {})
                    /\ Funs(p)' = Funs(p) \cup (IF p = path THEN sigs ELSE {})
                    /\ Defs(p)' = Defs(p) \cup (IF p = path THEN defs ELSE {})
  BY DEF Grown
<1>1. CASE p = path
  BY <1>1 DEF Names, Funs, Defs
<1>2. CASE p # path /\ p # q
  <2>1. p \in DOMAIN tables => tables'[p] = tables[p]
    BY <1>2 DEF OthersStay
  <2> QED BY <1>2, <2>1 DEF Names, Funs, Defs
<1>3. CASE p # path /\ p = q
  BY <1>3 DEF Kindled, Alike, Blank, Names, Funs, Defs
<1> QED BY <1>1, <1>2, <1>3

LEMMA NotGrown ==
  ASSUME UNCHANGED tables, NEW path
  PROVE  Grown(path, {}, {}, {})
BY DEF Grown, Names, Funs, Defs

LEMMA VariableGrows ==
  ASSUME IInv, NEW x, NEW s, VariableAdded(x, s)
  PROVE  Grown(scope, {x}, {}, {})
<1>1. scope \in DOMAIN tables /\ DOMAIN tables' = DOMAIN tables \cup {scope}
  BY DEF IInv, VariableAdded
<1>2. /\ DOMAIN tables'[scope].syms = DOMAIN tables[scope].syms \cup {x}
      /\ DOMAIN tables'[scope].funs = DOMAIN tables[scope].funs \cup {}
      /\ tables'[scope].defined = tables[scope].defined \cup {}
      /\ OthersStay({scope, scope})
  BY DEF VariableAdded, WithSymbol, OthersStay
<1> QED BY <1>1, <1>2, GrownAt

LEMMA ClassGrows ==
  ASSUME IInv, NEW c, NEW s, ClassAdded(c, s), <<c>> \notin DOMAIN tables
  PROVE  Grown(<<>>, {c}, {}, {})
<1> DEFINE g == <<>>
           q == <<c>>
<1>1. g \in DOMAIN tables
  BY DEF IInv, WellFormed, Nesting
<1>2. /\ DOMAIN tables' = DOMAIN tables \cup {q}
      /\ DOMAIN tables'[g].syms = DOMAIN tables[g].syms \cup {c}
      /\ DOMAIN tables'[g].funs = DOMAIN tables[g].funs \cup {}
      /\ tables'[g].defined = tables[g].defined \cup {}
      /\ OthersStay({g, q})
      /\ q \notin DOMAIN tables /\ \E k : Blank(tables'[q], k)
  BY DEF ClassAdded, WithSymbol
<1> HIDE DEF g, q
<1>3. Grown(g, {c}, {}, {})
  BY <1>1, <1>2, GrownAt
<1> QED BY <1>3 DEF g

LEMMA FunctionGrows ==
  ASSUME IInv, NEW f, NEW s, NEW q, NEW D, FunctionAdded(f, s, q, D), ~ Shallow(q) \/ Kindled(q)
  PROVE  Grown(scope, {f}, {Signature(f, s.params)}, D)
<1>1. scope \in DOMAIN tables
  BY DEF IInv
<1>2. /\ DOMAIN tables' = DOMAIN tables \cup {q}
      /\ DOMAIN tables'[scope].syms = DOMAIN tables[scope].syms \cup {f}
      /\ DOMAIN tables'[scope].funs = DOMAIN tables[scope].funs \cup {Signature(f, s.params)}
      /\ tables'[scope].defined = tables[scope].defined \cup D
      /\ OthersStay({scope, q})
  BY DEF FunctionAdded, WithFunction
<1> QED BY <1>1, <1>2, GrownAt

LEMMA MethodGrows ==
  ASSUME IInv, NEW sig, NEW q, MethodDefined(sig, q)
  PROVE  Grown(scope, {}, {}, {sig})
<1>1. scope \in DOMAIN tables
  BY DEF IInv
<1>2. /\ DOMAIN tables' = DOMAIN tables \cup {q}
      /\ DOMAIN tables'[scope].syms = DOMAIN tables[scope].syms \cup {}
      /\ DOMAIN tables'[scope].funs = DOMAIN tables[scope].funs \cup {}
      /\ tables'[scope].defined = tables[scope].defined \cup {sig}
      /\ OthersStay({scope, q}) /\ Kindled(q)
  BY DEF MethodDefined
<1> QED BY <1>1, <1>2, GrownAt

\* n is the declaration that was visited last.
SeenIs(n) ==
  /\ Len(seen) \in Nat /\ Len(seen') = Len(seen) + 1
  /\ DOMAIN seen = 1 .. Len(seen) /\ DOMAIN seen' = 1 .. Len(seen')
  /\ \A i \in 1 .. Len(seen) : seen'[i] = seen[i]
  /\ seen'[Len(seen')] = n
  /\ IsList(seen')
  /\ Entries' = Entries \cup {n}

Entry(what, name, params, dims, parents) ==
  [what |-> what, in |-> scope, name |-> name, params |-> params, dims |-> dims,
   parents |-> parents]

LEMMA SeenGrows ==
  ASSUME IsList(seen), NEW what, NEW name, NEW params, NEW dims, NEW parents,
         Noticed(what, name, params, dims, parents)
  PROVE  SeenIs(Entry(what, name, params, dims, parents))
<1> DEFINE n == Entry(what, name, params, dims, parents)
           l == Len(seen)
<1>1. PICK S : seen \in Seq(S)
  BY DEF IsList
<1>2. seen' = Append(seen, n)
  BY DEF Noticed, Entry
<1> HIDE DEF n
<1>3. seen \in Seq(S \cup {n}) /\ n \in S \cup {n}
  BY <1>1
<1>4. /\ seen' \in Seq(S \cup {n}) /\ l \in Nat /\ Len(seen') = l + 1 /\ seen'[l + 1] = n
      /\ DOMAIN seen = 1 .. l /\ DOMAIN seen' = 1 .. l + 1
      /\ \A i \in 1 .. l : seen'[i] = seen[i]
  BY <1>2, <1>3
<1> HIDE DEF l
<1>5. 1 .. l + 1 = (1 .. l) \cup {l + 1}
  BY <1>4
<1>6. Entries' = {seen'[i] : i \in (1 .. l) \cup {l + 1}}
  BY <1>4, <1>5 DEF Entries
<1>7. Entries' = Entries \cup {n}
  BY <1>4, <1>6 DEF Entries
<1> QED BY <1>4, <1>7 DEF SeenIs, IsList, l, n

LEMMA LinksGrow ==
  ASSUME SeenOK, Linked, Sourced, NEW path, NEW names, NEW sigs, NEW defs,
         Grown(path, names, sigs, defs),
         NEW New, Entries' = Entries \cup New, \A e \in New : LinkOK(e)',
         sigs = {} \/ path = <<>> \/ \A e \in Entries : e.what # "method",
         \A sig \in sigs : \E e \in New : SigOf(e) = sig /\ IsSource(e, path),
         path # <<>> => \A sig \in defs :
           \E e \in New : SigOf(e) = sig /\ e.what = "method" /\ e.in = path
  PROVE  Linked' /\ Sourced'
<1>1. ASSUME NEW e \in Entries
      PROVE  LinkOK(e)'
  <2>1. EntryOK(e) /\ LinkOK(e) /\ Shallow(<<>>)
    BY DEF SeenOK, Linked, Shallow
  <2>2. e.what \in Members \/ e.what = "method" => Shallow(e.in) /\ e.in # <<>>
    BY <2>1, Paths DEF EntryOK, Shallow
  <2>3. e.what = "declaration" => e.what \in Members
    BY DEF Members
  <2>4. e.what = "class" => (e.name \in Names(<<>>))'
    BY <2>1 DEF LinkOK, Grown
  <2>5. e.what \in Members => (e.name \in Names(e.in))'
    BY <2>1, <2>2 DEF LinkOK, Grown
  <2>6. e.what = "declaration" => (SigOf(e) \in Funs(e.in))'
    BY <2>1, <2>2, <2>3 DEF LinkOK, Grown, SigOf
  <2>7. e.what = "function" => (SigOf(e) \in Funs(<<>>))'
    BY <2>1 DEF LinkOK, Grown, SigOf
  <2>8. e.what = "method" /\ (SigOf(e) \in Funs(e.in))' => (SigOf(e) \in Defs(e.in))'
    BY <2>1, <2>2 DEF LinkOK, Grown, SigOf
  <2> QED BY <2>4, <2>5, <2>6, <2>7, <2>8 DEF LinkOK
<1>2. Linked'
  BY <1>1 DEF Linked
<1>3. ASSUME NEW p, Shallow(p)
      PROVE  /\ \A sig \in Funs(p)' : \E e \in Entries' : SigOf(e) = sig /\ IsSource(e, p)
             /\ p # <<>> => \A sig \in Defs(p)' :
                  \E e \in Entries' : SigOf(e) = sig /\ e.what = "method" /\ e.in = p
  <2>1. ASSUME NEW sig \in Funs(p)'
        PROVE  \E e \in Entries' : SigOf(e) = sig /\ IsSource(e, p)
    <3>1. sig \in Funs(p) \/ (p = path /\ sig \in sigs)
      BY <1>3, <2>1 DEF Grown
    <3>2. CASE sig \in Funs(p)
      BY <1>3, <3>2 DEF Sourced
    <3>3. CASE p = path /\ sig \in sigs
      BY <3>3
    <3> QED BY <3>1, <3>2, <3>3
  <2>2. ASSUME p # <<>>, NEW sig \in Defs(p)'
        PROVE  \E e \in Entries' : SigOf(e) = sig /\ e.what = "method" /\ e.in = p
    <3>1. sig \in Defs(p) \/ (p = path /\ sig \in defs)
      BY <1>3, <2>2 DEF Grown
    <3>2. CASE sig \in Defs(p)
      BY <1>3, <2>2, <3>2 DEF Sourced
    <3>3. CASE p = path /\ sig \in defs
      BY <2>2, <3>3
    <3> QED BY <3>1, <3>2, <3>3
  <2> QED BY <2>1, <2>2
<1>4. Sourced'
  BY <1>3 DEF Sourced
<1> QED BY <1>2, <1>4

LEMMA EntryFields ==
  ASSUME NEW what, NEW name, NEW params, NEW dims, NEW parents
  PROVE  LET n == Entry(what, name, params, dims, parents)
         IN  /\ n.what = what /\ n.in = scope /\ n.name = name /\ n.params = params
             /\ n.dims = dims /\ n.parents = parents
BY DEF Entry

LEMMA SeenStaysOK ==
  ASSUME SeenOK, NEW n, SeenIs(n), EntryOK(n)
  PROVE  SeenOK'
BY DEF SeenOK, SeenIs, EntryOK

\* The symbols of the global table are those that were there.
GlobalStays == tables'[<<>>].syms = tables[<<>>].syms

LEMMA GlobalKeeps ==
  ASSUME IInv, <<>> \in DOMAIN tables', GlobalStays
  PROVE  /\ Names(<<>>)' = Names(<<>>) /\ \A c : IsClass(c)' <=> IsClass(c)
         /\ ClassesAreSeen /\ Entries \subseteq Entries' => ClassesAreSeen'
<1>1. <<>> \in DOMAIN tables
  BY DEF IInv, WellFormed, Nesting
<1>2. Names(<<>>)' = Names(<<>>) /\ \A c : IsClass(c)' <=> IsClass(c)
  BY <1>1 DEF GlobalStays, Names, IsClass
<1>3. ASSUME ClassesAreSeen, Entries \subseteq Entries'
      PROVE  ClassesAreSeen'
  <2>1. \A c \in Names(<<>>)' : IsClass(c)' => \E e \in Entries' : e.what = "class" /\ e.name = c
    BY <1>2, <1>3 DEF ClassesAreSeen
  <2> QED BY <2>1 DEF ClassesAreSeen
<1> QED BY <1>2, <1>3

LEMMA NoTableChanged ==
  ASSUME IInv, UNCHANGED tables
  PROVE  <<>> \in DOMAIN tables' /\ GlobalStays
BY DEF IInv, WellFormed, Nesting, GlobalStays

\* A declaration that was visited and changed no table.
LEMMA OnlySeen ==
  ASSUME IInv, LInv, UNCHANGED tables, NEW n, SeenIs(n), EntryOK(n), LinkOK(n),
         InClasses' => InClasses /\ (n.what = "class" \/ n.what \in Members),
         InClass'
  PROVE  LInv'
<1>1. SeenOK'
  BY SeenStaysOK DEF LInv
<1>2. Entries' = Entries \cup {n}
  BY DEF SeenIs
<1>3. LinkOK(n)'
  BY DEF LinkOK, Names, Funs, Defs
<1>4. Grown(<<>>, {}, {}, {})
  BY NotGrown
<1>5. Linked' /\ Sourced'
  <2> DEFINE New == {n}
             none == {}
             path == <<>>
  <2>1. /\ Entries' = Entries \cup New /\ (\A e \in New : LinkOK(e)')
        /\ none = {} /\ (\A sig \in none : \E e \in New : SigOf(e) = sig /\ IsSource(e, path))
        /\ path # <<>> => \A sig \in none :
             \E e \in New : SigOf(e) = sig /\ e.what = "method" /\ e.in = path
        /\ Grown(path, none, none, none)
    BY <1>2, <1>3, <1>4
  <2> HIDE DEF New, none, path
  <2> QED BY <2>1, LinksGrow DEF LInv
<1>6. ClassPhase'
  BY <1>2 DEF LInv, ClassPhase, Names
<1>7. ClassesAreSeen'
  BY <1>2, NoTableChanged, GlobalKeeps DEF LInv
<1> QED BY <1>1, <1>5, <1>6, <1>7 DEF LInv

\* A step that neither visits a declaration nor changes a table of names.
LEMMA NothingSeen ==
  ASSUME IInv, LInv, UNCHANGED seen, Grown(<<>>, {}, {}, {}), <<>> \in DOMAIN tables', GlobalStays,
         InClasses' => InClasses, \A k : <<k>> \in DOMAIN tables' => <<k>> \in DOMAIN tables,
         InClass'
  PROVE  LInv'
<1>1. Entries' = Entries
  BY DEF Entries
<1>2. SeenOK'
  BY <1>1 DEF LInv, SeenOK, EntryOK
<1>5. Linked' /\ Sourced'
  <2> DEFINE New == {}
             path == <<>>
  <2>1. /\ Entries' = Entries \cup New /\ (\A e \in New : LinkOK(e)')
        /\ New = {} /\ (\A sig \in New : \E e \in New : SigOf(e) = sig /\ IsSource(e, path))
        /\ path # <<>> => \A sig \in New :
             \E e \in New : SigOf(e) = sig /\ e.what = "method" /\ e.in = path
        /\ Grown(path, New, New, New)
    BY <1>1
  <2> HIDE DEF New, path
  <2> QED BY <2>1, LinksGrow DEF LInv
<1>6. \A k : Shallow(<<k>>) /\ <<k>> # <<>>
  BY Paths DEF Shallow
<1>7. Names(<<>>)' = Names(<<>>) /\ \A k : Names(<<k>>)' = Names(<<k>>)
  BY <1>6, GlobalKeeps DEF Grown
<1>8. ClassPhase'
  <2> SUFFICES ASSUME InClasses'
               PROVE  /\ \A e \in Entries' : e.what = "class" \/ e.what \in Members
                      /\ \A k : <<k>> \in DOMAIN tables' => k \in Names(<<>>)'
                      /\ \A k \in Names(<<>>)' : \E e \in Entries' : e.what = "class" /\ e.name = k
                      /\ \A k : \A x \in Names(<<k>>)' : \E e \in Entries' :
                           e.what \in Members /\ e.in = <<k>> /\ e.name = x
    BY DEF ClassPhase
  <2>1. /\ \A e \in Entries : e.what = "class" \/ e.what \in Members
        /\ \A k : <<k>> \in DOMAIN tables => k \in Names(<<>>)
        /\ \A k \in Names(<<>>) : \E e \in Entries : e.what = "class" /\ e.name = k
    BY DEF LInv, ClassPhase
  <2>2. \A k : \A x \in Names(<<k>>) : \E e \in Entries :
          e.what \in Members /\ e.in = <<k>> /\ e.name = x
    BY DEF LInv, ClassPhase
  <2>3. /\ \A e \in Entries' : e.what = "class" \/ e.what \in Members
        /\ \A k : <<k>> \in DOMAIN tables' => k \in Names(<<>>)'
        /\ \A k \in Names(<<>>)' : \E e \in Entries' : e.what = "class" /\ e.name = k
    BY <1>1, <1>7, <2>1
  <2>4. ASSUME NEW k, NEW x \in Names(<<k>>)'
        PROVE  \E e \in Entries' : e.what \in Members /\ e.in = <<k>> /\ e.name = x
    BY <1>1, <1>7, <2>2, <2>4
  <2> QED BY <2>3, <2>4
<1>9. ClassesAreSeen'
  BY <1>1, GlobalKeeps DEF LInv
<1> QED BY <1>2, <1>5, <1>8, <1>9 DEF LInv

\* A declaration that was visited and left things in a table.
LEMMA SeenAndLinked ==
  ASSUME LInv, NEW n, SeenIs(n), EntryOK(n), LinkOK(n)',
         NEW path, NEW names, NEW sigs, NEW defs, Grown(path, names, sigs, defs),
         sigs = {} \/ path = <<>> \/ \A e \in Entries : e.what # "method",
         sigs = {} \/ (sigs = {SigOf(n)} /\ IsSource(n, path)),
         defs = {} \/ path = <<>> \/ (defs = {SigOf(n)} /\ n.what = "method" /\ n.in = path)
  PROVE  SeenOK' /\ Linked' /\ Sourced'
<1> DEFINE New == {n}
<1>1. Entries' = Entries \cup New /\ \A e \in New : LinkOK(e)'
  BY DEF SeenIs
<1>2. \A sig \in sigs : \E e \in New : SigOf(e) = sig /\ IsSource(e, path)
  OBVIOUS
<1>3. path # <<>> => \A sig \in defs :
        \E e \in New : SigOf(e) = sig /\ e.what = "method" /\ e.in = path
  OBVIOUS
<1> HIDE DEF New
<1>4. Linked' /\ Sourced'
  BY <1>1, <1>2, <1>3, LinksGrow DEF LInv
<1> QED BY <1>4, SeenStaysOK DEF LInv

LEMMA OnePath ==
  ASSUME NEW k
  PROVE  Shallow(<<k>>) /\ <<k>> # <<>> /\ <<k>>[1] = k /\ Shallow(<<>>)
BY Paths DEF Shallow

LEMMA NotShallow ==
  ASSUME NEW p, p = <<p[1]>>, NEW k
  PROVE  ~ Shallow(Append(p, k)) /\ Append(p, k) # <<>> /\ \A c : Append(p, k) # <<c>>
<1>1. Append(p, k) = <<p[1], k>>
  BY Paths
<1>2. Len(<<p[1], k>>) = 2 /\ \A c : Len(<<c>>) = 1
  OBVIOUS
<1>3. \A c : Append(p, k) # <<c>>
  BY <1>1, <1>2
<1>4. Append(p, k) # <<>>
  BY <1>1, Paths
<1> QED BY <1>3, <1>4 DEF Shallow

LEMMA ClassLinks ==
  ASSUME IInv, LInv, NEW c \in ClassNames, NEW ps \in ParentLists, EnterClass(c, ps)
  PROVE  LInv'
<1>0. PICK n : n = Entry("class", c, <<>>, <<>>, ps)
  OBVIOUS
<1>1. place = "classes" /\ scope = <<>> /\ InClasses /\ Noticed("class", c, <<>>, <<>>, ps)
  BY DEF EnterClass, IInv, ScopeFits, InClasses
<1>2. n.what = "class" /\ n.in = <<>> /\ n.name = c
  BY <1>0, <1>1, EntryFields
<1>3. SeenIs(n)
  BY <1>0, <1>1, SeenGrows DEF LInv, SeenOK
<1>4. EntryOK(n)
  BY <1>2 DEF EntryOK, Members
<1>5. <<>> \in DOMAIN tables
  BY DEF IInv, WellFormed, Nesting
<1>6. CASE c \in DOMAIN tables[<<>>].syms
  <2>1. UNCHANGED <<tables, place>>
    BY <1>6 DEF EnterClass
  <2>2. LinkOK(n)
    BY <1>2, <1>5, <1>6 DEF LinkOK, Members, Names
  <2>3. InClass'
    BY <1>1, <2>1 DEF InClass
  <2> QED BY <1>1, <1>2, <1>3, <1>4, <2>1, <2>2, <2>3, OnlySeen DEF InClasses
<1>7. CASE c \notin DOMAIN tables[<<>>].syms
  <2>1. PICK s : ClassAdded(c, s) /\ scope' = <<c>> /\ place' = "class" /\ s.kind = "CLASS"
    BY <1>7, ClassStep
  <2>2. <<c>> \notin DOMAIN tables
    BY <1>1, <1>5, <1>7 DEF LInv, ClassPhase, Names
  <2>3. Grown(<<>>, {c}, {}, {})
    BY <2>1, <2>2, ClassGrows
  <2>4. Names(<<>>)' = Names(<<>>) \cup {c} /\ \A k : Names(<<k>>)' = Names(<<k>>)
    BY <2>3, OnePath DEF Grown
  <2>5. LinkOK(n)'
    BY <1>2, <2>4 DEF LinkOK, Members
  <2>6. SeenOK' /\ Linked' /\ Sourced'
    <3> DEFINE none == {}
               path == <<>>
               names == {c}
    <3>1. none = {} /\ path = <<>> /\ Grown(path, names, none, none)
      BY <2>3
    <3> HIDE DEF none, path, names
    <3> QED BY <1>3, <1>4, <2>5, <3>1, SeenAndLinked
  <2>7. Entries' = Entries \cup {n}
    BY <1>3 DEF SeenIs
  <2>8. ClassPhase'
    <3>1. \A e \in Entries' : e.what = "class" \/ e.what \in Members
      BY <1>1, <1>2, <2>7 DEF LInv, ClassPhase
    <3>2. \A k : <<k>> \in DOMAIN tables' => k \in Names(<<>>)'
      <4>1. \A k : <<k>> = <<c>> => k = c
        BY OnePath
      <4> QED BY <1>1, <2>1, <2>4, <4>1 DEF LInv, ClassPhase, ClassAdded
    <3>3. \A k \in Names(<<>>)' : \E e \in Entries' : e.what = "class" /\ e.name = k
      BY <1>1, <1>2, <2>4, <2>7 DEF LInv, ClassPhase
    <3>4. ASSUME NEW k, NEW x \in Names(<<k>>)'
          PROVE  \E e \in Entries' : e.what \in Members /\ e.in = <<k>> /\ e.name = x
      <4>1. \E e \in Entries : e.what \in Members /\ e.in = <<k>> /\ e.name = x
        BY <1>1, <2>4, <3>4 DEF LInv, ClassPhase
      <4> QED BY <2>7, <4>1
    <3> QED BY <3>1, <3>2, <3>3, <3>4 DEF ClassPhase
  <2>9. /\ tables'[<<>>].syms[c] = s /\ DOMAIN tables'[<<>>].syms = DOMAIN tables[<<>>].syms \cup {c}
        /\ \A y \in DOMAIN tables[<<>>].syms : tables'[<<>>].syms[y] = tables[<<>>].syms[y]
        /\ <<>> \in DOMAIN tables'
    BY <1>5, <1>7, <2>1 DEF ClassAdded, WithSymbol
  <2>10. InClass'
    <3>1. IsClass(c)'
      BY <2>1, <2>9 DEF IsClass
    <3>2. scope'[1] = c
      BY <2>1, OnePath
    <3> QED BY <3>1, <3>2 DEF InClass
  <2>11. ClassesAreSeen'
    <3>1. \A y \in Names(<<>>)' : IsClass(y)' => \E e \in Entries' : e.what = "class" /\ e.name = y
      <4>1. SUFFICES ASSUME NEW y \in Names(<<>>)', IsClass(y)'
                     PROVE  \E e \in Entries' : e.what = "class" /\ e.name = y
        OBVIOUS
      <4>2. CASE y = c
        BY <1>2, <2>7, <4>2
      <4>3. CASE y # c
        <5>1. y \in Names(<<>>) /\ IsClass(y)
          BY <1>5, <2>4, <2>9, <4>1, <4>3 DEF IsClass, Names
        <5> QED BY <2>7, <5>1 DEF LInv, ClassesAreSeen
      <4> QED BY <4>2, <4>3
    <3> QED BY <3>1 DEF ClassesAreSeen
  <2> QED BY <2>6, <2>8, <2>10, <2>11 DEF LInv
<1> QED BY <1>6, <1>7

\* A member of a class that was visited and left its name.
LEMMA MemberPhase ==
  ASSUME LInv, InClasses, scope = <<scope[1]>>, NEW n, SeenIs(n), n.what \in Members, n.in = scope,
         NEW sigs, Grown(scope, {n.name}, sigs, {}),
         \A k : <<k>> \in DOMAIN tables' => <<k>> \in DOMAIN tables
  PROVE  ClassPhase'
<1>1. Entries' = Entries \cup {n}
  BY DEF SeenIs
<1>2. scope # <<>>
  BY Paths
<1>3. Names(<<>>)' = Names(<<>>)
  <2>1. Shallow(<<>>)
    BY DEF Shallow
  <2>2. Names(<<>>)' = Names(<<>>) \cup (IF <<>> = scope THEN {n.name} ELSE {})
    BY <2>1 DEF Grown
  <2> QED BY <1>2, <2>2
<1>4. \A e \in Entries' : e.what = "class" \/ e.what \in Members
  BY <1>1 DEF LInv, ClassPhase
<1>5. \A k : <<k>> \in DOMAIN tables' => k \in Names(<<>>)'
  BY <1>3 DEF LInv, ClassPhase
<1>6. \A k \in Names(<<>>)' : \E e \in Entries' : e.what = "class" /\ e.name = k
  BY <1>1, <1>3 DEF LInv, ClassPhase
<1>7. ASSUME NEW k, NEW x \in Names(<<k>>)'
      PROVE  \E e \in Entries' : e.what \in Members /\ e.in = <<k>> /\ e.name = x
  <2>1. x \in Names(<<k>>) \/ (<<k>> = scope /\ x = n.name)
    BY <1>7, OnePath DEF Grown
  <2>2. CASE x \in Names(<<k>>)
    <3>1. \E e \in Entries : e.what \in Members /\ e.in = <<k>> /\ e.name = x
      BY <2>2 DEF LInv, ClassPhase
    <3> QED BY <1>1, <3>1
  <2>3. CASE <<k>> = scope /\ x = n.name
    BY <1>1, <2>3
  <2> QED BY <2>1, <2>2, <2>3
<1> QED BY <1>4, <1>5, <1>6, <1>7 DEF ClassPhase

\* A step below the global table leaves this one and the class around it alone.
LEMMA BelowGlobal ==
  ASSUME IInv, scope # <<>>, NEW q, q # <<>>, OthersStay({scope, q}),
         DOMAIN tables' = DOMAIN tables \cup {q}
  PROVE  <<>> \in DOMAIN tables' /\ GlobalStays
BY DEF IInv, WellFormed, Nesting, OthersStay, GlobalStays

LEMMA AttributeLinks ==
  ASSUME IInv, LInv, NEW v, NEW x, NEW t, NEW d, Attribute(v, x, t, d)
  PROVE  LInv'
<1>1. /\ AddVariable("attribute", x, t, d, v) /\ UNCHANGED <<scope, place>>
      /\ place = "class" /\ scope = <<scope[1]>> /\ InClasses
  BY DEF Attribute, IInv, ScopeFits, InClasses
<1>2. scope # <<>>
  BY <1>1, Paths
<1>3. PICK s : VariableVisited("attribute", x, d, s)
  BY <1>1, VariableStep
<1>4. VariableAdded(x, s) /\ Noticed("attribute", x, <<>>, <<d>>, <<>>)
  BY <1>3 DEF VariableVisited
<1>5. PICK n : n = Entry("attribute", x, <<>>, <<d>>, <<>>)
  OBVIOUS
<1>6. n.what = "attribute" /\ n.in = scope /\ n.name = x
  BY <1>5, EntryFields
<1>7. SeenIs(n) /\ Entries' = Entries \cup {n}
  BY <1>4, <1>5, SeenGrows DEF LInv, SeenOK, SeenIs
<1>8. EntryOK(n)
  BY <1>1, <1>6 DEF EntryOK, LInv, InClass
<1>9. Grown(scope, {x}, {}, {})
  BY <1>4, VariableGrows
<1>10. x \in Names(scope)' /\ n.in = scope'
  BY <1>1, <1>4, <1>6 DEF IInv, VariableAdded, WithSymbol, Names
<1>11. LinkOK(n)'
  BY <1>1, <1>6, <1>10 DEF LinkOK
<1>12. SeenOK' /\ Linked' /\ Sourced'
  <2> DEFINE none == {}
             names == {x}
  <2>1. none = {} /\ Grown(scope, names, none, none)
    BY <1>9
  <2> HIDE DEF none, names
  <2> QED BY <1>7, <1>8, <1>11, <2>1, SeenAndLinked
<1>13. DOMAIN tables' = DOMAIN tables /\ OthersStay({scope, scope}) /\ scope \in DOMAIN tables
  BY <1>4 DEF VariableAdded, OthersStay, IInv
<1>14. ClassPhase'
  BY <1>1, <1>6, <1>7, <1>9, <1>13, MemberPhase DEF Members
<1>15. <<>> \in DOMAIN tables' /\ GlobalStays
  BY <1>2, <1>13, BelowGlobal
<1>16. ClassesAreSeen' /\ \A c : IsClass(c)' <=> IsClass(c)
  BY <1>7, <1>15, GlobalKeeps DEF LInv
<1>17. InClass'
  BY <1>1, <1>16 DEF InClass, LInv
<1> QED BY <1>12, <1>14, <1>16, <1>17 DEF LInv

LEMMA DeclarationLinks ==
  ASSUME IInv, LInv, NEW v, NEW f, NEW ps, NEW t, Declaration(v, f, ps, t)
  PROVE  LInv'
<1> DEFINE formatted == Formatted(ps)
<1>1. /\ Noticed("declaration", f, formatted, DimsOf(ps), <<>>)
      /\ place = "class" /\ scope = <<scope[1]>> /\ InClasses
  BY DEF Declaration, IInv, ScopeFits, InClasses
<1>2. scope # <<>> /\ scope \in DOMAIN tables /\ TableOK(tables[scope])
  BY <1>1, Paths DEF IInv, WellFormed, AllOK
<1>3. PICK n : n = Entry("declaration", f, formatted, DimsOf(ps), <<>>)
  OBVIOUS
<1>4. n.what = "declaration" /\ n.in = scope /\ n.name = f /\ n.params = formatted
      /\ n.what \in Members
  BY <1>3, EntryFields DEF Members
<1>5. SeenIs(n) /\ Entries' = Entries \cup {n}
  BY <1>1, <1>3, SeenGrows DEF LInv, SeenOK, SeenIs
<1>6. EntryOK(n)
  BY <1>1, <1>4 DEF EntryOK, LInv, InClass
<1>7. CASE HasFunction(tables[scope], f, formatted)
  <2>1. UNCHANGED <<tables, place, scope>>
    BY <1>7 DEF Declaration
  <2>2. SigOf(n) \in Funs(scope)
    BY <1>2, <1>4, <1>7 DEF HasFunction, SigOf, Funs
  <2>3. f \in Names(scope)
    <3>1. Signature(f, formatted)[1] = f
      BY DEF Signature
    <3> QED BY <1>2, <1>7, <3>1 DEF HasFunction, TableOK, Names
  <2>4. LinkOK(n)
    BY <1>4, <2>2, <2>3 DEF LinkOK
  <2>5. InClass'
    BY <2>1 DEF LInv, InClass, IsClass
  <2> QED BY <1>1, <1>4, <1>5, <1>6, <2>1, <2>4, <2>5, OnlySeen DEF InClasses
<1>8. CASE ~ HasFunction(tables[scope], f, formatted)
  <2>1. PICK s, k : /\ FunctionAdded(f, s, Append(scope, k), {})
                    /\ s.params = formatted
                    /\ scope' = Append(scope, k) /\ place' = "declaration"
    BY <1>8, DeclarationStep
  <2>2. PICK q : q = Append(scope, k)
    OBVIOUS
  <2>3. ~ Shallow(q) /\ q # <<>> /\ (\A c : q # <<c>>) /\ FunctionAdded(f, s, q, {}) /\ scope' = q
    BY <1>1, <2>1, <2>2, NotShallow
  <2> DEFINE sigs == {SigOf(n)}
  <2>4. Grown(scope, {f}, {Signature(f, s.params)}, {})
    BY <2>3, FunctionGrows
  <2>5. Grown(scope, {f}, sigs, {}) /\ sigs = {SigOf(n)}
    BY <1>4, <2>1, <2>4 DEF SigOf
  <2> HIDE DEF sigs
  <2>6. Shallow(scope)
    BY <1>1 DEF Shallow
  <2>7. (f \in Names(n.in))' /\ (SigOf(n) \in Funs(n.in))'
    BY <1>4, <2>5, <2>6 DEF Grown, SigOf
  <2>8. LinkOK(n)'
    BY <1>4, <2>7 DEF LinkOK
  <2>9. SeenOK' /\ Linked' /\ Sourced'
    <3> DEFINE none == {}
               names == {f}
    <3>1. none = {} /\ Grown(scope, names, sigs, none)
      BY <2>5
    <3>2. IsSource(n, scope)
      BY <1>2, <1>4 DEF IsSource
    <3>3. \A e \in Entries : e.what # "method"
      BY <1>1 DEF LInv, ClassPhase, Members
    <3> HIDE DEF none, names
    <3> QED BY <1>5, <1>6, <2>5, <2>8, <3>1, <3>2, <3>3, SeenAndLinked
  <2>10. DOMAIN tables' = DOMAIN tables \cup {q} /\ OthersStay({scope, q})
    BY <2>3 DEF FunctionAdded
  <2>11. ClassPhase'
    BY <1>1, <1>4, <1>5, <2>3, <2>5, <2>10, MemberPhase
  <2>12. <<>> \in DOMAIN tables' /\ GlobalStays
    BY <1>2, <2>3, <2>10, BelowGlobal
  <2>13. ClassesAreSeen' /\ \A c : IsClass(c)' <=> IsClass(c)
    BY <1>5, <2>12, GlobalKeeps DEF LInv
  <2>14. q = <<scope[1], k>>
    BY <1>1, <2>2, Paths
  <2>15. q[1] = scope[1]
    BY <2>14
  <2>16. scope[1] \in ClassNames /\ IsClass(scope[1])
    BY <1>1 DEF LInv, InClass
  <2>17. InClass'
    BY <2>3, <2>13, <2>15, <2>16 DEF InClass
  <2> QED BY <2>9, <2>11, <2>13, <2>17 DEF LInv
<1> QED BY <1>7, <1>8

\* A symbol that is added below the table of a class, or in the body of a function.
LEMMA QuietVariable ==
  ASSUME IInv, LInv, scope # <<>>, NEW x, NEW s, VariableAdded(x, s), UNCHANGED <<seen, scope, place>>,
         place = "declaration" \/ ~ InClasses
  PROVE  LInv'
<1>1. /\ DOMAIN tables' = DOMAIN tables \cup {scope} /\ OthersStay({scope, scope})
      /\ DOMAIN tables' = DOMAIN tables
  BY DEF VariableAdded, OthersStay, IInv
<1>2. <<>> \in DOMAIN tables' /\ GlobalStays
  BY <1>1, BelowGlobal
<1>3. Entries' = Entries
  BY DEF Entries
<1>4. SeenOK'
  BY <1>3 DEF LInv, SeenOK, EntryOK
<1>5. Grown(scope, {x}, {}, {})
  BY VariableGrows
<1>6. Linked' /\ Sourced'
  <2> DEFINE New == {}
             names == {x}
  <2>1. /\ Entries' = Entries \cup New /\ (\A e \in New : LinkOK(e)')
        /\ New = {} /\ (\A sig \in New : \E e \in New : SigOf(e) = sig /\ IsSource(e, scope))
        /\ scope # <<>> => \A sig \in New :
             \E e \in New : SigOf(e) = sig /\ e.what = "method" /\ e.in = scope
        /\ Grown(scope, names, New, New)
    BY <1>3, <1>5
  <2> HIDE DEF New, names
  <2> QED BY <2>1, LinksGrow DEF LInv
<1>7. ClassesAreSeen' /\ Names(<<>>)' = Names(<<>>) /\ \A c : IsClass(c)' <=> IsClass(c)
  BY <1>2, <1>3, GlobalKeeps DEF LInv
<1>8. InClass'
  BY <1>7 DEF InClass, LInv
<1>9. ClassPhase'
  <2>1. CASE ~ InClasses
    BY <2>1 DEF ClassPhase, InClasses
  <2>2. CASE place = "declaration"
    <3>1. InClasses /\ scope = <<scope[1], scope[2]>>
      BY <2>2 DEF IInv, ScopeFits, InClasses
    <3>2. \A k : scope # <<k>>
      <4>1. \A k : Len(<<k>>) = 1
        OBVIOUS
      <4>2. Len(<<scope[1], scope[2]>>) = 2
        OBVIOUS
      <4> QED BY <3>1, <4>1, <4>2
    <3>3. \A k : Names(<<k>>)' = Names(<<k>>)
      BY <1>5, <3>2, OnePath DEF Grown
    <3>4. \A e \in Entries' : e.what = "class" \/ e.what \in Members
      BY <1>3, <3>1 DEF LInv, ClassPhase
    <3>5. \A k : <<k>> \in DOMAIN tables' => k \in Names(<<>>)'
      BY <1>1, <1>7, <3>1 DEF LInv, ClassPhase
    <3>6. \A k \in Names(<<>>)' : \E e \in Entries' : e.what = "class" /\ e.name = k
      BY <1>3, <1>7, <3>1 DEF LInv, ClassPhase
    <3>7. ASSUME NEW k, NEW y \in Names(<<k>>)'
          PROVE  \E e \in Entries' : e.what \in Members /\ e.in = <<k>> /\ e.name = y
      BY <1>3, <3>1, <3>3, <3>7 DEF LInv, ClassPhase
    <3> QED BY <3>4, <3>5, <3>6, <3>7 DEF ClassPhase
  <2> QED BY <2>1, <2>2
<1> QED BY <1>4, <1>6, <1>7, <1>8, <1>9 DEF LInv

LEMMA LocalLinks ==
  ASSUME IInv, LInv, NEW x, NEW t, NEW d, LocalVariable(x, t, d)
  PROVE  LInv'
<1>1. /\ AddVariable("local", x, t, d, visibility) /\ UNCHANGED <<scope, place>> /\ InBody
      /\ ~ InClasses /\ place \notin {"class", "declaration"}
  BY DEF LocalVariable, InBody, InClasses
<1>2. scope # <<>>
  BY <1>1, Paths DEF IInv, ScopeFits, InBody
<1>3. PICK s : VariableVisited("local", x, d, s)
  BY <1>1, VariableStep
<1>4. VariableAdded(x, s) /\ Noticed("local", x, <<>>, <<d>>, <<>>)
  BY <1>3 DEF VariableVisited
<1>5. PICK n : n = Entry("local", x, <<>>, <<d>>, <<>>)
  OBVIOUS
<1>6. n.what = "local"
  BY <1>5, EntryFields
<1>7. SeenIs(n) /\ Entries' = Entries \cup {n}
  BY <1>4, <1>5, SeenGrows DEF LInv, SeenOK, SeenIs
<1>8. EntryOK(n) /\ LinkOK(n)'
  BY <1>6 DEF EntryOK, LinkOK, Members
<1>9. Grown(scope, {x}, {}, {})
  BY <1>4, VariableGrows
<1>10. SeenOK' /\ Linked' /\ Sourced'
  <2> DEFINE none == {}
             names == {x}
  <2>1. none = {} /\ Grown(scope, names, none, none)
    BY <1>9
  <2> HIDE DEF none, names
  <2> QED BY <1>7, <1>8, <2>1, SeenAndLinked
<1>11. ClassPhase' /\ InClass'
  BY <1>1 DEF ClassPhase, InClass, InClasses
<1>12. DOMAIN tables' = DOMAIN tables \cup {scope} /\ OthersStay({scope, scope})
  BY <1>4 DEF VariableAdded, OthersStay, IInv
<1>13. <<>> \in DOMAIN tables' /\ GlobalStays
  BY <1>2, <1>12, BelowGlobal
<1>14. ClassesAreSeen'
  BY <1>7, <1>13, GlobalKeeps DEF LInv
<1> QED BY <1>10, <1>11, <1>14 DEF LInv

LEMMA MethodLinks ==
  ASSUME IInv, LInv, NEW f, NEW ps, NEW t, EnterMethod(f, ps, t)
  PROVE  LInv'
<1> DEFINE formatted == Formatted(ps)
<1>1. /\ Noticed("method", f, formatted, DimsOf(ps), <<>>) /\ place = "implementation"
      /\ scope = <<scope[1]>> /\ place' \in {"implementation", "method"}
  BY DEF EnterMethod, IInv, ScopeFits
<1>2. scope # <<>> /\ Shallow(scope)
  BY <1>1, Paths DEF Shallow
<1>3. PICK n : n = Entry("method", f, formatted, DimsOf(ps), <<>>)
  OBVIOUS
<1>4. n.what = "method" /\ n.in = scope /\ n.name = f /\ n.params = formatted
  BY <1>3, EntryFields
<1>5. SeenIs(n) /\ Entries' = Entries \cup {n}
  BY <1>1, <1>3, SeenGrows DEF LInv, SeenOK, SeenIs
<1>6. EntryOK(n) /\ InClass' /\ ClassPhase' /\ ~ InClasses'
  BY <1>1, <1>4 DEF EntryOK, Members, InClass, ClassPhase, InClasses
<1>7. CASE ~ HasFunction(tables[scope], f, formatted)
  <2>1. UNCHANGED tables
    BY <1>7 DEF EnterMethod
  <2>2. LinkOK(n)
    BY <1>4, <1>7 DEF LinkOK, Members, HasFunction, SigOf, Funs
  <2> QED BY <1>5, <1>6, <2>1, <2>2, OnlySeen
<1>8. CASE HasFunction(tables[scope], f, formatted)
  <2>1. PICK k : MethodDefined(Signature(f, formatted), Append(scope, k))
    BY <1>8, MethodStep
  <2>2. PICK q : q = Append(scope, k)
    OBVIOUS
  <2> DEFINE sigs == {Signature(f, formatted)}
  <2>3. q # <<>> /\ MethodDefined(Signature(f, formatted), q)
    BY <1>1, <2>1, <2>2, NotShallow
  <2>4. Grown(scope, {}, {}, sigs) /\ sigs = {SigOf(n)}
    BY <1>4, <2>3, MethodGrows DEF SigOf
  <2> HIDE DEF sigs
  <2>5. (SigOf(n) \in Defs(n.in))'
    BY <1>2, <1>4, <2>4 DEF Grown, SigOf
  <2>6. LinkOK(n)'
    BY <1>4, <2>5 DEF LinkOK, Members
  <2>7. SeenOK' /\ Linked' /\ Sourced'
    <3> DEFINE none == {}
    <3>1. none = {} /\ Grown(scope, none, none, sigs)
      BY <2>4
    <3> HIDE DEF none
    <3> QED BY <1>4, <1>5, <1>6, <2>4, <2>6, <3>1, SeenAndLinked
  <2>8. <<>> \in DOMAIN tables' /\ GlobalStays
    BY <1>2, <2>3, BelowGlobal DEF MethodDefined
  <2>9. ClassesAreSeen'
    BY <1>5, <2>8, GlobalKeeps DEF LInv
  <2> QED BY <1>6, <2>7, <2>9 DEF LInv
<1> QED BY <1>7, <1>8

LEMMA FunctionLinks ==
  ASSUME IInv, LInv, NEW f \in FunctionNames, NEW ps \in ParamLists, NEW t, EnterFunction(f, ps, t)
  PROVE  LInv'
<1> DEFINE formatted == Formatted(ps)
<1>1. /\ Noticed("function", f, formatted, DimsOf(ps), <<>>) /\ place = "functions"
      /\ scope = <<>> /\ place' \in {"functions", "function"}
  BY DEF EnterFunction, IInv, ScopeFits
<1>2. Shallow(scope) /\ <<>> \in DOMAIN tables
  BY <1>1 DEF Shallow, IInv, WellFormed, Nesting
<1>3. PICK n : n = Entry("function", f, formatted, DimsOf(ps), <<>>)
  OBVIOUS
<1>4. n.what = "function" /\ n.in = scope /\ n.name = f /\ n.params = formatted
  BY <1>3, EntryFields
<1>5. SeenIs(n) /\ Entries' = Entries \cup {n}
  BY <1>1, <1>3, SeenGrows DEF LInv, SeenOK, SeenIs
<1>6. EntryOK(n) /\ InClass' /\ ClassPhase' /\ ~ InClasses'
  BY <1>1, <1>4 DEF EntryOK, Members, InClass, ClassPhase, InClasses
<1>7. CASE HasFunction(tables[scope], f, formatted)
  <2>1. UNCHANGED tables
    BY <1>7 DEF EnterFunction
  <2>2. LinkOK(n)
    BY <1>1, <1>2, <1>4, <1>7 DEF LinkOK, Members, HasFunction, SigOf, Funs
  <2> QED BY <1>5, <1>6, <2>1, <2>2, OnlySeen
<1>8. CASE ~ HasFunction(tables[scope], f, formatted)
  <2> DEFINE D == {Signature(f, formatted)}
  <2>1. PICK s : /\ FunctionAdded(f, s, <<UniqueKey(f, formatted)>>, D)
                 /\ Kindled(<<UniqueKey(f, formatted)>>)
                 /\ s.kind = "FUNCTION" /\ s.params = formatted
    BY <1>8, FunctionStep
  <2>2. PICK q : q = <<UniqueKey(f, formatted)>>
    OBVIOUS
  <2>3. FunctionAdded(f, s, q, D) /\ Kindled(q) /\ D = {SigOf(n)} /\ q # <<>>
    BY <1>4, <2>1, <2>2, Paths DEF SigOf
  <2> HIDE DEF D
  <2>4. Grown(scope, {f}, {Signature(f, s.params)}, D)
    BY <2>3, FunctionGrows
  <2>5. Grown(scope, {f}, D, D)
    BY <1>4, <2>1, <2>3, <2>4 DEF SigOf
  <2>6. (SigOf(n) \in Funs(<<>>))'
    BY <1>1, <1>2, <2>3, <2>5 DEF Grown, SigOf
  <2>7. LinkOK(n)'
    BY <1>4, <2>6 DEF LinkOK, Members
  <2>8. SeenOK' /\ Linked' /\ Sourced'
    <3> DEFINE names == {f}
    <3>1. Grown(scope, names, D, D)
      BY <2>5
    <3>2. IsSource(n, scope)
      BY <1>1, <1>4 DEF IsSource
    <3> HIDE DEF names
    <3> QED BY <1>1, <1>5, <1>6, <2>3, <2>7, <3>1, <3>2, SeenAndLinked
  <2>9. /\ DOMAIN tables'[<<>>].syms = DOMAIN tables[<<>>].syms \cup {f}
        /\ \A y \in DOMAIN tables[<<>>].syms \ {f} : tables'[<<>>].syms[y] = tables[<<>>].syms[y]
        /\ tables'[<<>>].syms[f].kind = "FUNCTION"
    BY <1>1, <2>1, <2>3 DEF FunctionAdded, WithFunction
  <2>10. <<>> \in DOMAIN tables'
    BY <1>2, <2>3 DEF FunctionAdded
  <2>11. ClassesAreSeen'
    <3>1. SUFFICES ASSUME NEW y \in Names(<<>>)', IsClass(y)'
                   PROVE  \E e \in Entries' : e.what = "class" /\ e.name = y
      BY DEF ClassesAreSeen
    <3>2. y # f
      BY <2>9, <3>1 DEF IsClass
    <3>3. y \in Names(<<>>) /\ IsClass(y)
      BY <1>2, <2>9, <2>10, <3>1, <3>2 DEF IsClass, Names
    <3> QED BY <1>5, <3>3 DEF LInv, ClassesAreSeen
  <2> QED BY <1>6, <2>8, <2>11 DEF LInv
<1> QED BY <1>7, <1>8

LEMMA LinksKept ==
  ASSUME IInv, LInv, [Next]_vars
  PROVE  LInv'
<1>1. ASSUME DeclaredParam
      PROVE  LInv'
  <2>1. PICK x, s : VariableAdded(x, s)
    BY <1>1, DeclaredParamStep
  <2>2. UNCHANGED <<seen, scope, place>> /\ place = "declaration" /\ scope # <<>>
    BY <1>1, Paths DEF DeclaredParam, IInv, ScopeFits
  <2> QED BY <2>1, <2>2, QuietVariable
<1>2. ASSUME UNCHANGED <<tables, seen>>, InClasses' => InClasses, InClass'
      PROVE  LInv'
  <2>1. Grown(<<>>, {}, {}, {}) /\ <<>> \in DOMAIN tables' /\ GlobalStays
    BY <1>2, NotGrown, NoTableChanged
  <2> QED BY <1>2, <2>1, NothingSeen
<1>3. ASSUME Param
      PROVE  LInv'
  <2>1. UNCHANGED <<seen, scope, place>> /\ ~ InClasses /\ scope # <<>> /\ ~ InClasses' /\ InClass'
    BY <1>3, Paths DEF Param, IInv, ScopeFits, InBody, InClasses, InClass
  <2>2. CASE tables[scope].scope = "function"
    <3>1. PICK s : VariableAdded(Head(pending).name, s)
      BY <1>3, <2>2, ParamStep
    <3> QED BY <2>1, <3>1, QuietVariable
  <2>3. CASE tables[scope].scope # "function"
    <3>1. UNCHANGED tables
      BY <1>3, <2>3 DEF Param
    <3> QED BY <1>2, <2>1, <3>1
  <2> QED BY <2>2, <2>3
<1>4. ASSUME NEW c, EnterImplementation(c)
      PROVE  LInv'
  <2>1. Noticed("implementation", c, <<>>, <<>>, <<>>) /\ UNCHANGED tables /\ InClass' /\ ~ InClasses'
    BY <1>4 DEF EnterImplementation, InClass, InClasses
  <2>2. PICK n : n = Entry("implementation", c, <<>>, <<>>, <<>>)
    OBVIOUS
  <2>3. n.what = "implementation" /\ SeenIs(n)
    BY <2>1, <2>2, EntryFields, SeenGrows DEF LInv, SeenOK
  <2>4. EntryOK(n) /\ LinkOK(n)
    BY <2>3 DEF EntryOK, LinkOK, Members
  <2> QED BY <2>1, <2>3, <2>4, OnlySeen
<1>5. ASSUME \/ LeaveDeclaration \/ LeaveClass \/ StartImplementations \/ LeaveImplementation
             \/ StartFunctions \/ LeaveFunction \/ Finish
      PROVE  LInv'
  <2>1. UNCHANGED <<tables, seen>> /\ (InClasses' => InClasses)
    BY <1>5 DEF LeaveDeclaration, LeaveClass, StartImplementations, LeaveImplementation,
                StartFunctions, LeaveFunction, Finish, InBody, InClasses
  <2>2. InClass'
    <3>1. CASE LeaveDeclaration
      <4>1. scope = <<scope[1], scope[2]>> /\ scope' = Parent(scope) /\ place = "declaration"
        BY <3>1 DEF LeaveDeclaration, IInv, ScopeFits
      <4>2. scope' = <<scope[1]>>
        BY <4>1, Paths
      <4> QED BY <2>1, <4>1, <4>2, OnePath DEF InClass, LInv, IsClass
    <3>2. CASE ~ LeaveDeclaration
      BY <1>5, <3>2 DEF LeaveClass, StartImplementations, LeaveImplementation, StartFunctions,
                        LeaveFunction, Finish, InBody, InClass
    <3> QED BY <3>1, <3>2
  <2> QED BY <1>2, <2>1, <2>2
<1>6. ASSUME UNCHANGED vars
      PROVE  LInv'
  BY <1>2, <1>6 DEF vars, InClasses, InClass, LInv, IsClass
<1> QED BY <1>1, <1>3, <1>4, <1>5, <1>6, ClassLinks, AttributeLinks, DeclarationLinks, LocalLinks,
           MethodLinks, FunctionLinks DEF Next

LEMMA LinksAtFirst == Init => LInv
<1> SUFFICES ASSUME Init PROVE LInv
  OBVIOUS
<1>1. DOMAIN tables = {<<>>} /\ tables[<<>>] = EmptyTable("global", <<>>)
      /\ place = "classes" /\ seen = <<>>
  BY DEF Init
<1>2. DOMAIN tables[<<>>].syms = {} /\ DOMAIN tables[<<>>].funs = {} /\ tables[<<>>].defined = {}
  BY <1>1, EmptyFields
<1>3. \A p : Names(p) = {} /\ Funs(p) = {} /\ Defs(p) = {}
  BY <1>1, <1>2 DEF Names, Funs, Defs
<1>4. Entries = {} /\ IsList(seen)
  <2>1. seen \in Seq({}) /\ DOMAIN seen = {}
    BY <1>1
  <2> QED BY <2>1 DEF Entries, IsList
<1>5. \A k : <<k>> \notin DOMAIN tables
  BY <1>1, Paths
<1>6. SeenOK /\ Linked /\ Sourced
  BY <1>3, <1>4 DEF SeenOK, Linked, Sourced
<1>7. ClassPhase /\ InClass /\ ClassesAreSeen
  BY <1>1, <1>3, <1>4, <1>5 DEF ClassPhase, InClass, ClassesAreSeen
<1> QED BY <1>6, <1>7 DEF LInv

\* What is in a table comes from a declaration, and what was declared is in its table.
THEOREM TablesFollowDeclarations == Spec => []LInv
<1>1. IInv /\ LInv /\ [Next]_vars => LInv'
  BY LinksKept
<1> QED BY <1>1, LinksAtFirst, ScopesAreSound, PTL DEF Spec

-----------------------------------------------------------------------------

(***************************************************************************)
(* Classes stay classes, and inherit from those before them.               *)
(***************************************************************************)

SeenStays == UNCHANGED seen \/ \E n : SeenIs(n)

\* What a step does to the global table.
LEMMA GlobalStep ==
  ASSUME IInv, LInv, [Next]_vars
  PROVE  \/ <<>> \in DOMAIN tables' /\ GlobalStays /\ SeenStays
         \/ \E c \in ClassNames, ps \in ParentLists :
              EnterClass(c, ps) /\ c \notin DOMAIN tables[<<>>].syms
         \/ \E f \in FunctionNames, ps \in ParamLists, t \in Types :
              EnterFunction(f, ps, t) /\ ~ HasFunction(tables[scope], f, Formatted(ps))
<1> DEFINE Quiet == <<>> \in DOMAIN tables' /\ GlobalStays /\ SeenStays
<1>0. IsList(seen)
  BY DEF LInv, SeenOK
<1>1. ASSUME UNCHANGED tables, SeenStays
      PROVE  Quiet
  BY <1>1, NoTableChanged
<1>2. ASSUME NEW x, NEW s, VariableAdded(x, s), scope # <<>>, SeenStays
      PROVE  Quiet
  <2>1. DOMAIN tables' = DOMAIN tables \cup {scope} /\ OthersStay({scope, scope})
    BY <1>2 DEF VariableAdded, OthersStay, IInv
  <2> QED BY <1>2, <2>1, BelowGlobal
<1>3. ASSUME NEW c, NEW ps, EnterClass(c, ps), c \in DOMAIN tables[<<>>].syms
      PROVE  Quiet
  <2>1. UNCHANGED tables /\ Noticed("class", c, <<>>, <<>>, ps)
    BY <1>3 DEF EnterClass
  <2> QED BY <1>0, <1>1, <2>1, SeenGrows DEF SeenStays
<1>4. ASSUME NEW v, NEW x, NEW t, NEW d, Attribute(v, x, t, d) \/ LocalVariable(x, t, d)
      PROVE  Quiet
  <2>1. PICK what, vis : AddVariable(what, x, t, d, vis)
    BY <1>4 DEF Attribute, LocalVariable
  <2>2. PICK s : VariableVisited(what, x, d, s)
    BY <2>1, VariableStep
  <2>3. VariableAdded(x, s) /\ SeenStays
    BY <1>0, <2>2, SeenGrows DEF VariableVisited, SeenStays
  <2>4. scope # <<>>
    BY <1>4, Paths DEF Attribute, LocalVariable, InBody, IInv, ScopeFits
  <2> QED BY <1>2, <2>3, <2>4
<1>5. ASSUME NEW v, NEW f, NEW ps, NEW t, Declaration(v, f, ps, t)
      PROVE  Quiet
  <2>1. Noticed("declaration", f, Formatted(ps), DimsOf(ps), <<>>) /\ scope = <<scope[1]>>
    BY <1>5 DEF Declaration, IInv, ScopeFits
  <2>2. SeenStays /\ scope # <<>>
    BY <1>0, <2>1, SeenGrows, Paths DEF SeenStays
  <2>3. CASE HasFunction(tables[scope], f, Formatted(ps))
    <3>1. UNCHANGED tables
      BY <1>5, <2>3 DEF Declaration
    <3> QED BY <1>1, <2>2, <3>1
  <2>4. CASE ~ HasFunction(tables[scope], f, Formatted(ps))
    <3>1. PICK s, k : FunctionAdded(f, s, Append(scope, k), {})
      BY <1>5, <2>4, DeclarationStep
    <3>2. PICK q : q = Append(scope, k)
      OBVIOUS
    <3>3. q # <<>>
      BY <2>1, <3>2, NotShallow
    <3> QED BY <2>2, <3>1, <3>2, <3>3, BelowGlobal DEF FunctionAdded
  <2> QED BY <2>3, <2>4
<1>6. ASSUME DeclaredParam
      PROVE  Quiet
  <2>1. PICK x, s : VariableAdded(x, s)
    BY <1>6, DeclaredParamStep
  <2>2. scope # <<>> /\ SeenStays
    BY <1>6, Paths DEF DeclaredParam, IInv, ScopeFits, SeenStays
  <2> QED BY <1>2, <2>1, <2>2
<1>7. ASSUME NEW f, NEW ps, NEW t, EnterMethod(f, ps, t)
      PROVE  Quiet
  <2>1. Noticed("method", f, Formatted(ps), DimsOf(ps), <<>>) /\ scope = <<scope[1]>>
    BY <1>7 DEF EnterMethod, IInv, ScopeFits
  <2>2. SeenStays /\ scope # <<>>
    BY <1>0, <2>1, SeenGrows, Paths DEF SeenStays
  <2>3. CASE ~ HasFunction(tables[scope], f, Formatted(ps))
    <3>1. UNCHANGED tables
      BY <1>7, <2>3 DEF EnterMethod
    <3> QED BY <1>1, <2>2, <3>1
  <2>4. CASE HasFunction(tables[scope], f, Formatted(ps))
    <3>1. PICK k : MethodDefined(Signature(f, Formatted(ps)), Append(scope, k))
      BY <1>7, <2>4, MethodStep
    <3>2. PICK q : q = Append(scope, k)
      OBVIOUS
    <3>3. q # <<>>
      BY <2>1, <3>2, NotShallow
    <3> QED BY <2>2, <3>1, <3>2, <3>3, BelowGlobal DEF MethodDefined
  <2> QED BY <2>3, <2>4
<1>8. ASSUME NEW f, NEW ps, NEW t, EnterFunction(f, ps, t),
             HasFunction(tables[scope], f, Formatted(ps))
      PROVE  Quiet
  <2>1. UNCHANGED tables /\ Noticed("function", f, Formatted(ps), DimsOf(ps), <<>>)
    BY <1>8 DEF EnterFunction
  <2> QED BY <1>0, <1>1, <2>1, SeenGrows DEF SeenStays
<1>9. ASSUME Param
      PROVE  Quiet
  <2>1. UNCHANGED seen /\ scope # <<>>
    BY <1>9, Paths DEF Param, IInv, ScopeFits, InBody
  <2>2. CASE tables[scope].scope = "function"
    <3>1. PICK s : VariableAdded(Head(pending).name, s)
      BY <1>9, <2>2, ParamStep
    <3> QED BY <1>2, <2>1, <3>1 DEF SeenStays
  <2>3. CASE tables[scope].scope # "function"
    <3>1. UNCHANGED tables
      BY <1>9, <2>3 DEF Param
    <3> QED BY <1>1, <2>1, <3>1 DEF SeenStays
  <2> QED BY <2>2, <2>3
<1>10. ASSUME NEW c, EnterImplementation(c)
       PROVE  Quiet
  <2>1. UNCHANGED tables /\ Noticed("implementation", c, <<>>, <<>>, <<>>)
    BY <1>10 DEF EnterImplementation
  <2> QED BY <1>0, <1>1, <2>1, SeenGrows DEF SeenStays
<1>11. ASSUME \/ LeaveDeclaration \/ LeaveClass \/ StartImplementations \/ LeaveImplementation
              \/ StartFunctions \/ LeaveFunction \/ Finish \/ UNCHANGED vars
       PROVE  Quiet
  <2>1. UNCHANGED <<tables, seen>>
    BY <1>11 DEF LeaveDeclaration, LeaveClass, StartImplementations, LeaveImplementation,
                 StartFunctions, LeaveFunction, Finish, vars
  <2> QED BY <1>1, <2>1 DEF SeenStays
<1> HIDE DEF Quiet
<1>12. \/ Quiet
       \/ \E c \in ClassNames, ps \in ParentLists :
            EnterClass(c, ps) /\ c \notin DOMAIN tables[<<>>].syms
       \/ \E f \in FunctionNames, ps \in ParamLists, t \in Types :
            EnterFunction(f, ps, t) /\ ~ HasFunction(tables[scope], f, Formatted(ps))
  BY <1>3, <1>4, <1>5, <1>6, <1>7, <1>8, <1>9, <1>10, <1>11 DEF Next
<1> QED BY <1>12 DEF Quiet

\* The first declaration of a class.
FirstClass(c, i) ==
  /\ i \in DOMAIN seen /\ seen[i].what = "class" /\ seen[i].name = c
  /\ \A j \in 1 .. i - 1 : ~ (seen[j].what = "class" /\ seen[j].name = c)

LEMMA SeenDomain ==
  ASSUME IsList(seen)
  PROVE  Len(seen) \in Nat /\ DOMAIN seen = 1 .. Len(seen) /\ DOMAIN seen \subseteq Nat
BY DEF IsList

LEMMA FirstClassIs ==
  ASSUME IsList(seen), NEW c, NEW i, FirstClass(c, i)
  PROVE  ClassAt(c) = i
<1>1. DOMAIN seen \subseteq Nat /\ DOMAIN seen = 1 .. Len(seen) /\ Len(seen) \in Nat
  BY SeenDomain
<1>2. \A k : FirstClass(c, k) => k = i
  <2>1. SUFFICES ASSUME NEW k, FirstClass(c, k) PROVE k = i
    OBVIOUS
  <2>2. k \in Nat /\ i \in Nat /\ k >= 1 /\ i >= 1
    BY <1>1, <2>1 DEF FirstClass
  <2>3. ~ (k < i) /\ ~ (i < k)
    BY <2>1, <2>2 DEF FirstClass
  <2> QED BY <2>2, <2>3
<1>3. ClassAt(c) = CHOOSE k \in DOMAIN seen :
                     /\ seen[k].what = "class" /\ seen[k].name = c
                     /\ \A j \in 1 .. k - 1 : ~ (seen[j].what = "class" /\ seen[j].name = c)
  BY DEF ClassAt
<1>4. FirstClass(c, ClassAt(c))
  BY <1>3 DEF FirstClass
<1> QED BY <1>2, <1>4

LEMMA FirstClassExists ==
  ASSUME IsList(seen), NEW e \in Entries, e.what = "class"
  PROVE  \E i : FirstClass(e.name, i)
<1> DEFINE T == {i \in DOMAIN seen : seen[i].what = "class" /\ seen[i].name = e.name}
<1>1. DOMAIN seen = 1 .. Len(seen) /\ Len(seen) \in Nat /\ T \in SUBSET Nat /\ T # {}
  BY SeenDomain DEF Entries
<1>2. PICK i \in T : \A j \in T : i <= j
  <2> HIDE DEF T
  <2> QED BY <1>1, LeastNumber
<1>3. \A j \in 1 .. i - 1 : j \in DOMAIN seen /\ ~ (i <= j)
  BY <1>1, <1>2
<1>4. FirstClass(e.name, i)
  BY <1>2, <1>3 DEF FirstClass
<1> QED BY <1>4

LEMMA FirstClassStays ==
  ASSUME IsList(seen), SeenStays, NEW c, NEW i, FirstClass(c, i)
  PROVE  FirstClass(c, i)'
<1>1. CASE UNCHANGED seen
  BY <1>1 DEF FirstClass
<1>2. CASE \E n : SeenIs(n)
  <2>1. PICK n : SeenIs(n)
    BY <1>2
  <2>2. i \in 1 .. Len(seen) /\ i \in DOMAIN seen' /\ \A j \in 1 .. i : seen'[j] = seen[j]
    BY <2>1 DEF SeenIs, FirstClass
  <2>3. i \in Nat /\ i >= 1 /\ (1 .. i - 1) \subseteq (1 .. i) /\ i \in 1 .. i
    BY <2>1, <2>2 DEF SeenIs
  <2> QED BY <2>2, <2>3 DEF FirstClass
<1> QED BY <1>1, <1>2 DEF SeenStays

\* The parents of a class are that class or classes declared before it.
Before(p, c) == \E i, j : FirstClass(p, i) /\ FirstClass(c, j) /\ i < j

ParentsOK(c, ps) == \A p \in Range(ps) : p = c \/ (IsClass(p) /\ Before(p, c))

Ordered == \A c \in Names(<<>>) : IsClass(c) => ParentsOK(c, tables[<<>>].syms[c].parents)

LEMMA KnownAreClasses ==
  ASSUME NEW c, NEW ps \in ParentLists
  PROVE  \A p \in Range(Known(c, ps)) : p = c \/ IsClass(p)
<1> DEFINE S == {c} \cup {p \in DOMAIN tables[<<>>].syms : IsClass(p)}
<1>1. ps \in Seq(STRING)
  BY ListsAssumption
<1>2. \A k \in DOMAIN Kept(ps, S) : Kept(ps, S)[k] \in S
  BY <1>1, KeptElements
<1>3. Range(Known(c, ps)) = {Kept(ps, S)[k] : k \in DOMAIN Kept(ps, S)}
  BY DEF Range, Known
<1> QED BY <1>2, <1>3

LEMMA ParentsStay ==
  ASSUME IsList(seen), SeenStays, NEW c, NEW ps, ParentsOK(c, ps), \A p : IsClass(p) => IsClass(p)'
  PROVE  ParentsOK(c, ps)'
<1>1. \A p : Before(p, c) => Before(p, c)'
  <2>1. SUFFICES ASSUME NEW p, Before(p, c) PROVE Before(p, c)'
    OBVIOUS
  <2>2. PICK i, j : FirstClass(p, i) /\ FirstClass(c, j) /\ i < j
    BY <2>1 DEF Before
  <2>3. FirstClass(p, i)' /\ FirstClass(c, j)'
    BY <2>2, FirstClassStays
  <2> QED BY <2>2, <2>3 DEF Before
<1> QED BY <1>1 DEF ParentsOK

LEMMA OrderedKept ==
  ASSUME NamesApart, IInv, LInv, Ordered, [Next]_vars
  PROVE  Ordered'
<1>0. IsList(seen) /\ <<>> \in DOMAIN tables
  BY DEF LInv, SeenOK, IInv, WellFormed, Nesting
<1>1. CASE <<>> \in DOMAIN tables' /\ GlobalStays /\ SeenStays
  <2>1. Names(<<>>)' = Names(<<>>) /\ \A c : IsClass(c)' <=> IsClass(c)
    BY <1>1, GlobalKeeps
  <2>2. SUFFICES ASSUME NEW c \in Names(<<>>)', IsClass(c)'
                 PROVE  ParentsOK(c, tables[<<>>].syms[c].parents)'
    BY DEF Ordered
  <2>3. PICK ps : ps = tables[<<>>].syms[c].parents
    OBVIOUS
  <2>4. ParentsOK(c, ps)
    BY <2>1, <2>2, <2>3 DEF Ordered
  <2>5. ParentsOK(c, ps)'
    BY <1>0, <1>1, <2>1, <2>4, ParentsStay
  <2>6. ps = tables'[<<>>].syms[c].parents
    BY <1>1, <2>3 DEF GlobalStays
  <2> QED BY <2>5, <2>6 DEF ParentsOK
<1>2. ASSUME NEW c \in ClassNames, NEW ps \in ParentLists, EnterClass(c, ps),
             c \notin DOMAIN tables[<<>>].syms
      PROVE  Ordered'
  <2>1. PICK s : ClassAdded(c, s) /\ s.kind = "CLASS" /\ s.parents = Known(c, ps)
    BY <1>2, ClassStep
  <2>2. Noticed("class", c, <<>>, <<>>, ps)
    BY <1>2 DEF EnterClass
  <2>3. PICK n : n = Entry("class", c, <<>>, <<>>, ps)
    OBVIOUS
  <2>4. n.what = "class" /\ n.name = c /\ SeenIs(n)
    BY <1>0, <2>2, <2>3, EntryFields, SeenGrows
  <2>5. SeenStays
    BY <2>4 DEF SeenStays
  <2>6. /\ tables'[<<>>].syms[c] = s /\ DOMAIN tables'[<<>>].syms = DOMAIN tables[<<>>].syms \cup {c}
        /\ \A y \in DOMAIN tables[<<>>].syms : tables'[<<>>].syms[y] = tables[<<>>].syms[y]
        /\ <<>> \in DOMAIN tables'
    BY <1>0, <1>2, <2>1 DEF ClassAdded, WithSymbol
  <2>7. \A p : IsClass(p) => IsClass(p)'
    BY <2>6 DEF IsClass
  <2>8. PICK l : l = Len(seen')
    OBVIOUS
  <2>12. FirstClass(c, l)'
    <3>1. \A i \in 1 .. Len(seen) : ~ (seen[i].what = "class" /\ seen[i].name = c)
      BY <1>2, <2>4, <1>0 DEF LInv, Linked, LinkOK, Entries, Names, SeenIs
    <3>2. \A j \in 1 .. l - 1 : j \in 1 .. Len(seen) /\ seen'[j] = seen[j]
      BY <2>4, <2>8 DEF SeenIs
    <3>3. l \in DOMAIN seen' /\ seen'[l] = n
      BY <2>4, <2>8 DEF SeenIs
    <3> QED BY <2>4, <3>1, <3>2, <3>3 DEF FirstClass
  <2>9. SUFFICES ASSUME NEW y \in Names(<<>>)', IsClass(y)'
                 PROVE  ParentsOK(y, tables[<<>>].syms[y].parents)'
    BY DEF Ordered
  <2>10. CASE y # c
    <3>1. PICK qs : qs = tables[<<>>].syms[y].parents
      OBVIOUS
    <3>2. y \in Names(<<>>) /\ IsClass(y) /\ tables'[<<>>].syms[y].parents = qs
      BY <1>0, <2>6, <2>9, <2>10, <3>1 DEF Names, IsClass
    <3>3. ParentsOK(y, qs)
      BY <3>1, <3>2 DEF Ordered
    <3>4. ParentsOK(y, qs)'
      BY <1>0, <2>5, <2>7, <3>3, ParentsStay
    <3> QED BY <3>2, <3>4 DEF ParentsOK
  <2>11. CASE y = c
    <3>1. PICK qs : qs = Known(c, ps)
      OBVIOUS
    <3>2. tables'[<<>>].syms[c].parents = qs
      BY <2>1, <2>6, <3>1
    <3>3. ASSUME NEW p \in Range(qs), p # c
          PROVE  IsClass(p)' /\ Before(p, c)'
      <4>1. IsClass(p)
        BY <3>1, <3>3, KnownAreClasses
      <4>2. p \in Names(<<>>)
        BY <1>0, <4>1 DEF Names, IsClass
      <4>3. PICK e \in Entries : e.what = "class" /\ e.name = p
        BY <4>1, <4>2 DEF LInv, ClassesAreSeen
      <4>4. PICK i : FirstClass(p, i)
        BY <1>0, <4>3, FirstClassExists
      <4>5. FirstClass(p, i)'
        BY <1>0, <2>5, <4>4, FirstClassStays
      <4>6. i < l
        BY <2>4, <2>8, <4>4 DEF FirstClass, SeenIs
      <4>7. Before(p, c)'
        BY <2>12, <4>5, <4>6 DEF Before
      <4> QED BY <2>7, <4>1, <4>7
    <3> QED BY <2>11, <3>2, <3>3 DEF ParentsOK
  <2> QED BY <2>10, <2>11
<1>3. ASSUME NEW f \in FunctionNames, NEW ps \in ParamLists, NEW t, EnterFunction(f, ps, t),
             ~ HasFunction(tables[scope], f, Formatted(ps))
      PROVE  Ordered'
  <2>1. PICK s : /\ FunctionAdded(f, s, <<UniqueKey(f, Formatted(ps))>>, {Signature(f, Formatted(ps))})
                 /\ s.kind = "FUNCTION" /\ scope = <<>>
    BY <1>3, FunctionStep
  <2>2. /\ DOMAIN tables'[<<>>].syms = DOMAIN tables[<<>>].syms \cup {f}
        /\ \A y \in DOMAIN tables[<<>>].syms \ {f} : tables'[<<>>].syms[y] = tables[<<>>].syms[y]
        /\ tables'[<<>>].syms[f].kind = "FUNCTION" /\ <<>> \in DOMAIN tables'
    BY <1>0, <2>1 DEF FunctionAdded, WithFunction
  <2>3. SeenStays
    BY <1>0, <1>3, SeenGrows DEF EnterFunction, SeenStays
  <2>4. \A p : IsClass(p) => p # f
    <3>1. SUFFICES ASSUME NEW p, IsClass(p) PROVE p # f
      OBVIOUS
    <3>2. PICK e \in Entries : e.what = "class" /\ e.name = p
      BY <1>0, <3>1 DEF LInv, ClassesAreSeen, Names, IsClass
    <3>3. p \in ClassNames
      BY <3>2 DEF LInv, SeenOK, EntryOK
    <3> QED BY <3>3 DEF NamesApart
  <2>5. \A p : IsClass(p) => IsClass(p)'
    BY <2>2, <2>4 DEF IsClass
  <2>6. SUFFICES ASSUME NEW y \in Names(<<>>)', IsClass(y)'
                 PROVE  ParentsOK(y, tables[<<>>].syms[y].parents)'
    BY DEF Ordered
  <2>7. y # f
    BY <2>2, <2>6 DEF IsClass
  <2>8. PICK qs : qs = tables[<<>>].syms[y].parents
    OBVIOUS
  <2>9. y \in Names(<<>>) /\ IsClass(y) /\ tables'[<<>>].syms[y].parents = qs
    BY <1>0, <2>2, <2>6, <2>7, <2>8 DEF Names, IsClass
  <2>10. ParentsOK(y, qs)
    BY <2>8, <2>9 DEF Ordered
  <2>11. ParentsOK(y, qs)'
    BY <1>0, <2>3, <2>5, <2>10, ParentsStay
  <2> QED BY <2>9, <2>11 DEF ParentsOK
<1> QED BY <1>1, <1>2, <1>3, GlobalStep

LEMMA OrderedAtFirst == Init => Ordered
<1> SUFFICES ASSUME Init PROVE Ordered
  OBVIOUS
<1>1. <<>> \in DOMAIN tables /\ DOMAIN tables[<<>>].syms = {}
  BY EmptyFields DEF Init
<1> QED BY <1>1 DEF Ordered, Names

\* In every program whose functions have other names than its classes, a search through
\* the parents of a class meets no cycle but that of a class that is its own parent,
\* and every array has a size.
THEOREM SymbolsStayUsable ==
  ASSUME NamesApart
  PROVE  Spec => []SymbolsAreUsable
<1>1. IInv /\ LInv /\ Ordered /\ [Next]_vars => Ordered'
  BY OrderedKept
<1>2. LInv /\ IInv /\ Ordered => InheritanceIsOrdered
  <2> SUFFICES ASSUME LInv, IInv, Ordered, NEW c \in DOMAIN tables[<<>>].syms, IsClass(c),
                      NEW p \in Range(tables[<<>>].syms[c].parents), p # c
               PROVE  IsClass(p) /\ ClassAt(p) < ClassAt(c)
    BY DEF InheritanceIsOrdered
  <2>1. IsList(seen) /\ c \in Names(<<>>)
    BY DEF LInv, SeenOK, IInv, WellFormed, Nesting, Names
  <2>2. IsClass(p) /\ Before(p, c)
    BY <2>1 DEF Ordered, ParentsOK
  <2>3. PICK i, j : FirstClass(p, i) /\ FirstClass(c, j) /\ i < j
    BY <2>2 DEF Before
  <2>4. ClassAt(p) = i /\ ClassAt(c) = j
    BY <2>1, <2>3, FirstClassIs
  <2> QED BY <2>2, <2>3, <2>4
<1>3. InheritanceIsOrdered /\ DimensionsAreUsable => SymbolsAreUsable
  BY DEF SymbolsAreUsable
<1> QED BY <1>1, <1>2, <1>3, OrderedAtFirst, ScopesAreSound, TablesFollowDeclarations,
           DimensionsStayUsable, PTL DEF Spec

-----------------------------------------------------------------------------

(***************************************************************************)
(* What is reported.                                                       *)
(***************************************************************************)

Kinds == {"class", "attribute", "declaration", "function", "local"}

Err(n) == Error(n.what, n.in, n.name)

\* The name or the signature that the declaration n brings is in the table of its scope.
Taken(n) ==
  IF n.what \in {"declaration", "function"} THEN SigOf(n) \in Funs(n.in) ELSE n.name \in Names(n.in)

\* What an error says of the dimensions, the parents or the class of the declaration n.
Unsized(n) == \E i \in DOMAIN n.dims : BadDims(n.dims[i])

HasParent(n, p) == \E i \in DOMAIN n.parents : n.parents[i] = p

Parts == {"dimension", "parent", "implementation"}

Broken(n, e) ==
  \/ e.what = "dimension" /\ Unsized(n) /\ n.in = e.in /\ n.name = e.name
  \/ /\ e.what = "parent" /\ n.what = "class" /\ e.in = <<n.name>>
     /\ e.name # n.name /\ HasParent(n, e.name)
  \/ e.what = "implementation" /\ n.what = "implementation" /\ n.in = e.in /\ n.name = e.name

\* The errors that the visit of the declaration n adds.
Reported(n) ==
  /\ errors \subseteq errors'
  /\ n.what \in Kinds /\ Taken(n) => Err(n) \in errors'
  /\ \A e \in errors' \ errors :
       \/ /\ e.what \in Parts /\ Broken(n, e)
          /\ e.what \in {"parent", "implementation"} => ~ IsClass(e.name)
       \/ e = Err(n) /\ n.what \in Kinds /\ Taken(n)
       \/ /\ n.what = "method" /\ SigOf(n) \notin Funs(n.in)
          /\ e.what = "undeclared" /\ e.in = n.in /\ e.name = n.name

\* The declaration n is visited.
Visit(n) ==
  /\ SeenIs(n) /\ EntryOK(n) /\ n.in = scope /\ Reported(n)
  /\ place # "done" /\ place' # "done"
  /\ n.what \in {"class"} \cup Members => InClasses
  /\ n.what \in Members => place = "class"
  /\ n.what = "local" => InBody /\ pending = <<>>
  /\ n.what = "implementation" => place = "implementations"

Quiet ==
  /\ UNCHANGED seen /\ errors \subseteq errors'
  /\ \A e \in errors' \ errors : e.what = "parameter" /\ Param
  /\ place' = "done" <=> place = "done"

LEMMA StaysKept ==
  ASSUME NEW A, NEW ps \in Seq(A), NEW S, NEW i \in DOMAIN ps, ps[i] \in S
  PROVE  ps[i] \in Range(Kept(ps, S))
<1>1. PICK r : r = Kept(ps, S)
  OBVIOUS
<1>2. Sifts(r, ps, S, Len(ps))
  BY <1>1, KeptSifts
<1>3. \E k \in DOMAIN r : r[k] = ps[i]
  BY <1>2 DEF Sifts
<1> QED BY <1>1, <1>3 DEF Range

\* The parents that are left out.
LEMMA UnknownParents ==
  ASSUME NEW c, NEW ps \in ParentLists, NEW p \in Range(ps) \ Range(Known(c, ps))
  PROVE  p # c /\ ~ IsClass(p) /\ \E i \in DOMAIN ps : ps[i] = p
<1>1. ps \in Seq(STRING)
  BY ListsAssumption
<1>2. PICK i \in DOMAIN ps : ps[i] = p
  BY DEF Range
<1>3. PICK S : S = {c} \cup {q \in DOMAIN tables[<<>>].syms : IsClass(q)}
  OBVIOUS
<1>4. p \notin S
  BY <1>1, <1>2, <1>3, StaysKept DEF Known
<1>5. IsClass(p) => p \in S
  BY <1>3 DEF IsClass
<1> QED BY <1>2, <1>3, <1>4, <1>5

\* The errors about the parameters of a function.
LEMMA BadParamsAre ==
  ASSUME NEW f, NEW ps, NEW e \in BadParams(f, ps)
  PROVE  /\ e.what = "dimension" /\ e.in = scope /\ e.name = f
         /\ \E i \in DOMAIN DimsOf(ps) : BadDims(DimsOf(ps)[i])
<1>1. e = Error("dimension", scope, f) /\ \E i \in DOMAIN ps : BadDims(ps[i].dims)
  BY DEF BadParams
<1>2. \E i \in DOMAIN DimsOf(ps) : BadDims(DimsOf(ps)[i])
  BY <1>1 DEF DimsOf
<1> QED BY <1>1, <1>2 DEF Error

LEMMA VisitStep ==
  ASSUME IInv, LInv, [Next]_vars
  PROVE  Quiet \/ Finish \/ \E n : Visit(n)
<1>0. IsList(seen) /\ scope \in DOMAIN tables
  BY DEF LInv, SeenOK, IInv
<1> DEFINE Goal == Quiet \/ Finish \/ \E n : Visit(n)
<1>1. ASSUME NEW c \in ClassNames, NEW ps \in ParentLists, EnterClass(c, ps)
      PROVE  Goal
  <2>1. scope = <<>> /\ place = "classes" /\ place' # "done" /\ Noticed("class", c, <<>>, <<>>, ps)
    BY <1>1 DEF EnterClass, IInv, ScopeFits
  <2>2. PICK n : n = Entry("class", c, <<>>, <<>>, ps)
    OBVIOUS
  <2>3. n.what = "class" /\ n.in = <<>> /\ n.name = c /\ n.parents = ps /\ SeenIs(n)
    BY <1>0, <2>1, <2>2, EntryFields, SeenGrows
  <2>4. Taken(n) <=> c \in DOMAIN tables[<<>>].syms
    BY <1>0, <2>1, <2>3 DEF Taken, Names
  <2>5. Reported(n)
    <3>1. CASE c \in DOMAIN tables[<<>>].syms
      <4>1. errors' = errors \cup {Error("class", <<>>, c)}
        BY <1>1, <3>1 DEF EnterClass
      <4> QED BY <2>3, <2>4, <3>1, <4>1 DEF Reported, Err, Kinds
    <3>2. CASE c \notin DOMAIN tables[<<>>].syms
      <4>1. errors' = errors \cup {Error("parent", <<c>>, p) : p \in Range(ps) \ Range(Known(c, ps))}
        BY <1>1, <3>2 DEF EnterClass
      <4>2. ASSUME NEW e \in errors' \ errors
            PROVE  e.what = "parent" /\ Broken(n, e) /\ ~ IsClass(e.name)
        <5>1. PICK p \in Range(ps) \ Range(Known(c, ps)) : e = Error("parent", <<c>>, p)
          BY <4>1, <4>2
        <5>2. e.what = "parent" /\ e.in = <<c>> /\ e.name = p
          BY <5>1 DEF Error
        <5>3. p # c /\ ~ IsClass(p) /\ \E k \in DOMAIN ps : ps[k] = p
          BY UnknownParents
        <5> QED BY <2>3, <5>2, <5>3 DEF Broken, HasParent
      <4> QED BY <2>3, <2>4, <3>2, <4>1, <4>2 DEF Reported, Parts
    <3> QED BY <3>1, <3>2
  <2> QED BY <2>1, <2>3, <2>5 DEF Visit, EntryOK, Members, InClasses
<1>2. ASSUME NEW what, NEW x, NEW t, NEW d, NEW vis, AddVariable(what, x, t, d, vis),
             \/ what = "attribute" /\ place = "class" /\ place' = "class"
             \/ what = "local" /\ InBody /\ pending = <<>> /\ place' = place
      PROVE  Goal
  <2>1. PICK s : VariableVisited(what, x, d, s)
    BY <1>2, VariableStep
  <2>2. PICK n : n = Entry(what, x, <<>>, <<d>>, <<>>)
    OBVIOUS
  <2>3. n.what = what /\ n.in = scope /\ n.name = x /\ n.dims = <<d>> /\ SeenIs(n)
    BY <1>0, <2>1, <2>2, EntryFields, SeenGrows DEF VariableVisited
  <2>4. Taken(n) <=> x \in DOMAIN tables[scope].syms
    BY <1>0, <1>2, <2>3 DEF Taken, Names
  <2>7. BadDims(d) => Unsized(n)
    BY <2>3 DEF Unsized
  <2>8. \A e \in errors' \ errors :
          \/ e.what = "dimension" /\ Broken(n, e)
          \/ e = Err(n) /\ Taken(n)
    BY <2>1, <2>3, <2>4, <2>7 DEF VariableVisited, Err, Broken
  <2>5. Reported(n)
    BY <1>2, <2>1, <2>3, <2>4, <2>8 DEF VariableVisited, Reported, Err, Kinds, Parts
  <2>6. EntryOK(n)
    <3>1. CASE what = "attribute"
      BY <1>2, <2>3, <3>1 DEF EntryOK, Members, IInv, ScopeFits, LInv, InClass
    <3>2. CASE what = "local"
      BY <2>3, <3>2 DEF EntryOK, Members
    <3> QED BY <1>2, <3>1, <3>2
  <2> QED BY <1>2, <2>3, <2>5, <2>6 DEF Visit, Members, InBody, InClasses
<1>3. ASSUME NEW v, NEW x, NEW t, NEW d, Attribute(v, x, t, d) \/ LocalVariable(x, t, d)
      PROVE  Goal
  <2>1. PICK what, vis :
          /\ AddVariable(what, x, t, d, vis)
          /\ \/ what = "attribute" /\ place = "class" /\ place' = "class"
             \/ what = "local" /\ InBody /\ pending = <<>> /\ place' = place
    BY <1>3 DEF Attribute, LocalVariable
  <2> QED BY <1>2, <2>1
<1>4. ASSUME NEW f, NEW ps, NEW n, n.in = scope, n.name = f, n.dims = DimsOf(ps)
      PROVE  \A e \in BadParams(f, ps) : e.what = "dimension" /\ Broken(n, e)
  BY <1>4, BadParamsAre DEF Broken, Unsized
<1>5. ASSUME NEW v, NEW f, NEW ps, NEW t, Declaration(v, f, ps, t)
      PROVE  Goal
  <2>1. /\ place = "class" /\ Noticed("declaration", f, Formatted(ps), DimsOf(ps), <<>>) /\ scope = <<scope[1]>>
        /\ place' # "done"
    BY <1>5 DEF Declaration, IInv, ScopeFits
  <2>2. PICK n : n = Entry("declaration", f, Formatted(ps), DimsOf(ps), <<>>)
    OBVIOUS
  <2>3. /\ n.what = "declaration" /\ n.in = scope /\ n.name = f /\ n.params = Formatted(ps)
        /\ n.dims = DimsOf(ps) /\ SeenIs(n)
    BY <1>0, <2>1, <2>2, EntryFields, SeenGrows
  <2>4. Taken(n) <=> HasFunction(tables[scope], f, Formatted(ps))
    BY <1>0, <2>3 DEF Taken, Funs, SigOf, HasFunction
  <2>5. errors' = errors \cup BadParams(f, ps)
                         \cup (IF Taken(n) THEN {Error("declaration", scope, f)} ELSE {})
    BY <1>5, <2>4 DEF Declaration
  <2>6. Reported(n)
    BY <1>4, <2>3, <2>5 DEF Reported, Err, Kinds, Parts
  <2>7. EntryOK(n)
    BY <2>1, <2>3 DEF EntryOK, Members, LInv, InClass
  <2> QED BY <2>1, <2>3, <2>6, <2>7 DEF Visit, Members, InClasses
<1>6. ASSUME NEW f, NEW ps, NEW t, EnterMethod(f, ps, t)
      PROVE  Goal
  <2>1. /\ place = "implementation" /\ Noticed("method", f, Formatted(ps), DimsOf(ps), <<>>) /\ scope = <<scope[1]>>
        /\ place' # "done"
    BY <1>6 DEF EnterMethod, IInv, ScopeFits
  <2>2. PICK n : n = Entry("method", f, Formatted(ps), DimsOf(ps), <<>>)
    OBVIOUS
  <2>3. /\ n.what = "method" /\ n.in = scope /\ n.name = f /\ n.params = Formatted(ps)
        /\ n.dims = DimsOf(ps) /\ SeenIs(n)
    BY <1>0, <2>1, <2>2, EntryFields, SeenGrows
  <2>4. SigOf(n) \in Funs(n.in) <=> HasFunction(tables[scope], f, Formatted(ps))
    BY <1>0, <2>3 DEF Funs, SigOf, HasFunction
  <2>5. errors' = errors \cup BadParams(f, ps)
                         \cup (IF SigOf(n) \in Funs(n.in) THEN {} ELSE {Error("undeclared", scope, f)})
    BY <1>6, <2>4 DEF EnterMethod
  <2>6. Reported(n)
    BY <1>4, <2>3, <2>5 DEF Reported, Err, Error, Kinds, Parts
  <2>7. EntryOK(n)
    BY <2>1, <2>3 DEF EntryOK, Members
  <2> QED BY <2>1, <2>3, <2>6, <2>7 DEF Visit, Members, InClasses
<1>7. ASSUME NEW f \in FunctionNames, NEW ps \in ParamLists, NEW t, EnterFunction(f, ps, t)
      PROVE  Goal
  <2>1. /\ place = "functions" /\ Noticed("function", f, Formatted(ps), DimsOf(ps), <<>>) /\ scope = <<>>
        /\ place' # "done"
    BY <1>7 DEF EnterFunction, IInv, ScopeFits
  <2>2. PICK n : n = Entry("function", f, Formatted(ps), DimsOf(ps), <<>>)
    OBVIOUS
  <2>3. /\ n.what = "function" /\ n.in = scope /\ n.name = f /\ n.params = Formatted(ps)
        /\ n.dims = DimsOf(ps) /\ SeenIs(n)
    BY <1>0, <2>1, <2>2, EntryFields, SeenGrows
  <2>4. Taken(n) <=> HasFunction(tables[scope], f, Formatted(ps))
    BY <1>0, <2>3 DEF Taken, Funs, SigOf, HasFunction
  <2>5. errors' = errors \cup BadParams(f, ps)
                         \cup (IF Taken(n) THEN {Error("function", scope, f)} ELSE {})
    BY <1>7, <2>4 DEF EnterFunction
  <2>6. Reported(n)
    BY <1>4, <2>3, <2>5 DEF Reported, Err, Kinds, Parts
  <2>7. EntryOK(n)
    BY <2>1, <2>3 DEF EntryOK, Members
  <2> QED BY <2>1, <2>3, <2>6, <2>7 DEF Visit, Members, InClasses
<1>8. ASSUME NEW c, EnterImplementation(c)
      PROVE  Goal
  <2>1. /\ place = "implementations" /\ Noticed("implementation", c, <<>>, <<>>, <<>>) /\ place' # "done"
        /\ errors \subseteq errors' /\ scope = <<>>
        /\ \A e \in errors' \ errors : /\ e.what = "implementation" /\ e.in = <<>> /\ e.name = c
                                        /\ ~ IsClass(c)
    BY <1>8 DEF EnterImplementation, Error, IInv, ScopeFits
  <2>2. PICK n : n = Entry("implementation", c, <<>>, <<>>, <<>>)
    OBVIOUS
  <2>3. n.what = "implementation" /\ n.in = scope /\ n.name = c /\ SeenIs(n)
    BY <1>0, <2>1, <2>2, EntryFields, SeenGrows
  <2>4. Reported(n) /\ EntryOK(n)
    BY <2>1, <2>3 DEF Reported, Broken, Parts, Kinds, EntryOK, Members
  <2> QED BY <2>1, <2>3, <2>4 DEF Visit, Members, InClasses
<1>9. ASSUME Param
      PROVE  Goal
  <2>1. \A e \in errors' \ errors : e.what = "parameter"
    BY <1>9 DEF Param, Error
  <2> QED BY <1>9, <2>1 DEF Param, Quiet, InBody
<1>10. ASSUME \/ LeaveDeclaration \/ LeaveClass \/ StartImplementations \/ LeaveImplementation
              \/ StartFunctions \/ LeaveFunction \/ DeclaredParam \/ UNCHANGED vars
       PROVE  Goal
  <2>1. UNCHANGED <<seen, errors>>
    BY <1>10 DEF LeaveDeclaration, LeaveClass, StartImplementations, LeaveImplementation,
                 StartFunctions, LeaveFunction, DeclaredParam, vars
  <2>2. place' = "done" <=> place = "done"
    BY <1>10 DEF LeaveDeclaration, LeaveClass, StartImplementations, LeaveImplementation,
                 StartFunctions, LeaveFunction, DeclaredParam, vars, InBody
  <2> QED BY <2>1, <2>2 DEF Quiet
<1>11. ASSUME Finish
       PROVE  Goal
  BY <1>11
<1> HIDE DEF Goal
<1>12. Goal
  BY <1>1, <1>3, <1>5, <1>6, <1>7, <1>8, <1>9, <1>10, <1>11 DEF Next
<1> QED BY <1>12 DEF Goal

LEMMA ClassesStay ==
  ASSUME NamesApart, IInv, LInv, [Next]_vars
  PROVE  \A p : IsClass(p) => IsClass(p)'
<1>0. <<>> \in DOMAIN tables
  BY DEF IInv, WellFormed, Nesting
<1>1. CASE <<>> \in DOMAIN tables' /\ GlobalStays
  BY <1>1, GlobalKeeps
<1>2. ASSUME NEW c \in ClassNames, NEW ps \in ParentLists, EnterClass(c, ps),
             c \notin DOMAIN tables[<<>>].syms
      PROVE  \A p : IsClass(p) => IsClass(p)'
  <2>1. PICK s : ClassAdded(c, s)
    BY <1>2, ClassStep
  <2>2. /\ DOMAIN tables'[<<>>].syms = DOMAIN tables[<<>>].syms \cup {c}
        /\ \A y \in DOMAIN tables[<<>>].syms : tables'[<<>>].syms[y] = tables[<<>>].syms[y]
    BY <2>1 DEF ClassAdded, WithSymbol
  <2> QED BY <2>2 DEF IsClass
<1>3. ASSUME NEW f \in FunctionNames, NEW ps \in ParamLists, NEW t, EnterFunction(f, ps, t),
             ~ HasFunction(tables[scope], f, Formatted(ps))
      PROVE  \A p : IsClass(p) => IsClass(p)'
  <2>1. PICK s : /\ FunctionAdded(f, s, <<UniqueKey(f, Formatted(ps))>>, {Signature(f, Formatted(ps))})
                 /\ scope = <<>>
    BY <1>3, FunctionStep
  <2>2. /\ DOMAIN tables'[<<>>].syms = DOMAIN tables[<<>>].syms \cup {f}
        /\ \A y \in DOMAIN tables[<<>>].syms \ {f} : tables'[<<>>].syms[y] = tables[<<>>].syms[y]
    BY <2>1 DEF FunctionAdded, WithFunction
  <2>3. \A p : IsClass(p) => p # f
    <3>1. SUFFICES ASSUME NEW p, IsClass(p) PROVE p # f
      OBVIOUS
    <3>2. PICK e \in Entries : e.what = "class" /\ e.name = p
      BY <1>0, <3>1 DEF LInv, ClassesAreSeen, Names, IsClass
    <3>3. p \in ClassNames
      BY <3>2 DEF LInv, SeenOK, EntryOK
    <3> QED BY <3>3 DEF NamesApart
  <2> QED BY <2>2, <2>3 DEF IsClass
<1> QED BY <1>1, <1>2, <1>3, GlobalStep

\* The members of classes are declared in classes that are in the global table, where
\* the check at the end of the pass finds them.
MembersInClasses == \A e \in Entries : e.what \in Members => IsClass(e.in[1])

LEMMA MembersStay ==
  ASSUME NamesApart, IInv, LInv, MembersInClasses, [Next]_vars
  PROVE  MembersInClasses'
<1>1. \A p : IsClass(p) => IsClass(p)'
  BY ClassesStay
<1>2. CASE UNCHANGED seen
  BY <1>1, <1>2 DEF MembersInClasses, Entries
<1>3. ASSUME NEW n, Visit(n)
      PROVE  MembersInClasses'
  <2>1. Entries' = Entries \cup {n} /\ n.in = scope
    BY <1>3 DEF Visit, SeenIs
  <2>2. n.what \in Members => IsClass(n.in[1])
    BY <1>3, <2>1 DEF Visit, LInv, InClass
  <2>3. SUFFICES ASSUME NEW e \in Entries', e.what \in Members PROVE IsClass(e.in[1])'
    BY DEF MembersInClasses
  <2>4. PICK c : c = e.in[1]
    OBVIOUS
  <2>5. IsClass(c)
    BY <2>1, <2>2, <2>3, <2>4 DEF MembersInClasses
  <2>6. IsClass(c)'
    BY <1>1, <2>5
  <2> QED BY <2>4, <2>6 DEF IsClass
<1> QED BY <1>2, <1>3, VisitStep DEF Quiet, Finish

\* The signature of a symbol of a function is in its table.
LEMMA OwnSignature ==
  ASSUME IInv, LInv, NEW e \in Entries, e.what = "declaration"
  PROVE  /\ e.in = <<e.in[1]>> /\ e.in \in DOMAIN tables /\ e.name \in DOMAIN tables[e.in].syms
         /\ tables[e.in].syms[e.name].kind = "FUNCTION"
         /\ Signature(e.name, tables[e.in].syms[e.name].params) \in Funs(e.in)
<1>1. e.in = <<e.in[1]>> /\ e.name \in Names(e.in) /\ SigOf(e) \in Funs(e.in)
  BY DEF LInv, SeenOK, EntryOK, Linked, LinkOK, Members
<1>2. e.in \in DOMAIN tables /\ e.name \in DOMAIN tables[e.in].syms
      /\ SigOf(e) \in DOMAIN tables[e.in].funs
  BY <1>1 DEF Names, Funs
<1>3. TableOK(tables[e.in])
  BY <1>2 DEF IInv, WellFormed, AllOK
<1>4. SigOf(e)[1] = e.name
  BY DEF SigOf, Signature
<1>5. tables[e.in].syms[e.name].kind = "FUNCTION" /\ IsOverload(tables[e.in], e.name)
  BY <1>2, <1>3, <1>4 DEF TableOK
<1>6. Signature(e.name, tables[e.in].syms[e.name].params) \in DOMAIN tables[e.in].funs
  BY <1>5 DEF IsOverload
<1> QED BY <1>1, <1>2, <1>5, <1>6 DEF Funs

LEMMA DemandedAtTheEnd ==
  ASSUME IInv, LInv, MembersInClasses, Finish,
         NEW j \in DOMAIN seen, seen[j].what = "declaration", ~ Overloaded(j), ~ IsImplemented(j)
  PROVE  Error("undefined", seen[j].in, seen[j].name) \in errors'
<1>1. PICK e : e = seen[j]
  OBVIOUS
<1>2. e \in Entries /\ e.what = "declaration"
  BY <1>1 DEF Entries
<1> DEFINE t == tables[e.in]
           own == Signature(e.name, t.syms[e.name].params)
<1>3. /\ e.in = <<e.in[1]>> /\ e.in \in DOMAIN tables /\ e.name \in DOMAIN t.syms
      /\ t.syms[e.name].kind = "FUNCTION" /\ own \in Funs(e.in)
  BY <1>2, OwnSignature
<1>4. Shallow(e.in) /\ e.in # <<>>
  BY <1>3, Paths DEF Shallow
<1>5. own = SigOf(e)
  <2>1. PICK d \in Entries : SigOf(d) = own /\ IsSource(d, e.in)
    BY <1>3, <1>4 DEF LInv, Sourced
  <2>2. d.what = "declaration" /\ d.in = e.in
    BY <1>4, <2>1 DEF IsSource
  <2>3. own[1] = e.name /\ SigOf(d)[1] = d.name
    BY DEF SigOf, Signature
  <2>4. PICK i \in DOMAIN seen : d = seen[i]
    BY DEF Entries
  <2>5. SigOf(d) = Sig(i) /\ SigOf(e) = Sig(j)
    BY <1>1, <2>4 DEF SigOf, Sig
  <2>6. Sig(i) = Sig(j)
    BY <1>1, <2>1, <2>2, <2>3, <2>4 DEF Overloaded
  <2> QED BY <2>1, <2>5, <2>6
<1>6. own \notin t.defined
  <2>1. SUFFICES ASSUME own \in t.defined PROVE FALSE
    OBVIOUS
  <2>2. own \in Defs(e.in)
    BY <1>3, <2>1 DEF Defs
  <2>3. PICK d \in Entries : SigOf(d) = own /\ d.what = "method" /\ d.in = e.in
    BY <1>4, <2>2 DEF LInv, Sourced
  <2>4. PICK i \in DOMAIN seen : d = seen[i]
    BY DEF Entries
  <2>5. SigOf(d) = Sig(i) /\ SigOf(e) = Sig(j)
    BY <1>1, <2>4 DEF SigOf, Sig
  <2> QED BY <1>1, <1>5, <2>3, <2>4, <2>5 DEF IsImplemented, Definitions
<1>7. e.name \in Undefined(tables[e.in])
  BY <1>3, <1>6 DEF Undefined
<1>8. IsClass(e.in[1])
  BY <1>2 DEF MembersInClasses, Members
<1>9. PICK c : c = e.in[1]
  OBVIOUS
<1>10. c \in {d \in DOMAIN tables[<<>>].syms : IsClass(d)} /\ e.name \in Undefined(tables[<<c>>])
  BY <1>3, <1>7, <1>8, <1>9 DEF IsClass
<1>11. Error("undefined", <<c>>, e.name) \in errors'
  <2> DEFINE Of(k) == {Error("undefined", <<k>>, f) : f \in Undefined(tables[<<k>>])}
             All == {Of(k) : k \in {d \in DOMAIN tables[<<>>].syms : IsClass(d)}}
  <2>1. errors' = errors \cup UNION All
    BY DEF Finish
  <2>2. Error("undefined", <<c>>, e.name) \in Of(c) /\ Of(c) \in All
    BY <1>10
  <2> HIDE DEF Of, All
  <2> QED BY <2>1, <2>2
<1>12. <<c>> = seen[j].in /\ e.name = seen[j].name
  BY <1>1, <1>3, <1>9
<1> QED BY <1>11, <1>12

LEMMA DemandsKept ==
  ASSUME IInv, LInv, MembersInClasses, SingleFunctionsAreDemanded, [Next]_vars
  PROVE  SingleFunctionsAreDemanded'
<1>1. CASE Finish
  <2>1. UNCHANGED seen
    BY <1>1 DEF Finish
  <2>2. SUFFICES ASSUME NEW j \in DOMAIN seen', (seen[j].what = "declaration")', ~ Overloaded(j)',
                        ~ IsImplemented(j)'
                 PROVE  Demanded(j)'
    BY DEF SingleFunctionsAreDemanded
  <2>3. j \in DOMAIN seen /\ seen[j].what = "declaration" /\ ~ Overloaded(j) /\ ~ IsImplemented(j)
    BY <2>1, <2>2 DEF Overloaded, IsImplemented, Definitions, Sig
  <2>4. Error("undefined", seen[j].in, seen[j].name) \in errors'
    BY <1>1, <2>3, DemandedAtTheEnd
  <2> QED BY <2>1, <2>4 DEF Demanded, Error
<1>2. CASE Quiet
  <2>1. UNCHANGED seen /\ errors \subseteq errors' /\ (place' = "done" => place = "done")
    BY <1>2 DEF Quiet
  <2> QED BY <2>1 DEF SingleFunctionsAreDemanded, Overloaded, IsImplemented, Definitions, Sig,
                      Demanded, Error
<1>3. ASSUME NEW n, Visit(n)
      PROVE  SingleFunctionsAreDemanded'
  BY <1>3 DEF Visit, SingleFunctionsAreDemanded
<1> QED BY <1>1, <1>2, <1>3, VisitStep

\* A declared member function that is not overloaded and has no implementation is
\* reported, in every program whose functions have other names than its classes.
THEOREM SingleFunctionsStayDemanded ==
  ASSUME NamesApart
  PROVE  Spec => []SingleFunctionsAreDemanded
<1>1. /\ IInv /\ LInv /\ MembersInClasses /\ [Next]_vars => MembersInClasses'
      /\ IInv /\ LInv /\ MembersInClasses /\ SingleFunctionsAreDemanded /\ [Next]_vars
           => SingleFunctionsAreDemanded'
  BY MembersStay, DemandsKept
<1>2. Init => MembersInClasses /\ SingleFunctionsAreDemanded
  BY DEF Init, MembersInClasses, Entries, SingleFunctionsAreDemanded
<1> QED BY <1>1, <1>2, ScopesAreSound, TablesFollowDeclarations, PTL DEF Spec

-----------------------------------------------------------------------------

(***************************************************************************)
(* Which tables there are, and where the bodies of functions stand.        *)
(***************************************************************************)

\* A table is the global one, that of a class, of a free function, or of a member function.
IsKeyOf(e, k) == e.what = "function" /\ UniqueKey(e.name, e.params) = k

TableNamed(p) ==
  \/ p = <<>>
  \/ p = <<p[1]>> /\ p[1] \in ClassNames
  \/ /\ p = <<p[1]>> /\ tables[p].scope = "function"
     /\ \E e \in Entries : IsKeyOf(e, p[1])
  \/ ~ Shallow(p) /\ tables[p].scope = "function"

TablesNamed == \A p \in DOMAIN tables : TableNamed(p)

LEMMA NamedStays ==
  ASSUME NEW p, TableNamed(p), tables'[p].scope = tables[p].scope, Entries \subseteq Entries'
  PROVE  TableNamed(p)'
BY DEF TableNamed, IsKeyOf, Shallow

\* A step that adds the table at q at most.
LEMMA OneTableMore ==
  ASSUME TablesNamed, Entries \subseteq Entries', NEW q, DOMAIN tables' \subseteq DOMAIN tables \cup {q},
         \A p \in DOMAIN tables : tables'[p].scope = tables[p].scope,
         q \notin DOMAIN tables => TableNamed(q)'
  PROVE  TablesNamed'
<1>1. SUFFICES ASSUME NEW p \in DOMAIN tables' PROVE TableNamed(p)'
  BY DEF TablesNamed
<1>2. CASE p \in DOMAIN tables
  BY <1>2, NamedStays DEF TablesNamed
<1>3. CASE p \notin DOMAIN tables
  <2>1. p = q
    BY <1>1, <1>3
  <2> QED BY <1>3, <2>1
<1> QED BY <1>2, <1>3

LEMMA NamedAfterVariable ==
  ASSUME IInv, TablesNamed, Entries \subseteq Entries', NEW x, NEW s, VariableAdded(x, s)
  PROVE  TablesNamed'
<1>1. DOMAIN tables' \subseteq DOMAIN tables \cup {scope} /\ scope \in DOMAIN tables
  BY DEF VariableAdded, IInv
<1>2. \A p \in DOMAIN tables : tables'[p].scope = tables[p].scope
  BY DEF VariableAdded, WithSymbol, OthersStay
<1> QED BY <1>1, <1>2, OneTableMore

LEMMA NamedKept ==
  ASSUME IInv, LInv, TablesNamed, [Next]_vars
  PROVE  TablesNamed'
<1> DEFINE Goal == TablesNamed'
<1>0. IsList(seen) /\ scope \in DOMAIN tables
  BY DEF LInv, SeenOK, IInv
<1>1. ASSUME UNCHANGED tables, Entries \subseteq Entries'
      PROVE  Goal
  BY <1>1, NamedStays DEF TablesNamed
<1>2. Entries \subseteq Entries'
  <2>1. ASSUME UNCHANGED seen PROVE Entries \subseteq Entries'
    BY <2>1 DEF Entries
  <2>2. ASSUME NEW n, Visit(n) PROVE Entries \subseteq Entries'
    BY <2>2 DEF Visit, SeenIs
  <2> QED BY <2>1, <2>2, VisitStep DEF Quiet, Finish
<1>3. ASSUME NEW c \in ClassNames, NEW ps \in ParentLists, EnterClass(c, ps)
      PROVE  Goal
  <2>1. CASE c \in DOMAIN tables[<<>>].syms
    BY <1>1, <1>2, <1>3, <2>1 DEF EnterClass
  <2>2. CASE c \notin DOMAIN tables[<<>>].syms
    <3>1. PICK s : ClassAdded(c, s)
      BY <1>3, <2>2, ClassStep
    <3>2. PICK q : q = <<c>>
      OBVIOUS
    <3>3. /\ DOMAIN tables' = DOMAIN tables \cup {q} /\ q = <<q[1]>> /\ q[1] \in ClassNames
          /\ \A p \in DOMAIN tables \ {q} : tables'[p].scope = tables[p].scope
      BY <3>1, <3>2 DEF ClassAdded, WithSymbol, OthersStay
    <3>4. SUFFICES ASSUME NEW p \in DOMAIN tables' PROVE TableNamed(p)'
      BY DEF TablesNamed
    <3>5. CASE p = q
      BY <3>3, <3>5 DEF TableNamed
    <3>6. CASE p # q
      BY <1>2, <3>3, <3>4, <3>6, NamedStays DEF TablesNamed
    <3> QED BY <3>5, <3>6
  <2> QED BY <2>1, <2>2
<1>4. ASSUME NEW v, NEW x, NEW t, NEW d, Attribute(v, x, t, d) \/ LocalVariable(x, t, d)
      PROVE  Goal
  <2>1. PICK what, vis : AddVariable(what, x, t, d, vis)
    BY <1>4 DEF Attribute, LocalVariable
  <2>2. PICK s : VariableAdded(x, s)
    BY <2>1, VariableStep DEF VariableVisited
  <2> QED BY <1>2, <2>2, NamedAfterVariable
<1>5. ASSUME NEW v, NEW f, NEW ps, NEW t, Declaration(v, f, ps, t)
      PROVE  Goal
  <2>1. CASE HasFunction(tables[scope], f, Formatted(ps))
    BY <1>1, <1>2, <1>5, <2>1 DEF Declaration
  <2>2. CASE ~ HasFunction(tables[scope], f, Formatted(ps))
    <3>1. PICK s, k : FunctionAdded(f, s, Append(scope, k), {})
                      /\ Blank(tables'[Append(scope, k)], "function")
      BY <1>5, <2>2, DeclarationStep
    <3>2. PICK q : q = Append(scope, k)
      OBVIOUS
    <3>3. FunctionAdded(f, s, q, {}) /\ tables'[q].scope = "function" /\ q # scope
      BY <3>1, <3>2 DEF FunctionAdded, Blank
    <3>4. ~ Shallow(q) /\ q # <<>> /\ \A c : q # <<c>>
      BY <1>5, <3>2, NotShallow DEF Declaration, IInv, ScopeFits
    <3>5. DOMAIN tables' \subseteq DOMAIN tables \cup {q}
          /\ \A p \in DOMAIN tables \ {q} : tables'[p].scope = tables[p].scope
      BY <1>0, <3>3 DEF FunctionAdded, WithFunction, OthersStay
    <3>6. TableNamed(q)'
      BY <3>3, <3>4 DEF TableNamed, Shallow
    <3>7. SUFFICES ASSUME NEW p \in DOMAIN tables', p # q PROVE TableNamed(p)'
      BY <3>6 DEF TablesNamed
    <3> QED BY <1>2, <3>5, <3>7, NamedStays DEF TablesNamed
  <2> QED BY <2>1, <2>2
<1>6. ASSUME DeclaredParam
      PROVE  Goal
  BY <1>2, <1>6, DeclaredParamStep, NamedAfterVariable
<1>7. ASSUME NEW f, NEW ps, NEW t, EnterMethod(f, ps, t)
      PROVE  Goal
  <2>1. CASE ~ HasFunction(tables[scope], f, Formatted(ps))
    BY <1>1, <1>2, <1>7, <2>1 DEF EnterMethod
  <2>2. CASE HasFunction(tables[scope], f, Formatted(ps))
    <3> DEFINE sig == Signature(f, Formatted(ps))
    <3>1. PICK k : MethodDefined(sig, Append(scope, k))
      BY <1>7, <2>2, MethodStep
    <3> HIDE DEF sig
    <3>2. PICK q : q = Append(scope, k)
      OBVIOUS
    <3>3. MethodDefined(sig, q) /\ Kindled(q)
      BY <3>1, <3>2 DEF MethodDefined
    <3>4. ~ Shallow(q) /\ q # <<>> /\ \A c : q # <<c>>
      BY <1>7, <3>2, NotShallow DEF EnterMethod, IInv, ScopeFits
    <3>5. \A p \in DOMAIN tables : tables'[p].scope = tables[p].scope
      BY <3>3 DEF MethodDefined, Kindled, Alike, OthersStay
    <3>6. q \notin DOMAIN tables => TableNamed(q)'
      BY <3>3, <3>4 DEF TableNamed, Shallow, Kindled, Blank
    <3>7. DOMAIN tables' \subseteq DOMAIN tables \cup {q}
      BY <3>3 DEF MethodDefined
    <3> QED BY <1>2, <3>5, <3>6, <3>7, OneTableMore
  <2> QED BY <2>1, <2>2
<1>8. ASSUME NEW f \in FunctionNames, NEW ps \in ParamLists, NEW t, EnterFunction(f, ps, t)
      PROVE  Goal
  <2>1. CASE HasFunction(tables[scope], f, Formatted(ps))
    BY <1>1, <1>2, <1>8, <2>1 DEF EnterFunction
  <2>2. CASE ~ HasFunction(tables[scope], f, Formatted(ps))
    <3> DEFINE k == UniqueKey(f, Formatted(ps))
               D == {Signature(f, Formatted(ps))}
    <3>1. PICK s : FunctionAdded(f, s, <<k>>, D) /\ Kindled(<<k>>)
      BY <1>8, <2>2, FunctionStep
    <3> HIDE DEF D
    <3>2. PICK q : q = <<k>>
      OBVIOUS
    <3>3. FunctionAdded(f, s, q, D) /\ Kindled(q)
      BY <3>1, <3>2
    <3>4. PICK n : n = Entry("function", f, Formatted(ps), DimsOf(ps), <<>>)
      OBVIOUS
    <3>5. n.what = "function" /\ n.name = f /\ n.params = Formatted(ps) /\ SeenIs(n)
      BY <1>0, <1>8, <3>4, EntryFields, SeenGrows DEF EnterFunction
    <3>6. IsKeyOf(n, k)' /\ n \in Entries'
      BY <3>5 DEF IsKeyOf, SeenIs
    <3>7. \A p \in DOMAIN tables : tables'[p].scope = tables[p].scope
      BY <3>3 DEF FunctionAdded, WithFunction, Kindled, Alike, OthersStay
    <3>8. q = <<q[1]>> /\ q[1] = k
      BY <3>2
    <3> HIDE DEF k
    <3>9. q \notin DOMAIN tables => TableNamed(q)'
      BY <3>3, <3>6, <3>8 DEF TableNamed, Kindled, Blank
    <3>10. DOMAIN tables' \subseteq DOMAIN tables \cup {q}
      BY <3>3 DEF FunctionAdded
    <3> QED BY <1>2, <3>7, <3>9, <3>10, OneTableMore
  <2> QED BY <2>1, <2>2
<1>9. ASSUME Param
      PROVE  Goal
  <2>1. CASE tables[scope].scope = "function"
    BY <1>2, <1>9, <2>1, ParamStep, NamedAfterVariable
  <2>2. CASE tables[scope].scope # "function"
    BY <1>1, <1>2, <1>9, <2>2 DEF Param
  <2> QED BY <2>1, <2>2
<1>10. ASSUME \/ LeaveDeclaration \/ LeaveClass \/ StartImplementations \/ LeaveImplementation
              \/ StartFunctions \/ LeaveFunction \/ Finish \/ UNCHANGED vars
              \/ \E c \in ClassNames : EnterImplementation(c)
       PROVE  Goal
  BY <1>1, <1>2, <1>10 DEF LeaveDeclaration, LeaveClass, StartImplementations, LeaveImplementation,
               StartFunctions, LeaveFunction, Finish, vars, EnterImplementation
<1> HIDE DEF Goal
<1>11. Goal
  BY <1>3, <1>4, <1>5, <1>6, <1>7, <1>8, <1>9, <1>10 DEF Next
<1> QED BY <1>11 DEF Goal

LEMMA NamedAtFirst == Init => TablesNamed
BY DEF Init, TablesNamed, TableNamed

-----------------------------------------------------------------------------

(***************************************************************************)
(* Declarations that repeat others.                                        *)
(***************************************************************************)

InBodyOf(i, d) == d \in Definitions /\ d < i /\ \A e \in Definitions : e < i => e <= d

LastDef(d) == d \in Definitions /\ \A e \in Definitions : e <= d

\* The i-th declaration is before the j-th and has its name in its scope.
Twin(i, j) ==
  /\ i \in DOMAIN seen /\ i < j /\ seen[i].name = seen[j].name
  /\ \/ seen[i].what = "class" /\ seen[j].what = "class"
     \/ seen[i].what \in Members /\ seen[j].what = "attribute" /\ seen[i].in = seen[j].in
     \/ /\ seen[i].what = "declaration" /\ seen[j].what = "declaration"
        /\ seen[i].in = seen[j].in /\ Sig(i) = Sig(j)
     \/ seen[i].what = "function" /\ seen[j].what = "function" /\ Sig(i) = Sig(j)
     \/ /\ seen[i].what = "local" /\ seen[j].what = "local"
        /\ \E d : InBodyOf(i, d) /\ InBodyOf(j, d)

Hides(j) ==
  /\ seen[j].what = "local"
  /\ \E d : /\ InBodyOf(j, d)
            /\ \E k \in DOMAIN seen[d].params : seen[d].params[k].name = seen[j].name

Repeats(j) == (\E i : Twin(i, j)) \/ Hides(j)

\* The declarations that were visited stay as they are.
Longer ==
  /\ DOMAIN seen \subseteq DOMAIN seen' /\ DOMAIN seen' \subseteq Nat
  /\ \A i \in DOMAIN seen : seen'[i] = seen[i]
  /\ \A i \in DOMAIN seen', j \in DOMAIN seen : i <= j => i \in DOMAIN seen

LEMMA GetsLonger ==
  ASSUME IsList(seen), SeenStays
  PROVE  Longer
<1>1. DOMAIN seen = 1 .. Len(seen) /\ Len(seen) \in Nat /\ DOMAIN seen \subseteq Nat
  BY SeenDomain
<1>2. CASE UNCHANGED seen
  BY <1>1, <1>2 DEF Longer
<1>3. CASE \E n : SeenIs(n)
  BY <1>1, <1>3 DEF SeenIs, Longer
<1> QED BY <1>2, <1>3 DEF SeenStays

LEMMA BodiesStay ==
  ASSUME Longer, NEW j \in DOMAIN seen, NEW d
  PROVE  InBodyOf(j, d)' <=> InBodyOf(j, d)
<1>1. \A e : e < j => (e \in Definitions' <=> e \in Definitions)
  <2>1. SUFFICES ASSUME NEW e, e < j PROVE e \in Definitions' <=> e \in Definitions
    OBVIOUS
  <2>2. ASSUME e \in DOMAIN seen'
        PROVE  e \in DOMAIN seen
    <3>1. e \in Nat /\ j \in Nat
      BY <2>2 DEF Longer
    <3>2. e <= j
      BY <2>1, <3>1
    <3> QED BY <2>2, <3>2 DEF Longer
  <2> QED BY <2>2 DEF Longer, Definitions
<1> QED BY <1>1 DEF InBodyOf

LEMMA RepeatsStay ==
  ASSUME Longer, NEW j \in DOMAIN seen
  PROVE  /\ \A i : Twin(i, j)' <=> Twin(i, j)
         /\ Hides(j)' <=> Hides(j)
         /\ Repeats(j)' <=> Repeats(j)
<1>1. seen'[j] = seen[j] /\ j \in DOMAIN seen' /\ Sig(j)' = Sig(j)
  BY DEF Longer, Sig
<1>2. ASSUME NEW i
      PROVE  Twin(i, j)' <=> Twin(i, j)
  <2>1. CASE i \in DOMAIN seen
    <3>1. i \in DOMAIN seen' /\ seen'[i] = seen[i] /\ Sig(i)' = Sig(i)
      BY <2>1 DEF Longer, Sig
    <3>2. \A d : (InBodyOf(i, d)' <=> InBodyOf(i, d)) /\ (InBodyOf(j, d)' <=> InBodyOf(j, d))
      BY <2>1, BodiesStay
    <3> QED BY <1>1, <2>1, <3>1, <3>2 DEF Twin, Members
  <2>2. CASE i \notin DOMAIN seen
    <3>1. ~ (i \in DOMAIN seen' /\ i < j)
      BY <2>2 DEF Longer
    <3> QED BY <2>2, <3>1 DEF Twin
  <2> QED BY <2>1, <2>2
<1>3. Hides(j)' <=> Hides(j)
  <2>1. \A d : InBodyOf(j, d)' <=> InBodyOf(j, d)
    BY BodiesStay
  <2>2. \A d : InBodyOf(j, d) => seen'[d] = seen[d]
    BY DEF InBodyOf, Longer, Definitions
  <2> QED BY <1>1, <2>1, <2>2 DEF Hides
<1> QED BY <1>2, <1>3 DEF Repeats

\* BodyOf and Clash, which the rules are stated with, for a program in which the local
\* variables stand behind a definition.
LocalsHaveBodies == \A i \in DOMAIN seen : seen[i].what = "local" => \E d : InBodyOf(i, d)

LEMMA BodyIs ==
  ASSUME IsList(seen), NEW i, NEW d, InBodyOf(i, d)
  PROVE  BodyOf(i) = d
<1>1. DOMAIN seen \subseteq Nat
  BY SeenDomain
<1>2. \A c : InBodyOf(i, c) => c = d
  <2>1. SUFFICES ASSUME NEW c, InBodyOf(i, c) PROVE c = d
    OBVIOUS
  <2>2. c \in Nat /\ d \in Nat /\ c <= d /\ d <= c
    BY <1>1, <2>1 DEF InBodyOf, Definitions
  <2> QED BY <2>2
<1>3. BodyOf(i) = CHOOSE c : c \in Definitions /\ c < i /\ \A e \in Definitions : e < i => e <= c
  BY DEF BodyOf
<1>4. InBodyOf(i, BodyOf(i))
  BY <1>3 DEF InBodyOf
<1> QED BY <1>2, <1>4

LEMMA LastIs ==
  ASSUME IsList(seen), NEW d, LastDef(d)
  PROVE  (CHOOSE i \in Definitions : \A e \in Definitions : e <= i) = d
<1> DEFINE c == CHOOSE i \in Definitions : \A e \in Definitions : e <= i
<1>1. c \in Definitions /\ \A e \in Definitions : e <= c
  BY DEF LastDef
<1>2. c \in Nat /\ d \in Nat
  BY <1>1, SeenDomain DEF LastDef, Definitions
<1> HIDE DEF c
<1>3. c <= d /\ d <= c
  BY <1>1 DEF LastDef
<1>4. c = d
  BY <1>2, <1>3
<1> QED BY <1>4 DEF c

LEMMA ClashIsTwin ==
  ASSUME IsList(seen), LocalsHaveBodies, NEW j \in Declaring, NEW i \in 1 .. j - 1
  PROVE  Clash(i, j) /\ (seen[j].what = "declaration" => seen[i].what = "declaration") <=> Twin(i, j)
<1>1. /\ DOMAIN seen = 1 .. Len(seen) /\ Len(seen) \in Nat /\ j \in DOMAIN seen
      /\ seen[j].what \in {"attribute", "declaration", "class", "function", "local"}
  BY SeenDomain DEF Declaring, Members
<1>2. i \in DOMAIN seen /\ i < j
  BY <1>1
<1>3. CASE seen[i].what = "local" /\ seen[j].what = "local"
  <2>1. PICK c, d : InBodyOf(i, c) /\ InBodyOf(j, d)
    BY <1>1, <1>2, <1>3 DEF LocalsHaveBodies
  <2>2. BodyOf(i) = c /\ BodyOf(j) = d
    BY <2>1, BodyIs
  <2>3. (\E e : InBodyOf(i, e) /\ InBodyOf(j, e)) <=> BodyOf(i) = BodyOf(j)
    BY <2>1, <2>2, BodyIs
  <2> QED BY <1>2, <1>3, <2>3 DEF Clash, SameScope, Twin, Members
<1>4. CASE seen[i].what = "local" /\ seen[j].what # "local"
  BY <1>1, <1>2, <1>4 DEF Clash, SameScope, Twin, Members
<1>5. CASE seen[i].what \in Members
  BY <1>1, <1>2, <1>5 DEF Clash, SameScope, Twin, Members
<1>6. CASE seen[i].what # "local" /\ seen[i].what \notin Members
  BY <1>1, <1>2, <1>6 DEF Clash, SameScope, Twin, Members
<1> QED BY <1>3, <1>4, <1>5, <1>6

LEMMA HidesIs ==
  ASSUME IsList(seen), LocalsHaveBodies, NEW j \in DOMAIN seen
  PROVE  HidesParam(j) <=> Hides(j)
<1>1. CASE seen[j].what = "local"
  <2>1. PICK d : InBodyOf(j, d)
    BY <1>1 DEF LocalsHaveBodies
  <2>2. BodyOf(j) = d /\ \A e : InBodyOf(j, e) => e = d
    BY <2>1, BodyIs
  <2> QED BY <1>1, <2>1, <2>2 DEF HidesParam, Hides
<1>2. CASE seen[j].what # "local"
  BY <1>2 DEF HidesParam, Hides
<1> QED BY <1>1, <1>2

-----------------------------------------------------------------------------

(***************************************************************************)
(* The bodies of functions, with their parameters and local variables.     *)
(***************************************************************************)

\* args ends with the parameters in list, which were not visited yet.
Left(args, list) == Len(args) - Len(list)

EndsWith(args, list) ==
  /\ IsList(args) /\ Len(list) <= Len(args)
  /\ \A k \in 1 .. Len(list) :
       /\ args[Left(args, list) + k].name = list[k].name
       /\ args[Left(args, list) + k].type = TypeText(list[k].type, Pushed(list[k].dims))

FirstNames(args, v) == {args[k].name : k \in 1 .. v}

LEMMA FormattedEndsWith ==
  ASSUME NEW ps \in Seq(ParamNodes)
  PROVE  EndsWith(Formatted(ps), ps) /\ Left(Formatted(ps), ps) = 0
<1> DEFINE g(i) == [name |-> ps[i].name, type |-> TypeText(ps[i].type, Pushed(ps[i].dims))]
           args == [i \in 1 .. Len(ps) |-> g(i)]
<1>1. Formatted(ps) = args
  BY DEF Formatted
<1>2. IsList(args) /\ Len(args) = Len(ps) /\ Len(ps) \in Nat
  <2> DEFINE S == {g(i) : i \in 1 .. Len(ps)}
  <2>1. args \in [1 .. Len(ps) -> S] /\ Len(ps) \in Nat
    OBVIOUS
  <2> HIDE DEF args, S
  <2>2. args \in Seq(S)
    BY <2>1, SeqDef
  <2>3. Len(args) = Len(ps)
    BY <2>1, <2>2
  <2> QED BY <2>1, <2>2, <2>3 DEF IsList
<1>3. \A k \in 1 .. Len(ps) : args[k].name = ps[k].name
                              /\ args[k].type = TypeText(ps[k].type, Pushed(ps[k].dims))
  OBVIOUS
<1> HIDE DEF args, g
<1>4. IsList(args) /\ Left(args, ps) = 0
  BY <1>2 DEF Left
<1>5. \A k \in 1 .. Len(ps) : Left(args, ps) + k = k
  BY <1>2, <1>4
<1>6. EndsWith(args, ps)
  BY <1>2, <1>3, <1>4, <1>5 DEF EndsWith
<1> QED BY <1>1, <1>4, <1>6

\* The next parameter is that at the head of the list.
LEMMA NextOfList ==
  ASSUME NEW list \in Seq(ParamNodes), list # <<>>, NEW args, EndsWith(args, list)
  PROVE  LET v == Left(args, list)
         IN  /\ v \in Nat /\ v + 1 \in 1 .. Len(args)
             /\ args[v + 1].name = Head(list).name
             /\ args[v + 1].type = TypeText(Head(list).type, Pushed(Head(list).dims))
             /\ EndsWith(args, Tail(list)) /\ Left(args, Tail(list)) = v + 1
<1> DEFINE v == Left(args, list)
<1>1. /\ Len(args) \in Nat /\ Len(list) \in Nat /\ Len(list) >= 1 /\ Len(list) <= Len(args)
      /\ Tail(list) \in Seq(ParamNodes) /\ Len(Tail(list)) = Len(list) - 1
      /\ \A k \in 1 .. Len(Tail(list)) : Tail(list)[k] = list[k + 1] /\ k + 1 \in 1 .. Len(list)
      /\ Head(list) = list[1] /\ 1 \in 1 .. Len(list)
  BY DEF EndsWith, IsList
<1>2. v = Len(args) - Len(list) /\ v \in Nat /\ v + 1 \in 1 .. Len(args)
  BY <1>1 DEF Left
<1>3. Left(args, Tail(list)) = v + 1
  BY <1>1, <1>2 DEF Left
<1>4. \A k \in 1 .. Len(list) : /\ args[v + k].name = list[k].name
                                /\ args[v + k].type = TypeText(list[k].type, Pushed(list[k].dims))
  BY DEF EndsWith
<1> HIDE DEF v
<1>5. \A k \in 1 .. Len(Tail(list)) : (v + 1) + k = v + (k + 1)
  BY <1>1, <1>2
<1>6. EndsWith(args, Tail(list))
  <2>1. IsList(args) /\ Len(Tail(list)) <= Len(args)
    BY <1>1 DEF EndsWith
  <2>2. SUFFICES ASSUME NEW k \in 1 .. Len(Tail(list))
                 PROVE  /\ args[(v + 1) + k].name = Tail(list)[k].name
                        /\ args[(v + 1) + k].type = TypeText(Tail(list)[k].type, Pushed(Tail(list)[k].dims))
    BY <1>3, <2>1 DEF EndsWith
  <2>3. PICK m : m = k + 1
    OBVIOUS
  <2>4. m \in 1 .. Len(list) /\ Tail(list)[k] = list[m] /\ (v + 1) + k = v + m
    BY <1>1, <1>5, <2>3
  <2> QED BY <1>4, <2>4
<1> QED BY <1>1, <1>2, <1>3, <1>4, <1>6 DEF v

LEMMA OneNameMore ==
  ASSUME NEW args, NEW v \in Nat
  PROVE  FirstNames(args, v + 1) = FirstNames(args, v) \cup {args[v + 1].name}
<1>1. 1 .. v + 1 = (1 .. v) \cup {v + 1}
  OBVIOUS
<1> QED BY <1>1 DEF FirstNames

Locals(d) == {j \in DOMAIN seen : d < j /\ seen[j].what = "local"}

LocalNames(d) == {seen[j].name : j \in Locals(d)}

\* The parameters of the definition d that were visited.
Args(d) == seen[d].params
Done(d) == Left(Args(d), pending)

\* The names that the body of d has got.
Held(d) == FirstNames(Args(d), Done(d)) \cup LocalNames(d)

\* A parameter that repeats the name of one before it was reported.
ParamsReported(d) ==
  \A l, k \in 1 .. Done(d) :
    l < k /\ Args(d)[l].name = Args(d)[k].name => Error("parameter", scope, Args(d)[k].name) \in errors

\* The body that is visited is that of the definition visited last.
Filled(d) ==
  /\ LastDef(d) /\ seen[d].what = place /\ EndsWith(Args(d), pending)
  /\ pending # <<>> => Locals(d) = {}
  /\ tables[scope].scope = "function" /\ Held(d) \subseteq Names(scope)
  /\ place = "function" => ParamsReported(d)

Bodies == InBody => \E d : Filled(d)

LEMMA BodyStep ==
  ASSUME IInv, [Next]_vars
  PROVE  \/ ~ InBody'
         \/ InBody /\ UNCHANGED vars
         \/ Param
         \/ \E x, t, d : LocalVariable(x, t, d)
         \/ \E f \in FunctionNames, ps \in ParamLists : \E t :
              EnterMethod(f, ps, t) /\ HasFunction(tables[scope], f, Formatted(ps))
         \/ \E f \in FunctionNames, ps \in ParamLists : \E t :
              EnterFunction(f, ps, t) /\ ~ HasFunction(tables[scope], f, Formatted(ps))
<1> DEFINE Goal == 
         \/ ~ InBody'
         \/ InBody /\ UNCHANGED vars
         \/ Param
         \/ \E x, t, d : LocalVariable(x, t, d)
         \/ \E f \in FunctionNames, ps \in ParamLists : \E t :
              EnterMethod(f, ps, t) /\ HasFunction(tables[scope], f, Formatted(ps))
         \/ \E f \in FunctionNames, ps \in ParamLists : \E t :
              EnterFunction(f, ps, t) /\ ~ HasFunction(tables[scope], f, Formatted(ps))
<1>1. ASSUME NEW c, NEW ps, EnterClass(c, ps)
      PROVE  ~ InBody'
  BY <1>1 DEF EnterClass, InBody
<1>2. ASSUME NEW v, NEW x, NEW t, NEW d, Attribute(v, x, t, d)
      PROVE  ~ InBody'
  BY <1>2 DEF Attribute, InBody
<1>3. ASSUME NEW v, NEW f, NEW ps, NEW t, Declaration(v, f, ps, t)
      PROVE  ~ InBody'
  BY <1>3 DEF Declaration, InBody
<1>4. ASSUME NEW f \in FunctionNames, NEW ps \in ParamLists, NEW t, EnterMethod(f, ps, t)
      PROVE  Goal
  <2>1. CASE HasFunction(tables[scope], f, Formatted(ps))
    BY <1>4, <2>1
  <2>2. CASE ~ HasFunction(tables[scope], f, Formatted(ps))
    BY <1>4, <2>2 DEF EnterMethod, InBody
  <2> QED BY <2>1, <2>2
<1>5. ASSUME NEW f \in FunctionNames, NEW ps \in ParamLists, NEW t, EnterFunction(f, ps, t)
      PROVE  Goal
  <2>1. CASE ~ HasFunction(tables[scope], f, Formatted(ps))
    BY <1>5, <2>1
  <2>2. CASE HasFunction(tables[scope], f, Formatted(ps))
    BY <1>5, <2>2 DEF EnterFunction, InBody
  <2> QED BY <2>1, <2>2
<1>6. ASSUME \/ LeaveDeclaration \/ LeaveClass \/ StartImplementations \/ LeaveImplementation
             \/ StartFunctions \/ LeaveFunction \/ Finish \/ DeclaredParam
             \/ \E c \in ClassNames : EnterImplementation(c)
      PROVE  ~ InBody'
  BY <1>6 DEF LeaveDeclaration, LeaveClass, StartImplementations, LeaveImplementation,
              StartFunctions, LeaveFunction, Finish, DeclaredParam, EnterImplementation, InBody
<1>7. ASSUME UNCHANGED vars PROVE Goal
  BY <1>7 DEF vars, InBody
<1>8. ASSUME NEW x, NEW t, NEW d, LocalVariable(x, t, d) PROVE Goal
  BY <1>8
<1>9. ASSUME Param PROVE Goal
  BY <1>9
<1>10. ASSUME ~ InBody' PROVE Goal
  BY <1>10
<1> HIDE DEF Goal
<1>11. Goal
  BY <1>1, <1>2, <1>3, <1>4, <1>5, <1>6, <1>7, <1>8, <1>9, <1>10 DEF Next
<1> QED BY <1>11 DEF Goal

\* The body of a free function has nothing else, and the first of some parameters of a
\* name has given the name its type.
FirstTypes(d) ==
  \A k \in 1 .. Done(d) :
    (\A l \in 1 .. k - 1 : Args(d)[l].name # Args(d)[k].name)
      => tables[scope].syms[Args(d)[k].name].type = Args(d)[k].type

Own(d) == place = "function" => Names(scope) \subseteq Held(d) /\ FirstTypes(d)

LEMMA BodyGrows ==
  ASSUME IInv, NEW x, NEW s, VariableAdded(x, s), UNCHANGED scope
  PROVE  /\ Names(scope)' = Names(scope) \cup {x}
         /\ tables'[scope].scope = tables[scope].scope
         /\ \A y \in Names(scope) : tables'[scope].syms[y] = tables[scope].syms[y]
         /\ x \notin Names(scope) => tables'[scope].syms[x] = s
<1>1. scope \in DOMAIN tables /\ scope \in DOMAIN tables' /\ Names(scope) = DOMAIN tables[scope].syms
  BY DEF VariableAdded, IInv, Names
<1>2. WithSymbol(tables[scope], tables'[scope], x, s)
  BY DEF VariableAdded
<1>3. Names(scope)' = DOMAIN tables'[scope].syms
  BY <1>1 DEF Names
<1> QED BY <1>1, <1>2, <1>3 DEF WithSymbol

LEMMA ParamFills ==
  ASSUME IInv, PendingOK, NEW d, Filled(d), Param
  PROVE  Filled(d)' /\ (Own(d) => Own(d)')
<1>1. /\ pending \in Seq(ParamNodes) /\ pending # <<>> /\ pending' = Tail(pending)
      /\ UNCHANGED <<scope, place, seen>> /\ tables[scope].scope = "function"
      /\ EndsWith(Args(d), pending)
  BY DEF Param, PendingOK, Filled
<1>2. PICK args, v, h : args = Args(d) /\ v = Done(d) /\ h = Head(pending)
  OBVIOUS
<1>3. /\ v \in Nat /\ v + 1 \in 1 .. Len(args) /\ args[v + 1].name = h.name
      /\ args[v + 1].type = TypeText(h.type, Pushed(h.dims))
      /\ EndsWith(args, Tail(pending)) /\ Left(args, Tail(pending)) = v + 1
  BY <1>1, <1>2, NextOfList DEF Done
<1>4. args = Args(d)' /\ Done(d)' = v + 1 /\ EndsWith(Args(d), pending)'
  BY <1>1, <1>2, <1>3 DEF Args, Done
<1>5. PICK s : /\ VariableAdded(h.name, s) /\ s.type = args[v + 1].type
  BY <1>1, <1>2, <1>3, ParamStep
<1>6. /\ Names(scope)' = Names(scope) \cup {h.name}
      /\ tables'[scope].scope = tables[scope].scope
      /\ \A y \in Names(scope) : tables'[scope].syms[y] = tables[scope].syms[y]
      /\ h.name \notin Names(scope) => tables'[scope].syms[h.name] = s
  BY <1>1, <1>5, BodyGrows
<1>7. Locals(d) = {} /\ Locals(d)' = {} /\ LocalNames(d) = {} /\ LocalNames(d)' = {}
  BY <1>1 DEF Filled, Locals, LocalNames
<1>8. Held(d) = FirstNames(args, v) /\ Held(d)' = FirstNames(args, v) \cup {h.name}
  <2>1. Held(d) = FirstNames(args, v)
    BY <1>2, <1>7 DEF Held
  <2>2. Held(d)' = FirstNames(args, v + 1)
    BY <1>4, <1>7 DEF Held, FirstNames
  <2>3. FirstNames(args, v + 1) = FirstNames(args, v) \cup {h.name}
    BY <1>3, OneNameMore
  <2> QED BY <2>1, <2>2, <2>3
<1>9. (tables[scope].scope = "function" /\ Held(d) \subseteq Names(scope))'
  BY <1>1, <1>6, <1>8 DEF Filled
<1>10. LastDef(d)' /\ seen'[d].what = place'
  BY <1>1 DEF Filled, LastDef, Definitions
<1>11. errors \subseteq errors'
       /\ (place = "function" /\ h.name \in Names(scope) => Error("parameter", scope, h.name) \in errors')
  <2>1. Names(scope) = DOMAIN tables[scope].syms
    BY DEF Names, IInv
  <2> QED BY <1>1, <1>2, <2>1 DEF Param, ReportsParams
<1>12. ASSUME place = "function"
       PROVE  ParamsReported(d)'
  <2>1. SUFFICES ASSUME NEW l \in 1 .. v + 1, NEW k \in 1 .. v + 1, l < k, args[l].name = args[k].name
                 PROVE  Error("parameter", scope, args[k].name) \in errors'
    BY <1>1, <1>4 DEF ParamsReported, Error
  <2>2. CASE k \in 1 .. v
    <3>1. l \in 1 .. v
      BY <1>3, <2>1, <2>2
    <3>2. Error("parameter", scope, args[k].name) \in errors
      BY <1>2, <1>12, <2>1, <2>2, <3>1 DEF Filled, ParamsReported
    <3> QED BY <1>11, <3>2
  <2>3. CASE k = v + 1
    <3>1. l \in 1 .. v /\ args[l].name = h.name
      BY <1>3, <2>1, <2>3
    <3>2. h.name \in Names(scope)
      BY <1>8, <3>1 DEF Filled, FirstNames
    <3> QED BY <1>3, <1>11, <1>12, <2>3, <3>2
  <2> QED BY <1>3, <2>2, <2>3
<1>13. Filled(d)'
  BY <1>1, <1>4, <1>7, <1>9, <1>10, <1>12 DEF Filled
<1>14. ASSUME Own(d), place = "function"
       PROVE  (Names(scope) \subseteq Held(d) /\ FirstTypes(d))'
  <2>1. Names(scope) \subseteq Held(d)
    BY <1>14 DEF Own
  <2>2. (Names(scope) \subseteq Held(d))'
    BY <1>6, <1>8, <2>1
  <2>3. SUFFICES ASSUME NEW k \in 1 .. v + 1, \A l \in 1 .. k - 1 : args[l].name # args[k].name
                 PROVE  tables'[scope].syms[args[k].name].type = args[k].type
    BY <1>1, <1>4, <2>2 DEF FirstTypes
  <2>4. CASE k \in 1 .. v
    <3>1. tables[scope].syms[args[k].name].type = args[k].type
      BY <1>2, <1>14, <2>3, <2>4 DEF Own, FirstTypes
    <3>2. args[k].name \in Names(scope)
      BY <1>8, <2>4 DEF Filled, FirstNames
    <3> QED BY <1>6, <3>1, <3>2
  <2>5. CASE k = v + 1
    <3>1. \A l \in 1 .. v : args[l].name # h.name
      BY <1>3, <2>3, <2>5
    <3>2. h.name \notin Names(scope)
      BY <1>8, <2>1, <3>1 DEF FirstNames
    <3> QED BY <1>3, <1>5, <1>6, <2>5, <3>2
  <2> QED BY <1>3, <2>4, <2>5
<1> QED BY <1>1, <1>13, <1>14 DEF Own

LEMMA LocalFills ==
  ASSUME IInv, LInv, NEW d, Filled(d), NEW x, NEW t, NEW dims, LocalVariable(x, t, dims)
  PROVE  Filled(d)' /\ (Own(d) => Own(d)')
<1>1. /\ AddVariable("local", x, t, dims, visibility) /\ UNCHANGED <<scope, place, pending>>
      /\ pending = <<>> /\ InBody /\ IsList(seen)
  BY DEF LocalVariable, LInv, SeenOK
<1>2. PICK s : VariableVisited("local", x, dims, s)
  BY <1>1, VariableStep
<1>3. VariableAdded(x, s) /\ errors \subseteq errors' /\ Noticed("local", x, <<>>, <<dims>>, <<>>)
  BY <1>2 DEF VariableVisited
<1>4. PICK n : n = Entry("local", x, <<>>, <<dims>>, <<>>)
  OBVIOUS
<1>5. n.what = "local" /\ n.name = x /\ SeenIs(n)
  BY <1>1, <1>3, <1>4, EntryFields, SeenGrows
<1>6. PICK j : j = Len(seen')
  OBVIOUS
<1>7. /\ DOMAIN seen' = DOMAIN seen \cup {j} /\ seen'[j] = n /\ j \notin DOMAIN seen
      /\ \A i \in DOMAIN seen : seen'[i] = seen[i] /\ i < j
  BY <1>5, <1>6 DEF SeenIs
<1>8. d \in DOMAIN seen /\ Definitions' = Definitions
  BY <1>5, <1>7 DEF Filled, LastDef, Definitions
<1>9. Locals(d)' = Locals(d) \cup {j}
  BY <1>5, <1>7, <1>8 DEF Locals
<1>10. LocalNames(d)' = LocalNames(d) \cup {x}
  <2>1. \A i \in Locals(d) : seen'[i].name = seen[i].name
    BY <1>7 DEF Locals
  <2>2. \A i \in Locals(d)' : i \in Locals(d) \/ i = j
    BY <1>9
  <2>3. j \in Locals(d)' /\ Locals(d) \subseteq Locals(d)' /\ seen'[j].name = x
    BY <1>5, <1>7, <1>9
  <2> QED BY <2>1, <2>2, <2>3 DEF LocalNames
<1>11. Args(d)' = Args(d) /\ Done(d)' = Done(d)
  BY <1>1, <1>7, <1>8 DEF Args, Done
<1>12. Held(d)' = Held(d) \cup {x}
  BY <1>10, <1>11 DEF Held
<1>13. /\ Names(scope)' = Names(scope) \cup {x}
       /\ tables'[scope].scope = tables[scope].scope
       /\ \A y \in Names(scope) : tables'[scope].syms[y] = tables[scope].syms[y]
  BY <1>1, <1>3, BodyGrows
<1>14. (tables[scope].scope = "function" /\ Held(d) \subseteq Names(scope))'
  BY <1>1, <1>12, <1>13 DEF Filled
<1>15. LastDef(d)' /\ seen'[d].what = place' /\ EndsWith(Args(d), pending)'
  BY <1>1, <1>7, <1>8, <1>11 DEF Filled, LastDef
<1>16. ParamsReported(d) => ParamsReported(d)'
  BY <1>1, <1>3, <1>11 DEF ParamsReported, Error
<1>17. Filled(d)'
  BY <1>1, <1>14, <1>15, <1>16 DEF Filled
<1>18. ASSUME Own(d), place = "function"
       PROVE  (Names(scope) \subseteq Held(d) /\ FirstTypes(d))'
  <2>1. (Names(scope) \subseteq Held(d))'
    BY <1>12, <1>13, <1>18 DEF Own
  <2>2. \A k \in 1 .. Done(d) : Args(d)[k].name \in Names(scope)
    BY DEF Filled, Held, FirstNames
  <2>3. FirstTypes(d)'
    BY <1>1, <1>11, <1>13, <1>18, <2>2 DEF Own, FirstTypes
  <2> QED BY <2>1, <2>3
<1> QED BY <1>1, <1>17, <1>18 DEF Own

\* Where a body starts: the definition is the last one, and nothing of it was visited.
Start(d, ps) ==
  /\ LastDef(d) /\ Locals(d) = {} /\ Args(d) = Formatted(ps)

LEMMA BodyStarts ==
  ASSUME NEW n, SeenIs(n), n.what \in {"method", "function"},
         NEW ps \in Seq(ParamNodes), n.params = Formatted(ps), NEW d, d = Len(seen')
  PROVE  Start(d, ps)' /\ seen'[d] = n
<1>1. /\ DOMAIN seen' = DOMAIN seen \cup {d} /\ seen'[d] = n /\ d \in DOMAIN seen'
      /\ DOMAIN seen' = 1 .. d /\ d \in Nat
  BY DEF SeenIs
<1>2. LastDef(d)'
  <2>1. \A e \in DOMAIN seen' : e <= d
    BY <1>1
  <2> QED BY <1>1, <2>1 DEF LastDef, Definitions
<1>3. Locals(d)' = {}
  <2>1. \A e \in DOMAIN seen' : ~ (d < e)
    BY <1>1
  <2> QED BY <2>1 DEF Locals
<1>4. Args(d)' = Formatted(ps)
  BY <1>1 DEF Args
<1> QED BY <1>1, <1>2, <1>3, <1>4 DEF Start

LEMMA StartFills ==
  ASSUME NEW d, NEW ps \in Seq(ParamNodes), Start(d, ps)', pending' = ps, seen'[d].what = place',
         tables'[scope'].scope = "function"
  PROVE  Filled(d)' /\ (Names(scope)' = {} => Own(d)')
<1>1. PICK args : args = Args(d)'
  OBVIOUS
<1>2. EndsWith(args, ps) /\ Left(args, ps) = 0
  BY <1>1, FormattedEndsWith DEF Start
<1>3. Done(d)' = 0 /\ EndsWith(Args(d), pending)'
  BY <1>1, <1>2 DEF Done, EndsWith, Left
<1>4. Held(d)' = {}
  BY <1>3 DEF Held, FirstNames, Start, LocalNames
<1>5. ParamsReported(d)' /\ FirstTypes(d)'
  BY <1>3 DEF ParamsReported, FirstTypes
<1>6. LastDef(d)' /\ Locals(d)' = {}
  BY DEF Start
<1>7. Filled(d)'
  BY <1>3, <1>4, <1>5, <1>6 DEF Filled
<1> QED BY <1>4, <1>5, <1>7 DEF Own

LEMMA MethodStarts ==
  ASSUME IInv, LInv, TablesNamed, NEW f, NEW ps \in ParamLists, NEW t, EnterMethod(f, ps, t),
         HasFunction(tables[scope], f, Formatted(ps))
  PROVE  \E d : Filled(d)' /\ Own(d)'
<1>1. /\ ps \in Seq(ParamNodes) /\ pending' = ps /\ place' = "method" /\ IsList(seen)
      /\ Noticed("method", f, Formatted(ps), DimsOf(ps), <<>>) /\ scope = <<scope[1]>> /\ place = "implementation"
  BY ListsAssumption DEF EnterMethod, LInv, SeenOK, IInv, ScopeFits
<1>2. PICK n : n = Entry("method", f, Formatted(ps), DimsOf(ps), <<>>)
  OBVIOUS
<1>3. n.what = "method" /\ n.params = Formatted(ps) /\ SeenIs(n)
  BY <1>1, <1>2, EntryFields, SeenGrows
<1>4. PICK d : d = Len(seen')
  OBVIOUS
<1>5. Start(d, ps)' /\ seen'[d].what = place'
  BY <1>1, <1>3, <1>4, BodyStarts
<1> DEFINE sig == Signature(f, Formatted(ps))
<1>6. PICK k : MethodDefined(sig, Append(scope, k)) /\ scope' = Append(scope, k)
  BY MethodStep
<1>7. PICK q : q = Append(scope, k)
  OBVIOUS
<1> HIDE DEF sig
<1>8. Kindled(q) /\ scope' = q
  BY <1>6, <1>7 DEF MethodDefined
<1>9. ~ Shallow(q) /\ q # <<>> /\ \A c : q # <<c>>
  BY <1>1, <1>7, NotShallow
<1>10. tables'[q].scope = "function"
  <2>1. CASE q \in DOMAIN tables
    BY <1>8, <1>9, <2>1 DEF TablesNamed, TableNamed, Kindled, Alike
  <2>2. CASE q \notin DOMAIN tables
    BY <1>8, <2>2 DEF Kindled, Blank
  <2> QED BY <2>1, <2>2
<1>11. Filled(d)'
  BY <1>1, <1>5, <1>8, <1>10, StartFills
<1> QED BY <1>1, <1>11 DEF Own

LEMMA FunctionStarts ==
  ASSUME KeysOffClasses, IInv, LInv, TablesNamed,
         NEW f \in FunctionNames, NEW ps \in ParamLists, NEW t, EnterFunction(f, ps, t),
         ~ HasFunction(tables[scope], f, Formatted(ps))
  PROVE  \E d : Filled(d)' /\ (KeysApart => Own(d)')
<1>1. /\ ps \in Seq(ParamNodes) /\ pending' = ps /\ place' = "function" /\ IsList(seen)
      /\ Noticed("function", f, Formatted(ps), DimsOf(ps), <<>>)
  BY ListsAssumption DEF EnterFunction, LInv, SeenOK
<1>2. PICK n : n = Entry("function", f, Formatted(ps), DimsOf(ps), <<>>)
  OBVIOUS
<1>3. n.what = "function" /\ n.params = Formatted(ps) /\ SeenIs(n)
  BY <1>1, <1>2, EntryFields, SeenGrows
<1>4. PICK d : d = Len(seen')
  OBVIOUS
<1>5. Start(d, ps)' /\ seen'[d].what = place'
  BY <1>1, <1>3, <1>4, BodyStarts
<1> DEFINE D == {Signature(f, Formatted(ps))}
           key == UniqueKey(f, Formatted(ps))
<1>6. PICK s : FunctionAdded(f, s, <<key>>, D) /\ Kindled(<<key>>) /\ scope = <<>> /\ scope' = <<key>>
  BY FunctionStep
<1> HIDE DEF D
<1>7. PICK q : q = <<key>>
  OBVIOUS
<1>8. Kindled(q) /\ scope' = q /\ q = <<q[1]>> /\ q[1] = key /\ q # <<>> /\ Shallow(q)
      /\ q \in DOMAIN tables'
  BY <1>6, <1>7, OnePath DEF FunctionAdded
<1>9. key \notin ClassNames
  BY DEF KeysOffClasses
<1>10. q \in DOMAIN tables =>
         tables[q].scope = "function" /\ \E e \in Entries : IsKeyOf(e, key)
  BY <1>8, <1>9 DEF TablesNamed, TableNamed
<1>11. tables'[q].scope = "function"
  BY <1>8, <1>10 DEF Kindled, Alike, Blank
<1>12. ASSUME KeysApart
       PROVE  q \notin DOMAIN tables
  <2>1. SUFFICES ASSUME NEW e \in Entries, e.what = "function", UniqueKey(e.name, e.params) = key
                 PROVE  FALSE
    BY <1>10 DEF IsKeyOf
  <2>2. PICK qs \in ParamLists : e.params = Formatted(qs) /\ e.name \in FunctionNames
    BY <2>1 DEF LInv, SeenOK, EntryOK
  <2>3. Signature(e.name, Formatted(qs)) = Signature(f, Formatted(ps))
    BY <1>12, <2>1, <2>2 DEF KeysApart
  <2>4. SigOf(e) \in Funs(<<>>)
    BY <2>1 DEF LInv, Linked, LinkOK
  <2> QED BY <1>6, <2>2, <2>3, <2>4 DEF SigOf, Funs, HasFunction
<1>13. KeysApart => Names(scope)' = {}
  <2>1. SUFFICES ASSUME KeysApart PROVE Names(scope)' = {}
    OBVIOUS
  <2>2. DOMAIN tables'[q].syms = {}
    BY <1>8, <1>12, <2>1 DEF Kindled, Blank
  <2> QED BY <1>8, <2>2 DEF Names
<1>14. Filled(d)' /\ (Names(scope)' = {} => Own(d)')
  BY <1>1, <1>5, <1>8, <1>11, StartFills
<1> QED BY <1>13, <1>14

OwnBodies == InBody => \E d : Filled(d) /\ Own(d)

LEMMA BodiesKept ==
  ASSUME KeysOffClasses, IInv, LInv, TablesNamed, PendingOK, [Next]_vars
  PROVE  (Bodies => Bodies') /\ (KeysApart /\ OwnBodies => OwnBodies')
<1> DEFINE Goal == (Bodies => Bodies') /\ (KeysApart /\ OwnBodies => OwnBodies')
<1>1. ASSUME ~ InBody' PROVE Goal
  BY <1>1 DEF Bodies, OwnBodies
<1>2. ASSUME InBody, \A d : Filled(d) => Filled(d)' /\ (Own(d) => Own(d)')
      PROVE  Goal
  BY <1>2 DEF Bodies, OwnBodies
<1>3. ASSUME InBody, UNCHANGED vars PROVE Goal
  <2>1. \A d : Filled(d) => Filled(d)' /\ (Own(d) => Own(d)')
    BY <1>3 DEF vars, Filled, Own, LastDef, Definitions, Args, Done, Held, Locals, LocalNames, Names,
                ParamsReported, FirstTypes, Error
  <2> QED BY <1>2, <1>3, <2>1
<1>4. ASSUME Param PROVE Goal
  <2>1. InBody
    BY <1>4 DEF Param
  <2> QED BY <1>2, <1>4, <2>1, ParamFills
<1>5. ASSUME NEW x, NEW t, NEW d, LocalVariable(x, t, d) PROVE Goal
  <2>1. InBody
    BY <1>5 DEF LocalVariable
  <2> QED BY <1>2, <1>5, <2>1, LocalFills
<1>6. ASSUME NEW f, NEW ps \in ParamLists, NEW t, EnterMethod(f, ps, t),
             HasFunction(tables[scope], f, Formatted(ps))
      PROVE  Goal
  BY <1>6, MethodStarts DEF Bodies, OwnBodies
<1>7. ASSUME NEW f \in FunctionNames, NEW ps \in ParamLists, NEW t, EnterFunction(f, ps, t),
             ~ HasFunction(tables[scope], f, Formatted(ps))
      PROVE  Goal
  BY <1>7, FunctionStarts DEF Bodies, OwnBodies
<1> HIDE DEF Goal
<1>8. Goal
  BY <1>1, <1>3, <1>4, <1>5, <1>6, <1>7, BodyStep
<1> QED BY <1>8 DEF Goal

-----------------------------------------------------------------------------

(***************************************************************************)
(* What is reported is a repetition, and a repetition is reported.         *)
(***************************************************************************)

\* The declaration that is visited, at the end of the list.
LEMMA VisitedLast ==
  ASSUME LInv, NEW n, Visit(n)
  PROVE  /\ Longer /\ Len(seen') \in DOMAIN seen' /\ seen'[Len(seen')] = n
         /\ \A j \in DOMAIN seen' : j \in DOMAIN seen \/ j = Len(seen')
         /\ \A i \in DOMAIN seen' : i < Len(seen') <=> i \in DOMAIN seen
<1>1. SeenIs(n) /\ IsList(seen) /\ SeenStays
  BY DEF Visit, LInv, SeenOK, SeenStays
<1>2. Longer
  BY <1>1, GetsLonger
<1> QED BY <1>1, <1>2 DEF SeenIs

\* The definition behind which a local variable stands.
LEMMA LocalStands ==
  ASSUME LInv, Bodies, NEW n, Visit(n), n.what = "local", NEW j, j = Len(seen')
  PROVE  /\ pending = <<>> /\ \E d : Filled(d)
         /\ \A d : Filled(d) => InBodyOf(j, d)' /\ \A c : InBodyOf(j, c)' => c = d
<1>1. InBody /\ pending = <<>> /\ SeenIs(n)
  BY DEF Visit
<1>2. /\ j \in DOMAIN seen' /\ seen'[j] = n /\ Longer /\ \A i \in DOMAIN seen : i < j
      /\ \A i \in DOMAIN seen' : i \in DOMAIN seen \/ i = j
  BY VisitedLast, <1>1 DEF SeenIs
<1>3. Definitions' = Definitions /\ Definitions \subseteq Nat /\ \A e \in Definitions : e < j
  BY <1>2 DEF Definitions, Longer
<1>4. ASSUME NEW d, Filled(d)
      PROVE  InBodyOf(j, d)' /\ \A c : InBodyOf(j, c)' => c = d
  <2>1. d \in Definitions /\ \A e \in Definitions : e <= d
    BY <1>4 DEF Filled, LastDef
  <2>2. InBodyOf(j, d)'
    BY <1>3, <2>1 DEF InBodyOf
  <2>3. ASSUME NEW c, InBodyOf(j, c)'
        PROVE  c = d
    <3>1. c \in Definitions /\ d <= c
      BY <1>3, <2>1, <2>3 DEF InBodyOf
    <3>2. c <= d /\ c \in Nat /\ d \in Nat
      BY <1>3, <2>1, <3>1
    <3> QED BY <3>1, <3>2
  <2> QED BY <2>2, <2>3
<1> QED BY <1>1, <1>4 DEF Bodies

LEMMA LocalsKept ==
  ASSUME IInv, LInv, Bodies, LocalsHaveBodies, [Next]_vars
  PROVE  LocalsHaveBodies'
<1>1. CASE UNCHANGED seen
  BY <1>1 DEF LocalsHaveBodies, InBodyOf, Definitions
<1>2. ASSUME NEW n, Visit(n)
      PROVE  LocalsHaveBodies'
  <2>1. PICK j : j = Len(seen')
    OBVIOUS
  <2>2. /\ Longer /\ seen'[j] = n
        /\ \A i \in DOMAIN seen' : i \in DOMAIN seen \/ i = j
    BY <1>2, <2>1, VisitedLast
  <2>3. SUFFICES ASSUME NEW i \in DOMAIN seen', seen'[i].what = "local"
                 PROVE  \E d : InBodyOf(i, d)'
    BY DEF LocalsHaveBodies
  <2>4. CASE i \in DOMAIN seen
    <3>1. PICK d : InBodyOf(i, d)
      BY <2>2, <2>3, <2>4 DEF LocalsHaveBodies, Longer
    <3>2. InBodyOf(i, d)'
      BY <2>2, <2>4, <3>1, BodiesStay
    <3> QED BY <3>2
  <2>5. CASE i = j
    BY <1>2, <2>1, <2>2, <2>3, <2>5, LocalStands
  <2> QED BY <2>2, <2>4, <2>5
<1> QED BY <1>1, <1>2, VisitStep DEF Quiet, Finish

Reports == \A j \in DOMAIN seen : seen[j].what \in Kinds /\ Repeats(j) => Err(seen[j]) \in errors

LEMMA TwinIsTaken ==
  ASSUME LInv, Bodies, NEW n, Visit(n), NEW j, j = Len(seen'), Repeats(j)'
  PROVE  Taken(n)
<1>1. /\ Longer /\ seen'[j] = n /\ n.in = scope /\ EntryOK(n)
      /\ \A i \in DOMAIN seen' : i < j <=> i \in DOMAIN seen
  BY VisitedLast DEF Visit
<1>2. ASSUME NEW i, Twin(i, j)'
      PROVE  Taken(n)
  <2>1. i \in DOMAIN seen /\ seen'[i] = seen[i] /\ seen[i].name = n.name
    BY <1>1, <1>2 DEF Twin, Longer
  <2>2. PICK e \in Entries : e = seen[i]
    BY <2>1 DEF Entries
  <2>3. LinkOK(e) /\ EntryOK(e)
    BY DEF LInv, Linked, SeenOK
  <2>4. Sig(i)' = SigOf(e) /\ Sig(j)' = SigOf(n)
    BY <1>1, <2>1, <2>2 DEF Sig, SigOf
  <2>5. CASE e.what = "class" /\ n.what = "class"
    BY <1>1, <2>1, <2>2, <2>3, <2>5 DEF LinkOK, EntryOK, Taken
  <2>6. CASE e.what \in Members /\ n.what = "attribute" /\ e.in = n.in
    BY <1>1, <2>1, <2>2, <2>3, <2>6 DEF LinkOK, Taken
  <2>7. CASE e.what = "declaration" /\ n.what = "declaration" /\ e.in = n.in /\ SigOf(e) = SigOf(n)
    BY <1>1, <2>1, <2>2, <2>3, <2>7 DEF LinkOK, Taken
  <2>8. CASE e.what = "function" /\ n.what = "function" /\ SigOf(e) = SigOf(n)
    BY <1>1, <2>1, <2>2, <2>3, <2>8 DEF LinkOK, EntryOK, Taken
  <2>9. CASE e.what = "local" /\ n.what = "local" /\ \E d : InBodyOf(i, d)' /\ InBodyOf(j, d)'
    <3>1. PICK d : Filled(d) /\ \A c : InBodyOf(j, c)' => c = d
      BY <2>9, LocalStands
    <3>2. InBodyOf(i, d)'
      BY <2>9, <3>1
    <3>3. InBodyOf(i, d)
      BY <1>1, <2>1, <3>2, BodiesStay
    <3>4. i \in Locals(d)
      BY <2>1, <2>2, <2>9, <3>3 DEF Locals, InBodyOf
    <3>5. n.name \in Names(scope)
      BY <2>1, <3>1, <3>4 DEF Filled, Held, LocalNames
    <3> QED BY <1>1, <2>9, <3>5 DEF Taken
  <2> QED BY <1>1, <1>2, <2>1, <2>2, <2>4, <2>5, <2>6, <2>7, <2>8, <2>9 DEF Twin
<1>3. ASSUME Hides(j)'
      PROVE  Taken(n)
  <2>1. n.what = "local"
    BY <1>1, <1>3 DEF Hides
  <2>2. pending = <<>> /\ \E d : Filled(d) /\ \A c : InBodyOf(j, c)' => c = d
    BY <2>1, LocalStands
  <2>3. PICK d : Filled(d) /\ \A c : InBodyOf(j, c)' => c = d
    BY <2>2
  <2>4. PICK k \in DOMAIN seen'[d].params : seen'[d].params[k].name = n.name
    BY <1>1, <1>3, <2>3 DEF Hides
  <2>5. d \in DOMAIN seen /\ seen'[d] = seen[d] /\ IsList(Args(d))
    BY <1>1, <2>3 DEF Filled, LastDef, Definitions, Longer, EndsWith
  <2>6. k \in 1 .. Len(Args(d)) /\ Args(d)[k].name = n.name /\ Len(Args(d)) \in Nat
    BY <2>4, <2>5 DEF Args, IsList
  <2>7. Done(d) = Len(Args(d))
    BY <2>2, <2>6 DEF Done, Left
  <2>8. n.name \in Names(scope)
    BY <2>3, <2>6, <2>7 DEF Filled, Held, FirstNames
  <2> QED BY <1>1, <2>1, <2>8 DEF Taken
<1> QED BY <1>2, <1>3 DEF Repeats

LEMMA ReportsKept ==
  ASSUME IInv, LInv, Bodies, Reports, [Next]_vars
  PROVE  Reports'
<1>1. ASSUME UNCHANGED seen, errors \subseteq errors'
      PROVE  Reports'
  BY <1>1 DEF Reports, Repeats, Twin, Hides, InBodyOf, Definitions, Sig, Err, Error
<1>2. ASSUME NEW n, Visit(n)
      PROVE  Reports'
  <2>1. PICK l : l = Len(seen')
    OBVIOUS
  <2>2. /\ Longer /\ seen'[l] = n /\ Reported(n)
        /\ \A i \in DOMAIN seen' : i \in DOMAIN seen \/ i = l
    BY <1>2, <2>1, VisitedLast DEF Visit
  <2>3. SUFFICES ASSUME NEW j \in DOMAIN seen', seen'[j].what \in Kinds, Repeats(j)'
                 PROVE  Err(seen'[j]) \in errors'
    BY DEF Reports, Kinds, Err, Error
  <2>4. CASE j \in DOMAIN seen
    <3>1. Repeats(j) /\ seen'[j] = seen[j]
      BY <2>2, <2>3, <2>4, RepeatsStay DEF Longer
    <3>2. Err(seen[j]) \in errors
      BY <2>3, <2>4, <3>1 DEF Reports
    <3> QED BY <2>2, <3>1, <3>2 DEF Reported
  <2>5. CASE j = l
    <3>1. Taken(n)
      BY <1>2, <2>1, <2>3, <2>5, TwinIsTaken
    <3> QED BY <2>2, <2>3, <2>5, <3>1 DEF Reported
  <2> QED BY <2>2, <2>4, <2>5
<1> QED BY <1>1, <1>2, VisitStep DEF Quiet, Finish

LEMMA RepeatsHold ==
  ASSUME LInv, Bodies, LocalsHaveBodies, Reports
  PROVE  RepeatsAreReported
<1>1. IsList(seen) /\ DOMAIN seen = 1 .. Len(seen) /\ Len(seen) \in Nat
  BY SeenDomain DEF LInv, SeenOK
<1>2. ClashesAreReported
  <2>1. SUFFICES ASSUME NEW j \in Declaring,
                        \/ \E i \in 1 .. j - 1 : Clash(i, j) /\ (seen[j].what = "declaration"
                                                                   => seen[i].what = "declaration")
                        \/ HidesParam(j)
                 PROVE  ErrorAt(j) \in errors
    BY DEF ClashesAreReported
  <2>2. j \in DOMAIN seen /\ seen[j].what \in Kinds
    BY DEF Declaring, Members, Kinds
  <2>3. Repeats(j)
    <3>1. CASE HidesParam(j)
      BY <1>1, <2>2, <3>1, HidesIs DEF Repeats
    <3>2. CASE \E i \in 1 .. j - 1 : Clash(i, j) /\ (seen[j].what = "declaration"
                                                       => seen[i].what = "declaration")
      <4>1. PICK i \in 1 .. j - 1 : Clash(i, j) /\ (seen[j].what = "declaration"
                                                       => seen[i].what = "declaration")
        BY <3>2
      <4>2. Twin(i, j)
        BY <1>1, <4>1, ClashIsTwin
      <4> QED BY <4>2 DEF Repeats
    <3> QED BY <2>1, <3>1, <3>2
  <2> QED BY <2>2, <2>3 DEF Reports, Err, ErrorAt
<1>3. RepeatedParamsAreReported
  <2> DEFINE last == CHOOSE i \in Definitions : \A e \in Definitions : e <= i
             P(d) == \A l, k \in DOMAIN seen[d].params :
                       l < k /\ seen[d].params[l].name = seen[d].params[k].name
                         => Error("parameter", scope, seen[d].params[k].name) \in errors
  <2>1. SUFFICES ASSUME place = "function", pending = <<>>
                 PROVE  P(last)
    BY DEF RepeatedParamsAreReported
  <2>2. PICK d : Filled(d)
    BY <2>1 DEF Bodies, InBody
  <2>3. last = d
    BY <1>1, <2>2, LastIs DEF Filled
  <2>4. IsList(Args(d))
    BY <2>2 DEF Filled, EndsWith
  <2>5. DOMAIN Args(d) = 1 .. Done(d)
    BY <2>1, <2>4 DEF IsList, Done, Left
  <2>6. ParamsReported(d)
    BY <2>1, <2>2 DEF Filled
  <2>7. P(d)
    BY <2>5, <2>6 DEF ParamsReported, Args
  <2> HIDE DEF last, P
  <2> QED BY <2>3, <2>7
<1> QED BY <1>2, <1>3 DEF RepeatsAreReported

LEMMA FinishErrors ==
  ASSUME Finish, NEW e \in errors' \ errors
  PROVE  \E c \in DOMAIN tables[<<>>].syms : IsClass(c) /\
           \E f \in Undefined(tables[<<c>>]) : e = Error("undefined", <<c>>, f)
<1> DEFINE Of(c) == {Error("undefined", <<c>>, f) : f \in Undefined(tables[<<c>>])}
           All == {Of(c) : c \in {d \in DOMAIN tables[<<>>].syms : IsClass(d)}}
<1>1. errors' = errors \cup UNION All
  BY DEF Finish
<1> HIDE DEF All
<1>2. PICK s \in All : e \in s
  BY <1>1
<1>3. PICK c \in {d \in DOMAIN tables[<<>>].syms : IsClass(d)} : s = Of(c)
  BY DEF All
<1>4. e \in Of(c)
  BY <1>2, <1>3
<1> QED BY <1>3, <1>4

LEMMA FinishIsQuiet ==
  ASSUME Finish
  PROVE  UNCHANGED seen /\ errors \subseteq errors' /\ \A e \in errors' \ errors : e.what = "undefined"
<1>1. ASSUME NEW e \in errors' \ errors
      PROVE  e.what = "undefined"
  <2>1. PICK c, f : e = Error("undefined", <<c>>, f)
    BY <1>1, FinishErrors
  <2> QED BY <2>1 DEF Error
<1> QED BY <1>1 DEF Finish

\* An error about a declaration is about one that repeats another.
Justs ==
  \A e \in errors : e.what \in Kinds /\ (e.what = "local" => Len(e.in) = 1) =>
    \E j \in DOMAIN seen : Err(seen[j]) = e /\ Repeats(j)

LEMMA TakenIsTwin ==
  ASSUME IInv, LInv, OwnBodies, NEW n, Visit(n), n.what \in Kinds, Taken(n),
         n.what = "local" => Len(n.in) = 1, NEW j, j = Len(seen')
  PROVE  Repeats(j)'
<1>1. /\ Longer /\ seen'[j] = n /\ n.in = scope /\ EntryOK(n)
      /\ \A i \in DOMAIN seen : seen'[i] = seen[i] /\ i \in DOMAIN seen' /\ i < j
  BY VisitedLast DEF Visit, Longer
<1>2. ASSUME NEW e \in Entries, e.name = n.name,
             \/ e.what = "class" /\ n.what = "class"
             \/ e.what \in Members /\ n.what = "attribute" /\ e.in = n.in
             \/ e.what = "declaration" /\ n.what = "declaration" /\ e.in = n.in /\ SigOf(e) = SigOf(n)
             \/ e.what = "function" /\ n.what = "function" /\ SigOf(e) = SigOf(n)
      PROVE  Repeats(j)'
  <2>1. PICK i \in DOMAIN seen : seen[i] = e
    BY DEF Entries
  <2>2. i \in DOMAIN seen' /\ seen'[i] = e /\ i < j /\ Sig(i)' = SigOf(e) /\ Sig(j)' = SigOf(n)
    BY <1>1, <2>1 DEF Sig, SigOf
  <2>3. Twin(i, j)'
    BY <1>1, <1>2, <2>2 DEF Twin, Members
  <2> QED BY <2>3 DEF Repeats
<1>3. \A e : SigOf(e) = SigOf(n) => e.name = n.name
  BY DEF SigOf, Signature
<1>4. CASE n.what = "class"
  <2>1. n.in = <<>> /\ InClasses
    BY <1>4 DEF Visit, EntryOK
  <2>2. PICK e \in Entries : e.what = "class" /\ e.name = n.name
    BY <1>4, <2>1 DEF LInv, ClassPhase, Taken
  <2> QED BY <1>2, <1>4, <2>2
<1>5. CASE n.what = "attribute"
  <2>1. InClasses /\ n.in = <<n.in[1]>>
    BY <1>5 DEF Visit, EntryOK, Members
  <2>2. PICK k : n.in = <<k>>
    BY <2>1
  <2>3. n.name \in Names(<<k>>)
    BY <1>5, <2>2 DEF Taken
  <2>4. PICK x : x = n.name /\ x \in Names(<<k>>)
    BY <2>3
  <2>5. PICK e \in Entries : e.what \in Members /\ e.in = <<k>> /\ e.name = x
    <3>1. \A y \in Names(<<k>>) :
            \E e \in Entries : e.what \in Members /\ e.in = <<k>> /\ e.name = y
      BY <2>1 DEF LInv, ClassPhase
    <3> QED BY <2>4, <3>1
  <2> QED BY <1>2, <1>5, <2>2, <2>4, <2>5
<1>6. CASE n.what = "declaration"
  <2>1. n.in = <<n.in[1]>> /\ SigOf(n) \in Funs(n.in)
    BY <1>6 DEF EntryOK, Members, Taken, Visit
  <2>2. Shallow(n.in) /\ n.in # <<>>
    BY <2>1, Paths DEF Shallow
  <2>3. PICK e \in Entries : SigOf(e) = SigOf(n) /\ e.what = "declaration" /\ e.in = n.in
    BY <2>1, <2>2 DEF LInv, Sourced, IsSource
  <2> QED BY <1>2, <1>3, <1>6, <2>3
<1>7. CASE n.what = "function"
  <2>1. n.in = <<>> /\ SigOf(n) \in Funs(<<>>)
    BY <1>1, <1>7 DEF EntryOK, Taken
  <2>2. PICK e \in Entries : SigOf(e) = SigOf(n) /\ e.what = "function"
    BY <2>1 DEF LInv, Sourced, IsSource, Shallow
  <2> QED BY <1>2, <1>3, <1>7, <2>2
<1>8. CASE n.what = "local"
  <2>1. place = "function"
    <3>1. InBody /\ Len(scope) = 1
      BY <1>1, <1>8 DEF Visit
    <3>2. place = "method" => scope = <<scope[1], scope[2]>>
      BY DEF IInv, ScopeFits
    <3>3. Len(<<scope[1], scope[2]>>) = 2
      OBVIOUS
    <3> QED BY <3>1, <3>2, <3>3 DEF InBody
  <2>2. PICK d : Filled(d) /\ Own(d)
    BY <2>1 DEF OwnBodies, InBody
  <2>3. Bodies
    BY <2>2 DEF Bodies
  <2>4. pending = <<>> /\ InBodyOf(j, d)'
    BY <1>8, <2>2, <2>3, LocalStands
  <2>5. n.name \in FirstNames(Args(d), Done(d)) \cup LocalNames(d)
    BY <1>1, <1>8, <2>1, <2>2 DEF Taken, Own, Held
  <2>6. CASE n.name \in LocalNames(d)
    <3>1. PICK i \in Locals(d) : seen[i].name = n.name
      BY <2>6 DEF LocalNames
    <3>2. i \in DOMAIN seen /\ d < i /\ seen[i].what = "local"
      BY <3>1 DEF Locals
    <3>3. InBodyOf(i, d)
      BY <2>2, <3>2 DEF Filled, LastDef, InBodyOf
    <3>4. InBodyOf(i, d)'
      BY <1>1, <3>2, <3>3, BodiesStay
    <3>5. Twin(i, j)'
      BY <1>1, <1>8, <2>4, <3>1, <3>2, <3>4 DEF Twin
    <3> QED BY <3>5 DEF Repeats
  <2>7. CASE n.name \in FirstNames(Args(d), Done(d))
    <3>1. IsList(Args(d)) /\ d \in DOMAIN seen
      BY <2>2 DEF Filled, EndsWith, LastDef, Definitions
    <3>2. DOMAIN Args(d) = 1 .. Done(d)
      BY <2>4, <3>1 DEF IsList, Done, Left
    <3>3. PICK k \in DOMAIN Args(d) : Args(d)[k].name = n.name
      BY <2>7, <3>2 DEF FirstNames
    <3>4. k \in DOMAIN seen'[d].params /\ seen'[d].params[k].name = n.name
      BY <1>1, <3>1, <3>3 DEF Args
    <3>5. Hides(j)'
      BY <1>1, <1>8, <2>4, <3>4 DEF Hides
    <3> QED BY <3>5 DEF Repeats
  <2> QED BY <2>5, <2>6, <2>7
<1> QED BY <1>4, <1>5, <1>6, <1>7, <1>8 DEF Kinds

LEMMA JustsKept ==
  ASSUME IInv, LInv, OwnBodies, Justs, [Next]_vars
  PROVE  Justs'
<1>1. ASSUME UNCHANGED seen, \A e \in errors' \ errors : e.what \notin Kinds
      PROVE  Justs'
  BY <1>1 DEF Justs, Repeats, Twin, Hides, InBodyOf, Definitions, Sig, Err, Error, Kinds
<1>2. ASSUME NEW n, Visit(n)
      PROVE  Justs'
  <2>1. PICK l : l = Len(seen')
    OBVIOUS
  <2>2. /\ Longer /\ seen'[l] = n /\ Reported(n) /\ l \in DOMAIN seen'
    BY <1>2, <2>1, VisitedLast DEF Visit
  <2>3. SUFFICES ASSUME NEW e \in errors', e.what \in Kinds, e.what = "local" => Len(e.in) = 1
                 PROVE  \E j \in DOMAIN seen' : Err(seen'[j]) = e /\ Repeats(j)'
    BY DEF Justs, Kinds, Err, Error
  <2>4. CASE e \in errors
    <3>1. PICK j \in DOMAIN seen : Err(seen[j]) = e /\ Repeats(j)
      BY <2>3, <2>4 DEF Justs
    <3>2. j \in DOMAIN seen' /\ seen'[j] = seen[j] /\ Repeats(j)'
      BY <2>2, <3>1, RepeatsStay DEF Longer
    <3> QED BY <3>1, <3>2
  <2>5. CASE e \notin errors
    <3>1. e = Err(n) /\ n.what \in Kinds /\ Taken(n)
      BY <2>2, <2>3, <2>5 DEF Reported, Kinds, Parts
    <3>2. e.what = n.what /\ e.in = n.in
      BY <3>1 DEF Err, Error
    <3>3. Repeats(l)'
      BY <1>2, <2>1, <2>3, <3>1, <3>2, TakenIsTwin
    <3> QED BY <2>2, <3>1, <3>3
  <2> QED BY <2>4, <2>5
<1>3. ASSUME Finish
      PROVE  UNCHANGED seen /\ \A e \in errors' \ errors : e.what = "undefined"
  BY <1>3, FinishIsQuiet
<1>4. ASSUME Quiet
      PROVE  Justs'
  BY <1>1, <1>4 DEF Quiet, Kinds
<1>5. ASSUME Finish
      PROVE  Justs'
  BY <1>1, <1>3, <1>5 DEF Kinds
<1> QED BY <1>2, <1>4, <1>5, VisitStep

\* The implementation of a member that was not declared.
Undeclared(e, j) ==
  /\ seen[j].what = "method" /\ seen[j].in = e.in /\ seen[j].name = e.name
  /\ \A i \in DOMAIN seen : i < j /\ seen[i].what = "declaration" /\ seen[i].in = e.in
                              => Sig(i) # Sig(j)

UndeclaredJust ==
  \A e \in errors : e.what = "undeclared" => \E j \in DOMAIN seen : Undeclared(e, j)

LEMMA UndeclaredKept ==
  ASSUME IInv, LInv, UndeclaredJust, [Next]_vars
  PROVE  UndeclaredJust'
<1>1. ASSUME UNCHANGED seen, \A e \in errors' \ errors : e.what # "undeclared"
      PROVE  UndeclaredJust'
  BY <1>1 DEF UndeclaredJust, Undeclared, Sig
<1>2. ASSUME NEW n, Visit(n)
      PROVE  UndeclaredJust'
  <2>1. PICK l : l = Len(seen')
    OBVIOUS
  <2>2. /\ Longer /\ seen'[l] = n /\ Reported(n) /\ l \in DOMAIN seen'
        /\ \A i \in DOMAIN seen' : i < l <=> i \in DOMAIN seen
    BY <1>2, <2>1, VisitedLast DEF Visit
  <2>3. SUFFICES ASSUME NEW e \in errors', e.what = "undeclared"
                 PROVE  \E j \in DOMAIN seen' : Undeclared(e, j)'
    BY DEF UndeclaredJust, Undeclared
  <2>4. CASE e \in errors
    <3>1. PICK j \in DOMAIN seen : Undeclared(e, j)
      BY <2>3, <2>4 DEF UndeclaredJust
    <3>2. j \in DOMAIN seen' /\ seen'[j] = seen[j] /\ Sig(j)' = Sig(j)
      BY <2>2, <3>1 DEF Longer, Sig
    <3>3. ASSUME NEW i \in DOMAIN seen', i < j
          PROVE  i \in DOMAIN seen /\ seen'[i] = seen[i] /\ Sig(i)' = Sig(i)
      <4>1. i \in Nat /\ j \in Nat
        BY <2>2, <3>2 DEF Longer
      <4>2. i <= j
        BY <3>3, <4>1
      <4> QED BY <2>2, <3>1, <3>3, <4>2 DEF Longer, Sig
    <3>4. Undeclared(e, j)'
      BY <3>1, <3>2, <3>3 DEF Undeclared
    <3> QED BY <3>2, <3>4
  <2>5. CASE e \notin errors
    <3>1. /\ n.what = "method" /\ SigOf(n) \notin Funs(n.in) /\ e.in = n.in /\ e.name = n.name
      <4>1. \A m : Err(m).what = m.what
        BY DEF Err, Error
      <4> QED BY <2>2, <2>3, <2>5, <4>1 DEF Reported, Kinds, Parts
    <3>2. Sig(l)' = SigOf(n)
      BY <2>2 DEF Sig, SigOf
    <3>3. ASSUME NEW i \in DOMAIN seen', i < l, seen'[i].what = "declaration", seen'[i].in = e.in
          PROVE  Sig(i)' # Sig(l)'
      <4>1. i \in DOMAIN seen /\ seen'[i] = seen[i]
        BY <2>2, <3>3 DEF Longer
      <4>2. PICK d \in Entries : d = seen[i]
        BY <4>1 DEF Entries
      <4>3. SigOf(d) \in Funs(d.in)
        BY <3>3, <4>1, <4>2 DEF LInv, Linked, LinkOK
      <4>4. Sig(i)' = SigOf(d)
        BY <4>1, <4>2 DEF Sig, SigOf
      <4> QED BY <3>1, <3>2, <3>3, <4>1, <4>2, <4>3, <4>4
    <3>4. Undeclared(e, l)'
      BY <2>2, <3>1, <3>3 DEF Undeclared
    <3> QED BY <2>2, <3>4
  <2> QED BY <2>4, <2>5
<1>3. ASSUME Quiet PROVE UndeclaredJust'
  BY <1>1, <1>3 DEF Quiet
<1>4. ASSUME Finish PROVE UndeclaredJust'
  <2>1. \A e \in errors' \ errors : e.what = "undefined"
    BY <1>4, FinishIsQuiet
  <2> QED BY <1>1, <1>4, <2>1 DEF Finish
<1> QED BY <1>2, <1>3, <1>4, VisitStep

\* What a step does to the tables.
LEMMA TableStep ==
  ASSUME IInv, [Next]_vars
  PROVE  \/ UNCHANGED tables
         \/ \E x, s : VariableAdded(x, s) /\ s.kind # "FUNCTION"
         \/ \E c, s : ClassAdded(c, s) /\ s.kind # "FUNCTION"
         \/ \E f, s, q, D : /\ FunctionAdded(f, s, q, D) /\ s.kind = "FUNCTION"
                            /\ Kindled(q) \/ Blank(tables'[q], "function")
         \/ \E sig, q : MethodDefined(sig, q)
<1> DEFINE Goal ==
         \/ UNCHANGED tables
         \/ \E x, s : VariableAdded(x, s) /\ s.kind # "FUNCTION"
         \/ \E c, s : ClassAdded(c, s) /\ s.kind # "FUNCTION"
         \/ \E f, s, q, D : /\ FunctionAdded(f, s, q, D) /\ s.kind = "FUNCTION"
                            /\ Kindled(q) \/ Blank(tables'[q], "function")
         \/ \E sig, q : MethodDefined(sig, q)
<1>1. ASSUME NEW c, NEW ps, EnterClass(c, ps)
      PROVE  Goal
  <2>1. CASE c \in DOMAIN tables[<<>>].syms
    BY <1>1, <2>1 DEF EnterClass
  <2>2. CASE c \notin DOMAIN tables[<<>>].syms
    BY <1>1, <2>2, ClassStep
  <2> QED BY <2>1, <2>2
<1>2. ASSUME NEW v, NEW x, NEW t, NEW d, Attribute(v, x, t, d) \/ LocalVariable(x, t, d)
      PROVE  Goal
  <2>1. PICK what, vis : AddVariable(what, x, t, d, vis)
    BY <1>2 DEF Attribute, LocalVariable
  <2>2. PICK s : VariableVisited(what, x, d, s)
    BY <2>1, VariableStep
  <2> QED BY <2>2 DEF VariableVisited
<1>3. ASSUME NEW v, NEW f, NEW ps, NEW t, Declaration(v, f, ps, t)
      PROVE  Goal
  <2>1. CASE HasFunction(tables[scope], f, Formatted(ps))
    BY <1>3, <2>1 DEF Declaration
  <2>2. CASE ~ HasFunction(tables[scope], f, Formatted(ps))
    <3>1. PICK s, k : /\ FunctionAdded(f, s, Append(scope, k), {}) /\ s.kind = "FUNCTION"
                      /\ Blank(tables'[Append(scope, k)], "function")
      BY <1>3, <2>2, DeclarationStep
    <3>2. PICK q : q = Append(scope, k)
      OBVIOUS
    <3>3. FunctionAdded(f, s, q, {}) /\ s.kind = "FUNCTION" /\ Blank(tables'[q], "function")
      BY <3>1, <3>2
    <3> QED BY <3>3
  <2> QED BY <2>1, <2>2
<1>4. ASSUME DeclaredParam
      PROVE  Goal
  <2>1. PICK x, s : VariableAdded(x, s) /\ s.kind = "PARAMETER"
    BY <1>4, DeclaredParamStep
  <2> QED BY <2>1
<1>5. ASSUME NEW f, NEW ps, NEW t, EnterMethod(f, ps, t)
      PROVE  Goal
  <2>1. CASE ~ HasFunction(tables[scope], f, Formatted(ps))
    BY <1>5, <2>1 DEF EnterMethod
  <2>2. CASE HasFunction(tables[scope], f, Formatted(ps))
    <3> DEFINE sig == Signature(f, Formatted(ps))
    <3>1. PICK k : MethodDefined(sig, Append(scope, k))
      BY <1>5, <2>2, MethodStep
    <3> HIDE DEF sig
    <3> QED BY <3>1
  <2> QED BY <2>1, <2>2
<1>6. ASSUME NEW f, NEW ps, NEW t, EnterFunction(f, ps, t)
      PROVE  Goal
  <2>1. CASE HasFunction(tables[scope], f, Formatted(ps))
    BY <1>6, <2>1 DEF EnterFunction
  <2>2. CASE ~ HasFunction(tables[scope], f, Formatted(ps))
    <3> DEFINE k == UniqueKey(f, Formatted(ps))
               D == {Signature(f, Formatted(ps))}
    <3>1. PICK s : FunctionAdded(f, s, <<k>>, D) /\ Kindled(<<k>>) /\ s.kind = "FUNCTION"
      BY <1>6, <2>2, FunctionStep
    <3> HIDE DEF D, k
    <3> QED BY <3>1
  <2> QED BY <2>1, <2>2
<1>7. ASSUME Param
      PROVE  Goal
  <2>1. CASE tables[scope].scope = "function"
    <3>1. PICK s : VariableAdded(Head(pending).name, s) /\ s.kind = "PARAMETER"
      BY <1>7, <2>1, ParamStep
    <3> QED BY <3>1
  <2>2. CASE tables[scope].scope # "function"
    BY <1>7, <2>2 DEF Param
  <2> QED BY <2>1, <2>2
<1>8. ASSUME \/ LeaveDeclaration \/ LeaveClass \/ StartImplementations \/ LeaveImplementation
             \/ StartFunctions \/ LeaveFunction \/ Finish \/ UNCHANGED vars
             \/ \E c \in ClassNames : EnterImplementation(c)
      PROVE  Goal
  BY <1>8 DEF LeaveDeclaration, LeaveClass, StartImplementations, LeaveImplementation,
              StartFunctions, LeaveFunction, Finish, vars, EnterImplementation
<1> HIDE DEF Goal
<1>9. Goal
  BY <1>1, <1>2, <1>3, <1>4, <1>5, <1>6, <1>7, <1>8 DEF Next
<1> QED BY <1>9 DEF Goal

\* The symbol of a function has its signature in the table.
Signed(t) ==
  \A x \in DOMAIN t.syms : t.syms[x].kind = "FUNCTION" => Signature(x, t.syms[x].params) \in DOMAIN t.funs

AllSigned == \A p \in DOMAIN tables : Signed(tables[p])

LEMMA StillSigned ==
  ASSUME NEW t, NEW u, Signed(t)
  PROVE  /\ Alike(t, u) => Signed(u)
         /\ \A x, s : s.kind # "FUNCTION" /\ WithSymbol(t, u, x, s) => Signed(u)
         /\ \A f, s : WithFunction(t, u, f, s) => Signed(u)
<1>1. Alike(t, u) => Signed(u)
  BY DEF Alike, Signed
<1>2. ASSUME NEW x, NEW s, s.kind # "FUNCTION", WithSymbol(t, u, x, s)
      PROVE  Signed(u)
  BY <1>2 DEF WithSymbol, Signed
<1>3. ASSUME NEW f, NEW s, WithFunction(t, u, f, s)
      PROVE  Signed(u)
  BY <1>3 DEF WithFunction, Signed
<1> QED BY <1>1, <1>2, <1>3

LEMMA SignedKept ==
  ASSUME IInv, AllSigned, [Next]_vars
  PROVE  AllSigned'
<1>0. scope \in DOMAIN tables /\ <<>> \in DOMAIN tables /\ \A t, k : Blank(t, k) => Signed(t)
  BY DEF IInv, WellFormed, Nesting, Blank, Signed
<1>1. SUFFICES ASSUME NEW p \in DOMAIN tables'
               PROVE  Signed(tables'[p])
  BY DEF AllSigned, Signed
<1>2. ASSUME p \in DOMAIN tables, tables'[p] = tables[p]
      PROVE  Signed(tables'[p])
  BY <1>2 DEF AllSigned
<1>3. CASE UNCHANGED tables
  BY <1>1, <1>2, <1>3
<1>4. ASSUME NEW x, NEW s, VariableAdded(x, s), s.kind # "FUNCTION"
      PROVE  Signed(tables'[p])
  <2>1. CASE p = scope
    <3>1. WithSymbol(tables[scope], tables'[scope], x, s) /\ Signed(tables[scope])
      BY <1>0, <1>4 DEF VariableAdded, AllSigned
    <3> QED BY <1>4, <2>1, <3>1, StillSigned
  <2>2. CASE p # scope
    BY <1>1, <1>2, <1>4, <2>2 DEF VariableAdded, OthersStay
  <2> QED BY <2>1, <2>2
<1>5. ASSUME NEW c, NEW s, ClassAdded(c, s), s.kind # "FUNCTION"
      PROVE  Signed(tables'[p])
  <2>1. CASE p = <<>>
    <3>1. WithSymbol(tables[<<>>], tables'[<<>>], c, s) /\ Signed(tables[<<>>])
      BY <1>0, <1>5 DEF ClassAdded, AllSigned
    <3> QED BY <1>5, <2>1, <3>1, StillSigned
  <2>2. CASE p = <<c>>
    BY <1>0, <1>5, <2>2 DEF ClassAdded
  <2>3. CASE p # <<>> /\ p # <<c>>
    BY <1>1, <1>2, <1>5, <2>3 DEF ClassAdded, OthersStay
  <2> QED BY <2>1, <2>2, <2>3
<1>6. ASSUME NEW q, Kindled(q) \/ Blank(tables'[q], "function"), p = q
      PROVE  Signed(tables'[p])
  <2>1. CASE q \in DOMAIN tables /\ Alike(tables[q], tables'[q])
    BY <1>6, <2>1, StillSigned DEF AllSigned
  <2>2. CASE Blank(tables'[q], "function")
    BY <1>0, <1>6, <2>2
  <2> QED BY <1>6, <2>1, <2>2 DEF Kindled
<1>7. ASSUME NEW f, NEW s, NEW q, NEW D, FunctionAdded(f, s, q, D),
             Kindled(q) \/ Blank(tables'[q], "function")
      PROVE  Signed(tables'[p])
  <2>1. CASE p = scope
    <3>1. WithFunction(tables[scope], tables'[scope], f, s) /\ Signed(tables[scope])
      BY <1>0, <1>7 DEF FunctionAdded, AllSigned
    <3> QED BY <2>1, <3>1, StillSigned
  <2>2. CASE p = q
    BY <1>6, <1>7, <2>2
  <2>3. CASE p # scope /\ p # q
    BY <1>1, <1>2, <1>7, <2>3 DEF FunctionAdded, OthersStay
  <2> QED BY <2>1, <2>2, <2>3
<1>8. ASSUME NEW sig, NEW q, MethodDefined(sig, q)
      PROVE  Signed(tables'[p])
  <2>1. CASE p = scope
    <3>1. /\ tables'[scope].syms = tables[scope].syms /\ tables'[scope].funs = tables[scope].funs
          /\ Signed(tables[scope])
      BY <1>0, <1>8 DEF MethodDefined, AllSigned
    <3> QED BY <2>1, <3>1 DEF Signed
  <2>2. CASE p = q
    <3>1. Kindled(q)
      BY <1>8 DEF MethodDefined
    <3> QED BY <1>6, <2>2, <3>1
  <2>3. CASE p # scope /\ p # q
    BY <1>1, <1>2, <1>8, <2>3 DEF MethodDefined, OthersStay
  <2> QED BY <2>1, <2>2, <2>3
<1> QED BY <1>3, <1>4, <1>5, <1>7, <1>8, TableStep

LEMMA SignedAtFirst == Init => AllSigned
<1> SUFFICES ASSUME Init PROVE AllSigned
  OBVIOUS
<1>1. DOMAIN tables = {<<>>} /\ DOMAIN tables[<<>>].syms = {}
  BY EmptyFields DEF Init
<1> QED BY <1>1 DEF AllSigned, Signed

\* A declaration without an implementation.
Lacking(e, i) ==
  /\ seen[i].what = "declaration" /\ seen[i].in = e.in /\ seen[i].name = e.name
  /\ \A j \in Definitions : seen[j].in = e.in => Sig(j) # Sig(i)

UndefinedJust ==
  \A e \in errors : e.what = "undefined" => place = "done" /\ \E i \in DOMAIN seen : Lacking(e, i)

LEMMA LackingAtTheEnd ==
  ASSUME IInv, LInv, AllSigned, NEW c \in DOMAIN tables[<<>>].syms, IsClass(c),
         NEW f \in Undefined(tables[<<c>>]), NEW e, e.in = <<c>>, e.name = f
  PROVE  \E i \in DOMAIN seen : Lacking(e, i)
<1>1. <<c>> \in DOMAIN tables /\ Shallow(<<c>>) /\ <<c>> # <<>>
  BY OnePath DEF IInv, WellFormed, ClassesIn, IsClass
<1> DEFINE t == tables[<<c>>]
           own == Signature(f, t.syms[f].params)
<1>2. f \in DOMAIN t.syms /\ t.syms[f].kind = "FUNCTION" /\ own \notin t.defined
  BY DEF Undefined
<1>3. own \in DOMAIN t.funs
  BY <1>1, <1>2 DEF AllSigned, Signed
<1>4. own \in Funs(<<c>>) /\ own \notin Defs(<<c>>) /\ own[1] = f
  BY <1>1, <1>2, <1>3 DEF Funs, Defs, Signature
<1> HIDE DEF own, t
<1>5. PICK d \in Entries : SigOf(d) = own /\ IsSource(d, <<c>>)
  BY <1>1, <1>4 DEF LInv, Sourced
<1>6. d.what = "declaration" /\ d.in = <<c>> /\ d.name = f
  BY <1>1, <1>4, <1>5 DEF IsSource, SigOf, Signature
<1>7. PICK i \in DOMAIN seen : d = seen[i]
  BY DEF Entries
<1>8. Sig(i) = own
  BY <1>5, <1>7 DEF SigOf, Sig
<1>9. ASSUME NEW j \in Definitions, seen[j].in = <<c>>, Sig(j) = own
      PROVE  FALSE
  <2>1. j \in DOMAIN seen /\ seen[j].what \in {"method", "function"}
    BY DEF Definitions
  <2>2. PICK m \in Entries : m = seen[j]
    BY <2>1 DEF Entries
  <2>3. SigOf(m) = own /\ m.in = <<c>> /\ EntryOK(m) /\ LinkOK(m)
    BY <1>9, <2>2 DEF SigOf, Sig, LInv, SeenOK, Linked
  <2>4. m.what = "method"
    BY <1>1, <2>1, <2>2, <2>3 DEF EntryOK
  <2> QED BY <1>4, <2>3, <2>4 DEF LinkOK
<1>10. Lacking(e, i)
  BY <1>6, <1>7, <1>8, <1>9 DEF Lacking
<1> QED BY <1>10

LEMMA UndefinedKept ==
  ASSUME IInv, LInv, AllSigned, UndefinedJust, [Next]_vars
  PROVE  UndefinedJust'
<1>1. CASE Quiet
  BY <1>1 DEF Quiet, UndefinedJust, Lacking, Definitions, Sig
<1>2. ASSUME NEW n, Visit(n)
      PROVE  UndefinedJust'
  <2>1. \A e \in errors' \ errors : e.what # "undefined"
    <3>1. \A m : Err(m).what = m.what
      BY DEF Err, Error
    <3> QED BY <1>2, <3>1 DEF Visit, Reported, Kinds, Parts
  <2>2. \A e \in errors : e.what # "undefined"
    BY <1>2 DEF Visit, UndefinedJust
  <2> QED BY <2>1, <2>2 DEF UndefinedJust
<1>3. CASE Finish
  <2>1. /\ place = "functions" /\ place' = "done" /\ UNCHANGED seen
    BY <1>3 DEF Finish
  <2>2. SUFFICES ASSUME NEW e \in errors', e.what = "undefined"
                 PROVE  \E i \in DOMAIN seen : Lacking(e, i)
    BY <2>1 DEF UndefinedJust, Lacking, Definitions, Sig
  <2>3. e \notin errors
    BY <2>1, <2>2 DEF UndefinedJust
  <2>4. PICK c \in DOMAIN tables[<<>>].syms :
          IsClass(c) /\ \E f \in Undefined(tables[<<c>>]) : e = Error("undefined", <<c>>, f)
    BY <1>3, <2>2, <2>3, FinishErrors
  <2>5. PICK f \in Undefined(tables[<<c>>]) : e = Error("undefined", <<c>>, f)
    BY <2>4
  <2>6. e.in = <<c>> /\ e.name = f
    BY <2>5 DEF Error
  <2> QED BY <2>4, <2>6, LackingAtTheEnd
<1> QED BY <1>1, <1>2, <1>3, VisitStep

\* The places of the pass before the free functions.
Early == {"classes", "class", "declaration", "implementations", "implementation", "method"}

LEMMA NeverBack ==
  ASSUME [Next]_vars, place' \in Early
  PROVE  place \in Early
<1> USE DEF Early
<1>1. CASE \E c \in ClassNames, ps \in ParentLists : EnterClass(c, ps)
  BY <1>1 DEF EnterClass
<1>2. CASE \E v \in Visibilities, x \in VariableNames, t \in Types, d \in DimLists : Attribute(v, x, t, d)
  BY <1>2 DEF Attribute
<1>3. CASE \E v \in Visibilities, f \in FunctionNames, ps \in ParamLists, t \in Types :
             Declaration(v, f, ps, t)
  BY <1>3 DEF Declaration
<1>4. CASE \E c \in ClassNames : EnterImplementation(c)
  BY <1>4 DEF EnterImplementation
<1>5. CASE \E f \in FunctionNames, ps \in ParamLists, t \in Types : EnterMethod(f, ps, t)
  BY <1>5 DEF EnterMethod
<1>6. CASE \E f \in FunctionNames, ps \in ParamLists, t \in Types : EnterFunction(f, ps, t)
  BY <1>6 DEF EnterFunction
<1>7. CASE \E x \in VariableNames, t \in Types, d \in DimLists : LocalVariable(x, t, d)
  BY <1>7 DEF LocalVariable
<1>8. CASE \/ DeclaredParam \/ LeaveDeclaration \/ LeaveClass \/ StartImplementations
           \/ LeaveImplementation \/ StartFunctions \/ Param \/ LeaveFunction \/ Finish
           \/ UNCHANGED vars
  BY <1>8 DEF DeclaredParam, LeaveDeclaration, LeaveClass, StartImplementations, LeaveImplementation,
              StartFunctions, Param, LeaveFunction, Finish, InBody, vars
<1> QED BY <1>1, <1>2, <1>3, <1>4, <1>5, <1>6, <1>7, <1>8 DEF Next

\* Until then the global table has classes only.
OnlyClasses == place \in Early => \A k \in Names(<<>>) : IsClass(k)

LEMMA OnlyClassesKept ==
  ASSUME IInv, LInv, OnlyClasses, [Next]_vars
  PROVE  OnlyClasses'
<1>0. <<>> \in DOMAIN tables
  BY DEF IInv, WellFormed, Nesting
<1>1. SUFFICES ASSUME place' \in Early
               PROVE  \A k \in Names(<<>>)' : IsClass(k)'
  BY DEF OnlyClasses
<1>2. \A k \in Names(<<>>) : IsClass(k)
  BY <1>1, NeverBack DEF OnlyClasses
<1>3. CASE <<>> \in DOMAIN tables' /\ GlobalStays
  <2>1. Names(<<>>)' = Names(<<>>) /\ \A c : IsClass(c)' <=> IsClass(c)
    BY <1>3, GlobalKeeps
  <2> QED BY <1>2, <2>1
<1>4. ASSUME NEW c, NEW ps, EnterClass(c, ps), c \notin DOMAIN tables[<<>>].syms
      PROVE  \A k \in Names(<<>>)' : IsClass(k)'
  <2>1. PICK s : ClassAdded(c, s) /\ s.kind = "CLASS"
    BY <1>4, ClassStep
  <2>2. /\ DOMAIN tables'[<<>>].syms = DOMAIN tables[<<>>].syms \cup {c} /\ tables'[<<>>].syms[c] = s
        /\ \A y \in DOMAIN tables[<<>>].syms : tables'[<<>>].syms[y] = tables[<<>>].syms[y]
        /\ <<>> \in DOMAIN tables'
    BY <1>0, <1>4, <2>1 DEF ClassAdded, WithSymbol
  <2>3. SUFFICES ASSUME NEW k \in DOMAIN tables'[<<>>].syms PROVE IsClass(k)'
    BY <2>2 DEF Names
  <2>4. CASE k = c
    BY <2>1, <2>2, <2>4 DEF IsClass
  <2>5. CASE k # c
    <3>1. IsClass(k) /\ k \in DOMAIN tables[<<>>].syms
      BY <1>0, <1>2, <2>2, <2>3, <2>5 DEF Names
    <3> QED BY <2>2, <2>3, <3>1 DEF IsClass
  <2> QED BY <2>4, <2>5
<1>5. ASSUME NEW f \in FunctionNames, NEW ps \in ParamLists, NEW t, EnterFunction(f, ps, t),
             ~ HasFunction(tables[scope], f, Formatted(ps))
      PROVE  FALSE
  <2>1. place' = "function"
    BY <1>5 DEF EnterFunction
  <2> QED BY <1>1, <2>1 DEF Early
<1> QED BY <1>3, <1>4, <1>5, GlobalStep

\* An error about a dimension, a parent or the class of an implementation is about a
\* declaration that was visited, and of one that names a class none was visited before.
NoneBefore(j, c) == \A i \in DOMAIN seen : i < j /\ seen[i].what = "class" => seen[i].name # c

BrokenAt(e, j) ==
  /\ Broken(seen[j], e)
  /\ e.what \in {"parent", "implementation"} => NoneBefore(j, e.name)

BrokenJust == \A e \in errors : e.what \in Parts => \E j \in DOMAIN seen : BrokenAt(e, j)

LEMMA BrokenKept ==
  ASSUME IInv, LInv, OnlyClasses, BrokenJust, [Next]_vars
  PROVE  BrokenJust'
<1>1. ASSUME UNCHANGED seen, \A e \in errors' \ errors : e.what \notin Parts
      PROVE  BrokenJust'
  BY <1>1 DEF BrokenJust, BrokenAt, NoneBefore, Broken, Unsized, HasParent, BadDims
<1>2. ASSUME NEW n, Visit(n)
      PROVE  BrokenJust'
  <2>1. PICK l : l = Len(seen')
    OBVIOUS
  <2>2. /\ Longer /\ seen'[l] = n /\ Reported(n) /\ l \in DOMAIN seen'
        /\ \A i \in DOMAIN seen' : i < l <=> i \in DOMAIN seen
    BY <1>2, <2>1, VisitedLast DEF Visit
  <2>3. SUFFICES ASSUME NEW e \in errors', e.what \in Parts
                 PROVE  \E j \in DOMAIN seen' :
                          /\ Broken(seen'[j], e)
                          /\ e.what \in {"parent", "implementation"} => NoneBefore(j, e.name)'
    BY DEF BrokenJust, BrokenAt, Broken, Unsized, HasParent, BadDims, Parts
  <2>4. CASE e \in errors
    <3>1. PICK j \in DOMAIN seen : BrokenAt(e, j)
      BY <2>3, <2>4 DEF BrokenJust
    <3>2. j \in DOMAIN seen' /\ seen'[j] = seen[j]
      BY <2>2, <3>1 DEF Longer
    <3>3. ASSUME NEW i \in DOMAIN seen', i < j
          PROVE  i \in DOMAIN seen /\ seen'[i] = seen[i]
      <4>1. i \in Nat /\ j \in Nat
        BY <2>2, <3>2 DEF Longer
      <4>2. i <= j
        BY <3>3, <4>1
      <4> QED BY <2>2, <3>1, <3>3, <4>2 DEF Longer
    <3> QED BY <3>1, <3>2, <3>3 DEF BrokenAt, NoneBefore
  <2>5. CASE e \notin errors
    <3>1. Broken(n, e) /\ (e.what \in {"parent", "implementation"} => ~ IsClass(e.name))
      <4>1. \A m : Err(m).what = m.what
        BY DEF Err, Error
      <4> QED BY <2>2, <2>3, <2>5, <4>1 DEF Reported, Kinds, Parts
    <3>2. ASSUME e.what \in {"parent", "implementation"}
          PROVE  NoneBefore(l, e.name)'
      <4>1. place \in Early
        BY <1>2, <3>1, <3>2 DEF Visit, Broken, Early, InClasses
      <4>2. SUFFICES ASSUME NEW i \in DOMAIN seen, seen[i].what = "class", seen[i].name = e.name
                     PROVE  FALSE
        BY <2>2 DEF NoneBefore, Longer
      <4>3. PICK d \in Entries : d = seen[i]
        BY <4>2 DEF Entries
      <4>4. e.name \in Names(<<>>)
        BY <4>2, <4>3 DEF LInv, Linked, LinkOK
      <4> QED BY <3>1, <3>2, <4>1, <4>4 DEF OnlyClasses
    <3> QED BY <2>2, <3>1, <3>2
  <2> QED BY <2>4, <2>5
<1>3. ASSUME Quiet PROVE BrokenJust'
  BY <1>1, <1>3 DEF Quiet, Parts
<1>4. ASSUME Finish PROVE BrokenJust'
  <2>1. \A e \in errors' \ errors : e.what = "undefined"
    BY <1>4, FinishIsQuiet
  <2> QED BY <1>1, <1>4, <2>1 DEF Finish, Parts
<1> QED BY <1>2, <1>3, <1>4, VisitStep

\* The table of the body that is visited has the key of the definition visited last.
KeyOf(e) == Append(e.in, UniqueKey(e.name, e.params))

KeyedBody == InBody => \A d : LastDef(d) => scope = KeyOf(seen[d])

LEMMA KeyStarts ==
  ASSUME IsList(seen), NEW what \in {"method", "function"}, NEW f, NEW ps, ps \in Seq(ParamNodes),
         Noticed(what, f, Formatted(ps), DimsOf(ps), <<>>),
         scope' = Append(scope, UniqueKey(f, Formatted(ps)))
  PROVE  KeyedBody'
<1>1. PICK n : n = Entry(what, f, Formatted(ps), DimsOf(ps), <<>>)
  OBVIOUS
<1>2. n.what = what /\ n.in = scope /\ n.name = f /\ n.params = Formatted(ps) /\ SeenIs(n)
  BY <1>1, EntryFields, SeenGrows
<1>3. PICK d : d = Len(seen')
  OBVIOUS
<1>4. LastDef(d)' /\ seen'[d] = n
  BY <1>2, <1>3, BodyStarts DEF Start
<1>5. ASSUME NEW c, LastDef(c)'
      PROVE  c = d
  <2>1. c \in Nat /\ d \in Nat
    BY <1>2, <1>4, <1>5 DEF SeenIs, LastDef, Definitions
  <2>2. c <= d /\ d <= c
    BY <1>4, <1>5 DEF LastDef
  <2> QED BY <2>1, <2>2
<1>6. scope' = KeyOf(n)
  BY <1>2 DEF KeyOf
<1> QED BY <1>4, <1>5, <1>6 DEF KeyedBody, KeyOf

LEMMA KeyedKept ==
  ASSUME IInv, LInv, KeyedBody, [Next]_vars
  PROVE  KeyedBody'
<1>0. IsList(seen)
  BY DEF LInv, SeenOK
<1>1. CASE ~ InBody'
  BY <1>1 DEF KeyedBody
<1>2. CASE (InBody /\ UNCHANGED vars) \/ Param
  <2>1. InBody /\ UNCHANGED <<seen, scope>>
    BY <1>2 DEF vars, Param
  <2> QED BY <2>1 DEF KeyedBody, LastDef, Definitions, KeyOf
<1>3. ASSUME NEW x, NEW t, NEW dims, LocalVariable(x, t, dims)
      PROVE  KeyedBody'
  <2>1. InBody /\ UNCHANGED scope /\ AddVariable("local", x, t, dims, visibility)
    BY <1>3 DEF LocalVariable
  <2>2. PICK s : VariableVisited("local", x, dims, s)
    BY <2>1, VariableStep
  <2>3. PICK n : n = Entry("local", x, <<>>, <<dims>>, <<>>)
    OBVIOUS
  <2>4. n.what = "local" /\ SeenIs(n)
    BY <1>0, <2>2, <2>3, EntryFields, SeenGrows DEF VariableVisited
  <2>5. /\ DOMAIN seen \subseteq DOMAIN seen' /\ \A i \in DOMAIN seen : seen'[i] = seen[i]
        /\ \A i \in DOMAIN seen' : i \in DOMAIN seen \/ seen'[i].what = "local"
    BY <2>4 DEF SeenIs
  <2>6. Definitions' = Definitions
    BY <2>5 DEF Definitions
  <2> QED BY <2>1, <2>5, <2>6 DEF KeyedBody, LastDef, Definitions, KeyOf
<1>4. ASSUME NEW f, NEW ps \in ParamLists, NEW t, EnterMethod(f, ps, t),
             HasFunction(tables[scope], f, Formatted(ps))
      PROVE  KeyedBody'
  <2>1. /\ ps \in Seq(ParamNodes) /\ Noticed("method", f, Formatted(ps), DimsOf(ps), <<>>)
        /\ scope' = Append(scope, UniqueKey(f, Formatted(ps)))
    BY <1>4, ListsAssumption DEF EnterMethod
  <2> QED BY <1>0, <2>1, KeyStarts
<1>5. ASSUME NEW f, NEW ps \in ParamLists, NEW t, EnterFunction(f, ps, t),
             ~ HasFunction(tables[scope], f, Formatted(ps))
      PROVE  KeyedBody'
  <2>1. /\ ps \in Seq(ParamNodes) /\ Noticed("function", f, Formatted(ps), DimsOf(ps), <<>>)
        /\ scope' = Append(scope, UniqueKey(f, Formatted(ps)))
    BY <1>5, ListsAssumption DEF EnterFunction
  <2> QED BY <1>0, <2>1, KeyStarts
<1> QED BY <1>1, <1>2, <1>3, <1>4, <1>5, BodyStep

\* An error about a parameter is about one of a free function, with the name of one
\* before it.
ParamAt(e, d) ==
  /\ seen[d].what = "function" /\ e.in = <<UniqueKey(seen[d].name, seen[d].params)>>
  /\ \E l, k \in DOMAIN seen[d].params :
       l < k /\ seen[d].params[l].name = e.name /\ seen[d].params[k].name = e.name

ParamJust == \A e \in errors : e.what = "parameter" => \E d \in DOMAIN seen : ParamAt(e, d)

LEMMA ParamIsSecond ==
  ASSUME IInv, LInv, PendingOK, OwnBodies, KeyedBody, Param, NEW e \in errors' \ errors
  PROVE  \E d \in DOMAIN seen : ParamAt(e, d)
<1>1. /\ e = Error("parameter", scope, Head(pending).name) /\ place = "function" /\ InBody
      /\ pending # <<>> /\ Head(pending).name \in DOMAIN tables[scope].syms
  BY DEF Param, ReportsParams
<1>2. PICK d : Filled(d) /\ Own(d)
  BY <1>1 DEF OwnBodies
<1>3. PICK args, v, h : args = Args(d) /\ v = Done(d) /\ h = Head(pending)
  OBVIOUS
<1>4. pending \in Seq(ParamNodes) /\ EndsWith(args, pending) /\ IsList(args)
  BY <1>1, <1>2, <1>3 DEF PendingOK, Filled, EndsWith
<1>5. v \in Nat /\ v + 1 \in 1 .. Len(args) /\ args[v + 1].name = h.name
  BY <1>1, <1>3, <1>4, NextOfList DEF Done
<1>6. h.name \in FirstNames(args, v)
  <2>1. h.name \in Names(scope)
    BY <1>1, <1>3 DEF Names, IInv
  <2>2. LocalNames(d) = {}
    BY <1>1, <1>2 DEF Filled, LocalNames
  <2> QED BY <1>1, <1>2, <1>3, <2>1, <2>2 DEF Own, Held
<1>7. PICK l \in 1 .. v : args[l].name = h.name
  BY <1>6 DEF FirstNames
<1>8. DOMAIN args = 1 .. Len(args) /\ Len(args) \in Nat
  BY <1>4 DEF IsList
<1>9. l \in DOMAIN args /\ v + 1 \in DOMAIN args /\ l < v + 1
  BY <1>5, <1>7, <1>8
<1>10. d \in DOMAIN seen /\ seen[d].what = "function" /\ scope = KeyOf(seen[d])
  BY <1>1, <1>2 DEF Filled, LastDef, Definitions, KeyedBody
<1>11. seen[d].in = <<>>
  BY <1>10 DEF LInv, SeenOK, EntryOK, Entries
<1>12. scope = <<UniqueKey(seen[d].name, seen[d].params)>>
  BY <1>10, <1>11, Paths DEF KeyOf
<1>13. e.in = scope /\ e.name = h.name
  BY <1>1, <1>3 DEF Error
<1>14. \E a, b \in DOMAIN args : a < b /\ args[a].name = e.name /\ args[b].name = e.name
  BY <1>5, <1>7, <1>9, <1>13
<1> QED BY <1>3, <1>10, <1>12, <1>13, <1>14 DEF ParamAt, Args

LEMMA ParamKept ==
  ASSUME IInv, LInv, PendingOK, OwnBodies, KeyedBody, ParamJust, [Next]_vars
  PROVE  ParamJust'
<1>1. ASSUME NEW e \in errors, e.what = "parameter", Longer
      PROVE  \E d \in DOMAIN seen' : ParamAt(e, d)'
  <2>1. PICK d \in DOMAIN seen : ParamAt(e, d)
    BY <1>1 DEF ParamJust
  <2>2. d \in DOMAIN seen' /\ seen'[d] = seen[d]
    BY <1>1, <2>1 DEF Longer
  <2> QED BY <2>1, <2>2 DEF ParamAt
<1>2. ASSUME NEW n, Visit(n)
      PROVE  ParamJust'
  <2>1. Longer /\ Reported(n)
    BY <1>2, VisitedLast DEF Visit
  <2>2. \A e \in errors' \ errors : e.what # "parameter"
    <3>1. \A m : Err(m).what = m.what
      BY DEF Err, Error
    <3> QED BY <2>1, <3>1 DEF Reported, Kinds, Parts
  <2> QED BY <1>1, <2>1, <2>2 DEF ParamJust, ParamAt
<1>3. ASSUME Quiet
      PROVE  ParamJust'
  <2>1. ASSUME NEW e \in errors' \ errors
        PROVE  \E d \in DOMAIN seen : ParamAt(e, d)
    BY <1>3, <2>1, ParamIsSecond DEF Quiet
  <2> QED BY <1>3, <2>1 DEF ParamJust, ParamAt, Quiet
<1>4. ASSUME Finish
      PROVE  ParamJust'
  <2>1. UNCHANGED seen /\ \A e \in errors' \ errors : e.what = "undefined"
    BY <1>4, FinishIsQuiet
  <2> QED BY <2>1 DEF ParamJust, ParamAt
<1> QED BY <1>2, <1>3, <1>4, VisitStep

\* A declaration has put the name into the table at the path.
Puts(e, path, name) ==
  \/ e.what = "local" /\ e.in = path /\ e.name = name
  \/ /\ e.what \in {"declaration", "method"} /\ KeyOf(e) = path
     /\ \E k \in DOMAIN e.params : e.params[k].name = name

\* The parameters that are left of a declaration are of the declaration that has made
\* the table.
DeclaredPending ==
  place = "declaration" =>
    \E e \in Entries : /\ e.what = "declaration" /\ KeyOf(e) = scope /\ IsList(pending)
                       /\ \A k \in 1 .. Len(pending) :
                            \E l \in DOMAIN e.params : e.params[l].name = pending[k].name

LEMMA EntriesStay ==
  ASSUME IInv, LInv, [Next]_vars
  PROVE  Entries \subseteq Entries'
<1>1. ASSUME UNCHANGED seen PROVE Entries \subseteq Entries'
  BY <1>1 DEF Entries
<1>2. ASSUME NEW n, Visit(n) PROVE Entries \subseteq Entries'
  BY <1>2 DEF Visit, SeenIs
<1> QED BY <1>1, <1>2, VisitStep DEF Quiet, Finish

\* What leads to, or goes on in, the declaration of a function.
LEMMA DeclaredStep ==
  ASSUME [Next]_vars, place' = "declaration"
  PROVE  \/ DeclaredParam
         \/ UNCHANGED vars
         \/ \E v, f, t : \E ps \in ParamLists :
              Declaration(v, f, ps, t) /\ ~ HasFunction(tables[scope], f, Formatted(ps))
<1>1. ASSUME NEW c, NEW ps, EnterClass(c, ps) PROVE FALSE
  BY <1>1 DEF EnterClass
<1>2. ASSUME NEW v, NEW x, NEW t, NEW d, Attribute(v, x, t, d) PROVE FALSE
  BY <1>2 DEF Attribute
<1>3. ASSUME NEW v, NEW f, NEW ps, NEW t, Declaration(v, f, ps, t)
      PROVE  ~ HasFunction(tables[scope], f, Formatted(ps))
  BY <1>3 DEF Declaration
<1>4. ASSUME NEW c, EnterImplementation(c) PROVE FALSE
  BY <1>4 DEF EnterImplementation
<1>5. ASSUME NEW f, NEW ps, NEW t, EnterMethod(f, ps, t) PROVE FALSE
  BY <1>5 DEF EnterMethod
<1>6. ASSUME NEW f, NEW ps, NEW t, EnterFunction(f, ps, t) PROVE FALSE
  BY <1>6 DEF EnterFunction
<1>7. ASSUME NEW x, NEW t, NEW d, LocalVariable(x, t, d) PROVE FALSE
  BY <1>7 DEF LocalVariable, InBody
<1>8. ASSUME \/ LeaveDeclaration \/ LeaveClass \/ StartImplementations \/ LeaveImplementation
             \/ StartFunctions \/ Param \/ LeaveFunction \/ Finish
      PROVE  FALSE
  BY <1>8 DEF LeaveDeclaration, LeaveClass, StartImplementations, LeaveImplementation,
              StartFunctions, Param, LeaveFunction, Finish, InBody
<1> QED BY <1>1, <1>2, <1>3, <1>4, <1>5, <1>6, <1>7, <1>8 DEF Next

LEMMA DeclaredKept ==
  ASSUME IInv, LInv, DeclaredPending, [Next]_vars
  PROVE  DeclaredPending'
<1>0. SUFFICES ASSUME place' = "declaration"
               PROVE  \E e \in Entries' :
                        /\ e.what = "declaration" /\ KeyOf(e) = scope' /\ IsList(pending')
                        /\ \A k \in 1 .. Len(pending') :
                             \E l \in DOMAIN e.params : e.params[l].name = pending'[k].name
  BY DEF DeclaredPending, KeyOf, IsList
<1>1. CASE UNCHANGED vars
  BY <1>0, <1>1 DEF vars, DeclaredPending, Entries
<1>2. CASE DeclaredParam
  <2>1. /\ place = "declaration" /\ pending # <<>> /\ pending' = Tail(pending)
        /\ UNCHANGED <<seen, scope>>
    BY <1>2 DEF DeclaredParam
  <2>2. PICK e \in Entries :
          /\ e.what = "declaration" /\ KeyOf(e) = scope /\ IsList(pending)
          /\ \A k \in 1 .. Len(pending) : \E l \in DOMAIN e.params : e.params[l].name = pending[k].name
    BY <2>1 DEF DeclaredPending
  <2>3. PICK S : pending \in Seq(S)
    BY <2>2 DEF IsList
  <2>4. /\ Tail(pending) \in Seq(S) /\ Len(Tail(pending)) = Len(pending) - 1 /\ Len(pending) \in Nat
        /\ \A k \in 1 .. Len(Tail(pending)) : Tail(pending)[k] = pending[k + 1]
    BY <2>1, <2>3
  <2>5. IsList(pending') /\ e \in Entries'
    BY <2>1, <2>2, <2>4 DEF IsList, Entries
  <2>6. ASSUME NEW k \in 1 .. Len(pending')
        PROVE  \E l \in DOMAIN e.params : e.params[l].name = pending'[k].name
    <3>1. PICK m : m = k + 1
      OBVIOUS
    <3>2. m \in 1 .. Len(pending) /\ pending'[k] = pending[m]
      BY <2>1, <2>4, <2>6, <3>1
    <3> QED BY <2>2, <3>2
  <2> QED BY <2>1, <2>2, <2>5, <2>6
<1>3. ASSUME NEW v, NEW f, NEW t, NEW ps \in ParamLists, Declaration(v, f, ps, t),
             ~ HasFunction(tables[scope], f, Formatted(ps))
      PROVE  \E e \in Entries' :
               /\ e.what = "declaration" /\ KeyOf(e) = scope' /\ IsList(pending')
               /\ \A k \in 1 .. Len(pending') :
                    \E l \in DOMAIN e.params : e.params[l].name = pending'[k].name
  <2>1. /\ pending' = Formatted(ps) /\ scope' = Append(scope, UniqueKey(f, Formatted(ps)))
        /\ Noticed("declaration", f, Formatted(ps), DimsOf(ps), <<>>) /\ IsList(seen)
        /\ ps \in Seq(ParamNodes)
    BY <1>3, ListsAssumption DEF Declaration, LInv, SeenOK
  <2>2. PICK n : n = Entry("declaration", f, Formatted(ps), DimsOf(ps), <<>>)
    OBVIOUS
  <2>3. /\ n.what = "declaration" /\ n.in = scope /\ n.name = f /\ n.params = Formatted(ps)
        /\ SeenIs(n)
    BY <2>1, <2>2, EntryFields, SeenGrows
  <2>4. IsList(Formatted(ps))
    BY <2>1, FormattedEndsWith DEF EndsWith
  <2>5. DOMAIN Formatted(ps) = 1 .. Len(Formatted(ps))
    BY <2>4 DEF IsList
  <2>6. \A k \in 1 .. Len(pending') : \E l \in DOMAIN n.params : n.params[l].name = pending'[k].name
    BY <2>1, <2>3, <2>5
  <2>7. n \in Entries' /\ KeyOf(n) = scope' /\ IsList(pending')
    BY <2>1, <2>3, <2>4 DEF SeenIs, KeyOf
  <2> QED BY <2>3, <2>6, <2>7
<1> QED BY <1>0, <1>1, <1>2, <1>3, DeclaredStep

\* A table of a function is changed only while it is the current one, by a parameter or
\* a local variable; those of members are the ones at paths of two names.
Deep == place \in {"declaration", "method"}

LEMMA DeepStep ==
  ASSUME [Next]_vars, Deep
  PROVE  \/ DeclaredParam \/ Param \/ \E x, t, d : LocalVariable(x, t, d)
         \/ UNCHANGED tables
<1>1. ASSUME NEW c, NEW ps, EnterClass(c, ps) PROVE FALSE
  BY <1>1 DEF EnterClass, Deep
<1>2. ASSUME NEW v, NEW x, NEW t, NEW d, Attribute(v, x, t, d) PROVE FALSE
  BY <1>2 DEF Attribute, Deep
<1>3. ASSUME NEW v, NEW f, NEW ps, NEW t, Declaration(v, f, ps, t) PROVE FALSE
  BY <1>3 DEF Declaration, Deep
<1>4. ASSUME NEW c, EnterImplementation(c) PROVE FALSE
  BY <1>4 DEF EnterImplementation, Deep
<1>5. ASSUME NEW f, NEW ps, NEW t, EnterMethod(f, ps, t) PROVE FALSE
  BY <1>5 DEF EnterMethod, Deep
<1>6. ASSUME NEW f, NEW ps, NEW t, EnterFunction(f, ps, t) PROVE FALSE
  BY <1>6 DEF EnterFunction, Deep
<1>7. ASSUME \/ LeaveDeclaration \/ LeaveClass \/ StartImplementations \/ LeaveImplementation
             \/ StartFunctions \/ LeaveFunction \/ Finish \/ UNCHANGED vars
      PROVE  UNCHANGED tables
  BY <1>7 DEF LeaveDeclaration, LeaveClass, StartImplementations, LeaveImplementation,
              StartFunctions, LeaveFunction, Finish, vars
<1> QED BY <1>1, <1>2, <1>3, <1>4, <1>5, <1>6, <1>7 DEF Next

LEMMA DeepStays ==
  ASSUME IInv, [Next]_vars, ~ Deep, NEW p, ~ Shallow(p)
  PROVE  Names(p)' \subseteq Names(p)
<1>1. Shallow(scope) /\ scope # p /\ p # <<>> /\ \A c : p # <<c>>
  BY DEF Deep, IInv, ScopeFits, Shallow
<1>2. ASSUME p \in DOMAIN tables' => p \in DOMAIN tables /\ tables'[p].syms = tables[p].syms
      PROVE  Names(p)' \subseteq Names(p)
  BY <1>2 DEF Names
<1>3. CASE UNCHANGED tables
  BY <1>2, <1>3
<1>4. ASSUME NEW x, NEW s, VariableAdded(x, s)
      PROVE  Names(p)' \subseteq Names(p)
  BY <1>1, <1>2, <1>4 DEF VariableAdded, OthersStay
<1>5. ASSUME NEW c, NEW s, ClassAdded(c, s)
      PROVE  Names(p)' \subseteq Names(p)
  BY <1>1, <1>2, <1>5 DEF ClassAdded, OthersStay
<1>6. ASSUME NEW q, DOMAIN tables' = DOMAIN tables \cup {q}, OthersStay({scope, q}),
             Kindled(q) \/ Blank(tables'[q], "function")
      PROVE  Names(p)' \subseteq Names(p)
  <2>1. CASE p = q
    BY <1>6, <2>1 DEF Kindled, Alike, Blank, Names
  <2>2. CASE p # q
    BY <1>1, <1>2, <1>6, <2>2 DEF OthersStay
  <2> QED BY <2>1, <2>2
<1>7. ASSUME NEW f, NEW s, NEW q, NEW D, FunctionAdded(f, s, q, D),
             Kindled(q) \/ Blank(tables'[q], "function")
      PROVE  Names(p)' \subseteq Names(p)
  BY <1>6, <1>7 DEF FunctionAdded
<1>8. ASSUME NEW sig, NEW q, MethodDefined(sig, q)
      PROVE  Names(p)' \subseteq Names(p)
  BY <1>6, <1>8 DEF MethodDefined
<1> QED BY <1>3, <1>4, <1>5, <1>7, <1>8, TableStep

\* A name in the table of a member function was put into it by a declaration.
MemberNames == \A p : ~ Shallow(p) => \A x \in Names(p) : \E e \in Entries : Puts(e, p, x)

LEMMA MemberNamesKept ==
  ASSUME IInv, LInv, PendingOK, Bodies, KeyedBody, DeclaredPending, MemberNames, [Next]_vars
  PROVE  MemberNames'
<1>0. Entries \subseteq Entries'
  BY EntriesStay
<1>1. ASSUME NEW p, ~ Shallow(p), NEW x \in Names(p)
      PROVE  \E e \in Entries' : Puts(e, p, x)
  BY <1>0, <1>1 DEF MemberNames
<1>2. SUFFICES ASSUME NEW p, ~ Shallow(p), NEW y \in Names(p)'
               PROVE  \E e \in Entries' : Puts(e, p, y)
  BY DEF MemberNames, Shallow, Puts, KeyOf
<1>3. CASE y \in Names(p)
  BY <1>1, <1>2, <1>3
<1>4. ASSUME y \notin Names(p), NEW x, NEW s, VariableAdded(x, s)
      PROVE  p = scope /\ y = x
  BY <1>2, <1>4 DEF VariableAdded, WithSymbol, OthersStay, Names, IInv
<1>5. ASSUME y \notin Names(p), DeclaredParam
      PROVE  \E e \in Entries' : Puts(e, p, y)
  <2>1. PICK s : VariableAdded(Head(pending).name, s)
    BY <1>5, DeclaredParamStep
  <2>2. p = scope /\ y = Head(pending).name /\ place = "declaration" /\ pending # <<>>
    BY <1>4, <1>5, <2>1 DEF DeclaredParam
  <2>3. PICK e \in Entries :
          /\ e.what = "declaration" /\ KeyOf(e) = scope /\ IsList(pending)
          /\ \A k \in 1 .. Len(pending) : \E l \in DOMAIN e.params : e.params[l].name = pending[k].name
    BY <2>2 DEF DeclaredPending
  <2>4. Head(pending) = pending[1] /\ 1 \in 1 .. Len(pending)
    BY <2>2, <2>3 DEF IsList
  <2> QED BY <1>0, <2>2, <2>3, <2>4 DEF Puts
<1>6. ASSUME y \notin Names(p), Deep, Param
      PROVE  \E e \in Entries' : Puts(e, p, y)
  <2>1. InBody /\ pending # <<>> /\ place = "method"
    BY <1>6 DEF Param, InBody, Deep
  <2>2. PICK d : Filled(d)
    BY <2>1 DEF Bodies
  <2>3. PICK s : VariableAdded(Head(pending).name, s)
    BY <1>6, <2>2, ParamStep DEF Filled
  <2>4. p = scope /\ y = Head(pending).name
    BY <1>4, <1>6, <2>3
  <2>5. PICK v : v = Left(Args(d), pending)
    OBVIOUS
  <2>6. v + 1 \in 1 .. Len(Args(d)) /\ Args(d)[v + 1].name = Head(pending).name
    BY <2>1, <2>2, <2>5, NextOfList DEF Filled, PendingOK
  <2>7. v + 1 \in DOMAIN Args(d)
    BY <2>2, <2>6 DEF Filled, EndsWith, IsList
  <2>8. /\ d \in DOMAIN seen /\ seen[d].what = "method" /\ scope = KeyOf(seen[d])
        /\ seen[d] \in Entries
    BY <2>1, <2>2 DEF Filled, LastDef, Definitions, KeyedBody, Entries
  <2>9. Puts(seen[d], p, y)
    BY <2>4, <2>6, <2>7, <2>8 DEF Puts, Args
  <2> QED BY <1>0, <2>8, <2>9
<1>7. ASSUME y \notin Names(p), NEW x, NEW t, NEW dims, LocalVariable(x, t, dims)
      PROVE  \E e \in Entries' : Puts(e, p, y)
  <2>1. AddVariable("local", x, t, dims, visibility) /\ IsList(seen)
    BY <1>7 DEF LocalVariable, LInv, SeenOK
  <2>2. PICK s : VariableVisited("local", x, dims, s)
    BY <2>1, VariableStep
  <2>3. PICK n : n = Entry("local", x, <<>>, <<dims>>, <<>>)
    OBVIOUS
  <2>4. n.what = "local" /\ n.in = scope /\ n.name = x /\ SeenIs(n)
    BY <2>1, <2>2, <2>3, EntryFields, SeenGrows DEF VariableVisited
  <2>5. p = scope /\ y = x
    BY <1>4, <1>7, <2>2 DEF VariableVisited
  <2>6. Puts(n, p, y) /\ n \in Entries'
    BY <2>4, <2>5 DEF Puts, SeenIs
  <2> QED BY <2>6
<1>8. CASE UNCHANGED tables
  BY <1>2, <1>3, <1>8 DEF Names
<1>9. CASE ~ Deep
  BY <1>2, <1>3, <1>9, DeepStays
<1> QED BY <1>3, <1>5, <1>6, <1>7, <1>8, <1>9, DeepStep

\* An error about a local variable of a member function is about one whose name its
\* table had got.
InMember(e, j) == Err(seen[j]) = e /\ \E i \in DOMAIN seen : i < j /\ Puts(seen[i], e.in, e.name)

LocalJust ==
  \A e \in errors : e.what = "local" /\ Len(e.in) # 1 => \E j \in DOMAIN seen : InMember(e, j)

LEMMA LocalKept ==
  ASSUME IInv, LInv, MemberNames, LocalJust, [Next]_vars
  PROVE  LocalJust'
<1>1. ASSUME UNCHANGED seen, \A e \in errors' \ errors : e.what # "local"
      PROVE  LocalJust'
  BY <1>1 DEF LocalJust, InMember, Err, Error, Puts, KeyOf
<1>2. ASSUME NEW n, Visit(n)
      PROVE  LocalJust'
  <2>1. PICK l : l = Len(seen')
    OBVIOUS
  <2>2. /\ Longer /\ seen'[l] = n /\ Reported(n) /\ l \in DOMAIN seen'
        /\ \A i \in DOMAIN seen' : i < l <=> i \in DOMAIN seen
    BY <1>2, <2>1, VisitedLast DEF Visit
  <2>3. SUFFICES ASSUME NEW e \in errors', e.what = "local", Len(e.in) # 1
                 PROVE  \E j \in DOMAIN seen' :
                          Err(seen'[j]) = e /\ \E i \in DOMAIN seen' : i < j /\ Puts(seen'[i], e.in, e.name)
    BY DEF LocalJust, InMember, Err, Error, Puts, KeyOf
  <2>4. CASE e \in errors
    <3>1. PICK j \in DOMAIN seen : InMember(e, j)
      BY <2>3, <2>4 DEF LocalJust
    <3>2. PICK i \in DOMAIN seen : i < j /\ Puts(seen[i], e.in, e.name)
      BY <3>1 DEF InMember
    <3>3. /\ j \in DOMAIN seen' /\ seen'[j] = seen[j] /\ i \in DOMAIN seen' /\ seen'[i] = seen[i]
      BY <2>2, <3>1, <3>2 DEF Longer
    <3> QED BY <3>1, <3>2, <3>3 DEF InMember
  <2>5. CASE e \notin errors
    <3>1. \A m : Err(m).what = m.what /\ Err(m).in = m.in /\ Err(m).name = m.name
      BY DEF Err, Error
    <3>2. e = Err(n) /\ Taken(n)
      BY <2>2, <2>3, <2>5 DEF Reported, Parts
    <3>3. n.what = "local" /\ n.in = e.in /\ n.name = e.name /\ n.in = scope /\ InBody
      BY <1>2, <2>3, <3>1, <3>2 DEF Visit
    <3>4. ~ Shallow(scope)
      <4>1. place = "function" => Len(scope) = 1
        <5>1. place = "function" => scope = <<scope[1]>>
          BY DEF IInv, ScopeFits
        <5>2. Len(<<scope[1]>>) = 1
          OBVIOUS
        <5> QED BY <5>1, <5>2
      <4>2. scope = <<scope[1], scope[2]>>
        BY <2>3, <3>3, <4>1 DEF InBody, IInv, ScopeFits
      <4>3. Len(<<scope[1], scope[2]>>) = 2 /\ Len(<<scope[1]>>) = 1 /\ Len(<<>>) = 0
        OBVIOUS
      <4> QED BY <4>2, <4>3 DEF Shallow
    <3>5. PICK m \in Entries : Puts(m, scope, n.name)
      BY <3>2, <3>3, <3>4 DEF MemberNames, Taken
    <3>6. PICK i \in DOMAIN seen : seen[i] = m
      BY <3>5 DEF Entries
    <3>7. i \in DOMAIN seen' /\ seen'[i] = m /\ i < l
      BY <2>2, <3>6 DEF Longer
    <3> QED BY <2>2, <3>2, <3>3, <3>5, <3>7
  <2> QED BY <2>4, <2>5
<1>3. CASE Quiet
  BY <1>1, <1>3 DEF Quiet
<1>4. CASE Finish
  <2>1. UNCHANGED seen /\ \A e \in errors' \ errors : e.what = "undefined"
    BY <1>4, FinishIsQuiet
  <2> QED BY <1>1, <2>1
<1> QED BY <1>2, <1>3, <1>4, VisitStep

\* There are no other errors.
ErrorKinds == Kinds \cup Parts \cup {"undeclared", "undefined", "parameter"}

KindsKnown == \A e \in errors : e.what \in ErrorKinds

LEMMA KindsKept ==
  ASSUME IInv, LInv, KindsKnown, [Next]_vars
  PROVE  KindsKnown'
<1>1. ASSUME NEW e \in errors' \ errors
      PROVE  e.what \in ErrorKinds
  <2>1. CASE Quiet
    BY <1>1, <2>1 DEF Quiet, ErrorKinds
  <2>2. CASE Finish
    BY <1>1, <2>2, FinishIsQuiet DEF ErrorKinds
  <2>3. ASSUME NEW n, Visit(n)
        PROVE  e.what \in ErrorKinds
    <3>1. \A m : Err(m).what = m.what
      BY DEF Err, Error
    <3> QED BY <1>1, <2>3, <3>1 DEF Visit, Reported, ErrorKinds
  <2> QED BY <2>1, <2>2, <2>3, VisitStep
<1> QED BY <1>1 DEF KindsKnown, ErrorKinds, Kinds, Parts

-----------------------------------------------------------------------------

(***************************************************************************)
(* The rules of declarations.                                              *)
(***************************************************************************)

\* What is so of the declarations and the bodies of every program whose functions have
\* keys that are no names of classes.
BInv == IInv /\ LInv /\ PendingOK /\ TablesNamed /\ Bodies /\ LocalsHaveBodies

THEOREM BodiesStandBehindDefinitions ==
  ASSUME KeysOffClasses
  PROVE  Spec => []BInv
<1>1. /\ IInv /\ LInv /\ TablesNamed /\ [Next]_vars => TablesNamed'
      /\ IInv /\ LInv /\ TablesNamed /\ PendingOK /\ Bodies /\ [Next]_vars => Bodies'
      /\ IInv /\ LInv /\ Bodies /\ LocalsHaveBodies /\ [Next]_vars => LocalsHaveBodies'
      /\ IInv /\ AllFit /\ PendingOK /\ [Next]_vars => AllFit' /\ PendingOK'
  BY NamedKept, BodiesKept, LocalsKept, FitKept
<1>2. Init => TablesNamed /\ Bodies /\ LocalsHaveBodies /\ AllFit /\ PendingOK
  <2>1. Init => Bodies /\ LocalsHaveBodies
    BY DEF Init, Bodies, InBody, LocalsHaveBodies
  <2> QED BY <2>1, NamedAtFirst, FitAtFirst
<1>3. IInv /\ LInv /\ TablesNamed /\ Bodies /\ LocalsHaveBodies /\ PendingOK => BInv
  BY DEF BInv
<1> QED BY <1>1, <1>2, <1>3, ScopesAreSound, TablesFollowDeclarations, PTL DEF Spec

\* The second of two declarations of a scope is reported, a variable with the name of a
\* parameter too, and a parameter of a free function with the name of one before it.
THEOREM RepeatsStayReported ==
  ASSUME KeysOffClasses
  PROVE  Spec => []RepeatsAreReported
<1>1. BInv /\ Reports /\ [Next]_vars => Reports'
  BY ReportsKept DEF BInv
<1>2. Init => Reports
  BY DEF Init, Reports
<1>3. BInv /\ Reports => RepeatsAreReported
  BY RepeatsHold DEF BInv
<1>4. Spec => []BInv
  BY BodiesStandBehindDefinitions
<1> QED BY <1>1, <1>2, <1>3, <1>4, PTL DEF Spec

\* Everything that is so of the errors.
JustInv ==
  /\ OwnBodies /\ OnlyClasses /\ AllSigned /\ KeyedBody /\ DeclaredPending /\ MemberNames
  /\ KindsKnown /\ Justs /\ UndeclaredJust /\ UndefinedJust /\ BrokenJust /\ ParamJust /\ LocalJust

LEMMA ErrorsHold ==
  ASSUME LInv, LocalsHaveBodies, JustInv
  PROVE  ErrorsAreJust
<1>1. IsList(seen) /\ DOMAIN seen = 1 .. Len(seen) /\ Len(seen) \in Nat
  BY SeenDomain DEF LInv, SeenOK
<1>2. \A j \in DOMAIN seen : \A i \in 1 .. j - 1 : i \in DOMAIN seen /\ i < j
  BY <1>1
<1>3. \A j \in DOMAIN seen : \A i \in DOMAIN seen : i < j => i \in 1 .. j - 1
  BY <1>1
<1>4. ASSUME NEW e \in errors, e.what = "undeclared"
      PROVE  LacksDeclaration(e)
  <2>1. PICK j \in DOMAIN seen : Undeclared(e, j)
    BY <1>4 DEF JustInv, UndeclaredJust
  <2> QED BY <1>2, <1>4, <2>1 DEF LacksDeclaration, Undeclared, Definitions
<1>5. ASSUME NEW e \in errors, e.what = "undefined"
      PROVE  LacksDefinition(e)
  BY <1>5 DEF LacksDefinition, JustInv, UndefinedJust, Lacking
<1>6. ASSUME NEW e \in errors, e.what \in Kinds, e.what = "local" => Len(e.in) = 1
      PROVE  RepeatsName(e)
  <2>1. PICK j \in DOMAIN seen : Err(seen[j]) = e /\ Repeats(j)
    BY <1>6 DEF JustInv, Justs
  <2>2. ErrorAt(j) = e /\ seen[j].what = e.what
    BY <2>1 DEF Err, ErrorAt, Error
  <2>3. j \in Declaring /\ e.what \in Members \cup {"class", "function", "local"}
    BY <1>6, <2>2 DEF Declaring, Kinds, Members
  <2>4. CASE Hides(j)
    <3>1. HidesParam(j) /\ e.what = "local"
      BY <1>1, <2>2, <2>4, HidesIs DEF Hides
    <3> QED BY <1>6, <2>2, <2>3, <3>1 DEF RepeatsName
  <2>5. ASSUME NEW i, Twin(i, j)
        PROVE  RepeatsName(e)
    <3>1. i \in 1 .. j - 1
      BY <1>3, <2>5 DEF Twin
    <3>2. Clash(i, j)
      BY <1>1, <2>3, <2>5, <3>1, ClashIsTwin
    <3> QED BY <1>6, <2>2, <2>3, <3>1, <3>2 DEF RepeatsName
  <2> QED BY <2>1, <2>4, <2>5 DEF Repeats
<1>7. ASSUME NEW e \in errors, e.what = "local", Len(e.in) # 1
      PROVE  RepeatsInMember(e)
  <2>1. PICK j \in DOMAIN seen : InMember(e, j)
    BY <1>7 DEF JustInv, LocalJust
  <2>2. PICK i \in DOMAIN seen : i < j /\ Puts(seen[i], e.in, e.name)
    BY <2>1 DEF InMember
  <2>3. ErrorAt(j) = e /\ seen[j].what = "local"
    BY <1>7, <2>1 DEF InMember, Err, ErrorAt, Error
  <2>4. PutsInto(i, e.in, e.name) /\ i \in 1 .. j - 1
    BY <1>3, <2>2 DEF Puts, PutsInto, KeyOf
  <2> QED BY <1>7, <2>3, <2>4 DEF RepeatsInMember, Declaring
<1>8. ASSUME NEW e \in errors, e.what = "parameter"
      PROVE  RepeatsParam(e)
  <2>1. PICK d \in DOMAIN seen : ParamAt(e, d)
    BY <1>8 DEF JustInv, ParamJust
  <2> QED BY <1>8, <2>1 DEF ParamAt, RepeatsParam, Definitions
<1>9. ASSUME NEW e \in errors, e.what \in Parts
      PROVE  IsUnsized(e) \/ LacksParent(e) \/ LacksClass(e)
  <2>1. PICK j \in DOMAIN seen : BrokenAt(e, j)
    BY <1>9 DEF JustInv, BrokenJust
  <2>2. e.what \in {"parent", "implementation"} => NoClassBefore(j, e.name)
    BY <1>2, <2>1 DEF BrokenAt, NoneBefore, NoClassBefore
  <2>3. CASE e.what = "dimension"
    <3>1. \A d : BadDims(d) => \E k \in DOMAIN d : d[k] \notin Sizes
      BY ListsAssumption DEF BadDims, Sizes, Dynamic
    <3> QED BY <2>1, <2>3, <3>1 DEF BrokenAt, Broken, Unsized, IsUnsized
  <2>4. CASE e.what = "parent"
    BY <2>1, <2>2, <2>4 DEF BrokenAt, Broken, HasParent, LacksParent
  <2>5. CASE e.what = "implementation"
    BY <2>1, <2>2, <2>5 DEF BrokenAt, Broken, LacksClass
  <2> QED BY <1>9, <2>3, <2>4, <2>5 DEF Parts
<1>10. ASSUME NEW e \in errors
       PROVE  \/ e.what \in {"undeclared", "undefined", "parameter"} \cup Parts
              \/ e.what \in Kinds /\ (e.what = "local" => Len(e.in) = 1)
              \/ e.what = "local" /\ Len(e.in) # 1
  BY <1>10 DEF JustInv, KindsKnown, ErrorKinds
<1> QED BY <1>4, <1>5, <1>6, <1>7, <1>8, <1>9, <1>10 DEF ErrorsAreJust

\* Whatever is reported, the declarations visited so far break the rule that the report
\* is about, at the place and with the name it gives, in every program whose functions
\* have keys that differ from the names of classes, and from each other where their
\* signatures do.
THEOREM ErrorsStayJust ==
  ASSUME KeysOffClasses, KeysApart
  PROVE  Spec => []ErrorsAreJust
<1>1. BInv /\ JustInv /\ [Next]_vars => JustInv'
  <2>1. /\ BInv /\ OwnBodies /\ [Next]_vars => OwnBodies'
        /\ BInv /\ OwnBodies /\ Justs /\ [Next]_vars => Justs'
        /\ BInv /\ UndeclaredJust /\ [Next]_vars => UndeclaredJust'
        /\ BInv /\ AllSigned /\ [Next]_vars => AllSigned'
        /\ BInv /\ AllSigned /\ UndefinedJust /\ [Next]_vars => UndefinedJust'
    BY BodiesKept, JustsKept, UndeclaredKept, SignedKept, UndefinedKept DEF BInv
  <2>2. /\ BInv /\ OnlyClasses /\ [Next]_vars => OnlyClasses'
        /\ BInv /\ OnlyClasses /\ BrokenJust /\ [Next]_vars => BrokenJust'
        /\ BInv /\ KindsKnown /\ [Next]_vars => KindsKnown'
    BY OnlyClassesKept, BrokenKept, KindsKept DEF BInv
  <2>3. /\ BInv /\ KeyedBody /\ [Next]_vars => KeyedBody'
        /\ BInv /\ OwnBodies /\ KeyedBody /\ ParamJust /\ [Next]_vars => ParamJust'
    BY KeyedKept, ParamKept DEF BInv
  <2>4. /\ BInv /\ DeclaredPending /\ [Next]_vars => DeclaredPending'
        /\ BInv /\ KeyedBody /\ DeclaredPending /\ MemberNames /\ [Next]_vars => MemberNames'
        /\ BInv /\ MemberNames /\ LocalJust /\ [Next]_vars => LocalJust'
    BY DeclaredKept, MemberNamesKept, LocalKept DEF BInv
  <2> QED BY <2>1, <2>2, <2>3, <2>4 DEF JustInv
<1>2. Init => JustInv
  <2>1. Init => AllSigned
    BY SignedAtFirst
  <2>2. Init => OwnBodies /\ KeyedBody /\ DeclaredPending
    BY DEF Init, OwnBodies, KeyedBody, DeclaredPending, InBody
  <2>3. Init => OnlyClasses /\ MemberNames
    <3>1. Init => \A p : Names(p) = {}
      BY DEF Init, Names, EmptyTable
    <3> QED BY <3>1 DEF OnlyClasses, MemberNames
  <2>4. Init => /\ KindsKnown /\ Justs /\ UndeclaredJust /\ UndefinedJust /\ BrokenJust
                /\ ParamJust /\ LocalJust
    BY DEF Init, KindsKnown, Justs, UndeclaredJust, UndefinedJust, BrokenJust, ParamJust, LocalJust
  <2> QED BY <2>1, <2>2, <2>3, <2>4 DEF JustInv
<1>3. BInv /\ JustInv => ErrorsAreJust
  BY ErrorsHold DEF BInv
<1>4. Spec => []BInv
  BY BodiesStandBehindDefinitions
<1> QED BY <1>1, <1>2, <1>3, <1>4, PTL DEF Spec

LEMMA OwnHolds ==
  ASSUME IInv, LInv, LocalsHaveBodies, OwnBodies
  PROVE  OwnScope
<1>1. IsList(seen)
  BY DEF LInv, SeenOK
<1> DEFINE last == CHOOSE i \in Definitions : \A e \in Definitions : e <= i
           P(d) == /\ DOMAIN tables[scope].syms = ParamNames(d) \cup {seen[j].name : j \in Body(d)}
                   /\ \A k \in DOMAIN seen[d].params :
                        (\A l \in 1 .. k - 1 : seen[d].params[l].name # seen[d].params[k].name)
                          => tables[scope].syms[seen[d].params[k].name].type = seen[d].params[k].type
<1>2. SUFFICES ASSUME place = "function", pending = <<>>
               PROVE  P(last)
  BY DEF OwnScope
<1>3. PICK d : Filled(d) /\ Own(d)
  BY <1>2 DEF OwnBodies, InBody
<1>4. last = d
  BY <1>1, <1>3, LastIs DEF Filled
<1>5. IsList(Args(d))
  BY <1>3 DEF Filled, EndsWith
<1>6. DOMAIN Args(d) = 1 .. Done(d)
  BY <1>2, <1>5 DEF IsList, Done, Left
<1>7. Body(d) = Locals(d)
  <2>1. ASSUME NEW j \in DOMAIN seen, seen[j].what = "local", BodyOf(j) = d
        PROVE  d < j
    <3>1. PICK c : InBodyOf(j, c)
      BY <2>1 DEF LocalsHaveBodies
    <3>2. c = d
      BY <1>1, <2>1, <3>1, BodyIs
    <3> QED BY <3>1, <3>2 DEF InBodyOf
  <2>2. ASSUME NEW j \in DOMAIN seen, d < j
        PROVE  BodyOf(j) = d
    <3>1. InBodyOf(j, d)
      BY <1>3, <2>2 DEF Filled, LastDef, InBodyOf
    <3> QED BY <1>1, <3>1, BodyIs
  <2> QED BY <2>1, <2>2 DEF Body, Locals
<1>8. Names(scope) = Held(d) /\ Names(scope) = DOMAIN tables[scope].syms /\ FirstTypes(d)
  BY <1>2, <1>3 DEF Filled, Own, Names, IInv
<1>9. Held(d) = ParamNames(d) \cup {seen[j].name : j \in Body(d)}
  BY <1>6, <1>7 DEF Held, FirstNames, ParamNames, LocalNames, Args
<1>10. P(d)
  BY <1>6, <1>8, <1>9 DEF FirstTypes, Args
<1> HIDE DEF last, P
<1> QED BY <1>4, <1>10

\* The body of a free function has its parameters and its local variables, and nothing
\* of another function or class, in every program whose functions have keys apart.
THEOREM ScopesStayOwn ==
  ASSUME KeysOffClasses, KeysApart
  PROVE  Spec => []OwnScope
<1>1. BInv /\ OwnBodies /\ [Next]_vars => OwnBodies'
  BY BodiesKept DEF BInv
<1>2. Init => OwnBodies
  BY DEF Init, OwnBodies, InBody
<1>3. BInv /\ OwnBodies => OwnScope
  BY OwnHolds DEF BInv
<1>4. Spec => []BInv
  BY BodiesStandBehindDefinitions
<1> QED BY <1>1, <1>2, <1>3, <1>4, PTL DEF Spec

=============================================================================
