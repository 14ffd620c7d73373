----------------------------- MODULE MCSemantics -----------------------------
(***************************************************************************)
(* Instance for TLC of SemanticChecking with its rules: programs with the  *)
(* same declarations, whose functions have a statement each after one that *)
(* leaves something behind; and programs of three classes that depend on   *)
(* each other in any way.                                                  *)
(***************************************************************************)
EXTENDS SemanticRules

Ints == <<2, 2>>
Public(type, name, dims) == Attribute("public", Var(name, type, dims))

ClassA(functions) ==
  ClassOf("A", <<>>,
          <<Public("int", "x", <<>>), Attribute("private", IntVar("p")),
            Public("float", "r", <<>>), Public("int", "v", Ints)>>,
          <<Declared("public", functions[1]), Declared("private", functions[2])>>)

\* Its x hides that of A.
ClassB(functions) ==
  ClassOf("B", <<"A">>,
          <<Public("A", "a", <<>>), Public("float", "x", <<>>)>>,
          <<Declared("public", functions[1])>>)

BodyLocals == <<Local("i", "int", <<>>), Local("z", "float", <<>>)>>
MainLocals == BodyLocals \o <<Local("a", "A", <<>>), Local("b", "B", <<>>),
                              Local("u", "int", Ints), Local("o", "int", <<3, 2>>)>>

\* The same statements in the main function, in a member function of each class and
\* in a free function with a parameter.
ProgramOf(statements) ==
  LET m == Fun("A", "m", <<IntVar("n")>>, "int", BodyLocals \o statements)
      h == Fun("A", "h", <<>>, "int", <<Return(Num("1"))>>)
      g == Fun("B", "g", <<Var("t", "int", Ints)>>, "float", BodyLocals \o statements)
      f == Fun("", "f", <<IntVar("n")>>, "int", BodyLocals \o statements)
      k == Fun("", "k", <<>>, "float", <<Return(Float)>>)
      s == Fun("", "s", <<Var("t", "int", Ints)>>, "int", <<Return(Num("1"))>>)
      q == Fun("", "q", <<Var("t", "int", <<3, 2>>)>>, "int", <<Return(Num("1"))>>)
      g0 == Fun("", "g", <<>>, "int", <<Return(Num("1"))>>)
  IN  Source(<<ClassA(<<m, h>>), ClassB(<<g>>)>>,
             <<Implementation("A", <<m, h>>), Implementation("B", <<g>>)>>,
             <<f, k, s, q, g0, Main(MainLocals \o statements)>>)

One == Num("1")

Atoms == {One, Float, Id("i"), Id("z"), Id("x"), Id("y"), Id("a"), Id("u"), Self}

Operations == {Add(l, "+", r) : l \in Atoms, r \in {One, Float, Id("u")}}
              \cup {Mult(Id("y"), "*", One)}

Relations == {Rel(One, "<", One), Rel(Float, "<", Id("z")), Rel(Id("y"), "<", One),
              Rel(One, "<", Float)}

Uses == {Id("n"), Id("t"), Id("f"), Id("A"),
         Dot(Id("a"), Member("x")), Dot(Id("a"), Member("p")), Dot(Id("a"), Member("r")),
         Dot(Id("a"), Member("y")), Dot(Id("a"), Member("f")), Dot(Self, Member("p")),
         Dot(Id("b"), Member("x")), Dot(Id("b"), Member("r")), Dot(Id("i"), Member("x")),
         Dot(Dot(Id("b"), Member("a")), Member("x")), Dot(Self, Member("x")),
         Dot(Self, Member("a")), Dot(Self, Member("r")),
         Dot(Id("a"), Elem(Member("v"), <<One, One>>)), Dot(Id("a"), Elem(Member("v"), <<One>>)),
         Dot(Id("a"), Elem(Member("x"), <<One>>)),
         Elem(Id("u"), <<One, One>>), Elem(Id("u"), <<One>>), Elem(Id("u"), <<One, One, One>>),
         Elem(Id("u"), <<One, Float>>), Elem(Id("u"), <<Id("y"), One>>), Elem(Id("i"), <<One>>),
         Elem(Id("t"), <<One, One>>), Elem(Id("v"), <<One, One>>), Elem(Id("o"), <<One>>),
         Elem(Id("u"), <<Id("u"), One>>)}

Calls == {Call("f", <<One>>), Call("f", <<Float>>), Call("f", <<>>), Call("f", <<One, One>>),
          Call("F", <<One>>), Call("none", <<>>), Call("f", <<Call("k", <<>>)>>), Call("k", <<>>),
          Call("s", <<Id("u")>>), Call("s", <<Id("o")>>), Call("q", <<Id("o")>>),
          Call("m", <<One>>), Call("g", <<Id("t")>>), Call("g", <<>>),
          Method(Id("a"), "m", <<One>>), Method(Id("a"), "m", <<Float>>), Method(Id("a"), "h", <<>>),
          Method(Id("a"), "m", <<>>), Method(Id("b"), "m", <<One>>), Method(Id("a"), "f", <<One>>),
          Method(Self, "m", <<One>>), Method(Id("i"), "m", <<One>>)}

Values == Atoms \cup Operations \cup Relations \cup Uses \cup Calls

Targets == {Id("i"), Id("z"), Id("y"), Id("u"), Dot(Id("a"), Member("x")), Elem(Id("u"), <<One, One>>)}

Statements ==
  {Assign(t, e) : t \in Targets, e \in Values}
  \cup {Return(e) : e \in Values}
  \cup {If(e, <<Write(One)>>, <<Assign(Id("y"), One)>>) : e \in Relations}
  \cup {While(e, <<Return(Float)>>) : e \in Relations}
  \cup {Read(e) : e \in Targets} \cup {Write(e) : e \in Values} \cup Calls

\* What is left behind: the types float, int and error, and an array.
Leaving == {Write(Float), Write(One), Write(Id("y")), Write(Id("u"))}

BodyPrograms == {ProgramOf(<<l, s>>) : l \in Leaving, s \in Statements}

\* Classes whose attributes are of these classes.
Holding(c, parents, classes) ==
  ClassOf(c, parents, SetToSeq({Public(d, d, <<>>) : d \in classes}), <<>>)

UpTo(n) == {S \in SUBSET {"A", "B", "C"} : Cardinality(S) <= n}

ClassPrograms ==
  {Source(<<Holding("A", <<>>, a), Holding("B", ps, b), Holding("C", <<>>, c)>>, <<>>,
          <<>>)
   : a \in UpTo(2), b \in UpTo(1), c \in UpTo(1), ps \in {<<>>, <<"A">>}}

\* A function takes the name of a class, and a class that is not declared has an
\* implementation.
OddPrograms ==
  LET m(c) == Fun(c, "m", <<>>, "int", <<Return(One)>>)
  IN  {Source(<<ClassOf("A", <<"C">>, <<>>, <<Declared("public", m("A"))>>)>>,
              <<Implementation("A", <<m("A")>>)>>,
              <<Fun("", "A", <<IntVar("n")>>, "int", <<>>)>>),
       Source(<<ClassOf("B", <<"C">>, <<>>, <<>>)>>, <<Implementation("A", <<m("A")>>)>>, <<>>)}

AllPrograms == BodyPrograms \cup ClassPrograms \cup OddPrograms

AllTables == {TablesOf(p) : p \in AllPrograms}

Control == {s \in Statements : s.kind \in {"IF_STATEMENT", "WHILE_STATEMENT"}}

AllNodes ==
  Statements \cup UNION {Range(Tail(s.kids)) : s \in Control}
    \cup {Write(One), Assign(Id("y"), One), Return(Float), Return(One)} \cup Leaving
    \cup {Block(ls \o <<l, s>>) : ls \in {BodyLocals, MainLocals}, l \in Leaving, s \in Statements}
    \cup {Block(<<>>), Block(<<Return(One)>>), Block(<<Return(Float)>>)}

\* No expression is deeper.
Over(trees) ==
  [kind : STRING, value : STRING, kids : Seq(trees), temp : {""}, early : {0}]
AllTrees == Over(Over(Over(Over(Over(Over({}))))))

Texts == {"int", "float", "A", "B"}
Sizes == {<<>>, Ints, <<3, 2>>, <<2, 3>>}

Lower(name) == IF name = "F" THEN "f" ELSE name

==============================================================================
