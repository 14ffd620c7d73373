-------------------------------- MODULE MCMoon --------------------------------
(***************************************************************************)
(* Programs for the compiler and the numbers typed into them.              *)
(***************************************************************************)
EXTENDS CodePromises, MemSize, Meaning

Number(x) == Local(x, "int", <<>>)
X == Id("x")
Y == Id("y")
Z == Id("z")

Arithmetic(l, op, r) == IF op \in {"+", "-", "or"} THEN Add(l, op, r) ELSE Mult(l, op, r)

Only(main) == Program(<<>>, <<>>, <<Main(main)>>)
Functions(functions) == Program(<<>>, <<>>, functions)
Case(tree, inputs) == [tree |-> tree, inputs |-> inputs]

-----------------------------------------------------------------------------

\* One operator before and after the other, and one with an operand that is zero.
TwoOperators(f, g) ==
  Case(Only(<<Number("x"), Number("y"), Number("z"), Read(X), Read(Y),
              Write(Arithmetic(Arithmetic(X, f, Y), g, Num(3))),
              Assign(Z, Arithmetic(X, f, Arithmetic(Y, g, Num(3)))),
              Write(Z),
              Write(Arithmetic(Add(X, "-", X), f, Arithmetic(Y, g, X)))>>),
       {<<x, y>> : x \in {3}, y \in {4, -4}})

Comparison(op) ==
  Case(Only(<<Number("x"), Number("y"), Read(X), Read(Y),
              If(Rel(X, op, Y),
                 <<If(Rel(Add(X, "+", Num(1)), op, Mult(Y, "*", Num(2))), <<Write(Num(1))>>, <<>>)>>,
                 <<Write(Num(2))>>),
              Write(X)>>),
       {<<x, y>> : x \in 0 .. 2, y \in 0 .. 2})

\* Loops in a loop, with a condition between them.
Triangle ==
  Case(Only(<<Number("x"), Number("y"), Number("z"), Read(X), Assign(Y, Num(0)), Assign(Z, Num(0)),
              While(Rel(Y, "<", X),
                <<Assign(Y, Add(Y, "+", Num(1))),
                  If(Rel(Y, "<>", Num(2)), <<Assign(Z, Add(Z, "+", Y))>>, <<Write(Z)>>),
                  While(Rel(Z, ">", Num(4)), <<Assign(Z, Add(Z, "-", Num(3))), Write(Y)>>)>>),
              Write(Z)>>),
       {<<x>> : x \in 0 .. 4})

\* The frame of a call is used again after the calls it makes.
Countdown ==
  Case(Functions(
         <<Fun("", "down", <<IntVar("n"), IntVar("m")>>, "void",
               <<Number("k"), Assign(Id("k"), Add(Id("n"), "-", Mult(Id("m"), "*", Num(2)))),
                 If(Rel(Id("n"), ">", Num(0)),
                    <<Call("down", <<Add(Id("n"), "-", Num(1)), Id("k")>>), Write(Id("m"))>>, <<>>),
                 Write(Add(Id("k"), "+", Id("n")))>>),
           Main(<<Number("x"), Read(X), Call("down", <<X, Num(5)>>), Write(X)>>)>>),
       {<<x>> : x \in 0 .. 4})

\* A value that comes back through the calls; each call is the last temporary of its
\* function.
PassedBack ==
  Case(Functions(
         <<Fun("", "find", <<IntVar("n")>>, "int",
               <<Number("r"),
                 If(Rel(Id("n"), "<", Num(10)), <<Return(Id("n"))>>, <<>>),
                 Assign(Id("r"), Call("find", <<Add(Id("n"), "-", Num(10))>>)),
                 Return(Id("r"))>>),
           Main(<<Number("x"), Read(X), Assign(X, Call("find", <<X>>)), Write(X)>>)>>),
       {<<3>>, <<15>>, <<38>>})

\* The methods of two objects of a class, and their members in expressions, each used
\* again after it was assigned.
Objects ==
  Case(Program(
         <<Class("A", <<IntVar("u"), IntVar("v")>>)>>,
         <<Fun("A", "set", <<IntVar("n")>>, "void",
               <<Assign(Dot(Self, Member("u")), Id("n")),
                 Assign(Dot(Self, Member("v")), Add(Id("n"), "+", Num(1)))>>),
           Fun("A", "sum", <<IntVar("n")>>, "int",
               <<Return(Add(Add(Dot(Self, Member("u")), "+", Dot(Self, Member("v"))), "+", Id("n")))>>)>>,
         <<Main(<<Local("p", "A", <<>>), Local("q", "A", <<>>), Number("x"), Read(X),
                  Method(Id("p"), "set", <<X>>), Method(Id("q"), "set", <<Num(4)>>),
                  Write(Mult(Dot(Id("p"), Member("v")), "*", Dot(Id("q"), Member("u")))),
                  Assign(Dot(Id("q"), Member("u")), Add(Dot(Id("p"), Member("u")), "+", X)),
                  Assign(Dot(Id("q"), Member("v")), Num(9)),
                  Write(Dot(Id("q"), Member("v"))), Write(Dot(Id("q"), Member("u"))),
                  Assign(X, Method(Id("p"), "sum", <<X>>)),
                  Write(X)>>)>>),
       {<<2>>, <<7>>})

\* Arrays, with an array below each for its elements.
Elements ==
  Case(Functions(
         <<Fun("", "fill", <<Var("b", "int", <<Dynamic>>), IntVar("n")>>, "void",
               <<Number("i"), Assign(Id("i"), Num(0)),
                 While(Rel(Id("i"), "<", Id("n")),
                   <<Assign(Elem(Id("b"), <<Id("i")>>),
                            Add(Elem(Id("b"), <<Id("i")>>), "+", Mult(Id("n"), "*", Id("i")))),
                     Assign(Id("i"), Add(Id("i"), "+", Num(1)))>>)>>),
           Main(<<Local("a", "int", <<3>>), Local("below", "int", <<3>>),
                  Local("m", "int", <<3, 2>>), Local("under", "int", <<6>>), Number("x"), Read(X),
                  Assign(Elem(Id("a"), <<Num(0)>>), X),
                  Assign(Elem(Id("a"), <<Num(1)>>), Num(5)),
                  Assign(Elem(Id("a"), <<Add(X, "+", Num(1))>>), Num(8)),
                  Assign(Elem(Id("a"), <<Num(2)>>), Elem(Id("a"), <<Num(1)>>)),
                  Call("fill", <<Id("a"), Num(3)>>),
                  Write(Elem(Id("a"), <<Num(0)>>)), Write(Elem(Id("a"), <<Num(1)>>)),
                  Write(Elem(Id("a"), <<Num(2)>>)),
                  Assign(Elem(Id("m"), <<Num(0), Num(2)>>), Num(6)),
                  Assign(Elem(Id("m"), <<Num(1), Num(0)>>), Num(7)),
                  Assign(Elem(Id("m"), <<X, Num(1)>>), Num(8)),
                  Write(Elem(Id("m"), <<Num(0), Num(2)>>)),
                  Write(Add(Elem(Id("m"), <<Num(1), Num(0)>>), "-", Elem(Id("m"), <<X, Num(1)>>)))>>)>>),
       {<<0>>, <<1>>})

-----------------------------------------------------------------------------

\* A number is declared after an array.
ArrayFirst ==
  Case(Only(<<Local("a", "int", <<2>>), Number("x"), Number("y"), Read(X), Read(Y),
              Assign(Elem(Id("a"), <<X>>), Y), Write(Elem(Id("a"), <<X>>)), Write(X)>>),
       {<<x, y>> : x \in 0 .. 1, y \in 0 .. 4})

\* A loop of a method uses its object again after it has counted down.
Accumulator ==
  Fun("A", "add", <<IntVar("n")>>, "void",
      <<Assign(Dot(Self, Member("u")), Num(0)),
        While(Rel(Id("n"), ">", Num(0)),
          <<Assign(Dot(Self, Member("u")), Add(Dot(Self, Member("u")), "+", Id("n"))),
            Assign(Id("n"), Add(Id("n"), "-", Num(4)))>>)>>)

\* The value of a call is multiplied, which takes a temporary after that of the call.
Factorial ==
  Fun("", "factorial", <<IntVar("n")>>, "int",
      <<If(Rel(Id("n"), "<", Num(2)), <<Return(Num(1))>>, <<>>),
        Return(Mult(Id("n"), "*", Call("factorial", <<Add(Id("n"), "-", Num(1))>>)))>>)

\* One line for each feature: a member is assigned to another, an element of a member is
\* read after another was written, the index of an element is an element, the method
\* and the function.
Features ==
  Case(Program(
         <<Class("A", <<IntVar("u"), Var("c", "int", <<2>>)>>)>>,
         <<Accumulator>>,
         <<Factorial,
           Main(<<Local("p", "A", <<>>), Local("q", "A", <<>>),
                  Local("a", "int", <<2>>), Local("below", "int", <<2>>),
                  Local("b", "int", <<1>>), Number("x"), Read(X),
                  Assign(Dot(Id("p"), Member("u")), X),
                  Assign(Dot(Id("q"), Member("u")), Dot(Id("p"), Member("u"))),
                  Write(Dot(Id("q"), Member("u"))),
                  Assign(Dot(Id("p"), Elem(Member("c"), <<Num(1)>>)), X),
                  Assign(Dot(Id("p"), Elem(Member("c"), <<Num(0)>>)), Num(5)),
                  Write(Dot(Id("p"), Elem(Member("c"), <<Num(1)>>))),
                  Assign(Elem(Id("b"), <<Num(0)>>), Num(1)),
                  Assign(Elem(Id("a"), <<Num(1)>>), X),
                  Write(Elem(Id("a"), <<Elem(Id("b"), <<Num(0)>>)>>)),
                  Method(Id("p"), "add", <<X>>), Write(Dot(Id("p"), Member("u"))),
                  Assign(X, Call("factorial", <<X>>)), Write(X)>>)>>),
       {<<8>>})

-----------------------------------------------------------------------------

Operators == <<"+", "-", "*", "/", "or", "and">>
Relations == <<"==", "<>", "<", "<=", ">", ">=">>

Right ==
  [k \in 1 .. 36 |-> TwoOperators(Operators[(k - 1) \div 6 + 1], Operators[((k - 1) % 6) + 1])]
    \o [k \in 1 .. 6 |-> Comparison(Relations[k])]
    \o <<Triangle, Countdown, PassedBack, Objects, Elements>>

\* What the phases before the code generation make of the programs, and what the
\* programs mean.
LayoutsOf(cases) == Through(LAMBDA done, c : Append(done, Layout(c.tree)), <<>>, cases)
MeaningsOf(cases) == [k \in DOMAIN cases |-> [t \in cases[k].inputs |-> Meaning(cases[k].tree, t)]]
InputsOf(cases) == [k \in DOMAIN cases |-> cases[k].inputs]

RightLayouts == LayoutsOf(Right)
RightMeanings == MeaningsOf(Right)
RightInputs == InputsOf(Right)

\* The same for the programs whose values are not those of their source.
Listed == <<Features>>
ListedLayouts == LayoutsOf(Listed)
ListedMeanings == MeaningsOf(Listed)
ListedInputs == InputsOf(Listed)

Arrays == <<ArrayFirst>>
ArrayLayouts == LayoutsOf(Arrays)
ArrayMeanings == MeaningsOf(Arrays)
ArrayInputs == InputsOf(Arrays)

===============================================================================
