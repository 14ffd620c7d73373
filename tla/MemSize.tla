------------------------------- MODULE MemSize -------------------------------
(***************************************************************************)
(* MemSizeVisitor: a temporary for every intermediate value, and the       *)
(* frames of the functions.                                                *)
(*                                                                         *)
(* The visitor starts from the tables of the semantic phases; the table of *)
(* a function has its parameters, and its local variables are removed and  *)
(* added again where they are declared, so that the insertion order is the *)
(* order of declarations and temporaries.  Functions are not overloaded,   *)
(* and a call has the types of the parameters, so that it is found.        *)
(***************************************************************************)
EXTENDS SyntaxTree, Frames, TLC

\* createTempVar.  The names are not reserved: addSymbol keeps the symbol that has
\* the name already.  The offset left on the node is that of a frame of temporaries
\* only; calculateTableOffsets gives the symbol its own later.
TempName(n) == "t" \o ToString(n)

TempOffset(type, st) == AlignedBelow(st.early, IF type = "float" THEN FloatSize ELSE IntSize)

Temp(node, type, st) ==
  [node |-> [node EXCEPT !.temp = TempName(st.counter), !.early = TempOffset(type, st)],
   st |-> [counter |-> st.counter + 1, early |-> TempOffset(type, st),
           table |-> AddSymbol(st.table, TempName(st.counter), Symbol("VARIABLE", type, <<>>))]]

\* What a call finds under the name of a function: the methods of the class of the
\* object, if the object is a variable, else what is visible from the function.
FindFunction(program, class, name) ==
  LET all == program.methods \o program.functions
      in(c) == SelectSeq(all, LAMBDA f : f.class = c /\ f.name = name)
  IN  in(class) \o in("")

ClassOf(object, table, class) ==
  IF object \in DOMAIN table.syms THEN table.syms[object].type ELSE class

\* The type of the temporary that a visit ends with, "" for none.
TempType(node, st, env) ==
  CASE node.kind \in {"INT", "ADD_OP", "MULT_OP", "REL_OP", "INDEX_LIST", "DOT_ACCESS"} -> "int"
    [] node.kind = "FUNCTION_CALL" ->
         LET found == FindFunction(env.program, ClassOf(env.object, st.table, env.class),
                                   node.kids[1].value)
         IN  IF found = <<>> \/ found[1].type = "void" THEN "" ELSE found[1].type
    [] OTHER -> ""

Temporary(node, st, env) ==
  LET type == TempType(node, st, env)
  IN  IF type = "" THEN [node |-> node, st |-> st] ELSE Temp(node, type, st)

\* visitVariable: a symbol that is there moves to the end of the order.
Redeclare(table, var) ==
  LET old == IF var.name \in DOMAIN table.syms THEN table.syms[var.name]
             ELSE Symbol("VARIABLE", var.type, <<>>)
  IN  AddSymbol(RemoveSymbol(table, var.name), var.name, [old EXCEPT !.dims = var.dims])

\* The order in which the children are visited: an assignment starts with its right
\* side.
VisitOrder(node) ==
  IF node.kind = "ASSIGNMENT" THEN <<2, 1>> ELSE [i \in DOMAIN node.kids |-> i]

\* visitIndexList gives an index that is neither a literal nor a name a second
\* temporary, which replaces the first one.
SecondTemp(parent, r) ==
  IF parent.kind = "INDEX_LIST" /\ r.node.kind \notin {"INT", "IDENTIFIER"}
  THEN Temp(r.node, "int", r.st) ELSE r

\* env.object is the variable before the dot, for the call behind it.
ChildEnv(node, env) ==
  [env EXCEPT !.object = IF node.kind = "DOT_ACCESS" /\ node.kids[1].kind = "IDENTIFIER"
                         THEN node.kids[1].value ELSE ""]

RECURSIVE Visit(_, _, _)
Visit(node, st, env) ==
  LET Child(acc, i) ==
        LET r == SecondTemp(node, Visit(node.kids[i], acc.st, ChildEnv(node, env)))
        IN  [node |-> [acc.node EXCEPT !.kids[i] = r.node], st |-> r.st]
      r == Through(Child, [node |-> node, st |-> st], VisitOrder(node))
  IN  IF node.kind = "LOCAL_VARIABLE"
      THEN [node |-> node, st |-> [st EXCEPT !.table = Redeclare(@, node.value)]]
      ELSE Temporary(r.node, r.st, env)

\* removeLocalVariables leaves a variable whose name starts with "t" in its place:
\* a temporary of that name is then dropped.
Remaining(fun) ==
  LET locals == SelectSeq(fun.body.kids, LAMBDA s : s.kind = "LOCAL_VARIABLE")
  IN  SelectSeq([i \in DOMAIN locals |-> locals[i].value],
                LAMBDA v : v.name \in {TempName(n) : n \in 1 .. 99})

FunctionTable(fun) ==
  Through(LAMBDA t, v : AddSymbol(t, v.name, Symbol("VARIABLE", v.type, v.dims)),
           Through(LAMBDA t, v : AddSymbol(t, v.name, Symbol("PARAMETER", v.type, v.dims)),
                    EmptyTable("function", <<>>), fun.params),
           Remaining(fun))

\* visitFunction: a method has a temporary of its own before its body.
VisitFunction(fun, counter, program) ==
  LET start == [counter |-> counter, early |-> 0, table |-> FunctionTable(fun)]
      env == [program |-> program, class |-> fun.class, object |-> ""]
  IN  Visit(fun.body, IF fun.class = "" THEN start ELSE Temp(fun.body, "int", start).st, env)

-----------------------------------------------------------------------------

\* The functions with their trees and frames, in the order in which code is
\* generated for them.
WithFunction(layout, fun, visited, classes) ==
  [layout EXCEPT !.counter = visited.st.counter,
                 !.funs = Append(@,
                   [class |-> fun.class, name |-> fun.name, body |-> visited.node,
                    frame |-> FunctionFrame(fun, visited.st.table, classes)])]

FunctionFrames(program, classes) ==
  Through(LAMBDA layout, fun :
             WithFunction(layout, fun, VisitFunction(fun, layout.counter, program), classes),
           [counter |-> 1, classes |-> classes.frames, funs |-> <<>>],
           program.methods \o program.functions)

Layout(program) == FunctionFrames(program, ClassFrames(program))

=============================================================================
