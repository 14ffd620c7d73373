------------------------------- MODULE Meaning -------------------------------
(***************************************************************************)
(* What a program means: the lines it writes for the numbers typed.        *)
(*                                                                         *)
(* The reference for the generated code, written from the constructs the   *)
(* documentation lists as supported (docs/README.md, "Table of features"). *)
(* A place is a path: a frame and the name of a variable, and then the     *)
(* indices and the names of members.  A number is passed as a value, an    *)
(* array as its place.                                                     *)
(*                                                                         *)
(* s.store has the values of the places written, s.frames counts frames,   *)
(* s.result is <<>> until the function returns.  A place that was never    *)
(* written has no value: the meaning of a program that reads one is not    *)
(* defined.                                                                *)
(***************************************************************************)
EXTENDS SyntaxTree, TLC

WithValue(v, s) == [value |-> v, s |-> s]

Truth(b) == IF b THEN 1 ELSE 0

Apply(op, a, b) ==
  CASE op = "+" -> a + b
    [] op = "-" -> a - b
    [] op = "*" -> a * b
    [] op = "/" -> Quotient(a, b)
    [] op = "or" -> Truth(a # 0 \/ b # 0)
    [] op = "and" -> Truth(a # 0 /\ b # 0)
    [] op = "==" -> Truth(a = b)
    [] op = "<>" -> Truth(a # b)
    [] op = "<" -> Truth(a < b)
    [] op = "<=" -> Truth(a <= b)
    [] op = ">" -> Truth(a > b)
    [] op = ">=" -> Truth(a >= b)

\* A name is a variable of the frame, or an array that was passed.
PathOf(name, env) ==
  IF name \in DOMAIN env.arrays THEN env.arrays[name] ELSE <<env.frame, name>>

\* Methods are named apart.
Callee(name, program) ==
  LET all == program.methods \o program.functions
  IN  all[CHOOSE i \in DOMAIN all : all[i].name = name]

RECURSIVE Evaluate(_, _, _), Execute(_, _, _), Locate(_, _, _), Invoke(_, _, _, _, _)

EvaluateAll(nodes, env, s) ==
  Through(LAMBDA acc, n : LET r == Evaluate(n, env, acc.s)
                          IN  WithValue(Append(acc.value, r.value), r.s),
          WithValue(<<>>, s), nodes)

\* The place of a variable, a member or an element.
Locate(e, env, s) ==
  CASE e.kind = "IDENTIFIER" -> WithValue(PathOf(e.value, env), s)
    [] e.kind = "SELF_IDENTIFIER" -> WithValue(env.self, s)
    [] e.kind = "DOT_IDENTIFIER" -> WithValue(Append(env.object, e.value), s)
    [] e.kind = "DOT_ACCESS" ->
         LET object == Locate(e.kids[1], env, s)
         IN  Locate(e.kids[2], [env EXCEPT !.object = object.value], object.s)
    [] e.kind = "ARRAY_ACCESS" ->
         LET array == Locate(e.kids[1], env, s)
             indices == EvaluateAll(e.kids[2].kids, env, array.s)
         IN  WithValue(array.value \o indices.value, indices.s)

InvokeCall(call, object, env) ==
  Invoke(Callee(call.kids[1].value, env.program), call.kids[2].kids, object.value, env, object.s)

Evaluate(e, env, s) ==
  CASE e.kind = "INT" -> WithValue(e.value, s)
    [] e.kind \in {"ADD_OP", "MULT_OP", "REL_OP", "CONDITION"} ->
         LET r == EvaluateAll(e.kids, env, s)
         IN  WithValue(IF e.kind = "CONDITION" THEN r.value[1]
                       ELSE Apply(e.value, r.value[1], r.value[2]), r.s)
    [] e.kind = "FUNCTION_CALL" -> InvokeCall(e, WithValue(<<>>, s), env)
    [] e.kind = "DOT_ACCESS" /\ e.kids[2].kind = "FUNCTION_CALL" ->
         InvokeCall(e.kids[2], Locate(e.kids[1], env, s), env)
    [] OTHER -> LET place == Locate(e, env, s) IN WithValue(place.s.store[place.value], place.s)

\* The arguments, in a frame of the function's own; outer is that of the caller.
PassArray(place, name, env) ==
  [env |-> [env EXCEPT !.arrays = (name :> place.value) @@ @], s |-> place.s]

PassNumber(r, name, env) ==
  [env |-> env, s |-> [r.s EXCEPT !.store = (<<env.frame, name>> :> r.value) @@ @]]

Pass(param, arg, acc, outer) ==
  IF param.dims # <<>> THEN PassArray(Locate(arg, outer, acc.s), param.name, acc.env)
  ELSE PassNumber(Evaluate(arg, outer, acc.s), param.name, acc.env)

Returned(s) ==
  WithValue(IF s.result = <<>> THEN 0 ELSE s.result[1], [s EXCEPT !.result = <<>>])

Run(fun, start) == Returned(Execute(fun.body, start.env, start.s))

Invoke(fun, args, self, env, s) ==
  Run(fun, Through(LAMBDA acc, i : Pass(fun.params[i], args[i], acc, env),
                   [env |-> [env EXCEPT !.frame = s.frames + 1, !.arrays = <<>>, !.self = self],
                    s |-> [s EXCEPT !.frames = @ + 1]],
                   [i \in DOMAIN args |-> i]))

\* A statement after a return has no effect.
Execute(statement, env, s) ==
  CASE s.result # <<>> -> s
    [] statement.kind = "BLOCK" -> Through(LAMBDA acc, t : Execute(t, env, acc), s, statement.kids)
    [] statement.kind = "ASSIGNMENT" ->
         LET r == Evaluate(statement.kids[2], env, s)
             place == Locate(statement.kids[1], env, r.s)
         IN  [place.s EXCEPT !.store = (place.value :> r.value) @@ @]
    [] statement.kind = "WRITE_STATEMENT" ->
         LET r == Evaluate(statement.kids[1], env, s)
         IN  [r.s EXCEPT !.out = Append(@, <<r.value>>)]
    [] statement.kind = "READ_STATEMENT" ->
         LET place == Locate(statement.kids[1], env, s)
         IN  [place.s EXCEPT !.store = (place.value :> Head(place.s.in)) @@ @, !.in = Tail(@)]
    [] statement.kind = "RETURN_STATEMENT" ->
         LET r == Evaluate(statement.kids[1], env, s)
         IN  [r.s EXCEPT !.result = <<r.value>>]
    [] statement.kind = "IF_STATEMENT" ->
         LET r == Evaluate(statement.kids[1], env, s)
         IN  Execute(statement.kids[IF r.value # 0 THEN 2 ELSE 3], env, r.s)
    [] statement.kind = "WHILE_STATEMENT" ->
         LET r == Evaluate(statement.kids[1], env, s)
         IN  IF r.value = 0 THEN r.s
             ELSE CHOOSE t \in {Execute(statement, env, body) :
                                  body \in {Execute(statement.kids[2], env, r.s)}} : TRUE
    [] statement.kind = "LOCAL_VARIABLE" -> s
    [] OTHER -> Evaluate(statement, env, s).s

Meaning(program, typed) ==
  LET env == [program |-> program, frame |-> 0, arrays |-> <<>>, self |-> <<>>, object |-> <<>>]
      start == [store |-> <<>>, frames |-> 0, in |-> typed, out |-> <<>>, result |-> <<>>]
  IN  Execute(Callee("main", program).body, env, start).out

=============================================================================
