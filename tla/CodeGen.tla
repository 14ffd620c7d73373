------------------------------- MODULE CodeGen -------------------------------
(***************************************************************************)
(* CodeGenVisitor: the Moon instructions of a program.                     *)
(*                                                                         *)
(* A visit takes a node and the state of the visitor, the register pool,   *)
(* the label counter and the code so far, to the next state; env has the   *)
(* function and the layout.  The visit of a function is made of those of   *)
(* its nodes: visit is the visit of the nodes below, a function from nodes *)
(* and states to states.  Comments are left out.  An instruction is a      *)
(* tuple with the operands in the order of the assembler: <<"lw", r, k, b>> *)
(* is `lw r,k(b)` and <<"sw", k, b, r>> is `sw k(b),r`.                    *)
(***************************************************************************)
EXTENDS Common, SequencesExt, TLC

\* What MemSizeVisitor leaves of each program: its classes, and its functions with
\* their trees and frames; and a bound on the height of the trees.
CONSTANTS Layouts, MaxHeight

\* The nodes of a tree.
NodesOf(tree) ==
  LET level[h \in 1 .. MaxHeight] ==
        IF h = 1 THEN ToSet(tree.kids) ELSE UNION {ToSet(n.kids) : n \in level[h - 1]}
  IN  {tree} \cup UNION {level[h] : h \in 1 .. MaxHeight}

\* The children that the visit of a node counts on, as the syntax tree has them.
Arity(kind) ==
  CASE kind \in {"ADD_OP", "MULT_OP", "REL_OP", "ASSIGNMENT", "WHILE_STATEMENT",
                 "ARRAY_ACCESS", "DOT_ACCESS", "FUNCTION_CALL"} -> 2
    [] kind = "IF_STATEMENT" -> 3
    [] kind \in {"WRITE_STATEMENT", "READ_STATEMENT", "RETURN_STATEMENT"} -> 1
    [] OTHER -> 0

IsTree(nodes) == \A n \in nodes : n.kids \in Seq(nodes) /\ Len(n.kids) >= Arity(n.kind)

IsSequence(s) == Len(s) \in Nat /\ DOMAIN s = 1 .. Len(s)

IsLayout(layout) ==
  /\ IsSequence(layout.funs)
  /\ \A k \in DOMAIN layout.funs : IsTree(NodesOf(layout.funs[k].body))

AreLayouts(layouts) == IsSequence(layouts) /\ \A p \in DOMAIN layouts : IsLayout(layouts[p])

\* No tree is higher than the bound, or some children would not be among its nodes.
ASSUME LayoutsAssumption == MaxHeight \in Nat \ {0} /\ AreLayouts(Layouts)

-----------------------------------------------------------------------------

\* Slots that no visit finds are at -8.
DefaultOffset == -8

\* last is the register that the last operation left its result in.
EmptyState == [pool |-> [i \in Registers |-> i], labels |-> 0, last |-> 0, code |-> <<>>]

\* allocateRegister: the i-th register from the top of the pool, -1 when it is empty.
Reg(st, i) == IF i \in DOMAIN st.pool THEN st.pool[i] ELSE -1

Allocated(st, n) == [st EXCEPT !.pool = SubSeq(@, n + 1, Len(@))]

\* freeRegister.
Freed(st, r) == IF r \in Registers THEN [st EXCEPT !.pool = <<r>> \o @] ELSE st

Emit(st, code) == [st EXCEPT !.code = @ \o code]

\* generateLabel, called k times.
Labels(st, k) == [st EXCEPT !.labels = @ + k]

Label(prefix, n) == prefix \o ToString(n)
LabelAt(name) == <<"label", name>>

-----------------------------------------------------------------------------

Slots(env) == env.fun.frame.slots
Scope(env) == env.fun.frame.scope
SlotOf(env, name) == Slots(env)[name].offset

\* getNodeOffset: where the value of a node is, or its address if it is an element
\* or a member; the address of an element is in the temporary of its indices.
NodeOffset(node, env) ==
  CASE node.temp # "" -> SlotOf(env, node.temp)
    [] node.kind = "IDENTIFIER" -> SlotOf(env, node.value)
    [] node.kind = "ARRAY_ACCESS" -> SlotOf(env, node.kids[2].temp)
    [] OTHER -> DefaultOffset

IsAddressed(node) == node.kind \in {"ARRAY_ACCESS", "DOT_ACCESS"}

\* visitDotAccess sets the offset on the node of a member, not on that of a method:
\* who reads the node instead of its symbol finds the one left by createTempVar.
OffsetOnNode(node, env) ==
  IF node.kind = "DOT_ACCESS" /\ node.kids[2].kind = "FUNCTION_CALL" THEN node.early
  ELSE NodeOffset(node, env)

LoadFrom(r, offset, node) ==
  <<<<"lw", r, offset, Sp>>>> \o IF IsAddressed(node) THEN <<<<"lw", r, 0, r>>>> ELSE <<>>

\* The value of a node that was visited.
Load(r, node, env) == LoadFrom(r, NodeOffset(node, env), node)

\* visitAddOp reads the node, visitMultOp and visitRelOp the symbol.
Operand(r, operation, i, env) ==
  LET node == operation.kids[i]
  IN  LoadFrom(r, IF operation.kind = "ADD_OP" THEN OffsetOnNode(node, env)
                  ELSE NodeOffset(node, env), node)

Store(node, r, env) == <<<<"sw", NodeOffset(node, env), Sp, r>>>>

OpCode(op) ==
  CASE op = "+" -> "add" [] op = "-" -> "sub" [] op = "*" -> "mul" [] op = "/" -> "div"
    [] op = ">" -> "cgt" [] op = ">=" -> "cge" [] op = "<" -> "clt" [] op = "<=" -> "cle"
    [] op = "==" -> "ceq" [] op = "<>" -> "cne"

\* or jumps to a 1 on the first operand that is not zero, and to a 0 on the first
\* that is.
Logical(op, d, l, r, n) ==
  LET jump == IF op = "or" THEN "bnz" ELSE "bz"
      early == Label(IF op = "or" THEN "logical_or_true_" ELSE "logical_and_zero_", n)
      end == Label(IF op = "or" THEN "logical_or_end_" ELSE "logical_and_end_", n)
      value == IF op = "or" THEN 0 ELSE 1
  IN  <<<<jump, l, early>>, <<jump, r, early>>, <<"addi", d, 0, value>>, <<"j", end>>,
        LabelAt(early), <<"addi", d, 0, 1 - value>>, LabelAt(end)>>

\* What follows the visits of the operands of an operator.
Operation(node, st, env) ==
  LET l == Reg(st, 1)
      r == Reg(st, 2)
      d == Reg(st, 3)
      logical == node.value \in {"or", "and"}
      compute == IF logical THEN Logical(node.value, d, l, r, st.labels)
                 ELSE <<<<OpCode(node.value), d, l, r>>>>
      done == Emit(Allocated(st, 3),
                   Operand(l, node, 1, env) \o Operand(r, node, 2, env)
                     \o compute \o Store(node, d, env))
  IN  Freed(Freed(Freed(Labels([done EXCEPT !.last = d], IF logical THEN 1 ELSE 0), l), r), d)

\* visitInt: the literal goes to its temporary.
Literal(node, st, env) ==
  LET r == Reg(st, 1)
  IN  Freed(Emit(Allocated(st, 1), <<<<"addi", r, 0, node.value>>>> \o Store(node, r, env)), r)

-----------------------------------------------------------------------------

\* The symbol of the array of an access: a variable, or a member of the class that
\* visitDotAccess left on the node, with the register of the object's address.
ArraySymbol(base, object, env) ==
  IF base.kind = "IDENTIFIER" THEN Slots(env)[base.value]
  ELSE env.layout.classes[object.class].slots[base.value]

NoObject == [class |-> "", reg |-> 0]

ElementSize(base, symbol) ==
  IF base.kind = "IDENTIFIER" /\ symbol.type = "float" THEN 8 ELSE 4

\* Bug: the dimensions after the index instead of the first ones.
MultiplierAfter(symbol, size, i) ==
  LET dims == symbol.dims
  IN  Through(LAMBDA m, d : IF d > 0 THEN m * d ELSE m, size, SubSeq(dims, i + 1, Len(dims)))

\* The dimensions are in reverse order.
Multiplier(symbol, size, i) ==
  LET dims == symbol.dims
  IN  Through(LAMBDA m, d : IF d > 0 THEN m * d ELSE m, size, SubSeq(dims, 1, Len(dims) - i))

IsDynamic(symbol) == \E i \in DOMAIN symbol.dims : symbol.dims[i] <= 0

\* The value of one index, times its multiplier, is added to the register total.
AddIndex(total, index, by, st, env) ==
  LET v == Reg(st, 1)
      c == Reg(st, 2)
      added == Emit(Allocated(st, 2), <<<<"lw", v, NodeOffset(index, env), Sp>>,
                                        <<"muli", c, v, by>>, <<"add", total, total, c>>>>)
  IN  Freed(Freed(added, v), c)

\* The address of a static array is that of its slot; a dynamic one, a parameter,
\* holds its address; the address of a member is in a register.
ArrayAddress(base, object, symbol, r) ==
  CASE base.kind # "IDENTIFIER" -> <<<<"add", r, 0, object.reg>>>>
    [] IsDynamic(symbol) -> <<<<"lw", r, symbol.offset, Sp>>>>
    [] OTHER -> <<<<"subi", r, Sp, -symbol.offset>>>>

-----------------------------------------------------------------------------

FunctionsOf(env, class, name) ==
  SelectSeq(env.layout.funs, LAMBDA f : f.class = class /\ f.name = name)

\* The parameters of a function by ascending offsets: the last one first.
ParamSlots(callee) ==
  LET slots == callee.frame.slots
      params == {slots[x] : x \in {y \in DOMAIN slots : slots[y].kind = "PARAMETER"}}
  IN  SetToSortSeq(params, LAMBDA s, t : s.offset < t.offset)

FunctionLabel(fun) == IF fun.class = "" THEN fun.name ELSE fun.class \o "_" \o fun.name

\* An argument goes to its place in the frame that starts at the scope offset of
\* the caller; an array goes there as an address.
PassArgument(arg, place, st, env) ==
  LET r == Reg(st, 1)
      isArray == arg.kind = "IDENTIFIER" /\ Slots(env)[arg.value].dims # <<>>
      value == IF isArray THEN <<<<"subi", r, Sp, -NodeOffset(arg, env)>>>> ELSE Load(r, arg, env)
  IN  Freed(Emit(Allocated(st, 1), value \o <<<<"sw", place, Sp, r>>>>), r)

\* One line of the frame around a call: r14 moves below the frame of the function.
Down(env) == <<<<"addi", Sp, Sp, Scope(env)>>>>
Up(env) == <<<<"subi", Sp, Sp, Scope(env)>>>>
JumpAndLink(label) == <<<<"jl", Link, label>>>>
ArgumentIn(r) == <<<<"sw", -8, Sp, r>>>>
BufferIn(r) == <<<<"addi", r, 0, Buffer>>>>

\* visitWriteStatement, after the visit of its expression.
WriteValue(e, st, env) ==
  LET r1 == Reg(st, 1)
      r2 == Reg(st, 2)
      a == Reg(st, 3)
      load == IF IsAddressed(e) THEN <<<<"lw", a, OffsetOnNode(e, env), Sp>>, <<"lw", r1, 0, a>>>>
              ELSE Load(r1, e, env)
      freed == IF IsAddressed(e) THEN Freed(Allocated(st, 3), a) ELSE Allocated(st, 2)
      written == load \o Down(env) \o ArgumentIn(r1) \o BufferIn(r1)
                   \o <<<<"sw", -12, Sp, r1>>>> \o JumpAndLink("intstr")
                   \o ArgumentIn(Result) \o JumpAndLink("putstr")
                   \o JumpAndLink("putnl") \o Up(env)
  IN  Freed(Freed(Emit(freed, written), r1), r2)

\* visitReadStatement, for a variable; an element or a member has no offset yet.
ReadValue(target, st, env) ==
  LET r == Reg(st, 1)
  IN  Freed(Emit(Allocated(st, 1),
        Down(env) \o BufferIn(r) \o ArgumentIn(r) \o JumpAndLink("getstr")
          \o BufferIn(r) \o ArgumentIn(r) \o JumpAndLink("strint") \o Up(env)
          \o Store(target, Result, env)), r)

\* Bug: the default of the offset of the value instead of that of the link.
ReturnFromResult == <<<<"lw", Link, DefaultOffset, Sp>>, <<"jr", Link>>>>

\* The offset of the link is not found, and the default is used.
ReturnFrom == <<<<"lw", Link, -4, Sp>>, <<"jr", Link>>>>

\* Bug: the value goes one word too far up.
ReturnValueAbove(e, st, env) ==
  LET r == Reg(st, 1)
  IN  Emit(st, Load(r, e, env) \o <<<<"sw", 4, Sp, r>>, <<"add", Result, r, 0>>>> \o ReturnFrom)

\* visitReturnStatement: the value goes to 0(r14), the lowest slot of the caller, and
\* to r13.
ReturnValue(e, st, env) ==
  LET r == Reg(st, 1)
  IN  Emit(Freed(Emit(Allocated(st, 1),
                      Load(r, e, env) \o <<<<"sw", 0, Sp, r>>, <<"add", Result, r, 0>>>>), r),
           ReturnFrom)

\* The value of the right side in a register; that of an element passes through the
\* last slot of the frame, and a member gives its address.
Fetch(e, v, a, env) ==
  IF e.kind = "ARRAY_ACCESS"
  THEN <<<<"lw", a, NodeOffset(e, env), Sp>>, <<"lw", v, 0, a>>, <<"sw", Scope(env), Sp, v>>,
         <<"lw", v, Scope(env), Sp>>>>
  ELSE <<<<"lw", v, NodeOffset(e, env), Sp>>>>

\* The value of register v to the left side, which was visited if it has an address.
Deliver(target, v, a, env) ==
  CASE target.kind = "ARRAY_ACCESS" ->
         <<<<"add", a, 0, 0>>, <<"lw", a, NodeOffset(target, env), Sp>>, <<"sw", 0, a, v>>>>
    [] target.kind = "DOT_ACCESS" ->
         <<<<"lw", a, NodeOffset(target, env), Sp>>, <<"sw", 0, a, v>>>>
    [] OTHER -> Store(target, v, env)

\* visitIfStatement and visitWhileStatement: the condition is in the register of the
\* last operation.
Branch(st, label) ==
  LET r == Reg(st, 1)
  IN  Freed(Emit(Allocated(st, 1), <<<<"add", r, st.last, 0>>, <<"bz", r, label>>>>), r)

-----------------------------------------------------------------------------

\* The class that visitDotAccess finds for its object, and the object's address.
ObjectClass(object, env) ==
  LET class[o \in NodesOf(object)] ==
        CASE o.kind = "IDENTIFIER" -> Slots(env)[o.value].type
          [] o.kind = "SELF_IDENTIFIER" -> env.fun.class
          [] o.kind = "ARRAY_ACCESS" -> Slots(env)[o.kids[1].value].type
          [] o.kind = "DOT_ACCESS" ->
               env.layout.classes[class[o.kids[1]]].slots[o.kids[2].value].type
  IN  class[object]

ObjectAddress(object, r, env) ==
  CASE object.kind = "IDENTIFIER" -> <<<<"addi", r, Sp, NodeOffset(object, env)>>>>
    [] object.kind = "SELF_IDENTIFIER" -> <<<<"lw", r, Scope(env), Sp>>>>
    [] OTHER -> <<<<"lw", r, NodeOffset(object, env), Sp>>>>

\* The name of the member, and its address from that of the object: the address of
\* an array, whatever the index.  A function has no offset, and the visit ends.
MemberName(member) == IF member.kind = "DOT_IDENTIFIER" THEN member.value ELSE member.kids[1].value

MemberAddress(node, object, st, env) ==
  LET slot == env.layout.classes[object.class].slots[MemberName(node.kids[2])]
      f == Reg(st, 1)
      found == Emit(Allocated(st, 1), <<<<"subi", f, object.reg, slot.offset + slot.size>>>>
                                        \o Store(node, f, env))
  IN  Freed(Freed(found, object.reg), f)

\* The states of the visitor before it has emitted anything.
States == [pool : Seq(Int), labels : Nat, last : Int, code : {<<>>}]

\* accept: what a visit emits comes after the code so far.
Visited(visit, node, st) ==
  LET r == visit[<<node, [st EXCEPT !.code = <<>>]>>]
  IN  [r EXCEPT !.code = st.code \o @]

GenAll(visit, nodes, st) == Through(LAMBDA acc, n : Visited(visit, n, acc), st, nodes)

\* visitIndexList, for one index that has a dimension.
GenIndex(visit, node, object, i, total, st, env) ==
  LET base == node.kids[1]
      index == node.kids[2].kids[i]
      symbol == ArraySymbol(base, object, env)
  IN  IF i \notin DOMAIN symbol.dims THEN st
      ELSE AddIndex(total, index, Multiplier(symbol, ElementSize(base, symbol), i),
                    Visited(visit, index, st), env)

GenIndices(visit, node, object, total, st, env) ==
  Through(LAMBDA acc, i : GenIndex(visit, node, object, i, total, acc, env), st,
          [i \in DOMAIN node.kids[2].kids |-> i])

\* The rest of visitIndexList and visitArrayAccess, with the address in b and the
\* offset in t.
AccessTotal(visit, node, object, b, t, st, env) ==
  LET symbol == ArraySymbol(node.kids[1], object, env)
      start == Emit(st, ArrayAddress(node.kids[1], object, symbol, b) \o <<<<"addi", t, 0, 0>>>>)
      counted == GenIndices(visit, node, object, t, start, env)
      f == Reg(counted, 1)
      done == Emit(Allocated(counted, 1),
                   <<<<"sub", f, b, t>>, <<"sw", NodeOffset(node.kids[2], env), Sp, f>>>>)
  IN  Freed(Freed(Freed(done, t), b), f)

\* visitArrayAccess and visitIndexList.  The register t is not freed when the name has
\* no dimensions.
GenAccess(visit, node, object, st, env) ==
  LET symbol == ArraySymbol(node.kids[1], object, env)
      b == Reg(st, 1)
      t == Reg(st, 2)
  IN  IF symbol.dims = <<>>
      THEN Freed(Emit(Allocated(st, 2), ArrayAddress(node.kids[1], object, symbol, b)), b)
      ELSE AccessTotal(visit, node, object, b, t, Allocated(st, 2), env)

\* The arguments from the last to the first.
GenArgument(visit, node, callee, i, st, env) ==
  LET args == node.kids[2].kids
      arg == args[Len(args) + 1 - i]
      params == ParamSlots(callee)
      place == Scope(env) + IF i \in DOMAIN params THEN params[i].offset ELSE 0
  IN  PassArgument(arg, place, Visited(visit, arg, st), env)

GenArguments(visit, node, callee, st, env) ==
  Through(LAMBDA acc, i : GenArgument(visit, node, callee, i, acc, env), st,
          [i \in DOMAIN node.kids[2].kids |-> i])

\* visitFunctionCall.
GenCall(visit, node, object, st, env) ==
  LET isMember == node.kids[1].kind = "DOT_IDENTIFIER"
      callee == FunctionsOf(env, IF isMember THEN object.class ELSE "", node.kids[1].value)[1]
      self == IF isMember
              THEN <<<<"sw", Scope(env) + callee.frame.scope, Sp, object.reg>>>> ELSE <<>>
      passed == GenArguments(visit, node, callee, Emit(st, self), env)
  IN  Emit(passed, Down(env) \o JumpAndLink(FunctionLabel(callee)) \o Up(env))

\* visitDotAccess.
GenMember(visit, member, object, st, env) ==
  CASE member.kind = "FUNCTION_CALL" -> GenCall(visit, member, object, st, env)
    [] member.kind = "ARRAY_ACCESS" -> GenAccess(visit, member, object, st, env)
    [] OTHER -> Visited(visit, member, st)

GenDot(visit, node, st, env) ==
  LET member == node.kids[2]
      visited == Visited(visit, node.kids[1], st)
      object == [class |-> ObjectClass(node.kids[1], env), reg |-> Reg(visited, 1)]
      addressed == Emit(Allocated(visited, 1), ObjectAddress(node.kids[1], object.reg, env))
      done == GenMember(visit, member, object, addressed, env)
  IN  IF member.kind = "FUNCTION_CALL" THEN Freed(done, object.reg)
      ELSE MemberAddress(node, object, done, env)

\* visitAssignment: the register of the value is held while the left side is visited.
\* Bug: the register of the value is kept.
AssignToHeld(target, v, st, env) == Emit(st, Deliver(target, v, Reg(st, 1), env))

AssignTo(target, v, st, env) ==
  LET a == Reg(st, 1)
      delivered == Emit(st, Deliver(target, v, a, env))
  IN  IF IsAddressed(target) THEN Freed(Freed(Allocated(delivered, 1), a), v)
      ELSE Freed(delivered, v)

AssignValue(visit, target, value, st, env) ==
  LET v == Reg(st, 1)
      a == Reg(st, 2)
      fetched == Emit(Allocated(st, 1), Fetch(value, v, a, env))
      ready == IF value.kind = "ARRAY_ACCESS" THEN Freed(Allocated(fetched, 1), a) ELSE fetched
  IN  AssignTo(target, v, IF IsAddressed(target) THEN Visited(visit, target, ready) ELSE ready, env)

GenAssignment(visit, node, st, env) ==
  AssignValue(visit, node.kids[1], node.kids[2], Visited(visit, node.kids[2], st), env)

GenIf(visit, node, st) ==
  LET n == st.labels
      else == Label("else_", n + 1)
      end == Label("endif_", n + 2)
      tested == Branch(Visited(visit, node.kids[1], Labels(st, 3)), else)
      then == Visited(visit, node.kids[2], Emit(tested, <<LabelAt(Label("then_", n))>>))
      otherwise == Visited(visit, node.kids[3], Emit(then, <<<<"j", end>>, LabelAt(else)>>))
  IN  Emit(otherwise, <<LabelAt(end)>>)

\* Bug: a false condition leads to the test again.
GenWhileForever(visit, node, st) ==
  LET start == Label("while_start_", st.labels)
      begun == Emit(Labels(st, 2), <<LabelAt(start)>>)
      tested == Branch(Visited(visit, node.kids[1], begun), start)
  IN  Emit(Visited(visit, node.kids[2], tested), <<<<"j", start>>>>)

GenWhile(visit, node, st) ==
  LET n == st.labels
      start == Label("while_start_", n)
      end == Label("while_end_", n + 1)
      tested == Branch(Visited(visit, node.kids[1], Emit(Labels(st, 2), <<LabelAt(start)>>)), end)
  IN  Emit(Visited(visit, node.kids[2], tested), <<<<"j", start>>, LabelAt(end)>>)

\* The visit of each kind of node; the other kinds visit their children.  A member is
\* visited with its object only, and without one its visit ends.
Gen(visit, node, st, env) ==
  CASE node.kind = "INT" -> Literal(node, st, env)
    [] node.kind \in {"ADD_OP", "MULT_OP", "REL_OP"} ->
         Operation(node, GenAll(visit, node.kids, st), env)
    [] node.kind = "ARRAY_ACCESS" ->
         IF node.kids[1].kind = "IDENTIFIER" THEN GenAccess(visit, node, NoObject, st, env) ELSE st
    [] node.kind = "DOT_ACCESS" -> GenDot(visit, node, st, env)
    [] node.kind = "FUNCTION_CALL" -> GenCall(visit, node, NoObject, st, env)
    [] node.kind = "ASSIGNMENT" -> GenAssignment(visit, node, st, env)
    [] node.kind = "WRITE_STATEMENT" -> WriteValue(node.kids[1], GenAll(visit, node.kids, st), env)
    [] node.kind = "READ_STATEMENT" -> ReadValue(node.kids[1], st, env)
    [] node.kind = "RETURN_STATEMENT" -> ReturnValue(node.kids[1], GenAll(visit, node.kids, st), env)
    [] node.kind = "IF_STATEMENT" -> GenIf(visit, node, st)
    [] node.kind = "WHILE_STATEMENT" -> GenWhile(visit, node, st)
    [] OTHER -> GenAll(visit, node.kids, st)

\* The visit of the nodes with less than h levels below them; there is none without a
\* level of its own.
Visits(env) ==
  LET arguments == NodesOf(env.fun.body) \X States
      visit[h \in 0 .. MaxHeight + 1] ==
        IF h = 0 THEN [a \in arguments |-> a[2]]
        ELSE [a \in arguments |-> Gen(visit[h - 1], a[1], a[2], env)]
  IN  visit[MaxHeight + 1]

\* visitFunction: main starts the stack, another function saves its link.
GenFunction(st, fun, layout) ==
  LET env == [fun |-> fun, layout |-> layout]
      entry == <<LabelAt(FunctionLabel(fun))>>
                 \o IF fun.name = "main" THEN <<<<"addi", Sp, 0, TopAddress>>>>
                    ELSE <<<<"sw", -4, Sp, Link>>>>
  IN  Emit(Visited(Visits(env), fun.body, Emit(st, entry)),
           IF fun.name = "main" THEN <<>> ELSE ReturnFrom)

\* processAST: there is one hlt, after the last function.
GenFunctions(layout) ==
  Through(LAMBDA st, fun : GenFunction(st, fun, layout), EmptyState, layout.funs)

Generated(layout) == Emit(GenFunctions(layout), <<<<"hlt">>>>)

=============================================================================
