-------------------------- MODULE SemanticChecking --------------------------
(***************************************************************************)
(* SemanticCheckingVisitor: the pass over the tree that checks types and   *)
(* uses of names against the symbol tables, and then searches for circular *)
(* class dependencies.                                                     *)
(*                                                                         *)
(* todo is what the visitor's recursion has left to visit, down to the     *)
(* statements; each action is the visit of one declaration or statement.   *)
(* The visit of an expression is an operator on what it changes, the type  *)
(* of the current expression and the errors, in the order in which the     *)
(* visitor goes through the operands.  Warnings, and the wording and the   *)
(* lines of errors, are left out: an error has the scope and the statement *)
(* that it is about.                                                       *)
(***************************************************************************)
EXTENDS ClassCycles, ProgramTables

CONSTANTS Programs,              \* the programs that may be checked
          Nodes,                 \* the blocks and the statements of their bodies
          Trees,                 \* the expressions of their statements
          BaseTypes, DimLists,   \* what the texts of parameter types are made of
          LowerCase(_)           \* a name in lower case

IsList(s) == s \in Seq(Range(s))

\* Kinds of nodes that no body has: the lists and declarations of a program, and what
\* is left of a visit when the visits of its parts are over.
DeclarationKinds ==
  {"CLASS_LIST", "CLASS", "IMPLEMENTATION_LIST", "IMPLEMENTATION", "NO_CLASS", "LEAVE",
   "FUNCTION_LIST", "FUNCTION", "LEAVE_FUNCTION"}

\* Blocks and statements, with the blocks and statements in them.
AreStatements(nodes) ==
  \A n \in nodes :
    /\ n.kind \notin DeclarationKinds
    /\ n.kind \in {"BLOCK", "IF_STATEMENT", "WHILE_STATEMENT"} => IsList(n.kids)
    /\ n.kind = "BLOCK" => \A k \in Range(n.kids) : k.kind = "LOCAL_VARIABLE" \/ k \in nodes
    /\ n.kind \in {"IF_STATEMENT", "WHILE_STATEMENT"} =>
         n.kids # <<>> /\ Range(Tail(n.kids)) \subseteq nodes

ASSUME NodesAssumption == AreStatements(Nodes)

\* The name of a member function stands for the function that is implemented, if the
\* name of its class stands for the class.
Implemented(ts, f) ==
  f.class \in DOMAIN ts[<<>>].syms /\ ts[<<>>].syms[f.class].kind = "CLASS" =>
    /\ f.name \in DOMAIN ts[<<f.class>>].syms
    /\ ts[<<f.class>>].syms[f.name].kind = "FUNCTION"
    /\ ts[<<f.class>>].syms[f.name].params = Described(f.params)

\* What the parser and the symbol table visitor leave.
AreParsed(programs, nodes) ==
  \A p \in programs :
    /\ IsList(p.classes) /\ IsList(p.implementations) /\ IsList(p.functions)
    /\ \A f \in Range(p.functions) : f.class = "" /\ f.body \in nodes
    /\ \A i \in Range(p.implementations) :
         /\ i.class # "" /\ IsList(i.functions)
         /\ \A f \in Range(i.functions) : f.class = i.class /\ f.body \in nodes

AreTables(programs, all) ==
  \A p \in programs : \A ts \in {TablesOf(p)} :
    /\ ts \in all
    /\ \A i \in Range(p.implementations) : \A f \in Range(i.functions) : Implemented(ts, f)

ASSUME ProgramsAssumption == AreParsed(Programs, Nodes) /\ AreTables(Programs, Tables)

VARIABLES program,    \* the tree
          todo,
          scope,      \* the path of currentTable
          class,      \* currentClassName
          expected,   \* expectedReturnType
          expr,       \* currentExprType
          errors

visitorVars == <<todo, scope, class, expected, expr, errors>>
vars == <<program, tables, visitorVars, searchVars>>

\* What the visit of an expression leaves.
Outcome(info, found) == [expr |-> info, errors |-> found]

Outcomes ==
  [expr : [type : STRING, dims : Seq(Int), class : BOOLEAN], errors : Seq(STRING)]

\* isClassType is set when the global table has any symbol of that name.
Info(type, dims) ==
  [type |-> type, dims |-> dims, class |-> type \in DOMAIN tables[<<>>].syms]
InfoOf(symbol) == Info(symbol.type, symbol.dims)
Plain(type) == [type |-> type, dims |-> <<>>, class |-> FALSE]

Wrong(s, what) == [s EXCEPT !.errors = Append(@, what)]

\* Most errors set only the type of the expression: the rest is what it was.
Spoiled(s, what) == Wrong([s EXCEPT !.expr.type = "error"], what)
Cleared(s, what) == Outcome(Plain("error"), Append(s.errors, what))

NoSymbol == Symbol("none", "", <<>>)

\* lookupSymbol: outwards from the table at a path.
Lookup(path, x) ==
  LET found == {n \in 0 .. Len(path) : x \in DOMAIN tables[SubSeq(path, 1, n)].syms}
  IN  IF found = {} THEN NoSymbol ELSE tables[SubSeq(path, 1, Max(found))].syms[x]

IsFunction(symbol) == symbol.kind = "FUNCTION"

\* lookupFunctionCaseInsensitive.
FreeFunction(f) ==
  LET alike == {g \in DOMAIN tables[<<>>].syms :
                  IsFunction(tables[<<>>].syms[g]) /\ LowerCase(g) = LowerCase(f)}
  IN  IF IsFunction(Lookup(<<>>, f)) THEN Lookup(<<>>, f)
      ELSE IF alike = {} THEN NoSymbol
      ELSE tables[<<>>].syms[CHOOSE g \in alike : TRUE]

InClass == class # "" /\ <<class>> \in DOMAIN tables

\* A name in the class around the function, or else in the first parent that has it.
InOwnClass(x) ==
  LET parents == SelectSeq(IF IsClass(class) THEN Parents(class) ELSE <<>>,
                           LAMBDA p : <<p>> \in DOMAIN tables /\ Lookup(<<p>>, x) # NoSymbol)
  IN  IF Lookup(<<class>>, x) # NoSymbol THEN Lookup(<<class>>, x)
      ELSE IF parents = <<>> THEN NoSymbol ELSE Lookup(<<Head(parents)>>, x)

\* areTypesCompatible.
\* Bug: the dimensions do not count.
CompatibleTypes(a, b) == a.type = b.type

Compatible(a, b) ==
  /\ a.type = b.type
  /\ Len(a.dims) = Len(b.dims)
  /\ \A i \in DOMAIN a.dims : Dynamic \in {a.dims[i], b.dims[i]} \/ a.dims[i] = b.dims[i]

IsNumeric(type) == type \in {"int", "float"}

-----------------------------------------------------------------------------

\* visitIdentifier.
\* Bug: the parents of the class around are not looked at.
IdentifierNear(x, s) ==
  LET symbol == Lookup(scope, x)
  IN  IF symbol = NoSymbol THEN Cleared(s, "variable") ELSE [s EXCEPT !.expr = InfoOf(symbol)]

IdentifierVisited(x, s) ==
  LET near == Lookup(scope, x)
      symbol == IF near = NoSymbol /\ InClass THEN InOwnClass(x) ELSE near
  IN  IF symbol = NoSymbol THEN Cleared(s, "variable") ELSE [s EXCEPT !.expr = InfoOf(symbol)]

\* visitDotIdentifier, for the name after the dot: inside a class it is taken for a
\* member of that class.
MemberVisited(x, s) ==
  IF InClass /\ InOwnClass(x).kind = "VARIABLE" THEN [s EXCEPT !.expr = InfoOf(InOwnClass(x))]
  ELSE s

SelfVisited(s) ==
  IF class = "" THEN Spoiled(s, "self")
  ELSE [s EXCEPT !.expr = [Plain(class) EXCEPT !.class = TRUE]]

\* visitAddOp and visitMultOp: the dimensions of the operands are not looked at.
SumOf(left, s) ==
  IF ~ IsNumeric(left.type) \/ ~ IsNumeric(s.expr.type) \/ left.type # s.expr.type
  THEN Cleared(s, "operands")
  ELSE [s EXCEPT !.expr = Plain(left.type)]

\* The parameters of a call: their number, and then the type of each.
Matched(params, args, s) ==
  IF Len(params) # Len(args) THEN Wrong(s, "count")
  ELSE Outcome(s.expr, s.errors \o
         [i \in 1 .. Cardinality({j \in DOMAIN params :
                        ~ Compatible(Parsed(params[j].type, BaseTypes, DimLists), args[j])})
          |-> "argument"])

\* A call has the type of the function, and no dimensions.
Called(symbol, args, s) ==
  [Matched(symbol.params, args, s) EXCEPT !.expr = Info(symbol.type, <<>>)]

\* visitArrayAccess, once its indices were visited: the first dimensions go.
Element(array, n, s) ==
  [s EXCEPT !.expr = IF n > Len(array.dims) THEN array
                     ELSE [array EXCEPT !.dims = SubSeq(@, n + 1, Len(@))],
            !.errors = IF n > Len(array.dims) THEN Append(@, "indices") ELSE @]

\* The member of an object that a name stands for, with the checks before its use.
Access(object, x, s) ==
  CASE <<object>> \notin DOMAIN tables     -> Spoiled(s, "class")
    [] Lookup(<<object>>, x) = NoSymbol    -> Spoiled(s, "member")
    [] Lookup(<<object>>, x).visibility = "private" /\ class # object -> Spoiled(s, "private")
    [] OTHER                               -> [s EXCEPT !.expr = InfoOf(Lookup(<<object>>, x))]

\* handleMethodCall, up to the arguments.
Callable(object, f, s) ==
  CASE <<object>> \notin DOMAIN tables          -> "class"
    [] ~ IsFunction(Lookup(<<object>>, f))      -> "method"
    [] Lookup(<<object>>, f).visibility = "private" /\ class # object -> "private"
    [] OTHER                                    -> "none"

\* Below, visit is the visit of the parts of an expression.

\* Each operand in turn: what its visit leaves, and the types so far.
AllVisited(visit, nodes, s) ==
  FoldLeft(LAMBDA a, n : LET v == visit[<<n, a.s>>]
                         IN  [s |-> v, types |-> Append(a.types, v.expr)],
           [s |-> s, types |-> <<>>], nodes)

\* visitIndexList: an index is an int.
IndexVisited(visit, nodes, s) ==
  FoldLeft(LAMBDA a, n : LET v == visit[<<n, a>>]
                         IN  IF v.expr.type = "int" THEN v ELSE Wrong(v, "index"),
           s, nodes)

FunctionCallVisited(visit, f, args, s) ==
  LET free == FreeFunction(f)
      own == IF InClass THEN Lookup(<<class>>, f) ELSE NoSymbol
      seen == AllVisited(visit, args, s)
  IN  IF free = NoSymbol THEN Spoiled(s, "function")
      ELSE Called(IF IsFunction(own) THEN own ELSE free, seen.types, seen.s)

MethodCallVisited(visit, object, f, args, s) ==
  LET seen == AllVisited(visit, args, s)
  IN  IF Callable(object, f, s) # "none" THEN Spoiled(s, Callable(object, f, s))
      ELSE Called(Lookup(<<object>>, f), seen.types, seen.s)

ArrayVisited(visit, node, s) ==
  LET base == visit[<<node.kids[1], s>>]
      indices == node.kids[2].kids
  IN  IF base.expr.dims = <<>> THEN Spoiled(base, "array")
      ELSE Element(base.expr, Len(indices), IndexVisited(visit, indices, base))

\* visitDotAccess: a member or an element of a member is visited again, once its
\* type is known.
DotVisited(visit, object, member, s) ==
  LET o == visit[<<object, s>>]
      x == IF member.kind = "ARRAY_ACCESS" THEN member.kids[1].value ELSE member.value
      m == Access(o.expr.type, x, o)
  IN  CASE ~ o.expr.class -> Spoiled(o, "dot")
        [] o.expr.class /\ member.kind = "FUNCTION_CALL" ->
             MethodCallVisited(visit, o.expr.type, member.kids[1].value, member.kids[2].kids, o)
        [] o.expr.class /\ member.kind # "FUNCTION_CALL" /\ Len(m.errors) > Len(o.errors) -> m
        [] o.expr.class /\ member.kind = "ARRAY_ACCESS" /\ Len(m.errors) = Len(o.errors)
             /\ m.expr.dims = <<>> -> Spoiled(o, "array")
        [] OTHER -> visit[<<member, m>>]

ExpressionVisited(visit, node, s) ==
  CASE node.kind = "INT"             -> [s EXCEPT !.expr = Plain("int")]
    [] node.kind = "FLOAT"           -> [s EXCEPT !.expr = Plain("float")]
    [] node.kind = "IDENTIFIER"      -> IdentifierVisited(node.value, s)
    [] node.kind = "SELF_IDENTIFIER" -> SelfVisited(s)
    [] node.kind = "DOT_IDENTIFIER"  -> MemberVisited(node.value, s)
    [] node.kind \in {"ADD_OP", "MULT_OP"} ->
         LET left == visit[<<node.kids[1], s>>]
         IN  SumOf(left.expr, visit[<<node.kids[2], left>>])
    [] node.kind = "REL_OP"          -> s
    [] node.kind = "DOT_ACCESS"      -> DotVisited(visit, node.kids[1], node.kids[2], s)
    [] node.kind = "ARRAY_ACCESS"    -> ArrayVisited(visit, node, s)
    [] node.kind = "FUNCTION_CALL"   ->
         FunctionCallVisited(visit, node.kids[1].value, node.kids[2].kids, s)

Visited(node, s) ==
  LET visit[a \in Trees \X Outcomes] == ExpressionVisited(visit, a[1], a[2])
  IN  visit[<<node, s>>]

-----------------------------------------------------------------------------

Node == Head(todo)

At(kind) == todo # <<>> /\ Node.kind = kind

\* The visit of a node ends with what it found, about that node.
Report(s) ==
  /\ expr' = s.expr
  /\ errors' = errors \o [i \in DOMAIN s.errors |-> [what |-> s.errors[i], in |-> scope, at |-> Node]]

Before == Outcome(expr, <<>>)

Init ==
  /\ program \in Programs
  /\ tables = TablesOf(program)
  /\ todo = <<Tree("CLASS_LIST", "", program.classes),
             Tree("IMPLEMENTATION_LIST", "", program.implementations),
             Tree("FUNCTION_LIST", "", program.functions)>>
  /\ scope = <<>>
  /\ class = ""
  /\ expected = <<>>
  /\ expr = Plain("")
  /\ errors = <<>>
  /\ SearchInit

\* A node that stands for something that is no node of its own.
NodeFor(kind, subject) == Tree(kind, "", <<subject>>)

Subject == Node.kids[1]

\* A list is its elements, as nodes of a kind.
Elements(kind, seq) == [i \in DOMAIN seq |-> NodeFor(kind, seq[i])]

VisitClassList ==
  /\ At("CLASS_LIST")
  /\ todo' = Elements("CLASS", Node.kids) \o Tail(todo)
  /\ UNCHANGED <<scope, class, expected, expr, errors>>

\* visitClass: the types of the members are those that the tables have.  A class
\* whose name is no longer a class in the global table stays the current one.
VisitClass ==
  LET c == Subject
  IN  /\ At("CLASS")
      /\ todo' = Tail(todo)
      /\ IF IsClass(c.name)
         THEN /\ class' = ""
              /\ Report([Before EXCEPT !.errors =
                           [i \in 1 .. Cardinality({j \in DOMAIN c.parents :
                                                       ~ IsClass(c.parents[j])}) |-> "parent"]])
         ELSE /\ class' = c.name
              /\ Report(Wrong(Before, "class"))
      /\ UNCHANGED <<scope, expected>>

VisitImplementationList ==
  /\ At("IMPLEMENTATION_LIST")
  /\ todo' = Elements("IMPLEMENTATION", Node.kids) \o <<Tree("NO_CLASS", "", <<>>)>> \o Tail(todo)
  /\ UNCHANGED <<scope, class, expected, expr, errors>>

\* The end of visitImplementationList.
LeaveClass ==
  /\ At("NO_CLASS")
  /\ class' = ""
  /\ todo' = Tail(todo)
  /\ UNCHANGED <<scope, expected, expr, errors>>

\* visitImplementation visits each function of its list, and then the list.
VisitImplementation ==
  LET i == Subject
      functions == Elements("FUNCTION", i.functions)
  IN  /\ At("IMPLEMENTATION")
      /\ IF IsClass(i.class)
         THEN /\ class' = i.class
              /\ scope' = <<i.class>>
              /\ todo' = functions \o functions \o <<NodeFor("LEAVE", [path |-> scope])>> \o Tail(todo)
              /\ UNCHANGED <<expr, errors>>
         ELSE /\ todo' = Tail(todo)
              /\ Report(Wrong(Before, "implementation"))
              /\ UNCHANGED <<class, scope>>
      /\ UNCHANGED expected

\* The end of visitImplementation.
LeaveImplementation ==
  /\ At("LEAVE")
  /\ scope' = Subject.path
  /\ class' = ""
  /\ todo' = Tail(todo)
  /\ UNCHANGED <<expected, expr, errors>>

VisitFunctionList ==
  /\ At("FUNCTION_LIST")
  /\ class' = ""
  /\ todo' = Elements("FUNCTION", Node.kids) \o Tail(todo)
  /\ UNCHANGED <<scope, expected, expr, errors>>

\* The key under which visitFunction looks for the table of a function: for a member
\* function, it is made of the parameters of the function that has the name now.
TableKey(f) ==
  LET symbol == Lookup(scope, f.name)
  IN  IF scope # <<>> /\ IsFunction(symbol) THEN UniqueKey(f.name, symbol.params) ELSE f.name

\* visitFunction: without a table, the body is not visited.
VisitFunction ==
  LET f == Subject
      path == Append(scope, TableKey(f))
  IN  /\ At("FUNCTION")
      /\ class' = IF scope = <<>> THEN "" ELSE class
      /\ IF path \in DOMAIN tables
         THEN /\ scope' = path
              /\ expected' = Append(expected, f.type)
              /\ todo' = <<f.body, NodeFor("LEAVE_FUNCTION", [path |-> scope, fun |-> f])>>
                           \o Tail(todo)
         ELSE /\ todo' = Tail(todo)
              /\ UNCHANGED <<scope, expected>>
      /\ UNCHANGED <<expr, errors>>

\* Bug: the return type stays on its stack.
LeaveWithType ==
  /\ At("LEAVE_FUNCTION")
  /\ scope' = Subject.path
  /\ todo' = Tail(todo)
  /\ UNCHANGED <<class, expected, expr, errors>>

LeaveFunction ==
  /\ At("LEAVE_FUNCTION")
  /\ scope' = Subject.path
  /\ expected' = Front(expected)
  /\ todo' = Tail(todo)
  /\ UNCHANGED <<class, expr, errors>>

\* visitBlock and the lists of statements; visitLocalVariable does nothing.
VisitBlock ==
  /\ At("BLOCK")
  /\ todo' = Kept(Node.kids, {s \in Range(Node.kids) : s.kind # "LOCAL_VARIABLE"}) \o Tail(todo)
  /\ UNCHANGED <<scope, class, expected, expr, errors>>

\* What the visit of a statement comes to, and the blocks it goes on to.
Statement(kind, s, blocks) ==
  /\ At(kind)
  /\ Report(s)
  /\ todo' = blocks \o Tail(todo)
  /\ UNCHANGED <<scope, class, expected>>

\* int to float is an error too, besides the warning.
VisitAssignment ==
  LET left == Visited(Node.kids[1], Before)
      right == Visited(Node.kids[2], left)
  IN  Statement("ASSIGNMENT",
                IF Compatible(left.expr, right.expr) THEN right ELSE Wrong(right, "assignment"),
                <<>>)

\* visitCondition and the visit of the statement around it check the same.
Conditioned(s) ==
  IF s.expr.type \in {"bool", "int"} THEN s ELSE Wrong(Wrong(s, "condition"), "condition")

VisitIf ==
  Statement("IF_STATEMENT", Conditioned(Visited(Node.kids[1].kids[1], Before)), Tail(Node.kids))

VisitWhile ==
  Statement("WHILE_STATEMENT", Conditioned(Visited(Node.kids[1].kids[1], Before)), Tail(Node.kids))

VisitReturn ==
  LET s == Visited(Node.kids[1], Before)
  IN  Statement("RETURN_STATEMENT",
                IF expected # <<>> /\ Compatible(Plain(Last(expected)), s.expr) THEN s
                ELSE Wrong(s, "return"), <<>>)

VisitRead ==
  LET s == Visited(Node.kids[1], Before)
  IN  Statement("READ_STATEMENT",
                IF IsNumeric(s.expr.type) THEN s ELSE Wrong(s, "read"), <<>>)

VisitWrite == Statement("WRITE_STATEMENT", Visited(Node.kids[1], Before), <<>>)

\* A call that is a statement.
VisitCall ==
  \/ Statement("FUNCTION_CALL", Visited(Node, Before), <<>>)
  \/ Statement("DOT_ACCESS", Visited(Node, Before), <<>>)

VisitStep ==
  \/ VisitClassList
  \/ VisitClass
  \/ VisitImplementationList
  \/ LeaveClass
  \/ VisitImplementation
  \/ LeaveImplementation
  \/ VisitFunctionList
  \/ VisitFunction
  \/ LeaveFunction
  \/ VisitBlock
  \/ VisitAssignment
  \/ VisitIf
  \/ VisitWhile
  \/ VisitReturn
  \/ VisitRead
  \/ VisitWrite
  \/ VisitCall

\* The rest of visitProgram, once its children were visited.
SearchForCycles ==
  /\ todo = <<>>
  /\ SearchStep
  /\ UNCHANGED <<program, tables, visitorVars>>

Next ==
  \/ VisitStep /\ UNCHANGED <<program, tables, searchVars>>
  \/ SearchForCycles

Spec == Init /\ [][Next]_vars

\* The recursion over the tree ends with the tree; the search is over a graph, and goes
\* on as long as its loops have something left.
FairSpec == Spec /\ WF_searchVars(SearchForCycles)

Finished == todo = <<>> /\ Searched

-----------------------------------------------------------------------------

\* visitFunction looks for the table of a free function under its bare name, and finds
\* it when that is its key, without parameters.
Checked(f) == f.class = "" => KeyOf(f) = f.name

\* A statement is checked in the table of the function that it stands in, inside the
\* class of that function and against its return type, although the visitor keeps
\* the three in different variables that it restores at different places.
OwnContext ==
  \A n \in DOMAIN todo :
    /\ todo[n].kind = "LEAVE_FUNCTION"
    /\ \A i \in 1 .. n - 1 : todo[i].kind # "LEAVE_FUNCTION"
    => LET f == todo[n].kids[1].fun
       IN  Checked(f) => /\ scope = Append(todo[n].kids[1].path, KeyOf(f))
                         /\ class = f.class
                         /\ expected = <<f.type>>

=============================================================================
