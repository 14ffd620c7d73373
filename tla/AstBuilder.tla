----------------------------- MODULE AstBuilder -----------------------------
(***************************************************************************)
(* AST::performAction: what each semantic action does to the stack of      *)
(* trees from which the parser builds the abstract syntax tree.            *)
(*                                                                         *)
(* A node is its kind, the token whose lexeme is its value (0 when the     *)
(* value is fixed), and its children from left to right.  The stack is a   *)
(* sequence with its back at the end.  An action reads and pops the stack  *)
(* without a test: an action that needs more nodes than there are has an   *)
(* undefined outcome.                                                      *)
(***************************************************************************)
EXTENDS Integers, SequencesExt, TLC

Node(kind, token, kids) == [kind |-> kind, token |-> token, kids |-> kids]
Leaf(kind, token) == Node(kind, token, <<>>)

Drop(s, n) == SubSeq(s, 1, Len(s) - n)

\* adoptChildren: a new child goes to the right of the others.
Adopt(parent, child) == [parent EXCEPT !.kids = Append(@, child)]
AdoptAtBack(s, child) == Append(Front(s), Adopt(Last(s), child))

BackIs(s, kinds) == s # <<>> /\ Last(s).kind \in kinds
BelowIs(s, kinds) == Len(s) > 1 /\ s[Len(s) - 1].kind \in kinds

-----------------------------------------------------------------------------

\* Actions that push a leaf with the value they are given.
Named ==
  "_createClassId" :> "CLASS_ID" @@ "_createImplementationId" :> "IMPLEMENTATION_ID" @@
  "_createFunctionId" :> "FUNCTION_ID" @@ "_setVisibility" :> "VISIBILITY" @@
  "_setVariableId" :> "VARIABLE_ID" @@ "_setVariableType" :> "TYPE" @@
  "_setParamId" :> "PARAM_ID" @@ "_setTypeInt" :> "TYPE" @@ "_setTypeFloat" :> "TYPE" @@
  "_setTypeCustom" :> "TYPE" @@ "_setTypeVoid" :> "TYPE" @@
  "_addArrayDimension" :> "ARRAY_DIMENSION" @@ "_setAssignOperator" :> "ASSIGN_OP" @@
  "_setRelop" :> "REL_OP" @@ "_setAddOp" :> "ADD_OP" @@ "_setMultOp" :> "MULT_OP" @@
  "_setIdentifier" :> "IDENTIFIER" @@ "_pushIdentifier" :> "IDENTIFIER" @@
  "_pushDotIdentifier" :> "DOT_IDENTIFIER" @@ "_pushIntLiteral" :> "INT" @@
  "_pushFloatLiteral" :> "FLOAT"

\* Actions that push a leaf with a fixed value: most of them start a list.
Fixed ==
  "_createInheritanceList" :> "INHERITANCE_LIST" @@ "_addMemberList" :> "MEMBER_LIST" @@
  "_createParamList" :> "PARAM_LIST" @@ "_addStatementsList" :> "STATEMENTS_LIST" @@
  "_createImplementationList" :> "IMPLEMENTATION_FUNCTION_LIST" @@
  "_addDynamicArrayDimension" :> "ARRAY_DIMENSION" @@
  "_setSelfIdentifier" :> "SELF_IDENTIFIER"

\* Actions that pop so many nodes and push their parent.
Family ==
  "_createClass" :> <<"CLASS", 3>> @@ "_createImplementation" :> <<"IMPLEMENTATION", 2>> @@
  "_createFunctionSignature" :> <<"FUNCTION_SIGNATURE", 3>> @@
  "_createConstructorSignature" :> <<"CONSTRUCTOR_SIGNATURE", 2>> @@
  "_createFunction" :> <<"FUNCTION", 2>> @@
  "_createFunctionDeclaration" :> <<"FUNCTION_DECLARATION", 1>> @@
  "_createAttribute" :> <<"ATTRIBUTE", 1>> @@
  "_createLocalVariable" :> <<"LOCAL_VARIABLE", 1>> @@
  "_createIfStatement" :> <<"IF_STATEMENT", 3>> @@
  "_createWhileStatement" :> <<"WHILE_STATEMENT", 2>> @@
  "_createSingleStatement" :> <<"SINGLE_STATEMENT", 1>> @@
  "_createReadStatement" :> <<"READ_STATEMENT", 1>> @@
  "_createWriteStatement" :> <<"WRITE_STATEMENT", 1>> @@
  "_createReturnStatement" :> <<"RETURN_STATEMENT", 1>> @@
  "_createFunctionCall" :> <<"FUNCTION_CALL", 2>> @@
  "_addCondition" :> <<"CONDITION", 1>> @@
  "_finishVariable" :> <<"VARIABLE", 1>>

\* Actions that pop left operand, operator and right operand.
Binary == {"_createRelationalExpr", "_processMultOp", "_processAddOp"}

\* Actions that pop a node and give it to the one below.
Giving == {"_addImplementationFunction", "_addStatement", "_addBodyStatement", "_addActualParam"}

\* Actions that change the kind of the back.
Retyping == "_createFunctionBody" :> "FUNCTION_BODY" @@ "_createBlock" :> "BLOCK"

\* _processDotAccess goes on with a member, a call, or an indexed member of an
\* identifier, at the back.
SelectsMember(s) ==
  \/ BackIs(s, {"DOT_IDENTIFIER", "FUNCTION_CALL"})
  \/ BackIs(s, {"ARRAY_ACCESS"}) /\ BelowIs(s, {"IDENTIFIER"})

\* The number of nodes of the stack that an action reads.
Reads(s, a) ==
  CASE a \in DOMAIN Family -> Family[a][2]
    [] a \in Binary \cup {"_createAssignment", "_createParam"} -> 3
    [] a \in Giving \cup {"_addMember", "_createVariable", "_processIndexList",
                          "_addToProgram"} -> 2
    [] a \in DOMAIN Retyping \cup {"_setConstructor"} -> 1
    [] a = "_processDotAccess" ->
         IF SelectsMember(s) \/ BackIs(s, {"ARRAY_ACCESS"}) THEN 2 ELSE 1
    [] a = "_processArrayAccess" -> IF BackIs(s, {"INDEX_LIST"}) THEN 2 ELSE 1
    [] OTHER -> 0

-----------------------------------------------------------------------------

\* Bug: the children are adopted in the order in which they are popped.
MakeFamilyReversed(s, kind, n) ==
  Append(Drop(s, n), Node(kind, 0, Reverse(SubSeq(s, Len(s) - n + 1, Len(s)))))

MakeFamily(s, kind, n) ==
  Append(Drop(s, n), Node(kind, 0, SubSeq(s, Len(s) - n + 1, Len(s))))

\* The root is the first node of the stack; its three lists take the classes, the
\* implementations and the functions.  Another node is dropped.
Root == Node("PROGRAM", 0, <<Leaf("CLASS_LIST", 0), Leaf("IMPLEMENTATION_LIST", 0),
                             Leaf("FUNCTION_LIST", 0)>>)

AddToProgram(s) ==
  LET node == Last(s)
      list == CASE node.kind = "CLASS" -> 1
                [] node.kind = "IMPLEMENTATION" -> 2
                [] node.kind = "FUNCTION" -> 3
                [] OTHER -> 0
  IN  IF list = 0 THEN Front(s)
      ELSE [Front(s) EXCEPT ![1].kids[list] = Adopt(@, node)]

AddMember(s) ==
  LET rest == Drop(s, 2)
  IN  IF rest = <<>> THEN rest
      ELSE AdoptAtBack(rest, Node("MEMBER", 0, SubSeq(s, Len(s) - 1, Len(s))))

\* Bug: the assignment is not pushed.
ForgetAssignment(s) == Drop(s, 3)

\* _createAssignment: the operator between the two is deleted.
MakeAssignment(s) ==
  Append(Drop(s, 3), Node("ASSIGNMENT", 0, <<s[Len(s) - 2], Last(s)>>))

\* Bug: the right operand is adopted first.
MakeOperationSwapped(s) ==
  Append(Drop(s, 3), Adopt(Adopt(s[Len(s) - 1], Last(s)), s[Len(s) - 2]))

MakeOperation(s) ==
  Append(Drop(s, 3), Adopt(Adopt(s[Len(s) - 1], s[Len(s) - 2]), Last(s)))

\* A variable or a parameter: its identifier and its type.  Of an ARRAY_TYPE the
\* children are taken: the type and the list of dimensions.
Declared(s, kind) ==
  LET type == Last(s)
  IN  Node(kind, 0, <<s[Len(s) - 1]>> \o
                      (IF type.kind = "ARRAY_TYPE" THEN type.kids ELSE <<type>>))

\* _processArraySize pops what is above the innermost TYPE and lists it in the
\* order of the pops.
DimensionsIn(s) ==
  LET base == {i \in DOMAIN s : s[i].kind = "TYPE"
                               /\ \A j \in i + 1 .. Len(s) : s[j].kind # "TYPE"}
  IN  IF base = {} THEN <<>>
      ELSE LET i == CHOOSE b \in base : TRUE
               dims == Node("DIM_LIST", 0, Reverse(SubSeq(s, i + 1, Len(s))))
           IN  Append(SubSeq(s, 1, i - 1), Node("ARRAY_TYPE", 0, <<s[i], dims>>))

\* The first index starts a list, which the others join.
AddIndex(s) ==
  IF BelowIs(s, {"INDEX_LIST"}) THEN AdoptAtBack(Front(s), Last(s))
  ELSE Append(Front(s), Adopt(Leaf("INDEX_LIST", 0), Last(s)))

\* The stack after action a, which is given the value of token t, on a stack that
\* holds what it reads.  The actions that performAction has no branch for, and
\* those whose branch is empty, change nothing.
Performed(s, a, t) ==
  CASE a \in DOMAIN Named    -> Append(s, Leaf(Named[a], t))
    [] a \in DOMAIN Fixed    -> Append(s, Leaf(Fixed[a], 0))
    [] a \in DOMAIN Family   -> MakeFamily(s, Family[a][1], Family[a][2])
    [] a \in DOMAIN Retyping -> Append(Front(s), [Last(s) EXCEPT !.kind = Retyping[a]])
    [] a \in Binary -> MakeOperation(s)
    [] a \in Giving -> AdoptAtBack(Front(s), Last(s))
    [] a = "_createRoot" -> Append(s, Root)
    [] a = "_addToProgram" -> AddToProgram(s)
    [] a = "_addInheritanceId" ->
         IF s = <<>> THEN s ELSE AdoptAtBack(s, Leaf("INHERITANCE_ID", t))
    [] a = "_setConstructor" -> Append(Front(s), [Last(s) EXCEPT !.token = 0])
    [] a = "_addMember" -> AddMember(s)
    [] a = "_createAssignment" -> MakeAssignment(s)
    [] a = "_createVariable" -> Append(Drop(s, 2), Declared(s, "VARIABLE"))
    [] a = "_createParam" -> AdoptAtBack(Drop(s, 2), Declared(s, "PARAM"))
    [] a = "_processIndexList" -> AddIndex(s)
    [] a = "_processArraySize" -> DimensionsIn(s)
    [] a = "_processArrayAccess" /\ BackIs(s, {"INDEX_LIST"}) ->
         MakeFamily(s, "ARRAY_ACCESS", 2)
    [] a = "_processDotAccess" /\ SelectsMember(s) -> MakeFamily(s, "DOT_ACCESS", 2)
    [] OTHER -> s

=============================================================================
