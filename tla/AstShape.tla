------------------------------ MODULE AstShape ------------------------------
(***************************************************************************)
(* What the visitors of the later phases take for granted of a tree: they  *)
(* reach the parts of a node by position, through getLeftMostChild and     *)
(* getRightSibling.  And how a tree spells its program.                    *)
(***************************************************************************)
EXTENDS AstBuilder

Operations == {"REL_OP", "ADD_OP", "MULT_OP"}
Accessed == {"IDENTIFIER", "SELF_IDENTIFIER", "ARRAY_ACCESS", "DOT_ACCESS"}
Names == {"IDENTIFIER", "SELF_IDENTIFIER", "DOT_IDENTIFIER"}
Operands == Operations \cup Accessed \cup {"INT", "FLOAT", "FUNCTION_CALL"}
Statements == {"ASSIGNMENT", "FUNCTION_CALL", "DOT_ACCESS", "IF_STATEMENT", "WHILE_STATEMENT",
               "READ_STATEMENT", "WRITE_STATEMENT", "RETURN_STATEMENT"}
Bodies == {"BLOCK", "SINGLE_STATEMENT"}

\* The kinds of the children of a node that has a fixed number of them.
FixedKids ==
  "PROGRAM" :> <<{"CLASS_LIST"}, {"IMPLEMENTATION_LIST"}, {"FUNCTION_LIST"}>> @@
  "CLASS" :> <<{"CLASS_ID"}, {"INHERITANCE_LIST"}, {"MEMBER_LIST"}>> @@
  "MEMBER" :> <<{"VISIBILITY"}, {"ATTRIBUTE", "FUNCTION_DECLARATION"}>> @@
  "ATTRIBUTE" :> <<{"VARIABLE"}>> @@
  "LOCAL_VARIABLE" :> <<{"VARIABLE"}>> @@
  "VARIABLE" :> <<{"VARIABLE_ID"}, {"TYPE"}, {"DIM_LIST"}>> @@
  "PARAM" :> <<{"PARAM_ID"}, {"TYPE"}, {"DIM_LIST"}>> @@
  "FUNCTION_DECLARATION" :> <<{"FUNCTION_SIGNATURE"}>> @@
  "FUNCTION_SIGNATURE" :> <<{"FUNCTION_ID"}, {"PARAM_LIST"}, {"TYPE"}>> @@
  "IMPLEMENTATION" :> <<{"IMPLEMENTATION_ID"}, {"IMPLEMENTATION_FUNCTION_LIST"}>> @@
  "FUNCTION" :> <<{"FUNCTION_SIGNATURE"}, {"FUNCTION_BODY"}>> @@
  "IF_STATEMENT" :> <<{"CONDITION"}, Bodies, Bodies>> @@
  "WHILE_STATEMENT" :> <<{"CONDITION"}, Bodies>> @@
  "CONDITION" :> <<{"REL_OP"}>> @@
  "SINGLE_STATEMENT" :> <<Statements>> @@
  "ASSIGNMENT" :> <<Accessed, Operands>> @@
  "READ_STATEMENT" :> <<Accessed>> @@
  "WRITE_STATEMENT" :> <<Operands>> @@
  "RETURN_STATEMENT" :> <<Operands>> @@
  "REL_OP" :> <<Operands, Operands>> @@
  "ADD_OP" :> <<Operands, Operands>> @@
  "MULT_OP" :> <<Operands, Operands>> @@
  "FUNCTION_CALL" :> <<Names, {"PARAM_LIST"}>> @@
  "ARRAY_ACCESS" :> <<Names, {"INDEX_LIST"}>> @@
  "DOT_ACCESS" :> <<Accessed \cup {"FUNCTION_CALL"},
                    {"DOT_IDENTIFIER", "ARRAY_ACCESS", "FUNCTION_CALL"}>>

\* The kinds of the children of a list.
ListKids ==
  "CLASS_LIST" :> {"CLASS"} @@ "IMPLEMENTATION_LIST" :> {"IMPLEMENTATION"} @@
  "FUNCTION_LIST" :> {"FUNCTION"} @@ "IMPLEMENTATION_FUNCTION_LIST" :> {"FUNCTION"} @@
  "INHERITANCE_LIST" :> {"INHERITANCE_ID"} @@ "MEMBER_LIST" :> {"MEMBER"} @@
  "PARAM_LIST" :> {"PARAM"} \cup Operands @@
  "FUNCTION_BODY" :> Statements \cup {"LOCAL_VARIABLE"} @@
  "BLOCK" :> Statements @@ "INDEX_LIST" :> Operands @@
  "DIM_LIST" :> {"ARRAY_DIMENSION"}

RECURSIVE WellFormed(_)
WellFormed(n) ==
  LET kids == n.kids
  IN  /\ CASE n.kind \in DOMAIN FixedKids ->
                /\ Len(kids) = Len(FixedKids[n.kind])
                /\ \A i \in DOMAIN kids : kids[i].kind \in FixedKids[n.kind][i]
           [] n.kind \in DOMAIN ListKids ->
                \A i \in DOMAIN kids : kids[i].kind \in ListKids[n.kind]
           [] OTHER -> kids = <<>>
      /\ \A i \in DOMAIN kids : WellFormed(kids[i])

\* The tokens of a tree in the order in which the program has them.  An operator
\* stands between its operands; the dimensions of an array are listed in reverse.
RECURSIVE Spelling(_)
Spelling(n) ==
  LET own == IF n.token > 0 THEN <<n.token>> ELSE <<>>
      parts == [i \in DOMAIN n.kids |-> Spelling(n.kids[i])]
      infix == n.kind \in Operations /\ Len(parts) = 2
  IN  CASE infix -> parts[1] \o own \o parts[2]
        [] n.kind = "DIM_LIST" -> own \o FlattenSeq(Reverse(parts))
        [] OTHER -> own \o FlattenSeq(parts)

RECURSIVE Subtrees(_)
Subtrees(n) == {n} \cup UNION {Subtrees(n.kids[i]) : i \in DOMAIN n.kids}

Binds == "REL_OP" :> 1 @@ "ADD_OP" :> 2 @@ "MULT_OP" :> 3

\* Where an operator of the tree binds its operands more weakly than, or as an
\* operator to its right binds, that operand is in parentheses.
KeepsBinding(tree, tokens) ==
  \A n \in {m \in Subtrees(tree) : m.kind \in Operations} :
    /\ n.kids[1].kind \in Operations /\ Binds[n.kids[1].kind] < Binds[n.kind]
         => tokens[n.token - 1] = "rpar"
    /\ n.kids[2].kind \in Operations /\ Binds[n.kids[2].kind] <= Binds[n.kind]
         => tokens[n.token + 1] = "lpar"

=============================================================================
