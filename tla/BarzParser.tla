----------------------------- MODULE BarzParser -----------------------------
(***************************************************************************)
(* The parser together with the tree that its semantic actions build:      *)
(* Parser::parse calls AST::performAction for each action it finds on its  *)
(* stack, and after a syntax error it goes on calling it.                  *)
(***************************************************************************)
EXTENDS Parser, AstBuilder

VARIABLES
  nodes,     \* ASTStack, back last
  undefined  \* an action has read below the bottom of the stack

astVars == <<nodes, undefined>>

ParserInit == Init

BuildInit == ParserInit /\ nodes = <<>> /\ undefined = FALSE

\* The root is reached through a pointer of its own.  Once an action has taken it
\* from the front of the stack, _addToProgram gives it one of its own ancestors
\* or reads below the bottom: the tree is no tree any more, and the model stops.
IsRoot(node) == Len(node.kids) >= 3 /\ node.kids[1].kind = "CLASS_LIST"
RootIsLost(a) == a = "_addToProgram" /\ nodes # <<>> /\ ~IsRoot(nodes[1])

Build ==
  /\ PerformAction
  /\ IF Len(nodes) < Reads(nodes, Top) \/ RootIsLost(Top)
     THEN undefined' = TRUE /\ UNCHANGED nodes
     ELSE nodes' = Performed(nodes, Top, ActionLexeme) /\ UNCHANGED undefined

BuildNext ==
  /\ ~undefined
  /\ \/ Build
     \/ Begin /\ UNCHANGED astVars
     \/ Match /\ UNCHANGED astVars
     \/ Expand /\ UNCHANGED astVars
     \/ Mismatch /\ UNCHANGED astVars
     \/ NoProduction /\ UNCHANGED astVars
     \/ Finish /\ UNCHANGED astVars

BuildSpec == BuildInit /\ [][BuildNext]_<<vars, astVars>>

=============================================================================
