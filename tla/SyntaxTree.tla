----------------------------- MODULE SyntaxTree -----------------------------
(***************************************************************************)
(* The syntax tree of a program as the last two visitors read it.          *)
(*                                                                         *)
(* A node has a kind (its NodeType), a value and a sequence of children;   *)
(* temp and early are the metadata "moonVarName" and "offset" that the     *)
(* memory allocation leaves on it, "" and 0 for none.  Lists that hold     *)
(* nothing but children (INDEX_LIST, BLOCK, the arguments of a call) are   *)
(* nodes too, as in the tree.                                              *)
(***************************************************************************)
EXTENDS Common

Tree(kind, value, kids) ==
  [kind |-> kind, value |-> value, kids |-> kids, temp |-> "", early |-> 0]

Num(n) == Tree("INT", n, <<>>)
Float == Tree("FLOAT", "1.5", <<>>)
Id(x) == Tree("IDENTIFIER", x, <<>>)
Self == Tree("SELF_IDENTIFIER", "self", <<>>)
Add(l, op, r) == Tree("ADD_OP", op, <<l, r>>)
Mult(l, op, r) == Tree("MULT_OP", op, <<l, r>>)
Rel(l, op, r) == Tree("REL_OP", op, <<l, r>>)
Member(x) == Tree("DOT_IDENTIFIER", x, <<>>)
Dot(object, member) == Tree("DOT_ACCESS", "", <<object, member>>)
Elem(base, indices) ==
  Tree("ARRAY_ACCESS", "", <<base, Tree("INDEX_LIST", "", indices)>>)
CallOf(callee, args) ==
  Tree("FUNCTION_CALL", "", <<callee, Tree("ARG_LIST", "", args)>>)
Call(f, args) == CallOf(Id(f), args)
Method(object, f, args) == Dot(object, CallOf(Member(f), args))

Local(name, type, dims) == Tree("LOCAL_VARIABLE", [name |-> name, type |-> type, dims |-> dims], <<>>)
Assign(target, value) == Tree("ASSIGNMENT", "", <<target, value>>)
Write(e) == Tree("WRITE_STATEMENT", "", <<e>>)
Read(x) == Tree("READ_STATEMENT", "", <<x>>)
Return(e) == Tree("RETURN_STATEMENT", "", <<e>>)
Block(statements) == Tree("BLOCK", "", statements)
If(condition, then, else) ==
  Tree("IF_STATEMENT", "", <<Tree("CONDITION", "", <<condition>>), Block(then), Block(else)>>)
While(condition, body) ==
  Tree("WHILE_STATEMENT", "", <<Tree("CONDITION", "", <<condition>>), Block(body)>>)

\* Variables, parameters and attributes have a name, a type and the dimensions of
\* an array.
Var(name, type, dims) == [name |-> name, type |-> type, dims |-> dims]
IntVar(name) == Var(name, "int", <<>>)

\* A function of class "" is free.
Fun(class, name, params, type, body) ==
  [class |-> class, name |-> name, params |-> params, type |-> type, body |-> Block(body)]
Main(body) == Fun("", "main", <<>>, "void", body)

\* methods are the functions of the implementations, in their order.
Program(classes, methods, functions) ==
  [classes |-> classes, methods |-> methods, functions |-> functions]
Class(name, attributes) == [name |-> name, attributes |-> attributes]

=============================================================================
