---------------------------- MODULE ProgramTables ----------------------------
(***************************************************************************)
(* The symbol tables of a program in which every name is declared once, as *)
(* SymbolTableVisitor leaves them when the next visitors start: what its   *)
(* actions in the module of that name do, taken together.                  *)
(*                                                                         *)
(* A program has classes, with parents, attributes and declared methods;   *)
(* implementations, with functions; and free functions.                    *)
(***************************************************************************)
EXTENDS SymbolTable, SyntaxTree

ClassOf(name, parents, attributes, methods) ==
  [name |-> name, parents |-> parents, attributes |-> attributes, methods |-> methods]

Attribute(visibility, var) == [visibility |-> visibility, var |-> var]
Declared(visibility, fun) == [visibility |-> visibility, fun |-> fun]

Implementation(class, functions) == [class |-> class, functions |-> functions]

Source(classes, implementations, functions) ==
  [classes |-> classes, implementations |-> implementations, functions |-> functions]

-----------------------------------------------------------------------------

Described(params) ==
  [i \in DOMAIN params |->
     [name |-> params[i].name, type |-> TypeText(params[i].type, params[i].dims)]]

KeyOf(fun) == UniqueKey(fun.name, Described(fun.params))

VariableSymbol(var, visibility) ==
  [Symbol("VARIABLE", var.type, var.dims) EXCEPT !.visibility = visibility]

FunctionSymbol(fun, visibility) ==
  [Symbol("FUNCTION", fun.type, <<>>) EXCEPT !.params = Described(fun.params),
                                             !.visibility = visibility]

ClassSymbol(class) == [Symbol("CLASS", class.name, <<>>) EXCEPT !.parents = class.parents]

\* What is declared outside of a class has the visibility of the last member of a
\* class: currentVisibility stays.
LastVisibility(p) ==
  LET last == Last(p.classes)
  IN  IF p.classes = <<>> \/ last.attributes \o last.methods = <<>> THEN "private"
      ELSE Last(last.attributes \o last.methods).visibility

GlobalTable(p) ==
  LET classes == FoldLeft(LAMBDA t, c : AddSymbol(t, c.name, ClassSymbol(c)),
                          EmptyTable("global", <<>>), p.classes)
  IN  [FoldLeft(LAMBDA t, f : AddSymbol(t, f.name, FunctionSymbol(f, LastVisibility(p))),
                classes, p.functions)
         EXCEPT !.nested = [i \in DOMAIN p.classes |-> p.classes[i].name]
                             \o [i \in DOMAIN p.functions |-> KeyOf(p.functions[i])]]

ClassTable(class) ==
  LET attributes == FoldLeft(LAMBDA t, a : AddSymbol(t, a.var.name,
                                                     VariableSymbol(a.var, a.visibility)),
                             EmptyTable("class", <<>>), class.attributes)
  IN  FoldLeft(LAMBDA t, d : AddSymbol(t, d.fun.name, FunctionSymbol(d.fun, d.visibility)),
               attributes, class.methods)

Locals(fun) == SelectSeq(fun.body.kids, LAMBDA s : s.kind = "LOCAL_VARIABLE")

WithLocals(table, fun, visibility) ==
  FoldLeft(LAMBDA t, s : AddSymbol(t, s.value.name, VariableSymbol(s.value, visibility)),
           table, Locals(fun))

\* A parameter keeps its dimensions where the function is free; the table of a method
\* is that of its declaration, whose parameters have none.
WithParams(table, params, isFree) ==
  FoldLeft(LAMBDA t, p : AddSymbol(t, p.name, Symbol("PARAMETER", TypeText(p.type, p.dims),
                                                     IF isFree THEN p.dims ELSE <<>>)),
           table, params)

FunctionTable(fun, visibility) ==
  WithLocals(WithParams(EmptyTable("function", <<>>), fun.params, TRUE), fun, visibility)

MethodTable(declared, fun, visibility) ==
  LET atDeclaration == WithParams(EmptyTable("function", <<>>), declared.params, FALSE)
  IN  WithLocals(WithParams(atDeclaration, fun.params, TRUE), fun, visibility)

\* The function that implements a declaration.
Implements(p, class, declared) ==
  CHOOSE f \in UNION {Range(i.functions) : i \in {j \in Range(p.implementations) :
                                                    j.class = class}} :
    KeyOf(f) = KeyOf(declared)

TablesOf(p) ==
  [path \in {<<>>} |-> GlobalTable(p)]
  @@ [path \in {<<p.classes[i].name>> : i \in DOMAIN p.classes} |->
        ClassTable(CHOOSE c \in Range(p.classes) : c.name = path[1])]
  @@ [path \in {<<KeyOf(f)>> : f \in Range(p.functions)} |->
        FunctionTable(CHOOSE f \in Range(p.functions) : KeyOf(f) = path[1],
                      LastVisibility(p))]
  @@ [path \in UNION {{<<c.name, KeyOf(d.fun)>> : d \in Range(c.methods)}
                        : c \in Range(p.classes)} |->
        LET c == CHOOSE k \in Range(p.classes) : k.name = path[1]
            d == CHOOSE m \in Range(c.methods) : KeyOf(m.fun) = path[2]
        IN  MethodTable(d.fun, Implements(p, c.name, d.fun), LastVisibility(p))]

==============================================================================
