------------------------- MODULE SymbolTableVisitor -------------------------
(***************************************************************************)
(* SymbolTableVisitor: the pass over the tree that fills the symbol        *)
(* tables.  It meets the classes with their members, then the              *)
(* implementations with their member functions, then the free functions,   *)
(* in the order in which the program has them.                             *)
(*                                                                         *)
(* Each action is the visit of one declaration; any declaration may come   *)
(* next.  seen is a history variable: the declarations visited, with the   *)
(* scope they stand in, and the parameters, dimensions and parents they    *)
(* are written with.  Warnings are left out, and so are the bodies, whose  *)
(* statements change no table.                                             *)
(***************************************************************************)
EXTENDS SymbolTable

CONSTANTS ClassNames, ParentLists, FunctionNames, VariableNames, Types, Visibilities,
          ParamLists, DimLists,    \* what declarations are made of
          MaxInt,                  \* the largest int of the build
          MaxSeen                  \* bound on the declarations of a program

ParamNodes == [name : STRING, type : STRING, dims : Seq(Int)]

\* What the tree of a program has: lists of names, of dimensions, where `[]` is Dynamic,
\* and of parameters.
ASSUME ListsAssumption ==
  /\ MaxInt \in Nat \ {0}
  /\ \A ps \in ParentLists : ps \in Seq(STRING)
  /\ \A d \in DimLists : d \in Seq(Int)
  /\ \A ps \in ParamLists : ps \in Seq(ParamNodes)

VARIABLES tables, scope, place, pending, visibility, errors, seen

vars == <<tables, scope, place, pending, visibility, errors, seen>>

Sizes == (1 .. MaxInt) \cup {Dynamic}

\* visitArrayDimension: what the dimensions of a DIM_LIST leave in
\* currentArrayDimensions, and whether one of them is an error.  stoi throws beyond
\* MaxInt.
Pushed(dims) ==
  Kept([i \in DOMAIN dims |-> IF dims[i] > MaxInt THEN Dynamic ELSE dims[i]], Sizes)

BadDims(dims) == \E i \in DOMAIN dims : dims[i] = 0 \/ dims[i] > MaxInt

\* visitParam: a parameter and the text of its type.
Formatted(params) ==
  [i \in DOMAIN params |->
     [name |-> params[i].name, type |-> TypeText(params[i].type, Pushed(params[i].dims))]]

FunctionSymbol(type, params, vis) ==
  [Symbol("FUNCTION", type, <<>>) EXCEPT !.params = params, !.visibility = vis]

IsClass(c) == c \in DOMAIN tables[<<>>].syms /\ tables[<<>>].syms[c].kind = "CLASS"

Error(what, path, name) == [what |-> what, in |-> path, name |-> name]

BadParams(name, params) ==
  IF \E i \in DOMAIN params : BadDims(params[i].dims) THEN {Error("dimension", scope, name)} ELSE {}

DimsOf(params) == [i \in DOMAIN params |-> params[i].dims]

Noticed(what, name, params, dims, parents) ==
  seen' = Append(seen, [what |-> what, in |-> scope, name |-> name, params |-> params,
                        dims |-> dims, parents |-> parents])

Room == Len(seen) < MaxSeen

-----------------------------------------------------------------------------

Init ==
  /\ tables = [p \in {<<>>} |-> EmptyTable("global", <<>>)]
  /\ scope = <<>>
  /\ place = "classes"
  /\ pending = <<>>
  /\ visibility = "private"
  /\ errors = {}
  /\ seen = <<>>

\* Bug: the parents are not looked up.
KnownAll(c, parents) == parents

\* visitInheritanceId: the class itself is in the global table by then.
Known(c, parents) == Kept(parents, {c} \cup {p \in DOMAIN tables[<<>>].syms : IsClass(p)})

\* visitClass.  The members of a class that is there already are not visited.
EnterClass(c, parents) ==
  LET symbol == [Symbol("CLASS", c, <<>>) EXCEPT !.parents = Known(c, parents)]
  IN  /\ place = "classes" /\ Room
      /\ IF c \in DOMAIN tables[<<>>].syms
         THEN /\ errors' = errors \cup {Error("class", <<>>, c)}
              /\ UNCHANGED <<tables, scope, place, visibility>>
         ELSE /\ tables' = AddNested([tables EXCEPT ![<<>>] = AddSymbol(@, c, symbol)],
                                     <<>>, c, EmptyTable("class", <<>>))
              /\ errors' = errors \cup {Error("parent", <<c>>, p) :
                                         p \in Range(parents) \ Range(Known(c, parents))}
              /\ scope' = <<c>>
              /\ place' = "class"
              /\ visibility' = "private"
      /\ Noticed("class", c, <<>>, <<>>, parents)
      /\ UNCHANGED pending

\* Bug: the name is looked up in the table around the current one.
AddVariableOutside(what, x, type, dims, vis) ==
  LET symbol == [Symbol("VARIABLE", type, Pushed(dims)) EXCEPT !.visibility = vis]
      taken == x \in DOMAIN tables[Parent(scope)].syms
  IN  /\ tables' = [tables EXCEPT ![scope] = AddSymbol(@, x, symbol)]
      /\ errors' = errors \cup (IF BadDims(dims) THEN {Error("dimension", scope, x)} ELSE {})
                          \cup (IF taken THEN {Error(what, scope, x)} ELSE {})
      /\ Noticed(what, x, <<>>, <<dims>>, <<>>)

\* visitVariable, in the current table.
AddVariable(what, x, type, dims, vis) ==
  LET symbol == [Symbol("VARIABLE", type, Pushed(dims)) EXCEPT !.visibility = vis]
      taken == x \in DOMAIN tables[scope].syms
  IN  /\ tables' = [tables EXCEPT ![scope] = AddSymbol(@, x, symbol)]
      /\ errors' = errors \cup (IF BadDims(dims) THEN {Error("dimension", scope, x)} ELSE {})
                          \cup (IF taken THEN {Error(what, scope, x)} ELSE {})
      /\ Noticed(what, x, <<>>, <<dims>>, <<>>)

\* visitMember with an attribute.
Attribute(vis, x, type, dims) ==
  /\ place = "class" /\ Room
  /\ visibility' = vis
  /\ AddVariable("attribute", x, type, dims, vis)
  /\ UNCHANGED <<scope, place, pending>>

\* visitMember with the declaration of a function, up to the loop of
\* createFunctionSubtable, in which scope is the table being filled.
Declaration(vis, f, params, type) ==
  LET formatted == Formatted(params)
      key == UniqueKey(f, formatted)
      symbol == FunctionSymbol(type, formatted, vis)
  IN  /\ place = "class" /\ Room
      /\ visibility' = vis
      /\ IF HasFunction(tables[scope], f, formatted)
         THEN /\ errors' = errors \cup BadParams(f, params) \cup {Error("declaration", scope, f)}
              /\ UNCHANGED <<tables, scope, place, pending>>
         ELSE /\ tables' = AddNested([tables EXCEPT ![scope] = AddSymbol(@, f, symbol)],
                                     scope, key, EmptyTable("function", Signature(f, formatted)))
              /\ scope' = Append(scope, key)
              /\ place' = "declaration"
              /\ pending' = formatted
              /\ errors' = errors \cup BadParams(f, params)
      /\ Noticed("declaration", f, formatted, DimsOf(params), <<>>)

\* Its parameters have the texts of their types, and no dimensions.
DeclaredParam ==
  /\ place = "declaration" /\ pending # <<>>
  /\ tables' = [tables EXCEPT ![scope] =
                  AddSymbol(@, Head(pending).name, Symbol("PARAMETER", Head(pending).type, <<>>))]
  /\ pending' = Tail(pending)
  /\ UNCHANGED <<scope, place, visibility, errors, seen>>

LeaveDeclaration ==
  /\ place = "declaration" /\ pending = <<>>
  /\ place' = "class"
  /\ scope' = Parent(scope)
  /\ UNCHANGED <<tables, pending, visibility, errors, seen>>

LeaveClass ==
  /\ place = "class"
  /\ place' = "classes"
  /\ scope' = <<>>
  /\ UNCHANGED <<tables, pending, visibility, errors, seen>>

-----------------------------------------------------------------------------

StartImplementations ==
  /\ place = "classes"
  /\ place' = "implementations"
  /\ UNCHANGED <<tables, scope, pending, visibility, errors, seen>>

\* visitImplementation.
EnterImplementation(c) ==
  /\ place = "implementations" /\ Room
  /\ IF IsClass(c)
     THEN scope' = <<c>> /\ place' = "implementation" /\ UNCHANGED errors
     ELSE /\ errors' = errors \cup {Error("implementation", <<>>, c)}
          /\ UNCHANGED <<scope, place>>
  /\ Noticed("implementation", c, <<>>, <<>>, <<>>)
  /\ UNCHANGED <<tables, pending, visibility>>

\* The function table under a key: the one that is there, or a fresh one.
WithTable(key, owner) ==
  IF Append(scope, key) \in DOMAIN tables THEN tables
  ELSE AddNested(tables, scope, key, EmptyTable("function", owner))

\* visitFunction, for a member function.
EnterMethod(f, params, type) ==
  LET formatted == Formatted(params)
      key == UniqueKey(f, formatted)
      sig == Signature(f, formatted)
  IN  /\ place = "implementation" /\ Room
      /\ IF HasFunction(tables[scope], f, formatted)
         THEN /\ tables' = [WithTable(key, sig) EXCEPT ![scope] = Defined(@, sig),
                                                      ![Append(scope, key)].owner = sig]
              /\ scope' = Append(scope, key)
              /\ place' = "method"
              /\ pending' = params
              /\ errors' = errors \cup BadParams(f, params)
         ELSE /\ errors' = errors \cup BadParams(f, params) \cup {Error("undeclared", scope, f)}
              /\ UNCHANGED <<tables, scope, place, pending>>
      /\ Noticed("method", f, formatted, DimsOf(params), <<>>)
      /\ UNCHANGED visibility

LeaveImplementation ==
  /\ place = "implementation"
  /\ place' = "implementations"
  /\ scope' = <<>>
  /\ UNCHANGED <<tables, pending, visibility, errors, seen>>

StartFunctions ==
  /\ place = "implementations"
  /\ place' = "functions"
  /\ UNCHANGED <<tables, scope, pending, visibility, errors, seen>>

\* visitFunction, for a free function: it declares and defines.  Its visibility is
\* the one of the last member of a class.
EnterFunction(f, params, type) ==
  LET formatted == Formatted(params)
      key == UniqueKey(f, formatted)
      sig == Signature(f, formatted)
      symbol == FunctionSymbol(type, formatted, visibility)
  IN  /\ place = "functions" /\ Room
      /\ IF HasFunction(tables[scope], f, formatted)
         THEN /\ errors' = errors \cup BadParams(f, params) \cup {Error("function", scope, f)}
              /\ UNCHANGED <<tables, scope, place, pending>>
         ELSE /\ tables' = [WithTable(key, sig) EXCEPT
                              ![scope] = Defined(AddSymbol(@, f, symbol), sig)]
              /\ scope' = Append(scope, key)
              /\ place' = "function"
              /\ pending' = params
              /\ errors' = errors \cup BadParams(f, params)
      /\ Noticed("function", f, formatted, DimsOf(params), <<>>)
      /\ UNCHANGED visibility

InBody == place \in {"method", "function"}

\* Bug: a parameter that implements a declaration is reported like any other.
AnyReports == InBody

\* A parameter of a function that implements a declaration is there already, and is no
\* error.
ReportsParams == place = "function"

\* visitParam, with the table of the function current.
Param ==
  LET p == Head(pending)
      dims == Pushed(p.dims)
      symbol == Symbol("PARAMETER", TypeText(p.type, dims), dims)
      inTable == tables[scope].scope = "function"
      taken == p.name \in DOMAIN tables[scope].syms
  IN  /\ InBody /\ pending # <<>>
      /\ tables' = IF inTable THEN [tables EXCEPT ![scope] = AddSymbol(@, p.name, symbol)]
                   ELSE tables
      /\ errors' = IF inTable /\ taken /\ ReportsParams
                   THEN errors \cup {Error("parameter", scope, p.name)} ELSE errors
      /\ pending' = Tail(pending)
      /\ UNCHANGED <<scope, place, visibility, seen>>

\* visitLocalVariable, in the body of a function.
LocalVariable(x, type, dims) ==
  /\ InBody /\ pending = <<>> /\ Room
  /\ AddVariable("local", x, type, dims, visibility)
  /\ UNCHANGED <<scope, place, pending, visibility>>

LeaveFunction ==
  /\ InBody /\ pending = <<>>
  /\ place' = IF place = "method" THEN "implementation" ELSE "functions"
  /\ scope' = Parent(scope)
  /\ UNCHANGED <<tables, pending, visibility, errors, seen>>

-----------------------------------------------------------------------------

\* Bug: a declaration counts as a definition.
UndefinedUndeclared(table) ==
  {f \in DOMAIN table.syms : /\ table.syms[f].kind = "FUNCTION"
                             /\ Signature(f, table.syms[f].params) \notin DOMAIN table.funs}

\* checkFunctionConsistency looks at the functions that are in the map by name.
Undefined(table) ==
  {f \in DOMAIN table.syms : /\ table.syms[f].kind = "FUNCTION"
                             /\ Signature(f, table.syms[f].params) \notin table.defined}

\* The end of visitProgram.
Finish ==
  /\ place = "functions"
  /\ place' = "done"
  /\ errors' = errors \cup UNION {{Error("undefined", <<c>>, f) : f \in Undefined(tables[<<c>>])}
                                  : c \in {d \in DOMAIN tables[<<>>].syms : IsClass(d)}}
  /\ UNCHANGED <<tables, scope, pending, visibility, seen>>

Next ==
  \/ \E c \in ClassNames, ps \in ParentLists : EnterClass(c, ps)
  \/ \E v \in Visibilities, x \in VariableNames, t \in Types, d \in DimLists : Attribute(v, x, t, d)
  \/ \E v \in Visibilities, f \in FunctionNames, ps \in ParamLists, t \in Types :
       Declaration(v, f, ps, t)
  \/ DeclaredParam
  \/ LeaveDeclaration
  \/ LeaveClass
  \/ StartImplementations
  \/ \E c \in ClassNames : EnterImplementation(c)
  \/ \E f \in FunctionNames, ps \in ParamLists, t \in Types : EnterMethod(f, ps, t)
  \/ LeaveImplementation
  \/ StartFunctions
  \/ \E f \in FunctionNames, ps \in ParamLists, t \in Types : EnterFunction(f, ps, t)
  \/ Param
  \/ \E x \in VariableNames, t \in Types, d \in DimLists : LocalVariable(x, t, d)
  \/ LeaveFunction
  \/ Finish

Spec == Init /\ [][Next]_vars

=============================================================================
