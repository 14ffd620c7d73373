----------------------------- MODULE ScopeRules -----------------------------
(***************************************************************************)
(* The rules of declarations, as the numbered list of semantic errors in   *)
(* examples/semantic_analysis/polynomialsemanticerrors.src gives them,     *)
(* stated over the declarations of a program; and what SymbolTableVisitor  *)
(* makes of them.                                                          *)
(***************************************************************************)
EXTENDS SymbolTableVisitor

Definitions == {i \in DOMAIN seen : seen[i].what \in {"method", "function"}}
Members == {"attribute", "declaration"}

Sig(i) == Signature(seen[i].name, seen[i].params)

\* The definition whose body the i-th declaration stands in.
BodyOf(i) ==
  CHOOSE d \in Definitions : d < i /\ \A e \in Definitions : e < i => e <= d

SameScope(i, j) ==
  CASE seen[i].what \in Members   -> seen[j].what \in Members /\ seen[i].in = seen[j].in
    [] seen[i].what = "local"     -> seen[j].what = "local" /\ BodyOf(i) = BodyOf(j)
    [] OTHER                      -> seen[j].what = seen[i].what

\* Two declarations of a name in a scope; functions may have the same name if the
\* types of their parameters differ.
Clash(i, j) ==
  /\ SameScope(i, j)
  /\ seen[i].name = seen[j].name
  /\ seen[i].what = seen[j].what /\ seen[i].what \in {"function", "declaration"}
       => Sig(i) = Sig(j)

ErrorAt(j) == Error(seen[j].what, seen[j].in, seen[j].name)

Declaring == {i \in DOMAIN seen : seen[i].what \in Members \cup {"class", "function", "local"}}

\* A parameter of the definition around it has the name of the local variable.
HidesParam(j) ==
  /\ seen[j].what = "local"
  /\ \E i \in DOMAIN seen[BodyOf(j)].params : seen[BodyOf(j)].params[i].name = seen[j].name

\* 8.1 to 8.4: the second of two declarations of the same kind in a scope is
\* reported, and so is a variable with the name of a parameter or of a function.
ClashesAreReported ==
  \A j \in Declaring :
    \/ \E i \in 1 .. j - 1 : Clash(i, j) /\ (seen[j].what = "declaration"
                                               => seen[i].what = "declaration")
    \/ HidesParam(j) /\ pending = <<>>
    => ErrorAt(j) \in errors

\* 8.4, for parameters: a free function whose parameters repeat a name is reported
\* once its parameters are visited.
RepeatedParamsAreReported ==
  place = "function" /\ pending = <<>> =>
    LET d == CHOOSE i \in Definitions : \A e \in Definitions : e <= i
    IN  \A l, k \in DOMAIN seen[d].params :
          l < k /\ seen[d].params[l].name = seen[d].params[k].name
            => Error("parameter", scope, seen[d].params[k].name) \in errors

\* A declaration that repeats another one of its scope is reported, a parameter too.
RepeatsAreReported == ClashesAreReported /\ RepeatedParamsAreReported

-----------------------------------------------------------------------------

(***************************************************************************)
(* What an error says of the program, by its kind.                         *)
(***************************************************************************)

NoClassBefore(j, c) == \A i \in 1 .. j - 1 : ~ (seen[i].what = "class" /\ seen[i].name = c)

\* 6.1: a member function is implemented that its class has not declared.
LacksDeclaration(e) ==
  /\ e.what = "undeclared"
  /\ \E j \in Definitions :
       /\ seen[j].in = e.in /\ seen[j].name = e.name
       /\ \A i \in 1 .. j - 1 :
            seen[i].what = "declaration" /\ seen[i].in = e.in => Sig(i) # Sig(j)

\* 6.2: a member function is declared and not implemented.
LacksDefinition(e) ==
  /\ e.what = "undefined"
  /\ \E i \in DOMAIN seen : /\ seen[i].what = "declaration" /\ seen[i].in = e.in
                            /\ seen[i].name = e.name
                            /\ \A j \in Definitions : seen[j].in = e.in => Sig(j) # Sig(i)

\* 8.1 to 8.4: there are two declarations of the kind in the scope, or a variable of a
\* free function has the name of a parameter.
RepeatsName(e) ==
  /\ e.what \in Members \cup {"class", "function", "local"} /\ (e.what = "local" => Len(e.in) = 1)
  /\ \E j \in Declaring :
       /\ ErrorAt(j) = e
       /\ (e.what = "local" /\ HidesParam(j)) \/ \E i \in 1 .. j - 1 : Clash(i, j)

\* The i-th declaration has put the name into the table of a member function: the table
\* is found by its key, and the declaration, every implementation with the key and the
\* bodies of these share it.
PutsInto(i, path, name) ==
  \/ seen[i].what = "local" /\ seen[i].in = path /\ seen[i].name = name
  \/ /\ seen[i].what \in {"declaration", "method"}
     /\ Append(seen[i].in, UniqueKey(seen[i].name, seen[i].params)) = path
     /\ \E k \in DOMAIN seen[i].params : seen[i].params[k].name = name

\* 8.4 in a member function: the table of the function has got the name before.
RepeatsInMember(e) ==
  /\ e.what = "local" /\ Len(e.in) # 1
  /\ \E j \in Declaring : ErrorAt(j) = e /\ \E i \in 1 .. j - 1 : PutsInto(i, e.in, e.name)

\* A parameter of a free function has the name of one before it.
RepeatsParam(e) ==
  /\ e.what = "parameter"
  /\ \E d \in Definitions :
       /\ seen[d].what = "function" /\ e.in = <<UniqueKey(seen[d].name, seen[d].params)>>
       /\ \E l, k \in DOMAIN seen[d].params :
            l < k /\ seen[d].params[l].name = e.name /\ seen[d].params[k].name = e.name

\* A variable, or a parameter of a function, has a dimension that is no size.
IsUnsized(e) ==
  /\ e.what = "dimension"
  /\ \E j \in DOMAIN seen : /\ seen[j].in = e.in /\ seen[j].name = e.name
                            /\ \E i \in DOMAIN seen[j].dims :
                                 \E k \in DOMAIN seen[j].dims[i] : seen[j].dims[i][k] \notin Sizes

\* A class has a parent that is no class declared before it, nor the class itself.
LacksParent(e) ==
  /\ e.what = "parent"
  /\ \E j \in DOMAIN seen :
       /\ seen[j].what = "class" /\ e.in = <<seen[j].name>> /\ e.name # seen[j].name
       /\ \E i \in DOMAIN seen[j].parents : seen[j].parents[i] = e.name
       /\ NoClassBefore(j, e.name)

\* Functions are implemented of a class that is not declared.
LacksClass(e) ==
  /\ e.what = "implementation"
  /\ \E j \in DOMAIN seen : /\ seen[j].what = "implementation" /\ seen[j].in = e.in
                            /\ seen[j].name = e.name /\ NoClassBefore(j, e.name)

\* 6.1, 6.2, 8.x: whatever the pass reports, the declarations visited so far break the
\* rule that the report is about, at the place and with the name it gives.
ErrorsAreJust ==
  \A e \in errors :
    \/ LacksDeclaration(e) \/ LacksDefinition(e)
    \/ RepeatsName(e) \/ RepeatsInMember(e) \/ RepeatsParam(e)
    \/ IsUnsized(e) \/ LacksParent(e) \/ LacksClass(e)

-----------------------------------------------------------------------------

Overloaded(j) ==
  \E i \in DOMAIN seen : /\ seen[i].what = "declaration" /\ seen[i].in = seen[j].in
                         /\ seen[i].name = seen[j].name /\ Sig(i) # Sig(j)

IsImplemented(j) == \E d \in Definitions : seen[d].in = seen[j].in /\ Sig(d) = Sig(j)

Demanded(j) == Error("undefined", seen[j].in, seen[j].name) \in errors

\* 6.2: when the pass is over, a declared member function without an implementation
\* was reported, if its name is not overloaded.
SingleFunctionsAreDemanded ==
  place = "done" =>
    \A j \in DOMAIN seen :
      seen[j].what = "declaration" /\ ~ Overloaded(j) /\ ~ IsImplemented(j) => Demanded(j)

\* "Check each function in the class": the same for every function.
EveryFunctionIsDemanded ==
  place = "done" =>
    \A j \in DOMAIN seen : seen[j].what = "declaration" /\ ~ IsImplemented(j) => Demanded(j)

ParamNames(i) == {seen[i].params[k].name : k \in DOMAIN seen[i].params}

Body(d) == {j \in DOMAIN seen : seen[j].what = "local" /\ BodyOf(j) = d}

\* The scope of the body of a free function holds its parameters and the local
\* variables declared in it, and nothing of another function; a name has the type of
\* its first declaration.
OwnScope ==
  place = "function" /\ pending = <<>> =>
    LET d == CHOOSE i \in Definitions : \A e \in Definitions : e <= i
        names == ParamNames(d) \cup {seen[j].name : j \in Body(d)}
    IN  /\ DOMAIN tables[scope].syms = names
        /\ \A k \in DOMAIN seen[d].params :
             (\A l \in 1 .. k - 1 : seen[d].params[l].name # seen[d].params[k].name)
               => tables[scope].syms[seen[d].params[k].name].type = seen[d].params[k].type

\* The insertion order of a table lists every symbol once: the memory layout walks
\* it.
OrderEnumerates ==
  \A p \in DOMAIN tables :
    LET t == tables[p]
    IN  /\ \A x \in DOMAIN t.syms : \E i \in DOMAIN t.order : t.order[i] = x
        /\ \A i \in DOMAIN t.order :
             /\ t.order[i] \in DOMAIN t.syms
             /\ \A j \in DOMAIN t.order : t.order[i] = t.order[j] => i = j

\* Every signature has a function in the map by name: the copy constructor never
\* finds a signature without a symbol, nor makes it one of a variable.
FunctionsHaveSymbols ==
  \A p \in DOMAIN tables : \A sig \in DOMAIN tables[p].funs :
    sig[1] \in DOMAIN tables[p].syms /\ tables[p].syms[sig[1]].kind = "FUNCTION"

\* The passes behind this one work on copies of the tables: a copy has the functions
\* of its original, and a function whose name is not overloaded has its own symbol in
\* it and is defined if it was.
CopiesKeepFunctions ==
  \A p \in DOMAIN tables :
    LET t == tables[p]
        copy == Copied(t)
    IN  /\ DOMAIN copy.funs = DOMAIN t.funs
        /\ \A sig \in DOMAIN t.funs :
             (\A other \in DOMAIN t.funs : other[1] = sig[1] => other = sig)
               => /\ copy.funs[sig] = t.funs[sig]
                  /\ sig \in copy.defined <=> sig \in t.defined

\* The current table is there, and every table is nested in one that is there: a
\* lookup that goes outwards ends at the global table.
TablesAreLinked ==
  /\ scope \in DOMAIN tables
  /\ \A p \in DOMAIN tables : p # <<>> => Parent(p) \in DOMAIN tables

\* Whatever is declared in whatever order, the tables are a tree, and each agrees with
\* itself: its order, its signatures and its symbols name the same things.
TablesAreSound == OrderEnumerates /\ FunctionsHaveSymbols /\ TablesAreLinked

ClassAt(c) == CHOOSE i \in DOMAIN seen :
                /\ seen[i].what = "class" /\ seen[i].name = c
                /\ \A j \in 1 .. i - 1 : ~ (seen[j].what = "class" /\ seen[j].name = c)

\* A class inherits from itself or from classes declared before it: a longer cycle
\* of inheritance is never recorded, and its first class is reported.
InheritanceIsOrdered ==
  \A c \in {d \in DOMAIN tables[<<>>].syms : IsClass(d)} :
    \A p \in Range(tables[<<>>].syms[c].parents) :
      p = c \/ (IsClass(p) /\ ClassAt(p) < ClassAt(c))

\* The sizes of arrays are products of the dimensions that the tables keep.
DimensionsAreUsable ==
  \A p \in DOMAIN tables : \A x \in DOMAIN tables[p].syms :
    \A i \in DOMAIN tables[p].syms[x].dims :
      tables[p].syms[x].dims[i] \in Sizes

\* What the later phases take for granted of a program, with errors or without: a
\* search through the parents of a class meets no cycle but that of a class that is its
\* own parent, and arrays have a size.  A function with the name of a class breaks the
\* first (NamesApart, below).
SymbolsAreUsable == InheritanceIsOrdered /\ DimensionsAreUsable

-----------------------------------------------------------------------------

(***************************************************************************)
(* What a program must be like for some of these rules to hold of it.  The *)
(* tables nested in the global one are found by the names of classes and   *)
(* by the keys of functions, and its symbols by the names of both: where a *)
(* class and a function, or two functions, meet under a name or a key,     *)
(* they share a table or the last one replaces the other.                  *)
(***************************************************************************)

NamesApart == ClassNames \cap FunctionNames = {}

KeysOffClasses ==
  \A f \in FunctionNames, ps \in ParamLists : UniqueKey(f, Formatted(ps)) \notin ClassNames

KeysApart ==
  \A f, g \in FunctionNames, ps, qs \in ParamLists :
    UniqueKey(f, Formatted(ps)) = UniqueKey(g, Formatted(qs))
      => Signature(f, Formatted(ps)) = Signature(g, Formatted(qs))

=============================================================================
