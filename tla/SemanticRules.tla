---------------------------- MODULE SemanticRules ----------------------------
(***************************************************************************)
(* The rules of types and of the use of names, as the numbered list of     *)
(* semantic errors in                                                      *)
(* examples/semantic_analysis/polynomialsemanticerrors.src gives them,     *)
(* stated over the declarations of the program alone; and what             *)
(* SemanticCheckingVisitor makes of them.                                  *)
(***************************************************************************)
EXTENDS SemanticChecking

Typed(type, dims) == [type |-> type, dims |-> dims]
Untyped == Typed("none", <<>>)

\* 12.2, 13.3: the same type with the same dimensions, where `[]` stands for any.
Fits(a, b) ==
  /\ a.type = b.type /\ DOMAIN a.dims = DOMAIN b.dims
  /\ \A i \in DOMAIN a.dims : Cardinality({a.dims[i], b.dims[i]} \ {Dynamic}) <= 1

Numbers == {Typed("int", <<>>), Typed("float", <<>>)}

ClassesNamed(c) == {k \in Range(program.classes) : k.name = c}

ParentsOf(c) == UNION {Range(k.parents) : k \in ClassesNamed(c)}

AttributesOf(c) == UNION {Range(k.attributes) : k \in ClassesNamed(c)}
MethodsOf(c) == UNION {Range(k.methods) : k \in ClassesNamed(c)}

\* The classes that have their own x, of a class and of its parents: its own counts
\* first.
Holders(c, x, has(_, _)) == IF has(c, x) THEN {c} ELSE {q \in ParentsOf(c) : has(q, x)}

HasAttribute(c, x) == \E a \in AttributesOf(c) : a.var.name = x
HasMethod(c, f) == \E m \in MethodsOf(c) : m.fun.name = f

\* The attributes that x stands for in an object of class c, used in class k.
Reached(c, x, k) ==
  {a \in UNION {AttributesOf(h) : h \in Holders(c, x, HasAttribute)} :
     a.var.name = x /\ (a.visibility = "public" \/ c = k)}

TypeOfOne(found) ==
  IF found = {} THEN Untyped ELSE LET v == CHOOSE w \in found : TRUE IN Typed(v.type, v.dims)

\* 11.1: a variable is a parameter or a local variable of the function, or an
\* attribute of its class.
VariableType(x, k, f) ==
  LET here == {v \in Range(f.params) \cup {l.value : l \in Range(Locals(f))} : v.name = x}
  IN  TypeOfOne(IF here # {} THEN here ELSE {a.var : a \in Reached(k, x, k)})

\* 12.1, 12.2: one of the functions takes these arguments.
Accepting(functions, args) ==
  {f \in functions : /\ Len(f.params) = Len(args)
                     /\ \A i \in DOMAIN args :
                          Fits(Typed(f.params[i].type, f.params[i].dims), args[i])}

ResultOf(functions) ==
  IF functions = {} THEN Untyped ELSE Typed((CHOOSE f \in functions : TRUE).type, <<>>)

FreeFunctionsNamed(f) == {g \in Range(program.functions) : g.name = f}

MethodsNamed(c, f, k) ==
  {m.fun : m \in {n \in UNION {MethodsOf(h) : h \in Holders(c, f, HasMethod)} :
                    n.fun.name = f /\ (n.visibility = "public" \/ c = k)}}

\* 13.1, 13.2: the indices stand for the last dimensions, as the tree has them in
\* reverse.
Indexed(array, indices) ==
  IF /\ array.dims # <<>> /\ Len(indices) <= Len(array.dims)
     /\ \A i \in DOMAIN indices : indices[i] = Typed("int", <<>>)
  THEN Typed(array.type, SubSeq(array.dims, 1, Len(array.dims) - Len(indices)))
  ELSE Untyped

RECURSIVE TypeIn(_, _, _)

TypesIn(nodes, k, f) == [i \in DOMAIN nodes |-> TypeIn(nodes[i], k, f)]

\* 15.1, 11.2, 11.3: what stands behind a dot, for an object of a class.
MemberType(object, member, k, f) ==
  CASE object.dims # <<>> \/ ClassesNamed(object.type) = {} -> Untyped
    [] member.kind = "DOT_IDENTIFIER" ->
         TypeOfOne({a.var : a \in Reached(object.type, member.value, k)})
    [] member.kind = "ARRAY_ACCESS" ->
         Indexed(TypeOfOne({a.var : a \in Reached(object.type, member.kids[1].value, k)}),
                 TypesIn(member.kids[2].kids, k, f))
    [] member.kind = "FUNCTION_CALL" ->
         ResultOf(Accepting(MethodsNamed(object.type, member.kids[1].value, k),
                            TypesIn(member.kids[2].kids, k, f)))

\* The type of an expression in function f of class k.
TypeIn(node, k, f) ==
  CASE node.kind = "INT"             -> Typed("int", <<>>)
    [] node.kind = "FLOAT"           -> Typed("float", <<>>)
    [] node.kind = "IDENTIFIER"      -> VariableType(node.value, k, f)
    [] node.kind = "SELF_IDENTIFIER" -> IF k = "" THEN Untyped ELSE Typed(k, <<>>)
    [] node.kind \in {"ADD_OP", "MULT_OP", "REL_OP"} ->
         LET l == TypeIn(node.kids[1], k, f)
         IN  IF l \notin Numbers \/ TypeIn(node.kids[2], k, f) # l THEN Untyped
             ELSE IF node.kind = "REL_OP" THEN Typed("bool", <<>>) ELSE l
    [] node.kind = "DOT_ACCESS"      -> MemberType(TypeIn(node.kids[1], k, f), node.kids[2], k, f)
    [] node.kind = "ARRAY_ACCESS"    ->
         Indexed(TypeIn(node.kids[1], k, f), TypesIn(node.kids[2].kids, k, f))
    [] node.kind = "FUNCTION_CALL"   ->
         ResultOf(Accepting(FreeFunctionsNamed(node.kids[1].value)
                              \cup MethodsNamed(k, node.kids[1].value, k),
                            TypesIn(node.kids[2].kids, k, f)))

\* The expressions of a statement, without those of the blocks in it.
Expressions(s) ==
  IF s.kind \in {"IF_STATEMENT", "WHILE_STATEMENT"} THEN {s.kids[1].kids[1]}
  ELSE IF s.kind \in {"FUNCTION_CALL", "DOT_ACCESS"} THEN {s}
  ELSE Range(s.kids)

\* 10.1 to 10.3: the statement breaks no rule.
WellTyped(s, k, f) ==
  LET type == [e \in Expressions(s) |-> TypeIn(e, k, f)]
  IN  /\ \A e \in Expressions(s) : type[e] # Untyped
      /\ s.kind = "ASSIGNMENT" => Fits(type[s.kids[1]], type[s.kids[2]])
      /\ s.kind = "RETURN_STATEMENT" => type[s.kids[1]] = Typed(f.type, <<>>)
      /\ s.kind = "READ_STATEMENT" => type[s.kids[1]] \in Numbers
      /\ s.kind \in {"IF_STATEMENT", "WHILE_STATEMENT"} =>
           \A e \in Expressions(s) : type[e] = Typed("bool", <<>>)

-----------------------------------------------------------------------------
(* What the visitor leaves out of the rules, and what it adds to them.     *)

\* The expressions that an expression is made of.
Operands(e) ==
  CASE e.kind = "FUNCTION_CALL" -> Range(e.kids[2].kids)
    [] e.kind = "ARRAY_ACCESS"  -> {e.kids[1]} \cup Range(e.kids[2].kids)
    [] OTHER                    -> Range(e.kids)

RECURSIVE Parts(_)
Parts(e) == {e} \cup UNION {Parts(n) : n \in Operands(e)}

PartsOf(s) == UNION {Parts(e) : e \in Expressions(s)}

IsArray(e, k, f) == TypeIn(e, k, f).dims # <<>>

\* A name behind a dot that the class around the function has too, as a variable.
Shadowed(e, k) ==
  e.kind = "DOT_IDENTIFIER" /\ \E h \in {k} \cup ParentsOf(k) : HasAttribute(h, e.value)

\* A whole array where one value is needed: as an operand, an index, or what is read.
ArrayForValue(s, k, f) ==
  \/ \E e \in PartsOf(s) :
       \/ e.kind \in {"ADD_OP", "MULT_OP"} /\ \E n \in Range(e.kids) : IsArray(n, k, f)
       \/ e.kind = "ARRAY_ACCESS" /\ \E n \in Range(e.kids[2].kids) : IsArray(n, k, f)
  \/ s.kind = "READ_STATEMENT" /\ IsArray(s.kids[1], k, f)

\* The name of a class or of a function, used as a variable.
NamesNoVariable(e, k, f) ==
  e.kind = "IDENTIFIER" /\ VariableType(e.value, k, f) = Untyped
    /\ (ClassesNamed(e.value) \cup FreeFunctionsNamed(e.value) # {})

\* What stands behind a dot is the name of a free function: the search for a member
\* of the object goes on outside of its class.
OutsideClass(e) ==
  /\ e.kind = "DOT_ACCESS"
  /\ FreeFunctionsNamed(IF e.kids[2].kids = <<>> THEN e.kids[2].value
                        ELSE e.kids[2].kids[1].value) # {}

\* Mistakes that are passed over.  A comparison is not visited, and a condition is
\* judged by the type of the expression visited before it.
Overlooked(s, k, f) ==
  \/ ArrayForValue(s, k, f)
  \/ \E e \in PartsOf(s) :
       \/ e.kind = "REL_OP"
       \/ NamesNoVariable(e, k, f)
       \/ OutsideClass(e)
       \/ Shadowed(e, k)
       \/ e.kind = "FUNCTION_CALL" /\ \E g \in Range(program.functions) :
            g.name # e.kids[1].value /\ LowerCase(g.name) = LowerCase(e.kids[1].value)

\* A member that the class of the object inherits.
Inherited(e, k, f) ==
  /\ e.kind = "DOT_ACCESS"
  /\ LET c == TypeIn(e.kids[1], k, f).type
         x == e.kids[2]
     IN  CASE x.kind = "DOT_IDENTIFIER" -> ~ HasAttribute(c, x.value)
           [] x.kind = "ARRAY_ACCESS"   -> ~ HasAttribute(c, x.kids[1].value)
           [] x.kind = "FUNCTION_CALL"  -> ~ HasMethod(c, x.kids[1].value)

\* A name of a function that the class around has too, or that only its parents have.
CallsMember(e, k) ==
  e.kind = "FUNCTION_CALL" /\ \E h \in {k} \cup ParentsOf(k) : HasMethod(h, e.kids[1].value)

\* A parameter of a member function that is an array.
ArrayParameter(e, k, f) ==
  e.kind = "IDENTIFIER" /\ k # "" /\ \E p \in Range(f.params) : p.name = e.value /\ p.dims # <<>>

\* An argument whose dimensions are others from right to left.
LopsidedArgument(e, k, f) ==
  e.kind = "FUNCTION_CALL" /\ \E n \in Range(e.kids[2].kids) :
    TypeIn(n, k, f).dims # Reverse(TypeIn(n, k, f).dims)

\* Statements that break no rule and are reported.
Refused(s, k, f) ==
  \E e \in PartsOf(s) :
    \/ e.kind = "REL_OP"
    \/ Shadowed(e, k)
    \/ Inherited(e, k, f)
    \/ CallsMember(e, k)
    \/ ArrayParameter(e, k, f)
    \/ LopsidedArgument(e, k, f)

-----------------------------------------------------------------------------

RECURSIVE Within(_)

\* The statements of a list and of the blocks in them.
Within(statements) ==
  Range(statements) \cup UNION {Within(s.kids[2].kids \o s.kids[3].kids)
                                  : s \in {t \in Range(statements) : t.kind = "IF_STATEMENT"}}
    \cup UNION {Within(s.kids[2].kids)
                  : s \in {t \in Range(statements) : t.kind = "WHILE_STATEMENT"}}

StatementsOf(f) == Within(SelectSeq(f.body.kids, LAMBDA s : s.kind # "LOCAL_VARIABLE"))

\* The functions with a body, each with its class and the path of its table.
Bodies ==
  {[class |-> "", fun |-> f, path |-> <<KeyOf(f)>>] : f \in Range(program.functions)}
    \cup UNION {{[class |-> i.class, fun |-> f, path |-> <<i.class, KeyOf(f)>>]
                   : f \in Range(i.functions)} : i \in Range(program.implementations)}

Reported(s, b) == \E i \in DOMAIN errors : errors[i].in = b.path /\ errors[i].at = s

MistakesIn(b) ==
  {s \in StatementsOf(b.fun) :
     ~ WellTyped(s, b.class, b.fun) /\ ~ Overlooked(s, b.class, b.fun)}

\* 10.1 to 15.1: every statement that breaks a rule is reported, except for what the
\* visitor passes over, in every body that it visits at all, whatever was visited
\* before.
MistakesAreFound ==
  Finished => \A b \in Bodies : Checked(b.fun) => \A s \in MistakesIn(b) : Reported(s, b)

\* The other way round: a statement that is reported breaks a rule, but for the
\* rules that only the visitor has.
ReportsAreJust ==
  Finished => \A b \in Bodies : \A s \in StatementsOf(b.fun) :
    Reported(s, b) => ~ WellTyped(s, b.class, b.fun) \/ Refused(s, b.class, b.fun)

\* 11.1 and the others, for the body of every function.
EveryBodyIsChecked ==
  Finished => \A b \in Bodies : \A s \in MistakesIn(b) : Reported(s, b)

\* The search for cycles comes to an end, whatever cycles there are: no path through
\* the classes keeps it going.
SearchEnds == todo = <<>> ~> Searched

==============================================================================
