---------------------------- MODULE SymbolTable ----------------------------
(***************************************************************************)
(* SymbolTable: the symbols of one scope, the functions of that scope by   *)
(* signature, and the tables nested in it.                                 *)
(*                                                                         *)
(* The tables of a program are a function from paths to tables: <<>> is    *)
(* the global table, and the table that getNestedTable(key) finds in the   *)
(* table at path p is at Append(p, key).  A symbol of kind FUNCTION stands *)
(* both in the map by name and in the map by signature; what changes of it *)
(* after it was added, whether it is defined, is kept apart by signature,  *)
(* as both entries share one object.                                       *)
(***************************************************************************)
EXTENDS Common, SequencesExt, TLC

Symbol(kind, type, dims) ==
  [kind |-> kind, type |-> type, dims |-> dims, params |-> <<>>, parents |-> <<>>,
   visibility |-> "private"]

ParamTypes(params) == [i \in DOMAIN params |-> params[i].type]

Signature(name, params) == <<name, ParamTypes(params)>>

\* scope is the kind of the table: "global", "class" or "function"; owner is the
\* signature of its functionSymbol, if it has one.
EmptyTable(scope, owner) ==
  [scope |-> scope, owner |-> owner, syms |-> <<>>, order |-> <<>>, funs |-> <<>>,
   defined |-> {}, nested |-> <<>>]

Put(map, key, value) ==
  [k \in DOMAIN map \cup {key} |-> IF k = key THEN value ELSE map[k]]

\* Bug: the order is not searched first.
NewInAlways(seq, x) == Append(seq, x)

NewIn(seq, x) == IF \E i \in DOMAIN seq : seq[i] = x THEN seq ELSE Append(seq, x)

\* addSymbol, for a function: an overload replaces the symbol of its name.
HasFunction(table, name, params) == Signature(name, params) \in DOMAIN table.funs

AddFunction(table, name, symbol) ==
  IF HasFunction(table, name, symbol.params) THEN table
  ELSE [table EXCEPT !.funs = Put(@, Signature(name, symbol.params), symbol),
                     !.syms = Put(@, name, symbol),
                     !.order = NewIn(@, name)]

\* Bug: the symbol is replaced.
AddOtherAnyway(table, name, symbol) ==
  [table EXCEPT !.syms = Put(@, name, symbol), !.order = NewIn(@, name)]

\* addSymbol, for any other symbol.
AddOther(table, name, symbol) ==
  IF name \in DOMAIN table.syms THEN table
  ELSE [table EXCEPT !.syms = Put(@, name, symbol), !.order = Append(@, name)]

AddSymbol(table, name, symbol) ==
  IF symbol.kind = "FUNCTION" THEN AddFunction(table, name, symbol)
  ELSE AddOther(table, name, symbol)

\* removeSymbol: the map by signature keeps its entries.
RemoveSymbol(table, name) ==
  [table EXCEPT !.syms = [n \in DOMAIN @ \ {name} |-> @[n]],
                !.order = SelectSeq(@, LAMBDA n : n # name)]

\* setDefined, on the symbol of the map by signature.
Defined(table, sig) == [table EXCEPT !.defined = @ \cup {sig}]

\* addNestedTable: a key that is there already is listed again.
AddNested(tables, path, key, table) ==
  Put([tables EXCEPT ![path].nested = Append(@, key)], Append(path, key), table)

\* The copy constructor, for one table: an entry of the map by signature becomes the
\* copied symbol of its name, so that the signatures of a name share one symbol, that
\* of the last overload, and are defined when that one is.
Shared(table, sig) ==
  IF sig[1] \in DOMAIN table.syms
  THEN Signature(sig[1], table.syms[sig[1]].params) ELSE sig

Copied(table) ==
  [table EXCEPT
     !.funs = [sig \in DOMAIN @ |->
                 IF sig[1] \in DOMAIN table.syms THEN table.syms[sig[1]] ELSE @[sig]],
     !.defined = {sig \in DOMAIN table.funs : Shared(table, sig) \in @}]

Parent(path) == [i \in 1 .. Len(path) - 1 |-> path[i]]

-----------------------------------------------------------------------------

(***************************************************************************)
(* Types as text: what the symbol table visitor writes into the symbols of *)
(* functions and parameters, and what the semantic checks read out of it.  *)
(***************************************************************************)

\* formatTypeWithDimensions: the dimensions in reverse, after the type.
Bracketed(d) == IF d = Dynamic THEN "[]" ELSE "[" \o ToString(d) \o "]"

Suffixed(type, dims) == FoldLeft(LAMBDA text, d : text \o Bracketed(d), type, dims)

TypeText(type, dims) == Suffixed(type, Reverse(dims))

\* The key of a function in the nested tables of its scope.
\* Bug: the parameter types do not count.
UniqueKeyByName(name, params) == name

UniqueKey(name, params) ==
  FoldLeft(LAMBDA key, p : key \o "_" \o p.type, name, params)

\* parseTypeString undoes Suffixed, over the types and the dimensions that the texts
\* of a program are made of: the dimensions come in the order of the text.
Parsed(text, types, dimLists) ==
  IF \E t \in types, d \in dimLists : text = Suffixed(t, d)
  THEN CHOOSE info \in [type : types, dims : dimLists] : text = Suffixed(info.type, info.dims)
  ELSE [type |-> text, dims |-> <<>>]

=============================================================================
