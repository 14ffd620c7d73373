------------------------------ MODULE MCScopes ------------------------------
(***************************************************************************)
(* Instance for TLC of SymbolTableVisitor with its rules: programs of few  *)
(* declarations over few names, with a repeated parameter, with parents    *)
(* that are declared later or not at all, and with dimensions of each kind. *)
(***************************************************************************)
EXTENDS ScopeRules

NoDims == <<>>
IntP == [name |-> "p", type |-> "int", dims |-> NoDims]

\* The second has the type of the first: its dimension is no size, and is dropped.
OddP == [IntP EXCEPT !.dims = <<0>>]

NoneOrTwice == {<<>>, <<IntP, OddP>>}
BothClasses == {<<"A", "B">>}
FlatOrOdd == {NoDims, <<3, 0, Dynamic, MaxInt + 1>>}

\* The names of these programs are apart, as the theorems ask; the keys of their
\* functions, `f` and `f_int_int`, are too.
ASSUME ApartAssumption == NamesApart /\ KeysOffClasses

=============================================================================
