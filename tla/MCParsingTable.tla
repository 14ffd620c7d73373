--------------------------- MODULE MCParsingTable ---------------------------
(***************************************************************************)
(* The construction of the BARZ parsing table, with the textbook sets of   *)
(* the same grammar as the reference.                                      *)
(***************************************************************************)
EXTENDS ParsingTable, BarzGrammar

\* The table is the LL(1) table of its own grammar: a row holds a production
\* under exactly the columns that predict it.  The parser would otherwise refuse
\* a valid program, or expand on a token no derivation can continue with.
Holds(columns) ==
  \A p \in Productions :
    columns[p] = {t \in Terminals : HasProduction(p[1], t) /\ Rhs(p[1], t) = p[2]}
TableIsLL1 == phase = "ready" => Holds(Predicted)

=============================================================================
