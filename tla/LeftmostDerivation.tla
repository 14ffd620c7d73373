------------------------- MODULE LeftmostDerivation -------------------------
(***************************************************************************)
(* What a predictive parser promises: it builds a leftmost derivation from *)
(* the start symbol, in which every step replaces the leftmost nonterminal *)
(* by the right-hand side of one of its productions, and it accepts only   *)
(* when nothing is left to replace.  After a syntax error the derivation   *)
(* is abandoned and the input can only be rejected.  Semantic actions are  *)
(* part of the form: they are symbols that derive nothing and match        *)
(* nothing.  How the parser picks the production is not visible here.      *)
(***************************************************************************)
EXTENDS Grammar

VARIABLES form,    \* the sentential form
          status   \* "deriving", "failed", "accepted" or "rejected"

vars == <<form, status>>

Init == form = <<Start, End>> /\ status = "deriving"

\* The leftmost nonterminal of the form is at position i.
Leftmost(i) == /\ form[i] \in NonTerminals
               /\ \A j \in 1 .. i - 1 : form[j] \notin NonTerminals

Derive == /\ status = "deriving"
          /\ \E i \in DOMAIN form, c \in DOMAIN Table :
               /\ Leftmost(i)
               /\ c[1] = form[i]
               /\ form' = SubSeq(form, 1, i - 1) \o Table[c].rhs
                                \o SubSeq(form, i + 1, Len(form))
          /\ UNCHANGED status

\* With nothing left to replace, the answer depends on the input alone.
Finish == /\ status = "deriving"
          /\ \A i \in DOMAIN form : form[i] \notin NonTerminals
          /\ status' \in {"accepted", "rejected"}
          /\ UNCHANGED form

Fail == status = "deriving" /\ status' = "failed" /\ form' = <<>>

Reject == status = "failed" /\ status' = "rejected" /\ UNCHANGED form

Next == Derive \/ Finish \/ Fail \/ Reject

Spec == Init /\ [][Next]_vars

=============================================================================
