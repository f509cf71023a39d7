----------------------------- MODULE MCBalances -----------------------------
(* Instances of get_balances beside the other operations. *)
EXTENDS Balances

OneRef == {<<"x">>}
=============================================================================
