------------------------------ MODULE MCLedger ------------------------------
(* Instances of the ledger for TLC. *)
EXTENDS BookView

TwoRefs == {<<"x">>, <<"y">>}

\* A caller may pick a reference that the ledger also derives from another one.
PrefixedRefs == {<<"x">>, <<"Exchange for", "x">>}

\* A negative amount: a withdrawal of it leaves change larger than its inputs.
SignedAmounts == {-1, 2}

SignedOrZero == SignedAmounts \cup {0}

OneRef == {<<"x">>}

ClientSymmetry == Permutations(Client)
=============================================================================
