--------------------------- MODULE AccountListing ---------------------------
(***************************************************************************)
(* What get_accounts promises: the numbers of the accounts one after       *)
(* the other, in increasing order, each once, also while accounts are      *)
(* being opened; it ends when no account lies beyond the last one listed.  *)
(***************************************************************************)
EXTENDS Integers, Sequences

CONSTANT Id     \* account numbers

VARIABLES
    ids,        \* the accounts there are
    returned,   \* those listed so far
    ended       \* the listing is over

vars == <<ids, returned, ended>>

Beyond(i) == \A k \in DOMAIN returned : returned[k] < i

Init == ids \subseteq Id /\ returned = <<>> /\ ended = FALSE

\* The next account of those beyond the last one.
List(i) ==
    /\ ~ended
    /\ i \in ids /\ Beyond(i)
    /\ \A j \in ids : Beyond(j) => i <= j
    /\ returned' = Append(returned, i)
    /\ UNCHANGED <<ids, ended>>

End ==
    /\ ~ended
    /\ \A i \in ids : ~Beyond(i)
    /\ ended' = TRUE
    /\ UNCHANGED <<ids, returned>>

\* Accounts are opened and never closed.
OpenAccount(i) ==
    /\ ids' = ids \cup {i}
    /\ UNCHANGED <<returned, ended>>

Next == End \/ \E i \in Id : List(i) \/ OpenAccount(i)

Spec == Init /\ [][Next]_vars
=============================================================================
