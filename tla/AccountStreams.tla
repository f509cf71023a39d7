--------------------------- MODULE AccountStreams ---------------------------
(***************************************************************************)
(* get_accounts: a stream of sub-accounts by the storage, and around it    *)
(* the AccountIterator of the ledger, which leaves out an account whose    *)
(* number is that of the one before.  Both backends are here: the cursor   *)
(* of the in-memory store is the last sub-account returned, the cursor of  *)
(* SQLite is a number of rows to skip.  Each poll of the storage takes its *)
(* lock anew; between two polls clients credit sub-accounts.               *)
(***************************************************************************)
EXTENDS Transactions

ASSUME IdIsNat == Id \subseteq Nat
ASSUME IdIsFinite == IsFiniteSet(Id)

VARIABLES
    kind,       \* the cursor of this backend: "key" or "offset"
    accounts,   \* the sub-accounts credited so far
    key,        \* AccountStream::latest of memory.rs, an Option
    offset,     \* AccountStream::offset of sqlite.rs
    latest,     \* AccountIterator::latest, an Option
    returned,   \* auxiliary: the account numbers returned so far
    ended,      \* the consumer got None and stopped
    start       \* auxiliary: the sub-accounts there when the stream was made

vars == <<kind, accounts, key, offset, latest, returned, ended, start>>

Rank == [Main |-> 0, Disputed |-> 1, Chargeback |-> 2]

\* The derived order of FullAccount, and ORDER BY account_id, account_type.
Below(a, b) == a[1] < b[1] \/ (a[1] = b[1] /\ Rank[a[2]] < Rank[b[2]])

\* Funds reach a sub-account from the one before it.
Reachable(a, known) ==
    /\ a[2] = "Disputed" => MainOf(a[1]) \in known
    /\ a[2] = "Chargeback" => DisputedOf(a[1]) \in known

Init ==
    /\ kind \in {"key", "offset"}
    /\ accounts \in {S \in SUBSET FullAccount : \A a \in S : Reachable(a, S)}
    /\ key = None /\ offset = 0
    /\ latest = None
    /\ returned = <<>> /\ ended = FALSE
    /\ start = accounts

\* The first credit of a sub-account, by a transaction of some client.
Credit(a) ==
    /\ a \in FullAccount \ accounts /\ Reachable(a, accounts)
    /\ accounts' = accounts \cup {a}
    /\ UNCHANGED <<kind, key, offset, latest, returned, ended, start>>

\* range(latest..) without latest itself; everything when there is no latest.
AboveKey(a) == \A last \in key : Below(last, a)

\* What the storage returns next: a singleton, or nothing at the end.
ByKey == {a \in accounts : /\ AboveKey(a)
                           /\ \A b \in accounts : AboveKey(b) => ~Below(b, a)}

\* Mutant of ByOffset: rows are counted from one.
ByOffsetFromOne == {a \in accounts : Cardinality({b \in accounts : Below(b, a)}) = offset + 1}

\* LIMIT 1 OFFSET offset
ByOffset == {a \in accounts : Cardinality({b \in accounts : Below(b, a)}) = offset}

Upcoming == IF kind = "key" THEN ByKey ELSE ByOffset

\* Mutant of Emit: the iterator remembers the first account only.
EmitFirstOnly(a) ==
    /\ latest' = IF latest = None THEN Some(a[1]) ELSE latest
    /\ returned' = IF latest = Some(a[1]) THEN returned ELSE Append(returned, a[1])

\* AccountIterator: an account with the number of the last one is skipped.
Emit(a) ==
    /\ latest' = Some(a[1])
    /\ returned' = IF latest = Some(a[1]) THEN returned ELSE Append(returned, a[1])

\* Mutant of Advance: an offset that counts the accounts returned.
AdvanceByReturned(a) ==
    IF kind = "key" THEN key' = Some(a) /\ UNCHANGED offset
    ELSE offset' = offset + (IF latest = Some(a[1]) THEN 0 ELSE 1) /\ UNCHANGED key

\* Mutant of Advance: a key that is taken for a poll is not put back.
AdvanceTakesKey(a) ==
    IF kind = "key" THEN key' = (IF key = None THEN Some(a) ELSE None) /\ UNCHANGED offset
    ELSE offset' = offset + 1 /\ UNCHANGED key

Advance(a) ==
    IF kind = "key" THEN key' = Some(a) /\ UNCHANGED offset
    ELSE offset' = offset + 1 /\ UNCHANGED key

\* One poll of the storage within a poll of the iterator.
Poll ==
    /\ ~ended
    /\ IF Upcoming = {}
       THEN /\ ended' = TRUE
            /\ key' = None      \* latest.take(): a further poll would begin again
            /\ UNCHANGED <<offset, latest, returned>>
       ELSE \E a \in Upcoming : Advance(a) /\ Emit(a) /\ UNCHANGED ended
    /\ UNCHANGED <<kind, accounts, start>>

\* Nothing has to happen once the listing is over and every account is there.
Over == ended /\ UNCHANGED vars

Next == Poll \/ Over \/ \E a \in FullAccount : Credit(a)

Spec == Init /\ [][Next]_vars

\* The consumer polls until the end.
FairSpec == Spec /\ WF_vars(Poll)

-----------------------------------------------------------------------------

Numbers(S) == {a[1] : a \in S}

TypeOK ==
    /\ kind \in {"key", "offset"}
    /\ accounts \subseteq FullAccount /\ start \subseteq accounts
    /\ key \in SUBSET accounts /\ offset \in Nat
    /\ returned \in Seq(Id)
    /\ latest = {returned[k] : k \in {Len(returned)} \ {0}}
    /\ ended \in BOOLEAN

\* Whatever is credited meanwhile, and with either cursor, no account that was
\* there when the listing began is left out of it.
NoneIsLeftOut == ended => Numbers(start) \subseteq ToSet(returned)

\* A listing during which no sub-account is opened is exact with either cursor:
\* sorted, each account once, all of them at the end.
UndisturbedIsExact ==
    accounts = start =>
        /\ \A j, k \in DOMAIN returned : j < k => returned[j] < returned[k]
        /\ ToSet(returned) \subseteq Numbers(accounts)
        /\ ended => ToSet(returned) = Numbers(accounts)

\* The accounts are listed in order, each once.
Sorted == \A j, k \in DOMAIN returned : j < k => returned[j] < returned[k]

Listing == INSTANCE AccountListing WITH ids <- Numbers(accounts)

\* With the in-memory store the listing is what it should be, whatever clients do.
ImplementsListing ==
    Listing!Init /\ [][kind = "key" => Listing!Next]_(Listing!vars)

\* The polls that can still return a sub-account, among all that could be opened.
PollsLeft ==
    IF kind = "key" THEN Cardinality({a \in FullAccount : AboveKey(a)})
    ELSE Cardinality(FullAccount) - offset

\* With either cursor each poll takes from what is left, the accounts that the
\* iterator skips included, and opening an account adds nothing to it; so there is
\* no listing that clients can prolong for ever.
PollsRunOut ==
    [][IF Poll THEN ended' \/ PollsLeft' \in 0..(PollsLeft - 1)
       ELSE PollsLeft' = PollsLeft]_vars

\* Every listing ends, also while accounts are opened: there are only so many.
Ends == <>ended
=============================================================================
