---------------------------- MODULE AccountBook ----------------------------
(***************************************************************************)
(* What the ledger is for, without transactions or unspent outputs: a book *)
(* that keeps three balances for each account and remembers which deposits *)
(* were made, disputed and settled.  Every operation is one step.          *)
(*                                                                         *)
(* Ledger implements it (BookView): what a client does by one or two       *)
(* transactions, selected before they are stored, is one step of the book. *)
(* As in the code, a dispute may be both resolved and charged back, each   *)
(* once, as long as the disputed balance covers the amount.                *)
(***************************************************************************)
EXTENDS Integers, FiniteSetsExt

CONSTANTS
    Id,         \* account numbers
    Ref,        \* references
    Amount      \* amounts, natural numbers where balances are to be as well

VARIABLES
    main, disputed, chargeback,     \* the balances of each account
    deposited, withdrawn,           \* totals of each account so far
    deposits,                       \* the deposits made
    disputes,                       \* those that were disputed
    settled                         \* <<how, dispute>> of those settled

vars == <<main, disputed, chargeback, deposited, withdrawn, deposits, disputes, settled>>

Entry == [account : Id, reference : Ref, amount : Amount]

Zero == [a \in Id |-> 0]

Add(balance, a, m) == [balance EXCEPT ![a] = balance[a] + m]

Take(balance, a, m) == [balance EXCEPT ![a] = balance[a] - m]

Init ==
    /\ main = Zero /\ disputed = Zero /\ chargeback = Zero
    /\ deposited = Zero /\ withdrawn = Zero
    /\ deposits = {} /\ disputes = {} /\ settled = {}

\* A reference names one deposit of an account.
Deposit(a, r, m) ==
    /\ \A d \in deposits : ~(d.account = a /\ d.reference = r)
    /\ main' = Add(main, a, m)
    /\ deposited' = Add(deposited, a, m)
    /\ deposits' = deposits \cup {[account |-> a, reference |-> r, amount |-> m]}
    /\ UNCHANGED <<disputed, chargeback, withdrawn, disputes, settled>>

\* No more than the main balance can be withdrawn.
Withdraw(a, m) ==
    /\ m <= main[a]
    /\ main' = Take(main, a, m)
    /\ withdrawn' = Add(withdrawn, a, m)
    /\ UNCHANGED <<disputed, chargeback, deposited, deposits, disputes, settled>>

\* A dispute freezes the amount of the deposit, once.
Dispute(d) ==
    /\ d \in deposits \ disputes
    /\ d.amount <= main[d.account]
    /\ main' = Take(main, d.account, d.amount)
    /\ disputed' = Add(disputed, d.account, d.amount)
    /\ disputes' = disputes \cup {d}
    /\ UNCHANGED <<chargeback, deposited, withdrawn, deposits, settled>>

Resolve(d) ==
    /\ d \in disputes /\ <<"resolve", d>> \notin settled
    /\ d.amount <= disputed[d.account]
    /\ disputed' = Take(disputed, d.account, d.amount)
    /\ main' = Add(main, d.account, d.amount)
    /\ settled' = settled \cup {<<"resolve", d>>}
    /\ UNCHANGED <<chargeback, deposited, withdrawn, deposits, disputes>>

Chargeback(d) ==
    /\ d \in disputes /\ <<"chargeback", d>> \notin settled
    /\ d.amount <= disputed[d.account]
    /\ disputed' = Take(disputed, d.account, d.amount)
    /\ chargeback' = Add(chargeback, d.account, d.amount)
    /\ settled' = settled \cup {<<"chargeback", d>>}
    /\ UNCHANGED <<main, deposited, withdrawn, deposits, disputes>>

Next ==
    \/ \E a \in Id, m \in Amount : Withdraw(a, m) \/ \E r \in Ref : Deposit(a, r, m)
    \/ \E d \in deposits : Dispute(d) \/ Resolve(d) \/ Chargeback(d)

Spec == Init /\ [][Next]_vars

-----------------------------------------------------------------------------

TypeOK ==
    /\ {main, disputed, chargeback, deposited, withdrawn} \subseteq [Id -> Nat]
    /\ deposits \subseteq Entry
    /\ disputes \subseteq deposits
    /\ settled \subseteq {"resolve", "chargeback"} \X disputes

\* The three balances of an account hold what was deposited less what was
\* withdrawn.
BooksBalance ==
    \A a \in Id : main[a] + disputed[a] + chargeback[a] = deposited[a] - withdrawn[a]

\* What a set of entries is worth.
Worth(entries) == MapThenSumSet(LAMBDA d : d.amount, entries)

\* The disputes of an account, and those settled in a way.
DisputesOf(a) == {d \in disputes : d.account = a}

SettledOf(how, a) == {d \in DisputesOf(a) : <<how, d>> \in settled}

\* The disputed balance is what the disputes froze less what their settlements
\* released, a dispute that is settled both ways counting twice, and what is
\* charged back is the sum of the chargebacks.
DisputesAddUp ==
    \A a \in Id :
        /\ disputed[a] = Worth(DisputesOf(a))
                            - Worth(SettledOf("resolve", a)) - Worth(SettledOf("chargeback", a))
        /\ chargeback[a] = Worth(SettledOf("chargeback", a))
=============================================================================
