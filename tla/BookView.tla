------------------------------ MODULE BookView ------------------------------
(***************************************************************************)
(* The ledger seen as an AccountBook: the balances are the sums of unspent *)
(* outputs, the deposits, disputes and settlements are read off the log.   *)
(***************************************************************************)
EXTENDS LedgerProperties

\* The deposits of the log: transactions without inputs that credit a main
\* sub-account under a caller's reference.  (A dispute or a resolution of zero
\* finds nothing to move when its source is empty, and has no inputs either.)
DepositPlaces ==
    {p \in Places(log) : /\ IsDeposit(log[p[1]])
                         /\ OutputAt(log, p).account[2] = "Main"
                         /\ log[p[1]].reference \in UserRef}

DepositEntries ==
    {[account |-> Owner(OutputAt(log, p).account), reference |-> log[p[1]].reference,
      amount |-> OutputAt(log, p).amount] : p \in DepositPlaces}

\* Those for which resolved, charged or disputed names the reference.
Named(entries, Refs(_)) == {d \in entries : d.reference \in Refs(d.account)}

Settlements ==
    {"resolve"} \X Named(DepositEntries, ResolvedRefs)
        \cup {"chargeback"} \X Named(DepositEntries, ChargedRefs)

Book == INSTANCE AccountBook WITH
    Ref <- UserRef,
    main <- [a \in Id |-> Balance(log, MainOf(a))],
    disputed <- [a \in Id |-> Balance(log, DisputedOf(a))],
    chargeback <- [a \in Id |-> Balance(log, ChargebackOf(a))],
    deposited <- [a \in Id |-> Deposited(a)],
    withdrawn <- [a \in Id |-> Withdrawn(a)],
    deposits <- DepositEntries,
    disputes <- Named(DepositEntries, DisputedRefs),
    settled <- Settlements

\* The ledger implements the book: whatever the interleaving, a commit that
\* changes the balances is one whole deposit, withdrawal, dispute or
\* settlement, allowed by the balances at that moment; everything else, the
\* exchange before a withdrawal included, leaves the book as it is.
ImplementsBook == Book!Spec

\* The three balances of an account are what was deposited less what was
\* withdrawn, and each is explained by the disputes and settlements that the
\* log has: a change output never counts as part of either.
BookAddsUp == Book!BooksBalance /\ Book!DisputesAddUp
=============================================================================
