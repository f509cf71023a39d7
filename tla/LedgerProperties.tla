------------------------- MODULE LedgerProperties -------------------------
(***************************************************************************)
(* What the ledger promises its callers, stated over the log of committed  *)
(* transactions and the calls in flight.                                   *)
(***************************************************************************)
EXTENDS Ledger

TypeOK ==
    /\ log \in Seq(Transaction)
    /\ call \in [Client -> Idle \cup Selecting \cup Storing]

-----------------------------------------------------------------------------
(* Ways to read the log.                                                    *)

Owner(account) == account[1]

Holds(log_, a) ==
    Balance(log_, MainOf(a)) + Balance(log_, DisputedOf(a)) + Balance(log_, ChargebackOf(a))

IsDeposit(tx) == tx.from = <<>>

IsWithdrawal(tx) == tx.to = <<>>

IsExchange(tx) ==
    ~IsDeposit(tx) /\ ~IsWithdrawal(tx) /\ Head(tx.reference) = "Exchange for"

\* Whether the output at p is in the funds of account a that may move.
IsMovable(a, p) == OutputAt(log, p).account \in {MainOf(a), DisputedOf(a)}

\* The places of the outputs that transaction tx spends.
Sources(tx) ==
    {p \in Places(log) : \E k \in DOMAIN tx.from : tx.from[k].id = UtxoAt(log, p).id}

\* All that was ever deposited to the account, and all that was withdrawn.
Deposited(a) ==
    SumAt(log, {p \in Places(log) : /\ IsDeposit(log[p[1]])
                                    /\ Owner(OutputAt(log, p).account) = a})

Withdrawn(a) ==
    SumAt(log, UNION {{p \in Sources(log[i]) : Owner(OutputAt(log, p).account) = a} :
                        i \in {j \in DOMAIN log : IsWithdrawal(log[j])}})

\* The deposits of the account that were disputed, by their reference, and the
\* amount the dispute froze.
DisputedRefs(a) ==
    {r \in UserRef : Found(log, DisputedOf(a), Tagged("dispute", r)) # {}}

Frozen(a, r) ==
    SumAt(log, {p \in Places(log) : /\ OutputAt(log, p).account = DisputedOf(a)
                                    /\ log[p[1]].reference = Tagged("dispute", r)})

ResolvedRefs(a) == {r \in UserRef : Found(log, MainOf(a), Tagged("resolved", r)) # {}}

ChargedRefs(a) == {r \in UserRef : Found(log, ChargebackOf(a), Tagged("chargeback", r)) # {}}

-----------------------------------------------------------------------------
(* Safety with concurrent callers.                                          *)

\* No unspent output is consumed by two transactions, or twice by one: clients
\* that selected the same outputs cannot both spend them.
NoDoubleSpend ==
    \A i, j \in DOMAIN log : \A k \in DOMAIN log[i].from, l \in DOMAIN log[j].from :
        log[i].from[k].id = log[j].from[l].id => i = j /\ k = l

\* Every input is an output of an earlier transaction, taken at its recorded
\* amount out of the main or the disputed funds of an account, and the outputs
\* stay in that account.
InputsHaveASource ==
    \A i \in DOMAIN log : \E a \in Id :
        /\ \A n \in DOMAIN log[i].to : Owner(log[i].to[n].account) = a
        /\ \A k \in DOMAIN log[i].from : \E p \in Places(log) :
              p[1] < i /\ IsMovable(a, p) /\ UtxoAt(log, p) = log[i].from[k]

\* An account is credited at most once under a reference, so a deposit, a
\* dispute and either settlement of it happen at most once each, however many
\* clients retry them at the same time.
OneCreditPerReference ==
    \A a \in FullAccount, i, j \in DOMAIN log :
        (log[i].reference = log[j].reference /\ {i, j} \subseteq Found(log, a, log[i].reference))
            => i = j

\* The outputs an account has left are what was deposited less what was
\* withdrawn: exchanges, disputes and settlements neither create nor lose funds.
Conservation == \A a \in Id : Holds(log, a) = Deposited(a) - Withdrawn(a)

\* What is charged back never moves again.
ChargebackIsFinal ==
    \A i \in DOMAIN log : \A p \in Sources(log[i]) : OutputAt(log, p).account[2] # "Chargeback"

\* The only refusals of the storage a caller meets are a reference that is
\* taken and an output that another client spent first.  The code never builds
\* a transaction that does not balance or names an output that does not exist.
OnlyRacesAreRefused ==
    \A c \in Client : IsIdle(c) =>
        call[c].outcome \notin {"MissingUtxo", "MismatchAmount", "Imbalanced"}

\* The k-th of the transactions a call is to store moves funds of one account:
\* its inputs are outputs of stored transactions, spent since or not, at their
\* amounts; or the first output of the exchange that the call stores before it.
Planned(txs, k) ==
    \E a \in Id :
        /\ \A n \in DOMAIN txs[k].to : Owner(txs[k].to[n].account) = a
        /\ \A n \in DOMAIN txs[k].from :
              \/ \E p \in Places(log) : IsMovable(a, p) /\ UtxoAt(log, p) = txs[k].from[n]
              \/ /\ k = 2 /\ txs[1].to # <<>> /\ txs[1].to[1].account = MainOf(a)
                 /\ txs[k].from[n] = [id |-> <<txs[1].id, 0>>, amount |-> txs[1].to[1].amount]

\* A call in flight never plans to spend what does not exist or is another's,
\* whatever the others store between its selection and its transactions.
PlannedInputsExist == \A c \in Client : \A k \in DOMAIN Pending(c) : Planned(Pending(c), k)

\* Whether an answer that the funds are not there is right when it is about
\* amount m of an account: it is given only if the balance does not cover m, and
\* always then, unless an output is negative: the scan of get_unspent may stop
\* before it has counted that one.
Honest(refused, account, m) ==
    /\ refused => Balance(log, account) < m
    /\ Balance(log, account) < m =>
          \/ refused
          \/ \E p \in UnspentPlaces(log, account) : OutputAt(log, p).amount < 0

Answers(c, outcome) == call'[c].at = "idle" /\ call'[c].outcome = outcome

\* No withdrawal, dispute or settlement is refused for want of funds that are
\* there, whatever outputs get_unspent hands it, nor goes on without them.
NotEnoughIsHonest ==
    [][\A c \in Client :
          /\ \A a \in Id, r \in UserRef, m \in Amount :
                Withdraw(c, a, r, m) => Honest(Answers(c, "NotEnough"), MainOf(a), m)
          /\ Select(c) =>
                LET now == call[c]
                    move == Moves[now.op]
                IN  Honest(Answers(c, move.missing), <<now.account, move.source>>, now.amount)]_vars

\* Every call returns.
Returns == \A c \in Client : ~IsIdle(c) ~> IsIdle(c)

-----------------------------------------------------------------------------
(* Safety with one caller at a time, and what concurrent callers lose.      *)

\* An exchange is made for a withdrawal: when no call is running and none was
\* dropped, its first output has been withdrawn.
NoDanglingExchange ==
    InFlight = {} /\ (\A c \in Client : ~Gone(c)) =>
        \A i \in DOMAIN log : IsExchange(log[i]) =>
            \E j \in DOMAIN log : /\ IsWithdrawal(log[j])
                                  /\ \E k \in DOMAIN log[j].from : log[j].from[k].id = <<log[i].id, 0>>

\* The funds of the disputes that are not settled are still frozen.
OpenDisputesStayFrozen ==
    \A a \in Id :
        LET open == DisputedRefs(a) \ (ResolvedRefs(a) \cup ChargedRefs(a))
        IN  MapThenSumSet(LAMBDA r : Frozen(a, r), open) <= Balance(log, DisputedOf(a))

\* A caller that is alone meets no race: no output it selects is spent before
\* its transactions are stored.
AloneNothingRaces ==
    Cardinality(Client) = 1 => \A c \in Client : IsIdle(c) => call[c].outcome # "SpentUtxo"
=============================================================================
