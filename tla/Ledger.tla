------------------------------ MODULE Ledger ------------------------------
(***************************************************************************)
(* The public operations of the ledger, called by several clients at once. *)
(*                                                                         *)
(* A call is a sequence of accesses to the storage, each atomic (the store *)
(* holds its lock for the whole access), with nothing held in between: an  *)
(* access and the computation after it is one step here, so the            *)
(* calls of different clients interleave at the .await points of the code. *)
(* The storage is represented by the log of committed transactions;        *)
(* MemoryStorage shows that the in-memory store answers as the log says.   *)
(*                                                                         *)
(* call[c] is what client c is doing:                                      *)
(*   idle             no call is running; the outcome of the last one      *)
(*   select           dispute, resolve or chargeback has found its         *)
(*                    transaction and is to choose the outputs to move     *)
(*   store            the transactions still to be stored                  *)
(*                                                                         *)
(* get_balances, which only reads, is in module Balances.                  *)
(***************************************************************************)
EXTENDS TxLog

CONSTANTS
    Client,     \* concurrent callers of the ledger
    UserRef,    \* references the callers use
    Amount      \* amounts the callers use

ASSUME ClientIsFinite == IsFiniteSet(Client)
ASSUME UserRefIsReference == UserRef \subseteq Reference
ASSUME AmountIsInt == Amount \subseteq Int

VARIABLES
    log,        \* the committed transactions, oldest first
    call        \* what each client is doing

vars == <<log, call>>

-----------------------------------------------------------------------------
(* Calls in progress.                                                       *)

\* Mutant of Moves: chargebacks go to a sub-account that does not exist.
MovesToLocked ==
    [dispute    |-> [source |-> "Main", dest |-> "Disputed",
                     tag |-> "dispute", missing |-> "Panic"],
     resolve    |-> [source |-> "Disputed", dest |-> "Main",
                     tag |-> "resolved", missing |-> "Internal"],
     chargeback |-> [source |-> "Disputed", dest |-> "Locked",
                     tag |-> "chargeback", missing |-> "Internal"]]

\* Mutant of Moves: a settlement that finds no funds panics, as a dispute does.
MovesPanic ==
    [dispute    |-> [source |-> "Main", dest |-> "Disputed",
                     tag |-> "dispute", missing |-> "Panic"],
     resolve    |-> [source |-> "Disputed", dest |-> "Main",
                     tag |-> "resolved", missing |-> "Panic"],
     chargeback |-> [source |-> "Disputed", dest |-> "Chargeback",
                     tag |-> "chargeback", missing |-> "Panic"]]

\* How funds move between the sub-accounts of one account, the prefix of the
\* reference of the move, and how the code ends when the funds are not there.
Moves ==
    [dispute    |-> [source |-> "Main", dest |-> "Disputed",
                     tag |-> "dispute", missing |-> "Panic"],
     resolve    |-> [source |-> "Disputed", dest |-> "Main",
                     tag |-> "resolved", missing |-> "Internal"],
     chargeback |-> [source |-> "Disputed", dest |-> "Chargeback",
                     tag |-> "chargeback", missing |-> "Internal"]]

Op == DOMAIN Moves

Outcome ==
    {"None", "Ok", "NotFound", "WrongType", "NotEnough", "Internal", "Panic",
     "Duplicate", "MissingUtxo", "SpentUtxo", "MismatchAmount",
     "Imbalanced", "InvalidFrom", "Dropped"}

Idle == [at : {"idle"}, outcome : Outcome]
Selecting == [at : {"select"}, op : Op, account : Id, reference : Reference, amount : Int]
Storing == [at : {"store"}, todo : Seq(Transaction) \ {<<>>}]

IsIdle(c) == call[c].at = "idle"

InFlight == {c \in Client : ~IsIdle(c)}

Pending(c) == IF call[c].at = "store" THEN call[c].todo ELSE <<>>

\* A hash no committed transaction and no transaction about to be stored has.
Used ==
    {log[i].id : i \in DOMAIN log}
        \cup UNION {{Pending(c)[k].id : k \in DOMAIN Pending(c)} : c \in Client}

\* Which one does not matter: the least, so that there is one choice.
Fresh(used) == {h \in HashId \ used : \A g \in HashId \ used : h <= g}

\* The hashes that client c may still need for the transactions of its call.
Reserved(c) ==
    CASE call[c].at = "store" -> Len(call[c].todo)
      [] call[c].at = "select" -> 1
      [] OTHER -> 0

\* The bound on the model: a call that stores up to n transactions starts only
\* when the hashes are certain to last for it and for the calls in flight.
Room(n) ==
    Len(log) + MapThenSumSet(Reserved, Client) + n <= Cardinality(HashId)

Return(c, outcome) ==
    call' = [call EXCEPT ![c] = [at |-> "idle", outcome |-> outcome]]

\* Transaction::new for each, then on to storing them; the first one that
\* cannot be built ends the call before anything is stored.
Offer(c, txs) ==
    LET refused == {k \in DOMAIN txs : NewVerdict(txs[k].from, txs[k].to) # "Ok"}
        first == CHOOSE k \in refused : \A j \in refused : k <= j
    IN  IF refused = {}
        THEN call' = [call EXCEPT ![c] = [at |-> "store", todo |-> txs]]
        ELSE Return(c, NewVerdict(txs[first].from, txs[first].to))

-----------------------------------------------------------------------------
(* The operations.                                                          *)

Init ==
    /\ log = <<>>
    /\ call = [c \in Client |-> [at |-> "idle", outcome |-> "None"]]

Deposit(c, a, r, m) ==
    /\ IsIdle(c) /\ Room(1)
    /\ \E h \in Fresh(Used) : Offer(c, <<Tx(h, <<>>, <<To(MainOf(a), m)>>, r)>>)
    /\ UNCHANGED log

\* The outputs of a move out of source: the amount, and the change if there is any.
Split(moved, source, total) ==
    IF total = moved.amount THEN <<moved>>
    ELSE <<moved, To(source, total - moved.amount)>>

\* The transaction that makes an output of exactly the amount to withdraw.
Exchange(h, inputs, a, r, m) ==
    Tx(h, inputs, Split(To(MainOf(a), m), MainOf(a), Total(inputs)),
       Tagged("Exchange for", r))

\* Mutant of Kept: the change of the exchange, not the amount.
KeptChange(exchange) == [id |-> <<exchange.id, 1>>, amount |-> exchange.to[1].amount]

\* The output of an exchange that the withdrawal after it spends.
Kept(exchange) == [id |-> <<exchange.id, 0>>, amount |-> exchange.to[1].amount]

\* get_unspent and the construction of one or two transactions from it.
Withdraw(c, a, r, m) ==
    /\ IsIdle(c)
    /\ \E inputs \in GetUnspent(log, MainOf(a), Some(m)) :
         \/ /\ Total(inputs) < m
            /\ Return(c, "NotEnough")
         \/ /\ Total(inputs) = m /\ Room(1)
            /\ \E h \in Fresh(Used) : Offer(c, <<Tx(h, inputs, <<>>, r)>>)
         \/ /\ Total(inputs) > m /\ Room(2)
            /\ \E h \in Fresh(Used) : \E g \in Fresh(Used \cup {h}) :
                 LET exchange == Exchange(h, inputs, a, r, m)
                 IN  Offer(c, <<exchange, Tx(g, <<Kept(exchange)>>, <<>>, r)>>)
    /\ UNCHANGED log

\* dispute up to its first await: the lookup of the deposit by reference.
Dispute(c, a, r) ==
    /\ IsIdle(c)
    /\ \/ /\ Found(log, MainOf(a), r) = {}
          /\ Return(c, "NotFound")
       \/ \E i \in Found(log, MainOf(a), r) :
             \/ /\ log[i].from # <<>> \/ Len(log[i].to) # 1
                /\ Return(c, "WrongType")
             \/ /\ log[i].from = <<>> /\ Len(log[i].to) = 1 /\ Room(1)
                /\ call' = [call EXCEPT ![c] =
                      [at |-> "select", op |-> "dispute", account |-> a,
                       reference |-> r, amount |-> log[i].to[1].amount]]
    /\ UNCHANGED log

\* Mutant of Credited: every output counts, the change of the dispute too.
CreditedInAll(tx, account) == Total(tx.to)

\* The part of transaction tx that went to account.
Credited(tx, account) ==
    SumSeq([k \in DOMAIN tx.to |->
               IF tx.to[k].account = account THEN tx.to[k].amount ELSE 0])

\* resolve and chargeback up to their first await: the lookup of the dispute.
Settle(c, op, a, r) ==
    LET disputes == Found(log, DisputedOf(a), Tagged("dispute", r))
    IN  /\ IsIdle(c)
        /\ \/ /\ disputes = {}
              /\ Return(c, "NotFound")
           \/ \E i \in disputes :
              /\ Room(1)
              /\ call' = [call EXCEPT ![c] =
                    [at |-> "select", op |-> op, account |-> a, reference |-> r,
                     amount |-> Credited(log[i], DisputedOf(a))]]
        /\ UNCHANGED log

Resolve(c, a, r) == Settle(c, "resolve", a, r)

Chargeback(c, a, r) == Settle(c, "chargeback", a, r)

\* The rest of dispute, resolve and chargeback: get_unspent and the move.
Select(c) ==
    /\ call[c].at = "select"
    /\ LET now == call[c]
           move == Moves[now.op]
           source == <<now.account, move.source>>
           moved == To(<<now.account, move.dest>>, now.amount)
       IN  \E inputs \in GetUnspent(log, source, Some(now.amount)) :
              \/ /\ Total(inputs) < now.amount
                 /\ Return(c, move.missing)
              \/ /\ Total(inputs) >= now.amount
                 /\ \E h \in Fresh(Used) :
                      Offer(c, <<Tx(h, inputs, Split(moved, source, Total(inputs)),
                                    Tagged(move.tag, now.reference))>>)
    /\ UNCHANGED log

\* Mutant of Store: a refusal does not end the call.
StoreRegardless(c) ==
    /\ call[c].at = "store"
    /\ LET tx == Head(call[c].todo)
           rest == Tail(call[c].todo)
       IN  /\ log' = IF Verdict(log, tx) = "Ok" THEN Append(log, tx) ELSE log
           /\ IF rest = <<>> THEN Return(c, Verdict(log, tx))
              ELSE call' = [call EXCEPT ![c].todo = rest]

\* Mutant of Store: a refused transaction is tried again.
StoreRetries(c) ==
    /\ call[c].at = "store"
    /\ LET tx == Head(call[c].todo)
           rest == Tail(call[c].todo)
       IN  IF Verdict(log, tx) = "Ok"
           THEN /\ log' = Append(log, tx)
                /\ IF rest = <<>> THEN Return(c, "Ok")
                   ELSE call' = [call EXCEPT ![c].todo = rest]
           ELSE UNCHANGED vars

\* store_tx of the next transaction of a call; the first refusal ends the call.
Store(c) ==
    /\ call[c].at = "store"
    /\ LET tx == Head(call[c].todo)
           rest == Tail(call[c].todo)
       IN  IF Verdict(log, tx) = "Ok"
           THEN /\ log' = Append(log, tx)
                /\ IF rest = <<>> THEN Return(c, "Ok")
                   ELSE call' = [call EXCEPT ![c].todo = rest]
           ELSE /\ Return(c, Verdict(log, tx))
                /\ UNCHANGED log

\* The caller drops the future of its call at an await, by a timeout or because
\* its task is cancelled: what was stored stays, the rest is never done.
Drop(c) ==
    /\ ~IsIdle(c)
    /\ Return(c, "Dropped")
    /\ UNCHANGED log

-----------------------------------------------------------------------------

\* A client that dropped a call makes no other; another client may retry it.
Gone(c) == call[c] = [at |-> "idle", outcome |-> "Dropped"]

Start(c) ==
    /\ ~Gone(c)
    /\ \E a \in Id, r \in UserRef :
          \/ \E m \in Amount : Deposit(c, a, r, m) \/ Withdraw(c, a, r, m)
          \/ Dispute(c, a, r)
          \/ Resolve(c, a, r)
          \/ Chargeback(c, a, r)

Continue(c) == Select(c) \/ Store(c)

\* No client has to call: the ledger may rest, but only between calls.
Rest == InFlight = {} /\ UNCHANGED vars

Next == (\E c \in Client : Start(c) \/ Continue(c) \/ Drop(c)) \/ Rest

Spec == Init /\ [][Next]_vars

\* The executor polls every call it has taken to its end; nothing makes a
\* client start another call.
FairSpec == Spec /\ \A c \in Client : WF_vars(Continue(c))
=============================================================================
