--------------------------- MODULE MemoryStorage ---------------------------
(***************************************************************************)
(* The in-memory backend: a table of outputs, a table of transactions and  *)
(* three indexes, behind one read-write lock that a call holds from its    *)
(* first to its last access, so that a call is one step.                   *)
(*                                                                         *)
(* A map is a function on the keys it has.  An account that is not a key   *)
(* of utxo_by_account has an empty queue: get_unspent answers the same.    *)
(* Hash maps, the queue and the ordered map keep their order of insertion  *)
(* or of keys only where the code uses it.                                 *)
(***************************************************************************)
EXTENDS TxLog

CONSTANTS
    Txs,        \* transactions that callers try to store
    Targets     \* target amounts, as Options, that callers ask get_unspent for

ASSUME TxsAreTransactions == Txs \subseteq Transaction

VARIABLES
    utxo,               \* output id -> its amount and the transaction that spent it
    utxo_by_account,    \* account -> ids of its outputs, newest first
    txs_by_account,     \* account -> hashes of transactions that credit it, newest first
    txs_by_reference,   \* <<account, reference>> -> hash
    txs,                \* hash -> transaction
    reply,              \* the last call and its answer
    log                 \* auxiliary: the transactions in the order they were stored

data == <<utxo, utxo_by_account, txs_by_account, txs_by_reference, txs>>

vars == <<data, reply, log>>

Init ==
    /\ utxo = <<>>
    /\ utxo_by_account = [account \in FullAccount |-> <<>>]
    /\ txs_by_account = <<>>
    /\ txs_by_reference = <<>>
    /\ txs = <<>>
    /\ reply = [to |-> "none"]
    /\ log = <<>>

-----------------------------------------------------------------------------
(* store_tx.                                                                *)

Accounts(tx) == {tx.to[k].account : k \in DOMAIN tx.to}

\* Mutant of Keys: only the account of the first output.
KeysOfFirst(tx) == {<<tx.to[k].account, tx.reference>> : k \in {1} \cap DOMAIN tx.to}

Keys(tx) == {<<account, tx.reference>> : account \in Accounts(tx)}

Inputs(tx) == {tx.from[k].id : k \in DOMAIN tx.from}

\* Mutant of NewFor: positions count from one.
NewForFromOne(tx, account) ==
    LET queue[n \in 0..Len(tx.to)] ==
            IF n = 0 THEN <<>>
            ELSE IF tx.to[n].account = account THEN <<<<tx.id, n>>>> \o queue[n - 1] ELSE queue[n - 1]
    IN  queue[Len(tx.to)]

\* Mutant of NewFor: the outputs of one transaction enter in their own order.
NewForInOrder(tx, account) ==
    LET queue[n \in 0..Len(tx.to)] ==
            IF n = 0 THEN <<>>
            ELSE IF tx.to[n].account = account THEN Append(queue[n - 1], <<tx.id, n - 1>>) ELSE queue[n - 1]
    IN  queue[Len(tx.to)]

\* The ids of the outputs of tx that account receives, each pushed to the front.
NewFor(tx, account) ==
    LET queue[n \in 0..Len(tx.to)] ==
            IF n = 0 THEN <<>>
            ELSE IF tx.to[n].account = account THEN <<<<tx.id, n - 1>>>> \o queue[n - 1] ELSE queue[n - 1]
    IN  queue[Len(tx.to)]

\* Mutant of Check: an output may be spent again.
CheckSpentAgain(input) ==
    CASE input.id \notin DOMAIN utxo -> "MissingUtxo"
      [] input.id \in DOMAIN utxo ->
            IF utxo[input.id].amount = input.amount THEN "Ok" ELSE "MismatchAmount"

Check(input) ==
    CASE input.id \notin DOMAIN utxo -> "MissingUtxo"
      [] input.id \in DOMAIN utxo /\ utxo[input.id].spent_at # None -> "SpentUtxo"
      [] input.id \in DOMAIN utxo /\ utxo[input.id].spent_at = None ->
            IF utxo[input.id].amount = input.amount THEN "Ok" ELSE "MismatchAmount"

\* The checks of store_tx, which all come before it writes anything.
Checks(tx) ==
    LET refused == {k \in DOMAIN tx.from : Check(tx.from[k]) # "Ok"}
        first == CHOOSE k \in refused : \A j \in refused : k <= j
    IN  IF tx.id \in DOMAIN txs \/ Keys(tx) \cap DOMAIN txs_by_reference # {}
        THEN "Duplicate"
        ELSE IF refused = {} THEN "Ok" ELSE Check(tx.from[first])

\* Mutant of UtxoAfter: the inputs are not marked as spent.
UtxoAfterUnmarked(tx) ==
    LET new == {<<tx.id, k - 1>> : k \in DOMAIN tx.to}
    IN  [id \in DOMAIN utxo \cup new |->
            IF id \in new THEN [amount |-> tx.to[id[2] + 1].amount, spent_at |-> None]
            ELSE utxo[id]]

\* The table of outputs once tx is stored: its inputs spent, its outputs new.
UtxoAfter(tx) ==
    LET new == {<<tx.id, k - 1>> : k \in DOMAIN tx.to}
    IN  [id \in DOMAIN utxo \cup new |->
            IF id \in new THEN [amount |-> tx.to[id[2] + 1].amount, spent_at |-> None]
            ELSE IF id \in Inputs(tx) THEN [utxo[id] EXCEPT !.spent_at = Some(tx.id)]
            ELSE utxo[id]]

Persist(tx) ==
    /\ txs' = [h \in DOMAIN txs \cup {tx.id} |-> IF h = tx.id THEN tx ELSE txs[h]]
    /\ utxo' = UtxoAfter(tx)
    /\ utxo_by_account' =
          [account \in FullAccount |-> NewFor(tx, account) \o utxo_by_account[account]]
    /\ txs_by_account' =
          [account \in DOMAIN txs_by_account \cup Accounts(tx) |->
              [n \in 1..Len(NewFor(tx, account)) |-> tx.id]
                 \o (IF account \in DOMAIN txs_by_account THEN txs_by_account[account] ELSE <<>>)]
    /\ txs_by_reference' =
          [key \in DOMAIN txs_by_reference \cup Keys(tx) |->
              IF key \in Keys(tx) THEN tx.id ELSE txs_by_reference[key]]
    /\ log' = Append(log, tx)

StoreTx(tx) ==
    /\ reply' = [to |-> "store_tx", tx |-> tx.id, verdict |-> Checks(tx)]
    /\ IF Checks(tx) = "Ok" THEN Persist(tx) ELSE UNCHANGED <<data, log>>

-----------------------------------------------------------------------------
(* The reads.                                                               *)

\* Mutant of Visit: the scan goes on when it has exactly the target.
VisitOneMore(scan, id, target) ==
    CASE scan.done -> scan
      [] ~scan.done /\ id \notin DOMAIN utxo ->
            [scan EXCEPT !.verdict = "MissingUtxo", !.done = TRUE]
      [] ~scan.done /\ id \in DOMAIN utxo /\ utxo[id].spent_at # None -> scan
      [] OTHER ->
            LET total == scan.total + utxo[id].amount
            IN  [verdict |-> "Ok",
                 coins |-> Append(scan.coins, [id |-> id, amount |-> utxo[id].amount]),
                 total |-> total,
                 done |-> \E amount \in target : amount < total]

\* One turn of the loop of get_unspent; scan is what the turns before gave.
Visit(scan, id, target) ==
    CASE scan.done -> scan
      [] ~scan.done /\ id \notin DOMAIN utxo ->
            [scan EXCEPT !.verdict = "MissingUtxo", !.done = TRUE]
      [] ~scan.done /\ id \in DOMAIN utxo /\ utxo[id].spent_at # None -> scan
      [] OTHER ->
            LET total == scan.total + utxo[id].amount
            IN  [verdict |-> "Ok",
                 coins |-> Append(scan.coins, [id |-> id, amount |-> utxo[id].amount]),
                 total |-> total,
                 done |-> \E amount \in target : amount <= total]

\* What the loop has at the end of the queue of the account.
Scan(account, target) ==
    LET queue == utxo_by_account[account]
        scan[n \in 0..Len(queue)] ==
            IF n = 0 THEN [verdict |-> "Ok", coins |-> <<>>, total |-> 0, done |-> FALSE]
            ELSE Visit(scan[n - 1], queue[n], target)
    IN  scan[Len(queue)]

ReadUnspent(account, target) ==
    /\ LET scan == Scan(account, target)
       IN  reply' = [to |-> "get_unspent", account |-> account, target |-> target,
                     verdict |-> scan.verdict,
                     coins |-> IF scan.verdict = "Ok" THEN scan.coins ELSE <<>>]
    /\ UNCHANGED <<data, log>>

GetTxByReference(account, reference) ==
    /\ LET key == <<account, reference>>
           hit == {txs_by_reference[key] : k \in {key} \cap DOMAIN txs_by_reference}
       IN  reply' = [to |-> "get_tx_by_reference", key |-> key,
                     verdict |-> IF hit \subseteq DOMAIN txs THEN "Ok" ELSE "Internal",
                     tx |-> {txs[h] : h \in hit \cap DOMAIN txs}]
    /\ UNCHANGED <<data, log>>

Next ==
    \/ \E tx \in Txs : StoreTx(tx)
    \/ \E account \in FullAccount :
          \/ \E target \in Targets : ReadUnspent(account, target)
          \/ \E tx \in Txs : GetTxByReference(account, tx.reference)

Spec == Init /\ [][Next]_vars

-----------------------------------------------------------------------------
(* Properties.                                                              *)

Partial(S, T) == UNION {[D -> T] : D \in SUBSET S}

Entry == [amount : Int, spent_at : SUBSET HashId]

TypeOK ==
    /\ DOMAIN utxo \subseteq UtxoId
    /\ \A id \in DOMAIN utxo : utxo[id] \in Entry
    /\ utxo_by_account \in [FullAccount -> Seq(DOMAIN utxo)]
    /\ DOMAIN txs \subseteq HashId
    /\ \A h \in DOMAIN txs : txs[h] \in Txs /\ txs[h].id = h
    /\ DOMAIN txs_by_account \subseteq FullAccount
    /\ \A account \in DOMAIN txs_by_account : txs_by_account[account] \in Seq(DOMAIN txs)
    /\ \A key \in DOMAIN txs_by_reference :
          key[1] \in FullAccount /\ txs_by_reference[key] \in DOMAIN txs
    /\ log \in Seq(Txs)

\* The tables say what the stored transactions say: an output is there once its
\* transaction is stored, and is marked with the one transaction that spends it.
TablesAgree ==
    /\ DOMAIN txs = {log[i].id : i \in DOMAIN log}
    /\ \A i \in DOMAIN log : txs[log[i].id] = log[i]
    /\ DOMAIN utxo = Created(log)
    /\ \A p \in Places(log) : utxo[UtxoAt(log, p).id].amount = UtxoAt(log, p).amount
    /\ \A id \in DOMAIN utxo :
          utxo[id].spent_at = {log[i].id : i \in {j \in DOMAIN log : id \in Inputs(log[j])}}

\* An account and a reference lead to the one transaction that credits the
\* account under the reference, and to none when there is none.
ReferencesAgree ==
    LET key == [p \in Places(log) |-> <<OutputAt(log, p).account, log[p[1]].reference>>]
    IN  /\ DOMAIN txs_by_reference = {key[p] : p \in Places(log)}
        /\ \A p \in Places(log) : txs_by_reference[key[p]] = log[p[1]].id

\* The queue of an account holds each of its outputs once, spent ones too, the
\* newest at the front; and the index behind get_accounts has the accounts that
\* have outputs, each with the transactions of these outputs in their order.
QueuesAgree ==
    /\ \A account \in FullAccount :
          LET queue == utxo_by_account[account]
              place == [p \in {q \in Places(log) : OutputAt(log, q).account = account} |->
                          UtxoAt(log, p).id]
          IN  /\ ToSet(queue) = {place[p] : p \in DOMAIN place}
              /\ \A p, q \in DOMAIN place : Newer(p, q) =>
                    \E m, n \in DOMAIN queue : m < n /\ queue[m] = place[p] /\ queue[n] = place[q]
              /\ Len(queue) = Cardinality(DOMAIN place)
    /\ DOMAIN txs_by_account = {account \in FullAccount : utxo_by_account[account] # <<>>}
    /\ \A account \in DOMAIN txs_by_account :
          LET queue == utxo_by_account[account]
          IN  txs_by_account[account] = [n \in DOMAIN queue |-> queue[n][1]]

\* An output that was spent stays spent, by the same transaction.
SpentForever ==
    [][\A id \in DOMAIN utxo : utxo[id].spent_at # None =>
          id \in DOMAIN utxo' /\ utxo'[id].spent_at = utxo[id].spent_at]_vars

Contract == INSTANCE Storage

\* The backend answers and commits as the Storage contract says.
ImplementsStorage == Contract!Spec
=============================================================================
