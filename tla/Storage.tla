------------------------------ MODULE Storage ------------------------------
(***************************************************************************)
(* What the Storage trait promises, for any backend: every call is one     *)
(* step on the log of committed transactions.  A transaction is either     *)
(* appended whole or refused with the log unchanged, and reads answer from *)
(* the log.                                                                *)
(***************************************************************************)
EXTENDS TxLog

CONSTANTS
    Txs,        \* transactions that callers try to store
    Targets     \* target amounts, as Options, that callers ask get_unspent for

VARIABLES
    log,        \* the committed transactions, oldest first
    reply       \* the last call and its answer

vars == <<log, reply>>

Init == log = <<>> /\ reply = [to |-> "none"]

StoreTx(tx) ==
    /\ reply' = [to |-> "store_tx", tx |-> tx.id, verdict |-> Verdict(log, tx)]
    /\ log' = IF Verdict(log, tx) = "Ok" THEN Append(log, tx) ELSE log

ReadUnspent(account, target) ==
    /\ \E coins \in GetUnspent(log, account, target) :
          reply' = [to |-> "get_unspent", account |-> account, target |-> target,
                    verdict |-> "Ok", coins |-> coins]
    /\ UNCHANGED log

GetTxByReference(account, reference) ==
    /\ reply' = [to |-> "get_tx_by_reference", key |-> <<account, reference>>, verdict |-> "Ok",
                 tx |-> {log[i] : i \in Found(log, account, reference)}]
    /\ UNCHANGED log

Next ==
    \/ \E tx \in Txs : StoreTx(tx)
    \/ \E account \in FullAccount :
          \/ \E target \in Targets : ReadUnspent(account, target)
          \/ \E tx \in Txs : GetTxByReference(account, tx.reference)

Spec == Init /\ [][Next]_vars
=============================================================================
