------------------------------- MODULE TxLog -------------------------------
(***************************************************************************)
(* What the transactions committed so far say.  A log is the sequence of   *)
(* committed transactions, oldest first; the unspent outputs, the balances *)
(* and the answers of the storage layer are all functions of it.           *)
(*                                                                         *)
(* An output is named by its place <<i, k>>: the k-th output of the i-th   *)
(* transaction of the log.                                                 *)
(***************************************************************************)
EXTENDS Transactions

\* In which order get_unspent visits the outputs of an account: the in-memory
\* store pushes them to the front of a queue, the SQLite store sorts by rowid.
CONSTANT NewestFirst

ASSUME NewestFirstIsBoolean == NewestFirst \in BOOLEAN

-----------------------------------------------------------------------------
(* Outputs and what spends them.                                            *)

Places(log) == UNION {{i} \X DOMAIN log[i].to : i \in DOMAIN log}

OutputAt(log, p) == log[p[1]].to[p[2]]

UtxoAt(log, p) ==
    [id |-> <<log[p[1]].id, p[2] - 1>>, amount |-> OutputAt(log, p).amount]

Created(log) == {UtxoAt(log, p).id : p \in Places(log)}

Spent(log) ==
    UNION {{log[i].from[k].id : k \in DOMAIN log[i].from} : i \in DOMAIN log}

\* Mutant of UnspentPlaces: spent outputs are not skipped.
UnspentPlacesWithSpent(log, account) ==
    {p \in Places(log) : OutputAt(log, p).account = account}

\* Mutant of UnspentPlaces: only the sub-account is compared, not the owner.
UnspentPlacesOfAnyone(log, account) ==
    {p \in Places(log) : /\ OutputAt(log, p).account[2] = account[2]
                         /\ UtxoAt(log, p).id \notin Spent(log)}

UnspentPlaces(log, account) ==
    {p \in Places(log) : /\ OutputAt(log, p).account = account
                         /\ UtxoAt(log, p).id \notin Spent(log)}

SumAt(log, places) ==
    MapThenSumSet(LAMBDA p : OutputAt(log, p).amount, places)

Balance(log, account) == SumAt(log, UnspentPlaces(log, account))

-----------------------------------------------------------------------------
(* get_unspent.                                                             *)

Newer(p, q) == p[1] > q[1] \/ (p[1] = q[1] /\ p[2] > q[2])

Before(p, q) == IF NewestFirst THEN Newer(p, q) ELSE Newer(q, p)

\* The sets of outputs that a scan in the order of Before may have taken.
Scans(places) ==
    {taken \in SUBSET places : \A p \in taken, q \in places \ taken : Before(p, q)}

\* Mutant of Enough: the comparison with the target is off by one.
EnoughLessOne(log, taken, target) ==
    \E amount \in target : taken # {} /\ SumAt(log, taken) >= amount - 1

\* A scan goes on until it has the target, or to the end when there is none.
Enough(log, taken, target) ==
    \E amount \in target : taken # {} /\ SumAt(log, taken) >= amount

\* The outputs get_unspent takes: the smallest scan that has the target, or all.
Taken(log, account, target) ==
    LET all == UnspentPlaces(log, account)
        stops == {taken \in Scans(all) : taken = all \/ Enough(log, taken, target)}
    IN  {taken \in stops : \A other \in stops : taken \subseteq other}

\* The answers of get_unspent, as sequences of Utxo (there is exactly one).
GetUnspent(log, account, target) ==
    UNION {{[n \in DOMAIN order |-> UtxoAt(log, order[n])] :
              order \in {o \in SetToSeqs(taken) :
                           \A m, n \in DOMAIN o : m < n => Before(o[m], o[n])}} :
           taken \in Taken(log, account, target)}

-----------------------------------------------------------------------------
(* get_tx_by_reference and store_tx.                                        *)

\* The transactions that credit account under reference, by their index.
Found(log, account, reference) ==
    {i \in DOMAIN log : /\ log[i].reference = reference
                        /\ \E k \in DOMAIN log[i].to : log[i].to[k].account = account}

\* Mutant of IsDuplicate: references are not looked at.
IsDuplicateById(log, tx) == \E i \in DOMAIN log : log[i].id = tx.id

IsDuplicate(log, tx) ==
    \/ \E i \in DOMAIN log : log[i].id = tx.id
    \/ \E k \in DOMAIN tx.to : Found(log, tx.to[k].account, tx.reference) # {}

\* Mutant of InputVerdict: an output may be spent again.
InputVerdictSpentAgain(log, input) ==
    CASE input.id \notin Created(log) -> "MissingUtxo"
      [] input.id \in Created(log) ->
            IF \E p \in Places(log) : UtxoAt(log, p) = input THEN "Ok" ELSE "MismatchAmount"

InputVerdict(log, input) ==
    CASE input.id \notin Created(log) -> "MissingUtxo"
      [] input.id \in Created(log) /\ input.id \in Spent(log) -> "SpentUtxo"
      [] input.id \in Created(log) \ Spent(log) ->
            IF \E p \in Places(log) : UtxoAt(log, p) = input THEN "Ok" ELSE "MismatchAmount"

\* What store_tx answers: the first check that fails, in the order of the code.
Verdict(log, tx) ==
    LET refused == {k \in DOMAIN tx.from : InputVerdict(log, tx.from[k]) # "Ok"}
        first == CHOOSE k \in refused : \A j \in refused : k <= j
    IN  IF IsDuplicate(log, tx) THEN "Duplicate"
        ELSE IF refused = {} THEN "Ok" ELSE InputVerdict(log, tx.from[first])
=============================================================================
