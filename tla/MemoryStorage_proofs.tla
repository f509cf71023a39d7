------------------------ MODULE MemoryStorage_proofs ------------------------
(***************************************************************************)
(* Proofs about the in-memory backend, for any transactions: its tables,   *)
(* indexes and queues say what the log of stored transactions says, a      *)
(* spent output stays spent, and every call answers as the Storage         *)
(* contract does.                                                          *)
(*                                                                         *)
(* The loops of store_tx and get_unspent are recursive functions.  That a  *)
(* loop has a value at every turn (Iterates) and what it holds there       *)
(* (UpTo, over a set of turns) follow from naturals being well founded.    *)
(***************************************************************************)
EXTENDS MemoryStorage, TxLog_proofs, FunctionTheorems

-----------------------------------------------------------------------------
(* The invariant.                                                           *)

WellTyped ==
    /\ log \in Seq(Txs)
    /\ \A id \in DOMAIN utxo : utxo[id] \in Entry

\* No transaction was stored that spends an output of a later one.
InputsExist == \A i \in DOMAIN log : Inputs(log[i]) \subseteq DOMAIN utxo

\* The references of the tables are those of the stored transactions, key by key.
KeysAgree ==
    /\ DOMAIN txs_by_reference = UNION {Keys(log[i]) : i \in DOMAIN log}
    /\ \A i \in DOMAIN log : \A key \in Keys(log[i]) : txs_by_reference[key] = log[i].id

IInv ==
    /\ WellTyped
    /\ UniqueIds(log)
    /\ TablesAgree
    /\ InputsExist
    /\ KeysAgree

\* The log is a sequence of transactions.
LEMMA LogType ==
    ASSUME IInv
    PROVE  log \in Seq(Transaction) /\ DOMAIN log = 1..Len(log) /\ Len(log) \in Nat
  BY TxsAreTransactions DEF IInv, WellTyped

\* The empty tables agree with the empty log.
LEMMA InitIInv == Init => IInv
  <1>. SUFFICES ASSUME Init PROVE IInv
    OBVIOUS
  <1>1. log = <<>> /\ DOMAIN log = {} /\ DOMAIN utxo = {} /\ DOMAIN txs = {}
        /\ DOMAIN txs_by_reference = {}
    BY DEF Init
  <1>2. Places(log) = {} /\ Created(log) = {}
    BY <1>1 DEF Places, Created
  <1>3. WellTyped
    BY <1>1 DEF WellTyped
  <1>4. TablesAgree
    BY <1>1, <1>2 DEF TablesAgree
  <1>. QED
    BY <1>1, <1>3, <1>4 DEF IInv, UniqueIds, InputsExist, KeysAgree

-----------------------------------------------------------------------------
(* The checks of store_tx.                                                  *)

\* An output of the log is in the table, at its amount.
LEMMA InTable ==
    ASSUME IInv, NEW p \in Places(log)
    PROVE  /\ UtxoAt(log, p).id \in DOMAIN utxo
           /\ utxo[UtxoAt(log, p).id].amount = UtxoAt(log, p).amount
  BY DEF IInv, TablesAgree, Created

\* An output is marked in the table when a transaction of the log spends it.
LEMMA MarkedIsSpent ==
    ASSUME IInv, NEW id \in DOMAIN utxo
    PROVE  utxo[id].spent_at # None <=> id \in Spent(log)
  BY DEF IInv, TablesAgree, Spent, Inputs, None

\* The check of an input answers from the tables what the log says.
LEMMA CheckIsVerdict ==
    ASSUME IInv, NEW input \in Utxo
    PROVE  Check(input) = InputVerdict(log, input)
  <1>1. DOMAIN utxo = Created(log)
    BY DEF IInv, TablesAgree
  <1>2. ASSUME input.id \in DOMAIN utxo
        PROVE  utxo[input.id].amount = input.amount
                  <=> \E p \in Places(log) : UtxoAt(log, p) = input
    <2>1. PICK q \in Places(log) : input.id = UtxoAt(log, q).id
      BY <1>1, <1>2 DEF Created
    <2>2. UtxoAt(log, q) = input <=> utxo[input.id].amount = input.amount
      <3>1. utxo[input.id].amount = UtxoAt(log, q).amount
        BY <2>1, InTable
      <3>2. UtxoAt(log, q) \in Utxo
        BY LogType, PlaceType
      <3>. QED
        BY <2>1, <3>1, <3>2 DEF Utxo
    <2>3. ASSUME NEW p \in Places(log), UtxoAt(log, p) = input
          PROVE  utxo[input.id].amount = input.amount
      BY <2>3, InTable
    <2>. QED
      BY <2>2, <2>3
  <1>3. CASE input.id \notin DOMAIN utxo
    BY <1>1, <1>3 DEF Check, InputVerdict
  <1>4. CASE input.id \in DOMAIN utxo /\ utxo[input.id].spent_at # None
    BY <1>1, <1>4, MarkedIsSpent DEF Check, InputVerdict
  <1>5. CASE input.id \in DOMAIN utxo /\ utxo[input.id].spent_at = None
    BY <1>1, <1>2, <1>5, MarkedIsSpent DEF Check, InputVerdict
  <1>. QED
    BY <1>3, <1>4, <1>5

\* The index of references finds what the log has.
LEMMA LookupIsFound ==
    ASSUME IInv, NEW account, NEW reference
    PROVE  /\ <<account, reference>> \in DOMAIN txs_by_reference
                 <=> Found(log, account, reference) # {}
           /\ \A i \in Found(log, account, reference) :
                 txs_by_reference[<<account, reference>>] = log[i].id
  <1>1. ASSUME <<account, reference>> \in DOMAIN txs_by_reference
        PROVE  Found(log, account, reference) # {}
    <2>1. PICK i \in DOMAIN log : <<account, reference>> \in Keys(log[i])
      BY <1>1 DEF IInv, KeysAgree
    <2>2. reference = log[i].reference /\ account \in Accounts(log[i])
      BY <2>1 DEF Keys
    <2>. QED
      BY <2>2 DEF Found, Accounts
  <1>2. ASSUME NEW i \in Found(log, account, reference)
        PROVE  /\ <<account, reference>> \in DOMAIN txs_by_reference
               /\ txs_by_reference[<<account, reference>>] = log[i].id
    BY <1>2 DEF Found, IInv, KeysAgree, Keys, Accounts
  <1>. QED
    BY <1>1, <1>2

\* store_tx decides from the tables what the contract decides from the log.
LEMMA ChecksAreVerdict ==
    ASSUME IInv, NEW tx \in Txs
    PROVE  Checks(tx) = Verdict(log, tx)
  <1>0. tx \in Transaction /\ tx.from \in Seq(Utxo)
    BY TxsAreTransactions DEF Transaction
  <1>1. tx.id \in DOMAIN txs <=> \E i \in DOMAIN log : log[i].id = tx.id
    BY DEF IInv, TablesAgree
  <1>2. Keys(tx) \cap DOMAIN txs_by_reference # {}
           <=> \E k \in DOMAIN tx.to : Found(log, tx.to[k].account, tx.reference) # {}
    <2>1. Keys(tx) = {<<tx.to[k].account, tx.reference>> : k \in DOMAIN tx.to}
      BY DEF Keys, Accounts
    <2>2. \A k \in DOMAIN tx.to :
             <<tx.to[k].account, tx.reference>> \in DOMAIN txs_by_reference
                <=> Found(log, tx.to[k].account, tx.reference) # {}
      BY LookupIsFound
    <2>. QED
      BY <2>1, <2>2
  <1>3. \A k \in DOMAIN tx.from : Check(tx.from[k]) = InputVerdict(log, tx.from[k])
    BY <1>0, CheckIsVerdict
  <1>4. {k \in DOMAIN tx.from : Check(tx.from[k]) # "Ok"}
           = {k \in DOMAIN tx.from : InputVerdict(log, tx.from[k]) # "Ok"}
    BY <1>3
  <1>. DEFINE refused == {k \in DOMAIN tx.from : InputVerdict(log, tx.from[k]) # "Ok"}
              first == CHOOSE k \in refused : \A j \in refused : k <= j
  <1>5. refused # {} => first \in refused
    <2>1. refused \in SUBSET Nat
      BY <1>0
    <2>2. refused # {} => \E k \in refused : \A j \in refused : k <= j
      BY <2>1, Least
    <2>. QED
      BY <2>2
  <1>6. refused # {} => Check(tx.from[first]) = InputVerdict(log, tx.from[first])
    BY <1>3, <1>5
  <1>. QED
    BY <1>1, <1>2, <1>4, <1>6 DEF Checks, Verdict, IsDuplicate

-----------------------------------------------------------------------------
(* A transaction is stored.                                                 *)

NewIds(tx) == {<<tx.id, k - 1>> : k \in DOMAIN tx.to}

\* The outputs of a log that grows are those it had and those of its last
\* transaction.
LEMMA CreatedAppend ==
    ASSUME NEW lg \in Seq(Transaction), NEW tx \in Transaction
    PROVE  Created(Append(lg, tx)) = Created(lg) \cup NewIds(tx)
  <1>. DEFINE new == Append(lg, tx)
  <1>1. ASSUME NEW p \in Places(lg)
        PROVE  UtxoAt(lg, p).id \in Created(new)
    BY AppendKeepsPlaces DEF Created
  <1>2. ASSUME NEW k \in DOMAIN tx.to
        PROVE  <<tx.id, k - 1>> \in Created(new)
    <2>1. /\ <<Len(lg) + 1, k>> \in Places(new)
          /\ UtxoAt(new, <<Len(lg) + 1, k>>) = [id |-> <<tx.id, k - 1>>, amount |-> tx.to[k].amount]
      BY AppendAddsPlaces
    <2>2. UtxoAt(new, <<Len(lg) + 1, k>>).id = <<tx.id, k - 1>>
      BY <2>1
    <2>. QED
      BY <2>1, <2>2 DEF Created
  <1>3. ASSUME NEW p \in Places(new)
        PROVE  UtxoAt(new, p).id \in Created(lg) \cup NewIds(tx)
    <2>1. CASE p \in Places(lg)
      BY <2>1, AppendKeepsPlaces DEF Created
    <2>2. CASE p[1] = Len(lg) + 1
      <3>1. PICK i \in DOMAIN new : \E k \in DOMAIN new[i].to : p = <<i, k>>
        <4>. HIDE DEF new
        <4>. QED
          BY InPlaces
      <3>2. i = Len(lg) + 1 /\ new[i] = tx
        BY <2>2, <3>1, AppendTx
      <3>3. PICK k \in DOMAIN tx.to : p = <<i, k>>
        BY <3>1, <3>2
      <3>4. UtxoAt(new, p).id = <<tx.id, k - 1>>
        BY <3>2, <3>3 DEF UtxoAt
      <3>. QED
        BY <3>4 DEF NewIds
    <2>. QED
      BY <2>1, <2>2, AppendAddsPlaces
  <1>. HIDE DEF new
  <1>4. Created(new) = Created(lg) \cup NewIds(tx)
    BY <1>1, <1>2, <1>3 DEF Created, NewIds
  <1>. QED
    BY <1>4 DEF new

\* What the facts below share: the log with the new transaction, which the
\* checks let in.
LEMMA StoredFacts ==
    ASSUME IInv, NEW tx \in Txs, Checks(tx) = "Ok", Persist(tx)
    PROVE  /\ log \in Seq(Transaction) /\ tx \in Transaction /\ log' = Append(log, tx)
           /\ DOMAIN log = 1..Len(log) /\ Len(log) \in Nat
           /\ DOMAIN log' = 1..Len(log) + 1
           /\ \A i \in DOMAIN log : i \in DOMAIN log' /\ log'[i] = log[i] /\ log[i].id # tx.id
           /\ Len(log) + 1 \in DOMAIN log' /\ log'[Len(log) + 1] = tx
           /\ \A i \in DOMAIN log' : i \in DOMAIN log \/ i = Len(log) + 1
           /\ \A k \in DOMAIN tx.to : Found(log, tx.to[k].account, tx.reference) = {}
           /\ DOMAIN utxo' = DOMAIN utxo \cup NewIds(tx)
           /\ \A id \in NewIds(tx) : id \notin DOMAIN utxo
           /\ Inputs(tx) \subseteq DOMAIN utxo /\ Inputs(tx) \cap Spent(log) = {}
  <1>1. log \in Seq(Transaction) /\ tx \in Transaction /\ log' = Append(log, tx)
        /\ DOMAIN log = 1..Len(log) /\ Len(log) \in Nat
    BY LogType, TxsAreTransactions DEF Persist
  <1>2. /\ DOMAIN log' = 1..Len(log) + 1
        /\ \A i \in DOMAIN log : log'[i] = log[i]
        /\ log'[Len(log) + 1] = tx
    BY <1>1, AppendTx
  <1>3. Verdict(log, tx) = "Ok"
    BY ChecksAreVerdict
  <1>4. /\ \A i \in DOMAIN log : log[i].id # tx.id
        /\ \A k \in DOMAIN tx.to : Found(log, tx.to[k].account, tx.reference) = {}
        /\ \A k \in DOMAIN tx.from : /\ tx.from[k].id \notin Spent(log)
                                     /\ \E p \in Places(log) : UtxoAt(log, p) = tx.from[k]
    BY <1>1, <1>3, Accepted
  <1>5. DOMAIN utxo' = DOMAIN utxo \cup NewIds(tx)
    BY DEF Persist, UtxoAfter, NewIds
  <1>6. ASSUME NEW id \in NewIds(tx)
        PROVE  id \notin DOMAIN utxo
    <2>. SUFFICES ASSUME id \in DOMAIN utxo PROVE FALSE
      OBVIOUS
    <2>1. PICK p \in Places(log) : id = UtxoAt(log, p).id
      BY DEF IInv, TablesAgree, Created
    <2>2. p[1] \in DOMAIN log
      BY <1>1, PlaceType
    <2>. QED
      BY <1>4, <2>1, <2>2 DEF NewIds, UtxoAt
  <1>7. Inputs(tx) \subseteq DOMAIN utxo /\ Inputs(tx) \cap Spent(log) = {}
    BY <1>4, InTable DEF Inputs
  <1>8. /\ \A i \in DOMAIN log : i \in DOMAIN log'
        /\ Len(log) + 1 \in DOMAIN log'
        /\ \A i \in DOMAIN log' : i \in DOMAIN log \/ i = Len(log) + 1
    BY <1>1, <1>2
  <1>. HIDE DEF Persist
  <1>. QED
    BY <1>1, <1>2, <1>4, <1>5, <1>6, <1>7, <1>8, Zenon

\* What becomes of an entry of the table of outputs.
LEMMA EntryAfter ==
    ASSUME IInv, NEW tx \in Txs, Checks(tx) = "Ok", Persist(tx), NEW id \in DOMAIN utxo'
    PROVE  /\ utxo'[id] \in Entry
           /\ id \notin NewIds(tx) =>
                 /\ id \in DOMAIN utxo /\ utxo'[id].amount = utxo[id].amount
                 /\ utxo'[id].spent_at = IF id \in Inputs(tx) THEN {tx.id} ELSE utxo[id].spent_at
           /\ \A k \in DOMAIN tx.to : id = <<tx.id, k - 1>> =>
                 utxo'[id] = [amount |-> tx.to[k].amount, spent_at |-> {}]
  <1>1. /\ DOMAIN utxo' = DOMAIN utxo \cup NewIds(tx) /\ tx \in Transaction
        /\ \A i \in NewIds(tx) : i \notin DOMAIN utxo
    BY StoredFacts
  <1>2. tx.id \in HashId /\ \A k \in DOMAIN tx.to : tx.to[k].amount \in Int /\ k \in Int
    <2>1. tx.id \in HashId /\ tx.to \in Seq(Output)
      BY <1>1 DEF Transaction
    <2>2. \A k \in DOMAIN tx.to : tx.to[k] \in Output /\ k \in Int
      BY <2>1
    <2>. QED
      BY <2>1, <2>2 DEF Output
  <1>3. utxo'[id] = IF id \in NewIds(tx)
                    THEN [amount |-> tx.to[id[2] + 1].amount, spent_at |-> None]
                    ELSE IF id \in Inputs(tx) THEN [utxo[id] EXCEPT !.spent_at = Some(tx.id)]
                    ELSE utxo[id]
    BY <1>1 DEF Persist, UtxoAfter, NewIds
  <1>4. ASSUME NEW k \in DOMAIN tx.to, id = <<tx.id, k - 1>>
        PROVE  utxo'[id] = [amount |-> tx.to[k].amount, spent_at |-> {}]
    <2>1. id \in NewIds(tx) /\ id[2] + 1 = k
      BY <1>2, <1>4 DEF NewIds
    <2>. QED
      BY <1>3, <2>1 DEF None
  <1>5. CASE id \in NewIds(tx)
    <2>1. PICK k \in DOMAIN tx.to : id = <<tx.id, k - 1>>
      BY <1>5 DEF NewIds
    <2>2. utxo'[id] = [amount |-> tx.to[k].amount, spent_at |-> {}]
      BY <1>4, <2>1
    <2>. QED
      BY <1>2, <1>4, <1>5, <2>2 DEF Entry
  <1>6. CASE id \notin NewIds(tx)
    <2>1. id \in DOMAIN utxo /\ utxo[id] \in Entry
      BY <1>1, <1>6 DEF IInv, WellTyped
    <2>2. CASE id \in Inputs(tx)
      <3>1. utxo'[id] = [utxo[id] EXCEPT !.spent_at = {tx.id}]
        BY <1>3, <1>6, <2>2 DEF Some
      <3>. QED
        BY <1>2, <1>4, <1>6, <2>1, <2>2, <3>1 DEF Entry
    <2>3. CASE id \notin Inputs(tx)
      BY <1>3, <1>4, <1>6, <2>1, <2>3
    <2>. QED
      BY <2>2, <2>3
  <1>. QED
    BY <1>5, <1>6

\* The amounts of the outputs are those of the log.
LEMMA AmountsAfter ==
    ASSUME IInv, NEW tx \in Txs, Checks(tx) = "Ok", Persist(tx), NEW p \in Places(log')
    PROVE  /\ UtxoAt(log', p).id \in DOMAIN utxo'
           /\ utxo'[UtxoAt(log', p).id].amount = UtxoAt(log', p).amount
  <1>0. /\ log \in Seq(Transaction) /\ tx \in Transaction /\ log' = Append(log, tx)
        /\ Len(log) + 1 \in DOMAIN log' /\ log'[Len(log) + 1] = tx
        /\ DOMAIN utxo' = DOMAIN utxo \cup NewIds(tx)
        /\ \A id \in NewIds(tx) : id \notin DOMAIN utxo
    BY StoredFacts
  <1>1. CASE p \in Places(log)
    <2>1. UtxoAt(log', p) = UtxoAt(log, p)
      BY <1>0, <1>1, AppendKeepsPlaces
    <2>2. /\ UtxoAt(log, p).id \in DOMAIN utxo
          /\ utxo[UtxoAt(log, p).id].amount = UtxoAt(log, p).amount
      BY <1>1, InTable
    <2>3. /\ UtxoAt(log, p).id \in DOMAIN utxo'
          /\ UtxoAt(log, p).id \notin NewIds(tx)
      BY <1>0, <2>2
    <2>4. utxo'[UtxoAt(log, p).id].amount = utxo[UtxoAt(log, p).id].amount
      BY <2>3, EntryAfter
    <2>. QED
      BY <2>1, <2>2, <2>3, <2>4
  <1>2. CASE p[1] = Len(log) + 1
    <2>1. PICK i \in DOMAIN log' : \E k \in DOMAIN log'[i].to : p = <<i, k>>
      BY InPlaces
    <2>2. i = Len(log) + 1
      BY <1>2, <2>1
    <2>3. PICK k \in DOMAIN tx.to : p = <<i, k>>
      BY <1>0, <2>1, <2>2
    <2>4. UtxoAt(log', p) = [id |-> <<tx.id, k - 1>>, amount |-> tx.to[k].amount]
      BY <1>0, <2>2, <2>3 DEF UtxoAt, OutputAt
    <2>5. <<tx.id, k - 1>> \in DOMAIN utxo'
      BY <1>0 DEF NewIds
    <2>6. utxo'[<<tx.id, k - 1>>] = [amount |-> tx.to[k].amount, spent_at |-> {}]
      BY <2>5, EntryAfter
    <2>. QED
      BY <2>4, <2>5, <2>6
  <1>. QED
    BY <1>0, <1>1, <1>2, AppendAddsPlaces

\* An output is marked with the transaction that spends it, and with no other.
LEMMA MarksAfter ==
    ASSUME IInv, NEW tx \in Txs, Checks(tx) = "Ok", Persist(tx), NEW id \in DOMAIN utxo'
    PROVE  utxo'[id].spent_at
              = {log'[i].id : i \in {j \in DOMAIN log' : id \in Inputs(log'[j])}}
  <1>. DEFINE Marks == {log[i].id : i \in {j \in DOMAIN log : id \in Inputs(log[j])}}
              MarksNow == {log'[i].id : i \in {j \in DOMAIN log' : id \in Inputs(log'[j])}}
  <1>0. /\ \A i \in DOMAIN log : i \in DOMAIN log' /\ log'[i] = log[i]
        /\ Len(log) + 1 \in DOMAIN log' /\ log'[Len(log) + 1] = tx
        /\ \A i \in DOMAIN log' : i \in DOMAIN log \/ i = Len(log) + 1
        /\ DOMAIN utxo' = DOMAIN utxo \cup NewIds(tx)
        /\ \A i \in NewIds(tx) : i \notin DOMAIN utxo
        /\ Inputs(tx) \subseteq DOMAIN utxo /\ Inputs(tx) \cap Spent(log) = {}
    BY StoredFacts
  <1>1. MarksNow = Marks \cup {t \in {tx.id} : id \in Inputs(tx)}
    BY <1>0
  <1>2. CASE id \in NewIds(tx)
    <2>1. utxo'[id].spent_at = {}
      <3>1. PICK k \in DOMAIN tx.to : id = <<tx.id, k - 1>>
        BY <1>2 DEF NewIds
      <3>2. utxo'[id] = [amount |-> tx.to[k].amount, spent_at |-> {}]
        BY <3>1, EntryAfter
      <3>. QED
        BY <3>2
    <2>2. id \notin Inputs(tx) /\ \A i \in DOMAIN log : id \notin Inputs(log[i])
      BY <1>0, <1>2 DEF IInv, InputsExist
    <2>. QED
      BY <1>1, <2>1, <2>2
  <1>3. CASE id \notin NewIds(tx)
    <2>1. /\ id \in DOMAIN utxo
          /\ utxo'[id].spent_at = IF id \in Inputs(tx) THEN {tx.id} ELSE utxo[id].spent_at
      BY <1>3, EntryAfter
    <2>2. utxo[id].spent_at = Marks
      BY <2>1 DEF IInv, TablesAgree
    <2>3. id \in Inputs(tx) => Marks = {}
      BY <1>0, <2>1, <2>2, MarkedIsSpent DEF None
    <2>. QED
      BY <1>1, <2>1, <2>2, <2>3
  <1>. QED
    BY <1>2, <1>3

\* A stored transaction leaves tables that agree with the log.
LEMMA PersistTables ==
    ASSUME IInv, NEW tx \in Txs, Checks(tx) = "Ok", Persist(tx)
    PROVE  TablesAgree'
  <1>0. /\ log \in Seq(Transaction) /\ tx \in Transaction /\ log' = Append(log, tx)
        /\ \A i \in DOMAIN log : i \in DOMAIN log' /\ log'[i] = log[i] /\ log[i].id # tx.id
        /\ Len(log) + 1 \in DOMAIN log' /\ log'[Len(log) + 1] = tx
        /\ \A i \in DOMAIN log' : i \in DOMAIN log \/ i = Len(log) + 1
        /\ DOMAIN utxo' = DOMAIN utxo \cup NewIds(tx)
    BY StoredFacts
  <1>1. /\ DOMAIN txs = {log[i].id : i \in DOMAIN log}
        /\ \A i \in DOMAIN log : txs[log[i].id] = log[i]
        /\ DOMAIN utxo = Created(log)
    BY DEF IInv, TablesAgree
  <1>2. txs' = [h \in DOMAIN txs \cup {tx.id} |-> IF h = tx.id THEN tx ELSE txs[h]]
    BY DEF Persist
  <1>3. DOMAIN txs' = {log'[i].id : i \in DOMAIN log'}
    BY <1>0, <1>1, <1>2
  <1>4. ASSUME NEW i \in DOMAIN log'
        PROVE  txs'[log'[i].id] = log'[i]
    BY <1>0, <1>1, <1>2
  <1>5. DOMAIN utxo' = Created(log')
    BY <1>0, <1>1, CreatedAppend
  <1>6. \A p \in Places(log') : utxo'[UtxoAt(log', p).id].amount = UtxoAt(log', p).amount
    BY AmountsAfter
  <1>7. \A id \in DOMAIN utxo' : utxo'[id].spent_at
              = {log'[i].id : i \in {j \in DOMAIN log' : id \in Inputs(log'[j])}}
    BY MarksAfter
  <1>. QED
    BY <1>3, <1>4, <1>5, <1>6, <1>7 DEF TablesAgree

\* The index of references gets the keys of the new transaction.
LEMMA PersistReferences ==
    ASSUME IInv, NEW tx \in Txs, Checks(tx) = "Ok", Persist(tx)
    PROVE  KeysAgree'
  <1>0. /\ \A i \in DOMAIN log : i \in DOMAIN log' /\ log'[i] = log[i]
        /\ Len(log) + 1 \in DOMAIN log' /\ log'[Len(log) + 1] = tx
        /\ \A i \in DOMAIN log' : i \in DOMAIN log \/ i = Len(log) + 1
        /\ \A k \in DOMAIN tx.to : Found(log, tx.to[k].account, tx.reference) = {}
    BY StoredFacts
  <1>1. txs_by_reference' = [key \in DOMAIN txs_by_reference \cup Keys(tx) |->
              IF key \in Keys(tx) THEN tx.id ELSE txs_by_reference[key]]
    BY DEF Persist
  <1>2. Keys(tx) = {<<tx.to[k].account, tx.reference>> : k \in DOMAIN tx.to}
    BY DEF Keys, Accounts
  <1>3. ASSUME NEW i \in DOMAIN log, NEW key \in Keys(log[i])
        PROVE  /\ key \in DOMAIN txs_by_reference
               /\ txs_by_reference[key] = log[i].id
               /\ key \notin Keys(tx)
    <2>1. key \in DOMAIN txs_by_reference /\ txs_by_reference[key] = log[i].id
      BY DEF IInv, KeysAgree
    <2>2. PICK k \in DOMAIN log[i].to : key = <<log[i].to[k].account, log[i].reference>>
      BY DEF Keys, Accounts
    <2>3. i \in Found(log, log[i].to[k].account, log[i].reference)
      BY DEF Found
    <2>. QED
      BY <1>0, <1>2, <2>1, <2>2, <2>3
  <1>4. ASSUME NEW i \in DOMAIN log', NEW key \in Keys(log'[i])
        PROVE  key \in DOMAIN txs_by_reference' /\ txs_by_reference'[key] = log'[i].id
    <2>1. CASE i \in DOMAIN log
      BY <1>0, <1>1, <1>3, <1>4, <2>1
    <2>2. CASE i = Len(log) + 1
      BY <1>0, <1>1, <1>4, <2>2
    <2>. QED
      BY <1>0, <2>1, <2>2
  <1>5. ASSUME NEW key \in DOMAIN txs_by_reference'
        PROVE  \E i \in DOMAIN log' : key \in Keys(log'[i])
    <2>1. CASE key \in Keys(tx)
      BY <1>0, <2>1
    <2>2. CASE key \in DOMAIN txs_by_reference
      BY <1>0, <2>2 DEF IInv, KeysAgree
    <2>. QED
      BY <1>1, <1>5, <2>1, <2>2
  <1>6. DOMAIN txs_by_reference' = UNION {Keys(log'[i]) : i \in DOMAIN log'}
    BY <1>4, <1>5
  <1>7. \A i \in DOMAIN log' : \A key \in Keys(log'[i]) : txs_by_reference'[key] = log'[i].id
    BY <1>4
  <1>. QED
    BY <1>6, <1>7 DEF KeysAgree, Keys, Accounts

\* store_tx keeps the invariant.
LEMMA PersistIInv ==
    ASSUME IInv, NEW tx \in Txs, Checks(tx) = "Ok", Persist(tx)
    PROVE  IInv'
  <1>0. /\ \A i \in DOMAIN log : i \in DOMAIN log' /\ log'[i] = log[i] /\ log[i].id # tx.id
        /\ Len(log) + 1 \in DOMAIN log' /\ log'[Len(log) + 1] = tx
        /\ \A i \in DOMAIN log' : i \in DOMAIN log \/ i = Len(log) + 1
        /\ DOMAIN utxo' = DOMAIN utxo \cup NewIds(tx)
        /\ Inputs(tx) \subseteq DOMAIN utxo
    BY StoredFacts
  <1>1. log' \in Seq(Txs)
    BY DEF IInv, WellTyped, Persist
  <1>2. WellTyped'
    BY <1>1, EntryAfter DEF WellTyped
  <1>3. UniqueIds(log')
    BY <1>0 DEF IInv, UniqueIds
  <1>4. \A i \in DOMAIN log' : Inputs(log'[i]) \subseteq DOMAIN utxo'
    BY <1>0 DEF IInv, InputsExist
  <1>5. InputsExist'
    BY <1>4 DEF InputsExist, Inputs
  <1>. QED
    BY <1>2, <1>3, <1>5, PersistTables, PersistReferences DEF IInv, UniqueIds

-----------------------------------------------------------------------------
(* The queues.                                                              *)

\* The order of the queues.
NewToOld == TRUE

LEMMA NewToOldIsNewer ==
    /\ \A p, q : Sooner(NewToOld, p, q) <=> Newer(p, q)
    /\ NewestFirst => NewToOld = NewestFirst
  BY NewestFirstIsBoolean DEF Sooner, NewToOld

\* The equations of the loop of NewFor.
IsNewFor(queue, tx, account) ==
    queue = [n \in 0..Len(tx.to) |->
                IF n = 0 THEN <<>>
                ELSE IF tx.to[n].account = account THEN <<<<tx.id, n - 1>>>> \o queue[n - 1]
                ELSE queue[n - 1]]

\* The loop has a solution, and NewFor is what it gives at the last output.
LEMMA NewForDef ==
    ASSUME NEW tx \in Transaction, NEW account
    PROVE  \E queue : /\ IsNewFor(queue, tx, account)
                      /\ NewFor(tx, account) = queue[Len(tx.to)]
  <1>. DEFINE N == Len(tx.to)
              S == Seq(NewIds(tx))
              step == [x \in (1..N) \X S |->
                          IF tx.to[x[1]].account = account
                          THEN <<<<tx.id, x[1] - 1>>>> \o x[2] ELSE x[2]]
  <1>1. tx.to \in Seq(Output) /\ N \in Nat /\ DOMAIN tx.to = 1..N
    <2>1. tx.to \in Seq(Output)
      BY DEF Transaction
    <2>. QED
      BY <2>1
  <1>2. step \in [(1..N) \X S -> S]
    <2>1. ASSUME NEW n \in 1..N, NEW q \in S
          PROVE  <<<<tx.id, n - 1>>>> \o q \in S
      <3>1. <<tx.id, n - 1>> \in NewIds(tx)
        BY <1>1 DEF NewIds
      <3>. QED
        BY <3>1
    <2>2. \A x \in (1..N) \X S : x[1] \in 1..N /\ x[2] \in S
      OBVIOUS
    <2>3. \A x \in (1..N) \X S :
             (IF tx.to[x[1]].account = account THEN <<<<tx.id, x[1] - 1>>>> \o x[2] ELSE x[2]) \in S
      BY <2>1, <2>2
    <2>. HIDE DEF S
    <2>. QED
      BY <2>3
  <1>3. <<>> \in S
    OBVIOUS
  <1>4. PICK f \in [0..N -> S] : f[0] = <<>> /\ \A i \in 1..N : f[i] = step[<<i, f[i - 1]>>]
    <2>. DEFINE a == <<>>
    <2>. HIDE DEF S, step, N, a
    <2>1. a \in S
      BY <1>3 DEF a
    <2>2. \E f : IsIteration(f, N, S, a, step)
      BY <1>1, <1>2, <2>1, Iterates
    <2>. QED
      BY <2>2 DEF a, IsIteration
  <1>5. ASSUME NEW i \in 1..N
        PROVE  f[i] = IF tx.to[i].account = account THEN <<<<tx.id, i - 1>>>> \o f[i - 1] ELSE f[i - 1]
    <2>1. <<i, f[i - 1]>> \in (1..N) \X S
      <3>1. i - 1 \in 0..N
        BY <1>1
      <3>. HIDE DEF S, N
      <3>. QED
        BY <1>4, <3>1
    <2>. HIDE DEF S
    <2>. QED
      BY <1>4, <2>1
  <1>6. f = [n \in 0..N |-> IF n = 0 THEN <<>>
                ELSE IF tx.to[n].account = account THEN <<<<tx.id, n - 1>>>> \o f[n - 1]
                ELSE f[n - 1]]
    <2>1. \A n \in 0..N : n = 0 \/ n \in 1..N
      BY <1>1
    <2>2. f = [n \in 0..N |-> f[n]]
      BY <1>4
    <2>. HIDE DEF S, N
    <2>. QED
      BY <1>4, <1>5, <2>1, <2>2
  <1>7. \E q : IsNewFor(q, tx, account)
    BY <1>6 DEF IsNewFor
  <1>. DEFINE queue == CHOOSE q : IsNewFor(q, tx, account)
  <1>8. NewFor(tx, account) = queue[N]
    BY DEF NewFor, IsNewFor
  <1>9. IsNewFor(queue, tx, account)
    BY <1>7
  <1>. QED
    BY <1>8, <1>9

\* The outputs for account, the i-th transaction being tx, newest first.
Own(i, tx, account) == {<<i, k>> : k \in {l \in DOMAIN tx.to : tx.to[l].account = account}}

\* f gives the ids of the outputs of tx, the i-th transaction.
Names(f, i, tx) == \A k \in DOMAIN tx.to : f[<<i, k>>] = <<tx.id, k - 1>>

\* NewFor pushes every output of the account once, the last one to the front.
LEMMA NewForLists ==
    ASSUME NEW tx \in Transaction, NEW account, NEW i, NEW f, Names(f, i, tx)
    PROVE  \E order : /\ Lists(NewToOld, order, Own(i, tx, account))
                      /\ NewFor(tx, account) = Image(f, order)
  <1>. DEFINE N == Len(tx.to)
              Upto(n) == {<<i, k>> : k \in {l \in 1..n : tx.to[l].account = account}}
  <1>1. tx.to \in Seq(Output) /\ N \in Nat /\ DOMAIN tx.to = 1..N
    <2>1. tx.to \in Seq(Output)
      BY DEF Transaction
    <2>. QED
      BY <2>1
  <1>2. PICK queue : IsNewFor(queue, tx, account) /\ NewFor(tx, account) = queue[N]
    BY NewForDef
  <1>. DEFINE Right(n) == \E order : Lists(NewToOld, order, Upto(n)) /\ queue[n] = Image(f, order)
              G == {n \in 0..N : Right(n)}
  <1>3. Right(0)
    <2>1. Upto(0) = {} /\ queue[0] = <<>>
      BY <1>1, <1>2 DEF IsNewFor
    <2>2. Image(f, <<>>) = <<>>
      BY DEF Image
    <2>. HIDE DEF Upto
    <2>. QED
      BY <2>1, <2>2, ListsOne
  <1>4. ASSUME NEW n \in 1..N, Right(n - 1)
        PROVE  Right(n)
    <2>1. PICK order : Lists(NewToOld, order, Upto(n - 1)) /\ queue[n - 1] = Image(f, order)
      BY <1>4
    <2>2. queue[n] = IF tx.to[n].account = account THEN <<<<tx.id, n - 1>>>> \o queue[n - 1]
                     ELSE queue[n - 1]
      <3>1. n \in 0..N /\ n # 0
        BY <1>1
      <3>2. queue = [m \in 0..N |-> IF m = 0 THEN <<>>
                ELSE IF tx.to[m].account = account THEN <<<<tx.id, m - 1>>>> \o queue[m - 1]
                ELSE queue[m - 1]]
        BY <1>2 DEF IsNewFor
      <3>. HIDE DEF N
      <3>. QED
        BY <3>1, <3>2
    <2>3. CASE tx.to[n].account = account
      <3>1. Upto(n) = {<<i, n>>} \cup Upto(n - 1)
        BY <1>1, <2>3
      <3>2. \A y \in Upto(n - 1) : Sooner(NewToOld, <<i, n>>, y)
        <4>1. \A y \in Upto(n - 1) : Newer(<<i, n>>, y)
          BY <1>1 DEF Newer
        <4>. QED
          BY <4>1, NewToOldIsNewer
      <3>3. Lists(NewToOld, <<<<i, n>>>>, {<<i, n>>})
        BY ListsOne
      <3>4. Image(f, <<<<i, n>>>>) = <<<<tx.id, n - 1>>>>
        BY <1>1 DEF Image, Names
      <3>. HIDE DEF Upto
      <3>5. Lists(NewToOld, <<<<i, n>>>> \o order, {<<i, n>>} \cup Upto(n - 1))
        BY <2>1, <3>2, <3>3, ListsBoth
      <3>6. Image(f, <<<<i, n>>>> \o order) = Image(f, <<<<i, n>>>>) \o Image(f, order)
        <4>. DEFINE T == Upto(n - 1)
                    S == {<<i, n>>}
                    one == <<<<i, n>>>>
        <4>1. order \in Seq(T) /\ one \in Seq(S)
          BY <2>1, <3>3 DEF Lists
        <4>. HIDE DEF one, S, T
        <4>2. Image(f, one \o order) = Image(f, one) \o Image(f, order)
          BY <4>1, ImageBoth
        <4>. QED
          BY <4>2 DEF one
      <3>. QED
        BY <2>1, <2>2, <2>3, <3>1, <3>4, <3>5, <3>6
    <2>4. CASE tx.to[n].account # account
      <3>1. Upto(n) = Upto(n - 1)
        <4>1. \A l \in 1..n : l = n \/ l \in 1..(n - 1)
          OBVIOUS
        <4>2. \A l \in 1..(n - 1) : l \in 1..n
          OBVIOUS
        <4>. QED
          BY <2>4, <4>1, <4>2
      <3>. HIDE DEF Upto
      <3>. QED
        BY <2>1, <2>2, <2>4, <3>1
    <2>. QED
      BY <2>3, <2>4
  <1>. HIDE DEF Right
  <1>5. N \in G
    <2>1. 0 \in G /\ \A n \in 1..N : n - 1 \in G => n \in G
      BY <1>1, <1>3, <1>4
    <2>. HIDE DEF G, N
    <2>2. \A n \in 0..N : n \in G
      BY <1>1, <2>1, UpTo
    <2>. QED
      BY <1>1, <2>2
  <1>6. Upto(N) = Own(i, tx, account)
    BY <1>1 DEF Own
  <1>. HIDE DEF Upto, N
  <1>. QED
    BY <1>2, <1>5, <1>6 DEF Right

-----------------------------------------------------------------------------
(* The queues and the index of transactions: the second invariant.          *)

PlacesOf(lg, account) == {p \in Places(lg) : OutputAt(lg, p).account = account}

IdAt(lg) == [p \in Places(lg) |-> UtxoAt(lg, p).id]

\* A queue has the ids of the outputs of the account, the newest first.
QueuesInv ==
    /\ utxo_by_account \in [FullAccount -> Seq(DOMAIN utxo)]
    /\ \A account \in FullAccount : \E order :
          /\ Lists(NewToOld, order, PlacesOf(log, account))
          /\ utxo_by_account[account] = Image(IdAt(log), order)

\* The index of transactions has the accounts with outputs, and the transactions
\* of these outputs in the same order.
HashesInv ==
    /\ DOMAIN txs_by_account = {account \in FullAccount : utxo_by_account[account] # <<>>}
    /\ \A account \in DOMAIN txs_by_account :
          txs_by_account[account] =
              [n \in DOMAIN utxo_by_account[account] |-> utxo_by_account[account][n][1]]

\* The new transaction has its outputs, and the log those it had.
LEMMA PlacesOfAppend ==
    ASSUME NEW lg \in Seq(Transaction), NEW tx \in Transaction, NEW account
    PROVE  LET new == Append(lg, tx)
               i == Len(lg) + 1
           IN  /\ PlacesOf(new, account) = Own(i, tx, account) \cup PlacesOf(lg, account)
               /\ \A p \in Own(i, tx, account), q \in PlacesOf(lg, account) : Newer(p, q)
               /\ \A k \in DOMAIN tx.to : IdAt(new)[<<i, k>>] = <<tx.id, k - 1>>
               /\ \A p \in PlacesOf(lg, account) : IdAt(new)[p] = IdAt(lg)[p]
  <1>. DEFINE new == Append(lg, tx)
              i == Len(lg) + 1
  <1>1. /\ \A p \in Places(lg) : /\ p \in Places(new)
                                 /\ OutputAt(new, p) = OutputAt(lg, p)
                                 /\ UtxoAt(new, p) = UtxoAt(lg, p)
        /\ \A k \in DOMAIN tx.to :
              /\ <<i, k>> \in Places(new)
              /\ OutputAt(new, <<i, k>>) = tx.to[k]
              /\ UtxoAt(new, <<i, k>>) = [id |-> <<tx.id, k - 1>>, amount |-> tx.to[k].amount]
        /\ \A p \in Places(new) : p \in Places(lg) \/ p[1] = i
    BY AppendKeepsPlaces, AppendAddsPlaces
  <1>2. new[i] = tx /\ i \in Nat /\ \A p \in Places(lg) : p[1] \in 1..Len(lg)
    BY AppendTx, PlaceType
  <1>3. \A p \in Places(new) : p[1] = i => \E k \in DOMAIN tx.to : p = <<i, k>>
    <2>. SUFFICES ASSUME NEW p \in Places(new), p[1] = i
                  PROVE  \E k \in DOMAIN tx.to : p = <<i, k>>
      OBVIOUS
    <2>. HIDE DEF new
    <2>1. PICK j \in DOMAIN new : \E k \in DOMAIN new[j].to : p = <<j, k>>
      BY InPlaces
    <2>. QED
      BY <1>2, <2>1
  <1>4. \A p \in Own(i, tx, account) : p[1] = i
    BY DEF Own
  <1>5. \A p \in Own(i, tx, account), q \in PlacesOf(lg, account) : Newer(p, q)
    <2>1. \A q \in PlacesOf(lg, account) : i > q[1]
      BY <1>2 DEF PlacesOf
    <2>. HIDE DEF i
    <2>. QED
      BY <1>4, <2>1 DEF Newer
  <1>. HIDE DEF new, i
  <1>6. PlacesOf(new, account) = Own(i, tx, account) \cup PlacesOf(lg, account)
    <2>1. ASSUME NEW p \in PlacesOf(new, account)
          PROVE  p \in Own(i, tx, account) \cup PlacesOf(lg, account)
      <3>1. p \in Places(new) /\ OutputAt(new, p).account = account
        BY DEF PlacesOf
      <3>2. CASE p \in Places(lg)
        BY <1>1, <3>1, <3>2 DEF PlacesOf
      <3>3. CASE p[1] = i
        <4>1. PICK k \in DOMAIN tx.to : p = <<i, k>>
          BY <1>3, <3>1, <3>3
        <4>2. tx.to[k].account = account
          BY <1>1, <3>1, <4>1
        <4>. QED
          BY <4>1, <4>2 DEF Own
      <3>. QED
        BY <1>1, <3>1, <3>2, <3>3
    <2>2. ASSUME NEW p \in Own(i, tx, account)
          PROVE  p \in PlacesOf(new, account)
      <3>1. PICK k \in DOMAIN tx.to : p = <<i, k>> /\ tx.to[k].account = account
        BY DEF Own
      <3>. QED
        BY <1>1, <3>1 DEF PlacesOf
    <2>3. ASSUME NEW p \in PlacesOf(lg, account)
          PROVE  p \in PlacesOf(new, account)
      BY <1>1 DEF PlacesOf
    <2>. QED
      BY <2>1, <2>2, <2>3
  <1>7. \A k \in DOMAIN tx.to : IdAt(new)[<<i, k>>] = <<tx.id, k - 1>>
    <2>. SUFFICES ASSUME NEW k \in DOMAIN tx.to
                  PROVE  IdAt(new)[<<i, k>>] = <<tx.id, k - 1>>
      OBVIOUS
    <2>1. IdAt(new)[<<i, k>>] = UtxoAt(new, <<i, k>>).id
      BY <1>1 DEF IdAt
    <2>2. UtxoAt(new, <<i, k>>) = [id |-> <<tx.id, k - 1>>, amount |-> tx.to[k].amount]
      BY <1>1
    <2>. QED
      BY <2>1, <2>2
  <1>8. \A p \in PlacesOf(lg, account) : IdAt(new)[p] = IdAt(lg)[p]
    BY <1>1 DEF PlacesOf, IdAt
  <1>. QED
    BY <1>5, <1>6, <1>7, <1>8 DEF new, i

\* Storing a transaction pushes its outputs to the front of the queues.
LEMMA PersistQueues ==
    ASSUME IInv, QueuesInv, NEW tx \in Txs, Checks(tx) = "Ok", Persist(tx)
    PROVE  QueuesInv'
  <1>0. /\ log \in Seq(Transaction) /\ tx \in Transaction /\ log' = Append(log, tx)
        /\ DOMAIN utxo' = DOMAIN utxo \cup NewIds(tx)
    BY StoredFacts
  <1>. DEFINE i == Len(log) + 1
  <1>1. utxo_by_account' = [a \in FullAccount |-> NewFor(tx, a) \o utxo_by_account[a]]
    BY DEF Persist
  <1>2. ASSUME NEW account \in FullAccount
        PROVE  /\ utxo_by_account'[account] \in Seq(DOMAIN utxo')
               /\ \E order : /\ Lists(NewToOld, order, PlacesOf(log', account))
                             /\ utxo_by_account'[account] = Image(IdAt(log'), order)
    <2>1. /\ PlacesOf(log', account) = Own(i, tx, account) \cup PlacesOf(log, account)
          /\ \A p \in Own(i, tx, account), q \in PlacesOf(log, account) : Newer(p, q)
          /\ \A k \in DOMAIN tx.to : IdAt(log')[<<i, k>>] = <<tx.id, k - 1>>
          /\ \A p \in PlacesOf(log, account) : IdAt(log')[p] = IdAt(log)[p]
      BY <1>0, PlacesOfAppend
    <2>. DEFINE f == IdAt(log')
                S == Own(i, tx, account)
                T == PlacesOf(log, account)
    <2>. HIDE DEF i
    <2>2. Names(f, i, tx)
      BY <2>1 DEF Names
    <2>. HIDE DEF f
    <2>3. PICK new : Lists(NewToOld, new, S) /\ NewFor(tx, account) = Image(f, new)
      BY <1>0, <2>2, NewForLists
    <2>4. PICK old : Lists(NewToOld, old, T) /\ utxo_by_account[account] = Image(IdAt(log), old)
      BY DEF QueuesInv
    <2>5. Image(f, old) = Image(IdAt(log), old)
      <3>1. \A n \in DOMAIN old : old[n] \in T
        BY <2>4 DEF Lists
      <3>2. \A p \in T : f[p] = IdAt(log)[p]
        BY <2>1 DEF f
      <3>. QED
        BY <3>1, <3>2 DEF Image
    <2>. HIDE DEF S, T
    <2>6. Lists(NewToOld, new \o old, S \cup T)
      BY <2>1, <2>3, <2>4, ListsBoth, NewToOldIsNewer DEF S, T
    <2>7. Image(f, new \o old) = Image(f, new) \o Image(f, old)
      <3>1. new \in Seq(S) /\ old \in Seq(T)
        BY <2>3, <2>4 DEF Lists
      <3>. QED
        BY <3>1, ImageBoth
    <2>8. utxo_by_account'[account] = Image(f, new \o old)
      BY <1>1, <2>3, <2>4, <2>5, <2>7
    <2>9. utxo_by_account'[account] \in Seq(DOMAIN utxo')
      <3>1. NewFor(tx, account) \in Seq(NewIds(tx))
        <4>1. \A n \in DOMAIN new : f[new[n]] \in NewIds(tx)
          <5>1. \A n \in DOMAIN new : new[n] \in S
            BY <2>3 DEF Lists
          <5>2. \A p \in S : f[p] \in NewIds(tx)
            BY <2>2 DEF S, Own, NewIds, Names
          <5>. QED
            BY <5>1, <5>2
        <4>2. new \in Seq(S)
          BY <2>3 DEF Lists
        <4>. QED
          BY <2>3, <4>1, <4>2 DEF Image
      <3>2. utxo_by_account[account] \in Seq(DOMAIN utxo)
        BY DEF QueuesInv
      <3>. DEFINE a == NewFor(tx, account)
                  b == utxo_by_account[account]
      <3>3. a \in Seq(DOMAIN utxo') /\ b \in Seq(DOMAIN utxo')
        <4>1. NewIds(tx) \subseteq DOMAIN utxo' /\ DOMAIN utxo \subseteq DOMAIN utxo'
          BY <1>0
        <4>. QED
          BY <3>1, <3>2, <4>1
      <3>4. utxo_by_account'[account] = a \o b
        BY <1>1
      <3>. HIDE DEF a, b
      <3>. QED
        BY <3>3, <3>4
    <2>. QED
      BY <2>1, <2>6, <2>8, <2>9 DEF f, S, T
  <1>. QED
    BY <1>1, <1>2 DEF QueuesInv

\* The hash of each output of a queue, and of a queue put before another.
HashesOf(queue) == [n \in DOMAIN queue |-> queue[n][1]]
LEMMA HashesOfIsSeq ==
    ASSUME NEW S, NEW u \in Seq(S)
    PROVE  HashesOf(u) \in Seq({w[1] : w \in S}) /\ Len(HashesOf(u)) = Len(u)
  BY DEF HashesOf
\* A sequence that has at every place what a concatenation has is the concatenation.
LEMMA Concatenated ==
    ASSUME NEW S, NEW u \in Seq(S), NEW v \in Seq(S), NEW w \in Seq(S), Len(w) = Len(u) + Len(v),
           \A n \in 1..Len(w) : w[n] = IF n <= Len(u) THEN u[n] ELSE v[n - Len(u)]
    PROVE  w = u \o v
  <1>. DEFINE x == u \o v
  <1>1. /\ x \in Seq(S) /\ Len(x) = Len(w)
        /\ \A n \in 1..Len(w) : x[n] = IF n <= Len(u) THEN u[n] ELSE v[n - Len(u)]
    OBVIOUS
  <1>. HIDE DEF x
  <1>2. w = x
    BY <1>1
  <1>. QED
    BY <1>2 DEF x
LEMMA HashesOfConcatenation ==
    ASSUME NEW S, NEW T, NEW u \in Seq(S), NEW v \in Seq(T)
    PROVE  /\ HashesOf(u \o v) = HashesOf(u) \o HashesOf(v)
           /\ u \o v # <<>> <=> u # <<>> \/ v # <<>>
  <1>. DEFINE hashes == {w[1] : w \in S \cup T}
              fu == HashesOf(u)
              fv == HashesOf(v)
              whole == HashesOf(u \o v)
  <1>1. /\ Len(u) \in Nat /\ Len(v) \in Nat /\ DOMAIN u = 1..Len(u) /\ DOMAIN v = 1..Len(v)
        /\ u \o v \in Seq(S \cup T) /\ Len(u \o v) = Len(u) + Len(v)
        /\ \A n \in 1..(Len(u) + Len(v)) : (u \o v)[n] = IF n <= Len(u) THEN u[n] ELSE v[n - Len(u)]
    OBVIOUS
  <1>2. u \in Seq(S \cup T) /\ v \in Seq(S \cup T)
    OBVIOUS
  <1>3. /\ fu \in Seq(hashes) /\ Len(fu) = Len(u)
        /\ fv \in Seq(hashes) /\ Len(fv) = Len(v)
        /\ whole \in Seq(hashes) /\ Len(whole) = Len(u) + Len(v)
    BY <1>1, <1>2, HashesOfIsSeq
  <1>4. /\ \A n \in 1..Len(u) : fu[n] = u[n][1]
        /\ \A n \in 1..Len(v) : fv[n] = v[n][1]
        /\ \A n \in 1..(Len(u) + Len(v)) : whole[n] = (u \o v)[n][1]
    BY <1>1 DEF HashesOf
  <1>5. \A n \in 1..(Len(u) + Len(v)) : whole[n] = IF n <= Len(u) THEN fu[n] ELSE fv[n - Len(u)]
    BY <1>1, <1>4
  <1>. HIDE DEF hashes, fu, fv, whole
  <1>6. Len(whole) = Len(fu) + Len(fv)
    BY <1>3
  <1>7. \A n \in 1..Len(whole) : whole[n] = IF n <= Len(fu) THEN fu[n] ELSE fv[n - Len(fu)]
    BY <1>3, <1>5
  <1>8. whole = fu \o fv
    BY <1>3, <1>6, <1>7, Concatenated
  <1>9. u \o v # <<>> <=> u # <<>> \/ v # <<>>
    BY <1>1
  <1>. QED
    BY <1>8, <1>9 DEF whole, fu, fv

\* Storing a transaction pushes its hash to the front of its accounts' queues, as
\* often as it pushes outputs.
LEMMA PersistHashes ==
    ASSUME IInv, QueuesInv, HashesInv, NEW tx \in Txs, Persist(tx)
    PROVE  HashesInv'
  <1>1. tx \in Transaction /\ tx.to \in Seq(Output)
    BY TxsAreTransactions DEF Transaction
  <1>2. Accounts(tx) \subseteq FullAccount
    <2>1. \A k \in DOMAIN tx.to : tx.to[k] \in Output
      BY <1>1
    <2>. QED
      BY <2>1 DEF Accounts, Output
  <1>. DEFINE front(account) == [n \in 1..Len(NewFor(tx, account)) |-> tx.id]
              back(account) == IF account \in DOMAIN txs_by_account THEN txs_by_account[account] ELSE <<>>
  <1>3. ASSUME NEW account
        PROVE  /\ NewFor(tx, account) \in Seq(HashId \X Int)
               /\ front(account) = HashesOf(NewFor(tx, account))
               /\ NewFor(tx, account) # <<>> <=> account \in Accounts(tx)
    <2>. DEFINE f == [p \in {0} \X DOMAIN tx.to |-> <<tx.id, p[2] - 1>>]
                new == NewFor(tx, account)
    <2>1. Names(f, 0, tx)
      BY DEF Names
    <2>2. Own(0, tx, account) \subseteq {0} \X DOMAIN tx.to
      BY DEF Own
    <2>3. \A p \in {0} \X DOMAIN tx.to : f[p] = <<tx.id, p[2] - 1>> /\ p[2] \in Int
      BY <1>1
    <2>. HIDE DEF f, new
    <2>4. PICK order : Lists(NewToOld, order, Own(0, tx, account)) /\ new = Image(f, order)
      BY <1>1, <2>1, NewForLists DEF new
    <2>5. /\ order \in Seq(Own(0, tx, account))
          /\ \A p \in Own(0, tx, account) : \E n \in DOMAIN order : order[n] = p
      BY <2>4 DEF Lists
    <2>6. DOMAIN new = 1..Len(order) /\ Len(order) \in Nat /\ \A n \in DOMAIN new : new[n] = f[order[n]]
      BY <2>4, <2>5 DEF Image
    <2>7. \A n \in DOMAIN new : order[n] \in Own(0, tx, account)
      BY <2>5, <2>6
    <2>8. tx.id \in HashId
      BY <1>1 DEF Transaction
    <2>9. \A n \in DOMAIN new : new[n] \in HashId \X Int /\ new[n][1] = tx.id
      BY <2>2, <2>3, <2>6, <2>7, <2>8
    <2>10. new = [n \in 1..Len(order) |-> new[n]]
      BY <2>4, <2>5, <2>6 DEF Image
    <2>11. new \in Seq(HashId \X Int) /\ Len(new) = Len(order)
      BY <2>6, <2>9, <2>10
    <2>12. new # <<>> <=> Own(0, tx, account) # {}
      BY <2>5, <2>6, <2>7, <2>11
    <2>13. Own(0, tx, account) # {} <=> account \in Accounts(tx)
      BY DEF Own, Accounts
    <2>14. [n \in 1..Len(new) |-> tx.id] = HashesOf(new)
      BY <2>6, <2>9, <2>11 DEF HashesOf
    <2>. QED
      BY <2>11, <2>12, <2>13, <2>14 DEF new
  <1>4. ASSUME NEW account \in FullAccount
        PROVE  /\ utxo_by_account[account] \in Seq(DOMAIN utxo)
               /\ back(account) = HashesOf(utxo_by_account[account])
    <2>1. utxo_by_account[account] \in Seq(DOMAIN utxo)
      BY DEF QueuesInv
    <2>2. utxo_by_account[account] = <<>> => HashesOf(utxo_by_account[account]) = <<>>
      BY DEF HashesOf
    <2>. QED
      BY <2>1, <2>2 DEF HashesInv, HashesOf
  <1>5. /\ DOMAIN txs_by_account' = DOMAIN txs_by_account \cup Accounts(tx)
        /\ \A account \in DOMAIN txs_by_account' :
              txs_by_account'[account] = front(account) \o back(account)
    BY DEF Persist
  <1>6. \A account \in FullAccount :
           utxo_by_account'[account] = NewFor(tx, account) \o utxo_by_account[account]
    BY DEF Persist
  <1>. HIDE DEF front, back
  <1>8. ASSUME NEW account \in FullAccount
        PROVE  /\ front(account) \o back(account) = HashesOf(utxo_by_account'[account])
               /\ utxo_by_account'[account] # <<>>
                     <=> account \in Accounts(tx) \/ utxo_by_account[account] # <<>>
    <2>. DEFINE u == NewFor(tx, account)
                v == utxo_by_account[account]
    <2>1. /\ u \in Seq(HashId \X Int) /\ front(account) = HashesOf(u)
          /\ u # <<>> <=> account \in Accounts(tx)
      BY <1>3
    <2>2. v \in Seq(DOMAIN utxo) /\ back(account) = HashesOf(v)
      BY <1>4
    <2>3. utxo_by_account'[account] = u \o v
      BY <1>6
    <2>. HIDE DEF u, v
    <2>4. HashesOf(u \o v) = HashesOf(u) \o HashesOf(v) /\ (u \o v # <<>> <=> u # <<>> \/ v # <<>>)
      BY <2>1, <2>2, HashesOfConcatenation
    <2>. QED
      BY <2>1, <2>2, <2>3, <2>4 DEF v
  <1>9. DOMAIN txs_by_account' = {account \in FullAccount : utxo_by_account'[account] # <<>>}
    BY <1>2, <1>5, <1>8 DEF HashesInv
  <1>10. \A account \in DOMAIN txs_by_account' :
            txs_by_account'[account] = HashesOf(utxo_by_account'[account])
    BY <1>5, <1>8, <1>9
  <1>. QED
    BY <1>9, <1>10 DEF HashesInv, HashesOf

-----------------------------------------------------------------------------
(* get_unspent.                                                             *)

\* An output is unspent in the log when it is an output of the account and its
\* id is not spent.
LEMMA UnspentOfPlaces ==
    ASSUME NEW lg, NEW account
    PROVE  UnspentPlaces(lg, account)
              = {p \in PlacesOf(lg, account) : UtxoAt(lg, p).id \notin Spent(lg)}
  BY DEF UnspentPlaces, PlacesOf
\* The equations of the loop of get_unspent, over a queue.
IsScan(scan, queue, target) ==
    scan = [n \in 0..Len(queue) |->
               IF n = 0 THEN [verdict |-> "Ok", coins |-> <<>>, total |-> 0, done |-> FALSE]
               ELSE Visit(scan[n - 1], queue[n], target)]

ScanState == [verdict : {"Ok"}, coins : Seq(Utxo), total : Int, done : BOOLEAN]

\* One turn of the loop at an output of the table, case by case.
LEMMA VisitCases ==
    ASSUME IInv, NEW s \in ScanState, NEW id \in DOMAIN utxo, NEW target
    PROVE  /\ Visit(s, id, target) \in ScanState
           /\ s.done => Visit(s, id, target) = s
           /\ ~s.done /\ utxo[id].spent_at # None => Visit(s, id, target) = s
           /\ ~s.done /\ utxo[id].spent_at = None =>
                 LET v == Visit(s, id, target) IN
                 /\ v.coins = Append(s.coins, [id |-> id, amount |-> utxo[id].amount])
                 /\ v.total = s.total + utxo[id].amount
                 /\ v.done <=> \E amount \in target : amount <= s.total + utxo[id].amount
  <1>1. id \in UtxoId /\ utxo[id].amount \in Int
    <2>1. PICK p \in Places(log) : id = UtxoAt(log, p).id
      BY DEF IInv, TablesAgree, Created
    <2>2. UtxoAt(log, p) \in Utxo
      BY LogType, PlaceType
    <2>. QED
      BY <2>1, <2>2 DEF Utxo, IInv, WellTyped, Entry
  <1>2. s.coins \in Seq(Utxo) /\ s.total \in Int /\ s.done \in BOOLEAN
    BY DEF ScanState
  <1>3. CASE s.done
    BY <1>3 DEF Visit
  <1>4. CASE ~s.done /\ utxo[id].spent_at # None
    BY <1>4 DEF Visit
  <1>5. CASE ~s.done /\ utxo[id].spent_at = None
    <2>. DEFINE amount == utxo[id].amount
                total == s.total + amount
                coins == Append(s.coins, [id |-> id, amount |-> amount])
                done == \E a \in target : a <= total
    <2>1. Visit(s, id, target) = [verdict |-> "Ok", coins |-> coins, total |-> total, done |-> done]
      BY <1>5 DEF Visit
    <2>2. [id |-> id, amount |-> amount] \in Utxo
      BY <1>1 DEF Utxo
    <2>3. coins \in Seq(Utxo) /\ total \in Int /\ done \in BOOLEAN
      BY <1>1, <1>2, <2>2
    <2>. HIDE DEF coins, total, done, amount
    <2>4. /\ Visit(s, id, target) \in ScanState
          /\ Visit(s, id, target).coins = coins
          /\ Visit(s, id, target).total = total
          /\ Visit(s, id, target).done = done
      BY <2>1, <2>3 DEF ScanState
    <2>. QED
      BY <1>5, <2>4 DEF coins, total, done, amount
  <1>. QED
    BY <1>2, <1>3, <1>4, <1>5

\* The loop has a solution, and Scan is what it gives at the end of the queue.
LEMMA ScanDef ==
    ASSUME IInv, NEW account, NEW target, utxo_by_account[account] \in Seq(DOMAIN utxo)
    PROVE  \E scan : LET queue == utxo_by_account[account]
                         N == Len(queue)
                     IN  /\ scan \in [0..N -> ScanState]
                         /\ scan[0] = [verdict |-> "Ok", coins |-> <<>>, total |-> 0, done |-> FALSE]
                         /\ \A n \in 1..N : scan[n] = Visit(scan[n - 1], queue[n], target)
                         /\ Scan(account, target) = scan[N]
  <1>. DEFINE queue == utxo_by_account[account]
              N == Len(queue)
              start == [verdict |-> "Ok", coins |-> <<>>, total |-> 0, done |-> FALSE]
              step == [x \in (1..N) \X ScanState |-> Visit(x[2], queue[x[1]], target)]
  <1>1. N \in Nat /\ \A n \in 1..N : queue[n] \in DOMAIN utxo
    OBVIOUS
  <1>2. start \in ScanState
    BY DEF ScanState
  <1>3. step \in [(1..N) \X ScanState -> ScanState]
    <2>1. \A n \in 1..N, s \in ScanState : Visit(s, queue[n], target) \in ScanState
      BY <1>1, VisitCases
    <2>2. \A x \in (1..N) \X ScanState : x[1] \in 1..N /\ x[2] \in ScanState
      OBVIOUS
    <2>. HIDE DEF queue, N
    <2>. QED
      BY <2>1, <2>2
  <1>4. PICK f : IsIteration(f, N, ScanState, start, step)
    <2>. HIDE DEF start, step, N
    <2>. QED
      BY <1>1, <1>2, <1>3, Iterates
  <1>5. /\ f \in [0..N -> ScanState] /\ f[0] = start
        /\ \A i \in 1..N : f[i] = Visit(f[i - 1], queue[i], target)
    <2>. HIDE DEF start, queue, N
    <2>1. f \in [0..N -> ScanState] /\ f[0] = start /\ \A i \in 1..N : f[i] = step[<<i, f[i - 1]>>]
      <3>. HIDE DEF step
      <3>. QED
        BY <1>4 DEF IsIteration
    <2>2. ASSUME NEW i \in 1..N
          PROVE  f[i] = Visit(f[i - 1], queue[i], target)
      <3>1. i - 1 \in 0..N
        BY <1>1
      <3>2. <<i, f[i - 1]>> \in (1..N) \X ScanState
        BY <2>1, <3>1
      <3>. QED
        BY <2>1, <3>2
    <2>. QED
      BY <2>1, <2>2
  <1>6. IsScan(f, queue, target)
    <2>1. \A n \in 0..N : n = 0 \/ n \in 1..N
      BY <1>1
    <2>2. f = [n \in 0..N |-> f[n]]
      BY <1>5
    <2>3. f = [n \in 0..N |-> IF n = 0 THEN start ELSE Visit(f[n - 1], queue[n], target)]
      <3>. HIDE DEF start, queue, N
      <3>. QED
        BY <1>5, <2>1, <2>2
    <2>. QED
      BY <2>3 DEF IsScan
  <1>. DEFINE scan == CHOOSE q : IsScan(q, queue, target)
  <1>7. Scan(account, target) = scan[N]
    BY DEF Scan, IsScan
  <1>8. IsScan(scan, queue, target)
    <2>. HIDE DEF queue
    <2>. QED
      BY <1>6
  <1>. HIDE DEF scan
  <1>9. /\ scan[0] = start
        /\ \A n \in 1..N : scan[n] = Visit(scan[n - 1], queue[n], target)
        /\ DOMAIN scan = 0..N
    <2>1. \A n \in 1..N : n \in 0..N /\ n # 0
      BY <1>1
    <2>2. 0 \in 0..N
      BY <1>1
    <2>3. scan = [n \in 0..N |-> IF n = 0 THEN start ELSE Visit(scan[n - 1], queue[n], target)]
      BY <1>8 DEF IsScan
    <2>. HIDE DEF start, queue, N
    <2>. QED
      BY <2>1, <2>2, <2>3
  <1>10. scan \in [0..N -> ScanState]
    <2>. DEFINE G == {n \in 0..N : scan[n] \in ScanState}
    <2>1. 0 \in G
      BY <1>1, <1>2, <1>9
    <2>2. ASSUME NEW n \in 1..N, n - 1 \in G
          PROVE  n \in G
      <3>1. scan[n - 1] \in ScanState /\ queue[n] \in DOMAIN utxo /\ n \in 0..N
        BY <1>1, <2>2
      <3>. DEFINE s == scan[n - 1]
                  id == queue[n]
      <3>2. scan[n] = Visit(s, id, target) /\ s \in ScanState /\ id \in DOMAIN utxo
        BY <1>9, <3>1
      <3>. HIDE DEF queue, N, s, id
      <3>3. Visit(s, id, target) \in ScanState
        BY <3>2, VisitCases
      <3>. QED
        BY <3>1, <3>2, <3>3
    <2>. HIDE DEF G, queue, N
    <2>3. \A n \in 0..N : n \in G
      BY <1>1, <2>1, <2>2, UpTo
    <2>4. scan = [n \in 0..N |-> scan[n]]
      <3>. USE DEF N
      <3>. QED
        BY <1>8 DEF IsScan
    <2>. QED
      BY <2>3, <2>4 DEF G
  <1>. QED
    BY <1>7, <1>9, <1>10

\* get_unspent answers what the contract answers from the log: each turn takes
\* the next output of the queue, or passes over a spent one.
LEMMA ScanIsAnswer ==
    ASSUME NewestFirst, IInv, QueuesInv, NEW account \in FullAccount, NEW target
    PROVE  /\ Scan(account, target).verdict = "Ok"
           /\ Scan(account, target).coins \in GetUnspent(log, account, target)
  <1>. DEFINE queue == utxo_by_account[account]
              N == Len(queue)
  <1>0. log \in Seq(Transaction)
    BY LogType
  <1>1. queue \in Seq(DOMAIN utxo)
    BY DEF QueuesInv
  <1>2. PICK order : Lists(NewToOld, order, PlacesOf(log, account)) /\ queue = Image(IdAt(log), order)
    BY DEF QueuesInv
  <1>3. /\ N = Len(order) /\ N \in Nat
        /\ \A n \in 1..N : /\ order[n] \in PlacesOf(log, account)
                            /\ queue[n] = UtxoAt(log, order[n]).id
    <2>1. order \in Seq(PlacesOf(log, account)) /\ DOMAIN order = 1..Len(order) /\ Len(order) \in Nat
      BY <1>2 DEF Lists
    <2>2. DOMAIN queue = DOMAIN order /\ \A n \in DOMAIN order : queue[n] = IdAt(log)[order[n]]
      BY <1>2 DEF Image
    <2>3. \A n \in DOMAIN order : /\ order[n] \in PlacesOf(log, account)
                                  /\ IdAt(log)[order[n]] = UtxoAt(log, order[n]).id
      BY <2>1 DEF IdAt, PlacesOf
    <2>4. N = Len(order)
      <3>. HIDE DEF queue
      <3>. QED
        BY <1>1, <2>1, <2>2
    <2>. HIDE DEF queue
    <2>. QED
      BY <2>1, <2>2, <2>3, <2>4
  <1>4. Visits(order, log, account)
    <2>1. PlacesOf(log, account) \in SUBSET Places(log)
      BY DEF PlacesOf
    <2>2. UnspentPlaces(log, account) \subseteq PlacesOf(log, account)
      BY UnspentOfPlaces
    <2>3. Lists(NewestFirst, order, PlacesOf(log, account))
      BY <1>2, NewToOldIsNewer
    <2>. QED
      BY <2>1, <2>2, <2>3, ListVisits
  <1>5. PICK scan : /\ scan \in [0..N -> ScanState]
                    /\ scan[0] = [verdict |-> "Ok", coins |-> <<>>, total |-> 0, done |-> FALSE]
                    /\ \A n \in 1..N : scan[n] = Visit(scan[n - 1], queue[n], target)
                    /\ Scan(account, target) = scan[N]
    BY <1>1, ScanDef
  <1>. HIDE DEF queue, N
  <1>. DEFINE Right(n) == HasCollected(scan[n], log, account, target, order, n)
              G == {n \in 0..N : Right(n)}
  <1>6. Right(0)
    <2>1. scan[0].coins = <<>> /\ scan[0].total = 0 /\ ~scan[0].done
      BY <1>5
    <2>. DEFINE s == scan[0]
    <2>. HIDE DEF s
    <2>2. HasCollected(s, log, account, target, order, 0)
      BY <1>0, <2>1, NothingCollected DEF s
    <2>. QED
      BY <2>2 DEF s
  <1>7. ASSUME NEW n \in 1..N, Right(n - 1)
        PROVE  Right(n)
    <2>. DEFINE s == scan[n - 1]
                v == scan[n]
                p == order[n]
                id == UtxoAt(log, p).id
    <2>1. s \in ScanState /\ v \in ScanState /\ n \in 1..Len(order)
      <3>1. n \in 0..N /\ n - 1 \in 0..N
        BY <1>3
      <3>. QED
        BY <1>3, <1>5, <3>1
    <2>2. v = Visit(s, id, target)
      BY <1>3, <1>5
    <2>3. p \in Places(log) /\ (p \in UnspentPlaces(log, account) <=> id \notin Spent(log))
      BY <1>3, UnspentOfPlaces DEF PlacesOf
    <2>4. /\ id \in DOMAIN utxo /\ utxo[id].amount = UtxoAt(log, p).amount
          /\ utxo[id].spent_at # None <=> id \in Spent(log)
      BY <2>3, InTable, MarkedIsSpent
    <2>5. [id |-> id, amount |-> UtxoAt(log, p).amount] = UtxoAt(log, p)
      BY DEF UtxoAt
    <2>6. HasCollected(s, log, account, target, order, n - 1)
      BY <1>7
    <2>. HIDE DEF s, v, p, id
    <2>. DEFINE w == Visit(s, id, target)
    <2>. HIDE DEF w
    <2>7. /\ s.done => w = s
          /\ ~s.done /\ utxo[id].spent_at # None => w = s
          /\ ~s.done /\ utxo[id].spent_at = None =>
                /\ w.coins = Append(s.coins, [id |-> id, amount |-> utxo[id].amount])
                /\ w.total = s.total + utxo[id].amount
                /\ w.done <=> \E amount \in target : amount <= s.total + utxo[id].amount
      BY <2>1, <2>4, VisitCases DEF w
    <2>8. /\ s.done \/ p \notin UnspentPlaces(log, account) => v = s
          /\ ~s.done /\ p \in UnspentPlaces(log, account) => Takes(v, s, UtxoAt(log, p), target)
      BY <2>2, <2>3, <2>4, <2>5, <2>7 DEF Takes, w
    <2>9. s.coins \in Seq(Utxo) /\ s.done \in BOOLEAN /\ v.done \in BOOLEAN
      BY <2>1 DEF ScanState
    <2>10. HasCollected(v, log, account, target, order, n)
      BY <1>0, <1>4, <2>1, <2>6, <2>8, <2>9, TurnCollects DEF p
    <2>. QED
      BY <2>10 DEF v
  <1>. HIDE DEF Right
  <1>8. Right(N)
    <2>1. 0 \in G /\ \A n \in 1..N : n - 1 \in G => n \in G
      BY <1>3, <1>6, <1>7
    <2>. HIDE DEF G
    <2>2. \A n \in 0..N : n \in G
      BY <1>3, <2>1, UpTo
    <2>. QED
      BY <1>3, <2>2 DEF G
  <1>9. scan[N].coins \in GetUnspent(log, account, target)
    <2>1. HasCollected(scan[N], log, account, target, order, Len(order))
      BY <1>3, <1>8 DEF Right
    <2>. QED
      BY <1>0, <1>4, <2>1, CollectedIsAnswer
  <1>10. scan[N].verdict = "Ok"
    <2>1. scan[N] \in ScanState
      BY <1>3, <1>5
    <2>. QED
      BY <2>1 DEF ScanState
  <1>. QED
    BY <1>5, <1>9, <1>10

-----------------------------------------------------------------------------
(* The theorems.                                                            *)

\* Every call keeps the invariant: reads and refused transactions change nothing.
LEMMA NextIInv == IInv /\ [Next]_vars => IInv'
  <1>. SUFFICES ASSUME IInv, [Next]_vars PROVE IInv'
    OBVIOUS
  <1>1. ASSUME UNCHANGED <<data, log>>
        PROVE  IInv'
    <2>1. UNCHANGED <<utxo, txs, txs_by_reference, log>>
      BY <1>1 DEF data
    <2>2. WellTyped' /\ UniqueIds(log') /\ InputsExist'
      BY <2>1 DEF IInv, WellTyped, UniqueIds, InputsExist, Inputs
    <2>3. KeysAgree'
      BY <2>1 DEF IInv, KeysAgree, Keys, Accounts
    <2>4. TablesAgree'
      BY <2>1 DEF IInv, TablesAgree, Created, Places, UtxoAt, OutputAt, Inputs
    <2>. QED
      BY <2>2, <2>3, <2>4 DEF IInv, UniqueIds
  <1>2. ASSUME NEW tx \in Txs, StoreTx(tx)
        PROVE  IInv'
    BY <1>1, <1>2, PersistIInv DEF StoreTx
  <1>3. CASE UNCHANGED vars
    BY <1>1, <1>3 DEF vars
  <1>. QED
    BY <1>1, <1>2, <1>3 DEF Next, ReadUnspent, GetTxByReference

\* The empty queues list the outputs of the empty log.
LEMMA InitQueues == Init => QueuesInv /\ HashesInv
  <1>. SUFFICES ASSUME Init PROVE QueuesInv /\ HashesInv
    OBVIOUS
  <1>1. /\ utxo_by_account = [account \in FullAccount |-> <<>>]
        /\ log = <<>> /\ DOMAIN log = {} /\ DOMAIN txs_by_account = {}
    BY DEF Init
  <1>2. \A account : PlacesOf(log, account) = {}
    BY <1>1 DEF PlacesOf, Places
  <1>3. Lists(NewToOld, <<>>, {}) /\ Image(IdAt(log), <<>>) = <<>>
    BY ListsOne DEF Image
  <1>4. QueuesInv
    BY <1>1, <1>2, <1>3 DEF QueuesInv
  <1>. QED
    BY <1>1, <1>4 DEF HashesInv

\* Every call keeps the queues in order.
LEMMA NextQueues == IInv /\ QueuesInv /\ HashesInv /\ [Next]_vars => QueuesInv' /\ HashesInv'
  <1>. SUFFICES ASSUME IInv, QueuesInv, HashesInv, [Next]_vars PROVE QueuesInv' /\ HashesInv'
    OBVIOUS
  <1>1. ASSUME UNCHANGED <<data, log>>
        PROVE  QueuesInv' /\ HashesInv'
    <2>1. UNCHANGED <<utxo, utxo_by_account, txs_by_account, log>>
      BY <1>1 DEF data
    <2>2. HashesInv'
      BY <2>1 DEF HashesInv
    <2>3. \A account, order : Lists(NewToOld, order, PlacesOf(log, account))' <=> Lists(NewToOld, order, PlacesOf(log, account))
      BY <2>1 DEF Lists, PlacesOf, Places, OutputAt
    <2>4. IdAt(log)' = IdAt(log)
      BY <2>1 DEF IdAt, Places, UtxoAt, OutputAt
    <2>5. QueuesInv'
      BY <2>1, <2>3, <2>4 DEF QueuesInv, Image
    <2>. QED
      BY <2>2, <2>5
  <1>2. ASSUME NEW tx \in Txs, StoreTx(tx)
        PROVE  QueuesInv' /\ HashesInv'
    BY <1>1, <1>2, PersistQueues, PersistHashes DEF StoreTx
  <1>3. CASE UNCHANGED vars
    BY <1>1, <1>3 DEF vars
  <1>. QED
    BY <1>1, <1>2, <1>3 DEF Next, ReadUnspent, GetTxByReference

\* The invariant always holds.
LEMMA Invariance == Spec => []IInv
  BY InitIInv, NextIInv, PTL DEF Spec

\* The queues are always in order.
LEMMA QueuesInvariance == Spec => [](IInv /\ QueuesInv /\ HashesInv)
  <1>1. IInv /\ [Next]_vars => IInv'
    BY NextIInv
  <1>. QED
    BY InitIInv, InitQueues, <1>1, NextQueues, PTL DEF Spec

\* The tables and indexes have the types their code gives them, and lead to
\* stored outputs and transactions only.
THEOREM TypeCorrect == Spec => []TypeOK
  <1>1. IInv /\ QueuesInv /\ HashesInv => TypeOK
    <2>. SUFFICES ASSUME IInv, QueuesInv, HashesInv PROVE TypeOK
      OBVIOUS
    <2>0. log \in Seq(Transaction) /\ log \in Seq(Txs)
      BY LogType DEF IInv, WellTyped
    <2>1. DOMAIN utxo \subseteq UtxoId
      <3>1. \A p \in Places(log) : UtxoAt(log, p).id \in UtxoId
        BY <2>0, PlaceType DEF Utxo
      <3>. QED
        BY <3>1 DEF IInv, TablesAgree, Created
    <2>2. /\ DOMAIN txs \subseteq HashId
          /\ \A h \in DOMAIN txs : txs[h] \in Txs /\ txs[h].id = h
      <3>1. \A i \in DOMAIN log : log[i] \in Txs /\ log[i] \in Transaction
        BY <2>0
      <3>2. \A i \in DOMAIN log : log[i].id \in HashId
        BY <3>1 DEF Transaction
      <3>. QED
        BY <3>1, <3>2 DEF IInv, TablesAgree
    <2>3. ASSUME NEW key \in DOMAIN txs_by_reference
          PROVE  key[1] \in FullAccount /\ txs_by_reference[key] \in DOMAIN txs
      <3>1. PICK i \in DOMAIN log : key \in Keys(log[i])
        BY DEF IInv, KeysAgree
      <3>2. PICK k \in DOMAIN log[i].to : key = <<log[i].to[k].account, log[i].reference>>
        BY <3>1 DEF Keys, Accounts
      <3>3. log[i].to[k] \in Output
        <4>1. log[i] \in Transaction
          BY <2>0
        <4>2. log[i].to \in Seq(Output)
          BY <4>1 DEF Transaction
        <4>. QED
          BY <4>2
      <3>4. txs_by_reference[key] = log[i].id
        BY <3>1 DEF IInv, KeysAgree
      <3>. QED
        BY <3>2, <3>3, <3>4 DEF Output, IInv, TablesAgree
    <2>4. ASSUME NEW account \in DOMAIN txs_by_account
          PROVE  account \in FullAccount /\ txs_by_account[account] \in Seq(DOMAIN txs)
      <3>. DEFINE queue == utxo_by_account[account]
      <3>1. account \in FullAccount
        BY DEF HashesInv
      <3>2. queue \in Seq(DOMAIN utxo) /\ txs_by_account[account] = [n \in DOMAIN queue |-> queue[n][1]]
        BY <3>1 DEF HashesInv, QueuesInv
      <3>3. \A id \in DOMAIN utxo : id[1] \in DOMAIN txs
        <4>1. \A p \in Places(log) : UtxoAt(log, p).id[1] = log[p[1]].id /\ p[1] \in DOMAIN log
          BY DEF UtxoAt, Places
        <4>. QED
          BY <4>1 DEF IInv, TablesAgree, Created
      <3>. HIDE DEF queue
      <3>4. DOMAIN queue = 1..Len(queue) /\ Len(queue) \in Nat /\ \A n \in DOMAIN queue : queue[n] \in DOMAIN utxo
        BY <3>2
      <3>5. txs_by_account[account] \in [1..Len(queue) -> DOMAIN txs]
        BY <3>2, <3>3, <3>4
      <3>. QED
        BY <3>1, <3>4, <3>5
    <2>. QED
      BY <2>0, <2>1, <2>2, <2>3, <2>4 DEF TypeOK, IInv, WellTyped, QueuesInv
  <1>. QED
    BY <1>1, QueuesInvariance, PTL

\* Whatever is stored, in whatever order, the table of transactions and the
\* table of outputs say what the log says.
THEOREM TablesAlwaysAgree == Spec => []TablesAgree
  <1>1. IInv => TablesAgree
    BY DEF IInv
  <1>. QED
    BY <1>1, Invariance, PTL

\* An account and a reference always lead to the transaction that credited the
\* account under the reference, and to none when there is none.
THEOREM ReferencesAlwaysAgree == Spec => []ReferencesAgree
  <1>1. IInv => ReferencesAgree
    <2>. SUFFICES ASSUME IInv PROVE ReferencesAgree
      OBVIOUS
    <2>. DEFINE key == [p \in Places(log) |-> <<OutputAt(log, p).account, log[p[1]].reference>>]
    <2>1. \A i \in DOMAIN log :
             Keys(log[i]) = {<<log[i].to[k].account, log[i].reference>> : k \in DOMAIN log[i].to}
      BY DEF Keys, Accounts
    <2>2. \A p \in Places(log) : p[1] \in DOMAIN log /\ key[p] \in Keys(log[p[1]])
      BY <2>1 DEF Places, OutputAt
    <2>3. ASSUME NEW i \in DOMAIN log, NEW k \in DOMAIN log[i].to
          PROVE  <<i, k>> \in Places(log) /\ key[<<i, k>>] = <<log[i].to[k].account, log[i].reference>>
      BY DEF Places, OutputAt
    <2>4. UNION {Keys(log[i]) : i \in DOMAIN log} = {key[p] : p \in Places(log)}
      <3>1. ASSUME NEW i \in DOMAIN log, NEW x \in Keys(log[i])
            PROVE  x \in {key[p] : p \in Places(log)}
        <4>1. PICK k \in DOMAIN log[i].to : x = <<log[i].to[k].account, log[i].reference>>
          BY <2>1
        <4>2. <<i, k>> \in Places(log) /\ key[<<i, k>>] = x
          BY <2>3, <4>1
        <4>. HIDE DEF key
        <4>. QED
          BY <4>2
      <3>. HIDE DEF key
      <3>. QED
        BY <2>2, <3>1
    <2>. HIDE DEF key
    <2>5. DOMAIN txs_by_reference = {key[p] : p \in Places(log)}
      BY <2>4 DEF IInv, KeysAgree
    <2>6. \A p \in Places(log) : txs_by_reference[key[p]] = log[p[1]].id
      BY <2>2 DEF IInv, KeysAgree
    <2>. QED
      BY <2>5, <2>6 DEF ReferencesAgree, key
  <1>. QED
    BY <1>1, Invariance, PTL

\* The queue of an account always holds each of its outputs once, spent or not,
\* the newest at the front, and the index of transactions follows the queues.
THEOREM QueuesAlwaysAgree == Spec => []QueuesAgree
  <1>1. IInv /\ QueuesInv /\ HashesInv => QueuesAgree
    <2>. SUFFICES ASSUME IInv, QueuesInv, HashesInv, NEW account \in FullAccount
                  PROVE  LET queue == utxo_by_account[account]
                             S == {q \in Places(log) : OutputAt(log, q).account = account}
                             place == [p \in S |-> UtxoAt(log, p).id]
                         IN  /\ ToSet(queue) = {place[p] : p \in DOMAIN place}
                             /\ \A p, q \in DOMAIN place : Newer(p, q) =>
                                   \E m, n \in DOMAIN queue :
                                      m < n /\ queue[m] = place[p] /\ queue[n] = place[q]
                             /\ Len(queue) = Cardinality(DOMAIN place)
      BY DEF QueuesAgree, HashesInv
    <2>. DEFINE queue == utxo_by_account[account]
                S == {q \in Places(log) : OutputAt(log, q).account = account}
                place == [p \in S |-> UtxoAt(log, p).id]
    <2>1. PICK order : Lists(NewToOld, order, S) /\ queue = Image(IdAt(log), order)
      BY DEF QueuesInv, PlacesOf
    <2>2. S \in SUBSET Places(log) /\ DOMAIN place = S
          /\ \A p \in S : place[p] = IdAt(log)[p]
      BY DEF IdAt
    <2>. HIDE DEF S, place
    <2>3. /\ Len(order) = Cardinality(S) /\ Len(order) \in Nat
          /\ DOMAIN order = 1..Len(order) /\ order \in [1..Len(order) -> S]
          /\ \A m, n \in DOMAIN order : Newer(order[m], order[n]) => m < n
      BY <2>1, <2>2, LogType, ListsCount, NewToOldIsNewer
    <2>4. DOMAIN queue = DOMAIN order /\ \A n \in DOMAIN order : queue[n] = place[order[n]]
      BY <2>1, <2>2, <2>3 DEF Image
    <2>5. \A p \in S : \E n \in DOMAIN order : order[n] = p
      BY <2>1 DEF Lists
    <2>. HIDE DEF queue
    <2>6. ToSet(queue) = {place[p] : p \in S}
      BY <2>3, <2>4, <2>5 DEF ToSet
    <2>7. ASSUME NEW p \in S, NEW q \in S, Newer(p, q)
          PROVE  \E m, n \in DOMAIN queue : m < n /\ queue[m] = place[p] /\ queue[n] = place[q]
      <3>1. PICK m \in DOMAIN order : order[m] = p
        BY <2>5
      <3>2. PICK n \in DOMAIN order : order[n] = q
        BY <2>5
      <3>3. m < n
        BY <2>3, <2>7, <3>1, <3>2
      <3>. QED
        BY <2>4, <3>1, <3>2, <3>3
    <2>8. Len(queue) = Cardinality(S)
      <3>1. DOMAIN queue = 1..Len(order) /\ queue \in Seq(DOMAIN utxo)
        BY <2>3, <2>4 DEF queue, QueuesInv
      <3>. QED
        BY <2>3, <3>1
    <2>9. /\ ToSet(queue) = {place[p] : p \in DOMAIN place}
          /\ \A p, q \in DOMAIN place : Newer(p, q) =>
                \E m, n \in DOMAIN queue : m < n /\ queue[m] = place[p] /\ queue[n] = place[q]
          /\ Len(queue) = Cardinality(DOMAIN place)
      BY <2>2, <2>6, <2>7, <2>8
    <2>. QED
      BY <2>9 DEF queue, place, S
  <1>. QED
    BY <1>1, QueuesInvariance, PTL

\* No call, whatever it stores, marks a spent output anew or frees it.
THEOREM SpentStaysSpent == Spec => SpentForever
  <1>. DEFINE Kept == \A id \in DOMAIN utxo : utxo[id].spent_at # None =>
                        id \in DOMAIN utxo' /\ utxo'[id].spent_at = utxo[id].spent_at
  <1>1. ASSUME IInv, NEW tx \in Txs, StoreTx(tx)
        PROVE  Kept
    <2>1. CASE Checks(tx) = "Ok"
      <3>1. ASSUME NEW id \in DOMAIN utxo, utxo[id].spent_at # None
            PROVE  id \in DOMAIN utxo' /\ utxo'[id].spent_at = utxo[id].spent_at
        <4>1. /\ DOMAIN utxo' = DOMAIN utxo \cup NewIds(tx)
              /\ \A i \in NewIds(tx) : i \notin DOMAIN utxo
              /\ Inputs(tx) \cap Spent(log) = {}
          BY <1>1, <2>1, StoredFacts DEF StoreTx
        <4>2. id \in DOMAIN utxo' /\ id \notin NewIds(tx)
          BY <4>1
        <4>3. id \notin Inputs(tx)
          BY <1>1, <3>1, <4>1, MarkedIsSpent
        <4>4. utxo'[id].spent_at = IF id \in Inputs(tx) THEN {tx.id} ELSE utxo[id].spent_at
          BY <1>1, <2>1, <4>2, EntryAfter DEF StoreTx
        <4>. QED
          BY <4>2, <4>3, <4>4
      <3>. QED
        BY <3>1
    <2>2. CASE Checks(tx) # "Ok"
      BY <1>1, <2>2 DEF StoreTx, data
    <2>. QED
      BY <2>1, <2>2
  <1>2. IInv /\ [Next]_vars => [Kept]_vars
    <2>1. ASSUME IInv, Next PROVE Kept
      <3>1. CASE UNCHANGED <<data, log>>
        BY <3>1 DEF data
      <3>. QED
        BY <1>1, <2>1, <3>1 DEF Next, ReadUnspent, GetTxByReference
    <2>. QED
      BY <2>1
  <1>. QED
    BY <1>2, Invariance, PTL DEF Spec, SpentForever

\* The contract reads a log as this module does.
LEMMA SameReading ==
    ASSUME NEW lg, NEW tx, NEW account, NEW reference
    PROVE  /\ Contract!Verdict(lg, tx) = Verdict(lg, tx)
           /\ Contract!Found(lg, account, reference) = Found(lg, account, reference)
  <1>1. \A p : Contract!UtxoAt(lg, p) = UtxoAt(lg, p)
    BY DEF Contract!UtxoAt, UtxoAt, Contract!OutputAt, OutputAt
  <1>2. Contract!Places(lg) = Places(lg) /\ Contract!Spent(lg) = Spent(lg)
    BY DEF Contract!Places, Places, Contract!Spent, Spent
  <1>3. Contract!Created(lg) = Created(lg)
    BY <1>1, <1>2 DEF Contract!Created, Created
  <1>4. \A input : Contract!InputVerdict(lg, input) = InputVerdict(lg, input)
    BY <1>1, <1>2, <1>3 DEF Contract!InputVerdict, InputVerdict
  <1>5. \A a, r : Contract!Found(lg, a, r) = Found(lg, a, r)
    BY DEF Contract!Found, Found
  <1>6. Contract!IsDuplicate(lg, tx) <=> IsDuplicate(lg, tx)
    BY <1>5 DEF Contract!IsDuplicate, IsDuplicate
  <1>7. {k \in DOMAIN tx.from : Contract!InputVerdict(lg, tx.from[k]) # "Ok"}
           = {k \in DOMAIN tx.from : InputVerdict(lg, tx.from[k]) # "Ok"}
    BY <1>4
  <1>. QED
    BY <1>4, <1>5, <1>6, <1>7 DEF Contract!Verdict, Verdict

\* The contract selects as this module does.
LEMMA SameSelection ==
    ASSUME NEW lg, NEW account, NEW target
    PROVE  Contract!GetUnspent(lg, account, target) = GetUnspent(lg, account, target)
  <1>1. \A p : /\ Contract!OutputAt(lg, p) = OutputAt(lg, p)
               /\ Contract!UtxoAt(lg, p) = UtxoAt(lg, p)
    BY DEF Contract!UtxoAt, UtxoAt, Contract!OutputAt, OutputAt
  <1>2. Contract!Places(lg) = Places(lg) /\ Contract!Spent(lg) = Spent(lg)
    BY DEF Contract!Places, Places, Contract!Spent, Spent
  <1>3. Contract!UnspentPlaces(lg, account) = UnspentPlaces(lg, account)
    BY <1>1, <1>2 DEF Contract!UnspentPlaces, UnspentPlaces
  <1>4. \A p, q : Contract!Before(p, q) <=> Before(p, q)
    BY DEF Contract!Before, Before, Contract!Newer, Newer
  <1>5. \A S : Contract!Scans(S) = Scans(S)
    BY <1>4 DEF Contract!Scans, Scans
  <1>6. \A S : Contract!SumAt(lg, S) = SumAt(lg, S)
    BY DEF Contract!SumAt, SumAt, Contract!OutputAt, OutputAt,
           Contract!MapThenSumSet, MapThenSumSet, Contract!MapThenFoldSet, MapThenFoldSet
  <1>7. \A S : Contract!Enough(lg, S, target) <=> Enough(lg, S, target)
    BY <1>6 DEF Contract!Enough, Enough
  <1>8. Contract!Taken(lg, account, target) = Taken(lg, account, target)
    BY <1>3, <1>5, <1>7 DEF Contract!Taken, Taken
  <1>9. \A S : Contract!SetToSeqs(S) = SetToSeqs(S)
    <2>1. \A S : Contract!Cardinality(S) = Cardinality(S)
      BY DEF Contract!Cardinality, Cardinality
    <2>. QED
      BY <2>1 DEF Contract!SetToSeqs, SetToSeqs
  <1>. QED
    BY <1>1, <1>4, <1>8, <1>9 DEF Contract!GetUnspent, GetUnspent

\* store_tx is that of the contract: it answers and commits from the tables
\* what the contract does from the log.
LEMMA StoresAsPromised ==
    ASSUME IInv, NEW tx \in Txs, StoreTx(tx)
    PROVE  Contract!StoreTx(tx)
  <1>1. Checks(tx) = Verdict(log, tx)
    BY ChecksAreVerdict
  <1>2. reply' = [to |-> "store_tx", tx |-> tx.id, verdict |-> Verdict(log, tx)]
    BY <1>1 DEF StoreTx
  <1>3. log' = IF Verdict(log, tx) = "Ok" THEN Append(log, tx) ELSE log
    BY <1>1 DEF StoreTx, Persist
  <1>. QED
    BY <1>2, <1>3, SameReading DEF Contract!StoreTx

\* get_tx_by_reference is that of the contract.
LEMMA FindsAsPromised ==
    ASSUME IInv, NEW account, NEW reference, GetTxByReference(account, reference)
    PROVE  Contract!GetTxByReference(account, reference)
  <1>. DEFINE key == <<account, reference>>
              hit == {txs_by_reference[k] : k \in {key} \cap DOMAIN txs_by_reference}
              found == Found(log, account, reference)
  <1>1. /\ key \in DOMAIN txs_by_reference <=> found # {}
        /\ \A i \in found : txs_by_reference[key] = log[i].id
    BY LookupIsFound
  <1>2. hit = {log[i].id : i \in found}
    BY <1>1
  <1>3. found \subseteq DOMAIN log
    BY DEF Found
  <1>4. \A i \in found : log[i].id \in DOMAIN txs /\ txs[log[i].id] = log[i]
    BY <1>3 DEF IInv, TablesAgree
  <1>5. hit \subseteq DOMAIN txs /\ {txs[h] : h \in hit \cap DOMAIN txs} = {log[i] : i \in found}
    BY <1>2, <1>4
  <1>6. reply' = [to |-> "get_tx_by_reference", key |-> key, verdict |-> "Ok",
                  tx |-> {log[i] : i \in found}] /\ UNCHANGED log
    <2>. HIDE DEF found
    <2>1. reply' = [to |-> "get_tx_by_reference", key |-> key,
                    verdict |-> IF hit \subseteq DOMAIN txs THEN "Ok" ELSE "Internal",
                    tx |-> {txs[h] : h \in hit \cap DOMAIN txs}] /\ UNCHANGED log
      BY DEF GetTxByReference
    <2>. HIDE DEF hit, key
    <2>. QED
      BY <1>5, <2>1
  <1>. QED
    BY <1>6, SameReading DEF Contract!GetTxByReference

\* get_unspent is that of the contract.
LEMMA SelectsAsPromised ==
    ASSUME NewestFirst, IInv, QueuesInv, NEW account \in FullAccount, NEW target,
           ReadUnspent(account, target)
    PROVE  Contract!ReadUnspent(account, target)
  <1>. DEFINE scan == Scan(account, target)
  <1>1. scan.verdict = "Ok" /\ scan.coins \in Contract!GetUnspent(log, account, target)
    BY ScanIsAnswer, SameSelection
  <1>2. reply' = [to |-> "get_unspent", account |-> account, target |-> target,
                  verdict |-> scan.verdict,
                  coins |-> IF scan.verdict = "Ok" THEN scan.coins ELSE <<>>]
        /\ UNCHANGED log
    BY DEF ReadUnspent
  <1>. HIDE DEF scan
  <1>3. reply' = [to |-> "get_unspent", account |-> account, target |-> target,
                  verdict |-> "Ok", coins |-> scan.coins]
    BY <1>1, <1>2
  <1>. QED
    BY <1>1, <1>2, <1>3 DEF Contract!ReadUnspent

\* store_tx and get_tx_by_reference are those of the Storage contract: they
\* answer and commit from the tables what the contract does from the log.
THEOREM StoresAndFindsAsPromised ==
    Spec => [][/\ \A tx \in Txs : StoreTx(tx) => Contract!StoreTx(tx)
               /\ \A account \in FullAccount, tx \in Txs :
                     GetTxByReference(account, tx.reference)
                        => Contract!GetTxByReference(account, tx.reference)]_vars
  <1>1. IInv /\ [Next]_vars =>
           [/\ \A tx \in Txs : StoreTx(tx) => Contract!StoreTx(tx)
            /\ \A account \in FullAccount, tx \in Txs :
                  GetTxByReference(account, tx.reference)
                     => Contract!GetTxByReference(account, tx.reference)]_vars
    BY StoresAsPromised, FindsAsPromised
  <1>. QED
    BY <1>1, Invariance, PTL DEF Spec

\* With outputs selected newest first, every step of the backend is a step of
\* the Storage contract: no table, index or queue shows in what it answers.
THEOREM ImplementsContract ==
    ASSUME NewestFirst
    PROVE  Spec => ImplementsStorage
  <1>1. Init => Contract!Init
    BY DEF Init, Contract!Init
  <1>2. IInv /\ QueuesInv /\ [Next]_vars => [Contract!Next]_(Contract!vars)
    <2>. SUFFICES ASSUME IInv, QueuesInv, [Next]_vars PROVE [Contract!Next]_(Contract!vars)
      OBVIOUS
    <2>1. ASSUME NEW tx \in Txs, StoreTx(tx)
          PROVE  Contract!Next
      BY <2>1, StoresAsPromised DEF Contract!Next
    <2>2. ASSUME NEW account \in FullAccount, NEW target \in Targets, ReadUnspent(account, target)
          PROVE  Contract!Next
      <3>1. Contract!ReadUnspent(account, target)
        BY <2>2, SelectsAsPromised
      <3>2. Contract!FullAccount = FullAccount
        BY DEF Contract!FullAccount, FullAccount, Contract!Type, Type
      <3>. QED
        BY <3>1, <3>2 DEF Contract!Next
    <2>3. ASSUME NEW account \in FullAccount, NEW tx \in Txs, GetTxByReference(account, tx.reference)
          PROVE  Contract!Next
      <3>1. Contract!GetTxByReference(account, tx.reference)
        BY <2>3, FindsAsPromised
      <3>2. Contract!FullAccount = FullAccount
        BY DEF Contract!FullAccount, FullAccount, Contract!Type, Type
      <3>. QED
        BY <3>1, <3>2 DEF Contract!Next
    <2>4. CASE UNCHANGED vars
      BY <2>4 DEF vars, Contract!vars
    <2>. QED
      BY <2>1, <2>2, <2>3, <2>4 DEF Next
  <1>. QED
    BY <1>1, <1>2, QueuesInvariance, PTL DEF Spec, ImplementsStorage, Contract!Spec
=============================================================================
