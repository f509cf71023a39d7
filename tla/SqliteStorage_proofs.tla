------------------------ MODULE SqliteStorage_proofs ------------------------
(***************************************************************************)
(* The SQLite backend, for any number of processes on one file, any        *)
(* transactions and any column width, wherever a process stops.            *)
(*                                                                         *)
(* At most one connection has written.  Its tables are the committed ones  *)
(* and what the statements so far make of them, which is known from the    *)
(* statement it is at; the others have only read.  What a connection has   *)
(* read about an input stays true enough until it writes: rows are never   *)
(* deleted and keep their amounts, although they may be spent meanwhile.   *)
(*                                                                         *)
(* When one process has the file alone, what it was answered stays wholly  *)
(* true until it commits, and the backend does what the contract says.     *)
(***************************************************************************)
EXTENDS SqliteStorage, TxLog_proofs, FunctionTheorems, SequenceTheorems

-----------------------------------------------------------------------------
(* The inductive invariant.                                                 *)

\* The rows are the outputs of the log, in the order of the commits: row i is
\* the output at place[i].
Filed(rows, lg, place) ==
    /\ \A i \in DOMAIN rows :
          /\ rows[i].id = UtxoAt(lg, place[i]).id
          /\ rows[i].account = OutputAt(lg, place[i]).account
          /\ rows[i].amount = AsColumn(OutputAt(lg, place[i]).amount)
    /\ \A i, j \in DOMAIN rows : i < j => Newer(place[j], place[i])
    /\ \A p \in Places(lg) : \E i \in DOMAIN rows : place[i] = p

SpendersIn(lg, id) ==
    {lg[i].id : i \in {j \in DOMAIN lg : \E k \in DOMAIN lg[j].from : lg[j].from[k].id = id}}

\* The tables hold what the log says, and the hashes of the log are different.
Agree(tables, lg) ==
    /\ UniqueIds(lg)
    /\ DOMAIN tables.transactions = {lg[i].id : i \in DOMAIN lg}
    /\ \A i \in DOMAIN lg : tables.transactions[lg[i].id] = lg[i]
    /\ \E place \in [DOMAIN tables.utxos -> Places(lg)] : Filed(tables.utxos, lg, place)
    /\ \A i \in DOMAIN tables.utxos : LET row == tables.utxos[i] IN
          /\ row.spent_at \subseteq SpendersIn(lg, row.id)
          /\ row.spent_at = None <=> SpendersIn(lg, row.id) = {}
    /\ \A i \in DOMAIN lg : \A k \in DOMAIN lg[i].to :
          /\ Key(lg[i], k) \in DOMAIN tables.tx_references
          /\ tables.tx_references[Key(lg[i], k)] = lg[i].id
    /\ \A key \in DOMAIN tables.tx_references :
          \E i \in DOMAIN lg : \E k \in DOMAIN lg[i].to : key = Key(lg[i], k)
    /\ tables.accounts = {OutputAt(lg, p).account : p \in Places(lg)}

\* An input names an output there is, at its amount as the column holds it.
Checked(lg, input) ==
    \E p \in Places(lg) : /\ UtxoAt(lg, p).id = input.id
                          /\ AsColumn(OutputAt(lg, p).amount) = AsColumn(input.amount)

InputsChecked(lg) == \A i \in DOMAIN lg : \A k \in DOMAIN lg[i].from : Checked(lg, lg[i].from[k])

\* How many inputs are marked, and how many outputs, references and accounts
\* are inserted, before statement s.
Marked(tx, s) == IF s.on = "spent_at" THEN s.n - 1 ELSE Len(tx.from)

InsertedBy(tx, s, done, open) ==
    CASE s.on \in done -> s.n
      [] s.on \in open -> s.n - 1
      [] s.on = "spent_at" -> 0
      [] OTHER -> Len(tx.to)

Outputs(tx, s) == InsertedBy(tx, s, {"tx_references", "accounts"}, {"utxos"})
Refs(tx, s) == InsertedBy(tx, s, {"accounts"}, {"utxos", "tx_references"})
Accounts(tx, s) == InsertedBy(tx, s, {}, {"utxos", "tx_references", "accounts"})

IsStatement(tx, s) ==
    \/ s = End
    \/ s.on = "spent_at" /\ s.n \in DOMAIN tx.from
    \/ s.on \in {"utxos", "tx_references", "accounts"} /\ s.n \in DOMAIN tx.to

\* The row of the k-th output of tx.
NewRow(tx, k) ==
    [id |-> <<tx.id, k - 1>>, account |-> tx.to[k].account,
     amount |-> AsColumn(tx.to[k].amount), spent_at |-> None]

\* Row new is row old, marked as spent if one of the first f inputs of tx is it.
SpentRow(new, old, tx, f) ==
    /\ new.id = old.id /\ new.account = old.account /\ new.amount = old.amount
    /\ new.spent_at = IF \E k \in 1..f : tx.from[k].id = old.id THEN Some(tx.id)
                      ELSE old.spent_at

\* What tx makes of the tables base, when f of its inputs are marked and o of
\* its outputs, r of its references and a of its accounts are inserted.
Partly(base, tables, tx, f, o, r, a) ==
    /\ tx.id \notin DOMAIN base.transactions
    /\ tables.transactions = With(base.transactions, tx.id, tx)
    /\ Len(tables.utxos) = Len(base.utxos) + o
    /\ \A i \in DOMAIN base.utxos : SpentRow(tables.utxos[i], base.utxos[i], tx, f)
    /\ \A k \in 1..o : tables.utxos[Len(base.utxos) + k] = NewRow(tx, k)
    /\ DOMAIN tables.tx_references
          = DOMAIN base.tx_references \cup {Key(tx, k) : k \in 1..r}
    /\ \A key \in DOMAIN base.tx_references :
          tables.tx_references[key] = base.tx_references[key]
    /\ \A k \in 1..r : tables.tx_references[Key(tx, k)] = tx.id
    /\ tables.accounts = base.accounts \cup {tx.to[k].account : k \in 1..a}

Progress(base, tables, tx, s) ==
    Partly(base, tables, tx, Marked(tx, s), Outputs(tx, s), Refs(tx, s), Accounts(tx, s))

IsQuestion(tx, q) ==
    \/ q = First
    \/ q.on = "tx_references" /\ q.n \in DOMAIN tx.to
    \/ q.on = "utxos" /\ q.n \in DOMAIN tx.from

\* Well-formed tables: a record of the four.
AreTables(tables) ==
    /\ TablesType(tables)
    /\ tables = [transactions |-> tables.transactions, utxos |-> tables.utxos,
                 tx_references |-> tables.tx_references, accounts |-> tables.accounts]

\* A call that still asks has checked the inputs before its question.
CheckState(state, lg) ==
    /\ state = [at |-> "check", tx |-> state.tx, next |-> state.next]
    /\ state.tx \in Txs
    /\ IsQuestion(state.tx, state.next)
    /\ state.next.on = "utxos" =>
          \A k \in 1..(state.next.n - 1) : Checked(lg, state.tx.from[k])

\* A call that writes has checked all its inputs, and is at the first statement
\* or has written what the statements before the next one do.
WriteState(state, base, lg) ==
    /\ state = [at |-> "write", tx |-> state.tx, next |-> state.next, mine |-> state.mine]
    /\ state.tx \in Txs
    /\ \A k \in DOMAIN state.tx.from : Checked(lg, state.tx.from[k])
    /\ IF state.mine = None THEN state.next = First
       ELSE /\ IsStatement(state.tx, state.next)
            /\ \A tables \in state.mine : /\ AreTables(tables)
                                          /\ Progress(base, tables, state.tx, state.next)

\* A call between its two SELECTs has the hash that the reference leads to.
FetchState(state, base) ==
    /\ \E account \in FullAccount : \E tx \in Txs : state.key = <<account, tx.reference>>
    /\ state.key \in DOMAIN base.tx_references
    /\ state.hash = base.tx_references[state.key]

CallInv(state, base, lg) ==
    /\ state.at \in {"idle", "closed", "check", "write", "fetch"}
    /\ state.at = "check" => CheckState(state, lg)
    /\ state.at = "write" => WriteState(state, base, lg)
    /\ state.at = "fetch" => FetchState(state, base)

OneWriter == \A c, d \in Conn : Writing(c) /\ Writing(d) => c = d

Inv ==
    /\ AreTables(db)
    /\ log \in Seq(Txs)
    /\ call = [c \in Conn |-> call[c]]
    /\ Agree(db, log)
    /\ InputsChecked(log)
    /\ OneWriter
    /\ \A c \in Conn : CallInv(call[c], db, log)
-----------------------------------------------------------------------------
(* Types.                                                                   *)

\* The parts of a transaction that is to be stored.
LEMMA TxParts ==
    ASSUME NEW tx \in Txs
    PROVE  /\ tx \in Transaction /\ tx.id \in HashId
           /\ tx.from \in Seq(Utxo) /\ tx.to \in Seq(Output)
           /\ \A k \in DOMAIN tx.to : tx.to[k].account \in FullAccount /\ tx.to[k].amount \in Int
           /\ DOMAIN tx.to = 1..Len(tx.to) /\ Len(tx.to) \in Nat
           /\ DOMAIN tx.from = 1..Len(tx.from) /\ Len(tx.from) \in Nat
  <1>1. tx \in Transaction
    BY TxsAreTransactions
  <1>2. tx.id \in HashId /\ tx.from \in Seq(Utxo) /\ tx.to \in Seq(Output)
    BY <1>1 DEF Transaction
  <1>3. \A k \in DOMAIN tx.to : tx.to[k] \in Output
    BY <1>2
  <1>4. \A k \in DOMAIN tx.to : tx.to[k].account \in FullAccount /\ tx.to[k].amount \in Int
    BY <1>3 DEF Output
  <1>. QED
    BY <1>1, <1>2, <1>4

\* A remainder is less than what is divided by.
LEMMA Remainder == \A n \in Nat \ {0}, m \in Int : m % n \in 0..(n - 1)
  BY SMT

\* What a cast leaves fits the column.
LEMMA ColumnType ==
    ASSUME NEW m \in Int
    PROVE  AsColumn(m) \in -Limit .. Limit - 1
  <1>. DEFINE n == 2 * Limit
              x == m + Limit
  <1>1. n \in Nat \ {0} /\ x \in Int /\ Limit \in Nat /\ n = 2 * Limit
    BY LimitIsPositive
  <1>. HIDE DEF n, x
  <1>2. x % n \in 0..(n - 1)
    BY <1>1, Remainder
  <1>3. (x % n) - Limit \in -Limit .. Limit - 1
    BY <1>1, <1>2
  <1>. QED
    BY <1>3 DEF AsColumn, n, x

\* The row of an output is a row of the table.
LEMMA NewRowType ==
    ASSUME NEW tx \in Txs, NEW k \in DOMAIN tx.to
    PROVE  NewRow(tx, k) \in Row
  <1>1. /\ tx.id \in HashId /\ k - 1 \in Nat
        /\ tx.to[k].account \in FullAccount /\ tx.to[k].amount \in Int
    BY TxParts
  <1>2. AsColumn(tx.to[k].amount) \in -Limit .. Limit - 1
    BY <1>1, ColumnType
  <1>. QED
    BY <1>1, <1>2 DEF NewRow, Row, UtxoId, None

-----------------------------------------------------------------------------
(* What one statement does.                                                 *)

\* INSERT INTO transactions adds the transaction, which was not there.
LEMMA TransactionInserted ==
    ASSUME NEW tx \in Txs, NEW base, AreTables(base), NEW tables \in InsertTx(base, tx)
    PROVE  /\ AreTables(tables)
           /\ tx.id \notin DOMAIN base.transactions
           /\ tables.transactions = With(base.transactions, tx.id, tx)
           /\ tables.utxos = base.utxos /\ tables.tx_references = base.tx_references
           /\ tables.accounts = base.accounts
  <1>1. tx.id \notin DOMAIN base.transactions
        /\ tables = [base EXCEPT !.transactions = With(@, tx.id, tx)]
    BY DEF InsertTx
  <1>2. tables = [transactions |-> With(base.transactions, tx.id, tx), utxos |-> base.utxos,
                  tx_references |-> base.tx_references, accounts |-> base.accounts]
    BY <1>1 DEF AreTables
  <1>3. /\ tables.transactions = With(base.transactions, tx.id, tx)
        /\ tables.utxos = base.utxos /\ tables.tx_references = base.tx_references
        /\ tables.accounts = base.accounts
    BY <1>2
  <1>4. tx.id \in HashId
    BY TxParts
  <1>5. TablesType(tables)
    BY <1>3, <1>4 DEF AreTables, TablesType, With
  <1>. QED
    BY <1>1, <1>2, <1>3, <1>5 DEF AreTables

\* UPDATE utxos changes nothing but who spent a row.
LEMMA InputMarked ==
    ASSUME NEW tx \in Txs, NEW k, NEW base, AreTables(base),
           NEW tables \in MarkSpent(base, tx, k)
    PROVE  /\ AreTables(tables)
           /\ tables.transactions = base.transactions
           /\ DOMAIN tables.utxos = DOMAIN base.utxos /\ Len(tables.utxos) = Len(base.utxos)
           /\ \A i \in DOMAIN base.utxos :
                 /\ tables.utxos[i].id = base.utxos[i].id
                 /\ tables.utxos[i].account = base.utxos[i].account
                 /\ tables.utxos[i].amount = base.utxos[i].amount
                 /\ tables.utxos[i].spent_at = IF base.utxos[i].id = tx.from[k].id
                                               THEN Some(tx.id) ELSE base.utxos[i].spent_at
           /\ tables.tx_references = base.tx_references
           /\ tables.accounts = base.accounts
  <1>. DEFINE row(i) == IF base.utxos[i].id = tx.from[k].id
                        THEN [base.utxos[i] EXCEPT !.spent_at = Some(tx.id)] ELSE base.utxos[i]
              rows == [i \in DOMAIN base.utxos |-> row(i)]
  <1>1. tables = [base EXCEPT !.utxos = rows]
    BY DEF MarkSpent
  <1>2. base.utxos \in Seq(Row) /\ tx.id \in HashId
    BY TxParts DEF AreTables, TablesType
  <1>3. ASSUME NEW i \in DOMAIN base.utxos
        PROVE  /\ row(i) \in Row
               /\ row(i).id = base.utxos[i].id
               /\ row(i).account = base.utxos[i].account
               /\ row(i).amount = base.utxos[i].amount
               /\ row(i).spent_at = IF base.utxos[i].id = tx.from[k].id
                                    THEN Some(tx.id) ELSE base.utxos[i].spent_at
    <2>1. base.utxos[i] \in Row
      BY <1>2, <1>3
    <2>. QED
      BY <1>2, <2>1 DEF Row, Some
  <1>. HIDE DEF row
  <1>4. rows \in Seq(Row) /\ DOMAIN rows = DOMAIN base.utxos /\ Len(rows) = Len(base.utxos)
    BY <1>2, <1>3
  <1>5. \A i \in DOMAIN base.utxos : rows[i] = row(i)
    OBVIOUS
  <1>. HIDE DEF rows
  <1>6. tables = [transactions |-> base.transactions, utxos |-> rows,
                  tx_references |-> base.tx_references, accounts |-> base.accounts]
    BY <1>1 DEF AreTables
  <1>7. /\ tables.transactions = base.transactions
        /\ tables.utxos = rows /\ tables.tx_references = base.tx_references
        /\ tables.accounts = base.accounts
    BY <1>6
  <1>8. AreTables(tables)
    BY <1>4, <1>6, <1>7 DEF AreTables, TablesType
  <1>. QED
    BY <1>3, <1>4, <1>5, <1>7, <1>8

\* INSERT INTO utxos appends the row of the output.
LEMMA OutputInserted ==
    ASSUME NEW tx \in Txs, NEW k \in DOMAIN tx.to, NEW base, AreTables(base),
           NEW tables \in InsertUtxo(base, tx, k)
    PROVE  /\ AreTables(tables)
           /\ tables.transactions = base.transactions
           /\ tables.utxos = Append(base.utxos, NewRow(tx, k))
           /\ tables.tx_references = base.tx_references
           /\ tables.accounts = base.accounts
  <1>1. tables = [base EXCEPT !.utxos = Append(@, NewRow(tx, k))]
    BY DEF InsertUtxo, NewRow
  <1>2. tables = [transactions |-> base.transactions, utxos |-> Append(base.utxos, NewRow(tx, k)),
                  tx_references |-> base.tx_references, accounts |-> base.accounts]
    BY <1>1 DEF AreTables
  <1>3. /\ tables.transactions = base.transactions
        /\ tables.utxos = Append(base.utxos, NewRow(tx, k))
        /\ tables.tx_references = base.tx_references
        /\ tables.accounts = base.accounts
    BY <1>2
  <1>4. Append(base.utxos, NewRow(tx, k)) \in Seq(Row)
    BY NewRowType DEF AreTables, TablesType
  <1>5. AreTables(tables)
    BY <1>2, <1>3, <1>4 DEF AreTables, TablesType
  <1>. QED
    BY <1>3, <1>5

\* INSERT INTO tx_references adds a key that was not there.
LEMMA ReferenceInserted ==
    ASSUME NEW tx \in Txs, NEW k \in DOMAIN tx.to, NEW base, AreTables(base),
           NEW tables \in InsertReference(base, tx, k)
    PROVE  /\ AreTables(tables)
           /\ tables.transactions = base.transactions /\ tables.utxos = base.utxos
           /\ Key(tx, k) \notin DOMAIN base.tx_references
           /\ tables.tx_references = With(base.tx_references, Key(tx, k), tx.id)
           /\ tables.accounts = base.accounts
  <1>. DEFINE key == Key(tx, k)
              references == With(base.tx_references, key, tx.id)
  <1>1. key \notin DOMAIN base.tx_references /\ tables = [base EXCEPT !.tx_references = references]
    BY DEF InsertReference
  <1>2. key[1] \in FullAccount /\ tx.id \in HashId
    BY TxParts DEF Key
  <1>. HIDE DEF key
  <1>3. \A other \in DOMAIN references :
           other[1] \in FullAccount /\ references[other] \in HashId
    BY <1>2 DEF AreTables, TablesType, With
  <1>. HIDE DEF references
  <1>4. tables = [transactions |-> base.transactions, utxos |-> base.utxos,
                  tx_references |-> references, accounts |-> base.accounts]
    BY <1>1 DEF AreTables
  <1>5. /\ tables.transactions = base.transactions /\ tables.utxos = base.utxos
        /\ tables.tx_references = references /\ tables.accounts = base.accounts
    BY <1>4
  <1>6. AreTables(tables)
    BY <1>3, <1>4, <1>5 DEF AreTables, TablesType
  <1>. QED
    BY <1>1, <1>5, <1>6 DEF key, references

\* INSERT OR IGNORE INTO accounts adds the account if it was not there.
LEMMA AccountInserted ==
    ASSUME NEW tx \in Txs, NEW k \in DOMAIN tx.to, NEW base, AreTables(base),
           NEW tables \in InsertAccount(base, tx, k)
    PROVE  /\ AreTables(tables)
           /\ tables.transactions = base.transactions /\ tables.utxos = base.utxos
           /\ tables.tx_references = base.tx_references
           /\ tables.accounts = base.accounts \cup {tx.to[k].account}
  <1>. DEFINE accounts == base.accounts \cup {tx.to[k].account}
  <1>1. tables = [base EXCEPT !.accounts = accounts]
    BY DEF InsertAccount
  <1>2. accounts \subseteq FullAccount
    BY TxParts DEF AreTables, TablesType
  <1>. HIDE DEF accounts
  <1>3. tables = [transactions |-> base.transactions, utxos |-> base.utxos,
                  tx_references |-> base.tx_references, accounts |-> accounts]
    BY <1>1 DEF AreTables
  <1>4. /\ tables.transactions = base.transactions /\ tables.utxos = base.utxos
        /\ tables.tx_references = base.tx_references /\ tables.accounts = accounts
    BY <1>3
  <1>5. AreTables(tables)
    BY <1>2, <1>3, <1>4 DEF AreTables, TablesType
  <1>. QED
    BY <1>4, <1>5 DEF accounts
-----------------------------------------------------------------------------
(* The progress of a transaction through its statements.                    *)

\* The first statement inserts the transaction and nothing else.
LEMMA ProgressFirst ==
    ASSUME NEW tx \in Txs, NEW base, AreTables(base), NEW tables \in InsertTx(base, tx)
    PROVE  Partly(base, tables, tx, 0, 0, 0, 0)
  <1>1. /\ tx.id \notin DOMAIN base.transactions
        /\ tables.transactions = With(base.transactions, tx.id, tx)
        /\ tables.utxos = base.utxos /\ tables.tx_references = base.tx_references
        /\ tables.accounts = base.accounts
    BY TransactionInserted
  <1>2. Len(base.utxos) \in Nat
    BY DEF AreTables, TablesType
  <1>3. \A k \in 1..0 : FALSE
    OBVIOUS
  <1>4. \A i \in DOMAIN base.utxos : SpentRow(tables.utxos[i], base.utxos[i], tx, 0)
    BY <1>1, <1>3 DEF SpentRow
  <1>5. Len(tables.utxos) = Len(base.utxos) + 0
    BY <1>1, <1>2
  <1>6. tables.accounts = base.accounts \cup {tx.to[k].account : k \in 1..0}
    BY <1>1, <1>3
  <1>7. DOMAIN tables.tx_references = DOMAIN base.tx_references \cup {Key(tx, k) : k \in 1..0}
    BY <1>1, <1>3
  <1>. QED
    BY <1>1, <1>3, <1>4, <1>5, <1>6, <1>7 DEF Partly

\* One input more is marked, as long as no output is inserted.
LEMMA ProgressMark ==
    ASSUME NEW tx \in Txs, NEW base, AreTables(base), NEW tables, AreTables(tables),
           NEW f \in Nat, Partly(base, tables, tx, f, 0, 0, 0),
           NEW new \in MarkSpent(tables, tx, f + 1)
    PROVE  Partly(base, new, tx, f + 1, 0, 0, 0)
  <1>1. /\ new.transactions = tables.transactions
        /\ Len(new.utxos) = Len(tables.utxos)
        /\ \A i \in DOMAIN tables.utxos :
              /\ new.utxos[i].id = tables.utxos[i].id
              /\ new.utxos[i].account = tables.utxos[i].account
              /\ new.utxos[i].amount = tables.utxos[i].amount
              /\ new.utxos[i].spent_at = IF tables.utxos[i].id = tx.from[f + 1].id
                                         THEN Some(tx.id) ELSE tables.utxos[i].spent_at
        /\ new.tx_references = tables.tx_references
        /\ new.accounts = tables.accounts
    BY InputMarked
  <1>2. Len(base.utxos) \in Nat /\ DOMAIN base.utxos = 1..Len(base.utxos)
    BY DEF AreTables, TablesType
  <1>3. Len(tables.utxos) \in Nat /\ DOMAIN tables.utxos = 1..Len(tables.utxos)
    BY DEF AreTables, TablesType
  <1>4. DOMAIN base.utxos = DOMAIN tables.utxos
    BY <1>2, <1>3 DEF Partly
  <1>5. 1..(f + 1) = (1..f) \cup {f + 1}
    OBVIOUS
  <1>6. \A i \in DOMAIN base.utxos : SpentRow(tables.utxos[i], base.utxos[i], tx, f)
    BY DEF Partly
  <1>7. ASSUME NEW i \in DOMAIN base.utxos
        PROVE  SpentRow(new.utxos[i], base.utxos[i], tx, f + 1)
    BY <1>1, <1>4, <1>5, <1>6 DEF SpentRow
  <1>8. \A k \in 1..0 : FALSE
    OBVIOUS
  <1>. QED
    BY <1>1, <1>7, <1>8 DEF Partly

\* One output more is inserted.
LEMMA ProgressOutput ==
    ASSUME NEW tx \in Txs, NEW base, AreTables(base), NEW tables, AreTables(tables),
           NEW f, NEW o \in Nat, NEW r, NEW a, Partly(base, tables, tx, f, o, r, a),
           o + 1 \in DOMAIN tx.to, NEW new \in InsertUtxo(tables, tx, o + 1)
    PROVE  Partly(base, new, tx, f, o + 1, r, a)
  <1>. DEFINE row == NewRow(tx, o + 1)
  <1>1. /\ new.transactions = tables.transactions
        /\ new.utxos = Append(tables.utxos, row)
        /\ new.tx_references = tables.tx_references
        /\ new.accounts = tables.accounts
    BY OutputInserted
  <1>2. Len(base.utxos) \in Nat /\ DOMAIN base.utxos = 1..Len(base.utxos)
    BY DEF AreTables, TablesType
  <1>3. /\ tables.utxos \in Seq(Row) /\ Len(tables.utxos) \in Nat
        /\ Len(tables.utxos) = Len(base.utxos) + o
    BY DEF AreTables, TablesType, Partly
  <1>4. row \in Row
    BY NewRowType
  <1>. HIDE DEF row
  <1>5. /\ Len(new.utxos) = Len(base.utxos) + (o + 1)
        /\ \A i \in 1..Len(tables.utxos) : new.utxos[i] = tables.utxos[i]
        /\ new.utxos[Len(tables.utxos) + 1] = row
    <2>. DEFINE rows == tables.utxos
                n == Len(base.utxos)
    <2>1. rows \in Seq(Row) /\ Len(rows) \in Nat /\ Len(rows) = n + o /\ n \in Nat
      BY <1>2, <1>3
    <2>. HIDE DEF rows, n
    <2>2. /\ Len(Append(rows, row)) = Len(rows) + 1
          /\ \A i \in 1..Len(rows) : Append(rows, row)[i] = rows[i]
          /\ Append(rows, row)[Len(rows) + 1] = row
      BY <1>4, <2>1
    <2>3. Len(rows) + 1 = n + (o + 1)
      BY <2>1
    <2>. QED
      BY <1>1, <2>2, <2>3 DEF rows, n
  <1>6. \A i \in DOMAIN base.utxos : SpentRow(new.utxos[i], base.utxos[i], tx, f)
    <2>1. \A i \in DOMAIN base.utxos : i \in 1..Len(tables.utxos)
      BY <1>2, <1>3
    <2>. QED
      BY <1>5, <2>1 DEF Partly
  <1>7. ASSUME NEW k \in 1..(o + 1)
        PROVE  new.utxos[Len(base.utxos) + k] = NewRow(tx, k)
    <2>1. CASE k = o + 1
      <3>1. Len(base.utxos) + k = Len(tables.utxos) + 1
        <4>1. \A n, m \in Nat : m = n + o => n + (o + 1) = m + 1
          OBVIOUS
        <4>. QED
          BY <1>2, <1>3, <2>1, <4>1
      <3>. QED
        BY <1>5, <2>1, <3>1 DEF row
    <2>2. CASE k # o + 1
      <3>1. k \in 1..o /\ Len(base.utxos) + k \in 1..Len(tables.utxos)
        BY <1>2, <1>3, <2>2
      <3>. QED
        BY <1>5, <3>1 DEF Partly
    <2>. QED
      BY <2>1, <2>2
  <1>. QED
    BY <1>1, <1>5, <1>6, <1>7 DEF Partly

\* One reference more is inserted; none that was there is lost or changed.
LEMMA ProgressReference ==
    ASSUME NEW tx \in Txs, NEW base, NEW tables, AreTables(tables),
           NEW f, NEW o, NEW r \in Nat, NEW a, Partly(base, tables, tx, f, o, r, a),
           r + 1 \in DOMAIN tx.to, NEW new \in InsertReference(tables, tx, r + 1)
    PROVE  Partly(base, new, tx, f, o, r + 1, a)
  <1>. DEFINE key == Key(tx, r + 1)
  <1>1. /\ new.transactions = tables.transactions /\ new.utxos = tables.utxos
        /\ key \notin DOMAIN tables.tx_references
        /\ new.tx_references = With(tables.tx_references, key, tx.id)
        /\ new.accounts = tables.accounts
    BY ReferenceInserted
  <1>2. 1..(r + 1) = (1..r) \cup {r + 1}
    OBVIOUS
  <1>3. /\ \A other \in DOMAIN tables.tx_references :
              /\ other \in DOMAIN new.tx_references
              /\ new.tx_references[other] = tables.tx_references[other]
        /\ key \in DOMAIN new.tx_references /\ new.tx_references[key] = tx.id
    BY <1>1 DEF With
  <1>4. DOMAIN tables.tx_references
           = DOMAIN base.tx_references \cup {Key(tx, k) : k \in 1..r}
    BY DEF Partly
  <1>5. \A k \in 1..(r + 1) : new.tx_references[Key(tx, k)] = tx.id
    BY <1>2, <1>3, <1>4 DEF Partly
  <1>6. \A other \in DOMAIN base.tx_references :
           new.tx_references[other] = base.tx_references[other]
    BY <1>3, <1>4 DEF Partly
  <1>7. DOMAIN new.tx_references
           = DOMAIN base.tx_references \cup {Key(tx, k) : k \in 1..(r + 1)}
    <2>1. DOMAIN new.tx_references = DOMAIN tables.tx_references \cup {key}
      BY <1>1 DEF With
    <2>. QED
      BY <1>2, <1>4, <2>1
  <1>. QED
    BY <1>1, <1>5, <1>6, <1>7 DEF Partly

\* One account more is inserted.
LEMMA ProgressAccount ==
    ASSUME NEW tx \in Txs, NEW base, NEW tables, AreTables(tables),
           NEW f, NEW o, NEW r, NEW a \in Nat, Partly(base, tables, tx, f, o, r, a),
           a + 1 \in DOMAIN tx.to, NEW new \in InsertAccount(tables, tx, a + 1)
    PROVE  Partly(base, new, tx, f, o, r, a + 1)
  <1>1. /\ new.transactions = tables.transactions /\ new.utxos = tables.utxos
        /\ new.tx_references = tables.tx_references
        /\ new.accounts = tables.accounts \cup {tx.to[a + 1].account}
    BY AccountInserted
  <1>2. 1..(a + 1) = (1..a) \cup {a + 1}
    OBVIOUS
  <1>3. new.accounts = base.accounts \cup {tx.to[k].account : k \in 1..(a + 1)}
    BY <1>1, <1>2 DEF Partly
  <1>. QED
    BY <1>1, <1>3 DEF Partly

\* How far a transaction is when n of its outputs are inserted, with their
\* references and accounts, and all its inputs are marked.
LEMMA AtOutput ==
    ASSUME NEW tx \in Txs, NEW n \in 0..Len(tx.to)
    PROVE  LET s == Turn("utxos", n + 1, tx.to, End)
           IN  /\ IsStatement(tx, s)
               /\ Marked(tx, s) = Len(tx.from)
               /\ Outputs(tx, s) = n /\ Refs(tx, s) = n /\ Accounts(tx, s) = n
  <1>. DEFINE s == Turn("utxos", n + 1, tx.to, End)
  <1>1. Len(tx.to) \in Nat /\ DOMAIN tx.to = 1..Len(tx.to)
    BY TxParts
  <1>2. CASE n + 1 <= Len(tx.to)
    <2>1. s = [on |-> "utxos", n |-> n + 1]
      BY <1>2 DEF Turn
    <2>2. s.on = "utxos" /\ s.n = n + 1 /\ s.n - 1 = n /\ s.n \in DOMAIN tx.to
      BY <1>1, <1>2, <2>1
    <2>. HIDE DEF s
    <2>. QED
      BY <2>2 DEF IsStatement, Marked, Outputs, Refs, Accounts, InsertedBy, s
  <1>3. CASE ~(n + 1 <= Len(tx.to))
    <2>1. s = End
      BY <1>3 DEF Turn
    <2>2. n = Len(tx.to)
      BY <1>1, <1>3
    <2>. HIDE DEF s
    <2>3. s.on = "end"
      BY <2>1 DEF End
    <2>. QED
      BY <2>1, <2>2, <2>3 DEF IsStatement, Marked, Outputs, Refs, Accounts, InsertedBy, s
  <1>. QED
    BY <1>2, <1>3

\* How far it is when n of its inputs are marked.
LEMMA AtInput ==
    ASSUME NEW tx \in Txs, NEW n \in 0..Len(tx.from)
    PROVE  LET s == Turn("spent_at", n + 1, tx.from, Turn("utxos", 1, tx.to, End))
           IN  /\ IsStatement(tx, s)
               /\ Marked(tx, s) = n
               /\ Outputs(tx, s) = 0 /\ Refs(tx, s) = 0 /\ Accounts(tx, s) = 0
  <1>. DEFINE s == Turn("spent_at", n + 1, tx.from, Turn("utxos", 1, tx.to, End))
  <1>1. /\ Len(tx.from) \in Nat /\ DOMAIN tx.from = 1..Len(tx.from)
        /\ 0 \in 0..Len(tx.to) /\ 0 + 1 = 1
    BY TxParts
  <1>2. CASE n + 1 <= Len(tx.from)
    <2>1. s = [on |-> "spent_at", n |-> n + 1]
      BY <1>2 DEF Turn
    <2>2. s.on = "spent_at" /\ s.n - 1 = n /\ s.n \in DOMAIN tx.from
      BY <1>1, <1>2, <2>1
    <2>. HIDE DEF s
    <2>. QED
      BY <2>2 DEF IsStatement, Marked, Outputs, Refs, Accounts, InsertedBy, s
  <1>3. CASE ~(n + 1 <= Len(tx.from))
    <2>1. s = Turn("utxos", 0 + 1, tx.to, End)
      BY <1>1, <1>3, Zenon DEF Turn
    <2>2. n = Len(tx.from)
      BY <1>1, <1>3
    <2>. HIDE DEF s
    <2>. QED
      BY <1>1, <2>1, <2>2, AtOutput DEF s
  <1>. QED
    BY <1>2, <1>3

\* The first statement leads to the second.
LEMMA FirstStep ==
    ASSUME NEW tx \in Txs, NEW base, AreTables(base), NEW new \in Execute(base, tx, First)
    PROVE  /\ AreTables(new)
           /\ IsStatement(tx, NextStatement(tx, First))
           /\ Progress(base, new, tx, NextStatement(tx, First))
  <1>1. First.on = "transactions"
    BY DEF First
  <1>2. new \in InsertTx(base, tx)
    BY <1>1 DEF Execute
  <1>3. 0 \in 0..Len(tx.from) /\ 0 + 1 = 1
    BY TxParts
  <1>4. NextStatement(tx, First)
           = Turn("spent_at", 0 + 1, tx.from, Turn("utxos", 1, tx.to, End))
    BY <1>1, <1>3 DEF NextStatement
  <1>. QED
    BY <1>2, <1>3, <1>4, TransactionInserted, ProgressFirst, AtInput DEF Progress

\* Every other statement leads to the next.
LEMMA StatementStep ==
    ASSUME NEW tx \in Txs, NEW base, AreTables(base), NEW tables, AreTables(tables),
           NEW s, IsStatement(tx, s), s # End, Progress(base, tables, tx, s),
           NEW new \in Execute(tables, tx, s)
    PROVE  /\ AreTables(new)
           /\ IsStatement(tx, NextStatement(tx, s))
           /\ Progress(base, new, tx, NextStatement(tx, s))
  <1>. DEFINE next == NextStatement(tx, s)
  <1>0. /\ Len(tx.from) \in Nat /\ DOMAIN tx.from = 1..Len(tx.from)
        /\ Len(tx.to) \in Nat /\ DOMAIN tx.to = 1..Len(tx.to)
    BY TxParts
  <1>1. CASE s.on = "spent_at"
    <2>1. s.n \in DOMAIN tx.from
      BY <1>1 DEF IsStatement, End
    <2>. DEFINE f == s.n - 1
    <2>2. f \in Nat /\ f + 1 = s.n /\ s.n \in 0..Len(tx.from)
      BY <1>0, <2>1
    <2>3. Marked(tx, s) = f /\ Outputs(tx, s) = 0 /\ Refs(tx, s) = 0 /\ Accounts(tx, s) = 0
      BY <1>1 DEF Marked, Outputs, Refs, Accounts, InsertedBy
    <2>4. new \in MarkSpent(tables, tx, s.n)
      BY <1>1 DEF Execute
    <2>5. next = Turn("spent_at", s.n + 1, tx.from, Turn("utxos", 1, tx.to, End))
      BY <1>1 DEF NextStatement
    <2>. HIDE DEF f, next
    <2>6. Partly(base, tables, tx, f, 0, 0, 0)
      BY <2>3 DEF Progress
    <2>7. Partly(base, new, tx, s.n, 0, 0, 0)
      BY <2>2, <2>4, <2>6, ProgressMark
    <2>8. /\ IsStatement(tx, next) /\ Marked(tx, next) = s.n
          /\ Outputs(tx, next) = 0 /\ Refs(tx, next) = 0 /\ Accounts(tx, next) = 0
      BY <2>2, <2>5, AtInput
    <2>9. AreTables(new)
      BY <2>4, InputMarked
    <2>. QED
      BY <2>7, <2>8, <2>9 DEF Progress, next
  <1>2. CASE s.on \in {"utxos", "tx_references", "accounts"}
    <2>1. s.n \in DOMAIN tx.to
      BY <1>2 DEF IsStatement, End
    <2>. DEFINE n == s.n - 1
    <2>2. n \in Nat /\ n + 1 = s.n /\ s.n \in 0..Len(tx.to)
      BY <1>0, <2>1
    <2>3. Marked(tx, s) = Len(tx.from)
      BY <1>2 DEF Marked
    <2>4. CASE s.on = "utxos"
      <3>1. Outputs(tx, s) = n /\ Refs(tx, s) = n /\ Accounts(tx, s) = n
        BY <2>4 DEF Outputs, Refs, Accounts, InsertedBy
      <3>2. new \in InsertUtxo(tables, tx, s.n) /\ next = [on |-> "tx_references", n |-> s.n]
        BY <2>4 DEF Execute, NextStatement
      <3>3. next.on = "tx_references" /\ next.n = s.n
        BY <3>2
      <3>. HIDE DEF n, next
      <3>4. Partly(base, new, tx, Len(tx.from), s.n, n, n) /\ AreTables(new)
        BY <2>1, <2>2, <2>3, <3>1, <3>2, ProgressOutput, OutputInserted DEF Progress
      <3>5. /\ IsStatement(tx, next) /\ Marked(tx, next) = Len(tx.from)
            /\ Outputs(tx, next) = s.n /\ Refs(tx, next) = n /\ Accounts(tx, next) = n
        BY <2>1, <3>3 DEF IsStatement, Marked, Outputs, Refs, Accounts, InsertedBy, n
      <3>. QED
        BY <3>4, <3>5 DEF Progress, next
    <2>5. CASE s.on = "tx_references"
      <3>1. Outputs(tx, s) = s.n /\ Refs(tx, s) = n /\ Accounts(tx, s) = n
        BY <2>5 DEF Outputs, Refs, Accounts, InsertedBy
      <3>2. new \in InsertReference(tables, tx, s.n) /\ next = [on |-> "accounts", n |-> s.n]
        BY <2>5 DEF Execute, NextStatement
      <3>3. next.on = "accounts" /\ next.n = s.n
        BY <3>2
      <3>. HIDE DEF n, next
      <3>4. Partly(base, new, tx, Len(tx.from), s.n, s.n, n) /\ AreTables(new)
        BY <2>1, <2>2, <2>3, <3>1, <3>2, ProgressReference, ReferenceInserted DEF Progress
      <3>5. /\ IsStatement(tx, next) /\ Marked(tx, next) = Len(tx.from)
            /\ Outputs(tx, next) = s.n /\ Refs(tx, next) = s.n /\ Accounts(tx, next) = n
        BY <2>1, <3>3 DEF IsStatement, Marked, Outputs, Refs, Accounts, InsertedBy, n
      <3>. QED
        BY <3>4, <3>5 DEF Progress, next
    <2>6. CASE s.on = "accounts"
      <3>1. Outputs(tx, s) = s.n /\ Refs(tx, s) = s.n /\ Accounts(tx, s) = n
        BY <2>6 DEF Outputs, Refs, Accounts, InsertedBy
      <3>2. /\ new \in InsertAccount(tables, tx, s.n)
            /\ next = Turn("utxos", s.n + 1, tx.to, End)
        BY <2>6 DEF Execute, NextStatement
      <3>. HIDE DEF n, next
      <3>3. Partly(base, new, tx, Len(tx.from), s.n, s.n, s.n) /\ AreTables(new)
        BY <2>1, <2>2, <2>3, <3>1, <3>2, ProgressAccount, AccountInserted DEF Progress
      <3>4. /\ IsStatement(tx, next) /\ Marked(tx, next) = Len(tx.from)
            /\ Outputs(tx, next) = s.n /\ Refs(tx, next) = s.n /\ Accounts(tx, next) = s.n
        BY <2>2, <3>2, AtOutput
      <3>. QED
        BY <3>3, <3>4 DEF Progress, next
    <2>. QED
      BY <1>2, <2>4, <2>5, <2>6
  <1>. QED
    BY <1>1, <1>2 DEF IsStatement
-----------------------------------------------------------------------------
(* The commit.                                                              *)

\* The log has transactions of the storage layer.
LEMMA LogType ==
    ASSUME NEW lg \in Seq(Txs)
    PROVE  lg \in Seq(Transaction)
  BY TxsAreTransactions

\* What was checked about an input stays true.
LEMMA CheckedStays ==
    ASSUME NEW lg \in Seq(Txs), NEW tx \in Txs, NEW input, Checked(lg, input)
    PROVE  Checked(Append(lg, tx), input)
  <1>1. lg \in Seq(Transaction) /\ tx \in Transaction
    BY LogType, TxParts
  <1>2. PICK p \in Places(lg) : /\ UtxoAt(lg, p).id = input.id
                                /\ AsColumn(OutputAt(lg, p).amount) = AsColumn(input.amount)
    BY DEF Checked
  <1>. DEFINE new == Append(lg, tx)
  <1>3. /\ p \in Places(new) /\ OutputAt(new, p) = OutputAt(lg, p)
        /\ UtxoAt(new, p) = UtxoAt(lg, p)
    BY <1>1, AppendKeepsPlaces
  <1>. HIDE DEF new
  <1>4. Checked(new, input)
    BY <1>2, <1>3 DEF Checked
  <1>. QED
    BY <1>4 DEF new

\* A checked input names an output of a transaction of the log.
LEMMA CheckedIsOld ==
    ASSUME NEW lg, NEW input, Checked(lg, input), NEW h, \A i \in DOMAIN lg : lg[i].id # h
    PROVE  \A n : input.id # <<h, n>>
  <1>1. PICK p \in Places(lg) : UtxoAt(lg, p).id = input.id
    BY DEF Checked
  <1>2a. PICK i \in DOMAIN lg : \E k \in DOMAIN lg[i].to : p = <<i, k>>
    BY InPlaces
  <1>2. PICK k \in DOMAIN lg[i].to : p = <<i, k>>
    BY <1>2a
  <1>3. input.id = <<lg[i].id, k - 1>>
    BY <1>1, <1>2 DEF UtxoAt
  <1>. QED
    BY <1>3

\* The rows of the outputs of tx follow those of the log.
LEMMA FiledAfter ==
    ASSUME NEW lg \in Seq(Txs), NEW tx \in Txs,
           NEW base, AreTables(base), NEW tables, AreTables(tables),
           NEW f, NEW r, NEW a, Partly(base, tables, tx, f, Len(tx.to), r, a),
           NEW place \in [DOMAIN base.utxos -> Places(lg)], Filed(base.utxos, lg, place)
    PROVE  LET new == Append(lg, tx)
           IN  \E place2 \in [DOMAIN tables.utxos -> Places(new)] :
                  Filed(tables.utxos, new, place2)
  <1>. DEFINE new == Append(lg, tx)
              last == Len(lg) + 1
              rows == base.utxos
              rows2 == tables.utxos
              n == Len(rows)
              o == Len(tx.to)
              place2 == [i \in DOMAIN rows2 |-> IF i <= n THEN place[i] ELSE <<last, i - n>>]
  <1>1. lg \in Seq(Transaction) /\ tx \in Transaction /\ Len(lg) \in Nat
    BY LogType, TxParts
  <1>2. o \in Nat /\ DOMAIN tx.to = 1..o
    BY TxParts
  <1>3. /\ n \in Nat /\ DOMAIN rows = 1..n
        /\ DOMAIN rows2 = 1..Len(rows2) /\ Len(rows2) = n + o
    BY DEF AreTables, TablesType, Partly
  <1>4. \A i \in 1..n : SpentRow(rows2[i], rows[i], tx, f)
    BY <1>3 DEF Partly
  <1>5. \A k \in 1..o : rows2[n + k] = NewRow(tx, k)
    BY DEF Partly
  <1>6. \A p \in Places(lg) : /\ p \in Places(new) /\ OutputAt(new, p) = OutputAt(lg, p)
                              /\ UtxoAt(new, p) = UtxoAt(lg, p)
                              /\ p[1] \in Nat /\ p[1] < last
    <2>. SUFFICES ASSUME NEW p \in Places(lg)
                  PROVE  /\ p \in Places(new) /\ OutputAt(new, p) = OutputAt(lg, p)
                         /\ UtxoAt(new, p) = UtxoAt(lg, p)
                         /\ p[1] \in Nat /\ p[1] < last
      OBVIOUS
    <2>1. p[1] \in 1..Len(lg)
      BY <1>1, PlaceType
    <2>2. p[1] \in Nat /\ p[1] < last
      BY <1>1, <2>1
    <2>. QED
      BY <1>1, <2>2, AppendKeepsPlaces
  <1>7. \A k \in 1..o : /\ <<last, k>> \in Places(new)
                        /\ OutputAt(new, <<last, k>>) = tx.to[k]
                        /\ UtxoAt(new, <<last, k>>)
                              = [id |-> <<tx.id, k - 1>>, amount |-> tx.to[k].amount]
    BY <1>1, <1>2, AppendAddsPlaces
  <1>8. ASSUME NEW p \in Places(new)
        PROVE  p \in Places(lg) \/ \E k \in 1..o : p = <<last, k>>
    <2>1. \A i \in DOMAIN new : /\ i = last => new[i] = tx
                                /\ i # last => i \in DOMAIN lg /\ new[i] = lg[i]
      BY <1>1, AppendTx
    <2>. HIDE DEF new, last
    <2>2a. PICK i \in DOMAIN new : \E k \in DOMAIN new[i].to : p = <<i, k>>
      BY InPlaces
    <2>2. PICK k \in DOMAIN new[i].to : p = <<i, k>>
      BY <2>2a
    <2>3. CASE i = last
      BY <1>2, <2>1, <2>2, <2>3
    <2>4. CASE i # last
      BY <2>1, <2>2, <2>4, InPlaces
    <2>. QED
      BY <2>3, <2>4
  <1>9. last \in Nat
    BY <1>1
  <1>. HIDE DEF new, last, rows, rows2, n, o
  <1>10. \A i \in DOMAIN rows2 : i \in 1..n \/ (~(i <= n) /\ \E k \in 1..o : i = n + k /\ i - n = k)
    <2>. SUFFICES ASSUME NEW i \in DOMAIN rows2, ~(i <= n)
                  PROVE  \E k \in 1..o : i = n + k /\ i - n = k
      BY <1>3
    <2>1. i - n \in 1..o /\ i = n + (i - n)
      BY <1>2, <1>3
    <2>. QED
      BY <2>1
  <1>11. /\ \A i \in 1..n : i \in DOMAIN rows2 /\ i <= n
         /\ \A k \in 1..o : n + k \in DOMAIN rows2 /\ ~(n + k <= n) /\ (n + k) - n = k
    BY <1>2, <1>3
  <1>12. /\ \A i \in 1..n : place2[i] = place[i]
         /\ \A k \in 1..o : place2[n + k] = <<last, k>>
    BY <1>11
  <1>13. \A i \in 1..n : place[i] \in Places(lg)
    BY <1>3 DEF rows
  <1>14. place2 \in [DOMAIN rows2 -> Places(new)]
    BY <1>6, <1>7, <1>10, <1>12, <1>13
  <1>. HIDE DEF place2
  <1>15. \A i \in 1..n : /\ rows[i].id = UtxoAt(lg, place[i]).id
                         /\ rows[i].account = OutputAt(lg, place[i]).account
                         /\ rows[i].amount = AsColumn(OutputAt(lg, place[i]).amount)
    BY <1>3 DEF Filed, rows
  <1>16. ASSUME NEW i \in DOMAIN rows2
         PROVE  /\ rows2[i].id = UtxoAt(new, place2[i]).id
                /\ rows2[i].account = OutputAt(new, place2[i]).account
                /\ rows2[i].amount = AsColumn(OutputAt(new, place2[i]).amount)
    <2>1. CASE i \in 1..n
      BY <1>4, <1>6, <1>12, <1>13, <1>15, <2>1 DEF SpentRow
    <2>2. ASSUME NEW k \in 1..o, i = n + k
          PROVE  /\ rows2[i].id = UtxoAt(new, place2[i]).id
                 /\ rows2[i].account = OutputAt(new, place2[i]).account
                 /\ rows2[i].amount = AsColumn(OutputAt(new, place2[i]).amount)
      <3>1. rows2[i] = NewRow(tx, k) /\ place2[i] = <<last, k>>
        BY <1>5, <1>12, <2>2
      <3>2. /\ NewRow(tx, k).id = <<tx.id, k - 1>>
            /\ NewRow(tx, k).account = tx.to[k].account
            /\ NewRow(tx, k).amount = AsColumn(tx.to[k].amount)
        BY DEF NewRow
      <3>3. /\ UtxoAt(new, <<last, k>>)
                  = [id |-> <<tx.id, k - 1>>, amount |-> tx.to[k].amount]
            /\ OutputAt(new, <<last, k>>) = tx.to[k]
        BY <1>7, Zenon
      <3>4. UtxoAt(new, <<last, k>>).id = <<tx.id, k - 1>>
        BY <3>3
      <3>. QED
        BY <3>1, <3>2, <3>3, <3>4, Zenon
    <2>. QED
      BY <1>10, <2>1, <2>2
  <1>17. ASSUME NEW i \in DOMAIN rows2, NEW j \in DOMAIN rows2, i < j
         PROVE  Newer(place2[j], place2[i])
    <2>1. CASE i \in 1..n /\ j \in 1..n
      BY <1>3, <1>12, <1>17, <2>1 DEF Filed, rows
    <2>2. ASSUME i \in 1..n, NEW k \in 1..o, j = n + k
          PROVE  Newer(place2[j], place2[i])
      <3>1. place2[i][1] \in Nat /\ place2[i][1] < last /\ place2[j][1] = last
        BY <1>6, <1>12, <1>13, <2>2
      <3>. QED
        BY <1>9, <3>1 DEF Newer
    <2>3. ASSUME NEW k \in 1..o, i = n + k, NEW l \in 1..o, j = n + l
          PROVE  Newer(place2[j], place2[i])
      <3>1. l > k
        BY <1>2, <1>3, <1>17, <2>3
      <3>. QED
        BY <1>12, <2>3, <3>1 DEF Newer
    <2>4. ASSUME NEW k \in 1..o, i = n + k, j \in 1..n
          PROVE  FALSE
      BY <1>2, <1>3, <1>17, <2>4
    <2>. QED
      BY <1>10, <2>1, <2>2, <2>3, <2>4
  <1>18. ASSUME NEW p \in Places(new)
         PROVE  \E i \in DOMAIN rows2 : place2[i] = p
    <2>1. CASE p \in Places(lg)
      <3>1. PICK i \in 1..n : place[i] = p
        BY <1>3, <2>1 DEF Filed, rows
      <3>. QED
        BY <1>11, <1>12, <3>1
    <2>2. ASSUME NEW k \in 1..o, p = <<last, k>>
          PROVE  \E i \in DOMAIN rows2 : place2[i] = p
      BY <1>11, <1>12, <2>2
    <2>. QED
      BY <1>8, <2>1, <2>2
  <1>19. Filed(rows2, new, place2)
    BY <1>16, <1>17, <1>18 DEF Filed
  <1>. QED
    BY <1>14, <1>19 DEF rows2, new

\* Who spent an output after tx is committed: who had, and tx.
LEMMA SpendersAfter ==
    ASSUME NEW lg \in Seq(Txs), NEW tx \in Txs, NEW id
    PROVE  SpendersIn(Append(lg, tx), id)
              = SpendersIn(lg, id)
                   \cup (IF \E k \in DOMAIN tx.from : tx.from[k].id = id THEN {tx.id} ELSE {})
  <1>. DEFINE new == Append(lg, tx)
              last == Len(lg) + 1
  <1>1. lg \in Seq(Transaction) /\ tx \in Transaction
    BY LogType, TxParts
  <1>2. /\ \A i \in DOMAIN new : (i = last /\ new[i] = tx) \/ (i \in DOMAIN lg /\ new[i] = lg[i])
        /\ \A i \in DOMAIN lg : i \in DOMAIN new /\ new[i] = lg[i]
        /\ last \in DOMAIN new /\ new[last] = tx
    BY <1>1, AppendTx
  <1>. HIDE DEF new, last
  <1>3. SpendersIn(new, id)
           = SpendersIn(lg, id)
                \cup (IF \E k \in DOMAIN tx.from : tx.from[k].id = id THEN {tx.id} ELSE {})
    <2>1. ASSUME NEW h \in SpendersIn(new, id)
          PROVE  h \in SpendersIn(lg, id)
                    \/ (h = tx.id /\ \E k \in DOMAIN tx.from : tx.from[k].id = id)
      BY <1>2 DEF SpendersIn
    <2>2. ASSUME NEW h \in SpendersIn(lg, id)
          PROVE  h \in SpendersIn(new, id)
      BY <1>2 DEF SpendersIn
    <2>3. ASSUME \E k \in DOMAIN tx.from : tx.from[k].id = id
          PROVE  tx.id \in SpendersIn(new, id)
      BY <1>2, <2>3 DEF SpendersIn
    <2>. QED
      BY <2>1, <2>2, <2>3
  <1>. QED
    BY <1>3 DEF new

\* The rows say who spent them.
LEMMA SpentAfter ==
    ASSUME NEW lg \in Seq(Txs), NEW tx \in Txs,
           NEW base, AreTables(base), NEW tables, AreTables(tables), Agree(base, lg),
           NEW r, NEW a, Partly(base, tables, tx, Len(tx.from), Len(tx.to), r, a),
           InputsChecked(lg), \A k \in DOMAIN tx.from : Checked(lg, tx.from[k]),
           NEW i \in DOMAIN tables.utxos
    PROVE  LET row == tables.utxos[i]
               spenders == SpendersIn(Append(lg, tx), row.id)
           IN  row.spent_at \subseteq spenders /\ (row.spent_at = None <=> spenders = {})
  <1>. DEFINE row == tables.utxos[i]
              spends == \E k \in DOMAIN tx.from : tx.from[k].id = row.id
              n == Len(base.utxos)
              o == Len(tx.to)
  <1>1. SpendersIn(Append(lg, tx), row.id)
           = SpendersIn(lg, row.id) \cup (IF spends THEN {tx.id} ELSE {})
    BY SpendersAfter
  <1>2. DOMAIN tx.from = 1..Len(tx.from) /\ o \in Nat
    BY TxParts
  <1>3. /\ n \in Nat /\ DOMAIN base.utxos = 1..n
        /\ DOMAIN tables.utxos = 1..Len(tables.utxos) /\ Len(tables.utxos) = n + o
    BY DEF AreTables, TablesType, Partly
  <1>4. \A j \in DOMAIN lg : lg[j].id # tx.id
    BY DEF Agree, Partly
  <1>. HIDE DEF n, o
  <1>5. CASE i \in 1..n
    <2>. DEFINE old == base.utxos[i]
    <2>1. SpentRow(row, old, tx, Len(tx.from))
      BY <1>3, <1>5 DEF Partly
    <2>2. row.id = old.id /\ row.spent_at = IF spends THEN Some(tx.id) ELSE old.spent_at
      BY <1>2, <2>1 DEF SpentRow
    <2>3. /\ old.spent_at \subseteq SpendersIn(lg, old.id)
          /\ old.spent_at = None <=> SpendersIn(lg, old.id) = {}
      BY <1>3, <1>5 DEF Agree
    <2>. HIDE DEF row, old
    <2>. QED
      BY <1>1, <2>2, <2>3 DEF Some, None, row
  <1>6. CASE i \notin 1..n
    <2>1. i - n \in 1..o /\ n + (i - n) = i
      BY <1>2, <1>3, <1>6
    <2>2. row = NewRow(tx, i - n)
      BY <2>1 DEF Partly, n, o
    <2>3. row.id = <<tx.id, (i - n) - 1>> /\ row.spent_at = None
      BY <2>2 DEF NewRow
    <2>. HIDE DEF row
    <2>4. \A k \in DOMAIN tx.from : tx.from[k].id # row.id
      BY <1>4, <2>3, CheckedIsOld
    <2>5. \A j \in DOMAIN lg : \A k \in DOMAIN lg[j].from : lg[j].from[k].id # row.id
      BY <1>4, <2>3, CheckedIsOld DEF InputsChecked
    <2>6. SpendersIn(lg, row.id) = {}
      BY <2>5 DEF SpendersIn
    <2>. QED
      BY <1>1, <2>3, <2>4, <2>6 DEF row, None
  <1>. QED
    BY <1>5, <1>6

\* A transaction written to its last statement and committed: its tables say
\* what the log says then.
LEMMA CommitAgrees ==
    ASSUME NEW lg \in Seq(Txs), NEW tx \in Txs,
           NEW base, AreTables(base), NEW tables, AreTables(tables), Agree(base, lg),
           Progress(base, tables, tx, End),
           InputsChecked(lg), \A k \in DOMAIN tx.from : Checked(lg, tx.from[k])
    PROVE  Agree(tables, Append(lg, tx)) /\ InputsChecked(Append(lg, tx))
  <1>. DEFINE new == Append(lg, tx)
              last == Len(lg) + 1
              o == Len(tx.to)
  <1>1. lg \in Seq(Transaction) /\ tx \in Transaction
    BY LogType, TxParts
  <1>2. /\ \A i \in DOMAIN new : (i = last /\ new[i] = tx) \/ (i \in DOMAIN lg /\ new[i] = lg[i])
        /\ \A i \in DOMAIN lg : i \in DOMAIN new /\ new[i] = lg[i]
        /\ last \in DOMAIN new /\ new[last] = tx
    BY <1>1, AppendTx
  <1>3. o \in Nat /\ DOMAIN tx.to = 1..o
    BY TxParts
  <1>4. Partly(base, tables, tx, Len(tx.from), o, o, o)
    BY DEF Progress, End, Marked, Outputs, Refs, Accounts, InsertedBy
  <1>5. /\ tx.id \notin DOMAIN base.transactions
        /\ tables.transactions = With(base.transactions, tx.id, tx)
    BY <1>4 DEF Partly
  <1>6. \A i \in DOMAIN lg : lg[i].id # tx.id
    BY <1>5 DEF Agree
  <1>7. \E place \in [DOMAIN tables.utxos -> Places(new)] : Filed(tables.utxos, new, place)
    BY <1>4, FiledAfter DEF Agree
  <1>8. \A i \in DOMAIN tables.utxos : LET row == tables.utxos[i] IN
           /\ row.spent_at \subseteq SpendersIn(new, row.id)
           /\ row.spent_at = None <=> SpendersIn(new, row.id) = {}
    BY <1>4, SpentAfter
  <1>9. \A input : Checked(lg, input) => Checked(new, input)
    BY CheckedStays
  <1>10. tables.accounts = {OutputAt(new, p).account : p \in Places(new)}
    <2>1. \A p \in Places(lg) : p \in Places(new) /\ OutputAt(new, p) = OutputAt(lg, p)
      BY <1>1, AppendKeepsPlaces
    <2>2. \A k \in 1..o : <<last, k>> \in Places(new) /\ OutputAt(new, <<last, k>>) = tx.to[k]
      BY <1>1, <1>3, AppendAddsPlaces
    <2>. HIDE DEF new, last, o
    <2>3. ASSUME NEW p \in Places(new)
          PROVE  p \in Places(lg) \/ \E k \in 1..o : p = <<last, k>>
      <3>1a. PICK i \in DOMAIN new : \E k \in DOMAIN new[i].to : p = <<i, k>>
        BY InPlaces
      <3>1. PICK k \in DOMAIN new[i].to : p = <<i, k>>
        BY <3>1a
      <3>2. CASE i = last /\ new[i] = tx
        BY <1>3, <3>1, <3>2
      <3>3. CASE i \in DOMAIN lg /\ new[i] = lg[i]
        BY <3>1, <3>3, InPlaces
      <3>. QED
        BY <1>2, <3>2, <3>3
    <2>4. base.accounts = {OutputAt(lg, p).account : p \in Places(lg)}
      BY DEF Agree
    <2>5. tables.accounts = base.accounts \cup {tx.to[k].account : k \in 1..o}
      BY <1>4 DEF Partly
    <2>6. ASSUME NEW x \in tables.accounts
          PROVE  \E p \in Places(new) : x = OutputAt(new, p).account
      BY <2>1, <2>2, <2>4, <2>5
    <2>7. ASSUME NEW p \in Places(new)
          PROVE  OutputAt(new, p).account \in tables.accounts
      BY <2>1, <2>2, <2>3, <2>4, <2>5
    <2>. QED
      BY <2>6, <2>7
  <1>. HIDE DEF new, last
  <1>11. UniqueIds(new)
    BY <1>2, <1>6 DEF Agree, UniqueIds
  <1>12. DOMAIN tables.transactions = {new[i].id : i \in DOMAIN new}
    BY <1>2, <1>5 DEF Agree, With
  <1>13. \A i \in DOMAIN new : tables.transactions[new[i].id] = new[i]
    BY <1>2, <1>5, <1>6 DEF Agree, With
  <1>14. \A i \in DOMAIN new : \A k \in DOMAIN new[i].to :
            /\ Key(new[i], k) \in DOMAIN tables.tx_references
            /\ tables.tx_references[Key(new[i], k)] = new[i].id
    BY <1>2, <1>3, <1>4 DEF Agree, Partly
  <1>15. InputsChecked(new)
    BY <1>2, <1>9 DEF InputsChecked
  <1>16. ASSUME NEW key \in DOMAIN tables.tx_references
         PROVE  \E i \in DOMAIN new : \E k \in DOMAIN new[i].to : key = Key(new[i], k)
    <2>1. key \in DOMAIN base.tx_references \/ \E k \in 1..o : key = Key(tx, k)
      BY <1>4 DEF Partly
    <2>2. CASE key \in DOMAIN base.tx_references
      BY <1>2, <2>2 DEF Agree
    <2>3. CASE \E k \in 1..o : key = Key(tx, k)
      BY <1>2, <1>3, <2>3
    <2>. QED
      BY <2>1, <2>2, <2>3
  <1>. QED
    BY <1>7, <1>8, <1>10, <1>11, <1>12, <1>13, <1>14, <1>15, <1>16 DEF Agree, new
-----------------------------------------------------------------------------
(* The questions.                                                           *)

\* An input that is found right is an output of the log.
LEMMA AnswerChecks ==
    ASSUME NEW tables, NEW lg, Agree(tables, lg), NEW input,
           InputAnswer(tables, input) = "Ok"
    PROVE  Checked(lg, input)
  <1>. DEFINE rows == RowsOf(tables, input.id)
              i == CHOOSE j \in rows : TRUE
  <1>1. rows # {}
    BY DEF InputAnswer
  <1>2. i \in rows
    BY <1>1
  <1>3. tables.utxos[i].amount = AsColumn(input.amount)
    BY <1>1 DEF InputAnswer
  <1>. HIDE DEF i
  <1>4. i \in DOMAIN tables.utxos /\ tables.utxos[i].id = input.id
    BY <1>2 DEF RowsOf
  <1>5. PICK place \in [DOMAIN tables.utxos -> Places(lg)] : Filed(tables.utxos, lg, place)
    BY DEF Agree
  <1>6. /\ place[i] \in Places(lg) /\ tables.utxos[i].id = UtxoAt(lg, place[i]).id
        /\ tables.utxos[i].amount = AsColumn(OutputAt(lg, place[i]).amount)
    BY <1>4, <1>5 DEF Filed
  <1>. QED
    BY <1>3, <1>4, <1>6 DEF Checked

\* The question after n inputs.
LEMMA InputTurn ==
    ASSUME NEW tx \in Txs, NEW n \in 0..Len(tx.from)
    PROVE  LET q == Turn("utxos", n + 1, tx.from, End)
           IN  IF q = End THEN n = Len(tx.from)
               ELSE IsQuestion(tx, q) /\ q.on = "utxos" /\ q.n - 1 = n
  <1>. DEFINE q == Turn("utxos", n + 1, tx.from, End)
  <1>1. Len(tx.from) \in Nat /\ DOMAIN tx.from = 1..Len(tx.from)
    BY TxParts
  <1>2. CASE n + 1 <= Len(tx.from)
    <2>1. q = [on |-> "utxos", n |-> n + 1]
      BY <1>2 DEF Turn
    <2>2. q.on = "utxos" /\ q.n - 1 = n /\ q.n \in DOMAIN tx.from
      BY <1>1, <1>2, <2>1
    <2>. HIDE DEF q
    <2>. QED
      BY <2>2 DEF IsQuestion, End, q
  <1>3. CASE ~(n + 1 <= Len(tx.from))
    <2>1. q = End /\ n = Len(tx.from)
      BY <1>1, <1>3 DEF Turn
    <2>. QED
      BY <2>1
  <1>. QED
    BY <1>2, <1>3

\* A right answer leads to the next question, or to the writing when every input
\* has been checked.
LEMMA QuestionStep ==
    ASSUME NEW tables, NEW lg, Agree(tables, lg), NEW state, CheckState(state, lg),
           Verified(tables, state.tx, state.next) = "Ok"
    PROVE  LET q == NextQuestion(state.tx, state.next)
           IN  IF q = End THEN \A k \in DOMAIN state.tx.from : Checked(lg, state.tx.from[k])
               ELSE /\ IsQuestion(state.tx, q)
                    /\ q.on = "utxos" => \A k \in 1..(q.n - 1) : Checked(lg, state.tx.from[k])
  <1>. DEFINE tx == state.tx
              q == state.next
              next == NextQuestion(tx, q)
              after(n) == Turn("utxos", n + 1, tx.from, End)
  <1>1. tx \in Txs /\ IsQuestion(tx, q)
    BY DEF CheckState
  <1>2. /\ Len(tx.from) \in Nat /\ DOMAIN tx.from = 1..Len(tx.from)
        /\ Len(tx.to) \in Nat /\ DOMAIN tx.to = 1..Len(tx.to)
        /\ 0 \in 0..Len(tx.from)
    BY <1>1, TxParts
  <1>3. q.on = "utxos" =>
           q.n \in DOMAIN tx.from /\ \A k \in 1..(q.n - 1) : Checked(lg, tx.from[k])
    BY <1>1 DEF CheckState, IsQuestion, First
  <1>4. ASSUME NEW n \in 0..Len(tx.from), next = after(n),
               \A k \in 1..n : Checked(lg, tx.from[k])
        PROVE  IF next = End THEN \A k \in DOMAIN tx.from : Checked(lg, tx.from[k])
               ELSE /\ IsQuestion(tx, next)
                    /\ next.on = "utxos" => \A k \in 1..(next.n - 1) : Checked(lg, tx.from[k])
    <2>. HIDE DEF next, tx
    <2>1. IF next = End THEN n = Len(tx.from)
          ELSE IsQuestion(tx, next) /\ next.on = "utxos" /\ next.n - 1 = n
      BY <1>1, <1>4, InputTurn
    <2>. QED
      BY <1>2, <1>4, <2>1
  <1>5. CASE q.on = "utxos"
    <2>1. Checked(lg, tx.from[q.n])
      BY <1>5, AnswerChecks DEF Verified
    <2>2. q.n \in 0..Len(tx.from) /\ 1..q.n = (1..(q.n - 1)) \cup {q.n}
      BY <1>2, <1>3, <1>5
    <2>3. \A k \in 1..q.n : Checked(lg, tx.from[k])
      BY <1>3, <1>5, <2>1, <2>2
    <2>4. next = after(q.n)
      BY <1>5 DEF NextQuestion
    <2>. HIDE DEF next, after
    <2>. QED
      BY <1>4, <2>2, <2>3, <2>4 DEF next
  <1>6. ASSUME NEW k \in Nat \ {0}, next = Turn("tx_references", k, tx.to, after(0))
        PROVE  IF next = End THEN \A n \in DOMAIN tx.from : Checked(lg, tx.from[n])
               ELSE /\ IsQuestion(tx, next)
                    /\ next.on = "utxos" => \A n \in 1..(next.n - 1) : Checked(lg, tx.from[n])
    <2>1. CASE k <= Len(tx.to)
      <3>1. next = [on |-> "tx_references", n |-> k]
        BY <1>6, <2>1 DEF Turn
      <3>. HIDE DEF next
      <3>2. next.on = "tx_references" /\ next.n \in DOMAIN tx.to /\ next # End
        BY <1>2, <2>1, <3>1 DEF End
      <3>. QED
        BY <3>2 DEF IsQuestion
    <2>2. CASE ~(k <= Len(tx.to))
      <3>1. next = after(0)
        BY <1>6, <2>2, Zenon DEF Turn
      <3>. HIDE DEF next, after
      <3>2. \A n \in 1..0 : Checked(lg, tx.from[n])
        OBVIOUS
      <3>. QED
        BY <1>2, <1>4, <3>1, <3>2
    <2>. QED
      BY <2>1, <2>2
  <1>7. CASE q.on = "tx_references"
    <2>1. q.n \in DOMAIN tx.to
      BY <1>1, <1>7 DEF IsQuestion, First
    <2>2. q.n + 1 \in Nat \ {0}
      BY <1>2, <2>1
    <2>3. 0 + 1 = 1
      OBVIOUS
    <2>4. next = Turn("tx_references", q.n + 1, tx.to, after(0))
      BY <1>7, <2>3 DEF NextQuestion
    <2>. HIDE DEF next, after
    <2>. QED
      BY <1>6, <2>2, <2>4 DEF next
  <1>8. CASE q.on = "transactions"
    <2>1. 0 + 1 = 1
      OBVIOUS
    <2>2. next = Turn("tx_references", 1, tx.to, after(0))
      BY <1>8, <2>1 DEF NextQuestion
    <2>. HIDE DEF next, after
    <2>. QED
      BY <1>6, <2>2 DEF next
  <1>9. q.on \in {"transactions", "tx_references", "utxos"}
    BY <1>1 DEF IsQuestion, First
  <1>. QED
    BY <1>5, <1>7, <1>8, <1>9
-----------------------------------------------------------------------------
(* The invariant is inductive.                                              *)

HasWritten(state) == state.at = "write" /\ state.mine # None

\* A step of one connection that commits nothing, and writes first only if no
\* other connection has written.
LEMMA CallStep ==
    ASSUME Inv, NEW c \in Conn, NEW state, Becomes(c, state), UNCHANGED <<db, log>>,
           CallInv(state, db, log), HasWritten(state) => Writing(c) \/ ~Locked(c)
    PROVE  Inv'
  <1>1. call' = [call EXCEPT ![c] = state] /\ db' = db /\ log' = log
    BY DEF Becomes
  <1>2. call = [d \in Conn |-> call[d]]
    BY DEF Inv
  <1>3. /\ call' = [d \in Conn |-> call'[d]]
        /\ call'[c] = state /\ \A d \in Conn : d # c => call'[d] = call[d]
    BY <1>1, <1>2
  <1>4. \A d \in Conn : CallInv(call'[d], db, log)
    BY <1>3 DEF Inv
  <1>5. \A d, e \in Conn : Writing(d) /\ Writing(e) => d = e
    BY DEF Inv, OneWriter
  <1>6. HasWritten(state) => \A d \in Conn : d # c => ~Writing(d)
    BY <1>5 DEF Locked
  <1>7. OneWriter'
    BY <1>3, <1>5, <1>6 DEF OneWriter, Writing, HasWritten
  <1>. QED
    BY <1>1, <1>3, <1>4, <1>7 DEF Inv

\* A call that ends, or a process that stops, leaves nothing behind.
LEMMA CallEnds ==
    ASSUME Inv, NEW c \in Conn, NEW state, state \in {Idle, Closed}, Becomes(c, state),
           UNCHANGED <<db, log>>
    PROVE  Inv'
  <1>1. state.at \in {"idle", "closed"}
    BY DEF Idle, Closed
  <1>2. CallInv(state, db, log) /\ ~HasWritten(state)
    BY <1>1 DEF CallInv, HasWritten
  <1>. QED
    BY <1>2, CallStep

\* An answer ends the call.
LEMMA AnswerStep ==
    ASSUME Inv, NEW c \in Conn, NEW answer, Answer(c, answer)
    PROVE  Inv'
  BY CallEnds DEF Answer

\* store_tx begins with its first question.
LEMMA StoreStep ==
    ASSUME Inv, NEW c \in Conn, NEW tx \in Txs, StoreTx(c, tx)
    PROVE  Inv'
  <1>. DEFINE state == [at |-> "check", tx |-> tx, next |-> First]
  <1>1. Becomes(c, state) /\ UNCHANGED <<db, log>>
    BY DEF StoreTx
  <1>2. CheckState(state, log)
    BY DEF CheckState, IsQuestion, First
  <1>3. CallInv(state, db, log) /\ ~HasWritten(state)
    BY <1>2 DEF CallInv, HasWritten
  <1>. QED
    BY <1>1, <1>3, CallStep

\* A question is answered from the committed tables.
LEMMA CheckStep ==
    ASSUME Inv, NEW c \in Conn, Check(c)
    PROVE  Inv'
  <1>. DEFINE state == call[c]
              tx == state.tx
              next == NextQuestion(tx, state.next)
  <1>1. state.at = "check" /\ CheckState(state, log) /\ Agree(db, log)
    BY DEF Check, Inv, CallInv
  <1>2. CASE Verified(db, tx, state.next) # "Ok"
    BY <1>2, AnswerStep DEF Check
  <1>3. CASE Verified(db, tx, state.next) = "Ok" /\ next # End
    <2>. DEFINE state2 == [state EXCEPT !.next = next]
    <2>1. Becomes(c, state2) /\ UNCHANGED <<db, log>>
      BY <1>3 DEF Check
    <2>2. state = [at |-> "check", tx |-> tx, next |-> state.next] /\ tx \in Txs
      BY <1>1 DEF CheckState
    <2>3. state2 = [at |-> "check", tx |-> tx, next |-> next]
      BY <2>2
    <2>4. /\ IsQuestion(tx, next)
          /\ next.on = "utxos" => \A k \in 1..(next.n - 1) : Checked(log, tx.from[k])
      BY <1>1, <1>3, QuestionStep
    <2>. HIDE DEF state, tx, next, state2
    <2>5. state2.at = "check" /\ state2.tx = tx /\ state2.next = next
      BY <2>3
    <2>6. CheckState(state2, log)
      BY <2>2, <2>3, <2>4, <2>5 DEF CheckState
    <2>7. CallInv(state2, db, log) /\ ~HasWritten(state2)
      BY <2>5, <2>6 DEF CallInv, HasWritten
    <2>. QED
      BY <2>1, <2>7, CallStep
  <1>4. CASE Verified(db, tx, state.next) = "Ok" /\ next = End
    <2>. DEFINE state2 == [at |-> "write", tx |-> tx, next |-> First, mine |-> None]
    <2>1. Becomes(c, state2) /\ UNCHANGED <<db, log>>
      BY <1>4 DEF Check
    <2>2. tx \in Txs
      BY <1>1 DEF CheckState
    <2>3. \A k \in DOMAIN tx.from : Checked(log, tx.from[k])
      BY <1>1, <1>4, QuestionStep
    <2>. HIDE DEF tx
    <2>4. WriteState(state2, db, log)
      BY <2>2, <2>3 DEF WriteState
    <2>5. CallInv(state2, db, log) /\ ~HasWritten(state2)
      BY <2>4 DEF CallInv, HasWritten
    <2>. HIDE DEF state2
    <2>. QED
      BY <2>1, <2>5, CallStep
  <1>. QED
    BY <1>2, <1>3, <1>4

\* A call that writes and is at another statement, with other tables.
LEMMA NextAndMine ==
    ASSUME NEW state, NEW tx, NEW old, NEW own, NEW next, NEW mine,
           state = [at |-> "write", tx |-> tx, next |-> old, mine |-> own],
           NEW state2, state2 = [state EXCEPT !.next = next, !.mine = mine]
    PROVE  state2 = [at |-> "write", tx |-> tx, next |-> next, mine |-> mine]
  <1>. DEFINE between == [state EXCEPT !.next = next]
  <1>1. between = [at |-> "write", tx |-> tx, next |-> next, mine |-> own]
    BY SMT
  <1>2. state2 = [between EXCEPT !.mine = mine]
    BY Zenon
  <1>. HIDE DEF between
  <1>3. [between EXCEPT !.mine = mine]
           = [at |-> "write", tx |-> tx, next |-> next, mine |-> mine]
    BY <1>1, SMT
  <1>. QED
    BY <1>2, <1>3, Zenon

\* A statement changes what the connection alone can see.
LEMMA WriteStep ==
    ASSUME Inv, NEW c \in Conn, Write(c)
    PROVE  Inv'
  <1>. DEFINE state == call[c]
              tx == state.tx
              after == UNION {Execute(tables, tx, state.next) : tables \in View(c)}
              next == NextStatement(tx, state.next)
              state2 == [state EXCEPT !.next = next, !.mine = after]
  <1>1. /\ state.at = "write" /\ state.next # End /\ ~Locked(c)
        /\ WriteState(state, db, log) /\ AreTables(db)
    BY DEF Write, Inv, CallInv
  <1>2. CASE after = {}
    BY <1>2, AnswerStep DEF Write
  <1>3. CASE after # {}
    <2>1. Becomes(c, state2) /\ UNCHANGED <<db, log>>
      BY <1>3 DEF Write
    <2>2. /\ state = [at |-> "write", tx |-> tx, next |-> state.next, mine |-> state.mine]
          /\ tx \in Txs /\ \A k \in DOMAIN tx.from : Checked(log, tx.from[k])
      BY <1>1 DEF WriteState
    <2>3. state2 = [at |-> "write", tx |-> tx, next |-> next, mine |-> after]
      <3>. DEFINE old == state.next
                  own == state.mine
      <3>1. state = [at |-> "write", tx |-> tx, next |-> old, mine |-> own]
        BY <2>2
      <3>. HIDE DEF tx, next, after, old, own
      <3>2. state2 = [state EXCEPT !.next = next, !.mine = after]
        OBVIOUS
      <3>. HIDE DEF state, state2
      <3>. QED
        BY <3>1, <3>2, NextAndMine, Zenon
    <2>4. IsStatement(tx, next)
          /\ \A tables \in after : AreTables(tables) /\ Progress(db, tables, tx, next)
      <3>1. CASE state.mine = None
        <4>1. state.next = First
          BY <1>1, <3>1 DEF WriteState
        <4>2. View(c) = {db}
          BY <3>1 DEF View, Writing, Some
        <4>3. \A tables \in after : tables \in Execute(db, tx, First)
          BY <4>1, <4>2
        <4>4. PICK tables : tables \in after
          BY <1>3
        <4>5. next = NextStatement(tx, First)
          BY <4>1
        <4>. HIDE DEF after, next
        <4>. QED
          BY <1>1, <2>2, <4>3, <4>4, <4>5, FirstStep
      <3>2. CASE state.mine # None
        <4>1. IsStatement(tx, state.next)
              /\ \A tables \in state.mine : AreTables(tables) /\ Progress(db, tables, tx, state.next)
          BY <1>1, <3>2 DEF WriteState
        <4>2. View(c) = state.mine
          BY <1>1, <3>2 DEF View, Writing
        <4>3. \A new \in after : \E tables \in state.mine : new \in Execute(tables, tx, state.next)
          BY <4>2
        <4>4. PICK new : new \in after
          BY <1>3
        <4>. HIDE DEF after, tx
        <4>. QED
          BY <1>1, <2>2, <4>1, <4>3, <4>4, StatementStep
      <3>. QED
        BY <3>1, <3>2
    <2>. HIDE DEF state, tx, next, after, state2
    <2>5. /\ state2.at = "write" /\ state2.tx = tx /\ state2.next = next
          /\ state2.mine = after /\ state2.mine # None
      BY <1>3, <2>3 DEF None
    <2>6. WriteState(state2, db, log)
      BY <2>2, <2>3, <2>4, <2>5 DEF WriteState
    <2>7. CallInv(state2, db, log)
      BY <2>5, <2>6 DEF CallInv
    <2>. QED
      BY <1>1, <2>1, <2>7, CallStep
  <1>. QED
    BY <1>2, <1>3

\* COMMIT makes what the connection has written what everyone sees.
LEMMA CommitStep ==
    ASSUME Inv, NEW c \in Conn, Commit(c)
    PROVE  Inv'
  <1>. DEFINE state == call[c]
              tx == state.tx
  <1>1. /\ state.at = "write" /\ state.next = End /\ WriteState(state, db, log)
        /\ db' \in state.mine /\ log' = Append(log, tx) /\ call' = [call EXCEPT ![c] = Idle]
    BY DEF Commit, Inv, CallInv, Becomes
  <1>2. state.mine # None
    BY <1>1 DEF None
  <1>3. /\ tx \in Txs /\ \A k \in DOMAIN tx.from : Checked(log, tx.from[k])
        /\ AreTables(db') /\ Progress(db, db', tx, End)
    BY <1>1, <1>2 DEF WriteState
  <1>4. log \in Seq(Txs) /\ AreTables(db) /\ Agree(db, log) /\ InputsChecked(log)
    BY DEF Inv
  <1>5. Agree(db', log') /\ InputsChecked(log')
    BY <1>1, <1>3, <1>4, CommitAgrees
  <1>6. log' \in Seq(Txs)
    BY <1>1, <1>3, <1>4
  <1>7. call = [d \in Conn |-> call[d]]
    BY DEF Inv
  <1>8. /\ call' = [d \in Conn |-> call'[d]]
        /\ call'[c] = Idle /\ \A d \in Conn : d # c => call'[d] = call[d]
    BY <1>1, <1>7
  <1>9. \A d \in Conn : Writing(d) => d = c
    BY <1>1, <1>2 DEF Inv, OneWriter, Writing
  <1>10. OneWriter'
    BY <1>8, <1>9 DEF OneWriter, Writing, Idle
  <1>11. \A input : Checked(log, input) => Checked(log', input)
    BY <1>1, <1>3, <1>4, CheckedStays
  <1>12. \A key \in DOMAIN db.tx_references :
            key \in DOMAIN db'.tx_references /\ db'.tx_references[key] = db.tx_references[key]
    BY <1>3 DEF Progress, Partly
  <1>13. ASSUME NEW d \in Conn
         PROVE  CallInv(call'[d], db', log')
    <2>1. CASE d = c
      BY <1>8, <2>1 DEF CallInv, Idle
    <2>2. CASE d # c
      <3>1. call'[d] = call[d] /\ CallInv(call[d], db, log)
        BY <1>8, <2>2 DEF Inv
      <3>2. call[d].at = "check" => CheckState(call[d], log')
        BY <1>11, <3>1 DEF CallInv, CheckState
      <3>3. call[d].at = "write" => call[d].mine = None
        BY <1>9, <2>2 DEF Writing
      <3>4. call[d].at = "write" => WriteState(call[d], db', log')
        BY <1>11, <3>1, <3>3 DEF CallInv, WriteState
      <3>5. call[d].at = "fetch" => FetchState(call[d], db')
        BY <1>12, <3>1 DEF CallInv, FetchState
      <3>. QED
        BY <3>1, <3>2, <3>4, <3>5 DEF CallInv
    <2>. QED
      BY <2>1, <2>2
  <1>. QED
    BY <1>3, <1>5, <1>6, <1>8, <1>10, <1>13 DEF Inv

\* The first SELECT of get_tx_by_reference changes nothing, and what it has read
\* is so.
LEMMA LookupStep ==
    ASSUME Inv, NEW c \in Conn, NEW account \in FullAccount, NEW tx \in Txs,
           GetTxByReference(c, account, tx.reference)
    PROVE  Inv'
  <1>. DEFINE key == <<account, tx.reference>>
              h == db.tx_references[key]
              state == [at |-> "fetch", key |-> key, hash |-> h]
  <1>1. CASE key \notin DOMAIN db.tx_references
    BY <1>1, AnswerStep DEF GetTxByReference
  <1>2. CASE key \in DOMAIN db.tx_references
    <2>1. Becomes(c, state) /\ UNCHANGED <<db, log>>
      BY <1>2 DEF GetTxByReference
    <2>2. FetchState(state, db)
      BY <1>2 DEF FetchState
    <2>3. state.at = "fetch"
      OBVIOUS
    <2>. HIDE DEF state
    <2>4. CallInv(state, db, log) /\ ~HasWritten(state)
      BY <2>2, <2>3 DEF CallInv, HasWritten
    <2>. QED
      BY <2>1, <2>4, CallStep
  <1>. QED
    BY <1>1, <1>2

\* An empty file agrees with an empty log.
LEMMA InitInv == Init => Inv
  <1>. SUFFICES ASSUME Init PROVE Inv
    OBVIOUS
  <1>1. db = Tables /\ log = <<>> /\ call = [c \in Conn |-> IF c \in users THEN Idle ELSE Closed]
    BY DEF Init
  <1>2. \A c \in Conn : call[c].at \in {"idle", "closed"}
    BY <1>1 DEF Idle, Closed
  <1>3. call = [c \in Conn |-> call[c]]
    BY <1>1
  <1>4. /\ Tables.transactions = <<>> /\ Tables.utxos = <<>>
        /\ Tables.tx_references = <<>> /\ Tables.accounts = {}
    BY DEF Tables
  <1>5. AreTables(db)
    BY <1>1, <1>4 DEF AreTables, TablesType, Tables
  <1>6. Places(log) = {}
    BY <1>1 DEF Places
  <1>7. \E place \in [DOMAIN db.utxos -> Places(log)] : Filed(db.utxos, log, place)
    <2>. DEFINE place == [i \in {} |-> 0]
    <2>1. DOMAIN db.utxos = {}
      BY <1>1, <1>4
    <2>2. place \in [DOMAIN db.utxos -> Places(log)]
      BY <2>1
    <2>. HIDE DEF place
    <2>3. Filed(db.utxos, log, place)
      BY <1>6, <2>1 DEF Filed
    <2>. QED
      BY <2>2, <2>3
  <1>8. Agree(db, log) /\ InputsChecked(log)
    BY <1>1, <1>4, <1>6, <1>7 DEF Agree, UniqueIds, InputsChecked
  <1>9. OneWriter /\ \A c \in Conn : CallInv(call[c], db, log)
    BY <1>2 DEF OneWriter, Writing, CallInv
  <1>10. log \in Seq(Txs)
    BY <1>1
  <1>. QED
    BY <1>3, <1>5, <1>8, <1>9, <1>10 DEF Inv

\* Every step of every process keeps the invariant.
LEMMA NextInv == Inv /\ [Next]_vars => Inv'
  <1>. SUFFICES ASSUME Inv, [Next]_vars PROVE Inv'
    OBVIOUS
  <1>1. CASE UNCHANGED vars
    BY <1>1 DEF vars, Inv, OneWriter, Writing
  <1>2. ASSUME NEW c \in Conn, Start(c)
        PROVE  Inv'
    <2>1. ASSUME NEW tx \in Txs, StoreTx(c, tx)
          PROVE  Inv'
      BY <2>1, StoreStep
    <2>2. ASSUME NEW account \in FullAccount, NEW target, ReadUnspent(c, account, target)
          PROVE  Inv'
      BY <2>2, AnswerStep DEF ReadUnspent
    <2>3. ASSUME NEW account \in FullAccount, NEW tx \in Txs,
                 GetTxByReference(c, account, tx.reference)
          PROVE  Inv'
      BY <2>3, LookupStep
    <2>. QED
      BY <1>2, <2>1, <2>2, <2>3 DEF Start
  <1>3. ASSUME NEW c \in Conn, Continue(c)
        PROVE  Inv'
    BY <1>3, CheckStep, WriteStep, CommitStep, AnswerStep DEF Continue, Busy, Fetch
  <1>4. ASSUME NEW c \in Conn, Fail(c) \/ Crash(c) \/ Open(c)
        PROVE  Inv'
    BY <1>4, AnswerStep, CallEnds DEF Fail, Crash, Open
  <1>. QED
    BY <1>1, <1>2, <1>3, <1>4 DEF Next

\* In every state: the committed tables say what the log says, at most one
\* connection has written, and every call is where its statements have brought it.
THEOREM Invariant == Spec => []Inv
  BY InitInv, NextInv, PTL DEF Spec
-----------------------------------------------------------------------------
(* What it implies.                                                         *)

\* The tables, the log and the calls are well formed in every state.
THEOREM TypeCorrect == Spec => []TypeOK
  <1>1. Inv => TypeOK
    BY DEF Inv, CallInv, CheckState, WriteState, AreTables, TypeOK, Writing
  <1>. QED
    BY <1>1, Invariant, PTL

\* Tables that agree with a log have one row for each output, in their order.
LEMMA AsManyRows ==
    ASSUME NEW lg \in Seq(Txs), NEW rows \in Seq(Row),
           NEW place \in [DOMAIN rows -> Places(lg)], Filed(rows, lg, place)
    PROVE  /\ Len(rows) = Cardinality(Places(lg))
           /\ \A m, n \in DOMAIN rows : place[m] = place[n] => m = n
  <1>1. Len(rows) \in Nat /\ DOMAIN rows = 1..Len(rows) /\ lg \in Seq(Transaction)
    BY LogType
  <1>2. \A p \in Places(lg) : p[1] \in Nat /\ p[2] \in Nat
    BY <1>1, PlaceType
  <1>3. ASSUME NEW m \in DOMAIN rows, NEW n \in DOMAIN rows, m < n
        PROVE  place[m] # place[n]
    <2>1. Newer(place[n], place[m])
      BY <1>3 DEF Filed
    <2>. QED
      BY <1>2, <2>1 DEF Newer
  <1>4. \A m, n \in DOMAIN rows : place[m] = place[n] => m = n
    <2>1. \A m, n \in DOMAIN rows : m = n \/ m < n \/ n < m
      BY <1>1
    <2>. QED
      BY <1>3, <2>1
  <1>5. place \in Bijection(1..Len(rows), Places(lg))
    <2>. DEFINE places == Places(lg)
    <2>1. \A p \in places : \E i \in DOMAIN rows : place[i] = p
      BY DEF Filed
    <2>2. place \in [1..Len(rows) -> places]
      BY <1>1
    <2>. HIDE DEF places
    <2>3. place \in Injection(1..Len(rows), places)
      BY <1>1, <1>4, <2>2, Fun_IsInj
    <2>4. place \in Surjection(1..Len(rows), places)
      BY <1>1, <2>1, <2>2, Fun_IsSurj
    <2>. QED
      BY <2>3, <2>4, Fun_IsBij DEF places
  <1>6. IsFiniteSet(1..Len(rows)) /\ Cardinality(1..Len(rows)) = Len(rows)
    <2>. DEFINE n == Len(rows)
    <2>1. n \in Nat
      BY <1>1
    <2>. HIDE DEF n
    <2>2. n \in Int /\ 1 \in Int /\ (IF 1 > n THEN 0 ELSE n - 1 + 1) = n
      BY <2>1
    <2>3. IsFiniteSet(1..n) /\ Cardinality(1..n) = IF 1 > n THEN 0 ELSE n - 1 + 1
      BY <2>2, FS_Interval
    <2>. QED
      BY <2>2, <2>3 DEF n
  <1>7. Cardinality(Places(lg)) = Len(rows)
    <2>1. ExistsBijection(1..Len(rows), Places(lg))
      BY <1>5 DEF ExistsBijection
    <2>. QED
      BY <1>6, <2>1, FS_Bijection
  <1>. QED
    BY <1>4, <1>7

\* Whoever else writes and wherever a process stops, the committed tables hold
\* whole transactions: their hashes, outputs, spenders, references and accounts.
THEOREM TablesAlwaysAgree == Spec => []TablesAgree
  <1>. SUFFICES Inv => TablesAgree
    BY Invariant, PTL
  <1>. SUFFICES ASSUME Inv PROVE TablesAgree
    OBVIOUS
  <1>. DEFINE rows == db.utxos
  <1>1. log \in Seq(Txs) /\ log \in Seq(Transaction) /\ Agree(db, log)
    BY LogType DEF Inv
  <1>2. rows \in Seq(Row) /\ Len(rows) \in Nat /\ DOMAIN rows = 1..Len(rows)
    BY DEF Inv, AreTables, TablesType
  <1>3. PICK place \in [DOMAIN rows -> Places(log)] : Filed(rows, log, place)
    BY <1>1 DEF Agree
  <1>4. /\ Len(rows) = Cardinality(Places(log))
        /\ \A m, n \in DOMAIN rows : place[m] = place[n] => m = n
    <2>. HIDE DEF rows
    <2>. QED
      BY <1>1, <1>2, <1>3, AsManyRows
  <1>5. ToSet(rows) = {rows[i] : i \in DOMAIN rows}
    BY DEF ToSet, rows
  <1>6. {row.id : row \in ToSet(rows)} = Created(log)
    <2>1. \A i \in DOMAIN rows : place[i] \in Places(log) /\ rows[i].id = UtxoAt(log, place[i]).id
      BY <1>3 DEF Filed
    <2>2. \A p \in Places(log) : \E i \in DOMAIN rows : place[i] = p
      BY <1>3 DEF Filed
    <2>. HIDE DEF rows
    <2>. QED
      BY <1>5, <2>1, <2>2 DEF Created
  <1>7. ASSUME NEW p \in Places(log), NEW q \in Places(log), Newer(q, p)
        PROVE  \E m, n \in DOMAIN rows :
                  m < n /\ rows[m].id = UtxoAt(log, p).id /\ rows[n].id = UtxoAt(log, q).id
    <2>1. PICK m \in DOMAIN rows : place[m] = p
      BY <1>3 DEF Filed
    <2>2. PICK n \in DOMAIN rows : place[n] = q
      BY <1>3 DEF Filed
    <2>3. p[1] \in Nat /\ p[2] \in Nat /\ q[1] \in Nat /\ q[2] \in Nat
      BY <1>1, PlaceType
    <2>4. m # n /\ ~Newer(p, q)
      BY <1>7, <2>1, <2>2, <2>3 DEF Newer
    <2>5. ~(n < m)
      BY <1>3, <2>1, <2>2, <2>4 DEF Filed
    <2>6. m < n
      BY <1>2, <2>4, <2>5
    <2>. QED
      BY <1>3, <2>1, <2>2, <2>6 DEF Filed
  <1>8. ASSUME NEW row \in ToSet(rows)
        PROVE  row.spent_at \subseteq Spenders(row.id) /\ (row.spent_at = None <=> Spenders(row.id) = {})
    <2>1. PICK i \in DOMAIN rows : row = rows[i]
      BY <1>5
    <2>2. /\ rows[i].spent_at \subseteq SpendersIn(log, rows[i].id)
          /\ rows[i].spent_at = None <=> SpendersIn(log, rows[i].id) = {}
      BY <1>1, <2>1 DEF Agree
    <2>3. Spenders(row.id) = SpendersIn(log, row.id)
      BY DEF Spenders, SpendersIn
    <2>. QED
      BY <2>1, <2>2, <2>3
  <1>9. ASSUME NEW p \in Places(log)
        PROVE  \E row \in ToSet(rows) : /\ row.id = UtxoAt(log, p).id
                                        /\ row.account = OutputAt(log, p).account
                                        /\ row.amount = AsColumn(OutputAt(log, p).amount)
    <2>1. PICK i \in DOMAIN rows : place[i] = p
      BY <1>3 DEF Filed
    <2>. QED
      BY <1>3, <1>5, <2>1 DEF Filed
  <1>10. \A p \in Places(log) : p[1] \in DOMAIN log /\ p[2] \in DOMAIN log[p[1]].to
    BY DEF Places
  <1>11. \A p \in Places(log) : /\ Key(log[p[1]], p[2]) \in DOMAIN db.tx_references
                                /\ db.tx_references[Key(log[p[1]], p[2])] = log[p[1]].id
    BY <1>1, <1>10 DEF Agree
  <1>12. ASSUME NEW key \in DOMAIN db.tx_references
         PROVE  \E p \in Places(log) : key = Key(log[p[1]], p[2])
    <2>1. PICK i \in DOMAIN log : \E k \in DOMAIN log[i].to : key = Key(log[i], k)
      BY <1>1 DEF Agree
    <2>2. PICK k \in DOMAIN log[i].to : key = Key(log[i], k)
      BY <2>1
    <2>3. <<i, k>> \in Places(log)
      BY DEF Places
    <2>. QED
      BY <2>2, <2>3
  <1>13. DOMAIN db.tx_references = {Key(log[p[1]], p[2]) : p \in Places(log)}
    BY <1>11, <1>12
  <1>. QED
    BY <1>1, <1>4, <1>6, <1>7, <1>8, <1>9, <1>11, <1>13 DEF Agree, TablesAgree

\* A reference credits an account once, and leads to the transaction that did,
\* however many processes ask before any of them writes.
THEOREM OneCreditPerReferenceHolds == Spec => []OneCreditPerReference
  <1>. SUFFICES Inv => OneCreditPerReference
    BY Invariant, PTL
  <1>. SUFFICES ASSUME Inv PROVE OneCreditPerReference
    OBVIOUS
  <1>1. \A i, j \in DOMAIN log : log[i].id = log[j].id => i = j
    BY DEF Inv, Agree, UniqueIds
  <1>2. \A i \in DOMAIN log : \A k \in DOMAIN log[i].to :
           /\ Key(log[i], k) \in DOMAIN db.tx_references
           /\ db.tx_references[Key(log[i], k)] = log[i].id
    BY DEF Inv, Agree
  <1>3. ASSUME NEW i \in DOMAIN log, NEW j \in DOMAIN log, i # j,
               log[i].reference = log[j].reference,
               NEW k \in DOMAIN log[i].to, NEW n \in DOMAIN log[j].to
        PROVE  log[i].to[k].account # log[j].to[n].account
    <2>1. SUFFICES ASSUME log[i].to[k].account = log[j].to[n].account PROVE FALSE
      OBVIOUS
    <2>2. Key(log[i], k) = Key(log[j], n)
      BY <1>3, <2>1 DEF Key
    <2>3. log[i].id = log[j].id
      BY <1>2, <2>2
    <2>. QED
      BY <1>1, <1>3, <2>3
  <1>. QED
    BY <1>1, <1>2, <1>3 DEF OneCreditPerReference

\* No output is spent at another amount than it was created with, as long as the
\* amounts fit the column.
THEOREM ValueIsKeptHolds == Spec => []ValueIsKept
  <1>. SUFFICES Inv => ValueIsKept
    BY Invariant, PTL
  <1>. SUFFICES ASSUME Inv, \A i \in DOMAIN log : Fits(log[i]),
                       NEW i \in DOMAIN log, NEW k \in DOMAIN log[i].from
                PROVE  \E p \in Places(log) : UtxoAt(log, p) = log[i].from[k]
    BY DEF ValueIsKept
  <1>. DEFINE input == log[i].from[k]
  <1>1. log \in Seq(Txs) /\ log \in Seq(Transaction)
    BY LogType DEF Inv
  <1>2. PICK p \in Places(log) : /\ UtxoAt(log, p).id = input.id
                                 /\ AsColumn(OutputAt(log, p).amount) = AsColumn(input.amount)
    BY DEF Inv, InputsChecked, Checked
  <1>3. AsColumn(input.amount) = input.amount
    BY DEF Fits
  <1>4. p[1] \in DOMAIN log /\ p[2] \in DOMAIN log[p[1]].to /\ OutputAt(log, p) = log[p[1]].to[p[2]]
    <2>1a. PICK j \in DOMAIN log : \E n \in DOMAIN log[j].to : p = <<j, n>>
      BY InPlaces
    <2>1. PICK n \in DOMAIN log[j].to : p = <<j, n>>
      BY <2>1a
    <2>. QED
      BY <2>1 DEF OutputAt
  <1>5. AsColumn(OutputAt(log, p).amount) = OutputAt(log, p).amount
    BY <1>4 DEF Fits
  <1>6. UtxoAt(log, p).amount = input.amount
    BY <1>2, <1>3, <1>5 DEF UtxoAt
  <1>7. log[i] \in Txs
    BY <1>1
  <1>8. input \in Utxo /\ UtxoAt(log, p) \in Utxo
    BY <1>1, <1>7, TxParts, PlaceType
  <1>. HIDE DEF input
  <1>9. UtxoAt(log, p) = input
    BY <1>2, <1>6, <1>8 DEF Utxo
  <1>. QED
    BY <1>9 DEF input
-----------------------------------------------------------------------------
(* One process alone: what its questions are answered.                      *)

\* What the questions before q were answered, of the outputs and of the inputs.
OutputsAsked(tx, q) ==
    CASE q.on = "transactions" -> 0
      [] q.on = "tx_references" -> q.n - 1
      [] OTHER -> Len(tx.to)

InputsAsked(tx, q) ==
    CASE q.on = "utxos" -> q.n - 1
      [] q.on = "end" -> Len(tx.from)
      [] OTHER -> 0

\* The questions before q would be answered as they were.
Asked(tables, tx, q) ==
    /\ q.on # "transactions" => tx.id \notin DOMAIN tables.transactions
    /\ \A k \in 1..OutputsAsked(tx, q) : Key(tx, k) \notin DOMAIN tables.tx_references
    /\ \A k \in 1..InputsAsked(tx, q) : InputAnswer(tables, tx.from[k]) = "Ok"

\* Rows that agree with the log have the outputs of the log.
LEMMA RowOfOutput ==
    ASSUME NEW tables, AreTables(tables), NEW lg \in Seq(Txs), Agree(tables, lg), NEW id
    PROVE  /\ RowsOf(tables, id) = {} <=> id \notin Created(lg)
           /\ \A i \in RowsOf(tables, id) :
                 /\ tables.utxos[i].spent_at = None <=> id \notin Spent(lg)
                 /\ \E p \in Places(lg) : /\ UtxoAt(lg, p).id = id
                                          /\ tables.utxos[i].amount = AsColumn(OutputAt(lg, p).amount)
  <1>1. PICK place \in [DOMAIN tables.utxos -> Places(lg)] : Filed(tables.utxos, lg, place)
    BY DEF Agree
  <1>. DEFINE rows == tables.utxos
  <1>2. \A i \in DOMAIN rows : /\ place[i] \in Places(lg)
                               /\ rows[i].id = UtxoAt(lg, place[i]).id
                               /\ rows[i].amount = AsColumn(OutputAt(lg, place[i]).amount)
    BY <1>1 DEF Filed
  <1>3. \A p \in Places(lg) : \E i \in DOMAIN rows : place[i] = p
    BY <1>1 DEF Filed
  <1>4. \A i : i \in RowsOf(tables, id) <=> i \in DOMAIN rows /\ rows[i].id = id
    BY DEF RowsOf
  <1>5. \A i \in DOMAIN rows : rows[i].spent_at = None <=> SpendersIn(lg, rows[i].id) = {}
    BY DEF Agree
  <1>6. SpendersIn(lg, id) = {} <=> id \notin Spent(lg)
    <2>. DEFINE spends(i) == \E k \in DOMAIN lg[i].from : lg[i].from[k].id = id
    <2>1. SpendersIn(lg, id) = {lg[i].id : i \in {j \in DOMAIN lg : spends(j)}}
      BY DEF SpendersIn
    <2>2. id \in Spent(lg) <=> \E i \in DOMAIN lg : spends(i)
      BY DEF Spent
    <2>. HIDE DEF spends
    <2>. QED
      BY <2>1, <2>2
  <1>. HIDE DEF rows
  <1>7. RowsOf(tables, id) = {} <=> id \notin Created(lg)
    BY <1>2, <1>3, <1>4 DEF Created
  <1>8. \A i \in RowsOf(tables, id) : rows[i].spent_at = None <=> id \notin Spent(lg)
    BY <1>4, <1>5, <1>6
  <1>9. \A i \in RowsOf(tables, id) :
           \E p \in Places(lg) : UtxoAt(lg, p).id = id /\ rows[i].amount = AsColumn(OutputAt(lg, p).amount)
    BY <1>2, <1>4
  <1>. QED
    BY <1>7, <1>8, <1>9 DEF rows

\* The amounts of the outputs of a log fit the column.
OutputsFit(lg) == \A p \in Places(lg) : AsColumn(OutputAt(lg, p).amount) = OutputAt(lg, p).amount

LEMMA FitsOutputs ==
    ASSUME NEW lg, \A i \in DOMAIN lg : Fits(lg[i])
    PROVE  OutputsFit(lg)
  <1>1. ASSUME NEW p \in Places(lg)
        PROVE  AsColumn(OutputAt(lg, p).amount) = OutputAt(lg, p).amount
    <2>1a. PICK i \in DOMAIN lg : \E k \in DOMAIN lg[i].to : p = <<i, k>>
      BY InPlaces
    <2>1. PICK k \in DOMAIN lg[i].to : p = <<i, k>>
      BY <2>1a
    <2>. QED
      BY <2>1 DEF OutputAt, Fits
  <1>. QED
    BY <1>1 DEF OutputsFit

\* The question about an input is answered from the tables as the log answers.
LEMMA AnswerIsVerdict ==
    ASSUME NEW tables, AreTables(tables), NEW lg \in Seq(Txs), Agree(tables, lg), OutputsFit(lg),
           NEW input \in Utxo, AsColumn(input.amount) = input.amount
    PROVE  InputAnswer(tables, input) = InputVerdict(lg, input)
  <1>. DEFINE id == input.id
              rows == RowsOf(tables, id)
              i == CHOOSE j \in rows : TRUE
              row == tables.utxos[i]
  <1>1. /\ rows = {} <=> id \notin Created(lg)
        /\ \A j \in rows :
              /\ tables.utxos[j].spent_at = None <=> id \notin Spent(lg)
              /\ \E p \in Places(lg) : /\ UtxoAt(lg, p).id = id
                                       /\ tables.utxos[j].amount = AsColumn(OutputAt(lg, p).amount)
    BY RowOfOutput
  <1>2. InputAnswer(tables, input)
           = IF rows = {} THEN "MissingUtxo"
             ELSE IF row.spent_at # None THEN "SpentUtxo"
             ELSE IF row.amount # input.amount THEN "MismatchAmount" ELSE "Ok"
    BY DEF InputAnswer
  <1>3. InputVerdict(lg, input)
           = IF id \notin Created(lg) THEN "MissingUtxo"
             ELSE IF id \in Spent(lg) THEN "SpentUtxo"
             ELSE IF \E p \in Places(lg) : UtxoAt(lg, p) = input THEN "Ok" ELSE "MismatchAmount"
    BY DEF InputVerdict
  <1>4. CASE rows = {}
    BY <1>1, <1>2, <1>3, <1>4
  <1>5. CASE rows # {}
    <2>1. i \in rows
      BY <1>5
    <2>. HIDE DEF i
    <2>2. row.spent_at = None <=> id \notin Spent(lg)
      BY <1>1, <2>1
    <2>3. PICK p \in Places(lg) : UtxoAt(lg, p).id = id /\ row.amount = OutputAt(lg, p).amount
      BY <1>1, <2>1 DEF OutputsFit
    <2>4. lg \in Seq(Transaction) /\ UniqueIds(lg)
      BY LogType DEF Agree
    <2>5. \A q \in Places(lg) : UtxoAt(lg, q).id = id => q = p
      BY <2>3, <2>4, UtxoNamesPlace
    <2>6. UtxoAt(lg, p) \in Utxo /\ UtxoAt(lg, p).amount = row.amount
      BY <2>3, <2>4, PlaceType DEF UtxoAt
    <2>7. UtxoAt(lg, p) = input <=> row.amount = input.amount
      BY <2>3, <2>6 DEF Utxo
    <2>8. (\E q \in Places(lg) : UtxoAt(lg, q) = input) <=> row.amount = input.amount
      BY <2>5, <2>7
    <2>. HIDE DEF rows, row
    <2>. QED
      BY <1>1, <1>2, <1>3, <1>5, <2>2, <2>8
  <1>. QED
    BY <1>4, <1>5

\* Outputs asked about with no answer are not in the log under that reference.
LEMMA KeyIsFound ==
    ASSUME NEW tables, NEW lg, Agree(tables, lg), NEW account, NEW reference
    PROVE  /\ <<account, reference>> \in DOMAIN tables.tx_references
                 <=> Found(lg, account, reference) # {}
           /\ \A i \in Found(lg, account, reference) :
                 tables.tx_references[<<account, reference>>] = lg[i].id
  <1>1. ASSUME <<account, reference>> \in DOMAIN tables.tx_references
        PROVE  Found(lg, account, reference) # {}
    <2>1. PICK i \in DOMAIN lg : \E k \in DOMAIN lg[i].to : <<account, reference>> = Key(lg[i], k)
      BY <1>1 DEF Agree
    <2>2. PICK k \in DOMAIN lg[i].to : <<account, reference>> = Key(lg[i], k)
      BY <2>1
    <2>3. lg[i].to[k].account = account /\ lg[i].reference = reference
      BY <2>2 DEF Key
    <2>. QED
      BY <2>3 DEF Found
  <1>2. ASSUME NEW i \in Found(lg, account, reference)
        PROVE  /\ <<account, reference>> \in DOMAIN tables.tx_references
               /\ tables.tx_references[<<account, reference>>] = lg[i].id
    <2>1. i \in DOMAIN lg /\ lg[i].reference = reference
      BY DEF Found
    <2>2. PICK k \in DOMAIN lg[i].to : lg[i].to[k].account = account
      BY DEF Found
    <2>3. Key(lg[i], k) = <<account, reference>>
      BY <2>1, <2>2 DEF Key
    <2>. QED
      BY <2>1, <2>2, <2>3 DEF Agree
  <1>. QED
    BY <1>1, <1>2

\* With neither the hash nor a reference in the tables, it is no duplicate.
LEMMA NoDuplicate ==
    ASSUME NEW tables, NEW lg, Agree(tables, lg), NEW tx,
           tx.id \notin DOMAIN tables.transactions,
           \A k \in DOMAIN tx.to : Key(tx, k) \notin DOMAIN tables.tx_references
    PROVE  ~IsDuplicate(lg, tx)
  <1>1. \A i \in DOMAIN lg : lg[i].id # tx.id
    BY DEF Agree
  <1>2. ASSUME NEW k \in DOMAIN tx.to
        PROVE  Found(lg, tx.to[k].account, tx.reference) = {}
    <2>1. <<tx.to[k].account, tx.reference>> \notin DOMAIN tables.tx_references
      BY DEF Key
    <2>. QED
      BY <2>1, KeyIsFound
  <1>. QED
    BY <1>1, <1>2 DEF IsDuplicate

\* When every question of a transaction that fits is answered right, the contract
\* says Ok.
LEMMA AskedIsVerdict ==
    ASSUME NEW tables, AreTables(tables), NEW lg \in Seq(Txs), Agree(tables, lg), OutputsFit(lg),
           NEW tx \in Txs, Fits(tx), Asked(tables, tx, End)
    PROVE  Verdict(lg, tx) = "Ok"
  <1>1. /\ tx.id \notin DOMAIN tables.transactions
        /\ \A k \in DOMAIN tx.to : Key(tx, k) \notin DOMAIN tables.tx_references
        /\ \A k \in DOMAIN tx.from : InputAnswer(tables, tx.from[k]) = "Ok"
    BY TxParts DEF Asked, End, OutputsAsked, InputsAsked
  <1>2. ~IsDuplicate(lg, tx)
    BY <1>1, NoDuplicate
  <1>3. ASSUME NEW k \in DOMAIN tx.from
        PROVE  InputVerdict(lg, tx.from[k]) = "Ok"
    <2>1. tx.from[k] \in Utxo /\ AsColumn(tx.from[k].amount) = tx.from[k].amount
      BY TxParts DEF Fits
    <2>2. InputAnswer(tables, tx.from[k]) = InputVerdict(lg, tx.from[k])
      BY <2>1, AnswerIsVerdict
    <2>. QED
      BY <1>1, <2>2
  <1>. QED
    BY <1>2, <1>3 DEF Verdict

\* The first wrong answer is the verdict of the contract.
LEMMA WrongIsVerdict ==
    ASSUME NEW tables, AreTables(tables), NEW lg \in Seq(Txs), Agree(tables, lg), OutputsFit(lg),
           NEW tx \in Txs, Fits(tx), NEW q, IsQuestion(tx, q), Asked(tables, tx, q),
           Verified(tables, tx, q) # "Ok"
    PROVE  Verified(tables, tx, q) = Verdict(lg, tx)
  <1>1. CASE q.on = "transactions"
    <2>1. tx.id \in DOMAIN tables.transactions /\ Verified(tables, tx, q) = "Duplicate"
      BY <1>1 DEF Verified
    <2>2. IsDuplicate(lg, tx)
      BY <2>1 DEF Agree, IsDuplicate
    <2>. QED
      BY <2>1, <2>2 DEF Verdict
  <1>2. CASE q.on = "tx_references"
    <2>1. Key(tx, q.n) \in DOMAIN tables.tx_references /\ Verified(tables, tx, q) = "Duplicate"
      BY <1>2 DEF Verified
    <2>2. q.n \in DOMAIN tx.to
      BY <1>2 DEF IsQuestion, First
    <2>3. <<tx.to[q.n].account, tx.reference>> \in DOMAIN tables.tx_references
      BY <2>1 DEF Key
    <2>4. Found(lg, tx.to[q.n].account, tx.reference) # {}
      BY <2>3, KeyIsFound
    <2>5. IsDuplicate(lg, tx)
      BY <2>2, <2>4 DEF IsDuplicate
    <2>. QED
      BY <2>1, <2>5 DEF Verdict
  <1>3. CASE q.on = "utxos"
    <2>0. q.n \in DOMAIN tx.from /\ DOMAIN tx.from = 1..Len(tx.from) /\ Len(tx.from) \in Nat
      BY <1>3, TxParts DEF IsQuestion, First
    <2>1. /\ tx.id \notin DOMAIN tables.transactions
          /\ \A k \in DOMAIN tx.to : Key(tx, k) \notin DOMAIN tables.tx_references
          /\ \A k \in 1..(q.n - 1) : InputAnswer(tables, tx.from[k]) = "Ok"
      BY <1>3, TxParts DEF Asked, OutputsAsked, InputsAsked
    <2>2. ~IsDuplicate(lg, tx)
      BY <2>1, NoDuplicate
    <2>3. ASSUME NEW k \in DOMAIN tx.from
          PROVE  InputAnswer(tables, tx.from[k]) = InputVerdict(lg, tx.from[k])
      <3>1. tx.from[k] \in Utxo /\ AsColumn(tx.from[k].amount) = tx.from[k].amount
        BY TxParts DEF Fits
      <3>. QED
        BY <3>1, AnswerIsVerdict
    <2>4. Verified(tables, tx, q) = InputVerdict(lg, tx.from[q.n])
      BY <1>3, <2>0, <2>3 DEF Verified
    <2>. DEFINE n == q.n
                refused == {k \in DOMAIN tx.from : InputVerdict(lg, tx.from[k]) # "Ok"}
                first == CHOOSE k \in refused : \A j \in refused : k <= j
    <2>5. n \in refused
      BY <2>0, <2>4
    <2>6. \A k \in refused : k \in Nat /\ k \notin 1..(n - 1)
      BY <2>0, <2>1, <2>3
    <2>7. n \in Nat /\ \A k \in refused : k >= 1
      BY <2>0
    <2>. HIDE DEF n, refused
    <2>8. \A k \in refused : n <= k
      BY <2>6, <2>7
    <2>9. \A k \in refused : (\A j \in refused : k <= j) => k = n
      BY <2>5, <2>6, <2>7, <2>8
    <2>10. first = n
      BY <2>5, <2>8, <2>9
    <2>. HIDE DEF first
    <2>11. Verdict(lg, tx) = InputVerdict(lg, tx.from[first])
      BY <2>2, <2>5 DEF Verdict, refused, first
    <2>. QED
      BY <2>4, <2>10, <2>11 DEF n
  <1>. QED
    BY <1>1, <1>2, <1>3 DEF IsQuestion, First

\* A question that is answered right is one of those that were.
LEMMA AskedNext ==
    ASSUME NEW tables, NEW tx \in Txs, NEW q, IsQuestion(tx, q), Asked(tables, tx, q),
           Verified(tables, tx, q) = "Ok"
    PROVE  Asked(tables, tx, NextQuestion(tx, q))
  <1>. DEFINE next == NextQuestion(tx, q)
              keys(n) == \A k \in 1..n : Key(tx, k) \notin DOMAIN tables.tx_references
              inputs(n) == \A k \in 1..n : InputAnswer(tables, tx.from[k]) = "Ok"
  <1>1. /\ Len(tx.to) \in Nat /\ DOMAIN tx.to = 1..Len(tx.to)
        /\ Len(tx.from) \in Nat /\ DOMAIN tx.from = 1..Len(tx.from)
    BY TxParts
  <1>2. tx.id \notin DOMAIN tables.transactions
    BY DEF Asked, Verified, IsQuestion, First
  <1>3. ASSUME NEW n \in 0..Len(tx.from), next = Turn("utxos", n + 1, tx.from, End),
               keys(Len(tx.to)), inputs(n)
        PROVE  Asked(tables, tx, next)
    <2>1. CASE n + 1 <= Len(tx.from)
      <3>1. next.on = "utxos" /\ next.n - 1 = n
        BY <1>3, <2>1 DEF Turn
      <3>. HIDE DEF next
      <3>. QED
        BY <1>2, <1>3, <3>1 DEF Asked, OutputsAsked, InputsAsked
    <2>2. CASE ~(n + 1 <= Len(tx.from))
      <3>1. next.on = "end" /\ n = Len(tx.from)
        BY <1>1, <1>3, <2>2 DEF Turn, End
      <3>. HIDE DEF next
      <3>. QED
        BY <1>2, <1>3, <3>1 DEF Asked, OutputsAsked, InputsAsked
    <2>. QED
      BY <2>1, <2>2
  <1>4. inputs(0) /\ keys(0) /\ 0 \in 0..Len(tx.from) /\ 0 + 1 = 1 /\ 0 \in 0..Len(tx.to)
    BY <1>1
  <1>5. ASSUME NEW n \in 0..Len(tx.to), keys(n),
               next = Turn("tx_references", n + 1, tx.to, Turn("utxos", 0 + 1, tx.from, End))
        PROVE  Asked(tables, tx, next)
    <2>1. CASE n + 1 <= Len(tx.to)
      <3>1. next.on = "tx_references" /\ next.n - 1 = n
        BY <1>5, <2>1 DEF Turn
      <3>2. 1..0 = {}
        OBVIOUS
      <3>. HIDE DEF next
      <3>. QED
        BY <1>2, <1>5, <3>1, <3>2 DEF Asked, OutputsAsked, InputsAsked
    <2>2. CASE ~(n + 1 <= Len(tx.to))
      <3>1. next = Turn("utxos", 0 + 1, tx.from, End)
        BY <1>5, <2>2, Zenon DEF Turn
      <3>2. n = Len(tx.to)
        BY <1>1, <2>2
      <3>. HIDE DEF next, keys, inputs
      <3>. QED
        BY <1>3, <1>4, <1>5, <3>1, <3>2
    <2>. QED
      BY <2>1, <2>2
  <1>6. CASE q.on = "transactions"
    <2>1. next = Turn("tx_references", 0 + 1, tx.to, Turn("utxos", 0 + 1, tx.from, End))
      BY <1>4, <1>6 DEF NextQuestion
    <2>. HIDE DEF next, keys
    <2>. QED
      BY <1>4, <1>5, <2>1 DEF next
  <1>7. CASE q.on = "tx_references"
    <2>1. q.n \in DOMAIN tx.to
      BY <1>7 DEF IsQuestion, First
    <2>2. q.n \in 0..Len(tx.to) /\ 1..q.n = (1..(q.n - 1)) \cup {q.n}
      BY <1>1, <2>1
    <2>3. keys(q.n - 1) /\ Key(tx, q.n) \notin DOMAIN tables.tx_references
      BY <1>7 DEF Asked, OutputsAsked, Verified
    <2>4. keys(q.n)
      BY <2>2, <2>3
    <2>5. next = Turn("tx_references", q.n + 1, tx.to, Turn("utxos", 0 + 1, tx.from, End))
      BY <1>4, <1>7 DEF NextQuestion
    <2>. HIDE DEF next, keys
    <2>. QED
      BY <1>5, <2>2, <2>4, <2>5 DEF next
  <1>8. CASE q.on = "utxos"
    <2>1. q.n \in DOMAIN tx.from
      BY <1>8 DEF IsQuestion, First
    <2>2. q.n \in 0..Len(tx.from) /\ 1..q.n = (1..(q.n - 1)) \cup {q.n}
      BY <1>1, <2>1
    <2>3. keys(Len(tx.to)) /\ inputs(q.n - 1) /\ InputAnswer(tables, tx.from[q.n]) = "Ok"
      BY <1>8 DEF Asked, OutputsAsked, InputsAsked, Verified
    <2>4. inputs(q.n)
      BY <2>2, <2>3
    <2>5. next = Turn("utxos", q.n + 1, tx.from, End)
      BY <1>8 DEF NextQuestion
    <2>. HIDE DEF next, keys, inputs
    <2>. QED
      BY <1>3, <2>2, <2>3, <2>4, <2>5 DEF next
  <1>. QED
    BY <1>6, <1>7, <1>8 DEF IsQuestion, First

\* After the questions were answered right, a statement fails only for a second
\* output to one sub-account.
LEMMA OnlyRepeatsFail ==
    ASSUME NEW base, AreTables(base), NEW lg \in Seq(Txs), Agree(base, lg),
           NEW tx \in Txs, Asked(base, tx, End),
           NEW tables, AreTables(tables), NEW s, IsStatement(tx, s), s # End,
           Progress(base, tables, tx, s), Execute(tables, tx, s) = {}
    PROVE  Repeats(tx)
  <1>1. /\ tx.id \notin DOMAIN base.transactions
        /\ \A k \in DOMAIN tx.to : Key(tx, k) \notin DOMAIN base.tx_references
        /\ Len(tx.to) \in Nat /\ DOMAIN tx.to = 1..Len(tx.to)
    BY TxParts DEF Asked, End, OutputsAsked, InputsAsked
  <1>2. CASE s.on = "spent_at"
    BY <1>2 DEF Execute, MarkSpent
  <1>3. CASE s.on = "accounts"
    BY <1>3 DEF Execute, InsertAccount
  <1>4. CASE s.on = "utxos"
    <2>1. s.n \in DOMAIN tx.to
      BY <1>4 DEF IsStatement, End
    <2>. DEFINE id == <<tx.id, s.n - 1>>
                n == Len(base.utxos)
    <2>2. RowsOf(tables, id) # {}
      BY <1>4 DEF Execute, InsertUtxo
    <2>3. PICK i \in DOMAIN tables.utxos : tables.utxos[i].id = id
      BY <2>2 DEF RowsOf
    <2>4. /\ Len(tables.utxos) = n + (s.n - 1)
          /\ \A j \in DOMAIN base.utxos : SpentRow(tables.utxos[j], base.utxos[j], tx, Marked(tx, s))
          /\ \A k \in 1..(s.n - 1) : tables.utxos[n + k] = NewRow(tx, k)
      BY <1>4 DEF Progress, Partly, Outputs, InsertedBy
    <2>5. /\ n \in Nat /\ DOMAIN base.utxos = 1..n
          /\ Len(tables.utxos) \in Nat /\ DOMAIN tables.utxos = 1..Len(tables.utxos)
      BY DEF AreTables, TablesType
    <2>6. CASE i \in 1..n
      <3>1. base.utxos[i].id = id
        BY <2>3, <2>4, <2>5, <2>6 DEF SpentRow
      <3>2. RowsOf(base, id) # {}
        BY <2>5, <2>6, <3>1 DEF RowsOf
      <3>3. id \in Created(lg)
        BY <3>2, RowOfOutput
      <3>4. PICK p \in Places(lg) : UtxoAt(lg, p).id = id
        BY <3>3 DEF Created
      <3>5a. PICK j \in DOMAIN lg : \E k \in DOMAIN lg[j].to : p = <<j, k>>
        BY InPlaces
      <3>5. lg[j].id = tx.id
        BY <3>4, <3>5a DEF UtxoAt
      <3>. QED
        BY <1>1, <3>5, <3>5a DEF Agree
    <2>7. CASE i \notin 1..n
      <3>. DEFINE k == i - n
      <3>1. k \in 1..(s.n - 1) /\ n + k = i
        <4>1. s.n \in Nat
          BY <1>1, <2>1
        <4>2. i \in 1..(n + (s.n - 1))
          BY <2>4, <2>5
        <4>. HIDE DEF n
        <4>. QED
          BY <2>5, <2>7, <4>1, <4>2
      <3>. HIDE DEF k, n
      <3>2. tables.utxos[i] = NewRow(tx, k)
        BY <2>4, <3>1
      <3>3. id = <<tx.id, k - 1>>
        BY <2>3, <3>2 DEF NewRow
      <3>. QED
        BY <1>1, <2>1, <3>1, <3>3
    <2>. QED
      BY <2>6, <2>7
  <1>5. CASE s.on = "tx_references"
    <2>1. s.n \in DOMAIN tx.to
      BY <1>5 DEF IsStatement, End
    <2>2. Key(tx, s.n) \in DOMAIN tables.tx_references
      BY <1>5 DEF Execute, InsertReference
    <2>3. DOMAIN tables.tx_references
             = DOMAIN base.tx_references \cup {Key(tx, k) : k \in 1..(s.n - 1)}
      BY <1>5 DEF Progress, Partly, Refs, InsertedBy
    <2>4. PICK k \in 1..(s.n - 1) : Key(tx, s.n) = Key(tx, k)
      BY <1>1, <2>1, <2>2, <2>3
    <2>5. k \in DOMAIN tx.to /\ k # s.n /\ tx.to[k].account = tx.to[s.n].account
      BY <1>1, <2>1, <2>4 DEF Key
    <2>. QED
      BY <2>1, <2>5 DEF Repeats
  <1>. QED
    BY <1>2, <1>3, <1>4, <1>5 DEF IsStatement
-----------------------------------------------------------------------------
(* One process alone: nothing changes between its questions and its writes. *)

\* One process has the file, or all have.
UsersInv == users \in {Conn} \cup {{c} : c \in Conn}

AloneWith(c) ==
    /\ \A d \in Conn : d # c => call[d].at = "closed"
    /\ call[c].at = "check" => Asked(db, call[c].tx, call[c].next)
    /\ call[c].at = "write" => Asked(db, call[c].tx, End)

AloneInv == UsersInv /\ \A c \in Conn : users = {c} => AloneWith(c)

\* What a connection does.
Acts(c) == Start(c) \/ Continue(c) \/ Fail(c) \/ Crash(c) \/ Open(c)

LEMMA ActsOfNext == Next <=> \E c \in Conn : Acts(c)
  BY DEF Next, Acts

\* No other connection acts.
LEMMA OnlyTheUserActs ==
    ASSUME AloneInv, NEW c \in Conn, users = {c}, NEW d \in Conn, Acts(d)
    PROVE  d = c
  <1>. SUFFICES ASSUME d # c PROVE FALSE
    OBVIOUS
  <1>1. call[d].at = "closed"
    BY DEF AloneInv, AloneWith
  <1>2. call[d] # Idle
    BY <1>1 DEF Idle
  <1>. QED
    BY <1>1, <1>2 DEF Acts, Start, Continue, StoreTx, ReadUnspent, GetTxByReference,
                      Check, Write, Busy, Commit, Fetch, Fail, Crash, Open

\* One call changes.
LEMMA OneCallChanges ==
    ASSUME Inv, NEW c \in Conn, NEW state, Becomes(c, state)
    PROVE  call'[c] = state /\ \A d \in Conn : d # c => call'[d] = call[d]
  <1>1. call = [d \in Conn |-> call[d]] /\ call' = [call EXCEPT ![c] = state]
    BY DEF Inv, Becomes
  <1>. QED
    BY <1>1

\* A call that ends, or reads, keeps it.
LEMMA AloneStays ==
    ASSUME Inv, NEW c \in Conn, AloneWith(c), NEW state, Becomes(c, state), UNCHANGED db,
           state.at = "check" => Asked(db, state.tx, state.next),
           state.at = "write" => Asked(db, state.tx, End)
    PROVE  AloneWith(c)'
  <1>1. call'[c] = state /\ \A d \in Conn : d # c => call'[d] = call[d]
    BY OneCallChanges
  <1>. QED
    BY <1>1 DEF AloneWith

\* So does every other step of its connection.
LEMMA AloneActs ==
    ASSUME Inv, NEW c \in Conn, AloneWith(c), Acts(c)
    PROVE  AloneWith(c)'
  <1>0. /\ Idle.at \notin {"check", "write"} /\ Closed.at \notin {"check", "write"}
        /\ CallInv(call[c], db, log)
    BY DEF Idle, Closed, Inv
  <1>1. ASSUME NEW answer, Answer(c, answer)
        PROVE  AloneWith(c)'
    BY <1>0, <1>1, AloneStays DEF Answer
  <1>2. CASE Crash(c) \/ Open(c)
    BY <1>0, <1>2, AloneStays DEF Crash, Open
  <1>3. CASE Fail(c)
    BY <1>1, <1>3 DEF Fail
  <1>4. ASSUME NEW tx \in Txs, StoreTx(c, tx)
        PROVE  AloneWith(c)'
    <2>. DEFINE state == [at |-> "check", tx |-> tx, next |-> First]
    <2>1. Becomes(c, state) /\ UNCHANGED db
      BY <1>4 DEF StoreTx
    <2>2. state.at = "check" /\ state.tx = tx /\ state.next = First
      OBVIOUS
    <2>. HIDE DEF state
    <2>3. Asked(db, tx, First)
      BY DEF Asked, First, OutputsAsked, InputsAsked
    <2>. QED
      BY <2>1, <2>2, <2>3, AloneStays
  <1>5. ASSUME NEW account \in FullAccount, NEW target, ReadUnspent(c, account, target)
        PROVE  AloneWith(c)'
    BY <1>1, <1>5 DEF ReadUnspent
  <1>6. ASSUME NEW account \in FullAccount, NEW reference, GetTxByReference(c, account, reference)
        PROVE  AloneWith(c)'
    <2>. DEFINE key == <<account, reference>>
                h == db.tx_references[key]
                state == [at |-> "fetch", key |-> key, hash |-> h]
    <2>1. CASE key \notin DOMAIN db.tx_references
      BY <1>1, <1>6, <2>1 DEF GetTxByReference
    <2>2. CASE key \in DOMAIN db.tx_references
      <3>1. Becomes(c, state) /\ UNCHANGED db
        BY <1>6, <2>2 DEF GetTxByReference
      <3>2. state.at \notin {"check", "write"}
        OBVIOUS
      <3>. HIDE DEF state
      <3>. QED
        BY <3>1, <3>2, AloneStays
    <2>. QED
      BY <2>1, <2>2
  <1>7. CASE Fetch(c) \/ Busy(c)
    BY <1>1, <1>7 DEF Fetch, Busy
  <1>8. CASE Check(c)
    <2>. DEFINE state == call[c]
                tx == state.tx
                next == NextQuestion(tx, state.next)
    <2>1. state.at = "check" /\ CheckState(state, log) /\ Asked(db, tx, state.next)
      BY <1>0, <1>8 DEF Check, CallInv, AloneWith
    <2>2. CASE Verified(db, tx, state.next) # "Ok"
      BY <1>1, <1>8, <2>2 DEF Check
    <2>3. CASE Verified(db, tx, state.next) = "Ok"
      <3>1. Asked(db, tx, next)
        BY <2>1, <2>3, AskedNext DEF CheckState
      <3>2. CASE next # End
        <4>. DEFINE state2 == [state EXCEPT !.next = next]
        <4>1. Becomes(c, state2) /\ UNCHANGED db
          BY <1>8, <2>3, <3>2 DEF Check
        <4>2. state = [at |-> "check", tx |-> tx, next |-> state.next]
          BY <2>1 DEF CheckState
        <4>3. state2 = [at |-> "check", tx |-> tx, next |-> next]
          BY <4>2
        <4>. HIDE DEF state, tx, next, state2
        <4>4. state2.at = "check" /\ state2.tx = tx /\ state2.next = next
          BY <4>3
        <4>. QED
          BY <3>1, <4>1, <4>4, AloneStays
      <3>3. CASE next = End
        <4>. DEFINE state2 == [at |-> "write", tx |-> tx, next |-> First, mine |-> None]
        <4>1. Becomes(c, state2) /\ UNCHANGED db
          BY <1>8, <2>3, <3>3 DEF Check
        <4>2. state2.at = "write" /\ state2.tx = tx
          OBVIOUS
        <4>. HIDE DEF state, tx, next, state2
        <4>. QED
          BY <3>1, <3>3, <4>1, <4>2, AloneStays
      <3>. QED
        BY <3>2, <3>3
    <2>. QED
      BY <2>2, <2>3
  <1>9. CASE Write(c)
    <2>. DEFINE state == call[c]
                tx == state.tx
                after == UNION {Execute(tables, tx, state.next) : tables \in View(c)}
                next == NextStatement(tx, state.next)
                state2 == [state EXCEPT !.next = next, !.mine = after]
    <2>1. state.at = "write" /\ WriteState(state, db, log) /\ Asked(db, tx, End)
      BY <1>0, <1>9 DEF Write, CallInv, AloneWith
    <2>2. CASE after = {}
      BY <1>1, <1>9, <2>2 DEF Write
    <2>3. CASE after # {}
      <3>1. Becomes(c, state2) /\ UNCHANGED db
        BY <1>9, <2>3 DEF Write
      <3>. DEFINE old == state.next
                  own == state.mine
      <3>2. state = [at |-> "write", tx |-> tx, next |-> old, mine |-> own]
        BY <2>1 DEF WriteState
      <3>. HIDE DEF tx, next, after, old, own
      <3>3. state2 = [state EXCEPT !.next = next, !.mine = after]
        OBVIOUS
      <3>. HIDE DEF state, state2
      <3>4. state2 = [at |-> "write", tx |-> tx, next |-> next, mine |-> after]
        BY <3>2, <3>3, NextAndMine, Zenon
      <3>5. state2.at = "write" /\ state2.tx = tx
        BY <3>4
      <3>. QED
        BY <2>1, <3>1, <3>5, AloneStays
    <2>. QED
      BY <2>2, <2>3
  <1>10. CASE Commit(c)
    <2>1. Becomes(c, Idle)
      BY <1>10 DEF Commit
    <2>2. call'[c] = Idle /\ \A d \in Conn : d # c => call'[d] = call[d]
      BY <2>1, OneCallChanges
    <2>. QED
      BY <1>0, <2>2 DEF AloneWith
  <1>. QED
    BY <1>2, <1>3, <1>4, <1>5, <1>6, <1>7, <1>8, <1>9, <1>10 DEF Acts, Start, Continue

LEMMA AloneInvariance == Spec => [](Inv /\ AloneInv)
  <1>1. Init => AloneInv
    <2>. SUFFICES ASSUME Init PROVE AloneInv
      OBVIOUS
    <2>1. UsersInv /\ \A c \in Conn : call[c] = IF c \in users THEN Idle ELSE Closed
      BY DEF Init, UsersInv
    <2>2. \A c \in Conn : users = {c} => AloneWith(c)
      BY <2>1 DEF AloneWith, Idle, Closed
    <2>. QED
      BY <2>1, <2>2 DEF AloneInv
  <1>2. Inv /\ AloneInv /\ [Next]_vars => AloneInv'
    <2>. SUFFICES ASSUME Inv, AloneInv, [Next]_vars PROVE AloneInv'
      OBVIOUS
    <2>1. CASE UNCHANGED vars
      BY <2>1 DEF vars, AloneInv, UsersInv, AloneWith
    <2>2. ASSUME NEW d \in Conn, Acts(d)
          PROVE  AloneInv'
      <3>1. users' = users
        BY <2>2 DEF Acts, Start, Continue, StoreTx, ReadUnspent, GetTxByReference,
                    Check, Write, Busy, Commit, Fetch, Fail, Crash, Open, Answer
      <3>2. ASSUME NEW c \in Conn, users = {c}
            PROVE  AloneWith(c)'
        <4>1. d = c
          BY <2>2, <3>2, OnlyTheUserActs
        <4>2. AloneWith(c)
          BY <3>2 DEF AloneInv
        <4>. QED
          BY <2>2, <4>1, <4>2, AloneActs
      <3>. QED
        BY <3>1, <3>2 DEF AloneInv, UsersInv
    <2>. QED
      BY <2>1, <2>2, ActsOfNext
  <1>. QED
    BY <1>1, <1>2, InitInv, NextInv, PTL DEF Spec
-----------------------------------------------------------------------------
(* The loop of get_unspent.                                                 *)

ScanState == [coins : Seq(Utxo), total : Int, done : BOOLEAN]

Start0 == [coins |-> <<>>, total |-> 0, done |-> FALSE]

\* One turn of the loop over all rows: the SELECT passes over some.
OneTurn(s, row, account, target) ==
    IF IsSelected(row, account) THEN Visit(s, row, target) ELSE s

\* The equations of the loop.
IsScan(scan, rows, account, target) ==
    scan = [n \in 0..Len(rows) |->
               IF n = 0 THEN [coins |-> <<>>, total |-> 0, done |-> FALSE]
               ELSE IF IsSelected(rows[n], account) THEN Visit(scan[n - 1], rows[n], target)
                    ELSE scan[n - 1]]

\* One turn, case by case.
LEMMA TurnCases ==
    ASSUME NEW s \in ScanState, NEW row \in Row, NEW account, NEW target
    PROVE  LET v == OneTurn(s, row, account, target) IN
           /\ v \in ScanState
           /\ s.done \/ ~IsSelected(row, account) => v = s
           /\ ~s.done /\ IsSelected(row, account) =>
                 Takes(v, s, [id |-> row.id, amount |-> row.amount], target)
  <1>1. row.id \in UtxoId /\ row.amount \in Int
    BY LimitIsPositive DEF Row
  <1>2. s.coins \in Seq(Utxo) /\ s.total \in Int /\ s.done \in BOOLEAN
    BY DEF ScanState
  <1>3. CASE s.done \/ ~IsSelected(row, account)
    BY <1>3 DEF OneTurn, Visit
  <1>4. CASE ~s.done /\ IsSelected(row, account)
    <2>. DEFINE coin == [id |-> row.id, amount |-> row.amount]
                total == s.total + row.amount
                coins == Append(s.coins, coin)
                done == \E a \in target : a <= total
                v == OneTurn(s, row, account, target)
    <2>1. v = [coins |-> coins, total |-> total, done |-> done]
      BY <1>4 DEF OneTurn, Visit
    <2>2. coin \in Utxo /\ coin.amount = row.amount
      BY <1>1 DEF Utxo
    <2>3. coins \in Seq(Utxo) /\ total \in Int /\ done \in BOOLEAN
      <3>. HIDE DEF coin
      <3>. QED
        BY <1>1, <1>2, <2>2
    <2>4. Takes(v, s, coin, target) <=> /\ v.coins = coins /\ v.total = total
                                        /\ v.done <=> done
      <3>. HIDE DEF coin, v
      <3>. QED
        BY <2>2 DEF Takes
    <2>. HIDE DEF coins, total, done, coin, v
    <2>5. v \in ScanState /\ v.coins = coins /\ v.total = total /\ v.done = done
      BY <2>1, <2>3 DEF ScanState
    <2>6. Takes(v, s, coin, target)
      BY <2>4, <2>5
    <2>. QED
      BY <1>4, <2>5, <2>6 DEF v, coin
  <1>. QED
    BY <1>3, <1>4

\* Turn by turn, scan is what the loop has.
ScansBy(scan, tables, account, target) ==
    LET rows == tables.utxos
        N == Len(rows)
    IN  /\ scan \in [0..N -> ScanState]
        /\ scan[0] = Start0
        /\ \A n \in 1..N : scan[n] = OneTurn(scan[n - 1], rows[n], account, target)
        /\ Scan(tables, account, target) = scan[N]

\* The loop has a solution, and Scan is what it gives after the last row.
LEMMA ScanDef ==
    ASSUME NEW tables, tables.utxos \in Seq(Row), NEW account, NEW target
    PROVE  \E scan : ScansBy(scan, tables, account, target)
  <1>. DEFINE rows == tables.utxos
              N == Len(rows)
              step == [x \in (1..N) \X ScanState |-> OneTurn(x[2], rows[x[1]], account, target)]
  <1>1. N \in Nat /\ \A n \in 1..N : rows[n] \in Row
    OBVIOUS
  <1>2. Start0 \in ScanState
    BY DEF ScanState, Start0
  <1>3. step \in [(1..N) \X ScanState -> ScanState]
    <2>1. \A n \in 1..N, s \in ScanState : OneTurn(s, rows[n], account, target) \in ScanState
      BY <1>1, TurnCases
    <2>2. \A x \in (1..N) \X ScanState : x[1] \in 1..N /\ x[2] \in ScanState
      OBVIOUS
    <2>. HIDE DEF rows, N
    <2>. QED
      BY <2>1, <2>2
  <1>4. PICK f : IsIteration(f, N, ScanState, Start0, step)
    <2>. HIDE DEF step, N
    <2>. QED
      BY <1>1, <1>2, <1>3, Iterates
  <1>5. /\ f \in [0..N -> ScanState] /\ f[0] = Start0
        /\ \A i \in 1..N : f[i] = OneTurn(f[i - 1], rows[i], account, target)
    <2>. HIDE DEF rows, N
    <2>1. /\ f \in [0..N -> ScanState] /\ f[0] = Start0
          /\ \A i \in 1..N : f[i] = step[<<i, f[i - 1]>>]
      <3>. HIDE DEF step
      <3>. QED
        BY <1>4 DEF IsIteration
    <2>2. ASSUME NEW i \in 1..N
          PROVE  f[i] = OneTurn(f[i - 1], rows[i], account, target)
      <3>1. i - 1 \in 0..N
        BY <1>1
      <3>2. <<i, f[i - 1]>> \in (1..N) \X ScanState
        BY <2>1, <3>1
      <3>. QED
        BY <2>1, <3>2
    <2>. QED
      BY <2>1, <2>2
  <1>6. \A g : IsScan(g, rows, account, target)
                  <=> g = [n \in 0..N |-> IF n = 0 THEN Start0
                                          ELSE OneTurn(g[n - 1], rows[n], account, target)]
    BY DEF IsScan, Start0, OneTurn
  <1>7. IsScan(f, rows, account, target)
    <2>1. \A n \in 0..N : n = 0 \/ n \in 1..N
      BY <1>1
    <2>2. f = [n \in 0..N |-> f[n]]
      BY <1>5
    <2>. HIDE DEF rows, N
    <2>3. f = [n \in 0..N |-> IF n = 0 THEN Start0 ELSE OneTurn(f[n - 1], rows[n], account, target)]
      BY <1>5, <2>1, <2>2
    <2>. QED
      BY <1>6, <2>3
  <1>. DEFINE scan == CHOOSE q : IsScan(q, rows, account, target)
  <1>8. Scan(tables, account, target) = scan[N]
    BY DEF Scan, IsScan
  <1>9. IsScan(scan, rows, account, target)
    <2>. HIDE DEF rows
    <2>. QED
      BY <1>7
  <1>. HIDE DEF scan
  <1>10. scan = [n \in 0..N |-> IF n = 0 THEN Start0
                                 ELSE OneTurn(scan[n - 1], rows[n], account, target)]
    BY <1>6, <1>9
  <1>11. /\ scan[0] = Start0
         /\ \A n \in 1..N : scan[n] = OneTurn(scan[n - 1], rows[n], account, target)
         /\ DOMAIN scan = 0..N
    <2>1. 0 \in 0..N /\ \A n \in 1..N : n \in 0..N /\ n # 0
      BY <1>1
    <2>. HIDE DEF rows, N
    <2>. QED
      BY <1>10, <2>1
  <1>12. scan \in [0..N -> ScanState]
    <2>. DEFINE G == {n \in 0..N : scan[n] \in ScanState}
    <2>1. 0 \in G
      BY <1>1, <1>2, <1>11
    <2>2. ASSUME NEW n \in 1..N, n - 1 \in G
          PROVE  n \in G
      <3>. DEFINE s == scan[n - 1]
                  row == rows[n]
      <3>1. s \in ScanState /\ row \in Row /\ n \in 0..N /\ scan[n] = OneTurn(s, row, account, target)
        BY <1>1, <1>11, <2>2
      <3>. HIDE DEF rows, N, s, row
      <3>2. OneTurn(s, row, account, target) \in ScanState
        BY <3>1, TurnCases
      <3>. QED
        BY <3>1, <3>2
    <2>. HIDE DEF G, rows, N
    <2>3. \A n \in 0..N : n \in G
      BY <1>1, <2>1, <2>2, UpTo
    <2>4. scan = [n \in 0..N |-> scan[n]]
      BY <1>10
    <2>. QED
      BY <2>3, <2>4 DEF G
  <1>. QED
    BY <1>8, <1>11, <1>12 DEF ScansBy

\* get_unspent answers what the contract answers from the log: the rows are in
\* the order of the commits, and each turn takes the next unspent one.
LEMMA ScanIsAnswer ==
    ASSUME ~NewestFirst, NEW tables, AreTables(tables), NEW lg \in Seq(Txs), Agree(tables, lg),
           OutputsFit(lg), NEW account \in FullAccount, NEW target
    PROVE  Scan(tables, account, target).coins \in GetUnspent(lg, account, target)
  <1>. DEFINE rows == tables.utxos
              N == Len(rows)
  <1>0. lg \in Seq(Transaction)
    BY LogType
  <1>1. rows \in Seq(Row) /\ N \in Nat /\ DOMAIN rows = 1..N /\ \A n \in 1..N : rows[n] \in Row
    BY DEF AreTables, TablesType
  <1>2. PICK order \in [DOMAIN rows -> Places(lg)] : Filed(rows, lg, order)
    BY DEF Agree
  <1>3. order \in Seq(Places(lg)) /\ Len(order) = N /\ DOMAIN order = 1..N
    <2>. DEFINE S == Places(lg)
    <2>. HIDE DEF S, N
    <2>1. order \in [1..N -> S] /\ N \in Nat
      BY <1>1, <1>2 DEF S
    <2>2. order \in Seq(S) /\ Len(order) = N
      BY <2>1
    <2>. QED
      BY <2>1, <2>2 DEF S
  <1>4. Visits(order, lg, account)
    <2>1. \A p \in Places(lg) : \E n \in DOMAIN order : order[n] = p
      BY <1>1, <1>2, <1>3 DEF Filed
    <2>2. \A m, n \in DOMAIN order : m < n => Before(order[m], order[n])
      BY <1>1, <1>2, <1>3 DEF Filed, Before
    <2>. QED
      BY <1>3, <2>1, <2>2 DEF Visits, UnspentPlaces
  <1>5. ASSUME NEW n \in 1..N
        PROVE  /\ order[n] \in Places(lg)
               /\ IsSelected(rows[n], account) <=> order[n] \in UnspentPlaces(lg, account)
               /\ [id |-> rows[n].id, amount |-> rows[n].amount] = UtxoAt(lg, order[n])
    <2>. DEFINE p == order[n]
                row == rows[n]
    <2>1. /\ p \in Places(lg)
          /\ row.id = UtxoAt(lg, p).id /\ row.account = OutputAt(lg, p).account
          /\ row.amount = AsColumn(OutputAt(lg, p).amount)
      BY <1>1, <1>2 DEF Filed
    <2>2. row.amount = OutputAt(lg, p).amount
      BY <2>1 DEF OutputsFit
    <2>3. n \in RowsOf(tables, row.id)
      BY <1>1 DEF RowsOf
    <2>4. row.spent_at = None <=> row.id \notin Spent(lg)
      BY <2>3, RowOfOutput
    <2>. HIDE DEF p, row
    <2>5. IsSelected(row, account) <=> p \in UnspentPlaces(lg, account)
      BY <2>1, <2>4 DEF IsSelected, UnspentPlaces
    <2>6. [id |-> row.id, amount |-> row.amount] = UtxoAt(lg, p)
      BY <2>1, <2>2 DEF UtxoAt
    <2>. QED
      BY <2>1, <2>5, <2>6 DEF p, row
  <1>6. PICK scan : ScansBy(scan, tables, account, target)
    BY <1>1, ScanDef
  <1>7. /\ scan \in [0..N -> ScanState]
        /\ scan[0] = Start0
        /\ \A n \in 1..N : scan[n] = OneTurn(scan[n - 1], rows[n], account, target)
        /\ Scan(tables, account, target) = scan[N]
    BY <1>6 DEF ScansBy
  <1>. HIDE DEF rows, N
  <1>. DEFINE Right(n) == HasCollected(scan[n], lg, account, target, order, n)
              G == {n \in 0..N : Right(n)}
  <1>8. Right(0)
    <2>. DEFINE s == scan[0]
    <2>1. s.coins = <<>> /\ s.total = 0 /\ ~s.done
      BY <1>7 DEF Start0
    <2>. HIDE DEF s
    <2>2. HasCollected(s, lg, account, target, order, 0)
      BY <1>0, <2>1, NothingCollected
    <2>. QED
      BY <2>2 DEF s
  <1>9. ASSUME NEW n \in 1..N, Right(n - 1)
        PROVE  Right(n)
    <2>. DEFINE s == scan[n - 1]
                v == scan[n]
                p == order[n]
                row == rows[n]
                w == OneTurn(s, row, account, target)
    <2>1. s \in ScanState /\ v \in ScanState /\ n \in 1..Len(order)
      <3>1. n \in 0..N /\ n - 1 \in 0..N
        BY <1>1
      <3>. QED
        BY <1>3, <1>7, <3>1
    <2>2. v = w /\ row \in Row
      BY <1>1, <1>7
    <2>3. /\ IsSelected(row, account) <=> p \in UnspentPlaces(lg, account)
          /\ [id |-> row.id, amount |-> row.amount] = UtxoAt(lg, p)
      BY <1>5
    <2>4. HasCollected(s, lg, account, target, order, n - 1)
      BY <1>9
    <2>. HIDE DEF s, v, p, row, w
    <2>5. /\ s.done \/ ~IsSelected(row, account) => w = s
          /\ ~s.done /\ IsSelected(row, account) =>
                Takes(w, s, [id |-> row.id, amount |-> row.amount], target)
      BY <2>1, <2>2, TurnCases DEF w
    <2>6. /\ s.done \/ p \notin UnspentPlaces(lg, account) => v = s
          /\ ~s.done /\ p \in UnspentPlaces(lg, account) => Takes(v, s, UtxoAt(lg, p), target)
      BY <2>2, <2>3, <2>5
    <2>7. s.coins \in Seq(Utxo) /\ s.done \in BOOLEAN /\ v.done \in BOOLEAN
      BY <2>1 DEF ScanState
    <2>8. HasCollected(v, lg, account, target, order, n)
      BY <1>0, <1>4, <2>1, <2>4, <2>6, <2>7, TurnCollects DEF p
    <2>. QED
      BY <2>8 DEF v
  <1>. HIDE DEF Right
  <1>10. Right(N)
    <2>1. 0 \in G /\ \A n \in 1..N : n - 1 \in G => n \in G
      BY <1>1, <1>8, <1>9
    <2>. HIDE DEF G
    <2>2. \A n \in 0..N : n \in G
      BY <1>1, <2>1, UpTo
    <2>. QED
      BY <1>1, <2>2 DEF G
  <1>11. scan[N].coins \in GetUnspent(lg, account, target)
    <2>1. HasCollected(scan[N], lg, account, target, order, Len(order))
      BY <1>3, <1>10 DEF Right
    <2>. QED
      BY <1>0, <1>4, <2>1, CollectedIsAnswer
  <1>. QED
    BY <1>7, <1>11
-----------------------------------------------------------------------------
(* One process alone has what the Storage contract says.                    *)

\* The contract reads a log as this module does.
LEMMA SameReading ==
    ASSUME NEW lg, NEW tx, NEW account, NEW reference
    PROVE  /\ Contract!Verdict(lg, tx) = Verdict(lg, tx)
           /\ Contract!Found(lg, account, reference) = Found(lg, account, reference)
  <1>1. \A p : Contract!UtxoAt(lg, p) = UtxoAt(lg, p)
    BY DEF Contract!UtxoAt, UtxoAt, Contract!OutputAt, OutputAt
  <1>2. Contract!Places(lg) = Places(lg) /\ Contract!Spent(lg) = Spent(lg)
    BY DEF Contract!Places, Places, Contract!Spent, Spent
  <1>3. Contract!Created(lg) = Created(lg)
    BY <1>1, <1>2 DEF Contract!Created, Created
  <1>4. \A input : Contract!InputVerdict(lg, input) = InputVerdict(lg, input)
    BY <1>1, <1>2, <1>3 DEF Contract!InputVerdict, InputVerdict
  <1>5. \A a, r : Contract!Found(lg, a, r) = Found(lg, a, r)
    BY DEF Contract!Found, Found
  <1>6. Contract!IsDuplicate(lg, tx) <=> IsDuplicate(lg, tx)
    BY <1>5 DEF Contract!IsDuplicate, IsDuplicate
  <1>7. {k \in DOMAIN tx.from : Contract!InputVerdict(lg, tx.from[k]) # "Ok"}
           = {k \in DOMAIN tx.from : InputVerdict(lg, tx.from[k]) # "Ok"}
    BY <1>4
  <1>. QED
    BY <1>4, <1>5, <1>6, <1>7 DEF Contract!Verdict, Verdict

\* The contract selects as this module does.
LEMMA SameSelection ==
    ASSUME NEW lg, NEW account, NEW target
    PROVE  Contract!GetUnspent(lg, account, target) = GetUnspent(lg, account, target)
  <1>1. \A p : /\ Contract!OutputAt(lg, p) = OutputAt(lg, p)
               /\ Contract!UtxoAt(lg, p) = UtxoAt(lg, p)
    BY DEF Contract!UtxoAt, UtxoAt, Contract!OutputAt, OutputAt
  <1>2. Contract!Places(lg) = Places(lg) /\ Contract!Spent(lg) = Spent(lg)
    BY DEF Contract!Places, Places, Contract!Spent, Spent
  <1>3. Contract!UnspentPlaces(lg, account) = UnspentPlaces(lg, account)
    BY <1>1, <1>2 DEF Contract!UnspentPlaces, UnspentPlaces
  <1>4. \A p, q : Contract!Before(p, q) <=> Before(p, q)
    BY DEF Contract!Before, Before, Contract!Newer, Newer
  <1>5. \A S : Contract!Scans(S) = Scans(S)
    BY <1>4 DEF Contract!Scans, Scans
  <1>6. \A S : Contract!SumAt(lg, S) = SumAt(lg, S)
    BY DEF Contract!SumAt, SumAt, Contract!OutputAt, OutputAt,
           Contract!MapThenSumSet, MapThenSumSet, Contract!MapThenFoldSet, MapThenFoldSet
  <1>7. \A S : Contract!Enough(lg, S, target) <=> Enough(lg, S, target)
    BY <1>6 DEF Contract!Enough, Enough
  <1>8. Contract!Taken(lg, account, target) = Taken(lg, account, target)
    BY <1>3, <1>5, <1>7 DEF Contract!Taken, Taken
  <1>9. \A S : Contract!SetToSeqs(S) = SetToSeqs(S)
    <2>1. \A S : Contract!Cardinality(S) = Cardinality(S)
      BY DEF Contract!Cardinality, Cardinality
    <2>. QED
      BY <2>1 DEF Contract!SetToSeqs, SetToSeqs
  <1>. QED
    BY <1>1, <1>4, <1>8, <1>9 DEF Contract!GetUnspent, GetUnspent

\* What the answer and the log are about fits the columns.
AllFits ==
    /\ \A i \in DOMAIN log' : Fits(log'[i])
    /\ \A tx \in Txs : reply'.to = "store_tx" /\ reply'.tx = tx.id => Fits(tx)

\* A wrong answer to a question is that of the contract.
LEMMA RefusesAsPromised ==
    ASSUME Inv, NEW c \in Conn, AloneWith(c), AllFits, Check(c)
    PROVE  UNCHANGED <<log, reply>> \/ \E tx \in Txs : Contract!StoreTx(tx)
  <1>. DEFINE state == call[c]
              tx == state.tx
              q == state.next
              verdict == Verified(db, tx, q)
  <1>1. /\ state.at = "check" /\ CheckState(state, log) /\ Asked(db, tx, q)
        /\ AreTables(db) /\ log \in Seq(Txs) /\ Agree(db, log)
    BY DEF Check, Inv, CallInv, AloneWith
  <1>2. tx \in Txs /\ IsQuestion(tx, q)
    BY <1>1 DEF CheckState
  <1>3. CASE verdict = "Ok"
    BY <1>3 DEF Check
  <1>4. CASE verdict # "Ok"
    <2>1. reply' = Stored(tx, verdict) /\ log' = log
      BY <1>4 DEF Check, Answer
    <2>. HIDE DEF state, tx, q, verdict
    <2>2. reply'.to = "store_tx" /\ reply'.tx = tx.id
      BY <2>1 DEF Stored
    <2>3. Fits(tx) /\ OutputsFit(log)
      BY <1>2, <2>1, <2>2, FitsOutputs DEF AllFits
    <2>4. verdict = Verdict(log, tx)
      BY <1>1, <1>2, <1>4, <2>3, WrongIsVerdict DEF verdict
    <2>5. Contract!Verdict(log, tx) = verdict
      BY <2>4, SameReading
    <2>6. Contract!StoreTx(tx)
      BY <1>4, <2>1, <2>5 DEF Contract!StoreTx, Stored
    <2>. QED
      BY <1>2, <2>6
  <1>. QED
    BY <1>3, <1>4

\* A statement that fails does so for a second output to one sub-account.
LEMMA FailsAsExplained ==
    ASSUME Inv, NEW c \in Conn, AloneWith(c), Write(c)
    PROVE  UNCHANGED <<log, reply>> \/ GivesUp
  <1>. DEFINE state == call[c]
              tx == state.tx
              s == state.next
              after == UNION {Execute(tables, tx, s) : tables \in View(c)}
  <1>1. /\ state.at = "write" /\ s # End /\ WriteState(state, db, log) /\ Asked(db, tx, End)
        /\ AreTables(db) /\ log \in Seq(Txs) /\ Agree(db, log)
    BY DEF Write, Inv, CallInv, AloneWith
  <1>2. tx \in Txs
    BY <1>1 DEF WriteState
  <1>3. CASE after # {}
    BY <1>3 DEF Write
  <1>4. CASE after = {}
    <2>1. \A tables \in View(c) : Execute(tables, tx, s) = {}
      BY <1>4
    <2>2. Repeats(tx)
      <3>1. CASE state.mine = None
        <4>1. s = First /\ View(c) = {db}
          BY <1>1, <3>1 DEF WriteState, View, Writing, Some
        <4>2. Execute(db, tx, First) = {}
          BY <2>1, <4>1
        <4>3. tx.id \in DOMAIN db.transactions
          BY <4>2 DEF Execute, First, InsertTx
        <4>4. tx.id \notin DOMAIN db.transactions
          BY <1>1 DEF Asked, End
        <4>. QED
          BY <4>3, <4>4
      <3>2. CASE state.mine # None
        <4>1. /\ View(c) = state.mine /\ IsStatement(tx, s)
              /\ \A tables \in state.mine : AreTables(tables) /\ Progress(db, tables, tx, s)
          BY <1>1, <3>2 DEF WriteState, View, Writing
        <4>2. PICK tables \in state.mine : TRUE
          BY <3>2 DEF None
        <4>3. Execute(tables, tx, s) = {}
          BY <2>1, <4>1
        <4>. HIDE DEF state, tx, s
        <4>. QED
          BY <1>1, <1>2, <4>1, <4>3, OnlyRepeatsFail
      <3>. QED
        BY <3>1, <3>2
    <2>3. reply' = Stored(tx, "Internal") /\ log' = log
      BY <1>4 DEF Write, Answer
    <2>. HIDE DEF tx
    <2>4. reply'.to = "store_tx" /\ reply'.tx = tx.id /\ reply'.verdict = "Internal"
      BY <2>3 DEF Stored
    <2>. QED
      BY <1>2, <2>2, <2>3, <2>4 DEF GivesUp
  <1>. QED
    BY <1>3, <1>4

\* A call fails for a reason outside the database.
LEMMA FailedIsExplained ==
    ASSUME NEW c \in Conn, NEW answer, answer.verdict = "Failed", Answer(c, answer)
    PROVE  GivesUp
  BY DEF Answer, GivesUp

\* A commit is one of the contract: its questions are still answered right.
LEMMA CommitsAsPromised ==
    ASSUME Inv, NEW c \in Conn, AloneWith(c), AllFits, Commit(c)
    PROVE  \E tx \in Txs : Contract!StoreTx(tx)
  <1>. DEFINE state == call[c]
              tx == state.tx
  <1>1. /\ state.at = "write" /\ WriteState(state, db, log) /\ Asked(db, tx, End)
        /\ AreTables(db) /\ log \in Seq(Txs) /\ Agree(db, log)
        /\ reply' = Stored(tx, "Ok") /\ log' = Append(log, tx)
    BY DEF Commit, Inv, CallInv, AloneWith
  <1>2. tx \in Txs
    BY <1>1 DEF WriteState
  <1>. HIDE DEF state, tx
  <1>3. reply'.to = "store_tx" /\ reply'.tx = tx.id
    BY <1>1 DEF Stored
  <1>4. Fits(tx)
    BY <1>2, <1>3 DEF AllFits
  <1>5. \A i \in DOMAIN log : Fits(log[i])
    <2>1. \A i \in DOMAIN log : i \in DOMAIN log' /\ log'[i] = log[i]
      BY <1>1, <1>2, LogType, TxParts, AppendTx
    <2>. QED
      BY <2>1 DEF AllFits
  <1>6. Verdict(log, tx) = "Ok"
    BY <1>1, <1>2, <1>4, <1>5, FitsOutputs, AskedIsVerdict
  <1>7. Contract!Verdict(log, tx) = "Ok"
    BY <1>6, SameReading
  <1>8. Contract!StoreTx(tx)
    BY <1>1, <1>7 DEF Contract!StoreTx, Stored
  <1>. QED
    BY <1>2, <1>8

LEMMA SameAccounts == Contract!FullAccount = FullAccount
  BY DEF Contract!FullAccount, FullAccount, Contract!Type, Type

\* get_unspent is that of the contract.
LEMMA SelectsAsPromised ==
    ASSUME ~NewestFirst, Inv, NEW c \in Conn, AllFits, NEW account \in FullAccount, NEW target,
           ReadUnspent(c, account, target)
    PROVE  Contract!ReadUnspent(account, target)
  <1>. DEFINE coins == Scan(db, account, target).coins
  <1>1. AreTables(db) /\ log \in Seq(Txs) /\ Agree(db, log)
    BY DEF Inv
  <1>2. reply' = [to |-> "get_unspent", account |-> account, target |-> target,
                  verdict |-> "Ok", coins |-> coins] /\ UNCHANGED log
    BY DEF ReadUnspent, Answer
  <1>3. OutputsFit(log)
    BY <1>2, FitsOutputs DEF AllFits
  <1>4. coins \in Contract!GetUnspent(log, account, target)
    BY <1>1, <1>3, ScanIsAnswer, SameSelection
  <1>. HIDE DEF coins
  <1>. QED
    BY <1>2, <1>4 DEF Contract!ReadUnspent

\* What the contract answers for a reference in the tables, and for another.
LEMMA LookedUpIsFound ==
    ASSUME NEW tables, NEW lg, Agree(tables, lg), NEW account, NEW reference
    PROVE  LET key == <<account, reference>>
               found == {lg[i] : i \in Found(lg, account, reference)}
           IN  /\ key \notin DOMAIN tables.tx_references => found = {}
               /\ key \in DOMAIN tables.tx_references =>
                     /\ tables.tx_references[key] \in DOMAIN tables.transactions
                     /\ found = {tables.transactions[tables.tx_references[key]]}
  <1>. DEFINE key == <<account, reference>>
              found == Found(lg, account, reference)
  <1>1. /\ key \in DOMAIN tables.tx_references <=> found # {}
        /\ \A i \in found : tables.tx_references[key] = lg[i].id
    BY KeyIsFound
  <1>2. found \subseteq DOMAIN lg
    BY DEF Found
  <1>3. \A i \in DOMAIN lg : lg[i].id \in DOMAIN tables.transactions
                              /\ tables.transactions[lg[i].id] = lg[i]
    BY DEF Agree
  <1>. HIDE DEF key, found
  <1>4. key \notin DOMAIN tables.tx_references => {lg[i] : i \in found} = {}
    BY <1>1
  <1>5. ASSUME key \in DOMAIN tables.tx_references
        PROVE  /\ tables.tx_references[key] \in DOMAIN tables.transactions
               /\ {lg[i] : i \in found} = {tables.transactions[tables.tx_references[key]]}
    <2>1. PICK i \in found : TRUE
      BY <1>1, <1>5
    <2>2. \A j \in found : lg[j] = tables.transactions[tables.tx_references[key]]
      BY <1>1, <1>2, <1>3
    <2>. QED
      BY <1>1, <1>2, <1>3, <2>1, <2>2
  <1>. QED
    BY <1>4, <1>5 DEF key, found

\* get_tx_by_reference is that of the contract, at its first SELECT when there is
\* no such reference and at its second when there is.
LEMMA FindsAsPromised ==
    ASSUME Inv, NEW c \in Conn,
           \/ Fetch(c)
           \/ \E account \in FullAccount : \E tx \in Txs : GetTxByReference(c, account, tx.reference)
    PROVE  \/ UNCHANGED <<log, reply>>
           \/ \E account \in FullAccount : \E tx \in Txs :
                 Contract!GetTxByReference(account, tx.reference)
  <1>1. Agree(db, log)
    BY DEF Inv
  <1>2. ASSUME NEW account \in FullAccount, NEW tx \in Txs, NEW found,
               Answer(c, [to |-> "get_tx_by_reference", key |-> <<account, tx.reference>>,
                          verdict |-> "Ok", tx |-> found]),
               found = {log[i] : i \in Found(log, account, tx.reference)}
        PROVE  Contract!GetTxByReference(account, tx.reference)
    BY <1>2, SameReading DEF Answer, Contract!GetTxByReference
  <1>3. ASSUME NEW account \in FullAccount, NEW tx \in Txs, GetTxByReference(c, account, tx.reference)
        PROVE  UNCHANGED <<log, reply>> \/ Contract!GetTxByReference(account, tx.reference)
    <2>. DEFINE key == <<account, tx.reference>>
    <2>1. CASE key \in DOMAIN db.tx_references
      BY <1>3, <2>1 DEF GetTxByReference
    <2>2. CASE key \notin DOMAIN db.tx_references
      <3>1. Answer(c, LookedUp(key, "Ok", None))
        BY <1>3, <2>2 DEF GetTxByReference
      <3>2. None = {log[i] : i \in Found(log, account, tx.reference)}
        BY <1>1, <2>2, LookedUpIsFound DEF None
      <3>. QED
        BY <1>2, <3>1, <3>2 DEF LookedUp
    <2>. QED
      BY <2>1, <2>2
  <1>4. CASE Fetch(c)
    <2>1. call[c].at = "fetch" /\ FetchState(call[c], db)
      BY <1>4 DEF Fetch, Inv, CallInv
    <2>2a. PICK account \in FullAccount : \E tx \in Txs : call[c].key = <<account, tx.reference>>
      BY <2>1 DEF FetchState
    <2>2. PICK tx \in Txs : call[c].key = <<account, tx.reference>>
      BY <2>2a
    <2>. DEFINE key == <<account, tx.reference>>
                h == db.tx_references[key]
                hit == {db.transactions[g] : g \in {h} \cap DOMAIN db.transactions}
    <2>3. key \in DOMAIN db.tx_references /\ call[c].hash = h
      BY <2>1, <2>2 DEF FetchState
    <2>4. Answer(c, LookedUp(key, IF hit = {} THEN "Internal" ELSE "Ok", hit))
      BY <1>4, <2>2, <2>3 DEF Fetch
    <2>5. h \in DOMAIN db.transactions
          /\ {log[i] : i \in Found(log, account, tx.reference)} = {db.transactions[h]}
      BY <1>1, <2>3, LookedUpIsFound
    <2>6. hit # {} /\ hit = {log[i] : i \in Found(log, account, tx.reference)}
      BY <2>5
    <2>. HIDE DEF hit
    <2>7. Answer(c, LookedUp(key, "Ok", hit))
      BY <2>4, <2>6
    <2>. QED
      BY <1>2, <2>6, <2>7 DEF LookedUp
  <1>. QED
    BY <1>3, <1>4

\* Every step of a process that has the file alone is a step of the contract, one
\* that gives up, or one that nobody sees.
LEMMA StepIsPromised ==
    ASSUME ~NewestFirst, Inv, NEW c \in Conn, AloneWith(c), Acts(c), AllFits, reply'.to # "none"
    PROVE  UNCHANGED <<log, reply>> \/ Contract!Next \/ GivesUp
  <1>1. CASE Check(c)
    BY <1>1, RefusesAsPromised DEF Contract!Next
  <1>2. CASE Write(c)
    BY <1>2, FailsAsExplained
  <1>3. CASE Busy(c) \/ Fail(c)
    BY <1>3, FailedIsExplained DEF Busy, Fail, Stored, Unread
  <1>4. CASE Commit(c)
    BY <1>4, CommitsAsPromised DEF Contract!Next
  <1>5. ASSUME NEW account \in FullAccount, NEW target \in Targets, ReadUnspent(c, account, target)
        PROVE  Contract!Next
    <2>1. Contract!ReadUnspent(account, target)
      BY <1>5, SelectsAsPromised
    <2>. QED
      BY <2>1, SameAccounts DEF Contract!Next
  <1>6. CASE \/ Fetch(c)
             \/ \E account \in FullAccount : \E tx \in Txs :
                   GetTxByReference(c, account, tx.reference)
    BY <1>6, FindsAsPromised, SameAccounts DEF Contract!Next
  <1>7. CASE Crash(c) \/ Open(c)
    BY <1>7 DEF Crash, Open
  <1>8. ASSUME NEW tx \in Txs, StoreTx(c, tx)
        PROVE  FALSE
    BY <1>8 DEF StoreTx
  <1>. QED
    BY <1>1, <1>2, <1>3, <1>4, <1>5, <1>6, <1>7, <1>8 DEF Acts, Start, Continue

\* One process alone, wherever it stops and starts again, has from this backend
\* what the Storage contract says, as long as the amounts fit: whole transactions
\* stored or refused for the reason the log gives, and reads of the log.
THEOREM AloneImplementsContract ==
    ASSUME ~NewestFirst
    PROVE  Spec => ImplementsStorage
  <1>. DEFINE Promised ==
                Cardinality(users) = 1 /\ reply'.to # "none" /\ (\A i \in DOMAIN log' : Fits(log'[i]))
                    /\ (\A tx \in Txs : reply'.to = "store_tx" /\ reply'.tx = tx.id => Fits(tx))
                  => Contract!Next \/ GivesUp
  <1>1. Init => Contract!Init
    BY DEF Init, Contract!Init
  <1>2. Inv /\ AloneInv /\ [Next]_vars => [Promised]_<<log, reply>>
    <2>. SUFFICES ASSUME Inv, AloneInv, [Next]_vars, Cardinality(users) = 1, reply'.to # "none", AllFits
                  PROVE  UNCHANGED <<log, reply>> \/ Contract!Next \/ GivesUp
      BY DEF AllFits
    <2>1. CASE UNCHANGED vars
      BY <2>1 DEF vars
    <2>2. ASSUME NEW d \in Conn, Acts(d)
          PROVE  UNCHANGED <<log, reply>> \/ Contract!Next \/ GivesUp
      <3>1. IsFiniteSet(users)
        BY ConnIsFinite, FS_Singleton DEF AloneInv, UsersInv
      <3>2. PICK c : users = {c}
        BY <3>1, FS_Singleton
      <3>3. c \in Conn
        BY <3>2 DEF AloneInv, UsersInv
      <3>4. d = c /\ AloneWith(c)
        BY <2>2, <3>2, <3>3, OnlyTheUserActs DEF AloneInv
      <3>. QED
        BY <2>2, <3>3, <3>4, StepIsPromised
    <2>. QED
      BY <2>1, <2>2, ActsOfNext
  <1>. HIDE DEF Promised
  <1>3. Spec => Contract!Init /\ [][Promised]_<<log, reply>>
    BY <1>1, <1>2, AloneInvariance, PTL DEF Spec
  <1>. QED
    BY <1>3 DEF ImplementsStorage, Promised
=============================================================================
