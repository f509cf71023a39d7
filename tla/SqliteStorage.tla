--------------------------- MODULE SqliteStorage ---------------------------
(***************************************************************************)
(* The SQLite backend.  A connection is behind a mutex that a call holds   *)
(* from its first to its last statement; connections of other processes to *)
(* the same file run in between.  store_tx asks its questions one by one,  *)
(* outside any SQL transaction, and only then writes, statement by         *)
(* statement, inside one.                                                  *)
(*                                                                         *)
(* What SQLite itself does is external: the first write of a transaction   *)
(* takes the only write lock of the file, or gives up after the busy       *)
(* timeout; what it writes is its own until COMMIT, which is atomic; a     *)
(* process that stops loses its transaction and nothing else.              *)
(***************************************************************************)
EXTENDS TxLog

CONSTANTS
    Conn,       \* connections to the file, each of a process of its own
    Txs,        \* transactions that callers try to store
    Targets,    \* target amounts, as Options, that callers ask get_unspent for
    Limit       \* an integer column holds -Limit .. Limit - 1

ASSUME TxsAreTransactions == Txs \subseteq Transaction
ASSUME ConnIsFinite == IsFiniteSet(Conn)
ASSUME LimitIsPositive == Limit \in Nat \ {0}

VARIABLES
    db,         \* the committed tables
    users,      \* the connections in use: one process, or several
    call,       \* what each connection is doing
    reply,      \* the last answer, until a call to store_tx begins
    log         \* auxiliary: the transactions in the order they were committed

vars == <<db, users, call, reply, log>>

\* Mutant of AsColumn: the number is kept as it is.
AsColumnWide(m) == m

\* `as i64`
AsColumn(m) == ((m + Limit) % (2 * Limit)) - Limit

Tables == [transactions |-> <<>>, utxos |-> <<>>, tx_references |-> <<>>, accounts |-> {}]

\* f with x mapped to y, the result of INSERT into a table with a primary key.
With(f, x, y) == [z \in DOMAIN f \cup {x} |-> IF z = x THEN y ELSE f[z]]

Idle == [at |-> "idle"]

\* A process that stopped; its next action is to open the file again.
Closed == [at |-> "closed"]

Key(tx, k) == <<tx.to[k].account, tx.reference>>

Init ==
    /\ db = Tables
    /\ users \in {Conn} \cup {{c} : c \in Conn}
    /\ call = [c \in Conn |-> IF c \in users THEN Idle ELSE Closed]
    /\ reply = [to |-> "none"]
    /\ log = <<>>

Becomes(c, state) == call' = [call EXCEPT ![c] = state]

\* The call ends without a commit.
Answer(c, answer) ==
    /\ Becomes(c, Idle)
    /\ reply' = answer
    /\ UNCHANGED <<db, users, log>>

Stored(tx, verdict) == [to |-> "store_tx", tx |-> tx.id, verdict |-> verdict]

LookedUp(key, verdict, tx) ==
    [to |-> "get_tx_by_reference", key |-> key, verdict |-> verdict, tx |-> tx]

\* A SELECT of a read fails: whatever it asked, the caller learns only that.
Unread == [to |-> "read", verdict |-> "Failed"]

-----------------------------------------------------------------------------
(* How far store_tx is: on names the table a question or a statement is     *)
(* about, and n the input or the output.                                    *)

First == [on |-> "transactions", n |-> 1]

End == [on |-> "end", n |-> 0]

\* The k-th turn of a loop over items, or what comes after the loop.
Turn(on, k, items, after) == IF k <= Len(items) THEN [on |-> on, n |-> k] ELSE after

-----------------------------------------------------------------------------
(* store_tx: the questions.                                                 *)

\* One SELECT for the hash, then one for each output, then one for each input.
NextQuestion(tx, q) ==
    LET inputs(k) == Turn("utxos", k, tx.from, End)
        outputs(k) == Turn("tx_references", k, tx.to, inputs(1))
    IN  CASE q.on = "transactions" -> outputs(1)
          [] q.on = "tx_references" -> outputs(q.n + 1)
          [] q.on = "utxos" -> inputs(q.n + 1)

RowsOf(tables, id) == {i \in DOMAIN tables.utxos : tables.utxos[i].id = id}

\* Mutant of InputAnswer: the amounts are not compared.
InputAnswerAnyAmount(tables, input) ==
    CASE RowsOf(tables, input.id) = {} -> "MissingUtxo"
      [] OTHER ->
            LET row == tables.utxos[CHOOSE i \in RowsOf(tables, input.id) : TRUE]
            IN  IF row.spent_at # None THEN "SpentUtxo" ELSE "Ok"

InputAnswer(tables, input) ==
    CASE RowsOf(tables, input.id) = {} -> "MissingUtxo"
      [] OTHER ->
            LET row == tables.utxos[CHOOSE i \in RowsOf(tables, input.id) : TRUE]
            IN  IF row.spent_at # None THEN "SpentUtxo"
                ELSE IF row.amount # AsColumn(input.amount) THEN "MismatchAmount" ELSE "Ok"

Verified(tables, tx, q) ==
    CASE q.on = "transactions" ->
            IF tx.id \in DOMAIN tables.transactions THEN "Duplicate" ELSE "Ok"
      [] q.on = "tx_references" ->
            IF Key(tx, q.n) \in DOMAIN tables.tx_references THEN "Duplicate" ELSE "Ok"
      [] q.on = "utxos" -> InputAnswer(tables, tx.from[q.n])

-----------------------------------------------------------------------------
(* store_tx: the SQL transaction.                                           *)

\* One INSERT for the transaction, one UPDATE for each input, three INSERTs for
\* each output.
NextStatement(tx, s) ==
    LET outputs(k) == Turn("utxos", k, tx.to, End)
        inputs(k) == Turn("spent_at", k, tx.from, outputs(1))
    IN  CASE s.on = "transactions" -> inputs(1)
          [] s.on = "spent_at" -> inputs(s.n + 1)
          [] s.on = "utxos" -> [on |-> "tx_references", n |-> s.n]
          [] s.on = "tx_references" -> [on |-> "accounts", n |-> s.n]
          [] s.on = "accounts" -> outputs(s.n + 1)

(* What a statement makes of the tables: the empty set when a key is taken.  *)

InsertTx(tables, tx) ==
    {[tables EXCEPT !.transactions = With(@, tx.id, tx)] :
        new \in {tx.id} \ DOMAIN tables.transactions}

\* UPDATE utxos SET spent_at, whatever it was.
MarkSpent(tables, tx, k) ==
    {[tables EXCEPT !.utxos = [i \in DOMAIN @ |->
        IF @[i].id = tx.from[k].id THEN [@[i] EXCEPT !.spent_at = Some(tx.id)] ELSE @[i]]]}

InsertUtxo(tables, tx, k) ==
    {[tables EXCEPT !.utxos = Append(@,
        [id |-> id, account |-> tx.to[k].account,
         amount |-> AsColumn(tx.to[k].amount), spent_at |-> None])] :
        id \in {i \in {<<tx.id, k - 1>>} : RowsOf(tables, i) = {}}}

\* Mutant of InsertReference: INSERT OR IGNORE, as for accounts.
InsertOrIgnoreReference(tables, tx, k) ==
    {[tables EXCEPT !.tx_references =
        IF Key(tx, k) \in DOMAIN @ THEN @ ELSE With(@, Key(tx, k), tx.id)]}

InsertReference(tables, tx, k) ==
    {[tables EXCEPT !.tx_references = With(@, key, tx.id)] :
        key \in {Key(tx, k)} \ DOMAIN tables.tx_references}

\* INSERT OR IGNORE
InsertAccount(tables, tx, k) ==
    {[tables EXCEPT !.accounts = @ \cup {tx.to[k].account}]}

Execute(tables, tx, s) ==
    CASE s.on = "transactions" -> InsertTx(tables, tx)
      [] s.on = "spent_at" -> MarkSpent(tables, tx, s.n)
      [] s.on = "utxos" -> InsertUtxo(tables, tx, s.n)
      [] s.on = "tx_references" -> InsertReference(tables, tx, s.n)
      [] s.on = "accounts" -> InsertAccount(tables, tx, s.n)

-----------------------------------------------------------------------------
(* The steps of a call to store_tx.                                         *)

StoreTx(c, tx) ==
    /\ call[c] = Idle
    /\ Becomes(c, [at |-> "check", tx |-> tx, next |-> First])
    /\ reply' = [to |-> "none"]
    /\ UNCHANGED <<db, users, log>>

\* The next question; a wrong answer ends the call, the last good one begins
\* the SQL transaction, which as yet holds nothing.
Check(c) ==
    /\ call[c].at = "check"
    /\ LET tx == call[c].tx
           verdict == Verified(db, tx, call[c].next)
           next == NextQuestion(tx, call[c].next)
       IN  IF verdict # "Ok" THEN Answer(c, Stored(tx, verdict))
           ELSE /\ IF next # End THEN Becomes(c, [call[c] EXCEPT !.next = next])
                   ELSE Becomes(c, [at |-> "write", tx |-> tx, next |-> First, mine |-> None])
                /\ UNCHANGED <<db, users, reply, log>>

\* The SQL transaction of c has written, and so holds the write lock.
Writing(c) == call[c].at = "write" /\ call[c].mine # None

Locked(c) == \E other \in Conn \ {c} : Writing(other)

\* The tables as c sees them.
View(c) == IF Writing(c) THEN call[c].mine ELSE Some(db)

\* Mutant of Write: there is no SQL transaction, each statement is on its own.
WriteAlone(c) ==
    /\ call[c].at = "write" /\ call[c].next # End /\ ~Locked(c)
    /\ LET tx == call[c].tx
           after == Execute(db, tx, call[c].next)
       IN  IF after = {} THEN Answer(c, Stored(tx, "Internal"))
           ELSE /\ db' \in after
                /\ Becomes(c, [call[c] EXCEPT !.next = NextStatement(tx, @), !.mine = after])
                /\ UNCHANGED <<users, reply, log>>

\* The next statement; one that fails rolls back what the others wrote.
Write(c) ==
    /\ call[c].at = "write" /\ call[c].next # End /\ ~Locked(c)
    /\ LET tx == call[c].tx
           after == UNION {Execute(tables, tx, call[c].next) : tables \in View(c)}
       IN  IF after = {} THEN Answer(c, Stored(tx, "Internal"))
           ELSE /\ Becomes(c, [call[c] EXCEPT !.next = NextStatement(tx, @), !.mine = after])
                /\ UNCHANGED <<db, users, reply, log>>

\* Mutant of Busy: the first write waits for ever.
BusyForEver(c) ==
    /\ call[c].at = "write" /\ call[c].next # End /\ Locked(c)
    /\ UNCHANGED vars

\* Another connection keeps the write lock longer than the busy timeout.
Busy(c) ==
    /\ call[c].at = "write" /\ call[c].next # End /\ Locked(c)
    /\ Answer(c, Stored(call[c].tx, "Failed"))

Commit(c) ==
    /\ call[c].at = "write" /\ call[c].next = End
    /\ db' \in call[c].mine
    /\ Becomes(c, Idle)
    /\ reply' = Stored(call[c].tx, "Ok")
    /\ log' = Append(log, call[c].tx)
    /\ UNCHANGED users

\* A statement fails for a reason outside the database (the disk, say).  The
\* caller gets Error::Internal; the model calls it "Failed" to tell it from the
\* refusal of a statement.
Fail(c) ==
    \/ call[c].at \in {"check", "write"} /\ Answer(c, Stored(call[c].tx, "Failed"))
    \/ call[c].at \in {"idle", "fetch"} /\ Answer(c, Unread)

\* The process stops, and opens the file again: the tables are there.
Crash(c) ==
    /\ call[c].at \in {"check", "write", "fetch"}
    /\ Becomes(c, Closed)
    /\ UNCHANGED <<db, users, reply, log>>

Open(c) ==
    /\ c \in users /\ call[c] = Closed
    /\ Becomes(c, Idle)
    /\ UNCHANGED <<db, users, reply, log>>

-----------------------------------------------------------------------------
(* The reads.                                                               *)

\* One turn of the loop of get_unspent over the rows the SELECT returns.
Visit(scan, row, target) ==
    IF scan.done THEN scan
    ELSE [coins |-> Append(scan.coins, [id |-> row.id, amount |-> row.amount]),
          total |-> scan.total + row.amount,
          done |-> \E amount \in target : amount <= scan.total + row.amount]

\* Mutant of IsSelected: spent outputs are not left out.
IsSelectedOrSpent(row, account) == row.account = account

\* WHERE account_id = ? AND account_type = ? AND spent_at IS NULL
IsSelected(row, account) == row.account = account /\ row.spent_at = None

\* What the loop has after the rows of the SELECT, in ORDER BY rowid: in the
\* order of insertion.
Scan(tables, account, target) ==
    LET rows == tables.utxos
        scan[n \in 0..Len(rows)] ==
            IF n = 0 THEN [coins |-> <<>>, total |-> 0, done |-> FALSE]
            ELSE IF IsSelected(rows[n], account) THEN Visit(scan[n - 1], rows[n], target)
                 ELSE scan[n - 1]
    IN  scan[Len(rows)]

ReadUnspent(c, account, target) ==
    /\ call[c] = Idle
    /\ Answer(c, [to |-> "get_unspent", account |-> account, target |-> target,
                  verdict |-> "Ok", coins |-> Scan(db, account, target).coins])

\* The first SELECT of get_tx_by_reference; the second is Fetch.
GetTxByReference(c, account, reference) ==
    LET key == <<account, reference>>
    IN  /\ call[c] = Idle
        /\ IF key \notin DOMAIN db.tx_references THEN Answer(c, LookedUp(key, "Ok", None))
           ELSE /\ Becomes(c, [at |-> "fetch", key |-> key, hash |-> db.tx_references[key]])
                /\ UNCHANGED <<db, users, reply, log>>

Fetch(c) ==
    /\ call[c].at = "fetch"
    /\ LET hit == {db.transactions[h] : h \in {call[c].hash} \cap DOMAIN db.transactions}
       IN  Answer(c, LookedUp(call[c].key, IF hit = {} THEN "Internal" ELSE "Ok", hit))

-----------------------------------------------------------------------------

\* What a call that has begun goes on to do.
Continue(c) == Check(c) \/ Write(c) \/ Busy(c) \/ Commit(c) \/ Fetch(c)

Start(c) ==
    \/ \E tx \in Txs : StoreTx(c, tx)
    \/ \E account \in FullAccount :
          \/ \E target \in Targets : ReadUnspent(c, account, target)
          \/ \E tx \in Txs : GetTxByReference(c, account, tx.reference)

Next == \E c \in Conn : Start(c) \/ Continue(c) \/ Fail(c) \/ Crash(c) \/ Open(c)

Spec == Init /\ [][Next]_vars

\* A call that has begun is executed to its end, and the busy timeout is finite.
FairSpec == Spec /\ \A c \in Conn : WF_vars(Continue(c))

-----------------------------------------------------------------------------
(* Properties.                                                              *)

Row == [id : UtxoId, account : FullAccount, amount : -Limit .. Limit - 1,
        spent_at : SUBSET HashId]

TablesType(tables) ==
    /\ DOMAIN tables.transactions \subseteq HashId
    /\ \A h \in DOMAIN tables.transactions :
          tables.transactions[h] \in Txs /\ tables.transactions[h].id = h
    /\ tables.utxos \in Seq(Row)
    /\ \A key \in DOMAIN tables.tx_references :
          key[1] \in FullAccount /\ tables.tx_references[key] \in HashId
    /\ tables.accounts \subseteq FullAccount

TypeOK ==
    /\ TablesType(db)
    /\ \A c \in Conn : call[c].at \in {"idle", "closed", "check", "write", "fetch"}
    /\ \A c \in Conn : call[c].at \in {"check", "write"} => call[c].tx \in Txs
    /\ \A c \in Conn : Writing(c) => \A tables \in call[c].mine : TablesType(tables)
    /\ log \in Seq(Txs)

Spenders(id) ==
    {log[i].id : i \in {j \in DOMAIN log : \E k \in DOMAIN log[j].from : log[j].from[k].id = id}}

\* Whoever else writes and wherever a process stops, the committed tables hold
\* whole transactions: each with all its outputs, in the order of the commits,
\* each output with its account and its amount as the column holds it, with its
\* inputs marked, its references and its accounts, and nothing more.
TablesAgree ==
    /\ DOMAIN db.transactions = {log[i].id : i \in DOMAIN log}
    /\ \A i \in DOMAIN log : db.transactions[log[i].id] = log[i]
    /\ {r.id : r \in ToSet(db.utxos)} = Created(log)
    /\ Len(db.utxos) = Cardinality(Places(log))
    /\ \A p \in Places(log), q \in Places(log) : Newer(q, p) =>
          \E m, n \in DOMAIN db.utxos :
              m < n /\ db.utxos[m].id = UtxoAt(log, p).id /\ db.utxos[n].id = UtxoAt(log, q).id
    /\ \A r \in ToSet(db.utxos) :
          /\ r.spent_at \subseteq Spenders(r.id)
          /\ r.spent_at = None <=> Spenders(r.id) = {}
    /\ \A p \in Places(log) : \E r \in ToSet(db.utxos) :
          /\ r.id = UtxoAt(log, p).id
          /\ r.account = OutputAt(log, p).account
          /\ r.amount = AsColumn(OutputAt(log, p).amount)
    /\ DOMAIN db.tx_references = {Key(log[p[1]], p[2]) : p \in Places(log)}
    /\ \A p \in Places(log) : db.tx_references[Key(log[p[1]], p[2])] = log[p[1]].id
    /\ db.accounts = {OutputAt(log, p).account : p \in Places(log)}

\* The questions of two processes may all be answered before either writes, but
\* the primary keys let one reference credit an account once, and lead to it.
OneCreditPerReference ==
    /\ \A i, j \in DOMAIN log : i # j =>
          /\ log[i].id # log[j].id
          /\ log[i].reference = log[j].reference =>
                \A k \in DOMAIN log[i].to, n \in DOMAIN log[j].to :
                    log[i].to[k].account # log[j].to[n].account
    /\ \A i \in DOMAIN log : \A k \in DOMAIN log[i].to :
          /\ Key(log[i], k) \in DOMAIN db.tx_references
          /\ db.tx_references[Key(log[i], k)] = log[i].id

Fits(tx) ==
    /\ \A k \in DOMAIN tx.to : AsColumn(tx.to[k].amount) = tx.to[k].amount
    /\ \A k \in DOMAIN tx.from : AsColumn(tx.from[k].amount) = tx.from[k].amount

\* No transaction spends an output at another amount than it was created with,
\* as long as the amounts of the stored transactions fit the column.
ValueIsKept ==
    (\A i \in DOMAIN log : Fits(log[i])) =>
        \A i \in DOMAIN log : \A k \in DOMAIN log[i].from :
            \E p \in Places(log) : UtxoAt(log, p) = log[i].from[k]

\* Two outputs of tx go to one sub-account.
Repeats(tx) ==
    \E j, k \in DOMAIN tx.to : j # k /\ tx.to[j].account = tx.to[k].account

Contract == INSTANCE Storage

\* A call that changes nothing: the environment failed it, or two outputs of
\* its transaction go to one sub-account, which the backend
\* cannot store.
GivesUp ==
    /\ UNCHANGED log
    /\ \/ reply'.verdict = "Failed"
       \/ /\ reply'.to = "store_tx" /\ reply'.verdict = "Internal"
          /\ \E tx \in Txs : tx.id = reply'.tx /\ Repeats(tx)

\* One process alone, its crashes included, has from this backend what the
\* Storage contract says, as long as the amounts fit.
ImplementsStorage ==
    /\ Contract!Init
    /\ [][Cardinality(users) = 1 /\ reply'.to # "none" /\ (\A i \in DOMAIN log' : Fits(log'[i]))
              /\ (\A tx \in Txs : reply'.to = "store_tx" /\ reply'.tx = tx.id => Fits(tx))
            => Contract!Next \/ GivesUp]_<<log, reply>>

\* Every call ends, although writers wait for one another.
Returns == \A c \in Conn : call[c].at \in {"check", "write", "fetch"} ~>
                              call[c].at \in {"idle", "closed"}

\* No two transactions spend one output.
NoDoubleSpend ==
    \A i, j \in DOMAIN log : \A k \in DOMAIN log[i].from, n \in DOMAIN log[j].from :
        log[i].from[k].id = log[j].from[n].id => i = j /\ k = n

\* A transaction is refused for what the log says of it, or because something
\* outside failed.
OnlyFailuresAreInternal == reply.to = "store_tx" => reply.verdict # "Internal"
=============================================================================
