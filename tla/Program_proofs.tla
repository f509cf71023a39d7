--------------------------- MODULE Program_proofs ---------------------------
(***************************************************************************)
(* Proofs about the program, for any files and any number of clients and   *)
(* references.  The program is a ledger with one caller and one reader     *)
(* (RunsLedger), so what Ledger_proofs says of these holds of it.  The     *)
(* rest is about the rows: what a call in progress says of its row         *)
(* (Explains), that the log has the deposits of the rows so far (Booked),  *)
(* and what the report has told of the accounts (Reporting, Opened).  Then *)
(* come the amounts: how far the two roundings of a decimal can take it    *)
(* from its value, for any format (FloatFormat), and what that means for   *)
(* the books.  The last section is about progress: what is left of the     *)
(* file and of the report, and that each step takes from it.               *)
(***************************************************************************)
EXTENDS Program, Ledger_proofs

-----------------------------------------------------------------------------
(* The rows that count.                                                     *)

IsReadable(row) == ~IsUnreadable(row) /\ ~LacksAmount(row)

\* The deposits of a among the first n rows, and the first under each number.
DepositRows(f, n, a) ==
    {i \in 1..n : f[i].typ = "deposit" /\ f[i].client = a /\ IsReadable(f[i])}

FirstRows(f, n, a) ==
    {i \in DepositRows(f, n, a) : \A j \in DepositRows(f, n, a) : f[j].tx = f[i].tx => i <= j}

SumOf(f, rows) == MapThenSumSet(LAMBDA i : CHOOSE m \in Converted(f[i]) : TRUE, rows)

\* The rows that are done with.
Handled == IF at = "call" THEN line - 2 ELSE line - 1

-----------------------------------------------------------------------------
(* The invariant.                                                           *)

Control ==
    /\ file \in Files
    /\ line \in 1..(Len(file) + 1)
    /\ at \in {"rows", "call", "report", "balances", "done", "panicked"}
    /\ at = "call" <=> ~IsIdle(Caller)
    /\ ~Gone(Caller)
    /\ at \in {"call", "panicked"} => line > 1
    /\ at \in {"rows", "call", "panicked"} => output = <<>>

\* The dispute of a deposit that the main balance does not cover.
Uncovered(lg, row) ==
    /\ row.typ = "dispute"
    /\ \E i \in Found(lg, MainOf(row.client), row.tx) :
          Balance(lg, MainOf(row.client)) < lg[i].to[1].amount

\* A negative amount is withdrawn: no balance falls short of it, and the exchange
\* before it opens an account that had nothing.
WithdrawsNegative(row) == row.typ = "withdrawal" /\ \E m \in Converted(row) : m < 0

DepositTodo(row, todo) ==
    \E h \in HashId, m \in Converted(row) :
        todo = <<Tx(h, <<>>, <<To(MainOf(row.client), m)>>, row.tx)>>

\* A transaction made for a row that is no deposit: it takes no caller's
\* reference, deposits nothing, and credits an account only that has been.
NoDeposit(lg, row, tx) ==
    /\ tx.to = <<>> \/ tx.reference \notin UserRef
    /\ tx.from = <<>> => Total(tx.to) = 0
    /\ \A n \in DOMAIN tx.to : Owner(tx.to[n].account) = row.client
    /\ tx.to # <<>> => WithdrawsNegative(row) \/ Owned(lg, row.client) # {}

\* What the state of the call says about the row it is made for.
Explains(lg, row, state) ==
    /\ state.at = "idle" =>
          /\ state.outcome # "Dropped"
          /\ state.outcome = "Panic" => Uncovered(lg, row)
    /\ state.at = "select" =>
          /\ row.typ # "deposit"
          /\ state.account = row.client /\ Owned(lg, row.client) # {}
          /\ state.op = "dispute" =>
                /\ row.typ = "dispute" /\ state.reference = row.tx
                /\ \E i \in Found(lg, MainOf(row.client), row.tx) :
                      state.amount = lg[i].to[1].amount
    /\ state.at = "store" =>
          IF row.typ = "deposit" THEN DepositTodo(row, state.todo)
          ELSE \A k \in DOMAIN state.todo : NoDeposit(lg, row, state.todo[k])
    /\ WithdrawsNegative(row) =>
          /\ state.at = "idle" => Owned(lg, row.client) # {}
          /\ state.at = "store" => Owned(lg, row.client) # {} \/ state.todo[1].to # <<>>

Explained ==
    /\ at = "call" => IsReadable(file[line - 1]) /\ Explains(log, file[line - 1], call[Caller])
    /\ at = "panicked" => LacksAmount(file[line - 1]) \/ Uncovered(log, file[line - 1])

\* The log has the deposits of the rows that are done with, and their sums.
Booked(lg, f, n) ==
    \A a \in Id :
        /\ SumAt(lg, Deposits(lg, a)) = SumOf(f, FirstRows(f, n, a))
        /\ \A r \in UserRef : Found(lg, MainOf(a), r) # {} <=>
                                 \E i \in DepositRows(f, n, a) : f[i].tx = r

-----------------------------------------------------------------------------
(* Rows.                                                                    *)

\* The program is the only caller.
LEMMA OnlyCaller == Client = {Caller} /\ Caller \in Client
  <1>1. PICK c : Client = {c}
    BY OneCaller, ClientIsFinite, FS_Singleton
  <1>. QED
    BY <1>1 DEF Caller

\* A row has at most one amount, and it converts to one that the ledger takes.
LEMMA RowAmount ==
    ASSUME NEW f \in Files, NEW i \in DOMAIN f
    PROVE  /\ f[i] \in CsvEntry
           /\ Converted(f[i]) \subseteq Amount
           /\ \A m, n \in Converted(f[i]) : m = n
           /\ \A m \in Converted(f[i]) : m \in Int /\ m = CHOOSE x \in Converted(f[i]) : TRUE
  <1>1. f \in Seq(CsvEntry) /\ \A d, e \in f[i].amount : d = e
    BY FilesAreRows
  <1>2. Converted(f[i]) \subseteq Amount /\ f[i] \in CsvEntry
    BY <1>1, CallsWithAmounts
  <1>3. ASSUME NEW d
        PROVE  \A m, n \in FromF64(Parsed(d)) : m = n
    BY DEF Parsed, FromF64, Some
  <1>4. \A m, n \in Converted(f[i]) : m = n
    <2>. SUFFICES ASSUME NEW m \in Converted(f[i]), NEW n \in Converted(f[i])
                  PROVE  m = n
      OBVIOUS
    <2>1. PICK d \in f[i].amount : m \in FromF64(Parsed(d))
      BY DEF Converted
    <2>2. PICK e \in f[i].amount : n \in FromF64(Parsed(e))
      BY DEF Converted
    <2>3. d = e
      BY <1>1
    <2>. QED
      BY <1>3, <2>1, <2>2, <2>3
  <1>5. \A m \in Converted(f[i]) : m \in Int
    BY <1>2, AmountIsInt
  <1>6. \A m \in Converted(f[i]) : m = CHOOSE x \in Converted(f[i]) : TRUE
    BY <1>4
  <1>. QED
    BY <1>2, <1>4, <1>5, <1>6

\* A derived reference is none of a caller.
LEMMA DerivedIsNoNumber ==
    ASSUME NEW tag \in Tags, NEW r \in Reference
    PROVE  Tagged(tag, r) \notin UserRef
  BY HeadOfTagged, ReferenceIsNumber

-----------------------------------------------------------------------------
(* Sums over rows.                                                          *)

\* The amounts of these rows are integers.
Summable(f, rows) ==
    IsFiniteSet(rows) /\ \A i \in rows : (CHOOSE m \in Converted(f[i]) : TRUE) \in Int

RowAmounts(f, rows) == [i \in rows |-> CHOOSE m \in Converted(f[i]) : TRUE]

\* SumOf is a solution of its recursion.
LEMMA RowsFold ==
    ASSUME NEW f, NEW S, Summable(f, S)
    PROVE  \E g : IsFold(g, RowAmounts(f, S), S) /\ SumOf(f, S) = g[S]
  <1>. DEFINE Solves(g) == g = [s \in SUBSET S |->
                  IF s = {} THEN 0
                  ELSE (CHOOSE m \in Converted(f[CHOOSE i \in s : TRUE]) : TRUE)
                          + g[s \ {CHOOSE i \in s : TRUE}]]
              iter == CHOOSE g : Solves(g)
  <1>1. SumOf(f, S) = iter[S]
    BY DEF SumOf, MapThenSumSet, MapThenFoldSet
  <1>2. ASSUME NEW g
        PROVE  Solves(g) <=> IsFold(g, RowAmounts(f, S), S)
    <2>1. ASSUME NEW s \in SUBSET S, s # {}
          PROVE  RowAmounts(f, S)[Pick(s)]
                    = CHOOSE m \in Converted(f[CHOOSE i \in s : TRUE]) : TRUE
      BY <2>1, PickIn DEF RowAmounts, Pick
    <2>. QED
      BY <2>1 DEF IsFold, Pick
  <1>3. \E g : IsFold(g, RowAmounts(f, S), S)
    <2>1. \A i \in S : RowAmounts(f, S)[i] \in Int
      BY DEF RowAmounts, Summable
    <2>. QED
      BY <2>1, FoldExists DEF Summable
  <1>. HIDE DEF Solves
  <1>4. Solves(iter)
    BY <1>2, <1>3
  <1>. QED
    BY <1>1, <1>2, <1>4

\* No rows sum to nothing.
LEMMA SumOfNoRows ==
    ASSUME NEW f
    PROVE  SumOf(f, {}) = 0
  <1>1. Summable(f, {})
    BY FS_EmptySet DEF Summable
  <1>2. PICK g : IsFold(g, RowAmounts(f, {}), {}) /\ SumOf(f, {}) = g[{}]
    BY <1>1, RowsFold
  <1>3. g[{}] = 0
    BY <1>2 DEF IsFold
  <1>. QED
    BY <1>2, <1>3

\* One more row adds its amount.
LEMMA SumOfMoreRows ==
    ASSUME NEW f, NEW S, NEW i, i \notin S, Summable(f, S \cup {i})
    PROVE  /\ SumOf(f, S) \in Int
           /\ SumOf(f, S \cup {i}) = SumOf(f, S) + CHOOSE m \in Converted(f[i]) : TRUE
  <1>. DEFINE T == S \cup {i}
              value(x) == CHOOSE m \in Converted(f[x]) : TRUE
              d == RowAmounts(f, T)
              e == RowAmounts(f, S)
  <1>1. IsFiniteSet(T) /\ IsFiniteSet(S) /\ \A x \in T : value(x) \in Int
    BY FS_Subset DEF Summable
  <1>2. Summable(f, S)
    BY <1>1 DEF Summable
  <1>3. d = [x \in T |-> value(x)] /\ e = [x \in S |-> value(x)]
    BY DEF RowAmounts
  <1>4. PICK g : IsFold(g, d, T) /\ SumOf(f, T) = g[T]
    BY RowsFold
  <1>5. PICK h : IsFold(h, e, S) /\ SumOf(f, S) = h[S]
    BY <1>2, RowsFold
  <1>6. i \in T /\ T \ {i} = S /\ S \subseteq T
    OBVIOUS
  <1>. HIDE DEF T, d, e, value
  <1>7. /\ \A x \in T : d[x] \in Int
        /\ \A x \in S : e[x] \in Int /\ d[x] = e[x]
        /\ d[i] = value(i)
    BY <1>1, <1>3, <1>6
  <1>8. g[T] = d[i] + g[T \ {i}]
    <2>1. T \in SUBSET T /\ i \in T /\ IsFiniteSet(T)
      BY <1>1, <1>6
    <2>2. IsFold(g, d, T) /\ \A x \in T : d[x] \in Int
      BY <1>4, <1>7
    <2>. QED
      BY <2>1, <2>2, FoldAnyFirst
  <1>9. g[S] = h[S]
    <2>1. S \in SUBSET (T \cap S)
      BY <1>6
    <2>. QED
      BY <1>1, <1>4, <1>5, <1>7, <2>1, FoldUnique
  <1>10. h[S] \in Int
    <2>1. S \in SUBSET S
      OBVIOUS
    <2>. QED
      BY <1>1, <1>5, <1>7, <2>1, FoldIsInt
  <1>11. SumOf(f, S) \in Int /\ SumOf(f, T) = SumOf(f, S) + value(i)
    <2>1. value(i) \in Int /\ d[i] = value(i)
      BY <1>1, <1>6, <1>7
    <2>2. SumOf(f, T) = value(i) + h[S] /\ SumOf(f, S) = h[S]
      BY <2>1, <1>4, <1>5, <1>6, <1>8, <1>9
    <2>. QED
      BY <2>1, <2>2, <1>10
  <1>. QED
    BY <1>11 DEF T, value

-----------------------------------------------------------------------------
(* A call says what its row is, until it stores.                            *)

\* get_unspent falls short of the target only with all that the account has.
LEMMA ShortIsAll ==
    ASSUME NEW lg \in Seq(Transaction), NEW account, NEW m,
           NEW inputs \in GetUnspent(lg, account, Some(m)), ~(Total(inputs) >= m)
    PROVE  Total(inputs) = Balance(lg, account)
  <1>1. PICK taken \in Taken(lg, account, Some(m)) : Total(inputs) = SumAt(lg, taken)
    BY SelectedTotal
  <1>2. taken = UnspentPlaces(lg, account) \/ Enough(lg, taken, Some(m))
    BY <1>1 DEF Taken
  <1>3. ~Enough(lg, taken, Some(m))
    BY <1>1 DEF Enough, Some
  <1>. QED
    BY <1>1, <1>2, <1>3 DEF Balance

\* What a step of the call made for row leaves of it: a deposit is on its way.
ExplainsStep(c, row) ==
    /\ UNCHANGED log
    /\ \E state : /\ call' = [call EXCEPT ![c] = state]
                  /\ Explains(log, row, state)
                  /\ row.typ = "deposit" => state.at = "store"

\* Returning explains itself, unless the future was dropped or the code panics.
LEMMA ExplainReturn ==
    ASSUME NEW c, NEW row, row.typ # "deposit", NEW outcome, Return(c, outcome), UNCHANGED log,
           outcome # "Dropped", outcome = "Panic" => Uncovered(log, row),
           WithdrawsNegative(row) => Owned(log, row.client) # {}
    PROVE  ExplainsStep(c, row)
  <1>. DEFINE state == [at |-> "idle", outcome |-> outcome]
  <1>1. /\ state.at = "idle" /\ state.outcome = outcome
        /\ state.at # "select" /\ state.at # "store"
    OBVIOUS
  <1>2. call' = [call EXCEPT ![c] = state]
    BY DEF Return
  <1>. HIDE DEF state
  <1>3. Explains(log, row, state)
    BY <1>1 DEF Explains
  <1>. QED
    BY <1>2, <1>3 DEF ExplainsStep

\* So does an offer of transactions that are no deposits, when the first one
\* opens the account or it has been.
LEMMA ExplainOffer ==
    ASSUME NEW c, NEW row, row.typ # "deposit", NEW txs, Offer(c, txs), UNCHANGED log,
           \A k \in DOMAIN txs : NoDeposit(log, row, txs[k]),
           WithdrawsNegative(row) =>
              \/ Owned(log, row.client) # {}
              \/ /\ txs[1].to # <<>>
                 /\ \A k \in DOMAIN txs : NewVerdict(txs[k].from, txs[k].to) = "Ok"
    PROVE  ExplainsStep(c, row)
  <1>. DEFINE refused == {k \in DOMAIN txs : NewVerdict(txs[k].from, txs[k].to) # "Ok"}
              first == CHOOSE k \in refused : \A j \in refused : k <= j
              outcome == NewVerdict(txs[first].from, txs[first].to)
              state == [at |-> "store", todo |-> txs]
  <1>1. \/ call' = [call EXCEPT ![c] = state]
        \/ refused # {} /\ Return(c, outcome)
    BY DEF Offer
  <1>2. /\ state.at = "store" /\ state.todo = txs
        /\ state.at # "select" /\ state.at # "idle"
    OBVIOUS
  <1>3. outcome # "Dropped" /\ outcome # "Panic"
    BY NewVerdictType
  <1>6. /\ WithdrawsNegative(row) => Owned(log, row.client) # {} \/ txs[1].to # <<>>
        /\ refused # {} /\ WithdrawsNegative(row) => Owned(log, row.client) # {}
    OBVIOUS
  <1>. HIDE DEF state, outcome, refused
  <1>4. CASE call' = [call EXCEPT ![c] = state]
    <2>1. Explains(log, row, state)
      BY <1>2, <1>6 DEF Explains
    <2>. QED
      BY <1>4, <2>1 DEF ExplainsStep
  <1>5. CASE refused # {} /\ Return(c, outcome)
    BY <1>3, <1>5, <1>6, ExplainReturn
  <1>. QED
    BY <1>1, <1>4, <1>5

\* A deposit is never refused before it is stored.
LEMMA ExplainDeposit ==
    ASSUME NEW c \in Client, NEW row, row.typ = "deposit", NEW m \in Converted(row),
           Deposit(c, row.client, row.tx, m)
    PROVE  ExplainsStep(c, row)
  <1>1. PICK h \in Fresh(Used) :
           Offer(c, <<Tx(h, <<>>, <<To(MainOf(row.client), m)>>, row.tx)>>)
    BY DEF Deposit
  <1>. DEFINE to == <<To(MainOf(row.client), m)>>
              txs == <<Tx(h, <<>>, to, row.tx)>>
              state == [at |-> "store", todo |-> txs]
  <1>2. h \in HashId
    BY FreshType
  <1>3. DepositTodo(row, txs)
    BY <1>2 DEF DepositTodo
  <1>4. to # <<>>
    OBVIOUS
  <1>5. {k \in DOMAIN txs : NewVerdict(txs[k].from, txs[k].to) # "Ok"} = {}
    <2>. HIDE DEF to
    <2>1. \A k \in DOMAIN txs : txs[k].from = <<>> /\ txs[k].to = to
      BY DEF Tx
    <2>2. NewVerdict(<<>>, to) = "Ok"
      BY <1>4 DEF NewVerdict
    <2>. QED
      BY <2>1, <2>2
  <1>6. call' = [call EXCEPT ![c] = state]
    <2>. HIDE DEF txs
    <2>. QED
      BY <1>1, <1>5 DEF Offer, txs
  <1>7. /\ state.at = "store" /\ state.todo = txs
        /\ state.at # "select" /\ state.at # "idle"
    OBVIOUS
  <1>. HIDE DEF state, txs
  <1>8. Explains(log, row, state)
    BY <1>3, <1>7 DEF Explains, WithdrawsNegative
  <1>. QED
    BY <1>6, <1>7, <1>8 DEF ExplainsStep, Deposit

\* An account has outputs when one of its sub-accounts was credited.
LEMMA FoundIsOwned ==
    ASSUME NEW lg, NEW a, NEW account, Owner(account) = a, NEW r, Found(lg, account, r) # {}
    PROVE  Owned(lg, a) # {}
  <1>1. PICK i \in DOMAIN lg : \E k \in DOMAIN lg[i].to : lg[i].to[k].account = account
    BY DEF Found
  <1>2. PICK k \in DOMAIN lg[i].to : lg[i].to[k].account = account
    BY <1>1
  <1>. DEFINE p == <<i, k>>
  <1>3. p \in Places(lg) /\ OutputAt(lg, p).account = account
    BY <1>2, InPlaces DEF OutputAt
  <1>. QED
    BY <1>3 DEF Owned

\* A transaction that moves what get_unspent gave stays within its account.
LEMMA MoveIsNoDeposit ==
    ASSUME TypeOK, NEW row, NEW source, Owner(source) = row.client,
           NEW target, NEW inputs \in GetUnspent(log, source, target),
           NEW dest, Owner(dest) = row.client, NEW m \in Int,
           NEW h, NEW tag \in Tags, NEW r \in Reference,
           inputs = <<>> => WithdrawsNegative(row) \/ Owned(log, row.client) # {}
    PROVE  NoDeposit(log, row, Tx(h, inputs, Split(To(dest, m), source, Total(inputs)),
                                  Tagged(tag, r)))
  <1>. DEFINE to == Split(To(dest, m), source, Total(inputs))
              tx == Tx(h, inputs, to, Tagged(tag, r))
  <1>1. log \in Seq(Transaction)
    BY DEF TypeOK
  <1>2. /\ inputs \in Seq(Utxo)
        /\ \A k \in DOMAIN inputs : \E p \in Places(log) :
              OutputAt(log, p).account = source /\ UtxoAt(log, p) = inputs[k]
    BY <1>1, SelectedFrom
  <1>3. Total(inputs) \in Int
    BY <1>2, TotalIsInt
  <1>4. /\ Total(to) = Total(inputs)
        /\ \A n \in DOMAIN to : to[n].account \in {dest, source}
    BY <1>3, SplitPlan
  <1>5. Tagged(tag, r) \notin UserRef
    BY DerivedIsNoNumber
  <1>6. inputs # <<>> => Owned(log, row.client) # {}
    <2>. SUFFICES ASSUME inputs # <<>>
                  PROVE  Owned(log, row.client) # {}
      OBVIOUS
    <2>1. 1 \in DOMAIN inputs
      BY <1>2
    <2>. QED
      BY <1>2, <2>1 DEF Owned
  <1>. HIDE DEF to
  <1>7. /\ tx.from = inputs /\ tx.to = to /\ tx.reference = Tagged(tag, r)
    BY DEF Tx
  <1>. HIDE DEF tx
  <1>8. NoDeposit(log, row, tx)
    BY <1>4, <1>5, <1>6, <1>7, TotalOfNone DEF NoDeposit
  <1>. QED
    BY <1>8 DEF tx, to

\* withdraw plans no deposit.
LEMMA ExplainWithdraw ==
    ASSUME TypeOK, NEW c \in Client, NEW row, row.typ = "withdrawal", NEW m \in Converted(row),
           \A n \in Converted(row) : n = m,
           m \in Int, row.client \in Id, row.tx \in Reference,
           Withdraw(c, row.client, row.tx, m)
    PROVE  ExplainsStep(c, row)
  <1>. DEFINE main == MainOf(row.client)
              r == row.tx
  <1>1. UNCHANGED log
    BY DEF Withdraw
  <1>2. ASSUME NEW h, NEW from
        PROVE  NoDeposit(log, row, Tx(h, from, <<>>, r))
    BY TotalOfNone DEF NoDeposit, Tx
  <1>3. PICK inputs \in GetUnspent(log, main, Some(m)) :
           \/ Total(inputs) < m /\ Return(c, "NotEnough")
           \/ Total(inputs) = m /\ \E h : Offer(c, <<Tx(h, inputs, <<>>, r)>>)
           \/ /\ Total(inputs) > m
              /\ \E h, g : LET exchange == Exchange(h, inputs, row.client, r, m)
                           IN  Offer(c, <<exchange, Tx(g, <<Kept(exchange)>>, <<>>, r)>>)
    BY DEF Withdraw
  <1>7. inputs # <<>> => Owned(log, row.client) # {}
    <2>1. /\ inputs \in Seq(Utxo)
          /\ \A k \in DOMAIN inputs : \E p \in Places(log) : OutputAt(log, p).account = main
      BY SelectedFrom DEF TypeOK
    <2>2. inputs # <<>> => 1 \in DOMAIN inputs
      BY <2>1
    <2>. QED
      BY <2>1, <2>2, Owners DEF Owned
  <1>8. WithdrawsNegative(row) => m < 0
    BY DEF WithdrawsNegative
  <1>9. Total(inputs) <= m /\ WithdrawsNegative(row) => Owned(log, row.client) # {}
    BY <1>7, <1>8, TotalOfNone
  <1>4. CASE Total(inputs) < m /\ Return(c, "NotEnough")
    <2>1. Total(inputs) \in Int
      BY Selected, TotalIsInt DEF TypeOK
    <2>. QED
      BY <1>1, <1>4, <1>9, <2>1, ExplainReturn
  <1>5. CASE Total(inputs) = m /\ \E h : Offer(c, <<Tx(h, inputs, <<>>, r)>>)
    <2>1. PICK h : Offer(c, <<Tx(h, inputs, <<>>, r)>>)
      BY <1>5
    <2>. DEFINE tx == Tx(h, inputs, <<>>, r)
    <2>2. NoDeposit(log, row, tx)
      BY <1>2
    <2>. HIDE DEF tx
    <2>3. \A k \in DOMAIN <<tx>> : NoDeposit(log, row, <<tx>>[k])
      BY <2>2
    <2>4. Offer(c, <<tx>>)
      BY <2>1 DEF tx
    <2>. QED
      BY <1>1, <1>5, <1>9, <2>3, <2>4, ExplainOffer
  <1>6. ASSUME Total(inputs) > m, NEW h, NEW g,
               Offer(c, <<Exchange(h, inputs, row.client, r, m),
                          Tx(g, <<Kept(Exchange(h, inputs, row.client, r, m))>>, <<>>, r)>>)
        PROVE  ExplainsStep(c, row)
    <2>. DEFINE exchange == Exchange(h, inputs, row.client, r, m)
                withdrawal == Tx(g, <<Kept(exchange)>>, <<>>, r)
                txs == <<exchange, withdrawal>>
    <2>1. inputs = <<>> => WithdrawsNegative(row)
      <3>. SUFFICES ASSUME inputs = <<>>
                    PROVE  m < 0
        BY DEF WithdrawsNegative
      <3>1. Total(inputs) = 0
        BY TotalOfNone
      <3>. QED
        BY <1>6, <3>1
    <2>2. "Exchange for" \in Tags /\ Owner(main) = row.client
      BY Owners DEF Tags
    <2>3. NoDeposit(log, row, exchange)
      <3>. HIDE DEF main
      <3>1. NoDeposit(log, row, Tx(h, inputs, Split(To(main, m), main, Total(inputs)),
                                   Tagged("Exchange for", r)))
        BY <2>1, <2>2, MoveIsNoDeposit
      <3>. QED
        BY <3>1 DEF Exchange, main
    <2>4. NoDeposit(log, row, withdrawal)
      BY <1>2
    <2>5. Offer(c, txs)
      BY <1>6
    <2>7. exchange.from = inputs /\ exchange.to # <<>>
      <3>1. Total(inputs) \in Int
        BY Selected, TotalIsInt DEF TypeOK
      <3>. QED
        BY <3>1, SplitPlan DEF Exchange, Tx
    <2>8. withdrawal.from # <<>> /\ withdrawal.to = <<>>
      BY DEF Tx
    <2>. HIDE DEF exchange, withdrawal
    <2>9. inputs = <<>> => /\ NewVerdict(exchange.from, exchange.to) = "Ok"
                           /\ NewVerdict(withdrawal.from, withdrawal.to) = "Ok"
      BY <2>7, <2>8 DEF NewVerdict
    <2>6. /\ \A k \in DOMAIN txs : NoDeposit(log, row, txs[k])
          /\ txs[1].to # <<>>
          /\ inputs = <<>> => \A k \in DOMAIN txs : NewVerdict(txs[k].from, txs[k].to) = "Ok"
      BY <2>3, <2>4, <2>7, <2>9
    <2>. HIDE DEF txs
    <2>. QED
      BY <1>1, <1>7, <2>5, <2>6, ExplainOffer
  <1>. QED
    BY <1>3, <1>4, <1>5, <1>6

\* dispute finds the deposit of its row.
LEMMA ExplainDispute ==
    ASSUME NEW c \in Client, NEW row, row.typ = "dispute", Dispute(c, row.client, row.tx)
    PROVE  ExplainsStep(c, row)
  <1>. DEFINE found == Found(log, MainOf(row.client), row.tx)
              state(i) == [at |-> "select", op |-> "dispute", account |-> row.client,
                           reference |-> row.tx, amount |-> log[i].to[1].amount]
  <1>1. /\ UNCHANGED log
        /\ \/ \E outcome \in {"NotFound", "WrongType"} : Return(c, outcome)
           \/ \E i \in found : call' = [call EXCEPT ![c] = state(i)]
    BY DEF Dispute
  <1>2. ASSUME NEW outcome \in {"NotFound", "WrongType"}, Return(c, outcome)
        PROVE  ExplainsStep(c, row)
    BY <1>1, <1>2, ExplainReturn DEF WithdrawsNegative
  <1>3. ASSUME NEW i \in found, call' = [call EXCEPT ![c] = state(i)]
        PROVE  ExplainsStep(c, row)
    <2>1. /\ state(i).at = "select" /\ state(i).at # "idle" /\ state(i).at # "store"
          /\ state(i).account = row.client /\ state(i).op = "dispute"
          /\ state(i).reference = row.tx /\ state(i).amount = log[i].to[1].amount
      OBVIOUS
    <2>2. Owned(log, row.client) # {}
      BY Owners, FoundIsOwned
    <2>. HIDE DEF state
    <2>3. Explains(log, row, state(i))
      BY <2>1, <2>2 DEF Explains
    <2>. QED
      BY <1>1, <1>3, <2>3 DEF ExplainsStep
  <1>. QED
    BY <1>1, <1>2, <1>3

\* resolve and chargeback find a dispute.
LEMMA ExplainSettle ==
    ASSUME NEW c \in Client, NEW row, row.typ \notin {"deposit", "withdrawal"},
           NEW op, op # "dispute",
           Settle(c, op, row.client, row.tx)
    PROVE  ExplainsStep(c, row)
  <1>. DEFINE disputes == Found(log, DisputedOf(row.client), Tagged("dispute", row.tx))
              state(i) == [at |-> "select", op |-> op, account |-> row.client,
                           reference |-> row.tx,
                           amount |-> Credited(log[i], DisputedOf(row.client))]
  <1>1. /\ UNCHANGED log
        /\ \/ Return(c, "NotFound")
           \/ \E i \in disputes : call' = [call EXCEPT ![c] = state(i)]
    BY DEF Settle
  <1>2. CASE Return(c, "NotFound")
    BY <1>1, <1>2, ExplainReturn DEF WithdrawsNegative
  <1>3. ASSUME NEW i \in disputes, call' = [call EXCEPT ![c] = state(i)]
        PROVE  ExplainsStep(c, row)
    <2>1. /\ state(i).at = "select" /\ state(i).at # "idle" /\ state(i).at # "store"
          /\ state(i).account = row.client /\ state(i).op # "dispute"
      OBVIOUS
    <2>2. Owned(log, row.client) # {}
      BY Owners, FoundIsOwned
    <2>. HIDE DEF state
    <2>3. Explains(log, row, state(i))
      BY <2>1, <2>2 DEF Explains
    <2>. QED
      BY <1>1, <1>3, <2>3 DEF ExplainsStep
  <1>. QED
    BY <1>1, <1>2, <1>3

\* The move plans no deposit, and dispute panics when the funds do not cover it.
LEMMA ExplainSelect ==
    ASSUME TypeOK, NEW c \in Client, NEW row, Explains(log, row, call[c]), Select(c)
    PROVE  ExplainsStep(c, row)
  <1>. DEFINE now == call[c]
              move == Moves[now.op]
              source == <<now.account, move.source>>
              dest == <<now.account, move.dest>>
              tag == move.tag
  <1>1. log \in Seq(Transaction) /\ call \in [Client -> CallState] /\ now.at = "select"
    BY DEF TypeOK, CallState, Select
  <1>2. now \in Selecting
    BY <1>1 DEF CallState, Idle, Storing
  <1>3. /\ now.op \in Op /\ now.account \in Id /\ now.reference \in Reference
        /\ now.amount \in Int
    BY <1>2 DEF Selecting
  <1>4. /\ row.typ # "deposit" /\ now.account = row.client /\ Owned(log, row.client) # {}
        /\ now.op = "dispute" =>
              /\ row.typ = "dispute" /\ now.reference = row.tx
              /\ \E i \in Found(log, MainOf(row.client), row.tx) : now.amount = log[i].to[1].amount
    BY <1>1 DEF Explains
  <1>5. tag \in Tags
    BY <1>3, MovesType
  <1>6. move.missing # "Dropped" /\ (move.missing = "Panic" => now.op = "dispute" /\ move.source = "Main")
    BY <1>3 DEF Op, Moves
  <1>7. UNCHANGED log
    BY DEF Select
  <1>8. PICK inputs \in GetUnspent(log, source, Some(now.amount)) :
           \/ Total(inputs) < now.amount /\ Return(c, move.missing)
           \/ \E h : Offer(c, <<Tx(h, inputs,
                                   Split(To(dest, now.amount), source, Total(inputs)),
                                   Tagged(tag, now.reference))>>)
    BY DEF Select
  <1>9. Total(inputs) \in Int
    BY <1>1, Selected, TotalIsInt
  <1>10. Owner(source) = row.client /\ Owner(dest) = row.client
    BY <1>4 DEF Owner
  <1>11. CASE Total(inputs) < now.amount /\ Return(c, move.missing)
    <2>1. Total(inputs) = Balance(log, source)
      <3>1. ~(Total(inputs) >= now.amount)
        BY <1>3, <1>9, <1>11
      <3>. HIDE DEF source, now
      <3>. QED
        BY <1>1, <3>1, ShortIsAll
    <2>2. ASSUME move.missing = "Panic"
          PROVE  Uncovered(log, row)
      <3>1. now.op = "dispute" /\ source = MainOf(row.client)
        BY <1>4, <1>6, <2>2 DEF MainOf
      <3>. HIDE DEF source, now, move
      <3>2. Balance(log, MainOf(row.client)) < now.amount
        BY <1>11, <2>1, <3>1
      <3>. QED
        BY <1>4, <3>1, <3>2 DEF Uncovered
    <2>. QED
      BY <1>4, <1>6, <1>7, <1>11, <2>2, ExplainReturn
  <1>12. ASSUME NEW h, Offer(c, <<Tx(h, inputs, Split(To(dest, now.amount), source, Total(inputs)),
                                     Tagged(tag, now.reference))>>)
         PROVE  ExplainsStep(c, row)
    <2>. DEFINE tx == Tx(h, inputs, Split(To(dest, now.amount), source, Total(inputs)),
                         Tagged(tag, now.reference))
    <2>1. NoDeposit(log, row, tx)
      <3>. HIDE DEF now, source, dest, tag
      <3>. QED
        BY <1>3, <1>4, <1>5, <1>10, MoveIsNoDeposit
    <2>2. Offer(c, <<tx>>)
      BY <1>12
    <2>. HIDE DEF tx
    <2>3. \A k \in DOMAIN <<tx>> : NoDeposit(log, row, <<tx>>[k])
      BY <2>1
    <2>. QED
      BY <1>4, <1>7, <2>2, <2>3, ExplainOffer
  <1>. QED
    BY <1>8, <1>11, <1>12

-----------------------------------------------------------------------------
(* The program is a ledger with one caller.                                 *)

\* The row to be read is one of the file.
LEMMA RowIsEntry ==
    ASSUME Control, line <= Len(file)
    PROVE  /\ file \in Files /\ line \in DOMAIN file /\ line \in Nat /\ Len(file) \in Nat
           /\ Row \in CsvEntry
           /\ Row.client \in Id /\ Row.tx \in UserRef /\ Row.tx \in Reference
           /\ \A m \in Converted(Row) : m \in Amount /\ m \in Int
           /\ \A m, n \in Converted(Row) : m = n
  <1>1. file \in Files /\ file \in Seq(CsvEntry)
    BY FilesAreRows DEF Control
  <1>2. line \in DOMAIN file /\ line \in Nat /\ Len(file) \in Nat
    BY <1>1 DEF Control
  <1>3. /\ Row \in CsvEntry
        /\ \A m \in Converted(Row) : m \in Amount /\ m \in Int
        /\ \A m, n \in Converted(Row) : m = n
    BY <1>1, <1>2, RowAmount DEF Row
  <1>4. Row.client \in Id /\ Row.tx \in UserRef
    BY <1>3 DEF CsvEntry
  <1>. QED
    BY <1>1, <1>2, <1>3, <1>4, UserRefIsReference

\* A row that is read begins a call.
LEMMA CallStarts ==
    ASSUME Control, CallLedger
    PROVE  Start(Caller)
  <1>1. line <= Len(file) /\ ~Gone(Caller)
    BY DEF CallLedger, Control
  <1>2. /\ Row.client \in Id /\ Row.tx \in UserRef
        /\ \A m \in Converted(Row) : m \in Amount
    BY <1>1, RowIsEntry
  <1>3. \/ \E m \in Amount : Deposit(Caller, Row.client, Row.tx, m) \/ Withdraw(Caller, Row.client, Row.tx, m)
        \/ Dispute(Caller, Row.client, Row.tx)
        \/ Resolve(Caller, Row.client, Row.tx)
        \/ Chargeback(Caller, Row.client, Row.tx)
    BY <1>2 DEF CallLedger
  <1>. QED
    BY <1>1, <1>2, <1>3 DEF Start

\* Whatever the program does, the ledger makes a step of its own or none.
LEMMA RunsLedger ==
    ASSUME Control, [ProgramNext]_programVars
    PROVE  [Next]_vars
  <1>1. CASE CallLedger
    BY <1>1, CallStarts, OnlyCaller DEF Next
  <1>2. CASE AwaitLedger
    BY <1>2, OnlyCaller DEF AwaitLedger, Next
  <1>3. CASE ~CallLedger /\ ~AwaitLedger
    BY <1>3 DEF ProgramNext, Step, Ended, programVars, vars, SkipRow, MissingAmount, EndOfFile,
                NextAccount, ReadNextBalance, WriteRecord, Finish
  <1>. QED
    BY <1>1, <1>2, <1>3

\* What Ledger_proofs says of a ledger with one caller.
LedgerInv == Inv /\ AloneInv /\ Conservation

LEMMA InitLedgerInv == ProgramInit => LedgerInv
  BY InitInv, AloneInit, InitConserves DEF ProgramInit, ReadInit, LedgerInv

LEMMA NextLedgerInv ==
    ASSUME LedgerInv, Control, [ProgramNext]_programVars
    PROVE  LedgerInv'
  <1>1. [Next]_vars
    BY RunsLedger
  <1>2. Inv'
    BY <1>1, NextInv DEF LedgerInv
  <1>3. AloneInv'
    BY <1>1, <1>2, OnlyCaller, AloneNext DEF LedgerInv
  <1>4. Conservation'
    BY <1>1, <1>2, StepConserves DEF LedgerInv
  <1>. QED
    BY <1>2, <1>3, <1>4 DEF LedgerInv

\* The call that begins explains itself by its row.
LEMMA CallExplains ==
    ASSUME TypeOK, Control, CallLedger
    PROVE  IsReadable(Row) /\ ExplainsStep(Caller, Row)
  <1>1. line <= Len(file) /\ IsReadable(Row)
    BY DEF CallLedger, IsReadable
  <1>2. /\ Row.client \in Id /\ Row.tx \in Reference
        /\ \A m \in Converted(Row) : m \in Int /\ \A n \in Converted(Row) : n = m
    BY <1>1, RowIsEntry
  <1>3. Caller \in Client
    BY OnlyCaller
  <1>4. ASSUME NEW m \in Converted(Row), Row.typ = "deposit", Deposit(Caller, Row.client, Row.tx, m)
        PROVE  ExplainsStep(Caller, Row)
    BY <1>3, <1>4, ExplainDeposit
  <1>5. ASSUME NEW m \in Converted(Row), Row.typ = "withdrawal", Withdraw(Caller, Row.client, Row.tx, m)
        PROVE  ExplainsStep(Caller, Row)
    BY <1>2, <1>3, <1>5, ExplainWithdraw
  <1>6. CASE Row.typ = "dispute" /\ Dispute(Caller, Row.client, Row.tx)
    BY <1>1, <1>3, <1>6, ExplainDispute
  <1>7. CASE Row.typ = "resolve" /\ Resolve(Caller, Row.client, Row.tx)
    BY <1>1, <1>3, <1>7, ExplainSettle DEF Resolve
  <1>8. CASE Row.typ = "chargeback" /\ Chargeback(Caller, Row.client, Row.tx)
    BY <1>1, <1>3, <1>8, ExplainSettle DEF Chargeback
  <1>. QED
    BY <1>1, <1>4, <1>5, <1>6, <1>7, <1>8 DEF CallLedger

-----------------------------------------------------------------------------
(* One row more.                                                            *)

\* The row counts for the account it names.
Counts(f, n, b) == f[n].typ = "deposit" /\ f[n].client = b /\ IsReadable(f[n])

LEMMA DepositRowsAfter ==
    ASSUME NEW f, NEW n \in Nat, NEW a
    PROVE  DepositRows(f, n + 1, a)
              = DepositRows(f, n, a) \cup (IF Counts(f, n + 1, a) THEN {n + 1} ELSE {})
  <1>1. 1..(n + 1) = (1..n) \cup {n + 1}
    OBVIOUS
  <1>. QED
    BY <1>1 DEF DepositRows, Counts

\* The rows whose amounts are summed have one.
LEMMA RowsAreSummable ==
    ASSUME NEW f \in Files, NEW n \in 0..Len(f), NEW a, NEW S \in SUBSET DepositRows(f, n, a)
    PROVE  Summable(f, S)
  <1>1. f \in Seq(CsvEntry) /\ n \in Nat /\ Len(f) \in Nat /\ DOMAIN f = 1..Len(f)
    BY FilesAreRows
  <1>2. IsFiniteSet(1..n) /\ S \subseteq 1..n
    BY <1>1, FS_Interval DEF DepositRows
  <1>3. ASSUME NEW i \in S
        PROVE  (CHOOSE m \in Converted(f[i]) : TRUE) \in Int
    <2>1. i \in DOMAIN f
      BY <1>1, <1>2
    <2>2. \A m \in Converted(f[i]) : m \in Int /\ m = CHOOSE x \in Converted(f[i]) : TRUE
      BY <2>1, RowAmount
    <2>3. Converted(f[i]) # {}
      BY DEF DepositRows, IsReadable, IsUnreadable, LacksAmount, None
    <2>. QED
      BY <2>2, <2>3
  <1>. QED
    BY <1>2, <1>3, FS_Subset DEF Summable

\* A deposit under a new number is one of the first; one under a number that
\* the account has seen is not.
LEMMA FirstRowsAfter ==
    ASSUME NEW f, NEW n \in Nat, NEW a
    PROVE  LET repeated == \E i \in DepositRows(f, n, a) : f[i].tx = f[n + 1].tx
               first == Counts(f, n + 1, a) /\ ~repeated
           IN  /\ first => FirstRows(f, n + 1, a) = FirstRows(f, n, a) \cup {n + 1}
               /\ ~first => FirstRows(f, n + 1, a) = FirstRows(f, n, a)
  <1>. DEFINE old == DepositRows(f, n, a)
              new == DepositRows(f, n + 1, a)
              repeated == \E i \in old : f[i].tx = f[n + 1].tx
  <1>1. \A i \in old : i \in Nat /\ i <= n
    BY DEF DepositRows
  <1>2. new = old \cup (IF Counts(f, n + 1, a) THEN {n + 1} ELSE {})
    BY DepositRowsAfter
  <1>. HIDE DEF old, new
  <1>3. \A i \in old : ~(n + 1 <= i) /\ i <= n + 1
    BY <1>1
  <1>4. ASSUME NEW i
        PROVE  (i \in new /\ \A j \in new : f[j].tx = f[i].tx => i <= j)
                  <=> \/ i \in old /\ \A j \in old : f[j].tx = f[i].tx => i <= j
                      \/ Counts(f, n + 1, a) /\ ~repeated /\ i = n + 1
    BY <1>2, <1>3
  <1>5. /\ FirstRows(f, n + 1, a) = {i \in new : \A j \in new : f[j].tx = f[i].tx => i <= j}
        /\ FirstRows(f, n, a) = {i \in old : \A j \in old : f[j].tx = f[i].tx => i <= j}
    BY DEF FirstRows, old, new
  <1>6. CASE Counts(f, n + 1, a) /\ ~repeated
    <2>1. FirstRows(f, n + 1, a) = FirstRows(f, n, a) \cup {n + 1}
      BY <1>4, <1>5, <1>6
    <2>. QED
      BY <1>6, <2>1 DEF old
  <1>7. CASE ~(Counts(f, n + 1, a) /\ ~repeated)
    <2>1. FirstRows(f, n + 1, a) = FirstRows(f, n, a)
      BY <1>4, <1>5, <1>7
    <2>. QED
      BY <1>7, <2>1 DEF old
  <1>. QED
    BY <1>6, <1>7

\* A row that is no deposit, or does not parse, changes nothing.
LEMMA BookedSkip ==
    ASSUME NEW lg, NEW f, NEW n \in Nat, Booked(lg, f, n),
           ~(f[n + 1].typ = "deposit" /\ IsReadable(f[n + 1]))
    PROVE  Booked(lg, f, n + 1)
  <1>1. \A a : ~Counts(f, n + 1, a)
    BY DEF Counts
  <1>2. \A a : DepositRows(f, n + 1, a) = DepositRows(f, n, a)
    BY <1>1, DepositRowsAfter
  <1>3. \A a : FirstRows(f, n + 1, a) = FirstRows(f, n, a)
    BY <1>2 DEF FirstRows
  <1>. QED
    BY <1>2, <1>3 DEF Booked

\* A deposit that is refused as a duplicate repeats one of the file.
LEMMA BookedDuplicate ==
    ASSUME NEW lg, NEW f, NEW n \in Nat, Booked(lg, f, n),
           NEW b \in Id, Counts(f, n + 1, b), f[n + 1].tx \in UserRef,
           Found(lg, MainOf(b), f[n + 1].tx) # {}
    PROVE  Booked(lg, f, n + 1)
  <1>1. \E i \in DepositRows(f, n, b) : f[i].tx = f[n + 1].tx
    BY DEF Booked
  <1>2. \A a : a # b => ~Counts(f, n + 1, a)
    BY DEF Counts
  <1>3. \A a : FirstRows(f, n + 1, a) = FirstRows(f, n, a)
    <2>. SUFFICES ASSUME NEW a
                  PROVE  FirstRows(f, n + 1, a) = FirstRows(f, n, a)
      OBVIOUS
    <2>1. ~(Counts(f, n + 1, a) /\ ~\E i \in DepositRows(f, n, a) : f[i].tx = f[n + 1].tx)
      BY <1>1, <1>2
    <2>. QED
      BY <2>1, FirstRowsAfter
  <1>4. \A a, r : (\E i \in DepositRows(f, n + 1, a) : f[i].tx = r)
                      <=> \E i \in DepositRows(f, n, a) : f[i].tx = r
    BY <1>1, <1>2, DepositRowsAfter
  <1>. QED
    BY <1>3, <1>4 DEF Booked

\* A deposit that is stored is one of the first.
LEMMA BookedDeposit ==
    ASSUME NEW lg, NEW f \in Files, NEW n \in Nat, n + 1 \in DOMAIN f, Booked(lg, f, n),
           NEW b \in Id, Counts(f, n + 1, b), Found(lg, MainOf(b), f[n + 1].tx) = {},
           NEW m \in Converted(f[n + 1]), NEW tx, DepositTx(tx, b, f[n + 1].tx, m),
           NEW o, Commits(lg, tx, o)
    PROVE  Booked(Append(lg, tx), f, n + 1)
  <1>. DEFINE new == Append(lg, tx)
              r == f[n + 1].tx
              value(i) == CHOOSE x \in Converted(f[i]) : TRUE
  <1>1. lg \in Seq(Transaction) /\ tx \in Transaction
    BY DEF Commits
  <1>2. m \in Int /\ m = value(n + 1) /\ r \in UserRef
    BY RowAmount DEF CsvEntry
  <1>3. tx.from = <<>> /\ tx.to = <<To(MainOf(b), m)>> /\ tx.reference = r
    BY DEF DepositTx
  <1>4. o = b
    <2>1. 1 \in DOMAIN tx.to /\ tx.to[1].account = MainOf(b)
      BY <1>3 DEF To
    <2>. QED
      BY <2>1, Owners DEF Commits
  <1>5. IsDeposit(tx) /\ Total(tx.to) = m
    BY <1>2, <1>3, TotalOfOne DEF IsDeposit
  <1>6. f \in Seq(CsvEntry) /\ Len(f) \in Nat /\ DOMAIN f = 1..Len(f)
    BY FilesAreRows
  <1>7. n \in 0..Len(f) /\ n + 1 \in 0..Len(f)
    BY <1>6
  <1>8. ~\E i \in DepositRows(f, n, b) : f[i].tx = r
    BY <1>2 DEF Booked
  <1>. HIDE DEF value
  <1>9. ASSUME NEW a \in Id
        PROVE  SumAt(new, Deposits(new, a)) = SumOf(f, FirstRows(f, n + 1, a))
    <2>. DEFINE sum == SumAt(lg, Deposits(lg, a))
                rows == FirstRows(f, n, a)
    <2>1. sum \in Int /\ SumAt(new, Deposits(new, a)) = sum + (IF a = b THEN m ELSE 0)
      BY <1>4, <1>5, DepositedAfter
    <2>2. sum = SumOf(f, rows)
      BY DEF Booked
    <2>3. CASE a # b
      <3>1. ~Counts(f, n + 1, a)
        BY <2>3 DEF Counts
      <3>2. FirstRows(f, n + 1, a) = rows
        BY <3>1, FirstRowsAfter
      <3>. HIDE DEF sum, rows
      <3>. QED
        BY <2>1, <2>2, <2>3, <3>2
    <2>4. CASE a = b
      <3>1. FirstRows(f, n + 1, a) = rows \cup {n + 1}
        BY <1>8, <2>4, FirstRowsAfter
      <3>2. Summable(f, rows \cup {n + 1})
        <4>1. FirstRows(f, n + 1, a) \in SUBSET DepositRows(f, n + 1, a)
          BY DEF FirstRows
        <4>. QED
          BY <1>7, <3>1, <4>1, RowsAreSummable
      <3>3. n + 1 \notin rows
        BY DEF FirstRows, DepositRows
      <3>. HIDE DEF sum, rows
      <3>4. SumOf(f, rows \cup {n + 1}) = SumOf(f, rows) + value(n + 1)
        BY <3>2, <3>3, SumOfMoreRows DEF value
      <3>. QED
        BY <1>2, <2>1, <2>2, <2>4, <3>1, <3>4
    <2>. QED
      BY <2>3, <2>4
  <1>10. ASSUME NEW a \in Id, NEW s \in UserRef
         PROVE  Found(new, MainOf(a), s) # {} <=> \E i \in DepositRows(f, n + 1, a) : f[i].tx = s
    <2>1. Found(new, MainOf(a), s) # {} <=> Found(lg, MainOf(a), s) # {} \/ (a = b /\ s = r)
      <3>1. (\E k \in DOMAIN tx.to : tx.to[k].account = MainOf(a)) <=> a = b
        BY <1>3 DEF To, MainOf
      <3>2. \A i : i \in Found(new, MainOf(a), s) <=>
                      \/ i \in Found(lg, MainOf(a), s)
                      \/ i = Len(lg) + 1 /\ r = s /\ a = b
        BY <1>1, <1>3, <3>1, BookAfter
      <3>. QED
        BY <3>2
    <2>2. Found(lg, MainOf(a), s) # {} <=> \E i \in DepositRows(f, n, a) : f[i].tx = s
      BY DEF Booked
    <2>3. (\E i \in DepositRows(f, n + 1, a) : f[i].tx = s)
             <=> (\E i \in DepositRows(f, n, a) : f[i].tx = s) \/ (a = b /\ s = r)
      <3>1. Counts(f, n + 1, a) <=> a = b
        BY DEF Counts
      <3>. QED
        BY <3>1, DepositRowsAfter
    <2>. QED
      BY <2>1, <2>2, <2>3
  <1>. QED
    BY <1>9, <1>10 DEF Booked

\* What is stored for any other row deposits nothing.
LEMMA BookedOther ==
    ASSUME NEW lg, NEW f, NEW n, Booked(lg, f, n), NEW row,
           NEW tx, NEW o, Commits(lg, tx, o), NoDeposit(lg, row, tx)
    PROVE  Booked(Append(lg, tx), f, n)
  <1>. DEFINE new == Append(lg, tx)
  <1>1. lg \in Seq(Transaction) /\ tx \in Transaction
    BY DEF Commits
  <1>2. ASSUME NEW a \in Id
        PROVE  SumAt(new, Deposits(new, a)) = SumAt(lg, Deposits(lg, a))
    <2>1. IsDeposit(tx) => Total(tx.to) = 0
      BY DEF NoDeposit, IsDeposit
    <2>. DEFINE sum == SumAt(lg, Deposits(lg, a))
    <2>2. sum \in Int /\ SumAt(new, Deposits(new, a))
                            = sum + (IF a = o /\ IsDeposit(tx) THEN Total(tx.to) ELSE 0)
      BY DepositedAfter
    <2>. HIDE DEF sum
    <2>3. SumAt(new, Deposits(new, a)) = sum
      BY <2>1, <2>2
    <2>. QED
      BY <2>3 DEF sum
  <1>3. ASSUME NEW a \in Id, NEW s \in UserRef
        PROVE  Found(new, MainOf(a), s) = Found(lg, MainOf(a), s)
    <2>1. ~(tx.reference = s /\ \E k \in DOMAIN tx.to : tx.to[k].account = MainOf(a))
      BY DEF NoDeposit
    <2>2. \A i : i \in Found(new, MainOf(a), s) <=> i \in Found(lg, MainOf(a), s)
      BY <1>1, <2>1, BookAfter
    <2>. QED
      BY <2>2
  <1>. QED
    BY <1>2, <1>3 DEF Booked

-----------------------------------------------------------------------------
(* The invariant of the program.                                            *)

ProgramInv == LedgerInv /\ Control /\ Explained /\ Booked(log, file, Handled)

\* The call made for the row that follows the first n is in the state it is
\* after a step, which may have been its last.
Advances(row, n) ==
    \E state : /\ call' = [call EXCEPT ![Caller] = state]
               /\ Explains(log', row, state)
               /\ Booked(log', file, IF state.at = "idle" THEN n + 1 ELSE n)

\* A step that stores nothing leaves the row booked as it was.
LEMMA AdvanceByReading ==
    ASSUME NEW n \in Nat, NEW row, row = file[n + 1], ExplainsStep(Caller, row), Booked(log, file, n)
    PROVE  Advances(row, n)
  <1>1. PICK state : /\ call' = [call EXCEPT ![Caller] = state] /\ UNCHANGED log
                     /\ Explains(log, row, state)
                     /\ row.typ = "deposit" => state.at = "store"
    BY DEF ExplainsStep
  <1>2. state.at = "idle" => Booked(log, file, n + 1)
    BY <1>1, BookedSkip
  <1>. QED
    BY <1>1, <1>2 DEF Advances

\* An account keeps the outputs it ever had.
LEMMA OwnedStays ==
    ASSUME NEW lg \in Seq(Transaction), NEW tx \in Transaction, NEW a, Owned(lg, a) # {}
    PROVE  Owned(Append(lg, tx), a) # {}
  <1>1. PICK p \in Places(lg) : Owner(OutputAt(lg, p).account) = a
    BY DEF Owned
  <1>2. p \in Places(Append(lg, tx)) /\ OutputAt(Append(lg, tx), p) = OutputAt(lg, p)
    BY AppendKeepsPlaces
  <1>. QED
    BY <1>1, <1>2 DEF Owned

\* What the call has for its row when it is about to store.
LEMMA AboutToStore ==
    ASSUME LedgerInv, Control, Explained, at = "call", call[Caller].at = "store"
    PROVE  LET todo == call[Caller].todo
               row == file[line - 1]
           IN  /\ log \in Seq(Transaction) /\ call \in [Client -> CallState] /\ Caller \in Client
               /\ todo \in Seq(Transaction) /\ todo # <<>> /\ Head(todo) = todo[1]
               /\ line - 1 \in DOMAIN file /\ line - 2 \in Nat /\ (line - 2) + 1 = line - 1
               /\ row.client \in Id /\ row.tx \in UserRef
               /\ IsReadable(row) /\ Ready(todo)
               /\ IF row.typ = "deposit" THEN DepositTodo(row, todo)
                  ELSE \A k \in DOMAIN todo : NoDeposit(log, row, todo[k])
               /\ WithdrawsNegative(row) => Owned(log, row.client) # {} \/ todo[1].to # <<>>
  <1>. DEFINE todo == call[Caller].todo
              row == file[line - 1]
  <1>1. log \in Seq(Transaction) /\ call \in [Client -> CallState] /\ Caller \in Client
    BY OnlyCaller DEF LedgerInv, Inv, TypeOK, CallState
  <1>2. todo \in Seq(Transaction) /\ todo # <<>>
    BY <1>1 DEF CallState, Storing, Idle, Selecting
  <1>3. Head(todo) = todo[1]
    BY <1>2
  <1>4. file \in Files /\ file \in Seq(CsvEntry) /\ Len(file) \in Nat /\ DOMAIN file = 1..Len(file)
    BY FilesAreRows DEF Control
  <1>5. line - 1 \in DOMAIN file /\ line - 2 \in Nat /\ (line - 2) + 1 = line - 1
    BY <1>4 DEF Control
  <1>6. row.client \in Id /\ row.tx \in UserRef
    <2>1. row \in CsvEntry
      BY <1>4, <1>5
    <2>. QED
      BY <2>1 DEF CsvEntry
  <1>7. /\ IsReadable(row)
        /\ IF row.typ = "deposit" THEN DepositTodo(row, todo)
           ELSE \A k \in DOMAIN todo : NoDeposit(log, row, todo[k])
        /\ WithdrawsNegative(row) => Owned(log, row.client) # {} \/ todo[1].to # <<>>
    BY DEF Explained, Explains
  <1>8. Ready(todo)
    BY <1>1 DEF LedgerInv, AloneInv, AloneState
  <1>. QED
    BY <1>1, <1>2, <1>3, <1>5, <1>6, <1>7, <1>8

\* A refused transaction ends the call: the only refused deposits are repeated.
LEMMA AdvanceByRefusal ==
    ASSUME ProgramInv, at = "call", Store(Caller), Verdict(log, Head(call[Caller].todo)) # "Ok"
    PROVE  Advances(file[line - 1], line - 2)
  <1>. DEFINE todo == call[Caller].todo
              row == file[line - 1]
              n == line - 2
              outcome == Verdict(log, Head(todo))
              state == [at |-> "idle", outcome |-> outcome]
  <1>1. call[Caller].at = "store"
    BY DEF Store
  <1>2. /\ Caller \in Client /\ Head(todo) = todo[1]
        /\ n \in Nat /\ n + 1 = line - 1
        /\ row.client \in Id /\ row.tx \in UserRef
        /\ IsReadable(row) /\ Ready(todo) /\ todo \in Seq(Transaction) /\ todo # <<>>
        /\ IF row.typ = "deposit" THEN DepositTodo(row, todo)
           ELSE \A k \in DOMAIN todo : NoDeposit(log, row, todo[k])
    BY <1>1, AboutToStore DEF ProgramInv
  <1>3. Booked(log, file, n)
    BY DEF ProgramInv, Handled
  <1>4. outcome = "Duplicate"
    BY <1>1, <1>2, ReadyVerdict DEF ProgramInv, LedgerInv
  <1>5. UNCHANGED log /\ call' = [call EXCEPT ![Caller] = state]
    BY DEF Store, Return
  <1>6. /\ state.at = "idle" /\ state.outcome = "Duplicate"
        /\ state.at # "select" /\ state.at # "store"
    BY <1>4
  <1>. HIDE DEF state, outcome
  <1>10. PICK k \in DOMAIN todo[1].to : Found(log, todo[1].to[k].account, todo[1].reference) # {}
    <2>1. IsDuplicate(log, todo[1])
      <3>1. Verdict(log, todo[1]) = "Duplicate"
        BY <1>2, <1>4 DEF outcome
      <3>. HIDE DEF todo
      <3>. QED
        BY <3>1, InputVerdictType DEF Verdict
    <2>2. \A i \in DOMAIN log : log[i].id # todo[1].id
      BY <1>2 DEF Ready
    <2>. QED
      BY <2>1, <2>2 DEF IsDuplicate
  <1>7. Explains(log, row, state)
    <2>1. ASSUME WithdrawsNegative(row)
          PROVE  Owned(log, row.client) # {}
      <3>1. NoDeposit(log, row, todo[1])
        BY <1>2, <2>1 DEF WithdrawsNegative
      <3>2. Owner(todo[1].to[k].account) = row.client
        BY <3>1 DEF NoDeposit
      <3>. HIDE DEF todo, row
      <3>. QED
        BY <1>10, <3>2, FoundIsOwned
    <2>. QED
      BY <1>6, <2>1 DEF Explains
  <1>8. ASSUME row.typ = "deposit"
        PROVE  Found(log, MainOf(row.client), row.tx) # {}
    <2>1. PICK h \in HashId, m \in Converted(row) :
             todo = <<Tx(h, <<>>, <<To(MainOf(row.client), m)>>, row.tx)>>
      BY <1>2, <1>8 DEF DepositTodo
    <2>2. todo[1].to = <<To(MainOf(row.client), m)>> /\ todo[1].reference = row.tx
      BY <2>1 DEF Tx
    <2>. QED
      BY <1>10, <2>2 DEF To
  <1>9. Booked(log, file, n + 1)
    <2>1. CASE row.typ = "deposit"
      <3>1. Counts(file, n + 1, row.client)
        BY <1>2, <2>1 DEF Counts
      <3>. QED
        BY <1>2, <1>3, <1>8, <2>1, <3>1, BookedDuplicate
    <2>2. CASE row.typ # "deposit"
      BY <1>2, <1>3, <2>2, BookedSkip
    <2>. QED
      BY <2>1, <2>2
  <1>. QED
    BY <1>5, <1>6, <1>7, <1>9 DEF Advances

\* A transaction that is stored is the deposit of the row, or deposits nothing.
LEMMA AdvanceByStoring ==
    ASSUME ProgramInv, at = "call", Store(Caller), Verdict(log, Head(call[Caller].todo)) = "Ok"
    PROVE  Advances(file[line - 1], line - 2)
  <1>. DEFINE todo == call[Caller].todo
              tx == Head(todo)
              rest == Tail(todo)
              row == file[line - 1]
              n == line - 2
              ended == [at |-> "idle", outcome |-> "Ok"]
              going == [call[Caller] EXCEPT !.todo = rest]
  <1>1. call[Caller].at = "store"
    BY DEF Store
  <1>2. /\ log \in Seq(Transaction) /\ call \in [Client -> CallState] /\ Caller \in Client
        /\ todo \in Seq(Transaction) /\ todo # <<>> /\ tx = todo[1]
        /\ n \in Nat /\ n + 1 = line - 1 /\ n + 1 \in DOMAIN file
        /\ row.client \in Id /\ row.tx \in UserRef
        /\ IsReadable(row)
        /\ IF row.typ = "deposit" THEN DepositTodo(row, todo)
           ELSE \A k \in DOMAIN todo : NoDeposit(log, row, todo[k])
        /\ WithdrawsNegative(row) => Owned(log, row.client) # {} \/ todo[1].to # <<>>
    BY <1>1, AboutToStore DEF ProgramInv
  <1>3. Booked(log, file, n)
    BY DEF ProgramInv, Handled
  <1>4. PICK o \in Id : Commits(log, tx, o)
    BY <1>1, <1>2, AcceptedCommits DEF ProgramInv, LedgerInv
  <1>5. tx \in Transaction /\ 1 \in DOMAIN todo
    BY <1>2
  <1>6. log' = Append(log, tx)
    BY DEF Store
  <1>7. /\ rest = <<>> => call' = [call EXCEPT ![Caller] = ended]
        /\ rest # <<>> => call' = [call EXCEPT ![Caller].todo = rest]
    BY DEF Store, Return
  <1>11. WithdrawsNegative(row) => Owned(log', row.client) # {}
    <2>. SUFFICES ASSUME WithdrawsNegative(row)
                  PROVE  Owned(log', row.client) # {}
      OBVIOUS
    <2>1. NoDeposit(log, row, tx)
      BY <1>2, <1>5 DEF WithdrawsNegative
    <2>2. CASE Owned(log, row.client) # {}
      BY <1>2, <1>5, <1>6, <2>2, OwnedStays
    <2>3. CASE tx.to # <<>>
      <3>1. 1 \in DOMAIN tx.to
        BY <1>5, <2>3 DEF Transaction
      <3>2. Owner(tx.to[1].account) = row.client
        BY <2>1, <3>1 DEF NoDeposit
      <3>. HIDE DEF tx, row
      <3>3. /\ <<Len(log) + 1, 1>> \in Places(log')
            /\ OutputAt(log', <<Len(log) + 1, 1>>) = tx.to[1]
        BY <1>2, <1>5, <1>6, <3>1, AppendAddsPlaces
      <3>. QED
        BY <3>2, <3>3 DEF Owned
    <2>. QED
      BY <1>2, <2>2, <2>3
  <1>8. Explains(log', row, ended)
    BY <1>11 DEF Explains
  <1>9. CASE row.typ = "deposit"
    <2>1. PICK h \in HashId, m \in Converted(row) :
             todo = <<Tx(h, <<>>, <<To(MainOf(row.client), m)>>, row.tx)>>
      BY <1>2, <1>9 DEF DepositTodo
    <2>2. DepositTx(tx, row.client, row.tx, m) /\ rest = <<>>
      BY <2>1 DEF DepositTx, Tx
    <2>3. Found(log, MainOf(row.client), row.tx) = {}
      <3>1. 1 \in DOMAIN tx.to /\ tx.to[1].account = MainOf(row.client) /\ tx.reference = row.tx
        BY <2>2 DEF DepositTx, To
      <3>2. \A k \in DOMAIN tx.to : Found(log, tx.to[k].account, tx.reference) = {}
        BY <1>5, Accepted
      <3>. QED
        BY <3>1, <3>2
    <2>4. Counts(file, n + 1, row.client) /\ file \in Files
      BY <1>2, <1>9 DEF Counts, ProgramInv, Control
    <2>. HIDE DEF todo, tx, rest
    <2>5. Booked(log', file, n + 1)
      BY <1>2, <1>3, <1>4, <1>6, <2>2, <2>3, <2>4, BookedDeposit
    <2>. QED
      BY <1>7, <1>8, <2>2, <2>5 DEF Advances
  <1>10. CASE row.typ # "deposit"
    <2>1. \A k \in DOMAIN todo : NoDeposit(log, row, todo[k])
      BY <1>2, <1>10
    <2>2. Booked(log', file, n)
      BY <1>2, <1>3, <1>4, <1>5, <1>6, <2>1, BookedOther
    <2>3. CASE rest = <<>>
      <3>1. Booked(log', file, n + 1)
        BY <1>2, <1>10, <2>2, BookedSkip
      <3>. QED
        BY <1>7, <1>8, <2>3, <3>1 DEF Advances
    <2>4. CASE rest # <<>>
      <3>1. call[Caller] \in Storing
        BY <1>1, <1>2 DEF CallState, Idle, Selecting
      <3>2. /\ going.at = "store" /\ going.todo = rest
            /\ going.at # "idle" /\ going.at # "select"
        BY <3>1, <1>1 DEF Storing
      <3>3. call' = [call EXCEPT ![Caller] = going]
        BY <1>7, <2>4
      <3>4. ASSUME NEW k \in DOMAIN rest
            PROVE  NoDeposit(log', row, rest[k])
        <4>1. k + 1 \in DOMAIN todo /\ rest[k] = todo[k + 1]
          BY <1>2
        <4>2. NoDeposit(log, row, rest[k])
          BY <2>1, <4>1
        <4>3. Owned(log, row.client) # {} => Owned(log', row.client) # {}
          BY <1>2, <1>5, <1>6, OwnedStays
        <4>. QED
          BY <4>2, <4>3 DEF NoDeposit
      <3>. HIDE DEF going
      <3>5. Explains(log', row, going)
        BY <1>10, <1>11, <3>2, <3>4 DEF Explains
      <3>. QED
        BY <2>2, <3>2, <3>3, <3>5 DEF Advances
    <2>. QED
      BY <2>3, <2>4
  <1>. QED
    BY <1>9, <1>10

\* A step of the call in progress.
LEMMA AwaitAdvances ==
    ASSUME ProgramInv, AwaitLedger
    PROVE  Advances(file[line - 1], line - 2)
  <1>1. at = "call" /\ Continue(Caller)
    BY DEF AwaitLedger
  <1>2. CASE Store(Caller)
    BY <1>1, <1>2, AdvanceByRefusal, AdvanceByStoring
  <1>3. CASE Select(Caller)
    <2>1. TypeOK /\ Caller \in Client /\ Explains(log, file[line - 1], call[Caller])
      BY <1>1, OnlyCaller DEF ProgramInv, LedgerInv, Inv, Explained
    <2>2. ExplainsStep(Caller, file[line - 1])
      BY <1>3, <2>1, ExplainSelect
    <2>3. Booked(log, file, line - 2)
      BY <1>1 DEF ProgramInv, Handled
    <2>4. line - 2 \in Nat /\ (line - 2) + 1 = line - 1
      <3>1. line > 1 /\ line \in 1..(Len(file) + 1) /\ Len(file) \in Nat
        BY <1>1, FilesAreRows DEF ProgramInv, Control
      <3>. QED
        BY <3>1
    <2>. QED
      BY <2>2, <2>3, <2>4, AdvanceByReading
  <1>. QED
    BY <1>1, <1>2, <1>3 DEF Continue

\* The call that begins.
LEMMA CallAdvances ==
    ASSUME ProgramInv, CallLedger
    PROVE  IsReadable(Row) /\ Advances(Row, line - 1)
  <1>1. TypeOK /\ Control /\ Booked(log, file, line - 1)
    BY DEF ProgramInv, LedgerInv, Inv, Handled, CallLedger
  <1>2. IsReadable(Row) /\ ExplainsStep(Caller, Row)
    BY <1>1, CallExplains
  <1>3. line - 1 \in Nat /\ (line - 1) + 1 = line
    BY <1>1, FilesAreRows DEF Control
  <1>. QED
    BY <1>1, <1>2, <1>3, AdvanceByReading DEF Row

\* The program follows its call.
LEMMA FollowCall ==
    ASSUME ProgramInv, UNCHANGED <<file, output>>, output = <<>>, at' = After,
           NEW n \in Nat, line' = n + 2, n + 1 \in DOMAIN file, Advances(file[n + 1], n),
           IsReadable(file[n + 1])
    PROVE  Control' /\ Explained' /\ Booked(log, file, Handled)'
  <1>. DEFINE row == file[n + 1]
  <1>1. PICK state : /\ call' = [call EXCEPT ![Caller] = state]
                     /\ Explains(log', row, state)
                     /\ Booked(log', file, IF state.at = "idle" THEN n + 1 ELSE n)
    BY DEF Advances
  <1>2. call'[Caller] = state
    BY <1>1, OnlyCaller DEF ProgramInv, LedgerInv, Inv, TypeOK
  <1>3. IF state.at = "idle"
        THEN at' = IF state.outcome = "Panic" THEN "panicked" ELSE "rows"
        ELSE at' = "call"
    BY <1>2 DEF After
  <1>4. /\ state.at = "idle" => state.outcome # "Dropped"
        /\ at' = "panicked" => Uncovered(log', row)
    BY <1>1, <1>3 DEF Explains
  <1>5. file \in Files /\ file \in Seq(CsvEntry) /\ Len(file) \in Nat /\ DOMAIN file = 1..Len(file)
    BY FilesAreRows DEF ProgramInv, Control
  <1>6. line' - 1 = n + 1 /\ line' - 2 = n /\ line' > 1 /\ line' \in 1..(Len(file) + 1)
    BY <1>5
  <1>7. Control'
    <2>1. (at = "call" <=> ~IsIdle(Caller))'
      BY <1>2, <1>3 DEF IsIdle
    <2>2. ~Gone(Caller)'
      BY <1>2, <1>4 DEF Gone
    <2>3. at' \in {"rows", "call", "panicked"}
      BY <1>3
    <2>. QED
      BY <1>5, <1>6, <2>1, <2>2, <2>3 DEF Control
  <1>8. Explained'
    <2>1. row = file'[line' - 1]
      BY <1>6
    <2>. HIDE DEF row
    <2>2. at' = "call" => IsReadable(row) /\ Explains(log', row, call'[Caller])
      BY <1>1, <1>2 DEF row
    <2>3. at' = "panicked" => Uncovered(log', row)
      BY <1>4
    <2>. QED
      BY <2>1, <2>2, <2>3 DEF Explained
  <1>9. Booked(log, file, Handled)'
    <2>1. Handled' = IF state.at = "idle" THEN n + 1 ELSE n
      BY <1>3, <1>6 DEF Handled
    <2>2. Booked(log', file', Handled')
      BY <1>1, <2>1
    <2>. QED
      BY <2>2
  <1>. QED
    BY <1>7, <1>8, <1>9

LEMMA InitProgramInv == ProgramInit => ProgramInv
  <1>. SUFFICES ASSUME ProgramInit PROVE ProgramInv
    OBVIOUS
  <1>1. /\ file \in Files /\ line = 1 /\ at = "rows" /\ output = <<>> /\ log = <<>>
        /\ call = [c \in Client |-> [at |-> "idle", outcome |-> "None"]]
    BY DEF ProgramInit, ReadInit, Init
  <1>2. LedgerInv
    BY InitLedgerInv
  <1>3. call[Caller] = [at |-> "idle", outcome |-> "None"]
    BY <1>1, OnlyCaller
  <1>4. Control
    <2>1. IsIdle(Caller) /\ ~Gone(Caller)
      BY <1>3 DEF IsIdle, Gone
    <2>2. Len(file) \in Nat
      BY <1>1, FilesAreRows
    <2>. QED
      BY <1>1, <2>1, <2>2 DEF Control
  <1>5. Explained
    BY <1>1 DEF Explained
  <1>6. Booked(log, file, 0)
    <2>1. log \in Seq(Transaction) /\ Places(log) = {}
      BY <1>1 DEF Places
    <2>2. \A a : Deposits(log, a) = {} /\ Deposits(log, a) \in SUBSET Places(log)
      BY <2>1 DEF Deposits, Owned
    <2>3. \A a : DepositRows(file, 0, a) = {} /\ FirstRows(file, 0, a) = {}
      BY DEF DepositRows, FirstRows
    <2>4. SumAt(log, {}) = 0
      BY <2>1, SumAtType
    <2>5. \A a, r : Found(log, MainOf(a), r) = {}
      BY <1>1 DEF Found
    <2>. QED
      BY <2>2, <2>3, <2>4, <2>5, SumOfNoRows DEF Booked
  <1>7. Handled = 0
    BY <1>1 DEF Handled
  <1>. QED
    BY <1>2, <1>4, <1>5, <1>6, <1>7 DEF ProgramInv

\* A row without a call.
LEMMA PassRow ==
    ASSUME ProgramInv, SkipRow \/ MissingAmount
    PROVE  Control' /\ Explained' /\ Booked(log, file, Handled)'
  <1>1. /\ at = "rows" /\ line <= Len(file) /\ line' = line + 1
        /\ UNCHANGED <<log, call, file, output>>
        /\ ~IsReadable(Row)
        /\ at' = "rows" \/ (at' = "panicked" /\ LacksAmount(Row))
    BY DEF SkipRow, MissingAmount, IsReadable
  <1>2. Control /\ Booked(log, file, line - 1)
    BY <1>1 DEF ProgramInv, Handled
  <1>3. line \in Nat /\ line \in DOMAIN file /\ Len(file) \in Nat
    BY <1>1, <1>2, RowIsEntry
  <1>4. line' - 1 = line /\ line - 1 \in Nat /\ (line - 1) + 1 = line
        /\ line' > 1 /\ line' \in 1..(Len(file) + 1)
    BY <1>1, <1>2, <1>3 DEF Control
  <1>5. Control'
    <2>1. IsIdle(Caller)' = IsIdle(Caller) /\ Gone(Caller)' = Gone(Caller)
      BY <1>1 DEF IsIdle, Gone
    <2>. QED
      BY <1>1, <1>2, <1>4, <2>1 DEF Control
  <1>6. Explained'
    BY <1>1, <1>4 DEF Explained, Row
  <1>7. Booked(log, file, line)
    <2>1. ~IsReadable(file[line])
      BY <1>1 DEF Row
    <2>. QED
      BY <1>2, <1>4, <2>1, BookedSkip
  <1>8. Handled' = line
    BY <1>1, <1>4 DEF Handled
  <1>. QED
    BY <1>1, <1>5, <1>6, <1>7, <1>8

\* The ledger rests while the program reports, and when it is over.
LEMMA LedgerRests ==
    ASSUME ProgramInv, UNCHANGED <<log, call, file, line>>,
           \/ UNCHANGED <<at, output>>
           \/ at \in {"rows", "report", "balances"} /\ at' \in {"report", "balances", "done"}
    PROVE  Control' /\ Explained' /\ Booked(log, file, Handled)'
  <1>1. IsIdle(Caller)' = IsIdle(Caller) /\ Gone(Caller)' = Gone(Caller)
    BY DEF IsIdle, Gone
  <1>2. Control'
    BY <1>1 DEF ProgramInv, Control
  <1>3. Explained'
    <2>1. CASE UNCHANGED <<at, output>>
      <3>1. at = "call" => IsReadable(file[line - 1]) /\ Explains(log, file[line - 1], call[Caller])
        BY DEF ProgramInv, Explained
      <3>2. at = "panicked" => LacksAmount(file[line - 1]) \/ Uncovered(log, file[line - 1])
        BY DEF ProgramInv, Explained
      <3>. QED
        BY <2>1, <3>1, <3>2 DEF Explained
    <2>2. CASE at' \in {"report", "balances", "done"}
      BY <2>2 DEF Explained
    <2>. QED
      BY <2>1, <2>2
  <1>4. Handled' = Handled
    BY DEF Handled
  <1>. QED
    BY <1>2, <1>3, <1>4 DEF ProgramInv

LEMMA NextProgramInv == ProgramInv /\ [ProgramNext]_programVars => ProgramInv'
  <1>. SUFFICES ASSUME ProgramInv, [ProgramNext]_programVars
                PROVE  ProgramInv'
    OBVIOUS
  <1>1. LedgerInv'
    BY NextLedgerInv DEF ProgramInv
  <1>2. Control /\ Len(file) \in Nat /\ line \in Nat /\ line >= 1 /\ line <= Len(file) + 1
    BY FilesAreRows DEF ProgramInv, Control
  <1>3. CASE CallLedger
    <2>1. /\ at = "rows" /\ line <= Len(file) /\ line' = line + 1 /\ at' = After
          /\ UNCHANGED <<file, output>>
      BY <1>3 DEF CallLedger
    <2>2. output = <<>> /\ line \in DOMAIN file
      BY <1>2, <2>1, RowIsEntry DEF Control
    <2>3. line - 1 \in Nat /\ (line - 1) + 1 = line /\ line' = (line - 1) + 2
      BY <1>2, <2>1
    <2>4. IsReadable(file[line]) /\ Advances(file[line], line - 1)
      BY <1>3, CallAdvances DEF Row
    <2>5. Control' /\ Explained' /\ Booked(log, file, Handled)'
      BY <2>1, <2>2, <2>3, <2>4, FollowCall
    <2>. QED
      BY <1>1, <2>5 DEF ProgramInv
  <1>4. CASE AwaitLedger
    <2>1. at = "call" /\ line' = line /\ at' = After /\ UNCHANGED <<file, output>>
      BY <1>4 DEF AwaitLedger
    <2>2. output = <<>> /\ line > 1
      BY <1>2, <2>1 DEF Control
    <2>3. /\ line - 2 \in Nat /\ (line - 2) + 1 = line - 1 /\ line' = (line - 2) + 2
          /\ (line - 2) + 1 \in DOMAIN file
      <3>1. DOMAIN file = 1..Len(file)
        BY FilesAreRows DEF ProgramInv, Control
      <3>. QED
        BY <1>2, <2>1, <2>2, <3>1
    <2>4. Advances(file[line - 1], line - 2)
      BY <1>4, AwaitAdvances
    <2>5. IsReadable(file[line - 1])
      BY <2>1 DEF ProgramInv, Explained
    <2>6. Control' /\ Explained' /\ Booked(log, file, Handled)'
      BY <2>1, <2>2, <2>3, <2>4, <2>5, FollowCall
    <2>. QED
      BY <1>1, <2>6 DEF ProgramInv
  <1>5. CASE SkipRow \/ MissingAmount
    BY <1>1, <1>5, PassRow DEF ProgramInv
  <1>6. CASE \/ EndOfFile \/ NextAccount \/ ReadNextBalance \/ WriteRecord \/ Finish
             \/ Ended \/ UNCHANGED programVars
    <2>1. /\ UNCHANGED <<log, call, file, line>>
          /\ \/ UNCHANGED <<at, output>>
             \/ at \in {"rows", "report", "balances"} /\ at' \in {"report", "balances", "done"}
      BY <1>6 DEF EndOfFile, NextAccount, ReadNextBalance, WriteRecord, Finish, Ended, programVars
    <2>. QED
      BY <1>1, <2>1, LedgerRests DEF ProgramInv
  <1>. QED
    BY <1>3, <1>4, <1>5, <1>6 DEF ProgramNext, Step

LEMMA ProgramHolds == ProgramSpec => []ProgramInv
  BY InitProgramInv, NextProgramInv, PTL DEF ProgramSpec

-----------------------------------------------------------------------------
(* What the run checks of the rows.                                         *)

\* The rows that count are the first of each number.
LEMMA CountedRows ==
    ASSUME NEW a
    PROVE  Counted(a) = FirstRows(file, line - 1, a)
  BY DEF Counted, FirstRows, DepositRows, IsReadable

\* Each deposit of the file is booked once, in its account and with its amount,
\* and nothing else is: whatever rows come between, fail or are refused.
THEOREM FileIsBookedHolds == ProgramSpec => []FileIsBooked
  <1>1. ProgramInv => FileIsBooked
    <2>. SUFFICES ASSUME ProgramInv, at # "call", NEW a \in Id
                  PROVE  Deposited(a)
                            = MapThenSumSet(LAMBDA i : CHOOSE m \in Converted(file[i]) : TRUE, Counted(a))
      BY DEF FileIsBooked
    <2>1. Deposited(a) = SumAt(log, Deposits(log, a))
      BY DepositedAndWithdrawn
    <2>2. SumAt(log, Deposits(log, a)) = SumOf(file, FirstRows(file, line - 1, a))
      BY DEF ProgramInv, Booked, Handled
    <2>. QED
      BY <2>1, <2>2, CountedRows DEF SumOf
  <1>. QED
    BY <1>1, ProgramHolds, PTL

\* The program stops without its report for two reasons only: a row without the
\* amount it needs, and the dispute of a deposit that the main balance does not
\* cover.
THEOREM PanicsAreExplainedHolds == ProgramSpec => []PanicsAreExplained
  <1>1. ProgramInv => PanicsAreExplained
    BY DEF ProgramInv, Control, Explained, Uncovered, PanicsAreExplained
  <1>. QED
    BY <1>1, ProgramHolds, PTL

-----------------------------------------------------------------------------
(* The report.                                                              *)

\* The withdrawals of a negative amount from a among the first n rows.
NegativeRows(f, n, a) ==
    {i \in 1..n : f[i].client = a /\ IsReadable(f[i]) /\ WithdrawsNegative(f[i])}

\* An account that has outputs had a deposit, or such a withdrawal; and one that
\* such a withdrawal is done with has outputs.
Opened ==
    \A a \in Id :
        /\ Owned(log, a) # {} => \/ \E r \in UserRef : Found(log, MainOf(a), r) # {}
                                \/ NegativeRows(file, line - 1, a) # {}
        /\ NegativeRows(file, Handled, a) # {} => Owned(log, a) # {}

\* The outputs of an account were there before, or are the transaction's.
LEMMA OwnedBefore ==
    ASSUME NEW lg \in Seq(Transaction), NEW tx \in Transaction, NEW a,
           NEW p \in Places(Append(lg, tx)), Owner(OutputAt(Append(lg, tx), p).account) = a
    PROVE  Owned(lg, a) # {} \/ \E k \in DOMAIN tx.to : Owner(tx.to[k].account) = a
  <1>1. Places(Append(lg, tx)) = Places(lg) \cup NewPlaces(lg, tx)
    BY PlacesAfter
  <1>2. CASE p \in Places(lg)
    BY <1>2, AppendKeepsPlaces DEF Owned
  <1>3. CASE p \in NewPlaces(lg, tx)
    <2>1. PICK k \in DOMAIN tx.to : p = <<Len(lg) + 1, k>>
      BY <1>3 DEF NewPlaces
    <2>. QED
      BY <2>1, AppendAddsPlaces
  <1>. QED
    BY <1>1, <1>2, <1>3

\* The log is as it was, or has a transaction more: the first the call stores.
LEMMA LogStep ==
    ASSUME ProgramInv, [ProgramNext]_programVars, log' # log
    PROVE  LET todo == call[Caller].todo
               row == file[line - 1]
           IN  /\ call[Caller].at = "store" /\ at = "call" /\ log' = Append(log, todo[1])
               /\ log \in Seq(Transaction) /\ todo[1] \in Transaction /\ 1 \in DOMAIN todo
               /\ row.client \in Id /\ row.tx \in UserRef /\ IsReadable(row) /\ line - 1 \in DOMAIN file
               /\ IF row.typ = "deposit" THEN DepositTodo(row, todo)
                  ELSE \A k \in DOMAIN todo : NoDeposit(log, row, todo[k])
  <1>. DEFINE todo == call[Caller].todo
              row == file[line - 1]
  <1>1. [Next]_vars
    BY RunsLedger DEF ProgramInv
  <1>2. call[Caller].at = "store" /\ log' = Append(log, Head(todo))
    BY <1>1, LogChanges, OnlyCaller
  <1>3. at = "call"
    BY <1>2 DEF ProgramInv, Control, IsIdle
  <1>4. /\ log \in Seq(Transaction) /\ todo \in Seq(Transaction) /\ todo # <<>> /\ Head(todo) = todo[1]
        /\ row.client \in Id /\ row.tx \in UserRef /\ IsReadable(row) /\ line - 1 \in DOMAIN file
        /\ IF row.typ = "deposit" THEN DepositTodo(row, todo)
           ELSE \A k \in DOMAIN todo : NoDeposit(log, row, todo[k])
    BY <1>2, <1>3, AboutToStore DEF ProgramInv
  <1>5. todo[1] \in Transaction /\ 1 \in DOMAIN todo
    BY <1>4
  <1>. QED
    BY <1>2, <1>3, <1>4, <1>5

LEMMA OwnedStaysNext ==
    ASSUME ProgramInv, [ProgramNext]_programVars, NEW a, Owned(log, a) # {}
    PROVE  Owned(log', a) # {}
  BY LogStep, OwnedStays

\* Rows are read one after the other, from one file.
LEMMA LineGrows ==
    ASSUME ProgramInv, [ProgramNext]_programVars
    PROVE  /\ line \in Nat \ {0} /\ line' \in {line, line + 1} /\ file' = file
           /\ \A a : NegativeRows(file, line - 1, a) \subseteq NegativeRows(file', line' - 1, a)
  <1>1. line \in Nat \ {0}
    BY FilesAreRows DEF ProgramInv, Control
  <1>2. line' \in {line, line + 1} /\ file' = file
    BY DEF ProgramNext, Step, Ended, programVars, SkipRow, MissingAmount, CallLedger, AwaitLedger,
           EndOfFile, NextAccount, ReadNextBalance, WriteRecord, Finish
  <1>. QED
    BY <1>1, <1>2 DEF NegativeRows

\* The row that the step is done with, if any, has opened its account if it
\* withdraws a negative amount.
LEMMA RowDone ==
    ASSUME ProgramInv, [ProgramNext]_programVars, Handled' # Handled
    PROVE  LET row == file[Handled + 1]
           IN  /\ Handled \in Nat /\ Handled' = Handled + 1
               /\ IsReadable(row) /\ WithdrawsNegative(row) => Owned(log', row.client) # {}
  <1>1. line \in Nat \ {0}
    BY LineGrows
  <1>2. /\ at = "call" <=> ~IsIdle(Caller)
        /\ at = "call" => line > 1
    BY DEF ProgramInv, Control
  <1>3. ASSUME NEW n \in Nat, n = Handled, line' = n + 2, at' = After, Advances(file[n + 1], n)
        PROVE  /\ Handled' = n + 1
               /\ WithdrawsNegative(file[n + 1]) => Owned(log', file[n + 1].client) # {}
    <2>1. PICK state : /\ call' = [call EXCEPT ![Caller] = state]
                       /\ Explains(log', file[n + 1], state)
      BY <1>3 DEF Advances
    <2>2. call'[Caller] = state
      BY <2>1, OnlyCaller DEF ProgramInv, LedgerInv, Inv, TypeOK
    <2>3. at' = "call" <=> state.at # "idle"
      BY <1>3, <2>2 DEF After
    <2>4. Handled' = IF at' = "call" THEN n ELSE n + 1
      BY <1>3 DEF Handled
    <2>5. state.at = "idle" /\ Handled' = n + 1
      BY <1>3, <2>3, <2>4
    <2>. QED
      BY <2>1, <2>5 DEF Explains
  <1>4. CASE CallLedger
    <2>1. at = "rows" /\ line' = line + 1 /\ at' = After
      BY <1>4 DEF CallLedger
    <2>2. Advances(file[line], line - 1)
      BY <1>4, CallAdvances DEF Row
    <2>3. Handled = line - 1 /\ line - 1 \in Nat /\ (line - 1) + 1 = line /\ line' = (line - 1) + 2
      BY <1>1, <2>1 DEF Handled
    <2>. QED
      BY <1>3, <2>1, <2>2, <2>3
  <1>5. CASE AwaitLedger
    <2>1. at = "call" /\ line' = line /\ at' = After
      BY <1>5 DEF AwaitLedger
    <2>2. Advances(file[line - 1], line - 2)
      BY <1>5, AwaitAdvances
    <2>3. Handled = line - 2 /\ line - 2 \in Nat /\ (line - 2) + 1 = line - 1 /\ line' = (line - 2) + 2
      BY <1>1, <1>2, <2>1 DEF Handled
    <2>. QED
      BY <1>3, <2>1, <2>2, <2>3
  <1>6. CASE SkipRow \/ MissingAmount
    <2>1. /\ at = "rows" /\ line' = line + 1 /\ at' # "call" /\ ~IsReadable(file[line])
      BY <1>6 DEF SkipRow, MissingAmount, IsReadable, Row
    <2>2. Handled = line - 1 /\ Handled' = line /\ line - 1 \in Nat /\ (line - 1) + 1 = line
      BY <1>1, <2>1 DEF Handled
    <2>. QED
      BY <2>1, <2>2
  <1>7. CASE ~(CallLedger \/ AwaitLedger \/ SkipRow \/ MissingAmount)
    <2>1. UNCHANGED line /\ (at' = "call" <=> at = "call")
      BY <1>7 DEF ProgramNext, Step, Ended, programVars, EndOfFile, NextAccount, ReadNextBalance,
                  WriteRecord, Finish
    <2>. QED
      BY <2>1 DEF Handled
  <1>. QED
    BY <1>4, <1>5, <1>6, <1>7

\* Only a deposit, or a withdrawal of a negative amount, makes an account.
LEMMA NextOpener ==
    ASSUME ProgramInv, Opened, [ProgramNext]_programVars, NEW a \in Id, Owned(log', a) # {}
    PROVE  \/ \E r \in UserRef : Found(log', MainOf(a), r) # {}
           \/ NegativeRows(file', line' - 1, a) # {}
  <1>1. ASSUME Owned(log, a) # {}, \A account, r : Found(log, account, r) \subseteq Found(log', account, r)
        PROVE  \/ \E r \in UserRef : Found(log', MainOf(a), r) # {}
               \/ NegativeRows(file', line' - 1, a) # {}
    BY <1>1, LineGrows DEF Opened
  <1>2. CASE log' = log
    BY <1>1, <1>2
  <1>3. CASE log' # log
    <2>. DEFINE todo == call[Caller].todo
                tx == todo[1]
                row == file[line - 1]
    <2>1. /\ log' = Append(log, tx) /\ log \in Seq(Transaction)
          /\ tx \in Transaction /\ 1 \in DOMAIN todo
          /\ row.client \in Id /\ row.tx \in UserRef /\ IsReadable(row)
          /\ IF row.typ = "deposit" THEN DepositTodo(row, todo)
             ELSE \A k \in DOMAIN todo : NoDeposit(log, row, todo[k])
      BY <1>3, LogStep
    <2>2. \A account, r : Found(log, account, r) \subseteq Found(log', account, r)
      BY <2>1, BookGrows
    <2>3. PICK p \in Places(log') : Owner(OutputAt(log', p).account) = a
      BY DEF Owned
    <2>4. Owned(log, a) # {} \/ \E k \in DOMAIN tx.to : Owner(tx.to[k].account) = a
      BY <2>1, <2>3, OwnedBefore
    <2>5. CASE row.typ = "deposit" /\ Owned(log, a) = {}
      <3>1. PICK h \in HashId, m \in Converted(row) :
               todo = <<Tx(h, <<>>, <<To(MainOf(row.client), m)>>, row.tx)>>
        BY <2>1, <2>5 DEF DepositTodo
      <3>2. tx.to = <<To(MainOf(row.client), m)>> /\ tx.reference = row.tx
        BY <3>1 DEF Tx
      <3>3. /\ 1 \in DOMAIN tx.to /\ tx.to[1].account = MainOf(row.client)
            /\ \A k \in DOMAIN tx.to : Owner(tx.to[k].account) = row.client
        BY <3>2, Owners DEF To
      <3>4. a = row.client
        BY <2>4, <2>5, <3>3
      <3>. HIDE DEF todo, tx, row
      <3>5. \E k \in DOMAIN tx.to : tx.to[k].account = MainOf(row.client)
        BY <3>3
      <3>6. Len(log) + 1 \in Found(Append(log, tx), MainOf(row.client), row.tx)
        BY <2>1, <3>2, <3>5, BookAfter
      <3>. QED
        BY <2>1, <3>4, <3>6
    <2>6. CASE row.typ # "deposit" /\ Owned(log, a) = {}
      <3>1. NoDeposit(log, row, tx)
        BY <2>1, <2>6
      <3>. HIDE DEF todo, tx
      <3>2. a = row.client /\ tx.to # <<>>
        BY <2>4, <2>6, <3>1 DEF NoDeposit
      <3>3. WithdrawsNegative(row)
        BY <2>6, <3>1, <3>2 DEF NoDeposit
      <3>4. line - 1 \in 1..(line - 1)
        BY <1>3, LogStep, LineGrows DEF ProgramInv, Control
      <3>5. line - 1 \in NegativeRows(file, line - 1, a)
        BY <2>1, <3>2, <3>3, <3>4 DEF NegativeRows
      <3>. QED
        BY <3>5, LineGrows
    <2>. QED
      BY <1>1, <2>2, <2>5, <2>6
  <1>. QED
    BY <1>2, <1>3

LEMMA NextOpened ==
    ASSUME ProgramInv, Opened, [ProgramNext]_programVars
    PROVE  Opened'
  <1>1. ASSUME NEW a \in Id, NegativeRows(file', Handled', a) # {}
        PROVE  Owned(log', a) # {}
    <2>1. PICK i \in NegativeRows(file', Handled', a) : TRUE
      BY <1>1
    <2>2. /\ file' = file /\ i \in 1..Handled'
          /\ file[i].client = a /\ IsReadable(file[i]) /\ WithdrawsNegative(file[i])
      BY <2>1, LineGrows DEF NegativeRows
    <2>3. CASE i \in 1..Handled
      <3>1. i \in NegativeRows(file, Handled, a)
        BY <2>2, <2>3 DEF NegativeRows
      <3>. QED
        BY <3>1, OwnedStaysNext DEF Opened
    <2>4. CASE i \notin 1..Handled
      <3>1. Handled' # Handled
        BY <2>2, <2>4
      <3>2. Handled \in Nat /\ Handled' = Handled + 1
        BY <3>1, RowDone
      <3>3. i = Handled + 1
        BY <2>2, <2>4, <3>2
      <3>. QED
        BY <2>2, <3>1, <3>3, RowDone
    <2>. QED
      BY <2>3, <2>4
  <1>. QED
    BY <1>1, NextOpener DEF Opened

\* A record, and what it says of the account.
Record ==
    [client : Id, available : {ToF64(m) : m \in Int}, held : {ToF64(m) : m \in Int},
     total : {ToF64(m) : m \in Int}, locked : BOOLEAN]

IsExact(lg, rec) ==
    LET a == rec.client
        charged == Balance(lg, ChargebackOf(a))
    IN  /\ rec.available = ToF64(Balance(lg, MainOf(a)))
        /\ rec.held = ToF64(Balance(lg, DisputedOf(a)))
        /\ rec.total = ToF64(SumAt(lg, Deposits(lg, a)) - SumAt(lg, Withdrawals(lg, a)) - charged)
        /\ rec.locked <=> charged > 0

\* The reader has what the log says of the least account without a record.
ReadsNext ==
    /\ reader.account \in Accounts \ Listed
    /\ \A b \in Accounts \ Listed : reader.account <= b
    /\ reader.at \in {"disputed", "chargeback"}
    /\ reader.main = Balance(log, MainOf(reader.account))
    /\ reader.at = "chargeback" => reader.disputed = Balance(log, DisputedOf(reader.account))

\* The records are those of the least accounts, in order, and exact.
Reporting ==
    /\ output \in Seq(Record)
    /\ Listed \subseteq Accounts
    /\ \A j, k \in DOMAIN output : j < k => output[j].client < output[k].client
    /\ \A a \in Listed, b \in Accounts \ Listed : a < b
    /\ \A k \in DOMAIN output : IsExact(log, output[k])
    /\ IF at = "balances" THEN ReadsNext ELSE reader.at = "idle"
    /\ at = "done" => Accounts \subseteq Listed

\* Nothing is reported while rows are read.
LEMMA NothingReported ==
    ASSUME output = <<>>, reader.at = "idle", at \notin {"balances", "done"}
    PROVE  Reporting
  BY DEF Reporting, Listed

\* Accounts are numbers.
LEMMA AccountsAreIds ==
    ASSUME log \in Seq(Transaction)
    PROVE  /\ Accounts \subseteq Id /\ Accounts \subseteq Nat
           /\ \A a : a \in Accounts <=> Owned(log, a) # {}
  <1>1. \A p \in Places(log) : OutputAt(log, p).account \in FullAccount
    BY PlaceType DEF Output
  <1>2. \A p \in Places(log) : Owner(OutputAt(log, p).account) \in Id
    BY <1>1 DEF FullAccount, Owner
  <1>. QED
    BY <1>2, ClientIsNumber DEF Accounts, Owned

\* One record more, of the account that the reader is done with.
LEMMA RecordWritten ==
    ASSUME ProgramInv, Reporting, WriteRecord
    PROVE  /\ Reporting'
           /\ reader.account \in Accounts \ Listed /\ Listed' = Listed \cup {reader.account}
  <1>. DEFINE a == reader.account
              main == Balance(log, MainOf(a))
              disputed == Balance(log, DisputedOf(a))
              charged == Balance(log, ChargebackOf(a))
              rec == [client |-> a, available |-> ToF64(main), held |-> ToF64(disputed),
                      total |-> ToF64(main + disputed), locked |-> charged > 0]
  <1>1. /\ at = "balances" /\ at' = "report" /\ reader.at = "chargeback" /\ reader'.at = "idle"
        /\ UNCHANGED log /\ ReadsNext /\ log \in Seq(Transaction)
    BY DEF WriteRecord, ReadChargeback, Reporting, ProgramInv, LedgerInv, Inv, TypeOK
  <1>2. reader.main = main /\ reader.disputed = disputed
    BY <1>1 DEF ReadsNext
  <1>3. output' = Append(output, rec)
    BY <1>2 DEF WriteRecord, ReadChargeback, Some
  <1>4. a \in Accounts \ Listed /\ \A b \in Accounts \ Listed : a <= b
    BY <1>1 DEF ReadsNext
  <1>5. a \in Id /\ Accounts \subseteq Nat
    BY <1>1, <1>4, AccountsAreIds
  <1>6. main \in Int /\ disputed \in Int /\ charged \in Int
    BY <1>1, BalanceType
  <1>7. main + disputed + charged = SumAt(log, Deposits(log, a)) - SumAt(log, Withdrawals(log, a))
    BY <1>5, DepositedAndWithdrawn DEF ProgramInv, LedgerInv, Conservation, Holds
  <1>8. rec \in Record
    BY <1>5, <1>6 DEF Record
  <1>9. IsExact(log, rec)
    <2>1. main + disputed
             = SumAt(log, Deposits(log, a)) - SumAt(log, Withdrawals(log, a)) - charged
      BY <1>6, <1>7
    <2>. QED
      BY <2>1 DEF IsExact
  <1>. HIDE DEF rec, main, disputed, charged
  <1>10. rec.client = a
    BY DEF rec
  <1>11. /\ output \in Seq(Record) /\ output' \in Seq(Record) /\ Len(output) \in Nat
         /\ DOMAIN output' = 1..(Len(output) + 1) /\ DOMAIN output = 1..Len(output)
         /\ \A k \in DOMAIN output : output'[k] = output[k]
         /\ output'[Len(output) + 1] = rec
    BY <1>3, <1>8 DEF Reporting
  <1>12. Listed' = Listed \cup {a}
    <2>1. DOMAIN output' = DOMAIN output \cup {Len(output) + 1}
      BY <1>11
    <2>2. Listed' = {output'[k].client : k \in DOMAIN output'}
      BY DEF Listed
    <2>3. Listed' = {output'[k].client : k \in DOMAIN output} \cup {a}
      BY <1>10, <1>11, <2>1, <2>2
    <2>4. {output'[k].client : k \in DOMAIN output} = Listed
      BY <1>11 DEF Listed
    <2>. QED
      BY <2>3, <2>4
  <1>13. Accounts' = Accounts
    BY <1>1 DEF Accounts
  <1>14. \A x \in Listed : x < a
    BY <1>4 DEF Reporting
  <1>15. \A x \in Listed', b \in Accounts' \ Listed' : x < b
    <2>1. ASSUME NEW b \in Accounts \ Listed, b # a
          PROVE  a < b
      <3>1. a <= b /\ a \in Nat /\ b \in Nat
        BY <1>4, <1>5
      <3>. HIDE DEF a
      <3>. QED
        BY <2>1, <3>1
    <2>. QED
      BY <1>4, <1>12, <1>13, <2>1 DEF Reporting
  <1>16. \A j, k \in DOMAIN output' : j < k => output'[j].client < output'[k].client
    <2>. SUFFICES ASSUME NEW j \in DOMAIN output', NEW k \in DOMAIN output', j < k
                  PROVE  output'[j].client < output'[k].client
      OBVIOUS
    <2>1. j \in DOMAIN output /\ output[j].client \in Listed
      BY <1>11 DEF Listed
    <2>2. CASE k \in DOMAIN output
      BY <1>11, <2>1, <2>2 DEF Reporting
    <2>3. CASE k = Len(output) + 1
      BY <1>10, <1>11, <1>14, <2>1, <2>3
    <2>. QED
      BY <1>11, <2>2, <2>3
  <1>17. \A k \in DOMAIN output' : IsExact(log', output'[k])
    <2>. SUFFICES ASSUME NEW k \in DOMAIN output'
                  PROVE  IsExact(log, output'[k])
      BY <1>1
    <2>1. CASE k \in DOMAIN output
      BY <1>11, <2>1 DEF Reporting
    <2>2. CASE k = Len(output) + 1
      BY <1>9, <1>11, <2>2
    <2>. QED
      BY <1>11, <2>1, <2>2
  <1>18. Listed' \subseteq Accounts'
    BY <1>4, <1>12, <1>13 DEF Reporting
  <1>. QED
    BY <1>1, <1>4, <1>11, <1>12, <1>15, <1>16, <1>17, <1>18 DEF Reporting

\* The report goes on, or has not begun.
LEMMA NextReporting ==
    ASSUME ProgramInv, ProgramInv', Reporting, [ProgramNext]_programVars
    PROVE  Reporting'
  <1>1. CASE SkipRow \/ MissingAmount \/ CallLedger \/ AwaitLedger \/ EndOfFile
    <2>1. /\ at \in {"rows", "call"} /\ UNCHANGED <<reader, output>>
          /\ at' \in {"rows", "call", "panicked", "report"}
      BY <1>1 DEF SkipRow, MissingAmount, CallLedger, AwaitLedger, EndOfFile, After
    <2>2. output = <<>> /\ reader.at = "idle"
      BY <2>1 DEF ProgramInv, Control, Reporting
    <2>3. Listed' = {}
      BY <2>1, <2>2 DEF Listed
    <2>. QED
      BY <2>1, <2>2, <2>3 DEF Reporting
  <1>2. CASE WriteRecord
    BY <1>2, RecordWritten
  <1>3. CASE NextAccount \/ ReadNextBalance \/ Finish \/ UNCHANGED programVars
    <2>1. UNCHANGED <<log, output>>
      BY <1>3 DEF NextAccount, ReadNextBalance, Finish, programVars
    <2>2. Accounts' = Accounts /\ Listed' = Listed
      BY <2>1 DEF Accounts, Listed
    <2>3. /\ output' \in Seq(Record)
          /\ Listed' \subseteq Accounts'
          /\ \A j, k \in DOMAIN output' : j < k => output'[j].client < output'[k].client
          /\ \A a \in Listed', b \in Accounts' \ Listed' : a < b
          /\ \A k \in DOMAIN output' : IsExact(log', output'[k])
      BY <2>1, <2>2 DEF Reporting
    <2>4. CASE NextAccount
      <3>1. at' = "balances"
        BY <2>4 DEF NextAccount
      <3>2. PICK a \in Accounts \ Listed : /\ \A b \in Accounts \ Listed : a <= b
                                           /\ ReadMain(a)
        BY <2>4 DEF NextAccount
      <3>3. reader'.account = a /\ reader'.at = "disputed" /\ reader'.main = Balance(log, MainOf(a))
        BY <3>2 DEF ReadMain
      <3>4. ReadsNext'
        BY <2>1, <2>2, <3>2, <3>3 DEF ReadsNext
      <3>. QED
        BY <2>3, <3>1, <3>4 DEF Reporting
    <2>5. CASE ReadNextBalance
      <3>1. at = "balances" /\ at' = "balances" /\ ReadsNext
        BY <2>5 DEF ReadNextBalance, Reporting
      <3>2. /\ reader'.account = reader.account /\ reader'.at = "chargeback"
            /\ reader'.main = reader.main
            /\ reader'.disputed = Balance(log, DisputedOf(reader.account))
        BY <2>5 DEF ReadNextBalance, ReadDisputed
      <3>3. ReadsNext'
        BY <2>1, <2>2, <3>1, <3>2 DEF ReadsNext
      <3>. QED
        BY <2>3, <3>1, <3>3 DEF Reporting
    <2>6. CASE Finish
      <3>1. at = "report" /\ at' = "done" /\ UNCHANGED reader /\ Accounts \subseteq Listed
        BY <2>6 DEF Finish
      <3>2. reader'.at = "idle"
        BY <3>1 DEF Reporting
      <3>. QED
        BY <2>2, <2>3, <3>1, <3>2 DEF Reporting
    <2>7. CASE UNCHANGED programVars
      BY <2>7 DEF programVars, Reporting, Accounts, Listed, ReadsNext
    <2>. QED
      BY <1>3, <2>4, <2>5, <2>6, <2>7
  <1>. QED
    BY <1>1, <1>2, <1>3 DEF ProgramNext, Step, Ended

ReportInv == ProgramInv /\ Opened /\ Reporting

LEMMA InitReportInv == ProgramInit => ReportInv
  <1>. SUFFICES ASSUME ProgramInit PROVE ReportInv
    OBVIOUS
  <1>1. log = <<>> /\ output = <<>> /\ at = "rows" /\ reader.at = "idle"
    BY DEF ProgramInit, ReadInit, Init
  <1>2. Opened
    <2>1. line = 1 /\ Handled = 0
      BY DEF ProgramInit, Handled
    <2>2. \A a : NegativeRows(file, 0, a) = {}
      BY DEF NegativeRows
    <2>3. \A a : Owned(log, a) = {}
      BY <1>1 DEF Owned, Places
    <2>. QED
      BY <2>1, <2>2, <2>3 DEF Opened
  <1>. QED
    BY <1>1, <1>2, InitProgramInv, NothingReported DEF ReportInv

LEMMA ReportHolds == ProgramSpec => []ReportInv
  <1>1. ReportInv /\ [ProgramNext]_programVars => ReportInv'
    BY NextProgramInv, NextOpened, NextReporting DEF ReportInv
  <1>. QED
    BY <1>1, InitReportInv, PTL DEF ProgramSpec

\* An account has a row that counts when it has a deposit.
LEMMA SomeCounted ==
    ASSUME ProgramInv, at # "call", NEW a \in Id
    PROVE  /\ Counted(a) # {} <=> \E r \in UserRef : Found(log, MainOf(a), r) # {}
           /\ \A i \in Counted(a) : file[i].client = a
  <1>. DEFINE rows == DepositRows(file, line - 1, a)
  <1>1. Counted(a) = FirstRows(file, line - 1, a)
    BY CountedRows
  <1>2. file \in Seq(CsvEntry) /\ line \in 1..(Len(file) + 1) /\ Len(file) \in Nat
        /\ DOMAIN file = 1..Len(file)
    BY FilesAreRows DEF ProgramInv, Control
  <1>3. \A i \in rows : i \in Nat /\ i \in DOMAIN file /\ file[i].client = a
    BY <1>2 DEF DepositRows
  <1>4. \A i \in rows : file[i].tx \in UserRef
    <2>1. \A i \in rows : file[i] \in CsvEntry
      BY <1>2, <1>3
    <2>. QED
      BY <2>1 DEF CsvEntry
  <1>5. (\E r \in UserRef : Found(log, MainOf(a), r) # {}) <=> rows # {}
    <2>1. \A r \in UserRef : Found(log, MainOf(a), r) # {} <=> \E i \in rows : file[i].tx = r
      BY DEF ProgramInv, Booked, Handled
    <2>. HIDE DEF rows
    <2>. QED
      BY <1>4, <2>1
  <1>6. rows # {} => Counted(a) # {}
    <2>. SUFFICES ASSUME rows # {}
                  PROVE  Counted(a) # {}
      OBVIOUS
    <2>1. rows \in SUBSET Nat
      BY <1>3
    <2>2. PICK i \in rows : \A j \in rows : i <= j
      <3>. HIDE DEF rows
      <3>. QED
        BY <2>1, Least
    <2>3. i \in FirstRows(file, line - 1, a)
      BY <2>2 DEF FirstRows
    <2>. QED
      BY <1>1, <2>3
  <1>7. Counted(a) \subseteq rows
    BY <1>1 DEF FirstRows
  <1>. QED
    BY <1>3, <1>5, <1>6, <1>7

\* The report has one record, in order, for each account that a deposit of the
\* file, or a withdrawal of a negative amount, has opened, and each explains the
\* deposits and withdrawals of the whole file.
THEOREM ReportIsExactHolds == ProgramSpec => []ReportIsExact
  <1>2. ReportInv => ReportIsExact
    <2>. SUFFICES ASSUME ReportInv, at = "done"
                  PROVE  /\ Listed = {a \in Id : Counted(a) # {} \/ NegativeWithdrawals(a) # {}}
                         /\ \A j, k \in DOMAIN output : j < k => output[j].client < output[k].client
                         /\ \A k \in DOMAIN output :
                               LET a == output[k].client
                                   charged == Balance(log, ChargebackOf(a))
                               IN  /\ output[k].available = ToF64(Balance(log, MainOf(a)))
                                   /\ output[k].held = ToF64(Balance(log, DisputedOf(a)))
                                   /\ output[k].total = ToF64(Deposited(a) - Withdrawn(a) - charged)
                                   /\ output[k].locked <=> charged > 0
      BY DEF ReportIsExact
    <2>1. log \in Seq(Transaction)
      BY DEF ReportInv, ProgramInv, LedgerInv, Inv, TypeOK
    <2>2. Listed = Accounts
      BY DEF ReportInv, Reporting
    <2>3. \A a : a \in Accounts <=> a \in Id /\ (Counted(a) # {} \/ NegativeWithdrawals(a) # {})
      <3>1. ASSUME NEW a \in Id
            PROVE  Owned(log, a) # {} <=> Counted(a) # {} \/ NegativeWithdrawals(a) # {}
        <4>1. Counted(a) # {} <=> \E r \in UserRef : Found(log, MainOf(a), r) # {}
          BY SomeCounted DEF ReportInv
        <4>2. (\E r \in UserRef : Found(log, MainOf(a), r) # {}) => Owned(log, a) # {}
          BY Owners, FoundIsOwned
        <4>3. NegativeWithdrawals(a) = NegativeRows(file, line - 1, a)
          BY DEF NegativeWithdrawals, NegativeRows, IsReadable, WithdrawsNegative
        <4>4. Handled = line - 1
          BY DEF Handled
        <4>. QED
          BY <4>1, <4>2, <4>3, <4>4 DEF ReportInv, Opened
      <3>. QED
        BY <2>1, <3>1, AccountsAreIds
    <2>4. Listed = {a \in Id : Counted(a) # {} \/ NegativeWithdrawals(a) # {}}
      BY <2>2, <2>3
    <2>5. \A j, k \in DOMAIN output : j < k => output[j].client < output[k].client
      BY DEF ReportInv, Reporting
    <2>6. ASSUME NEW k \in DOMAIN output
          PROVE  LET a == output[k].client
                     charged == Balance(log, ChargebackOf(a))
                 IN  /\ output[k].available = ToF64(Balance(log, MainOf(a)))
                     /\ output[k].held = ToF64(Balance(log, DisputedOf(a)))
                     /\ output[k].total = ToF64(Deposited(a) - Withdrawn(a) - charged)
                     /\ output[k].locked <=> charged > 0
      <3>1. IsExact(log, output[k])
        BY DEF ReportInv, Reporting
      <3>. QED
        BY <3>1, DepositedAndWithdrawn DEF IsExact
    <2>. QED
      BY <2>4, <2>5, <2>6
  <1>. QED
    BY <1>2, ReportHolds, PTL

-----------------------------------------------------------------------------
(* The amounts.                                                             *)

\* Power is the end of an iteration.
LEMMA PowerIteration ==
    ASSUME NEW b \in Nat, NEW n \in Nat
    PROVE  \E p \in [0..n -> Nat] :
              /\ Power(b, n) = p[n]
              /\ p[0] = 1 /\ \A i \in 1..n : p[i] = b * p[i - 1]
  <1>. DEFINE IsCount(p) == p = [i \in 0..n |-> IF i = 0 THEN 1 ELSE b * p[i - 1]]
              step == [x \in (1..n) \X Nat |-> b * x[2]]
              power == CHOOSE p : IsCount(p)
  <1>1. Power(b, n) = power[n]
    BY DEF Power
  <1>2. step \in [(1..n) \X Nat -> Nat]
    OBVIOUS
  <1>3. \A i \in 1..n, m \in Nat : step[<<i, m>>] = b * m
    OBVIOUS
  <1>. HIDE DEF step
  <1>4. PICK p : IsIteration(p, n, Nat, 1, step)
    BY <1>2, Iterates
  <1>5. p \in [0..n -> Nat] /\ p[0] = 1 /\ \A i \in 1..n : p[i] = b * p[i - 1]
    <2>1. p \in [0..n -> Nat] /\ p[0] = 1 /\ \A i \in 1..n : p[i] = step[<<i, p[i - 1]>>]
      BY <1>4 DEF IsIteration
    <2>2. \A i \in 1..n : i - 1 \in 0..n
      OBVIOUS
    <2>. QED
      BY <1>3, <2>1, <2>2
  <1>6. IsCount(p)
    <2>1. \A i \in 0..n : p[i] = IF i = 0 THEN 1 ELSE b * p[i - 1]
      BY <1>5
    <2>. QED
      BY <1>5, <2>1
  <1>. HIDE DEF IsCount
  <1>7. IsCount(power)
    BY <1>6
  <1>. HIDE DEF power
  <1>8. /\ power = [i \in 0..n |-> power[i]]
        /\ power[0] = 1 /\ \A i \in 1..n : power[i] = b * power[i - 1]
    <2>1. \A i \in 0..n : power[i] = IF i = 0 THEN 1 ELSE b * power[i - 1]
      BY <1>7 DEF IsCount
    <2>2. 0 \in 0..n /\ \A i \in 1..n : i \in 0..n /\ i # 0
      OBVIOUS
    <2>3. power = [i \in 0..n |-> power[i]]
      BY <1>7 DEF IsCount
    <2>. QED
      BY <2>1, <2>2, <2>3
  <1>9. \A i \in 0..n : power[i] \in Nat
    <2>. DEFINE G == {i \in 0..n : power[i] \in Nat}
    <2>1. 0 \in G
      BY <1>8
    <2>2. ASSUME NEW i \in 1..n, i - 1 \in G
          PROVE  i \in G
      <3>1. power[i] = b * power[i - 1] /\ power[i - 1] \in Nat
        BY <1>8, <2>2
      <3>. QED
        BY <3>1
    <2>3. \A i \in 0..n : i \in G
      <3>. HIDE DEF G
      <3>. QED
        BY <2>1, <2>2, UpTo
    <2>. QED
      BY <2>3
  <1>10. power \in [0..n -> Nat]
    BY <1>8, <1>9
  <1>. QED
    BY <1>1, <1>8, <1>10

\* The powers of b, one after the other.
LEMMA PowerOfNext ==
    ASSUME NEW b \in Nat, NEW n \in Nat
    PROVE  Power(b, n) \in Nat /\ Power(b, 0) = 1 /\ Power(b, n + 1) = b * Power(b, n)
  <1>1. PICK p \in [0..n -> Nat] :
           /\ Power(b, n) = p[n]
           /\ p[0] = 1 /\ \A i \in 1..n : p[i] = b * p[i - 1]
    BY PowerIteration
  <1>2. PICK s \in [0..(n + 1) -> Nat] :
           /\ Power(b, n + 1) = s[n + 1]
           /\ s[0] = 1 /\ \A i \in 1..(n + 1) : s[i] = b * s[i - 1]
    <2>1. n + 1 \in Nat
      OBVIOUS
    <2>. QED
      BY <2>1, PowerIteration
  <1>3. Power(b, 0) = 1
    BY PowerIteration
  <1>4. \A i \in 0..n : p[i] = s[i]
    <2>. DEFINE G == {i \in 0..n : p[i] = s[i]}
    <2>1. 0 \in G
      BY <1>1, <1>2
    <2>2. ASSUME NEW i \in 1..n, i - 1 \in G
          PROVE  i \in G
      BY <1>1, <1>2, <2>2
    <2>3. \A i \in 0..n : i \in G
      <3>. HIDE DEF G
      <3>. QED
        BY <2>1, <2>2, UpTo
    <2>. QED
      BY <2>3
  <1>5. s[n + 1] = b * s[n]
    BY <1>2
  <1>. QED
    BY <1>1, <1>2, <1>3, <1>4, <1>5

\* No power of a positive number is zero.
LEMMA PowerIsPositive ==
    ASSUME NEW b \in Nat \ {0}, NEW n \in Nat
    PROVE  Power(b, n) \in Nat \ {0}
  <1>. DEFINE G == {i \in 0..n : Power(b, i) \in Nat \ {0}}
  <1>1. 0 \in G
    BY PowerOfNext
  <1>2. ASSUME NEW i \in 1..n, i - 1 \in G
        PROVE  i \in G
    <2>1. i - 1 \in Nat /\ (i - 1) + 1 = i /\ Power(b, i - 1) \in Nat \ {0}
      BY <1>2
    <2>2. Power(b, i) = b * Power(b, i - 1)
      <3>1. Power(b, (i - 1) + 1) = b * Power(b, i - 1)
        BY <2>1, PowerOfNext
      <3>. QED
        BY <2>1, <3>1
    <2>3. \A x, y \in Nat \ {0} : x * y \in Nat \ {0}
      OBVIOUS
    <2>. QED
      BY <2>1, <2>2, <2>3
  <1>3. \A i \in 0..n : i \in G
    <2>. HIDE DEF G
    <2>. QED
      BY <1>1, <1>2, UpTo
  <1>. QED
    BY <1>3

\* Exponents add up.
LEMMA PowersAdd ==
    ASSUME NEW b \in Nat, NEW m \in Nat, NEW n \in Nat
    PROVE  Power(b, m + n) = Power(b, m) * Power(b, n)
  <1>. DEFINE G == {i \in 0..n : Power(b, m + i) = Power(b, m) * Power(b, i)}
  <1>1. Power(b, m) \in Nat /\ Power(b, 0) = 1
    BY PowerOfNext
  <1>2. 0 \in G
    <2>1. m + 0 = m
      OBVIOUS
    <2>. QED
      BY <1>1, <2>1
  <1>3. ASSUME NEW i \in 1..n, i - 1 \in G
        PROVE  i \in G
    <2>1. /\ i - 1 \in Nat /\ (i - 1) + 1 = i
          /\ m + (i - 1) \in Nat /\ (m + (i - 1)) + 1 = m + i
      OBVIOUS
    <2>2. Power(b, i) = b * Power(b, i - 1) /\ Power(b, i - 1) \in Nat
      <3>1. Power(b, (i - 1) + 1) = b * Power(b, i - 1)
        BY <2>1, PowerOfNext
      <3>. QED
        BY <2>1, <3>1, PowerOfNext
    <2>3. Power(b, m + i) = b * Power(b, m + (i - 1))
      <3>1. Power(b, (m + (i - 1)) + 1) = b * Power(b, m + (i - 1))
        BY <2>1, PowerOfNext
      <3>. QED
        BY <2>1, <3>1
    <2>4. Power(b, m + (i - 1)) = Power(b, m) * Power(b, i - 1)
      BY <1>3
    <2>5. \A x, y \in Nat : b * (x * y) = x * (b * y)
      OBVIOUS
    <2>. QED
      BY <1>1, <2>2, <2>3, <2>4, <2>5
  <1>4. \A i \in 0..n : i \in G
    <2>. HIDE DEF G
    <2>. QED
      BY <1>2, <1>3, UpTo
  <1>. QED
    BY <1>4

\* Powers of two grow with their exponents.
LEMMA TwoPowersGrow ==
    ASSUME NEW m \in Nat, NEW n \in Nat, m <= n
    PROVE  Power(2, m) <= Power(2, n)
  <1>1. n - m \in Nat /\ m + (n - m) = n
    OBVIOUS
  <1>2. Power(2, m + (n - m)) = Power(2, m) * Power(2, n - m)
    BY <1>1, PowersAdd
  <1>3. Power(2, m) \in Nat \ {0} /\ Power(2, n - m) \in Nat \ {0}
    BY <1>1, PowerIsPositive
  <1>4. \A x, y \in Nat \ {0} : x <= x * y
    OBVIOUS
  <1>. QED
    BY <1>1, <1>2, <1>3, <1>4

\* Larger powers of two have larger exponents.
LEMMA TwoPowersOrder ==
    ASSUME NEW m \in Nat, NEW n \in Nat, Power(2, m) < Power(2, n)
    PROVE  m < n
  <1>1. Power(2, m) \in Nat \ {0} /\ Power(2, n) \in Nat \ {0}
    BY PowerIsPositive
  <1>2. ~(n <= m)
    BY <1>1, TwoPowersGrow
  <1>. QED
    BY <1>2

\* The formats, in powers of two.
LEMMA FormatPowers ==
    LET B == Power(2, MantissaBits)
        L == Power(2, MantissaBits - 4)
    IN  /\ MantissaBits \in Nat /\ FractionBits \in Nat /\ IntBits \in Nat
        /\ MantissaBits - 4 \in Nat /\ MantissaBits - 1 \in Nat /\ IntBits - 1 \in Nat
        /\ MaxExponent \in Nat
        /\ \A n \in 0..(MantissaBits + MaxExponent) : TwoTo[n] = Power(2, n)
        /\ One = Power(2, FractionBits) /\ One \in Nat \ {0} /\ Scale \in Nat \ {0}
        /\ B \in Nat \ {0} /\ L \in Nat \ {0} /\ B = 16 * L
        /\ TwoTo[MantissaBits - 4] = L
        /\ 2 * Power(2, MantissaBits - 1) = B
        /\ 10 * Scale * Power(2, MantissaBits - 1) <= One
        /\ MaxInt = Power(2, IntBits - 1) - 1 /\ MinInt = -Power(2, IntBits - 1)
        /\ B <= Power(2, IntBits - 1)
        /\ Power(2, IntBits - 1) * One * 2 <= Power(2, MantissaBits + MaxExponent)
  <1>1. /\ MantissaBits \in Nat /\ FractionBits \in Nat /\ IntBits \in Nat
        /\ MaxExponent \in Nat /\ Precision \in Nat
        /\ 4 <= MantissaBits /\ MantissaBits < IntBits
        /\ IntBits + FractionBits <= MantissaBits + MaxExponent
        /\ 10 * Scale * TwoTo[MantissaBits - 1] <= One
    BY FloatFormat
  <1>2. MantissaBits - 4 \in Nat /\ MantissaBits - 1 \in Nat /\ IntBits - 1 \in Nat
    BY <1>1
  <1>3. \A n \in 0..(MantissaBits + MaxExponent) : TwoTo[n] = Power(2, n)
    BY DEF TwoTo
  <1>4. One = Power(2, FractionBits) /\ One \in Nat \ {0}
    <2>1. FractionBits \in 0..(MantissaBits + MaxExponent)
      BY <1>1
    <2>. QED
      BY <1>1, <1>3, <2>1, PowerIsPositive DEF One
  <1>5. Scale \in Nat \ {0}
    BY <1>1, PowerIsPositive DEF Scale
  <1>6. /\ Power(2, MantissaBits) \in Nat \ {0} /\ Power(2, MantissaBits - 4) \in Nat \ {0}
        /\ Power(2, MantissaBits - 1) \in Nat \ {0}
    BY <1>1, <1>2, PowerIsPositive
  <1>7. Power(2, 4) = 16 /\ Power(2, 1) = 2
    <2>1. Power(2, 0) = 1 /\ Power(2, 0 + 1) = 2 * Power(2, 0) /\ Power(2, 1 + 1) = 2 * Power(2, 1)
          /\ Power(2, 2 + 1) = 2 * Power(2, 2) /\ Power(2, 3 + 1) = 2 * Power(2, 3)
      BY PowerOfNext
    <2>2. 0 + 1 = 1 /\ 1 + 1 = 2 /\ 2 + 1 = 3 /\ 3 + 1 = 4
      OBVIOUS
    <2>3. Power(2, 1) = 2 /\ Power(2, 2) = 4 /\ Power(2, 3) = 8 /\ Power(2, 4) = 16
      BY <2>1, <2>2
    <2>. QED
      BY <2>3
  <1>8. Power(2, MantissaBits) = 16 * Power(2, MantissaBits - 4)
    <2>1. 4 + (MantissaBits - 4) = MantissaBits
      BY <1>1
    <2>2. Power(2, 4 + (MantissaBits - 4)) = Power(2, 4) * Power(2, MantissaBits - 4)
      BY <1>2, PowersAdd
    <2>. QED
      BY <1>7, <2>1, <2>2
  <1>9. 2 * Power(2, MantissaBits - 1) = Power(2, MantissaBits)
    <2>1. (MantissaBits - 1) + 1 = MantissaBits
      BY <1>1
    <2>2. Power(2, (MantissaBits - 1) + 1) = 2 * Power(2, MantissaBits - 1)
      BY <1>2, PowerOfNext
    <2>. QED
      BY <2>1, <2>2
  <1>10. /\ TwoTo[MantissaBits - 4] = Power(2, MantissaBits - 4)
         /\ TwoTo[MantissaBits - 1] = Power(2, MantissaBits - 1)
         /\ TwoTo[IntBits - 1] = Power(2, IntBits - 1)
    <2>1. /\ MantissaBits - 4 \in 0..(MantissaBits + MaxExponent)
          /\ MantissaBits - 1 \in 0..(MantissaBits + MaxExponent)
          /\ IntBits - 1 \in 0..(MantissaBits + MaxExponent)
      BY <1>1, <1>2
    <2>. QED
      BY <1>3, <2>1
  <1>11. Power(2, IntBits - 1) \in Nat /\ MaxInt = Power(2, IntBits - 1) - 1 /\ MinInt = -Power(2, IntBits - 1)
    <2>1. Power(2, IntBits - 1) \in Nat
      BY <1>2, PowerIsPositive
    <2>. QED
      BY <1>10, <2>1 DEF MaxInt, MinInt
  <1>12. Power(2, MantissaBits) <= Power(2, IntBits - 1)
    BY <1>1, <1>2, TwoPowersGrow
  <1>13. Power(2, IntBits - 1) * One * 2 <= Power(2, MantissaBits + MaxExponent)
    <2>1. Power(2, (IntBits - 1) + FractionBits) = Power(2, IntBits - 1) * One
      BY <1>1, <1>2, <1>4, PowersAdd
    <2>2. /\ (IntBits - 1) + FractionBits \in Nat
          /\ ((IntBits - 1) + FractionBits) + 1 = IntBits + FractionBits
      BY <1>1, <1>2
    <2>3. Power(2, ((IntBits - 1) + FractionBits) + 1) = 2 * Power(2, (IntBits - 1) + FractionBits)
      BY <2>2, PowerOfNext
    <2>4. Power(2, IntBits + FractionBits) <= Power(2, MantissaBits + MaxExponent)
      BY <1>1, TwoPowersGrow
    <2>5. Power(2, IntBits - 1) * One \in Nat
      BY <1>4, <1>11
    <2>. QED
      BY <2>1, <2>2, <2>3, <2>4, <2>5
  <1>. QED
    BY <1>1, <1>2, <1>3, <1>4, <1>5, <1>6, <1>8, <1>9, <1>10, <1>11, <1>12, <1>13

\* RoundDiv is off by half a unit at most.
LEMMA RoundDivIsNear ==
    ASSUME NEW n \in Nat, NEW q \in Nat \ {0}
    PROVE  /\ RoundDiv(n, q) \in Nat
           /\ 2 * (q * RoundDiv(n, q) - n) <= q /\ 2 * (n - q * RoundDiv(n, q)) <= q
  <1>. DEFINE down == n \div q
              rest == n % q
  <1>1. down \in Nat /\ rest \in Nat /\ rest < q /\ n = q * down + rest
    OBVIOUS
  <1>2. RoundDiv(n, q) = down \/ RoundDiv(n, q) = down + 1
    BY DEF RoundDiv
  <1>3. RoundDiv(n, q) = down => 2 * rest <= q
    BY <1>1 DEF RoundDiv
  <1>4. RoundDiv(n, q) = down + 1 => 2 * rest >= q
    BY <1>1 DEF RoundDiv
  <1>. HIDE DEF down, rest
  <1>5. q * (down + 1) = q * down + q /\ q * down \in Nat
    BY <1>1
  <1>6. CASE RoundDiv(n, q) = down
    BY <1>1, <1>3, <1>5, <1>6
  <1>7. CASE RoundDiv(n, q) = down + 1
    BY <1>1, <1>4, <1>5, <1>7
  <1>. QED
    BY <1>2, <1>6, <1>7

\* k is the exponent of n / q: the least for which the mantissa suffices.
IsExponent(k, n, q) ==
    /\ n < q * Power(2, MantissaBits + k)
    /\ k = 0 \/ n >= q * Power(2, MantissaBits + k - 1)

\* A number that does not overflow has an exponent.
LEMMA ExponentExists ==
    ASSUME NEW n \in Nat, NEW q \in Nat \ {0}, n < q * Power(2, MantissaBits + MaxExponent)
    PROVE  \E k \in 0..MaxExponent : IsExponent(k, n, q)
  <1>. DEFINE Large == {k \in Nat : n < q * Power(2, MantissaBits + k)}
  <1>1. MantissaBits \in Nat /\ MaxExponent \in Nat
    BY FormatPowers
  <1>2. MaxExponent \in Large
    BY <1>1
  <1>3. PICK k \in Large : \A j \in Large : k <= j
    <2>1. Large \in SUBSET Nat /\ Large # {}
      BY <1>2
    <2>. HIDE DEF Large
    <2>. QED
      BY <2>1, Least
  <1>4. k \in 0..MaxExponent
    BY <1>1, <1>2, <1>3
  <1>5. k = 0 \/ n >= q * Power(2, MantissaBits + k - 1)
    <2>. SUFFICES ASSUME k # 0
                  PROVE  n >= q * Power(2, MantissaBits + k - 1)
      OBVIOUS
    <2>1. k - 1 \in Nat /\ k - 1 \notin Large /\ MantissaBits + (k - 1) \in Nat
      BY <1>1, <1>3
    <2>2. ~(n < q * Power(2, MantissaBits + (k - 1)))
      BY <2>1
    <2>3. Power(2, MantissaBits + (k - 1)) \in Nat \ {0}
      BY <2>1, PowerIsPositive
    <2>4. q * Power(2, MantissaBits + (k - 1)) \in Nat
      BY <2>3
    <2>5. MantissaBits + (k - 1) = MantissaBits + k - 1
      BY <1>1, <2>1
    <2>. QED
      BY <2>2, <2>4, <2>5
  <1>. QED
    BY <1>3, <1>4, <1>5 DEF IsExponent

\* The nearest float is off by half a unit of its last place at most.
LEMMA NearestIsNear ==
    ASSUME NEW n \in Nat, NEW q \in Nat \ {0}, n < q * Power(2, MantissaBits + MaxExponent)
    PROVE  \E k \in 0..MaxExponent :
              /\ IsExponent(k, n, q) /\ Nearest(n, q) \in Nat /\ Power(2, k) \in Nat \ {0}
              /\ 2 * (q * Nearest(n, q) - n) <= q * Power(2, k)
              /\ 2 * (n - q * Nearest(n, q)) <= q * Power(2, k)
  <1>. DEFINE k == CHOOSE k \in 0..MaxExponent :
                       /\ n < q * TwoTo[MantissaBits + k]
                       /\ k = 0 \/ n >= q * TwoTo[MantissaBits + k - 1]
  <1>1. /\ MantissaBits \in Nat /\ MaxExponent \in Nat
        /\ MantissaBits - 1 \in Nat
        /\ \A i \in 0..(MantissaBits + MaxExponent) : TwoTo[i] = Power(2, i)
    BY FormatPowers
  <1>2. \A i \in 0..MaxExponent :
           /\ TwoTo[MantissaBits + i] = Power(2, MantissaBits + i)
           /\ TwoTo[MantissaBits + i - 1] = Power(2, MantissaBits + i - 1)
           /\ TwoTo[i] = Power(2, i)
    <2>1. \A i \in 0..MaxExponent : /\ MantissaBits + i \in 0..(MantissaBits + MaxExponent)
                                    /\ MantissaBits + i - 1 \in 0..(MantissaBits + MaxExponent)
                                    /\ i \in 0..(MantissaBits + MaxExponent)
      BY <1>1
    <2>. QED
      BY <1>1, <2>1
  <1>3. k \in 0..MaxExponent /\ IsExponent(k, n, q)
    <2>1. \E i \in 0..MaxExponent : IsExponent(i, n, q)
      BY ExponentExists
    <2>2. \E i \in 0..MaxExponent : /\ n < q * TwoTo[MantissaBits + i]
                                    /\ i = 0 \/ n >= q * TwoTo[MantissaBits + i - 1]
      BY <1>2, <2>1 DEF IsExponent
    <2>3. /\ k \in 0..MaxExponent
          /\ n < q * TwoTo[MantissaBits + k]
          /\ k = 0 \/ n >= q * TwoTo[MantissaBits + k - 1]
      BY <2>2
    <2>. HIDE DEF k
    <2>. QED
      BY <1>2, <2>3 DEF IsExponent
  <1>4. Nearest(n, q) = RoundDiv(n, q * TwoTo[k]) * TwoTo[k]
    <2>1. Magnitude(n) = n
      BY DEF Magnitude
    <2>2. \A x : Signed(n, x) = x
      BY DEF Signed
    <2>. QED
      BY <2>1, <2>2 DEF Nearest
  <1>. HIDE DEF k
  <1>. DEFINE ulp == Power(2, k)
              r == RoundDiv(n, q * ulp)
  <1>5. TwoTo[k] = ulp /\ ulp \in Nat \ {0}
    BY <1>2, <1>3, PowerIsPositive
  <1>6. q * ulp \in Nat \ {0}
    <2>. HIDE DEF ulp
    <2>. QED
      BY <1>5
  <1>7. /\ r \in Nat
        /\ 2 * ((q * ulp) * r - n) <= q * ulp /\ 2 * (n - (q * ulp) * r) <= q * ulp
    BY <1>6, RoundDivIsNear
  <1>8. Nearest(n, q) = r * ulp
    BY <1>4, <1>5
  <1>. HIDE DEF ulp, r
  <1>9. (q * ulp) * r = q * (r * ulp) /\ r * ulp \in Nat
    BY <1>5, <1>7
  <1>10. /\ Nearest(n, q) \in Nat
         /\ 2 * (q * Nearest(n, q) - n) <= q * ulp
         /\ 2 * (n - q * Nearest(n, q)) <= q * ulp
    BY <1>7, <1>8, <1>9
  <1>. QED
    BY <1>3, <1>5, <1>10 DEF ulp

\* Rounding is symmetric.
LEMMA NearestOfNegative ==
    ASSUME NEW a \in Nat, NEW q \in Nat \ {0}, a < q * Power(2, MantissaBits + MaxExponent)
    PROVE  /\ Nearest(a, q) \in Nat
           /\ Nearest(-a, q) = -Nearest(a, q)
           /\ a = 0 => Nearest(a, q) = 0
  <1>1. PICK k \in 0..MaxExponent :
           /\ IsExponent(k, a, q) /\ Nearest(a, q) \in Nat /\ Power(2, k) \in Nat \ {0}
           /\ 2 * (q * Nearest(a, q) - a) <= q * Power(2, k)
    BY NearestIsNear
  <1>2. CASE a = 0
    <2>1. k = 0
      <3>. SUFFICES ASSUME k # 0 PROVE FALSE
        OBVIOUS
      <3>1. 0 >= q * Power(2, MantissaBits + k - 1)
        BY <1>1, <1>2 DEF IsExponent
      <3>2. MantissaBits + k - 1 \in Nat
        BY FormatPowers
      <3>3. Power(2, MantissaBits + k - 1) \in Nat \ {0}
        BY <3>2, PowerIsPositive
      <3>. QED
        BY <3>1, <3>3
    <2>2. Power(2, 0) = 1
      BY PowerOfNext
    <2>3. 2 * (q * Nearest(a, q)) <= q
      BY <1>1, <1>2, <2>1, <2>2
    <2>4. \A r \in Nat : r # 0 => 2 * (q * r) > q
      OBVIOUS
    <2>5. Nearest(0, q) = 0
      BY <1>1, <1>2, <2>3, <2>4
    <2>. QED
      BY <1>2, <2>5
  <1>3. CASE a # 0
    <2>1. Magnitude(-a) = a /\ Magnitude(a) = a
      BY <1>3 DEF Magnitude
    <2>2. \A x : Signed(-a, x) = -x /\ Signed(a, x) = x
      BY <1>3 DEF Signed
    <2>. DEFINE exponent(size) == CHOOSE j \in 0..MaxExponent :
                                      /\ size < q * TwoTo[MantissaBits + j]
                                      /\ j = 0 \/ size >= q * TwoTo[MantissaBits + j - 1]
                Rounded(size) ==
                    RoundDiv(size, q * TwoTo[exponent(size)]) * TwoTo[exponent(size)]
    <2>4. Nearest(-a, q) = Signed(-a, Rounded(Magnitude(-a)))
      BY Zenon DEF Nearest
    <2>5. Nearest(a, q) = Signed(a, Rounded(Magnitude(a)))
      BY Zenon DEF Nearest
    <2>. HIDE DEF Rounded
    <2>3. Nearest(-a, q) = -Nearest(a, q)
      BY <2>1, <2>2, <2>4, <2>5
    <2>. QED
      BY <1>1, <2>3
  <1>. QED
    BY <1>2, <1>3

\* The relative error of the nearest float is at most one over 2^MantissaBits, if
\* the mantissa is full, or the number an integer.
LEMMA NearestIsClose ==
    ASSUME NEW n \in Nat, NEW q \in Nat \ {0}, n < q * Power(2, MantissaBits + MaxExponent),
           q * Power(2, MantissaBits - 1) <= n \/ q = 1
    PROVE  LET B == Power(2, MantissaBits)
               x == Nearest(n, q)
           IN  x \in Nat /\ B * (q * x - n) <= n /\ B * (n - q * x) <= n
  <1>. DEFINE B == Power(2, MantissaBits)
              x == Nearest(n, q)
  <1>1. /\ MantissaBits \in Nat /\ MaxExponent \in Nat /\ MantissaBits - 1 \in Nat
        /\ B \in Nat \ {0} /\ 2 * Power(2, MantissaBits - 1) = B
    BY FormatPowers
  <1>2. q \in Nat \ {0} /\ n \in Nat
    OBVIOUS
  <1>4. PICK k \in 0..MaxExponent :
           /\ IsExponent(k, n, q) /\ x \in Nat /\ Power(2, k) \in Nat \ {0}
           /\ 2 * (q * x - n) <= q * Power(2, k)
           /\ 2 * (n - q * x) <= q * Power(2, k)
    BY NearestIsNear
  <1>. DEFINE ulp == Power(2, k)
  <1>3. CASE k = 0 /\ q = 1
    <2>1. Power(2, 0) = 1
      BY PowerOfNext
    <2>2. 2 * (x - n) <= 1 /\ 2 * (n - x) <= 1
      BY <1>3, <1>4, <2>1
    <2>3. x = n
      BY <1>4, <2>2
    <2>4. q * x - n = 0 /\ n - q * x = 0 /\ B * 0 = 0
      BY <1>1, <1>3, <2>3
    <2>. QED
      BY <1>4, <2>4
  <1>5. ASSUME ~(k = 0 /\ q = 1)
        PROVE  q * (B * ulp) <= 2 * n
    <2>1. CASE k = 0
      <3>1. Power(2, 0) = 1
        BY PowerOfNext
      <3>. DEFINE H == Power(2, MantissaBits - 1)
      <3>2. H \in Nat /\ 2 * H = B /\ q * H <= n /\ q * H \in Nat
        BY <1>1, <1>5, <2>1, PowerIsPositive
      <3>3. ulp = 1
        BY <2>1, <3>1
      <3>. HIDE DEF B, H, ulp
      <3>4. q * (B * ulp) = 2 * (q * H)
        BY <3>2, <3>3
      <3>. QED
        BY <3>2, <3>4
    <2>2. CASE k # 0
      <3>1. n >= q * Power(2, MantissaBits + k - 1)
        BY <1>4, <2>2 DEF IsExponent
      <3>2. MantissaBits + k - 1 \in Nat /\ (MantissaBits + k - 1) + 1 = MantissaBits + k
        BY <1>1, <2>2
      <3>3. Power(2, MantissaBits + k) = 2 * Power(2, MantissaBits + k - 1)
            /\ Power(2, MantissaBits + k - 1) \in Nat
        BY <3>2, PowerOfNext
      <3>4. Power(2, MantissaBits + k) = B * ulp
        BY <1>1, PowersAdd
      <3>. DEFINE H == Power(2, MantissaBits + k - 1)
      <3>5. H \in Nat /\ B * ulp = 2 * H /\ n >= q * H
        BY <3>1, <3>3, <3>4
      <3>. HIDE DEF H, B, ulp
      <3>6. q * (2 * H) = 2 * (q * H) /\ q * H \in Nat
        BY <1>2, <3>5
      <3>. QED
        BY <1>2, <3>5, <3>6
    <2>. QED
      BY <2>1, <2>2
  <1>6. ASSUME ~(k = 0 /\ q = 1)
        PROVE  B * (q * x - n) <= n /\ B * (n - q * x) <= n
    <2>. DEFINE over == q * x - n
                e == q * ulp
    <2>1. over \in Int /\ 2 * over <= e /\ 2 * (-over) <= e /\ e \in Nat /\ ulp \in Nat
      BY <1>2, <1>4
    <2>2. B * e = q * (B * ulp)
      <3>. HIDE DEF B, ulp
      <3>. QED
        BY <1>1, <1>2, <2>1
    <2>3. B * e <= 2 * n
      BY <1>5, <1>6, <2>2
    <2>4. n - q * x = -over
      BY <1>2, <1>4
    <2>. HIDE DEF over, e, B
    <2>5. B * (2 * over) <= B * e /\ B * (2 * (-over)) <= B * e
      BY <1>1, <2>1
    <2>6. B * (2 * over) = 2 * (B * over) /\ B * (2 * (-over)) = 2 * (B * (-over))
          /\ B * over \in Int /\ B * (-over) \in Int
      BY <1>1, <2>1
    <2>7. B * over <= n /\ B * (-over) <= n
      <3>1. B * e \in Nat
        BY <1>1, <2>1
      <3>2. \A s \in Int, t \in Nat : 2 * s <= t /\ t <= 2 * n => s <= n
        BY <1>2
      <3>. QED
        BY <2>3, <2>5, <2>6, <3>1, <3>2
    <2>. QED
      BY <2>4, <2>7 DEF over
  <1>. QED
    BY <1>3, <1>4, <1>6

\* A decimal well within the mantissa is off by little when it is parsed: by a
\* sixteenth of a unit of the amount, once it is scaled.
LEMMA ParsedIsNear ==
    ASSUME NEW D \in Nat \ {0}, D <= 10 * Power(2, MantissaBits - 4)
    PROVE  LET x == Nearest(D * One, 10 * Scale)
           IN  /\ x \in Nat
               /\ 80 * (x * Scale) <= (8 * D + 5) * One
               /\ (8 * D - 5) * One <= 80 * (x * Scale)
               /\ D * One < (10 * Scale) * Power(2, MantissaBits + MaxExponent)
  <1>. DEFINE B == Power(2, MantissaBits)
              L == Power(2, MantissaBits - 4)
              q == 10 * Scale
              n == D * One
              x == Nearest(n, q)
  <1>1. /\ MantissaBits \in Nat /\ MaxExponent \in Nat /\ MantissaBits - 1 \in Nat
        /\ One \in Nat \ {0} /\ Scale \in Nat \ {0}
        /\ B \in Nat \ {0} /\ L \in Nat \ {0} /\ B = 16 * L
        /\ 2 * Power(2, MantissaBits - 1) = B
        /\ q * Power(2, MantissaBits - 1) <= One
        /\ B <= Power(2, IntBits - 1) /\ IntBits - 1 \in Nat
        /\ Power(2, IntBits - 1) * One * 2 <= Power(2, MantissaBits + MaxExponent)
    BY FormatPowers
  <1>2. D <= 10 * L /\ q \in Nat \ {0} /\ n \in Nat
    BY <1>1
  <1>3. n < q * Power(2, MantissaBits + MaxExponent)
    <2>1. Power(2, IntBits - 1) \in Nat \ {0} /\ Power(2, MantissaBits + MaxExponent) \in Nat \ {0}
      <3>1. MantissaBits + MaxExponent \in Nat
        BY <1>1
      <3>. QED
        BY <1>1, <3>1, PowerIsPositive
    <2>. DEFINE T == Power(2, IntBits - 1)
                E == Power(2, MantissaBits + MaxExponent)
    <2>2. T \in Nat \ {0} /\ E \in Nat \ {0} /\ B <= T /\ T * One * 2 <= E
      BY <1>1, <2>1
    <2>. HIDE DEF B, L, T, E, q
    <2>3. D <= T
      BY <1>1, <1>2, <2>2
    <2>4. n <= T * One
      BY <1>1, <2>2, <2>3
    <2>5. T * One * 2 > T * One
      BY <1>1, <2>2
    <2>6. E <= q * E
      BY <1>2, <2>2
    <2>7. T * One \in Nat /\ q * E \in Nat
      BY <1>1, <1>2, <2>2
    <2>. QED
      BY <1>2, <2>2, <2>4, <2>5, <2>6, <2>7 DEF E
  <1>5. q * Power(2, MantissaBits - 1) <= n
    <2>1. Power(2, MantissaBits - 1) \in Nat
      BY <1>1, PowerIsPositive
    <2>2. q * Power(2, MantissaBits - 1) \in Nat /\ One <= n
      BY <1>1, <1>2, <2>1
    <2>. HIDE DEF n, q
    <2>. QED
      BY <1>1, <1>2, <2>2
  <1>4. x \in Nat
    <2>. HIDE DEF n, q
    <2>. QED
      BY <1>2, <1>3, <1>5, NearestIsClose DEF x
  <1>6. B * (q * x - n) <= n /\ B * (n - q * x) <= n
    <2>. HIDE DEF n, q
    <2>. QED
      BY <1>2, <1>3, <1>5, NearestIsClose DEF x, B
  <1>7. q * x = 10 * (x * Scale) /\ x * Scale \in Nat
    BY <1>1, <1>4
  <1>8. 8 * n <= 5 * (B * One)
    <2>1. 16 * D <= 10 * B
      BY <1>1, <1>2
    <2>2. 8 * D <= 5 * B
      BY <1>1, <2>1
    <2>. HIDE DEF B
    <2>3. (8 * D) * One <= (5 * B) * One
      BY <1>1, <2>2
    <2>4. (8 * D) * One = 8 * n /\ (5 * B) * One = 5 * (B * One)
      BY <1>1
    <2>. QED
      BY <2>3, <2>4
  <1>9. 80 * (x * Scale) <= 8 * n + 5 * One /\ 8 * n - 5 * One <= 80 * (x * Scale)
    <2>. DEFINE y == 8 * (q * x - n)
    <2>1. y \in Int /\ B * y = 8 * (B * (q * x - n)) /\ B * (-y) = 8 * (B * (n - q * x))
      <3>1. q * x \in Nat
        BY <1>7
      <3>. HIDE DEF B, q, n
      <3>. QED
        BY <1>1, <1>2, <3>1
    <2>2. B * y <= B * (5 * One) /\ B * (-y) <= B * (5 * One)
      <3>1. /\ B * (q * x - n) \in Int /\ B * (n - q * x) \in Int
            /\ B * (5 * One) = 5 * (B * One) /\ B * One \in Nat
        <4>1. q * x \in Nat
          BY <1>7
        <4>. HIDE DEF B, q, n
        <4>. QED
          BY <1>1, <1>2, <4>1
      <3>. HIDE DEF B, q, n, y
      <3>. QED
        BY <1>2, <1>6, <1>8, <2>1, <3>1
    <2>3. \A u \in Int, v \in Int : B * u <= B * v => u <= v
      <3>. HIDE DEF B
      <3>. QED
        BY <1>1
    <2>4. y <= 5 * One /\ -y <= 5 * One
      <3>1. -y \in Int /\ 5 * One \in Int
        BY <1>1, <2>1
      <3>. HIDE DEF B, y
      <3>. QED
        BY <2>1, <2>2, <2>3, <3>1
    <2>5. y = 80 * (x * Scale) - 8 * n
      BY <1>2, <1>7
    <2>. HIDE DEF n, y
    <2>. QED
      BY <1>1, <1>2, <1>7, <2>1, <2>4, <2>5
  <1>10. (8 * D + 5) * One = 8 * n + 5 * One /\ (8 * D - 5) * One = 8 * n - 5 * One
    BY <1>1
  <1>. QED
    BY <1>3, <1>4, <1>9, <1>10

\* Of two powers of two, the larger is at least twice the smaller.
LEMMA TwoPowersGap ==
    ASSUME NEW m \in Nat, NEW n \in Nat, Power(2, m) < Power(2, n)
    PROVE  2 * Power(2, m) <= Power(2, n)
  <1>1. m + 1 <= n /\ m + 1 \in Nat
    BY TwoPowersOrder
  <1>2. Power(2, m + 1) = 2 * Power(2, m)
    BY PowerOfNext
  <1>. QED
    BY <1>1, <1>2, TwoPowersGrow

\* The place of the last bit of what is not more than the largest of the amounts
\* considered is an eighth of a unit, and a sixteenth if it is less.
LEMMA LastPlace ==
    ASSUME NEW z \in Nat, NEW k \in Nat, IsExponent(k, z, 1),
           16 * z <= (Power(2, MantissaBits) + 1) * One
    PROVE  /\ 8 * Power(2, k) <= One
           /\ 16 * z < Power(2, MantissaBits) * One => 16 * Power(2, k) <= One
  <1>. DEFINE B == Power(2, MantissaBits)
              ulp == Power(2, k)
  <1>1. /\ MantissaBits \in Nat /\ MantissaBits - 1 \in Nat /\ FractionBits \in Nat
        /\ One \in Nat \ {0} /\ Scale \in Nat \ {0} /\ One = Power(2, FractionBits)
        /\ B \in Nat /\ B >= 16
        /\ 2 * Power(2, MantissaBits - 1) = B
        /\ 10 * Scale * Power(2, MantissaBits - 1) <= One
    BY FormatPowers
  <1>2. ulp \in Nat \ {0}
    BY PowerIsPositive
  <1>3. CASE k = 0
    <2>1. ulp = 1
      BY <1>3, PowerOfNext
    <2>. DEFINE H == Power(2, MantissaBits - 1)
    <2>2. H \in Nat /\ H >= 8 /\ (10 * Scale) * H <= One
      BY <1>1, PowerIsPositive
    <2>. HIDE DEF H, ulp, B
    <2>3. 10 * H <= (10 * Scale) * H
      BY <1>1, <2>2
    <2>4. (10 * Scale) * H \in Nat
      BY <1>1, <2>2
    <2>. QED
      BY <1>1, <2>1, <2>2, <2>3, <2>4 DEF ulp
  <1>4. CASE k # 0
    <2>2. MantissaBits + k - 1 \in Nat /\ (MantissaBits + k - 1) + 1 = MantissaBits + k
      BY <1>1, <1>4
    <2>1. Power(2, MantissaBits + k - 1) <= z
      <3>1. z >= 1 * Power(2, MantissaBits + k - 1)
        BY <1>4 DEF IsExponent
      <3>2. Power(2, MantissaBits + k - 1) \in Nat
        BY <2>2, PowerIsPositive
      <3>. QED
        BY <3>1, <3>2
    <2>3. Power(2, MantissaBits + k) = 2 * Power(2, MantissaBits + k - 1)
          /\ Power(2, MantissaBits + k - 1) \in Nat
      BY <2>2, PowerOfNext
    <2>4. Power(2, MantissaBits + k) = B * ulp
      BY <1>1, PowersAdd
    <2>5. B * ulp <= 2 * z /\ B * ulp \in Nat
      BY <2>1, <2>3, <2>4
    <2>6. /\ Power(2, k + 1) = 2 * ulp /\ Power(2, (k + 1) + 1) = 2 * Power(2, k + 1)
          /\ Power(2, ((k + 1) + 1) + 1) = 2 * Power(2, (k + 1) + 1)
      BY PowerOfNext
    <2>7. Power(2, k + 3) = 8 * ulp /\ k + 3 \in Nat
      <3>1. ((k + 1) + 1) + 1 = k + 3
        OBVIOUS
      <3>. QED
        BY <1>2, <2>6, <3>1
    <2>8. B * (8 * ulp) <= 16 * z
      <3>1. B * (8 * ulp) = 8 * (B * ulp)
        <4>. HIDE DEF B, ulp
        <4>. QED
          BY <1>1, <1>2
      <3>. QED
        BY <2>5, <3>1
    <2>9. 8 * ulp <= One
      <3>. SUFFICES ASSUME One < 8 * ulp
                    PROVE  FALSE
        BY <1>1, <1>2
      <3>1. 2 * One <= 8 * ulp
        BY <1>1, <2>7, TwoPowersGap
      <3>2. B * (8 * ulp) <= (B + 1) * One
        <4>1. B * (8 * ulp) \in Int /\ (B + 1) * One \in Int
          BY <1>1, <1>2
        <4>. QED
          BY <2>8, <4>1
      <3>. HIDE DEF B, ulp
      <3>3. B * (2 * One) <= B * (8 * ulp)
        BY <1>1, <1>2, <3>1
      <3>4. B * (2 * One) = B * One + B * One /\ (B + 1) * One = B * One + One /\ B * One >= 16 * One
        BY <1>1
      <3>5. B * One \in Nat /\ B * (8 * ulp) \in Int
        BY <1>1, <1>2
      <3>. QED
        BY <1>1, <3>2, <3>3, <3>4, <3>5
    <2>10. ASSUME 16 * z < B * One
           PROVE  16 * ulp <= One
      <3>1. B * (8 * ulp) < B * One
        <4>1. B * (8 * ulp) \in Int /\ B * One \in Int
          BY <1>1, <1>2
        <4>. QED
          BY <2>8, <2>10, <4>1
      <3>2. 8 * ulp < One
        <4>. HIDE DEF B, ulp
        <4>. QED
          BY <1>1, <1>2, <3>1
      <3>3. 2 * (8 * ulp) <= One
        BY <1>1, <2>7, <3>2, TwoPowersGap
      <3>. QED
        BY <1>2, <3>3
    <2>. QED
      BY <2>9, <2>10
  <1>. QED
    BY <1>3, <1>4

\* The amount of a decimal without sign is what is left of it without its last
\* place, or one unit less if the last place is zero.
LEMMA AmountIsKept ==
    ASSUME NEW D \in Nat \ {0}, D <= 10 * Power(2, MantissaBits - 4)
    PROVE  LET z == Nearest(D * One, 10 * Scale) * Scale
               m == Nearest(z, 1) \div One
           IN  /\ z \in Nat /\ z < 1 * Power(2, MantissaBits + MaxExponent)
               /\ Nearest(z, 1) \in Nat
               /\ m \in Nat /\ m \in {D \div 10, D \div 10 - 1}
               /\ D % 10 # 0 => m = D \div 10
  <1>. DEFINE B == Power(2, MantissaBits)
              L == Power(2, MantissaBits - 4)
              T == Power(2, IntBits - 1)
              E == Power(2, MantissaBits + MaxExponent)
              x == Nearest(D * One, 10 * Scale)
              z == x * Scale
              y == Nearest(z, 1)
              e == D \div 10
  <1>1. /\ MantissaBits \in Nat /\ MaxExponent \in Nat
        /\ One \in Nat \ {0} /\ Scale \in Nat \ {0}
        /\ B \in Nat \ {0} /\ L \in Nat \ {0} /\ B = 16 * L /\ B <= T /\ T * One * 2 <= E
    BY FormatPowers
  <1>2. T \in Nat \ {0} /\ E \in Nat \ {0}
    <2>1. MantissaBits + MaxExponent \in Nat /\ IntBits - 1 \in Nat
      BY FormatPowers
    <2>. QED
      BY <2>1, PowerIsPositive
  <1>3. /\ x \in Nat
        /\ 80 * (x * Scale) <= (8 * D + 5) * One
        /\ (8 * D - 5) * One <= 80 * (x * Scale)
    BY ParsedIsNear
  <1>. HIDE DEF x
  <1>4. z \in Nat /\ 80 * z <= (8 * D + 5) * One /\ (8 * D - 5) * One <= 80 * z
    BY <1>1, <1>3
  <1>5. D <= 10 * L
    OBVIOUS
  <1>. HIDE DEF B, L, T, E, z
  <1>6. 16 * z <= (B + 1) * One
    <2>1. (8 * D + 5) * One <= (5 * (B + 1)) * One
      <3>1. 8 * D + 5 <= 5 * (B + 1)
        BY <1>1, <1>5
      <3>. QED
        BY <1>1, <3>1
    <2>2. (5 * (B + 1)) * One = 5 * ((B + 1) * One) /\ (B + 1) * One \in Nat /\ (8 * D + 5) * One \in Nat
      BY <1>1
    <2>. QED
      BY <1>4, <2>1, <2>2
  <1>7. z < E
    <2>1. (B + 1) * One = B * One + One /\ B * One <= T * One /\ One <= B * One
      BY <1>1, <1>2
    <2>2. T * One \in Nat /\ B * One \in Nat
      BY <1>1, <1>2
    <2>. QED
      BY <1>1, <1>2, <1>4, <1>6, <2>1, <2>2
  <1>8. PICK k \in 0..MaxExponent :
           /\ IsExponent(k, z, 1) /\ y \in Nat /\ Power(2, k) \in Nat \ {0}
           /\ 2 * (1 * y - z) <= 1 * Power(2, k)
           /\ 2 * (z - 1 * y) <= 1 * Power(2, k)
    <2>1. z < 1 * Power(2, MantissaBits + MaxExponent)
      BY <1>2, <1>7 DEF E
    <2>. QED
      BY <1>4, <2>1, NearestIsNear
  <1>. DEFINE ulp == Power(2, k)
  <1>9. /\ 8 * ulp <= One
        /\ 16 * z < B * One => 16 * ulp <= One
    BY <1>4, <1>6, <1>8, LastPlace DEF B
  <1>10. y \in Nat /\ ulp \in Nat /\ 2 * (y - z) <= ulp /\ 2 * (z - y) <= ulp
    BY <1>8
  <1>. HIDE DEF y, ulp
  <1>11. e \in Nat /\ 10 * e <= D /\ D <= 10 * e + 9 /\ (D % 10 # 0 => D # 10 * e)
    OBVIOUS
  <1>. HIDE DEF e
  <1>. DEFINE u == e * One
  <1>12. u \in Nat /\ (e + 1) * One = u + One /\ (e - 1) * One = u - One
    BY <1>1, <1>11
  <1>13. 80 * z <= 80 * u + 77 * One /\ 80 * u - 5 * One <= 80 * z
    <2>1. 8 * D + 5 <= 80 * e + 77 /\ 80 * e - 5 <= 8 * D - 5
      BY <1>11
    <2>2. (8 * D + 5) * One <= (80 * e + 77) * One /\ (80 * e - 5) * One <= (8 * D - 5) * One
      BY <1>1, <1>11, <2>1
    <2>3. (80 * e + 77) * One = 80 * u + 77 * One /\ (80 * e - 5) * One = 80 * u - 5 * One
      BY <1>1, <1>11
    <2>4. (8 * D + 5) * One \in Int /\ (8 * D - 5) * One \in Int
      BY <1>1
    <2>. HIDE DEF u
    <2>. QED
      BY <1>1, <1>4, <1>12, <2>2, <2>3, <2>4
  <1>14. D = 10 * e => 80 * z <= 80 * u + 5 * One
    <2>. SUFFICES ASSUME D = 10 * e
                  PROVE  80 * z <= 80 * u + 5 * One
      OBVIOUS
    <2>1. (8 * (10 * e) + 5) * One = 80 * u + 5 * One
      BY <1>1, <1>11
    <2>. QED
      BY <1>4, <2>1
  <1>15. D # 10 * e => 16 * z < B * One
    <2>. SUFFICES ASSUME D # 10 * e
                  PROVE  16 * z < B * One
      OBVIOUS
    <2>1. e + 1 <= L
      BY <1>1, <1>5, <1>11
    <2>2. (e + 1) * One <= L * One
      BY <1>1, <1>11, <2>1
    <2>3. B * One = 16 * (L * One) /\ L * One \in Nat
      BY <1>1
    <2>. HIDE DEF u
    <2>. QED
      BY <1>1, <1>4, <1>12, <1>13, <2>2, <2>3
  <1>. HIDE DEF u
  <1>16. y < u + One
    <2>1. CASE D = 10 * e
      BY <1>1, <1>4, <1>9, <1>10, <1>12, <1>14, <2>1
    <2>2. CASE D # 10 * e
      <3>1. 16 * ulp <= One
        BY <1>9, <1>15, <2>2
      <3>. QED
        BY <1>1, <1>4, <1>10, <1>12, <1>13, <3>1
    <2>. QED
      BY <2>1, <2>2
  <1>17. u - One <= y
    BY <1>1, <1>4, <1>9, <1>10, <1>12, <1>13
  <1>23. D # 10 * e => u <= y
    <2>. SUFFICES ASSUME D # 10 * e
                  PROVE  u <= y
      OBVIOUS
    <2>1. 16 * ulp <= One
      BY <1>9, <1>15
    <2>2. 80 * u + 3 * One <= 80 * z
      <3>1. 80 * e + 3 <= 8 * D - 5
        BY <1>11
      <3>2. (80 * e + 3) * One <= (8 * D - 5) * One /\ (8 * D - 5) * One \in Int
        BY <1>1, <1>11, <3>1
      <3>3. (80 * e + 3) * One = 80 * u + 3 * One
        BY <1>1, <1>11 DEF u
      <3>. QED
        BY <1>1, <1>4, <1>12, <3>2, <3>3
    <2>. QED
      BY <1>1, <1>4, <1>10, <1>12, <2>1, <2>2
  <1>. DEFINE m == y \div One
  <1>18. m \in Nat /\ m * One <= y /\ y < m * One + One
    BY <1>1, <1>10
  <1>. HIDE DEF m
  <1>19. m < e + 1
    <2>1. m * One < (e + 1) * One
      <3>1. m * One \in Nat
        BY <1>1, <1>18
      <3>. QED
        BY <1>1, <1>10, <1>12, <1>16, <1>18, <3>1
    <2>. QED
      BY <1>1, <1>11, <1>18, <2>1
  <1>20. e - 1 < m + 1
    <2>1. (m + 1) * One = m * One + One /\ m * One \in Nat
      BY <1>1, <1>18
    <2>2. (e - 1) * One < (m + 1) * One
      BY <1>1, <1>10, <1>12, <1>17, <1>18, <2>1
    <2>. QED
      BY <1>1, <1>11, <1>18, <2>2
  <1>21. m \in {e, e - 1}
    BY <1>11, <1>18, <1>19, <1>20
  <1>24. D % 10 # 0 => m = e
    <2>. SUFFICES ASSUME D # 10 * e
                  PROVE  m = e
      BY <1>11
    <2>1. e * One < (m + 1) * One
      <3>1. (m + 1) * One = m * One + One /\ m * One \in Nat
        BY <1>1, <1>18
      <3>. QED
        BY <1>1, <1>10, <1>12, <1>18, <1>23, <3>1 DEF u
    <2>2. e < m + 1
      BY <1>1, <1>11, <1>18, <2>1
    <2>. QED
      BY <1>11, <1>18, <1>19, <2>2
  <1>22. z < 1 * E
    BY <1>2, <1>7
  <1>. QED
    BY <1>4, <1>10, <1>18, <1>21, <1>22, <1>24 DEF x, y, z, m, e, E

\* The same of zero.
LEMMA MagnitudeIsKept ==
    ASSUME NEW D \in Nat, D <= 10 * Power(2, MantissaBits - 4)
    PROVE  LET z == Nearest(D * One, 10 * Scale) * Scale
               m == Nearest(z, 1) \div One
           IN  /\ D * One \in Nat /\ 10 * Scale \in Nat \ {0} /\ One \in Nat \ {0} /\ Scale \in Nat
               /\ D * One < (10 * Scale) * Power(2, MantissaBits + MaxExponent)
               /\ Nearest(D * One, 10 * Scale) \in Nat
               /\ z \in Nat /\ z < 1 * Power(2, MantissaBits + MaxExponent)
               /\ Nearest(z, 1) \in Nat
               /\ m \in Nat /\ m \in {D \div 10, D \div 10 - 1}
               /\ D % 10 # 0 => m = D \div 10
  <1>1. One \in Nat \ {0} /\ Scale \in Nat \ {0} /\ 10 * Scale \in Nat \ {0} /\ D * One \in Nat
    BY FormatPowers
  <1>2. CASE D = 0
    <2>1. Power(2, MantissaBits + MaxExponent) \in Nat \ {0}
      <3>1. MantissaBits + MaxExponent \in Nat
        BY FormatPowers
      <3>. QED
        BY <3>1, PowerIsPositive
    <2>2. 0 < (10 * Scale) * Power(2, MantissaBits + MaxExponent)
          /\ 0 < 1 * Power(2, MantissaBits + MaxExponent)
      BY <1>1, <2>1
    <2>3. \A q \in Nat \ {0} : 0 < q * Power(2, MantissaBits + MaxExponent) => Nearest(0, q) = 0
      <3>. SUFFICES ASSUME NEW q \in Nat \ {0}, 0 < q * Power(2, MantissaBits + MaxExponent)
                    PROVE  Nearest(0, q) = 0
        OBVIOUS
      <3>. QED
        BY NearestOfNegative
    <2>4. Nearest(0, 10 * Scale) = 0 /\ Nearest(0, 1) = 0
      BY <1>1, <2>2, <2>3
    <2>5. 0 * One = 0 /\ 0 * Scale = 0 /\ 0 \div One = 0 /\ 0 \div 10 = 0 /\ 0 % 10 = 0
      BY <1>1
    <2>. QED
      BY <1>1, <1>2, <2>2, <2>4, <2>5
  <1>3. CASE D # 0
    BY <1>1, <1>3, ParsedIsNear, AmountIsKept
  <1>. QED
    BY <1>2, <1>3

\* An amount well within the mantissa is well within the integers.
LEMMA SmallIsInRange ==
    ASSUME NEW m \in Nat, m <= Power(2, MantissaBits - 4)
    PROVE  /\ InRange(m) /\ InRange(-m)
           /\ AsInt(m) = m /\ AsInt(-m) = -m
  <1>. DEFINE B == Power(2, MantissaBits)
              L == Power(2, MantissaBits - 4)
              T == Power(2, IntBits - 1)
              E == Power(2, MantissaBits + MaxExponent)
  <1>1. /\ MantissaBits \in Nat /\ MantissaBits - 1 \in Nat
        /\ One \in Nat \ {0}
        /\ L \in Nat \ {0} /\ B = 16 * L /\ B <= T
        /\ T * One * 2 <= E
        /\ MaxInt = T - 1 /\ MinInt = -T
        /\ 2 * Power(2, MantissaBits - 1) = B
    BY FormatPowers
  <1>2. T \in Nat \ {0} /\ E \in Nat \ {0}
    <2>1. MantissaBits + MaxExponent \in Nat /\ IntBits - 1 \in Nat
      BY FormatPowers
    <2>. QED
      BY <2>1, PowerIsPositive
  <1>3. MaxInt = T - 1
    BY <1>1
  <1>4. m <= MaxInt /\ m <= T /\ MaxInt \in Nat
    BY <1>1, <1>2, <1>3
  <1>5. AsInt(m) = m /\ AsInt(-m) = -m
    BY <1>1, <1>2, <1>4 DEF AsInt
  \* Half of a number, at least, is left of it when it is rounded.
  <1>6. ASSUME NEW n \in Nat \ {0}, n < 1 * E
        PROVE  Nearest(n, 1) \in Nat /\ n <= 2 * Nearest(n, 1)
    <2>1. PICK k \in 0..MaxExponent :
             /\ IsExponent(k, n, 1) /\ Nearest(n, 1) \in Nat /\ Power(2, k) \in Nat \ {0}
             /\ 2 * (n - 1 * Nearest(n, 1)) <= 1 * Power(2, k)
      BY <1>6, NearestIsNear
    <2>2. Power(2, k) <= n
      <3>1. CASE k = 0
        <4>1. Power(2, 0) = 1
          BY PowerOfNext
        <4>. QED
          BY <3>1, <4>1
      <3>2. CASE k # 0
        <4>1. MantissaBits + k - 1 \in Nat /\ k <= MantissaBits + k - 1
          BY <1>1
        <4>2. Power(2, MantissaBits + k - 1) \in Nat /\ Power(2, k) <= Power(2, MantissaBits + k - 1)
          BY <4>1, PowerIsPositive, TwoPowersGrow
        <4>3. n >= 1 * Power(2, MantissaBits + k - 1)
          BY <2>1, <3>2 DEF IsExponent
        <4>. QED
          BY <2>1, <4>2, <4>3
      <3>. QED
        BY <3>1, <3>2
    <2>. QED
      BY <2>1, <2>2
  <1>. HIDE DEF B, L, T, E
  <1>7. m * One * 2 <= MaxInt * One /\ MaxInt * One <= T * One /\ T * One < E
        /\ MaxInt * One \in Nat \ {0} /\ T * One \in Nat \ {0} /\ m * One \in Nat
    <2>1. 2 * m <= MaxInt /\ MaxInt \in Nat \ {0} /\ MaxInt <= T
      BY <1>1, <1>2, <1>3 DEF L
    <2>2. (2 * m) * One <= MaxInt * One /\ MaxInt * One <= T * One
      BY <1>1, <1>2, <2>1
    <2>3. (2 * m) * One = m * One * 2 /\ MaxInt * One \in Nat \ {0} /\ T * One \in Nat \ {0} /\ m * One \in Nat
      BY <1>1, <1>2, <2>1
    <2>. QED
      BY <1>1, <1>2, <2>2, <2>3
  <1>8. AsFloat(MaxInt) \in Nat /\ m * One <= AsFloat(MaxInt)
    <2>1. Nearest(MaxInt * One, 1) \in Nat /\ MaxInt * One <= 2 * Nearest(MaxInt * One, 1)
      <3>1. MaxInt * One < 1 * E
        BY <1>2, <1>7
      <3>. QED
        BY <1>6, <1>7, <3>1
    <2>. QED
      BY <1>7, <2>1 DEF AsFloat
  <1>9. AsFloat(MinInt) \in Int /\ AsFloat(MinInt) <= -(m * One)
    <2>1. T * One < 1 * E
      BY <1>2, <1>7
    <2>2. Nearest(T * One, 1) \in Nat /\ T * One <= 2 * Nearest(T * One, 1)
      BY <1>6, <1>7, <2>1
    <2>3. Nearest(-(T * One), 1) = -Nearest(T * One, 1)
      BY <1>7, <2>1, NearestOfNegative DEF E
    <2>4. MinInt * One = -(T * One)
      BY <1>1, <1>2
    <2>5. AsFloat(MinInt) = -Nearest(T * One, 1)
      BY <2>3, <2>4 DEF AsFloat
    <2>. QED
      BY <1>7, <2>2, <2>5
  <1>10. (-m) * One = -(m * One)
    BY <1>1
  <1>11. InRange(m) /\ InRange(-m)
    BY <1>7, <1>8, <1>9, <1>10 DEF InRange
  <1>. QED
    BY <1>5, <1>11

\* The decimal of a row becomes its amount, truncated, or one unit less if it has
\* no more places than an amount, and keeps its sign.
LEMMA DecimalIsKept ==
    ASSUME NEW d \in Int, Magnitude(d) <= 10 * Power(2, MantissaBits - 4)
    PROVE  \E m \in Truncated(d) : FromF64(Parsed(d)) = Some(Signed(d, m))
  <1>. DEFINE D == Magnitude(d)
              q == 10 * Scale
              x == Nearest(D * One, q)
              z == x * Scale
              y == Nearest(z, 1)
              m == y \div One
  <1>1. D \in Nat /\ (d >= 0 => D = d) /\ (d < 0 => D = -d)
    BY DEF Magnitude
  <1>2. /\ D * One \in Nat /\ q \in Nat \ {0} /\ One \in Nat \ {0} /\ Scale \in Nat
        /\ D * One < q * Power(2, MantissaBits + MaxExponent)
        /\ x \in Nat /\ z \in Nat /\ z < 1 * Power(2, MantissaBits + MaxExponent)
        /\ y \in Nat /\ m \in Nat /\ m \in {D \div 10, D \div 10 - 1}
        /\ D % 10 # 0 => m = D \div 10
    BY <1>1, MagnitudeIsKept
  <1>8. m \in Truncated(d)
    <2>. HIDE DEF m
    <2>. QED
      BY <1>2 DEF Truncated
  <1>3. m <= Power(2, MantissaBits - 4)
    <2>1. Power(2, MantissaBits - 4) \in Nat
      BY FormatPowers
    <2>2. D \div 10 <= Power(2, MantissaBits - 4) /\ D \div 10 \in Nat
      BY <1>1, <2>1
    <2>. HIDE DEF D, m
    <2>. QED
      BY <1>2, <2>1, <2>2
  <1>4. InRange(m) /\ InRange(-m) /\ AsInt(m) = m /\ AsInt(-m) = -m
    <2>. HIDE DEF m
    <2>. QED
      BY <1>2, <1>3, SmallIsInRange
  <1>5. Signed(d, m) = IF d < 0 THEN -m ELSE m
    BY DEF Signed
  <1>6. CASE d >= 0
    <2>1. Parsed(d) = {x}
      BY <1>1, <1>6 DEF Parsed, Some
    <2>2. Trunc(y) = m
      <3>1. Magnitude(y) = y /\ \A s : Signed(y, s) = s
        BY <1>2 DEF Magnitude, Signed
      <3>. QED
        BY <3>1 DEF Trunc
    <2>. HIDE DEF x, y, m
    <2>3. FromF64({x}) = {m}
      <3>1. {Trunc(Nearest(u * Scale, 1)) : u \in {x}} = {m}
        BY <2>2 DEF y
      <3>. QED
        BY <1>4, <3>1 DEF FromF64
    <2>4. Signed(d, m) = m
      BY <1>5, <1>6
    <2>. QED
      BY <1>8, <2>1, <2>3, <2>4 DEF Some
  <1>7. CASE d < 0
    <2>1. d * One = -(D * One)
      BY <1>1, <1>2, <1>7
    <2>2. Parsed(d) = {-x}
      <3>1. Nearest(-(D * One), q) = -x
        BY <1>2, NearestOfNegative
      <3>. QED
        BY <2>1, <3>1 DEF Parsed, Some
    <2>3. (-x) * Scale = -z
      <3>. HIDE DEF x
      <3>. QED
        BY <1>2
    <2>4. Nearest(-z, 1) = -y
      <3>. HIDE DEF z
      <3>. QED
        BY <1>2, NearestOfNegative
    <2>5. Trunc(-y) = -m
      <3>. HIDE DEF y
      <3>1. Magnitude(-y) = y
        BY <1>2 DEF Magnitude
      <3>2. CASE y = 0
        <4>1. 0 \div One = 0
          BY <1>2
        <4>. QED
          BY <1>2, <3>1, <3>2, <4>1 DEF Trunc, Signed
      <3>3. CASE y # 0
        BY <1>2, <3>1, <3>3 DEF Trunc, Signed
      <3>. QED
        BY <3>2, <3>3
    <2>. HIDE DEF x, y, z, m
    <2>6. FromF64({-x}) = {-m}
      <3>1. {Trunc(Nearest(u * Scale, 1)) : u \in {-x}} = {-m}
        BY <2>3, <2>4, <2>5
      <3>. QED
        BY <1>4, <3>1 DEF FromF64
    <2>7. Signed(d, m) = -m
      BY <1>5, <1>7
    <2>. QED
      BY <1>8, <2>2, <2>6, <2>7 DEF Some
  <1>. QED
    BY <1>6, <1>7

\* A decimal well within the mantissa becomes its amount, truncated, or one unit
\* less if it has no more places than an amount, and never more: whatever the
\* formats, the precision and the file.
THEOREM AmountsAreKeptHolds == ProgramSpec => []AmountsAreKept
  <1>1. ProgramInv => AmountsAreKept
    <2>. SUFFICES ASSUME ProgramInv, line <= Len(file), Row.typ # "unparsable",
                         NEW d \in Row.amount, Magnitude(d) <= 10 * TwoTo[MantissaBits - 4]
                  PROVE  \E m \in Truncated(d) : Converted(Row) = Some(Signed(d, m))
      BY DEF AmountsAreKept
    <2>1. file \in Files /\ line \in DOMAIN file /\ Row \in CsvEntry
      BY RowIsEntry DEF ProgramInv
    <2>2. d \in Int /\ \A e \in Row.amount : e = d
      BY <2>1, FilesAreRows DEF CsvEntry, Row
    <2>3. Converted(Row) = FromF64(Parsed(d))
      BY <2>2 DEF Converted
    <2>4. Magnitude(d) <= 10 * Power(2, MantissaBits - 4)
      BY FormatPowers
    <2>5. \E m \in Truncated(d) : FromF64(Parsed(d)) = Some(Signed(d, m))
      BY <2>2, <2>4, DecimalIsKept
    <2>. QED
      BY <2>3, <2>5
  <1>. QED
    BY <1>1, ProgramHolds, PTL

-----------------------------------------------------------------------------
(* Amounts about the limits.                                                *)

\* What is left of an inequality between products.
LEMMA Cancelled ==
    ASSUME NEW c \in Nat \ {0}, NEW u \in Int, NEW v \in Int, c * u <= c * v
    PROVE  u <= v
  OBVIOUS

\* Two roundings of D / 10 and a truncation, each rounding off by a part in B at
\* most: P is the first, y the second, both in units, and m the integer.
LEMMA RoundedTwice ==
    ASSUME NEW B \in Nat, 16 <= B, NEW D \in Nat, NEW one \in Nat \ {0},
           NEW P \in Nat, NEW y \in Nat, NEW m \in Nat,
           B * (10 * P - D * one) <= D * one, B * (D * one - 10 * P) <= D * one,
           B * (y - P) <= P, B * (P - y) <= P,
           m * one <= y, y < (m + 1) * one
    PROVE  /\ B * (B * (10 * m)) <= (B + 1) * ((B + 1) * D)
           /\ (B - 1) * ((B - 1) * D) <= B * (B * (10 * (m + 1)))
  <1>. DEFINE n == D * one
              bn == B * n
              bbn == B * bn
              p == B * P
              bp == B * p
              by == B * y
              bby == B * by
  <1>1. /\ n \in Nat /\ bn \in Nat /\ bbn \in Nat /\ p \in Nat /\ bp \in Nat
        /\ by \in Nat /\ bby \in Nat
    <2>1. n \in Nat /\ p \in Nat /\ by \in Nat
      OBVIOUS
    <2>2. bn \in Nat /\ bp \in Nat /\ bby \in Nat
      <3>. HIDE DEF n, p, by
      <3>. QED
        BY <2>1
    <2>3. bbn \in Nat
      <3>. HIDE DEF bn
      <3>. QED
        BY <2>2
    <2>. QED
      BY <2>1, <2>2, <2>3
  <1>2. 10 * p <= bn + n /\ bn - n <= 10 * p
    <2>. HIDE DEF n
    <2>1. B * (10 * P - n) = 10 * p - bn /\ B * (n - 10 * P) = bn - 10 * p
      BY <1>1
    <2>2. B * (10 * P - n) <= n /\ B * (n - 10 * P) <= n
      BY DEF n
    <2>. HIDE DEF p, bn
    <2>. QED
      BY <1>1, <2>1, <2>2
  <1>3. by <= p + P /\ p - P <= by
    <2>1. B * (y - P) = by - p /\ B * (P - y) = p - by
      OBVIOUS
    <2>. HIDE DEF by, p
    <2>. QED
      BY <1>1, <2>1
  <1>4. bby <= bp + p /\ bp - p <= bby
    <2>. HIDE DEF by
    <2>1. B * by <= B * (p + P) /\ B * (p - P) <= B * by
      <3>. HIDE DEF p
      <3>. QED
        BY <1>1, <1>3
    <2>2. B * (p + P) = bp + p /\ B * (p - P) = bp - p
      <3>1. B * (p + P) = B * p + B * P /\ B * (p - P) = B * p - B * P
        <4>. HIDE DEF p
        <4>. QED
          BY <1>1
      <3>. QED
        BY <3>1
    <2>. QED
      BY <2>1, <2>2
  <1>5. 10 * bp <= bbn + bn
    <2>. HIDE DEF p, bn, n
    <2>1. B * (10 * p) <= B * (bn + n)
      BY <1>1, <1>2
    <2>2. B * (10 * p) = 10 * bp /\ B * (bn + n) = bbn + B * n
      BY <1>1
    <2>. QED
      BY <2>1, <2>2 DEF bn
  <1>6. bbn - bn - bn + n <= 10 * bp - 10 * p
    <2>. HIDE DEF p, bn, n
    <2>1. (B - 1) * (bn - n) <= (B - 1) * (10 * p)
      BY <1>1, <1>2
    <2>2. (B - 1) * (10 * p) = 10 * bp - 10 * p /\ (B - 1) * (bn - n) = bbn - bn - B * n + n
      BY <1>1
    <2>3. B * n = bn
      BY DEF bn
    <2>. HIDE DEF bp, bbn
    <2>. QED
      BY <1>1, <2>1, <2>2, <2>3
  <1>. HIDE DEF n, bn, bbn, p, bp, by, bby
  <1>7. 10 * bby <= bbn + bn + bn + n /\ bbn - bn - bn + n <= 10 * bby
    BY <1>1, <1>2, <1>4, <1>5, <1>6
  \* The same in terms of D.
  <1>8. /\ bbn + bn + bn + n = one * ((B + 1) * ((B + 1) * D))
        /\ bbn - bn - bn + n = one * ((B - 1) * ((B - 1) * D))
    <2>. DEFINE bd == B * D
                bbd == B * bd
    <2>1. bd \in Nat /\ bbd \in Nat
      <3>1. bd \in Nat
        OBVIOUS
      <3>. HIDE DEF bd
      <3>. QED
        BY <3>1
    <2>2. n = one * D
      BY DEF n
    <2>3. bn = one * bd
      BY <2>2 DEF bn
    <2>4. bbn = one * bbd
      <3>. HIDE DEF bd
      <3>. QED
        BY <2>1, <2>3 DEF bbn
    <2>5. (B + 1) * D = bd + D /\ (B - 1) * D = bd - D
      OBVIOUS
    <2>6. (B + 1) * ((B + 1) * D) = bbd + bd + bd + D /\ (B - 1) * ((B - 1) * D) = bbd - bd - bd + D
      <3>1. (B + 1) * (bd + D) = B * bd + B * D + bd + D
        <4>. HIDE DEF bd
        <4>. QED
          BY <2>1
      <3>2. (B - 1) * (bd - D) = B * bd - B * D - bd + D
        <4>. HIDE DEF bd
        <4>. QED
          BY <2>1
      <3>. QED
        BY <2>5, <3>1, <3>2
    <2>. HIDE DEF bd, bbd
    <2>7. one * (bbd + bd + bd + D) = one * bbd + one * bd + one * bd + one * D
          /\ one * (bbd - bd - bd + D) = one * bbd - one * bd - one * bd + one * D
      BY <2>1
    <2>. QED
      BY <2>2, <2>3, <2>4, <2>6, <2>7
  <1>9. one * (B * (B * (10 * m))) <= 10 * bby
    <2>1. B * (m * one) <= by
      BY DEF by
    <2>2. B * (B * (m * one)) <= bby
      <3>1. B * (m * one) \in Nat
        OBVIOUS
      <3>. QED
        BY <1>1, <2>1, <3>1 DEF bby
    <2>3. one * (B * (B * (10 * m))) = 10 * (B * (B * (m * one)))
      OBVIOUS
    <2>4. B * (B * (m * one)) \in Nat
      OBVIOUS
    <2>. QED
      BY <1>1, <2>2, <2>3, <2>4
  <1>10. 10 * bby <= one * (B * (B * (10 * (m + 1))))
    <2>. DEFINE m1 == m + 1
    <2>0. m1 \in Nat /\ y <= m1 * one
      OBVIOUS
    <2>. HIDE DEF m1
    <2>1. by <= B * (m1 * one)
      BY <2>0 DEF by
    <2>2. bby <= B * (B * (m1 * one))
      <3>1. B * (m1 * one) \in Nat
        BY <2>0
      <3>. QED
        BY <1>1, <2>1, <3>1 DEF bby
    <2>3. one * (B * (B * (10 * m1))) = 10 * (B * (B * (m1 * one)))
      BY <2>0
    <2>4. B * (B * (m1 * one)) \in Nat
      BY <2>0
    <2>. QED
      BY <1>1, <2>2, <2>3, <2>4 DEF m1
  <1>11. /\ B * (B * (10 * m)) \in Int /\ B * (B * (10 * (m + 1))) \in Int
         /\ (B + 1) * ((B + 1) * D) \in Int /\ (B - 1) * ((B - 1) * D) \in Int
    OBVIOUS
  <1>12. /\ one * (B * (B * (10 * m))) <= one * ((B + 1) * ((B + 1) * D))
         /\ one * ((B - 1) * ((B - 1) * D)) <= one * (B * (B * (10 * (m + 1))))
    <2>1. one * (B * (B * (10 * m))) \in Int /\ one * (B * (B * (10 * (m + 1)))) \in Int
      BY <1>11
    <2>. QED
      BY <1>1, <1>7, <1>8, <1>9, <1>10, <2>1
  <1>. DEFINE u == B * (B * (10 * m))
              v == (B + 1) * ((B + 1) * D)
              w == (B - 1) * ((B - 1) * D)
              t == B * (B * (10 * (m + 1)))
  <1>. HIDE DEF u, v, w, t
  <1>13. u <= v /\ w <= t
    <2>1. u \in Int /\ v \in Int /\ w \in Int /\ t \in Int /\ one * u <= one * v /\ one * w <= one * t
      BY <1>11, <1>12 DEF u, v, w, t
    <2>. QED
      BY <2>1, Cancelled
  <1>. QED
    BY <1>13 DEF u, v, w, t

\* An integer m twice rounded, clamped to a limit L that is itself rounded to the
\* float F, is off the decimal by four parts in B and what is truncated; it is
\* refused only if the decimal is past the limit but for four parts in B.
LEMMA ClampedIsNear ==
    ASSUME NEW B \in Nat, 16 <= B, NEW D \in Nat, NEW one \in Nat \ {0},
           NEW L \in Nat, NEW F \in Nat, NEW m \in Nat,
           B * (F - L * one) <= L * one, B * (L * one - F) <= L * one,
           B * (B * (10 * m)) <= (B + 1) * ((B + 1) * D),
           (B - 1) * ((B - 1) * D) <= B * (B * (10 * (m + 1)))
    PROVE  /\ m * one <= F =>
                LET k == IF m > L THEN L ELSE m
                IN  B * (10 * k) <= (B + 4) * D /\ (B - 4) * D <= B * (10 * (k + 1))
           /\ F < m * one => B * (10 * L) <= (B + 4) * D
  <1>. DEFINE bd == B * D
              bbd == B * bd
              bm == B * m
              bl == B * L
  <1>1. bd \in Nat /\ bbd \in Nat /\ bm \in Nat /\ bl \in Nat /\ bd >= 16 * D /\ bl >= 16 * L
    <2>1. bd \in Nat /\ bm \in Nat /\ bl \in Nat /\ bd >= 16 * D /\ bl >= 16 * L
      OBVIOUS
    <2>. HIDE DEF bd
    <2>. QED
      BY <2>1
  <1>2. (B + 1) * ((B + 1) * D) = bbd + 2 * bd + D /\ (B - 1) * ((B - 1) * D) = bbd - 2 * bd + D
    <2>1. (B + 1) * D = bd + D /\ (B - 1) * D = bd - D
      OBVIOUS
    <2>2. (B + 1) * (bd + D) = bbd + B * D + bd + D /\ (B - 1) * (bd - D) = bbd - B * D - bd + D
      <3>. HIDE DEF bd
      <3>. QED
        BY <1>1
    <2>. QED
      BY <2>1, <2>2
  <1>3. /\ B * ((B + 4) * D) = bbd + 4 * bd /\ B * ((B - 4) * D) = bbd - 4 * bd
        /\ (B + 1) * ((B - 4) * D) = bbd - 3 * bd - 4 * D
        /\ (B - 1) * ((B + 4) * D) = bbd + 3 * bd - 4 * D
    <2>1. (B + 4) * D = bd + 4 * D /\ (B - 4) * D = bd - 4 * D
      OBVIOUS
    <2>2. /\ B * (bd + 4 * D) = bbd + 4 * (B * D) /\ B * (bd - 4 * D) = bbd - 4 * (B * D)
          /\ (B + 1) * (bd - 4 * D) = bbd - 4 * (B * D) + bd - 4 * D
          /\ (B - 1) * (bd + 4 * D) = bbd + 4 * (B * D) - bd - 4 * D
      <3>. HIDE DEF bd
      <3>. QED
        BY <1>1
    <2>. QED
      BY <2>1, <2>2
  <1>4. (B + 4) * D \in Int /\ (B - 4) * D \in Int /\ B * (10 * m) \in Int
        /\ B * (10 * (m + 1)) \in Int /\ B * (10 * L) \in Int /\ B * (10 * (L + 1)) \in Int
    OBVIOUS
  <1>5. B * (10 * m) <= (B + 4) * D
    <2>1. B * (B * (10 * m)) <= B * ((B + 4) * D)
      <3>1. B * (B * (10 * m)) \in Int
        BY <1>4
      <3>. HIDE DEF bd, bbd
      <3>. QED
        BY <1>1, <1>2, <1>3, <3>1
    <2>. QED
      BY <1>4, <2>1, Cancelled
  <1>6. (B - 4) * D <= B * (10 * (m + 1))
    <2>1. B * ((B - 4) * D) <= B * (B * (10 * (m + 1)))
      <3>1. B * (B * (10 * (m + 1))) \in Int
        BY <1>4
      <3>. HIDE DEF bd, bbd
      <3>. QED
        BY <1>1, <1>2, <1>3, <3>1
    <2>. QED
      BY <1>4, <2>1, Cancelled
  \* The float of the limit, without its units.
  <1>7. m * one <= F => bm <= bl + L
    <2>. SUFFICES ASSUME m * one <= F
                  PROVE  bm <= bl + L
      OBVIOUS
    <2>1. B * (m * one) <= B * F
      BY SMT
    <2>2. B * (F - L * one) = B * F - B * (L * one) /\ B * F \in Int /\ B * (L * one) \in Int
          /\ B * (m * one) \in Int /\ L * one \in Int
      BY SMT
    <2>3. B * (m * one) <= B * (L * one) + L * one
      BY <2>1, <2>2
    <2>4. B * (m * one) = one * bm /\ B * (L * one) + L * one = one * (bl + L)
      OBVIOUS
    <2>5. one * bm <= one * (bl + L)
      BY <2>3, <2>4
    <2>6. bl + L \in Int /\ bm \in Int
      BY <1>1
    <2>. HIDE DEF bm, bl
    <2>. QED
      BY <2>5, <2>6, Cancelled
  <1>8. F < m * one => bl - L <= bm
    <2>. SUFFICES ASSUME F < m * one
                  PROVE  bl - L <= bm
      OBVIOUS
    <2>1. B * F <= B * (m * one)
      BY SMT
    <2>2. B * (L * one - F) = B * (L * one) - B * F /\ B * F \in Int /\ B * (L * one) \in Int
          /\ B * (m * one) \in Int /\ L * one \in Int
      BY SMT
    <2>3. B * (L * one) - L * one <= B * (m * one)
      BY <2>1, <2>2
    <2>4. B * (m * one) = one * bm /\ B * (L * one) - L * one = one * (bl - L)
      OBVIOUS
    <2>5. one * (bl - L) <= one * bm
      BY <2>3, <2>4
    <2>6. bl - L \in Int /\ bm \in Int
      BY <1>1
    <2>. HIDE DEF bm, bl
    <2>. QED
      BY <2>5, <2>6, Cancelled
  \* Past the limit.
  <1>9. m > L => B * (10 * L) <= (B + 4) * D
    <2>. SUFFICES ASSUME m > L
                  PROVE  B * (10 * L) <= (B + 4) * D
      OBVIOUS
    <2>1. B * (10 * L) <= B * (10 * m)
      OBVIOUS
    <2>. QED
      BY <1>4, <1>5, <2>1
  <1>10. m * one <= F => (B - 4) * D <= B * (10 * (L + 1))
    <2>. SUFFICES ASSUME bm <= bl + L
                  PROVE  (B - 4) * D <= B * (10 * (L + 1))
      BY <1>7
    <2>1. B * (B * (10 * (m + 1))) = 10 * (B * (bm + B))
      <3>1. B * (10 * (m + 1)) = 10 * (bm + B) /\ bm + B \in Int
        OBVIOUS
      <3>. HIDE DEF bm
      <3>. QED
        BY <3>1
    <2>2. (B + 1) * (B * (10 * (L + 1))) = 10 * (B * (bl + B + L + 1))
      <3>1. (B + 1) * (L + 1) = bl + B + L + 1 /\ (B + 1) * (L + 1) \in Int
        OBVIOUS
      <3>2. (B + 1) * (B * (10 * (L + 1))) = 10 * (B * ((B + 1) * (L + 1)))
        OBVIOUS
      <3>. QED
        BY <3>1, <3>2
    <2>3. B * (bm + B) <= B * (bl + B + L + 1)
      <3>. HIDE DEF bm, bl
      <3>. QED
        BY <1>1
    <2>4. B * (bm + B) \in Int /\ B * (bl + B + L + 1) \in Int
      BY <1>1
    <2>5. (B + 1) * ((B - 4) * D) <= (B + 1) * (B * (10 * (L + 1)))
      <3>. HIDE DEF bm, bl, bd, bbd
      <3>. QED
        BY <1>1, <1>2, <1>3, <2>1, <2>2, <2>3, <2>4
    <2>6. B + 1 \in Nat \ {0}
      OBVIOUS
    <2>. QED
      BY <1>4, <2>5, <2>6, Cancelled
  <1>11. F < m * one => B * (10 * L) <= (B + 4) * D
    <2>. SUFFICES ASSUME bl - L <= bm
                  PROVE  B * (10 * L) <= (B + 4) * D
      BY <1>8
    <2>1. B * (B * (10 * m)) = 10 * (B * bm)
      <3>1. B * (10 * m) = 10 * bm
        OBVIOUS
      <3>. HIDE DEF bm
      <3>. QED
        BY <1>1, <3>1
    <2>2. (B - 1) * (B * (10 * L)) = 10 * (B * (bl - L))
      <3>1. (B - 1) * L = bl - L /\ (B - 1) * L \in Int
        OBVIOUS
      <3>2. (B - 1) * (B * (10 * L)) = 10 * (B * ((B - 1) * L))
        OBVIOUS
      <3>. QED
        BY <3>1, <3>2
    <2>3. B * (bl - L) <= B * bm
      <3>. HIDE DEF bm, bl
      <3>. QED
        BY <1>1
    <2>4. B * bm \in Int /\ B * (bl - L) \in Int
      BY <1>1
    <2>5. (B - 1) * (B * (10 * L)) <= (B - 1) * ((B + 4) * D)
      <3>. HIDE DEF bm, bl, bd, bbd
      <3>. QED
        BY <1>1, <1>2, <1>3, <2>1, <2>2, <2>3, <2>4
    <2>6. B - 1 \in Nat \ {0}
      OBVIOUS
    <2>. QED
      BY <1>4, <2>5, <2>6, Cancelled
  <1>. QED
    BY <1>5, <1>6, <1>9, <1>10, <1>11

\* The limits as floats.
LEMMA LimitsAreNear ==
    LET B == Power(2, MantissaBits)
        T == Power(2, IntBits - 1)
    IN  /\ T \in Nat \ {0} /\ One \in Nat \ {0} /\ MaxInt = T - 1 /\ MinInt = -T
        /\ AsFloat(MinInt) = -Nearest(T * One, 1)
        /\ AsFloat(MaxInt) = Nearest(MaxInt * One, 1)
        /\ \A L \in {MaxInt, T} :
              LET F == Nearest(L * One, 1)
              IN  F \in Nat /\ B * (F - L * One) <= L * One /\ B * (L * One - F) <= L * One
  <1>. DEFINE B == Power(2, MantissaBits)
              T == Power(2, IntBits - 1)
              E == Power(2, MantissaBits + MaxExponent)
  <1>1. /\ One \in Nat \ {0} /\ T * One * 2 <= E /\ MaxInt = T - 1 /\ MinInt = -T
        /\ B \in Nat \ {0}
    BY FormatPowers
  <1>2. T \in Nat \ {0} /\ E \in Nat \ {0}
    <2>1. MantissaBits + MaxExponent \in Nat /\ IntBits - 1 \in Nat
      BY FormatPowers
    <2>. QED
      BY <2>1, PowerIsPositive
  <1>3. ASSUME NEW L \in {MaxInt, T}
        PROVE  L * One \in Nat /\ L * One < 1 * E
    <2>. HIDE DEF T, E
    <2>1. L \in Nat /\ L <= T
      BY <1>1, <1>2
    <2>2. L * One <= T * One /\ L * One \in Nat /\ T * One \in Nat \ {0}
      BY <1>1, <1>2, <2>1
    <2>. QED
      BY <1>1, <1>2, <2>2
  <1>4. ASSUME NEW L \in {MaxInt, T}
        PROVE  LET F == Nearest(L * One, 1)
               IN  F \in Nat /\ B * (F - L * One) <= L * One /\ B * (L * One - F) <= L * One
    <2>. DEFINE n == L * One
                F == Nearest(n, 1)
    <2>1. n \in Nat /\ n < 1 * E
      BY <1>3
    <2>. HIDE DEF n
    <2>2. F \in Nat /\ B * (1 * F - n) <= n /\ B * (n - 1 * F) <= n
      BY <2>1, NearestIsClose
    <2>3. 1 * F = F
      BY <2>2
    <2>. QED
      BY <2>2, <2>3 DEF n
  <1>5. AsFloat(MinInt) = -Nearest(T * One, 1)
    <2>1. T * One \in Nat /\ T * One < 1 * E
      BY <1>3
    <2>2. Nearest(-(T * One), 1) = -Nearest(T * One, 1)
      BY <2>1, NearestOfNegative
    <2>3. MinInt * One = -(T * One)
      BY <1>1, <1>2
    <2>. QED
      BY <2>2, <2>3 DEF AsFloat
  <1>. QED
    BY <1>1, <1>2, <1>4, <1>5 DEF AsFloat

\* A decimal about the limits overflows no float, and its amount is twice rounded.
LEMMA MagnitudeIsNear ==
    ASSUME NEW D \in Nat, D <= 15 * MaxInt
    PROVE  LET B == Power(2, MantissaBits)
               z == Nearest(D * One, 10 * Scale) * Scale
               m == Nearest(z, 1) \div One
           IN  /\ D * One \in Nat /\ 10 * Scale \in Nat \ {0} /\ One \in Nat \ {0} /\ Scale \in Nat
               /\ D * One < (10 * Scale) * Power(2, MantissaBits + MaxExponent)
               /\ Nearest(D * One, 10 * Scale) \in Nat
               /\ z \in Nat /\ z < 1 * Power(2, MantissaBits + MaxExponent)
               /\ Nearest(z, 1) \in Nat /\ m \in Nat
               /\ B * (B * (10 * m)) <= (B + 1) * ((B + 1) * D)
               /\ (B - 1) * ((B - 1) * D) <= B * (B * (10 * (m + 1)))
  <1>. DEFINE B == Power(2, MantissaBits)
              T == Power(2, IntBits - 1)
              E == Power(2, MantissaBits + MaxExponent)
              H == Power(2, MantissaBits - 1)
              q == 10 * Scale
              n == D * One
              x == Nearest(n, q)
              z == x * Scale
              y == Nearest(z, 1)
              m == y \div One
  <1>1. /\ One \in Nat \ {0} /\ Scale \in Nat \ {0} /\ T * One * 2 <= E /\ MaxInt = T - 1
        /\ B \in Nat \ {0} /\ B >= 16 /\ q * H <= One /\ MantissaBits - 1 \in Nat
    BY FormatPowers
  <1>2. T \in Nat \ {0} /\ E \in Nat \ {0} /\ H \in Nat \ {0}
    <2>1. MantissaBits + MaxExponent \in Nat /\ IntBits - 1 \in Nat /\ MantissaBits - 1 \in Nat
      BY FormatPowers
    <2>. QED
      BY <2>1, PowerIsPositive
  <1>3. q \in Nat \ {0} /\ q >= 10 /\ n \in Nat
    BY <1>1
  <1>4. CASE D = 0
    <2>1. 0 <= 10 * Power(2, MantissaBits - 4)
      BY FormatPowers
    <2>2. /\ n < q * E /\ x \in Nat /\ z \in Nat /\ z < 1 * E
          /\ y \in Nat /\ m \in Nat /\ m \in {D \div 10, D \div 10 - 1}
      BY <1>4, <2>1, MagnitudeIsKept
    <2>3. m = 0
      <3>1. D \div 10 = 0
        BY <1>4
      <3>. HIDE DEF m
      <3>. QED
        BY <2>2, <3>1
    <2>4. /\ B * (B * (10 * 0)) <= (B + 1) * ((B + 1) * 0)
          /\ (B - 1) * ((B - 1) * 0) <= B * (B * (10 * (0 + 1)))
      BY <1>1
    <2>. HIDE DEF m
    <2>5. /\ B * (B * (10 * m)) <= (B + 1) * ((B + 1) * D)
          /\ (B - 1) * ((B - 1) * D) <= B * (B * (10 * (m + 1)))
      BY <1>4, <2>3, <2>4
    <2>. QED
      BY <1>1, <1>3, <2>2, <2>5 DEF m
  <1>5. CASE D # 0
    <2>. DEFINE t == T * One
    <2>1. t \in Nat \ {0} /\ n <= 15 * t /\ 2 * t <= E /\ One <= n
      <3>. HIDE DEF T, E
      <3>1. (15 * T) * One = 15 * t /\ D <= 15 * T
        BY <1>1, <1>2
      <3>2. D * One <= (15 * T) * One /\ 1 * One <= D * One
        BY <1>1, <1>2, <1>5, <3>1
      <3>. QED
        BY <1>1, <1>2, <3>1, <3>2
    <2>. HIDE DEF t, n
    <2>2. n < q * E
      <3>. HIDE DEF q, E
      <3>1. 10 * E <= q * E /\ q * E \in Nat
        BY <1>2, <1>3
      <3>. QED
        BY <1>2, <1>3, <2>1, <3>1
    <2>3. x \in Nat /\ B * (q * x - n) <= n /\ B * (n - q * x) <= n
      <3>1. q * H <= n
        <4>. HIDE DEF q, H
        <4>1. q * H \in Nat
          BY <1>2, <1>3
        <4>. QED
          BY <1>1, <1>3, <2>1, <4>1
      <3>. HIDE DEF q
      <3>. QED
        BY <1>3, <2>2, <3>1, NearestIsClose
    <2>. HIDE DEF x
    <2>4. q * x = 10 * z /\ z \in Nat
      BY <1>1, <2>3
    <2>5. B * (10 * z - n) <= n /\ B * (n - 10 * z) <= n
      BY <2>3, <2>4
    <2>. HIDE DEF z, B
    <2>6. z < 1 * E
      <3>1. 16 * (10 * z - n) <= n
        BY <1>1, <1>3, <2>4, <2>5
      <3>. HIDE DEF E
      <3>. QED
        BY <1>2, <1>3, <2>1, <2>4, <3>1
    <2>7. y \in Nat /\ B * (1 * y - z) <= z /\ B * (z - 1 * y) <= z
      BY <2>4, <2>6, NearestIsClose DEF B
    <2>. HIDE DEF y
    <2>8. B * (y - z) <= z /\ B * (z - y) <= z
      BY <2>7
    <2>9. m \in Nat /\ m * One <= y /\ y < (m + 1) * One
      BY <1>1, <2>7
    <2>. HIDE DEF m
    <2>10. /\ B * (B * (10 * m)) <= (B + 1) * ((B + 1) * D)
           /\ (B - 1) * ((B - 1) * D) <= B * (B * (10 * (m + 1)))
      <3>1. B * (10 * z - D * One) <= D * One /\ B * (D * One - 10 * z) <= D * One
        BY <2>5 DEF n
      <3>. QED
        BY <1>1, <2>4, <2>7, <2>8, <2>9, <3>1, RoundedTwice
    <2>. QED
      BY <1>1, <1>3, <2>2, <2>3, <2>4, <2>6, <2>7, <2>9, <2>10 DEF n, x, z, y, m, B
  <1>. QED
    BY <1>4, <1>5

\* Four parts in 2^MantissaBits of a decimal are within its slack.
LEMMA PartsAreSlack ==
    ASSUME NEW D \in Nat, NEW k \in Nat
    PROVE  LET B == Power(2, MantissaBits)
               s == D \div TwoTo[MantissaBits - 2]
           IN  /\ s \in Nat
               /\ B * (10 * k) <= (B + 4) * D => 10 * k - D <= s
               /\ (B - 4) * D <= B * (10 * (k + 1)) => D - 10 * k <= 10 + s
  <1>. DEFINE B == Power(2, MantissaBits)
              Q == Power(2, MantissaBits - 2)
              s == D \div TwoTo[MantissaBits - 2]
  <1>1. MantissaBits \in Nat /\ MantissaBits - 2 \in Nat /\ TwoTo[MantissaBits - 2] = Q
    <2>1. MantissaBits \in Nat /\ MantissaBits - 4 \in Nat /\ MaxExponent \in Nat
      BY FormatPowers
    <2>2. MantissaBits - 2 \in Nat /\ MantissaBits - 2 \in 0..(MantissaBits + MaxExponent)
      BY <2>1
    <2>. QED
      BY <2>1, <2>2, FormatPowers
  <1>2. Q \in Nat \ {0} /\ B = 4 * Q
    <2>1. Q \in Nat \ {0}
      BY <1>1, PowerIsPositive
    <2>2. (MantissaBits - 2) + 1 \in Nat /\ ((MantissaBits - 2) + 1) + 1 = MantissaBits
      BY <1>1
    <2>3. Power(2, (MantissaBits - 2) + 1) = 2 * Q
      BY <1>1, PowerOfNext
    <2>4. Power(2, ((MantissaBits - 2) + 1) + 1) = 2 * Power(2, (MantissaBits - 2) + 1)
      BY <2>2, PowerOfNext
    <2>. QED
      BY <2>1, <2>2, <2>3, <2>4
  <1>. HIDE DEF B, Q
  <1>3. s \in Nat /\ D < Q * s + Q /\ Q * s \in Nat
    <2>1. D \div Q \in Nat /\ D < Q * (D \div Q) + Q
      BY <1>2
    <2>. HIDE DEF Q
    <2>. QED
      BY <1>1, <1>2, <2>1
  <1>. HIDE DEF s
  <1>4. ASSUME NEW t \in Int, B * t <= 4 * D
        PROVE  t <= s
    <2>1. B * t = 4 * (Q * t) /\ Q * t \in Int
      BY <1>2
    <2>2. Q * t < Q * s + Q
      BY <1>2, <1>3, <1>4, <2>1
    <2>3. Q * s + Q = Q * (s + 1)
      BY <1>2, <1>3
    <2>4. ~(t >= s + 1)
      <3>. SUFFICES ASSUME t >= s + 1
                    PROVE  FALSE
        OBVIOUS
      <3>1. Q * (s + 1) <= Q * t
        BY <1>2, <1>3
      <3>. QED
        BY <1>2, <1>3, <2>1, <2>2, <2>3, <3>1
    <2>. QED
      BY <1>3, <2>4
  <1>5. B * (10 * k) <= (B + 4) * D => 10 * k - D <= s
    <2>. SUFFICES ASSUME B * (10 * k) <= (B + 4) * D
                  PROVE  10 * k - D <= s
      OBVIOUS
    <2>1. B * (10 * k - D) = B * (10 * k) - B * D /\ (B + 4) * D = B * D + 4 * D
          /\ B * (10 * k) \in Int /\ B * D \in Int
      BY <1>2
    <2>2. B * (10 * k - D) <= 4 * D
      BY <2>1
    <2>. QED
      BY <1>4, <2>2
  <1>6. (B - 4) * D <= B * (10 * (k + 1)) => D - 10 * k <= 10 + s
    <2>. SUFFICES ASSUME (B - 4) * D <= B * (10 * (k + 1))
                  PROVE  D - 10 * k <= 10 + s
      OBVIOUS
    <2>1. B * (D - 10 * (k + 1)) = B * D - B * (10 * (k + 1)) /\ (B - 4) * D = B * D - 4 * D
          /\ B * (10 * (k + 1)) \in Int /\ B * D \in Int
      BY <1>2
    <2>2. B * (D - 10 * (k + 1)) <= 4 * D
      BY <2>1
    <2>3. D - 10 * (k + 1) <= s
      BY <1>4, <2>2
    <2>. QED
      BY <1>3, <2>3
  <1>. QED
    BY <1>3, <1>5, <1>6 DEF B, s

\* What becomes of a decimal about the limits.
LEMMA DecimalNearLimit ==
    ASSUME NEW d \in Int, Magnitude(d) <= 15 * MaxInt
    PROVE  LET accepted == FromF64(Parsed(d))
           IN  /\ \A m \in accepted : Magnitude(10 * m - d) <= Slack(d)
               /\ accepted = None => 10 * MaxInt <= Magnitude(d) + Slack(d)
  <1>. DEFINE B == Power(2, MantissaBits)
              T == Power(2, IntBits - 1)
              Float(L) == Nearest(L * One, 1)
              D == Magnitude(d)
              s == D \div TwoTo[MantissaBits - 2]
              q == 10 * Scale
              x == Nearest(D * One, q)
              z == x * Scale
              y == Nearest(z, 1)
              m == y \div One
              Clamped(L) == IF m > L THEN L ELSE m
  <1>1. D \in Nat /\ (d >= 0 => D = d) /\ (d < 0 => D = -d)
    BY DEF Magnitude
  <1>2. /\ D * One \in Nat /\ q \in Nat \ {0} /\ One \in Nat \ {0} /\ Scale \in Nat
        /\ D * One < q * Power(2, MantissaBits + MaxExponent)
        /\ x \in Nat /\ z \in Nat /\ z < 1 * Power(2, MantissaBits + MaxExponent)
        /\ y \in Nat /\ m \in Nat
        /\ B * (B * (10 * m)) <= (B + 1) * ((B + 1) * D)
        /\ (B - 1) * ((B - 1) * D) <= B * (B * (10 * (m + 1)))
    BY <1>1, MagnitudeIsNear
  <1>3. /\ T \in Nat \ {0} /\ MaxInt = T - 1 /\ MinInt = -T
        /\ AsFloat(MinInt) = -Float(T) /\ AsFloat(MaxInt) = Float(MaxInt)
        /\ \A L \in {MaxInt, T} : /\ L \in Nat /\ Float(L) \in Nat
                                  /\ B * (Float(L) - L * One) <= L * One
                                  /\ B * (L * One - Float(L)) <= L * One
    <2>1. /\ T \in Nat \ {0} /\ MaxInt = T - 1 /\ MinInt = -T
          /\ AsFloat(MinInt) = -Float(T) /\ AsFloat(MaxInt) = Float(MaxInt)
      BY LimitsAreNear
    <2>2. \A L \in {MaxInt, T} : /\ Float(L) \in Nat
                                 /\ B * (Float(L) - L * One) <= L * One
                                 /\ B * (L * One - Float(L)) <= L * One
      BY LimitsAreNear
    <2>. HIDE DEF B, T, Float
    <2>3. \A L \in {MaxInt, T} : L \in Nat
      BY <2>1
    <2>. QED
      BY <2>1, <2>2, <2>3
  <1>4. B \in Nat /\ B >= 16
    BY FormatPowers
  <1>5. Slack(d) = 10 + s /\ s \in Nat
    <2>1. s \in Nat
      BY <1>1, PartsAreSlack
    <2>. QED
      BY <2>1 DEF Slack
  <1>. HIDE DEF m, s, B, Float
  \* The limit of either sign.
  <1>6. ASSUME NEW L \in {MaxInt, T}
        PROVE  /\ m * One <= Float(L) => /\ Clamped(L) \in Nat
                                         /\ 10 * Clamped(L) - D <= s
                                         /\ D - 10 * Clamped(L) <= 10 + s
               /\ Float(L) < m * One => 10 * L - D <= s
    <2>1. /\ m * One <= Float(L) => /\ B * (10 * Clamped(L)) <= (B + 4) * D
                                    /\ (B - 4) * D <= B * (10 * (Clamped(L) + 1))
          /\ Float(L) < m * One => B * (10 * L) <= (B + 4) * D
      <3>. HIDE DEF D
      <3>. QED
        BY <1>1, <1>2, <1>3, <1>4, ClampedIsNear
    <2>2. Clamped(L) \in Nat /\ L \in Nat
      BY <1>2, <1>3
    <2>. HIDE DEF D, Clamped
    <2>3. ASSUME NEW k \in Nat
          PROVE  /\ B * (10 * k) <= (B + 4) * D => 10 * k - D <= s
                 /\ (B - 4) * D <= B * (10 * (k + 1)) => D - 10 * k <= 10 + s
      BY <1>1, PartsAreSlack DEF B, s
    <2>. QED
      BY <2>1, <2>2, <2>3
  <1>7. CASE d >= 0
    <2>1. Parsed(d) = {x}
      BY <1>1, <1>7 DEF Parsed, Some
    <2>2. Trunc(y) = m
      <3>1. Magnitude(y) = y /\ \A u : Signed(y, u) = u
        BY <1>2 DEF Magnitude, Signed
      <3>. QED
        BY <3>1 DEF Trunc, m
    <2>3. InRange(m) <=> m * One <= Float(MaxInt)
      <3>1. -Float(T) <= m * One
        <4>. HIDE DEF T
        <4>. QED
          BY <1>2, <1>3
      <3>. QED
        BY <1>3, <3>1 DEF InRange
    <2>4. AsInt(m) = Clamped(MaxInt)
      BY <1>2, <1>3 DEF AsInt
    <2>. HIDE DEF x, y
    <2>5. {Trunc(Nearest(u * Scale, 1)) : u \in {x}} = {m}
      BY <2>2 DEF y
    <2>6. FromF64({x}) = IF InRange(m) THEN {Clamped(MaxInt)} ELSE None
      BY <2>4, <2>5 DEF FromF64, None
    <2>7. D = d
      BY <1>1, <1>7
    <2>. HIDE DEF D, Clamped
    <2>8. CASE InRange(m)
      <3>1. /\ Clamped(MaxInt) \in Nat
            /\ 10 * Clamped(MaxInt) - D <= s /\ D - 10 * Clamped(MaxInt) <= 10 + s
        BY <1>6, <2>3, <2>8
      <3>2. Magnitude(10 * Clamped(MaxInt) - d) <= Slack(d)
        BY <1>1, <1>5, <2>7, <3>1 DEF Magnitude
      <3>3. FromF64(Parsed(d)) = {Clamped(MaxInt)}
        BY <2>1, <2>6, <2>8
      <3>. QED
        BY <3>2, <3>3 DEF None
    <2>9. CASE ~InRange(m)
      <3>1. Float(MaxInt) < m * One
        BY <1>2, <1>3, <2>3, <2>9
      <3>2. 10 * MaxInt - D <= s
        BY <1>6, <3>1
      <3>3. 10 * MaxInt <= D + Slack(d)
        <4>. HIDE DEF T
        <4>. QED
          BY <1>1, <1>3, <1>5, <3>2
      <3>4. FromF64(Parsed(d)) = {}
        BY <2>1, <2>6, <2>9 DEF None
      <3>. QED
        BY <3>3, <3>4 DEF D
    <2>. QED
      BY <2>8, <2>9
  <1>8. CASE d < 0
    <2>1. d * One = -(D * One)
      BY <1>1, <1>2, <1>8
    <2>2. Parsed(d) = {-x}
      <3>1. Nearest(-(D * One), q) = -x
        BY <1>2, NearestOfNegative
      <3>. QED
        BY <2>1, <3>1 DEF Parsed, Some
    <2>3. (-x) * Scale = -z
      <3>. HIDE DEF x
      <3>. QED
        BY <1>2
    <2>4. Nearest(-z, 1) = -y
      <3>. HIDE DEF z
      <3>. QED
        BY <1>2, NearestOfNegative
    <2>5. Trunc(-y) = -m
      <3>0. m = y \div One
        BY DEF m
      <3>. HIDE DEF y
      <3>1. Magnitude(-y) = y
        BY <1>2 DEF Magnitude
      <3>2. CASE y = 0
        <4>1. 0 \div One = 0
          BY <1>2
        <4>. QED
          BY <1>2, <3>0, <3>1, <3>2, <4>1 DEF Trunc, Signed
      <3>3. CASE y # 0
        BY <1>2, <3>0, <3>1, <3>3 DEF Trunc, Signed
      <3>. QED
        BY <3>2, <3>3
    <2>6. InRange(-m) <=> m * One <= Float(T)
      <3>1. (-m) * One = -(m * One) /\ m * One \in Nat
        BY <1>2
      <3>2. Float(MaxInt) \in Nat /\ Float(T) \in Nat
        BY <1>3
      <3>. HIDE DEF T
      <3>. QED
        BY <1>3, <3>1, <3>2 DEF InRange
    <2>7. AsInt(-m) = -Clamped(T)
      BY <1>2, <1>3 DEF AsInt
    <2>. HIDE DEF x, y, z
    <2>8. {Trunc(Nearest(u * Scale, 1)) : u \in {-x}} = {-m}
      BY <2>3, <2>4, <2>5
    <2>9. FromF64({-x}) = IF InRange(-m) THEN {-Clamped(T)} ELSE None
      BY <2>7, <2>8 DEF FromF64, None
    <2>10. D = -d
      BY <1>1, <1>8
    <2>. HIDE DEF D, Clamped, T
    <2>11. CASE InRange(-m)
      <3>1. Clamped(T) \in Nat /\ 10 * Clamped(T) - D <= s /\ D - 10 * Clamped(T) <= 10 + s
        BY <1>6, <2>6, <2>11
      <3>2. Magnitude(10 * (-Clamped(T)) - d) <= Slack(d)
        BY <1>1, <1>5, <2>10, <3>1 DEF Magnitude
      <3>3. FromF64(Parsed(d)) = {-Clamped(T)}
        BY <2>2, <2>9, <2>11
      <3>. QED
        BY <3>2, <3>3 DEF None
    <2>12. CASE ~InRange(-m)
      <3>1. Float(T) < m * One
        BY <1>2, <1>3, <2>6, <2>12
      <3>2. 10 * T - D <= s
        BY <1>6, <3>1
      <3>3. 10 * MaxInt <= D + Slack(d)
        BY <1>1, <1>3, <1>5, <3>2
      <3>4. FromF64(Parsed(d)) = {}
        BY <2>2, <2>9, <2>12 DEF None
      <3>. QED
        BY <3>3, <3>4 DEF D
    <2>. QED
      BY <2>11, <2>12
  <1>. QED
    BY <1>7, <1>8

\* A decimal up to half as much again as an amount can be is refused only if it
\* is past a limit, and is what was given when it is accepted, but for what the
\* roundings and the truncation take or add: whatever the formats, the precision
\* and the file.
THEOREM LimitsAreKeptHolds == ProgramSpec => []LimitsAreKept
  <1>1. ProgramInv => LimitsAreKept
    <2>. SUFFICES ASSUME ProgramInv, line <= Len(file), Row.typ # "unparsable",
                         NEW d \in Row.amount, Magnitude(d) <= 15 * MaxInt
                  PROVE  /\ \A m \in Converted(Row) : Magnitude(10 * m - d) <= Slack(d)
                         /\ Converted(Row) = None => 10 * MaxInt <= Magnitude(d) + Slack(d)
      BY DEF LimitsAreKept
    <2>1. file \in Files /\ line \in DOMAIN file /\ Row \in CsvEntry
      BY RowIsEntry DEF ProgramInv
    <2>2. d \in Int /\ \A e \in Row.amount : e = d
      BY <2>1, FilesAreRows DEF CsvEntry, Row
    <2>3. Converted(Row) = FromF64(Parsed(d))
      BY <2>2 DEF Converted
    <2>. QED
      BY <2>2, <2>3, DecimalNearLimit
  <1>. QED
    BY <1>1, ProgramHolds, PTL

-----------------------------------------------------------------------------
(* The amounts of the books.                                                *)

\* The sum of what rows say, as that of their amounts (RowsFold).
SumOfValues(f, rows) == MapThenSumSet(LAMBDA i : CHOOSE v \in ValueOf(f[i]) : TRUE, rows)

LEMMA ValuesFold ==
    ASSUME NEW f, NEW S, IsFiniteSet(S), NEW e, e = [i \in S |-> CHOOSE v \in ValueOf(f[i]) : TRUE],
           \A i \in S : e[i] \in Int
    PROVE  \E h : IsFold(h, e, S) /\ SumOfValues(f, S) = h[S]
  <1>. DEFINE Solves(h) == h = [s \in SUBSET S |->
                  IF s = {} THEN 0
                  ELSE (CHOOSE v \in ValueOf(f[CHOOSE i \in s : TRUE]) : TRUE)
                          + h[s \ {CHOOSE i \in s : TRUE}]]
              iter == CHOOSE h : Solves(h)
  <1>1. SumOfValues(f, S) = iter[S]
    BY DEF SumOfValues, MapThenSumSet, MapThenFoldSet
  <1>2. ASSUME NEW h
        PROVE  Solves(h) <=> IsFold(h, e, S)
    <2>1. ASSUME NEW s \in SUBSET S, s # {}
          PROVE  e[Pick(s)] = CHOOSE v \in ValueOf(f[CHOOSE i \in s : TRUE]) : TRUE
      BY <2>1, PickIn DEF Pick
    <2>. QED
      BY <2>1 DEF IsFold, Pick
  <1>3. \E h : IsFold(h, e, S)
    BY FoldExists
  <1>. HIDE DEF Solves
  <1>4. Solves(iter)
    BY <1>2, <1>3
  <1>. QED
    BY <1>1, <1>2, <1>4

\* A row of an amount that is not negative, and well within the mantissa, counts
\* with what it says, or with one unit less if that has nothing to truncate.
LEMMA RowIsKept ==
    ASSUME NEW f \in Files, NEW i \in DOMAIN f, IsReadable(f[i]), f[i].typ = "deposit",
           \A d \in f[i].amount : d \in 0..(10 * TwoTo[MantissaBits - 4])
    PROVE  LET amount == CHOOSE m \in Converted(f[i]) : TRUE
               value == CHOOSE v \in ValueOf(f[i]) : TRUE
           IN  /\ amount \in Int /\ value \in Int
               /\ \/ amount = value
                  \/ amount = value - 1 /\ \A d \in f[i].amount : d % 10 = 0
  <1>1. f[i] \in CsvEntry /\ \A d, e \in f[i].amount : d = e
    BY RowAmount, FilesAreRows
  <1>2. f[i].amount # {}
    BY DEF IsReadable, LacksAmount, None
  <1>3. PICK d \in f[i].amount : d \in Int
    BY <1>1, <1>2 DEF CsvEntry
  <1>4. f[i].amount = {d}
    BY <1>1, <1>3
  <1>5. Power(2, MantissaBits - 4) \in Nat /\ TwoTo[MantissaBits - 4] = Power(2, MantissaBits - 4)
    BY FormatPowers
  <1>6. d >= 0 /\ Magnitude(d) = d /\ d <= 10 * Power(2, MantissaBits - 4)
    BY <1>3, <1>5 DEF Magnitude
  <1>7. PICK m \in Truncated(d) : FromF64(Parsed(d)) = Some(Signed(d, m))
    BY <1>3, <1>6, DecimalIsKept
  <1>8. Converted(f[i]) = {m}
    BY <1>4, <1>6, <1>7 DEF Converted, Signed, Some
  <1>9. ValueOf(f[i]) = {d \div 10}
    BY <1>4 DEF ValueOf
  <1>10. m \in Int /\ d \div 10 \in Int /\ (m = d \div 10 \/ (d % 10 = 0 /\ m = d \div 10 - 1))
    BY <1>3, <1>6 DEF Truncated
  <1>11. (CHOOSE x \in Converted(f[i]) : TRUE) = m /\ (CHOOSE v \in ValueOf(f[i]) : TRUE) = d \div 10
    BY <1>8, <1>9
  <1>. QED
    BY <1>4, <1>10, <1>11

\* The books follow the file: a client is not credited more than its rows say, and
\* one unit less at most for each row of a whole amount.
THEOREM BooksFollowFileHolds == ProgramSpec => []BooksFollowFile
  <1>1. ProgramInv => BooksFollowFile
    <2>. DEFINE Bound == 10 * TwoTo[MantissaBits - 4]
    <2>. SUFFICES ASSUME ProgramInv, at # "call", NEW a \in Id,
                         \A i \in Counted(a) : \A d \in file[i].amount : d \in 0..Bound
                  PROVE  Deposited(a) \in ByTheFile(a) - Cardinality(Whole(Counted(a))) .. ByTheFile(a)
      BY DEF BooksFollowFile
    <2>. DEFINE S == Counted(a)
                d == RowAmounts(file, S)
                e == [i \in S |-> CHOOSE v \in ValueOf(file[i]) : TRUE]
    <2>1. Deposited(a) = SumOf(file, S)
      <3>1. Deposited(a) = SumAt(log, Deposits(log, a))
        BY DepositedAndWithdrawn
      <3>2. SumAt(log, Deposits(log, a)) = SumOf(file, FirstRows(file, line - 1, a))
        BY DEF ProgramInv, Booked, Handled
      <3>. QED
        BY <3>1, <3>2, CountedRows
    <2>2. /\ file \in Files /\ line - 1 \in Nat /\ S \subseteq 1..(line - 1) /\ S \subseteq DOMAIN file
          /\ \A i \in S : IsReadable(file[i]) /\ file[i].typ = "deposit"
      <3>1. file \in Files /\ file \in Seq(CsvEntry) /\ line \in 1..(Len(file) + 1)
        BY FilesAreRows DEF ProgramInv, Control
      <3>2. \A i \in S : i \in 1..(line - 1) /\ IsReadable(file[i]) /\ file[i].typ = "deposit"
        BY CountedRows DEF FirstRows, DepositRows
      <3>. QED
        BY <3>1, <3>2
    <2>3. IsFiniteSet(S)
      <3>1. IsFiniteSet(1..(line - 1))
        BY <2>2, FS_Interval
      <3>. QED
        BY <2>2, <3>1, FS_Subset
    <2>4. \A i \in S : /\ d[i] \in Int /\ e[i] \in Int
                       /\ d[i] = e[i] \/ (i \in Whole(S) /\ d[i] = e[i] - 1)
      BY <2>2, RowIsKept DEF RowAmounts, Whole
    <2>5. Summable(file, S)
      BY <2>3, <2>4 DEF Summable, RowAmounts
    <2>6. PICK g : IsFold(g, d, S) /\ SumOf(file, S) = g[S]
      BY <2>5, RowsFold
    <2>. HIDE DEF S
    <2>7. PICK h : IsFold(h, e, S) /\ SumOfValues(file, S) = h[S]
      <3>1. \A i \in S : e[i] \in Int
        BY <2>4
      <3>. QED
        BY <2>3, <3>1, ValuesFold
    <2>8. ByTheFile(a) = h[S]
      BY <2>7 DEF ByTheFile, SumOfValues, S
    <2>9. Whole(S) \subseteq S /\ S \cap Whole(S) = Whole(S) /\ S \in SUBSET S
      BY DEF Whole
    <2>. HIDE DEF d, e
    <2>10. /\ g[S] \in Int /\ h[S] \in Int /\ Cardinality(S \cap Whole(S)) \in Nat
           /\ g[S] <= h[S] /\ h[S] - Cardinality(S \cap Whole(S)) <= g[S]
      BY <2>3, <2>4, <2>6, <2>7, <2>9, FoldNear
    <2>11. Deposited(a) = g[S] /\ ByTheFile(a) = h[S]
      BY <2>1, <2>6, <2>8
    <2>. DEFINE lost == Cardinality(Whole(S))
    <2>14. Cardinality(S \cap Whole(S)) = lost
      BY <2>9
    <2>. HIDE DEF lost
    <2>12. /\ Deposited(a) \in Int /\ ByTheFile(a) \in Int /\ lost \in Int
           /\ Deposited(a) <= ByTheFile(a)
           /\ ByTheFile(a) - lost <= Deposited(a)
      BY <2>10, <2>11, <2>14
    <2>13. Deposited(a) \in ByTheFile(a) - lost .. ByTheFile(a)
      BY <2>12
    <2>. QED
      BY <2>13 DEF S, lost
  <1>. QED
    BY <1>1, ProgramHolds, PTL

-----------------------------------------------------------------------------
(* Progress.                                                                *)

\* What a state of a call has left.
Left(state) ==
    CASE state.at = "select" -> 2
      [] state.at = "store" -> Len(state.todo)
      [] OTHER -> 0

\* A call that is returned has nothing left, and one that is to store has the
\* transactions it offers.
LEMMA OfferLeft ==
    ASSUME call \in [Client -> CallState], NEW c \in Client,
           NEW txs, Len(txs) \in Nat, Offer(c, txs)
    PROVE  Left(call'[c]) \in 0..Len(txs)
  <1>. DEFINE refused == {k \in DOMAIN txs : NewVerdict(txs[k].from, txs[k].to) # "Ok"}
              first == CHOOSE k \in refused : \A j \in refused : k <= j
              verdict == NewVerdict(txs[first].from, txs[first].to)
  <1>1. CASE refused = {}
    <2>1. call' = [call EXCEPT ![c] = [at |-> "store", todo |-> txs]]
      BY <1>1 DEF Offer
    <2>2. call'[c] = [at |-> "store", todo |-> txs]
      BY <2>1
    <2>. QED
      BY <2>2 DEF Left
  <1>2. CASE refused # {}
    <2>1. Return(c, verdict)
      BY <1>2 DEF Offer
    <2>. HIDE DEF verdict
    <2>2. call'[c] = [at |-> "idle", outcome |-> verdict]
      BY <2>1 DEF Return
    <2>. QED
      BY <2>2 DEF Left
  <1>. QED
    BY <1>1, <1>2

LEMMA ReturnLeft ==
    ASSUME call \in [Client -> CallState], NEW c \in Client, NEW outcome, Return(c, outcome)
    PROVE  Left(call'[c]) = 0
  BY DEF Return, Left

\* A call begins with two awaits left at most.
LEMMA StartLeft ==
    ASSUME TypeOK, NEW c \in Client, Start(c)
    PROVE  Left(call'[c]) \in 0..2
  <1>1. call \in [Client -> CallState]
    BY DEF TypeOK, CallState
  <1>2. ASSUME NEW a, NEW r, NEW m, Deposit(c, a, r, m)
        PROVE  Left(call'[c]) \in 0..2
    <2>1. PICK h \in Fresh(Used) : Offer(c, <<Tx(h, <<>>, <<To(MainOf(a), m)>>, r)>>)
      BY <1>2 DEF Deposit
    <2>. DEFINE txs == <<Tx(h, <<>>, <<To(MainOf(a), m)>>, r)>>
    <2>2. Len(txs) = 1
      OBVIOUS
    <2>. HIDE DEF txs
    <2>3. Left(call'[c]) \in 0..Len(txs)
      BY <1>1, <2>1, <2>2, OfferLeft DEF txs
    <2>. QED
      BY <2>2, <2>3
  <1>3. ASSUME NEW a, NEW r, NEW m, Withdraw(c, a, r, m)
        PROVE  Left(call'[c]) \in 0..2
    <2>1. CASE Return(c, "NotEnough")
      BY <1>1, <2>1, ReturnLeft
    <2>2. ASSUME NEW tx, Offer(c, <<tx>>)
          PROVE  Left(call'[c]) \in 0..2
      <3>. DEFINE txs == <<tx>>
      <3>1. Len(txs) = 1
        OBVIOUS
      <3>. HIDE DEF txs
      <3>2. Left(call'[c]) \in 0..Len(txs)
        BY <1>1, <2>2, <3>1, OfferLeft DEF txs
      <3>. QED
        BY <3>1, <3>2
    <2>3. ASSUME NEW tx, NEW next, Offer(c, <<tx, next>>)
          PROVE  Left(call'[c]) \in 0..2
      <3>. DEFINE txs == <<tx, next>>
      <3>1. Len(txs) = 2
        OBVIOUS
      <3>. HIDE DEF txs
      <3>2. Left(call'[c]) \in 0..Len(txs)
        BY <1>1, <2>3, <3>1, OfferLeft DEF txs
      <3>. QED
        BY <3>1, <3>2
    <2>4. \/ Return(c, "NotEnough")
          \/ \E tx : Offer(c, <<tx>>)
          \/ \E tx, next : Offer(c, <<tx, next>>)
      BY <1>3 DEF Withdraw
    <2>. QED
      BY <2>1, <2>2, <2>3, <2>4
  <1>4. ASSUME NEW a, NEW r, NEW op, Dispute(c, a, r) \/ Settle(c, op, a, r)
        PROVE  Left(call'[c]) \in 0..2
    <2>1. \/ \E outcome : Return(c, outcome)
          \/ \E state : call' = [call EXCEPT ![c] = state] /\ state.at = "select"
      <3>1. CASE Dispute(c, a, r)
        <4>1. \/ Return(c, "NotFound") \/ Return(c, "WrongType")
              \/ \E i \in Found(log, MainOf(a), r) :
                    call' = [call EXCEPT ![c] =
                        [at |-> "select", op |-> "dispute", account |-> a,
                         reference |-> r, amount |-> log[i].to[1].amount]]
          BY <3>1 DEF Dispute
        <4>2. ASSUME NEW i,
                     call' = [call EXCEPT ![c] =
                        [at |-> "select", op |-> "dispute", account |-> a,
                         reference |-> r, amount |-> log[i].to[1].amount]]
              PROVE  \E state : call' = [call EXCEPT ![c] = state] /\ state.at = "select"
          <5>1. [at |-> "select", op |-> "dispute", account |-> a,
                 reference |-> r, amount |-> log[i].to[1].amount].at = "select"
            OBVIOUS
          <5>. QED
            BY <4>2, <5>1, Zenon
        <4>. QED
          BY <4>1, <4>2, Zenon
      <3>2. CASE Settle(c, op, a, r)
        <4>1. \/ Return(c, "NotFound")
              \/ \E i \in Found(log, DisputedOf(a), Tagged("dispute", r)) :
                    call' = [call EXCEPT ![c] =
                        [at |-> "select", op |-> op, account |-> a, reference |-> r,
                         amount |-> Credited(log[i], DisputedOf(a))]]
          BY <3>2 DEF Settle
        <4>2. ASSUME NEW i,
                     call' = [call EXCEPT ![c] =
                        [at |-> "select", op |-> op, account |-> a, reference |-> r,
                         amount |-> Credited(log[i], DisputedOf(a))]]
              PROVE  \E state : call' = [call EXCEPT ![c] = state] /\ state.at = "select"
          <5>1. [at |-> "select", op |-> op, account |-> a, reference |-> r,
                 amount |-> Credited(log[i], DisputedOf(a))].at = "select"
            OBVIOUS
          <5>. QED
            BY <4>2, <5>1, Zenon
        <4>. QED
          BY <4>1, <4>2, Zenon
      <3>. QED
        BY <1>4, <3>1, <3>2
    <2>2. ASSUME NEW state, call' = [call EXCEPT ![c] = state], state.at = "select"
          PROVE  Left(call'[c]) \in 0..2
      BY <1>1, <2>2 DEF Left
    <2>. QED
      BY <1>1, <2>1, <2>2, ReturnLeft
  <1>. QED
    BY <1>2, <1>3, <1>4 DEF Start, Resolve, Chargeback

\* An await takes one at least of those left.
LEMMA ContinueLeft ==
    ASSUME TypeOK, NEW c \in Client, Continue(c)
    PROVE  Left(call[c]) \in Nat /\ Left(call'[c]) \in 0..(Left(call[c]) - 1)
  <1>1. call \in [Client -> CallState]
    BY DEF TypeOK, CallState
  <1>2. CASE Select(c)
    <2>1. Left(call[c]) = 2
      BY <1>2 DEF Select, Left
    <2>2. \/ \E outcome : Return(c, outcome)
          \/ \E tx : Offer(c, <<tx>>)
      BY <1>2 DEF Select
    <2>3. ASSUME NEW tx, Offer(c, <<tx>>)
          PROVE  Left(call'[c]) \in 0..1
      <3>. DEFINE txs == <<tx>>
      <3>1. Len(txs) = 1
        OBVIOUS
      <3>. HIDE DEF txs
      <3>2. Left(call'[c]) \in 0..Len(txs)
        BY <1>1, <2>3, <3>1, OfferLeft DEF txs
      <3>. QED
        BY <3>1, <3>2
    <2>4. ASSUME NEW outcome, Return(c, outcome)
          PROVE  Left(call'[c]) \in 0..1
      <3>1. Left(call'[c]) = 0
        BY <1>1, <2>4, ReturnLeft
      <3>. QED
        BY <3>1
    <2>5. Left(call'[c]) \in 0..1
      BY <2>2, <2>3, <2>4, Zenon
    <2>. QED
      BY <2>1, <2>5
  <1>3. CASE Store(c)
    <2>. DEFINE todo == call[c].todo
                rest == Tail(todo)
    <2>1. call[c].at = "store" /\ call[c] \in CallState
      BY <1>1, <1>3 DEF Store
    <2>2. todo \in Seq(Transaction) /\ todo # <<>>
      BY <2>1 DEF CallState, Idle, Selecting, Storing
    <2>3. Len(todo) \in Nat /\ Len(todo) > 0 /\ Len(rest) = Len(todo) - 1
      BY <2>2
    <2>4. Left(call[c]) = Len(todo)
      BY <2>1 DEF Left
    <2>5. \/ \E outcome : Return(c, outcome)
          \/ call' = [call EXCEPT ![c].todo = rest]
      BY <1>3 DEF Store
    <2>6. CASE call' = [call EXCEPT ![c].todo = rest]
      <3>1. call'[c] = [call[c] EXCEPT !.todo = rest]
        BY <1>1, <2>6
      <3>2. call'[c].at = "store" /\ call'[c].todo = rest
        BY <2>1, <3>1 DEF CallState, Idle, Selecting, Storing
      <3>. HIDE DEF rest, todo
      <3>3. Left(call'[c]) = Len(rest)
        BY <3>2 DEF Left
      <3>. QED
        BY <2>3, <2>4, <3>3
    <2>. HIDE DEF todo, rest
    <2>. QED
      BY <1>1, <2>3, <2>4, <2>5, <2>6, ReturnLeft
  <1>. QED
    BY <1>2, <1>3 DEF Continue

\* Each step takes from what is left of its phase, or ends the phase.
LEMMA StepTakes ==
    ASSUME ReportInv, Step
    PROVE  Phase' < Phase \/ (Phase' = Phase /\ StepsLeft' \in 0..(StepsLeft - 1))
  <1>1. /\ TypeOK /\ Control /\ Caller \in Client /\ log \in Seq(Transaction)
        /\ line \in Nat /\ Len(file) \in Nat /\ line <= Len(file) + 1 /\ (at = "rows" => AwaitsLeft = 0)
    BY OnlyCaller, FilesAreRows
       DEF ReportInv, ProgramInv, LedgerInv, Inv, TypeOK, Control, AwaitsLeft, IsIdle
  <1>2. AwaitsLeft = Left(call[Caller]) /\ AwaitsLeft' = Left(call'[Caller])
    BY DEF AwaitsLeft, Left
  <1>3. ASSUME Phase = 2, Phase' = 2, file' = file, line' = line + 1, line <= Len(file),
               AwaitsLeft = 0, AwaitsLeft' \in 0..2
        PROVE  StepsLeft' \in 0..(StepsLeft - 1)
    <2>1. StepsLeft = 3 * (Len(file) + 1 - line)
          /\ StepsLeft' = 3 * (Len(file) + 1 - (line + 1)) + AwaitsLeft'
      BY <1>1, <1>3 DEF StepsLeft
    <2>. QED
      BY <1>1, <1>3, <2>1
  <1>4. CASE SkipRow
    <2>1. AwaitsLeft' = AwaitsLeft
      BY <1>4 DEF SkipRow, AwaitsLeft
    <2>. QED
      BY <1>1, <1>3, <1>4, <2>1 DEF SkipRow, Phase
  <1>5. CASE MissingAmount
    BY <1>5 DEF MissingAmount, Phase
  <1>6. CASE CallLedger
    <2>1. at = "rows" /\ line <= Len(file) /\ line' = line + 1 /\ file' = file
          /\ at' \in {"call", "rows", "panicked"}
      BY <1>6 DEF CallLedger, After
    <2>2. AwaitsLeft' \in 0..2
      BY <1>1, <1>2, <1>6, CallStarts, StartLeft
    <2>. QED
      BY <1>1, <1>3, <2>1, <2>2 DEF Phase
  <1>7. CASE AwaitLedger
    <2>1. at = "call" /\ UNCHANGED <<file, line>> /\ at' \in {"call", "rows", "panicked"}
      BY <1>7 DEF AwaitLedger, After
    <2>2. AwaitsLeft \in Nat /\ AwaitsLeft' \in 0..(AwaitsLeft - 1)
      BY <1>1, <1>2, <1>7, ContinueLeft DEF AwaitLedger
    <2>3. CASE at' \in {"call", "rows"}
      <3>1. Phase = 2 /\ Phase' = 2
        BY <2>1, <2>3 DEF Phase
      <3>2. StepsLeft = 3 * (Len(file) + 1 - line) + AwaitsLeft
            /\ StepsLeft' = 3 * (Len(file) + 1 - line) + AwaitsLeft'
        BY <2>1, <3>1 DEF StepsLeft
      <3>. QED
        BY <1>1, <2>2, <3>1, <3>2
    <2>4. CASE at' = "panicked"
      BY <2>1, <2>4 DEF Phase
    <2>. QED
      BY <2>1, <2>3, <2>4
  <1>8. CASE EndOfFile
    BY <1>8 DEF EndOfFile, Phase
  <1>. DEFINE unlisted == Accounts \ Listed
              count == Cardinality(unlisted)
  <1>9. IsFiniteSet(unlisted) /\ count \in Nat
    <2>1. IsFiniteSet(Accounts)
      <3>. DEFINE owner == [p \in Places(log) |-> Owner(OutputAt(log, p).account)]
      <3>1. owner \in Surjection(Places(log), Accounts)
        BY DEF Surjection, Accounts
      <3>. HIDE DEF owner
      <3>. QED
        BY <1>1, <3>1, PlacesFinite, FS_Surjection
    <2>2. IsFiniteSet(unlisted)
      BY <2>1, FS_Subset
    <2>. QED
      BY <2>2, FS_CardinalityType
  <1>10. ASSUME UNCHANGED <<log, output>>
         PROVE  unlisted' = unlisted
    BY <1>10 DEF Accounts, Listed
  <1>11. ASSUME NEW a \in unlisted
         PROVE  count > 0
    <2>1. Cardinality(unlisted \ {a}) \in Nat /\ Cardinality(unlisted \ {a}) = count - 1
      BY <1>9, <1>11, Smaller
    <2>. HIDE DEF unlisted
    <2>. QED
      BY <1>9, <2>1
  <1>12. Phase = 1 => StepsLeft = 3 * count - BalancesRead
    BY DEF StepsLeft
  <1>13. Phase' = 1 => StepsLeft' = 3 * count' - BalancesRead'
    BY DEF StepsLeft
  <1>14. Reporting
    BY DEF ReportInv
  <1>15. CASE NextAccount
    <2>1. at = "report" /\ at' = "balances" /\ UNCHANGED <<log, output>>
          /\ \E a \in unlisted : ReadMain(a)
      BY <1>15 DEF NextAccount
    <2>2. reader.at = "idle" /\ reader'.at = "disputed"
      BY <1>14, <2>1 DEF Reporting, ReadMain
    <2>3. BalancesRead = 0 /\ BalancesRead' = 1 /\ Phase = 1 /\ Phase' = 1
      BY <2>1, <2>2 DEF BalancesRead, Phase
    <2>4. count' = count /\ count > 0
      BY <1>10, <1>11, <2>1
    <2>. HIDE DEF count
    <2>. QED
      BY <1>9, <1>12, <1>13, <2>3, <2>4
  <1>16. CASE ReadNextBalance
    <2>1. at = "balances" /\ at' = "balances" /\ UNCHANGED <<log, output>>
          /\ reader.at = "disputed" /\ reader'.at = "chargeback"
      BY <1>16 DEF ReadNextBalance, ReadDisputed
    <2>2. reader.account \in unlisted
      BY <1>14, <2>1 DEF Reporting, ReadsNext
    <2>3. BalancesRead = 1 /\ BalancesRead' = 2 /\ Phase = 1 /\ Phase' = 1
      BY <2>1 DEF BalancesRead, Phase
    <2>4. count' = count /\ count > 0
      BY <1>10, <1>11, <2>1, <2>2
    <2>. HIDE DEF count
    <2>. QED
      BY <1>9, <1>12, <1>13, <2>3, <2>4
  <1>17. CASE WriteRecord
    <2>1. at = "balances" /\ at' = "report" /\ log' = log
          /\ reader.at = "chargeback" /\ reader'.at = "idle"
      BY <1>17 DEF WriteRecord, ReadChargeback
    <2>2. reader.account \in unlisted /\ Listed' = Listed \cup {reader.account}
      BY <1>14, <1>17, RecordWritten DEF ReportInv
    <2>3. Accounts' = Accounts
      BY <2>1 DEF Accounts
    <2>4. unlisted' = unlisted \ {reader.account}
      BY <2>2, <2>3
    <2>. HIDE DEF unlisted
    <2>5. count' = count - 1 /\ count' \in Nat
      BY <1>9, <2>2, <2>4, Smaller
    <2>6. BalancesRead = 2 /\ BalancesRead' = 0 /\ Phase = 1 /\ Phase' = 1
      BY <2>1 DEF BalancesRead, Phase
    <2>. HIDE DEF count
    <2>. QED
      BY <1>9, <1>12, <1>13, <2>5, <2>6
  <1>18. CASE Finish
    BY <1>18 DEF Finish, Phase
  <1>. QED
    BY <1>4, <1>5, <1>6, <1>7, <1>8, <1>15, <1>16, <1>17, <1>18 DEF Step

\* No row is read again and no account reported again; with fairness, the program
\* ends.
THEOREM StepsRunOutHolds == ProgramSpec => StepsRunOut
  <1>1. ReportInv => [Step => Phase' < Phase \/ (Phase' = Phase /\ StepsLeft' \in 0..(StepsLeft - 1))]_programVars
    BY StepTakes
  <1>. QED
    BY <1>1, ReportHolds, PTL DEF StepsRunOut
=============================================================================
