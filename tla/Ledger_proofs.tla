--------------------------- MODULE Ledger_proofs ---------------------------
(***************************************************************************)
(* Type correctness and safety of the ledger, for any number of clients,   *)
(* accounts, references, amounts (negative ones included) and              *)
(* transactions, under any interleaving of the calls.                      *)
(*                                                                         *)
(* The safety follows from the checks of store_tx and from what the calls  *)
(* select; nowhere is it used that the hash of a new transaction is fresh, *)
(* because store_tx refuses a hash it has.                                 *)
(*                                                                         *)
(* Conservation: a commit takes the outputs its transaction spends out of  *)
(* the unspent ones of one account and adds the outputs it creates.  Both  *)
(* sets are summed over places; they hold the same unless the transaction  *)
(* deposits or withdraws, and then the other side of the equation moves    *)
(* with them.                                                              *)
(*                                                                         *)
(* One caller: what a call selected is still unspent when its caller comes *)
(* to store it, as nobody else stores anything, so no call is refused for  *)
(* a race, and an exchange is followed by its withdrawal.                  *)
(*                                                                         *)
(* What the balances mean: a stored transaction is told apart from others  *)
(* by what it was made for: each one in a call, and so each one in the     *)
(* log, is a deposit, an exchange, a withdrawal or the move of a deposit's *)
(* amount that was asked for (Purpose).  From that each balance after a    *)
(* commit follows, and the set of entries that the log shows, and with     *)
(* them the step of the book that the commit is.  That the balances add up *)
(* is then a theorem about the book, proved in AccountBook_proofs and      *)
(* carried over by the refinement.                                         *)
(*                                                                         *)
(* Amount \subseteq Nat, in the last part: a client may ask for a negative *)
(* amount, and the code then lets balances go negative (see the README);   *)
(* what is said of funds that suffice is said of amounts that are not.     *)
(* NoResolvedRefs is explained where it is defined.                        *)
(***************************************************************************)
EXTENDS LedgerProperties, BookView, Balances, TxLog_proofs, SequenceTheorems

CallState == Idle \cup Selecting \cup Storing

-----------------------------------------------------------------------------
(* The values the actions build.                                            *)

\* The three sub-accounts of an account are accounts of the storage.
LEMMA AccountTypes ==
    ASSUME NEW a \in Id
    PROVE  /\ MainOf(a) \in FullAccount
           /\ DisputedOf(a) \in FullAccount
           /\ ChargebackOf(a) \in FullAccount
  BY DEF MainOf, DisputedOf, ChargebackOf, FullAccount, Type

\* A prefix on a sequence keeps its type.
LEMMA PrefixedType ==
    ASSUME NEW S, NEW x \in S, NEW s \in Seq(S)
    PROVE  <<x>> \o s \in Seq(S)
  <1>1. <<x>> \in Seq(S)
    OBVIOUS
  <1>. QED
    BY <1>1, ConcatProperties

\* A derived reference, such as 'dispute:r', is a reference.
LEMMA TaggedType ==
    ASSUME NEW tag \in Tags, NEW r \in Reference
    PROVE  Tagged(tag, r) \in Reference
  <1>1. tag \in STRING
    BY TagsAreStrings
  <1>. QED
    BY <1>1, PrefixedType, Zenon DEF Tagged, Reference

\* An account and an amount make an output.
LEMMA ToType ==
    ASSUME NEW account \in FullAccount, NEW m \in Int
    PROVE  To(account, m) \in Output
  BY DEF To, Output

\* The parts of a transaction make a transaction.
LEMMA TxType ==
    ASSUME NEW h \in HashId, NEW from \in Seq(Utxo), NEW to \in Seq(Output),
           NEW r \in Reference
    PROVE  Tx(h, from, to, r) \in Transaction
  BY DEF Tx, Transaction

\* Every move has a source and a destination among the sub-accounts.
LEMMA MovesType ==
    ASSUME NEW op \in Op
    PROVE  /\ Moves[op].source \in {"Main", "Disputed"}
           /\ Moves[op].dest \in Type
           /\ Moves[op].tag \in Tags
           /\ Moves[op].missing \in Outcome
  <1>1. op \in {"dispute", "resolve", "chargeback"}
    BY DEF Op, Moves
  <1>2. Moves[op].source \in {"Main", "Disputed"} /\ Moves[op].dest \in Type
    BY <1>1 DEF Moves, Type
  <1>3. Moves[op].tag \in Tags
    <2>1. Moves[op].tag \in {"dispute", "resolved", "chargeback"}
      BY <1>1 DEF Moves
    <2>. QED
      BY <2>1 DEF Tags
  <1>4. Moves[op].missing \in Outcome
    BY <1>1 DEF Moves, Outcome
  <1>. QED
    BY <1>2, <1>3, <1>4

\* The amount moved and its change are outputs.
LEMMA SplitType ==
    ASSUME NEW account \in FullAccount, NEW m \in Int, NEW source \in FullAccount,
           NEW total \in Int
    PROVE  Split(To(account, m), source, total) \in Seq(Output)
  <1>1. To(account, m) \in Output /\ To(account, m).amount = m
    BY ToType DEF To
  <1>2. To(source, total - m) \in Output
    BY ToType
  <1>. QED
    BY <1>1, <1>2 DEF Split

\* A fresh hash is one nobody uses.
LEMMA FreshType ==
    ASSUME NEW used, NEW h \in Fresh(used)
    PROVE  h \in HashId /\ h \notin used
  BY DEF Fresh

\* The exchange before a withdrawal is a transaction, and its first output
\* has the amount to withdraw.
LEMMA ExchangeType ==
    ASSUME NEW h \in HashId, NEW inputs \in Seq(Utxo), NEW a \in Id,
           NEW r \in Reference, NEW m \in Int
    PROVE  /\ Exchange(h, inputs, a, r, m) \in Transaction
           /\ Kept(Exchange(h, inputs, a, r, m)) = [id |-> <<h, 0>>, amount |-> m]
  <1>1. Total(inputs) \in Int
    BY TotalIsInt
  <1>2. Split(To(MainOf(a), m), MainOf(a), Total(inputs)) \in Seq(Output)
    BY <1>1, AccountTypes, SplitType
  <1>3. Tagged("Exchange for", r) \in Reference
    BY TaggedType DEF Tags
  <1>4. Exchange(h, inputs, a, r, m) \in Transaction
    BY <1>2, <1>3, TxType DEF Exchange
  <1>5. Split(To(MainOf(a), m), MainOf(a), Total(inputs))[1].amount = m
    BY DEF Split, To
  <1>. QED
    BY <1>4, <1>5 DEF Exchange, Kept, Tx

\* The amount a settlement moves is a number.
LEMMA CreditedType ==
    ASSUME NEW tx \in Transaction, NEW account
    PROVE  Credited(tx, account) \in Int
  <1>. DEFINE s == [k \in DOMAIN tx.to |->
                      IF tx.to[k].account = account THEN tx.to[k].amount ELSE 0]
  <1>1. tx.to \in Seq(Output)
    BY DEF Transaction
  <1>2. \A k \in DOMAIN tx.to : tx.to[k] \in Output
    BY <1>1
  <1>3. \A k \in DOMAIN tx.to : tx.to[k].amount \in Int
    BY <1>2 DEF Output
  <1>4. s \in Seq(Int)
    BY <1>1, <1>3
  <1>. QED
    BY <1>4, SumIsInt DEF Credited

-----------------------------------------------------------------------------
(* The ways a step ends.                                                    *)

\* What the operations answer before the storage is asked to store.
LEMMA Outcomes == {"Ok", "NotFound", "WrongType", "NotEnough"} \subseteq Outcome
  BY DEF Outcome

\* Ending a call keeps the calls well formed.
LEMMA ReturnType ==
    ASSUME call \in [Client -> CallState], NEW c \in Client, NEW outcome \in Outcome,
           Return(c, outcome)
    PROVE  call' \in [Client -> CallState]
  BY DEF Return, CallState, Idle

\* Planning transactions, or refusing to build one, keeps the calls well formed.
LEMMA OfferType ==
    ASSUME call \in [Client -> CallState], NEW c \in Client,
           NEW txs \in Seq(Transaction) \ {<<>>}, Offer(c, txs)
    PROVE  call' \in [Client -> CallState]
  <1>1. \A k : NewVerdict(txs[k].from, txs[k].to) \in Outcome
    BY NewVerdictType DEF Outcome
  <1>2. [at |-> "store", todo |-> txs] \in CallState
    BY DEF CallState, Storing
  <1>. DEFINE refused == {k \in DOMAIN txs : NewVerdict(txs[k].from, txs[k].to) # "Ok"}
              first == CHOOSE k \in refused : \A j \in refused : k <= j
  <1>3. CASE refused = {}
    BY <1>2, <1>3 DEF Offer
  <1>4. CASE refused # {}
    <2>1. Return(c, NewVerdict(txs[first].from, txs[first].to))
      BY <1>4 DEF Offer
    <2>. HIDE DEF first
    <2>. QED
      BY <2>1, <1>1, ReturnType
  <1>. QED
    BY <1>3, <1>4

\* The same for the calls that store one transaction.
LEMMA OfferOneType ==
    ASSUME call \in [Client -> CallState], NEW c \in Client,
           NEW tx \in Transaction, Offer(c, <<tx>>)
    PROVE  call' \in [Client -> CallState]
  <1>1. <<tx>> \in Seq(Transaction) \ {<<>>}
    OBVIOUS
  <1>. QED
    BY <1>1, OfferType

-----------------------------------------------------------------------------

\* An empty ledger with no call running is well formed.
LEMMA InitTypeOK == Init => TypeOK
  BY DEF Init, TypeOK, Idle, Outcome

\* deposit plans a well-formed transaction.
LEMMA DepositType ==
    ASSUME TypeOK, NEW c \in Client, NEW a \in Id, NEW r \in UserRef, NEW m \in Amount,
           Deposit(c, a, r, m)
    PROVE  TypeOK'
  <1>0. log \in Seq(Transaction) /\ call \in [Client -> CallState]
    BY DEF TypeOK, CallState
  <1>1. PICK h \in Fresh(Used) : Offer(c, <<Tx(h, <<>>, <<To(MainOf(a), m)>>, r)>>)
    BY DEF Deposit
  <1>2. <<To(MainOf(a), m)>> \in Seq(Output)
    BY AmountIsInt, AccountTypes, ToType
  <1>3. <<>> \in Seq(Utxo) /\ h \in HashId /\ r \in Reference
    BY UserRefIsReference, FreshType
  <1>. DEFINE tx == Tx(h, <<>>, <<To(MainOf(a), m)>>, r)
  <1>4. tx \in Transaction
    BY <1>2, <1>3, TxType
  <1>5. call' \in [Client -> CallState]
    BY <1>0, <1>1, <1>4, OfferOneType
  <1>. QED
    BY <1>5 DEF Deposit, TypeOK, CallState

\* withdraw plans one or two well-formed transactions.
LEMMA WithdrawType ==
    ASSUME TypeOK, NEW c \in Client, NEW a \in Id, NEW r \in UserRef, NEW m \in Amount,
           Withdraw(c, a, r, m)
    PROVE  TypeOK'
  <1>. USE UserRefIsReference, AmountIsInt
  <1>0. log \in Seq(Transaction) /\ call \in [Client -> CallState]
    BY DEF TypeOK, CallState
  <1>1. PICK inputs \in GetUnspent(log, MainOf(a), Some(m)) :
           \/ Total(inputs) < m /\ Return(c, "NotEnough")
           \/ \E h \in Fresh(Used) : Offer(c, <<Tx(h, inputs, <<>>, r)>>)
           \/ \E h \in Fresh(Used) : \E g \in Fresh(Used \cup {h}) :
                 Offer(c, <<Exchange(h, inputs, a, r, m),
                            Tx(g, <<Kept(Exchange(h, inputs, a, r, m))>>, <<>>, r)>>)
    BY DEF Withdraw
  <1>2. inputs \in Seq(Utxo)
    BY <1>0, Selected
  <1>3. ASSUME Return(c, "NotEnough")
        PROVE  call' \in [Client -> CallState]
    BY <1>0, <1>3, ReturnType, Outcomes
  <1>4. ASSUME NEW h \in Fresh(Used), Offer(c, <<Tx(h, inputs, <<>>, r)>>)
        PROVE  call' \in [Client -> CallState]
    <2>1. <<>> \in Seq(Output) /\ h \in HashId /\ r \in Reference
      BY FreshType
    <2>2. Tx(h, inputs, <<>>, r) \in Transaction
      BY <1>2, <2>1, TxType
    <2>. QED
      BY <1>0, <1>4, <2>2, OfferOneType
  <1>5. ASSUME NEW h \in Fresh(Used), NEW g \in Fresh(Used \cup {h}),
               Offer(c, <<Exchange(h, inputs, a, r, m),
                          Tx(g, <<Kept(Exchange(h, inputs, a, r, m))>>, <<>>, r)>>)
        PROVE  call' \in [Client -> CallState]
    <2>. DEFINE exchange == Exchange(h, inputs, a, r, m)
                withdrawal == Tx(g, <<Kept(exchange)>>, <<>>, r)
    <2>1. h \in HashId /\ g \in HashId /\ r \in Reference /\ <<>> \in Seq(Output)
      BY FreshType
    <2>2. exchange \in Transaction /\ Kept(exchange) = [id |-> <<h, 0>>, amount |-> m]
      BY <1>2, <2>1, ExchangeType
    <2>3. <<Kept(exchange)>> \in Seq(Utxo)
      BY <2>1, <2>2 DEF Utxo, UtxoId
    <2>4. withdrawal \in Transaction
      BY <2>1, <2>3, TxType
    <2>. HIDE DEF exchange, withdrawal
    <2>5. <<exchange, withdrawal>> \in Seq(Transaction) \ {<<>>}
      BY <2>2, <2>4
    <2>. QED
      BY <1>0, <1>5, <2>5, OfferType DEF exchange, withdrawal
  <1>6. call' \in [Client -> CallState]
    BY <1>1, <1>3, <1>4, <1>5
  <1>. QED
    BY <1>6 DEF Withdraw, TypeOK, CallState

\* The lookup of a dispute leaves a well-formed call.
LEMMA DisputeType ==
    ASSUME TypeOK, NEW c \in Client, NEW a \in Id, NEW r \in UserRef, Dispute(c, a, r)
    PROVE  TypeOK'
  <1>. USE UserRefIsReference
  <1>0. log \in Seq(Transaction) /\ call \in [Client -> CallState]
    BY DEF TypeOK, CallState
  <1>1. ASSUME Return(c, "NotFound") \/ Return(c, "WrongType")
        PROVE  call' \in [Client -> CallState]
    BY <1>0, <1>1, ReturnType, Outcomes
  <1>2. ASSUME NEW i \in Found(log, MainOf(a), r), Len(log[i].to) = 1,
               call' = [call EXCEPT ![c] =
                          [at |-> "select", op |-> "dispute", account |-> a,
                           reference |-> r, amount |-> log[i].to[1].amount]]
        PROVE  call' \in [Client -> CallState]
    <2>1. log[i] \in Transaction
      BY <1>0 DEF Found
    <2>2. log[i].to \in Seq(Output)
      BY <2>1 DEF Transaction
    <2>3. log[i].to[1] \in Output
      BY <1>2, <2>2
    <2>4. log[i].to[1].amount \in Int
      BY <2>3 DEF Output
    <2>. QED
      BY <1>0, <1>2, <2>4 DEF CallState, Selecting, Op, Moves
  <1>3. call' \in [Client -> CallState]
    BY <1>1, <1>2 DEF Dispute
  <1>. QED
    BY <1>3 DEF Dispute, TypeOK, CallState

\* The lookup of resolve and chargeback leaves a well-formed call.
LEMMA SettleType ==
    ASSUME TypeOK, NEW c \in Client, NEW op \in Op, NEW a \in Id, NEW r \in UserRef,
           Settle(c, op, a, r)
    PROVE  TypeOK'
  <1>. USE UserRefIsReference
  <1>0. log \in Seq(Transaction) /\ call \in [Client -> CallState]
    BY DEF TypeOK, CallState
  <1>1. ASSUME Return(c, "NotFound")
        PROVE  call' \in [Client -> CallState]
    BY <1>0, <1>1, ReturnType, Outcomes
  <1>2. ASSUME NEW i \in Found(log, DisputedOf(a), Tagged("dispute", r)),
               call' = [call EXCEPT ![c] =
                          [at |-> "select", op |-> op, account |-> a, reference |-> r,
                           amount |-> Credited(log[i], DisputedOf(a))]]
        PROVE  call' \in [Client -> CallState]
    <2>1. log[i] \in Transaction
      BY <1>0 DEF Found
    <2>2. Credited(log[i], DisputedOf(a)) \in Int
      BY <2>1, CreditedType
    <2>. QED
      BY <1>0, <1>2, <2>2 DEF CallState, Selecting
  <1>3. call' \in [Client -> CallState]
    BY <1>1, <1>2 DEF Settle
  <1>. QED
    BY <1>3 DEF Settle, TypeOK, CallState

\* A dispute or a settlement plans a well-formed move.
LEMMA SelectType ==
    ASSUME TypeOK, NEW c \in Client, Select(c)
    PROVE  TypeOK'
  <1>0. log \in Seq(Transaction) /\ call \in [Client -> CallState]
    BY DEF TypeOK, CallState
  <1>. DEFINE now == call[c]
              move == Moves[now.op]
              source == <<now.account, move.source>>
              moved == To(<<now.account, move.dest>>, now.amount)
  <1>1. /\ now.op \in Op /\ now.account \in Id
        /\ now.reference \in Reference /\ now.amount \in Int
    BY <1>0 DEF Select, CallState, Idle, Selecting, Storing
  <1>2. /\ source \in FullAccount
        /\ <<now.account, move.dest>> \in FullAccount
        /\ Tagged(move.tag, now.reference) \in Reference
        /\ move.missing \in Outcome
    BY <1>1, MovesType, TaggedType DEF FullAccount, Type
  <1>3. PICK inputs \in GetUnspent(log, source, Some(now.amount)) :
           \/ Return(c, move.missing)
           \/ \E h \in Fresh(Used) :
                 Offer(c, <<Tx(h, inputs, Split(moved, source, Total(inputs)),
                               Tagged(move.tag, now.reference))>>)
    BY DEF Select
  <1>4. inputs \in Seq(Utxo) /\ Total(inputs) \in Int
    BY <1>0, Selected, TotalIsInt
  <1>5. ASSUME Return(c, move.missing)
        PROVE  call' \in [Client -> CallState]
    BY <1>0, <1>2, <1>5, ReturnType
  <1>6. ASSUME NEW h \in Fresh(Used),
               Offer(c, <<Tx(h, inputs, Split(moved, source, Total(inputs)),
                             Tagged(move.tag, now.reference))>>)
        PROVE  call' \in [Client -> CallState]
    <2>1. Split(moved, source, Total(inputs)) \in Seq(Output)
      BY <1>1, <1>2, <1>4, SplitType
    <2>. DEFINE tx == Tx(h, inputs, Split(moved, source, Total(inputs)),
                         Tagged(move.tag, now.reference))
    <2>2. tx \in Transaction
      BY <1>2, <1>4, <2>1, FreshType, TxType
    <2>. QED
      BY <1>0, <1>6, <2>2, OfferOneType
  <1>7. call' \in [Client -> CallState]
    BY <1>3, <1>5, <1>6
  <1>. QED
    BY <1>7 DEF Select, TypeOK, CallState

\* Storing a planned transaction keeps the log and the calls well formed.
LEMMA StoreType ==
    ASSUME TypeOK, NEW c \in Client, Store(c)
    PROVE  TypeOK'
  <1>0. log \in Seq(Transaction) /\ call \in [Client -> CallState]
    BY DEF TypeOK, CallState
  <1>1. call[c].at = "store" /\ call[c].todo \in Seq(Transaction) /\ call[c].todo # <<>>
    BY <1>0 DEF Store, CallState, Idle, Selecting, Storing
  <1>. DEFINE tx == Head(call[c].todo)
              rest == Tail(call[c].todo)
  <1>2. tx \in Transaction /\ rest \in Seq(Transaction)
    BY <1>1
  <1>3. Verdict(log, tx) \in Outcome
    BY VerdictType DEF Outcome
  <1>4. CASE Verdict(log, tx) = "Ok" /\ rest # <<>>
    <2>1. log' = Append(log, tx) /\ call' = [call EXCEPT ![c].todo = rest]
      BY <1>4 DEF Store
    <2>2. call[c] \in Storing
      BY <1>0, <1>1 DEF CallState, Storing, Idle, Selecting
    <2>3. [call[c] EXCEPT !.todo = rest] \in Storing
      BY <1>2, <1>4, <2>2 DEF Storing
    <2>4. call' \in [Client -> CallState]
      BY <1>0, <2>1, <2>3 DEF CallState
    <2>. QED
      BY <1>0, <1>2, <2>1, <2>4, AppendTx DEF TypeOK, CallState
  <1>5. CASE Verdict(log, tx) = "Ok" /\ rest = <<>>
    <2>1. log' = Append(log, tx) /\ Return(c, "Ok")
      BY <1>5 DEF Store
    <2>2. call' \in [Client -> CallState]
      BY <1>0, <2>1, ReturnType, Outcomes
    <2>. QED
      BY <1>0, <1>2, <2>1, <2>2, AppendTx DEF TypeOK, CallState
  <1>6. CASE Verdict(log, tx) # "Ok"
    <2>1. log' = log /\ Return(c, Verdict(log, tx))
      BY <1>6 DEF Store
    <2>2. call' \in [Client -> CallState]
      BY <1>0, <1>3, <2>1, ReturnType
    <2>. QED
      BY <1>0, <2>1, <2>2 DEF TypeOK, CallState
  <1>. QED
    BY <1>4, <1>5, <1>6

\* Every step keeps the log and the calls well formed.
LEMMA NextTypeOK == TypeOK /\ [Next]_vars => TypeOK'
  <1>. SUFFICES ASSUME TypeOK, [Next]_vars PROVE TypeOK'
    OBVIOUS
  <1>1. ASSUME NEW c \in Client, Start(c)
        PROVE  TypeOK'
    <2>1. \A op \in {"resolve", "chargeback"} : op \in Op
      BY DEF Op, Moves
    <2>. QED
      BY <1>1, <2>1, DepositType, WithdrawType, DisputeType, SettleType
         DEF Start, Resolve, Chargeback
  <1>2. ASSUME NEW c \in Client, Continue(c)
        PROVE  TypeOK'
    BY <1>2, SelectType, StoreType DEF Continue
  <1>3. CASE Rest \/ UNCHANGED vars
    BY <1>3 DEF Rest, vars, TypeOK
  <1>4. ASSUME NEW c \in Client, Drop(c)
        PROVE  TypeOK'
    <2>1. call \in [Client -> CallState] /\ log \in Seq(Transaction)
      BY DEF TypeOK, CallState
    <2>2. "Dropped" \in Outcome
      BY DEF Outcome
    <2>3. call' \in [Client -> CallState] /\ log' = log
      BY <1>4, <2>1, <2>2, ReturnType DEF Drop
    <2>. QED
      BY <2>1, <2>3 DEF TypeOK, CallState
  <1>. QED
    BY <1>1, <1>2, <1>3, <1>4 DEF Next

\* Whatever the clients do, only well-formed transactions are committed and
\* every call is idle, has chosen what to move, or has transactions to store.
THEOREM TypeCorrect == Spec => []TypeOK
  BY InitTypeOK, NextTypeOK, PTL DEF Spec

-----------------------------------------------------------------------------
(* The inductive invariant.                                                 *)

\* Whether Transaction::new finds the inputs and the outputs equal.
InBalance(tx) == tx.from = <<>> \/ tx.to = <<>> \/ Total(tx.from) = Total(tx.to)

\* What a call may hold on to from its selection to its last transaction.
WellPlanned(txs) ==
    \A k \in DOMAIN txs : /\ Planned(txs, k)
                          /\ DistinctInputs(txs[k].from)
                          /\ InBalance(txs[k])

AllWellPlanned == \A c \in Client : WellPlanned(Pending(c))

Inv ==
    /\ TypeOK
    /\ UniqueIds(log)
    /\ NoDoubleSpend
    /\ OneCreditPerReference
    /\ InputsHaveASource
    /\ OnlyRacesAreRefused
    /\ AllWellPlanned

-----------------------------------------------------------------------------
(* A transaction is committed.                                              *)

\* store_tx accepts no hash twice.
LEMMA CommitUniqueIds ==
    ASSUME NEW lg \in Seq(Transaction), UniqueIds(lg), NEW tx \in Transaction,
           Verdict(lg, tx) = "Ok"
    PROVE  UniqueIds(Append(lg, tx))
  <1>. DEFINE new == Append(lg, tx)
  <1>1. \A i \in DOMAIN new : i = Len(lg) + 1 \/ (i \in DOMAIN lg /\ new[i] = lg[i])
    BY AppendTx
  <1>2. new[Len(lg) + 1] = tx
    BY AppendTx
  <1>3. \A i \in DOMAIN lg : lg[i].id # tx.id
    BY Accepted
  <1>. HIDE DEF new
  <1>4. UniqueIds(new)
    BY <1>1, <1>2, <1>3 DEF UniqueIds
  <1>. QED
    BY <1>4 DEF new

\* No input of an accepted transaction was spent before, and none is named twice.
LEMMA CommitNoDoubleSpend ==
    ASSUME log \in Seq(Transaction), NoDoubleSpend, NEW tx \in Transaction,
           Verdict(log, tx) = "Ok", DistinctInputs(tx.from), log' = Append(log, tx)
    PROVE  NoDoubleSpend'
  <1>1. \A i \in DOMAIN log' : \/ i = Len(log) + 1 /\ log'[i] = tx
                               \/ i \in DOMAIN log /\ log'[i] = log[i]
    BY AppendTx
  <1>2. \A i \in DOMAIN log : \A k \in DOMAIN log[i].from : log[i].from[k].id \in Spent(log)
    BY DEF Spent
  <1>3. \A k \in DOMAIN tx.from : tx.from[k].id \notin Spent(log)
    BY Accepted
  <1>. SUFFICES ASSUME NEW i \in DOMAIN log', NEW j \in DOMAIN log',
                       NEW k \in DOMAIN log'[i].from, NEW l \in DOMAIN log'[j].from,
                       log'[i].from[k].id = log'[j].from[l].id
                PROVE  i = j /\ k = l
    BY DEF NoDoubleSpend
  <1>4. CASE i \in DOMAIN log /\ log'[i] = log[i] /\ j \in DOMAIN log /\ log'[j] = log[j]
    BY <1>4 DEF NoDoubleSpend
  <1>5. CASE i = Len(log) + 1 /\ log'[i] = tx /\ j = Len(log) + 1 /\ log'[j] = tx
    BY <1>5 DEF DistinctInputs
  <1>6. CASE i \in DOMAIN log /\ log'[i] = log[i] /\ log'[j] = tx
    BY <1>2, <1>3, <1>6
  <1>7. CASE log'[i] = tx /\ j \in DOMAIN log /\ log'[j] = log[j]
    BY <1>2, <1>3, <1>7
  <1>. QED
    BY <1>1, <1>4, <1>5, <1>6, <1>7

\* None of the accounts an accepted transaction credits has its reference.
LEMMA CommitOneCredit ==
    ASSUME log \in Seq(Transaction), OneCreditPerReference, NEW tx \in Transaction,
           Verdict(log, tx) = "Ok", log' = Append(log, tx)
    PROVE  OneCreditPerReference'
  <1>1. \A i \in DOMAIN log' : \/ i = Len(log) + 1 /\ log'[i] = tx
                               \/ i \in DOMAIN log /\ log'[i] = log[i]
    BY AppendTx
  <1>2. \A k \in DOMAIN tx.to : Found(log, tx.to[k].account, tx.reference) = {}
    BY Accepted
  <1>. SUFFICES ASSUME NEW a \in FullAccount, NEW i \in DOMAIN log', NEW j \in DOMAIN log',
                       log'[i].reference = log'[j].reference,
                       i \in Found(log', a, log'[i].reference),
                       j \in Found(log', a, log'[i].reference)
                PROVE  i = j
    BY DEF OneCreditPerReference
  <1>. DEFINE Credits(t) == \E k \in DOMAIN t.to : t.to[k].account = a
  <1>3. Credits(log'[i]) /\ Credits(log'[j])
    BY DEF Found
  <1>4. ASSUME NEW n \in DOMAIN log, Credits(log[n]), Credits(tx),
               log[n].reference = tx.reference
        PROVE  FALSE
    <2>1. n \in Found(log, a, tx.reference)
      BY <1>4 DEF Found
    <2>. QED
      BY <1>2, <1>4, <2>1
  <1>5. CASE i \in DOMAIN log /\ log'[i] = log[i] /\ j \in DOMAIN log /\ log'[j] = log[j]
    <2>1. {i, j} \subseteq Found(log, a, log[i].reference)
      BY <1>3, <1>5 DEF Found
    <2>. QED
      BY <1>5, <2>1 DEF OneCreditPerReference
  <1>. HIDE DEF Credits
  <1>. QED
    BY <1>1, <1>3, <1>4, <1>5

\* Places and what is there survive the commit.
LEMMA CommitKeepsMovable ==
    ASSUME log \in Seq(Transaction), NEW tx \in Transaction, log' = Append(log, tx),
           NEW a, NEW p \in Places(log)
    PROVE  /\ p \in Places(log')
           /\ UtxoAt(log', p) = UtxoAt(log, p)
           /\ IsMovable(a, p)' <=> IsMovable(a, p)
  BY AppendKeepsPlaces DEF IsMovable

\* A commit that spends existing outputs of one account, into that account,
\* leaves every transaction with a source.
LEMMA CommitInputsHaveASource ==
    ASSUME log \in Seq(Transaction), InputsHaveASource, NEW tx \in Transaction,
           log' = Append(log, tx), NEW a \in Id,
           \A n \in DOMAIN tx.to : Owner(tx.to[n].account) = a,
           \A k \in DOMAIN tx.from : \E p \in Places(log) :
              IsMovable(a, p) /\ UtxoAt(log, p) = tx.from[k]
    PROVE  InputsHaveASource'
  <1>1. \A i \in DOMAIN log' : \/ i = Len(log) + 1 /\ log'[i] = tx
                               \/ i \in DOMAIN log /\ log'[i] = log[i]
    BY AppendTx
  <1>2. \A p \in Places(log) : p[1] \in 1..Len(log) /\ Len(log) \in Nat
    BY PlaceType
  <1>. SUFFICES ASSUME NEW i \in DOMAIN log'
                PROVE  \E b \in Id :
                          /\ \A n \in DOMAIN log'[i].to : Owner(log'[i].to[n].account) = b
                          /\ \A k \in DOMAIN log'[i].from : \E p \in Places(log') :
                                p[1] < i /\ IsMovable(b, p)' /\ UtxoAt(log', p) = log'[i].from[k]
    BY DEF InputsHaveASource
  <1>3. CASE i \in DOMAIN log /\ log'[i] = log[i]
    <2>1. PICK b \in Id :
             /\ \A n \in DOMAIN log[i].to : Owner(log[i].to[n].account) = b
             /\ \A k \in DOMAIN log[i].from : \E p \in Places(log) :
                   p[1] < i /\ IsMovable(b, p) /\ UtxoAt(log, p) = log[i].from[k]
      BY <1>3 DEF InputsHaveASource
    <2>2. \A k \in DOMAIN log'[i].from : \E p \in Places(log') :
             p[1] < i /\ IsMovable(b, p)' /\ UtxoAt(log', p) = log'[i].from[k]
      BY <1>3, <2>1, CommitKeepsMovable
    <2>. QED
      BY <1>3, <2>1, <2>2
  <1>4. CASE i = Len(log) + 1 /\ log'[i] = tx
    <2>1. ASSUME NEW k \in DOMAIN tx.from
          PROVE  \E p \in Places(log') :
                    p[1] < i /\ IsMovable(a, p)' /\ UtxoAt(log', p) = tx.from[k]
      <3>1. PICK p \in Places(log) : IsMovable(a, p) /\ UtxoAt(log, p) = tx.from[k]
        OBVIOUS
      <3>2. p[1] < i
        BY <1>2, <1>4
      <3>. QED
        BY <3>1, <3>2, CommitKeepsMovable
    <2>. QED
      BY <1>4, <2>1
  <1>. QED
    BY <1>1, <1>3, <1>4

\* The plans of the calls that are not stored yet stay good.
LEMMA CommitKeepsPlans ==
    ASSUME log \in Seq(Transaction), NEW tx \in Transaction, log' = Append(log, tx),
           NEW txs, WellPlanned(txs)
    PROVE  WellPlanned(txs)'
  <1>. SUFFICES ASSUME NEW k \in DOMAIN txs PROVE Planned(txs, k)'
    BY DEF WellPlanned
  <1>1. PICK a \in Id :
          /\ \A n \in DOMAIN txs[k].to : Owner(txs[k].to[n].account) = a
          /\ \A n \in DOMAIN txs[k].from :
                \/ \E p \in Places(log) : IsMovable(a, p) /\ UtxoAt(log, p) = txs[k].from[n]
                \/ /\ k = 2 /\ txs[1].to # <<>> /\ txs[1].to[1].account = MainOf(a)
                   /\ txs[k].from[n] = [id |-> <<txs[1].id, 0>>, amount |-> txs[1].to[1].amount]
    BY DEF WellPlanned, Planned
  <1>2. \A n \in DOMAIN txs[k].from :
           (\E p \in Places(log) : IsMovable(a, p) /\ UtxoAt(log, p) = txs[k].from[n])
           => (\E p \in Places(log') : IsMovable(a, p)' /\ UtxoAt(log', p) = txs[k].from[n])
    BY CommitKeepsMovable
  <1>. QED
    BY <1>1, <1>2 DEF Planned

\* Once its first transaction is committed the rest of a call is planned well:
\* the output of the exchange is there.
LEMMA CommitAdvancesPlan ==
    ASSUME log \in Seq(Transaction), NEW txs \in Seq(Transaction), txs # <<>>,
           WellPlanned(txs), log' = Append(log, Head(txs))
    PROVE  WellPlanned(Tail(txs))'
  <1>. DEFINE tx == Head(txs)
              rest == Tail(txs)
  <1>0. tx \in Transaction /\ tx = txs[1]
    OBVIOUS
  <1>1. tx \in Transaction /\ tx = txs[1] /\ tx.to \in Seq(Output)
    BY <1>0 DEF Transaction
  <1>2. \A k \in DOMAIN rest : k \in Nat \ {0} /\ k + 1 \in DOMAIN txs /\ rest[k] = txs[k + 1]
    OBVIOUS
  <1>. SUFFICES ASSUME NEW k \in DOMAIN rest PROVE Planned(rest, k)'
    BY <1>2 DEF WellPlanned
  <1>2a. Planned(txs, k + 1)
    BY <1>2 DEF WellPlanned
  <1>2b. PICK a \in Id :
          /\ \A n \in DOMAIN txs[k + 1].to : Owner(txs[k + 1].to[n].account) = a
          /\ \A n \in DOMAIN txs[k + 1].from :
                \/ \E p \in Places(log) : IsMovable(a, p) /\ UtxoAt(log, p) = txs[k + 1].from[n]
                \/ /\ k + 1 = 2 /\ txs[1].to # <<>> /\ txs[1].to[1].account = MainOf(a)
                   /\ txs[k + 1].from[n] = [id |-> <<txs[1].id, 0>>, amount |-> txs[1].to[1].amount]
    BY <1>2a DEF Planned
  <1>. HIDE DEF tx, rest
  <1>3. /\ \A n \in DOMAIN rest[k].to : Owner(rest[k].to[n].account) = a
        /\ \A n \in DOMAIN rest[k].from :
              \/ \E p \in Places(log) : IsMovable(a, p) /\ UtxoAt(log, p) = rest[k].from[n]
              \/ /\ tx.to # <<>> /\ tx.to[1].account = MainOf(a)
                 /\ rest[k].from[n] = [id |-> <<tx.id, 0>>, amount |-> tx.to[1].amount]
    BY <1>0, <1>2, <1>2b
  <1>4. log' = Append(log, tx)
    BY DEF tx
  <1>5. ASSUME NEW n \in DOMAIN rest[k].from
        PROVE  \E p \in Places(log') : IsMovable(a, p)' /\ UtxoAt(log', p) = rest[k].from[n]
    <2>1. CASE \E p \in Places(log) : IsMovable(a, p) /\ UtxoAt(log, p) = rest[k].from[n]
      BY <1>1, <1>4, <2>1, CommitKeepsMovable
    <2>2. CASE /\ tx.to # <<>> /\ tx.to[1].account = MainOf(a)
               /\ rest[k].from[n] = [id |-> <<tx.id, 0>>, amount |-> tx.to[1].amount]
      <3>0. PICK p : p = <<Len(log) + 1, 1>>
        OBVIOUS
      <3>1. 1 \in DOMAIN tx.to
        BY <1>1, <2>2
      <3>2. /\ p \in Places(log')
            /\ OutputAt(log', p) = tx.to[1]
            /\ UtxoAt(log', p) = [id |-> <<tx.id, 1 - 1>>, amount |-> tx.to[1].amount]
        BY <1>1, <1>4, <3>0, <3>1, AppendAddsPlaces
      <3>3. IsMovable(a, p)'
        BY <2>2, <3>2 DEF IsMovable
      <3>. QED
        BY <2>2, <3>2, <3>3
    <2>. QED
      BY <1>3, <2>1, <2>2
  <1>. QED
    BY <1>3, <1>5 DEF Planned
-----------------------------------------------------------------------------
(* What the calls plan.                                                     *)

\* The sub-accounts of an account belong to it.
LEMMA Owners ==
    ASSUME NEW a
    PROVE  Owner(MainOf(a)) = a /\ Owner(DisputedOf(a)) = a /\ Owner(ChargebackOf(a)) = a
  BY DEF Owner, MainOf, DisputedOf, ChargebackOf

\* get_unspent hands a call outputs that exist, each of them once.
LEMMA SelectedPlan ==
    ASSUME log \in Seq(Transaction), UniqueIds(log), NEW a \in Id,
           NEW account \in {MainOf(a), DisputedOf(a)}, NEW target,
           NEW inputs \in GetUnspent(log, account, target)
    PROVE  /\ inputs \in Seq(Utxo)
           /\ DistinctInputs(inputs)
           /\ \A n \in DOMAIN inputs : \E p \in Places(log) :
                 IsMovable(a, p) /\ UtxoAt(log, p) = inputs[n]
  <1>1. \A p \in UnspentPlaces(log, account) : p \in Places(log) /\ IsMovable(a, p)
    BY DEF UnspentPlaces, IsMovable
  <1>2. /\ inputs \in Seq(Utxo)
        /\ \A n \in DOMAIN inputs : \E p \in UnspentPlaces(log, account) :
              inputs[n] = UtxoAt(log, p)
    BY Selected
  <1>3. DistinctInputs(inputs)
    BY SelectedDistinct
  <1>. QED
    BY <1>1, <1>2, <1>3

\* The amount and the change add up to what the inputs hold, and the change
\* goes back where the inputs came from.
LEMMA SplitPlan ==
    ASSUME NEW account, NEW m \in Int, NEW source, NEW total \in Int
    PROVE  LET to == Split(To(account, m), source, total)
           IN  /\ Total(to) = total
               /\ \A n \in DOMAIN to : to[n].account \in {account, source}
               /\ to # <<>> /\ to[1].account = account /\ to[1].amount = m
  <1>. DEFINE to == Split(To(account, m), source, total)
  <1>1. To(account, m).amount = m /\ To(account, m).account = account
    BY DEF To
  <1>2. CASE total = m
    <2>1. to = <<To(account, m)>>
      BY <1>1, <1>2 DEF Split
    <2>. HIDE DEF to
    <2>2. Total(to) = total
      BY <1>2, <2>1, TotalOfOne
    <2>3. /\ \A n \in DOMAIN to : to[n].account \in {account, source}
          /\ to # <<>> /\ to[1].account = account /\ to[1].amount = m
      BY <1>1, <2>1
    <2>. QED
      BY <2>2, <2>3 DEF to
  <1>3. CASE total # m
    <2>1. to = <<To(account, m), To(source, total - m)>>
      BY <1>1, <1>3 DEF Split
    <2>. HIDE DEF to
    <2>2. Total(to) = m + (total - m)
      BY <2>1, TotalOfTwo
    <2>3. /\ \A n \in DOMAIN to : to[n].account \in {account, source}
          /\ to # <<>> /\ to[1].account = account /\ to[1].amount = m
      BY <1>1, <2>1 DEF To
    <2>. QED
      BY <2>2, <2>3 DEF to
  <1>. QED
    BY <1>2, <1>3

\* A single transaction that stays in an account is planned well.
LEMMA PlanOfOne ==
    ASSUME NEW h, NEW from, NEW to, NEW r, NEW a \in Id,
           \A n \in DOMAIN to : Owner(to[n].account) = a,
           \A n \in DOMAIN from : \E p \in Places(log) :
              IsMovable(a, p) /\ UtxoAt(log, p) = from[n],
           DistinctInputs(from),
           from = <<>> \/ to = <<>> \/ Total(from) = Total(to)
    PROVE  WellPlanned(<<Tx(h, from, to, r)>>)
  <1>. DEFINE tx == Tx(h, from, to, r)
  <1>1. tx.from = from /\ tx.to = to
    BY DEF Tx
  <1>. HIDE DEF tx
  <1>2. Planned(<<tx>>, 1)
    BY <1>1 DEF Planned
  <1>3. InBalance(tx)
    BY <1>1 DEF InBalance
  <1>4. WellPlanned(<<tx>>)
    BY <1>1, <1>2, <1>3 DEF WellPlanned
  <1>. QED
    BY <1>4 DEF tx

\* An exchange and the withdrawal of its first output are planned well.
LEMMA PlanOfTwo ==
    ASSUME log \in Seq(Transaction), UniqueIds(log), NEW h \in HashId, NEW g \in HashId,
           NEW a \in Id, NEW r \in Reference, NEW m \in Int, NEW target,
           NEW inputs \in GetUnspent(log, MainOf(a), target)
    PROVE  LET exchange == Exchange(h, inputs, a, r, m)
           IN  WellPlanned(<<exchange, Tx(g, <<Kept(exchange)>>, <<>>, r)>>)
  <1>. DEFINE exchange == Exchange(h, inputs, a, r, m)
              to == Split(To(MainOf(a), m), MainOf(a), Total(inputs))
              withdrawal == Tx(g, <<Kept(exchange)>>, <<>>, r)
              txs == <<exchange, withdrawal>>
  <1>1. /\ inputs \in Seq(Utxo)
        /\ DistinctInputs(inputs)
        /\ \A n \in DOMAIN inputs : \E p \in Places(log) :
              IsMovable(a, p) /\ UtxoAt(log, p) = inputs[n]
    BY SelectedPlan
  <1>2. Total(inputs) \in Int
    BY <1>1, TotalIsInt
  <1>. HIDE DEF to
  <1>3. /\ Total(to) = Total(inputs)
        /\ \A n \in DOMAIN to : to[n].account = MainOf(a)
        /\ to # <<>> /\ to[1].account = MainOf(a) /\ to[1].amount = m
    BY <1>2, SplitPlan DEF to
  <1>4. exchange.id = h /\ exchange.from = inputs /\ exchange.to = to
    BY DEF Exchange, Tx, to
  <1>5. Kept(exchange) = [id |-> <<h, 0>>, amount |-> m]
    BY <1>1, ExchangeType
  <1>6. withdrawal.from = <<[id |-> <<h, 0>>, amount |-> m]>> /\ withdrawal.to = <<>>
    BY <1>5 DEF Tx
  <1>. HIDE DEF exchange, withdrawal
  <1>7. Planned(txs, 1)
    BY <1>1, <1>3, <1>4, Owners DEF Planned
  <1>8. Planned(txs, 2)
    <2>1. txs[1] = exchange /\ txs[2] = withdrawal
      OBVIOUS
    <2>2. \A n \in DOMAIN withdrawal.from : withdrawal.from[n] = [id |-> <<h, 0>>, amount |-> m]
      BY <1>6
    <2>3. \A n \in DOMAIN withdrawal.to : Owner(withdrawal.to[n].account) = a
      BY <1>6
    <2>. HIDE DEF txs
    <2>. QED
      BY <1>3, <1>4, <2>1, <2>2, <2>3 DEF Planned
  <1>9. DistinctInputs(exchange.from) /\ DistinctInputs(withdrawal.from)
    BY <1>1, <1>4, <1>6 DEF DistinctInputs
  <1>10. InBalance(exchange) /\ InBalance(withdrawal)
    BY <1>3, <1>4, <1>6 DEF InBalance
  <1>11. WellPlanned(txs)
    BY <1>7, <1>8, <1>9, <1>10 DEF WellPlanned
  <1>. QED
    BY <1>11 DEF exchange, withdrawal

-----------------------------------------------------------------------------
(* How a step leaves the call of its client.                                *)

Bad == {"MissingUtxo", "MismatchAmount", "Imbalanced"}

GoodState(state) ==
    /\ state.at = "store" => WellPlanned(state.todo)
    /\ state.at = "idle" => state.outcome \notin Bad

Advance(c) == \E state : call' = [call EXCEPT ![c] = state] /\ GoodState(state)

\* A call may end, but not with an answer the code should never give.
LEMMA ReturnGood ==
    ASSUME NEW c, NEW outcome, outcome \notin Bad, Return(c, outcome)
    PROVE  Advance(c)
  <1>. DEFINE state == [at |-> "idle", outcome |-> outcome]
  <1>1. GoodState(state)
    BY DEF GoodState
  <1>2. call' = [call EXCEPT ![c] = state]
    BY DEF Return
  <1>. QED
    BY <1>1, <1>2 DEF Advance

\* What is planned well is built or, when its total is not positive, refused as
\* InvalidFrom.
LEMMA OfferGood ==
    ASSUME NEW c, NEW txs \in Seq(Transaction), WellPlanned(txs), Offer(c, txs)
    PROVE  Advance(c)
  <1>. DEFINE refused == {k \in DOMAIN txs : NewVerdict(txs[k].from, txs[k].to) # "Ok"}
              first == CHOOSE k \in refused : \A j \in refused : k <= j
  <1>1. CASE refused = {}
    <2>. DEFINE state == [at |-> "store", todo |-> txs]
    <2>1. call' = [call EXCEPT ![c] = state]
      BY <1>1 DEF Offer
    <2>2. GoodState(state)
      BY DEF GoodState
    <2>. QED
      BY <2>1, <2>2 DEF Advance
  <1>2. CASE refused # {}
    <2>1. refused \in SUBSET Nat
      OBVIOUS
    <2>2. first \in refused
      BY <1>2, <2>1, Least
    <2>3. Return(c, NewVerdict(txs[first].from, txs[first].to))
      BY <1>2 DEF Offer
    <2>. HIDE DEF first
    <2>4. InBalance(txs[first])
      BY <2>2 DEF WellPlanned
    <2>5. NewVerdict(txs[first].from, txs[first].to) \in {"Ok", "InvalidFrom"}
      BY <2>4 DEF InBalance, NewVerdict
    <2>. QED
      BY <2>3, <2>5, ReturnGood DEF Bad
  <1>. QED
    BY <1>1, <1>2

\* Offering one well-planned transaction is a good move of a call.
LEMMA OfferOneGood ==
    ASSUME NEW c, NEW tx \in Transaction, WellPlanned(<<tx>>), Offer(c, <<tx>>)
    PROVE  Advance(c)
  <1>1. <<tx>> \in Seq(Transaction)
    OBVIOUS
  <1>. QED
    BY <1>1, OfferGood

\* deposit plans a transaction that takes nothing from anyone.
LEMMA DepositGood ==
    ASSUME Inv, NEW c \in Client, NEW a \in Id, NEW r \in UserRef, NEW m \in Amount,
           Deposit(c, a, r, m)
    PROVE  Advance(c) /\ UNCHANGED log
  <1>1. PICK h \in Fresh(Used) : Offer(c, <<Tx(h, <<>>, <<To(MainOf(a), m)>>, r)>>)
    BY DEF Deposit
  <1>2. <<To(MainOf(a), m)>> \in Seq(Output)
    BY AmountIsInt, AccountTypes, ToType
  <1>3. <<>> \in Seq(Utxo) /\ h \in HashId /\ r \in Reference
    BY UserRefIsReference, FreshType
  <1>. DEFINE to == <<To(MainOf(a), m)>>
              tx == Tx(h, <<>>, to, r)
  <1>4. tx \in Transaction
    BY <1>2, <1>3, TxType
  <1>5. \A n \in DOMAIN to : Owner(to[n].account) = a
    BY Owners DEF To
  <1>. HIDE DEF to
  <1>6. DistinctInputs(<<>>)
    BY DEF DistinctInputs
  <1>7. WellPlanned(<<tx>>)
    BY <1>5, <1>6, PlanOfOne
  <1>. QED
    BY <1>1, <1>4, <1>7, OfferOneGood DEF Deposit, to

\* withdraw plans what it has selected, and the exchange it stores first.
LEMMA WithdrawGood ==
    ASSUME Inv, NEW c \in Client, NEW a \in Id, NEW r \in UserRef, NEW m \in Amount,
           Withdraw(c, a, r, m)
    PROVE  Advance(c) /\ UNCHANGED log
  <1>. USE UserRefIsReference, AmountIsInt
  <1>0. log \in Seq(Transaction) /\ UniqueIds(log)
    BY DEF Inv, TypeOK
  <1>1. PICK inputs \in GetUnspent(log, MainOf(a), Some(m)) :
           \/ Return(c, "NotEnough")
           \/ \E h \in Fresh(Used) : Offer(c, <<Tx(h, inputs, <<>>, r)>>)
           \/ \E h \in Fresh(Used) : \E g \in Fresh(Used \cup {h}) :
                 Offer(c, <<Exchange(h, inputs, a, r, m),
                            Tx(g, <<Kept(Exchange(h, inputs, a, r, m))>>, <<>>, r)>>)
    BY DEF Withdraw
  <1>2. /\ inputs \in Seq(Utxo)
        /\ DistinctInputs(inputs)
        /\ \A n \in DOMAIN inputs : \E p \in Places(log) :
              IsMovable(a, p) /\ UtxoAt(log, p) = inputs[n]
    BY <1>0, SelectedPlan
  <1>3. ASSUME Return(c, "NotEnough")
        PROVE  Advance(c)
    <2>1. "NotEnough" \notin Bad
      BY DEF Bad
    <2>. QED
      BY <1>3, <2>1, ReturnGood
  <1>4. ASSUME NEW h \in Fresh(Used), Offer(c, <<Tx(h, inputs, <<>>, r)>>)
        PROVE  Advance(c)
    <2>1. <<>> \in Seq(Output) /\ h \in HashId /\ r \in Reference
      BY FreshType
    <2>2. Tx(h, inputs, <<>>, r) \in Transaction
      BY <1>2, <2>1, TxType
    <2>3. WellPlanned(<<Tx(h, inputs, <<>>, r)>>)
      <3>. DEFINE to == <<>>
      <3>1. \A n \in DOMAIN to : Owner(to[n].account) = a
        OBVIOUS
      <3>. QED
        BY <1>2, <3>1, PlanOfOne
    <2>. QED
      BY <1>4, <2>2, <2>3, OfferOneGood
  <1>5. ASSUME NEW h \in Fresh(Used), NEW g \in Fresh(Used \cup {h}),
               Offer(c, <<Exchange(h, inputs, a, r, m),
                          Tx(g, <<Kept(Exchange(h, inputs, a, r, m))>>, <<>>, r)>>)
        PROVE  Advance(c)
    <2>. DEFINE exchange == Exchange(h, inputs, a, r, m)
                withdrawal == Tx(g, <<Kept(exchange)>>, <<>>, r)
    <2>1. h \in HashId /\ g \in HashId /\ r \in Reference /\ <<>> \in Seq(Output)
      BY FreshType
    <2>2. exchange \in Transaction /\ Kept(exchange) = [id |-> <<h, 0>>, amount |-> m]
      BY <1>2, <2>1, ExchangeType
    <2>3. <<Kept(exchange)>> \in Seq(Utxo)
      BY <2>1, <2>2 DEF Utxo, UtxoId
    <2>4. withdrawal \in Transaction
      BY <2>1, <2>3, TxType
    <2>5. WellPlanned(<<exchange, withdrawal>>)
      BY <1>0, <2>1, PlanOfTwo
    <2>. HIDE DEF exchange, withdrawal
    <2>6. <<exchange, withdrawal>> \in Seq(Transaction)
      BY <2>2, <2>4
    <2>. QED
      BY <1>5, <2>5, <2>6, OfferGood DEF exchange, withdrawal
  <1>6. Advance(c)
    BY <1>1, <1>3, <1>4, <1>5
  <1>. QED
    BY <1>6 DEF Withdraw

\* The lookups of dispute, resolve and chargeback plan nothing yet.
LEMMA LookupGood ==
    ASSUME NEW c \in Client, NEW a \in Id, NEW r \in UserRef, NEW op \in Op,
           Dispute(c, a, r) \/ Settle(c, op, a, r)
    PROVE  Advance(c) /\ UNCHANGED log
  <1>1. ASSUME NEW outcome \in {"NotFound", "WrongType"}, Return(c, outcome)
        PROVE  Advance(c)
    BY <1>1, ReturnGood DEF Bad
  <1>2. ASSUME NEW how, NEW m,
               call' = [call EXCEPT ![c] =
                          [at |-> "select", op |-> how, account |-> a,
                           reference |-> r, amount |-> m]]
        PROVE  Advance(c)
    <2>. DEFINE state == [at |-> "select", op |-> how, account |-> a,
                          reference |-> r, amount |-> m]
    <2>1. GoodState(state)
      BY DEF GoodState
    <2>. QED
      BY <1>2, <2>1 DEF Advance
  <1>3. ASSUME Dispute(c, a, r)
        PROVE  Advance(c) /\ UNCHANGED log
    BY <1>1, <1>2, <1>3 DEF Dispute
  <1>4. ASSUME Settle(c, op, a, r)
        PROVE  Advance(c) /\ UNCHANGED log
    BY <1>1, <1>2, <1>4 DEF Settle
  <1>. QED
    BY <1>3, <1>4

\* A dispute or a settlement plans what it has selected.
LEMMA SelectGood ==
    ASSUME Inv, NEW c \in Client, Select(c)
    PROVE  Advance(c) /\ UNCHANGED log
  <1>0. /\ log \in Seq(Transaction) /\ UniqueIds(log)
        /\ call \in [Client -> CallState]
    BY DEF Inv, TypeOK, CallState
  <1>. DEFINE now == call[c]
              move == Moves[now.op]
              a == now.account
              source == <<a, move.source>>
              dest == <<a, move.dest>>
              r == Tagged(move.tag, now.reference)
  <1>1. now.op \in Op /\ a \in Id /\ now.reference \in Reference /\ now.amount \in Int
    BY <1>0 DEF Select, CallState, Idle, Selecting, Storing
  <1>2. /\ source \in {MainOf(a), DisputedOf(a)}
        /\ Owner(source) = a /\ Owner(dest) = a
        /\ source \in FullAccount /\ dest \in FullAccount
        /\ r \in Reference
    BY <1>1, MovesType, TaggedType DEF FullAccount, Type, Owner, MainOf, DisputedOf
  <1>3. move.missing \notin Bad
    BY <1>1 DEF Op, Moves, Bad
  <1>4. PICK inputs \in GetUnspent(log, source, Some(now.amount)) :
           \/ Return(c, move.missing)
           \/ \E h \in Fresh(Used) :
                 Offer(c, <<Tx(h, inputs, Split(To(dest, now.amount), source, Total(inputs)), r)>>)
    BY DEF Select
  <1>5. /\ inputs \in Seq(Utxo)
        /\ DistinctInputs(inputs)
        /\ \A n \in DOMAIN inputs : \E p \in Places(log) :
              IsMovable(a, p) /\ UtxoAt(log, p) = inputs[n]
    BY <1>0, <1>1, <1>2, SelectedPlan
  <1>6. ASSUME Return(c, move.missing)
        PROVE  Advance(c)
    BY <1>3, <1>6, ReturnGood
  <1>7. ASSUME NEW h \in Fresh(Used),
               Offer(c, <<Tx(h, inputs, Split(To(dest, now.amount), source, Total(inputs)), r)>>)
        PROVE  Advance(c)
    <2>. DEFINE to == Split(To(dest, now.amount), source, Total(inputs))
    <2>1. Total(inputs) \in Int
      BY <1>5, TotalIsInt
    <2>2. to \in Seq(Output)
      BY <1>1, <1>2, <2>1, SplitType
    <2>3. Total(to) = Total(inputs) /\ \A n \in DOMAIN to : to[n].account \in {dest, source}
      BY <1>1, <2>1, SplitPlan
    <2>. HIDE DEF to
    <2>4. \A n \in DOMAIN to : Owner(to[n].account) = a
      BY <1>2, <2>3
    <2>5. Tx(h, inputs, to, r) \in Transaction
      BY <1>2, <1>5, <2>2, FreshType, TxType
    <2>6. WellPlanned(<<Tx(h, inputs, to, r)>>)
      BY <1>1, <1>5, <2>3, <2>4, PlanOfOne
    <2>. QED
      BY <1>7, <2>5, <2>6, OfferOneGood DEF to
  <1>8. Advance(c)
    BY <1>4, <1>6, <1>7
  <1>. QED
    BY <1>8 DEF Select

-----------------------------------------------------------------------------
(* The invariant is inductive.                                              *)

\* A step that changes the call of one client, to a good state, and under which
\* good plans stay good, keeps the plans and the outcomes of all calls good.
LEMMA AfterAdvance ==
    ASSUME Inv, NEW c \in Client, NEW state, call' = [call EXCEPT ![c] = state],
           GoodState(state)', \A txs : WellPlanned(txs) => WellPlanned(txs)'
    PROVE  AllWellPlanned' /\ OnlyRacesAreRefused'
  <1>1. \A d \in Client : call'[d] = IF d = c THEN state ELSE call[d]
    BY DEF Inv, TypeOK
  <1>2. ASSUME NEW d \in Client
        PROVE  WellPlanned(Pending(d))' /\ (IsIdle(d)' => call'[d].outcome \notin Bad)
    <2>1. CASE d = c
      <3>1. call'[d] = state
        BY <1>1, <2>1
      <3>2. CASE state.at = "store"
        <4>1. Pending(d)' = state.todo /\ ~IsIdle(d)'
          BY <3>1, <3>2 DEF Pending, IsIdle
        <4>. QED
          BY <3>2, <4>1 DEF GoodState
      <3>3. CASE state.at # "store"
        <4>1. Pending(d)' = <<>>
          BY <3>1, <3>3 DEF Pending
        <4>2. WellPlanned(Pending(d))'
          BY <4>1 DEF WellPlanned
        <4>. QED
          BY <3>1, <4>2 DEF GoodState, IsIdle
      <3>. QED
        BY <3>2, <3>3
    <2>2. CASE d # c
      <3>1. call'[d] = call[d]
        BY <1>1, <2>2
      <3>2. Pending(d)' = Pending(d) /\ (IsIdle(d)' <=> IsIdle(d))
        BY <3>1 DEF Pending, IsIdle
      <3>3. WellPlanned(Pending(d))'
        BY <3>2 DEF Inv, AllWellPlanned
      <3>. QED
        BY <3>1, <3>2, <3>3 DEF Inv, OnlyRacesAreRefused, Bad
    <2>. QED
      BY <2>1, <2>2
  <1>. QED
    BY <1>2 DEF AllWellPlanned, OnlyRacesAreRefused, Bad

\* What is said about the log and a plan does not change while the log does not.
LEMMA SameLog ==
    ASSUME UNCHANGED log
    PROVE  /\ Inv => /\ UniqueIds(log') /\ NoDoubleSpend' /\ OneCreditPerReference'
                     /\ InputsHaveASource'
           /\ \A txs : WellPlanned(txs) => WellPlanned(txs)'
           /\ \A state : GoodState(state) => GoodState(state)'
  <1>1. \A a, p : IsMovable(a, p)' <=> IsMovable(a, p)
    BY DEF IsMovable
  <1>2. ASSUME NEW txs, WellPlanned(txs)
        PROVE  WellPlanned(txs)'
    BY <1>1, <1>2 DEF WellPlanned, Planned
  <1>3. InputsHaveASource => InputsHaveASource'
    BY <1>1 DEF InputsHaveASource
  <1>4. (NoDoubleSpend => NoDoubleSpend') /\ (OneCreditPerReference => OneCreditPerReference')
    BY DEF NoDoubleSpend, OneCreditPerReference
  <1>5. \A state : GoodState(state) => GoodState(state)'
    BY <1>2 DEF GoodState
  <1>. QED
    BY <1>2, <1>3, <1>4, <1>5 DEF Inv

\* A step of a call that stores nothing keeps the invariant.
LEMMA AdvanceInv ==
    ASSUME Inv, TypeOK', NEW c \in Client, Advance(c), UNCHANGED log
    PROVE  Inv'
  <1>1. PICK state : call' = [call EXCEPT ![c] = state] /\ GoodState(state)
    BY DEF Advance
  <1>2. AllWellPlanned' /\ OnlyRacesAreRefused'
    BY <1>1, SameLog, AfterAdvance
  <1>. QED
    BY <1>2, SameLog DEF Inv

\* Storing a planned transaction, accepted or refused, keeps the invariant.
LEMMA StoreInv ==
    ASSUME Inv, TypeOK', NEW c \in Client, Store(c)
    PROVE  Inv'
  <1>. DEFINE txs == call[c].todo
              tx == Head(txs)
              rest == Tail(txs)
  <1>0. log \in Seq(Transaction) /\ call \in [Client -> CallState] /\ UniqueIds(log)
    BY DEF Inv, TypeOK, CallState
  <1>1. /\ call[c].at = "store"
        /\ txs \in Seq(Transaction) /\ txs # <<>>
        /\ WellPlanned(txs)
    <2>1. call[c].at = "store" /\ txs \in Seq(Transaction) /\ txs # <<>>
      BY <1>0 DEF Store, CallState, Idle, Selecting, Storing
    <2>2. Pending(c) = txs
      BY <2>1 DEF Pending
    <2>. QED
      BY <2>1, <2>2 DEF Inv, AllWellPlanned
  <1>2. 1 \in DOMAIN txs /\ tx = txs[1] /\ tx \in Transaction
    BY <1>1
  <1>3. PICK a \in Id :
           /\ \A n \in DOMAIN tx.to : Owner(tx.to[n].account) = a
           /\ \A n \in DOMAIN tx.from : \E p \in Places(log) :
                 IsMovable(a, p) /\ UtxoAt(log, p) = tx.from[n]
    <2>1. Planned(txs, 1)
      BY <1>1, <1>2 DEF WellPlanned
    <2>. QED
      BY <1>2, <2>1 DEF Planned
  <1>4. CASE Verdict(log, tx) = "Ok"
    <2>1. log' = Append(log, tx)
      BY <1>4 DEF Store
    <2>2. UniqueIds(log')
      BY <1>0, <1>2, <1>4, <2>1, CommitUniqueIds
    <2>3. NoDoubleSpend'
      BY <1>0, <1>1, <1>2, <1>4, <2>1, CommitNoDoubleSpend DEF Inv, WellPlanned
    <2>4. OneCreditPerReference'
      BY <1>0, <1>2, <1>4, <2>1, CommitOneCredit DEF Inv
    <2>5. InputsHaveASource'
      BY <1>0, <1>2, <1>3, <2>1, CommitInputsHaveASource DEF Inv
    <2>6. \A plan : WellPlanned(plan) => WellPlanned(plan)'
      BY <1>0, <1>2, <2>1, CommitKeepsPlans
    <2>7. PICK state : call' = [call EXCEPT ![c] = state] /\ GoodState(state)'
      <3>1. CASE rest = <<>>
        <4>. DEFINE state == [at |-> "idle", outcome |-> "Ok"]
        <4>1. call' = [call EXCEPT ![c] = state]
          BY <1>4, <3>1 DEF Store, Return
        <4>2. GoodState(state)'
          BY DEF GoodState, Bad
        <4>. QED
          BY <4>1, <4>2
      <3>2. CASE rest # <<>>
        <4>. DEFINE state == [call[c] EXCEPT !.todo = rest]
        <4>1. call' = [call EXCEPT ![c] = state]
          BY <1>4, <3>2 DEF Store
        <4>2. call[c] \in Storing
          BY <1>0, <1>1 DEF CallState, Storing, Idle, Selecting
        <4>3. state.at = "store" /\ state.todo = rest
          BY <4>2 DEF Storing
        <4>4. PICK old, good : old = txs /\ good = state
          OBVIOUS
        <4>5. WellPlanned(Tail(old))'
          BY <1>0, <1>1, <2>1, <4>4, CommitAdvancesPlan
        <4>6. good.at = "store" /\ good.todo = Tail(old)
          BY <4>3, <4>4
        <4>7. GoodState(good)'
          BY <4>5, <4>6 DEF GoodState
        <4>. QED
          BY <4>1, <4>4, <4>7
      <3>. QED
        BY <3>1, <3>2
    <2>8. AllWellPlanned' /\ OnlyRacesAreRefused'
      BY <2>6, <2>7, AfterAdvance
    <2>. QED
      BY <2>2, <2>3, <2>4, <2>5, <2>8 DEF Inv
  <1>5. CASE Verdict(log, tx) # "Ok"
    <2>1. Return(c, Verdict(log, tx)) /\ UNCHANGED log
      BY <1>5 DEF Store
    <2>2. \A n \in DOMAIN tx.from : InputVerdict(log, tx.from[n]) \in {"Ok", "SpentUtxo"}
      BY <1>3 DEF InputVerdict, Created
    <2>3. Verdict(log, tx) \in {"Ok", "Duplicate", "SpentUtxo"}
      <3>. DEFINE refused == {k \in DOMAIN tx.from : InputVerdict(log, tx.from[k]) # "Ok"}
                  first == CHOOSE k \in refused : \A j \in refused : k <= j
      <3>1. tx.from \in Seq(Utxo)
        BY <1>2 DEF Transaction
      <3>2. refused \in SUBSET Nat
        BY <3>1
      <3>3. refused # {} => first \in refused
        BY <3>2, Least
      <3>4. refused # {} => InputVerdict(log, tx.from[first]) \in {"Ok", "SpentUtxo"}
        BY <2>2, <3>3
      <3>. QED
        BY <3>4 DEF Verdict
    <2>4. Verdict(log, tx) \notin Bad
      BY <2>3 DEF Bad
    <2>5. Advance(c)
      BY <2>1, <2>4, ReturnGood
    <2>. QED
      BY <2>1, <2>5, AdvanceInv
  <1>. QED
    BY <1>4, <1>5

\* The invariant holds in an empty ledger.
LEMMA InitInv == Init => Inv
  <1>. SUFFICES ASSUME Init PROVE Inv
    OBVIOUS
  <1>1. log = <<>> /\ \A c \in Client : call[c] = [at |-> "idle", outcome |-> "None"]
    BY DEF Init
  <1>2. UniqueIds(log) /\ NoDoubleSpend /\ OneCreditPerReference /\ InputsHaveASource
    BY <1>1 DEF UniqueIds, NoDoubleSpend, OneCreditPerReference, InputsHaveASource
  <1>3. \A c \in Client : Pending(c) = <<>>
    BY <1>1 DEF Pending
  <1>4. AllWellPlanned
    BY <1>3 DEF AllWellPlanned, WellPlanned
  <1>5. OnlyRacesAreRefused
    BY <1>1 DEF OnlyRacesAreRefused
  <1>. QED
    BY <1>2, <1>4, <1>5, InitTypeOK DEF Inv

\* The invariant is inductive.
LEMMA NextInv == Inv /\ [Next]_vars => Inv'
  <1>. SUFFICES ASSUME Inv, [Next]_vars PROVE Inv'
    OBVIOUS
  <1>1. TypeOK'
    BY NextTypeOK DEF Inv
  <1>2. ASSUME NEW c \in Client, Start(c)
        PROVE  Inv'
    <2>1. \A op \in {"resolve", "chargeback"} : op \in Op
      BY DEF Op, Moves
    <2>2. Advance(c) /\ UNCHANGED log
      BY <1>2, <2>1, DepositGood, WithdrawGood, LookupGood DEF Start, Resolve, Chargeback
    <2>. QED
      BY <1>1, <2>2, AdvanceInv
  <1>3. ASSUME NEW c \in Client, Select(c)
        PROVE  Inv'
    BY <1>1, <1>3, SelectGood, AdvanceInv
  <1>4. ASSUME NEW c \in Client, Store(c)
        PROVE  Inv'
    BY <1>1, <1>4, StoreInv
  <1>5. CASE UNCHANGED vars
    <2>1. UNCHANGED log /\ UNCHANGED call
      BY <1>5 DEF vars
    <2>2. \A c \in Client : Pending(c)' = Pending(c) /\ (IsIdle(c)' <=> IsIdle(c))
      BY <2>1 DEF Pending, IsIdle
    <2>3. AllWellPlanned'
      BY <2>1, <2>2, SameLog DEF Inv, AllWellPlanned
    <2>4. OnlyRacesAreRefused'
      BY <2>1, <2>2 DEF Inv, OnlyRacesAreRefused
    <2>. QED
      BY <1>1, <2>1, <2>3, <2>4, SameLog DEF Inv
  <1>6. CASE Rest
    BY <1>5, <1>6 DEF Rest
  <1>7. ASSUME NEW c \in Client, Drop(c)
        PROVE  Inv'
    <2>1. Advance(c) /\ UNCHANGED log
      BY <1>7, ReturnGood DEF Drop, Bad
    <2>. QED
      BY <1>1, <2>1, AdvanceInv
  <1>. QED
    BY <1>2, <1>3, <1>4, <1>5, <1>6, <1>7 DEF Next, Continue

\* Everything Inv says holds in every state of the ledger.
THEOREM Invariant == Spec => []Inv
  BY InitInv, NextInv, PTL DEF Spec

-----------------------------------------------------------------------------
(* What it implies.                                                         *)

\* No unspent output is consumed twice, however the calls interleave.
THEOREM NoDoubleSpendHolds == Spec => []NoDoubleSpend
  <1>1. Inv => NoDoubleSpend
    BY DEF Inv
  <1>. QED
    BY <1>1, Invariant, PTL

\* An account is credited at most once under a reference.
THEOREM OneCreditPerReferenceHolds == Spec => []OneCreditPerReference
  <1>1. Inv => OneCreditPerReference
    BY DEF Inv
  <1>. QED
    BY <1>1, Invariant, PTL

\* Every input is an earlier output, at its amount, and funds do not leave their
\* account.
THEOREM InputsHaveASourceHolds == Spec => []InputsHaveASource
  <1>1. Inv => InputsHaveASource
    BY DEF Inv
  <1>. QED
    BY <1>1, Invariant, PTL

\* A caller meets no refusal of the storage but a taken reference and a lost race.
THEOREM OnlyRacesAreRefusedHolds == Spec => []OnlyRacesAreRefused
  <1>1. Inv => OnlyRacesAreRefused
    BY DEF Inv
  <1>. QED
    BY <1>1, Invariant, PTL

\* What a call plans to spend exists until the call ends.
THEOREM PlannedInputsExistHolds == Spec => []PlannedInputsExist
  <1>1. Inv => PlannedInputsExist
    BY DEF Inv, AllWellPlanned, WellPlanned, PlannedInputsExist
  <1>. QED
    BY <1>1, Invariant, PTL

\* What is charged back never moves again: the source of an input is movable,
\* and an output is named by one hash and position.
THEOREM ChargebackIsFinalHolds == Spec => []ChargebackIsFinal
  <1>1. Inv => ChargebackIsFinal
    <2>. SUFFICES ASSUME Inv, NEW i \in DOMAIN log, NEW p \in Sources(log[i])
                  PROVE  OutputAt(log, p).account[2] # "Chargeback"
      BY DEF ChargebackIsFinal
    <2>1. log \in Seq(Transaction) /\ UniqueIds(log)
      BY DEF Inv, TypeOK
    <2>2. p \in Places(log)
      BY DEF Sources
    <2>3. PICK k \in DOMAIN log[i].from : log[i].from[k].id = UtxoAt(log, p).id
      BY DEF Sources
    <2>4. PICK a \in Id : \E q \in Places(log) :
             IsMovable(a, q) /\ UtxoAt(log, q) = log[i].from[k]
      BY DEF Inv, InputsHaveASource
    <2>5. PICK q \in Places(log) : IsMovable(a, q) /\ UtxoAt(log, q) = log[i].from[k]
      BY <2>4
    <2>6. p = q
      BY <2>1, <2>2, <2>3, <2>5, UtxoNamesPlace
    <2>. QED
      BY <2>5, <2>6 DEF IsMovable, MainOf, DisputedOf
  <1>. QED
    BY <1>1, Invariant, PTL

-----------------------------------------------------------------------------
(* The places of an account.                                                *)

Owned(lg, a) == {p \in Places(lg) : Owner(OutputAt(lg, p).account) = a}

Unspent(lg, a) == {p \in Owned(lg, a) : UtxoAt(lg, p).id \notin Spent(lg)}

SourcesOf(lg, tx) ==
    {p \in Places(lg) : \E k \in DOMAIN tx.from : tx.from[k].id = UtxoAt(lg, p).id}

Deposits(lg, a) == {p \in Owned(lg, a) : IsDeposit(lg[p[1]])}

Withdrawals(lg, a) ==
    {p \in Owned(lg, a) : \E i \in DOMAIN lg : IsWithdrawal(lg[i]) /\ p \in SourcesOf(lg, lg[i])}

\* The three balances of an account are the sum over all its unspent outputs.
LEMMA HoldsUnspent ==
    ASSUME NEW lg \in Seq(Transaction), NEW a \in Id
    PROVE  Holds(lg, a) = SumAt(lg, Unspent(lg, a))
  <1>. DEFINE M == UnspentPlaces(lg, MainOf(a))
              D == UnspentPlaces(lg, DisputedOf(a))
              C == UnspentPlaces(lg, ChargebackOf(a))
  <1>1. M \subseteq Places(lg) /\ D \subseteq Places(lg) /\ C \subseteq Places(lg)
    BY DEF UnspentPlaces
  <1>2. M \cap D = {} /\ (M \cup D) \cap C = {}
    BY DEF UnspentPlaces, MainOf, DisputedOf, ChargebackOf
  <1>3. Unspent(lg, a) = (M \cup D) \cup C
    <2>1. ASSUME NEW p \in Places(lg)
          PROVE  Owner(OutputAt(lg, p).account) = a
                    <=> OutputAt(lg, p).account \in {MainOf(a), DisputedOf(a), ChargebackOf(a)}
      <3>1. OutputAt(lg, p).account \in FullAccount
        BY PlaceType DEF Output
      <3>. QED
        BY <3>1 DEF FullAccount, Type, Owner, MainOf, DisputedOf, ChargebackOf
    <2>. QED
      BY <2>1 DEF Unspent, Owned, UnspentPlaces
  <1>. HIDE DEF M, D, C
  <1>4. SumAt(lg, M \cup D) = SumAt(lg, M) + SumAt(lg, D)
    BY <1>1, <1>2, SumAtUnion
  <1>5. SumAt(lg, (M \cup D) \cup C) = SumAt(lg, M \cup D) + SumAt(lg, C)
    BY <1>1, <1>2, SumAtUnion
  <1>. QED
    BY <1>3, <1>4, <1>5 DEF Holds, Balance, M, D, C

\* Deposited and Withdrawn are sums over places of the account.
LEMMA DepositedAndWithdrawn ==
    ASSUME NEW a
    PROVE  /\ Deposited(a) = SumAt(log, Deposits(log, a))
           /\ Withdrawn(a) = SumAt(log, Withdrawals(log, a))
  <1>1. {p \in Places(log) : IsDeposit(log[p[1]]) /\ Owner(OutputAt(log, p).account) = a}
           = Deposits(log, a)
    BY DEF Deposits, Owned
  <1>2. \A i : Sources(log[i]) = SourcesOf(log, log[i])
    BY DEF Sources, SourcesOf
  <1>3. UNION {{p \in Sources(log[i]) : Owner(OutputAt(log, p).account) = a} :
                 i \in {j \in DOMAIN log : IsWithdrawal(log[j])}}
           = Withdrawals(log, a)
    <2>. DEFINE W == UNION {{p \in Sources(log[i]) : Owner(OutputAt(log, p).account) = a} :
                              i \in {j \in DOMAIN log : IsWithdrawal(log[j])}}
    <2>1. \A p : p \in W <=> \E i \in DOMAIN log :
             IsWithdrawal(log[i]) /\ p \in Sources(log[i]) /\ Owner(OutputAt(log, p).account) = a
      OBVIOUS
    <2>2. \A i : Sources(log[i]) \subseteq Places(log)
      BY DEF Sources
    <2>. HIDE DEF W
    <2>3. \A p : p \in W <=> p \in Withdrawals(log, a)
      BY <1>2, <2>1, <2>2 DEF Withdrawals, Owned
    <2>. QED
      BY <2>3 DEF W
  <1>. QED
    BY <1>1, <1>3 DEF Deposited, Withdrawn

-----------------------------------------------------------------------------
(* A commit.                                                                *)

\* A set of the old places sums to the same in the new log.
LEMMA AppendKeepsSums ==
    ASSUME NEW lg \in Seq(Transaction), NEW tx \in Transaction,
           NEW S \in SUBSET Places(lg)
    PROVE  SumAt(Append(lg, tx), S) = SumAt(lg, S)
  <1>. DEFINE new == Append(lg, tx)
  <1>1. new \in Seq(Transaction)
    BY AppendTx
  <1>2. \A p \in Places(lg) : p \in Places(new) /\ OutputAt(new, p) = OutputAt(lg, p)
    BY AppendKeepsPlaces
  <1>. HIDE DEF new
  <1>3. SumAt(new, S) = SumAt(lg, S)
    BY <1>1, <1>2, SumAtSame
  <1>. QED
    BY <1>3 DEF new

NewPlaces(lg, tx) == {<<Len(lg) + 1, k>> : k \in DOMAIN tx.to}

\* The outputs of the new log are the old ones and those of the transaction.
LEMMA PlacesAfter ==
    ASSUME NEW lg \in Seq(Transaction), NEW tx \in Transaction
    PROVE  LET new == Append(lg, tx) IN
           /\ Places(new) = Places(lg) \cup NewPlaces(lg, tx)
           /\ Places(lg) \cap NewPlaces(lg, tx) = {}
           /\ Spent(new) = Spent(lg) \cup {tx.from[k].id : k \in DOMAIN tx.from}
           /\ Total(tx.to) = SumAt(new, NewPlaces(lg, tx))
  <1>. DEFINE new == Append(lg, tx)
              last == Len(lg) + 1
  <1>1. /\ new \in Seq(Transaction) /\ last \in DOMAIN new /\ new[last] = tx
        /\ DOMAIN new = DOMAIN lg \cup {last} /\ last \notin DOMAIN lg
        /\ \A i \in DOMAIN lg : new[i] = lg[i]
    BY AppendTx
  <1>. HIDE DEF new, last
  <1>2. Places(new) = Places(lg) \cup {<<last, k>> : k \in DOMAIN tx.to}
    BY <1>1 DEF Places
  <1>3. \A p \in Places(lg) : p[1] # last
    BY <1>1 DEF Places
  <1>4. Spent(new) = Spent(lg) \cup {tx.from[k].id : k \in DOMAIN tx.from}
    BY <1>1 DEF Spent
  <1>5. Total(new[last].to) = SumAt(new, {<<last, k>> : k \in DOMAIN new[last].to})
    BY <1>1, TotalOfOutputs
  <1>. QED
    BY <1>1, <1>2, <1>3, <1>4, <1>5 DEF new, last, NewPlaces

\* What store_tx and the plan of the call ensure about a transaction that is
\* committed: it has a new hash and spends unspent outputs of the account that
\* it pays, each once.
Commits(lg, tx, b) ==
    /\ lg \in Seq(Transaction) /\ UniqueIds(lg) /\ tx \in Transaction
    /\ \A i \in DOMAIN lg : \A k \in DOMAIN lg[i].from :
          \E p \in Places(lg) : UtxoAt(lg, p) = lg[i].from[k]
    /\ \A i \in DOMAIN lg : lg[i].id # tx.id
    /\ \A k \in DOMAIN tx.from : /\ tx.from[k].id \notin Spent(lg)
                                 /\ \E p \in Owned(lg, b) : UtxoAt(lg, p) = tx.from[k]
    /\ \A k \in DOMAIN tx.to : Owner(tx.to[k].account) = b
    /\ DistinctInputs(tx.from)
    /\ InBalance(tx)

\* The outputs it spends were unspent outputs of the account and held the total
\* of the inputs.
LEMMA SpentSources ==
    ASSUME NEW lg, NEW tx, NEW b, Commits(lg, tx, b)
    PROVE  /\ SourcesOf(lg, tx) \subseteq Unspent(lg, b)
           /\ Total(tx.from) = SumAt(lg, SourcesOf(lg, tx))
  <1>1. lg \in Seq(Transaction) /\ UniqueIds(lg) /\ tx.from \in Seq(Utxo)
    BY DEF Commits, Transaction
  <1>2. ASSUME NEW p \in SourcesOf(lg, tx)
        PROVE  p \in Unspent(lg, b)
    <2>1. PICK k \in DOMAIN tx.from : tx.from[k].id = UtxoAt(lg, p).id
      BY DEF SourcesOf
    <2>2. PICK q \in Owned(lg, b) : UtxoAt(lg, q) = tx.from[k]
      BY DEF Commits
    <2>3. p \in Places(lg) /\ q \in Places(lg)
      BY DEF SourcesOf, Owned
    <2>4. p = q
      BY <1>1, <2>1, <2>2, <2>3, UtxoNamesPlace
    <2>. QED
      BY <2>1, <2>2, <2>4 DEF Commits, Unspent
  <1>3. \A k \in DOMAIN tx.from : \E p \in Places(lg) : UtxoAt(lg, p) = tx.from[k]
    BY DEF Commits, Owned
  <1>4. Total(tx.from) = SumAt(lg, SourcesOf(lg, tx))
    BY <1>1, <1>3, TotalOfInputs DEF Commits, SourcesOf
  <1>. QED
    BY <1>2, <1>4

\* Its own outputs are new: no transaction names them as an input.
LEMMA NewIsUnspent ==
    ASSUME NEW lg, NEW tx, NEW b, Commits(lg, tx, b), NEW p \in NewPlaces(lg, tx)
    PROVE  LET new == Append(lg, tx) IN
           /\ p \in Places(new) /\ p[1] = Len(lg) + 1
           /\ Owner(OutputAt(new, p).account) = b
           /\ \A q \in Places(lg) : UtxoAt(lg, q).id # UtxoAt(new, p).id
           /\ \A i \in DOMAIN lg : \A k \in DOMAIN lg[i].from :
                 lg[i].from[k].id # UtxoAt(new, p).id
           /\ \A k \in DOMAIN tx.from : tx.from[k].id # UtxoAt(new, p).id
  <1>. DEFINE new == Append(lg, tx)
  <1>0. lg \in Seq(Transaction) /\ tx \in Transaction
    BY DEF Commits
  <1>1. PICK k \in DOMAIN tx.to : p = <<Len(lg) + 1, k>>
    BY DEF NewPlaces
  <1>2. /\ p \in Places(new) /\ OutputAt(new, p) = tx.to[k]
        /\ UtxoAt(new, p) = [id |-> <<tx.id, k - 1>>, amount |-> tx.to[k].amount]
    BY <1>0, <1>1, AppendAddsPlaces
  <1>. HIDE DEF new
  <1>3. ASSUME NEW q \in Places(lg)
        PROVE  UtxoAt(lg, q).id # UtxoAt(new, p).id
    <2>1. q[1] \in DOMAIN lg
      BY <1>0, PlaceType
    <2>2. lg[q[1]].id # tx.id
      BY <2>1 DEF Commits
    <2>. QED
      BY <1>2, <2>2 DEF UtxoAt
  <1>4. \A i \in DOMAIN lg : \A n \in DOMAIN lg[i].from : lg[i].from[n].id # UtxoAt(new, p).id
    BY <1>3 DEF Commits
  <1>5. \A n \in DOMAIN tx.from : tx.from[n].id # UtxoAt(new, p).id
    BY <1>3 DEF Commits, Owned
  <1>. QED
    BY <1>1, <1>2, <1>3, <1>4, <1>5 DEF new, Commits

\* The old outputs and their transactions are the same after the commit.
LEMMA OldPlaces ==
    ASSUME NEW lg, NEW tx, NEW b, Commits(lg, tx, b), NEW p \in Places(lg)
    PROVE  LET new == Append(lg, tx) IN
           /\ p \in Places(new) /\ new[p[1]] = lg[p[1]]
           /\ OutputAt(new, p) = OutputAt(lg, p) /\ UtxoAt(new, p) = UtxoAt(lg, p)
  <1>1. lg \in Seq(Transaction) /\ tx \in Transaction
    BY DEF Commits
  <1>2. p[1] \in DOMAIN lg
    BY <1>1, PlaceType
  <1>3. Append(lg, tx)[p[1]] = lg[p[1]]
    BY <1>1, <1>2, AppendTx
  <1>. QED
    BY <1>1, <1>3, AppendKeepsPlaces

\* The unspent outputs of the account lose what was spent and gain what was
\* created; those of other accounts are the same.
LEMMA UnspentAfter ==
    ASSUME NEW lg, NEW tx, NEW b, Commits(lg, tx, b), NEW a
    PROVE  Unspent(Append(lg, tx), a) =
              IF a = b THEN (Unspent(lg, a) \ SourcesOf(lg, tx)) \cup NewPlaces(lg, tx)
              ELSE Unspent(lg, a)
  <1>. DEFINE new == Append(lg, tx)
  <1>1. /\ Places(new) = Places(lg) \cup NewPlaces(lg, tx)
        /\ Places(lg) \cap NewPlaces(lg, tx) = {}
        /\ Spent(new) = Spent(lg) \cup {tx.from[k].id : k \in DOMAIN tx.from}
    BY PlacesAfter DEF Commits
  <1>2. \A p \in Places(lg) : OutputAt(new, p) = OutputAt(lg, p) /\ UtxoAt(new, p) = UtxoAt(lg, p)
    BY OldPlaces
  <1>3. ASSUME NEW p \in NewPlaces(lg, tx)
        PROVE  Owner(OutputAt(new, p).account) = b /\ UtxoAt(new, p).id \notin Spent(new)
    <2>1. /\ Owner(OutputAt(new, p).account) = b
          /\ \A i \in DOMAIN lg : \A k \in DOMAIN lg[i].from : lg[i].from[k].id # UtxoAt(new, p).id
          /\ \A k \in DOMAIN tx.from : tx.from[k].id # UtxoAt(new, p).id
      BY NewIsUnspent
    <2>. HIDE DEF new
    <2>2. UtxoAt(new, p).id \notin Spent(lg)
      BY <2>1 DEF Spent
    <2>. QED
      BY <1>1, <2>1, <2>2
  <1>. HIDE DEF new
  <1>4. ASSUME NEW p \in Places(lg)
        PROVE  UtxoAt(new, p).id \in Spent(new)
                  <=> UtxoAt(lg, p).id \in Spent(lg) \/ p \in SourcesOf(lg, tx)
    BY <1>1, <1>2 DEF SourcesOf
  <1>5. \A p \in SourcesOf(lg, tx) : Owner(OutputAt(lg, p).account) = b
    BY SpentSources DEF Unspent, Owned
  <1>6. \A p \in Places(lg) : p \in Unspent(new, a)
           <=> p \in Unspent(lg, a) /\ p \notin SourcesOf(lg, tx)
    BY <1>1, <1>2, <1>4 DEF Unspent, Owned
  <1>7. \A p \in NewPlaces(lg, tx) : p \in Unspent(new, a) <=> a = b
    BY <1>1, <1>3 DEF Unspent, Owned
  <1>8. Unspent(new, a) \subseteq Places(new) /\ Unspent(lg, a) \subseteq Places(lg)
    BY DEF Unspent, Owned
  <1>9. a # b => Unspent(lg, a) \cap SourcesOf(lg, tx) = {}
    BY <1>5 DEF Unspent, Owned
  <1>. QED
    BY <1>1, <1>6, <1>7, <1>8, <1>9 DEF new

\* A commit without inputs adds its outputs to the deposits of the account.
LEMMA DepositsAfter ==
    ASSUME NEW lg, NEW tx, NEW b, Commits(lg, tx, b), NEW a
    PROVE  Deposits(Append(lg, tx), a) =
              IF a = b /\ IsDeposit(tx) THEN Deposits(lg, a) \cup NewPlaces(lg, tx)
              ELSE Deposits(lg, a)
  <1>. DEFINE new == Append(lg, tx)
  <1>1. Places(new) = Places(lg) \cup NewPlaces(lg, tx)
    BY PlacesAfter DEF Commits
  <1>2. \A p \in Places(lg) : OutputAt(new, p) = OutputAt(lg, p) /\ new[p[1]] = lg[p[1]]
    BY OldPlaces
  <1>3. new[Len(lg) + 1] = tx
    BY AppendTx DEF Commits
  <1>4. \A p \in NewPlaces(lg, tx) : Owner(OutputAt(new, p).account) = b /\ new[p[1]] = tx
    BY <1>3, NewIsUnspent
  <1>. HIDE DEF new
  <1>5. \A p \in Places(lg) : p \in Deposits(new, a) <=> p \in Deposits(lg, a)
    BY <1>1, <1>2 DEF Deposits, Owned
  <1>6. \A p \in NewPlaces(lg, tx) : p \in Deposits(new, a) <=> a = b /\ IsDeposit(tx)
    BY <1>1, <1>4 DEF Deposits, Owned
  <1>7. Deposits(new, a) \subseteq Places(new) /\ Deposits(lg, a) \subseteq Places(lg)
    BY DEF Deposits, Owned
  <1>. QED
    BY <1>1, <1>5, <1>6, <1>7 DEF new

\* A commit without outputs adds what it spends to the withdrawals.
LEMMA WithdrawalsAfter ==
    ASSUME NEW lg, NEW tx, NEW b, Commits(lg, tx, b), NEW a
    PROVE  Withdrawals(Append(lg, tx), a) =
              IF a = b /\ IsWithdrawal(tx) THEN Withdrawals(lg, a) \cup SourcesOf(lg, tx)
              ELSE Withdrawals(lg, a)
  <1>. DEFINE new == Append(lg, tx)
              last == Len(lg) + 1
  <1>1. Places(new) = Places(lg) \cup NewPlaces(lg, tx)
    BY PlacesAfter DEF Commits
  <1>2. \A p \in Places(lg) : OutputAt(new, p) = OutputAt(lg, p) /\ UtxoAt(new, p) = UtxoAt(lg, p)
    BY OldPlaces
  <1>3. /\ DOMAIN new = DOMAIN lg \cup {last} /\ new[last] = tx
        /\ \A i \in DOMAIN lg : new[i] = lg[i]
    BY AppendTx DEF Commits
  <1>4. \A p \in NewPlaces(lg, tx) :
           /\ \A i \in DOMAIN lg : \A k \in DOMAIN lg[i].from : lg[i].from[k].id # UtxoAt(new, p).id
           /\ \A k \in DOMAIN tx.from : tx.from[k].id # UtxoAt(new, p).id
    BY NewIsUnspent
  <1>. HIDE DEF new, last
  <1>5. \A i \in DOMAIN lg : SourcesOf(new, new[i]) = SourcesOf(lg, lg[i])
    BY <1>1, <1>2, <1>3, <1>4 DEF SourcesOf
  <1>6. SourcesOf(new, new[last]) = SourcesOf(lg, tx)
    BY <1>1, <1>2, <1>3, <1>4 DEF SourcesOf
  <1>7. \A p \in SourcesOf(lg, tx) : p \in Places(lg) /\ Owner(OutputAt(lg, p).account) = b
    BY SpentSources DEF Unspent, Owned
  <1>8. \A i \in DOMAIN lg : SourcesOf(lg, lg[i]) \subseteq Places(lg)
    BY DEF SourcesOf
  <1>9. \A p \in Places(lg) : p \in Owned(new, a) <=> p \in Owned(lg, a)
    BY <1>1, <1>2 DEF Owned
  <1>10. \A p : p \in Withdrawals(new, a) <=>
            \/ p \in Withdrawals(lg, a)
            \/ p \in Owned(lg, a) /\ IsWithdrawal(tx) /\ p \in SourcesOf(lg, tx)
    <2>1. ASSUME NEW p
          PROVE  (\E i \in DOMAIN new : IsWithdrawal(new[i]) /\ p \in SourcesOf(new, new[i]))
                    <=> \/ \E i \in DOMAIN lg : IsWithdrawal(lg[i]) /\ p \in SourcesOf(lg, lg[i])
                        \/ IsWithdrawal(tx) /\ p \in SourcesOf(lg, tx)
      BY <1>3, <1>5, <1>6
    <2>. QED
      BY <1>7, <1>8, <1>9, <2>1 DEF Withdrawals
  <1>11. \A p \in SourcesOf(lg, tx) : p \in Owned(lg, a) <=> a = b
    BY <1>7 DEF Owned
  <1>. QED
    BY <1>10, <1>11 DEF new

\* What is deposited and what is withdrawn grow with a commit of the account that
\* has no inputs, or no outputs.
LEMMA DepositedAfter ==
    ASSUME NEW lg, NEW tx, NEW b, Commits(lg, tx, b), NEW a
    PROVE  LET new == Append(lg, tx) IN
           /\ SumAt(lg, Deposits(lg, a)) \in Int
           /\ SumAt(new, Deposits(new, a))
                = SumAt(lg, Deposits(lg, a)) + (IF a = b /\ IsDeposit(tx) THEN Total(tx.to) ELSE 0)
  <1>. DEFINE new == Append(lg, tx)
              D == Deposits(lg, a)
              N == NewPlaces(lg, tx)
  <1>1. lg \in Seq(Transaction) /\ tx \in Transaction /\ new \in Seq(Transaction)
    BY AppendTx DEF Commits
  <1>2. /\ Places(new) = Places(lg) \cup N /\ Places(lg) \cap N = {}
        /\ Total(tx.to) = SumAt(new, N)
    BY <1>1, PlacesAfter
  <1>3. D \in SUBSET Places(lg)
    BY DEF Deposits, Owned
  <1>4. Deposits(new, a) = IF a = b /\ IsDeposit(tx) THEN D \cup N ELSE D
    BY DepositsAfter
  <1>5. SumAt(new, D) = SumAt(lg, D) /\ SumAt(lg, D) \in Int
    BY <1>1, <1>3, AppendKeepsSums, SumAtType
  <1>6. D \in SUBSET Places(new) /\ N \in SUBSET Places(new) /\ D \cap N = {}
    BY <1>2, <1>3
  <1>. HIDE DEF new, D, N
  <1>7. SumAt(new, D \cup N) = SumAt(new, D) + SumAt(new, N)
    BY <1>1, <1>6, SumAtUnion
  <1>8. /\ SumAt(lg, D) \in Int
        /\ SumAt(new, Deposits(new, a))
             = SumAt(lg, D) + (IF a = b /\ IsDeposit(tx) THEN Total(tx.to) ELSE 0)
    BY <1>2, <1>4, <1>5, <1>7
  <1>. QED
    BY <1>8 DEF new, D

\* The same for what is withdrawn.
LEMMA WithdrawnAfter ==
    ASSUME NEW lg, NEW tx, NEW b, Commits(lg, tx, b), NEW a
    PROVE  LET new == Append(lg, tx) IN
           /\ SumAt(lg, Withdrawals(lg, a)) \in Int
           /\ SumAt(new, Withdrawals(new, a))
                = SumAt(lg, Withdrawals(lg, a))
                     + (IF a = b /\ IsWithdrawal(tx) THEN Total(tx.from) ELSE 0)
  <1>. DEFINE new == Append(lg, tx)
              W == Withdrawals(lg, a)
              S == SourcesOf(lg, tx)
  <1>1. lg \in Seq(Transaction) /\ tx \in Transaction
    BY DEF Commits
  <1>2. S \subseteq Unspent(lg, b) /\ Total(tx.from) = SumAt(lg, S)
    BY SpentSources
  <1>3. W \in SUBSET Places(lg) /\ S \in SUBSET Places(lg)
    BY DEF Withdrawals, Owned, SourcesOf
  <1>4. W \cap S = {}
    <2>1. ASSUME NEW p \in W
          PROVE  UtxoAt(lg, p).id \in Spent(lg)
      BY DEF Withdrawals, SourcesOf, Spent
    <2>. QED
      BY <1>2, <2>1 DEF Unspent
  <1>5. Withdrawals(new, a) = IF a = b /\ IsWithdrawal(tx) THEN W \cup S ELSE W
    BY WithdrawalsAfter
  <1>6. /\ SumAt(new, W) = SumAt(lg, W) /\ SumAt(lg, W) \in Int
        /\ SumAt(new, W \cup S) = SumAt(lg, W \cup S)
    <2>1. W \cup S \in SUBSET Places(lg)
      BY <1>3
    <2>. QED
      BY <1>1, <1>3, <2>1, AppendKeepsSums, SumAtType
  <1>. HIDE DEF new, W, S
  <1>7. SumAt(lg, W \cup S) = SumAt(lg, W) + SumAt(lg, S)
    BY <1>1, <1>3, <1>4, SumAtUnion
  <1>8. /\ SumAt(lg, W) \in Int
        /\ SumAt(new, Withdrawals(new, a))
             = SumAt(lg, W) + (IF a = b /\ IsWithdrawal(tx) THEN Total(tx.from) ELSE 0)
    BY <1>2, <1>5, <1>6, <1>7
  <1>. QED
    BY <1>8 DEF new, W

Balanced(lg, a) ==
    SumAt(lg, Unspent(lg, a)) = SumAt(lg, Deposits(lg, a)) - SumAt(lg, Withdrawals(lg, a))

\* A commit keeps the balance of every account: what it spends, what it creates
\* and what it deposits or withdraws move together.
LEMMA CommitKeepsBalance ==
    ASSUME NEW lg, NEW tx, NEW b, Commits(lg, tx, b), NEW a, Balanced(lg, a)
    PROVE  Balanced(Append(lg, tx), a)
  <1>. DEFINE new == Append(lg, tx)
              U == Unspent(lg, a)
              S == SourcesOf(lg, tx)
              N == NewPlaces(lg, tx)
  <1>0. lg \in Seq(Transaction) /\ tx \in Transaction /\ new \in Seq(Transaction)
    BY AppendTx DEF Commits
  <1>1. /\ Places(new) = Places(lg) \cup N /\ Places(lg) \cap N = {}
        /\ Total(tx.to) = SumAt(new, N)
    BY <1>0, PlacesAfter
  <1>2. S \subseteq Unspent(lg, b) /\ Total(tx.from) = SumAt(lg, S)
    BY SpentSources
  <1>3. U \in SUBSET Places(lg) /\ S \in SUBSET Places(lg)
    BY DEF Unspent, Owned, SourcesOf
  <1>4. \A T \in SUBSET Places(lg) : SumAt(new, T) = SumAt(lg, T)
    BY <1>0, AppendKeepsSums
  <1>5. /\ SumAt(lg, U) \in Int /\ SumAt(lg, S) \in Int
        /\ SumAt(lg, U \ S) \in Int /\ SumAt(new, N) \in Int
        /\ SumAt(lg, {}) = 0 /\ SumAt(new, {}) = 0
    <2>1. U \ S \in SUBSET Places(lg) /\ N \in SUBSET Places(new)
      BY <1>1, <1>3
    <2>. QED
      BY <1>0, <1>3, <2>1, SumAtType
  <1>6. Unspent(new, a) = IF a = b THEN (U \ S) \cup N ELSE U
    BY UnspentAfter
  <1>7. a = b => SumAt(lg, U) = SumAt(lg, U \ S) + SumAt(lg, S)
    <2>1. a = b => /\ U = (U \ S) \cup S /\ (U \ S) \cap S = {}
                   /\ U \ S \in SUBSET Places(lg)
      BY <1>2, <1>3
    <2>. QED
      BY <1>0, <1>3, <2>1, SumAtUnion
  <1>8. SumAt(new, Unspent(new, a))
           = SumAt(lg, U) + (IF a = b THEN Total(tx.to) - Total(tx.from) ELSE 0)
    <2>1. /\ U \ S \in SUBSET Places(lg) /\ U \ S \in SUBSET Places(new)
          /\ N \in SUBSET Places(new) /\ (U \ S) \cap N = {}
      BY <1>1, <1>3
    <2>. HIDE DEF new, U, S, N
    <2>2. SumAt(new, (U \ S) \cup N) = SumAt(new, U \ S) + SumAt(new, N)
      BY <1>0, <2>1, SumAtUnion
    <2>. QED
      BY <1>1, <1>2, <1>3, <1>4, <1>5, <1>6, <1>7, <2>1, <2>2
  <1>9. IsDeposit(tx) => Total(tx.from) = 0
    <2>1. IsDeposit(tx) => S = {}
      BY DEF IsDeposit, SourcesOf
    <2>. QED
      BY <1>2, <1>5, <2>1
  <1>10. IsWithdrawal(tx) => Total(tx.to) = 0
    <2>1. IsWithdrawal(tx) => N = {}
      BY DEF IsWithdrawal, NewPlaces
    <2>. QED
      BY <1>1, <1>5, <2>1
  <1>11. ~IsDeposit(tx) /\ ~IsWithdrawal(tx) => Total(tx.to) = Total(tx.from)
    BY DEF Commits, InBalance, IsDeposit, IsWithdrawal
  <1>12. /\ SumAt(lg, Deposits(lg, a)) \in Int
         /\ SumAt(new, Deposits(new, a))
              = SumAt(lg, Deposits(lg, a)) + (IF a = b /\ IsDeposit(tx) THEN Total(tx.to) ELSE 0)
    BY DepositedAfter
  <1>13. /\ SumAt(lg, Withdrawals(lg, a)) \in Int
         /\ SumAt(new, Withdrawals(new, a))
              = SumAt(lg, Withdrawals(lg, a))
                   + (IF a = b /\ IsWithdrawal(tx) THEN Total(tx.from) ELSE 0)
    BY WithdrawnAfter
  <1>14. SumAt(lg, U) = SumAt(lg, Deposits(lg, a)) - SumAt(lg, Withdrawals(lg, a))
    BY DEF Balanced
  <1>15. Total(tx.to) \in Int /\ Total(tx.from) \in Int
    BY <1>1, <1>2, <1>5
  <1>. HIDE DEF new, U, S, N
  <1>16. SumAt(new, Unspent(new, a))
            = SumAt(new, Deposits(new, a)) - SumAt(new, Withdrawals(new, a))
    BY <1>5, <1>8, <1>9, <1>10, <1>11, <1>12, <1>13, <1>14, <1>15
  <1>. QED
    BY <1>16 DEF Balanced, new

-----------------------------------------------------------------------------
(* Conservation.                                                            *)

\* Conservation says that every account is balanced.
LEMMA ConservationIsBalance ==
    log \in Seq(Transaction) => (Conservation <=> \A a \in Id : Balanced(log, a))
  BY HoldsUnspent, DepositedAndWithdrawn DEF Conservation, Balanced

\* A transaction that store_tx accepts is a commit of the account it was planned
\* for.
LEMMA AcceptedCommits ==
    ASSUME Inv, NEW txs, NEW c \in Client, call[c].at = "store", txs = call[c].todo,
           Verdict(log, Head(txs)) = "Ok"
    PROVE  \E b \in Id : Commits(log, Head(txs), b)
  <1>. DEFINE tx == Head(txs)
  <1>1. log \in Seq(Transaction) /\ UniqueIds(log) /\ call \in [Client -> CallState]
    BY DEF Inv, TypeOK, CallState
  <1>2. txs \in Seq(Transaction) /\ txs # <<>>
    BY <1>1 DEF CallState, Storing, Idle, Selecting
  <1>3. 1 \in DOMAIN txs /\ tx = txs[1] /\ tx \in Transaction
    BY <1>2
  <1>4. Pending(c) = txs
    BY DEF Pending
  <1>5. Planned(txs, 1) /\ DistinctInputs(tx.from) /\ InBalance(tx)
    BY <1>3, <1>4 DEF Inv, AllWellPlanned, WellPlanned
  <1>6. PICK b \in Id :
           /\ \A n \in DOMAIN tx.to : Owner(tx.to[n].account) = b
           /\ \A n \in DOMAIN tx.from : \E p \in Places(log) :
                 IsMovable(b, p) /\ UtxoAt(log, p) = tx.from[n]
    BY <1>3, <1>5 DEF Planned
  <1>. HIDE DEF tx
  <1>7. \A p \in Places(log) : IsMovable(b, p) => p \in Owned(log, b)
    BY Owners DEF IsMovable, Owned
  <1>8. /\ \A i \in DOMAIN log : log[i].id # tx.id
        /\ \A k \in DOMAIN tx.from : tx.from[k].id \notin Spent(log)
    BY <1>3, Accepted DEF tx
  <1>9. \A i \in DOMAIN log : \A k \in DOMAIN log[i].from :
           \E p \in Places(log) : UtxoAt(log, p) = log[i].from[k]
    BY DEF Inv, InputsHaveASource
  <1>10. \A k \in DOMAIN tx.from : \E p \in Owned(log, b) : UtxoAt(log, p) = tx.from[k]
    BY <1>6, <1>7
  <1>11. Commits(log, tx, b)
    BY <1>1, <1>3, <1>5, <1>6, <1>8, <1>9, <1>10 DEF Commits
  <1>. QED
    BY <1>11 DEF tx

\* The log changes only when a call stores its next transaction.
LEMMA LogChanges ==
    ASSUME [Next]_vars, log' # log
    PROVE  \E c \in Client : /\ call[c].at = "store" /\ Verdict(log, Head(call[c].todo)) = "Ok"
                             /\ log' = Append(log, Head(call[c].todo))
  <1>1. ~(UNCHANGED vars) /\ ~Rest
    BY DEF vars, Rest
  <1>2. PICK c \in Client : Start(c) \/ Continue(c) \/ Drop(c)
    BY <1>1 DEF Next
  <1>3. Store(c)
    BY <1>2 DEF Start, Continue, Drop, Deposit, Withdraw, Dispute, Resolve, Chargeback,
                Settle, Select
  <1>. QED
    BY <1>3 DEF Store

\* Every step keeps every account balanced.
LEMMA StepConserves ==
    ASSUME Inv, Inv', [Next]_vars, Conservation
    PROVE  Conservation'
  <1>1. log \in Seq(Transaction) /\ log' \in Seq(Transaction)
    BY DEF Inv, TypeOK
  <1>2. \A a \in Id : Balanced(log, a)
    BY <1>1, ConservationIsBalance
  <1>3. \A a \in Id : Balanced(log', a)
    <2>1. CASE log' = log
      BY <1>2, <2>1
    <2>2. CASE log' # log
      <3>1. PICK c \in Client : /\ call[c].at = "store" /\ Verdict(log, Head(call[c].todo)) = "Ok"
                                /\ log' = Append(log, Head(call[c].todo))
        BY <2>2, LogChanges
      <3>2. PICK b \in Id : Commits(log, Head(call[c].todo), b)
        BY <3>1, AcceptedCommits
      <3>. QED
        BY <1>2, <3>1, <3>2, CommitKeepsBalance
    <2>. QED
      BY <2>1, <2>2
  <1>4. (log \in Seq(Transaction) => (Conservation <=> \A a \in Id : Balanced(log, a)))'
    BY ConservationIsBalance, PTL
  <1>. QED
    BY <1>1, <1>3, <1>4

\* An empty ledger is balanced.
LEMMA InitConserves == Init => Conservation
  <1>. SUFFICES ASSUME Init, NEW a \in Id PROVE Balanced(log, a)
    BY InitTypeOK, ConservationIsBalance DEF TypeOK
  <1>1. log \in Seq(Transaction) /\ Places(log) = {}
    BY InitTypeOK DEF TypeOK, Init, Places
  <1>2. Unspent(log, a) = {} /\ Deposits(log, a) = {} /\ Withdrawals(log, a) = {}
    BY <1>1 DEF Unspent, Deposits, Withdrawals, Owned
  <1>3. SumAt(log, {}) = 0
    BY <1>1, SumAtType
  <1>. QED
    BY <1>2, <1>3 DEF Balanced

\* The outputs an account has left are what was deposited less what was
\* withdrawn, whatever any number of clients do at once: exchanges, disputes and
\* settlements, and calls dropped half-way, neither create nor lose funds.
THEOREM ConservationHolds == Spec => []Conservation
  <1>1. Init => Inv /\ Conservation
    BY InitInv, InitConserves
  <1>2. (Inv /\ Conservation) /\ [Next]_vars => (Inv /\ Conservation)'
    BY NextInv, StepConserves
  <1>. QED
    BY <1>1, <1>2, PTL DEF Spec

-----------------------------------------------------------------------------
(* One caller.                                                              *)

\* What a caller that is alone plans to store: transactions the log does not
\* have, whose inputs nobody has spent; an exchange only with its withdrawal.
Ready(txs) ==
    /\ Len(txs) \in {1, 2}
    /\ \A k \in DOMAIN txs : \A i \in DOMAIN log : log[i].id # txs[k].id
    /\ \A n \in DOMAIN txs[1].from : txs[1].from[n].id \notin Spent(log)
    /\ Len(txs) = 1 => ~IsExchange(txs[1])
    /\ Len(txs) = 2 => /\ txs[1].id # txs[2].id /\ txs[2].to = <<>>
                       /\ DOMAIN txs[2].from = {1} /\ txs[2].from[1].id = <<txs[1].id, 0>>

Spends(tx, id) == \E k \in DOMAIN tx.from : tx.from[k].id = id

\* The withdrawal that an exchange was made for is stored, or is to be stored
\* next, or its caller is gone.
ExchangesGoOn ==
    \A i \in DOMAIN log : IsExchange(log[i]) =>
        \/ \E j \in DOMAIN log : IsWithdrawal(log[j]) /\ Spends(log[j], <<log[i].id, 0>>)
        \/ \E c \in Client :
              \/ Gone(c)
              \/ /\ call[c].at = "store" /\ Len(call[c].todo) = 1
                 /\ call[c].todo[1].to = <<>> /\ Spends(call[c].todo[1], <<log[i].id, 0>>)

AloneState(state) ==
    /\ state.at = "store" => Ready(state.todo)
    /\ state.at = "idle" => state.outcome # "SpentUtxo"

AloneInv == (\A c \in Client : AloneState(call[c])) /\ ExchangesGoOn

\* A step of the caller that leaves it in a good state.
AloneStep(c) ==
    UNCHANGED log /\ \E state : call' = [call EXCEPT ![c] = state] /\ AloneState(state)

\* A call may end with any answer but a lost race.
LEMMA AloneReturn ==
    ASSUME NEW c, NEW outcome, outcome # "SpentUtxo", Return(c, outcome), UNCHANGED log
    PROVE  AloneStep(c)
  <1>. DEFINE state == [at |-> "idle", outcome |-> outcome]
  <1>1. AloneState(state) /\ call' = [call EXCEPT ![c] = state]
    BY DEF AloneState, Return
  <1>. QED
    BY <1>1 DEF AloneStep

\* Transactions that are ready are stored next, or one cannot be built.
LEMMA AloneOffer ==
    ASSUME NEW c, NEW txs, Ready(txs), Offer(c, txs), UNCHANGED log
    PROVE  AloneStep(c)
  <1>. DEFINE refused == {k \in DOMAIN txs : NewVerdict(txs[k].from, txs[k].to) # "Ok"}
              first == CHOOSE k \in refused : \A j \in refused : k <= j
  <1>1. CASE refused = {}
    <2>. DEFINE state == [at |-> "store", todo |-> txs]
    <2>1. AloneState(state)
      BY DEF AloneState
    <2>2. call' = [call EXCEPT ![c] = state]
      BY <1>1 DEF Offer
    <2>. QED
      BY <2>1, <2>2 DEF AloneStep
  <1>2. CASE refused # {}
    <2>1. Return(c, NewVerdict(txs[first].from, txs[first].to))
      BY <1>2 DEF Offer
    <2>. HIDE DEF first
    <2>2. NewVerdict(txs[first].from, txs[first].to) # "SpentUtxo"
      BY NewVerdictType
    <2>. QED
      BY <2>1, <2>2, AloneReturn
  <1>. QED
    BY <1>1, <1>2

\* What get_unspent selects is unspent.
LEMMA SelectedUnspent ==
    ASSUME log \in Seq(Transaction), NEW account, NEW target,
           NEW inputs \in GetUnspent(log, account, target)
    PROVE  /\ inputs \in Seq(Utxo)
           /\ \A n \in DOMAIN inputs : inputs[n].id \notin Spent(log)
  BY Selected DEF UnspentPlaces

\* A fresh hash is not the hash of a stored transaction.
LEMMA FreshIsNew ==
    ASSUME NEW more, NEW h \in Fresh(Used \cup more)
    PROVE  \A i \in DOMAIN log : log[i].id # h
  BY DEF Fresh, Used

\* One transaction is ready if it is new, its inputs are unspent and it is no
\* exchange.
LEMMA ReadyIfNew ==
    ASSUME NEW tx, ~IsExchange(tx), \A i \in DOMAIN log : log[i].id # tx.id,
           \A n \in DOMAIN tx.from : tx.from[n].id \notin Spent(log)
    PROVE  Ready(<<tx>>)
  <1>. DEFINE txs == <<tx>>
  <1>1. Len(txs) = 1 /\ txs[1] = tx /\ DOMAIN txs = {1}
    OBVIOUS
  <1>. HIDE DEF txs
  <1>2. Ready(txs)
    BY <1>1 DEF Ready
  <1>. QED
    BY <1>2 DEF txs

NewIsReady ==
    \A tx : /\ ~IsExchange(tx)
            /\ \A i \in DOMAIN log : log[i].id # tx.id
            /\ \A n \in DOMAIN tx.from : tx.from[n].id \notin Spent(log)
            => Ready(<<tx>>)

\* The same, as a fact about every state.
LEMMA NewIsReadyAlways == NewIsReady
  BY ReadyIfNew DEF NewIsReady

\* The calls that store one transaction build it ready.
LEMMA ReadyOne ==
    ASSUME NEW h \in Fresh(Used), NEW from, NEW to, NEW r,
           \A n \in DOMAIN from : from[n].id \notin Spent(log),
           from = <<>> \/ to = <<>> \/ Head(r) # "Exchange for"
    PROVE  Ready(<<Tx(h, from, to, r)>>)
  <1>. DEFINE tx == Tx(h, from, to, r)
  <1>1. tx.id = h /\ tx.from = from /\ tx.to = to /\ tx.reference = r
    BY DEF Tx
  <1>2. ~IsExchange(tx)
    BY <1>1 DEF IsExchange, IsDeposit, IsWithdrawal
  <1>3. h \in Fresh(Used \cup {})
    OBVIOUS
  <1>4. \A i \in DOMAIN log : log[i].id # h
    BY <1>3, FreshIsNew
  <1>. HIDE DEF tx
  <1>5. Ready(<<tx>>)
    BY <1>1, <1>2, <1>4, ReadyIfNew
  <1>. QED
    BY <1>5 DEF tx

\* A derived reference begins with its prefix.
LEMMA HeadOfTagged ==
    ASSUME NEW tag \in Tags, NEW r \in Reference
    PROVE  Head(Tagged(tag, r)) = tag
  <1>1. tag \in STRING
    BY TagsAreStrings
  <1>. QED
    BY <1>1 DEF Tagged, Reference

\* deposit and withdraw plan what is ready.
LEMMA AloneCalls ==
    ASSUME TypeOK, NEW c \in Client, NEW a \in Id, NEW r \in UserRef, NEW m \in Amount,
           Deposit(c, a, r, m) \/ Withdraw(c, a, r, m)
    PROVE  AloneStep(c)
  <1>0. log \in Seq(Transaction)
    BY DEF TypeOK
  <1>1. CASE Deposit(c, a, r, m)
    <2>1. PICK h \in Fresh(Used) : Offer(c, <<Tx(h, <<>>, <<To(MainOf(a), m)>>, r)>>)
      BY <1>1 DEF Deposit
    <2>2. Ready(<<Tx(h, <<>>, <<To(MainOf(a), m)>>, r)>>)
      <3>. DEFINE from == <<>>
      <3>1. \A n \in DOMAIN from : from[n].id \notin Spent(log)
        OBVIOUS
      <3>. QED
        BY <3>1, ReadyOne
    <2>. QED
      BY <1>1, <2>1, <2>2, AloneOffer DEF Deposit
  <1>2. CASE Withdraw(c, a, r, m)
    <2>1. PICK inputs \in GetUnspent(log, MainOf(a), Some(m)) :
           \/ Return(c, "NotEnough")
           \/ \E h \in Fresh(Used) : Offer(c, <<Tx(h, inputs, <<>>, r)>>)
           \/ \E h \in Fresh(Used) : \E g \in Fresh(Used \cup {h}) :
                 Offer(c, <<Exchange(h, inputs, a, r, m),
                            Tx(g, <<Kept(Exchange(h, inputs, a, r, m))>>, <<>>, r)>>)
      BY <1>2 DEF Withdraw
    <2>2. UNCHANGED log
      BY <1>2 DEF Withdraw
    <2>3. \A n \in DOMAIN inputs : inputs[n].id \notin Spent(log)
      BY <1>0, SelectedUnspent
    <2>4. ASSUME Return(c, "NotEnough")
          PROVE  AloneStep(c)
      BY <2>2, <2>4, AloneReturn
    <2>5. ASSUME NEW h \in Fresh(Used), Offer(c, <<Tx(h, inputs, <<>>, r)>>)
          PROVE  AloneStep(c)
      BY <2>2, <2>3, <2>5, ReadyOne, AloneOffer
    <2>6. ASSUME NEW h \in Fresh(Used), NEW g \in Fresh(Used \cup {h}),
                 Offer(c, <<Exchange(h, inputs, a, r, m),
                            Tx(g, <<Kept(Exchange(h, inputs, a, r, m))>>, <<>>, r)>>)
          PROVE  AloneStep(c)
      <3>. DEFINE exchange == Exchange(h, inputs, a, r, m)
                  withdrawal == Tx(g, <<Kept(exchange)>>, <<>>, r)
                  txs == <<exchange, withdrawal>>
      <3>1. exchange.id = h /\ exchange.from = inputs
        BY DEF Exchange, Tx
      <3>2. /\ withdrawal.id = g /\ withdrawal.to = <<>>
            /\ withdrawal.from = <<Kept(exchange)>> /\ Kept(exchange).id = <<exchange.id, 0>>
        BY DEF Tx, Kept
      <3>3. h \in Fresh(Used \cup {}) /\ g # h
        BY DEF Fresh
      <3>4. \A i \in DOMAIN log : log[i].id # h /\ log[i].id # g
        BY <3>3, FreshIsNew
      <3>. HIDE DEF exchange, withdrawal
      <3>5. DOMAIN withdrawal.from = {1} /\ withdrawal.from[1] = Kept(exchange)
        BY <3>2
      <3>6. /\ Len(txs) = 2 /\ DOMAIN txs = {1, 2}
            /\ txs[1] = exchange /\ txs[2] = withdrawal
        OBVIOUS
      <3>. HIDE DEF txs
      <3>7. Ready(txs)
        BY <2>3, <3>1, <3>2, <3>3, <3>4, <3>5, <3>6 DEF Ready
      <3>. QED
        BY <2>2, <2>6, <3>7, AloneOffer DEF exchange, withdrawal, txs
    <2>. QED
      BY <2>1, <2>4, <2>5, <2>6
  <1>. QED
    BY <1>1, <1>2

\* dispute, resolve and chargeback plan nothing at their lookup, and then a move
\* of what is unspent.
LEMMA AloneMoves ==
    ASSUME TypeOK, NEW c \in Client,
           \/ \E a \in Id, r \in UserRef : Dispute(c, a, r)
           \/ \E op \in Op, a \in Id, r \in UserRef : Settle(c, op, a, r)
           \/ Select(c)
    PROVE  AloneStep(c)
  <1>0. log \in Seq(Transaction) /\ call \in [Client -> CallState]
    BY DEF TypeOK, CallState
  <1>1. ASSUME NEW outcome, outcome # "SpentUtxo", Return(c, outcome), UNCHANGED log
        PROVE  AloneStep(c)
    BY <1>1, AloneReturn
  <1>2. ASSUME NEW how, NEW a, NEW r, NEW m, UNCHANGED log,
               call' = [call EXCEPT ![c] =
                          [at |-> "select", op |-> how, account |-> a,
                           reference |-> r, amount |-> m]]
        PROVE  AloneStep(c)
    <2>. DEFINE state == [at |-> "select", op |-> how, account |-> a,
                          reference |-> r, amount |-> m]
    <2>1. AloneState(state)
      BY DEF AloneState
    <2>. QED
      BY <1>2, <2>1 DEF AloneStep
  <1>3. ASSUME NEW a \in Id, NEW r \in UserRef, Dispute(c, a, r)
        PROVE  AloneStep(c)
    BY <1>1, <1>2, <1>3 DEF Dispute
  <1>4. ASSUME NEW op \in Op, NEW a \in Id, NEW r \in UserRef, Settle(c, op, a, r)
        PROVE  AloneStep(c)
    BY <1>1, <1>2, <1>4 DEF Settle
  <1>5. ASSUME Select(c)
        PROVE  AloneStep(c)
    <2>. DEFINE now == call[c]
                move == Moves[now.op]
                source == <<now.account, move.source>>
                moved == To(<<now.account, move.dest>>, now.amount)
                tagged == Tagged(move.tag, now.reference)
    <2>1. UNCHANGED log
      BY <1>5 DEF Select
    <2>2. now.op \in {"dispute", "resolve", "chargeback"} /\ now.reference \in Reference
      BY <1>0, <1>5 DEF Select, CallState, Idle, Selecting, Storing, Op, Moves
    <2>3. move.tag \in {"dispute", "resolved", "chargeback"} /\ move.missing # "SpentUtxo"
      BY <2>2 DEF Moves
    <2>4. Head(tagged) # "Exchange for"
      <3>1. move.tag \in Tags
        BY <2>3 DEF Tags
      <3>2. Head(tagged) = move.tag
        BY <2>2, <3>1, HeadOfTagged
      <3>. QED
        BY <2>3, <3>2
    <2>5. PICK inputs \in GetUnspent(log, source, Some(now.amount)) :
             \/ Return(c, move.missing)
             \/ \E h \in Fresh(Used) :
                   Offer(c, <<Tx(h, inputs, Split(moved, source, Total(inputs)), tagged)>>)
      BY <1>5 DEF Select
    <2>6. \A n \in DOMAIN inputs : inputs[n].id \notin Spent(log)
      BY <1>0, SelectedUnspent
    <2>. HIDE DEF now, move, source, moved, tagged
    <2>7. ASSUME NEW h \in Fresh(Used),
                 Offer(c, <<Tx(h, inputs, Split(moved, source, Total(inputs)), tagged)>>)
          PROVE  AloneStep(c)
      BY <2>1, <2>4, <2>6, <2>7, ReadyOne, AloneOffer
    <2>. QED
      BY <1>1, <2>1, <2>3, <2>5, <2>7
  <1>. QED
    BY <1>3, <1>4, <1>5

\* The exchange of entry i of the log has been withdrawn.
Followed(lg, i) ==
    \E j \in DOMAIN lg : IsWithdrawal(lg[j]) /\ Spends(lg[j], <<lg[i].id, 0>>)

\* What was withdrawn stays withdrawn.
LEMMA FollowedStays ==
    ASSUME NEW lg \in Seq(Transaction), NEW tx \in Transaction,
           NEW i \in DOMAIN lg, Followed(lg, i)
    PROVE  Followed(Append(lg, tx), i)
  <1>. DEFINE new == Append(lg, tx)
  <1>1. DOMAIN lg \subseteq DOMAIN new /\ \A j \in DOMAIN lg : new[j] = lg[j]
    BY AppendTx
  <1>2. PICK j \in DOMAIN lg : IsWithdrawal(lg[j]) /\ Spends(lg[j], <<lg[i].id, 0>>)
    BY DEF Followed
  <1>3. new[j] = lg[j] /\ new[i] = lg[i] /\ j \in DOMAIN new
    BY <1>1
  <1>. HIDE DEF new
  <1>4. Followed(new, i)
    BY <1>2, <1>3 DEF Followed
  <1>. QED
    BY <1>4 DEF new

\* A step that stores nothing, of a caller that is alone and not about to store,
\* keeps what is true of it.
LEMMA AloneKept ==
    ASSUME NEW c, Client = {c}, call \in [Client -> CallState], AloneInv,
           AloneStep(c), call[c].at # "store", ~Gone(c)
    PROVE  AloneInv'
  <1>1. PICK state : call' = [call EXCEPT ![c] = state] /\ AloneState(state)
    BY DEF AloneStep
  <1>2. call'[c] = state /\ UNCHANGED log
    BY <1>1 DEF AloneStep
  <1>3. \A i \in DOMAIN log : IsExchange(log[i]) => Followed(log, i)
    BY DEF AloneInv, ExchangesGoOn, Followed
  <1>4. ExchangesGoOn'
    BY <1>2, <1>3 DEF ExchangesGoOn, Followed
  <1>. QED
    BY <1>1, <1>2, <1>4 DEF AloneInv, AloneState, Ready

\* What a caller that is alone has ready is refused only as a duplicate.
LEMMA ReadyVerdict ==
    ASSUME Inv, NEW c \in Client, call[c].at = "store", Ready(call[c].todo)
    PROVE  /\ Verdict(log, call[c].todo[1]) \in {"Ok", "Duplicate"}
           /\ call[c].todo[1].to = <<>> => Verdict(log, call[c].todo[1]) = "Ok"
  <1>. DEFINE txs == call[c].todo
              tx == txs[1]
              refused == {k \in DOMAIN tx.from : InputVerdict(log, tx.from[k]) # "Ok"}
  <1>1. log \in Seq(Transaction) /\ call \in [Client -> CallState]
    BY DEF Inv, TypeOK, CallState
  <1>2. txs \in Seq(Transaction) /\ txs # <<>> /\ Pending(c) = txs
    BY <1>1 DEF CallState, Storing, Idle, Selecting, Pending
  <1>3. 1 \in DOMAIN txs /\ tx \in Transaction
    BY <1>2
  <1>4. Planned(txs, 1)
    BY <1>2, <1>3 DEF Inv, AllWellPlanned, WellPlanned
  <1>5. \A n \in DOMAIN tx.from : \E p \in Places(log) : UtxoAt(log, p) = tx.from[n]
    BY <1>3, <1>4 DEF Planned
  <1>6. \A n \in DOMAIN tx.from : tx.from[n].id \notin Spent(log)
    BY DEF Ready
  <1>7. \A n \in DOMAIN tx.from : InputVerdict(log, tx.from[n]) = "Ok"
    <2>. SUFFICES ASSUME NEW n \in DOMAIN tx.from
                  PROVE  InputVerdict(log, tx.from[n]) = "Ok"
      OBVIOUS
    <2>. DEFINE input == tx.from[n]
    <2>1. PICK p \in Places(log) : UtxoAt(log, p) = input
      BY <1>5
    <2>2. input.id \in Created(log) /\ input.id \notin Spent(log)
      BY <1>6, <2>1 DEF Created
    <2>. HIDE DEF input
    <2>3. InputVerdict(log, input) = "Ok"
      BY <2>1, <2>2 DEF InputVerdict
    <2>. QED
      BY <2>3 DEF input
  <1>8. refused = {}
    BY <1>7
  <1>9. Verdict(log, tx) = IF IsDuplicate(log, tx) THEN "Duplicate" ELSE "Ok"
    BY <1>8 DEF Verdict
  <1>10. tx.to = <<>> => ~IsDuplicate(log, tx)
    BY <1>3 DEF Ready, IsDuplicate
  <1>. QED
    BY <1>9, <1>10

\* A refusal loses no withdrawal: the one after an exchange is never refused.
LEMMA AloneRefused ==
    ASSUME Inv, NEW c, Client = {c}, AloneInv, Store(c), UNCHANGED log,
           Verdict(log, Head(call[c].todo)) # "Ok"
    PROVE  AloneInv'
  <1>. DEFINE txs == call[c].todo
              state == [at |-> "idle", outcome |-> Verdict(log, txs[1])]
  <1>1. call \in [Client -> CallState] /\ c \in Client
    BY DEF Inv, TypeOK, CallState
  <1>2. call[c].at = "store" /\ Ready(txs) /\ txs \in Seq(Transaction) /\ txs # <<>>
    BY <1>1 DEF Store, CallState, Idle, Selecting, Storing, AloneInv, AloneState
  <1>3. Head(txs) = txs[1]
    BY <1>2
  <1>4. Verdict(log, txs[1]) = "Duplicate" /\ txs[1].to # <<>>
    BY <1>1, <1>2, <1>3, ReadyVerdict
  <1>5. call' = [call EXCEPT ![c] = state]
    BY <1>3 DEF Store, Return
  <1>6. call'[c] = state
    BY <1>1, <1>5
  <1>7. \A i \in DOMAIN log : IsExchange(log[i]) => Followed(log, i)
    BY <1>2, <1>4 DEF AloneInv, ExchangesGoOn, Followed, Gone
  <1>8. ExchangesGoOn'
    BY <1>7 DEF ExchangesGoOn, Followed
  <1>9. (AloneState(call[c]))'
    BY <1>4, <1>6 DEF AloneState
  <1>. QED
    BY <1>8, <1>9 DEF AloneInv

\* The last transaction of a call is stored: a withdrawal if an exchange was
\* waiting for it.
LEMMA AloneStoredLast ==
    ASSUME Inv, NEW c, Client = {c}, AloneInv, Store(c),
           Verdict(log, Head(call[c].todo)) = "Ok", Tail(call[c].todo) = <<>>
    PROVE  AloneInv'
  <1>. DEFINE txs == call[c].todo
              tx == txs[1]
              last == Len(log) + 1
              state == [at |-> "idle", outcome |-> "Ok"]
  <1>1. /\ log \in Seq(Transaction) /\ call \in [Client -> CallState] /\ c \in Client
        /\ call[c].at = "store"
    BY DEF Inv, TypeOK, CallState, Store
  <1>2. Ready(txs) /\ txs \in Seq(Transaction) /\ txs # <<>>
    BY <1>1 DEF CallState, Idle, Selecting, Storing, AloneInv, AloneState
  <1>3. Head(txs) = tx /\ tx \in Transaction /\ Len(txs) = 1
    <2>1. Len(txs) \in {1, 2} /\ (Len(txs) = 2 => Len(Tail(txs)) = 1)
      BY <1>2 DEF Ready
    <2>2a. Tail(txs) = <<>>
      OBVIOUS
    <2>2b. Len(<<>>) = 0
      OBVIOUS
    <2>2. Len(Tail(txs)) = 0
      BY <2>2a, <2>2b, Zenon
    <2>3. Len(txs) = 1
      BY <2>1, <2>2
    <2>. QED
      BY <1>2, <2>3
  <1>4. log' = Append(log, tx) /\ call' = [call EXCEPT ![c] = state]
    BY <1>3 DEF Store, Return
  <1>5. call'[c] = state
    BY <1>1, <1>4
  <1>6. ~IsExchange(tx)
    BY <1>2, <1>3 DEF Ready
  <1>7. /\ \A i \in DOMAIN log' : i = last \/ i \in DOMAIN log
        /\ \A i \in DOMAIN log : i \in DOMAIN log' /\ log'[i] = log[i]
        /\ last \in DOMAIN log' /\ log'[last] = tx
    BY <1>1, <1>3, <1>4, AppendTx
  <1>. HIDE DEF last, tx
  <1>8. ASSUME NEW i \in DOMAIN log', IsExchange(log'[i])
        PROVE  Followed(log', i)
    <2>1. i \in DOMAIN log /\ log'[i] = log[i]
      BY <1>6, <1>7, <1>8
    <2>2. Followed(log, i) \/ (tx.to = <<>> /\ Spends(tx, <<log[i].id, 0>>))
      BY <1>1, <1>8, <2>1 DEF AloneInv, ExchangesGoOn, Followed, Gone, tx
    <2>3. CASE Followed(log, i)
      BY <1>1, <1>3, <1>4, <2>1, <2>3, FollowedStays
    <2>4. CASE tx.to = <<>> /\ Spends(tx, <<log[i].id, 0>>)
      BY <1>7, <2>1, <2>4 DEF Followed, IsWithdrawal
    <2>. QED
      BY <2>2, <2>3, <2>4
  <1>9. ExchangesGoOn'
    BY <1>8 DEF ExchangesGoOn, Followed
  <1>10. (AloneState(call[c]))'
    BY <1>5 DEF AloneState
  <1>. QED
    BY <1>9, <1>10 DEF AloneInv

\* The exchange of a withdrawal is stored: the withdrawal is next.
LEMMA AloneStoredFirst ==
    ASSUME Inv, Inv', NEW c, Client = {c}, AloneInv, Store(c),
           Verdict(log, Head(call[c].todo)) = "Ok", Tail(call[c].todo) # <<>>
    PROVE  AloneInv'
  <1>. DEFINE txs == call[c].todo
              tx == txs[1]
              next == txs[2]
              last == Len(log) + 1
              state == [call[c] EXCEPT !.todo = Tail(txs)]
  <1>1. /\ log \in Seq(Transaction) /\ call \in [Client -> CallState] /\ c \in Client
        /\ call[c].at = "store" /\ call[c] \in Storing
    BY DEF Inv, TypeOK, CallState, Store, Idle, Selecting, Storing
  <1>2. Ready(txs) /\ txs \in Seq(Transaction) /\ txs # <<>>
    BY <1>1 DEF Storing, AloneInv, AloneState
  <1>3. Head(txs) = tx /\ tx \in Transaction /\ Len(txs) = 2
    BY <1>2 DEF Ready
  <1>4. next \in Transaction /\ Len(Tail(txs)) = 1 /\ Tail(txs)[1] = next
    BY <1>2, <1>3
  <1>5. Tail(txs) = <<next>>
    <2>. DEFINE rest == Tail(txs)
                one == <<next>>
    <2>1. rest \in Seq(Transaction) /\ Len(rest) = 1 /\ rest[1] = next
      BY <1>2, <1>4
    <2>2. one \in Seq(Transaction) /\ Len(one) = 1 /\ one[1] = next
      BY <1>4
    <2>. HIDE DEF rest, one
    <2>3. \A k \in 1..Len(rest) : rest[k] = one[k]
      BY <2>1, <2>2
    <2>4. rest = one
      BY <2>1, <2>2, <2>3, SeqEqual
    <2>. QED
      BY <2>4 DEF rest, one
  <1>6. log' = Append(log, tx) /\ call' = [call EXCEPT ![c] = state]
    BY <1>3 DEF Store
  <1>7. call'[c].at = "store" /\ call'[c].todo = <<next>>
    BY <1>1, <1>5, <1>6 DEF Storing
  <1>8. /\ \A k \in {1, 2} : \A i \in DOMAIN log : log[i].id # txs[k].id
        /\ tx.id # next.id /\ next.to = <<>>
        /\ DOMAIN next.from = {1} /\ next.from[1].id = <<tx.id, 0>>
    <2>1. DOMAIN txs = {1, 2}
      BY <1>2, <1>3
    <2>. QED
      BY <1>2, <1>3, <2>1 DEF Ready
  <1>9. /\ \A i \in DOMAIN log' : i = last \/ i \in DOMAIN log
        /\ \A i \in DOMAIN log : i \in DOMAIN log' /\ log'[i] = log[i]
        /\ last \in DOMAIN log' /\ log'[last] = tx
        /\ log' \in Seq(Transaction) /\ last = Len(log) + 1 /\ Len(log) \in Nat
        /\ DOMAIN log = 1..Len(log)
    BY <1>1, <1>3, <1>6, AppendTx
  <1>10. \A i \in DOMAIN log : /\ log[i].id # tx.id /\ log[i].id # next.id
                               /\ IsExchange(log[i]) => Followed(log, i)
    <2>1. Len(call[c].todo) # 1 /\ ~Gone(c)
      BY <1>1, <1>3 DEF Gone
    <2>. QED
      BY <1>8, <2>1 DEF AloneInv, ExchangesGoOn, Followed
  <1>. HIDE DEF txs, tx, next, last
  <1>11. \A i \in DOMAIN log' : log'[i].id # next.id
    BY <1>8, <1>9, <1>10
  <1>12. <<tx.id, 0>> \notin Spent(log')
    <2>. SUFFICES ASSUME NEW j \in DOMAIN log', NEW k \in DOMAIN log'[j].from,
                         log'[j].from[k].id = <<tx.id, 0>>
                  PROVE  FALSE
      BY DEF Spent
    <2>1. PICK p \in Places(log') : p[1] < j /\ UtxoAt(log', p) = log'[j].from[k]
      BY DEF Inv, InputsHaveASource
    <2>2. p[1] \in DOMAIN log'
      BY <1>9, <2>1, PlaceType
    <2>3. p[1] \in DOMAIN log
      BY <1>9, <2>1, <2>2
    <2>4. log'[p[1]].id = tx.id
      BY <2>1 DEF UtxoAt
    <2>. QED
      BY <1>9, <1>10, <2>3, <2>4
  <1>13. PICK fixed : fixed = next
    OBVIOUS
  <1>14. Ready(<<fixed>>)'
    <2>1. ~IsExchange(fixed)
      BY <1>8, <1>13 DEF IsExchange, IsWithdrawal
    <2>2. \A n \in DOMAIN fixed.from : fixed.from[n].id \notin Spent(log')
      BY <1>8, <1>12, <1>13
    <2>3. (/\ ~IsExchange(fixed)
           /\ \A i \in DOMAIN log : log[i].id # fixed.id
           /\ \A n \in DOMAIN fixed.from : fixed.from[n].id \notin Spent(log))'
      BY <1>11, <1>13, <2>1, <2>2
    <2>4. NewIsReady'
      BY NewIsReadyAlways, PTL
    <2>. QED
      BY <2>3, <2>4 DEF NewIsReady
  <1>15. (AloneState(call[c]))'
    BY <1>7, <1>13, <1>14 DEF AloneState
  <1>16. ASSUME NEW i \in DOMAIN log', IsExchange(log'[i])
         PROVE  \/ Followed(log', i)
                \/ next.to = <<>> /\ Spends(next, <<log'[i].id, 0>>)
    <2>1. CASE i = last
      BY <1>8, <1>9, <2>1 DEF Spends
    <2>2. CASE i \in DOMAIN log
      <3>1. log'[i] = log[i]
        BY <1>9, <2>2
      <3>2. Followed(log, i)
        BY <1>10, <1>16, <2>2, <3>1
      <3>. QED
        BY <1>1, <1>3, <1>6, <2>2, <3>2, FollowedStays
    <2>. QED
      BY <1>9, <1>16, <2>1, <2>2
  <1>17. Len(<<next>>) = 1 /\ <<next>>[1] = next
    OBVIOUS
  <1>18. ExchangesGoOn'
    BY <1>1, <1>7, <1>16, <1>17 DEF ExchangesGoOn, Followed
  <1>. QED
    BY <1>15, <1>18 DEF AloneInv

\* Every step of a caller that is alone keeps what is true of it.
LEMMA AloneNext ==
    ASSUME Inv, Inv', NEW c, Client = {c}, AloneInv, [Next]_vars
    PROVE  AloneInv'
  <1>0. /\ TypeOK /\ call \in [Client -> CallState] /\ log \in Seq(Transaction)
        /\ c \in Client
    BY DEF Inv, TypeOK, CallState
  <1>1. CASE UNCHANGED vars
    BY <1>1 DEF vars, AloneInv, AloneState, Ready, ExchangesGoOn, Gone
  <1>2. CASE Rest
    BY <1>1, <1>2 DEF Rest
  <1>3. CASE Start(c)
    <2>1. call[c].at = "idle" /\ ~Gone(c)
      BY <1>3 DEF Start, Deposit, Withdraw, Dispute, Resolve, Chargeback, Settle, IsIdle
    <2>2. \A op \in {"resolve", "chargeback"} : op \in Op
      BY DEF Op, Moves
    <2>3. AloneStep(c)
      BY <1>0, <1>3, <2>2, AloneCalls, AloneMoves DEF Start, Resolve, Chargeback
    <2>. QED
      BY <1>0, <2>1, <2>3, AloneKept
  <1>4. CASE Select(c)
    <2>1. call[c].at = "select" /\ ~Gone(c)
      BY <1>4 DEF Select, Gone
    <2>2. AloneStep(c)
      BY <1>0, <1>4, AloneMoves
    <2>. QED
      BY <1>0, <2>1, <2>2, AloneKept
  <1>5. CASE Store(c)
    BY <1>5, AloneRefused, AloneStoredLast, AloneStoredFirst DEF Store
  <1>6. CASE Drop(c)
    <2>. DEFINE state == [at |-> "idle", outcome |-> "Dropped"]
    <2>1. call' = [call EXCEPT ![c] = state]
      BY <1>6 DEF Drop, Return
    <2>2. call'[c] = state
      BY <1>0, <2>1
    <2>. QED
      BY <1>0, <2>2 DEF AloneInv, AloneState, ExchangesGoOn, Gone
  <1>. QED
    BY <1>1, <1>2, <1>3, <1>4, <1>5, <1>6 DEF Next, Continue

\* One caller and an empty ledger.
LEMMA AloneInit == Init => AloneInv
  BY DEF Init, AloneInv, AloneState, ExchangesGoOn

\* A caller that is alone never loses a race, and no exchange it stores is left
\* without its withdrawal unless it dropped the call in between.
LEMMA AloneHolds ==
    ASSUME Cardinality(Client) = 1
    PROVE  Spec => [](AloneInv /\ Inv)
  <1>1. PICK c : Client = {c}
    BY ClientIsFinite, FS_Singleton
  <1>2. Init => AloneInv /\ Inv
    BY AloneInit, InitInv
  <1>3. (AloneInv /\ Inv) /\ [Next]_vars => (AloneInv /\ Inv)'
    BY <1>1, AloneNext, NextInv
  <1>. QED
    BY <1>2, <1>3, PTL DEF Spec

\* A caller that is alone is never refused an output it selected: only another
\* client can spend it between get_unspent and store_tx.
THEOREM AloneNothingRacesHolds == Spec => []AloneNothingRaces
  <1>1. CASE Cardinality(Client) = 1
    <2>1. AloneInv => AloneNothingRaces
      BY DEF AloneInv, AloneState, AloneNothingRaces, IsIdle
    <2>. QED
      BY <1>1, <2>1, AloneHolds, PTL
  <1>2. CASE Cardinality(Client) # 1
    <2>1. AloneNothingRaces
      BY <1>2 DEF AloneNothingRaces
    <2>. QED
      BY <2>1, PTL
  <1>. QED
    BY <1>1, <1>2

\* With one caller no withdrawal stops half-way: an exchange is always followed
\* by the withdrawal it was made for, unless the caller dropped the call.
THEOREM NoDanglingExchangeHolds ==
    ASSUME Cardinality(Client) = 1
    PROVE  Spec => []NoDanglingExchange
  <1>1. AloneInv => NoDanglingExchange
    BY DEF AloneInv, ExchangesGoOn, NoDanglingExchange, InFlight, IsIdle, Spends
  <1>. QED
    BY <1>1, AloneHolds, PTL

-----------------------------------------------------------------------------
(* Amounts that are not negative.                                           *)

NatOutputs(lg) == \A p \in Places(lg) : OutputAt(lg, p).amount \in Nat

-----------------------------------------------------------------------------
(* What a transaction is for.                                               *)

HasDeposit(lg, a, r, m) ==
    \E p \in Places(lg) : /\ IsDeposit(lg[p[1]])
                          /\ OutputAt(lg, p) = To(MainOf(a), m)
                          /\ lg[p[1]].reference = r

\* All inputs are outputs of one sub-account.
TakesFrom(lg, tx, account) ==
    \A k \in DOMAIN tx.from : \E p \in Places(lg) :
        OutputAt(lg, p).account = account /\ UtxoAt(lg, p) = tx.from[k]

DepositTx(tx, a, r, m) ==
    tx.from = <<>> /\ tx.to = <<To(MainOf(a), m)>> /\ tx.reference = r

WithdrawalTx(lg, tx, a, m) ==
    TakesFrom(lg, tx, MainOf(a)) /\ tx.to = <<>> /\ Total(tx.from) = m

\* An amount goes from source to dest, and what it takes beyond that goes back.
MovesFunds(lg, tx, source, dest, m) ==
    /\ TakesFrom(lg, tx, source)
    /\ Total(tx.from) >= m
    /\ tx.to = Split(To(dest, m), source, Total(tx.from))

ExchangeTx(lg, tx, a, r, m) ==
    /\ MovesFunds(lg, tx, MainOf(a), MainOf(a), m)
    /\ tx.from # <<>> /\ tx.reference = Tagged("Exchange for", r)

MoveTx(lg, tx, op, a, r, m) ==
    /\ MovesFunds(lg, tx, <<a, Moves[op].source>>, <<a, Moves[op].dest>>, m)
    /\ tx.reference = Tagged(Moves[op].tag, r)

\* What dispute, resolve and chargeback have found when they select.
Asked(lg, op, a, r, m) ==
    /\ HasDeposit(lg, a, r, m)
    /\ op # "dispute" => Found(lg, DisputedOf(a), Tagged("dispute", r)) # {}

IsPayment(lg, tx) ==
    \E a \in Id, r \in UserRef, m \in Amount :
       DepositTx(tx, a, r, m) \/ WithdrawalTx(lg, tx, a, m) \/ ExchangeTx(lg, tx, a, r, m)

IsMove(lg, tx) ==
    \E op \in Op, a \in Id, r \in UserRef, m \in Nat :
       MoveTx(lg, tx, op, a, r, m) /\ Asked(lg, op, a, r, m)

Purpose(lg, tx) == IsPayment(lg, tx) \/ IsMove(lg, tx)

\* The withdrawal planned together with an exchange.
Follows(tx, exchange) == tx.from = <<Kept(exchange)>> /\ tx.to = <<>>

IsExchangeForMore(lg, tx) ==
    \E a \in Id, r \in UserRef, m \in Amount : ExchangeTx(lg, tx, a, r, m)

StatePurpose(lg, state) ==
    /\ state.at = "select" =>
          /\ state.reference \in UserRef /\ state.amount \in Nat
          /\ Asked(lg, state.op, state.account, state.reference, state.amount)
    /\ state.at = "store" =>
          \/ Len(state.todo) = 1 /\ Purpose(lg, state.todo[1])
          \/ /\ Len(state.todo) = 2
             /\ IsExchangeForMore(lg, state.todo[1])
             /\ Follows(state.todo[2], state.todo[1])

\* A reference names one deposit of an account.
UniqueDeposits(lg) ==
    \A a \in Id, r \in UserRef : \A m, n :
        HasDeposit(lg, a, r, m) /\ HasDeposit(lg, a, r, n) => m = n

\* A dispute froze the amount of the deposit that it names.
DisputesNameDeposits(lg) ==
    \A a \in Id, r \in UserRef : \A i \in Found(lg, DisputedOf(a), Tagged("dispute", r)) :
        HasDeposit(lg, a, r, Credited(lg[i], DisputedOf(a)))

BookLog(lg) == NatOutputs(lg) /\ UniqueDeposits(lg) /\ DisputesNameDeposits(lg)

BookInv == BookLog(log) /\ \A c \in Client : StatePurpose(log, call[c])

-----------------------------------------------------------------------------
(* What stays true when the log grows.                                      *)

\* What is in the log stays there, with its place.
LEMMA BookGrows ==
    ASSUME NEW lg \in Seq(Transaction), NEW tx \in Transaction
    PROVE  LET new == Append(lg, tx) IN
           /\ \A a, r, m : HasDeposit(lg, a, r, m) => HasDeposit(new, a, r, m)
           /\ \A account, r : Found(lg, account, r) \subseteq Found(new, account, r)
           /\ \A t, account : TakesFrom(lg, t, account) => TakesFrom(new, t, account)
  <1>. DEFINE new == Append(lg, tx)
  <1>1. /\ DOMAIN lg \subseteq DOMAIN new
        /\ \A i \in DOMAIN lg : new[i] = lg[i]
    BY AppendTx
  <1>2. \A p \in Places(lg) : /\ p \in Places(new) /\ p[1] \in DOMAIN lg
                              /\ OutputAt(new, p) = OutputAt(lg, p)
                              /\ UtxoAt(new, p) = UtxoAt(lg, p)
    BY AppendKeepsPlaces, PlaceType
  <1>. HIDE DEF new
  <1>3. \A a, r, m : HasDeposit(lg, a, r, m) => HasDeposit(new, a, r, m)
    BY <1>1, <1>2 DEF HasDeposit
  <1>4. \A account, r : Found(lg, account, r) \subseteq Found(new, account, r)
    BY <1>1 DEF Found
  <1>5. \A t, account : TakesFrom(lg, t, account) => TakesFrom(new, t, account)
    BY <1>2 DEF TakesFrom
  <1>. QED
    BY <1>3, <1>4, <1>5 DEF new

\* A planned transaction keeps its purpose, whatever is committed before it.
LEMMA PurposeStays ==
    ASSUME NEW lg \in Seq(Transaction), NEW tx \in Transaction, NEW state, StatePurpose(lg, state)
    PROVE  StatePurpose(Append(lg, tx), state)
  <1>. DEFINE new == Append(lg, tx)
  <1>1. /\ \A a, r, m : HasDeposit(lg, a, r, m) => HasDeposit(new, a, r, m)
        /\ \A account, r : Found(lg, account, r) \subseteq Found(new, account, r)
        /\ \A t, account : TakesFrom(lg, t, account) => TakesFrom(new, t, account)
    BY BookGrows
  <1>. HIDE DEF new
  <1>2. \A op, a, r, m : Asked(lg, op, a, r, m) => Asked(new, op, a, r, m)
    BY <1>1 DEF Asked
  <1>3. \A t, source, dest, m : MovesFunds(lg, t, source, dest, m) => MovesFunds(new, t, source, dest, m)
    BY <1>1 DEF MovesFunds
  <1>4. \A t, a, r, m : ExchangeTx(lg, t, a, r, m) => ExchangeTx(new, t, a, r, m)
    BY <1>3 DEF ExchangeTx
  <1>5. \A t, a, m : WithdrawalTx(lg, t, a, m) => WithdrawalTx(new, t, a, m)
    BY <1>1 DEF WithdrawalTx
  <1>6. \A t, op, a, r, m : MoveTx(lg, t, op, a, r, m) => MoveTx(new, t, op, a, r, m)
    BY <1>3 DEF MoveTx
  <1>7. \A t : Purpose(lg, t) => Purpose(new, t)
    BY <1>2, <1>4, <1>5, <1>6 DEF Purpose, IsPayment, IsMove
  <1>8. \A t : IsExchangeForMore(lg, t) => IsExchangeForMore(new, t)
    BY <1>4 DEF IsExchangeForMore
  <1>9. StatePurpose(new, state)
    BY <1>2, <1>7, <1>8 DEF StatePurpose
  <1>. QED
    BY <1>9 DEF new

-----------------------------------------------------------------------------
(* The outputs of a transaction.                                            *)

\* What follows a prefix is the rest of the sequence.
LEMMA TailOfPrefixed ==
    ASSUME NEW S, NEW x \in S, NEW q \in Seq(S)
    PROVE  Tail(<<x>> \o q) = q
  <1>. DEFINE all == <<x>> \o q
  <1>1. <<x>> \in Seq(S) /\ Len(<<x>>) = 1
    OBVIOUS
  <1>2. /\ all \in Seq(S) /\ Len(all) = 1 + Len(q)
        /\ \A i \in 1..Len(q) : all[i + 1] = q[i]
    BY <1>1, ConcatProperties
  <1>. HIDE DEF all
  <1>3. /\ Tail(all) \in Seq(S) /\ Len(Tail(all)) = Len(q)
        /\ \A i \in 1..Len(q) : Tail(all)[i] = q[i]
    BY <1>2
  <1>4. Tail(all) = q
    BY <1>3, SeqEqual
  <1>. QED
    BY <1>4 DEF all

\* Different prefixes or references make different references.
LEMMA TaggedSame ==
    ASSUME NEW t \in Tags, NEW u \in Tags, NEW r \in Reference, NEW s \in Reference,
           Tagged(t, r) = Tagged(u, s)
    PROVE  t = u /\ r = s
  <1>1. t = u
    BY HeadOfTagged
  <1>2. t \in STRING
    BY TagsAreStrings
  <1>3. Tail(Tagged(t, r)) = r /\ Tail(Tagged(t, s)) = s
    BY <1>2, TailOfPrefixed, Zenon DEF Tagged, Reference
  <1>4. r = s
    BY <1>1, <1>3
  <1>. QED
    BY <1>1, <1>4

\* Nothing has the total zero.
LEMMA TotalOfNone == Total(<<>>) = 0
  <1>. DEFINE s == <<>>
  <1>1. s \in Seq(Int) /\ Len(s) = 0 /\ DOMAIN s = {}
    OBVIOUS
  <1>2. PICK f : IsSum(f, s) /\ SumSeq(s) = f[Len(s)]
    BY <1>1, SumDef
  <1>3. SumSeq(s) = 0
    BY <1>1, <1>2 DEF IsSum
  <1>4. [k \in DOMAIN s |-> s[k].amount] = s
    BY <1>1
  <1>. QED
    BY <1>3, <1>4 DEF Total

\* A move has one output of the amount, and a second one if there is change.
LEMMA SplitCases ==
    ASSUME NEW account, NEW m \in Int, NEW source, NEW total \in Int
    PROVE  LET to == Split(To(account, m), source, total) IN
           \/ total = m /\ to = <<To(account, m)>>
           \/ total # m /\ to = <<To(account, m), To(source, total - m)>>
  <1>1. To(account, m).amount = m
    BY DEF To
  <1>. QED
    BY <1>1 DEF Split

\* The same in terms of the outputs of a transaction that moves funds.
LEMMA MovedOutputs ==
    ASSUME NEW lg, NEW tx \in Transaction, NEW source, NEW dest, NEW m \in Nat,
           MovesFunds(lg, tx, source, dest, m)
    PROVE  /\ Total(tx.from) \in Nat
           /\ \/ tx.to = <<To(dest, m)>> /\ Total(tx.from) = m
              \/ /\ tx.to = <<To(dest, m), To(source, Total(tx.from) - m)>>
                 /\ Total(tx.from) # m /\ tx.from # <<>>
  <1>1. Total(tx.from) \in Int
    BY TotalIsInt DEF Transaction
  <1>2. Total(tx.from) \in Nat
    BY <1>1 DEF MovesFunds
  <1>3. tx.from = <<>> => Total(tx.from) = m
    BY <1>2, TotalOfNone DEF MovesFunds
  <1>. QED
    BY <1>2, <1>3, SplitCases DEF MovesFunds

\* No purpose needs an output of less than zero, and what has no inputs has one
\* output at most.
LEMMA PurposeShape ==
    ASSUME Amount \subseteq Nat, NEW lg, NEW tx \in Transaction, Purpose(lg, tx)
    PROVE  /\ \A k \in DOMAIN tx.to : tx.to[k].amount \in Nat
           /\ IsDeposit(tx) => \A k, l \in DOMAIN tx.to : k = l
  <1>1. ASSUME NEW source, NEW dest, NEW m \in Nat, MovesFunds(lg, tx, source, dest, m)
        PROVE  /\ \A k \in DOMAIN tx.to : tx.to[k].amount \in Nat
               /\ IsDeposit(tx) => \A k, l \in DOMAIN tx.to : k = l
    <2>1. /\ Total(tx.from) \in Nat /\ Total(tx.from) >= m
          /\ \/ tx.to = <<To(dest, m)>> /\ Total(tx.from) = m
             \/ /\ tx.to = <<To(dest, m), To(source, Total(tx.from) - m)>>
                /\ Total(tx.from) # m /\ tx.from # <<>>
      BY <1>1, MovedOutputs DEF MovesFunds
    <2>2. CASE tx.to = <<To(dest, m)>>
      BY <2>2 DEF To
    <2>3. CASE tx.to = <<To(dest, m), To(source, Total(tx.from) - m)>> /\ tx.from # <<>>
      <3>1. Total(tx.from) - m \in Nat
        BY <2>1
      <3>2. DOMAIN tx.to = {1, 2} /\ tx.to[1].amount = m /\ tx.to[2].amount = Total(tx.from) - m
        BY <2>3 DEF To
      <3>. QED
        BY <2>3, <3>1, <3>2 DEF IsDeposit
    <2>. QED
      BY <2>1, <2>2, <2>3
  <1>2. CASE IsPayment(lg, tx)
    <2>1. PICK a \in Id, r \in UserRef, m \in Amount :
             DepositTx(tx, a, r, m) \/ WithdrawalTx(lg, tx, a, m) \/ ExchangeTx(lg, tx, a, r, m)
      BY <1>2 DEF IsPayment
    <2>2. CASE DepositTx(tx, a, r, m)
      BY <2>2 DEF DepositTx, To
    <2>3. CASE WithdrawalTx(lg, tx, a, m)
      BY <2>3 DEF WithdrawalTx
    <2>4. CASE ExchangeTx(lg, tx, a, r, m)
      BY <1>1, <2>4 DEF ExchangeTx
    <2>. QED
      BY <2>1, <2>2, <2>3, <2>4
  <1>3. CASE IsMove(lg, tx)
    BY <1>1, <1>3 DEF IsMove, MoveTx
  <1>. QED
    BY <1>2, <1>3 DEF Purpose

\* Deposits and references after a commit.
LEMMA BookAfter ==
    ASSUME NEW lg \in Seq(Transaction), NEW tx \in Transaction
    PROVE  LET new == Append(lg, tx) IN
           /\ \A a, r, m : HasDeposit(new, a, r, m) <=>
                 \/ HasDeposit(lg, a, r, m)
                 \/ /\ IsDeposit(tx) /\ tx.reference = r
                    /\ \E k \in DOMAIN tx.to : tx.to[k] = To(MainOf(a), m)
           /\ \A account, r, i : i \in Found(new, account, r) <=>
                 \/ i \in Found(lg, account, r)
                 \/ /\ i = Len(lg) + 1 /\ tx.reference = r
                    /\ \E k \in DOMAIN tx.to : tx.to[k].account = account
  <1>. DEFINE new == Append(lg, tx)
              last == Len(lg) + 1
  <1>1. /\ new \in Seq(Transaction)
        /\ DOMAIN new = DOMAIN lg \cup {last} /\ last \notin DOMAIN lg
        /\ new[last] = tx /\ \A i \in DOMAIN lg : new[i] = lg[i]
    BY AppendTx
  <1>. HIDE DEF new, last
  <1>2. ASSUME NEW a, NEW r, NEW m
        PROVE  HasDeposit(new, a, r, m) <=>
                 \/ HasDeposit(lg, a, r, m)
                 \/ /\ IsDeposit(tx) /\ tx.reference = r
                    /\ \E k \in DOMAIN tx.to : tx.to[k] = To(MainOf(a), m)
    <2>1. \A l : HasDeposit(l, a, r, m) <=>
             \E i \in DOMAIN l : /\ IsDeposit(l[i]) /\ l[i].reference = r
                                 /\ \E k \in DOMAIN l[i].to : l[i].to[k] = To(MainOf(a), m)
      <3>. SUFFICES ASSUME NEW l
                    PROVE  HasDeposit(l, a, r, m) <=>
                             \E i \in DOMAIN l :
                                /\ IsDeposit(l[i]) /\ l[i].reference = r
                                /\ \E k \in DOMAIN l[i].to : l[i].to[k] = To(MainOf(a), m)
        OBVIOUS
      <3>1. ASSUME HasDeposit(l, a, r, m)
            PROVE  \E i \in DOMAIN l :
                                /\ IsDeposit(l[i]) /\ l[i].reference = r
                                /\ \E k \in DOMAIN l[i].to : l[i].to[k] = To(MainOf(a), m)
        <4>1. PICK p \in Places(l) : /\ IsDeposit(l[p[1]]) /\ OutputAt(l, p) = To(MainOf(a), m)
                                     /\ l[p[1]].reference = r
          BY <3>1 DEF HasDeposit
        <4>2. PICK i \in DOMAIN l : \E k \in DOMAIN l[i].to : p = <<i, k>>
          BY InPlaces
        <4>3. PICK k \in DOMAIN l[i].to : p = <<i, k>>
          BY <4>2
        <4>. QED
          BY <4>1, <4>3 DEF OutputAt
      <3>2. ASSUME NEW i \in DOMAIN l, IsDeposit(l[i]), l[i].reference = r,
                   NEW k \in DOMAIN l[i].to, l[i].to[k] = To(MainOf(a), m)
            PROVE  HasDeposit(l, a, r, m)
        <4>1. <<i, k>> \in Places(l)
          BY InPlaces
        <4>. QED
          BY <3>2, <4>1 DEF HasDeposit, OutputAt
      <3>. QED
        BY <3>1, <3>2
    <2>. QED
      BY <1>1, <2>1
  <1>3. \A account, r, i : i \in Found(new, account, r) <=>
                 \/ i \in Found(lg, account, r)
                 \/ /\ i = last /\ tx.reference = r
                    /\ \E k \in DOMAIN tx.to : tx.to[k].account = account
    BY <1>1 DEF Found
  <1>. QED
    BY <1>2, <1>3 DEF new, last

-----------------------------------------------------------------------------
(* A commit keeps what is true of the log.                                  *)

\* The part of a move that is credited to its destination is the amount, never
\* the change.
LEMMA CreditedOfMove ==
    ASSUME NEW lg, NEW tx \in Transaction, NEW source, NEW dest, NEW m \in Nat,
           MovesFunds(lg, tx, source, dest, m), source # dest
    PROVE  Credited(tx, dest) = m
  <1>. DEFINE amounts == [k \in DOMAIN tx.to |->
                            IF tx.to[k].account = dest THEN tx.to[k].amount ELSE 0]
  <1>1. CASE tx.to = <<To(dest, m)>>
    <2>1. DOMAIN tx.to = {1} /\ tx.to[1].account = dest /\ tx.to[1].amount = m
      BY <1>1 DEF To
    <2>2. amounts = <<m>>
      BY <2>1
    <2>. HIDE DEF amounts
    <2>3. SumSeq(amounts) = m
      BY <2>2, SumOfOne
    <2>. QED
      BY <2>3 DEF Credited, amounts
  <1>2. CASE tx.to = <<To(dest, m), To(source, Total(tx.from) - m)>>
    <2>1. /\ DOMAIN tx.to = {1, 2} /\ tx.to[1].account = dest /\ tx.to[1].amount = m
          /\ tx.to[2].account = source
      BY <1>2 DEF To
    <2>2. amounts = <<m, 0>>
      BY <2>1
    <2>. HIDE DEF amounts
    <2>3. SumSeq(amounts) = m + 0
      BY <2>2, SumOfTwo
    <2>. QED
      BY <2>3 DEF Credited, amounts
  <1>. QED
    BY <1>1, <1>2, MovedOutputs

\* Every output of a move is in its source or its destination.
LEMMA MovedAccounts ==
    ASSUME NEW lg, NEW tx \in Transaction, NEW source, NEW dest, NEW m \in Nat,
           MovesFunds(lg, tx, source, dest, m)
    PROVE  /\ \A k \in DOMAIN tx.to : tx.to[k].account \in {source, dest}
           /\ 1 \in DOMAIN tx.to /\ tx.to[1].account = dest
  <1>1. CASE tx.to = <<To(dest, m)>>
    BY <1>1 DEF To
  <1>2. CASE tx.to = <<To(dest, m), To(source, Total(tx.from) - m)>>
    BY <1>2 DEF To
  <1>. QED
    BY <1>1, <1>2, MovedOutputs

\* No caller's reference is that of a resolution of another: a resolution of
\* nothing has no inputs, and would look like a deposit under that reference.
NoResolvedRefs == \A r \in UserRef : Tagged("resolved", r) \notin UserRef

\* The moves are told apart by their tags, and only a resolution goes to the main
\* sub-account.
LEMMA MoveFacts ==
    ASSUME NEW op \in Op
    PROVE  /\ Moves[op].tag # "Exchange for"
           /\ Moves[op].source # Moves[op].dest
           /\ op = "resolve" <=> Moves[op].tag = "resolved"
           /\ op = "resolve" <=> Moves[op].dest = "Main"
           /\ \A o \in Op : Moves[o].tag = Moves[op].tag => o = op
  <1>1. op \in {"dispute", "resolve", "chargeback"}
    BY DEF Op, Moves
  <1>2. \A o \in Op : Moves[o].tag = Moves[op].tag => o = op
    BY DEF Op, Moves
  <1>3. CASE op = "dispute"
    BY <1>2, <1>3 DEF Moves
  <1>4. CASE op = "resolve"
    BY <1>2, <1>4 DEF Moves
  <1>5. CASE op = "chargeback"
    BY <1>2, <1>5 DEF Moves
  <1>. QED
    BY <1>1, <1>3, <1>4, <1>5

\* A transaction under the reference of a move, to where the move goes, is that
\* move and nothing else.
LEMMA MovePurpose ==
    ASSUME Amount \subseteq Nat, NEW lg, NEW tx \in Transaction, Purpose(lg, tx),
           NEW op \in Op, NEW a \in Id, NEW r \in UserRef, NEW k \in DOMAIN tx.to,
           tx.reference = Tagged(Moves[op].tag, r), tx.to[k].account = <<a, Moves[op].dest>>,
           op = "resolve" => NoResolvedRefs
    PROVE  \E m \in Nat : MoveTx(lg, tx, op, a, r, m) /\ Asked(lg, op, a, r, m)
  <1>0. /\ Moves[op].tag # "Exchange for"
        /\ op = "resolve" => Moves[op].tag = "resolved"
        /\ op # "resolve" => Moves[op].dest # "Main"
    BY MoveFacts
  <1>a. Moves[op].tag \in Tags /\ "Exchange for" \in Tags /\ r \in Reference
    BY MovesType, UserRefIsReference DEF Tags
  <1>1. ~IsPayment(lg, tx)
    <2>. SUFFICES ASSUME NEW b \in Id, NEW s \in UserRef, NEW m \in Amount,
                         \/ DepositTx(tx, b, s, m) \/ WithdrawalTx(lg, tx, b, m)
                         \/ ExchangeTx(lg, tx, b, s, m)
                  PROVE  FALSE
      BY DEF IsPayment
    <2>1. CASE DepositTx(tx, b, s, m)
      <3>1. tx.to[k].account = MainOf(b) /\ tx.reference = s
        <4>1. k = 1 /\ tx.to[1] = To(MainOf(b), m)
          BY <2>1 DEF DepositTx
        <4>. QED
          BY <2>1, <4>1 DEF DepositTx, To
      <3>2. Moves[op].dest = "Main"
        BY <3>1 DEF MainOf
      <3>. QED
        BY <1>0, <3>1, <3>2 DEF NoResolvedRefs
    <2>2. CASE WithdrawalTx(lg, tx, b, m)
      BY <2>2 DEF WithdrawalTx
    <2>3. CASE ExchangeTx(lg, tx, b, s, m)
      <3>1. Tagged(Moves[op].tag, r) = Tagged("Exchange for", s)
        BY <2>3 DEF ExchangeTx
      <3>2. s \in Reference
        BY UserRefIsReference
      <3>3. Moves[op].tag = "Exchange for"
        BY <1>a, <3>1, <3>2, TaggedSame
      <3>. QED
        BY <1>0, <3>3
    <2>. QED
      BY <2>1, <2>2, <2>3
  <1>2. PICK o \in Op, b \in Id, s \in UserRef, m \in Nat :
           MoveTx(lg, tx, o, b, s, m) /\ Asked(lg, o, b, s, m)
    BY <1>1 DEF Purpose, IsMove
  <1>3. Tagged(Moves[o].tag, s) = Tagged(Moves[op].tag, r)
    BY <1>2 DEF MoveTx
  <1>4. Moves[o].tag = Moves[op].tag /\ s = r
    <2>1. Moves[o].tag \in Tags /\ s \in Reference
      BY MovesType, UserRefIsReference
    <2>. DEFINE t == Moves[o].tag
                u == Moves[op].tag
    <2>2. /\ t \in Tags /\ u \in Tags /\ Tagged(t, s) = Tagged(u, r)
          /\ s \in Reference /\ r \in Reference
      BY <1>a, <1>3, <2>1
    <2>. HIDE DEF t, u
    <2>3. t = u /\ s = r
      BY <2>2, TaggedSame
    <2>. QED
      BY <2>3 DEF t, u
  <1>5. o = op
    BY <1>4 DEF Op, Moves
  <1>6. MovesFunds(lg, tx, <<b, Moves[op].source>>, <<b, Moves[op].dest>>, m)
    BY <1>2, <1>5 DEF MoveTx
  <1>7. tx.to[k].account \in {<<b, Moves[op].source>>, <<b, Moves[op].dest>>}
    BY <1>6, MovedAccounts
  <1>8. a = b
    BY <1>7
  <1>. QED
    BY <1>2, <1>4, <1>5, <1>8

\* What credits a disputed sub-account under the reference of a dispute is a
\* dispute of a deposit, by its amount.
LEMMA DisputePurpose ==
    ASSUME Amount \subseteq Nat, NEW lg, NEW tx \in Transaction, Purpose(lg, tx),
           NEW a \in Id, NEW r \in UserRef, tx.reference = Tagged("dispute", r),
           NEW k \in DOMAIN tx.to, tx.to[k].account = DisputedOf(a)
    PROVE  HasDeposit(lg, a, r, Credited(tx, DisputedOf(a)))
  <1>1. /\ "dispute" \in Op /\ "dispute" # "resolve" /\ Moves["dispute"].tag = "dispute"
        /\ <<a, Moves["dispute"].source>> = MainOf(a)
        /\ <<a, Moves["dispute"].dest>> = DisputedOf(a)
    BY DEF Op, Moves, MainOf, DisputedOf
  <1>2. PICK m \in Nat : MoveTx(lg, tx, "dispute", a, r, m) /\ Asked(lg, "dispute", a, r, m)
    BY <1>1, MovePurpose
  <1>3. MovesFunds(lg, tx, MainOf(a), DisputedOf(a), m) /\ MainOf(a) # DisputedOf(a)
    BY <1>1, <1>2 DEF MoveTx, MainOf, DisputedOf
  <1>4. Credited(tx, DisputedOf(a)) = m
    BY <1>3, CreditedOfMove
  <1>. QED
    BY <1>2, <1>4 DEF Asked

\* The deposit that a reference names has an output in the main sub-account.
LEMMA DepositIsFound ==
    ASSUME NEW lg, NEW a, NEW r, NEW m, HasDeposit(lg, a, r, m)
    PROVE  Found(lg, MainOf(a), r) # {}
  <1>1. PICK p \in Places(lg) : OutputAt(lg, p) = To(MainOf(a), m) /\ lg[p[1]].reference = r
    BY DEF HasDeposit
  <1>2. p[1] \in DOMAIN lg /\ p[2] \in DOMAIN lg[p[1]].to
    BY InPlaces
  <1>3. OutputAt(lg, p).account = MainOf(a)
    BY <1>1 DEF To
  <1>4. p[1] \in Found(lg, MainOf(a), r)
    BY <1>1, <1>2, <1>3 DEF Found, OutputAt
  <1>. QED
    BY <1>4

\* A transaction with a purpose that store_tx accepts leaves a log in which
\* amounts are not negative, and references name what they named.
LEMMA CommitKeepsBookLog ==
    ASSUME Amount \subseteq Nat, NEW lg \in Seq(Transaction), NEW tx \in Transaction,
           Verdict(lg, tx) = "Ok", Purpose(lg, tx), BookLog(lg)
    PROVE  BookLog(Append(lg, tx))
  <1>. DEFINE new == Append(lg, tx)
              last == Len(lg) + 1
  <1>1. /\ \A a, r, m : HasDeposit(new, a, r, m) <=>
              \/ HasDeposit(lg, a, r, m)
              \/ /\ IsDeposit(tx) /\ tx.reference = r
                 /\ \E k \in DOMAIN tx.to : tx.to[k] = To(MainOf(a), m)
        /\ \A account, r, i : i \in Found(new, account, r) <=>
              \/ i \in Found(lg, account, r)
              \/ /\ i = last /\ tx.reference = r
                 /\ \E k \in DOMAIN tx.to : tx.to[k].account = account
    BY BookAfter
  <1>2. /\ new[last] = tx /\ \A i \in DOMAIN lg : new[i] = lg[i]
    BY AppendTx
  <1>3. /\ \A k \in DOMAIN tx.to : tx.to[k].amount \in Nat
        /\ IsDeposit(tx) => \A k, l \in DOMAIN tx.to : k = l
    BY PurposeShape
  <1>4. \A k \in DOMAIN tx.to : Found(lg, tx.to[k].account, tx.reference) = {}
    BY Accepted
  <1>5. NatOutputs(new)
    <2>1. Places(new) = Places(lg) \cup NewPlaces(lg, tx)
      BY PlacesAfter
    <2>2. \A p \in Places(lg) : OutputAt(new, p) = OutputAt(lg, p)
      BY AppendKeepsPlaces
    <2>3. \A p \in NewPlaces(lg, tx) : \E k \in DOMAIN tx.to : OutputAt(new, p) = tx.to[k]
      BY AppendAddsPlaces DEF NewPlaces
    <2>. HIDE DEF new
    <2>. QED
      BY <1>3, <2>1, <2>2, <2>3 DEF NatOutputs, BookLog
  <1>. HIDE DEF new, last
  <1>6. \A a, r, m : HasDeposit(lg, a, r, m) => Found(lg, MainOf(a), r) # {}
    BY DepositIsFound
  <1>7. UniqueDeposits(new)
    <2>. SUFFICES ASSUME NEW a \in Id, NEW r \in UserRef, NEW m, NEW n,
                         HasDeposit(new, a, r, m), HasDeposit(new, a, r, n)
                  PROVE  m = n
      BY DEF UniqueDeposits
    <2>1. ASSUME NEW k \in DOMAIN tx.to, NEW x, tx.to[k] = To(MainOf(a), x), tx.reference = r
          PROVE  \A y : ~HasDeposit(lg, a, r, y)
      <3>1. tx.to[k].account = MainOf(a)
        BY <2>1 DEF To
      <3>. QED
        BY <1>4, <1>6, <2>1, <3>1
    <2>2. CASE HasDeposit(lg, a, r, m) /\ HasDeposit(lg, a, r, n)
      BY <2>2 DEF BookLog, UniqueDeposits
    <2>3. CASE ~HasDeposit(lg, a, r, m) /\ ~HasDeposit(lg, a, r, n)
      <3>1. PICK k \in DOMAIN tx.to : tx.to[k] = To(MainOf(a), m)
        BY <1>1, <2>3
      <3>2. PICK l \in DOMAIN tx.to : tx.to[l] = To(MainOf(a), n)
        BY <1>1, <2>3
      <3>3. k = l
        BY <1>1, <1>3, <2>3
      <3>4. To(MainOf(a), m).amount = m /\ To(MainOf(a), n).amount = n
        BY DEF To
      <3>. QED
        BY <3>1, <3>2, <3>3, <3>4
    <2>. QED
      BY <1>1, <2>1, <2>2, <2>3
  <1>8. DisputesNameDeposits(new)
    <2>. SUFFICES ASSUME NEW a \in Id, NEW r \in UserRef,
                         NEW i \in Found(new, DisputedOf(a), Tagged("dispute", r))
                  PROVE  HasDeposit(new, a, r, Credited(new[i], DisputedOf(a)))
      BY DEF DisputesNameDeposits
    <2>1. CASE i \in Found(lg, DisputedOf(a), Tagged("dispute", r))
      <3>1. new[i] = lg[i]
        BY <1>2, <2>1 DEF Found
      <3>2. HasDeposit(lg, a, r, Credited(lg[i], DisputedOf(a)))
        BY <2>1 DEF BookLog, DisputesNameDeposits
      <3>. QED
        BY <1>1, <3>1, <3>2
    <2>2. CASE i \notin Found(lg, DisputedOf(a), Tagged("dispute", r))
      <3>1. i = last /\ tx.reference = Tagged("dispute", r)
        BY <1>1, <2>2
      <3>2. PICK k \in DOMAIN tx.to : tx.to[k].account = DisputedOf(a)
        BY <1>1, <2>2
      <3>3. HasDeposit(lg, a, r, Credited(tx, DisputedOf(a)))
        BY <3>1, <3>2, DisputePurpose
      <3>. QED
        BY <1>1, <1>2, <3>1, <3>3
    <2>. QED
      BY <2>1, <2>2
  <1>9. BookLog(new)
    BY <1>5, <1>7, <1>8 DEF BookLog
  <1>. QED
    BY <1>9 DEF new

-----------------------------------------------------------------------------
(* The steps of a call.                                                     *)

\* A step that stores nothing and leaves its call with a purpose.
PurposeStep(c) ==
    UNCHANGED log /\ \E state : call' = [call EXCEPT ![c] = state] /\ StatePurpose(log, state)

\* A call that has ended has no purpose to keep.
LEMMA PurposeReturn ==
    ASSUME NEW c, NEW outcome, Return(c, outcome), UNCHANGED log
    PROVE  PurposeStep(c)
  <1>. DEFINE state == [at |-> "idle", outcome |-> outcome]
  <1>1. StatePurpose(log, state) /\ call' = [call EXCEPT ![c] = state]
    BY DEF StatePurpose, Return
  <1>. QED
    BY <1>1 DEF PurposeStep

\* Transactions with a purpose are stored next, or one cannot be built.
LEMMA PurposeOffer ==
    ASSUME NEW c, NEW txs, Offer(c, txs), UNCHANGED log,
           \/ Len(txs) = 1 /\ Purpose(log, txs[1])
           \/ Len(txs) = 2 /\ IsExchangeForMore(log, txs[1]) /\ Follows(txs[2], txs[1])
    PROVE  PurposeStep(c)
  <1>. DEFINE refused == {k \in DOMAIN txs : NewVerdict(txs[k].from, txs[k].to) # "Ok"}
              first == CHOOSE k \in refused : \A j \in refused : k <= j
  <1>1. CASE refused = {}
    <2>. DEFINE state == [at |-> "store", todo |-> txs]
    <2>1. StatePurpose(log, state)
      BY DEF StatePurpose
    <2>2. call' = [call EXCEPT ![c] = state]
      BY <1>1 DEF Offer
    <2>. QED
      BY <2>1, <2>2 DEF PurposeStep
  <1>2. CASE refused # {}
    <2>1. Return(c, NewVerdict(txs[first].from, txs[first].to))
      BY <1>2 DEF Offer
    <2>. HIDE DEF first
    <2>. QED
      BY <2>1, PurposeReturn
  <1>. QED
    BY <1>1, <1>2

\* The same for one transaction.
LEMMA PurposeOfferOne ==
    ASSUME NEW c, NEW tx, Offer(c, <<tx>>), UNCHANGED log, Purpose(log, tx)
    PROVE  PurposeStep(c)
  <1>. DEFINE txs == <<tx>>
  <1>1. Len(txs) = 1 /\ txs[1] = tx
    OBVIOUS
  <1>. HIDE DEF txs
  <1>2. Offer(c, txs) => PurposeStep(c)
    BY <1>1, PurposeOffer
  <1>. QED
    BY <1>2 DEF txs

\* What get_unspent selects is in the sub-account it was asked for.
LEMMA SelectedFrom ==
    ASSUME log \in Seq(Transaction), NEW account, NEW target,
           NEW inputs \in GetUnspent(log, account, target)
    PROVE  /\ inputs \in Seq(Utxo)
           /\ \A k \in DOMAIN inputs : \E p \in Places(log) :
                 OutputAt(log, p).account = account /\ UtxoAt(log, p) = inputs[k]
  <1>1. /\ inputs \in Seq(Utxo)
        /\ \A k \in DOMAIN inputs : \E p \in UnspentPlaces(log, account) :
              inputs[k] = UtxoAt(log, p)
    BY Selected
  <1>. QED
    BY <1>1 DEF UnspentPlaces

\* deposit and withdraw plan payments, and an exchange only when there is change.
LEMMA PaymentPurpose ==
    ASSUME Amount \subseteq Nat, TypeOK, NEW c \in Client, NEW a \in Id, NEW r \in UserRef,
           NEW m \in Amount, Deposit(c, a, r, m) \/ Withdraw(c, a, r, m)
    PROVE  PurposeStep(c)
  <1>0. log \in Seq(Transaction) /\ m \in Nat
    BY DEF TypeOK
  <1>1. CASE Deposit(c, a, r, m)
    <2>1. PICK h \in Fresh(Used) : Offer(c, <<Tx(h, <<>>, <<To(MainOf(a), m)>>, r)>>)
      BY <1>1 DEF Deposit
    <2>. DEFINE tx == Tx(h, <<>>, <<To(MainOf(a), m)>>, r)
    <2>2. DepositTx(tx, a, r, m)
      BY DEF DepositTx, Tx
    <2>. HIDE DEF tx
    <2>3. Purpose(log, tx)
      BY <2>2 DEF Purpose, IsPayment
    <2>. QED
      BY <1>1, <2>1, <2>3, PurposeOfferOne DEF Deposit, tx
  <1>2. CASE Withdraw(c, a, r, m)
    <2>1. PICK inputs \in GetUnspent(log, MainOf(a), Some(m)) :
             \/ Return(c, "NotEnough")
             \/ /\ Total(inputs) = m
                /\ \E h \in Fresh(Used) : Offer(c, <<Tx(h, inputs, <<>>, r)>>)
             \/ /\ Total(inputs) > m
                /\ \E h \in Fresh(Used) : \E g \in Fresh(Used \cup {h}) :
                      Offer(c, <<Exchange(h, inputs, a, r, m),
                                 Tx(g, <<Kept(Exchange(h, inputs, a, r, m))>>, <<>>, r)>>)
      BY <1>2 DEF Withdraw
    <2>2. UNCHANGED log
      BY <1>2 DEF Withdraw
    <2>3. /\ inputs \in Seq(Utxo) /\ Total(inputs) \in Int
          /\ \A k \in DOMAIN inputs : \E p \in Places(log) :
                OutputAt(log, p).account = MainOf(a) /\ UtxoAt(log, p) = inputs[k]
      BY <1>0, SelectedFrom, TotalIsInt
    <2>4. ASSUME Return(c, "NotEnough")
          PROVE  PurposeStep(c)
      BY <2>2, <2>4, PurposeReturn
    <2>5. ASSUME Total(inputs) = m, NEW h \in Fresh(Used), Offer(c, <<Tx(h, inputs, <<>>, r)>>)
          PROVE  PurposeStep(c)
      <3>. DEFINE tx == Tx(h, inputs, <<>>, r)
      <3>1. tx.from = inputs /\ tx.to = <<>>
        BY DEF Tx
      <3>. HIDE DEF tx
      <3>2. WithdrawalTx(log, tx, a, m)
        BY <2>3, <2>5, <3>1 DEF WithdrawalTx, TakesFrom
      <3>3. Purpose(log, tx)
        BY <3>2 DEF Purpose, IsPayment
      <3>. QED
        BY <2>2, <2>5, <3>3, PurposeOfferOne DEF tx
    <2>6. ASSUME Total(inputs) > m, NEW h \in Fresh(Used), NEW g \in Fresh(Used \cup {h}),
                 Offer(c, <<Exchange(h, inputs, a, r, m),
                            Tx(g, <<Kept(Exchange(h, inputs, a, r, m))>>, <<>>, r)>>)
          PROVE  PurposeStep(c)
      <3>. DEFINE exchange == Exchange(h, inputs, a, r, m)
                  withdrawal == Tx(g, <<Kept(exchange)>>, <<>>, r)
                  txs == <<exchange, withdrawal>>
      <3>1. /\ exchange.from = inputs /\ exchange.reference = Tagged("Exchange for", r)
            /\ exchange.to = Split(To(MainOf(a), m), MainOf(a), Total(inputs))
        BY DEF Exchange, Tx
      <3>2. withdrawal.to = <<>> /\ withdrawal.from = <<Kept(exchange)>>
        BY DEF Tx
      <3>. HIDE DEF exchange, withdrawal
      <3>3. inputs # <<>>
        BY <1>0, <2>3, <2>6, TotalOfNone
      <3>4. ExchangeTx(log, exchange, a, r, m)
        <4>1. TakesFrom(log, exchange, MainOf(a))
          BY <2>3, <3>1 DEF TakesFrom
        <4>a. exchange.from = inputs
          BY <3>1
        <4>b. Total(inputs) >= m
          BY <1>0, <2>3, <2>6
        <4>2. Total(exchange.from) >= m
          BY <4>a, <4>b
        <4>3. exchange.to = Split(To(MainOf(a), m), MainOf(a), Total(exchange.from))
          BY <3>1
        <4>. QED
          BY <3>1, <3>3, <4>1, <4>2, <4>3 DEF ExchangeTx, MovesFunds
      <3>5. Len(txs) = 2 /\ txs[1] = exchange /\ txs[2] = withdrawal
        OBVIOUS
      <3>6. Offer(c, txs)
        BY <2>6 DEF exchange, withdrawal
      <3>. HIDE DEF txs
      <3>7. IsExchangeForMore(log, txs[1]) /\ Follows(txs[2], txs[1])
        BY <3>2, <3>4, <3>5 DEF IsExchangeForMore, Follows
      <3>. QED
        BY <2>2, <3>5, <3>6, <3>7, PurposeOffer
    <2>. QED
      BY <2>1, <2>4, <2>5, <2>6
  <1>. QED
    BY <1>1, <1>2

\* The amount of a deposit is not negative.
LEMMA DepositIsNat ==
    ASSUME NEW lg, NatOutputs(lg), NEW a, NEW r, NEW m, HasDeposit(lg, a, r, m)
    PROVE  m \in Nat
  BY DEF HasDeposit, NatOutputs, To

\* dispute, resolve and chargeback go on with the amount of a deposit.
LEMMA LookupPurpose ==
    ASSUME TypeOK, BookLog(log), NEW c \in Client, NEW a \in Id, NEW r \in UserRef,
           Dispute(c, a, r) \/ \E op \in Op : Settle(c, op, a, r)
    PROVE  PurposeStep(c)
  <1>0. log \in Seq(Transaction) /\ NatOutputs(log)
    BY DEF TypeOK, BookLog
  <1>1. UNCHANGED log
    BY DEF Dispute, Settle
  <1>2. ASSUME NEW op, NEW m, Asked(log, op, a, r, m),
               call' = [call EXCEPT ![c] =
                          [at |-> "select", op |-> op, account |-> a,
                           reference |-> r, amount |-> m]]
        PROVE  PurposeStep(c)
    <2>. DEFINE state == [at |-> "select", op |-> op, account |-> a,
                          reference |-> r, amount |-> m]
    <2>1. m \in Nat
      BY <1>0, <1>2, DepositIsNat DEF Asked
    <2>2. StatePurpose(log, state)
      BY <1>2, <2>1 DEF StatePurpose
    <2>. QED
      BY <1>1, <1>2, <2>2 DEF PurposeStep
  <1>3. ASSUME NEW outcome, Return(c, outcome)
        PROVE  PurposeStep(c)
    BY <1>1, <1>3, PurposeReturn
  <1>4. CASE Dispute(c, a, r)
    <2>1. ASSUME NEW i \in Found(log, MainOf(a), r), log[i].from = <<>>, Len(log[i].to) = 1
          PROVE  Asked(log, "dispute", a, r, log[i].to[1].amount)
      <3>1. i \in DOMAIN log /\ log[i].reference = r
        BY DEF Found
      <3>2. log[i].to \in Seq(Output)
        <4>1. log[i] \in Transaction
          BY <1>0, <3>1
        <4>. QED
          BY <4>1 DEF Transaction
      <3>3. DOMAIN log[i].to = {1} /\ log[i].to[1] \in Output
        BY <2>1, <3>2
      <3>4. log[i].to[1].account = MainOf(a)
        BY <3>3 DEF Found
      <3>5. log[i].to[1] = To(MainOf(a), log[i].to[1].amount)
        BY <3>3, <3>4 DEF To, Output
      <3>6. <<i, 1>> \in Places(log)
        BY <3>1, <3>3, InPlaces
      <3>. QED
        BY <2>1, <3>1, <3>5, <3>6 DEF Asked, HasDeposit, OutputAt, IsDeposit
    <2>. QED
      BY <1>2, <1>3, <1>4, <2>1 DEF Dispute
  <1>5. ASSUME NEW op \in Op, Settle(c, op, a, r)
        PROVE  PurposeStep(c)
    <2>1. ASSUME NEW i \in Found(log, DisputedOf(a), Tagged("dispute", r))
          PROVE  Asked(log, op, a, r, Credited(log[i], DisputedOf(a)))
      BY <2>1 DEF Asked, BookLog, DisputesNameDeposits
    <2>. QED
      BY <1>2, <1>3, <1>5, <2>1 DEF Settle
  <1>. QED
    BY <1>4, <1>5

\* The rest of them plans the move they were asked for.
LEMMA SelectPurpose ==
    ASSUME TypeOK, NEW c \in Client, StatePurpose(log, call[c]), Select(c)
    PROVE  PurposeStep(c)
  <1>. DEFINE now == call[c]
              move == Moves[now.op]
              source == <<now.account, move.source>>
              dest == <<now.account, move.dest>>
              moved == To(dest, now.amount)
              tagged == Tagged(move.tag, now.reference)
  <1>0. log \in Seq(Transaction) /\ call \in [Client -> CallState]
    BY DEF TypeOK, CallState
  <1>1. now.at = "select" /\ now.op \in Op /\ now.account \in Id
    BY <1>0 DEF Select, CallState, Idle, Selecting, Storing
  <1>2. /\ now.reference \in UserRef /\ now.amount \in Nat
        /\ Asked(log, now.op, now.account, now.reference, now.amount)
    BY <1>1 DEF StatePurpose
  <1>3. UNCHANGED log
    BY DEF Select
  <1>4. PICK inputs \in GetUnspent(log, source, Some(now.amount)) :
           \/ Return(c, move.missing)
           \/ /\ Total(inputs) >= now.amount
              /\ \E h \in Fresh(Used) :
                    Offer(c, <<Tx(h, inputs, Split(moved, source, Total(inputs)), tagged)>>)
    BY DEF Select
  <1>5. /\ inputs \in Seq(Utxo)
        /\ \A k \in DOMAIN inputs : \E p \in Places(log) :
              OutputAt(log, p).account = source /\ UtxoAt(log, p) = inputs[k]
    BY <1>0, SelectedFrom
  <1>6. ASSUME Return(c, move.missing)
        PROVE  PurposeStep(c)
    BY <1>3, <1>6, PurposeReturn
  <1>7. ASSUME Total(inputs) >= now.amount, NEW h \in Fresh(Used),
               Offer(c, <<Tx(h, inputs, Split(moved, source, Total(inputs)), tagged)>>)
        PROVE  PurposeStep(c)
    <2>. DEFINE tx == Tx(h, inputs, Split(moved, source, Total(inputs)), tagged)
    <2>1. /\ tx.from = inputs /\ tx.to = Split(moved, source, Total(inputs))
          /\ tx.reference = tagged
      BY DEF Tx
    <2>. HIDE DEF tx
    <2>2. MovesFunds(log, tx, source, dest, now.amount)
      BY <1>5, <1>7, <2>1 DEF MovesFunds, TakesFrom
    <2>3. MoveTx(log, tx, now.op, now.account, now.reference, now.amount)
      BY <2>1, <2>2 DEF MoveTx
    <2>4. Purpose(log, tx)
      BY <1>1, <1>2, <2>3 DEF Purpose, IsMove
    <2>. QED
      BY <1>3, <1>7, <2>4, PurposeOfferOne DEF tx
  <1>. QED
    BY <1>4, <1>6, <1>7

-----------------------------------------------------------------------------
(* The invariant of the book.                                               *)

\* What a call is about to store has a purpose.
LEMMA NextPurpose ==
    ASSUME TypeOK, NEW c \in Client, call[c].at = "store", StatePurpose(log, call[c])
    PROVE  Purpose(log, Head(call[c].todo))
  <1>1. call[c].todo \in Seq(Transaction) /\ call[c].todo # <<>>
    BY DEF TypeOK, Idle, Selecting, Storing
  <1>2. Head(call[c].todo) = call[c].todo[1]
    BY <1>1
  <1>3. IsExchangeForMore(log, call[c].todo[1]) => Purpose(log, call[c].todo[1])
    BY DEF IsExchangeForMore, Purpose, IsPayment
  <1>. QED
    BY <1>2, <1>3 DEF StatePurpose

\* The withdrawal after an exchange takes exactly the amount, out of the output
\* that the exchange made for it.
LEMMA FollowingPurpose ==
    ASSUME Amount \subseteq Nat, NEW lg \in Seq(Transaction), NEW exchange \in Transaction,
           IsExchangeForMore(lg, exchange), NEW tx, Follows(tx, exchange)
    PROVE  Purpose(Append(lg, exchange), tx)
  <1>. DEFINE new == Append(lg, exchange)
              place == <<Len(lg) + 1, 1>>
  <1>1. PICK a \in Id, r \in UserRef, m \in Amount : ExchangeTx(lg, exchange, a, r, m)
    BY DEF IsExchangeForMore
  <1>2. MovesFunds(lg, exchange, MainOf(a), MainOf(a), m) /\ m \in Nat
    BY <1>1 DEF ExchangeTx
  <1>3. 1 \in DOMAIN exchange.to /\ exchange.to[1].account = MainOf(a)
    BY <1>2, MovedAccounts
  <1>4. exchange.to[1].amount = m
    <2>1. \/ exchange.to = <<To(MainOf(a), m)>>
          \/ exchange.to = <<To(MainOf(a), m), To(MainOf(a), Total(exchange.from) - m)>>
      BY <1>2, MovedOutputs
    <2>. QED
      BY <2>1 DEF To
  <1>5. /\ place \in Places(new) /\ OutputAt(new, place).account = MainOf(a)
        /\ UtxoAt(new, place) = [id |-> <<exchange.id, 1 - 1>>, amount |-> m]
    BY <1>3, <1>4, AppendAddsPlaces
  <1>6. Kept(exchange) = [id |-> <<exchange.id, 0>>, amount |-> m]
    BY <1>4 DEF Kept
  <1>. HIDE DEF new, place
  <1>7. /\ DOMAIN tx.from = {1} /\ tx.from[1] = Kept(exchange)
        /\ tx.from = <<Kept(exchange)>> /\ tx.to = <<>>
    BY DEF Follows
  <1>8. Total(tx.from) = m
    <2>1. [k \in DOMAIN tx.from |-> tx.from[k].amount] = <<m>>
      BY <1>6, <1>7
    <2>2. SumSeq(<<m>>) = m
      BY <1>2, SumOfOne
    <2>. QED
      BY <2>1, <2>2 DEF Total
  <1>9. UtxoAt(new, place) = tx.from[1]
    BY <1>5, <1>6, <1>7
  <1>10. WithdrawalTx(new, tx, a, m)
    BY <1>5, <1>7, <1>8, <1>9 DEF WithdrawalTx, TakesFrom
  <1>11. Purpose(new, tx)
    BY <1>10 DEF Purpose, IsPayment
  <1>. QED
    BY <1>11 DEF new

\* Storing a transaction, accepted or refused, leaves every call its purpose.
LEMMA StorePurpose ==
    ASSUME Amount \subseteq Nat, TypeOK, BookInv, NEW c \in Client, Store(c)
    PROVE  BookInv' \/ PurposeStep(c)
  <1>. DEFINE txs == call[c].todo
              tx == Head(txs)
              rest == Tail(txs)
  <1>0. log \in Seq(Transaction) /\ call \in [Client -> CallState]
    BY DEF TypeOK, CallState
  <1>1. call[c].at = "store" /\ txs \in Seq(Transaction) /\ txs # <<>>
    BY <1>0 DEF Store, CallState, Idle, Selecting, Storing
  <1>2. tx \in Transaction /\ Purpose(log, tx)
    BY <1>1, NextPurpose DEF BookInv
  <1>3. CASE Verdict(log, tx) # "Ok"
    <2>1. Return(c, Verdict(log, tx)) /\ UNCHANGED log
      BY <1>3 DEF Store
    <2>. QED
      BY <2>1, PurposeReturn
  <1>4. CASE Verdict(log, tx) = "Ok"
    <2>1. /\ log' = Append(log, tx)
          /\ IF rest = <<>> THEN Return(c, "Ok") ELSE call' = [call EXCEPT ![c].todo = rest]
      BY <1>4 DEF Store
    <2>2. BookLog(log')
      BY <1>0, <1>2, <1>4, <2>1, CommitKeepsBookLog DEF BookInv
    <2>3. \A state : StatePurpose(log, state) => StatePurpose(log', state)
      BY <1>0, <1>2, <2>1, PurposeStays
    <2>4. \E state : call' = [call EXCEPT ![c] = state] /\ StatePurpose(log', state)
      <3>1. CASE rest = <<>>
        <4>. DEFINE state == [at |-> "idle", outcome |-> "Ok"]
        <4>1. StatePurpose(log', state) /\ call' = [call EXCEPT ![c] = state]
          BY <2>1, <3>1 DEF StatePurpose, Return
        <4>. QED
          BY <4>1
      <3>2. CASE rest # <<>>
        <4>. DEFINE state == [call[c] EXCEPT !.todo = rest]
        <4>1. call' = [call EXCEPT ![c] = state]
          BY <2>1, <3>2
        <4>2. call[c] \in Storing
          BY <1>0, <1>1 DEF CallState, Idle, Selecting, Storing
        <4>3. state.at = "store" /\ state.todo = rest
          BY <1>1, <4>2 DEF Storing
        <4>4. Len(txs) # 1
          <5>1. rest \in Seq(Transaction) /\ Len(rest) = Len(txs) - 1
            BY <1>1
          <5>. HIDE DEF rest, txs
          <5>2. Len(rest) # 0
            BY <3>2, <5>1, EmptySeq
          <5>. QED
            BY <5>1, <5>2
        <4>5. /\ Len(txs) = 2 /\ IsExchangeForMore(log, txs[1]) /\ Follows(txs[2], txs[1])
          BY <1>1, <4>4 DEF BookInv, StatePurpose
        <4>6. Len(rest) = 1 /\ rest[1] = txs[2] /\ tx = txs[1]
          BY <1>1, <4>5
        <4>. HIDE DEF txs, tx, rest, state
        <4>7. Purpose(log', rest[1])
          BY <1>0, <1>2, <2>1, <4>5, <4>6, FollowingPurpose
        <4>8. StatePurpose(log', state)
          BY <4>3, <4>6, <4>7 DEF StatePurpose
        <4>. QED
          BY <4>1, <4>8
      <3>. QED
        BY <3>1, <3>2
    <2>5. \A d \in Client : StatePurpose(log', call'[d])
      <3>1. PICK state : call' = [call EXCEPT ![c] = state] /\ StatePurpose(log', state)
        BY <2>4
      <3>. QED
        BY <1>0, <2>3, <3>1 DEF BookInv
    <2>. QED
      BY <2>2, <2>5 DEF BookInv
  <1>. QED
    BY <1>3, <1>4

\* Every step keeps the invariant of the book.
LEMMA NextBook ==
    ASSUME Amount \subseteq Nat, TypeOK, BookInv, [Next]_vars
    PROVE  BookInv'
  <1>0. call \in [Client -> CallState]
    BY DEF TypeOK, CallState
  <1>1. ASSUME UNCHANGED vars
        PROVE  BookInv'
    BY <1>1 DEF vars, BookInv
  <1>2. ASSUME NEW c \in Client, PurposeStep(c)
        PROVE  BookInv'
    <2>1. PICK state : call' = [call EXCEPT ![c] = state] /\ StatePurpose(log, state)
      BY <1>2 DEF PurposeStep
    <2>2. UNCHANGED log
      BY <1>2 DEF PurposeStep
    <2>. QED
      BY <1>0, <2>1, <2>2 DEF BookInv
  <1>3. ASSUME NEW c \in Client, Start(c)
        PROVE  PurposeStep(c)
    <2>1. "resolve" \in Op /\ "chargeback" \in Op
      BY DEF Op, Moves
    <2>2. BookLog(log)
      BY DEF BookInv
    <2>. QED
      BY <1>3, <2>1, <2>2, PaymentPurpose, LookupPurpose DEF Start, Resolve, Chargeback
  <1>4. ASSUME NEW c \in Client, Continue(c)
        PROVE  BookInv' \/ PurposeStep(c)
    <2>1. StatePurpose(log, call[c])
      BY DEF BookInv
    <2>. QED
      BY <1>4, <2>1, SelectPurpose, StorePurpose DEF Continue
  <1>5. ASSUME NEW c \in Client, Drop(c)
        PROVE  PurposeStep(c)
    BY <1>5, PurposeReturn DEF Drop
  <1>. QED
    BY <1>1, <1>2, <1>3, <1>4, <1>5 DEF Next, Rest

\* An empty ledger, with no call running.
LEMMA InitBook == Init => BookInv
  <1>. SUFFICES ASSUME Init PROVE BookInv
    OBVIOUS
  <1>1. Places(log) = {} /\ \A account, r : Found(log, account, r) = {}
    BY DEF Init, Places, Found
  <1>2. BookLog(log)
    BY <1>1 DEF BookLog, NatOutputs, UniqueDeposits, DisputesNameDeposits, HasDeposit
  <1>. QED
    BY <1>2 DEF Init, BookInv, StatePurpose

\* The invariants of the ledger hold together.
LEMMA BookHolds ==
    ASSUME Amount \subseteq Nat
    PROVE  Spec => [](Inv /\ Conservation /\ BookInv)
  <1>1. Init => BookInv
    BY InitBook
  <1>2. Inv => TypeOK
    BY DEF Inv
  <1>3. Inv /\ BookInv /\ [Next]_vars => BookInv'
    BY <1>2, NextBook
  <1>. QED
    BY <1>1, <1>3, Invariant, ConservationHolds, PTL DEF Spec

-----------------------------------------------------------------------------
(* NotEnough.                                                               *)

\* The outputs of a selection fall short only if the balance does, and always
\* then, unless an output is negative.
LEMMA SelectedHonestly ==
    ASSUME NEW lg \in Seq(Transaction), NEW account, NEW m \in Int,
           NEW inputs \in GetUnspent(lg, account, Some(m))
    PROVE  /\ Total(inputs) \in Int
           /\ Total(inputs) < m => Balance(lg, account) < m
           /\ Balance(lg, account) < m =>
                 \/ Total(inputs) < m
                 \/ \E p \in UnspentPlaces(lg, account) : OutputAt(lg, p).amount < 0
  <1>. DEFINE all == UnspentPlaces(lg, account)
  <1>1. PICK taken \in Taken(lg, account, Some(m)) : Total(inputs) = SumAt(lg, taken)
    BY SelectedTotal
  <1>2. /\ taken \in SUBSET all
        /\ taken = all \/ Enough(lg, taken, Some(m))
    BY <1>1 DEF Taken, Scans
  <1>3. all \in SUBSET Places(lg)
    BY DEF UnspentPlaces
  <1>4. \A p \in all : OutputAt(lg, p).amount \in Int
    BY <1>3, PlaceType DEF Output
  <1>. HIDE DEF all
  <1>5. SumAt(lg, all) \in Int /\ SumAt(lg, taken) \in Int
    BY <1>2, <1>3, SumAtType
  <1>6. taken # all => SumAt(lg, taken) >= m
    BY <1>2 DEF Enough, Some
  <1>7. ASSUME \A p \in all : ~(OutputAt(lg, p).amount < 0)
        PROVE  SumAt(lg, taken) <= SumAt(lg, all)
    <2>1. \A p \in all : OutputAt(lg, p).amount \in Nat
      BY <1>4, <1>7
    <2>. QED
      BY <1>2, <1>3, <2>1, SumAtMonotone
  <1>. QED
    BY <1>1, <1>5, <1>6, <1>7 DEF Balance, all

\* A call that goes on after its selection does not answer that the funds are
\* not there.
LEMMA OfferedIsNotRefused ==
    ASSUME call \in [Client -> CallState], NEW c \in Client, NEW txs, Offer(c, txs),
           NEW outcome \in {"NotEnough", "Internal", "Panic"}
    PROVE  ~Answers(c, outcome)
  <1>1. \/ call' = [call EXCEPT ![c] = [at |-> "store", todo |-> txs]]
        \/ \E k : Return(c, NewVerdict(txs[k].from, txs[k].to))
    BY DEF Offer
  <1>. QED
    BY <1>1, NewVerdictType DEF Return, Answers

\* A call is refused for want of funds exactly when its selection falls short.
LEMMA RefusedIsHonest ==
    ASSUME log \in Seq(Transaction), call \in [Client -> CallState], NEW c \in Client,
           NEW account, NEW m \in Int, NEW outcome \in {"NotEnough", "Internal", "Panic"},
           NEW inputs \in GetUnspent(log, account, Some(m)),
           \/ Total(inputs) < m /\ Return(c, outcome)
           \/ Total(inputs) >= m /\ \E txs : Offer(c, txs)
    PROVE  Honest(Answers(c, outcome), account, m)
  <1>1. Total(inputs) \in Int
    BY SelectedHonestly
  <1>2. Answers(c, outcome) <=> Total(inputs) < m
    <2>1. Return(c, outcome) => Answers(c, outcome)
      BY DEF Return, Answers
    <2>2. (\E txs : Offer(c, txs)) => ~Answers(c, outcome)
      BY OfferedIsNotRefused
    <2>. QED
      BY <1>1, <2>1, <2>2
  <1>. QED
    BY <1>2, SelectedHonestly DEF Honest

\* No withdrawal, dispute or settlement is refused for want of funds that are
\* there, and none goes on without them unless an output is negative: the scan
\* of get_unspent stops early only when it has enough.
THEOREM NotEnoughIsHonestHolds == Spec => NotEnoughIsHonest
  <1>. DEFINE Step ==
                \A c \in Client :
                   /\ \A a \in Id, r \in UserRef, m \in Amount :
                         Withdraw(c, a, r, m) => Honest(Answers(c, "NotEnough"), MainOf(a), m)
                   /\ Select(c) =>
                         LET now == call[c]
                             move == Moves[now.op]
                         IN  Honest(Answers(c, move.missing), <<now.account, move.source>>, now.amount)
  <1>0. Inv => log \in Seq(Transaction) /\ call \in [Client -> CallState]
    BY DEF Inv, TypeOK, CallState
  <1>1. ASSUME Inv, NEW c \in Client, NEW a \in Id, NEW r \in UserRef,
               NEW m \in Amount, Withdraw(c, a, r, m)
        PROVE  Honest(Answers(c, "NotEnough"), MainOf(a), m)
    <2>1. m \in Int
      BY AmountIsInt
    <2>2. PICK inputs \in GetUnspent(log, MainOf(a), Some(m)) :
             \/ Total(inputs) < m /\ Return(c, "NotEnough")
             \/ (Total(inputs) = m \/ Total(inputs) > m) /\ \E txs : Offer(c, txs)
      BY <1>1 DEF Withdraw
    <2>3. Total(inputs) \in Int
      BY <1>0, <1>1, <2>1, SelectedHonestly
    <2>. QED
      BY <1>0, <1>1, <2>1, <2>2, <2>3, RefusedIsHonest
  <1>2. ASSUME Inv, NEW c \in Client, Select(c)
        PROVE  Honest(Answers(c, Moves[call[c].op].missing),
                      <<call[c].account, Moves[call[c].op].source>>, call[c].amount)
    <2>. DEFINE now == call[c]
                missing == Moves[now.op].missing
                source == <<now.account, Moves[now.op].source>>
                m == now.amount
    <2>1. now.op \in Op /\ m \in Int
      BY <1>0, <1>2 DEF Select, CallState, Idle, Selecting, Storing
    <2>2. missing \in {"NotEnough", "Internal", "Panic"}
      BY <2>1 DEF Op, Moves
    <2>3. PICK inputs \in GetUnspent(log, source, Some(m)) :
             \/ Total(inputs) < m /\ Return(c, missing)
             \/ Total(inputs) >= m /\ \E txs : Offer(c, txs)
      BY <1>2 DEF Select
    <2>. HIDE DEF missing, source, m
    <2>4. Honest(Answers(c, missing), source, m)
      BY <1>0, <1>2, <2>1, <2>2, <2>3, RefusedIsHonest
    <2>. QED
      BY <2>4 DEF missing, source, m
  <1>3. Inv => Step
    BY <1>1, <1>2
  <1>4. Inv => [Step]_vars
    BY <1>3
  <1>5. Spec => [][Step]_vars
    BY <1>4, Invariant, PTL
  <1>. QED
    BY <1>5 DEF NotEnoughIsHonest

-----------------------------------------------------------------------------
(* get_balances beside the other operations.                                *)

\* A reader changes nothing: the ledger does what it does without one.
LEMMA ReaderOnlyReads == ReadSpec => Spec
  <1>1. ReadInit => Init
    BY DEF ReadInit
  <1>2. [ReadNext]_allVars => [Next]_vars
    BY DEF ReadNext, allVars, vars
  <1>. QED
    BY <1>1, <1>2, PTL DEF ReadSpec, Spec

\* A balance is an integer.
LEMMA BalanceType ==
    ASSUME NEW lg \in Seq(Transaction), NEW account
    PROVE  Balance(lg, account) \in Int
  BY SumAtType DEF Balance, UnspentPlaces

\* As long as nothing is committed, what the reader has read is current.
ReaderInv ==
    reader.at \in {"disputed", "chargeback"} =>
        /\ reader.since <= Len(log)
        /\ reader.since = Len(log) =>
              /\ reader.main = Balance(log, MainOf(reader.account))
              /\ reader.at = "chargeback" =>
                    reader.disputed = Balance(log, DisputedOf(reader.account))

\* The first read of an account.
LEMMA ReadMainInv ==
    ASSUME log \in Seq(Transaction), UNCHANGED vars, NEW a \in Id, ReadMain(a)
    PROVE  ReaderTypeOK' /\ ReaderInv'
  <1>1. Balance(log, MainOf(a)) \in Int /\ Len(log) \in Nat
    BY BalanceType
  <1>2. reader' = [at |-> "disputed", account |-> a, main |-> Balance(log, MainOf(a)),
                   since |-> Len(log)]
    BY DEF ReadMain
  <1>3. log' = log
    BY DEF vars
  <1>. QED
    BY <1>1, <1>2, <1>3 DEF ReaderTypeOK, ReaderState, ReaderInv

\* The second.
LEMMA ReadDisputedInv ==
    ASSUME log \in Seq(Transaction), ReaderTypeOK, ReaderInv, UNCHANGED vars, ReadDisputed
    PROVE  ReaderTypeOK' /\ ReaderInv'
  <1>1. Balance(log, DisputedOf(reader.account)) \in Int
    BY BalanceType
  <1>2. /\ reader.at = "disputed"
        /\ reader' = [at |-> "chargeback", account |-> reader.account, main |-> reader.main,
                      disputed |-> Balance(log, DisputedOf(reader.account)),
                      since |-> reader.since]
    BY DEF ReadDisputed
  <1>3. reader.account \in Id /\ reader.main \in Int /\ reader.since \in Nat
    BY <1>2 DEF ReaderTypeOK, ReaderState
  <1>4. log' = log
    BY DEF vars
  <1>. QED
    BY <1>1, <1>2, <1>3, <1>4 DEF ReaderTypeOK, ReaderState, ReaderInv

\* The last one, and the report.
LEMMA ReadChargebackInv ==
    ASSUME log \in Seq(Transaction), ReaderTypeOK, UNCHANGED vars, ReadChargeback
    PROVE  ReaderTypeOK' /\ ReaderInv'
  <1>1. Balance(log, ChargebackOf(reader.account)) \in Int
    BY BalanceType
  <1>. DEFINE report == [account |-> reader.account,
                         available |-> reader.main, disputed |-> reader.disputed,
                         chargeback |-> Balance(log, ChargebackOf(reader.account)),
                         total |-> reader.main + reader.disputed]
  <1>2. /\ reader.at = "chargeback"
        /\ reader' = [at |-> "idle", report |-> Some(report), since |-> reader.since]
    BY DEF ReadChargeback
  <1>3. /\ reader.account \in Id /\ reader.main \in Int /\ reader.disputed \in Int
        /\ reader.since \in Nat
    BY <1>2 DEF ReaderTypeOK, ReaderState
  <1>4. report \in Report
    BY <1>1, <1>3 DEF Report
  <1>. HIDE DEF report
  <1>5. reader' \in [at : {"idle"}, report : SUBSET Report, since : Nat]
    BY <1>2, <1>3, <1>4 DEF Some
  <1>. QED
    BY <1>2, <1>5 DEF ReaderTypeOK, ReaderState, ReaderInv

\* Whatever the clients do, what the reader has read is only ever outdated by a
\* commit, which it can tell by the length of the log.
LEMMA ReadInv ==
    ASSUME Inv, Inv', ReaderTypeOK, ReaderInv, [ReadNext]_allVars
    PROVE  ReaderTypeOK' /\ ReaderInv'
  <1>0. log \in Seq(Transaction)
    BY DEF Inv, TypeOK
  <1>1. CASE UNCHANGED allVars
    BY <1>1 DEF allVars, ReaderTypeOK, ReaderInv
  <1>2. CASE Next /\ UNCHANGED reader
    <2>1. log' = log \/ Len(log') = Len(log) + 1
      <3>1. CASE log' # log
        <4>1. PICK c \in Client : /\ call[c].at = "store"
                                  /\ log' = Append(log, Head(call[c].todo))
          BY <1>2, <3>1, LogChanges
        <4>. QED
          BY <1>0, <4>1
      <3>. QED
        BY <3>1
    <2>2. Len(log) \in Nat
      BY <1>0
    <2>3. ReaderTypeOK'
      BY <1>2 DEF ReaderTypeOK
    <2>4. reader.at \in {"disputed", "chargeback"} => reader.since \in Nat
      BY DEF ReaderTypeOK, ReaderState
    <2>5. CASE log' = log
      BY <1>2, <2>3, <2>5 DEF ReaderInv
    <2>6. CASE Len(log') = Len(log) + 1
      BY <1>2, <2>2, <2>3, <2>4, <2>6 DEF ReaderInv
    <2>. QED
      BY <2>1, <2>5, <2>6
  <1>. QED
    BY <1>0, <1>1, <1>2, ReadMainInv, ReadDisputedInv, ReadChargebackInv DEF ReadNext

\* An idle reader has read nothing yet.
LEMMA ReadInitInv == ReadInit => ReaderTypeOK /\ ReaderInv
  BY DEF ReadInit, ReaderTypeOK, ReaderState, ReaderInv, None

\* The invariant of the reader holds throughout.
LEMMA ReaderHolds == ReadSpec => [](Inv /\ Conservation /\ ReaderTypeOK /\ ReaderInv)
  <1>1. ReadSpec => [](Inv /\ Conservation)
    BY ReaderOnlyReads, Invariant, ConservationHolds, PTL
  <1>2. Inv /\ Inv' /\ ReaderTypeOK /\ ReaderInv /\ [ReadNext]_allVars
           => ReaderTypeOK' /\ ReaderInv'
    BY ReadInv
  <1>. QED
    BY <1>1, <1>2, ReadInitInv, PTL DEF ReadSpec

\* The reports of get_balances are well formed, and it reads with the account and
\* the amounts it has.
THEOREM ReaderTypeCorrect == ReadSpec => []ReaderTypeOK
  BY ReaderHolds, PTL

\* When nothing is committed between its first and its last read, get_balances
\* reports the balances of that moment, and they add up to what was deposited
\* less what was withdrawn.
THEOREM UndisturbedReadIsExactHolds == ReadSpec => UndisturbedReadIsExact
  <1>. DEFINE Exact == \A b \in Reported : reader.since = Len(log) =>
                 /\ b.available = Balance(log, MainOf(b.account))
                 /\ b.disputed = Balance(log, DisputedOf(b.account))
                 /\ b.total + b.chargeback = Deposited(b.account) - Withdrawn(b.account)
  <1>1. ASSUME Conservation, ReaderTypeOK, ReaderInv, Inv, [ReadNext]_allVars,
               NEW b \in Reported, reader.since = Len(log)
        PROVE  /\ b.available = Balance(log, MainOf(b.account))
               /\ b.disputed = Balance(log, DisputedOf(b.account))
               /\ b.total + b.chargeback = Deposited(b.account) - Withdrawn(b.account)
    <2>0. log \in Seq(Transaction)
      BY <1>1 DEF Inv, TypeOK
    <2>1. reader.at = "chargeback" /\ reader'.at = "idle" /\ b \in reader'.report
      BY <1>1 DEF Reported, None
    <2>2. ReadChargeback
      BY <1>1, <2>1 DEF ReadNext, allVars, ReadMain, ReadDisputed
    <2>3. b = [account |-> reader.account,
               available |-> reader.main, disputed |-> reader.disputed,
               chargeback |-> Balance(log, ChargebackOf(reader.account)),
               total |-> reader.main + reader.disputed]
      BY <2>1, <2>2 DEF ReadChargeback, Some
    <2>4. reader.account \in Id
      BY <1>1, <2>1 DEF ReaderTypeOK, ReaderState
    <2>5. /\ reader.main = Balance(log, MainOf(reader.account))
          /\ reader.disputed = Balance(log, DisputedOf(reader.account))
      BY <1>1, <2>1 DEF ReaderInv
    <2>6. Holds(log, reader.account) = Deposited(reader.account) - Withdrawn(reader.account)
      BY <1>1, <2>4 DEF Conservation
    <2>. QED
      BY <2>3, <2>5, <2>6 DEF Holds
  <1>2. Conservation /\ ReaderTypeOK /\ ReaderInv /\ Inv /\ [ReadNext]_allVars => Exact
    BY <1>1
  <1>3. Conservation /\ ReaderTypeOK /\ ReaderInv /\ Inv /\ [ReadNext]_allVars => [Exact]_allVars
    BY <1>2
  <1>. QED
    BY <1>3, ReaderHolds, PTL DEF ReadSpec, UndisturbedReadIsExact

-----------------------------------------------------------------------------
(* One balance after a commit.                                              *)

\* The outputs of a transaction that credit a sub-account, in the new log.
NewAt(lg, tx, account) ==
    {p \in NewPlaces(lg, tx) : OutputAt(Append(lg, tx), p).account = account}

\* A sub-account loses what the transaction takes from it and gains what is
\* credited to it.
LEMMA BalanceAfter ==
    ASSUME NEW lg, NEW tx, NEW b, Commits(lg, tx, b), NEW source, TakesFrom(lg, tx, source),
           NEW account
    PROVE  LET new == Append(lg, tx) IN
           /\ Balance(lg, account) \in Int /\ SumAt(new, NewAt(lg, tx, account)) \in Int
           /\ Total(tx.from) \in Int
           /\ Balance(new, account)
                = Balance(lg, account) - (IF account = source THEN Total(tx.from) ELSE 0)
                     + SumAt(new, NewAt(lg, tx, account))
  <1>. DEFINE new == Append(lg, tx)
              U == UnspentPlaces(lg, account)
              S == SourcesOf(lg, tx)
              N == NewAt(lg, tx, account)
  <1>0. lg \in Seq(Transaction) /\ tx \in Transaction /\ new \in Seq(Transaction) /\ UniqueIds(lg)
    BY AppendTx DEF Commits
  <1>1. /\ Places(new) = Places(lg) \cup NewPlaces(lg, tx)
        /\ Places(lg) \cap NewPlaces(lg, tx) = {}
        /\ Spent(new) = Spent(lg) \cup {tx.from[k].id : k \in DOMAIN tx.from}
    BY <1>0, PlacesAfter
  <1>2. \A p \in Places(lg) : OutputAt(new, p) = OutputAt(lg, p) /\ UtxoAt(new, p) = UtxoAt(lg, p)
    BY OldPlaces
  <1>3. \A p \in NewPlaces(lg, tx) : UtxoAt(new, p).id \notin Spent(new)
    <2>. SUFFICES ASSUME NEW p \in NewPlaces(lg, tx)
                  PROVE  UtxoAt(new, p).id \notin Spent(new)
      OBVIOUS
    <2>1. /\ \A i \in DOMAIN lg : \A k \in DOMAIN lg[i].from : lg[i].from[k].id # UtxoAt(new, p).id
          /\ \A k \in DOMAIN tx.from : tx.from[k].id # UtxoAt(new, p).id
      BY NewIsUnspent
    <2>. HIDE DEF new
    <2>2. UtxoAt(new, p).id \notin Spent(lg)
      BY <2>1 DEF Spent
    <2>. QED
      BY <1>1, <2>1, <2>2
  <1>4. \A p \in S : p \in Places(lg) /\ OutputAt(lg, p).account = source
                     /\ UtxoAt(lg, p).id \notin Spent(lg)
    <2>. SUFFICES ASSUME NEW p \in S
                  PROVE  /\ p \in Places(lg) /\ OutputAt(lg, p).account = source
                         /\ UtxoAt(lg, p).id \notin Spent(lg)
      OBVIOUS
    <2>1. PICK k \in DOMAIN tx.from : tx.from[k].id = UtxoAt(lg, p).id
      BY DEF SourcesOf
    <2>2. PICK q \in Places(lg) : OutputAt(lg, q).account = source /\ UtxoAt(lg, q) = tx.from[k]
      BY DEF TakesFrom
    <2>3. p \in Places(lg)
      BY DEF SourcesOf
    <2>4. p = q
      BY <1>0, <2>1, <2>2, <2>3, UtxoNamesPlace
    <2>. QED
      BY <2>1, <2>2, <2>3, <2>4 DEF Commits
  <1>5. \A p \in N : OutputAt(new, p).account = account /\ p \in NewPlaces(lg, tx)
    BY DEF NewAt
  <1>6. \A p \in NewPlaces(lg, tx) : OutputAt(new, p).account = account => p \in N
    BY DEF NewAt
  <1>. HIDE DEF new, N
  <1>7. \A p \in Places(lg) : p \in UnspentPlaces(new, account) <=> p \in U /\ p \notin S
    BY <1>1, <1>2 DEF UnspentPlaces, SourcesOf
  <1>8. \A p \in NewPlaces(lg, tx) : p \in UnspentPlaces(new, account) <=> p \in N
    BY <1>1, <1>3, <1>5, <1>6 DEF UnspentPlaces
  <1>9. UnspentPlaces(new, account) = (U \ S) \cup N
    BY <1>1, <1>5, <1>7, <1>8 DEF UnspentPlaces
  <1>10. /\ U \in SUBSET Places(lg) /\ S \in SUBSET Places(lg)
         /\ U \ S \in SUBSET Places(lg) /\ U \ S \in SUBSET Places(new)
         /\ N \in SUBSET Places(new) /\ (U \ S) \cap N = {}
    BY <1>1, <1>5 DEF UnspentPlaces, SourcesOf
  <1>11. IF account = source THEN U = (U \ S) \cup S /\ (U \ S) \cap S = {} ELSE U \ S = U
    BY <1>4 DEF UnspentPlaces
  <1>12. Total(tx.from) = SumAt(lg, S)
    BY SpentSources
  <1>. HIDE DEF U, S
  <1>13. /\ SumAt(lg, U) \in Int /\ SumAt(lg, S) \in Int
         /\ SumAt(lg, U \ S) \in Int /\ SumAt(new, N) \in Int
    BY <1>0, <1>10, SumAtType
  <1>14. account = source => SumAt(lg, U) = SumAt(lg, U \ S) + SumAt(lg, S)
    BY <1>0, <1>10, <1>11, SumAtUnion
  <1>15. SumAt(new, (U \ S) \cup N) = SumAt(lg, U \ S) + SumAt(new, N)
    <2>1. SumAt(new, (U \ S) \cup N) = SumAt(new, U \ S) + SumAt(new, N)
      BY <1>0, <1>10, SumAtUnion
    <2>2. SumAt(new, U \ S) = SumAt(lg, U \ S)
      BY <1>0, <1>10, AppendKeepsSums DEF new
    <2>. QED
      BY <2>1, <2>2
  <1>16. account # source => SumAt(lg, U \ S) = SumAt(lg, U)
    BY <1>11
  <1>17. /\ Balance(lg, account) = SumAt(lg, U)
         /\ Balance(new, account) = SumAt(new, (U \ S) \cup N)
    BY <1>9 DEF Balance, U
  <1>. QED
    BY <1>12, <1>13, <1>14, <1>15, <1>16, <1>17 DEF new, N

\* What is credited, for the numbers of outputs that a transaction has.
LEMMA Gain ==
    ASSUME NEW lg, NEW tx, NEW b, Commits(lg, tx, b), NEW account
    PROVE  LET sum == SumAt(Append(lg, tx), NewAt(lg, tx, account))
               part(k) == IF tx.to[k].account = account THEN tx.to[k].amount ELSE 0
           IN  /\ tx.to = <<>> => sum = 0
               /\ Len(tx.to) = 1 => sum = part(1)
               /\ Len(tx.to) = 2 => sum = part(1) + part(2)
  <1>. DEFINE new == Append(lg, tx)
              at(k) == <<Len(lg) + 1, k>>
              only(k) == IF tx.to[k].account = account THEN {at(k)} ELSE {}
              part(k) == IF tx.to[k].account = account THEN tx.to[k].amount ELSE 0
  <1>1. /\ lg \in Seq(Transaction) /\ tx \in Transaction /\ new \in Seq(Transaction)
        /\ tx.to \in Seq(Output)
    BY AppendTx DEF Commits, Transaction
  <1>2. \A k \in DOMAIN tx.to : at(k) \in Places(new) /\ OutputAt(new, at(k)) = tx.to[k]
    BY <1>1, AppendAddsPlaces
  <1>3. NewAt(lg, tx, account) = UNION {only(k) : k \in DOMAIN tx.to}
    BY <1>2 DEF NewAt, NewPlaces
  <1>4. ASSUME NEW k \in DOMAIN tx.to
        PROVE  /\ only(k) \in SUBSET Places(new)
               /\ SumAt(new, only(k)) = part(k)
               /\ part(k) \in Int
    <2>. HIDE DEF new
    <2>1. SumAt(new, {}) = 0
      BY <1>1, SumAtType
    <2>2. {at(k)} \in SUBSET Places(new) /\ {at(k)} \ {at(k)} = {}
      BY <1>2
    <2>3. tx.to[k].amount \in Int
      <3>1. tx.to[k] \in Output
        BY <1>1
      <3>. QED
        BY <3>1 DEF Output
    <2>4. SumAt(new, {at(k)}) = OutputAt(new, at(k)).amount + SumAt(new, {at(k)} \ {at(k)})
      BY <1>1, <2>2, SumAtRemove
    <2>5. SumAt(new, {at(k)}) = tx.to[k].amount
      <3>1. OutputAt(new, at(k)).amount = tx.to[k].amount
        BY <1>2
      <3>2. SumAt(new, {at(k)} \ {at(k)}) = 0
        BY <2>1, <2>2, Zenon
      <3>. HIDE DEF at
      <3>. QED
        BY <2>3, <2>4, <3>1, <3>2
    <2>. QED
      BY <2>1, <2>2, <2>3, <2>5
  <1>5. \A k, l : k # l => only(k) \cap only(l) = {}
    OBVIOUS
  <1>. HIDE DEF new, only, part
  <1>6. tx.to = <<>> => SumAt(new, NewAt(lg, tx, account)) = 0
    <2>1. tx.to = <<>> => NewAt(lg, tx, account) = {}
      BY <1>3
    <2>. QED
      BY <1>1, <2>1, SumAtType
  <1>7. Len(tx.to) = 1 => SumAt(new, NewAt(lg, tx, account)) = part(1)
    <2>. SUFFICES ASSUME Len(tx.to) = 1
                  PROVE  SumAt(new, NewAt(lg, tx, account)) = part(1)
      OBVIOUS
    <2>1. DOMAIN tx.to = {1}
      BY <1>1
    <2>2. NewAt(lg, tx, account) = only(1)
      BY <1>3, <2>1
    <2>. QED
      BY <1>4, <2>1, <2>2
  <1>8. Len(tx.to) = 2 => SumAt(new, NewAt(lg, tx, account)) = part(1) + part(2)
    <2>. SUFFICES ASSUME Len(tx.to) = 2
                  PROVE  SumAt(new, NewAt(lg, tx, account)) = part(1) + part(2)
      OBVIOUS
    <2>1. DOMAIN tx.to = {1, 2}
      BY <1>1
    <2>2. NewAt(lg, tx, account) = only(1) \cup only(2)
      BY <1>3, <2>1
    <2>3. only(1) \in SUBSET Places(new) /\ only(2) \in SUBSET Places(new) /\ only(1) \cap only(2) = {}
      BY <1>4, <1>5, <2>1
    <2>4. SumAt(new, only(1) \cup only(2)) = SumAt(new, only(1)) + SumAt(new, only(2))
      BY <1>1, <2>3, SumAtUnion
    <2>. QED
      BY <1>4, <2>1, <2>2, <2>4
  <1>. QED
    BY <1>6, <1>7, <1>8 DEF new, part

\* What a transaction takes from a sub-account was there.
LEMMA FundsSuffice ==
    ASSUME NEW lg, NEW tx, NEW b, Commits(lg, tx, b), NEW source, TakesFrom(lg, tx, source),
           NatOutputs(lg)
    PROVE  Total(tx.from) <= Balance(lg, source)
  <1>1. lg \in Seq(Transaction) /\ UniqueIds(lg)
    BY DEF Commits
  <1>2. Total(tx.from) = SumAt(lg, SourcesOf(lg, tx))
    BY SpentSources
  <1>3. ASSUME NEW p \in SourcesOf(lg, tx)
        PROVE  p \in UnspentPlaces(lg, source)
    <2>1. PICK k \in DOMAIN tx.from : tx.from[k].id = UtxoAt(lg, p).id
      BY DEF SourcesOf
    <2>2. PICK q \in Places(lg) : OutputAt(lg, q).account = source /\ UtxoAt(lg, q) = tx.from[k]
      BY DEF TakesFrom
    <2>3. p \in Places(lg)
      BY DEF SourcesOf
    <2>4. p = q
      BY <1>1, <2>1, <2>2, <2>3, UtxoNamesPlace
    <2>. QED
      BY <2>1, <2>2, <2>3, <2>4 DEF Commits, UnspentPlaces
  <1>4. /\ UnspentPlaces(lg, source) \in SUBSET Places(lg)
        /\ SourcesOf(lg, tx) \in SUBSET UnspentPlaces(lg, source)
        /\ \A p \in UnspentPlaces(lg, source) : OutputAt(lg, p).amount \in Nat
    BY <1>3 DEF UnspentPlaces, NatOutputs
  <1>5. SumAt(lg, SourcesOf(lg, tx)) <= SumAt(lg, UnspentPlaces(lg, source))
    BY <1>1, <1>4, SumAtMonotone
  <1>. QED
    BY <1>2, <1>5 DEF Balance

\* A commit is one of the account that its inputs and its outputs name.
LEMMA CommitsOf ==
    ASSUME NEW lg, NEW tx, NEW b, Commits(lg, tx, b), NEW a, NEW source, TakesFrom(lg, tx, source),
           Owner(source) = a, \A k \in DOMAIN tx.to : Owner(tx.to[k].account) = a
    PROVE  Commits(lg, tx, a)
  <1>1. \A k \in DOMAIN tx.from : \E p \in Owned(lg, a) : UtxoAt(lg, p) = tx.from[k]
    BY DEF TakesFrom, Owned
  <1>. QED
    BY <1>1 DEF Commits

-----------------------------------------------------------------------------
(* The balances, for each thing that a transaction is for.                  *)

\* A deposit adds its amount to the main balance of its account.
LEMMA DepositBalance ==
    ASSUME NEW lg, NEW tx, NEW b, Commits(lg, tx, b), NEW a, NEW r, NEW m \in Int,
           DepositTx(tx, a, r, m), NEW account
    PROVE  Balance(Append(lg, tx), account)
              = Balance(lg, account) + (IF account = MainOf(a) THEN m ELSE 0)
  <1>1. TakesFrom(lg, tx, MainOf(a)) /\ Total(tx.from) = 0
    BY TotalOfNone DEF DepositTx, TakesFrom
  <1>2. Len(tx.to) = 1 /\ tx.to[1].account = MainOf(a) /\ tx.to[1].amount = m
    BY DEF DepositTx, To
  <1>. QED
    BY <1>1, <1>2, BalanceAfter, Gain

\* A withdrawal takes its amount from the main balance.
LEMMA WithdrawalBalance ==
    ASSUME NEW lg, NEW tx, NEW b, Commits(lg, tx, b), NEW a, NEW m,
           WithdrawalTx(lg, tx, a, m), NEW account
    PROVE  /\ m \in Int
           /\ Balance(Append(lg, tx), account)
                = Balance(lg, account) - (IF account = MainOf(a) THEN m ELSE 0)
  <1>1. TakesFrom(lg, tx, MainOf(a)) /\ Total(tx.from) = m /\ tx.to = <<>>
    BY DEF WithdrawalTx
  <1>. QED
    BY <1>1, BalanceAfter, Gain

\* A move takes its amount from its source and adds it to its destination, and
\* the change comes back.
LEMMA MoveBalance ==
    ASSUME NEW lg, NEW tx, NEW b, Commits(lg, tx, b), NEW source, NEW dest, NEW m \in Nat,
           MovesFunds(lg, tx, source, dest, m), NEW account
    PROVE  Balance(Append(lg, tx), account)
              = Balance(lg, account) - (IF account = source THEN m ELSE 0)
                                     + (IF account = dest THEN m ELSE 0)
  <1>. DEFINE new == Append(lg, tx)
              total == Total(tx.from)
              gain == SumAt(new, NewAt(lg, tx, account))
              was == Balance(lg, account)
              now == Balance(new, account)
  <1>1. TakesFrom(lg, tx, source) /\ tx \in Transaction
    BY DEF MovesFunds, Commits
  <1>2. /\ was \in Int /\ gain \in Int /\ total \in Int
        /\ now = was - (IF account = source THEN total ELSE 0) + gain
    BY <1>1, BalanceAfter
  <1>3. /\ tx.to = <<>> => gain = 0
        /\ Len(tx.to) = 1 => gain = IF tx.to[1].account = account THEN tx.to[1].amount ELSE 0
        /\ Len(tx.to) = 2 =>
              gain = (IF tx.to[1].account = account THEN tx.to[1].amount ELSE 0)
                       + (IF tx.to[2].account = account THEN tx.to[2].amount ELSE 0)
    BY Gain
  <1>4. \/ tx.to = <<To(dest, m)>> /\ total = m
        \/ tx.to = <<To(dest, m), To(source, total - m)>>
    BY <1>1, MovedOutputs
  <1>. HIDE DEF new, total, gain, was, now
  <1>5. CASE tx.to = <<To(dest, m)>> /\ total = m
    <2>1. Len(tx.to) = 1 /\ tx.to[1].account = dest /\ tx.to[1].amount = m
      BY <1>5 DEF To
    <2>. QED
      BY <1>2, <1>3, <1>5, <2>1 DEF new, was, now
  <1>6. CASE tx.to = <<To(dest, m), To(source, total - m)>>
    <2>1. /\ Len(tx.to) = 2 /\ tx.to[1].account = dest /\ tx.to[1].amount = m
          /\ tx.to[2].account = source /\ tx.to[2].amount = total - m
      BY <1>6 DEF To
    <2>2. gain = (IF dest = account THEN m ELSE 0) + (IF source = account THEN total - m ELSE 0)
      BY <1>3, <2>1
    <2>3. now = was - (IF account = source THEN m ELSE 0) + (IF account = dest THEN m ELSE 0)
      BY <1>2, <2>2
    <2>. QED
      BY <2>3 DEF new, was, now
  <1>. QED
    BY <1>4, <1>5, <1>6

-----------------------------------------------------------------------------
(* Deposits and the moves that name them.                                   *)

Marked(lg, op, a, r) == Found(lg, <<a, Moves[op].dest>>, Tagged(Moves[op].tag, r)) # {}

\* What is disputed or settled was deposited.
MarksNameDeposits(lg) ==
    \A op \in Op, a \in Id, r \in UserRef :
        Marked(lg, op, a, r) => \E m : HasDeposit(lg, a, r, m)

EntriesOf(lg) ==
    {d \in [account : Id, reference : UserRef, amount : Nat] :
        HasDeposit(lg, d.account, d.reference, d.amount)}

MarkedOf(lg, op) == {d \in EntriesOf(lg) : Marked(lg, op, d.account, d.reference)}

\* A move credits the account that it names, where it goes.
LEMMA MoveCredits ==
    ASSUME NEW lg, NEW tx \in Transaction, NEW op \in Op, NEW a, NEW r, NEW m \in Nat,
           MoveTx(lg, tx, op, a, r, m)
    PROVE  /\ 1 \in DOMAIN tx.to /\ tx.to[1].account = <<a, Moves[op].dest>>
           /\ \A k \in DOMAIN tx.to : Owner(tx.to[k].account) = a
           /\ tx.to # <<>>
  <1>1. MovesFunds(lg, tx, <<a, Moves[op].source>>, <<a, Moves[op].dest>>, m)
    BY DEF MoveTx
  <1>2. /\ \A k \in DOMAIN tx.to :
              tx.to[k].account \in {<<a, Moves[op].source>>, <<a, Moves[op].dest>>}
        /\ 1 \in DOMAIN tx.to /\ tx.to[1].account = <<a, Moves[op].dest>>
    BY <1>1, MovedAccounts
  <1>. QED
    BY <1>2 DEF Owner

\* Marks after a commit.
LEMMA MarksAfter ==
    ASSUME NEW lg \in Seq(Transaction), NEW tx \in Transaction
    PROVE  \A op, a, r : Marked(Append(lg, tx), op, a, r) <=>
              \/ Marked(lg, op, a, r)
              \/ /\ tx.reference = Tagged(Moves[op].tag, r)
                 /\ \E k \in DOMAIN tx.to : tx.to[k].account = <<a, Moves[op].dest>>
  <1>. DEFINE new == Append(lg, tx)
  <1>1. \A account, r, i : i \in Found(new, account, r) <=>
           \/ i \in Found(lg, account, r)
           \/ /\ i = Len(lg) + 1 /\ tx.reference = r
              /\ \E k \in DOMAIN tx.to : tx.to[k].account = account
    BY BookAfter
  <1>. HIDE DEF new
  <1>2. \A account, r : Found(new, account, r) # {} <=>
           \/ Found(lg, account, r) # {}
           \/ /\ tx.reference = r
              /\ \E k \in DOMAIN tx.to : tx.to[k].account = account
    BY <1>1
  <1>3. \A op, a, r : Marked(new, op, a, r) <=>
              \/ Marked(lg, op, a, r)
              \/ /\ tx.reference = Tagged(Moves[op].tag, r)
                 /\ \E k \in DOMAIN tx.to : tx.to[k].account = <<a, Moves[op].dest>>
    BY <1>2 DEF Marked
  <1>. QED
    BY <1>3 DEF new

-----------------------------------------------------------------------------
(* The book, for each thing that a transaction is for.                      *)

Entry(a, r, m) == [account |-> a, reference |-> r, amount |-> m]

\* Whether a transaction would be read as a deposit.
ReadsAsDeposit(tx, a, r, m) ==
    /\ IsDeposit(tx) /\ tx.reference = r
    /\ \E k \in DOMAIN tx.to : tx.to[k] = To(MainOf(a), m)

\* Entries after a commit.
LEMMA EntriesAfter ==
    ASSUME NEW lg \in Seq(Transaction), NEW tx \in Transaction
    PROVE  \A d : d \in EntriesOf(Append(lg, tx)) <=>
              \/ d \in EntriesOf(lg)
              \/ /\ d \in [account : Id, reference : UserRef, amount : Nat]
                 /\ ReadsAsDeposit(tx, d.account, d.reference, d.amount)
  <1>. DEFINE new == Append(lg, tx)
  <1>1. \A a, r, m : HasDeposit(new, a, r, m) <=> HasDeposit(lg, a, r, m) \/ ReadsAsDeposit(tx, a, r, m)
    BY BookAfter DEF ReadsAsDeposit
  <1>. HIDE DEF new
  <1>2. \A d : d \in EntriesOf(new) <=>
              \/ d \in EntriesOf(lg)
              \/ /\ d \in [account : Id, reference : UserRef, amount : Nat]
                 /\ ReadsAsDeposit(tx, d.account, d.reference, d.amount)
    BY <1>1 DEF EntriesOf
  <1>. QED
    BY <1>2 DEF new

\* A deposit is one entry more, which nothing has named yet.
LEMMA DepositBook ==
    ASSUME NoResolvedRefs, NEW lg \in Seq(Transaction), NEW tx \in Transaction,
           NEW a \in Id, NEW r \in UserRef, NEW m \in Nat, DepositTx(tx, a, r, m),
           Verdict(lg, tx) = "Ok", MarksNameDeposits(lg)
    PROVE  LET new == Append(lg, tx) IN
           /\ \A n : ~HasDeposit(lg, a, r, n)
           /\ EntriesOf(new) = EntriesOf(lg) \cup {Entry(a, r, m)}
           /\ \A op \in Op : MarkedOf(new, op) = MarkedOf(lg, op)
  <1>. DEFINE new == Append(lg, tx)
              e == Entry(a, r, m)
  <1>1. /\ tx.from = <<>> /\ tx.reference = r /\ DOMAIN tx.to = {1}
        /\ tx.to[1] = To(MainOf(a), m) /\ tx.to[1].account = MainOf(a)
    BY DEF DepositTx, To
  <1>2. \A n : ~HasDeposit(lg, a, r, n)
    <2>1. Found(lg, tx.to[1].account, tx.reference) = {}
      BY <1>1, Accepted
    <2>. QED
      BY <1>1, <2>1, DepositIsFound
  <1>3. \A b, s, n : ReadsAsDeposit(tx, b, s, n) <=> b = a /\ s = r /\ n = m
    BY <1>1 DEF ReadsAsDeposit, IsDeposit, To, MainOf
  <1>4. e \in [account : Id, reference : UserRef, amount : Nat]
    BY DEF Entry
  <1>5. \A d \in [account : Id, reference : UserRef, amount : Nat] :
           ReadsAsDeposit(tx, d.account, d.reference, d.amount) <=> d = e
    <2>1. \A d \in [account : Id, reference : UserRef, amount : Nat] :
             d = e <=> d.account = a /\ d.reference = r /\ d.amount = m
      BY DEF Entry
    <2>. QED
      BY <1>3, <2>1
  <1>6. EntriesOf(new) = EntriesOf(lg) \cup {e}
    <2>1. \A d : d \in EntriesOf(new) <=>
              \/ d \in EntriesOf(lg)
              \/ /\ d \in [account : Id, reference : UserRef, amount : Nat]
                 /\ ReadsAsDeposit(tx, d.account, d.reference, d.amount)
      BY EntriesAfter
    <2>. HIDE DEF new, e
    <2>. QED
      BY <1>4, <1>5, <2>1
  <1>7. ASSUME NEW op \in Op
        PROVE  MarkedOf(new, op) = MarkedOf(lg, op)
    <2>1. ASSUME NEW b \in Id, NEW s \in UserRef, tx.reference = Tagged(Moves[op].tag, s),
                 tx.to[1].account = <<b, Moves[op].dest>>
          PROVE  FALSE
      <3>1. Moves[op].dest = "Main"
        BY <1>1, <2>1 DEF MainOf
      <3>2. Moves[op].tag = "resolved"
        BY <3>1, MoveFacts
      <3>. QED
        BY <1>1, <2>1, <3>2 DEF NoResolvedRefs
    <2>2. \A b \in Id, s \in UserRef : Marked(new, op, b, s) <=> Marked(lg, op, b, s)
      <3>1. \A o, b, s : Marked(new, o, b, s) <=>
             \/ Marked(lg, o, b, s)
             \/ /\ tx.reference = Tagged(Moves[o].tag, s)
                /\ \E k \in DOMAIN tx.to : tx.to[k].account = <<b, Moves[o].dest>>
        BY MarksAfter
      <3>. HIDE DEF new
      <3>2. \A k \in DOMAIN tx.to : k = 1
        BY <1>1
      <3>. QED
        BY <2>1, <3>1, <3>2
    <2>3. ~Marked(lg, op, a, r)
      BY <1>2 DEF MarksNameDeposits
    <2>4. e.account = a /\ e.reference = r
      BY DEF Entry
    <2>5. \A d \in EntriesOf(new) : d.account \in Id /\ d.reference \in UserRef
      BY DEF EntriesOf
    <2>. HIDE DEF new, e
    <2>. QED
      BY <1>6, <2>2, <2>3, <2>4, <2>5 DEF MarkedOf
  <1>. QED
    BY <1>2, <1>6, <1>7 DEF new, e

\* A withdrawal or an exchange is not in the book.
LEMMA QuietBook ==
    ASSUME NEW lg \in Seq(Transaction), NEW tx \in Transaction,
           \/ tx.to = <<>>
           \/ tx.from # <<>> /\ \E s \in UserRef : tx.reference = Tagged("Exchange for", s)
    PROVE  LET new == Append(lg, tx) IN
           /\ EntriesOf(new) = EntriesOf(lg)
           /\ \A op \in Op : MarkedOf(new, op) = MarkedOf(lg, op)
  <1>. DEFINE new == Append(lg, tx)
  <1>1. \A b, s, n : ~ReadsAsDeposit(tx, b, s, n)
    <2>1. tx.to = <<>> => DOMAIN tx.to = {}
      OBVIOUS
    <2>. QED
      BY <2>1 DEF ReadsAsDeposit, IsDeposit
  <1>2. EntriesOf(new) = EntriesOf(lg)
    BY <1>1, EntriesAfter
  <1>3. ASSUME NEW op \in Op, NEW s \in UserRef, tx.reference = Tagged(Moves[op].tag, s)
        PROVE  tx.to = <<>>
    <2>. SUFFICES ASSUME NEW u \in UserRef, tx.reference = Tagged("Exchange for", u)
                  PROVE  FALSE
      OBVIOUS
    <2>1. Moves[op].tag # "Exchange for"
      BY MoveFacts
    <2>. DEFINE t == Moves[op].tag
                x == "Exchange for"
    <2>2. /\ t \in Tags /\ x \in Tags
          /\ s \in Reference /\ u \in Reference /\ Tagged(t, s) = Tagged(x, u)
      BY <1>3, MovesType, UserRefIsReference DEF Tags
    <2>. HIDE DEF t, x
    <2>3. t = x
      <3>1. Head(Tagged(t, s)) = t
        BY <2>2, HeadOfTagged
      <3>2. Head(Tagged(x, u)) = x
        BY <2>2, HeadOfTagged
      <3>. QED
        BY <2>2, <3>1, <3>2
    <2>. QED
      BY <2>1, <2>3 DEF t, x
  <1>4. ASSUME NEW op \in Op, NEW b, NEW s \in UserRef
        PROVE  Marked(new, op, b, s) <=> Marked(lg, op, b, s)
    <2>1. tx.to = <<>> => DOMAIN tx.to = {}
      OBVIOUS
    <2>2. \A o, a, r : Marked(new, o, a, r) <=>
           \/ Marked(lg, o, a, r)
           \/ /\ tx.reference = Tagged(Moves[o].tag, r)
              /\ \E k \in DOMAIN tx.to : tx.to[k].account = <<a, Moves[o].dest>>
      BY MarksAfter
    <2>. HIDE DEF new
    <2>. QED
      BY <1>3, <2>1, <2>2
  <1>5. \A d \in EntriesOf(lg) : d.reference \in UserRef
    BY DEF EntriesOf
  <1>. HIDE DEF new
  <1>6. /\ EntriesOf(new) = EntriesOf(lg)
        /\ \A op \in Op : MarkedOf(new, op) = MarkedOf(lg, op)
    BY <1>2, <1>4, <1>5 DEF MarkedOf
  <1>. QED
    BY <1>6 DEF new

\* A move marks the deposit that it names, once, and is no deposit itself.
LEMMA MoveBook ==
    ASSUME NoResolvedRefs, NEW lg \in Seq(Transaction), NEW tx \in Transaction,
           NEW op \in Op, NEW a \in Id, NEW r \in UserRef, NEW m \in Nat,
           MoveTx(lg, tx, op, a, r, m), Asked(lg, op, a, r, m),
           Verdict(lg, tx) = "Ok", UniqueDeposits(lg)
    PROVE  LET new == Append(lg, tx)
               e == Entry(a, r, m)
           IN  /\ e \in EntriesOf(lg) \ MarkedOf(lg, op)
               /\ op # "dispute" => e \in MarkedOf(lg, "dispute")
               /\ EntriesOf(new) = EntriesOf(lg)
               /\ MarkedOf(new, op) = MarkedOf(lg, op) \cup {e}
               /\ \A o \in Op : o # op => MarkedOf(new, o) = MarkedOf(lg, o)
  <1>. DEFINE new == Append(lg, tx)
              e == Entry(a, r, m)
              dest == <<a, Moves[op].dest>>
  <1>1. /\ MovesFunds(lg, tx, <<a, Moves[op].source>>, dest, m)
        /\ tx.reference = Tagged(Moves[op].tag, r)
    BY DEF MoveTx
  <1>2. /\ 1 \in DOMAIN tx.to /\ tx.to[1].account = dest
        /\ \A k \in DOMAIN tx.to : Owner(tx.to[k].account) = a
    BY MoveCredits
  <1>3. e.account = a /\ e.reference = r /\ e.amount = m
    BY DEF Entry
  <1>4. e \in EntriesOf(lg)
    BY <1>3 DEF EntriesOf, Entry, Asked
  <1>5. ~Marked(lg, op, a, r)
    <2>1. Found(lg, tx.to[1].account, tx.reference) = {}
      BY <1>2, Accepted
    <2>. QED
      BY <1>1, <1>2, <2>1 DEF Marked
  <1>6. op # "dispute" => Marked(lg, "dispute", a, r)
    BY DEF Asked, Marked, Moves, DisputedOf
  <1>7. ASSUME NEW b, NEW s \in UserRef, NEW n
        PROVE  ~ReadsAsDeposit(tx, b, s, n)
    <2>. SUFFICES ASSUME ReadsAsDeposit(tx, b, s, n) PROVE FALSE
      OBVIOUS
    <2>1. tx.from = <<>> /\ tx.reference = s
      BY DEF ReadsAsDeposit, IsDeposit
    <2>2. PICK k \in DOMAIN tx.to : tx.to[k] = To(MainOf(b), n)
      BY DEF ReadsAsDeposit
    <2>3. tx.to = <<To(dest, m)>>
      BY <1>1, <2>1, MovedOutputs
    <2>4. tx.to[k] = To(dest, m)
      BY <2>3
    <2>5. dest = MainOf(b)
      BY <2>2, <2>4 DEF To
    <2>6. Moves[op].dest = "Main"
      BY <2>5 DEF MainOf
    <2>7. Moves[op].tag = "resolved"
      BY <2>6, MoveFacts
    <2>. QED
      BY <1>1, <2>1, <2>7 DEF NoResolvedRefs
  <1>8. EntriesOf(new) = EntriesOf(lg)
    <2>1. \A d : d \in EntriesOf(new) <=>
              \/ d \in EntriesOf(lg)
              \/ /\ d \in [account : Id, reference : UserRef, amount : Nat]
                 /\ ReadsAsDeposit(tx, d.account, d.reference, d.amount)
      BY EntriesAfter, Zenon
    <2>. HIDE DEF new
    <2>. QED
      BY <1>7, <2>1
  <1>9. ASSUME NEW o \in Op, NEW b, NEW s \in UserRef
        PROVE  Marked(new, o, b, s) <=> Marked(lg, o, b, s) \/ (o = op /\ b = a /\ s = r)
    <2>1. \A p, c, u : Marked(new, p, c, u) <=>
           \/ Marked(lg, p, c, u)
           \/ /\ tx.reference = Tagged(Moves[p].tag, u)
              /\ \E k \in DOMAIN tx.to : tx.to[k].account = <<c, Moves[p].dest>>
      BY MarksAfter
    <2>. HIDE DEF new
    <2>2. ASSUME tx.reference = Tagged(Moves[o].tag, s)
          PROVE  o = op /\ s = r
      <3>. DEFINE t == Moves[o].tag
                  u == Moves[op].tag
      <3>1. /\ t \in Tags /\ u \in Tags /\ s \in Reference /\ r \in Reference
            /\ Tagged(t, s) = Tagged(u, r)
        BY <1>1, <2>2, MovesType, UserRefIsReference
      <3>. HIDE DEF t, u
      <3>2. t = u /\ s = r
        BY <3>1, TaggedSame
      <3>. QED
        BY <3>2, MoveFacts DEF t, u
    <2>3. \A k \in DOMAIN tx.to : tx.to[k].account = <<b, Moves[o].dest>> => b = a
      BY <1>2 DEF Owner
    <2>. QED
      BY <1>1, <1>2, <2>1, <2>2, <2>3
  <1>10. \A d \in EntriesOf(lg) : d = e <=> d.account = a /\ d.reference = r
    <2>. SUFFICES ASSUME NEW d \in EntriesOf(lg), d.account = a, d.reference = r
                  PROVE  d = e
      BY <1>3
    <2>1. HasDeposit(lg, a, r, d.amount) /\ HasDeposit(lg, a, r, m)
      BY DEF EntriesOf, Asked
    <2>2. d.amount = m
      BY <2>1 DEF UniqueDeposits
    <2>. QED
      BY <2>2 DEF EntriesOf, Entry
  <1>11. \A d \in EntriesOf(lg) : d.reference \in UserRef
    BY DEF EntriesOf
  <1>12. "dispute" \in Op
    BY DEF Op, Moves
  <1>. HIDE DEF new, e
  <1>13. \A o \in Op, d \in EntriesOf(lg) :
            d \in MarkedOf(new, o) <=> d \in MarkedOf(lg, o) \/ (o = op /\ d = e)
    BY <1>8, <1>9, <1>10, <1>11 DEF MarkedOf
  <1>14. \A o \in Op : MarkedOf(new, o) \subseteq EntriesOf(lg) /\ MarkedOf(lg, o) \subseteq EntriesOf(lg)
    BY <1>8 DEF MarkedOf
  <1>15. e \notin MarkedOf(lg, op) /\ (op # "dispute" => e \in MarkedOf(lg, "dispute"))
    BY <1>3, <1>4, <1>5, <1>6 DEF MarkedOf
  <1>. QED
    BY <1>4, <1>8, <1>13, <1>14, <1>15 DEF new, e

\* A commit marks nothing but deposits.
LEMMA CommitKeepsMarks ==
    ASSUME Amount \subseteq Nat, NoResolvedRefs, NEW lg \in Seq(Transaction),
           NEW tx \in Transaction, Purpose(lg, tx), MarksNameDeposits(lg)
    PROVE  MarksNameDeposits(Append(lg, tx))
  <1>. DEFINE new == Append(lg, tx)
  <1>. SUFFICES ASSUME NEW op \in Op, NEW a \in Id, NEW r \in UserRef, Marked(new, op, a, r)
                PROVE  \E m : HasDeposit(new, a, r, m)
    BY DEF MarksNameDeposits
  <1>1. \A m : HasDeposit(lg, a, r, m) => HasDeposit(new, a, r, m)
    BY BookGrows
  <1>2. \A o, b, s : Marked(new, o, b, s) <=>
         \/ Marked(lg, o, b, s)
         \/ /\ tx.reference = Tagged(Moves[o].tag, s)
            /\ \E k \in DOMAIN tx.to : tx.to[k].account = <<b, Moves[o].dest>>
    BY MarksAfter
  <1>. HIDE DEF new
  <1>3. CASE Marked(lg, op, a, r)
    BY <1>1, <1>3 DEF MarksNameDeposits
  <1>4. CASE /\ tx.reference = Tagged(Moves[op].tag, r)
             /\ \E k \in DOMAIN tx.to : tx.to[k].account = <<a, Moves[op].dest>>
    <2>1. \E m \in Nat : MoveTx(lg, tx, op, a, r, m) /\ Asked(lg, op, a, r, m)
      BY <1>4, MovePurpose
    <2>. QED
      BY <1>1, <2>1 DEF Asked
  <1>. QED
    BY <1>2, <1>3, <1>4

-----------------------------------------------------------------------------
(* The variables of the book, as functions of the log.                      *)

Sheet(lg, type) == [x \in Id |-> Balance(lg, <<x, type>>)]

DepositedBy(lg) == [x \in Id |-> SumAt(lg, Deposits(lg, x))]

WithdrawnBy(lg) == [x \in Id |-> SumAt(lg, Withdrawals(lg, x))]

SettledOf(lg) ==
    {"resolve"} \X MarkedOf(lg, "resolve") \cup {"chargeback"} \X MarkedOf(lg, "chargeback")

IsView ==
    /\ [a \in Id |-> Balance(log, MainOf(a))] = Sheet(log, "Main")
    /\ [a \in Id |-> Balance(log, DisputedOf(a))] = Sheet(log, "Disputed")
    /\ [a \in Id |-> Balance(log, ChargebackOf(a))] = Sheet(log, "Chargeback")
    /\ [a \in Id |-> Deposited(a)] = DepositedBy(log)
    /\ [a \in Id |-> Withdrawn(a)] = WithdrawnBy(log)
    /\ DepositEntries = EntriesOf(log)
    /\ Named(DepositEntries, DisputedRefs) = MarkedOf(log, "dispute")
    /\ Settlements = SettledOf(log)

\* They are what BookView reads off the log.
LEMMA ViewOf == log \in Seq(Transaction) /\ NatOutputs(log) => IsView
  <1>. SUFFICES ASSUME log \in Seq(Transaction), NatOutputs(log) PROVE IsView
    OBVIOUS
  <1>1. /\ [a \in Id |-> Balance(log, MainOf(a))] = Sheet(log, "Main")
        /\ [a \in Id |-> Balance(log, DisputedOf(a))] = Sheet(log, "Disputed")
        /\ [a \in Id |-> Balance(log, ChargebackOf(a))] = Sheet(log, "Chargeback")
    BY DEF Sheet, MainOf, DisputedOf, ChargebackOf
  <1>2. /\ [a \in Id |-> Deposited(a)] = DepositedBy(log)
        /\ [a \in Id |-> Withdrawn(a)] = WithdrawnBy(log)
    BY DepositedAndWithdrawn DEF DepositedBy, WithdrawnBy
  <1>3. DepositEntries = EntriesOf(log)
    <2>1. ASSUME NEW p \in DepositPlaces
          PROVE  LET d == [account |-> Owner(OutputAt(log, p).account),
                           reference |-> log[p[1]].reference, amount |-> OutputAt(log, p).amount]
                 IN  d \in EntriesOf(log)
      <3>1. /\ p \in Places(log) /\ IsDeposit(log[p[1]])
            /\ OutputAt(log, p).account[2] = "Main" /\ log[p[1]].reference \in UserRef
        BY DEF DepositPlaces
      <3>2. OutputAt(log, p) \in Output /\ OutputAt(log, p).amount \in Nat
        BY <3>1, PlaceType DEF NatOutputs
      <3>. DEFINE o == OutputAt(log, p)
                  a == Owner(o.account)
                  r == log[p[1]].reference
      <3>3. o.account \in Id \X Type
        BY <3>2 DEF Output, FullAccount
      <3>4. a \in Id /\ o.account = MainOf(a)
        BY <3>1, <3>3 DEF Owner, MainOf
      <3>5. o = To(MainOf(a), o.amount)
        BY <3>2, <3>4 DEF Output, To
      <3>6. HasDeposit(log, a, r, o.amount)
        BY <3>1, <3>5 DEF HasDeposit
      <3>. QED
        BY <3>1, <3>2, <3>4, <3>6 DEF EntriesOf
    <2>2. ASSUME NEW d \in EntriesOf(log)
          PROVE  d \in DepositEntries
      <3>1. /\ d \in [account : Id, reference : UserRef, amount : Nat]
            /\ HasDeposit(log, d.account, d.reference, d.amount)
        BY DEF EntriesOf
      <3>2. PICK p \in Places(log) : /\ IsDeposit(log[p[1]])
                                     /\ OutputAt(log, p) = To(MainOf(d.account), d.amount)
                                     /\ log[p[1]].reference = d.reference
        BY <3>1 DEF HasDeposit
      <3>3. /\ OutputAt(log, p).account = MainOf(d.account)
            /\ OutputAt(log, p).amount = d.amount
        BY <3>2 DEF To
      <3>4. p \in DepositPlaces
        BY <3>1, <3>2, <3>3 DEF DepositPlaces, MainOf
      <3>5. Owner(OutputAt(log, p).account) = d.account
        BY <3>3 DEF Owner, MainOf
      <3>6. d = [account |-> Owner(OutputAt(log, p).account),
                 reference |-> log[p[1]].reference, amount |-> OutputAt(log, p).amount]
        BY <3>1, <3>2, <3>3, <3>5
      <3>. QED
        BY <3>4, <3>6 DEF DepositEntries
    <2>. QED
      BY <2>1, <2>2 DEF DepositEntries
  <1>4. \A d \in EntriesOf(log) : d.account \in Id /\ d.reference \in UserRef
    BY DEF EntriesOf
  <1>5. /\ Moves["dispute"].dest = "Disputed" /\ Moves["dispute"].tag = "dispute"
        /\ Moves["resolve"].dest = "Main" /\ Moves["resolve"].tag = "resolved"
        /\ Moves["chargeback"].dest = "Chargeback" /\ Moves["chargeback"].tag = "chargeback"
    BY DEF Moves
  <1>6. Named(DepositEntries, DisputedRefs) = MarkedOf(log, "dispute")
    BY <1>3, <1>4, <1>5 DEF Named, DisputedRefs, MarkedOf, Marked, DisputedOf
  <1>7. Named(DepositEntries, ResolvedRefs) = MarkedOf(log, "resolve")
    BY <1>3, <1>4, <1>5 DEF Named, ResolvedRefs, MarkedOf, Marked, MainOf
  <1>8. Named(DepositEntries, ChargedRefs) = MarkedOf(log, "chargeback")
    BY <1>3, <1>4, <1>5 DEF Named, ChargedRefs, MarkedOf, Marked, ChargebackOf
  <1>. QED
    BY <1>1, <1>2, <1>3, <1>6, <1>7, <1>8 DEF IsView, Settlements, SettledOf

\* A deposit adds to the main sheet and to what was deposited.
LEMMA DepositSheets ==
    ASSUME NEW lg, NEW tx, NEW b, Commits(lg, tx, b), NEW a \in Id, NEW r, NEW m \in Nat,
           DepositTx(tx, a, r, m)
    PROVE  LET new == Append(lg, tx) IN
           /\ Sheet(new, "Main") = Book!Add(Sheet(lg, "Main"), a, m)
           /\ \A t : t # "Main" => Sheet(new, t) = Sheet(lg, t)
           /\ DepositedBy(new) = Book!Add(DepositedBy(lg), a, m)
           /\ WithdrawnBy(new) = WithdrawnBy(lg)
  <1>. DEFINE new == Append(lg, tx)
  <1>1. tx.from = <<>> /\ tx.to = <<To(MainOf(a), m)>> /\ DOMAIN tx.to = {1}
    BY DEF DepositTx
  <1>2. tx.to[1].account = MainOf(a)
    BY <1>1 DEF To
  <1>3. b = a
    BY <1>1, <1>2 DEF Commits, Owner, MainOf
  <1>4. Total(tx.to) = m
    BY <1>1, TotalOfOne
  <1>5. \A x, t : Balance(lg, <<x, t>>) \in Int /\
                  Balance(new, <<x, t>>) = Balance(lg, <<x, t>>) + (IF <<x, t>> = MainOf(a) THEN m ELSE 0)
    <2>1. TakesFrom(lg, tx, MainOf(a))
      BY <1>1 DEF TakesFrom
    <2>. QED
      BY <2>1, BalanceAfter, DepositBalance
  <1>6. ASSUME NEW x \in Id
        PROVE  /\ SumAt(lg, Deposits(lg, x)) \in Int
               /\ SumAt(new, Deposits(new, x)) = SumAt(lg, Deposits(lg, x)) + (IF x = a THEN m ELSE 0)
    BY <1>1, <1>3, <1>4, DepositedAfter DEF IsDeposit
  <1>7. ASSUME NEW x \in Id
        PROVE  SumAt(new, Withdrawals(new, x)) = SumAt(lg, Withdrawals(lg, x))
    <2>1. ~IsWithdrawal(tx)
      BY <1>1 DEF IsWithdrawal
    <2>. QED
      BY <2>1, WithdrawnAfter
  <1>. HIDE DEF new
  <1>8. \A x : Balance(new, <<x, "Main">>) = IF x = a THEN Balance(lg, <<x, "Main">>) + m
                                              ELSE Balance(lg, <<x, "Main">>)
    BY <1>5 DEF MainOf
  <1>9. \A x, t : t # "Main" => Balance(new, <<x, t>>) = Balance(lg, <<x, t>>)
    BY <1>5 DEF MainOf
  <1>10. Sheet(new, "Main") = Book!Add(Sheet(lg, "Main"), a, m)
    BY <1>8 DEF Sheet, Book!Add
  <1>11. \A t : t # "Main" => Sheet(new, t) = Sheet(lg, t)
    BY <1>9 DEF Sheet
  <1>12. DepositedBy(new) = Book!Add(DepositedBy(lg), a, m)
    <2>1. \A x \in Id : SumAt(new, Deposits(new, x)) = IF x = a THEN SumAt(lg, Deposits(lg, x)) + m
                                                     ELSE SumAt(lg, Deposits(lg, x))
      BY <1>6
    <2>. QED
      BY <2>1 DEF DepositedBy, Book!Add
  <1>13. WithdrawnBy(new) = WithdrawnBy(lg)
    BY <1>7 DEF WithdrawnBy
  <1>. QED
    BY <1>10, <1>11, <1>12, <1>13 DEF new

\* A withdrawal takes from the main sheet and adds to what was withdrawn.
LEMMA WithdrawalSheets ==
    ASSUME NEW lg, NEW tx, NEW b, Commits(lg, tx, b), NEW a \in Id, NEW m,
           WithdrawalTx(lg, tx, a, m)
    PROVE  LET new == Append(lg, tx) IN
           /\ Sheet(new, "Main") = Book!Take(Sheet(lg, "Main"), a, m)
           /\ \A t : t # "Main" => Sheet(new, t) = Sheet(lg, t)
           /\ DepositedBy(new) = DepositedBy(lg)
           /\ WithdrawnBy(new) = Book!Add(WithdrawnBy(lg), a, m)
  <1>. DEFINE new == Append(lg, tx)
  <1>1. TakesFrom(lg, tx, MainOf(a)) /\ tx.to = <<>> /\ Total(tx.from) = m /\ DOMAIN tx.to = {}
    BY DEF WithdrawalTx
  <1>2. Commits(lg, tx, a)
    BY <1>1, CommitsOf DEF Owner, MainOf
  <1>3. m \in Int /\ \A x, t : Balance(lg, <<x, t>>) \in Int /\
                  Balance(new, <<x, t>>) = Balance(lg, <<x, t>>) - (IF <<x, t>> = MainOf(a) THEN m ELSE 0)
    <2>1. m \in Int
      BY WithdrawalBalance
    <2>2. \A x, t : Balance(lg, <<x, t>>) \in Int
      BY <1>1, BalanceAfter
    <2>3. \A x, t : Balance(new, <<x, t>>)
                       = Balance(lg, <<x, t>>) - (IF <<x, t>> = MainOf(a) THEN m ELSE 0)
      BY WithdrawalBalance
    <2>. QED
      BY <2>1, <2>2, <2>3
  <1>4. ASSUME NEW x \in Id
        PROVE  SumAt(new, Deposits(new, x)) = SumAt(lg, Deposits(lg, x))
    <2>1. Total(tx.to) = 0
      BY <1>1, TotalOfNone
    <2>. QED
      BY <1>2, <2>1, DepositedAfter
  <1>5. ASSUME NEW x \in Id
        PROVE  SumAt(new, Withdrawals(new, x)) = IF x = a THEN SumAt(lg, Withdrawals(lg, x)) + m
                                                 ELSE SumAt(lg, Withdrawals(lg, x))
    <2>1. IsWithdrawal(tx)
      BY <1>1 DEF IsWithdrawal
    <2>. QED
      BY <1>1, <1>2, <2>1, WithdrawnAfter
  <1>. HIDE DEF new
  <1>6. \A x : Balance(new, <<x, "Main">>) = IF x = a THEN Balance(lg, <<x, "Main">>) - m
                                              ELSE Balance(lg, <<x, "Main">>)
    BY <1>3 DEF MainOf
  <1>7. \A x, t : t # "Main" => Balance(new, <<x, t>>) = Balance(lg, <<x, t>>)
    BY <1>3 DEF MainOf
  <1>8. Sheet(new, "Main") = Book!Take(Sheet(lg, "Main"), a, m)
    BY <1>6 DEF Sheet, Book!Take
  <1>9. \A t : t # "Main" => Sheet(new, t) = Sheet(lg, t)
    BY <1>7 DEF Sheet
  <1>10. DepositedBy(new) = DepositedBy(lg)
    BY <1>4 DEF DepositedBy
  <1>11. WithdrawnBy(new) = Book!Add(WithdrawnBy(lg), a, m)
    BY <1>5 DEF WithdrawnBy, Book!Add
  <1>. QED
    BY <1>8, <1>9, <1>10, <1>11 DEF new

\* A move or an exchange deposits and withdraws nothing.
LEMMA MoveIsNoFlow ==
    ASSUME NEW lg, NEW tx, NEW b, Commits(lg, tx, b), NEW source, NEW dest, NEW m \in Nat,
           MovesFunds(lg, tx, source, dest, m)
    PROVE  LET new == Append(lg, tx) IN
           DepositedBy(new) = DepositedBy(lg) /\ WithdrawnBy(new) = WithdrawnBy(lg)
  <1>. DEFINE new == Append(lg, tx)
  <1>1. tx \in Transaction /\ Total(tx.from) >= m
    BY DEF Commits, MovesFunds
  <1>2. /\ Total(tx.from) \in Nat
        /\ \/ tx.to = <<To(dest, m)>> /\ Total(tx.from) = m
           \/ tx.to = <<To(dest, m), To(source, Total(tx.from) - m)>> /\ tx.from # <<>>
    BY <1>1, MovedOutputs
  <1>3. IsDeposit(tx) => Total(tx.to) = 0
    <2>. SUFFICES ASSUME tx.from = <<>> PROVE Total(tx.to) = 0
      BY DEF IsDeposit
    <2>1. Total(tx.from) = 0
      BY TotalOfNone
    <2>2. tx.to = <<To(dest, m)>> /\ m = 0
      BY <1>2, <2>1
    <2>. QED
      BY <2>2, TotalOfOne
  <1>4. ~IsWithdrawal(tx)
    <2>1. 1 \in DOMAIN tx.to
      BY <1>1, MovedAccounts
    <2>. QED
      BY <2>1 DEF IsWithdrawal
  <1>5. ASSUME NEW x \in Id
        PROVE  SumAt(new, Deposits(new, x)) = SumAt(lg, Deposits(lg, x))
    BY <1>3, DepositedAfter
  <1>6. ASSUME NEW x \in Id
        PROVE  SumAt(new, Withdrawals(new, x)) = SumAt(lg, Withdrawals(lg, x))
    BY <1>4, WithdrawnAfter
  <1>. HIDE DEF new
  <1>7. DepositedBy(new) = DepositedBy(lg) /\ WithdrawnBy(new) = WithdrawnBy(lg)
    BY <1>5, <1>6 DEF DepositedBy, WithdrawnBy
  <1>. QED
    BY <1>7 DEF new

\* An exchange changes no sheet.
LEMMA ExchangeSheets ==
    ASSUME NEW lg, NEW tx, NEW b, Commits(lg, tx, b), NEW source, NEW m \in Nat,
           MovesFunds(lg, tx, source, source, m), NEW t
    PROVE  Sheet(Append(lg, tx), t) = Sheet(lg, t)
  <1>. DEFINE new == Append(lg, tx)
  <1>1. TakesFrom(lg, tx, source)
    BY DEF MovesFunds
  <1>2. ASSUME NEW x \in Id
        PROVE  Balance(new, <<x, t>>) = Balance(lg, <<x, t>>)
    BY <1>1, BalanceAfter, MoveBalance
  <1>. HIDE DEF new
  <1>3. Sheet(new, t) = Sheet(lg, t)
    BY <1>2 DEF Sheet
  <1>. QED
    BY <1>3 DEF new

\* A move between two sub-accounts of an account changes their two sheets.
LEMMA MoveSheets ==
    ASSUME NEW lg, NEW tx, NEW b, Commits(lg, tx, b), NEW a \in Id, NEW s, NEW d, s # d,
           NEW m \in Nat, MovesFunds(lg, tx, <<a, s>>, <<a, d>>, m)
    PROVE  LET new == Append(lg, tx) IN
           /\ Sheet(new, s) = Book!Take(Sheet(lg, s), a, m)
           /\ Sheet(new, d) = Book!Add(Sheet(lg, d), a, m)
           /\ \A t : t \notin {s, d} => Sheet(new, t) = Sheet(lg, t)
  <1>. DEFINE new == Append(lg, tx)
  <1>1. TakesFrom(lg, tx, <<a, s>>)
    BY DEF MovesFunds
  <1>2. \A x, t : Balance(lg, <<x, t>>) \in Int /\
           Balance(new, <<x, t>>) = Balance(lg, <<x, t>>) - (IF <<x, t>> = <<a, s>> THEN m ELSE 0)
                                                          + (IF <<x, t>> = <<a, d>> THEN m ELSE 0)
    BY <1>1, BalanceAfter, MoveBalance
  <1>. HIDE DEF new
  <1>3. \A x : Balance(new, <<x, s>>) = IF x = a THEN Balance(lg, <<x, s>>) - m
                                         ELSE Balance(lg, <<x, s>>)
    BY <1>2
  <1>4. \A x : Balance(new, <<x, d>>) = IF x = a THEN Balance(lg, <<x, d>>) + m
                                         ELSE Balance(lg, <<x, d>>)
    BY <1>2
  <1>5. \A x, t : t \notin {s, d} => Balance(new, <<x, t>>) = Balance(lg, <<x, t>>)
    BY <1>2
  <1>6. Sheet(new, s) = Book!Take(Sheet(lg, s), a, m)
    BY <1>3 DEF Sheet, Book!Take
  <1>7. Sheet(new, d) = Book!Add(Sheet(lg, d), a, m)
    BY <1>4 DEF Sheet, Book!Add
  <1>8. \A t : t \notin {s, d} => Sheet(new, t) = Sheet(lg, t)
    BY <1>5 DEF Sheet
  <1>. QED
    BY <1>6, <1>7, <1>8 DEF new

-----------------------------------------------------------------------------
(* The ledger implements the book.                                          *)

\* The view of the log after a commit.
LEMMA NextView ==
    ASSUME NEW tx \in Transaction, log \in Seq(Transaction), log' = Append(log, tx),
           NatOutputs(log), NatOutputs(log')
    PROVE  IsView /\ IsView'
  <1>1. log' \in Seq(Transaction)
    BY AppendTx
  <1>2. (log \in Seq(Transaction) /\ NatOutputs(log) => IsView)'
    BY ViewOf, PTL
  <1>. QED
    BY <1>1, <1>2, ViewOf

\* A deposit in the ledger is a deposit in the book.
LEMMA StepDeposit ==
    ASSUME NoResolvedRefs, IsView, IsView', NEW tx, NEW b, Commits(log, tx, b),
           log' = Append(log, tx), Verdict(log, tx) = "Ok", MarksNameDeposits(log),
           NEW a \in Id, NEW r \in UserRef, NEW m \in Nat, DepositTx(tx, a, r, m)
    PROVE  Book!Deposit(a, r, m)
  <1>1. log \in Seq(Transaction) /\ tx \in Transaction
    BY DEF Commits
  <1>2. /\ Sheet(log', "Main") = Book!Add(Sheet(log, "Main"), a, m)
        /\ \A t : t # "Main" => Sheet(log', t) = Sheet(log, t)
        /\ DepositedBy(log') = Book!Add(DepositedBy(log), a, m)
        /\ WithdrawnBy(log') = WithdrawnBy(log)
    BY DepositSheets
  <1>3. /\ \A n : ~HasDeposit(log, a, r, n)
        /\ EntriesOf(log') = EntriesOf(log) \cup {Entry(a, r, m)}
        /\ \A op \in Op : MarkedOf(log', op) = MarkedOf(log, op)
    BY <1>1, DepositBook
  <1>4. {"dispute", "resolve", "chargeback"} \subseteq Op
    BY DEF Op, Moves
  <1>5. SettledOf(log') = SettledOf(log) /\ MarkedOf(log', "dispute") = MarkedOf(log, "dispute")
    BY <1>3, <1>4 DEF SettledOf
  <1>6. \A d \in EntriesOf(log) : ~(d.account = a /\ d.reference = r)
    BY <1>3 DEF EntriesOf
  <1>. QED
    BY <1>2, <1>3, <1>5, <1>6 DEF IsView, Book!Deposit, Entry

\* A withdrawal in the ledger is a withdrawal in the book.
LEMMA StepWithdrawal ==
    ASSUME IsView, IsView', NEW tx, NEW b, Commits(log, tx, b),
           log' = Append(log, tx), NatOutputs(log),
           NEW a \in Id, NEW m, WithdrawalTx(log, tx, a, m)
    PROVE  Book!Withdraw(a, m)
  <1>1. log \in Seq(Transaction) /\ tx \in Transaction /\ tx.to = <<>>
    BY DEF Commits, WithdrawalTx
  <1>2. /\ Sheet(log', "Main") = Book!Take(Sheet(log, "Main"), a, m)
        /\ \A t : t # "Main" => Sheet(log', t) = Sheet(log, t)
        /\ DepositedBy(log') = DepositedBy(log)
        /\ WithdrawnBy(log') = Book!Add(WithdrawnBy(log), a, m)
    BY WithdrawalSheets
  <1>3. /\ EntriesOf(log') = EntriesOf(log)
        /\ \A op \in Op : MarkedOf(log', op) = MarkedOf(log, op)
    BY <1>1, QuietBook
  <1>4. {"dispute", "resolve", "chargeback"} \subseteq Op
    BY DEF Op, Moves
  <1>5. SettledOf(log') = SettledOf(log) /\ MarkedOf(log', "dispute") = MarkedOf(log, "dispute")
    BY <1>3, <1>4 DEF SettledOf
  <1>6. m <= Sheet(log, "Main")[a]
    <2>1. m <= Balance(log, MainOf(a))
      BY FundsSuffice DEF WithdrawalTx
    <2>. QED
      BY <2>1 DEF Sheet, MainOf
  <1>. QED
    BY <1>2, <1>3, <1>5, <1>6 DEF IsView, Book!Withdraw

\* An exchange is not in the book.
LEMMA StepExchange ==
    ASSUME IsView, IsView', NEW tx, NEW b, Commits(log, tx, b), log' = Append(log, tx),
           NEW a \in Id, NEW r \in UserRef, NEW m \in Nat, ExchangeTx(log, tx, a, r, m)
    PROVE  UNCHANGED Book!vars
  <1>1. /\ log \in Seq(Transaction) /\ tx \in Transaction
        /\ tx.from # <<>> /\ tx.reference = Tagged("Exchange for", r)
        /\ MovesFunds(log, tx, MainOf(a), MainOf(a), m)
    BY DEF Commits, ExchangeTx
  <1>2. \A t : Sheet(log', t) = Sheet(log, t)
    BY <1>1, ExchangeSheets
  <1>3. DepositedBy(log') = DepositedBy(log) /\ WithdrawnBy(log') = WithdrawnBy(log)
    BY <1>1, MoveIsNoFlow
  <1>4. /\ EntriesOf(log') = EntriesOf(log)
        /\ \A op \in Op : MarkedOf(log', op) = MarkedOf(log, op)
    BY <1>1, QuietBook
  <1>5. {"dispute", "resolve", "chargeback"} \subseteq Op
    BY DEF Op, Moves
  <1>6. SettledOf(log') = SettledOf(log) /\ MarkedOf(log', "dispute") = MarkedOf(log, "dispute")
    BY <1>4, <1>5 DEF SettledOf
  <1>. QED
    BY <1>2, <1>3, <1>4, <1>6 DEF IsView, Book!vars

\* A dispute, a resolution or a chargeback in the ledger is one in the book.
LEMMA StepMove ==
    ASSUME NoResolvedRefs, IsView, IsView', NEW tx, NEW b, Commits(log, tx, b),
           log' = Append(log, tx), Verdict(log, tx) = "Ok", BookLog(log),
           NEW op \in Op, NEW a \in Id, NEW r \in UserRef, NEW m \in Nat,
           MoveTx(log, tx, op, a, r, m), Asked(log, op, a, r, m)
    PROVE  \E d \in DepositEntries : Book!Dispute(d) \/ Book!Resolve(d) \/ Book!Chargeback(d)
  <1>. DEFINE e == Entry(a, r, m)
              source == Moves[op].source
              dest == Moves[op].dest
  <1>1. /\ log \in Seq(Transaction) /\ tx \in Transaction
        /\ MovesFunds(log, tx, <<a, source>>, <<a, dest>>, m)
        /\ source # dest /\ NatOutputs(log) /\ UniqueDeposits(log)
    BY MoveFacts DEF Commits, MoveTx, BookLog
  <1>2. /\ Sheet(log', source) = Book!Take(Sheet(log, source), a, m)
        /\ Sheet(log', dest) = Book!Add(Sheet(log, dest), a, m)
        /\ \A t : t \notin {source, dest} => Sheet(log', t) = Sheet(log, t)
    BY <1>1, MoveSheets
  <1>3. DepositedBy(log') = DepositedBy(log) /\ WithdrawnBy(log') = WithdrawnBy(log)
    BY <1>1, MoveIsNoFlow
  <1>4. /\ e \in EntriesOf(log) \ MarkedOf(log, op)
        /\ op # "dispute" => e \in MarkedOf(log, "dispute")
        /\ EntriesOf(log') = EntriesOf(log)
        /\ MarkedOf(log', op) = MarkedOf(log, op) \cup {e}
        /\ \A o \in Op : o # op => MarkedOf(log', o) = MarkedOf(log, o)
    BY <1>1, MoveBook
  <1>5. m <= Sheet(log, source)[a]
    <2>1. TakesFrom(log, tx, <<a, source>>) /\ m <= Total(tx.from) /\ Total(tx.from) \in Int
      <3>1. TakesFrom(log, tx, <<a, source>>) /\ Total(tx.from) >= m
        BY <1>1 DEF MovesFunds
      <3>2. Total(tx.from) \in Int
        BY <3>1, BalanceAfter
      <3>. QED
        BY <3>1, <3>2
    <2>2. Total(tx.from) <= Balance(log, <<a, source>>) /\ Balance(log, <<a, source>>) \in Int
      BY <1>1, <2>1, FundsSuffice, BalanceAfter
    <2>3. m <= Balance(log, <<a, source>>)
      <3>. DEFINE total == Total(tx.from)
                  balance == Balance(log, <<a, source>>)
      <3>1. m <= total /\ total <= balance /\ total \in Int /\ balance \in Int
        BY <2>1, <2>2
      <3>. HIDE DEF total, balance
      <3>2. m <= balance
        BY <3>1
      <3>. QED
        BY <3>2 DEF balance
    <2>. QED
      BY <2>3 DEF Sheet
  <1>6. e.account = a /\ e.amount = m
    BY DEF Entry
  <1>7. op \in {"dispute", "resolve", "chargeback"} /\ {"dispute", "resolve", "chargeback"} = Op
    BY DEF Op, Moves
  <1>. HIDE DEF e
  <1>8. CASE op = "dispute"
    <2>1. source = "Main" /\ dest = "Disputed"
      BY <1>8 DEF Moves
    <2>2. SettledOf(log') = SettledOf(log)
      BY <1>4, <1>7, <1>8 DEF SettledOf
    <2>. HIDE DEF source, dest
    <2>3. Book!Dispute(e)
      BY <1>2, <1>3, <1>4, <1>5, <1>6, <1>8, <2>1, <2>2 DEF IsView, Book!Dispute
    <2>. QED
      BY <1>4, <2>3 DEF IsView
  <1>9. CASE op = "resolve"
    <2>1. source = "Disputed" /\ dest = "Main"
      BY <1>9 DEF Moves
    <2>2. /\ SettledOf(log') = SettledOf(log) \cup {<<"resolve", e>>}
          /\ <<"resolve", e>> \notin SettledOf(log)
      BY <1>4, <1>7, <1>9 DEF SettledOf
    <2>3. MarkedOf(log', "dispute") = MarkedOf(log, "dispute")
      BY <1>4, <1>7, <1>9
    <2>. HIDE DEF source, dest
    <2>4. Book!Resolve(e)
      BY <1>2, <1>3, <1>4, <1>5, <1>6, <1>9, <2>1, <2>2, <2>3 DEF IsView, Book!Resolve
    <2>. QED
      BY <1>4, <2>4 DEF IsView
  <1>10. CASE op = "chargeback"
    <2>1. source = "Disputed" /\ dest = "Chargeback"
      BY <1>10 DEF Moves
    <2>2. /\ SettledOf(log') = SettledOf(log) \cup {<<"chargeback", e>>}
          /\ <<"chargeback", e>> \notin SettledOf(log)
      BY <1>4, <1>7, <1>10 DEF SettledOf
    <2>3. MarkedOf(log', "dispute") = MarkedOf(log, "dispute")
      BY <1>4, <1>7, <1>10
    <2>. HIDE DEF source, dest
    <2>4. Book!Chargeback(e)
      BY <1>2, <1>3, <1>4, <1>5, <1>6, <1>10, <2>1, <2>2, <2>3 DEF IsView, Book!Chargeback
    <2>. QED
      BY <1>4, <2>4 DEF IsView
  <1>. QED
    BY <1>7, <1>8, <1>9, <1>10

\* A commit with a purpose is a step of the book, or none.
LEMMA StepBook ==
    ASSUME Amount \subseteq Nat, NoResolvedRefs, NEW tx, NEW b, Commits(log, tx, b),
           log' = Append(log, tx), Verdict(log, tx) = "Ok", Purpose(log, tx),
           BookLog(log), NatOutputs(log'), MarksNameDeposits(log)
    PROVE  [Book!Next]_(Book!vars)
  <1>1. tx \in Transaction /\ log \in Seq(Transaction) /\ NatOutputs(log)
    BY DEF Commits, BookLog
  <1>2. IsView /\ IsView'
    BY <1>1, NextView
  <1>3. CASE IsPayment(log, tx)
    <2>1. PICK a \in Id, r \in UserRef, m \in Amount :
             DepositTx(tx, a, r, m) \/ WithdrawalTx(log, tx, a, m) \/ ExchangeTx(log, tx, a, r, m)
      BY <1>3 DEF IsPayment
    <2>2. m \in Nat
      OBVIOUS
    <2>3. CASE DepositTx(tx, a, r, m)
      <3>1. Book!Deposit(a, r, m)
        BY <1>2, <2>2, <2>3, StepDeposit
      <3>. QED
        BY <3>1 DEF Book!Next
    <2>4. CASE WithdrawalTx(log, tx, a, m)
      <3>1. Book!Withdraw(a, m)
        BY <1>1, <1>2, <2>4, StepWithdrawal
      <3>. QED
        BY <3>1 DEF Book!Next
    <2>5. CASE ExchangeTx(log, tx, a, r, m)
      <3>1. UNCHANGED Book!vars
        BY <1>2, <2>2, <2>5, StepExchange
      <3>. QED
        BY <3>1
    <2>. QED
      BY <2>1, <2>3, <2>4, <2>5
  <1>4. CASE IsMove(log, tx)
    <2>1. PICK op \in Op, a \in Id, r \in UserRef, m \in Nat :
             MoveTx(log, tx, op, a, r, m) /\ Asked(log, op, a, r, m)
      BY <1>4 DEF IsMove
    <2>2. \E d \in DepositEntries : Book!Dispute(d) \/ Book!Resolve(d) \/ Book!Chargeback(d)
      BY <1>2, <2>1, StepMove
    <2>. QED
      BY <2>2 DEF Book!Next
  <1>. QED
    BY <1>3, <1>4 DEF Purpose

\* A step that leaves the log alone leaves the book alone.
LEMMA StepNone ==
    ASSUME UNCHANGED log, log \in Seq(Transaction), NatOutputs(log)
    PROVE  UNCHANGED Book!vars
  <1>1. (log \in Seq(Transaction) /\ NatOutputs(log) => IsView)'
    BY ViewOf, PTL
  <1>2. IsView /\ IsView'
    BY <1>1, ViewOf
  <1>. QED
    BY <1>2 DEF IsView, Book!vars

MarksInv == MarksNameDeposits(log)

\* An empty ledger has no marks.
LEMMA InitMarks == Init => MarksInv
  <1>. SUFFICES ASSUME Init PROVE MarksInv
    OBVIOUS
  <1>1. \A op, a, r : ~Marked(log, op, a, r)
    BY DEF Init, Marked, Found
  <1>. QED
    BY <1>1 DEF MarksInv, MarksNameDeposits

\* Every step of the ledger is a step of the book, or none, and marks nothing but
\* deposits.
LEMMA NextImplements ==
    ASSUME Amount \subseteq Nat, NoResolvedRefs, Inv, BookInv, BookInv', MarksInv, [Next]_vars
    PROVE  [Book!Next]_(Book!vars) /\ MarksInv'
  <1>1. log \in Seq(Transaction) /\ BookLog(log) /\ NatOutputs(log) /\ NatOutputs(log')
    BY DEF Inv, TypeOK, BookInv, BookLog
  <1>2. CASE log' = log
    BY <1>1, <1>2, StepNone DEF MarksInv
  <1>3. CASE log' # log
    <2>1. PICK c \in Client : /\ call[c].at = "store" /\ Verdict(log, Head(call[c].todo)) = "Ok"
                              /\ log' = Append(log, Head(call[c].todo))
      BY <1>3, LogChanges
    <2>. DEFINE tx == Head(call[c].todo)
    <2>2. PICK b \in Id : Commits(log, tx, b)
      BY <2>1, AcceptedCommits
    <2>3. Purpose(log, tx)
      BY <2>1, NextPurpose DEF Inv, BookInv
    <2>4. tx \in Transaction /\ Verdict(log, tx) = "Ok" /\ log' = Append(log, tx)
      BY <2>1, <2>2 DEF Commits
    <2>. HIDE DEF tx
    <2>5. MarksInv'
      BY <1>1, <2>3, <2>4, CommitKeepsMarks DEF MarksInv
    <2>6. [Book!Next]_(Book!vars)
      BY <1>1, <2>2, <2>3, <2>4, StepBook DEF MarksInv
    <2>. QED
      BY <2>5, <2>6
  <1>. QED
    BY <1>2, <1>3

\* An empty ledger is an empty book.
LEMMA InitBookView == Init => Book!Init
  <1>. SUFFICES ASSUME Init PROVE Book!Init
    OBVIOUS
  <1>1. /\ log \in Seq(Transaction) /\ Places(log) = {}
        /\ \A account, r : Found(log, account, r) = {}
    BY InitTypeOK DEF TypeOK, Init, Places, Found
  <1>2. NatOutputs(log)
    BY <1>1 DEF NatOutputs
  <1>3. IsView
    BY <1>1, <1>2, ViewOf
  <1>4. SumAt(log, {}) = 0
    BY <1>1, SumAtType
  <1>5. \A t : Sheet(log, t) = Book!Zero
    <2>1. \A account : UnspentPlaces(log, account) = {}
      BY <1>1 DEF UnspentPlaces
    <2>. QED
      BY <1>4, <2>1 DEF Sheet, Balance, Book!Zero
  <1>6. DepositedBy(log) = Book!Zero /\ WithdrawnBy(log) = Book!Zero
    <2>1. \A a : Deposits(log, a) = {} /\ Withdrawals(log, a) = {}
      BY <1>1 DEF Deposits, Withdrawals, Owned
    <2>. QED
      BY <1>4, <2>1 DEF DepositedBy, WithdrawnBy, Book!Zero
  <1>7. EntriesOf(log) = {} /\ \A op : MarkedOf(log, op) = {}
    BY <1>1 DEF EntriesOf, MarkedOf, HasDeposit
  <1>8. SettledOf(log) = {}
    BY <1>7 DEF SettledOf
  <1>. QED
    BY <1>3, <1>5, <1>6, <1>7, <1>8 DEF IsView, Book!Init

\* The ledger implements the book.
THEOREM LedgerImplementsBook ==
    ASSUME Amount \subseteq Nat, NoResolvedRefs
    PROVE  Spec => ImplementsBook
  <1>1. Init => Book!Init /\ MarksInv
    BY InitBookView, InitMarks
  <1>2. Inv /\ BookInv /\ BookInv' /\ MarksInv /\ [Next]_vars => [Book!Next]_(Book!vars) /\ MarksInv'
    BY NextImplements
  <1>3. Spec => [](Inv /\ BookInv)
    BY BookHolds, PTL
  <1>. QED
    BY <1>1, <1>2, <1>3, PTL DEF Spec, ImplementsBook, Book!Spec

\* The theorems about the book, for the book that the ledger is seen as.
Facts == INSTANCE AccountBook_proofs WITH
    Ref <- UserRef,
    main <- [a \in Id |-> Balance(log, MainOf(a))],
    disputed <- [a \in Id |-> Balance(log, DisputedOf(a))],
    chargeback <- [a \in Id |-> Balance(log, ChargebackOf(a))],
    deposited <- [a \in Id |-> Deposited(a)],
    withdrawn <- [a \in Id |-> Withdrawn(a)],
    deposits <- DepositEntries,
    disputes <- Named(DepositEntries, DisputedRefs),
    settled <- Settlements

\* Both instances of the book say the same.
LEMMA FactsAreOfTheBook ==
    /\ Book!Init => Facts!Init
    /\ [Book!Next]_(Book!vars) => [Facts!Next]_(Facts!vars)
    /\ Facts!BooksBalance /\ Facts!DisputesAddUp => BookAddsUp
  <1>1. Book!Init => Facts!Init
    BY DEF Book!Init, Facts!Init, Book!Zero, Facts!Zero
  <1>2. ASSUME NEW a, NEW r, NEW m, Book!Deposit(a, r, m)
        PROVE  Facts!Deposit(a, r, m)
    BY <1>2 DEF Book!Deposit, Facts!Deposit, Book!Add, Facts!Add
  <1>3. ASSUME NEW a, NEW m, Book!Withdraw(a, m)
        PROVE  Facts!Withdraw(a, m)
    BY <1>3 DEF Book!Withdraw, Facts!Withdraw, Book!Add, Facts!Add, Book!Take, Facts!Take
  <1>4. ASSUME NEW d, Book!Dispute(d)
        PROVE  Facts!Dispute(d)
    BY <1>4 DEF Book!Dispute, Facts!Dispute, Book!Add, Facts!Add, Book!Take, Facts!Take
  <1>5. ASSUME NEW d, Book!Resolve(d)
        PROVE  Facts!Resolve(d)
    BY <1>5 DEF Book!Resolve, Facts!Resolve, Book!Add, Facts!Add, Book!Take, Facts!Take
  <1>6. ASSUME NEW d, Book!Chargeback(d)
        PROVE  Facts!Chargeback(d)
    BY <1>6 DEF Book!Chargeback, Facts!Chargeback, Book!Add, Facts!Add, Book!Take, Facts!Take
  <1>7. Book!Next => Facts!Next
    BY <1>2, <1>3, <1>4, <1>5, <1>6 DEF Book!Next, Facts!Next
  <1>8. UNCHANGED Book!vars => UNCHANGED Facts!vars
    BY DEF Book!vars, Facts!vars
  <1>9. \A S : Facts!Worth(S) = Book!Worth(S)
    BY DEF Facts!Worth, Book!Worth, Facts!MapThenSumSet, Book!MapThenSumSet,
      Facts!MapThenFoldSet, Book!MapThenFoldSet
  <1>10. \A a : /\ Facts!DisputesOf(a) = Book!DisputesOf(a)
                /\ \A how : Facts!SettledOf(how, a) = Book!SettledOf(how, a)
    BY DEF Facts!DisputesOf, Book!DisputesOf, Facts!SettledOf, Book!SettledOf
  <1>11. Facts!BooksBalance => Book!BooksBalance
    BY DEF Facts!BooksBalance, Book!BooksBalance
  <1>12. Facts!DisputesAddUp => Book!DisputesAddUp
    BY <1>9, <1>10 DEF Facts!DisputesAddUp, Book!DisputesAddUp
  <1>. QED
    BY <1>1, <1>7, <1>8, <1>11, <1>12 DEF BookAddsUp

\* The three balances of an account are always what was deposited less what was
\* withdrawn, and those that are disputed and charged back are always explained
\* by the disputes and settlements of the log.
THEOREM BookAddsUpHolds ==
    ASSUME Amount \subseteq Nat, NoResolvedRefs
    PROVE  Spec => []BookAddsUp
  <1>1. Spec => ImplementsBook
    BY LedgerImplementsBook
  <1>2. Facts!Spec => []Facts!BooksBalance
    BY Facts!BooksAlwaysBalance
  <1>3. Facts!Spec => []Facts!DisputesAddUp
    BY Facts!DisputesAlwaysAddUp
  <1>. QED
    BY <1>1, <1>2, <1>3, FactsAreOfTheBook, PTL DEF ImplementsBook, Book!Spec, Facts!Spec
=============================================================================
