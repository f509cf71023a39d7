---------------------------- MODULE TxLog_proofs ----------------------------
(***************************************************************************)
(* Facts about transactions and the log: what amounts sum to, which        *)
(* outputs there are, what appending a transaction changes, what           *)
(* get_unspent selects, what a verdict says, and what the outputs at a set *)
(* of places are worth.  SumSeq, the sum of a transaction, is recursive    *)
(* over a sequence, SumAt over a set; a solution of the equations of the   *)
(* former exists because a least length without one is impossible.         *)
(***************************************************************************)
EXTENDS TxLog, FiniteSums_proofs, FunctionTheorems

(* Sums of sequences and of transactions.                                   *)

IsSum(f, s) == f = [n \in 0..Len(s) |-> IF n = 0 THEN 0 ELSE f[n - 1] + s[n]]

\* The equations that define SumSeq have a solution.
LEMMA SumExists ==
    ASSUME NEW s \in Seq(Int)
    PROVE  \E f : IsSum(f, s)
  <1>. DEFINE Upto(n) == \E f \in [0..n -> Int] :
                            f[0] = 0 /\ \A i \in 1..n : f[i] = f[i - 1] + s[i]
              Bad == {n \in Nat : n <= Len(s) /\ ~Upto(n)}
  <1>0. Len(s) \in Nat /\ \A i \in 1..Len(s) : s[i] \in Int
    OBVIOUS
  <1>1. Upto(0)
    <2>. DEFINE f == [i \in 0..0 |-> 0]
    <2>1. f \in [0..0 -> Int] /\ f[0] = 0 /\ \A i \in 1..0 : f[i] = f[i - 1] + s[i]
      OBVIOUS
    <2>. QED
      BY <2>1
  <1>2. ASSUME NEW n \in Nat, n < Len(s), Upto(n)
        PROVE  Upto(n + 1)
    <2>1. PICK f \in [0..n -> Int] : f[0] = 0 /\ \A i \in 1..n : f[i] = f[i - 1] + s[i]
      BY <1>2
    <2>. DEFINE g == [i \in 0..(n + 1) |-> IF i = n + 1 THEN f[n] + s[n + 1] ELSE f[i]]
    <2>2. g \in [0..(n + 1) -> Int]
      BY <1>0, <1>2
    <2>3. g[0] = 0
      BY <2>1
    <2>4. ASSUME NEW i \in 1..(n + 1)
          PROVE  g[i] = g[i - 1] + s[i]
      <3>1. CASE i = n + 1
        BY <3>1
      <3>2. CASE i \in 1..n
        <4>1. g[i] = f[i] /\ g[i - 1] = f[i - 1]
          BY <3>2
        <4>. QED
          BY <4>1, <3>2, <2>1
      <3>. QED
        BY <3>1, <3>2
    <2>. HIDE DEF g
    <2>. QED
      BY <2>2, <2>3, <2>4
  <1>. HIDE DEF Upto
  <1>3. Bad = {}
    <2>. SUFFICES ASSUME Bad # {} PROVE FALSE
      OBVIOUS
    <2>1. PICK m \in Bad : \A n \in Bad : m <= n
      BY Least
    <2>2. m # 0
      BY <1>1
    <2>3. m - 1 \in Nat /\ m - 1 < Len(s) /\ Upto(m - 1)
      BY <2>1, <2>2, <1>0
    <2>. QED
      BY <1>2, <2>3
  <1>4. Upto(Len(s))
    BY <1>3, <1>0
  <1>5. PICK f \in [0..Len(s) -> Int] :
           f[0] = 0 /\ \A i \in 1..Len(s) : f[i] = f[i - 1] + s[i]
    BY <1>4 DEF Upto
  <1>. QED
    BY <1>5, <1>0 DEF IsSum

\* SumSeq is a solution of its equations, at the length of the sequence.
LEMMA SumDef ==
    ASSUME NEW s \in Seq(Int)
    PROVE  \E f : IsSum(f, s) /\ SumSeq(s) = f[Len(s)]
  <1>. DEFINE sum == CHOOSE f : IsSum(f, s)
  <1>1. SumSeq(s) = sum[Len(s)]
    BY DEF SumSeq, IsSum
  <1>2. IsSum(sum, s)
    BY SumExists
  <1>. QED
    BY <1>1, <1>2

\* A sum of integers is an integer.
LEMMA SumIsInt ==
    ASSUME NEW s \in Seq(Int)
    PROVE  SumSeq(s) \in Int
  <1>1. PICK sum : IsSum(sum, s) /\ SumSeq(s) = sum[Len(s)]
    BY SumDef
  <1>. DEFINE Bad == {n \in Nat : n <= Len(s) /\ sum[n] \notin Int}
  <1>2. Len(s) \in Nat /\ \A i \in 1..Len(s) : s[i] \in Int
    OBVIOUS
  <1>3. Bad = {}
    <2>. SUFFICES ASSUME Bad # {} PROVE FALSE
      OBVIOUS
    <2>1. PICK m \in Bad : \A n \in Bad : m <= n
      BY Least
    <2>2. m # 0
      BY <1>1, <1>2 DEF IsSum
    <2>3. m - 1 \in Nat /\ sum[m - 1] \in Int
      BY <2>1, <2>2, <1>2
    <2>. QED
      BY <1>1, <1>2, <2>2, <2>3 DEF IsSum
  <1>. QED
    BY <1>1, <1>2, <1>3

\* The sums of one and of two amounts.
LEMMA SumOfOne ==
    ASSUME NEW x \in Int
    PROVE  SumSeq(<<x>>) = x
  <1>. DEFINE s == <<x>>
  <1>1. s \in Seq(Int) /\ Len(s) = 1 /\ s[1] = x
    OBVIOUS
  <1>. HIDE DEF s
  <1>2. PICK sum : IsSum(sum, s) /\ SumSeq(s) = sum[1]
    BY <1>1, SumDef
  <1>3. sum[0] = 0 /\ sum[1] = sum[0] + s[1]
    BY <1>1, <1>2 DEF IsSum
  <1>. QED
    BY <1>1, <1>2, <1>3 DEF s

\* Two amounts sum to their sum.
LEMMA SumOfTwo ==
    ASSUME NEW x \in Int, NEW y \in Int
    PROVE  SumSeq(<<x, y>>) = x + y
  <1>. DEFINE s == <<x, y>>
  <1>1. s \in Seq(Int) /\ Len(s) = 2 /\ s[1] = x /\ s[2] = y
    OBVIOUS
  <1>. HIDE DEF s
  <1>2. PICK sum : IsSum(sum, s) /\ SumSeq(s) = sum[2]
    BY <1>1, SumDef
  <1>3. sum[0] = 0 /\ sum[1] = sum[0] + s[1] /\ sum[2] = sum[1] + s[2]
    BY <1>1, <1>2 DEF IsSum
  <1>. QED
    BY <1>1, <1>2, <1>3 DEF s

-----------------------------------------------------------------------------

\* The total of inputs is an integer.
LEMMA TotalIsInt ==
    ASSUME NEW items \in Seq(Utxo)
    PROVE  Total(items) \in Int
  <1>1. \A k \in DOMAIN items : items[k] \in Utxo
    OBVIOUS
  <1>2. \A k \in DOMAIN items : items[k].amount \in Int
    BY <1>1 DEF Utxo
  <1>3. [k \in DOMAIN items |-> items[k].amount] \in Seq(Int)
    BY <1>2
  <1>. QED
    BY <1>3, SumIsInt DEF Total

\* The total of one and of two outputs.
LEMMA TotalOfOne ==
    ASSUME NEW a, NEW x \in Int
    PROVE  Total(<<To(a, x)>>) = x
  <1>1. [k \in DOMAIN <<To(a, x)>> |-> <<To(a, x)>>[k].amount] = <<x>>
    BY DEF To
  <1>. QED
    BY <1>1, SumOfOne DEF Total

\* The total of two outputs is the sum of their amounts.
LEMMA TotalOfTwo ==
    ASSUME NEW a, NEW x \in Int, NEW b, NEW y \in Int
    PROVE  Total(<<To(a, x), To(b, y)>>) = x + y
  <1>. DEFINE items == <<To(a, x), To(b, y)>>
  <1>1. [k \in DOMAIN items |-> items[k].amount] = <<x, y>>
    BY DEF To
  <1>. QED
    BY <1>1, SumOfTwo DEF Total

\* Transaction::new builds the transaction or names one of two errors.
LEMMA NewVerdictType ==
    ASSUME NEW from, NEW to
    PROVE  NewVerdict(from, to) \in {"Ok", "InvalidFrom", "Imbalanced"}
  BY DEF NewVerdict

-----------------------------------------------------------------------------
(* Outputs, selections and verdicts.                                        *)

\* A place is the index of a transaction and the index of one of its outputs.
LEMMA InPlaces ==
    ASSUME NEW log
    PROVE  \A p : p \in Places(log) <=>
                     \E i \in DOMAIN log : \E k \in DOMAIN log[i].to : p = <<i, k>>
  BY DEF Places

\* A place names a transaction of the log and one of its outputs.
LEMMA PlaceType ==
    ASSUME NEW log \in Seq(Transaction), NEW p \in Places(log)
    PROVE  /\ p[1] \in 1..Len(log) /\ p[2] \in 1..Len(log[p[1]].to)
           /\ p[1] \in Nat /\ p[2] \in Nat
           /\ OutputAt(log, p) \in Output
           /\ UtxoAt(log, p) \in Utxo
  <1>1a. PICK i \in DOMAIN log : \E k \in DOMAIN log[i].to : p = <<i, k>>
    BY InPlaces
  <1>1. PICK k \in DOMAIN log[i].to : p = <<i, k>>
    BY <1>1a
  <1>2. i \in 1..Len(log) /\ log[i] \in Transaction /\ Len(log) \in Nat
    OBVIOUS
  <1>3. log[i].to \in Seq(Output) /\ log[i].id \in HashId
    BY <1>2 DEF Transaction
  <1>4. k \in 1..Len(log[i].to) /\ log[i].to[k] \in Output /\ Len(log[i].to) \in Nat
    BY <1>3
  <1>5. OutputAt(log, p) \in Output
    BY <1>1, <1>4 DEF OutputAt
  <1>6. OutputAt(log, p).amount \in Int
    BY <1>5 DEF Output
  <1>7. <<log[p[1]].id, p[2] - 1>> \in UtxoId
    BY <1>1, <1>3, <1>4 DEF UtxoId
  <1>8. UtxoAt(log, p) \in Utxo
    BY <1>6, <1>7 DEF UtxoAt, Utxo
  <1>. QED
    BY <1>1, <1>2, <1>4, <1>5, <1>8

\* There are finitely many outputs.
LEMMA PlacesFinite ==
    ASSUME NEW log \in Seq(Transaction)
    PROVE  IsFiniteSet(Places(log))
  <1>. DEFINE f == [i \in DOMAIN log |-> {i} \X DOMAIN log[i].to]
              T == {{i} \X DOMAIN log[i].to : i \in DOMAIN log}
  <1>1. Len(log) \in Nat /\ DOMAIN log = 1..Len(log)
    OBVIOUS
  <1>2. IsFiniteSet(DOMAIN log)
    BY <1>1, FS_Interval
  <1>3. f \in Surjection(DOMAIN log, T)
    BY DEF Surjection
  <1>4. IsFiniteSet(T)
    <2>. HIDE DEF f, T
    <2>. QED
      BY <1>2, <1>3, FS_Surjection
  <1>5. \A t \in T : IsFiniteSet(t)
    <2>. SUFFICES ASSUME NEW i \in DOMAIN log PROVE IsFiniteSet({i} \X DOMAIN log[i].to)
      OBVIOUS
    <2>1. log[i] \in Transaction
      OBVIOUS
    <2>2. log[i].to \in Seq(Output)
      BY <2>1 DEF Transaction
    <2>3. Len(log[i].to) \in Nat /\ DOMAIN log[i].to = 1..Len(log[i].to)
      BY <2>2
    <2>4. IsFiniteSet(DOMAIN log[i].to)
      BY <2>3, FS_Interval
    <2>5. IsFiniteSet({i})
      BY FS_Singleton
    <2>. QED
      BY <2>4, <2>5, FS_Product
  <1>. QED
    BY <1>4, <1>5, FS_UNION DEF Places

-----------------------------------------------------------------------------
(* Appending a transaction.                                                 *)

\* Appending a transaction leaves the ones before it where they are.
LEMMA AppendTx ==
    ASSUME NEW log \in Seq(Transaction), NEW tx \in Transaction
    PROVE  LET new == Append(log, tx) IN
           /\ new \in Seq(Transaction)
           /\ Len(log) \in Nat
           /\ DOMAIN log = 1..Len(log)
           /\ DOMAIN new = 1..(Len(log) + 1)
           /\ \A i \in DOMAIN log : new[i] = log[i]
           /\ new[Len(log) + 1] = tx
  OBVIOUS

\* The outputs there were stay where they are, unchanged.
LEMMA AppendKeepsPlaces ==
    ASSUME NEW log \in Seq(Transaction), NEW tx \in Transaction,
           NEW p \in Places(log)
    PROVE  LET new == Append(log, tx) IN
           /\ p \in Places(new)
           /\ OutputAt(new, p) = OutputAt(log, p)
           /\ UtxoAt(new, p) = UtxoAt(log, p)
  <1>. DEFINE new == Append(log, tx)
  <1>1a. PICK i \in DOMAIN log : \E k \in DOMAIN log[i].to : p = <<i, k>>
    BY InPlaces
  <1>1. PICK k \in DOMAIN log[i].to : p = <<i, k>>
    BY <1>1a
  <1>2. i \in DOMAIN new /\ new[i] = log[i]
    BY AppendTx
  <1>. HIDE DEF new
  <1>3. p \in Places(new)
    BY <1>1, <1>2, InPlaces
  <1>4. OutputAt(new, p) = OutputAt(log, p) /\ UtxoAt(new, p) = UtxoAt(log, p)
    BY <1>1, <1>2 DEF OutputAt, UtxoAt
  <1>. QED
    BY <1>3, <1>4 DEF new

\* The outputs of the new transaction are the only new ones.
LEMMA AppendAddsPlaces ==
    ASSUME NEW log \in Seq(Transaction), NEW tx \in Transaction
    PROVE  LET new == Append(log, tx) IN
           /\ \A k \in DOMAIN tx.to :
                 /\ <<Len(log) + 1, k>> \in Places(new)
                 /\ OutputAt(new, <<Len(log) + 1, k>>) = tx.to[k]
                 /\ UtxoAt(new, <<Len(log) + 1, k>>)
                       = [id |-> <<tx.id, k - 1>>, amount |-> tx.to[k].amount]
           /\ \A p \in Places(new) : p \in Places(log) \/ p[1] = Len(log) + 1
  <1>. DEFINE new == Append(log, tx)
              last == Len(log) + 1
  <1>1. last \in DOMAIN new /\ new[last] = tx
    BY AppendTx
  <1>2. \A i \in DOMAIN new : i = last \/ (i \in DOMAIN log /\ new[i] = log[i])
    BY AppendTx
  <1>. HIDE DEF new, last
  <1>3. ASSUME NEW k \in DOMAIN tx.to
        PROVE  /\ <<last, k>> \in Places(new)
               /\ OutputAt(new, <<last, k>>) = tx.to[k]
               /\ UtxoAt(new, <<last, k>>) = [id |-> <<tx.id, k - 1>>, amount |-> tx.to[k].amount]
    BY <1>1, InPlaces DEF OutputAt, UtxoAt
  <1>4. ASSUME NEW p \in Places(new)
        PROVE  p \in Places(log) \/ p[1] = last
    <2>1a. PICK i \in DOMAIN new : \E k \in DOMAIN new[i].to : p = <<i, k>>
      BY InPlaces
    <2>1. PICK k \in DOMAIN new[i].to : p = <<i, k>>
      BY <2>1a
    <2>. QED
      BY <2>1, <1>2, InPlaces
  <1>. QED
    BY <1>3, <1>4 DEF new, last

-----------------------------------------------------------------------------
(* get_unspent.                                                             *)

\* The transactions of a log have different hashes.
UniqueIds(log) == \A i, j \in DOMAIN log : log[i].id = log[j].id => i = j

\* Each input of a transaction is a different output.
DistinctInputs(from) == \A k, l \in DOMAIN from : from[k].id = from[l].id => k = l

\* Then an output is named by the hash and its position.
LEMMA UtxoNamesPlace ==
    ASSUME NEW log \in Seq(Transaction), UniqueIds(log),
           NEW p \in Places(log), NEW q \in Places(log),
           UtxoAt(log, p).id = UtxoAt(log, q).id
    PROVE  p = q
  <1>1a. PICK i \in DOMAIN log : \E k \in DOMAIN log[i].to : p = <<i, k>>
    BY InPlaces
  <1>1. PICK k \in DOMAIN log[i].to : p = <<i, k>>
    BY <1>1a
  <1>2a. PICK j \in DOMAIN log : \E l \in DOMAIN log[j].to : q = <<j, l>>
    BY InPlaces
  <1>2. PICK l \in DOMAIN log[j].to : q = <<j, l>>
    BY <1>2a
  <1>3. k \in Nat /\ l \in Nat
    BY <1>1, <1>2, PlaceType
  <1>4. log[i].id = log[j].id /\ k - 1 = l - 1
    BY <1>1, <1>2 DEF UtxoAt
  <1>5. i = j
    BY <1>4 DEF UniqueIds
  <1>. QED
    BY <1>1, <1>2, <1>3, <1>4, <1>5

\* get_unspent answers with unspent outputs of the account, one from each of a
\* sequence of different places.
LEMMA SelectedPlaces ==
    ASSUME NEW log \in Seq(Transaction),
           NEW account, NEW target, NEW inputs \in GetUnspent(log, account, target)
    PROVE  \E N \in Nat : \E o \in [1..N -> UnspentPlaces(log, account)] :
              /\ \A m, n \in 1..N : m # n => o[m] # o[n]
              /\ inputs = [n \in 1..N |-> UtxoAt(log, o[n])]
  <1>1. PICK taken \in Taken(log, account, target) : \E o \in SetToSeqs(taken) :
           inputs = [n \in DOMAIN o |-> UtxoAt(log, o[n])]
    BY DEF GetUnspent
  <1>2. taken \subseteq UnspentPlaces(log, account)
    BY <1>1 DEF Taken, Scans
  <1>3. UnspentPlaces(log, account) \subseteq Places(log)
    BY DEF UnspentPlaces
  <1>4. Cardinality(taken) \in Nat
    BY <1>2, <1>3, PlacesFinite, FS_Subset, FS_CardinalityType
  <1>5. PICK o \in [1..Cardinality(taken) -> taken] :
           /\ \A m, n \in 1..Cardinality(taken) : m # n => o[m] # o[n]
           /\ inputs = [n \in DOMAIN o |-> UtxoAt(log, o[n])]
    BY <1>1 DEF SetToSeqs
  <1>6. /\ o \in [1..Cardinality(taken) -> UnspentPlaces(log, account)]
        /\ inputs = [n \in 1..Cardinality(taken) |-> UtxoAt(log, o[n])]
    BY <1>2, <1>5
  <1>. QED
    BY <1>4, <1>5, <1>6

\* Each is given at its recorded amount.
LEMMA Selected ==
    ASSUME NEW log \in Seq(Transaction),
           NEW account, NEW target, NEW inputs \in GetUnspent(log, account, target)
    PROVE  /\ inputs \in Seq(Utxo)
           /\ \A n \in DOMAIN inputs : \E p \in UnspentPlaces(log, account) :
                 inputs[n] = UtxoAt(log, p)
  <1>1. PICK N \in Nat : \E o \in [1..N -> UnspentPlaces(log, account)] :
           inputs = [n \in 1..N |-> UtxoAt(log, o[n])]
    BY SelectedPlaces
  <1>2. PICK o \in [1..N -> UnspentPlaces(log, account)] :
           inputs = [n \in 1..N |-> UtxoAt(log, o[n])]
    BY <1>1
  <1>3. \A p \in UnspentPlaces(log, account) : UtxoAt(log, p) \in Utxo
    BY PlaceType DEF UnspentPlaces
  <1>4. inputs \in [1..N -> Utxo]
    BY <1>2, <1>3
  <1>. QED
    BY <1>2, <1>4

\* No output is selected twice.
LEMMA SelectedDistinct ==
    ASSUME NEW log \in Seq(Transaction), UniqueIds(log),
           NEW account, NEW target, NEW inputs \in GetUnspent(log, account, target)
    PROVE  DistinctInputs(inputs)
  <1>1. PICK N \in Nat : \E o \in [1..N -> UnspentPlaces(log, account)] :
           /\ \A m, n \in 1..N : m # n => o[m] # o[n]
           /\ inputs = [n \in 1..N |-> UtxoAt(log, o[n])]
    BY SelectedPlaces
  <1>2. PICK o \in [1..N -> UnspentPlaces(log, account)] :
           /\ \A m, n \in 1..N : m # n => o[m] # o[n]
           /\ inputs = [n \in 1..N |-> UtxoAt(log, o[n])]
    BY <1>1
  <1>3. \A n \in 1..N : o[n] \in Places(log)
    BY <1>2 DEF UnspentPlaces
  <1>. QED
    BY <1>2, <1>3, UtxoNamesPlace DEF DistinctInputs

-----------------------------------------------------------------------------
(* store_tx.                                                                *)

\* What store_tx can find about one input.
LEMMA InputVerdictType ==
    ASSUME NEW log, NEW input
    PROVE  InputVerdict(log, input) \in {"Ok", "MissingUtxo", "SpentUtxo", "MismatchAmount"}
  BY DEF InputVerdict

\* What store_tx can answer.
LEMMA VerdictType ==
    ASSUME NEW log, NEW tx
    PROVE  Verdict(log, tx) \in
              {"Ok", "Duplicate", "MissingUtxo", "SpentUtxo", "MismatchAmount"}
  BY InputVerdictType DEF Verdict

\* A transaction that is accepted has a new hash and a reference none of the
\* accounts it credits has been credited under, and spends unspent outputs.
LEMMA Accepted ==
    ASSUME NEW log, NEW tx \in Transaction, Verdict(log, tx) = "Ok"
    PROVE  /\ \A i \in DOMAIN log : log[i].id # tx.id
           /\ \A k \in DOMAIN tx.to : Found(log, tx.to[k].account, tx.reference) = {}
           /\ \A k \in DOMAIN tx.from :
                 /\ tx.from[k].id \notin Spent(log)
                 /\ \E p \in Places(log) : UtxoAt(log, p) = tx.from[k]
  <1>1. ~IsDuplicate(log, tx)
    BY DEF Verdict
  <1>. DEFINE refused == {k \in DOMAIN tx.from : InputVerdict(log, tx.from[k]) # "Ok"}
  <1>2. refused = {}
    <2>. SUFFICES ASSUME refused # {} PROVE FALSE
      OBVIOUS
    <2>. DEFINE first == CHOOSE k \in refused : \A j \in refused : k <= j
    <2>1. InputVerdict(log, tx.from[first]) = "Ok"
      BY <1>1 DEF Verdict
    <2>2. tx.from \in Seq(Utxo)
      BY DEF Transaction
    <2>3. refused \in SUBSET Nat
      BY <2>2
    <2>4. \E k \in refused : \A j \in refused : k <= j
      BY <2>3, Least
    <2>. QED
      BY <2>1, <2>4
  <1>3. \A k \in DOMAIN tx.from : InputVerdict(log, tx.from[k]) = "Ok"
    BY <1>2
  <1>4. ASSUME NEW k \in DOMAIN tx.from
        PROVE  /\ tx.from[k].id \notin Spent(log)
               /\ \E p \in Places(log) : UtxoAt(log, p) = tx.from[k]
    BY <1>3, <1>4 DEF InputVerdict
  <1>. QED
    BY <1>1, <1>4 DEF IsDuplicate
-----------------------------------------------------------------------------
(* Sums of the amounts at places.                                           *)

Amounts(log) == [p \in Places(log) |-> OutputAt(log, p).amount]

\* Any set of places is finite, and there are amounts at them.
LEMMA PlacesSummable ==
    ASSUME NEW log \in Seq(Transaction), NEW S \in SUBSET Places(log)
    PROVE  IsFiniteSet(S) /\ \A p \in S : Amounts(log)[p] \in Int
  <1>1. IsFiniteSet(S)
    BY PlacesFinite, FS_Subset
  <1>2. \A p \in S : OutputAt(log, p).amount \in Int
    BY PlaceType DEF Output
  <1>. QED
    BY <1>1, <1>2 DEF Amounts

\* SumAt is a solution of its recursion.
LEMMA SumAtFold ==
    ASSUME NEW log \in Seq(Transaction), NEW S \in SUBSET Places(log)
    PROVE  \E g : IsFold(g, Amounts(log), S) /\ SumAt(log, S) = g[S]
  <1>. DEFINE Solves(g) == g = [s \in SUBSET S |->
                  IF s = {} THEN 0
                  ELSE OutputAt(log, CHOOSE p \in s : TRUE).amount
                          + g[s \ {CHOOSE p \in s : TRUE}]]
              iter == CHOOSE g : Solves(g)
  <1>1. SumAt(log, S) = iter[S]
    BY DEF SumAt, MapThenSumSet, MapThenFoldSet
  <1>2. ASSUME NEW g
        PROVE  Solves(g) <=> IsFold(g, Amounts(log), S)
    <2>1. ASSUME NEW s \in SUBSET S, s # {}
          PROVE  Amounts(log)[Pick(s)] = OutputAt(log, CHOOSE p \in s : TRUE).amount
      BY <2>1, PickIn DEF Amounts, Pick
    <2>. QED
      BY <2>1 DEF IsFold, Pick
  <1>3. \E g : IsFold(g, Amounts(log), S)
    BY PlacesSummable, FoldExists
  <1>. HIDE DEF Solves
  <1>4. Solves(iter)
    BY <1>2, <1>3
  <1>. QED
    BY <1>1, <1>2, <1>4

\* Sums are integers, and nothing sums to zero.
LEMMA SumAtType ==
    ASSUME NEW log \in Seq(Transaction), NEW S \in SUBSET Places(log)
    PROVE  SumAt(log, S) \in Int /\ SumAt(log, {}) = 0
  <1>1. PICK g : IsFold(g, Amounts(log), S) /\ SumAt(log, S) = g[S]
    BY SumAtFold
  <1>2. g[S] \in Int
    BY <1>1, PlacesSummable, FoldIsInt
  <1>3. PICK e : IsFold(e, Amounts(log), {}) /\ SumAt(log, {}) = e[{}]
    BY SumAtFold
  <1>4. e[{}] = 0
    BY <1>3 DEF IsFold
  <1>. QED
    BY <1>1, <1>2, <1>3, <1>4

\* A place adds its amount to the sum of the others.
LEMMA SumAtRemove ==
    ASSUME NEW log \in Seq(Transaction), NEW S \in SUBSET Places(log), NEW p \in S
    PROVE  SumAt(log, S) = OutputAt(log, p).amount + SumAt(log, S \ {p})
  <1>1. PICK g : IsFold(g, Amounts(log), S) /\ SumAt(log, S) = g[S]
    BY SumAtFold
  <1>2. PICK h : IsFold(h, Amounts(log), S \ {p}) /\ SumAt(log, S \ {p}) = h[S \ {p}]
    BY SumAtFold
  <1>. DEFINE f == Amounts(log)
              R == S \ {p}
  <1>3. IsFiniteSet(S) /\ IsFiniteSet(R) /\ \A q \in S : f[q] \in Int
    BY PlacesSummable
  <1>4. f[p] = OutputAt(log, p).amount
    BY DEF Amounts
  <1>. HIDE DEF f
  <1>5. g[S] = f[p] + g[R]
    BY <1>1, <1>3, FoldAnyFirst DEF f
  <1>6. R \in SUBSET (S \cap R) /\ \A q \in R : f[q] = f[q]
    OBVIOUS
  <1>. HIDE DEF R
  <1>7. g[R] = h[R]
    BY <1>1, <1>2, <1>3, <1>6, FoldUnique DEF f, R
  <1>. QED
    BY <1>1, <1>2, <1>4, <1>5, <1>7 DEF R

\* The sum over places that two logs agree about is the same in both.
LEMMA SumAtSame ==
    ASSUME NEW log \in Seq(Transaction), NEW new \in Seq(Transaction),
           NEW S \in SUBSET (Places(log) \cap Places(new)),
           \A p \in S : OutputAt(new, p) = OutputAt(log, p)
    PROVE  SumAt(new, S) = SumAt(log, S)
  <1>1. PICK g : IsFold(g, Amounts(log), S) /\ SumAt(log, S) = g[S]
    BY SumAtFold
  <1>2. PICK h : IsFold(h, Amounts(new), S) /\ SumAt(new, S) = h[S]
    BY SumAtFold
  <1>. DEFINE f == Amounts(log)
              e == Amounts(new)
  <1>3. IsFiniteSet(S) /\ S \in SUBSET (S \cap S) /\ \A p \in S : f[p] = e[p]
    BY PlacesSummable DEF Amounts
  <1>. HIDE DEF f, e
  <1>4. g[S] = h[S]
    BY <1>1, <1>2, <1>3, FoldUnique DEF f, e
  <1>. QED
    BY <1>1, <1>2, <1>4

\* The sums over two sets of different places add up.
LEMMA SumAtUnion ==
    ASSUME NEW log \in Seq(Transaction), NEW S \in SUBSET Places(log),
           NEW T \in SUBSET Places(log), S \cap T = {}
    PROVE  SumAt(log, S \cup T) = SumAt(log, S) + SumAt(log, T)
  <1>. DEFINE Adds(U) == SumAt(log, S \cup U) = SumAt(log, S) + SumAt(log, U)
              Bad == {n \in Nat : \E U \in SUBSET T : Cardinality(U) = n /\ ~Adds(U)}
  <1>0. \A U \in SUBSET T : IsFiniteSet(U) /\ Cardinality(U) \in Nat
    BY PlacesSummable, FS_CardinalityType
  <1>1. Bad = {}
    <2>. SUFFICES ASSUME Bad # {} PROVE FALSE
      OBVIOUS
    <2>1. PICK m \in Bad : \A n \in Bad : m <= n
      BY Least
    <2>2. PICK U \in SUBSET T : Cardinality(U) = m /\ ~Adds(U)
      BY <2>1
    <2>3. U # {}
      <3>1. Adds({})
        BY SumAtType
      <3>. QED
        BY <2>2, <3>1
    <2>4. PICK p \in U : TRUE
      BY <2>3
    <2>. DEFINE V == U \ {p}
    <2>5. Cardinality(V) \in Nat /\ Cardinality(V) < m
      BY <1>0, <2>2, <2>4, Smaller
    <2>6. Adds(V)
      <3>1. m \in Nat /\ \A n \in Bad : m <= n
        BY <2>1
      <3>2. Cardinality(V) \notin Bad
        <4>. HIDE DEF Bad, V
        <4>. QED
          BY <2>5, <3>1
      <3>3. V \in SUBSET T
        OBVIOUS
      <3>. HIDE DEF Adds, V
      <3>. QED
        BY <2>5, <3>2, <3>3
    <2>7. SumAt(log, U) = OutputAt(log, p).amount + SumAt(log, V)
      BY <2>2, <2>4, SumAtRemove
    <2>8. SumAt(log, S \cup U) = OutputAt(log, p).amount + SumAt(log, S \cup V)
      <3>1. p \in S \cup U /\ (S \cup U) \ {p} = S \cup V /\ S \cup U \in SUBSET Places(log)
        BY <2>2, <2>4
      <3>. QED
        BY <3>1, SumAtRemove
    <2>9. /\ SumAt(log, S) \in Int /\ SumAt(log, V) \in Int
          /\ OutputAt(log, p).amount \in Int
      <3>1. OutputAt(log, p) \in Output
        BY <2>2, <2>4, PlaceType
      <3>. QED
        BY <2>2, <3>1, SumAtType DEF Output
    <2>. HIDE DEF Bad, V
    <2>. QED
      BY <2>2, <2>6, <2>7, <2>8, <2>9
  <1>. QED
    BY <1>0, <1>1

\* The amounts at different places, one after the other, sum to the sum over
\* the places.
LEMMA SumAtListed ==
    ASSUME NEW log \in Seq(Transaction), NEW N \in Nat, NEW o \in [1..N -> Places(log)],
           \A m, n \in 1..N : m # n => o[m] # o[n]
    PROVE  SumSeq([n \in 1..N |-> OutputAt(log, o[n]).amount])
              = SumAt(log, {o[n] : n \in 1..N})
  <1>. DEFINE s == [n \in 1..N |-> OutputAt(log, o[n]).amount]
              First(n) == {o[i] : i \in 1..n}
  <1>1. \A n \in 1..N : OutputAt(log, o[n]).amount \in Int
    BY PlaceType DEF Output
  <1>2. s \in Seq(Int) /\ Len(s) = N /\ \A n \in 1..N : s[n] = OutputAt(log, o[n]).amount
    BY <1>1
  <1>. HIDE DEF s
  <1>3. PICK sum : IsSum(sum, s) /\ SumSeq(s) = sum[N]
    BY <1>2, SumDef
  <1>4. sum[0] = 0 /\ \A n \in 1..N : sum[n] = sum[n - 1] + s[n]
    BY <1>2, <1>3 DEF IsSum
  <1>. DEFINE Wrong == {n \in Nat : n <= N /\ sum[n] # SumAt(log, First(n))}
  <1>5. Wrong = {}
    <2>. SUFFICES ASSUME Wrong # {} PROVE FALSE
      OBVIOUS
    <2>1. PICK m \in Wrong : \A n \in Wrong : m <= n
      BY Least
    <2>2. m # 0
      <3>1. First(0) = {}
        OBVIOUS
      <3>. QED
        BY <1>4, <2>1, <3>1, SumAtType
    <2>3. m \in 1..N /\ m - 1 \in Nat /\ m - 1 \notin Wrong
      BY <2>1, <2>2
    <2>4. sum[m - 1] = SumAt(log, First(m - 1))
      BY <2>3
    <2>5. o[m] \in First(m) /\ First(m) \ {o[m]} = First(m - 1) /\ First(m) \in SUBSET Places(log)
      <3>1. ASSUME NEW i \in 1..m, o[i] # o[m]
            PROVE  i \in 1..(m - 1)
        BY <3>1, <2>3
      <3>2. ASSUME NEW i \in 1..(m - 1)
            PROVE  i \in 1..m /\ o[i] # o[m]
        BY <3>2, <2>3
      <3>. QED
        BY <2>3, <3>1, <3>2
    <2>6. SumAt(log, First(m)) = OutputAt(log, o[m]).amount + SumAt(log, First(m) \ {o[m]})
      <3>. HIDE DEF First
      <3>. QED
        BY <2>5, SumAtRemove
    <2>7. OutputAt(log, o[m]).amount \in Int /\ SumAt(log, First(m - 1)) \in Int
      <3>1. First(m - 1) \in SUBSET Places(log)
        BY <2>5
      <3>. HIDE DEF First
      <3>. QED
        BY <1>1, <2>3, <3>1, SumAtType
    <2>8. sum[m] = SumAt(log, First(m))
      <3>. DEFINE x == OutputAt(log, o[m]).amount
                  y == SumAt(log, First(m - 1))
      <3>1. SumAt(log, First(m)) = x + y
        BY <2>5, <2>6
      <3>2. sum[m] = sum[m - 1] + s[m] /\ s[m] = x
        BY <1>2, <1>4, <2>3
      <3>3. sum[m - 1] = y /\ x \in Int /\ y \in Int
        BY <2>4, <2>7
      <3>. HIDE DEF x, y, First
      <3>. QED
        BY <3>1, <3>2, <3>3
    <2>. QED
      BY <2>1, <2>8
  <1>6. sum[N] = SumAt(log, First(N))
    <2>1. N \in Nat /\ N <= N
      OBVIOUS
    <2>. HIDE DEF First
    <2>. QED
      BY <1>5, <2>1
  <1>. QED
    BY <1>3, <1>6 DEF s

\* The inputs that name different outputs at their amounts hold what is there.
LEMMA TotalOfInputs ==
    ASSUME NEW log \in Seq(Transaction), UniqueIds(log),
           NEW from \in Seq(Utxo), DistinctInputs(from),
           \A k \in DOMAIN from : \E p \in Places(log) : UtxoAt(log, p) = from[k]
    PROVE  Total(from) = SumAt(log, {p \in Places(log) :
                                        \E k \in DOMAIN from : from[k].id = UtxoAt(log, p).id})
  <1>. DEFINE o == [k \in 1..Len(from) |-> CHOOSE p \in Places(log) : UtxoAt(log, p) = from[k]]
  <1>1. Len(from) \in Nat /\ DOMAIN from = 1..Len(from)
    OBVIOUS
  <1>2. \A k \in 1..Len(from) : o[k] \in Places(log) /\ UtxoAt(log, o[k]) = from[k]
    BY <1>1
  <1>3. o \in [1..Len(from) -> Places(log)]
    BY <1>2
  <1>. HIDE DEF o
  <1>4. \A m, n \in 1..Len(from) : m # n => o[m] # o[n]
    BY <1>1, <1>2 DEF DistinctInputs
  <1>5. [k \in DOMAIN from |-> from[k].amount]
           = [k \in 1..Len(from) |-> OutputAt(log, o[k]).amount]
    BY <1>1, <1>2 DEF UtxoAt
  <1>6. {p \in Places(log) : \E k \in DOMAIN from : from[k].id = UtxoAt(log, p).id}
           = {o[k] : k \in 1..Len(from)}
    <2>1. ASSUME NEW p \in Places(log), NEW k \in DOMAIN from, from[k].id = UtxoAt(log, p).id
          PROVE  p = o[k]
      BY <1>1, <1>2, <2>1, UtxoNamesPlace
    <2>. QED
      BY <1>1, <1>2, <2>1
  <1>7. SumSeq([k \in 1..Len(from) |-> OutputAt(log, o[k]).amount])
           = SumAt(log, {o[k] : k \in 1..Len(from)})
    BY <1>1, <1>3, <1>4, SumAtListed
  <1>. QED
    BY <1>5, <1>6, <1>7 DEF Total

\* The outputs of the i-th transaction hold what is at its places.
LEMMA TotalOfOutputs ==
    ASSUME NEW log \in Seq(Transaction), NEW i \in DOMAIN log
    PROVE  Total(log[i].to) = SumAt(log, {<<i, k>> : k \in DOMAIN log[i].to})
  <1>. DEFINE to == log[i].to
              o == [k \in 1..Len(to) |-> <<i, k>>]
  <1>1. log[i] \in Transaction
    OBVIOUS
  <1>2. to \in Seq(Output)
    BY <1>1 DEF Transaction
  <1>3. Len(to) \in Nat /\ DOMAIN to = 1..Len(to)
    BY <1>2
  <1>4. o \in [1..Len(to) -> Places(log)]
    BY <1>3, InPlaces
  <1>5. \A m, n \in 1..Len(to) : m # n => o[m] # o[n]
    OBVIOUS
  <1>6. [k \in DOMAIN to |-> to[k].amount] = [k \in 1..Len(to) |-> OutputAt(log, o[k]).amount]
    BY <1>3 DEF OutputAt
  <1>7. {<<i, k>> : k \in DOMAIN to} = {o[k] : k \in 1..Len(to)}
    BY <1>3
  <1>. HIDE DEF to, o
  <1>8. Total(to) = SumAt(log, {o[k] : k \in 1..Len(to)})
    BY <1>3, <1>4, <1>5, <1>6, SumAtListed DEF Total
  <1>. QED
    BY <1>7, <1>8 DEF to

\* The total of what get_unspent answers is what its scan took.
LEMMA SelectedTotal ==
    ASSUME NEW log \in Seq(Transaction),
           NEW account, NEW target, NEW inputs \in GetUnspent(log, account, target)
    PROVE  \E taken \in Taken(log, account, target) : Total(inputs) = SumAt(log, taken)
  <1>1. PICK taken \in Taken(log, account, target) : \E o \in SetToSeqs(taken) :
           inputs = [n \in DOMAIN o |-> UtxoAt(log, o[n])]
    BY DEF GetUnspent
  <1>2. taken \subseteq Places(log)
    BY <1>1 DEF Taken, Scans, UnspentPlaces
  <1>. DEFINE N == Cardinality(taken)
  <1>3. IsFiniteSet(taken) /\ N \in Nat
    BY <1>2, PlacesFinite, FS_Subset, FS_CardinalityType
  <1>4. PICK o \in [1..N -> taken] :
           /\ \A m, n \in 1..N : m # n => o[m] # o[n]
           /\ inputs = [n \in DOMAIN o |-> UtxoAt(log, o[n])]
    BY <1>1 DEF SetToSeqs
  <1>5. {o[n] : n \in 1..N} = taken
    <2>1. o \in Injection(1..N, taken)
      BY <1>4 DEF Injection, IsInjective
    <2>2. Cardinality(1..N) = N
      BY <1>3, FS_Interval
    <2>3. o \in Surjection(1..N, taken)
      BY <1>3, <2>1, <2>2, FS_Injection
    <2>. QED
      BY <1>4, <2>3 DEF Surjection
  <1>6. o \in [1..N -> Places(log)]
    BY <1>2, <1>4
  <1>. HIDE DEF N
  <1>7. SumSeq([n \in 1..N |-> OutputAt(log, o[n]).amount]) = SumAt(log, taken)
    BY <1>3, <1>4, <1>5, <1>6, SumAtListed
  <1>8. [k \in DOMAIN inputs |-> inputs[k].amount] = [n \in 1..N |-> OutputAt(log, o[n]).amount]
    BY <1>4 DEF UtxoAt
  <1>. QED
    BY <1>7, <1>8 DEF Total

\* Amounts that are not negative have a sum that is not.
LEMMA SumAtIsNat ==
    ASSUME NEW log \in Seq(Transaction), NEW S \in SUBSET Places(log),
           \A p \in S : OutputAt(log, p).amount \in Nat
    PROVE  SumAt(log, S) \in Nat
  <1>. DEFINE Fine(T) == SumAt(log, T) \in Nat
              Bad == {n \in Nat : \E T \in SUBSET S : Cardinality(T) = n /\ ~Fine(T)}
  <1>0. \A T \in SUBSET S : IsFiniteSet(T) /\ Cardinality(T) \in Nat
    BY PlacesSummable, FS_CardinalityType
  <1>1. Bad = {}
    <2>. SUFFICES ASSUME Bad # {} PROVE FALSE
      OBVIOUS
    <2>1. PICK m \in Bad : \A n \in Bad : m <= n
      BY Least
    <2>2. PICK T \in SUBSET S : Cardinality(T) = m /\ ~Fine(T)
      BY <2>1
    <2>3. T # {}
      <3>1. Fine({})
        BY SumAtType
      <3>. QED
        BY <2>2, <3>1
    <2>4. PICK p \in T : TRUE
      BY <2>3
    <2>. DEFINE V == T \ {p}
    <2>5. Cardinality(V) \in Nat /\ Cardinality(V) < m
      BY <1>0, <2>2, <2>4, Smaller
    <2>6. V \in SUBSET S
      OBVIOUS
    <2>7. SumAt(log, T) = OutputAt(log, p).amount + SumAt(log, V)
      BY <2>2, <2>4, SumAtRemove
    <2>8. Cardinality(V) \notin Bad
      <3>1. m \in Nat /\ \A n \in Bad : m <= n
        BY <2>1
      <3>. HIDE DEF Bad, V
      <3>. QED
        BY <2>5, <3>1
    <2>9. Fine(V)
      <3>. HIDE DEF V, Fine
      <3>. QED
        BY <2>5, <2>6, <2>8
    <2>. HIDE DEF Bad, V
    <2>. QED
      BY <2>2, <2>4, <2>7, <2>9
  <1>. QED
    BY <1>0, <1>1

\* A part of such a set has no more than the whole.
LEMMA SumAtMonotone ==
    ASSUME NEW log \in Seq(Transaction), NEW S \in SUBSET Places(log), NEW T \in SUBSET S,
           \A p \in S : OutputAt(log, p).amount \in Nat
    PROVE  SumAt(log, T) <= SumAt(log, S)
  <1>. DEFINE R == S \ T
  <1>1. S = T \cup R /\ T \cap R = {} /\ R \in SUBSET Places(log) /\ T \in SUBSET Places(log)
    OBVIOUS
  <1>2. SumAt(log, R) \in Nat /\ SumAt(log, T) \in Int
    BY <1>1, SumAtIsNat, SumAtType
  <1>. HIDE DEF R
  <1>3. SumAt(log, T \cup R) = SumAt(log, T) + SumAt(log, R)
    BY <1>1, SumAtUnion
  <1>. QED
    BY <1>1, <1>2, <1>3

-----------------------------------------------------------------------------
(* Lists of places, one after the other, and what they have.                *)

\* p comes before q when the newest comes first, or when the oldest does.
Sooner(newest, p, q) == IF newest THEN Newer(p, q) ELSE Newer(q, p)

\* order lists the places of S, each once, the newest or the oldest first.
Lists(newest, order, S) ==
    /\ order \in Seq(S)
    /\ \A p \in S : \E n \in DOMAIN order : order[n] = p
    /\ \A m, n \in DOMAIN order : m < n => Sooner(newest, order[m], order[n])

Image(f, order) == [n \in DOMAIN order |-> f[order[n]]]

\* Nothing is listed by the empty sequence, and one place by that of itself.
LEMMA ListsOne ==
    /\ \A newest : Lists(newest, <<>>, {})
    /\ \A newest, p : Lists(newest, <<p>>, {p})
  BY DEF Lists

\* Two lists in a row, the sooner one first, list what both list.
LEMMA ListsBoth ==
    ASSUME NEW newest, NEW S, NEW T, NEW o, NEW q, Lists(newest, o, S), Lists(newest, q, T),
           \A x \in S, y \in T : Sooner(newest, x, y)
    PROVE  Lists(newest, o \o q, S \cup T)
  <1>. DEFINE r == o \o q
  <1>1. /\ o \in Seq(S) /\ q \in Seq(T)
        /\ DOMAIN o = 1..Len(o) /\ DOMAIN q = 1..Len(q) /\ Len(o) \in Nat /\ Len(q) \in Nat
    BY DEF Lists
  <1>2. /\ o \in Seq(S \cup T) /\ q \in Seq(S \cup T)
    BY <1>1
  <1>3. /\ r \in Seq(S \cup T) /\ DOMAIN r = 1..(Len(o) + Len(q))
        /\ \A n \in 1..(Len(o) + Len(q)) : r[n] = IF n <= Len(o) THEN o[n] ELSE q[n - Len(o)]
    BY <1>1, <1>2
  <1>4. ASSUME NEW p \in S \cup T
        PROVE  \E n \in DOMAIN r : r[n] = p
    <2>1. CASE p \in S
      <3>1. PICK n \in DOMAIN o : o[n] = p
        BY <2>1 DEF Lists
      <3>. HIDE DEF r
      <3>. QED
        BY <1>1, <1>3, <3>1
    <2>2. CASE p \in T
      <3>1. PICK n \in DOMAIN q : q[n] = p
        BY <2>2 DEF Lists
      <3>2. /\ Len(o) + n \in 1..(Len(o) + Len(q)) /\ ~(Len(o) + n <= Len(o))
            /\ Len(o) + n - Len(o) = n
        BY <1>1
      <3>. HIDE DEF r
      <3>. QED
        BY <1>3, <3>1, <3>2
    <2>. QED
      BY <2>1, <2>2
  <1>5. ASSUME NEW m \in DOMAIN r, NEW n \in DOMAIN r, m < n
        PROVE  Sooner(newest, r[m], r[n])
    <2>. HIDE DEF r
    <2>1. CASE n <= Len(o)
      BY <1>1, <1>3, <1>5, <2>1 DEF Lists
    <2>2. CASE m > Len(o)
      <3>1. /\ m - Len(o) \in DOMAIN q /\ n - Len(o) \in DOMAIN q /\ m - Len(o) < n - Len(o)
            /\ ~(m <= Len(o)) /\ ~(n <= Len(o))
        BY <1>1, <1>3, <1>5, <2>2
      <3>2. Sooner(newest, q[m - Len(o)], q[n - Len(o)])
        BY <3>1 DEF Lists
      <3>. QED
        BY <1>3, <3>1, <3>2
    <2>3. CASE m <= Len(o) /\ n > Len(o)
      <3>1. m \in DOMAIN o /\ n - Len(o) \in DOMAIN q /\ ~(n <= Len(o))
        BY <1>1, <1>3, <2>3
      <3>2. o[m] \in S /\ q[n - Len(o)] \in T
        BY <1>1, <3>1
      <3>. QED
        BY <1>3, <2>3, <3>1, <3>2
    <2>. QED
      BY <1>1, <1>3, <2>1, <2>2, <2>3
  <1>. QED
    BY <1>3, <1>4, <1>5 DEF Lists

\* The images of two lists in a row are two images in a row.
LEMMA ImageBoth ==
    ASSUME NEW S, NEW T, NEW o \in Seq(S), NEW q \in Seq(T), NEW f
    PROVE  Image(f, o \o q) = Image(f, o) \o Image(f, q)
  <1>. DEFINE u == Image(f, o)
              w == Image(f, q)
              r == o \o q
              N == Len(o) + Len(q)
  <1>1. /\ u \in Seq({f[x] : x \in S}) /\ Len(u) = Len(o)
        /\ \A n \in 1..Len(o) : u[n] = f[o[n]]
    BY DEF Image
  <1>2. /\ w \in Seq({f[x] : x \in T}) /\ Len(w) = Len(q)
        /\ \A n \in 1..Len(q) : w[n] = f[q[n]]
    BY DEF Image
  <1>3. /\ DOMAIN r = 1..N /\ Len(o) \in Nat /\ Len(q) \in Nat
        /\ \A n \in 1..N : r[n] = IF n <= Len(o) THEN o[n] ELSE q[n - Len(o)]
    OBVIOUS
  <1>4. Image(f, r) = [n \in 1..N |-> f[r[n]]]
    BY <1>3 DEF Image
  <1>. HIDE DEF u, w, r
  <1>5. u \o w = [n \in 1..N |-> IF n <= Len(o) THEN u[n] ELSE w[n - Len(o)]]
    <2>. DEFINE R == {f[x] : x \in S} \cup {f[x] : x \in T}
                v == u \o w
    <2>1. u \in Seq(R) /\ w \in Seq(R)
      BY <1>1, <1>2
    <2>. HIDE DEF R
    <2>2. /\ v \in Seq(R) /\ DOMAIN v = 1..(Len(u) + Len(w))
          /\ \A n \in 1..(Len(u) + Len(w)) : v[n] = IF n <= Len(u) THEN u[n] ELSE w[n - Len(u)]
      BY <2>1
    <2>. HIDE DEF v
    <2>3. v = [n \in DOMAIN v |-> v[n]]
      BY <2>2
    <2>4. v = [n \in 1..N |-> IF n <= Len(o) THEN u[n] ELSE w[n - Len(o)]]
      BY <1>1, <1>2, <2>2, <2>3
    <2>. QED
      BY <2>4 DEF v
  <1>6. ASSUME NEW n \in 1..N
        PROVE  f[r[n]] = IF n <= Len(o) THEN u[n] ELSE w[n - Len(o)]
    <2>1. CASE n <= Len(o)
      BY <1>1, <1>3, <2>1
    <2>2. CASE ~(n <= Len(o))
      <3>1. n - Len(o) \in 1..Len(q)
        BY <1>3, <2>2
      <3>. QED
        BY <1>2, <1>3, <2>2, <3>1
    <2>. QED
      BY <2>1, <2>2
  <1>. HIDE DEF N
  <1>7. Image(f, r) = u \o w
    BY <1>4, <1>5, <1>6
  <1>. QED
    BY <1>7 DEF r, u, w

\* The image of one more place.
LEMMA ImageOneMore ==
    ASSUME NEW S, NEW o \in Seq(S), NEW p, NEW f
    PROVE  Image(f, o \o <<p>>) = Image(f, o) \o <<f[p]>>
  <1>. DEFINE T == {p}
              one == <<p>>
  <1>1. one \in Seq(T) /\ Image(f, one) = <<f[p]>>
    BY DEF Image
  <1>. HIDE DEF T, one
  <1>2. \A q \in Seq(T) : Image(f, o \o q) = Image(f, o) \o Image(f, q)
    BY ImageBoth
  <1>. QED
    BY <1>1, <1>2 DEF one

\* The places of a log are ordered, one way and the other.
LEMMA SoonerOrders ==
    ASSUME NEW lg \in Seq(Transaction), NEW newest
    PROVE  \A p, q \in Places(lg) : ~(Sooner(newest, p, q) /\ Sooner(newest, q, p)) /\ ~Sooner(newest, p, p)
  BY PlaceType DEF Newer, Sooner

\* A list of places has each of them once.
LEMMA ListsCount ==
    ASSUME NEW lg \in Seq(Transaction), NEW S \in SUBSET Places(lg), NEW newest, NEW order,
           Lists(newest, order, S)
    PROVE  /\ Len(order) = Cardinality(S) /\ Len(order) \in Nat
           /\ DOMAIN order = 1..Len(order) /\ order \in [1..Len(order) -> S]
           /\ \A m, n \in DOMAIN order : m # n => order[m] # order[n]
           /\ \A m, n \in DOMAIN order : Sooner(newest, order[m], order[n]) => m < n
  <1>1. order \in [1..Len(order) -> S] /\ DOMAIN order = 1..Len(order) /\ Len(order) \in Nat
    BY DEF Lists
  <1>2. \A m, n \in DOMAIN order : order[m] \in Places(lg) /\ (m = n \/ m < n \/ n < m)
    BY <1>1
  <1>3. \A m, n \in DOMAIN order : m < n => Sooner(newest, order[m], order[n])
    BY DEF Lists
  <1>4. \A m, n \in DOMAIN order : order[m] = order[n] => m = n
    BY <1>2, <1>3, SoonerOrders
  <1>5. \A m, n \in DOMAIN order : Sooner(newest, order[m], order[n]) => m < n
    BY <1>2, <1>3, SoonerOrders
  <1>6. order \in Bijection(1..Len(order), S)
    <2>1. order \in Injection(1..Len(order), S)
      BY <1>1, <1>4, Fun_IsInj
    <2>2. order \in Surjection(1..Len(order), S)
      BY <1>1, Fun_IsSurj DEF Lists
    <2>. QED
      BY <2>1, <2>2 DEF Bijection
  <1>7. Cardinality(S) = Len(order)
    BY <1>1, <1>6, FS_CountingElements DEF ExistsBijection
  <1>. QED
    BY <1>1, <1>4, <1>5, <1>7

-----------------------------------------------------------------------------
(* The loop of get_unspent, in either backend.                              *)

\* order has the unspent outputs of the account, and maybe others, in the order
\* in which get_unspent visits them.
Visits(order, lg, account) ==
    /\ order \in Seq(Places(lg))
    /\ \A p \in UnspentPlaces(lg, account) : \E n \in DOMAIN order : order[n] = p
    /\ \A m, n \in DOMAIN order : m < n => Before(order[m], order[n])

LEMMA ListVisits ==
    ASSUME NEW lg, NEW account, NEW S \in SUBSET Places(lg), UnspentPlaces(lg, account) \subseteq S,
           NEW order, Lists(NewestFirst, order, S)
    PROVE  Visits(order, lg, account)
  BY DEF Lists, Visits, Before, Sooner

\* Each place is visited at most once.
LEMMA VisitedOnce ==
    ASSUME NEW lg \in Seq(Transaction), NEW account, NEW order, Visits(order, lg, account)
    PROVE  /\ Len(order) \in Nat /\ DOMAIN order = 1..Len(order)
           /\ order \in [1..Len(order) -> Places(lg)]
           /\ \A m, n \in DOMAIN order : m # n => order[m] # order[n]
           /\ \A m, n \in DOMAIN order : Before(order[m], order[n]) => m < n
  <1>1. order \in [1..Len(order) -> Places(lg)] /\ DOMAIN order = 1..Len(order) /\ Len(order) \in Nat
    BY DEF Visits
  <1>2. \A m, n \in DOMAIN order : order[m] \in Places(lg) /\ (m = n \/ m < n \/ n < m)
    BY <1>1
  <1>3. \A m, n \in DOMAIN order : m < n => Before(order[m], order[n])
    BY DEF Visits
  <1>4. \A p, q \in Places(lg) : ~(Before(p, q) /\ Before(q, p)) /\ ~Before(p, p)
    <2>1. \A p, q : Before(p, q) <=> Sooner(NewestFirst, p, q)
      BY DEF Before, Sooner
    <2>. QED
      BY <2>1, SoonerOrders
  <1>. QED
    BY <1>1, <1>2, <1>3, <1>4

\* The unspent outputs among the first n visited.
Visited(lg, account, order, n) == {order[m] : m \in 1..n} \cap UnspentPlaces(lg, account)
CoinAt(lg) == [p \in Places(lg) |-> UtxoAt(lg, p)]

\* A scan that stops where it first has the target, or at the end, took the
\* outputs that the contract names.
LEMMA FirstStopIsTaken ==
    ASSUME NEW lg \in Seq(Transaction), NEW account, NEW target,
           NEW order, Visits(order, lg, account), NEW c \in 0..Len(order),
           \A i \in 0..(c - 1) : ~Enough(lg, Visited(lg, account, order, i), target),
           c = Len(order) \/ Enough(lg, Visited(lg, account, order, c), target)
    PROVE  Visited(lg, account, order, c) \in Taken(lg, account, target)
  <1>. DEFINE all == UnspentPlaces(lg, account)
              V(n) == Visited(lg, account, order, n)
  <1>1. /\ Len(order) \in Nat /\ DOMAIN order = 1..Len(order)
        /\ \A m, n \in DOMAIN order : Before(order[m], order[n]) => m < n
    BY VisitedOnce
  <1>2. \A m, n \in DOMAIN order : m < n => Before(order[m], order[n])
    BY DEF Visits
  <1>3. \A p \in all : \E n \in DOMAIN order : order[n] = p
    BY DEF Visits
  <1>5. \A n : V(n) = {order[m] : m \in 1..n} \cap all
    BY DEF Visited
  <1>6. /\ c \in Nat /\ \A m \in 1..c : m \in DOMAIN order /\ m \in Nat
        /\ \A n \in DOMAIN order : n \in Nat /\ 1 <= n
    <2>. DEFINE N == Len(order)
    <2>1. N \in Nat /\ DOMAIN order = 1..N /\ c \in 0..N
      BY <1>1
    <2>. HIDE DEF N
    <2>. QED
      BY <2>1
  <1>. HIDE DEF all, V
  <1>7. V(c) \in Scans(all)
    <2>1. ASSUME NEW p \in V(c), NEW q \in all \ V(c)
          PROVE  Before(p, q)
      <3>1. PICK m \in 1..c : order[m] = p
        BY <1>5
      <3>2. PICK n \in DOMAIN order : order[n] = q
        BY <1>3
      <3>3. n \notin 1..c
        BY <1>5, <3>2
      <3>4. m \in DOMAIN order /\ m < n
        BY <1>6, <3>3
      <3>. QED
        BY <1>2, <3>1, <3>2, <3>4
    <2>2. V(c) \in SUBSET all
      BY <1>5
    <2>. QED
      BY <2>1, <2>2 DEF Scans
  <1>8. V(c) = all \/ Enough(lg, V(c), target)
    <2>1. ASSUME c = Len(order)
          PROVE  V(c) = all
      BY <1>1, <1>3, <1>5, <2>1
    <2>. QED
      BY <2>1 DEF V
  <1>9. ASSUME NEW other \in Scans(all), other = all \/ Enough(lg, other, target)
        PROVE  V(c) \subseteq other
    <2>. SUFFICES ASSUME NEW p \in V(c), p \notin other PROVE FALSE
      OBVIOUS
    <2>. DEFINE Left == {m \in 1..c : order[m] \in all \ other}
    <2>1. Left # {} /\ Left \in SUBSET Nat
      BY <1>5, <1>6
    <2>2. PICK m \in Left : \A n \in Left : m <= n
      <3>. HIDE DEF Left
      <3>. QED
        BY <2>1, Least
    <2>3. m \in 1..c /\ m \in DOMAIN order /\ order[m] \in all /\ order[m] \notin other
      BY <1>6
    <2>4. other \subseteq all /\ \A q \in other : Before(q, order[m])
      BY <2>3 DEF Scans
    <2>5. ASSUME NEW q \in other
          PROVE  q \in V(m - 1)
      <3>1. PICK n \in DOMAIN order : order[n] = q
        BY <1>3, <2>4
      <3>2. n < m
        BY <1>1, <2>3, <2>4, <3>1
      <3>3. n \in 1..(m - 1)
        BY <1>6, <2>3, <3>2
      <3>. QED
        BY <1>5, <2>4, <3>1, <3>3
    <2>6. ASSUME NEW q \in V(m - 1)
          PROVE  q \in other
      <3>1. PICK n \in 1..(m - 1) : order[n] = q
        BY <1>5
      <3>2. n \in 1..c /\ ~(m <= n)
        BY <1>6, <2>3
      <3>3. q \in all
        BY <1>5
      <3>. QED
        BY <2>2, <3>1, <3>2, <3>3
    <2>7. other = V(m - 1)
      BY <2>5, <2>6
    <2>8. m - 1 \in 0..(c - 1)
      BY <1>6, <2>3
    <2>9. ~Enough(lg, V(m - 1), target)
      BY <2>8 DEF V
    <2>10. other # all
      BY <2>3
    <2>. QED
      BY <1>9, <2>7, <2>9, <2>10
  <1>10. V(c) \in {taken \in Scans(all) : taken = all \/ Enough(lg, taken, target)}
    BY <1>7, <1>8
  <1>11. V(c) \in Taken(lg, account, target)
    BY <1>9, <1>10 DEF Taken, all
  <1>. QED
    BY <1>11 DEF V

\* What a list of such a set gives is an answer of the contract.
LEMMA ListIsAnswer ==
    ASSUME NEW lg \in Seq(Transaction), NEW account, NEW target,
           NEW taken \in Taken(lg, account, target), NEW o, Lists(NewestFirst, o, taken)
    PROVE  Image(CoinAt(lg), o) \in GetUnspent(lg, account, target)
  <1>1. taken \in SUBSET Places(lg)
    BY DEF Taken, Scans, UnspentPlaces
  <1>2. /\ Len(o) = Cardinality(taken) /\ DOMAIN o = 1..Len(o) /\ o \in [1..Len(o) -> taken]
        /\ \A m, n \in DOMAIN o : m # n => o[m] # o[n]
    BY <1>1, ListsCount
  <1>3. o \in SetToSeqs(taken)
    BY <1>2 DEF SetToSeqs
  <1>4. \A m, n \in DOMAIN o : m < n => Before(o[m], o[n])
    BY DEF Lists, Sooner, Before
  <1>5. Image(CoinAt(lg), o) = [n \in DOMAIN o |-> UtxoAt(lg, o[n])]
    BY <1>1, <1>2 DEF Image, CoinAt
  <1>. QED
    BY <1>3, <1>4, <1>5 DEF GetUnspent

\* After n turns the loop has the unspent outputs of the first c visited: it has
\* stopped at the c-th, which gave it the target, or has not stopped, with all n
\* behind it and not enough yet.
Collected(scan, lg, account, target, order, n, c) ==
    /\ \E o : /\ Lists(NewestFirst, o, Visited(lg, account, order, c))
              /\ scan.coins = Image(CoinAt(lg), o)
    /\ scan.total = SumAt(lg, Visited(lg, account, order, c))
    /\ \A i \in 0..(c - 1) : ~Enough(lg, Visited(lg, account, order, i), target)
    /\ IF scan.done THEN Enough(lg, Visited(lg, account, order, c), target)
       ELSE c = n /\ ~Enough(lg, Visited(lg, account, order, n), target)

HasCollected(scan, lg, account, target, order, n) ==
    \E c \in 0..n : Collected(scan, lg, account, target, order, n, c)

\* What a turn that takes the coin makes of the scan.
Takes(v, s, coin, target) ==
    /\ v.coins = Append(s.coins, coin)
    /\ v.total = s.total + coin.amount
    /\ v.done <=> \E amount \in target : amount <= s.total + coin.amount

\* The next to be visited is passed over, or is one more of the unspent.
LEMMA VisitedNext ==
    ASSUME NEW lg \in Seq(Transaction), NEW account, NEW order, Visits(order, lg, account),
           NEW n \in 1..Len(order)
    PROVE  /\ order[n] \in Places(lg)
           /\ order[n] \notin UnspentPlaces(lg, account) =>
                 Visited(lg, account, order, n) = Visited(lg, account, order, n - 1)
           /\ order[n] \in UnspentPlaces(lg, account) =>
                 /\ Visited(lg, account, order, n)
                       = Visited(lg, account, order, n - 1) \cup {order[n]}
                 /\ order[n] \notin Visited(lg, account, order, n - 1)
                 /\ \A p \in Visited(lg, account, order, n - 1) : Sooner(NewestFirst, p, order[n])
  <1>. DEFINE all == UnspentPlaces(lg, account)
              N == Len(order)
  <1>1. /\ N \in Nat /\ DOMAIN order = 1..N /\ order \in [1..N -> Places(lg)]
        /\ \A i, j \in DOMAIN order : i # j => order[i] # order[j]
    BY VisitedOnce
  <1>2. /\ n \in 1..N
        /\ \A i, j \in DOMAIN order : i < j => Sooner(NewestFirst, order[i], order[j])
    BY DEF Visits, Before, Sooner
  <1>. HIDE DEF N
  <1>3. order[n] \in Places(lg)
    BY <1>1, <1>2
  <1>5. \A i : Visited(lg, account, order, i) = {order[m] : m \in 1..i} \cap all
    BY DEF Visited
  <1>. HIDE DEF all
  <1>6. {order[m] : m \in 1..n} = {order[m] : m \in 1..(n - 1)} \cup {order[n]}
    <2>1. \A m : m \in 1..n <=> (m \in 1..(n - 1) \/ m = n)
      BY <1>1, <1>2
    <2>. QED
      BY <2>1
  <1>7. ASSUME NEW m \in 1..(n - 1)
        PROVE  order[m] # order[n] /\ Sooner(NewestFirst, order[m], order[n])
    <2>1. m \in DOMAIN order /\ n \in DOMAIN order /\ m < n /\ m # n
      BY <1>1, <1>2
    <2>. QED
      BY <1>1, <1>2, <2>1
  <1>. DEFINE V(i) == Visited(lg, account, order, i)
              p == order[n]
  <1>8. V(n) = V(n - 1) \cup ({p} \cap all) /\ V(n - 1) \subseteq {order[m] : m \in 1..(n - 1)}
    BY <1>5, <1>6
  <1>9. \A q \in V(n - 1) : q # p /\ Sooner(NewestFirst, q, p)
    BY <1>7, <1>8
  <1>. HIDE DEF V, p
  <1>10. /\ p \notin all => V(n) = V(n - 1)
         /\ p \in all => V(n) = V(n - 1) \cup {p}
    BY <1>8
  <1>. QED
    BY <1>3, <1>9, <1>10 DEF V, p, all

\* Before its first turn the loop has nothing.
LEMMA NothingCollected ==
    ASSUME NEW lg \in Seq(Transaction), NEW account, NEW target, NEW order,
           NEW s, s.coins = <<>>, s.total = 0, ~s.done
    PROVE  HasCollected(s, lg, account, target, order, 0)
  <1>1. Visited(lg, account, order, 0) = {}
    BY DEF Visited
  <1>2. Lists(NewestFirst, <<>>, {}) /\ Image(CoinAt(lg), <<>>) = <<>>
    BY ListsOne DEF Image
  <1>3. SumAt(lg, {}) = 0 /\ ~Enough(lg, {}, target)
    BY SumAtType DEF Enough
  <1>4. 0..(0 - 1) = {}
    OBVIOUS
  <1>5. \E o : Lists(NewestFirst, o, {}) /\ s.coins = Image(CoinAt(lg), o)
    BY <1>2
  <1>6. Collected(s, lg, account, target, order, 0, 0)
    BY <1>1, <1>3, <1>4, <1>5 DEF Collected
  <1>. QED
    BY <1>6 DEF HasCollected

\* A turn keeps what is said of the scan: one after the loop has stopped and one
\* at an output that is passed over change nothing, and one at an unspent output
\* of the account takes it.
LEMMA TurnCollects ==
    ASSUME NEW lg \in Seq(Transaction), NEW account, NEW target,
           NEW order, Visits(order, lg, account), NEW n \in 1..Len(order),
           NEW s, s.coins \in Seq(Utxo), s.done \in BOOLEAN,
           HasCollected(s, lg, account, target, order, n - 1),
           NEW v, v.done \in BOOLEAN,
           s.done \/ order[n] \notin UnspentPlaces(lg, account) => v = s,
           ~s.done /\ order[n] \in UnspentPlaces(lg, account) =>
              Takes(v, s, UtxoAt(lg, order[n]), target)
    PROVE  HasCollected(v, lg, account, target, order, n)
  <1>. DEFINE V(i) == Visited(lg, account, order, i)
              p == order[n]
              all == UnspentPlaces(lg, account)
              coin == UtxoAt(lg, p)
              x == coin.amount
              f == CoinAt(lg)
  <1>1. /\ p \in Places(lg)
        /\ p \notin all => V(n) = V(n - 1)
        /\ p \in all => /\ V(n) = V(n - 1) \cup {p} /\ p \notin V(n - 1)
                        /\ \A q \in V(n - 1) : Sooner(NewestFirst, q, p)
    BY VisitedNext
  <1>2. n \in Nat /\ n \in 0..n /\ n - 1 \in Nat /\ n - 1 + 1 = n /\ n >= 1
    <2>1. Len(order) \in Nat
      BY VisitedOnce
    <2>. QED
      BY <2>1
  <1>3. PICK c \in 0..(n - 1) : Collected(s, lg, account, target, order, n - 1, c)
    BY DEF HasCollected
  <1>4. c \in 0..n
    BY <1>2
  <1>5. /\ \E o : Lists(NewestFirst, o, V(c)) /\ s.coins = Image(f, o)
        /\ s.total = SumAt(lg, V(c))
        /\ \A i \in 0..(c - 1) : ~Enough(lg, V(i), target)
        /\ s.done => Enough(lg, V(c), target)
        /\ ~s.done => c = n - 1 /\ ~Enough(lg, V(n - 1), target)
    BY <1>3 DEF Collected
  <1>6. /\ s.done \/ p \notin all => v = s
        /\ ~s.done /\ p \in all =>
              /\ v.coins = Append(s.coins, coin)
              /\ v.total = s.total + x
              /\ v.done <=> \E amount \in target : amount <= s.total + x
    BY DEF Takes
  <1>7. coin \in Utxo /\ x \in Int /\ OutputAt(lg, p).amount = x /\ f[p] = coin
    <2>1. coin \in Utxo
      BY <1>1, PlaceType
    <2>2. OutputAt(lg, p).amount = x
      BY DEF UtxoAt
    <2>3. f[p] = coin
      BY <1>1 DEF CoinAt
    <2>. QED
      BY <2>1, <2>2, <2>3 DEF Utxo
  <1>8. \A i : V(i) \in SUBSET Places(lg)
    BY DEF Visited, UnspentPlaces
  <1>. DEFINE Fits(d) == /\ \E o : Lists(NewestFirst, o, V(d)) /\ v.coins = Image(f, o)
                         /\ v.total = SumAt(lg, V(d))
                         /\ \A i \in 0..(d - 1) : ~Enough(lg, V(i), target)
                         /\ v.done => Enough(lg, V(d), target)
                         /\ ~v.done => d = n /\ ~Enough(lg, V(n), target)
  <1>9. \A d : Fits(d) => Collected(v, lg, account, target, order, n, d)
    BY DEF Collected
  <1>. SUFFICES \E d \in 0..n : Fits(d)
    <2>. HIDE DEF Fits
    <2>. QED
      BY <1>9 DEF HasCollected
  <1>. HIDE DEF V, p, all, coin, x, f
  <1>10. PICK o : Lists(NewestFirst, o, V(c)) /\ s.coins = Image(f, o)
    BY <1>5
  <1>11. CASE s.done
    <2>1. Fits(c)
      BY <1>5, <1>6, <1>11
    <2>. HIDE DEF Fits
    <2>. QED
      BY <1>4, <2>1
  <1>12. ASSUME ~s.done
         PROVE  \A i \in 0..(n - 1) : ~Enough(lg, V(i), target)
    <2>1. \A i \in 0..(n - 1) : i = n - 1 \/ i \in 0..(c - 1)
      BY <1>2, <1>5, <1>12
    <2>. QED
      BY <1>5, <1>12, <2>1
  <1>13. CASE ~s.done /\ p \notin all
    <2>1. v = s /\ V(n) = V(n - 1) /\ c = n - 1 /\ V(n) = V(c)
      BY <1>1, <1>5, <1>6, <1>13
    <2>2. Fits(n)
      BY <1>5, <1>12, <1>13, <2>1
    <2>. HIDE DEF Fits
    <2>. QED
      BY <1>2, <2>2
  <1>14. CASE ~s.done /\ p \in all
    <2>1. /\ c = n - 1 /\ V(n) = V(c) \cup {p} /\ p \notin V(c)
          /\ \A q \in V(c) : Sooner(NewestFirst, q, p)
      BY <1>1, <1>5, <1>14
    <2>. DEFINE total == s.total + x
    <2>2. /\ v.coins = Append(s.coins, coin)
          /\ v.total = total
          /\ v.done <=> \E amount \in target : amount <= total
      BY <1>6, <1>14
    <2>3. V(n) \in SUBSET Places(lg) /\ V(c) = V(n) \ {p} /\ p \in V(n)
      BY <1>8, <2>1
    <2>4. SumAt(lg, V(n)) = total
      <3>1. SumAt(lg, V(n)) = OutputAt(lg, p).amount + SumAt(lg, V(n) \ {p})
        BY <2>3, SumAtRemove
      <3>2. SumAt(lg, V(c)) \in Int
        BY <1>8, SumAtType
      <3>3. s.total = SumAt(lg, V(c)) /\ SumAt(lg, V(n) \ {p}) = SumAt(lg, V(c))
        BY <1>5, <2>3
      <3>. QED
        BY <1>7, <3>1, <3>2, <3>3
    <2>5. v.done <=> Enough(lg, V(n), target)
      <3>1. Enough(lg, V(n), target) <=> \E amount \in target : SumAt(lg, V(n)) >= amount
        BY <2>3 DEF Enough
      <3>. HIDE DEF total
      <3>. QED
        BY <2>2, <2>4, <3>1
    <2>. DEFINE q == o \o <<p>>
    <2>6. Lists(NewestFirst, q, V(n))
      <3>1. Lists(NewestFirst, <<p>>, {p})
        BY ListsOne
      <3>. QED
        BY <1>10, <2>1, <3>1, ListsBoth
    <2>7. v.coins = Image(f, q)
      <3>1. o \in Seq(V(c))
        BY <1>10 DEF Lists
      <3>2. Image(f, o \o <<p>>) = Image(f, o) \o <<f[p]>>
        BY <3>1, ImageOneMore
      <3>3. Append(s.coins, coin) = s.coins \o <<coin>>
        <4>. DEFINE u == s.coins
        <4>1. u \in Seq(Utxo)
          OBVIOUS
        <4>. HIDE DEF u
        <4>2. coin \in Utxo
          BY <1>7
        <4>3. Append(u, coin) = u \o <<coin>>
          BY <4>1, <4>2
        <4>. QED
          BY <4>3 DEF u
      <3>. QED
        BY <1>7, <1>10, <2>2, <3>2, <3>3
    <2>8. v.total = SumAt(lg, V(n)) /\ \A i \in 0..(n - 1) : ~Enough(lg, V(i), target)
      BY <1>12, <1>14, <2>2, <2>4
    <2>. HIDE DEF q
    <2>9. Fits(n)
      BY <2>5, <2>6, <2>7, <2>8
    <2>. HIDE DEF Fits
    <2>. QED
      BY <1>2, <2>9
  <1>. QED
    BY <1>11, <1>13, <1>14

\* What the loop has at its end is the answer.
LEMMA CollectedIsAnswer ==
    ASSUME NEW lg \in Seq(Transaction), NEW account, NEW target,
           NEW order, Visits(order, lg, account), NEW scan,
           HasCollected(scan, lg, account, target, order, Len(order))
    PROVE  scan.coins \in GetUnspent(lg, account, target)
  <1>. DEFINE N == Len(order)
  <1>1. PICK c \in 0..N : Collected(scan, lg, account, target, order, N, c)
    BY DEF HasCollected
  <1>2. PICK o : /\ Lists(NewestFirst, o, Visited(lg, account, order, c))
                 /\ scan.coins = Image(CoinAt(lg), o)
    BY <1>1 DEF Collected
  <1>3. Visited(lg, account, order, c) \in Taken(lg, account, target)
    <2>1. /\ \A i \in 0..(c - 1) : ~Enough(lg, Visited(lg, account, order, i), target)
          /\ c = N \/ Enough(lg, Visited(lg, account, order, c), target)
      BY <1>1 DEF Collected
    <2>. QED
      BY <2>1, FirstStopIsTaken
  <1>. QED
    BY <1>2, <1>3, ListIsAnswer
=============================================================================
