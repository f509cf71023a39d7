------------------------ MODULE AccountBook_proofs ------------------------
(***************************************************************************)
(* Proofs about the account book: balances never go negative and always    *)
(* hold what was deposited less what was withdrawn, for any accounts,      *)
(* references and amounts.                                                 *)
(***************************************************************************)
EXTENDS AccountBook, FiniteSums_proofs

\* Adding to a balance keeps it a natural number.
LEMMA AddType ==
    ASSUME NEW balance \in [Id -> Nat], NEW a \in Id, NEW m \in Nat
    PROVE  Add(balance, a, m) \in [Id -> Nat]
  BY DEF Add

\* Taking no more than a balance has keeps it a natural number.
LEMMA TakeType ==
    ASSUME NEW balance \in [Id -> Nat], NEW a \in Id, NEW m \in Nat, m <= balance[a]
    PROVE  Take(balance, a, m) \in [Id -> Nat]
  BY DEF Take

-----------------------------------------------------------------------------

\* The empty book is well formed.
LEMMA InitTypeOK == Init => TypeOK
  BY DEF Init, TypeOK, Zero

\* Every operation keeps the balances natural numbers and the disputes and
\* settlements among the deposits.
LEMMA NextTypeOK ==
    ASSUME Amount \subseteq Nat
    PROVE  TypeOK /\ [Next]_vars => TypeOK'
  <1>. SUFFICES ASSUME TypeOK, [Next]_vars PROVE TypeOK'
    OBVIOUS
  <1>1. ASSUME NEW a \in Id, NEW r \in Ref, NEW m \in Amount, Deposit(a, r, m)
        PROVE  TypeOK'
    <2>1. main' \in [Id -> Nat] /\ deposited' \in [Id -> Nat]
      BY <1>1, AddType DEF TypeOK, Deposit
    <2>2. deposits' \subseteq Entry
      BY <1>1 DEF TypeOK, Deposit, Entry
    <2>. QED
      BY <1>1, <2>1, <2>2 DEF TypeOK, Deposit
  <1>2. ASSUME NEW a \in Id, NEW m \in Amount, Withdraw(a, m)
        PROVE  TypeOK'
    <2>1. main' \in [Id -> Nat] /\ withdrawn' \in [Id -> Nat]
      BY <1>2, AddType, TakeType DEF TypeOK, Withdraw
    <2>. QED
      BY <1>2, <2>1 DEF TypeOK, Withdraw
  <1>3. ASSUME NEW d \in deposits
        PROVE  d.account \in Id /\ d.amount \in Nat
    BY <1>3 DEF TypeOK, Entry
  <1>4. ASSUME NEW d \in deposits, Dispute(d)
        PROVE  TypeOK'
    <2>1. main' \in [Id -> Nat] /\ disputed' \in [Id -> Nat]
      BY <1>3, <1>4, AddType, TakeType DEF TypeOK, Dispute
    <2>. QED
      BY <1>4, <2>1 DEF TypeOK, Dispute
  <1>5. ASSUME NEW d \in deposits, Resolve(d)
        PROVE  TypeOK'
    <2>1. main' \in [Id -> Nat] /\ disputed' \in [Id -> Nat]
      BY <1>3, <1>5, AddType, TakeType DEF TypeOK, Resolve
    <2>. QED
      BY <1>5, <2>1 DEF TypeOK, Resolve
  <1>6. ASSUME NEW d \in deposits, Chargeback(d)
        PROVE  TypeOK'
    <2>1. chargeback' \in [Id -> Nat] /\ disputed' \in [Id -> Nat]
      BY <1>3, <1>6, AddType, TakeType DEF TypeOK, Chargeback
    <2>. QED
      BY <1>6, <2>1 DEF TypeOK, Chargeback
  <1>7. CASE UNCHANGED vars
    BY <1>7 DEF TypeOK, vars
  <1>. QED
    BY <1>1, <1>2, <1>4, <1>5, <1>6, <1>7 DEF Next

\* No balance of the book is ever negative, and only deposits are disputed and
\* only disputes are settled.
THEOREM TypeCorrect ==
    ASSUME Amount \subseteq Nat
    PROVE  Spec => []TypeOK
  <1>1. TypeOK /\ [Next]_vars => TypeOK'
    BY NextTypeOK
  <1>. QED
    BY InitTypeOK, <1>1, PTL DEF Spec

-----------------------------------------------------------------------------

\* An operation moves amounts between the terms of the equation.
LEMMA NextBooksBalance ==
    ASSUME Amount \subseteq Nat
    PROVE  TypeOK /\ BooksBalance /\ [Next]_vars => BooksBalance'
  <1>. SUFFICES ASSUME TypeOK, BooksBalance, [Next]_vars, NEW b \in Id
                PROVE  (main[b] + disputed[b] + chargeback[b] = deposited[b] - withdrawn[b])'
    BY DEF BooksBalance
  <1>0. /\ main \in [Id -> Nat] /\ disputed \in [Id -> Nat] /\ chargeback \in [Id -> Nat]
        /\ deposited \in [Id -> Nat] /\ withdrawn \in [Id -> Nat]
    BY DEF TypeOK
  <1>1. /\ main[b] \in Nat /\ disputed[b] \in Nat /\ chargeback[b] \in Nat
        /\ deposited[b] \in Nat /\ withdrawn[b] \in Nat
        /\ main[b] + disputed[b] + chargeback[b] = deposited[b] - withdrawn[b]
    BY <1>0 DEF BooksBalance
  <1>2. ASSUME NEW a \in Id, NEW r \in Ref, NEW m \in Amount, Deposit(a, r, m)
        PROVE  (main[b] + disputed[b] + chargeback[b] = deposited[b] - withdrawn[b])'
    <2>1. main'[b] = IF b = a THEN main[b] + m ELSE main[b]
      BY <1>0, <1>2 DEF Deposit, Add
    <2>2. deposited'[b] = IF b = a THEN deposited[b] + m ELSE deposited[b]
      BY <1>0, <1>2 DEF Deposit, Add
    <2>3. UNCHANGED <<disputed, chargeback, withdrawn>>
      BY <1>2 DEF Deposit
    <2>. QED
      BY <1>1, <2>1, <2>2, <2>3
  <1>3. ASSUME NEW a \in Id, NEW m \in Amount, Withdraw(a, m)
        PROVE  (main[b] + disputed[b] + chargeback[b] = deposited[b] - withdrawn[b])'
    <2>1. main'[b] = IF b = a THEN main[b] - m ELSE main[b]
      BY <1>0, <1>3 DEF Withdraw, Take
    <2>2. withdrawn'[b] = IF b = a THEN withdrawn[b] + m ELSE withdrawn[b]
      BY <1>0, <1>3 DEF Withdraw, Add
    <2>3. UNCHANGED <<disputed, chargeback, deposited>>
      BY <1>3 DEF Withdraw
    <2>. QED
      BY <1>1, <2>1, <2>2, <2>3
  <1>4. ASSUME NEW d \in deposits
        PROVE  d.account \in Id /\ d.amount \in Nat
    BY <1>4 DEF TypeOK, Entry
  <1>5. ASSUME NEW d \in deposits, Dispute(d)
        PROVE  (main[b] + disputed[b] + chargeback[b] = deposited[b] - withdrawn[b])'
    <2>1. main'[b] = IF b = d.account THEN main[b] - d.amount ELSE main[b]
      BY <1>0, <1>4, <1>5 DEF Dispute, Take
    <2>2. disputed'[b] = IF b = d.account THEN disputed[b] + d.amount ELSE disputed[b]
      BY <1>0, <1>4, <1>5 DEF Dispute, Add
    <2>3. UNCHANGED <<chargeback, deposited, withdrawn>>
      BY <1>5 DEF Dispute
    <2>. QED
      BY <1>1, <1>4, <2>1, <2>2, <2>3
  <1>6. ASSUME NEW d \in deposits, Resolve(d)
        PROVE  (main[b] + disputed[b] + chargeback[b] = deposited[b] - withdrawn[b])'
    <2>1. disputed'[b] = IF b = d.account THEN disputed[b] - d.amount ELSE disputed[b]
      BY <1>0, <1>4, <1>6 DEF Resolve, Take
    <2>2. main'[b] = IF b = d.account THEN main[b] + d.amount ELSE main[b]
      BY <1>0, <1>4, <1>6 DEF Resolve, Add
    <2>3. UNCHANGED <<chargeback, deposited, withdrawn>>
      BY <1>6 DEF Resolve
    <2>. QED
      BY <1>1, <1>4, <2>1, <2>2, <2>3
  <1>7. ASSUME NEW d \in deposits, Chargeback(d)
        PROVE  (main[b] + disputed[b] + chargeback[b] = deposited[b] - withdrawn[b])'
    <2>1. disputed'[b] = IF b = d.account THEN disputed[b] - d.amount ELSE disputed[b]
      BY <1>0, <1>4, <1>7 DEF Chargeback, Take
    <2>2. chargeback'[b] = IF b = d.account THEN chargeback[b] + d.amount ELSE chargeback[b]
      BY <1>0, <1>4, <1>7 DEF Chargeback, Add
    <2>3. UNCHANGED <<main, deposited, withdrawn>>
      BY <1>7 DEF Chargeback
    <2>. QED
      BY <1>1, <1>4, <2>1, <2>2, <2>3
  <1>8. CASE UNCHANGED vars
    BY <1>1, <1>8 DEF vars
  <1>. QED
    BY <1>2, <1>3, <1>5, <1>6, <1>7, <1>8 DEF Next

\* The three balances of an account always hold what was deposited less what
\* was withdrawn.
THEOREM BooksAlwaysBalance ==
    ASSUME Amount \subseteq Nat
    PROVE  Spec => []BooksBalance
  <1>1. Init => BooksBalance
    BY DEF Init, BooksBalance, Zero
  <1>2. TypeOK /\ BooksBalance /\ [Next]_vars => BooksBalance'
    BY NextBooksBalance
  <1>3. Spec => []TypeOK
    BY TypeCorrect
  <1>. QED
    BY <1>1, <1>2, <1>3, PTL DEF Spec

-----------------------------------------------------------------------------
(* What entries are worth.                                                  *)

AmountsOf(entries) == [d \in entries |-> d.amount]

HasAmounts(entries) == IsFiniteSet(entries) /\ \A d \in entries : d.amount \in Int

\* Worth is a solution of its recursion.
LEMMA WorthFold ==
    ASSUME NEW S, HasAmounts(S)
    PROVE  \E g : IsFold(g, AmountsOf(S), S) /\ Worth(S) = g[S]
  <1>. DEFINE Solves(g) == g = [s \in SUBSET S |->
                  IF s = {} THEN 0
                  ELSE (CHOOSE d \in s : TRUE).amount + g[s \ {CHOOSE d \in s : TRUE}]]
              iter == CHOOSE g : Solves(g)
  <1>1. Worth(S) = iter[S]
    BY DEF Worth, MapThenSumSet, MapThenFoldSet
  <1>2. ASSUME NEW g
        PROVE  Solves(g) <=> IsFold(g, AmountsOf(S), S)
    <2>1. ASSUME NEW s \in SUBSET S, s # {}
          PROVE  AmountsOf(S)[Pick(s)] = (CHOOSE d \in s : TRUE).amount
      BY <2>1, PickIn DEF AmountsOf, Pick
    <2>. QED
      BY <2>1 DEF IsFold, Pick
  <1>3. \E g : IsFold(g, AmountsOf(S), S)
    <2>1. \A d \in S : AmountsOf(S)[d] \in Int
      BY DEF AmountsOf, HasAmounts
    <2>. QED
      BY <2>1, FoldExists DEF HasAmounts
  <1>. HIDE DEF Solves
  <1>4. Solves(iter)
    BY <1>2, <1>3
  <1>. QED
    BY <1>1, <1>2, <1>4

\* No entries are worth nothing.
LEMMA WorthOfNone == Worth({}) = 0
  <1>1. HasAmounts({})
    BY FS_EmptySet DEF HasAmounts
  <1>2. PICK g : IsFold(g, AmountsOf({}), {}) /\ Worth({}) = g[{}]
    BY <1>1, WorthFold
  <1>3. g[{}] = 0
    BY <1>2 DEF IsFold
  <1>. QED
    BY <1>2, <1>3

\* One more entry adds its amount.
LEMMA WorthOfMore ==
    ASSUME NEW S, NEW d, d \notin S, HasAmounts(S \cup {d})
    PROVE  /\ Worth(S) \in Int /\ Worth(S \cup {d}) = Worth(S) + d.amount
  <1>. DEFINE T == S \cup {d}
              f == AmountsOf(T)
              e == AmountsOf(S)
  <1>1. IsFiniteSet(T) /\ IsFiniteSet(S) /\ HasAmounts(S)
    BY FS_Subset DEF HasAmounts
  <1>2. /\ \A x \in T : f[x] \in Int
        /\ \A x \in S : f[x] = e[x]
        /\ f[d] = d.amount /\ d.amount \in Int
        /\ \A x \in S : e[x] \in Int
    BY DEF AmountsOf, HasAmounts
  <1>3. d \in T /\ T \ {d} = S /\ S \in SUBSET T /\ T \in SUBSET T
        /\ S \in SUBSET S /\ S \in SUBSET (T \cap S)
    OBVIOUS
  <1>4. PICK g : IsFold(g, AmountsOf(T), T) /\ Worth(T) = g[T]
    BY WorthFold
  <1>5. PICK h : IsFold(h, AmountsOf(S), S) /\ Worth(S) = h[S]
    BY <1>1, WorthFold
  <1>. HIDE DEF T, f, e
  <1>6. g[T] = f[d] + g[T \ {d}]
    BY <1>1, <1>2, <1>3, <1>4, FoldAnyFirst DEF f
  <1>7. g[S] = h[S]
    BY <1>1, <1>2, <1>3, <1>4, <1>5, FoldUnique DEF f, e
  <1>8. h[S] \in Int
    BY <1>1, <1>2, <1>3, <1>5, FoldIsInt DEF e
  <1>9. Worth(S) \in Int /\ Worth(T) = d.amount + Worth(S)
    BY <1>2, <1>3, <1>4, <1>5, <1>6, <1>7, <1>8
  <1>10. d.amount \in Int
    BY <1>2
  <1>. QED
    BY <1>9, <1>10 DEF T

-----------------------------------------------------------------------------
(* What is disputed and charged back.                                       *)

\* With TypeOK, the deposits are finitely many: only then are sums over them
\* meant.
SumsInv == TypeOK /\ IsFiniteSet(deposits) /\ DisputesAddUp

\* An entry of the book has an account and an amount.
LEMMA EntryParts ==
    ASSUME Amount \subseteq Nat, TypeOK, NEW d \in deposits
    PROVE  d.account \in Id /\ d.amount \in Nat /\ d.amount \in Int
  <1>1. d \in Entry
    BY DEF TypeOK
  <1>2. d.account \in Id /\ d.amount \in Amount
    BY <1>1 DEF Entry
  <1>3. \A m \in Amount : m \in Nat /\ m \in Int
    OBVIOUS
  <1>. QED
    BY <1>2, <1>3, Zenon

\* The disputes of an account can be summed, and those settled are among them.
LEMMA EntriesSum ==
    ASSUME Amount \subseteq Nat, TypeOK, IsFiniteSet(deposits), NEW S \in SUBSET deposits
    PROVE  HasAmounts(S)
  <1>1. IsFiniteSet(S)
    BY FS_Subset
  <1>2. \A d \in S : d.amount \in Int
    BY EntryParts
  <1>. QED
    BY <1>1, <1>2 DEF HasAmounts

\* A dispute that is added to a set of others adds its amount.
LEMMA WorthGrows ==
    ASSUME Amount \subseteq Nat, TypeOK, IsFiniteSet(deposits), NEW d \in deposits,
           NEW S \in SUBSET (deposits \ {d})
    PROVE  Worth(S) \in Int /\ Worth(S \cup {d}) = Worth(S) + d.amount
  <1>1. S \cup {d} \in SUBSET deposits
    OBVIOUS
  <1>2. HasAmounts(S \cup {d})
    BY <1>1, EntriesSum
  <1>. QED
    BY <1>2, WorthOfMore

\* Sums over the disputes of an account are integers.
LEMMA WorthType ==
    ASSUME Amount \subseteq Nat, TypeOK, IsFiniteSet(deposits), NEW S \in SUBSET deposits
    PROVE  Worth(S) \in Int
  <1>1. CASE S = {}
    BY <1>1, WorthOfNone
  <1>2. CASE S # {}
    <2>1. PICK d : d \in S
      BY <1>2
    <2>. DEFINE R == S \ {d}
    <2>2. R \in SUBSET (deposits \ {d}) /\ R \cup {d} = S /\ d \in deposits
      BY <2>1
    <2>. HIDE DEF R
    <2>3. Worth(R) \in Int /\ Worth(R \cup {d}) = Worth(R) + d.amount
      BY <2>2, WorthGrows
    <2>4. d.amount \in Int
      BY <2>2, EntryParts
    <2>5. \A x, y \in Int : x + y \in Int
      OBVIOUS
    <2>. QED
      BY <2>2, <2>3, <2>4, <2>5, Zenon
  <1>. QED
    BY <1>1, <1>2

\* A dispute adds to the disputes of its account, and it is not settled.
LEMMA DisputedAddsUp ==
    ASSUME Amount \subseteq Nat, SumsInv, NEW d \in deposits, Dispute(d)
    PROVE  DisputesAddUp'
  <1>. SUFFICES ASSUME NEW a \in Id
                PROVE  /\ disputed'[a] = Worth(DisputesOf(a))' - Worth(SettledOf("resolve", a))'
                                            - Worth(SettledOf("chargeback", a))'
                       /\ chargeback'[a] = Worth(SettledOf("chargeback", a))'
    BY DEF DisputesAddUp
  <1>1. TypeOK /\ IsFiniteSet(deposits) /\ d.account \in Id /\ d.amount \in Nat
    BY EntryParts DEF SumsInv
  <1>2. /\ disputed[a] = Worth(DisputesOf(a)) - Worth(SettledOf("resolve", a))
                            - Worth(SettledOf("chargeback", a))
        /\ chargeback[a] = Worth(SettledOf("chargeback", a))
    BY DEF SumsInv, DisputesAddUp
  <1>3. \A how : SettledOf(how, a)' = SettledOf(how, a)
    <2>1. \A how : <<how, d>> \notin settled
      BY <1>1 DEF TypeOK, Dispute
    <2>. QED
      BY <2>1 DEF Dispute, SettledOf, DisputesOf
  <1>4. Worth(SettledOf("resolve", a))' = Worth(SettledOf("resolve", a))
    BY <1>3
  <1>5. Worth(SettledOf("chargeback", a))' = Worth(SettledOf("chargeback", a))
    BY <1>3
  <1>6. DisputesOf(a)' = IF a = d.account THEN DisputesOf(a) \cup {d} ELSE DisputesOf(a)
    BY DEF Dispute, DisputesOf
  <1>7. DisputesOf(a) \in SUBSET (deposits \ {d})
    BY <1>1 DEF Dispute, DisputesOf, TypeOK
  <1>8. /\ Worth(DisputesOf(a)) \in Int /\ Worth(SettledOf("resolve", a)) \in Int
        /\ Worth(SettledOf("chargeback", a)) \in Int
    BY <1>1, <1>7, WorthType DEF SettledOf
  <1>9. Worth(DisputesOf(a) \cup {d}) = Worth(DisputesOf(a)) + d.amount
    BY <1>1, <1>7, WorthGrows
  <1>10. Worth(DisputesOf(a))' = IF a = d.account THEN Worth(DisputesOf(a)) + d.amount
                                                  ELSE Worth(DisputesOf(a))
    BY <1>6, <1>9
  <1>11. disputed'[a] = IF a = d.account THEN disputed[a] + d.amount ELSE disputed[a]
    BY <1>1 DEF TypeOK, Dispute, Add
  <1>12. chargeback' = chargeback
    BY DEF Dispute
  <1>. QED
    BY <1>1, <1>2, <1>4, <1>5, <1>8, <1>10, <1>11, <1>12

\* A settlement moves a dispute of the account into the sum of those settled
\* that way, which takes its amount out of the disputed balance.
LEMMA SettledAddsUp ==
    ASSUME Amount \subseteq Nat, SumsInv, NEW how \in {"resolve", "chargeback"},
           NEW d \in disputes, <<how, d>> \notin settled,
           settled' = settled \cup {<<how, d>>}, UNCHANGED <<deposits, disputes>>,
           NEW a \in Id
    PROVE  /\ Worth(DisputesOf(a))' = Worth(DisputesOf(a))
           /\ Worth(SettledOf(how, a))' = IF a = d.account THEN Worth(SettledOf(how, a)) + d.amount
                                                            ELSE Worth(SettledOf(how, a))
           /\ \A other \in {"resolve", "chargeback"} \ {how} :
                 Worth(SettledOf(other, a))' = Worth(SettledOf(other, a))
  <1>1. TypeOK /\ IsFiniteSet(deposits) /\ d \in deposits
    BY DEF SumsInv, TypeOK
  <1>2. DisputesOf(a)' = DisputesOf(a)
    BY DEF DisputesOf
  <1>3. SettledOf(how, a)' = IF a = d.account THEN SettledOf(how, a) \cup {d} ELSE SettledOf(how, a)
    BY DEF SettledOf, DisputesOf
  <1>4. \A other \in {"resolve", "chargeback"} \ {how} : SettledOf(other, a)' = SettledOf(other, a)
    BY DEF SettledOf, DisputesOf
  <1>5. SettledOf(how, a) \in SUBSET (deposits \ {d})
    BY <1>1 DEF SettledOf, DisputesOf, TypeOK
  <1>6. Worth(SettledOf(how, a) \cup {d}) = Worth(SettledOf(how, a)) + d.amount
    BY <1>1, <1>5, WorthGrows
  <1>. QED
    BY <1>2, <1>3, <1>4, <1>6

\* The sums over the disputes of an account are integers.
LEMMA SumsType ==
    ASSUME Amount \subseteq Nat, SumsInv, NEW a \in Id
    PROVE  /\ Worth(DisputesOf(a)) \in Int
           /\ Worth(SettledOf("resolve", a)) \in Int
           /\ Worth(SettledOf("chargeback", a)) \in Int
  <1>1. TypeOK /\ IsFiniteSet(deposits)
    BY DEF SumsInv
  <1>2. /\ DisputesOf(a) \in SUBSET deposits
        /\ SettledOf("resolve", a) \in SUBSET deposits
        /\ SettledOf("chargeback", a) \in SUBSET deposits
    BY <1>1 DEF DisputesOf, SettledOf, TypeOK
  <1>. QED
    BY <1>1, <1>2, WorthType

\* Every operation of the book keeps the sums.
LEMMA NextAddsUp ==
    ASSUME Amount \subseteq Nat
    PROVE  SumsInv /\ [Next]_vars => SumsInv'
  <1>. SUFFICES ASSUME SumsInv, [Next]_vars PROVE SumsInv'
    OBVIOUS
  <1>0. TypeOK /\ IsFiniteSet(deposits) /\ DisputesAddUp
    BY DEF SumsInv
  <1>1. TypeOK'
    BY <1>0, NextTypeOK
  <1>2. IsFiniteSet(deposits')
    <2>1. \A x : IsFiniteSet(deposits \cup {x})
      BY <1>0, FS_AddElement
    <2>. QED
      BY <1>0, <2>1 DEF Next, vars, Deposit, Withdraw, Dispute, Resolve, Chargeback
  <1>3. ASSUME UNCHANGED <<disputed, chargeback, disputes, settled>>
        PROVE  DisputesAddUp'
    <2>1. \A a : DisputesOf(a)' = DisputesOf(a)
      BY <1>3 DEF DisputesOf
    <2>2. \A how, a : SettledOf(how, a)' = SettledOf(how, a)
      BY <1>3, <2>1 DEF SettledOf
    <2>. QED
      BY <1>0, <1>3, <2>1, <2>2 DEF DisputesAddUp
  <1>4. ASSUME NEW d \in deposits, Resolve(d)
        PROVE  DisputesAddUp'
    <2>. SUFFICES ASSUME NEW a \in Id
                  PROVE  /\ disputed'[a] = Worth(DisputesOf(a))' - Worth(SettledOf("resolve", a))'
                                              - Worth(SettledOf("chargeback", a))'
                         /\ chargeback'[a] = Worth(SettledOf("chargeback", a))'
      BY DEF DisputesAddUp
    <2>1. /\ d \in disputes /\ <<"resolve", d>> \notin settled
          /\ settled' = settled \cup {<<"resolve", d>>} /\ UNCHANGED <<deposits, disputes, chargeback>>
          /\ disputed' = Take(disputed, d.account, d.amount)
      BY <1>4 DEF Resolve
    <2>2. /\ Worth(DisputesOf(a))' = Worth(DisputesOf(a))
          /\ Worth(SettledOf("resolve", a))' = IF a = d.account
                                                 THEN Worth(SettledOf("resolve", a)) + d.amount
                                                 ELSE Worth(SettledOf("resolve", a))
          /\ Worth(SettledOf("chargeback", a))' = Worth(SettledOf("chargeback", a))
      BY <2>1, SettledAddsUp
    <2>3. d.amount \in Nat
      BY <1>0, EntryParts
    <2>4. disputed'[a] = IF a = d.account THEN disputed[a] - d.amount ELSE disputed[a]
      BY <1>0, <2>1 DEF TypeOK, Take
    <2>5. /\ disputed[a] = Worth(DisputesOf(a)) - Worth(SettledOf("resolve", a))
                              - Worth(SettledOf("chargeback", a))
          /\ chargeback[a] = Worth(SettledOf("chargeback", a))
      BY <1>0 DEF DisputesAddUp
    <2>. QED
      BY <2>1, <2>2, <2>3, <2>4, <2>5, SumsType
  <1>5. ASSUME NEW d \in deposits, Chargeback(d)
        PROVE  DisputesAddUp'
    <2>. SUFFICES ASSUME NEW a \in Id
                  PROVE  /\ disputed'[a] = Worth(DisputesOf(a))' - Worth(SettledOf("resolve", a))'
                                              - Worth(SettledOf("chargeback", a))'
                         /\ chargeback'[a] = Worth(SettledOf("chargeback", a))'
      BY DEF DisputesAddUp
    <2>1. /\ d \in disputes /\ <<"chargeback", d>> \notin settled
          /\ settled' = settled \cup {<<"chargeback", d>>} /\ UNCHANGED <<deposits, disputes>>
          /\ disputed' = Take(disputed, d.account, d.amount)
          /\ chargeback' = Add(chargeback, d.account, d.amount)
      BY <1>5 DEF Chargeback
    <2>2. /\ Worth(DisputesOf(a))' = Worth(DisputesOf(a))
          /\ Worth(SettledOf("chargeback", a))' = IF a = d.account
                                                    THEN Worth(SettledOf("chargeback", a)) + d.amount
                                                    ELSE Worth(SettledOf("chargeback", a))
          /\ Worth(SettledOf("resolve", a))' = Worth(SettledOf("resolve", a))
      BY <2>1, SettledAddsUp
    <2>3. d.amount \in Nat
      BY <1>0, EntryParts
    <2>4. /\ disputed'[a] = IF a = d.account THEN disputed[a] - d.amount ELSE disputed[a]
          /\ chargeback'[a] = IF a = d.account THEN chargeback[a] + d.amount ELSE chargeback[a]
      BY <1>0, <2>1 DEF TypeOK, Take, Add
    <2>5. /\ disputed[a] = Worth(DisputesOf(a)) - Worth(SettledOf("resolve", a))
                              - Worth(SettledOf("chargeback", a))
          /\ chargeback[a] = Worth(SettledOf("chargeback", a))
      BY <1>0 DEF DisputesAddUp
    <2>. QED
      BY <2>2, <2>3, <2>4, <2>5, SumsType
  <1>6. ASSUME NEW a \in Id, NEW m \in Amount, Withdraw(a, m) \/ \E r \in Ref : Deposit(a, r, m)
        PROVE  DisputesAddUp'
    BY <1>3, <1>6 DEF Withdraw, Deposit
  <1>7. ASSUME UNCHANGED vars PROVE DisputesAddUp'
    <2>1. UNCHANGED <<disputed, chargeback, disputes, settled>>
      BY <1>7 DEF vars
    <2>. QED
      BY <1>3, <2>1
  <1>8. ASSUME NEW d \in deposits, Dispute(d)
        PROVE  DisputesAddUp'
    BY <1>8, DisputedAddsUp
  <1>9. DisputesAddUp'
    BY <1>4, <1>5, <1>6, <1>7, <1>8 DEF Next
  <1>. QED
    BY <1>1, <1>2, <1>9 DEF SumsInv

\* The empty book adds up.
LEMMA InitAddsUp == Init => SumsInv
  <1>. SUFFICES ASSUME Init PROVE SumsInv
    OBVIOUS
  <1>1. \A a : DisputesOf(a) = {} /\ \A how : SettledOf(how, a) = {}
    BY DEF Init, DisputesOf, SettledOf
  <1>2. \A a \in Id : disputed[a] = 0 /\ chargeback[a] = 0
    BY DEF Init, Zero
  <1>3. \A a : /\ Worth(DisputesOf(a)) = 0 /\ Worth(SettledOf("resolve", a)) = 0
               /\ Worth(SettledOf("chargeback", a)) = 0
    BY <1>1, WorthOfNone
  <1>4. DisputesAddUp
    BY <1>2, <1>3 DEF DisputesAddUp
  <1>. QED
    BY <1>4, InitTypeOK, FS_EmptySet DEF SumsInv, Init

\* The disputed balance of an account is always what was disputed less what was
\* settled, and what is charged back is the sum of the chargebacks.
THEOREM DisputesAlwaysAddUp ==
    ASSUME Amount \subseteq Nat
    PROVE  Spec => []DisputesAddUp
  <1>1. SumsInv /\ [Next]_vars => SumsInv'
    BY NextAddsUp
  <1>2. SumsInv => DisputesAddUp
    BY DEF SumsInv
  <1>. QED
    BY InitAddsUp, <1>1, <1>2, PTL DEF Spec
=============================================================================
