------------------------ MODULE AccountStreams_proofs ------------------------
(***************************************************************************)
(* Proofs about the account streams, for any number of accounts and either *)
(* cursor, while sub-accounts are being opened.  What makes the OFFSET     *)
(* cursor comparable with the key cursor is the index of a row, the number *)
(* of rows below it: an insertion never lowers it, the rows of a table     *)
(* that does not change have the indices from 0 on without a gap, and the  *)
(* row at the offset is the first one that was not visited.                *)
(***************************************************************************)
EXTENDS AccountStreams, FiniteSums_proofs, FunctionTheorems

\* The two parts of a sub-account.
LEMMA Parts ==
    ASSUME NEW a \in FullAccount
    PROVE  a = <<a[1], a[2]>> /\ a[1] \in Id /\ a[1] \in Nat /\ a[2] \in Type
  <1>1. PICK i \in Id, t \in Type : a = <<i, t>>
    BY DEF FullAccount
  <1>. QED
    BY <1>1, IdIsNat

\* Types rank from 0 to 2.
LEMMA RankType ==
    ASSUME NEW t \in Type
    PROVE  Rank[t] \in 0..2
  BY DEF Rank, Type

\* Any set of sub-accounts has a first one: the numbers are naturals.
LEMMA FirstAccount ==
    ASSUME NEW S \in SUBSET FullAccount, S # {}
    PROVE  \E a \in S : \A b \in S : ~Below(b, a)
  <1>. DEFINE Pos(a) == 3 * a[1] + Rank[a[2]]
              T == {Pos(a) : a \in S}
  <1>1. ASSUME NEW a \in FullAccount
        PROVE  a[1] \in Nat /\ Rank[a[2]] \in 0..2
    BY Parts, RankType
  <1>2. \A a \in S : Pos(a) \in Nat
    BY <1>1
  <1>3. T \in SUBSET Nat /\ T # {}
    BY <1>2
  <1>. HIDE DEF T
  <1>4. PICK x \in T : \A y \in T : x <= y
    BY <1>3, Least
  <1>5. \A y \in T : ~(y < x)
    BY <1>3, <1>4
  <1>6. PICK a \in S : x = Pos(a)
    BY DEF T
  <1>7. ASSUME NEW b \in S
        PROVE  ~Below(b, a)
    <2>1. ~(Pos(b) < Pos(a))
      BY <1>5, <1>6 DEF T
    <2>2. /\ a[1] \in Nat /\ Rank[a[2]] \in 0..2
          /\ b[1] \in Nat /\ Rank[b[2]] \in 0..2
      BY <1>1
    <2>. HIDE DEF Rank
    <2>. QED
      BY <2>1, <2>2 DEF Below
  <1>. QED
    BY <1>7

\* The order of the sub-accounts is total and transitive.
LEMMA BelowIsTotal ==
    ASSUME NEW a \in FullAccount, NEW b \in FullAccount, ~Below(a, b), ~Below(b, a)
    PROVE  a = b
  <1>1. /\ a = <<a[1], a[2]>> /\ a[1] \in Nat /\ a[2] \in Type
        /\ b = <<b[1], b[2]>> /\ b[1] \in Nat /\ b[2] \in Type
    BY Parts
  <1>2. a[1] = b[1] /\ ~(Rank[a[2]] < Rank[b[2]]) /\ ~(Rank[b[2]] < Rank[a[2]])
    BY <1>1 DEF Below
  <1>3. a[2] = b[2]
    BY <1>1, <1>2 DEF Rank, Type
  <1>. QED
    BY <1>1, <1>2, <1>3

\* The order is transitive.
LEMMA BelowIsTransitive ==
    ASSUME NEW a \in FullAccount, NEW b \in FullAccount, NEW c \in FullAccount,
           Below(a, b), Below(b, c)
    PROVE  Below(a, c)
  <1>1. /\ a[1] \in Nat /\ b[1] \in Nat /\ c[1] \in Nat
        /\ Rank[a[2]] \in 0..2 /\ Rank[b[2]] \in 0..2 /\ Rank[c[2]] \in 0..2
    BY Parts, RankType
  <1>. QED
    BY <1>1 DEF Below

-----------------------------------------------------------------------------
(* The index of a row.                                                      *)

Index(a, S) == Cardinality({b \in S : Below(b, a)})

\* There are only so many sub-accounts.
LEMMA AccountsAreFinite ==
    ASSUME NEW S \in SUBSET FullAccount
    PROVE  IsFiniteSet(S)
  <1>1. IsFiniteSet(Type)
    <2>1. IsFiniteSet({"Main"})
      BY FS_Singleton
    <2>2. IsFiniteSet({"Main"} \cup {"Disputed"})
      BY <2>1, FS_AddElement
    <2>3. IsFiniteSet(({"Main"} \cup {"Disputed"}) \cup {"Chargeback"})
      BY <2>2, FS_AddElement
    <2>4. Type = ({"Main"} \cup {"Disputed"}) \cup {"Chargeback"}
      BY DEF Type
    <2>. QED
      BY <2>3, <2>4
  <1>2. IsFiniteSet(Id \X Type)
    BY <1>1, IdIsFinite, FS_Product
  <1>. QED
    BY <1>2, FS_Subset DEF FullAccount

\* A row that is inserted lowers no index.
LEMMA IndexGrows ==
    ASSUME NEW S \in SUBSET FullAccount, NEW T \in SUBSET FullAccount, S \subseteq T, NEW a
    PROVE  Index(a, S) \in Nat /\ Index(a, T) \in Nat /\ Index(a, S) <= Index(a, T)
  <1>. DEFINE s == {b \in S : Below(b, a)}
              t == {b \in T : Below(b, a)}
  <1>1. s \subseteq t /\ s \subseteq S /\ t \subseteq T
    OBVIOUS
  <1>2. IsFiniteSet(s) /\ IsFiniteSet(t)
    BY <1>1, AccountsAreFinite
  <1>. HIDE DEF s, t
  <1>3. Cardinality(s) \in Nat /\ Cardinality(t) \in Nat /\ Cardinality(s) <= Cardinality(t)
    BY <1>1, <1>2, FS_Subset, FS_CardinalityType
  <1>. QED
    BY <1>3 DEF Index, s, t

\* Rows are indexed in their order.
LEMMA IndexIsMonotone ==
    ASSUME NEW S \in SUBSET FullAccount, NEW a \in S, NEW b \in S
    PROVE  /\ Index(a, S) \in Nat /\ Index(b, S) \in Nat
           /\ Below(a, b) <=> Index(a, S) < Index(b, S)
           /\ Index(a, S) = Index(b, S) => a = b
  <1>1. ASSUME NEW x \in S, NEW y \in S, Below(x, y)
        PROVE  Index(x, S) < Index(y, S)
    <2>. DEFINE under == {c \in S : Below(c, x)}
                over == {c \in S : Below(c, y)}
    <2>1. under \subseteq over
      BY <1>1, BelowIsTransitive
    <2>2. x \in over /\ x \notin under
      <3>1. x[1] \in Nat /\ Rank[x[2]] \in 0..2
        BY Parts, RankType
      <3>2. ~Below(x, x)
        BY <3>1 DEF Below
      <3>. QED
        BY <1>1, <3>2
    <2>3. IsFiniteSet(over) /\ IsFiniteSet(under)
      BY AccountsAreFinite
    <2>. HIDE DEF under, over
    <2>4. /\ Cardinality(under) <= Cardinality(over) /\ Cardinality(under) # Cardinality(over)
          /\ Cardinality(under) \in Nat /\ Cardinality(over) \in Nat
      BY <2>1, <2>2, <2>3, FS_Subset, FS_CardinalityType
    <2>5. Cardinality(under) < Cardinality(over)
      BY <2>4
    <2>. QED
      BY <2>5 DEF Index, under, over
  <1>2. Index(a, S) \in Nat /\ Index(b, S) \in Nat
    BY IndexGrows
  <1>3. a = b \/ Below(a, b) \/ Below(b, a)
    BY BelowIsTotal
  <1>4. /\ Below(a, b) => Index(a, S) < Index(b, S)
        /\ Below(b, a) => Index(b, S) < Index(a, S)
    BY <1>1
  <1>. QED
    BY <1>2, <1>3, <1>4

\* Every row is at an index below the number of rows, and every index below it
\* is that of a row.
LEMMA IndexIsOnto ==
    ASSUME NEW S \in SUBSET FullAccount
    PROVE  /\ Cardinality(S) \in Nat
           /\ \A a \in S : Index(a, S) \in Nat /\ Index(a, S) < Cardinality(S)
           /\ \A n \in Nat : n < Cardinality(S) => \E a \in S : Index(a, S) = n
  <1>. DEFINE size == Cardinality(S)
              indices == 0..(size - 1)
              index == [a \in S |-> Index(a, S)]
  <1>1. IsFiniteSet(S) /\ size \in Nat
    BY AccountsAreFinite, FS_CardinalityType
  <1>2. ASSUME NEW a \in S
        PROVE  Index(a, S) \in Nat /\ Index(a, S) < size
    <2>. DEFINE under == {b \in S : Below(b, a)}
    <2>1. under \subseteq S /\ a \notin under
      <3>1. a[1] \in Nat /\ Rank[a[2]] \in 0..2
        BY Parts, RankType
      <3>2. ~Below(a, a)
        BY <3>1 DEF Below
      <3>. QED
        BY <3>2
    <2>. HIDE DEF under
    <2>2. /\ Cardinality(under) <= size /\ Cardinality(under) # size
          /\ Cardinality(under) \in Nat
      BY <1>1, <2>1, FS_Subset, FS_CardinalityType
    <2>3. Cardinality(under) \in Nat /\ Cardinality(under) < size
      BY <1>1, <2>2
    <2>. QED
      BY <2>3 DEF Index, under
  <1>. HIDE DEF size
  <1>3. \A a \in S : Index(a, S) \in indices
    BY <1>1, <1>2
  <1>4. index \in [S -> indices]
    BY <1>3
  <1>5. \A a, b \in S : index[a] = index[b] => a = b
    BY IndexIsMonotone
  <1>6. IsFiniteSet(indices) /\ Cardinality(indices) = size
    <2>1. 0 \in Int /\ size - 1 \in Int
      BY <1>1
    <2>2. /\ IsFiniteSet(indices)
          /\ Cardinality(indices) = IF 0 > size - 1 THEN 0 ELSE size - 1 - 0 + 1
      BY <2>1, FS_Interval
    <2>. QED
      BY <1>1, <2>2
  <1>. HIDE DEF indices, index
  <1>7. index \in Surjection(S, indices)
    <2>1. index \in Injection(S, indices)
      BY <1>4, <1>5, Fun_IsInj
    <2>. QED
      BY <1>6, <2>1, FS_Injection DEF size
  <1>8. \A n \in indices : \E a \in S : index[a] = n
    BY <1>7 DEF Surjection
  <1>9. ASSUME NEW n \in Nat, n < size
        PROVE  \E a \in S : Index(a, S) = n
    <2>1. n \in indices
      BY <1>1, <1>9 DEF indices
    <2>. QED
      BY <1>8, <2>1 DEF index
  <1>. QED
    BY <1>1, <1>2, <1>9 DEF size

-----------------------------------------------------------------------------
(* The invariant.                                                           *)

\* The sub-accounts that the cursor has not passed.
Ahead(a) == IF kind = "key" THEN AboveKey(a) ELSE offset <= Index(a, accounts)

\* Nothing was visited.
Fresh == IF kind = "key" THEN key = None ELSE offset = 0

\* The sub-account that was visited last.
Visited(last) == IF kind = "key" THEN key = Some(last) ELSE offset = Index(last, accounts) + 1

\* Does the cursor still mean what it meant when it was set?
Steady == kind = "key" \/ accounts = start

\* What a steady cursor knows: nothing was listed, or the number of the
\* sub-account that was visited last was the last one listed; the listing is
\* sorted.
CursorAgrees ==
    Steady =>
        /\ Sorted
        /\ ~ended => \/ Fresh /\ returned = <<>>
                     \/ \E last \in accounts : /\ Visited(last)
                                               /\ returned # <<>>
                                               /\ returned[Len(returned)] = last[1]

\* Every account that was there at the start is still ahead of the cursor, or
\* was listed; at the end there is none ahead.
NoneIsPassedOver == \A a \in start : (~ended /\ Ahead(a)) \/ a[1] \in ToSet(returned)

\* No account is listed that does not exist.
ListedExist == ToSet(returned) \subseteq Numbers(accounts)

IInv == TypeOK /\ CursorAgrees /\ NoneIsPassedOver /\ ListedExist

\* A listing has nothing to be wrong about before it begins.
LEMMA InitIInv == Init => IInv
  <1>. SUFFICES ASSUME Init PROVE IInv
    OBVIOUS
  <1>1. TypeOK
    <2>1. latest = {returned[k] : k \in {Len(returned)} \ {0}}
      BY DEF Init, None
    <2>2. /\ kind \in {"key", "offset"} /\ ended \in BOOLEAN
          /\ accounts \subseteq FullAccount /\ start \subseteq accounts /\ offset \in Nat
      BY DEF Init
    <2>3. key \in SUBSET accounts /\ returned \in Seq(Id)
      BY DEF Init, None
    <2>. QED
      BY <2>1, <2>2, <2>3 DEF TypeOK
  <1>2. CursorAgrees
    BY DEF Init, CursorAgrees, Fresh, Sorted
  <1>3. NoneIsPassedOver
    <2>1. \A a \in start : Index(a, accounts) \in Nat
      BY IndexGrows DEF Init
    <2>. QED
      BY <2>1 DEF Init, NoneIsPassedOver, Ahead, AboveKey, None
  <1>4. ListedExist
    BY DEF Init, ListedExist, ToSet
  <1>. QED
    BY <1>1, <1>2, <1>3, <1>4 DEF IInv

-----------------------------------------------------------------------------
(* One visit.                                                               *)

\* The sub-account a visit finds is the first one ahead of the cursor.
LEMMA VisitIsNext ==
    ASSUME TypeOK, NEW a \in Upcoming
    PROVE  /\ a \in accounts /\ Ahead(a)
           /\ \A b \in accounts : Ahead(b) => b = a \/ Below(a, b)
  <1>0. accounts \in SUBSET FullAccount /\ offset \in Nat
    BY DEF TypeOK
  <1>1. CASE kind = "key"
    BY <1>0, <1>1, BelowIsTotal DEF Upcoming, ByKey, Ahead
  <1>2. CASE kind # "key"
    <2>1. a \in accounts /\ Index(a, accounts) = offset
      BY <1>2 DEF Upcoming, ByOffset, Index
    <2>2. ASSUME NEW b \in accounts, offset <= Index(b, accounts)
          PROVE  b = a \/ Below(a, b)
      <3>1. Index(b, accounts) \in Nat /\ ~(Index(b, accounts) < offset)
        BY <1>0, <2>2, IndexGrows
      <3>2. ~Below(b, a)
        BY <1>0, <2>1, <3>1, IndexIsMonotone
      <3>. QED
        BY <1>0, <2>1, <3>2, BelowIsTotal
    <2>. QED
      BY <1>0, <1>2, <2>1, <2>2 DEF Ahead
  <1>. QED
    BY <1>1, <1>2

\* The cursor passes the sub-account that is visited, and no other.
LEMMA VisitPasses ==
    ASSUME TypeOK, NEW a \in Upcoming, Advance(a), UNCHANGED <<kind, accounts>>
    PROVE  /\ Visited(a)'
           /\ \A b \in accounts : Ahead(b)' <=> Below(a, b)
  <1>0. accounts \in SUBSET FullAccount /\ offset \in Nat
    BY DEF TypeOK
  <1>1. CASE kind = "key"
    <2>1. key' = Some(a) /\ kind' = "key"
      BY <1>1 DEF Advance
    <2>. QED
      BY <2>1 DEF Visited, Ahead, AboveKey, Some
  <1>2. CASE kind # "key"
    <2>1. a \in accounts /\ Index(a, accounts) = offset
      BY <1>2 DEF Upcoming, ByOffset, Index
    <2>2. offset' = offset + 1 /\ kind' # "key" /\ accounts' = accounts
      BY <1>2 DEF Advance
    <2>3. Visited(a)'
      BY <2>1, <2>2 DEF Visited, Index
    <2>4. ASSUME NEW b \in accounts
          PROVE  Ahead(b)' <=> Below(a, b)
      <3>1. Ahead(b)' <=> offset + 1 <= Index(b, accounts)
        BY <2>2 DEF Ahead, Index
      <3>2. /\ Index(b, accounts) \in Nat
            /\ Below(a, b) <=> offset < Index(b, accounts)
        BY <1>0, <2>1, IndexIsMonotone
      <3>. QED
        BY <1>0, <3>1, <3>2
    <2>. QED
      BY <2>3, <2>4
  <1>. QED
    BY <1>1, <1>2

\* A visit that finds nothing has no sub-account ahead of it.
LEMMA VisitEnds ==
    ASSUME TypeOK, Upcoming = {}
    PROVE  \A a \in accounts : ~Ahead(a)
  <1>0. accounts \in SUBSET FullAccount /\ offset \in Nat
    BY DEF TypeOK
  <1>1. CASE kind = "key"
    <2>. DEFINE S == {a \in accounts : AboveKey(a)}
    <2>. SUFFICES ASSUME S # {} PROVE FALSE
      BY <1>1 DEF Ahead
    <2>1. PICK a \in S : \A b \in S : ~Below(b, a)
      BY <1>0, FirstAccount
    <2>2. a \in ByKey
      BY <2>1 DEF ByKey
    <2>. QED
      BY <1>1, <2>2 DEF Upcoming
  <1>2. CASE kind # "key"
    <2>1. \A a \in accounts : Index(a, accounts) # offset
      BY <1>2 DEF Upcoming, ByOffset, Index
    <2>2. ~(offset < Cardinality(accounts)) /\ Cardinality(accounts) \in Nat
      BY <1>0, <2>1, IndexIsOnto
    <2>3. ASSUME NEW a \in accounts
          PROVE  ~(offset <= Index(a, accounts))
      <3>1. Index(a, accounts) \in Nat /\ Index(a, accounts) < Cardinality(accounts)
        BY <1>0, IndexIsOnto
      <3>. QED
        BY <1>0, <2>2, <3>1
    <2>. QED
      BY <1>2, <2>3 DEF Ahead
  <1>. QED
    BY <1>1, <1>2

\* What is beyond the sub-account that was visited last is ahead.
LEMMA AheadOfVisited ==
    ASSUME TypeOK, NEW last \in accounts, Visited(last), NEW a \in accounts
    PROVE  Ahead(a) <=> Below(last, a)
  <1>0. accounts \in SUBSET FullAccount /\ offset \in Nat
    BY DEF TypeOK
  <1>1. CASE kind = "key"
    BY <1>1 DEF Visited, Ahead, AboveKey, Some
  <1>2. CASE kind # "key"
    <2>1. offset = Index(last, accounts) + 1
      BY <1>2 DEF Visited
    <2>2. /\ Index(last, accounts) \in Nat /\ Index(a, accounts) \in Nat
          /\ Below(last, a) <=> Index(last, accounts) < Index(a, accounts)
      BY <1>0, IndexIsMonotone
    <2>3. Below(last, a) <=> offset <= Index(a, accounts)
      BY <2>1, <2>2
    <2>. QED
      BY <1>2, <2>3 DEF Ahead
  <1>. QED
    BY <1>1, <1>2

\* With a steady cursor the number of the sub-account a visit finds is either
\* the last one listed or beyond all of those.
LEMMA SteadyVisit ==
    ASSUME IInv, Steady, ~ended, NEW a \in Upcoming
    PROVE  \/ latest = Some(a[1]) /\ returned # <<>> /\ returned[Len(returned)] = a[1]
           \/ latest # Some(a[1]) /\ \A k \in DOMAIN returned : returned[k] < a[1]
  <1>0. /\ accounts \subseteq FullAccount /\ returned \in Seq(Id) /\ Id \subseteq Nat
        /\ latest = {returned[k] : k \in {Len(returned)} \ {0}}
    BY IdIsNat DEF IInv, TypeOK
  <1>1. a \in accounts /\ Ahead(a)
    BY VisitIsNext DEF IInv
  <1>2. CASE returned = <<>>
    <2>1. latest = {}
      BY <1>0, <1>2
    <2>. QED
      BY <1>2, <2>1 DEF Some
  <1>3. ASSUME NEW last \in accounts, Visited(last), returned # <<>>,
               returned[Len(returned)] = last[1]
        PROVE  \/ latest = Some(a[1]) /\ returned # <<>> /\ returned[Len(returned)] = a[1]
               \/ latest # Some(a[1]) /\ \A k \in DOMAIN returned : returned[k] < a[1]
    <2>1. Below(last, a) /\ last[1] \in Nat /\ a[1] \in Nat
      BY <1>0, <1>1, <1>3, Parts, AheadOfVisited DEF IInv
    <2>2. Len(returned) \in Nat /\ Len(returned) # 0 /\ DOMAIN returned = 1..Len(returned)
      BY <1>0, <1>3
    <2>3. latest = {last[1]}
      BY <1>0, <1>3, <2>2
    <2>4. CASE a[1] = last[1]
      BY <1>3, <2>3, <2>4 DEF Some
    <2>5. CASE last[1] < a[1]
      <3>1. ASSUME NEW k \in DOMAIN returned
            PROVE  returned[k] < a[1]
        <4>1. returned[k] \in Nat
          <5>1. returned \in Seq(Id) /\ k \in 1..Len(returned)
            BY <1>0, <2>2
          <5>2. returned[k] \in Id
            BY <5>1
          <5>. QED
            BY <1>0, <5>2
        <4>2. k < Len(returned) => returned[k] < last[1]
          BY <1>3, <2>2 DEF IInv, CursorAgrees, Sorted
        <4>. QED
          BY <1>3, <2>1, <2>2, <2>5, <4>1, <4>2
      <3>. QED
        BY <2>1, <2>3, <2>5, <3>1 DEF Some
    <2>. QED
      BY <2>1, <2>4, <2>5 DEF Below
  <1>. QED
    BY <1>2, <1>3 DEF IInv, CursorAgrees

-----------------------------------------------------------------------------
(* The invariant is inductive.                                              *)

\* Appending to the listing: the last element, and the sorted order.
LEMMA AppendListed ==
    ASSUME NEW seq \in Seq(Id), NEW i \in Id
    PROVE  /\ Append(seq, i) \in Seq(Id)
           /\ Len(Append(seq, i)) = Len(seq) + 1 /\ Append(seq, i) # <<>>
           /\ DOMAIN Append(seq, i) = 1..Len(seq) + 1
           /\ DOMAIN seq = 1..Len(seq) /\ Len(seq) \in Nat
           /\ Append(seq, i)[Len(seq) + 1] = i
           /\ \A k \in 1..Len(seq) : Append(seq, i)[k] = seq[k]
           /\ ToSet(Append(seq, i)) = ToSet(seq) \cup {i}
  <1>1. /\ Append(seq, i) \in Seq(Id)
        /\ Len(Append(seq, i)) = Len(seq) + 1 /\ Append(seq, i) # <<>>
        /\ DOMAIN Append(seq, i) = 1..Len(seq) + 1
        /\ DOMAIN seq = 1..Len(seq) /\ Len(seq) \in Nat
        /\ Append(seq, i)[Len(seq) + 1] = i
        /\ \A k \in 1..Len(seq) : Append(seq, i)[k] = seq[k]
    OBVIOUS
  <1>2. ToSet(Append(seq, i)) = ToSet(seq) \cup {i}
    BY <1>1 DEF ToSet
  <1>. QED
    BY <1>1, <1>2

\* A sub-account is opened: the cursor and the listing stay, and no row that was
\* ahead of the cursor falls behind it.
LEMMA CreditIInv ==
    ASSUME IInv, NEW a \in FullAccount, Credit(a)
    PROVE  IInv'
  <1>0. /\ accounts \in SUBSET FullAccount /\ accounts' \in SUBSET FullAccount
        /\ accounts \subseteq accounts' /\ offset \in Nat /\ start \subseteq accounts
        /\ UNCHANGED <<kind, key, offset, latest, returned, ended, start>>
    BY DEF IInv, TypeOK, Credit
  <1>1. TypeOK'
    BY DEF IInv, TypeOK, Credit
  <1>2. CursorAgrees'
    <2>1. Steady' => kind = "key"
      BY <1>0 DEF Steady, Credit
    <2>. QED
      BY <1>0, <2>1 DEF IInv, CursorAgrees, Sorted, Steady, Fresh, Visited
  <1>3. NoneIsPassedOver'
    <2>1. ASSUME NEW b \in start, Ahead(b)
          PROVE  Ahead(b)'
      <3>1. /\ Index(b, accounts) \in Nat /\ Index(b, accounts') \in Nat
            /\ Index(b, accounts) <= Index(b, accounts')
        BY <1>0, IndexGrows
      <3>2. offset <= Index(b, accounts) => offset <= Index(b, accounts')
        BY <1>0, <3>1
      <3>3. Index(b, accounts)' = Index(b, accounts')
        BY DEF Index
      <3>. QED
        BY <1>0, <2>1, <3>2, <3>3 DEF Ahead, AboveKey
    <2>. QED
      BY <1>0, <2>1 DEF IInv, NoneIsPassedOver
  <1>4. ListedExist'
    BY <1>0 DEF IInv, ListedExist, Numbers
  <1>. QED
    BY <1>1, <1>2, <1>3, <1>4 DEF IInv

\* A visit, with either cursor, keeps the types.
LEMMA PollTypeOK ==
    ASSUME TypeOK, Poll
    PROVE  TypeOK'
  <1>1. CASE Upcoming = {}
    BY <1>1 DEF TypeOK, Poll, None
  <1>2. ASSUME NEW a \in Upcoming, Advance(a), Emit(a), UNCHANGED <<ended, kind, accounts, start>>
        PROVE  TypeOK'
    <2>1. a \in accounts /\ a[1] \in Id /\ returned \in Seq(Id)
      BY <1>2, Parts DEF Upcoming, ByKey, ByOffset, TypeOK
    <2>2. key' \in SUBSET accounts /\ offset' \in Nat
      BY <1>2, <2>1 DEF Advance, TypeOK, Some
    <2>3. returned' \in Seq(Id) /\ latest' = {returned'[k] : k \in {Len(returned')} \ {0}}
      <3>1. CASE latest = Some(a[1])
        BY <1>2, <3>1 DEF Emit, TypeOK
      <3>2. CASE latest # Some(a[1])
        <4>1. returned' = Append(returned, a[1]) /\ latest' = {a[1]}
          BY <1>2, <3>2 DEF Emit, Some
        <4>. QED
          BY <2>1, <4>1, AppendListed
      <3>. QED
        BY <3>1, <3>2
    <2>. QED
      BY <1>2, <2>2, <2>3 DEF TypeOK
  <1>. QED
    BY <1>1, <1>2 DEF Poll

\* A visit passes over nothing, and with a steady cursor lists beyond what is
\* listed.
LEMMA PollIInv ==
    ASSUME IInv, Poll
    PROVE  IInv'
  <1>1. TypeOK'
    BY PollTypeOK DEF IInv
  <1>2. CASE Upcoming = {}
    <2>1. ended' /\ UNCHANGED <<returned, accounts, start, kind>>
      BY <1>2 DEF Poll
    <2>2. \A a \in start : ~Ahead(a)
      BY <1>2, VisitEnds DEF IInv, TypeOK
    <2>3. CursorAgrees' /\ NoneIsPassedOver' /\ ListedExist'
      BY <2>1, <2>2 DEF IInv, CursorAgrees, Steady, Sorted, NoneIsPassedOver, ListedExist
    <2>. QED
      BY <1>1, <2>3 DEF IInv
  <1>3. ASSUME NEW a \in Upcoming, Advance(a), Emit(a),
               UNCHANGED <<ended, kind, accounts, start>>, ~ended
        PROVE  IInv'
    <2>0. /\ a \in accounts /\ a \in FullAccount /\ a[1] \in Id /\ returned \in Seq(Id)
          /\ \A b \in accounts : Ahead(b) => b = a \/ Below(a, b)
      BY <1>3, Parts, VisitIsNext DEF IInv, TypeOK
    <2>1. Visited(a)' /\ \A b \in accounts : Ahead(b)' <=> Below(a, b)
      BY <1>3, VisitPasses DEF IInv
    <2>2. ToSet(returned') = ToSet(returned) \cup {a[1]}
      <3>1. CASE latest = Some(a[1])
        <4>1. latest = {returned[k] : k \in {Len(returned)} \ {0}} /\ UNCHANGED returned
          BY <1>3, <3>1 DEF IInv, TypeOK, Emit
        <4>2. a[1] \in {returned[k] : k \in {Len(returned)} \ {0}}
          BY <3>1, <4>1 DEF Some
        <4>3. Len(returned) # 0 /\ a[1] = returned[Len(returned)]
          BY <4>2
        <4>4. Len(returned) \in DOMAIN returned
          BY <2>0, <4>3
        <4>. QED
          BY <4>1, <4>3, <4>4 DEF ToSet
      <3>2. CASE latest # Some(a[1])
        BY <1>3, <2>0, <3>2, AppendListed DEF Emit
      <3>. QED
        BY <3>1, <3>2
    <2>3. ASSUME Steady'
          PROVE  /\ Sorted' /\ returned' # <<>>
                 /\ returned'[Len(returned')] = a[1]
      <3>0. Steady /\ Sorted
        BY <1>3, <2>3 DEF Steady, IInv, CursorAgrees
      <3>1. CASE latest = Some(a[1])
        <4>1. /\ UNCHANGED returned
              /\ returned # <<>> /\ returned[Len(returned)] = a[1]
          BY <1>3, <3>0, <3>1, SteadyVisit DEF Emit
        <4>. QED
          BY <3>0, <4>1 DEF Sorted
      <3>2. CASE latest # Some(a[1])
        <4>1. returned' = Append(returned, a[1])
          BY <1>3, <3>2 DEF Emit
        <4>2. \A k \in DOMAIN returned : returned[k] < a[1]
          BY <1>3, <3>0, <3>2, SteadyVisit
        <4>. QED
          BY <2>0, <3>0, <4>1, <4>2, AppendListed DEF Sorted
      <3>. QED
        BY <3>1, <3>2
    <2>4. CursorAgrees'
      BY <1>3, <2>0, <2>1, <2>3 DEF CursorAgrees
    <2>5. ASSUME NEW b \in start
          PROVE  Ahead(b)' \/ b[1] \in ToSet(returned')
      <3>1. b \in accounts
        BY DEF IInv, TypeOK
      <3>. QED
        BY <1>3, <2>0, <2>1, <2>2, <3>1 DEF IInv, NoneIsPassedOver
    <2>6. NoneIsPassedOver'
      BY <1>3, <2>5 DEF NoneIsPassedOver
    <2>7. ListedExist'
      BY <1>3, <2>0, <2>2 DEF IInv, ListedExist, Numbers
    <2>. QED
      BY <1>1, <2>4, <2>6, <2>7 DEF IInv
  <1>. QED
    BY <1>2, <1>3 DEF Poll

\* Every step keeps the invariant.
LEMMA NextIInv == IInv /\ [Next]_vars => IInv'
  <1>. SUFFICES ASSUME IInv, [Next]_vars PROVE IInv'
    OBVIOUS
  <1>1. CASE UNCHANGED vars
    BY <1>1 DEF IInv, TypeOK, CursorAgrees, Steady, Sorted, Fresh, Visited, NoneIsPassedOver,
                Ahead, AboveKey, Index, ListedExist, Numbers, vars
  <1>. QED
    BY <1>1, CreditIInv, PollIInv DEF Next, Over

\* The invariant always holds.
LEMMA Invariance == Spec => []IInv
  BY InitIInv, NextIInv, PTL DEF Spec

-----------------------------------------------------------------------------
(* The theorems.                                                            *)

\* The cursors of the storage and of the iterator point at sub-accounts that
\* exist, and the iterator remembers the last number listed.
THEOREM TypeCorrect == Spec => []TypeOK
  <1>1. IInv => TypeOK
    BY DEF IInv
  <1>. QED
    BY <1>1, Invariance, PTL

\* With the in-memory store a listing is sorted and names no account twice,
\* whatever sub-accounts are opened while it goes on.
THEOREM KeysListInOrder == Spec => [](kind = "key" => Sorted)
  <1>1. IInv => (kind = "key" => Sorted)
    BY DEF IInv, CursorAgrees, Steady
  <1>. QED
    BY <1>1, Invariance, PTL

\* Whatever is credited meanwhile, and with either cursor, no account that was
\* there when the listing began is left out of it: rows that are inserted shift
\* the others towards the cursor, never behind it.
THEOREM NoneIsLeftOutHolds == Spec => []NoneIsLeftOut
  <1>1. IInv => NoneIsLeftOut
    BY DEF IInv, TypeOK, NoneIsPassedOver, NoneIsLeftOut, Numbers
  <1>. QED
    BY <1>1, Invariance, PTL

\* A listing during which no sub-account is opened is sorted, names no account
\* twice and, at its end, has named all of them, with either cursor.
THEOREM UndisturbedIsExactHolds == Spec => []UndisturbedIsExact
  <1>1. ASSUME IInv, accounts = start
        PROVE  /\ \A j, k \in DOMAIN returned : j < k => returned[j] < returned[k]
               /\ ToSet(returned) \subseteq Numbers(accounts)
               /\ ended => ToSet(returned) = Numbers(accounts)
    <2>1. Sorted
      BY <1>1 DEF IInv, CursorAgrees, Steady
    <2>2. ToSet(returned) \subseteq Numbers(accounts)
      BY <1>1 DEF IInv, ListedExist
    <2>3. ended => Numbers(accounts) \subseteq ToSet(returned)
      BY <1>1 DEF IInv, NoneIsPassedOver, Numbers
    <2>. QED
      BY <2>1, <2>2, <2>3 DEF Sorted
  <1>2. IInv => UndisturbedIsExact
    BY <1>1 DEF UndisturbedIsExact
  <1>. QED
    BY <1>2, Invariance, PTL

\* The key is the sub-account that was visited last.
LEMMA KeyKnows ==
    ASSUME IInv, kind = "key", ~ended
    PROVE  \/ key = None /\ returned = <<>>
           \/ \E last \in accounts : /\ key = Some(last)
                                     /\ returned # <<>>
                                     /\ returned[Len(returned)] = last[1]
  BY DEF IInv, CursorAgrees, Steady, Fresh, Visited

\* A step with the key cursor is a step of the abstract listing, or none.
LEMMA KeyStepLists ==
    ASSUME IInv, kind = "key", [Next]_vars
    PROVE  [Listing!Next]_(Listing!vars)
  <1>0. /\ returned \in Seq(Id) /\ accounts \subseteq FullAccount /\ Id \subseteq Nat
        /\ accounts \subseteq FullAccount /\ DOMAIN returned = 1..Len(returned)
    BY IdIsNat DEF IInv, TypeOK
  <1>1. CASE UNCHANGED vars
    BY <1>1 DEF Listing!vars, vars, Numbers
  <1>2. ASSUME NEW a \in FullAccount, Credit(a)
        PROVE  Listing!Next
    <2>1. a[1] \in Id /\ UNCHANGED <<returned, ended>>
      BY <1>2, Parts DEF Credit
    <2>2. Numbers(accounts') = Numbers(accounts) \cup {a[1]}
      BY <1>2 DEF Credit, Numbers
    <2>3. Listing!OpenAccount(a[1])
      BY <2>1, <2>2 DEF Listing!OpenAccount, Numbers
    <2>. QED
      BY <2>1, <2>3 DEF Listing!Next
  <1>3. CASE Poll /\ ByKey = {}
    <2>1. ~ended /\ ended' /\ UNCHANGED <<returned, accounts>>
      BY <1>3 DEF Poll, Upcoming
    <2>2. ASSUME NEW i \in Numbers(accounts)
          PROVE  ~Listing!Beyond(i)
      <3>1. PICK a \in accounts : i = a[1]
        BY DEF Numbers
      <3>2. ~AboveKey(a)
        BY <1>3, VisitEnds DEF IInv, Upcoming, Ahead
      <3>3. PICK last \in accounts : /\ key = Some(last)
                                     /\ returned # <<>>
                                     /\ returned[Len(returned)] = last[1]
        BY <2>1, <3>2, KeyKnows DEF AboveKey, None
      <3>4. ~Below(last, a)
        BY <3>2, <3>3 DEF AboveKey, Some
      <3>5. a[1] \in Nat /\ last[1] \in Nat
        BY <1>0, Parts
      <3>6. ~(last[1] < a[1])
        BY <3>4, <3>5 DEF Below
      <3>7. Len(returned) \in DOMAIN returned
        BY <1>0, <3>3
      <3>. QED
        BY <3>1, <3>3, <3>6, <3>7 DEF Listing!Beyond
    <2>3. Listing!End
      BY <2>1, <2>2 DEF Listing!End, Numbers
    <2>. QED
      BY <2>3 DEF Listing!Next
  <1>4. ASSUME NEW a \in ByKey, Emit(a), UNCHANGED <<ended, accounts>>, ~ended
        PROVE  [Listing!Next]_(Listing!vars)
    <2>1. /\ a \in accounts /\ a[1] \in Id /\ AboveKey(a)
          /\ \A b \in accounts : AboveKey(b) => b = a \/ Below(a, b)
      BY <1>0, <1>4, VisitIsNext, Parts DEF IInv, Upcoming, Ahead
    <2>2. CASE latest = Some(a[1])
      BY <1>4, <2>2 DEF Emit, Listing!vars, Numbers
    <2>3. CASE latest # Some(a[1])
      <3>1. returned' = Append(returned, a[1])
        BY <1>4, <2>3 DEF Emit
      <3>2. Listing!Beyond(a[1])
        BY <1>4, <2>3, SteadyVisit DEF Listing!Beyond, Upcoming, Steady
      <3>3. ASSUME NEW j \in Numbers(accounts), Listing!Beyond(j)
            PROVE  a[1] <= j
        <4>1. PICK b \in accounts : j = b[1]
          BY DEF Numbers
        <4>2. b[1] \in Nat /\ a[1] \in Nat
          BY <1>0, <2>1, Parts
        <4>3. CASE key = None
          <5>1. b = a \/ Below(a, b)
            BY <2>1, <4>3 DEF AboveKey, None
          <5>. QED
            BY <4>1, <4>2, <5>1 DEF Below
        <4>4. CASE key # None
          <5>1. PICK last \in accounts : /\ key = Some(last)
                                         /\ returned # <<>>
                                         /\ returned[Len(returned)] = last[1]
            BY <1>4, <4>4, KeyKnows
          <5>2. last[1] < b[1]
            BY <1>0, <3>3, <4>1, <5>1 DEF Listing!Beyond
          <5>3. AboveKey(b)
            BY <5>1, <5>2 DEF AboveKey, Below, Some
          <5>4. b = a \/ Below(a, b)
            BY <2>1, <5>3
          <5>. QED
            BY <4>1, <4>2, <5>4 DEF Below
        <4>. QED
          BY <4>3, <4>4
      <3>4. Listing!List(a[1])
        BY <1>4, <2>1, <3>1, <3>2, <3>3 DEF Listing!List, Numbers
      <3>. QED
        BY <2>1, <3>4 DEF Listing!Next
    <2>. QED
      BY <2>2, <2>3
  <1>5. CASE Poll
    BY <1>3, <1>4, <1>5 DEF Poll, Upcoming
  <1>6. CASE Over
    BY <1>1, <1>6 DEF Over
  <1>. QED
    BY <1>1, <1>2, <1>5, <1>6 DEF Next

\* The listing of the in-memory store is the abstract one: sorted, each account
\* once, the next one never passed over, and no end before the last account.
THEOREM KeysImplementListing == Spec => ImplementsListing
  <1>1. Init => Listing!Init
    <2>. SUFFICES ASSUME Init PROVE Listing!Init
      OBVIOUS
    <2>1. accounts \subseteq FullAccount /\ returned = <<>> /\ ended = FALSE
      BY DEF Init
    <2>. QED
      BY <2>1, Parts DEF Listing!Init, Numbers
  <1>2. IInv /\ [Next]_vars => [kind = "key" => Listing!Next]_(Listing!vars)
    BY KeyStepLists
  <1>. QED
    BY <1>1, <1>2, Invariance, PTL DEF Spec, ImplementsListing

-----------------------------------------------------------------------------
(* Progress.                                                                *)

\* Beyond a sub-account that is above the key there are fewer than above the key.
LEMMA FewerAreAbove ==
    ASSUME TypeOK, NEW a \in accounts, AboveKey(a)
    PROVE  LET above == {b \in FullAccount : AboveKey(b)}
               beyond == {b \in FullAccount : Below(a, b)}
           IN  Cardinality(beyond) \in 0..(Cardinality(above) - 1)
  <1>. DEFINE above == {b \in FullAccount : AboveKey(b)}
              beyond == {b \in FullAccount : Below(a, b)}
  <1>1. a \in FullAccount /\ key \subseteq FullAccount
    BY DEF TypeOK
  <1>2. beyond \subseteq above
    BY <1>1, BelowIsTransitive DEF AboveKey
  <1>3. a \in above /\ a \notin beyond
    <2>1. a[1] \in Nat /\ Rank[a[2]] \in 0..2
      BY <1>1, Parts, RankType
    <2>2. ~Below(a, a)
      BY <2>1 DEF Below
    <2>. QED
      BY <1>1, <2>2
  <1>4. IsFiniteSet(above) /\ IsFiniteSet(beyond)
    BY AccountsAreFinite
  <1>. HIDE DEF above, beyond
  <1>5. /\ Cardinality(beyond) <= Cardinality(above) /\ Cardinality(beyond) # Cardinality(above)
        /\ Cardinality(beyond) \in Nat /\ Cardinality(above) \in Nat
    BY <1>2, <1>3, <1>4, FS_Subset, FS_CardinalityType
  <1>6. Cardinality(beyond) \in 0..(Cardinality(above) - 1)
    BY <1>5
  <1>. QED
    BY <1>6 DEF above, beyond

\* Each poll that does not end the listing takes from what is left, and nothing
\* adds to it: with fairness, every listing ends.
THEOREM PollsRunOutHolds == Spec => PollsRunOut
  <1>1. ASSUME IInv, Poll
        PROVE  ended' \/ PollsLeft' \in 0..(PollsLeft - 1)
    <2>1. kind' = kind /\ TypeOK /\ accounts \in SUBSET FullAccount /\ offset \in Nat
      BY <1>1 DEF Poll, IInv, TypeOK
    <2>2. CASE Upcoming = {}
      BY <1>1, <2>2 DEF Poll
    <2>3. CASE Upcoming # {}
      <3>1. PICK a \in Upcoming : Advance(a)
        BY <1>1, <2>3 DEF Poll
      <3>2. CASE kind = "key"
        <4>1. a \in accounts /\ AboveKey(a) /\ key' = {a}
          BY <3>1, <3>2 DEF Upcoming, ByKey, Advance, Some
        <4>2. \A b : AboveKey(b)' <=> Below(a, b)
          BY <4>1 DEF AboveKey, Below
        <4>3. {b \in FullAccount : AboveKey(b)}' = {b \in FullAccount : Below(a, b)}
          BY <4>2
        <4>4. PollsLeft' = Cardinality({b \in FullAccount : Below(a, b)})
          BY <2>1, <3>2, <4>3 DEF PollsLeft
        <4>5. PollsLeft = Cardinality({b \in FullAccount : AboveKey(b)})
          BY <3>2 DEF PollsLeft
        <4>. QED
          BY <2>1, <4>1, <4>4, <4>5, FewerAreAbove
      <3>3. CASE kind # "key"
        <4>1. a \in accounts /\ Index(a, accounts) = offset /\ offset' = offset + 1
          BY <3>1, <3>3 DEF Upcoming, ByOffset, Advance, Index
        <4>2. offset < Cardinality(accounts) /\ Cardinality(accounts) \in Nat
          BY <2>1, <4>1, IndexIsOnto
        <4>3. IsFiniteSet(FullAccount) /\ Cardinality(FullAccount) \in Nat
          BY AccountsAreFinite, FS_CardinalityType
        <4>4. Cardinality(accounts) <= Cardinality(FullAccount)
          BY <2>1, <4>3, FS_Subset
        <4>5. /\ PollsLeft = Cardinality(FullAccount) - offset
              /\ PollsLeft' = Cardinality(FullAccount) - (offset + 1)
          BY <2>1, <3>3, <4>1 DEF PollsLeft
        <4>. QED
          BY <2>1, <4>2, <4>3, <4>4, <4>5
      <3>. QED
        BY <3>2, <3>3
    <2>. QED
      BY <2>2, <2>3
  <1>2. [Next]_vars /\ ~Poll => PollsLeft' = PollsLeft
    <2>. SUFFICES ASSUME [Next]_vars, ~Poll
                  PROVE  PollsLeft' = PollsLeft
      OBVIOUS
    <2>1. UNCHANGED <<kind, key, offset>>
      BY DEF Next, Over, Credit, vars
    <2>. QED
      BY <2>1 DEF PollsLeft, AboveKey
  <1>3. IInv /\ [Next]_vars =>
            [IF Poll THEN ended' \/ PollsLeft' \in 0..(PollsLeft - 1)
             ELSE PollsLeft' = PollsLeft]_vars
    BY <1>1, <1>2
  <1>. QED
    BY <1>3, Invariance, PTL DEF Spec, PollsRunOut
=============================================================================
