------------------------- MODULE FiniteSums_proofs -------------------------
(***************************************************************************)
(* Facts about sums over finite sets.  MapThenSumSet is recursive, an      *)
(* element being picked at each turn, and what it computes is proved from  *)
(* the fact that a set of naturals has a least element: a function with    *)
(* the recursive equations exists because a least size without one is      *)
(* impossible, and its values are integers, do not depend on the element   *)
(* that is picked, and depend on the amounts only, because a least size    *)
(* where one of these fails is impossible.                                 *)
(*                                                                         *)
(* From the same fact come induction up to a number, for a set in place of *)
(* a predicate, and that a function on 0..N can be defined by recursion.   *)
(***************************************************************************)
EXTENDS Integers, WellFoundedInduction, FiniteSetTheorems, TLAPS

\* Every set of naturals that is not empty has a least element.
LEMMA Least ==
    ASSUME NEW T \in SUBSET Nat, T # {}
    PROVE  \E m \in T : \A n \in T : m <= n
  <1>. DEFINE R == OpToRel(<, Nat)
  <1>1. IsWellFoundedOn(R, Nat)
    BY NatLessThanWellFounded
  <1>2. PICK m \in T : \A n \in T : <<n, m>> \notin R
    <2>. HIDE DEF R
    <2>. QED
      BY <1>1, WFMin, Zenon
  <1>3. R = {ss \in Nat \X Nat : ss[1] < ss[2]}
    BY DEF OpToRel
  <1>. HIDE DEF R
  <1>4. ASSUME NEW n \in T
        PROVE  m <= n
    <2>1. n \in Nat /\ m \in Nat /\ <<n, m>> \in Nat \X Nat
      OBVIOUS
    <2>2. n < m => <<n, m>> \in {ss \in Nat \X Nat : ss[1] < ss[2]}
      BY <2>1
    <2>3. ~ (n < m)
      BY <2>2, <1>2, <1>3
    <2>. QED
      BY <2>1, <2>3
  <1>. QED
    BY <1>4

\* Induction up to N: a set that has 0, and with each number the next one.
LEMMA UpTo ==
    ASSUME NEW N \in Nat, NEW G, 0 \in G,
           \A n \in 1..N : n - 1 \in G => n \in G
    PROVE  \A n \in 0..N : n \in G
  <1>. DEFINE Bad == {n \in Nat : n <= N /\ n \notin G}
  <1>1. Bad = {}
    <2>. SUFFICES ASSUME Bad # {} PROVE FALSE
      OBVIOUS
    <2>1. PICK m \in Bad : \A n \in Bad : m <= n
      BY Least
    <2>2. m # 0 /\ m \in 1..N
      BY <2>1
    <2>3. m - 1 \in G
      BY <2>1, <2>2
    <2>. QED
      BY <2>1, <2>2, <2>3
  <1>. QED
    BY <1>1

\* f starts with a and goes on by steps in S.
IsIteration(f, N, S, a, step) ==
    /\ f \in [0..N -> S]
    /\ f[0] = a
    /\ \A i \in 1..N : f[i] = step[<<i, f[i - 1]>>]

\* Such a function exists on any 0..N.
LEMMA Iterates ==
    ASSUME NEW N \in Nat, NEW S, NEW a \in S, NEW step \in [(1..N) \X S -> S]
    PROVE  \E f : IsIteration(f, N, S, a, step)
  <1>. DEFINE Reach(n) == \E f \in [0..n -> S] :
                             f[0] = a /\ \A i \in 1..n : f[i] = step[<<i, f[i - 1]>>]
              G == {n \in 0..N : Reach(n)}
  <1>1. Reach(0)
    <2>. DEFINE f == [i \in 0..0 |-> a]
    <2>1. f \in [0..0 -> S] /\ f[0] = a /\ \A i \in 1..0 : f[i] = step[<<i, f[i - 1]>>]
      OBVIOUS
    <2>. QED
      BY <2>1
  <1>2. ASSUME NEW n \in 1..N, Reach(n - 1)
        PROVE  Reach(n)
    <2>1. PICK f \in [0..(n - 1) -> S] :
             f[0] = a /\ \A i \in 1..(n - 1) : f[i] = step[<<i, f[i - 1]>>]
      BY <1>2
    <2>2. f[n - 1] \in S /\ step[<<n, f[n - 1]>>] \in S
      <3>1. f[n - 1] \in S
        OBVIOUS
      <3>2. <<n, f[n - 1]>> \in (1..N) \X S
        BY <3>1
      <3>. QED
        BY <3>1, <3>2
    <2>. DEFINE g == [i \in 0..n |-> IF i = n THEN step[<<n, f[n - 1]>>] ELSE f[i]]
    <2>3. g \in [0..n -> S]
      BY <2>2
    <2>4. g[0] = a
      BY <2>1
    <2>5. ASSUME NEW i \in 1..n
          PROVE  g[i] = step[<<i, g[i - 1]>>]
      <3>1. g[i - 1] = f[i - 1]
        OBVIOUS
      <3>2. CASE i = n
        <4>1. g[n] = step[<<n, f[n - 1]>>] /\ g[n - 1] = f[n - 1]
          BY <3>1, <3>2
        <4>. HIDE DEF g
        <4>. QED
          BY <3>2, <4>1
      <3>3. CASE i \in 1..(n - 1)
        BY <2>1, <3>1, <3>3
      <3>. QED
        BY <3>2, <3>3
    <2>. HIDE DEF g
    <2>. QED
      BY <2>3, <2>4, <2>5
  <1>. HIDE DEF Reach
  <1>3. N \in G
    <2>1. 0 \in G /\ \A n \in 1..N : n - 1 \in G => n \in G
      BY <1>1, <1>2
    <2>. HIDE DEF G
    <2>. QED
      BY <2>1, UpTo
  <1>. QED
    BY <1>3 DEF Reach, IsIteration

-----------------------------------------------------------------------------

Pick(s) == CHOOSE x \in s : TRUE

\* The recursion of MapThenSumSet for the amounts f over the subsets of S.
IsFold(g, f, S) ==
    g = [s \in SUBSET S |-> IF s = {} THEN 0 ELSE f[Pick(s)] + g[s \ {Pick(s)}]]

\* Taking an element out of a finite set makes it smaller.
LEMMA Smaller ==
    ASSUME NEW s, IsFiniteSet(s), NEW x \in s
    PROVE  /\ IsFiniteSet(s \ {x})
           /\ Cardinality(s) \in Nat /\ Cardinality(s \ {x}) \in Nat
           /\ Cardinality(s \ {x}) = Cardinality(s) - 1
  BY FS_RemoveElement, FS_CardinalityType

\* What is picked is in the set.
LEMMA PickIn ==
    ASSUME NEW s, s # {}
    PROVE  Pick(s) \in s
  BY DEF Pick

\* The equations of the recursion have a solution on a finite set.
LEMMA FoldExists ==
    ASSUME NEW S, IsFiniteSet(S), NEW f, \A x \in S : f[x] \in Int
    PROVE  \E g \in [SUBSET S -> Int] : IsFold(g, f, S)
  <1>. DEFINE Small(n) == {s \in SUBSET S : Cardinality(s) <= n}
              Solves(g, n) == \A s \in Small(n) :
                                 g[s] = IF s = {} THEN 0 ELSE f[Pick(s)] + g[s \ {Pick(s)}]
              Upto(n) == \E g \in [Small(n) -> Int] : Solves(g, n)
              Bad == {n \in Nat : ~Upto(n)}
  <1>0. \A s \in SUBSET S : IsFiniteSet(s) /\ Cardinality(s) \in Nat
    BY FS_Subset, FS_CardinalityType
  <1>1. Upto(0)
    <2>. DEFINE g == [s \in Small(0) |-> 0]
    <2>1. g \in [Small(0) -> Int]
      OBVIOUS
    <2>2. \A s \in Small(0) : s = {}
      BY <1>0, FS_EmptySet
    <2>3. Solves(g, 0)
      BY <2>2
    <2>. QED
      BY <2>1, <2>3
  <1>2. ASSUME NEW n \in Nat, Upto(n)
        PROVE  Upto(n + 1)
    <2>1. PICK g \in [Small(n) -> Int] : Solves(g, n)
      BY <1>2
    <2>. DEFINE h == [s \in Small(n + 1) |->
                        IF s \in Small(n) THEN g[s] ELSE f[Pick(s)] + g[s \ {Pick(s)}]]
    <2>2. ASSUME NEW s \in Small(n + 1), s # {}
          PROVE  /\ Pick(s) \in S /\ s \ {Pick(s)} \in Small(n)
                 /\ s \ {Pick(s)} \in Small(n + 1)
      <3>1. Pick(s) \in s
        BY <2>2, PickIn
      <3>2. Cardinality(s \ {Pick(s)}) = Cardinality(s) - 1 /\ Cardinality(s) \in Nat
        BY <1>0, <3>1, Smaller
      <3>. QED
        BY <3>1, <3>2
    <2>3. Small(n) \subseteq Small(n + 1)
      BY <1>0
    <2>4. {} \in Small(n)
      BY <1>0, FS_EmptySet
    <2>. HIDE DEF Small
    <2>5. h \in [Small(n + 1) -> Int]
      <3>1. ASSUME NEW s \in Small(n + 1), s \notin Small(n)
            PROVE  f[Pick(s)] + g[s \ {Pick(s)}] \in Int
        <4>1. Pick(s) \in S /\ s \ {Pick(s)} \in Small(n)
          BY <2>2, <2>4, <3>1
        <4>2. f[Pick(s)] \in Int /\ g[s \ {Pick(s)}] \in Int
          BY <4>1
        <4>. QED
          BY <4>2
      <3>. QED
        BY <3>1
    <2>6. ASSUME NEW s \in Small(n + 1)
          PROVE  h[s] = IF s = {} THEN 0 ELSE f[Pick(s)] + h[s \ {Pick(s)}]
      <3>1. CASE s = {}
        BY <2>1, <2>3, <2>4, <3>1
      <3>2. CASE s # {}
        <4>1. h[s \ {Pick(s)}] = g[s \ {Pick(s)}]
          BY <2>2, <3>2
        <4>. QED
          BY <2>1, <3>2, <4>1
      <3>. QED
        BY <3>1, <3>2
    <2>. HIDE DEF h
    <2>. QED
      BY <2>5, <2>6
  <1>. HIDE DEF Upto
  <1>3. Bad = {}
    <2>. SUFFICES ASSUME Bad # {} PROVE FALSE
      OBVIOUS
    <2>1. PICK m \in Bad : \A n \in Bad : m <= n
      BY Least
    <2>2. m - 1 \in Nat /\ Upto(m - 1)
      BY <1>1, <2>1
    <2>3. Upto((m - 1) + 1)
      BY <1>2, <2>2
    <2>. QED
      BY <2>1, <2>3
  <1>4. Cardinality(S) \in Nat /\ Upto(Cardinality(S))
    BY <1>0, <1>3
  <1>5. Small(Cardinality(S)) = SUBSET S
    <2>1. \A s \in SUBSET S : Cardinality(s) <= Cardinality(S)
      BY FS_Subset
    <2>. QED
      BY <2>1
  <1>6. PICK g \in [SUBSET S -> Int] : \A s \in SUBSET S :
           g[s] = IF s = {} THEN 0 ELSE f[Pick(s)] + g[s \ {Pick(s)}]
    BY <1>4, <1>5 DEF Upto
  <1>7. IsFold(g, f, S)
    BY <1>6 DEF IsFold
  <1>. QED
    BY <1>7

\* The recursion gives integers.
LEMMA FoldIsInt ==
    ASSUME NEW S, IsFiniteSet(S), NEW f, \A x \in S : f[x] \in Int,
           NEW g, IsFold(g, f, S), NEW s \in SUBSET S
    PROVE  g[s] \in Int
  <1>. DEFINE Bad == {n \in Nat : \E t \in SUBSET S : Cardinality(t) = n /\ g[t] \notin Int}
  <1>0. \A t \in SUBSET S : IsFiniteSet(t) /\ Cardinality(t) \in Nat
    BY FS_Subset, FS_CardinalityType
  <1>1. Bad = {}
    <2>. SUFFICES ASSUME Bad # {} PROVE FALSE
      OBVIOUS
    <2>1. PICK m \in Bad : \A n \in Bad : m <= n
      BY Least
    <2>2. PICK t \in SUBSET S : Cardinality(t) = m /\ g[t] \notin Int
      BY <2>1
    <2>3. g[t] = IF t = {} THEN 0 ELSE f[Pick(t)] + g[t \ {Pick(t)}]
      BY <2>2 DEF IsFold
    <2>4. t # {}
      BY <2>2, <2>3
    <2>5. Pick(t) \in t
      BY <2>4, PickIn
    <2>6. Cardinality(t \ {Pick(t)}) \in Nat /\ Cardinality(t \ {Pick(t)}) < m
      BY <1>0, <2>2, <2>5, Smaller
    <2>7. g[t \ {Pick(t)}] \in Int
      BY <2>1, <2>6
    <2>. QED
      BY <2>2, <2>3, <2>4, <2>5, <2>7
  <1>. QED
    BY <1>0, <1>1

\* Any element may be taken out first.
LEMMA FoldAnyFirst ==
    ASSUME NEW S, IsFiniteSet(S), NEW f, \A x \in S : f[x] \in Int,
           NEW g, IsFold(g, f, S), NEW s \in SUBSET S, NEW x \in s
    PROVE  g[s] = f[x] + g[s \ {x}]
  <1>. DEFINE Bad == {n \in Nat : \E t \in SUBSET S : \E y \in t :
                         Cardinality(t) = n /\ g[t] # f[y] + g[t \ {y}]}
  <1>0. \A t \in SUBSET S : IsFiniteSet(t) /\ Cardinality(t) \in Nat /\ g[t] \in Int
    BY FS_Subset, FS_CardinalityType, FoldIsInt
  <1>1. Bad = {}
    <2>. SUFFICES ASSUME Bad # {} PROVE FALSE
      OBVIOUS
    <2>1. PICK m \in Bad : \A n \in Bad : m <= n
      BY Least
    <2>2. PICK t \in SUBSET S : \E y \in t : Cardinality(t) = m /\ g[t] # f[y] + g[t \ {y}]
      BY <2>1
    <2>3. PICK y \in t : Cardinality(t) = m /\ g[t] # f[y] + g[t \ {y}]
      BY <2>2
    <2>. DEFINE z == Pick(t)
    <2>4. z \in t
      BY PickIn
    <2>5. g[t] = f[z] + g[t \ {z}]
      BY DEF IsFold
    <2>. HIDE DEF z
    <2>6. z # y
      BY <2>3, <2>5
    <2>7. /\ t \ {z} \in SUBSET S /\ t \ {y} \in SUBSET S /\ z \in t \ {y} /\ y \in t \ {z}
          /\ (t \ {z}) \ {y} = (t \ {y}) \ {z}
      BY <2>4, <2>6
    <2>8. /\ Cardinality(t \ {z}) \in Nat /\ Cardinality(t \ {z}) < m
          /\ Cardinality(t \ {y}) \in Nat /\ Cardinality(t \ {y}) < m
      BY <1>0, <2>3, <2>4, Smaller
    <2>9. ASSUME NEW u \in SUBSET S, NEW w \in u, Cardinality(u) \in Nat, Cardinality(u) < m
          PROVE  g[u] = f[w] + g[u \ {w}]
      <3>1. Cardinality(u) \notin Bad
        <4>1. m \in Nat /\ \A n \in Bad : m <= n
          BY <2>1
        <4>. HIDE DEF Bad
        <4>. QED
          BY <2>9, <4>1
      <3>. QED
        BY <2>9, <3>1
    <2>10. g[t \ {z}] = f[y] + g[(t \ {z}) \ {y}]
      BY <2>7, <2>8, <2>9
    <2>11. g[t \ {y}] = f[z] + g[(t \ {y}) \ {z}]
      BY <2>7, <2>8, <2>9
    <2>. DEFINE rest == g[(t \ {z}) \ {y}]
    <2>12. f[y] \in Int /\ f[z] \in Int /\ rest \in Int
      BY <1>0, <2>4, <2>7
    <2>13. g[t \ {z}] = f[y] + rest /\ g[t \ {y}] = f[z] + rest
      BY <2>7, <2>10, <2>11
    <2>. HIDE DEF Bad, rest
    <2>. QED
      BY <2>3, <2>5, <2>12, <2>13
  <1>. QED
    BY <1>0, <1>1

\* Two sums of the same amounts agree where both are defined.
LEMMA FoldUnique ==
    ASSUME NEW S, IsFiniteSet(S), NEW T, IsFiniteSet(T), NEW f, NEW e,
           NEW g, IsFold(g, f, S), NEW h, IsFold(h, e, T),
           NEW s \in SUBSET (S \cap T), \A x \in s : f[x] = e[x]
    PROVE  g[s] = h[s]
  <1>. DEFINE Bad == {n \in Nat : \E t \in SUBSET s : Cardinality(t) = n /\ g[t] # h[t]}
  <1>0. \A t \in SUBSET s : IsFiniteSet(t) /\ Cardinality(t) \in Nat
    BY FS_Subset, FS_CardinalityType
  <1>1. Bad = {}
    <2>. SUFFICES ASSUME Bad # {} PROVE FALSE
      OBVIOUS
    <2>1. PICK m \in Bad : \A n \in Bad : m <= n
      BY Least
    <2>2. PICK t \in SUBSET s : Cardinality(t) = m /\ g[t] # h[t]
      BY <2>1
    <2>. DEFINE z == Pick(t)
    <2>3. /\ g[t] = IF t = {} THEN 0 ELSE f[z] + g[t \ {z}]
          /\ h[t] = IF t = {} THEN 0 ELSE e[z] + h[t \ {z}]
      BY <2>2 DEF IsFold
    <2>4. t # {}
      BY <2>2, <2>3
    <2>5. z \in t
      BY <2>4, PickIn
    <2>. HIDE DEF z
    <2>6. Cardinality(t \ {z}) \in Nat /\ Cardinality(t \ {z}) < m
      BY <1>0, <2>2, <2>5, Smaller
    <2>7. g[t \ {z}] = h[t \ {z}]
      BY <2>1, <2>6
    <2>. QED
      BY <2>2, <2>3, <2>4, <2>5, <2>7
  <1>. QED
    BY <1>0, <1>1

\* If some of the amounts are one less than others, the sum is less by as many
\* at most.
LEMMA FoldNear ==
    ASSUME NEW S, IsFiniteSet(S), NEW W, NEW f, NEW e,
           \A x \in S : f[x] \in Int /\ e[x] \in Int,
           \A x \in S : f[x] = e[x] \/ (x \in W /\ f[x] = e[x] - 1),
           NEW g, IsFold(g, f, S), NEW h, IsFold(h, e, S),
           NEW s \in SUBSET S
    PROVE  /\ g[s] \in Int /\ h[s] \in Int /\ Cardinality(s \cap W) \in Nat
           /\ g[s] <= h[s] /\ h[s] - Cardinality(s \cap W) <= g[s]
  <1>. DEFINE lost(t) == Cardinality(t \cap W)
              Bad == {n \in Nat : \E t \in SUBSET S : /\ Cardinality(t) = n
                                                     /\ ~(g[t] <= h[t] /\ h[t] - lost(t) <= g[t])}
  <1>0. \A t \in SUBSET S : /\ IsFiniteSet(t) /\ Cardinality(t) \in Nat
                            /\ IsFiniteSet(t \cap W) /\ lost(t) \in Nat
                            /\ g[t] \in Int /\ h[t] \in Int
    <2>1. \A t \in SUBSET S : IsFiniteSet(t) /\ IsFiniteSet(t \cap W)
      BY FS_Subset
    <2>. QED
      BY <2>1, FS_CardinalityType, FoldIsInt
  <1>1. Bad = {}
    <2>. SUFFICES ASSUME Bad # {} PROVE FALSE
      OBVIOUS
    <2>1. PICK m \in Bad : \A n \in Bad : m <= n
      BY Least
    <2>2. PICK t \in SUBSET S : Cardinality(t) = m /\ ~(g[t] <= h[t] /\ h[t] - lost(t) <= g[t])
      BY <2>1
    <2>. DEFINE z == Pick(t)
                rest == t \ {z}
    <2>3. /\ g[t] = IF t = {} THEN 0 ELSE f[z] + g[rest]
          /\ h[t] = IF t = {} THEN 0 ELSE e[z] + h[rest]
      BY <2>2 DEF IsFold
    <2>4. t # {}
      <3>. SUFFICES ASSUME t = {} PROVE FALSE
        OBVIOUS
      <3>1. g[t] = 0 /\ h[t] = 0 /\ lost(t) \in Nat
        BY <1>0, <2>3
      <3>. HIDE DEF lost
      <3>. QED
        BY <2>2, <3>1
    <2>5. z \in t
      BY <2>4, PickIn
    <2>. HIDE DEF z
    <2>6. /\ rest \in SUBSET S
          /\ Cardinality(rest) \in Nat /\ Cardinality(rest) < m
      BY <1>0, <2>2, <2>5, Smaller
    <2>7. lost(t) = IF z \in W THEN lost(rest) + 1 ELSE lost(rest)
      <3>1. CASE z \in W
        <4>1. rest \cap W = (t \cap W) \ {z} /\ z \in t \cap W
          BY <2>5, <3>1
        <4>2. Cardinality((t \cap W) \ {z}) = Cardinality(t \cap W) - 1
          BY <1>0, <4>1, Smaller
        <4>3. Cardinality(t \cap W) \in Nat
          BY <1>0
        <4>4. lost(rest) = lost(t) - 1 /\ lost(t) \in Nat
          BY <4>1, <4>2, <4>3
        <4>. HIDE DEF lost, rest
        <4>. QED
          BY <3>1, <4>4
      <3>2. CASE z \notin W
        <4>1. rest \cap W = t \cap W
          BY <3>2
        <4>. QED
          BY <3>2, <4>1
      <3>. QED
        BY <3>1, <3>2
    <2>8. g[rest] <= h[rest] /\ h[rest] - lost(rest) <= g[rest]
      <3>1. Cardinality(rest) \notin Bad
        <4>1. m \in Nat /\ \A n \in Bad : m <= n
          BY <2>1
        <4>. HIDE DEF Bad
        <4>. QED
          BY <2>6, <4>1
      <3>. QED
        BY <2>6, <3>1
    <2>9. /\ f[z] \in Int /\ e[z] \in Int
          /\ f[z] = e[z] \/ (z \in W /\ f[z] = e[z] - 1)
      BY <2>5
    <2>10. g[rest] \in Int /\ h[rest] \in Int /\ lost(rest) \in Nat
      BY <1>0, <2>6
    <2>11. g[t] = f[z] + g[rest] /\ h[t] = e[z] + h[rest]
      BY <2>3, <2>4
    <2>. HIDE DEF Bad, lost, rest
    <2>. QED
      BY <2>2, <2>7, <2>8, <2>9, <2>10, <2>11
  <1>. QED
    BY <1>0, <1>1
=============================================================================
