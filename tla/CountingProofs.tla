--------------------------- MODULE CountingProofs ---------------------------
(* Lemmas that several components need: least numbers, quotients, lists, and *)
(* what the counts of Counting become when a number grows, when a sequence  *)
(* gets more elements, and when one element less of it is looked at.        *)
EXTENDS Counting, SequenceTheorems, FiniteSetTheorems, WellFoundedInduction, TLAPS

-----------------------------------------------------------------------------
(* Every set of numbers has a least one. *)

LEMMA LeastNumber ==
    ASSUME NEW S \in SUBSET Nat, S # {}
    PROVE  \E m \in S : \A j \in S : m <= j
<1> DEFINE Less == {ss \in Nat \X Nat : ss[1] < ss[2]}
<1>1. IsWellFoundedOn(Less, Nat)
  BY NatLessThanWellFounded DEF OpToRel
<1>2. PICK i \in S : \A j \in S : ~ (<<j, i>> \in Less)
  <2> HIDE DEF Less
  <2> QED
    BY <1>1, WFMin
<1>3. ASSUME NEW j \in S PROVE i <= j
  <2>1. i \in Nat /\ j \in Nat
    OBVIOUS
  <2>2. ~ (j < i)
    BY <1>2, <2>1
  <2> QED
    BY <2>1, <2>2
<1> QED
  BY <1>3

-----------------------------------------------------------------------------
(* Quotients and rests *)

LEMMA DivMod ==
    ASSUME NEW d \in Nat, NEW m \in Nat \ {0}
    PROVE  /\ d \div m \in Nat
           /\ d % m \in 0 .. m - 1
           /\ d = (d \div m) * m + (d % m)
  BY SMT

(* Rounding up keeps a number positive and does not make it larger. *)
LEMMA RoundedUp ==
    ASSUME NEW r \in Nat, NEW f \in Nat \ {0}
    PROVE  /\ (r + f - 1) \div f \in Nat
           /\ (r + f - 1) \div f <= r
           /\ r > 0 => (r + f - 1) \div f >= 1
<1> DEFINE q == (r + f - 1) \div f
           m == (r + f - 1) % f
<1>1. q \in Nat /\ m \in 0 .. f - 1 /\ r + f - 1 = q * f + m
  BY r + f - 1 \in Nat, DivMod
<1> HIDE DEF q, m
<1>2. q <= r
  <2>1. SUFFICES ASSUME q >= r + 1 PROVE FALSE
    BY <1>1
  <2>2. q * f >= (r + 1) * f
    BY <1>1, <2>1
  <2>3. (r + 1) * f = r * f + f
    BY SMT
  <2>4. r * f >= r
    BY SMT
  <2> QED
    BY <1>1, <2>2, <2>3, <2>4
<1>3. r > 0 => q >= 1
  BY <1>1
<1> QED
  BY <1>1, <1>2, <1>3 DEF q

(* A delay in whole seconds, and a fraction that a factor shortens: it is  *)
(* cut short, but not to nothing.                                          *)
Shortened(delay, second, short) ==
    (delay \div second) * second + (((delay % second) + short - 1) \div short)

LEMMA DelayBounds ==
    ASSUME NEW delay \in Nat, NEW second \in Nat \ {0}, NEW short \in Nat \ {0}
    PROVE  /\ Shortened(delay, second, short) \in 0 .. delay
           /\ delay > 0 => Shortened(delay, second, short) > 0
<1> DEFINE q == delay \div second
           m == delay % second
           c == (m + short - 1) \div short
<1>1. q \in Nat /\ m \in Nat /\ delay = q * second + m
  BY DivMod
<1> HIDE DEF q, m
<1>2. c \in Nat /\ c <= m /\ (m > 0 => c >= 1)
  BY <1>1, RoundedUp
<1>3. q * second \in Nat
  BY <1>1
<1> HIDE DEF c
<1>4. q * second + c \in Nat /\ q * second + c <= delay
  BY <1>1, <1>2, <1>3
<1>5. delay > 0 => q * second + c > 0
  BY <1>1, <1>2, <1>3
<1> QED
  BY <1>4, <1>5 DEF q, m, c, Shortened

-----------------------------------------------------------------------------
(* Sums *)

LEMMA TotalIsFinite ==
    ASSUME NEW S, IsFiniteSet(S), NEW n, \A i \in S : n[i] \in Nat
    PROVE  /\ IsFiniteSet(UNION {{i} \X (1 .. n[i]) : i \in S})
           /\ Total(n, S) \in Nat
<1> DEFINE R == {{i} \X (1 .. n[i]) : i \in S}
           f == [i \in S |-> {i} \X (1 .. n[i])]
<1>1. IsFiniteSet(R)
  <2>1. f \in Surjection(S, R)
    BY DEF Surjection
  <2> QED
    BY <2>1, FS_Surjection
<1>2. \A T \in R : IsFiniteSet(T)
  <2>1. SUFFICES ASSUME NEW i \in S PROVE IsFiniteSet({i} \X (1 .. n[i]))
    OBVIOUS
  <2>2. n[i] \in Int
    OBVIOUS
  <2>3. IsFiniteSet({i})
    BY FS_Singleton
  <2>4. IsFiniteSet(1 .. n[i])
    BY <2>2, FS_Interval
  <2> QED
    BY <2>3, <2>4, FS_Product
<1>3. IsFiniteSet(UNION R)
  BY <1>1, <1>2, FS_UNION
<1> QED
  BY <1>3, FS_CardinalityType DEF Total

(* Two functions that agree have the same sum. *)
LEMMA TotalSame ==
    ASSUME NEW S, NEW n, NEW p, \A i \in S : n[i] = p[i]
    PROVE  Total(n, S) = Total(p, S)
<1>1. {{i} \X (1 .. n[i]) : i \in S} = {{i} \X (1 .. p[i]) : i \in S}
  OBVIOUS
<1> QED
  BY <1>1 DEF Total

LEMMA TotalMonotone ==
    ASSUME NEW S, IsFiniteSet(S), NEW n, \A i \in S : n[i] \in Nat,
           NEW T \in SUBSET S, NEW p, \A i \in T : p[i] \in Nat /\ p[i] <= n[i]
    PROVE  Total(p, T) <= Total(n, S)
<1> DEFINE N == UNION {{i} \X (1 .. n[i]) : i \in S}
           P == UNION {{i} \X (1 .. p[i]) : i \in T}
<1>1. P \subseteq N
  OBVIOUS
<1>2. IsFiniteSet(N)
  BY TotalIsFinite
<1>3. Cardinality(P) <= Cardinality(N)
  <2> HIDE DEF P, N
  <2> QED
    BY <1>1, <1>2, FS_Subset
<1> QED
  BY <1>3 DEF Total

(* Where nothing is added does not matter. *)
LEMMA TotalSupport ==
    ASSUME NEW S, NEW T \in SUBSET S, NEW n, \A i \in S \ T : n[i] = 0
    PROVE  Total(n, S) = Total(n, T)
<1> DEFINE N == UNION {{i} \X (1 .. n[i]) : i \in S}
           P == UNION {{i} \X (1 .. n[i]) : i \in T}
<1>1. P \subseteq N
  OBVIOUS
<1>2. N \subseteq P
  <2>1. SUFFICES ASSUME NEW i \in S, NEW x \in {i} \X (1 .. n[i]) PROVE i \in T
    OBVIOUS
  <2>2. CASE i \notin T
    <3>1. n[i] = 0
      BY <2>2
    <3>2. 1 .. 0 = {}
      OBVIOUS
    <3> QED
      BY <3>1, <3>2
  <2> QED
    BY <2>2
<1> QED
  BY <1>1, <1>2 DEF Total

LEMMA TotalOne ==
    ASSUME NEW S, NEW i \in S, NEW n, \A j \in S : n[j] = IF j = i THEN 1 ELSE 0
    PROVE  Total(n, S) = 1
<1>1. Total(n, S) = Total(n, {i})
  <2>1. \A j \in S \ {i} : n[j] = 0
    OBVIOUS
  <2> QED
    BY <2>1, TotalSupport
<1>2. UNION {{j} \X (1 .. n[j]) : j \in {i}} = {<<i, 1>>}
  <2>1. n[i] = 1
    OBVIOUS
  <2>2. 1 .. 1 = {1}
    OBVIOUS
  <2> QED
    BY <2>1, <2>2
<1> QED
  BY <1>1, <1>2, FS_Singleton DEF Total

(* Ones amount to the number of the elements. *)
LEMMA TotalOnes ==
    ASSUME NEW S, IsFiniteSet(S), NEW n, \A i \in S : n[i] = 1
    PROVE  Total(n, S) = Cardinality(S)
<1> DEFINE U == UNION {{i} \X (1 .. n[i]) : i \in S}
           f == [i \in S |-> <<i, 1>>]
<1>1. 1 .. 1 = {1}
  OBVIOUS
<1>2. \A i \in S : {i} \X (1 .. n[i]) = {<<i, 1>>}
  BY <1>1
<1>3. U = {<<i, 1>> : i \in S}
  BY <1>2
<1>4. f \in Bijection(S, U)
  BY <1>3 DEF Bijection, Injection, Surjection, IsInjective
<1>5. Cardinality(U) = Cardinality(S)
  <2> HIDE DEF f, U
  <2> QED
    BY <1>4, FS_Bijection DEF ExistsBijection
<1> QED
  BY <1>5 DEF Total

(* The sum of the sums. *)
LEMMA TotalAdd ==
    ASSUME NEW S, IsFiniteSet(S), NEW n, NEW p, NEW q,
           \A i \in S : n[i] \in Nat /\ p[i] \in Nat /\ q[i] = n[i] + p[i]
    PROVE  Total(q, S) = Total(n, S) + Total(p, S)
<1> DEFINE N == UNION {{i} \X (1 .. n[i]) : i \in S}
           P == UNION {{i} \X (1 .. p[i]) : i \in S}
           Q == UNION {{i} \X (1 .. q[i]) : i \in S}
           M == UNION {{i} \X (n[i] + 1 .. q[i]) : i \in S}
           f == [x \in P |-> <<x[1], n[x[1]] + x[2]>>]
<1>1. Q = N \cup M
  <2>1. \A i \in S : {i} \X (1 .. q[i]) = {i} \X (1 .. n[i]) \cup {i} \X (n[i] + 1 .. q[i])
    OBVIOUS
  <2> QED
    BY <2>1
<1>2. N \cap M = {}
  OBVIOUS
<1>3. f \in Bijection(P, M)
  <2>1. \A x \in P : x[1] \in S /\ x[2] \in 1 .. p[x[1]] /\ x = <<x[1], x[2]>>
    OBVIOUS
  <2>2. \A x \in P : f[x] \in M
    <3>1. SUFFICES ASSUME NEW x \in P PROVE f[x] \in {x[1]} \X (n[x[1]] + 1 .. q[x[1]])
      BY <2>1
    <3>2. x[1] \in S /\ x[2] \in 1 .. p[x[1]]
      BY <2>1
    <3>3. n[x[1]] + x[2] \in n[x[1]] + 1 .. q[x[1]]
      BY <3>2
    <3> QED
      BY <3>3
  <2>3. \A x, y \in P : f[x] = f[y] => x = y
    <3>1. SUFFICES ASSUME NEW x \in P, NEW y \in P, f[x] = f[y] PROVE x = y
      OBVIOUS
    <3>2. x[1] = y[1] /\ n[x[1]] + x[2] = n[y[1]] + y[2]
      BY <3>1
    <3>3. x[2] = y[2]
      <4> DEFINE a == n[x[1]]
                 b == x[2]
                 c == y[2]
      <4>1. a \in Nat /\ b \in Int /\ c \in Int
        BY <2>1
      <4>2. a + b = a + c
        BY <3>2
      <4> HIDE DEF a, b, c
      <4>3. b = c
        BY <4>1, <4>2
      <4> QED
        BY <4>3 DEF b, c
    <3> QED
      BY <3>2, <3>3, <2>1
  <2>4. \A z \in M : \E x \in P : f[x] = z
    <3>1. \A z \in M : \E i \in S : \E k \in n[i] + 1 .. q[i] : z = <<i, k>>
      OBVIOUS
    <3>2. \A i \in S : \A k \in n[i] + 1 .. q[i] : \E x \in P : f[x] = <<i, k>>
      <4>1. SUFFICES ASSUME NEW i \in S, NEW k \in n[i] + 1 .. q[i]
                     PROVE  \E x \in P : f[x] = <<i, k>>
        OBVIOUS
      <4>2. k - n[i] \in 1 .. p[i] /\ n[i] + (k - n[i]) = k
        OBVIOUS
      <4>3. <<i, k - n[i]>> \in P
        BY <4>2
      <4>4. f[<<i, k - n[i]>>] = <<i, k>>
        BY <4>3, <4>2
      <4> QED
        BY <4>3, <4>4
    <3> HIDE DEF P, M, f
    <3> TAKE z \in M
    <3>3. PICK i \in S : \E k \in n[i] + 1 .. q[i] : z = <<i, k>>
      BY <3>1
    <3>4. PICK k \in n[i] + 1 .. q[i] : z = <<i, k>>
      BY <3>3
    <3>5. PICK x \in P : f[x] = <<i, k>>
      BY <3>2
    <3> QED
      BY <3>4, <3>5
  <2> HIDE DEF P, M
  <2>5. f \in [P -> M]
    BY <2>2
  <2> HIDE DEF f
  <2>6. f \in Injection(P, M) /\ f \in Surjection(P, M)
    BY <2>3, <2>4, <2>5 DEF Injection, IsInjective, Surjection
  <2> QED
    BY <2>6 DEF Bijection
<1>4. IsFiniteSet(N) /\ IsFiniteSet(P)
  BY TotalIsFinite
<1>5. IsFiniteSet(M) /\ Cardinality(M) = Cardinality(P)
  <2> HIDE DEF P, M, f
  <2>1. ExistsBijection(P, M)
    BY <1>3 DEF ExistsBijection
  <2> QED
    BY <2>1, <1>4, FS_Bijection
<1>6. Cardinality(Q) = Cardinality(N) + Cardinality(P)
  <2> HIDE DEF N, M, P, Q
  <2>1. Cardinality(Q) = Cardinality(N) + Cardinality(M) - Cardinality(N \cap M)
    BY <1>1, <1>4, <1>5, FS_Union
  <2>2. Cardinality(N \cap M) = 0
    BY <1>2, FS_EmptySet
  <2>3. Cardinality(N) \in Nat /\ Cardinality(P) \in Nat
    BY <1>4, FS_CardinalityType
  <2> QED
    BY <2>1, <2>2, <2>3, <1>5
<1> QED
  BY <1>6 DEF Total

(* A number among zeros. *)
LEMMA TotalOnly ==
    ASSUME NEW S, NEW i \in S, NEW c \in Nat, NEW n, \A j \in S : n[j] = IF j = i THEN c ELSE 0
    PROVE  Total(n, S) = c
<1>1. Total(n, S) = Total(n, {i})
  <2>1. \A j \in S \ {i} : n[j] = 0
    OBVIOUS
  <2> QED
    BY <2>1, TotalSupport
<1> DEFINE U == UNION {{j} \X (1 .. n[j]) : j \in {i}}
           f == [k \in 1 .. c |-> <<i, k>>]
<1>2. U = {<<i, k>> : k \in 1 .. c}
  BY n[i] = c
<1>3. f \in Bijection(1 .. c, U)
  BY <1>2 DEF Bijection, Injection, Surjection, IsInjective
<1>4. Cardinality(U) = Cardinality(1 .. c) /\ Cardinality(1 .. c) = c
  <2> HIDE DEF f, U
  <2>1. ExistsBijection(1 .. c, U)
    BY <1>3 DEF ExistsBijection
  <2> QED
    BY <2>1, FS_Bijection, FS_Interval
<1> QED
  BY <1>1, <1>4 DEF Total

LEMMA TotalNone ==
    ASSUME NEW S, NEW n, \A i \in S : n[i] = 0
    PROVE  Total(n, S) = 0
<1>1. Total(n, S) = Total(n, {})
  BY TotalSupport
<1>2. UNION {{i} \X (1 .. n[i]) : i \in {}} = {}
  OBVIOUS
<1> QED
  BY <1>1, <1>2, FS_EmptySet DEF Total

(* One of the numbers grows. *)
LEMMA TotalGrows ==
    ASSUME NEW S, IsFiniteSet(S), NEW i \in S, NEW c \in Nat, NEW n, NEW q,
           \A j \in S : n[j] \in Nat /\ q[j] = IF j = i THEN n[j] + c ELSE n[j]
    PROVE  Total(q, S) = Total(n, S) + c
<1> DEFINE p == [j \in S |-> IF j = i THEN c ELSE 0]
<1>1. \A j \in S : p[j] = IF j = i THEN c ELSE 0
  OBVIOUS
<1>2. \A j \in S : n[j] \in Nat /\ p[j] \in Nat /\ q[j] = n[j] + p[j]
  OBVIOUS
<1> HIDE DEF p
<1>3. Total(p, S) = c
  BY <1>1, TotalOnly
<1>4. Total(q, S) = Total(n, S) + Total(p, S)
  BY <1>2, TotalAdd
<1> QED
  BY <1>3, <1>4

-----------------------------------------------------------------------------
(* Occurrences *)

LEMMA CountType ==
    ASSUME NEW E, NEW s \in Seq(E), NEW m \in Nat \ {0}, NEW V
    PROVE  /\ IsFiniteSet({k \in m .. Len(s) : s[k] \in V})
           /\ CountFrom(s, m, V) \in Nat
<1>1. IsFiniteSet(m .. Len(s))
  BY FS_Interval, LenProperties
<1>2. IsFiniteSet({k \in m .. Len(s) : s[k] \in V})
  BY <1>1, FS_Subset
<1> QED
  BY <1>2, FS_CardinalityType DEF CountFrom

LEMMA CountNone ==
    ASSUME NEW E, NEW s \in Seq(E), NEW m \in Nat \ {0}, NEW V
    PROVE  CountFrom(s, m, V) = 0 <=> \A k \in m .. Len(s) : s[k] \notin V
<1> DEFINE K == {k \in m .. Len(s) : s[k] \in V}
<1>1. IsFiniteSet(K)
  BY CountType
<1>2. Cardinality(K) = 0 <=> K = {}
  BY <1>1, FS_EmptySet
<1> QED
  BY <1>2 DEF CountFrom

(* One position less. *)
LEMMA CountStep ==
    ASSUME NEW E, NEW s \in Seq(E), NEW m \in 1 .. Len(s), NEW V
    PROVE  CountFrom(s, m, V) = CountFrom(s, m + 1, V) + (IF s[m] \in V THEN 1 ELSE 0)
<1> DEFINE K == {k \in m .. Len(s) : s[k] \in V}
           L == {k \in m + 1 .. Len(s) : s[k] \in V}
<1>1. Len(s) \in Nat
  BY LenProperties
<1>2. L = K \ {m}
  BY <1>1
<1>3. m \in K <=> s[m] \in V
  BY <1>1
<1>4. IsFiniteSet(K)
  <2>1. m \in Nat \ {0}
    BY <1>1
  <2> QED
    BY <2>1, CountType
<1>5. Cardinality(L) = IF m \in K THEN Cardinality(K) - 1 ELSE Cardinality(K)
  <2> HIDE DEF K, L
  <2> QED
    BY <1>2, <1>4, FS_RemoveElement
<1>6. Cardinality(K) \in Nat
  BY <1>4, FS_CardinalityType
<1>7. Cardinality(K) = Cardinality(L) + (IF s[m] \in V THEN 1 ELSE 0)
  <2> HIDE DEF K, L
  <2> QED
    BY <1>3, <1>5, <1>6
<1> QED
  BY <1>7 DEF CountFrom

(* n copies of v at the end. *)
LEMMA ConcatCopies ==
    ASSUME NEW E, NEW s \in Seq(E), NEW v \in E, NEW n \in Nat
    PROVE  /\ s \o [k \in 1 .. n |-> v] \in Seq(E)
           /\ Len(s \o [k \in 1 .. n |-> v]) = Len(s) + n
           /\ \A j \in 1 .. Len(s) + n :
                (s \o [k \in 1 .. n |-> v])[j] = IF j <= Len(s) THEN s[j] ELSE v
<1> DEFINE t == [k \in 1 .. n |-> v]
<1>1. Len(s) \in Nat
  BY LenProperties
<1>2. t \in Seq(E) /\ Len(t) = n
  OBVIOUS
<1>3. \A k \in Len(s) + 1 .. Len(s) + n : t[k - Len(s)] = v
  BY <1>1
<1> HIDE DEF t
<1>4. /\ s \o t \in Seq(E)
      /\ Len(s \o t) = Len(s) + n
      /\ \A k \in 1 .. Len(s) + n : (s \o t)[k] = IF k <= Len(s) THEN s[k] ELSE t[k - Len(s)]
  BY <1>2, ConcatProperties
<1>5. \A k \in 1 .. Len(s) + n : (s \o t)[k] = IF k <= Len(s) THEN s[k] ELSE v
  BY <1>1, <1>3, <1>4
<1> QED
  BY <1>4, <1>5 DEF t

LEMMA CountCopies ==
    ASSUME NEW E, NEW s \in Seq(E), NEW v \in E, NEW n \in Nat,
           NEW m \in 1 .. Len(s) + 1, NEW V
    PROVE  CountFrom(s \o [k \in 1 .. n |-> v], m, V) =
               CountFrom(s, m, V) + (IF v \in V THEN n ELSE 0)
<1> DEFINE t == [k \in 1 .. n |-> v]
           K == {k \in m .. Len(s) : s[k] \in V}
           L == {k \in m .. Len(s \o t) : (s \o t)[k] \in V}
           M == IF v \in V THEN Len(s) + 1 .. Len(s) + n ELSE {}
<1>1. Len(s) \in Nat
  BY LenProperties
<1>2. /\ Len(s \o t) = Len(s) + n
      /\ \A k \in 1 .. Len(s) + n : (s \o t)[k] = IF k <= Len(s) THEN s[k] ELSE v
  BY ConcatCopies
<1>3. L = K \cup M
  <2> HIDE DEF t
  <2> QED
    BY <1>1, <1>2
<1>4. K \cap M = {}
  BY <1>1
<1>5. IsFiniteSet(K) /\ Cardinality(K) \in Nat
  <2>1. m \in Nat \ {0}
    BY <1>1
  <2>2. IsFiniteSet(K)
    BY <2>1, CountType
  <2> QED
    BY <2>2, FS_CardinalityType
<1>6. IsFiniteSet(M) /\ Cardinality(M) = IF v \in V THEN n ELSE 0
  <2>1. CASE v \in V
    <3>1. Len(s) + 1 \in Int /\ Len(s) + n \in Int
      BY <1>1
    <3>2. /\ IsFiniteSet(Len(s) + 1 .. Len(s) + n)
          /\ Cardinality(Len(s) + 1 .. Len(s) + n) =
               IF Len(s) + 1 > Len(s) + n THEN 0 ELSE (Len(s) + n) - (Len(s) + 1) + 1
      BY <3>1, FS_Interval
    <3>3. n = IF Len(s) + 1 > Len(s) + n THEN 0 ELSE (Len(s) + n) - (Len(s) + 1) + 1
      BY <1>1
    <3> QED
      BY <3>2, <3>3, <2>1
  <2>2. CASE v \notin V
    BY <2>2, FS_EmptySet
  <2> QED
    BY <2>1, <2>2
<1>7. Cardinality(L) = Cardinality(K) + (IF v \in V THEN n ELSE 0)
  <2> HIDE DEF K, L, M
  <2>1. Cardinality(L) = Cardinality(K) + Cardinality(M) - Cardinality(K \cap M)
    BY <1>3, <1>5, <1>6, FS_Union
  <2>2. Cardinality(K \cap M) = 0
    BY <1>4, FS_EmptySet
  <2> QED
    BY <2>1, <2>2, <1>5, <1>6
<1> QED
  BY <1>7 DEF CountFrom

(* The first element is taken. *)
LEMMA CountTail ==
    ASSUME NEW E, NEW s \in Seq(E), s # << >>, NEW V
    PROVE  Count(s, V) = Count(Tail(s), V) + (IF Head(s) \in V THEN 1 ELSE 0)
<1> DEFINE K == {k \in 2 .. Len(s) : s[k] \in V}
           L == {k \in 1 .. Len(Tail(s)) : Tail(s)[k] \in V}
           f == [k \in L |-> k + 1]
<1>1. /\ Len(s) \in Nat \ {0}
      /\ Len(Tail(s)) = Len(s) - 1
      /\ \A k \in 1 .. Len(Tail(s)) : Tail(s)[k] = s[k + 1]
      /\ Head(s) = s[1]
  BY HeadTailProperties, EmptySeq
<1>2. f \in Bijection(L, K)
  <2>1. \A k \in L : f[k] \in K
    BY <1>1
  <2>2. \A j, k \in L : f[j] = f[k] => j = k
    OBVIOUS
  <2>3. \A k \in K : \E j \in L : f[j] = k
    <3>1. SUFFICES ASSUME NEW k \in K PROVE k - 1 \in L /\ f[k - 1] = k
      OBVIOUS
    <3>2. k - 1 \in 1 .. Len(Tail(s)) /\ (k - 1) + 1 = k
      BY <1>1
    <3>3. k - 1 \in L
      BY <3>2, <1>1
    <3> QED
      BY <3>2, <3>3
  <2> HIDE DEF K, L
  <2>4. f \in [L -> K]
    BY <2>1
  <2> HIDE DEF f
  <2> QED
    BY <2>2, <2>3, <2>4 DEF Bijection, Injection, IsInjective, Surjection
<1>3. Tail(s) \in Seq(E)
  BY HeadTailProperties
<1>4. Cardinality(K) = Cardinality(L)
  <2>1. IsFiniteSet(L)
    <3>1. 1 \in Nat \ {0}
      OBVIOUS
    <3> QED
      BY <1>3, <3>1, CountType
  <2> HIDE DEF K, L, f
  <2>2. ExistsBijection(L, K)
    BY <1>2 DEF ExistsBijection
  <2> QED
    BY <2>1, <2>2, FS_Bijection
<1>5. CountFrom(s, 1, V) = CountFrom(s, 2, V) + (IF s[1] \in V THEN 1 ELSE 0)
  BY <1>1, CountStep
<1> QED
  BY <1>1, <1>4, <1>5 DEF Count, CountFrom

(* An element is added. *)
LEMMA CountAppend ==
    ASSUME NEW E, NEW s \in Seq(E), NEW v \in E, NEW V
    PROVE  Count(Append(s, v), V) = Count(s, V) + (IF v \in V THEN 1 ELSE 0)
<1> DEFINE t == s \o [k \in 1 .. 1 |-> v]
<1>1. Append(s, v) = t
  <2>1. /\ t \in Seq(E) /\ Len(t) = Len(s) + 1
        /\ \A j \in 1 .. Len(s) + 1 : t[j] = IF j <= Len(s) THEN s[j] ELSE v
    BY ConcatCopies
  <2> HIDE DEF t
  <2>2. Len(s) \in Nat /\ Append(s, v) \in Seq(E) /\ Len(Append(s, v)) = Len(s) + 1
    BY LenProperties, AppendProperties
  <2>3. \A j \in 1 .. Len(s) + 1 : Append(s, v)[j] = t[j]
    BY <2>1, <2>2, AppendProperties
  <2> QED
    BY <2>1, <2>2, <2>3, SeqEqual
<1>2. PICK n \in Nat : n = 1
  OBVIOUS
<1>3. n \in 1 .. Len(s) + 1
  BY <1>2, LenProperties
<1>4. CountFrom(s \o [k \in 1 .. n |-> v], n, V) = CountFrom(s, n, V) + (IF v \in V THEN n ELSE 0)
  BY <1>3, CountCopies
<1> QED
  BY <1>1, <1>2, <1>4 DEF Count

(* A sequence is added. *)
LEMMA CountConcat ==
    ASSUME NEW E, NEW s \in Seq(E), NEW t \in Seq(E), NEW V
    PROVE  Count(s \o t, V) = Count(s, V) + Count(t, V)
<1> DEFINE c == s \o t
           n == Len(s)
           K == {k \in 1 .. Len(s) : s[k] \in V}
           M == {k \in 1 .. Len(t) : t[k] \in V}
           L == {k \in 1 .. Len(c) : c[k] \in V}
           N == {k \in n + 1 .. Len(c) : c[k] \in V}
           f == [k \in M |-> n + k]
<1>1. /\ Len(s) \in Nat /\ Len(t) \in Nat /\ Len(c) = Len(s) + Len(t)
      /\ \A k \in 1 .. Len(s) : c[k] = s[k]
      /\ \A k \in 1 .. Len(t) : c[n + k] = t[k]
  <2>1. /\ Len(c) = Len(s) + Len(t) /\ Len(s) \in Nat /\ Len(t) \in Nat
        /\ \A i \in 1 .. Len(s) + Len(t) : c[i] = IF i <= Len(s) THEN s[i] ELSE t[i - Len(s)]
    BY ConcatProperties, LenProperties
  <2> HIDE DEF c
  <2>2. ASSUME NEW k \in 1 .. Len(t) PROVE c[n + k] = t[k]
    <3>1. n + k \in 1 .. Len(s) + Len(t) /\ ~ (n + k <= Len(s)) /\ n + k - Len(s) = k
      BY <2>1
    <3> QED
      BY <2>1, <3>1
  <2> QED
    BY <2>1, <2>2
<1> HIDE DEF c
<1>2. L = K \cup N /\ K \cap N = {}
  BY <1>1
<1>3. f \in Bijection(M, N)
  <2>1. \A k \in M : f[k] \in N
    BY <1>1
  <2>2. \A j, k \in M : f[j] = f[k] => j = k
    BY <1>1
  <2>3. ASSUME NEW k \in N PROVE \E j \in M : f[j] = k
    <3>1. k - n \in 1 .. Len(t) /\ n + (k - n) = k
      BY <1>1
    <3>2. k - n \in M
      BY <1>1, <3>1
    <3> QED
      BY <3>1, <3>2
  <2> HIDE DEF M, N
  <2>4. f \in [M -> N]
    BY <2>1
  <2> HIDE DEF f
  <2> QED
    BY <2>2, <2>3, <2>4 DEF Bijection, Injection, IsInjective, Surjection
<1>4. IsFiniteSet(K) /\ IsFiniteSet(M)
  <2>1. 1 \in Nat \ {0}
    OBVIOUS
  <2> QED
    BY <2>1, CountType
<1>5. IsFiniteSet(N) /\ Cardinality(N) = Cardinality(M)
  <2> HIDE DEF M, N, f
  <2>1. ExistsBijection(M, N)
    BY <1>3 DEF ExistsBijection
  <2> QED
    BY <2>1, <1>4, FS_Bijection
<1>6. Cardinality(L) = Cardinality(K) + Cardinality(M)
  <2> HIDE DEF K, L, M, N
  <2>1. Cardinality(L) = Cardinality(K) + Cardinality(N) - Cardinality(K \cap N)
    BY <1>2, <1>4, <1>5, FS_Union
  <2>2. Cardinality(K \cap N) = 0
    BY <1>2, FS_EmptySet
  <2>3. Cardinality(K) \in Nat /\ Cardinality(M) \in Nat
    BY <1>4, FS_CardinalityType
  <2> QED
    BY <2>1, <2>2, <2>3, <1>5
<1> QED
  BY <1>6 DEF Count, CountFrom, c

-----------------------------------------------------------------------------
(* Lists: sequences of anything *)

IsList(s) == \E S : s \in Seq(S)

LEMMA ListConcat ==
    ASSUME NEW s, IsList(s), NEW t, IsList(t)
    PROVE  IsList(s \o t)
<1>1. PICK S : s \in Seq(S)
  BY DEF IsList
<1>2. PICK T : t \in Seq(T)
  BY DEF IsList
<1>3. s \in Seq(S \cup T) /\ t \in Seq(S \cup T)
  BY <1>1, <1>2
<1>4. s \o t \in Seq(S \cup T)
  BY <1>3
<1> QED
  BY <1>4 DEF IsList

LEMMA ListOfFunction ==
    ASSUME NEW n \in Nat, NEW s, s = [i \in 1 .. n |-> s[i]]
    PROVE  IsList(s)
<1>1. s \in [1 .. n -> {s[i] : i \in 1 .. n}]
  BY SMT
<1>2. s \in Seq({s[i] : i \in 1 .. n})
  BY <1>1
<1> QED
  BY <1>2 DEF IsList

LEMMA ListDomain ==
    ASSUME NEW s, IsList(s)
    PROVE  Len(s) \in Nat /\ DOMAIN s = 1 .. Len(s)
  BY DEF IsList

LEMMA ListAppend ==
    ASSUME NEW s, IsList(s), NEW e
    PROVE  /\ IsList(Append(s, e))
           /\ Len(Append(s, e)) = Len(s) + 1
           /\ \A i \in 1 .. Len(s) : Append(s, e)[i] = s[i]
           /\ Append(s, e)[Len(s) + 1] = e
<1>1. PICK S : s \in Seq(S)
  BY DEF IsList
<1>2. PICK T : T = S \cup {e}
  OBVIOUS
<1>3. s \in Seq(T) /\ e \in T
  BY <1>1, <1>2
<1>4. Append(s, e) \in Seq(T)
  BY <1>3
<1>5. /\ Len(Append(s, e)) = Len(s) + 1
      /\ \A i \in 1 .. Len(s) : Append(s, e)[i] = s[i]
      /\ Append(s, e)[Len(s) + 1] = e
  BY <1>3
<1> QED
  BY <1>4, <1>5 DEF IsList

LEMMA ListJoin ==
    ASSUME NEW s, IsList(s), NEW t, IsList(t)
    PROVE  /\ IsList(s \o t)
           /\ Len(s \o t) = Len(s) + Len(t)
           /\ \A i \in 1 .. Len(s) : (s \o t)[i] = s[i]
           /\ \A i \in 1 .. Len(t) : (s \o t)[Len(s) + i] = t[i]
<1>1. PICK S : s \in Seq(S)
  BY DEF IsList
<1>2. PICK T : t \in Seq(T)
  BY DEF IsList
<1>3. PICK R : R = S \cup T
  OBVIOUS
<1>4. s \in Seq(R) /\ t \in Seq(R)
  BY <1>1, <1>2, <1>3
<1>5. s \o t \in Seq(R)
  BY <1>4
<1>6. /\ Len(s \o t) = Len(s) + Len(t)
      /\ \A i \in 1 .. Len(s) : (s \o t)[i] = s[i]
  BY <1>4
<1>7. \A i \in 1 .. Len(t) : (s \o t)[Len(s) + i] = t[i]
  BY <1>4
<1> QED
  BY <1>5, <1>6, <1>7 DEF IsList

LEMMA EmptyList ==
    ASSUME NEW e, e = << >>
    PROVE  IsList(e) /\ Len(e) = 0 /\ DOMAIN e = {}
  BY DEF IsList

LEMMA ListTail ==
    ASSUME NEW s, IsList(s), s # << >>
    PROVE  /\ IsList(Tail(s)) /\ Len(s) \in Nat /\ Len(s) >= 1 /\ Len(Tail(s)) = Len(s) - 1
           /\ \A k \in 1 .. Len(s) - 1 : Tail(s)[k] = s[k + 1]
<1>1. PICK S : s \in Seq(S)
  BY DEF IsList
<1>2. Tail(s) \in Seq(S) /\ Len(Tail(s)) = Len(s) - 1 /\ Len(s) \in Nat /\ Len(s) >= 1
  BY <1>1
<1>3. \A k \in 1 .. Len(s) - 1 : Tail(s)[k] = s[k + 1]
  BY <1>1
<1> QED
  BY <1>2, <1>3 DEF IsList

LEMMA ListSub ==
    ASSUME NEW s, IsList(s), NEW i \in Nat, NEW j \in Nat, i >= 1, j <= Len(s), i <= j + 1
    PROVE  /\ IsList(SubSeq(s, i, j)) /\ Len(SubSeq(s, i, j)) = j - i + 1
           /\ \A k \in 1 .. j - i + 1 : SubSeq(s, i, j)[k] = s[k + (i - 1)]
<1>1. PICK S : s \in Seq(S)
  BY DEF IsList
<1>2. SubSeq(s, i, j) \in Seq(S) /\ Len(SubSeq(s, i, j)) = j - i + 1
  BY <1>1
<1>3. \A k \in 1 .. j - i + 1 : SubSeq(s, i, j)[k] = s[k + (i - 1)]
  BY <1>1
<1> QED
  BY <1>2, <1>3 DEF IsList

-----------------------------------------------------------------------------
(* Numbers that change in a sum *)

(* One of them apart. *)
LEMMA TotalPart ==
    ASSUME NEW S, IsFiniteSet(S), NEW x \in S, NEW n, \A i \in S : n[i] \in Nat
    PROVE  Total(n, S) = n[x] + Total(n, S \ {x})
<1> DEFINE p == [i \in S |-> IF i = x THEN n[x] ELSE 0]
           q == [i \in S |-> IF i = x THEN 0 ELSE n[i]]
<1>1. \A i \in S : p[i] \in Nat /\ q[i] \in Nat /\ n[i] = p[i] + q[i]
  OBVIOUS
<1>2. \A i \in S : p[i] = IF i = x THEN n[x] ELSE 0
  OBVIOUS
<1>3. \A i \in S \ (S \ {x}) : q[i] = 0
  OBVIOUS
<1>4. \A i \in S \ {x} : q[i] = n[i]
  OBVIOUS
<1> HIDE DEF p, q
<1>5. Total(p, S) = n[x]
  BY <1>2, TotalOnly
<1>6. Total(q, S) = Total(q, S \ {x})
  BY <1>3, TotalSupport
<1>7. Total(q, S \ {x}) = Total(n, S \ {x})
  BY <1>4, TotalSame
<1>8. Total(n, S) = Total(p, S) + Total(q, S)
  BY <1>1, TotalAdd
<1> QED
  BY <1>5, <1>6, <1>7, <1>8

(* One of the numbers changes. *)
LEMMA TotalChange ==
    ASSUME NEW S, IsFiniteSet(S), NEW x \in S, NEW n, NEW q,
           \A i \in S : n[i] \in Nat /\ q[i] \in Nat,
           \A i \in S \ {x} : n[i] = q[i]
    PROVE  Total(q, S) + n[x] = Total(n, S) + q[x]
<1>1. Total(n, S) = n[x] + Total(n, S \ {x}) /\ Total(q, S) = q[x] + Total(q, S \ {x})
  BY TotalPart
<1>2. Total(n, S \ {x}) = Total(q, S \ {x})
  BY TotalSame
<1>3. Total(n, S \ {x}) \in Nat
  <2>1. IsFiniteSet(S \ {x})
    BY FS_RemoveElement
  <2> QED
    BY <2>1, TotalIsFinite
<1> QED
  BY <1>1, <1>2, <1>3

(* A bound of the sum of the first numbers. *)
LEMMA TotalBound ==
    ASSUME NEW m \in Nat, NEW b \in Nat, NEW n, \A i \in 1 .. m : n[i] \in 0 .. b
    PROVE  Total(n, 1 .. m) \in Nat /\ Total(n, 1 .. m) <= m * b
<1> DEFINE Bad == {k \in Nat : k <= m /\ ~(Total(n, 1 .. k) \in Nat /\ Total(n, 1 .. k) <= k * b)}
<1>1. SUFFICES ASSUME Bad # {} PROVE FALSE
  OBVIOUS
<1>2. PICK k \in Bad : \A j \in Bad : k <= j
  BY <1>1, LeastNumber
<1>3. k # 0
  <2>1. Total(n, 1 .. 0) = 0
    BY TotalNone
  <2>2. 0 * b = 0
    OBVIOUS
  <2> QED
    BY <1>2, <2>1, <2>2
<1>4. Total(n, 1 .. k - 1) \in Nat /\ Total(n, 1 .. k - 1) <= (k - 1) * b
  <2>1. k - 1 \in Nat /\ k - 1 <= m /\ ~(k <= k - 1)
    BY <1>2, <1>3
  <2> QED
    BY <1>2, <2>1
<1>5. Total(n, 1 .. k) = n[k] + Total(n, 1 .. k - 1)
  <2>1. IsFiniteSet(1 .. k) /\ k \in 1 .. k /\ (1 .. k) \ {k} = 1 .. k - 1 /\ 1 .. k \subseteq 1 .. m
    <3>1. k \in Nat /\ k <= m
      BY <1>2
    <3>2. IsFiniteSet(1 .. k)
      BY <3>1, FS_Interval
    <3> QED
      BY <1>3, <3>1, <3>2
  <2>2. \A i \in 1 .. k : n[i] \in Nat
    BY <2>1
  <2> HIDE DEF Bad
  <2>3. PICK S : S = 1 .. k
    OBVIOUS
  <2>4. IsFiniteSet(S) /\ k \in S /\ S \ {k} = 1 .. k - 1 /\ \A i \in S : n[i] \in Nat
    BY ONLY <2>1, <2>2, <2>3
  <2>5. Total(n, S) = n[k] + Total(n, S \ {k})
    BY ONLY <2>4, TotalPart
  <2> QED
    BY ONLY <2>3, <2>4, <2>5
<1>6. n[k] \in 0 .. b /\ k \in Nat
  BY <1>2, <1>3
<1>7. (k - 1) * b + b = k * b
  BY <1>6
<1>8. (k - 1) * b \in Int /\ k * b \in Int
  BY <1>6
<1> QED
  BY <1>2, <1>4, <1>5, <1>6, <1>7, <1>8

(* Two numbers are exchanged. *)
LEMMA TotalSwap ==
    ASSUME NEW S, IsFiniteSet(S), NEW x \in S, NEW y \in S, NEW n, NEW q,
           \A i \in S : n[i] \in Nat /\ q[i] \in Nat,
           \A i \in S \ {x, y} : n[i] = q[i],
           n[x] = q[y], n[y] = q[x]
    PROVE  Total(q, S) = Total(n, S)
<1>1. CASE x = y
  <2>1. \A i \in S : n[i] = q[i]
    BY <1>1
  <2> QED
    BY <2>1, TotalSame
<1>2. CASE x # y
  <2> DEFINE r == [i \in S |-> IF i = x THEN q[x] ELSE n[i]]
  <2>1. /\ \A i \in S : r[i] \in Nat
        /\ \A i \in S \ {x} : n[i] = r[i]
        /\ \A i \in S \ {y} : r[i] = q[i]
        /\ r[x] = q[x] /\ r[y] = n[y]
    BY <1>2
  <2> HIDE DEF r
  <2>2. Total(r, S) + n[x] = Total(n, S) + r[x]
    BY <2>1, TotalChange
  <2>3. Total(q, S) + r[y] = Total(r, S) + q[y]
    BY <2>1, TotalChange
  <2>4. Total(r, S) \in Nat /\ Total(n, S) \in Nat /\ Total(q, S) \in Nat
    BY <2>1, TotalIsFinite
  <2> QED
    BY <2>1, <2>2, <2>3, <2>4
<1> QED
  BY <1>1, <1>2

=============================================================================
