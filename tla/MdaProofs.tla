------------------------------ MODULE MdaProofs ------------------------------
(***************************************************************************)
(* The stopping rule of mda and its end, for any network, any stopping     *)
(* points and any order of the answers.                                    *)
(*                                                                         *)
(* The stopping rule.  An interface sends probes only while the walk that  *)
(* ends mda_handler visits it.  The argument is that a visit sends no more *)
(* than what the stopping point leaves, that the walk visits elements of   *)
(* the lattice, and that the links of an interface, hence its stopping     *)
(* point, are never taken back.                                            *)
(*                                                                         *)
(* The end.  The walk that raises it meets enumerated interfaces only, so  *)
(* it has been wherever the links lead, and no search finds an interface   *)
(* that is not enumerated.  A probe in flight whose answer would find a    *)
(* source is owed to that source: the answers it has counted and the       *)
(* probes owed to it are no more than the probes it has sent.  Hence it is *)
(* not enumerated, and the answer finds no source.                         *)
(***************************************************************************)
EXTENDS Mda, CountingProofs

-----------------------------------------------------------------------------
(* Sequences of the lattice *)

IsFlattened(f, ss, n) ==
    f = [i \in 1 .. n |-> IF i = 1 THEN ss[i] ELSE f[i - 1] \o ss[i]]

LEMMA FlattenedExists ==
    ASSUME NEW ss, NEW n \in Nat
    PROVE  \E f : IsFlattened(f, ss, n)
<1> DEFINE S == {m \in Nat : ~ \E f : IsFlattened(f, ss, m)}
<1>1. SUFFICES ASSUME S # {} PROVE FALSE
  OBVIOUS
<1>2. PICK m \in S : \A k \in S : m <= k
  BY <1>1, LeastNumber
<1>3. m # 0
  <2>1. IsFlattened([i \in 1 .. 0 |-> ss], ss, 0)
    BY DEF IsFlattened
  <2> QED
    BY <2>1
<1>4. PICK f : IsFlattened(f, ss, m - 1)
  <2>1. m - 1 \in Nat /\ ~ (m <= m - 1)
    BY <1>3
  <2> QED
    BY <1>2, <2>1
<1> DEFINE h == [i \in 1 .. m |-> IF i # m THEN f[i]
                                  ELSE IF i = 1 THEN ss[i] ELSE f[i - 1] \o ss[i]]
<1>5. ASSUME NEW i \in 1 .. m
      PROVE  h[i] = IF i = 1 THEN ss[i] ELSE h[i - 1] \o ss[i]
  <2>1. i # 1 => i - 1 \in 1 .. m /\ i - 1 # m
    OBVIOUS
  <2>2. i # 1 => h[i - 1] = f[i - 1]
    BY <2>1
  <2>3. CASE i = m
    BY <2>2, <2>3
  <2>4. CASE i # m
    <3>1. i \in 1 .. m - 1
      BY <2>4
    <3>2. f[i] = IF i = 1 THEN ss[i] ELSE f[i - 1] \o ss[i]
      BY <1>4, <3>1 DEF IsFlattened
    <3> QED
      BY <2>2, <2>4, <3>2
  <2> QED
    BY <2>3, <2>4
<1>6. IsFlattened(h, ss, m)
  <2> DEFINE r == [i \in 1 .. m |-> IF i = 1 THEN ss[i] ELSE h[i - 1] \o ss[i]]
  <2>1. h = r
    BY <1>5
  <2> QED
    BY <2>1 DEF IsFlattened
<1> QED
  BY <1>2, <1>6

LEMMA FlattenType ==
    ASSUME NEW S, NEW ss \in Seq(Seq(S))
    PROVE  FlattenSeq(ss) \in Seq(S)
<1>1. CASE Len(ss) = 0
  BY <1>1 DEF FlattenSeq
<1>2. CASE Len(ss) # 0
  <2> DEFINE n == Len(ss)
             f == CHOOSE f : IsFlattened(f, ss, n)
  <2>1. n \in Nat /\ n # 0
    BY <1>2
  <2>2. IsFlattened(f, ss, n)
    BY <2>1, FlattenedExists
  <2>3. FlattenSeq(ss) = f[n]
    BY <1>2 DEF FlattenSeq, IsFlattened
  <2> HIDE DEF f
  <2> DEFINE B == {m \in Nat : m \in 1 .. n /\ f[m] \notin Seq(S)}
  <2>4. SUFFICES ASSUME B # {} PROVE FALSE
    BY <2>1, <2>3
  <2>5. PICK m \in B : \A k \in B : m <= k
    BY <2>4, LeastNumber
  <2>6. f[m] = IF m = 1 THEN ss[m] ELSE f[m - 1] \o ss[m]
    BY <2>2 DEF IsFlattened
  <2>7. ss[m] \in Seq(S)
    OBVIOUS
  <2>8. m # 1 => f[m - 1] \in Seq(S)
    <3>1. m # 1 => m - 1 \in 1 .. n /\ ~(m <= m - 1)
      OBVIOUS
    <3> QED
      BY <2>5, <3>1
  <2>9. f[m] \in Seq(S)
    BY <2>6, <2>7, <2>8
  <2> QED
    BY <2>9
<1> QED
  BY <1>1, <1>2

LEMMA MappedType ==
    ASSUME NEW E, NEW T, NEW q \in Seq(E), NEW g \in [E -> T]
    PROVE  [i \in DOMAIN q |-> g[q[i]]] \in Seq(T)
<1>1. \A i \in 1 .. Len(q) : g[q[i]] \in T
  OBVIOUS
<1>2. [i \in 1 .. Len(q) |-> g[q[i]]] \in [1 .. Len(q) -> T]
  BY <1>1
<1> QED
  BY <1>2

(* The links of the lattice lead to its elements. *)
IsLattice(l) == l.next \in Seq(Seq(Elements(l)))

IsWalk(f, l, below, n) ==
    f = [k \in 0 .. n |->
            [u \in Elements(l) |->
                IF k > 0 /\ u \in below
                THEN <<u>> \o FlattenSeq([i \in DOMAIN l.next[u] |-> f[k - 1][l.next[u][i]]])
                ELSE <<u>>]]

(* The walks of at most n steps down, from those of one step less. *)
WalkFrom(l, below, g, n) ==
    [u \in Elements(l) |->
        IF n > 0 /\ u \in below
        THEN <<u>> \o FlattenSeq([i \in DOMAIN l.next[u] |-> g[l.next[u][i]]])
        ELSE <<u>>]

LEMMA WalkStep ==
    ASSUME NEW l, NEW below, NEW n, NEW f, IsWalk(f, l, below, n), NEW k \in 0 .. n
    PROVE  f[k] = WalkFrom(l, below, f[k - 1], k)
<1>1. f = [j \in 0 .. n |-> WalkFrom(l, below, f[j - 1], j)]
  BY Zenon DEF IsWalk, WalkFrom
<1> QED
  BY ONLY <1>1

LEMMA WalkExists ==
    ASSUME NEW l, NEW below, NEW n \in Nat
    PROVE  \E f : IsWalk(f, l, below, n)
<1> DEFINE S == {m \in Nat : ~ \E f : IsWalk(f, l, below, m)}
<1>1. SUFFICES ASSUME S # {} PROVE FALSE
  OBVIOUS
<1>2. PICK m \in S : \A k \in S : m <= k
  BY <1>1, LeastNumber
<1>3. m # 0
  <2> DEFINE h == [k \in 0 .. 0 |-> WalkFrom(l, below, l, 0)]
  <2>1. h = [k \in 0 .. 0 |-> WalkFrom(l, below, h[k - 1], k)]
    BY DEF WalkFrom
  <2>2. IsWalk(h, l, below, 0)
    BY <2>1 DEF IsWalk, WalkFrom
  <2> QED
    BY <2>2
<1>4. m \in Nat /\ \E f : IsWalk(f, l, below, m - 1)
  <2>1. m - 1 \in Nat /\ ~ (m <= m - 1)
    BY <1>3
  <2> QED
    BY <1>2, <2>1
<1>5. PICK f : IsWalk(f, l, below, m - 1)
  BY <1>4
<1> DEFINE h == [k \in 0 .. m |-> IF k = m THEN WalkFrom(l, below, f[m - 1], m) ELSE f[k]]
<1> HIDE DEF S
<1>6. ASSUME NEW k \in 0 .. m
      PROVE  h[k] = WalkFrom(l, below, h[k - 1], k)
  <2>1. k > 0 => h[k - 1] = f[k - 1]
    BY <1>4
  <2>2. WalkFrom(l, below, h[k - 1], k) = WalkFrom(l, below, f[k - 1], k)
    <3>1. CASE k > 0
      BY <2>1, <3>1
    <3>2. CASE k = 0
      BY <3>2 DEF WalkFrom
    <3> QED
      BY <3>1, <3>2
  <2>3. CASE k = m
    BY <2>2, <2>3
  <2>4. CASE k # m
    <3>1. k \in 0 .. m - 1
      BY ONLY <1>4, <2>4
    <3>2. f[k] = WalkFrom(l, below, f[k - 1], k)
      BY ONLY <1>5, <3>1, WalkStep
    <3>3. h[k] = f[k]
      BY <2>4
    <3> HIDE DEF h
    <3> QED
      BY ONLY <2>2, <3>2, <3>3
  <2> QED
    BY <2>3, <2>4
<1>7. IsWalk(h, l, below, m)
  <2>1. h = [k \in 0 .. m |-> WalkFrom(l, below, h[k - 1], k)]
    BY <1>6
  <2> HIDE DEF h
  <2> QED
    BY ONLY <2>1, Zenon DEF IsWalk, WalkFrom
<1> QED
  BY <1>2, <1>7 DEF S

(* The walks of at most n steps visit elements of the lattice. *)
LEMMA WalksType ==
    ASSUME NEW l, IsLattice(l), NEW below, NEW n \in Nat, NEW f, IsWalk(f, l, below, n),
           NEW k \in 0 .. n
    PROVE  f[k] \in [Elements(l) -> Seq(Elements(l))]
<1> DEFINE E == Elements(l)
           B == {m \in Nat : m \in 0 .. n /\ f[m] \notin [E -> Seq(E)]}
<1>1. SUFFICES ASSUME B # {} PROVE FALSE
  <2>1. k \in Nat /\ (k \notin B => f[k] \in [E -> Seq(E)])
    OBVIOUS
  <2> HIDE DEF B, E
  <2> QED
    BY <1>1, <2>1 DEF E
<1>2. PICK m \in B : \A j \in B : m <= j
  BY <1>1, LeastNumber
<1>3. f[m] = WalkFrom(l, below, f[m - 1], m)
  BY WalkStep
<1>4. m > 0 => f[m - 1] \in [E -> Seq(E)]
  <2>1. m > 0 => m - 1 \in 0 .. n /\ ~(m <= m - 1)
    OBVIOUS
  <2> QED
    BY <1>2, <2>1
<1>5. ASSUME NEW u \in E
      PROVE  WalkFrom(l, below, f[m - 1], m)[u] \in Seq(E)
  <2>1. CASE m > 0 /\ u \in below
    <3> DEFINE ss == [i \in DOMAIN l.next[u] |-> f[m - 1][l.next[u][i]]]
    <3>1. l.next[u] \in Seq(E)
      BY DEF IsLattice, Elements
    <3>2. ss \in Seq(Seq(E))
      <4>1. PICK q \in Seq(E) : q = l.next[u]
        BY <3>1
      <4>2. PICK T : T = Seq(E)
        OBVIOUS
      <4>3. PICK g \in [E -> T] : g = f[m - 1]
        BY <1>4, <2>1, <4>2
      <4>4. ss = [i \in DOMAIN q |-> g[q[i]]]
        BY <4>1, <4>3
      <4>5. [i \in DOMAIN q |-> g[q[i]]] \in Seq(T)
        BY MappedType
      <4> HIDE DEF ss
      <4> QED
        BY <4>2, <4>4, <4>5
    <3>3. FlattenSeq(ss) \in Seq(E)
      BY <3>2, FlattenType
    <3>4. WalkFrom(l, below, f[m - 1], m)[u] = <<u>> \o FlattenSeq(ss)
      BY <2>1 DEF WalkFrom
    <3> HIDE DEF ss
    <3> QED
      BY <3>3, <3>4
  <2>2. CASE ~(m > 0 /\ u \in below)
    <3>1. WalkFrom(l, below, f[m - 1], m)[u] = <<u>>
      BY <2>2 DEF WalkFrom
    <3> QED
      BY <3>1
  <2> QED
    BY <2>1, <2>2
<1>6. f[m] \in [E -> Seq(E)]
  BY <1>3, <1>5 DEF WalkFrom
<1> QED
  BY <1>2, <1>6

LEMMA WalkType ==
    ASSUME NEW l, IsLattice(l), Len(l.next) # 0, NEW below
    PROVE  Walk(l, below) \in Seq(Elements(l))
<1> DEFINE E == Elements(l)
           n == Len(l.next)
           f == CHOOSE f : IsWalk(f, l, below, n)
<1>1. n \in Nat /\ n # 0 /\ E = 1 .. n
  BY DEF IsLattice, Elements
<1>2. IsWalk(f, l, below, n)
  BY <1>1, WalkExists
<1>3. Walk(l, below) = f[n][1]
  BY DEF Walk, IsWalk
<1>4. n \in 0 .. n /\ 1 \in E
  BY <1>1
<1> HIDE DEF f, n
<1>5. f[n] \in [E -> Seq(E)]
  BY <1>1, <1>2, <1>4, WalksType
<1> QED
  BY <1>3, <1>4, <1>5

(* What a search finds is what it looks for. *)
LEMMA FoundHits ==
    ASSUME NEW l, NEW below, NEW hits, Found(l, below, hits) # << >>
    PROVE  Found(l, below, hits)[1] \in hits
<1> DEFINE w == Walk(l, below)
           I == {i \in 1 .. Len(w) : w[i] \in hits}
           k == SelectInSeq(w, LAMBDA u : u \in hits)
<1>1. k = IF I # {} THEN Min(I) ELSE 0
  BY DEF SelectInSeq
<1>2. k # 0 /\ Found(l, below, hits) = <<w[k]>>
  BY DEF Found
<1>3. I \in SUBSET Nat
  OBVIOUS
<1>4. Min(I) \in I
  BY <1>1, <1>2, <1>3, LeastNumber DEF Min
<1> QED
  BY <1>1, <1>2, <1>4

-----------------------------------------------------------------------------
(* Stopping points *)

LEMMA MaxOfTwo ==
    ASSUME NEW a \in Int, NEW b \in Int
    PROVE  Max({a, b}) = IF a >= b THEN a ELSE b
<1>1. CASE a >= b
  <2>1. \A x \in {a, b} : (\A y \in {a, b} : x >= y) <=> x = a
    BY <1>1
  <2> QED
    BY <1>1, <2>1 DEF Max
<1>2. CASE b > a
  <2>1. \A x \in {a, b} : (\A y \in {a, b} : x >= y) <=> x = b
    BY <1>2
  <2> QED
    BY <1>2, <2>1 DEF Max
<1> QED
  BY <1>1, <1>2

LEMMA GetNkType == \A k \in Nat \ {0} : GetNk(k) \in Nat
  BY MdaAssumption DEF GetNk

Points(m) == {GetNk(k) : k \in 2 .. m}

LEMMA PointsHaveLargest ==
    ASSUME NEW n \in Nat \ {0, 1}
    PROVE  \E x \in Points(n) : \A y \in Points(n) : x >= y
<1> DEFINE S == {m \in Nat : m >= 2 /\ ~ \E x \in Points(m) : \A y \in Points(m) : x >= y}
<1>1. SUFFICES ASSUME S # {} PROVE FALSE
  OBVIOUS
<1>2. PICK m \in S : \A k \in S : m <= k
  BY <1>1, LeastNumber
<1>3. m # 2
  <2>1. Points(2) = {GetNk(2)} /\ GetNk(2) \in Nat
    BY GetNkType DEF Points
  <2> QED
    BY <2>1
<1>4. PICK x \in Points(m - 1) : \A y \in Points(m - 1) : x >= y
  <2>1. m - 1 \in Nat /\ m - 1 >= 2 /\ ~ (m <= m - 1)
    BY <1>3
  <2> QED
    BY <1>2, <2>1
<1>5. Points(m) = Points(m - 1) \cup {GetNk(m)}
  <2>1. 2 .. m = (2 .. m - 1) \cup {m}
    OBVIOUS
  <2> QED
    BY <2>1 DEF Points
<1>6. GetNk(m) \in Nat /\ x \in Nat /\ \A y \in Points(m - 1) : y \in Nat
  BY GetNkType DEF Points
<1>7. CASE x >= GetNk(m)
  BY <1>4, <1>5, <1>7
<1>8. CASE GetNk(m) >= x
  <2>1. \A y \in Points(m) : GetNk(m) >= y
    BY <1>4, <1>5, <1>6, <1>8
  <2> QED
    BY <1>5, <2>1
<1> QED
  BY <1>6, <1>7, <1>8

(* The links an interface needs to send more probes, and where it stops. *)
Hops(l, u) == Max({Len(l.next[u]) + 1, 2})

StopsAt(l, u) == Max(Points(Hops(l, u)))

LEMMA HopsType ==
    ASSUME NEW l, IsLattice(l), NEW u \in Elements(l)
    PROVE  /\ Hops(l, u) \in Nat /\ Hops(l, u) >= 2
           /\ Hops(l, u) = IF Len(l.next[u]) >= 1 THEN Len(l.next[u]) + 1 ELSE 2
<1>1. l.next[u] \in Seq(Elements(l))
  BY DEF IsLattice, Elements
<1>2. Len(l.next[u]) \in Nat
  BY <1>1
<1> QED
  BY <1>2, MaxOfTwo DEF Hops

LEMMA StopsAtIs ==
    ASSUME NEW n \in Nat \ {0, 1}
    PROVE  /\ Max(Points(n)) \in Nat
           /\ \A m \in 2 .. n : Max(Points(m)) <= Max(Points(n)) /\ GetNk(m) <= Max(Points(n))
<1> DEFINE Largest(k) == Max(Points(k))
<1>1. ASSUME NEW k \in Nat \ {0, 1}
      PROVE  Largest(k) \in Points(k) /\ \A y \in Points(k) : Largest(k) >= y
  BY PointsHaveLargest DEF Max
<1>2. \A k : \A y \in Points(k) : y \in Nat
  BY GetNkType DEF Points
<1>3. \A m \in 2 .. n : Points(m) \subseteq Points(n) /\ GetNk(m) \in Points(n)
  BY DEF Points
<1> HIDE DEF Largest
<1>4. Largest(n) \in Nat /\ \A y \in Points(n) : Largest(n) >= y
  BY <1>1, <1>2
<1>5. ASSUME NEW m \in 2 .. n
      PROVE  Largest(m) <= Largest(n) /\ GetNk(m) <= Largest(n)
  <2>1. Largest(m) \in Points(n) /\ GetNk(m) \in Points(n)
    BY <1>1, <1>3
  <2> QED
    BY <1>2, <1>4, <2>1
<1> QED
  BY <1>4, <1>5 DEF Largest

LEMMA StopsAtType ==
    ASSUME NEW l, IsLattice(l), NEW u \in Elements(l)
    PROVE  StopsAt(l, u) \in Nat
<1>1. PICK k \in Nat \ {0, 1} : k = Hops(l, u)
  BY HopsType
<1> QED
  BY <1>1, StopsAtIs DEF StopsAt

-----------------------------------------------------------------------------
(* What one visit does to an interface *)

(* No more flows are used than are asked for. *)
LEMMA UsedFlowsCount ==
    ASSUME NEW x, IsList(x.ttl_flows), NEW n \in Int
    PROVE  LET c == Cardinality(UsedFlows(x, n))
           IN  c \in Nat /\ (n >= 0 => c <= n) /\ (n <= 0 => c = 0)
<1> DEFINE k == Len(x.ttl_flows)
           avail == {i \in DOMAIN x.ttl_flows : x.ttl_flows[i].state = "AVAILABLE"}
           before(i) == {j \in avail : j < i}
           used == UsedFlows(x, n)
<1>1. k \in Nat /\ avail \in SUBSET (1 .. k)
  BY ListDomain
<1>2. used = {i \in avail : Cardinality(before(i)) < n}
  BY DEF UsedFlows
<1>3. ASSUME NEW T \in SUBSET (1 .. k)
      PROVE  IsFiniteSet(T) /\ Cardinality(T) \in Nat
  <2> HIDE DEF k
  <2>1. IsFiniteSet(1 .. k)
    BY <1>1, FS_Interval
  <2>2. IsFiniteSet(T)
    BY <2>1, FS_Subset
  <2> QED
    BY <2>2, FS_CardinalityType
<1> HIDE DEF k, avail, used
<1>4. used \in SUBSET (1 .. k) /\ \A i : before(i) \in SUBSET (1 .. k)
  BY <1>1, <1>2
<1>5. CASE used = {}
  BY <1>5, FS_EmptySet DEF used
<1>6. CASE used # {}
  <2> DEFINE S == {k - i : i \in used}
  <2>1. S \in SUBSET Nat /\ S # {}
    BY <1>1, <1>4, <1>6
  <2>2. PICK d \in S : \A e \in S : d <= e
    BY <2>1, LeastNumber
  <2>3. PICK m \in used : d = k - m
    BY <2>2
  <2>4. ASSUME NEW i \in used PROVE i <= m
    <3>1. i \in Nat /\ m \in Nat /\ k \in Nat
      BY <1>1, <1>4
    <3>2. k - m <= k - i
      BY <2>2, <2>3
    <3> QED
      BY <3>1, <3>2
  <2>5. used \ {m} \subseteq before(m)
    BY <1>1, <1>2, <1>4, <2>4
  <2>6. Cardinality(used \ {m}) <= Cardinality(before(m))
    BY <1>3, <1>4, <2>5, FS_Subset
  <2>7. Cardinality(used) - 1 = Cardinality(used \ {m})
    BY <1>3, <1>4, <2>3, FS_RemoveElement
  <2>8. Cardinality(before(m)) < n
    BY <1>2
  <2>9. Cardinality(used) \in Nat /\ Cardinality(before(m)) \in Nat /\ Cardinality(used \ {m}) \in Nat
    BY <1>3, <1>4
  <2> HIDE DEF before
  <2>10. Cardinality(used) <= n /\ n > 0
    BY <2>6, <2>7, <2>8, <2>9
  <2> QED
    BY <2>9, <2>10 DEF used
<1> QED
  BY <1>5, <1>6

Fields == {"address", "sent", "received", "timeout", "num_stars", "ttl_flows", "ttl_set", "type"}

(* An interface that has sent no more than b. *)
Within(x, b) ==
    /\ Fields \subseteq DOMAIN x
    /\ IsList(x.ttl_flows)
    /\ x.sent \in Nat
    /\ x.sent <= b

(* The interfaces of a lattice, none of which has sent too much. *)
Sound(l, itf) ==
    /\ IsLattice(l)
    /\ IsList(itf)
    /\ Len(itf) = Len(l.next)
    /\ \A u \in Elements(l) : Within(itf[u], StopsAt(l, u))

LEMMA SoundDomain ==
    ASSUME NEW l, NEW itf, Sound(l, itf)
    PROVE  DOMAIN itf = Elements(l) /\ Len(itf) \in Nat /\ Elements(l) = 1 .. Len(itf)
  BY ListDomain DEF Sound, Elements

LEMMA SoundExcept ==
    ASSUME NEW l, NEW itf, Sound(l, itf), NEW u, NEW y, Within(y, StopsAt(l, u))
    PROVE  Sound(l, [itf EXCEPT ![u] = y])
<1> DEFINE new == [itf EXCEPT ![u] = y]
<1>1. DOMAIN itf = Elements(l) /\ Len(itf) \in Nat /\ Elements(l) = 1 .. Len(itf)
  BY SoundDomain
<1>2. new = [v \in 1 .. Len(itf) |-> new[v]]
  BY <1>1
<1>3. IsList(new)
  <2> HIDE DEF new
  <2> QED
    BY <1>1, <1>2, ListOfFunction
<1>4. Len(new) = Len(itf)
  <2>1. DOMAIN new = 1 .. Len(itf)
    BY <1>1
  <2> HIDE DEF new
  <2>2. 1 .. Len(new) = 1 .. Len(itf) /\ Len(new) \in Nat
    BY <1>3, <2>1, ListDomain
  <2> QED
    BY <1>1, <2>2
<1>5. \A v \in Elements(l) : Within(new[v], StopsAt(l, v))
  BY <1>1 DEF Sound
<1> QED
  BY <1>3, <1>4, <1>5 DEF Sound

WorkSound(l, w) == "interfaces" \in DOMAIN w /\ Sound(l, w.interfaces)

LEMMA MissingType ==
    ASSUME NEW x, IsList(x.ttl_flows), NEW n \in Int
    PROVE  Missing(x, n) \in Nat
<1>1. ASSUME NEW state PROVE NumFlows(x, state) \in Nat
  <2>1. IsFiniteSet(DOMAIN x.ttl_flows)
    <3>1. PICK k \in Nat : DOMAIN x.ttl_flows = 1 .. k
      BY ListDomain
    <3> QED
      BY <3>1, FS_Interval
  <2>2. IsFiniteSet({i \in DOMAIN x.ttl_flows : x.ttl_flows[i].state = state})
    BY <2>1, FS_Subset
  <2> QED
    BY <2>2, FS_CardinalityType DEF NumFlows
<1> DEFINE a == NumFlows(x, "AVAILABLE")
           t == NumFlows(x, "TESTING")
<1>2. a \in Nat /\ t \in Nat
  BY <1>1
<1> HIDE DEF a, t
<1>3. Max({0, n - a - t}) \in Nat
  BY <1>2, MaxOfTwo
<1> QED
  BY <1>3 DEF Missing, a, t

LEMMA SendNextSound ==
    ASSUME NEW l, NEW w, WorkSound(l, w), NEW u \in Elements(l), NEW n \in Int,
           w.interfaces[u].sent + n <= StopsAt(l, u)
    PROVE  WorkSound(l, SendNext(w, l, u, n))
<1> DEFINE b     == StopsAt(l, u)
           x     == w.interfaces[u]
           used  == UsedFlows(x, n)
           c     == Cardinality(used)
           fresh == IF ~ Many(l, u) /\ Len(x.ttl_set) = 1 THEN Max({0, n - c}) ELSE 0
           made  == [i \in 1 .. fresh |-> Flow(x.ttl_set[1], w.last + i, "UNAVAILABLE")]
           known == [i \in DOMAIN x.ttl_flows |->
                       [x.ttl_flows[i] EXCEPT !.state = IF i \in used THEN "UNAVAILABLE" ELSE @]]
           y     == [x EXCEPT !.ttl_flows = known \o made, !.sent = @ + c + fresh]
<1>1. Within(x, b) /\ Sound(l, w.interfaces)
  BY DEF WorkSound, Sound
<1>2. c \in Nat /\ (n >= 0 => c <= n) /\ (n <= 0 => c = 0)
  BY <1>1, UsedFlowsCount DEF Within
<1>3. fresh \in Nat /\ x.sent + c + fresh <= b
  <2>1. x.sent \in Nat /\ x.sent + n <= b /\ x.sent <= b /\ b \in Nat
    BY <1>1, StopsAtType DEF Within, Sound
  <2> HIDE DEF c
  <2>2. Max({0, n - c}) = IF 0 >= n - c THEN 0 ELSE n - c
    BY <1>2, MaxOfTwo
  <2>3. fresh = 0 \/ fresh = IF 0 >= n - c THEN 0 ELSE n - c
    BY <2>2
  <2> HIDE DEF fresh, x, b
  <2> QED
    BY <1>2, <2>1, <2>3
<1>4. IsList(known \o made)
  <2>1. DOMAIN x.ttl_flows = 1 .. Len(x.ttl_flows) /\ Len(x.ttl_flows) \in Nat
    BY <1>1, ListDomain DEF Within
  <2>2. IsList(known)
    <3>1. known = [i \in 1 .. Len(x.ttl_flows) |-> known[i]]
      BY <2>1
    <3> HIDE DEF known, x
    <3> QED
      BY <2>1, <3>1, ListOfFunction
  <2>3. IsList(made)
    <3>1. made = [i \in 1 .. fresh |-> made[i]]
      OBVIOUS
    <3> HIDE DEF made, fresh
    <3> QED
      BY <1>3, <3>1, ListOfFunction
  <2> HIDE DEF known, made
  <2> QED
    BY <2>2, <2>3, ListConcat
<1>5. SendNext(w, l, u, n).interfaces = [w.interfaces EXCEPT ![u] = y]
  <2>1. SendNext(w, l, u, n).interfaces
          = [w.interfaces EXCEPT ![u].ttl_flows = known \o made, ![u].sent = @ + c + fresh]
    BY DEF SendNext, Work
  <2> HIDE DEF known, made, fresh, c
  <2> QED
    BY <2>1
<1>6. Within(y, b)
  <2> HIDE DEF known, made, fresh, c
  <2>1. x.sent \in Nat /\ Fields \subseteq DOMAIN x
    BY <1>1 DEF Within
  <2>2. "sent" \in DOMAIN x /\ "ttl_flows" \in DOMAIN x
    BY <2>1 DEF Fields
  <2>3. DOMAIN y = DOMAIN x /\ y.ttl_flows = known \o made /\ y.sent = x.sent + c + fresh
    BY <2>2
  <2> HIDE DEF y, x, b
  <2> QED
    BY <1>2, <1>3, <1>4, <2>1, <2>3 DEF Within
<1> HIDE DEF y
<1>7. Sound(l, [w.interfaces EXCEPT ![u] = y])
  BY <1>1, <1>6, SoundExcept
<1>8. "interfaces" \in DOMAIN SendNext(w, l, u, n)
  BY DEF SendNext, Work
<1> QED
  BY <1>5, <1>7, <1>8 DEF WorkSound

LEMMA TestFlowsSound ==
    ASSUME NEW l, NEW w, WorkSound(l, w), NEW u \in Elements(l), NEW n \in Nat
    PROVE  /\ WorkSound(l, TestFlows(w, u, n))
           /\ TestFlows(w, u, n).interfaces[u].sent = w.interfaces[u].sent
<1> DEFINE b == StopsAt(l, u)
           x == w.interfaces[u]
           Tested(i) == x.ttl_set[((i - 1) % Len(x.ttl_set)) + 1]
           new == [i \in 1 .. n |-> Flow(Tested(i), w.last + i, "TESTING")]
           y   == [x EXCEPT !.ttl_flows = @ \o new]
<1>1. Within(x, b) /\ Sound(l, w.interfaces) /\ u \in DOMAIN w.interfaces
  BY SoundDomain DEF WorkSound, Sound
<1>2. TestFlows(w, u, n).interfaces = [w.interfaces EXCEPT ![u] = y]
  <2>1. TestFlows(w, u, n).interfaces = [w.interfaces EXCEPT ![u].ttl_flows = @ \o new]
    BY DEF TestFlows, Work
  <2> HIDE DEF new
  <2> QED
    BY <2>1
<1>3. IsList(new)
  <2>1. new = [i \in 1 .. n |-> new[i]]
    OBVIOUS
  <2> HIDE DEF new
  <2> QED
    BY <2>1, ListOfFunction
<1>4. IsList(x.ttl_flows \o new)
  BY <1>1, <1>3, ListConcat DEF Within
<1>5. DOMAIN y = DOMAIN x /\ y.ttl_flows = x.ttl_flows \o new /\ y.sent = x.sent
  <2> HIDE DEF new
  <2>1. "sent" \in DOMAIN x /\ "ttl_flows" \in DOMAIN x
    BY <1>1 DEF Within, Fields
  <2> QED
    BY <2>1
<1>6. Within(y, b)
  <2> HIDE DEF y, new
  <2> QED
    BY <1>1, <1>4, <1>5 DEF Within
<1> HIDE DEF y
<1>7. Sound(l, [w.interfaces EXCEPT ![u] = y])
  BY <1>1, <1>6, SoundExcept
<1>8. "interfaces" \in DOMAIN TestFlows(w, u, n)
  BY DEF TestFlows, Work
<1>9. TestFlows(w, u, n).interfaces[u] = y
  BY <1>1, <1>2
<1> QED
  BY <1>2, <1>5, <1>7, <1>8, <1>9 DEF WorkSound

LEMMA ClassifySound ==
    ASSUME NEW l, NEW itf, Sound(l, itf), NEW u \in Elements(l)
    PROVE  Sound(l, Classify(itf, l, u))
<1>1. CASE Classify(itf, l, u) = itf
  BY <1>1
<1>2. CASE Classify(itf, l, u) = [itf EXCEPT ![u].type = "IN_PROGRESS"]
  <2> DEFINE y == [itf[u] EXCEPT !.type = "IN_PROGRESS"]
  <2>1. Within(itf[u], StopsAt(l, u))
    BY DEF Sound
  <2>2. DOMAIN y = DOMAIN itf[u] /\ y.sent = itf[u].sent /\ y.ttl_flows = itf[u].ttl_flows
    BY <2>1 DEF Within, Fields
  <2>3. Within(y, StopsAt(l, u))
    <3> HIDE DEF y
    <3> QED
      BY <2>1, <2>2 DEF Within
  <2>4. Classify(itf, l, u) = [itf EXCEPT ![u] = y]
    BY <1>2
  <2> HIDE DEF y
  <2>5. Sound(l, [itf EXCEPT ![u] = y])
    BY <2>3, SoundExcept
  <2> QED
    BY <2>4, <2>5
<1> QED
  BY <1>1, <1>2 DEF Classify

(* A visit sends what the stopping point leaves, or less. *)
LEMMA EnumerateSound ==
    ASSUME NEW l, NEW w, WorkSound(l, w), NEW u \in Elements(l)
    PROVE  WorkSound(l, Enumerate(w, l, u))
<1> DEFINE x == w.interfaces[u]
           n == ToSend(l, w.interfaces, u)
           k == Hops(l, u)
           t == TestFlows(w, u, Missing(x, n))
<1>1. Within(x, StopsAt(l, u)) /\ IsLattice(l)
  BY DEF WorkSound, Sound
<1>2. k \in Nat \ {0, 1}
  BY <1>1, HopsType
<1>3. n = GetNk(k) - x.sent
  BY DEF ToSend, Hops
<1>4. n \in Int /\ x.sent + n <= StopsAt(l, u)
  <2> HIDE DEF k, n
  <2>1. Max(Points(k)) \in Nat /\ GetNk(k) <= Max(Points(k)) /\ GetNk(k) \in Nat
    BY <1>2, StopsAtIs, GetNkType
  <2>2. StopsAt(l, u) = Max(Points(k))
    BY DEF StopsAt, k
  <2>3. x.sent \in Nat
    BY <1>1 DEF Within
  <2> HIDE DEF x
  <2> QED
    BY <1>3, <2>1, <2>2, <2>3
<1>5. CASE ~ Many(l, u)
  <2>1. Enumerate(w, l, u) = SendNext(w, l, u, n)
    BY <1>5 DEF Enumerate
  <2> HIDE DEF n
  <2> QED
    BY <1>4, <2>1, SendNextSound
<1>6. CASE Many(l, u)
  <2>1. Missing(x, n) \in Nat
    <3> HIDE DEF n
    <3> QED
      BY <1>1, <1>4, MissingType DEF Within
  <2>2. WorkSound(l, t) /\ t.interfaces[u].sent = x.sent
    <3> DEFINE m == Missing(x, n)
    <3> HIDE DEF m
    <3>1. WorkSound(l, TestFlows(w, u, m)) /\ TestFlows(w, u, m).interfaces[u].sent = x.sent
      BY <2>1, TestFlowsSound DEF m
    <3> QED
      BY <3>1 DEF m
  <2>3. Enumerate(w, l, u) = SendNext(t, l, u, n)
    BY <1>6 DEF Enumerate
  <2> HIDE DEF t, n
  <2> QED
    BY <1>4, <2>2, <2>3, SendNextSound
<1> QED
  BY <1>5, <1>6

LEMMA ProcessInterfaceSound ==
    ASSUME NEW l, NEW w, WorkSound(l, w), NEW u \in Elements(l)
    PROVE  WorkSound(l, ProcessInterface(w, l, u))
<1> DEFINE done == IF Enumerated(l, w.interfaces, u) THEN w ELSE Enumerate(w, l, u)
<1>1. WorkSound(l, done)
  BY EnumerateSound
<1>2. ProcessInterface(w, l, u).interfaces = Classify(done.interfaces, l, u)
  <2>1. ProcessInterface(w, l, u) = [done EXCEPT !.interfaces = Classify(@, l, u)]
    BY DEF ProcessInterface
  <2>2. "interfaces" \in DOMAIN done
    BY <1>1 DEF WorkSound
  <2> QED
    BY <2>1, <2>2
<1>3. Sound(l, Classify(done.interfaces, l, u))
  BY <1>1, ClassifySound DEF WorkSound
<1>4. "interfaces" \in DOMAIN ProcessInterface(w, l, u)
  BY <1>1 DEF ProcessInterface, WorkSound
<1> QED
  BY <1>2, <1>3, <1>4 DEF WorkSound

-----------------------------------------------------------------------------
(* The walk that ends mda_handler *)

(* What the interfaces of the sequence q, visited in turn, make of base. *)
IsFold(f, l, base, q, S) ==
    f = [s \in SUBSET S |->
            IF s = {} THEN base
            ELSE ProcessInterface(f[s \ {Max(s)}], l, q[Max(s)])]

LEMMA LargestOfPrefix ==
    ASSUME NEW n \in Nat, NEW s \in SUBSET (1 .. n), n \in s
    PROVE  Max(s) = n
<1>1. \A x \in s : (\A y \in s : x >= y) <=> x = n
  OBVIOUS
<1> QED
  BY <1>1 DEF Max

LEMMA FoldExists ==
    ASSUME NEW l, NEW base, NEW q, NEW n \in Nat
    PROVE  \E f : IsFold(f, l, base, q, 1 .. n)
<1> DEFINE S == {m \in Nat : ~ \E f : IsFold(f, l, base, q, 1 .. m)}
<1>1. SUFFICES ASSUME S # {} PROVE FALSE
  OBVIOUS
<1>2. PICK m \in S : \A k \in S : m <= k
  BY <1>1, LeastNumber
<1>3. m # 0
  <2> DEFINE h == [s \in SUBSET (1 .. 0) |-> base]
  <2>1. \A s \in SUBSET (1 .. 0) : s = {}
    OBVIOUS
  <2>2. IsFold(h, l, base, q, 1 .. 0)
    BY <2>1 DEF IsFold
  <2> QED
    BY <2>2
<1>4. PICK f : IsFold(f, l, base, q, 1 .. m - 1)
  <2>1. m - 1 \in Nat /\ ~ (m <= m - 1)
    BY <1>3
  <2> QED
    BY <1>2, <2>1
<1> DEFINE Step(g, s) == IF s = {} THEN base
                         ELSE ProcessInterface(g[s \ {Max(s)}], l, q[Max(s)])
           h == [s \in SUBSET (1 .. m) |-> IF m \in s THEN Step(f, s) ELSE f[s]]
<1>5. ASSUME NEW s \in SUBSET (1 .. m)
      PROVE  h[s] = Step(h, s)
  <2>1. h[s] = IF m \in s THEN Step(f, s) ELSE f[s]
    OBVIOUS
  <2>2. m \notin s \ {Max(s)}
    BY LargestOfPrefix
  <2>3. s \ {Max(s)} \in SUBSET (1 .. m)
    OBVIOUS
  <2>4. h[s \ {Max(s)}] = f[s \ {Max(s)}]
    BY <2>2, <2>3
  <2>5. Step(h, s) = Step(f, s)
    <3> HIDE DEF h
    <3> QED
      BY <2>4
  <2>6. CASE m \in s
    BY <2>1, <2>5, <2>6
  <2>7. CASE m \notin s
    <3>1. s \in SUBSET (1 .. m - 1)
      BY <2>7
    <3>2. f[s] = Step(f, s)
      BY <1>4, <3>1 DEF IsFold
    <3> HIDE DEF h, Step
    <3> QED
      BY <2>1, <2>5, <2>7, <3>2
  <2> QED
    BY <2>6, <2>7
<1>6. IsFold(h, l, base, q, 1 .. m)
  <2>1. h = [s \in SUBSET (1 .. m) |-> h[s]]
    OBVIOUS
  <2> HIDE DEF h
  <2>2. h = [s \in SUBSET (1 .. m) |-> Step(h, s)]
    BY <1>5, <2>1
  <2> QED
    BY <2>2 DEF IsFold
<1> QED
  BY <1>2, <1>6

Visits(l, base, q) == FoldLeft(LAMBDA s, u : ProcessInterface(s, l, u), base, q)

LEMMA VisitsSound ==
    ASSUME NEW l, NEW base, WorkSound(l, base), NEW q \in Seq(Elements(l))
    PROVE  WorkSound(l, Visits(l, base, q))
<1> DEFINE n == Len(q)
           f == CHOOSE f : IsFold(f, l, base, q, DOMAIN q)
<1>1. n \in Nat /\ DOMAIN q = 1 .. n
  OBVIOUS
<1>2. IsFold(f, l, base, q, 1 .. n)
  BY <1>1, FoldExists
<1>3. Visits(l, base, q) = f[1 .. n]
  <2>1. Visits(l, base, q) = f[DOMAIN q]
    BY DEF Visits, FoldLeft, MapThenFoldSet, IsFold
  <2> QED
    BY <1>1, <2>1
<1> HIDE DEF f
<1> DEFINE B == {m \in Nat : m \in 0 .. n /\ ~ WorkSound(l, f[1 .. m])}
<1>4. SUFFICES ASSUME B # {} PROVE FALSE
  BY <1>1, <1>3
<1>5. PICK m \in B : \A k \in B : m <= k
  BY <1>4, LeastNumber
<1>6. m # 0
  <2>1. 1 .. 0 = {} /\ {} \in SUBSET (1 .. n)
    OBVIOUS
  <2>2. f[{}] = base
    BY <1>2, <2>1 DEF IsFold
  <2> QED
    BY <2>1, <2>2
<1>7. WorkSound(l, f[1 .. m - 1])
  <2>1. m - 1 \in 0 .. n /\ ~ (m <= m - 1)
    BY <1>6
  <2> QED
    BY <1>5, <2>1
<1>8. f[1 .. m] = ProcessInterface(f[1 .. m - 1], l, q[m])
  <2> DEFINE s == 1 .. m
  <2>1. m \in 1 .. n
    BY <1>6
  <2>2. s \in SUBSET (1 .. n) /\ s \in SUBSET (1 .. m) /\ m \in s
    BY <1>1, <2>1
  <2>3. Max(s) = m
    BY <2>2, LargestOfPrefix
  <2>4. s \ {m} = 1 .. m - 1
    OBVIOUS
  <2> HIDE DEF s
  <2>5. f[s] = ProcessInterface(f[s \ {Max(s)}], l, q[Max(s)])
    BY <1>2, <2>2 DEF IsFold
  <2> QED
    BY <2>3, <2>4, <2>5 DEF s
<1>9. q[m] \in Elements(l)
  BY <1>6
<1>10. WorkSound(l, f[1 .. m])
  BY <1>7, <1>8, <1>9, ProcessInterfaceSound
<1> QED
  BY <1>10

LEMMA ProcessedSound ==
    ASSUME NEW l, NEW itf, Sound(l, itf), Len(l.next) # 0, NEW told
    PROVE  /\ Processed(l, itf, told).lattice = l
           /\ Sound(l, Processed(l, itf, told).work.interfaces)
<1> DEFINE done  == {u \in Elements(l) : Enumerated(l, itf, u)}
           q     == Walk(l, done)
           base  == Work(itf, last_flow_id, {})
           w     == Visits(l, base, q)
<1>1. WorkSound(l, base)
  BY DEF WorkSound, Work
<1>2. q \in Seq(Elements(l))
  <2> HIDE DEF done
  <2> QED
    BY WalkType DEF Sound
<1>3. WorkSound(l, w)
  <2> HIDE DEF base, q
  <2> QED
    BY <1>1, <1>2, VisitsSound
<1>4. Processed(l, itf, told).work = w /\ Processed(l, itf, told).lattice = l
  BY DEF Processed, Visits
<1> QED
  BY <1>3, <1>4 DEF WorkSound

-----------------------------------------------------------------------------
(* The lattice grows *)

Grows(l, m) ==
    /\ IsLattice(l)
    /\ IsLattice(m)
    /\ Len(l.next) <= Len(m.next)
    /\ \A u \in Elements(l) : Len(l.next[u]) <= Len(m.next[u])

LEMMA LatticeTypes ==
    ASSUME NEW l, IsLattice(l)
    PROVE  /\ Len(l.next) \in Nat
           /\ DOMAIN l.next = Elements(l)
           /\ Elements(l) = 1 .. Len(l.next)
           /\ \A u \in Elements(l) : l.next[u] \in Seq(Elements(l)) /\ Len(l.next[u]) \in Nat
<1>1. PICK E : E = Elements(l)
  OBVIOUS
<1>2. PICK q \in Seq(Seq(E)) : q = l.next
  BY <1>1 DEF IsLattice
<1>3. E = 1 .. Len(q)
  BY <1>1, <1>2 DEF Elements
<1> QED
  BY <1>1, <1>2, <1>3

LEMMA StopsLater ==
    ASSUME NEW l, NEW m, Grows(l, m), NEW u \in Elements(l)
    PROVE  StopsAt(l, u) <= StopsAt(m, u)
<1>1. u \in Elements(m)
  BY LatticeTypes DEF Grows
<1>2. Hops(l, u) \in Nat /\ Hops(l, u) >= 2 /\ Hops(m, u) \in Nat /\ Hops(m, u) >= 2
  BY <1>1, HopsType DEF Grows
<1>3. Hops(l, u) <= Hops(m, u)
  <2>1. /\ Hops(l, u) = IF Len(l.next[u]) >= 1 THEN Len(l.next[u]) + 1 ELSE 2
        /\ Hops(m, u) = IF Len(m.next[u]) >= 1 THEN Len(m.next[u]) + 1 ELSE 2
    BY <1>1, HopsType DEF Grows
  <2>2. Len(l.next[u]) \in Nat /\ Len(m.next[u]) \in Nat /\ Len(l.next[u]) <= Len(m.next[u])
    BY <1>1, LatticeTypes DEF Grows
  <2> QED
    BY <2>1, <2>2
<1>4. PICK a \in Nat, b \in Nat : a = Hops(l, u) /\ b = Hops(m, u)
  BY <1>2
<1>5. b \in Nat \ {0, 1} /\ a \in 2 .. b
  BY <1>2, <1>3, <1>4
<1>6. Max(Points(a)) <= Max(Points(b))
  BY <1>5, StopsAtIs
<1> QED
  BY <1>4, <1>6 DEF StopsAt

LEMMA WithinMore ==
    ASSUME NEW x, NEW b \in Nat, NEW c \in Nat, b <= c, Within(x, b)
    PROVE  Within(x, c)
  BY DEF Within

LEMMA SoundGrows ==
    ASSUME NEW l, NEW m, Grows(l, m), Len(m.next) = Len(l.next), NEW itf, Sound(l, itf)
    PROVE  Sound(m, itf)
<1>1. Elements(m) = Elements(l)
  BY DEF Elements
<1>2. ASSUME NEW u \in Elements(m) PROVE Within(itf[u], StopsAt(m, u))
  <2>1. StopsAt(l, u) \in Nat /\ StopsAt(m, u) \in Nat /\ StopsAt(l, u) <= StopsAt(m, u)
    BY <1>1, StopsLater, StopsAtType DEF Grows
  <2>2. Within(itf[u], StopsAt(l, u))
    BY <1>1 DEF Sound
  <2> QED
    BY <2>1, <2>2, WithinMore
<1> QED
  BY <1>2 DEF Sound, Grows

LEMMA SoundAppend ==
    ASSUME NEW l, NEW m, Grows(l, m), Len(m.next) = Len(l.next) + 1,
           NEW itf, Sound(l, itf), NEW y, Within(y, 0)
    PROVE  Sound(m, Append(itf, y))
<1> DEFINE n == Len(l.next)
<1>1. n \in Nat /\ Elements(l) = 1 .. n /\ Elements(m) = 1 .. n + 1
  BY LatticeTypes DEF Grows
<1>2. Len(itf) = n /\ IsList(itf) /\ IsLattice(m)
  BY DEF Sound, Grows
<1> HIDE DEF n
<1>3. PICK new : new = Append(itf, y)
  OBVIOUS
<1>4. /\ IsList(new) /\ Len(new) = n + 1
      /\ \A u \in 1 .. n : new[u] = itf[u]
      /\ new[n + 1] = y
  BY <1>2, <1>3, ListAppend
<1>5. ASSUME NEW u \in Elements(m) PROVE Within(new[u], StopsAt(m, u))
  <2>1. StopsAt(m, u) \in Nat
    BY <1>2, StopsAtType
  <2>2. CASE u \in 1 .. n
    <3>1. StopsAt(l, u) \in Nat /\ StopsAt(l, u) <= StopsAt(m, u)
      BY <1>1, <2>2, StopsLater, StopsAtType DEF Grows
    <3>2. Within(itf[u], StopsAt(l, u))
      BY <1>1, <2>2 DEF Sound
    <3> QED
      BY <1>4, <2>1, <2>2, <3>1, <3>2, WithinMore
  <2>3. CASE u = n + 1
    BY <1>4, <2>1, <2>3, WithinMore
  <2> QED
    BY <1>1, <2>2, <2>3
<1>6. Len(m.next) = n + 1
  BY DEF n
<1> QED
  BY <1>2, <1>3, <1>4, <1>5, <1>6 DEF Sound

LEMMA CreateGrows ==
    ASSUME NEW l, IsLattice(l)
    PROVE  Grows(l, Create(l)) /\ Len(Create(l).next) = Len(l.next) + 1
<1> DEFINE m == Create(l)
<1>1. PICK n \in Nat : n = Len(l.next)
  BY LatticeTypes
<1>2. PICK q : q = l.next
  OBVIOUS
<1>3. PICK F : F = Seq(1 .. n + 1)
  OBVIOUS
<1>4. PICK e \in F : e = << >>
  <2>1. << >> \in Seq(1 .. n + 1)
    OBVIOUS
  <2> QED
    BY <1>3, <2>1
<1>5. q \in Seq(F)
  <2>1. q \in [1 .. n -> Seq(1 .. n)]
    BY <1>1, <1>2 DEF IsLattice, Elements
  <2>2. \A s \in Seq(1 .. n) : s \in F
    BY <1>3
  <2>3. q \in [1 .. n -> F]
    BY <2>1, <2>2
  <2> QED
    BY <2>3
<1>6. m.next = Append(q, e)
  BY <1>2, <1>4 DEF Create
<1>7. m.next \in Seq(F) /\ Len(m.next) = n + 1 /\ \A u \in 1 .. n : m.next[u] = q[u]
  <2>1. n = Len(q)
    BY <1>1, <1>2
  <2> QED
    BY <1>5, <1>6, <2>1
<1>8. Elements(m) = 1 .. n + 1 /\ Elements(l) = 1 .. n
  BY <1>1, <1>7 DEF Elements
<1>9. IsLattice(m)
  BY <1>3, <1>7, <1>8 DEF IsLattice
<1>10. \A u \in Elements(l) : Len(l.next[u]) \in Nat /\ m.next[u] = l.next[u]
  BY <1>2, <1>7, <1>8, LatticeTypes
<1> HIDE DEF m
<1>11. Grows(l, m)
  BY <1>1, <1>7, <1>9, <1>10 DEF Grows
<1> QED
  BY <1>1, <1>7, <1>11 DEF m

LEMMA ConnectGrows ==
    ASSUME NEW l, IsLattice(l), NEW u \in Elements(l), NEW v \in Elements(l)
    PROVE  Grows(l, Connect(l, u, v)) /\ Len(Connect(l, u, v).next) = Len(l.next)
<1> DEFINE m == Connect(l, u, v)
<1>1. PICK n \in Nat : n = Len(l.next)
  BY LatticeTypes
<1>2. PICK q : q = l.next
  OBVIOUS
<1>3. PICK F : F = Seq(1 .. n)
  OBVIOUS
<1>4. q \in [1 .. n -> F] /\ u \in 1 .. n /\ v \in 1 .. n /\ Elements(l) = 1 .. n
  BY <1>1, <1>2, <1>3 DEF IsLattice, Elements
<1>5. CASE m.next = q
  <2>1. Elements(m) = Elements(l) /\ IsLattice(m)
    BY <1>2, <1>5 DEF Elements, IsLattice
  <2>2. \A x \in Elements(l) : Len(l.next[x]) <= Len(m.next[x])
    BY <1>2, <1>5, LatticeTypes
  <2> HIDE DEF m
  <2>3. Grows(l, m)
    BY <1>1, <1>2, <1>5, <2>1, <2>2 DEF Grows
  <2> QED
    BY <1>2, <1>5, <2>3 DEF m
<1>6. CASE m.next = [q EXCEPT ![u] = Append(@, v)]
  <2>1. PICK r : r = m.next
    OBVIOUS
  <2>2. PICK s \in F : s = q[u]
    BY <1>4
  <2>3. Append(s, v) \in F /\ Len(Append(s, v)) = Len(s) + 1 /\ Len(s) \in Nat
    BY <1>3, <1>4
  <2>4. r = [q EXCEPT ![u] = Append(s, v)]
    BY <1>6, <2>1, <2>2
  <2>5. r \in [1 .. n -> F]
    BY <1>4, <2>3, <2>4
  <2>6. r \in Seq(F) /\ Len(r) = n
    BY <2>5
  <2>7. Elements(m) = 1 .. n
    BY <2>1, <2>6 DEF Elements
  <2>8. IsLattice(m)
    BY <1>3, <2>1, <2>6, <2>7 DEF IsLattice
  <2>9. ASSUME NEW x \in Elements(l) PROVE Len(l.next[x]) <= Len(m.next[x])
    <3>1. CASE x = u
      BY <1>2, <1>4, <2>1, <2>2, <2>3, <2>4, <3>1
    <3>2. CASE x # u
      <4>1. m.next[x] = l.next[x]
        BY <1>2, <1>4, <2>1, <2>4, <3>2
      <4> QED
        BY <4>1, LatticeTypes
    <3> QED
      BY <3>1, <3>2
  <2> HIDE DEF m
  <2>10. Grows(l, m)
    BY <1>1, <2>1, <2>6, <2>8, <2>9 DEF Grows
  <2> QED
    BY <1>1, <2>1, <2>6, <2>10 DEF m
<1> QED
  BY <1>2, <1>5, <1>6 DEF Connect

LEMMA AddElementGrows ==
    ASSUME NEW l, IsLattice(l), NEW u \in Elements(l)
    PROVE  Grows(l, AddElement(l, u)) /\ Len(AddElement(l, u).next) = Len(l.next) + 1
<1> DEFINE c == Create(l)
           m == AddElement(l, u)
<1>1. Grows(l, c) /\ Len(c.next) = Len(l.next) + 1
  BY CreateGrows
<1>2. Len(l.next) \in Nat /\ Elements(l) = 1 .. Len(l.next)
  BY LatticeTypes
<1>3. u \in Elements(c) /\ Len(l.next) + 1 \in Elements(c) /\ IsLattice(c)
  <2> HIDE DEF c
  <2>1. Elements(c) = 1 .. Len(l.next) + 1
    BY <1>1 DEF Elements
  <2> QED
    BY <1>1, <1>2, <2>1 DEF Grows
<1>4. m = Connect(c, u, Len(l.next) + 1)
  BY DEF AddElement
<1> HIDE DEF c, m
<1>5. Grows(c, m) /\ Len(m.next) = Len(c.next)
  BY <1>3, <1>4, ConnectGrows
<1>6. ASSUME NEW x \in Elements(l) PROVE Len(l.next[x]) <= Len(m.next[x])
  <2>1. x \in Elements(c) /\ x \in Elements(m)
    BY <1>1, <1>2, <1>5 DEF Elements
  <2>2. Len(l.next[x]) \in Nat /\ Len(c.next[x]) \in Nat /\ Len(m.next[x]) \in Nat
    BY <1>1, <1>5, <2>1, LatticeTypes DEF Grows
  <2>3. Len(l.next[x]) <= Len(c.next[x])
    BY <1>1 DEF Grows
  <2>4. Len(c.next[x]) <= Len(m.next[x])
    BY <1>5, <2>1 DEF Grows
  <2> QED
    BY ONLY <2>2, <2>3, <2>4
<1>7. Grows(l, m)
  BY <1>1, <1>2, <1>5, <1>6 DEF Grows
<1> QED
  BY <1>1, <1>5, <1>7 DEF m

-----------------------------------------------------------------------------
(* What the events do to the interfaces *)

LEMMA WithinKept ==
    ASSUME NEW x, NEW b, Within(x, b), NEW y,
           DOMAIN y = DOMAIN x, y.sent = x.sent, IsList(y.ttl_flows)
    PROVE  Within(y, b)
  BY DEF Within

LEMMA InterfaceAt ==
    ASSUME NEW l, NEW itf, Sound(l, itf), NEW u \in Elements(l)
    PROVE  /\ Within(itf[u], StopsAt(l, u))
           /\ IsList(itf[u].ttl_flows)
           /\ "received" \in DOMAIN itf[u] /\ "timeout" \in DOMAIN itf[u]
           /\ "ttl_set" \in DOMAIN itf[u] /\ "ttl_flows" \in DOMAIN itf[u]
           /\ "sent" \in DOMAIN itf[u]
  BY DEF Sound, Within, Fields

LEMMA NewInterfaceWithin ==
    ASSUME NEW address, NEW ttl, NEW stars
    PROVE  Within(NewInterface(address, ttl, stars), 0)
<1> DEFINE x == NewInterface(address, ttl, stars)
<1>1. DOMAIN x = Fields /\ x.sent = 0 /\ x.ttl_flows = << >>
  BY DEF NewInterface, Fields
<1>2. IsList(<< >>)
  <2>1. << >> \in Seq(Nat)
    OBVIOUS
  <2> QED
    BY <2>1 DEF IsList
<1> HIDE DEF x
<1> QED
  BY <1>1, <1>2 DEF Within, x

LEMMA CountedSound ==
    ASSUME NEW l, NEW itf, Sound(l, itf), NEW u \in Elements(l)
    PROVE  /\ Sound(l, [itf EXCEPT ![u].received = @ + 1])
           /\ Sound(l, [itf EXCEPT ![u].timeout = @ + 1])
<1> DEFINE x == itf[u]
           r == [x EXCEPT !.received = x.received + 1]
           t == [x EXCEPT !.timeout = x.timeout + 1]
<1>1. /\ Within(x, StopsAt(l, u)) /\ IsList(x.ttl_flows)
      /\ "received" \in DOMAIN x /\ "timeout" \in DOMAIN x
      /\ "ttl_flows" \in DOMAIN x /\ "sent" \in DOMAIN x
  BY InterfaceAt
<1>2. /\ DOMAIN r = DOMAIN x /\ r.sent = x.sent /\ r.ttl_flows = x.ttl_flows
      /\ DOMAIN t = DOMAIN x /\ t.sent = x.sent /\ t.ttl_flows = x.ttl_flows
  BY <1>1
<1>3. /\ [itf EXCEPT ![u].received = @ + 1] = [itf EXCEPT ![u] = r]
      /\ [itf EXCEPT ![u].timeout = @ + 1] = [itf EXCEPT ![u] = t]
  OBVIOUS
<1> HIDE DEF x, r, t
<1>4. Within(r, StopsAt(l, u)) /\ Within(t, StopsAt(l, u))
  BY <1>1, <1>2, WithinKept
<1>5. Sound(l, [itf EXCEPT ![u] = r]) /\ Sound(l, [itf EXCEPT ![u] = t])
  BY <1>4, SoundExcept
<1> QED
  BY <1>3, <1>5

LEMMA TtlsSound ==
    ASSUME NEW l, NEW itf, Sound(l, itf), NEW u \in Elements(l), NEW ttls
    PROVE  Sound(l, [itf EXCEPT ![u].ttl_set = ttls])
<1> DEFINE x == itf[u]
           y == [x EXCEPT !.ttl_set = ttls]
<1>1. /\ Within(x, StopsAt(l, u)) /\ IsList(x.ttl_flows) /\ "ttl_set" \in DOMAIN x
      /\ "ttl_flows" \in DOMAIN x /\ "sent" \in DOMAIN x
  BY InterfaceAt
<1>2. DOMAIN y = DOMAIN x /\ y.sent = x.sent /\ y.ttl_flows = x.ttl_flows
  BY <1>1
<1>3. [itf EXCEPT ![u].ttl_set = ttls] = [itf EXCEPT ![u] = y]
  OBVIOUS
<1> HIDE DEF x, y
<1>4. Within(y, StopsAt(l, u))
  BY <1>1, <1>2, WithinKept
<1>5. Sound(l, [itf EXCEPT ![u] = y])
  BY <1>4, SoundExcept
<1> QED
  BY <1>3, <1>5

LEMMA FlowsSound ==
    ASSUME NEW l, NEW itf, Sound(l, itf), NEW u \in Elements(l), NEW flows, IsList(flows)
    PROVE  Sound(l, [itf EXCEPT ![u].ttl_flows = flows])
<1> DEFINE x == itf[u]
           y == [x EXCEPT !.ttl_flows = flows]
<1>1. /\ Within(x, StopsAt(l, u))
      /\ "ttl_flows" \in DOMAIN x /\ "sent" \in DOMAIN x
  BY InterfaceAt
<1>2. DOMAIN y = DOMAIN x /\ y.sent = x.sent /\ y.ttl_flows = flows
  BY <1>1
<1>3. [itf EXCEPT ![u].ttl_flows = flows] = [itf EXCEPT ![u] = y]
  OBVIOUS
<1> HIDE DEF x, y
<1>4. Within(y, StopsAt(l, u))
  BY <1>1, <1>2, WithinKept
<1>5. Sound(l, [itf EXCEPT ![u] = y])
  BY <1>4, SoundExcept
<1> QED
  BY <1>3, <1>5

LEMMA FirstFlowType ==
    ASSUME NEW x, IsList(x.ttl_flows), NEW id, NEW state
    PROVE  FirstFlow(x, id, state) \in 0 .. Len(x.ttl_flows)
<1> DEFINE s == x.ttl_flows
           I == {i \in 1 .. Len(s) : s[i].id = id /\ s[i].state = state}
<1>1. FirstFlow(x, id, state) = IF I # {} THEN Min(I) ELSE 0
  BY DEF FirstFlow, SelectInSeq
<1>2. Len(s) \in Nat
  BY ListDomain
<1>3. I \in SUBSET Nat
  OBVIOUS
<1>4. I # {} => Min(I) \in I
  BY <1>3, LeastNumber DEF Min
<1> QED
  BY <1>1, <1>2, <1>4

LEMMA ListRemove ==
    ASSUME NEW s, IsList(s), NEW i \in 0 .. Len(s)
    PROVE  IsList(RemoveAt(s, i))
<1>1. PICK S : s \in Seq(S)
  BY DEF IsList
<1>2. SubSeq(s, 1, i - 1) \in Seq(S) /\ SubSeq(s, i + 1, Len(s)) \in Seq(S)
  BY <1>1
<1>3. SubSeq(s, 1, i - 1) \o SubSeq(s, i + 1, Len(s)) \in Seq(S)
  BY <1>2
<1> QED
  BY <1>3 DEF RemoveAt, IsList

LEMMA MarkTimeoutSound ==
    ASSUME NEW l, NEW itf, Sound(l, itf), NEW u \in Elements(l), NEW id
    PROVE  Sound(l, MarkTimeout(itf, u, id))
<1> DEFINE i == FirstFlow(itf[u], id, "UNAVAILABLE")
           s == itf[u].ttl_flows
           e == [s[i] EXCEPT !.state = "TIMEOUT"]
           t == [s EXCEPT ![i] = e]
<1>1. CASE i = 0
  BY <1>1 DEF MarkTimeout
<1>2. CASE i # 0
  <2>1. IsList(s) /\ Len(s) \in Nat /\ DOMAIN s = 1 .. Len(s)
    BY InterfaceAt, ListDomain
  <2>2. IsList(t)
    <3> HIDE DEF e, s, i
    <3>1. t = [k \in 1 .. Len(s) |-> t[k]]
      BY <2>1
    <3> HIDE DEF t
    <3> QED
      BY <2>1, <3>1, ListOfFunction
  <2>3. MarkTimeout(itf, u, id) = [itf EXCEPT ![u].ttl_flows = t]
    <3>1. MarkTimeout(itf, u, id) = [itf EXCEPT ![u].ttl_flows[i].state = "TIMEOUT"]
      BY <1>2 DEF MarkTimeout
    <3> HIDE DEF i
    <3> QED
      BY <3>1
  <2> HIDE DEF t
  <2>4. Sound(l, [itf EXCEPT ![u].ttl_flows = t])
    BY <2>2, FlowsSound
  <2> QED
    BY <2>3, <2>4
<1> QED
  BY <1>1, <1>2

LEMMA HolderType ==
    ASSUME NEW l, NEW itf, NEW ttl, NEW id, NEW state, Holder(l, itf, ttl, id, state) # << >>
    PROVE  Holder(l, itf, ttl, id, state)[1] \in Elements(l)
<1> DEFINE hop  == {u \in Elements(l) : Contains(itf[u].ttl_set, ttl)}
           hits == {u \in hop : \E f \in Range(itf[u].ttl_flows) : f.id = id /\ f.state = state}
           below == Elements(l) \ hop
<1>1. Holder(l, itf, ttl, id, state) = Found(l, below, hits)
  BY DEF Holder
<1>2. hits \subseteq Elements(l)
  OBVIOUS
<1> HIDE DEF hits, below
<1> QED
  BY <1>1, <1>2, FoundHits

LEMMA DeleteFlowSound ==
    ASSUME NEW l, NEW itf, Sound(l, itf), NEW ttl, NEW id
    PROVE  Sound(l, DeleteFlow(l, itf, ttl, id))
<1> DEFINE holder == Holder(l, itf, ttl, id, "TESTING")
           u == holder[1]
           i == FirstFlow(itf[u], id, "TESTING")
           t == RemoveAt(itf[u].ttl_flows, i)
<1>1. CASE holder = << >>
  BY <1>1 DEF DeleteFlow
<1>2. CASE holder # << >>
  <2>1. u \in Elements(l)
    BY <1>2, HolderType
  <2>2. DeleteFlow(l, itf, ttl, id) = [itf EXCEPT ![u].ttl_flows = t]
    <3>1. DeleteFlow(l, itf, ttl, id) = [itf EXCEPT ![u].ttl_flows = RemoveAt(@, i)]
      BY <1>2 DEF DeleteFlow
    <3> HIDE DEF holder, i
    <3> QED
      BY <3>1
  <2> HIDE DEF holder
  <2>3. IsList(itf[u].ttl_flows)
    BY <2>1, InterfaceAt
  <2>4. IsList(t)
    BY <2>3, FirstFlowType, ListRemove
  <2> HIDE DEF t
  <2>5. Sound(l, [itf EXCEPT ![u].ttl_flows = t])
    BY <2>1, <2>4, FlowsSound
  <2> QED
    BY <2>2, <2>5
<1> QED
  BY <1>1, <1>2

LEMMA WithAddressType ==
    ASSUME NEW address, WithAddress(address) # << >>
    PROVE  WithAddress(address)[1] \in Elements(lattice)
<1> DEFINE hits  == {u \in Elements(lattice) : interfaces[u].address = address}
           below == Elements(lattice)
<1>1. WithAddress(address) = Found(lattice, below, hits) /\ hits \subseteq Elements(lattice)
  BY DEF WithAddress
<1> HIDE DEF hits, below
<1> QED
  BY <1>1, FoundHits

LEMMA SourceType ==
    ASSUME NEW ttl, NEW id, Source(ttl, id) # << >>
    PROVE  Source(ttl, id)[1] \in Elements(lattice)
<1> DEFINE hop   == {u \in Elements(lattice) : HasTtl(u, ttl)}
           below == {u \in Elements(lattice) : u \in hop => Len(interfaces[u].ttl_set) > 1}
           hits  == {u \in hop : \E f \in Range(interfaces[u].ttl_flows) :
                        f.ttl = ttl /\ f.id = id /\ f.state # "TESTING"}
<1>1. Source(ttl, id) = Found(lattice, below, hits)
  BY DEF Source
<1>2. hits \subseteq Elements(lattice)
  OBVIOUS
<1> HIDE DEF hits, below
<1> QED
  BY <1>1, <1>2, FoundHits

(* The state in which an event other than INIT is handled. *)
Running == Sound(lattice, interfaces) /\ Len(lattice.next) # 0

(* What an event leaves behind is sound. *)
Outcome(o) == Sound(o.lattice, o.work.interfaces) /\ Len(o.lattice.next) # 0

LEMMA ProcessedOutcome ==
    ASSUME NEW l, NEW itf, Sound(l, itf), Len(l.next) # 0, NEW told
    PROVE  Outcome(Processed(l, itf, told))
<1>1. PICK o : o = Processed(l, itf, told)
  OBVIOUS
<1>2. o.lattice = l /\ Sound(l, o.work.interfaces)
  BY <1>1, ProcessedSound
<1> QED
  BY <1>1, <1>2 DEF Outcome

(* The reply links its source to what answers, in the lattice m. *)
LEMMA LinkedSound ==
    ASSUME Running, NEW u \in Elements(lattice), NEW m, Grows(lattice, m),
           NEW dest, NEW address, NEW ttl,
           IF dest = 0 THEN Len(m.next) = Len(lattice.next) + 1
           ELSE dest \in Elements(lattice) /\ Len(m.next) = Len(lattice.next)
    PROVE  Sound(m, Linked(u, dest, address, ttl))
<1> DEFINE ttls  == AddTtls(interfaces[dest].ttl_set, interfaces[u].ttl_set)
           grown == IF dest = 0 THEN Append(interfaces, NewInterface(address, ttl, 0))
                    ELSE [interfaces EXCEPT ![dest].ttl_set = ttls]
<1>1. u \in Elements(m)
  BY LatticeTypes DEF Grows
<1>2. Linked(u, dest, address, ttl) = [grown EXCEPT ![u].received = @ + 1]
  BY DEF Linked
<1>3. Sound(m, grown)
  <2>1. CASE dest = 0
    <3>1. PICK y : y = NewInterface(address, ttl, 0)
      OBVIOUS
    <3>2. Within(y, 0)
      BY <3>1, NewInterfaceWithin
    <3>3. Sound(m, Append(interfaces, y))
      BY <2>1, <3>2, SoundAppend DEF Running
    <3> QED
      BY <2>1, <3>1, <3>3
  <2>2. CASE dest # 0
    <3> HIDE DEF ttls
    <3>1. Sound(lattice, [interfaces EXCEPT ![dest].ttl_set = ttls])
      BY <2>2, TtlsSound DEF Running
    <3>2. Sound(m, [interfaces EXCEPT ![dest].ttl_set = ttls])
      BY <2>2, <3>1, SoundGrows
    <3> QED
      BY <2>2, <3>2
  <2> QED
    BY <2>1, <2>2
<1> HIDE DEF grown
<1>4. Sound(m, [grown EXCEPT ![u].received = @ + 1])
  BY <1>1, <1>3, CountedSound
<1> QED
  BY <1>2, <1>4

-----------------------------------------------------------------------------
(* What a walk has visited *)

(* What two sequences have together. *)
LEMMA JoinedRange ==
    ASSUME NEW S, NEW s \in Seq(S), NEW t \in Seq(S), NEW x
    PROVE  x \in Range(s \o t) <=> x \in Range(s) \/ x \in Range(t)
<1>1. /\ s \o t \in Seq(S) /\ Len(s \o t) = Len(s) + Len(t)
      /\ \A i \in 1 .. Len(s) : (s \o t)[i] = s[i]
      /\ \A i \in 1 .. Len(t) : (s \o t)[Len(s) + i] = t[i]
  OBVIOUS
<1>2. PICK r \in Seq(S) : r = s \o t
  BY <1>1
<1>3. Len(s) \in Nat /\ Len(t) \in Nat
  OBVIOUS
<1>4. /\ Range(s) = {s[i] : i \in 1 .. Len(s)}
      /\ Range(t) = {t[i] : i \in 1 .. Len(t)}
      /\ Range(r) = {r[i] : i \in 1 .. Len(s) + Len(t)}
  <2>1. DOMAIN s = 1 .. Len(s) /\ DOMAIN t = 1 .. Len(t)
    OBVIOUS
  <2>2. DOMAIN r = 1 .. Len(s) + Len(t)
    BY <1>1, <1>2
  <2> QED
    BY <2>1, <2>2, Zenon DEF Range
<1>5. ASSUME NEW i \in 1 .. Len(s) + Len(t)
      PROVE  r[i] \in Range(s) \/ r[i] \in Range(t)
  <2>1. CASE i <= Len(s)
    BY <1>1, <1>2, <1>3, <1>4, <2>1
  <2>2. CASE i > Len(s)
    <3>1. i - Len(s) \in 1 .. Len(t) /\ i = Len(s) + (i - Len(s))
      BY <1>3, <2>2
    <3>2. r[i] = t[i - Len(s)]
      BY <1>1, <1>2, <3>1
    <3> QED
      BY <1>4, <3>1, <3>2
  <2> QED
    BY <1>3, <2>1, <2>2
<1>6. ASSUME NEW i \in 1 .. Len(s)
      PROVE  s[i] \in Range(r)
  <2>1. r[i] = s[i] /\ i \in 1 .. Len(s) + Len(t)
    BY <1>1, <1>2, <1>3
  <2> QED
    BY <1>4, <2>1
<1>7. ASSUME NEW i \in 1 .. Len(t)
      PROVE  t[i] \in Range(r)
  <2>1. r[Len(s) + i] = t[i] /\ Len(s) + i \in 1 .. Len(s) + Len(t)
    BY <1>1, <1>2, <1>3
  <2>2. PICK j \in 1 .. Len(s) + Len(t) : r[j] = t[i]
    BY ONLY <2>1
  <2>3. r[j] \in Range(r)
    BY ONLY <1>4
  <2> QED
    BY ONLY <2>2, <2>3
<1>8. \A y \in Range(r) : y \in Range(s) \/ y \in Range(t)
  BY ONLY <1>4, <1>5
<1>9. \A y \in Range(s) \cup Range(t) : y \in Range(r)
  BY ONLY <1>4, <1>6, <1>7
<1> QED
  BY ONLY <1>2, <1>8, <1>9

(* What a flattened sequence has is what its parts have. *)
LEMMA FlattenRange ==
    ASSUME NEW S, NEW ss \in Seq(Seq(S)), NEW x
    PROVE  x \in Range(FlattenSeq(ss)) <=> \E i \in DOMAIN ss : x \in Range(ss[i])
<1>1. CASE Len(ss) = 0
  <2>1. FlattenSeq(ss) = << >> /\ DOMAIN ss = {}
    BY <1>1 DEF FlattenSeq
  <2> QED
    BY <2>1 DEF Range
<1>2. CASE Len(ss) # 0
  <2> DEFINE n == Len(ss)
             f == CHOOSE f : IsFlattened(f, ss, n)
             Right(m) == /\ f[m] \in Seq(S)
                         /\ x \in Range(f[m]) <=> \E i \in 1 .. m : x \in Range(ss[i])
  <2>1. n \in Nat /\ n # 0 /\ DOMAIN ss = 1 .. n
    BY <1>2
  <2>2. IsFlattened(f, ss, n)
    BY <2>1, FlattenedExists
  <2>3. FlattenSeq(ss) = f[n]
    BY <1>2 DEF FlattenSeq, IsFlattened
  <2> HIDE DEF f
  <2> DEFINE B == {m \in Nat : m \in 1 .. n /\ ~ Right(m)}
  <2>4. SUFFICES ASSUME B # {} PROVE FALSE
    <3>1. B = {} => Right(n)
      BY <2>1
    <3> QED
      BY <2>1, <2>3, <2>4, <3>1
  <2>5. PICK m \in B : \A k \in B : m <= k
    BY <2>4, LeastNumber
  <2>6. f[m] = IF m = 1 THEN ss[m] ELSE f[m - 1] \o ss[m]
    BY <2>2 DEF IsFlattened
  <2>7. ss[m] \in Seq(S)
    BY <2>1
  <2>8. CASE m = 1
    <3>1. Right(m)
      BY <2>6, <2>7, <2>8
    <3> QED
      BY <3>1
  <2>9. CASE m # 1
    <3>1. m - 1 \in 1 .. n /\ ~(m <= m - 1)
      BY <2>9
    <3>2. Right(m - 1)
      BY <2>5, <3>1
    <3>3. f[m] = f[m - 1] \o ss[m]
      BY <2>6, <2>9
    <3>4. x \in Range(f[m]) <=> x \in Range(f[m - 1]) \/ x \in Range(ss[m])
      BY <2>7, <3>2, <3>3, JoinedRange
    <3>5. 1 .. m = (1 .. m - 1) \cup {m}
      BY <2>9
    <3>6. Right(m)
      BY <2>7, <3>2, <3>3, <3>4, <3>5
    <3> QED
      BY <3>6
  <2> QED
    BY <2>8, <2>9
<1> QED
  BY <1>1, <1>2

(* What the walks of at most k steps visit from u, and from its successors. *)
Visited(f, k, u) == Range(f[k][u])

VisitedBelow(f, k, l, u) == UNION {Visited(f, k, v) : v \in Range(l.next[u])}

(* What a walk of at most n steps from an element visits. *)
LEMMA WalksRange ==
    ASSUME NEW l, IsLattice(l), NEW below, NEW n \in Nat, NEW f, IsWalk(f, l, below, n),
           NEW k \in 0 .. n, NEW less, less = k - 1, NEW u \in Elements(l)
    PROVE  Visited(f, k, u) =
             IF k # 0 /\ u \in below THEN {u} \cup VisitedBelow(f, less, l, u) ELSE {u}
<1> DEFINE E == Elements(l)
<1>1. f[k] = WalkFrom(l, below, f[k - 1], k)
  BY WalkStep
<1>2. Range(<<u>>) = {u}
  BY DEF Range
<1>3. CASE ~(k # 0 /\ u \in below)
  <2>1. f[k][u] = <<u>>
    BY <1>1, <1>3 DEF WalkFrom
  <2>2. Visited(f, k, u) = {u}
    BY ONLY <1>2, <2>1 DEF Visited
  <2> QED
    BY ONLY <1>3, <2>2
<1>4. CASE k # 0 /\ u \in below
  <2> DEFINE ss == [i \in DOMAIN l.next[u] |-> f[k - 1][l.next[u][i]]]
  <2>1. f[k][u] = <<u>> \o FlattenSeq(ss)
    <3>1. f[k] = [v \in E |-> IF k > 0 /\ v \in below
                              THEN <<v>> \o FlattenSeq([i \in DOMAIN l.next[v] |->
                                                          f[k - 1][l.next[v][i]]])
                              ELSE <<v>>]
      BY <1>1 DEF WalkFrom
    <3>2. k > 0
      BY <1>4
    <3> HIDE DEF E
    <3>3. u \in E
      BY DEF E
    <3> QED
      BY ONLY <1>4, <3>1, <3>2, <3>3
  <2>2. k - 1 \in 0 .. n
    BY <1>4
  <2>3. f[k - 1] \in [E -> Seq(E)]
    BY <2>2, WalksType
  <2>4. PICK q \in Seq(E) : q = l.next[u]
    BY DEF IsLattice, Elements
  <2>5. PICK T : T = Seq(E)
    OBVIOUS
  <2>6. PICK g \in [E -> T] : g = f[k - 1]
    BY <2>3, <2>5
  <2>7. ss = [i \in DOMAIN q |-> g[q[i]]] /\ DOMAIN ss = DOMAIN q
    BY <2>4, <2>6
  <2>8. [i \in DOMAIN q |-> g[q[i]]] \in Seq(T)
    BY MappedType
  <2>9. \A i \in DOMAIN q : ss[i] = g[q[i]]
    BY <2>7
  <2> HIDE DEF ss
  <2>10. ss \in Seq(Seq(E))
    BY <2>5, <2>7, <2>8
  <2>11. FlattenSeq(ss) \in Seq(E) /\ <<u>> \in Seq(E)
    BY <2>10, FlattenType
  <2>12. \A x : x \in Range(f[k][u]) <=> x \in Range(<<u>>) \/ x \in Range(FlattenSeq(ss))
    BY <2>1, <2>11, JoinedRange
  <2>13. \A x : x \in Range(FlattenSeq(ss)) <=> \E i \in DOMAIN q : x \in Range(g[q[i]])
    BY <2>7, <2>9, <2>10, FlattenRange
  <2>14. \A x : (\E i \in DOMAIN q : x \in Range(g[q[i]])) <=> \E v \in Range(q) : x \in Range(g[v])
    <3>1. \A i \in DOMAIN q : q[i] \in Range(q)
      BY ONLY DEF Range
    <3>2. \A v \in Range(q) : \E i \in DOMAIN q : v = q[i]
      BY ONLY DEF Range
    <3> QED
      BY ONLY <3>1, <3>2
  <2>15. Range(f[k][u]) = {u} \cup UNION {Range(g[v]) : v \in Range(q)}
    <3>1. PICK V, B : V = Range(f[k][u]) /\ B = UNION {Range(g[v]) : v \in Range(q)}
      OBVIOUS
    <3>2. \A x : x \in V <=> x = u \/ \E v \in Range(q) : x \in Range(g[v])
      BY ONLY <1>2, <2>12, <2>13, <2>14, <3>1
    <3>3. \A x : x \in B <=> \E v \in Range(q) : x \in Range(g[v])
      BY ONLY <3>1
    <3>4. V = {u} \cup B
      BY ONLY <3>2, <3>3
    <3> QED
      BY ONLY <3>1, <3>4
  <2>16. VisitedBelow(f, less, l, u) = UNION {Range(g[v]) : v \in Range(q)}
    BY <2>4, <2>6 DEF VisitedBelow, Visited
  <2> QED
    BY <1>4, <2>15, <2>16 DEF Visited
<1> QED
  BY <1>3, <1>4

(* A walk that only meets elements below which it goes on has been wherever the *)
(* links lead: no other walk gets further.                                      *)
LEMMA WalkReachesAll ==
    ASSUME NEW l, IsLattice(l), Len(l.next) # 0, NEW done, NEW below,
           Range(Walk(l, done)) \subseteq done
    PROVE  Range(Walk(l, below)) \subseteq done
<1> DEFINE E == Elements(l)
           n == Len(l.next)
           f == CHOOSE f : IsWalk(f, l, done, n)
           g == CHOOSE g : IsWalk(g, l, below, n)
<1>1. n \in Nat /\ n # 0 /\ E = 1 .. n
  BY LatticeTypes
<1>2. IsWalk(f, l, done, n) /\ IsWalk(g, l, below, n)
  BY <1>1, WalkExists
<1>3. Walk(l, done) = f[n][1] /\ Walk(l, below) = g[n][1]
  BY DEF Walk, IsWalk
<1> HIDE DEF f, g
<1> DEFINE Reaches(k) == \A u \in E : Visited(f, k, u) \subseteq done => Visited(g, k, u) \subseteq done
           B == {k \in Nat : k \in 0 .. n /\ ~ Reaches(k)}
<1>4. SUFFICES ASSUME B # {} PROVE FALSE
  <2>1. 1 \in E /\ n \in 0 .. n
    BY <1>1
  <2>2. Reaches(n)
    BY <1>1, <1>4, <2>1
  <2> HIDE DEF B
  <2> QED
    BY <1>3, <2>1, <2>2 DEF Visited
<1>5. PICK k \in B : \A j \in B : k <= j
  BY <1>4, LeastNumber
<1>6. k > 0 => Reaches(k - 1)
  <2>1. k > 0 => k - 1 \in 0 .. n /\ ~(k <= k - 1)
    OBVIOUS
  <2> QED
    BY <1>5, <2>1
<1>7. k \in 0 .. n
  OBVIOUS
<1>8. PICK less : less = k - 1
  OBVIOUS
<1>9. \A u \in E : /\ Visited(f, k, u) =
                       IF k # 0 /\ u \in done THEN {u} \cup VisitedBelow(f, less, l, u) ELSE {u}
                  /\ Visited(g, k, u) =
                       IF k # 0 /\ u \in below THEN {u} \cup VisitedBelow(g, less, l, u) ELSE {u}
  BY <1>1, <1>2, <1>7, <1>8, WalksRange
<1>10. ASSUME NEW u \in E, Visited(f, k, u) \subseteq done, NEW x \in Visited(g, k, u)
      PROVE  x \in done
  <2>1. u \in Visited(f, k, u)
    BY <1>9
  <2>2. x = u \/ (k # 0 /\ \E v \in Range(l.next[u]) : x \in Visited(g, less, v))
    <3>1. x \in IF k # 0 /\ u \in below THEN {u} \cup VisitedBelow(g, less, l, u) ELSE {u}
      BY <1>9, <1>10
    <3> QED
      BY <3>1 DEF VisitedBelow
  <2>3. CASE x = u
    BY <1>10, <2>1, <2>3
  <2>4. CASE x # u
    <3>1. PICK v \in Range(l.next[u]) : x \in Visited(g, less, v)
      BY <2>2, <2>4
    <3>2. v \in E
      <4>1. PICK q \in Seq(E) : q = l.next[u]
        BY LatticeTypes
      <4> QED
        BY <4>1 DEF Range
    <3>3. \A y \in Visited(f, less, v) : y \in Visited(f, k, u)
      <4>1. Visited(f, k, u) = {u} \cup VisitedBelow(f, less, l, u)
        BY <1>9, <1>10, <2>1, <2>2, <2>4
      <4> QED
        BY <3>1, <4>1 DEF VisitedBelow
    <3>4. Visited(f, less, v) \subseteq done
      BY <1>10, <3>3
    <3> QED
      BY <1>6, <1>7, <1>8, <2>2, <2>4, <3>1, <3>2, <3>4
  <2> QED
    BY <2>3, <2>4
<1>11. Reaches(k)
  BY <1>10
<1> QED
  BY <1>5, <1>11

(* A search finds what a walk visits. *)
LEMMA FoundOnWalk ==
    ASSUME NEW l, IsLattice(l), Len(l.next) # 0, NEW below, NEW hits,
           Found(l, below, hits) # << >>
    PROVE  Found(l, below, hits)[1] \in Range(Walk(l, below))
<1> DEFINE I == {i \in 1 .. Len(Walk(l, below)) : Walk(l, below)[i] \in hits}
           k == SelectInSeq(Walk(l, below), LAMBDA u : u \in hits)
<1>1. k = IF I # {} THEN Min(I) ELSE 0
  BY DEF SelectInSeq
<1>2. k # 0 /\ Found(l, below, hits) = <<Walk(l, below)[k]>>
  BY DEF Found
<1>3. I \in SUBSET Nat
  OBVIOUS
<1>4. Min(I) \in I
  BY <1>1, <1>2, <1>3, LeastNumber DEF Min
<1>5. PICK w \in Seq(Elements(l)) : w = Walk(l, below)
  BY WalkType
<1>6. k \in DOMAIN w
  BY <1>1, <1>2, <1>4, <1>5
<1> HIDE DEF k
<1>7. Found(l, below, hits)[1] = w[k]
  BY <1>2, <1>5
<1> QED
  BY <1>5, <1>6, <1>7 DEF Range

-----------------------------------------------------------------------------
(* Probes in flight and the interfaces that wait for them *)

FlowOf(x, i) == x.ttl_flows[i]

(* The flow i of the interface u is not under test. *)
Holds(itf, u, i) ==
    u \in DOMAIN itf /\ i \in DOMAIN itf[u].ttl_flows /\ FlowOf(itf[u], i).state # "TESTING"

(* The probe that is sent from a flow. *)
SentFrom(p, f) == p.ttl = f.ttl + 1 /\ p.flow_id = f.id

(* The probes on their way whose answers the interface u waits for. *)
Owed(itf, fly, u) == {p \in fly : \E i : Holds(itf, u, i) /\ SentFrom(p, FlowOf(itf[u], i))}

(* No two probes on their way have the same flow. *)
ProbesDiffer(fly, last) ==
    \A p \in fly : /\ p.ttl \in Int
                   /\ p.flow_id \in 1 .. last
                   /\ \A q \in fly : q.flow_id = p.flow_id => q = p

FlowsKnown(itf, last) ==
    \A u, i : Holds(itf, u, i) =>
        FlowOf(itf[u], i).ttl \in Int /\ FlowOf(itf[u], i).id \in 1 .. last

(* No two interfaces have sent the same flow from the same ttl, and one that can *)
(* still send a flow has it from the highest ttl.                                *)
FlowsDiffer(itf) ==
    \A u, i, v, j :
        /\ Holds(itf, u, i) /\ Holds(itf, v, j)
        /\ FlowOf(itf[u], i).id = FlowOf(itf[v], j).id
        /\ u # v \/ i # j
        => /\ FlowOf(itf[v], j).ttl # FlowOf(itf[u], i).ttl
           /\ FlowOf(itf[u], i).state = "AVAILABLE" =>
                FlowOf(itf[v], j).ttl < FlowOf(itf[u], i).ttl

(* A probe on its way is the furthest its flow has been sent, and no interface *)
(* sends the flow before the answer.                                           *)
ProbesAhead(itf, fly) ==
    \A p \in fly : \A u, i :
        Holds(itf, u, i) /\ FlowOf(itf[u], i).id = p.flow_id =>
            FlowOf(itf[u], i).ttl < p.ttl /\ FlowOf(itf[u], i).state # "AVAILABLE"

Answered(x) == x.received + x.timeout

(* What an interface counts, and its ttls. *)
Counters(x) ==
    /\ x.sent \in Nat /\ x.received \in Nat /\ x.timeout \in Nat
    /\ x.address = Dst => x.sent = 0

(* The probes on their way are all counted as sent. *)
SentEnough(itf, fly) ==
    \A u \in DOMAIN itf :
        Counters(itf[u]) /\ Cardinality(Owed(itf, fly, u)) + Answered(itf[u]) <= itf[u].sent

Tokens(itf, fly, last) ==
    /\ last \in Nat
    /\ IsFiniteSet(fly)
    /\ ProbesDiffer(fly, last)
    /\ FlowsKnown(itf, last)
    /\ FlowsDiffer(itf)
    /\ ProbesAhead(itf, fly)
    /\ SentEnough(itf, fly)

(* An interface waits for finitely many probes, all in flight. *)
LEMMA OwedFinite ==
    ASSUME NEW itf, NEW fly, IsFiniteSet(fly), NEW u
    PROVE  /\ Owed(itf, fly, u) \subseteq fly
           /\ IsFiniteSet(Owed(itf, fly, u))
           /\ Cardinality(Owed(itf, fly, u)) \in Nat
<1>1. Owed(itf, fly, u) \subseteq fly
  BY DEF Owed
<1>2. IsFiniteSet(Owed(itf, fly, u))
  BY <1>1, FS_Subset
<1> QED
  BY <1>1, <1>2, FS_CardinalityType

(* Counters are numbers. *)
LEMMA AnsweredType ==
    ASSUME NEW x, Counters(x)
    PROVE  x.sent \in Nat /\ x.received \in Nat /\ x.timeout \in Nat /\ Answered(x) \in Nat
  BY DEF Counters, Answered

(* Every flow of new that is not under test was one of old, at a place of its own; *)
(* Moved tells which, after the flow k of the interface w has been removed.         *)
Moved(w, k, u, i) == IF u = w /\ i >= k THEN i + 1 ELSE i

Embeds(new, old, w, k) ==
    /\ \A u, i : Holds(new, u, i) =>
         /\ Holds(old, u, Moved(w, k, u, i))
         /\ FlowOf(new[u], i).ttl = FlowOf(old[u], Moved(w, k, u, i)).ttl
         /\ FlowOf(new[u], i).id = FlowOf(old[u], Moved(w, k, u, i)).id
         /\ FlowOf(new[u], i).state = "AVAILABLE" =>
              FlowOf(old[u], Moved(w, k, u, i)).state = "AVAILABLE"
    /\ \A u, i, j : Holds(new, u, i) /\ Holds(new, u, j) /\ i # j =>
         Moved(w, k, u, i) # Moved(w, k, u, j)

(* Flows may leave, or change state, and answers be counted. *)
LEMMA TokensShrink ==
    ASSUME NEW old, NEW fly, NEW last, Tokens(old, fly, last),
           NEW new, NEW w, NEW k, Embeds(new, old, w, k), NEW left \in SUBSET fly,
           \A u \in DOMAIN new :
               /\ Counters(new[u])
               /\ \/ /\ u \in DOMAIN old
                     /\ new[u].sent = old[u].sent
                     /\ Answered(new[u]) <= Answered(old[u]) + Cardinality(Owed(old, fly \ left, u))
                  \/ Owed(new, left, u) = {} /\ Answered(new[u]) = 0
    PROVE  Tokens(new, left, last)
<1>1. IsFiniteSet(left) /\ IsFiniteSet(fly) /\ IsFiniteSet(fly \ left)
  BY FS_Subset DEF Tokens
<1>2. ProbesDiffer(left, last)
  BY DEF Tokens, ProbesDiffer
<1>3. FlowsKnown(new, last)
  BY DEF Tokens, FlowsKnown, Embeds
<1>4. FlowsDiffer(new)
  <2>1. SUFFICES ASSUME NEW u, NEW i, NEW v, NEW j,
                        Holds(new, u, i), Holds(new, v, j),
                        FlowOf(new[u], i).id = FlowOf(new[v], j).id,
                        u # v \/ i # j
                 PROVE  /\ FlowOf(new[v], j).ttl # FlowOf(new[u], i).ttl
                        /\ FlowOf(new[u], i).state = "AVAILABLE" =>
                             FlowOf(new[v], j).ttl < FlowOf(new[u], i).ttl
    BY DEF FlowsDiffer
  <2> DEFINE a == Moved(w, k, u, i)
             b == Moved(w, k, v, j)
  <2>2. Holds(old, u, a) /\ Holds(old, v, b) /\ (u # v \/ a # b)
    BY <2>1 DEF Embeds
  <2>3. /\ FlowOf(new[u], i).ttl = FlowOf(old[u], a).ttl
        /\ FlowOf(new[u], i).id = FlowOf(old[u], a).id
        /\ FlowOf(new[u], i).state = "AVAILABLE" => FlowOf(old[u], a).state = "AVAILABLE"
        /\ FlowOf(new[v], j).ttl = FlowOf(old[v], b).ttl
        /\ FlowOf(new[v], j).id = FlowOf(old[v], b).id
    BY <2>1 DEF Embeds
  <2> HIDE DEF a, b
  <2>4. FlowOf(old[u], a).id = FlowOf(old[v], b).id
    BY ONLY <2>1, <2>3
  <2>5. /\ FlowOf(old[v], b).ttl # FlowOf(old[u], a).ttl
        /\ FlowOf(old[u], a).state = "AVAILABLE" => FlowOf(old[v], b).ttl < FlowOf(old[u], a).ttl
    <3>1. FlowsDiffer(old)
      BY DEF Tokens
    <3> QED
      BY ONLY <2>2, <2>4, <3>1 DEF FlowsDiffer
  <2> QED
    BY ONLY <2>3, <2>5
<1>5. ProbesAhead(new, left)
  BY DEF Tokens, ProbesAhead, Embeds
<1>6. SentEnough(new, left)
  <2> SUFFICES ASSUME NEW u \in DOMAIN new
               PROVE  Cardinality(Owed(new, left, u)) + Answered(new[u]) <= new[u].sent
    BY DEF SentEnough
  <2>1. Counters(new[u])
    OBVIOUS
  <2>2. new[u].sent \in Nat /\ Answered(new[u]) \in Nat
    BY <2>1, AnsweredType
  <2>3. CASE Owed(new, left, u) = {} /\ Answered(new[u]) = 0
    BY <2>2, <2>3, FS_EmptySet
  <2>4. CASE /\ u \in DOMAIN old
             /\ new[u].sent = old[u].sent
             /\ Answered(new[u]) <= Answered(old[u]) + Cardinality(Owed(old, fly \ left, u))
    <3> DEFINE A == Owed(old, fly, u)
               B == Owed(old, fly \ left, u)
               C == Owed(new, left, u)
    <3>1. C \subseteq A /\ B \subseteq A /\ C \cap B = {}
      <4>1. B \subseteq A /\ C \cap B = {}
        BY DEF Owed
      <4>2. ASSUME NEW p \in C PROVE p \in A
        <5>1. p \in fly /\ \E i : Holds(new, u, i) /\ SentFrom(p, FlowOf(new[u], i))
          BY DEF Owed
        <5> QED
          BY <5>1 DEF Owed, SentFrom, Embeds
      <4> QED
        BY <4>1, <4>2
    <3>2. IsFiniteSet(A) /\ IsFiniteSet(B) /\ IsFiniteSet(C)
      BY <1>1, OwedFinite
    <3>3. Counters(old[u]) /\ Cardinality(A) + Answered(old[u]) <= old[u].sent
      BY <2>4 DEF Tokens, SentEnough
    <3> HIDE DEF A, B, C
    <3>4. Cardinality(B \cup C) <= Cardinality(A)
      BY <3>1, <3>2, FS_Subset
    <3>5. Cardinality(B \cup C) = Cardinality(B) + Cardinality(C)
      <4>1. Cardinality(B \cap C) = 0
        BY <3>1, FS_EmptySet
      <4>2. Cardinality(B) \in Nat /\ Cardinality(C) \in Nat
        BY <3>2, FS_CardinalityType
      <4>3. Cardinality(B \cup C) = Cardinality(B) + Cardinality(C) - Cardinality(B \cap C)
        BY <3>2, FS_Union
      <4> QED
        BY <4>1, <4>2, <4>3
    <3>6. Cardinality(A) \in Nat /\ Cardinality(B) \in Nat /\ Cardinality(C) \in Nat
      BY <3>2, FS_CardinalityType
    <3>7. Answered(old[u]) \in Nat /\ old[u].sent \in Nat
      BY <3>3, AnsweredType
    <3>8. Answered(new[u]) <= Answered(old[u]) + Cardinality(B)
      BY <2>4 DEF B
    <3>9. Cardinality(C) + Answered(new[u]) <= new[u].sent
      BY <2>2, <2>4, <3>3, <3>4, <3>5, <3>6, <3>7, <3>8
    <3> QED
      BY <3>9 DEF C
  <2> QED
    BY <2>3, <2>4
<1> QED
  BY <1>1, <1>2, <1>3, <1>4, <1>5, <1>6 DEF Tokens

(* The flows that new has and old had not are under test. *)
Keeps(new, old) ==
    \A v, i : Holds(new, v, i) =>
        /\ Holds(old, v, i)
        /\ FlowOf(new[v], i).ttl = FlowOf(old[v], i).ttl
        /\ FlowOf(new[v], i).id = FlowOf(old[v], i).id
        /\ FlowOf(new[v], i).state = "AVAILABLE" => FlowOf(old[v], i).state = "AVAILABLE"

NextProbe(f) == [ttl |-> f.ttl + 1, flow_id |-> f.id]

(* A finite set has no more images than elements. *)
LEMMA ImageFinite ==
    ASSUME NEW S, IsFiniteSet(S), NEW f, DOMAIN f = S, NEW T, T = {f[x] : x \in S}
    PROVE  IsFiniteSet(T) /\ Cardinality(T) <= Cardinality(S)
<1>1. PICK g : g = [x \in S |-> f[x]]
  OBVIOUS
<1>2. g \in Surjection(S, T)
  BY <1>1 DEF Surjection
<1> QED
  BY <1>2, FS_Surjection

(* As many probes as are counted as sent may join those in flight. *)
LEMMA SentMoreEnough ==
    ASSUME NEW old, NEW fly, IsFiniteSet(fly), SentEnough(old, fly),
           NEW new, NEW more, IsFiniteSet(more), NEW u, NEW n \in Nat, Cardinality(more) <= n,
           DOMAIN new = DOMAIN old,
           \A v \in DOMAIN old :
               /\ Counters(new[v])
               /\ Answered(new[v]) = Answered(old[v])
               /\ new[v].sent = old[v].sent + (IF v = u THEN n ELSE 0)
               /\ Owed(new, fly \cup more, v) \subseteq
                    Owed(old, fly, v) \cup (IF v = u THEN more ELSE {})
    PROVE  SentEnough(new, fly \cup more)
<1> SUFFICES ASSUME NEW v \in DOMAIN old
             PROVE  Cardinality(Owed(new, fly \cup more, v)) + Answered(new[v]) <= new[v].sent
  BY DEF SentEnough
<1> DEFINE A == Owed(old, fly, v)
           B == IF v = u THEN more ELSE {}
           C == Owed(new, fly \cup more, v)
           m == IF v = u THEN n ELSE 0
<1>1. IsFiniteSet(A) /\ IsFiniteSet(B) /\ Cardinality(B) <= m
  <2>1. IsFiniteSet(A)
    BY OwedFinite
  <2>2. CASE v = u
    BY <2>1, <2>2
  <2>3. CASE v # u
    <3>1. B = {} /\ m = 0
      BY <2>3
    <3> HIDE DEF A, B, m
    <3> QED
      BY <2>1, <3>1, FS_EmptySet
  <2> QED
    BY <2>2, <2>3
<1>2. C \subseteq A \cup B /\ new[v].sent = old[v].sent + m /\ Answered(new[v]) = Answered(old[v])
  OBVIOUS
<1>3. m \in Nat
  OBVIOUS
<1>4. Counters(old[v]) /\ Cardinality(A) + Answered(old[v]) <= old[v].sent
  BY DEF SentEnough
<1>5. Answered(old[v]) \in Nat /\ old[v].sent \in Nat
  BY <1>4, AnsweredType
<1> HIDE DEF A, B, C, m
<1>6. IsFiniteSet(A \cup B) /\ Cardinality(A \cup B) <= Cardinality(A) + Cardinality(B)
  <2>1. IsFiniteSet(A \cap B)
    BY <1>1, FS_Subset
  <2>2. Cardinality(A) \in Nat /\ Cardinality(B) \in Nat /\ Cardinality(A \cap B) \in Nat
    BY <1>1, <2>1, FS_CardinalityType
  <2>3. /\ IsFiniteSet(A \cup B)
        /\ Cardinality(A \cup B) = Cardinality(A) + Cardinality(B) - Cardinality(A \cap B)
    BY <1>1, FS_Union
  <2> QED
    BY <2>2, <2>3
<1>7. IsFiniteSet(C) /\ Cardinality(C) <= Cardinality(A \cup B)
  BY <1>2, <1>6, FS_Subset
<1>8. /\ Cardinality(A) \in Nat /\ Cardinality(B) \in Nat
      /\ Cardinality(C) \in Nat /\ Cardinality(A \cup B) \in Nat
  BY <1>1, <1>6, <1>7, FS_CardinalityType
<1>9. Cardinality(C) + Answered(new[v]) <= new[v].sent
  BY <1>1, <1>2, <1>3, <1>4, <1>5, <1>6, <1>7, <1>8
<1> QED
  BY <1>9 DEF C

(* The interface u sends one probe from each of the flows U, which are available. *)
LEMMA TokensUse ==
    ASSUME NEW old, NEW fly, NEW last, Tokens(old, fly, last),
           NEW u \in DOMAIN old, NEW U, IsFiniteSet(U),
           \A i \in U : Holds(old, u, i) /\ FlowOf(old[u], i).state = "AVAILABLE",
           NEW new, DOMAIN new = DOMAIN old, Keeps(new, old),
           \A i \in U : FlowOf(new[u], i).state # "AVAILABLE",
           \A v \in DOMAIN old :
               /\ Counters(new[v])
               /\ Answered(new[v]) = Answered(old[v])
               /\ new[v].sent = old[v].sent + (IF v = u THEN Cardinality(U) ELSE 0)
    PROVE  Tokens(new, fly \cup {NextProbe(FlowOf(old[u], i)) : i \in U}, last)
<1> DEFINE P == {NextProbe(FlowOf(old[u], i)) : i \in U}
           F(i) == FlowOf(old[u], i)
<1>1. IsFiniteSet(P) /\ Cardinality(P) <= Cardinality(U) /\ Cardinality(U) \in Nat
  <2> DEFINE f == [i \in U |-> NextProbe(FlowOf(old[u], i))]
  <2>1. DOMAIN f = U /\ P = {f[i] : i \in U}
    OBVIOUS
  <2> HIDE DEF f, P
  <2> QED
    BY <2>1, ImageFinite, FS_CardinalityType
<1>2. IsFiniteSet(fly \cup P) /\ IsFiniteSet(fly)
  BY <1>1, FS_Union DEF Tokens
<1>3. ASSUME NEW p \in P
      PROVE  \E i \in U : /\ p = NextProbe(F(i)) /\ p.ttl = F(i).ttl + 1 /\ p.flow_id = F(i).id
                          /\ Holds(old, u, i) /\ F(i).state = "AVAILABLE"
                          /\ F(i).ttl \in Int /\ F(i).id \in 1 .. last
  <2>1. PICK i \in U : p = NextProbe(F(i))
    OBVIOUS
  <2>2. p.ttl = F(i).ttl + 1 /\ p.flow_id = F(i).id
    BY <2>1 DEF NextProbe
  <2>3. Holds(old, u, i) /\ F(i).state = "AVAILABLE"
    OBVIOUS
  <2>4. F(i).ttl \in Int /\ F(i).id \in 1 .. last
    BY <2>3 DEF Tokens, FlowsKnown
  <2> HIDE DEF F
  <2> QED
    BY <2>1, <2>2, <2>3, <2>4
<1> HIDE DEF P
<1>4. ProbesDiffer(fly \cup P, last)
  <2> SUFFICES ASSUME NEW p \in fly \cup P
               PROVE  /\ p.ttl \in Int /\ p.flow_id \in 1 .. last
                      /\ \A q \in fly \cup P : q.flow_id = p.flow_id => q = p
    BY DEF ProbesDiffer
  <2>1. ASSUME NEW q \in fly, NEW r \in P
        PROVE  q.flow_id # r.flow_id
    <3>1. PICK i \in U : r.flow_id = F(i).id /\ Holds(old, u, i) /\ F(i).state = "AVAILABLE"
      BY <1>3
    <3> QED
      BY <3>1 DEF Tokens, ProbesAhead
  <2>2. ASSUME NEW q \in P, NEW r \in P, q.flow_id = r.flow_id
        PROVE  q = r
    <3>1. PICK i \in U : /\ q = NextProbe(F(i)) /\ q.flow_id = F(i).id
                         /\ Holds(old, u, i) /\ F(i).state = "AVAILABLE" /\ F(i).ttl \in Int
      BY <1>3
    <3>2. PICK j \in U : /\ r = NextProbe(F(j)) /\ r.flow_id = F(j).id
                         /\ Holds(old, u, j) /\ F(j).state = "AVAILABLE" /\ F(j).ttl \in Int
      BY <1>3
    <3>3. i # j => F(i).ttl < F(j).ttl /\ F(j).ttl < F(i).ttl
      BY <2>2, <3>1, <3>2 DEF Tokens, FlowsDiffer
    <3>4. i = j
      BY <3>1, <3>2, <3>3
    <3> QED
      BY <3>1, <3>2, <3>4
  <2>3. p \in P => p.ttl \in Int /\ p.flow_id \in 1 .. last
    BY <1>3
  <2>4. p \in fly => /\ p.ttl \in Int /\ p.flow_id \in 1 .. last
                     /\ \A q \in fly : q.flow_id = p.flow_id => q = p
    BY DEF Tokens, ProbesDiffer
  <2> QED
    BY <2>1, <2>2, <2>3, <2>4
<1>5. FlowsKnown(new, last)
  BY DEF Tokens, FlowsKnown, Keeps
<1>6. FlowsDiffer(new)
  BY DEF Tokens, FlowsDiffer, Keeps
<1>7. ProbesAhead(new, fly \cup P)
  <2> SUFFICES ASSUME NEW p \in fly \cup P, NEW v, NEW j, Holds(new, v, j),
                      FlowOf(new[v], j).id = p.flow_id
               PROVE  FlowOf(new[v], j).ttl < p.ttl /\ FlowOf(new[v], j).state # "AVAILABLE"
    BY DEF ProbesAhead
  <2>1. /\ Holds(old, v, j)
        /\ FlowOf(new[v], j).ttl = FlowOf(old[v], j).ttl
        /\ FlowOf(new[v], j).id = FlowOf(old[v], j).id
        /\ FlowOf(new[v], j).state = "AVAILABLE" => FlowOf(old[v], j).state = "AVAILABLE"
    BY DEF Keeps
  <2>2. CASE p \in fly
    BY <2>1, <2>2 DEF Tokens, ProbesAhead
  <2>3. CASE p \in P
    <3>1. PICK i \in U : /\ p.ttl = F(i).ttl + 1 /\ p.flow_id = F(i).id
                         /\ Holds(old, u, i) /\ F(i).state = "AVAILABLE" /\ F(i).ttl \in Int
      BY <1>3, <2>3
    <3>2. CASE v = u /\ j = i
      BY <2>1, <3>1, <3>2
    <3>3. CASE v # u \/ j # i
      <4>1. FlowOf(old[v], j).ttl < F(i).ttl
        BY <2>1, <3>1, <3>3 DEF Tokens, FlowsDiffer
      <4>2. FlowOf(old[v], j).state = "AVAILABLE" => F(i).ttl < FlowOf(old[v], j).ttl
        BY <2>1, <3>1, <3>3 DEF Tokens, FlowsDiffer
      <4>3. FlowOf(old[v], j).ttl \in Int
        BY <2>1 DEF Tokens, FlowsKnown
      <4> HIDE DEF F
      <4> QED
        BY <2>1, <3>1, <4>1, <4>2, <4>3
    <3> QED
      BY <3>2, <3>3
  <2> QED
    BY <2>2, <2>3
<1>8. ASSUME NEW v \in DOMAIN old
      PROVE  Owed(new, fly \cup P, v) \subseteq Owed(old, fly, v) \cup (IF v = u THEN P ELSE {})
  <2> SUFFICES ASSUME NEW p \in Owed(new, fly \cup P, v)
               PROVE  p \in Owed(old, fly, v) \/ (v = u /\ p \in P)
    OBVIOUS
  <2>1. PICK j : p \in fly \cup P /\ Holds(new, v, j) /\ SentFrom(p, FlowOf(new[v], j))
    BY DEF Owed
  <2>2. Holds(old, v, j) /\ SentFrom(p, FlowOf(old[v], j))
    BY <2>1 DEF Keeps, SentFrom
  <2>3. CASE p \in fly
    BY <2>2, <2>3 DEF Owed
  <2>4. CASE p \in P
    <3>1. PICK i \in U : /\ p.ttl = F(i).ttl + 1 /\ p.flow_id = F(i).id
                         /\ Holds(old, u, i) /\ F(i).ttl \in Int
      BY <1>3, <2>4
    <3>2. FlowOf(old[v], j).ttl \in Int
      BY <2>2 DEF Tokens, FlowsKnown
    <3>3. F(i).ttl = FlowOf(old[v], j).ttl /\ F(i).id = FlowOf(old[v], j).id
      BY <2>2, <3>1, <3>2 DEF SentFrom
    <3>4. v = u
      BY <2>2, <3>1, <3>3 DEF Tokens, FlowsDiffer
    <3> QED
      BY <2>4, <3>4
  <2> QED
    BY <2>1, <2>3, <2>4
<1>9. SentEnough(new, fly \cup P)
  BY <1>1, <1>2, <1>8, SentMoreEnough DEF Tokens
<1>10. Tokens(new, fly \cup P, last)
  BY <1>2, <1>4, <1>5, <1>6, <1>7, <1>9 DEF Tokens
<1> QED
  BY <1>10 DEF P

(* Probes of new flows, under test, are sent. *)
LEMMA TokensTest ==
    ASSUME NEW old, NEW fly, NEW last, Tokens(old, fly, last),
           NEW n \in Nat, NEW P, IsFiniteSet(P),
           \A p \in P : /\ p.ttl \in Int /\ p.flow_id \in last + 1 .. last + n
                        /\ \A q \in P : q.flow_id = p.flow_id => q = p,
           NEW new, DOMAIN new = DOMAIN old, Keeps(new, old),
           \A v \in DOMAIN old : Counters(new[v]) /\ Answered(new[v]) = Answered(old[v])
                                 /\ new[v].sent = old[v].sent
    PROVE  Tokens(new, fly \cup P, last + n)
<1>1. last \in Nat /\ last + n \in Nat /\ IsFiniteSet(fly) /\ IsFiniteSet(fly \cup P)
  <2>1. last \in Nat /\ IsFiniteSet(fly)
    BY DEF Tokens
  <2>2. IsFiniteSet(fly \cup P)
    BY <2>1, FS_Union
  <2> QED
    BY <2>1, <2>2
<1>2. /\ \A p \in fly : p.flow_id \in 1 .. last
      /\ \A v, i : Holds(old, v, i) => FlowOf(old[v], i).id \in 1 .. last
  BY DEF Tokens, ProbesDiffer, FlowsKnown
<1>3. \A p \in P : p.flow_id \notin 1 .. last
  BY <1>1
<1>4. ProbesDiffer(fly \cup P, last + n)
  <2> SUFFICES ASSUME NEW p \in fly \cup P
               PROVE  /\ p.ttl \in Int /\ p.flow_id \in 1 .. last + n
                      /\ \A q \in fly \cup P : q.flow_id = p.flow_id => q = p
    BY DEF ProbesDiffer
  <2>1. CASE p \in fly
    <3>1. /\ p.ttl \in Int /\ p.flow_id \in 1 .. last
          /\ \A q \in fly : q.flow_id = p.flow_id => q = p
      BY <2>1 DEF Tokens, ProbesDiffer
    <3> QED
      BY <1>1, <1>3, <3>1
  <2>2. CASE p \in P
    BY <1>1, <1>2, <1>3, <2>2
  <2> QED
    BY <2>1, <2>2
<1>5. FlowsKnown(new, last + n)
  <2>1. \A v, i : Holds(new, v, i) =>
          FlowOf(new[v], i).ttl \in Int /\ FlowOf(new[v], i).id \in 1 .. last
    BY DEF Tokens, FlowsKnown, Keeps
  <2>2. 1 .. last \subseteq 1 .. last + n
    BY <1>1
  <2> QED
    BY <2>1, <2>2 DEF FlowsKnown
<1>6. FlowsDiffer(new)
  BY DEF Tokens, FlowsDiffer, Keeps
<1>7. ProbesAhead(new, fly \cup P)
  BY <1>2, <1>3 DEF Tokens, ProbesAhead, Keeps
<1>8. ASSUME NEW v \in DOMAIN old
      PROVE  Owed(new, fly \cup P, v) \subseteq Owed(old, fly, v)
  <2> SUFFICES ASSUME NEW p \in Owed(new, fly \cup P, v)
               PROVE  p \in Owed(old, fly, v)
    OBVIOUS
  <2>1. PICK j : p \in fly \cup P /\ Holds(new, v, j) /\ SentFrom(p, FlowOf(new[v], j))
    BY DEF Owed
  <2>2. Holds(old, v, j) /\ SentFrom(p, FlowOf(old[v], j))
    BY <2>1 DEF Keeps, SentFrom
  <2>3. p \in fly
    BY <1>2, <1>3, <2>1, <2>2 DEF SentFrom
  <2> QED
    BY <2>2, <2>3 DEF Owed
<1>9. SentEnough(new, fly \cup P)
  <2> SUFFICES ASSUME NEW v \in DOMAIN old
               PROVE  Cardinality(Owed(new, fly \cup P, v)) + Answered(new[v]) <= new[v].sent
    BY DEF SentEnough
  <2> DEFINE A == Owed(old, fly, v)
             C == Owed(new, fly \cup P, v)
  <2>1. Cardinality(C) <= Cardinality(A) /\ Cardinality(C) \in Nat /\ Cardinality(A) \in Nat
    BY <1>1, <1>8, OwedFinite, FS_Subset
  <2>2. Counters(old[v]) /\ Cardinality(A) + Answered(old[v]) <= old[v].sent
    BY DEF Tokens, SentEnough
  <2>3. Answered(old[v]) \in Nat /\ old[v].sent \in Nat
    BY <2>2, AnsweredType
  <2> HIDE DEF A, C
  <2>4. Cardinality(C) + Answered(new[v]) <= new[v].sent
    BY <2>1, <2>2, <2>3
  <2> QED
    BY <2>4 DEF C
<1> QED
  BY <1>1, <1>4, <1>5, <1>6, <1>7, <1>9 DEF Tokens

(* The flows that new has and old had not are those that u makes. *)
Makes(new, old, u, n, ttl, last) ==
    \A v, i : Holds(new, v, i) =>
        \/ Holds(old, v, i) /\ FlowOf(new[v], i) = FlowOf(old[v], i)
        \/ /\ v = u
           /\ \E k \in 1 .. n : /\ i = Len(old[u].ttl_flows) + k
                                /\ FlowOf(new[v], i) = Flow(ttl, last + k, "UNAVAILABLE")

(* Only u has sent more, n probes, and no answer has come. *)
Sends(new, old, u, n) ==
    \A v \in DOMAIN old :
        /\ Counters(new[v])
        /\ Answered(new[v]) = Answered(old[v])
        /\ new[v].sent = old[v].sent + (IF v = u THEN n ELSE 0)

ProbesMade(ttl, last, n) == {[ttl |-> ttl + 1, flow_id |-> last + k] : k \in 1 .. n}

(* The interface u makes n flows and sends a probe from each. *)
LEMMA TokensMake ==
    ASSUME NEW old, NEW fly, NEW last, Tokens(old, fly, last),
           NEW u \in DOMAIN old, NEW n \in Nat, NEW ttl, n # 0 => ttl \in Int,
           NEW new, DOMAIN new = DOMAIN old,
           Makes(new, old, u, n, ttl, last),
           Sends(new, old, u, n)
    PROVE  Tokens(new, fly \cup ProbesMade(ttl, last, n), last + n)
<1> USE DEF Makes, Sends, ProbesMade
<1> DEFINE P == {[ttl |-> ttl + 1, flow_id |-> last + k] : k \in 1 .. n}
<1>1. IsFiniteSet(P) /\ Cardinality(P) <= n
  <2> DEFINE f == [k \in 1 .. n |-> [ttl |-> ttl + 1, flow_id |-> last + k]]
  <2>1. DOMAIN f = 1 .. n /\ P = {f[k] : k \in 1 .. n}
    OBVIOUS
  <2>2. IsFiniteSet(1 .. n) /\ Cardinality(1 .. n) = n
    BY FS_Interval
  <2> HIDE DEF f, P
  <2> QED
    BY <2>1, <2>2, ImageFinite
<1>2. last \in Nat /\ last + n \in Nat /\ IsFiniteSet(fly) /\ IsFiniteSet(fly \cup P)
  <2>1. last \in Nat /\ IsFiniteSet(fly)
    BY DEF Tokens
  <2> HIDE DEF P
  <2>2. IsFiniteSet(fly \cup P)
    BY <1>1, <2>1, FS_Union
  <2> QED
    BY <2>1, <2>2
<1>3. /\ \A p \in fly : p.flow_id \in 1 .. last
      /\ \A v, i : Holds(old, v, i) => FlowOf(old[v], i).id \in 1 .. last /\ FlowOf(old[v], i).ttl \in Int
  BY DEF Tokens, ProbesDiffer, FlowsKnown
<1>4. ASSUME NEW p \in P
      PROVE  /\ ttl \in Int /\ p.ttl = ttl + 1 /\ p.flow_id \in 1 .. last + n /\ p.flow_id \notin 1 .. last
             /\ p = [ttl |-> ttl + 1, flow_id |-> p.flow_id]
  BY <1>2
<1> HIDE DEF P
<1>5. ASSUME NEW v, NEW i, Holds(new, v, i), ~ Holds(old, v, i) \/ FlowOf(new[v], i) # FlowOf(old[v], i)
      PROVE  /\ v = u /\ ttl \in Int /\ FlowOf(new[v], i).ttl = ttl
             /\ FlowOf(new[v], i).id \in 1 .. last + n /\ FlowOf(new[v], i).id \notin 1 .. last
             /\ FlowOf(new[v], i).state # "AVAILABLE"
             /\ i = Len(old[u].ttl_flows) + (FlowOf(new[v], i).id - last)
  <2>1. PICK k \in 1 .. n : /\ v = u /\ i = Len(old[u].ttl_flows) + k
                            /\ FlowOf(new[v], i) = Flow(ttl, last + k, "UNAVAILABLE")
    BY <1>5
  <2>2. /\ FlowOf(new[v], i).ttl = ttl /\ FlowOf(new[v], i).id = last + k
        /\ FlowOf(new[v], i).state = "UNAVAILABLE"
    BY <2>1 DEF Flow
  <2>3. last + k \in 1 .. last + n /\ last + k \notin 1 .. last /\ n # 0 /\ (last + k) - last = k
    BY <1>2
  <2> QED
    BY <2>1, <2>2, <2>3
<1>6. ASSUME NEW v, NEW i, Holds(new, v, i)
      PROVE  FlowOf(new[v], i).ttl \in Int /\ FlowOf(new[v], i).id \in 1 .. last + n
  <2>1. CASE Holds(old, v, i) /\ FlowOf(new[v], i) = FlowOf(old[v], i)
    BY <1>2, <1>3, <2>1
  <2>2. CASE ~ Holds(old, v, i) \/ FlowOf(new[v], i) # FlowOf(old[v], i)
    BY <1>5, <1>6, <2>2
  <2> QED
    BY <2>1, <2>2
<1>7. ProbesDiffer(fly \cup P, last + n)
  <2> SUFFICES ASSUME NEW p \in fly \cup P
               PROVE  /\ p.ttl \in Int /\ p.flow_id \in 1 .. last + n
                      /\ \A q \in fly \cup P : q.flow_id = p.flow_id => q = p
    BY DEF ProbesDiffer
  <2>1. CASE p \in fly
    <3>1. /\ p.ttl \in Int /\ p.flow_id \in 1 .. last
          /\ \A q \in fly : q.flow_id = p.flow_id => q = p
      BY <2>1 DEF Tokens, ProbesDiffer
    <3> QED
      BY <1>2, <1>4, <3>1
  <2>2. CASE p \in P
    BY <1>3, <1>4, <2>2
  <2> QED
    BY <2>1, <2>2
<1>8. FlowsKnown(new, last + n)
  BY <1>6 DEF FlowsKnown
<1>9. FlowsDiffer(new)
  <2> SUFFICES ASSUME NEW v, NEW i, NEW w, NEW j,
                      Holds(new, v, i), Holds(new, w, j),
                      FlowOf(new[v], i).id = FlowOf(new[w], j).id,
                      v # w \/ i # j
               PROVE  /\ FlowOf(new[w], j).ttl # FlowOf(new[v], i).ttl
                      /\ FlowOf(new[v], i).state = "AVAILABLE" =>
                           FlowOf(new[w], j).ttl < FlowOf(new[v], i).ttl
    BY DEF FlowsDiffer
  <2> DEFINE Was(x, k) == Holds(old, x, k) /\ FlowOf(new[x], k) = FlowOf(old[x], k)
  <2>1. CASE Was(v, i) /\ Was(w, j)
    BY <2>1 DEF Tokens, FlowsDiffer
  <2>2. CASE ~ Was(v, i) /\ ~ Was(w, j)
    BY <1>5, <2>2
  <2>3. CASE Was(v, i) /\ ~ Was(w, j)
    <3>1. FlowOf(new[v], i).id \in 1 .. last
      BY <1>3, <2>3
    <3>2. FlowOf(new[w], j).id \notin 1 .. last
      BY <1>5, <2>3
    <3> QED
      BY <3>1, <3>2
  <2>4. CASE ~ Was(v, i) /\ Was(w, j)
    <3>1. FlowOf(new[w], j).id \in 1 .. last
      BY <1>3, <2>4
    <3>2. FlowOf(new[v], i).id \notin 1 .. last
      BY <1>5, <2>4
    <3> QED
      BY <3>1, <3>2
  <2> QED
    BY <2>1, <2>2, <2>3, <2>4
<1>10. ProbesAhead(new, fly \cup P)
  <2> SUFFICES ASSUME NEW p \in fly \cup P, NEW v, NEW i, Holds(new, v, i),
                      FlowOf(new[v], i).id = p.flow_id
               PROVE  FlowOf(new[v], i).ttl < p.ttl /\ FlowOf(new[v], i).state # "AVAILABLE"
    BY DEF ProbesAhead
  <2>1. CASE Holds(old, v, i) /\ FlowOf(new[v], i) = FlowOf(old[v], i)
    <3>1. p \in fly
      BY <1>3, <1>4, <2>1
    <3> QED
      BY <2>1, <3>1 DEF Tokens, ProbesAhead
  <2>2. CASE ~ Holds(old, v, i) \/ FlowOf(new[v], i) # FlowOf(old[v], i)
    <3>1. p \in P
      BY <1>3, <1>5, <2>2
    <3> QED
      BY <1>4, <1>5, <2>2, <3>1
  <2> QED
    BY <2>1, <2>2
<1>11. ASSUME NEW v \in DOMAIN old
       PROVE  Owed(new, fly \cup P, v) \subseteq Owed(old, fly, v) \cup (IF v = u THEN P ELSE {})
  <2> SUFFICES ASSUME NEW p \in Owed(new, fly \cup P, v)
               PROVE  p \in Owed(old, fly, v) \/ (v = u /\ p \in P)
    OBVIOUS
  <2>1. PICK j : p \in fly \cup P /\ Holds(new, v, j) /\ SentFrom(p, FlowOf(new[v], j))
    BY DEF Owed
  <2>2. CASE Holds(old, v, j) /\ FlowOf(new[v], j) = FlowOf(old[v], j)
    <3>1. p \in fly
      BY <1>3, <1>4, <2>1, <2>2 DEF SentFrom
    <3> QED
      BY <2>1, <2>2, <3>1 DEF Owed
  <2>3. CASE ~ Holds(old, v, j) \/ FlowOf(new[v], j) # FlowOf(old[v], j)
    BY <1>3, <1>5, <2>1, <2>3 DEF SentFrom
  <2> QED
    BY <2>2, <2>3
<1>12. SentEnough(new, fly \cup P)
  BY <1>1, <1>2, <1>11, SentMoreEnough DEF Tokens
<1>13. Tokens(new, fly \cup P, last + n)
  BY <1>2, <1>7, <1>8, <1>9, <1>10, <1>12 DEF Tokens
<1> QED
  BY <1>13 DEF P

(* No probe of this flow is on its way, and it has been sent from lower ttls only. *)
Behind(itf, fly, ttl, id) ==
    /\ \A p \in fly : p.flow_id # id
    /\ \A v, i : Holds(itf, v, i) /\ FlowOf(itf[v], i).id = id =>
         FlowOf(itf[v], i).ttl < ttl /\ FlowOf(itf[v], i).state # "AVAILABLE"

(* The flow that new has and old had not is f, at the place k of u. *)
Learns(new, old, u, k, f) ==
    \A v, i : Holds(new, v, i) =>
        \/ Holds(old, v, i) /\ FlowOf(new[v], i) = FlowOf(old[v], i)
        \/ v = u /\ i = k /\ FlowOf(new[v], i) = f

(* Nothing is sent, and no answer is counted. *)
Idle(new, old) ==
    \A v \in DOMAIN old : Counters(new[v]) /\ Answered(new[v]) = Answered(old[v])
                          /\ new[v].sent = old[v].sent

(* An answer gives the flow to the interface u. *)
LEMMA TokensLearn ==
    ASSUME NEW old, NEW fly, NEW last, Tokens(old, fly, last),
           NEW u, NEW k, NEW ttl \in Int, NEW id \in 1 .. last, Behind(old, fly, ttl, id),
           NEW new, DOMAIN new = DOMAIN old,
           Learns(new, old, u, k, Flow(ttl, id, "AVAILABLE")), Idle(new, old)
    PROVE  Tokens(new, fly, last)
<1> USE DEF Learns, Idle
<1> DEFINE Was(v, i) == Holds(old, v, i) /\ FlowOf(new[v], i) = FlowOf(old[v], i)
<1>1. IsFiniteSet(fly) /\ last \in Nat
  BY DEF Tokens
<1>2. ASSUME NEW v, NEW i, Holds(new, v, i), ~ Was(v, i)
      PROVE  /\ v = u /\ i = k /\ FlowOf(new[v], i).ttl = ttl /\ FlowOf(new[v], i).id = id
  BY <1>2 DEF Flow
<1>3. FlowsKnown(new, last)
  BY <1>2 DEF Tokens, FlowsKnown
<1>4. FlowsDiffer(new)
  <2> SUFFICES ASSUME NEW v, NEW i, NEW w, NEW j,
                      Holds(new, v, i), Holds(new, w, j),
                      FlowOf(new[v], i).id = FlowOf(new[w], j).id,
                      v # w \/ i # j
               PROVE  /\ FlowOf(new[w], j).ttl # FlowOf(new[v], i).ttl
                      /\ FlowOf(new[v], i).state = "AVAILABLE" =>
                           FlowOf(new[w], j).ttl < FlowOf(new[v], i).ttl
    BY DEF FlowsDiffer
  <2>1. CASE Was(v, i) /\ Was(w, j)
    BY <2>1 DEF Tokens, FlowsDiffer
  <2>2. CASE ~ Was(v, i) /\ ~ Was(w, j)
    BY <1>2, <2>2
  <2>3. CASE Was(v, i) /\ ~ Was(w, j)
    <3>1. FlowOf(new[w], j).ttl = ttl /\ FlowOf(new[w], j).id = id
      BY <1>2, <2>3
    <3>2. /\ FlowOf(new[v], i).ttl < ttl /\ FlowOf(new[v], i).state # "AVAILABLE"
          /\ FlowOf(new[v], i).ttl \in Int
      BY <2>3, <3>1 DEF Behind, Tokens, FlowsKnown
    <3> QED
      BY <3>1, <3>2
  <2>4. CASE ~ Was(v, i) /\ Was(w, j)
    <3>1. FlowOf(new[v], i).ttl = ttl /\ FlowOf(new[v], i).id = id
      BY <1>2, <2>4
    <3>2. FlowOf(new[w], j).ttl < ttl /\ FlowOf(new[w], j).ttl \in Int
      BY <2>4, <3>1 DEF Behind, Tokens, FlowsKnown
    <3> QED
      BY <3>1, <3>2
  <2> QED
    BY <2>1, <2>2, <2>3, <2>4
<1>5. ProbesAhead(new, fly)
  <2> SUFFICES ASSUME NEW p \in fly, NEW v, NEW i, Holds(new, v, i),
                      FlowOf(new[v], i).id = p.flow_id
               PROVE  FlowOf(new[v], i).ttl < p.ttl /\ FlowOf(new[v], i).state # "AVAILABLE"
    BY DEF ProbesAhead
  <2>1. Was(v, i)
    BY <1>2 DEF Behind
  <2> QED
    BY <2>1 DEF Tokens, ProbesAhead
<1>6. SentEnough(new, fly)
  <2> SUFFICES ASSUME NEW v \in DOMAIN old
               PROVE  Cardinality(Owed(new, fly, v)) + Answered(new[v]) <= new[v].sent
    BY DEF SentEnough
  <2> DEFINE A == Owed(old, fly, v)
             C == Owed(new, fly, v)
  <2>1. C \subseteq A
    <3> SUFFICES ASSUME NEW p \in C PROVE p \in A
      OBVIOUS
    <3>1. PICK j : p \in fly /\ Holds(new, v, j) /\ SentFrom(p, FlowOf(new[v], j))
      BY DEF Owed
    <3>2. Was(v, j)
      BY <1>2, <3>1 DEF Behind, SentFrom
    <3> QED
      BY <3>1, <3>2 DEF Owed
  <2>2. Cardinality(C) <= Cardinality(A) /\ Cardinality(C) \in Nat /\ Cardinality(A) \in Nat
    <3>1. IsFiniteSet(A) /\ Cardinality(A) \in Nat /\ Cardinality(C) \in Nat
      BY <1>1, OwedFinite
    <3> HIDE DEF A, C
    <3> QED
      BY <2>1, <3>1, FS_Subset
  <2>3. Counters(old[v]) /\ Cardinality(A) + Answered(old[v]) <= old[v].sent
    BY DEF Tokens, SentEnough
  <2>4. Answered(old[v]) \in Nat /\ old[v].sent \in Nat
    BY <2>3, AnsweredType
  <2> HIDE DEF A, C
  <2>5. Cardinality(C) + Answered(new[v]) <= new[v].sent
    BY <2>2, <2>3, <2>4
  <2> QED
    BY <2>5 DEF C
<1> QED
  BY <1>1, <1>3, <1>4, <1>5, <1>6 DEF Tokens

-----------------------------------------------------------------------------
(* Interfaces that change one at a time *)

(* The flow ids are still those that the probes carry. *)
NoWrap(last) == \A id \in 1 .. last : id % 2^FlowIdWidth = id

Formed(x) ==
    /\ IsList(x.ttl_set)
    /\ Len(x.ttl_set) # 0
    /\ \A i \in 1 .. Len(x.ttl_set) : x.ttl_set[i] \in Int
    /\ \A i \in DOMAIN x.ttl_flows : {"ttl", "id", "state"} \subseteq DOMAIN x.ttl_flows[i]

(* The tokens, until the flow ids wrap. *)
Ordered(itf, fly, last) ==
    /\ last \in Nat
    /\ NoWrap(last) => Tokens(itf, fly, last) /\ \A u \in DOMAIN itf : Formed(itf[u])

Put(itf, u, y) == [itf EXCEPT ![u] = y]

(* Only the interface u has changed: it is y. *)
IsPut(new, itf, u, y) ==
    /\ DOMAIN new = DOMAIN itf
    /\ new[u] = y
    /\ \A v \in DOMAIN itf : v # u => new[v] = itf[v]
    /\ \A i : Holds(new, u, i) => i \in DOMAIN y.ttl_flows /\ FlowOf(y, i).state # "TESTING"
    /\ \A v, i : Holds(new, v, i) /\ v # u => Holds(itf, v, i) /\ FlowOf(new[v], i) = FlowOf(itf[v], i)

(* What is held when one interface changes. *)
LEMMA HoldsPut ==
    ASSUME NEW itf, NEW u \in DOMAIN itf, NEW y
    PROVE  IsPut(Put(itf, u, y), itf, u, y)
<1> DEFINE new == Put(itf, u, y)
<1>1. /\ DOMAIN new = DOMAIN itf
      /\ new[u] = y
      /\ \A v \in DOMAIN itf : v # u => new[v] = itf[v]
  BY DEF Put
<1> HIDE DEF new
<1>2. ASSUME NEW i, Holds(new, u, i)
      PROVE  i \in DOMAIN y.ttl_flows /\ FlowOf(y, i).state # "TESTING"
  BY <1>1, <1>2 DEF Holds
<1>3. ASSUME NEW v, NEW i, Holds(new, v, i), v # u
      PROVE  Holds(itf, v, i) /\ FlowOf(new[v], i) = FlowOf(itf[v], i)
  <2>1. v \in DOMAIN itf /\ new[v] = itf[v]
    BY <1>1, <1>3 DEF Holds
  <2> QED
    BY <1>3, <2>1 DEF Holds
<1> QED
  BY <1>1, <1>2, <1>3 DEF new, IsPut

(* Interfaces that keep their flows keep the tokens, with fewer probes in flight. *)
LEMMA TokensKeep ==
    ASSUME NEW old, NEW fly, NEW last, Tokens(old, fly, last),
           NEW new, 0 \notin DOMAIN new, Keeps(new, old), NEW left \in SUBSET fly,
           \A u \in DOMAIN new :
               /\ Counters(new[u])
               /\ \/ /\ u \in DOMAIN old
                     /\ new[u].sent = old[u].sent
                     /\ Answered(new[u]) <= Answered(old[u]) + Cardinality(Owed(old, fly \ left, u))
                  \/ Owed(new, left, u) = {} /\ Answered(new[u]) = 0
    PROVE  Tokens(new, left, last)
<1>1. ASSUME NEW u, NEW i, Holds(new, u, i)
      PROVE  Moved(0, 0, u, i) = i
  BY <1>1 DEF Moved, Holds
<1>2. Embeds(new, old, 0, 0)
  BY <1>1 DEF Embeds, Keeps
<1> QED
  BY <1>2, TokensShrink

(* The flows that a visit uses were available. *)
LEMMA UsedFlowsAvailable ==
    ASSUME NEW x, IsList(x.ttl_flows), NEW n
    PROVE  /\ IsFiniteSet(UsedFlows(x, n))
           /\ \A i \in UsedFlows(x, n) : i \in DOMAIN x.ttl_flows /\ FlowOf(x, i).state = "AVAILABLE"
<1>1. \A i \in UsedFlows(x, n) : i \in DOMAIN x.ttl_flows /\ x.ttl_flows[i].state = "AVAILABLE"
  BY DEF UsedFlows
<1>2. IsFiniteSet(DOMAIN x.ttl_flows)
  <2>1. PICK k \in Nat : DOMAIN x.ttl_flows = 1 .. k
    BY ListDomain
  <2> QED
    BY <2>1, FS_Interval
<1>3. IsFiniteSet(UsedFlows(x, n))
  BY <1>1, <1>2, FS_Subset
<1> QED
  BY <1>1, <1>3 DEF FlowOf

(* Flow ids that have not wrapped had not before. *)
LEMMA NoWrapBefore ==
    ASSUME NEW last \in Nat, NEW n \in Nat, NoWrap(last + n)
    PROVE  NoWrap(last)
<1>1. \A id \in 1 .. last : id \in 1 .. last + n
  OBVIOUS
<1> QED
  BY <1>1 DEF NoWrap

UsedUp(x, used) ==
    [i \in DOMAIN x.ttl_flows |->
        [x.ttl_flows[i] EXCEPT !.state = IF i \in used THEN "UNAVAILABLE" ELSE @]]

FlowsMade(ttl, last, n) == [i \in 1 .. n |-> Flow(ttl, last + i, "UNAVAILABLE")]

(* The flows of an interface after it has used some, and made some. *)
AreSent(x, used, n, ttl, last, known, made, all) ==
    /\ IsList(known) /\ DOMAIN known = DOMAIN x.ttl_flows
    /\ \A i \in DOMAIN x.ttl_flows :
         /\ {"ttl", "id", "state"} \subseteq DOMAIN known[i]
         /\ known[i].ttl = FlowOf(x, i).ttl
         /\ known[i].id = FlowOf(x, i).id
         /\ known[i].state = IF i \in used THEN "UNAVAILABLE" ELSE FlowOf(x, i).state
    /\ IsList(all) /\ DOMAIN all = 1 .. Len(x.ttl_flows) + n
    /\ \A i \in DOMAIN x.ttl_flows : all[i] = known[i]
    /\ \A k \in 1 .. n : all[Len(x.ttl_flows) + k] = Flow(ttl, last + k, "UNAVAILABLE")
    /\ Range(made) = {Flow(ttl, last + k, "UNAVAILABLE") : k \in 1 .. n}

(* What a visit makes of the flows of an interface (mda_send_next). *)
LEMMA FlowsSent ==
    ASSUME NEW x, IsList(x.ttl_flows), Formed(x), NEW used, NEW fresh \in Nat, NEW ttl, NEW last
    PROVE  AreSent(x, used, fresh, ttl, last, UsedUp(x, used), FlowsMade(ttl, last, fresh),
                   UsedUp(x, used) \o FlowsMade(ttl, last, fresh))
<1> USE DEF UsedUp, FlowsMade
<1> DEFINE L == Len(x.ttl_flows)
           s == x.ttl_flows
           known == UsedUp(x, used)
           made == FlowsMade(ttl, last, fresh)
           all == known \o made
<1>1. L \in Nat /\ DOMAIN s = 1 .. L
  BY ListDomain
<1>2. IsList(known) /\ DOMAIN known = 1 .. L
  <2>1. known = [i \in 1 .. L |-> known[i]] /\ DOMAIN known = 1 .. L
    BY <1>1
  <2> HIDE DEF L, s
  <2> QED
    BY <1>1, <2>1, ListOfFunction
<1>3. IsList(made) /\ DOMAIN made = 1 .. fresh
  <2>1. made = [i \in 1 .. fresh |-> made[i]] /\ DOMAIN made = 1 .. fresh
    OBVIOUS
  <2> QED
    BY <2>1, ListOfFunction
<1>4. Len(known) = L /\ Len(made) = fresh
  <2>1. Len(known) \in Nat /\ 1 .. Len(known) = 1 .. L
    BY <1>2, ListDomain
  <2>2. Len(made) \in Nat /\ 1 .. Len(made) = 1 .. fresh
    BY <1>3, ListDomain
  <2> HIDE DEF L
  <2> QED
    BY <1>1, <2>1, <2>2
<1>5. /\ IsList(all)
      /\ Len(all) = L + fresh
      /\ \A i \in 1 .. L : all[i] = known[i]
      /\ \A k \in 1 .. fresh : all[L + k] = made[k]
  <2> HIDE DEF L
  <2> QED
    BY <1>2, <1>3, <1>4, ListJoin
<1>6. DOMAIN all = 1 .. L + fresh
  BY <1>5, ListDomain
<1>7. ASSUME NEW i \in DOMAIN s
      PROVE  /\ {"ttl", "id", "state"} \subseteq DOMAIN known[i]
             /\ known[i].ttl = FlowOf(x, i).ttl
             /\ known[i].id = FlowOf(x, i).id
             /\ known[i].state = IF i \in used THEN "UNAVAILABLE" ELSE FlowOf(x, i).state
  <2> DEFINE e == s[i]
             state == IF i \in used THEN "UNAVAILABLE" ELSE e.state
  <2>1. {"ttl", "id", "state"} \subseteq DOMAIN e
    BY DEF Formed
  <2>2. known[i] = [e EXCEPT !.state = state]
    OBVIOUS
  <2>3. FlowOf(x, i) = e
    BY DEF FlowOf
  <2> HIDE DEF e
  <2> QED
    BY <2>1, <2>2, <2>3
<1>8. Range(made) = {Flow(ttl, last + k, "UNAVAILABLE") : k \in 1 .. fresh}
  BY <1>3 DEF Range
<1> QED
  BY <1>1, <1>2, <1>5, <1>6, <1>7, <1>8 DEF AreSent

-----------------------------------------------------------------------------
(* What the walk that ends mda_handler sends *)

WorkOrdered(w, fly) ==
    /\ {"interfaces", "last", "probes"} \subseteq DOMAIN w
    /\ Ordered(w.interfaces, fly \cup w.probes, w.last)

(* The visit of an interface keeps the tokens (mda_send_next). *)
LEMMA SendNextOrdered ==
    ASSUME NEW l, NEW w, WorkSound(l, w), NEW fly, WorkOrdered(w, fly),
           NEW u \in Elements(l), NEW n \in Int, w.interfaces[u].address # Dst
    PROVE  WorkOrdered(SendNext(w, l, u, n), fly) /\ w.last <= SendNext(w, l, u, n).last
<1> DEFINE itf   == w.interfaces
           x     == itf[u]
           L     == Len(x.ttl_flows)
           used  == UsedFlows(x, n)
           c     == Cardinality(used)
           fresh == IF ~ Many(l, u) /\ Len(x.ttl_set) = 1 THEN Max({0, n - c}) ELSE 0
           ttl   == x.ttl_set[1]
           made  == FlowsMade(ttl, w.last, fresh)
           known == UsedUp(x, used)
           all   == known \o made
           z     == [x EXCEPT !.ttl_flows = known, !.sent = @ + c]
           y     == [x EXCEPT !.ttl_flows = all, !.sent = @ + c + fresh]
           mid   == Put(itf, u, z)
           new   == Put(itf, u, y)
           sent  == {known[i] : i \in used} \cup Range(made)
           more  == {Probe(f.ttl + 1, f.id) : f \in sent}
           result == SendNext(w, l, u, n)
<1>1. /\ result.interfaces = [itf EXCEPT ![u].ttl_flows = all, ![u].sent = @ + c + fresh]
      /\ result.last = w.last + fresh
      /\ result.probes = w.probes \cup more
      /\ DOMAIN result = {"interfaces", "last", "probes"}
  BY DEF SendNext, Work, FlowsMade, UsedUp
<1>2. /\ Fields \subseteq DOMAIN x /\ IsList(x.ttl_flows) /\ x.sent \in Nat
      /\ u \in DOMAIN itf /\ 0 \notin DOMAIN itf
  BY SoundDomain DEF WorkSound, Sound, Within
<1>3. w.last \in Nat
  BY <1>2 DEF WorkOrdered, Ordered
<1>4. IsFiniteSet(used) /\ \A i \in used : i \in DOMAIN x.ttl_flows /\ FlowOf(x, i).state = "AVAILABLE"
  BY <1>2, UsedFlowsAvailable
<1>5. c \in Nat
  BY <1>4, FS_CardinalityType
<1>6. fresh \in Nat
  <2> HIDE DEF c
  <2>1. Max({0, n - c}) = IF 0 >= n - c THEN 0 ELSE n - c
    BY <1>5, MaxOfTwo
  <2> QED
    BY <1>5, <2>1
<1>7. CASE ~ NoWrap(w.last + fresh)
  <2>1. w.last + fresh \in Nat /\ w.last <= w.last + fresh
    BY <1>3, <1>6
  <2> HIDE DEF fresh, result
  <2> QED
    BY <1>1, <1>7, <2>1 DEF WorkOrdered, Ordered, result
<1>8. SUFFICES ASSUME NoWrap(w.last + fresh)
               PROVE  WorkOrdered(result, fly) /\ w.last <= result.last
  <2> HIDE DEF fresh
  <2> QED
    BY <1>7
<1>9. Formed(x) /\ \A v \in DOMAIN itf : Formed(itf[v])
  <2>1. NoWrap(w.last)
    <3> HIDE DEF fresh
    <3> QED
      BY <1>3, <1>6, <1>8, NoWrapBefore
  <2> QED
    BY <1>2, <2>1 DEF WorkOrdered, Ordered
<1>10. ttl \in Int
  <2>1. Len(x.ttl_set) \in Nat /\ Len(x.ttl_set) # 0
    BY <1>3, <1>9, ListDomain DEF Formed
  <2>2. 1 \in 1 .. Len(x.ttl_set)
    BY <2>1
  <2> QED
    BY <1>3, <1>9, <2>2 DEF Formed
<1>11. result.interfaces = new
  <2> HIDE DEF all, fresh, c
  <2> QED
    BY <1>1 DEF Put
<1>12. /\ IsList(known) /\ DOMAIN known = DOMAIN x.ttl_flows
       /\ \A i \in DOMAIN x.ttl_flows :
            /\ {"ttl", "id", "state"} \subseteq DOMAIN known[i]
            /\ known[i].ttl = FlowOf(x, i).ttl
            /\ known[i].id = FlowOf(x, i).id
            /\ known[i].state = IF i \in used THEN "UNAVAILABLE" ELSE FlowOf(x, i).state
       /\ IsList(all) /\ DOMAIN all = 1 .. L + fresh
       /\ \A i \in DOMAIN x.ttl_flows : all[i] = known[i]
       /\ \A k \in 1 .. fresh : all[L + k] = Flow(ttl, w.last + k, "UNAVAILABLE")
       /\ Range(made) = {Flow(ttl, w.last + k, "UNAVAILABLE") : k \in 1 .. fresh}
  <2>1. AreSent(x, used, fresh, ttl, w.last, known, made, all)
    <3> HIDE DEF fresh, used, ttl, x
    <3> QED
      BY <1>2, <1>3, <1>9, <1>6, FlowsSent
  <2> HIDE DEF fresh, used, ttl, x, known, made, all
  <2> QED
    BY <2>1 DEF AreSent
<1>13. L \in Nat /\ DOMAIN x.ttl_flows = 1 .. L
  BY <1>2, ListDomain
<1> HIDE DEF made, fresh, c, used, ttl
<1>14. /\ z.ttl_flows = known /\ z.sent = x.sent + c /\ y.ttl_flows = all /\ y.sent = x.sent + c + fresh
       /\ \A r \in {y, z} : /\ r.received = x.received /\ r.timeout = x.timeout
                            /\ r.address = x.address /\ r.ttl_set = x.ttl_set
  <2> HIDE DEF known, all, x
  <2>1. Fields \subseteq DOMAIN x
    BY <1>2
  <2> QED
    BY <2>1 DEF Fields
<1> HIDE DEF known, all, y, z, x
<1>15. Formed(y)
  <2>1. ASSUME NEW i \in DOMAIN y.ttl_flows
        PROVE  {"ttl", "id", "state"} \subseteq DOMAIN y.ttl_flows[i]
    <3>1. CASE i \in DOMAIN x.ttl_flows
      BY <1>12, <1>14, <3>1
    <3>2. CASE i \notin DOMAIN x.ttl_flows
      <4>1. i \in 1 .. L + fresh /\ i \notin 1 .. L
        BY <1>12, <1>13, <1>14, <3>2
      <4>2. i - L \in 1 .. fresh /\ i = L + (i - L)
        BY <1>6, <1>13, <4>1
      <4>3. all[i] = Flow(ttl, w.last + (i - L), "UNAVAILABLE")
        BY <1>12, <4>2
      <4> QED
        BY <1>14, <4>3 DEF Flow
    <3> QED
      BY <3>1, <3>2
  <2> QED
    BY <1>3, <1>9, <1>14, <2>1 DEF Formed
<1>16. Counters(x) => /\ Counters(y) /\ Counters(z) /\ Answered(y) = Answered(x) /\ Answered(z) = Answered(x)
  BY <1>5, <1>6, <1>14 DEF Counters, Answered, x
<1>17. w.last + fresh \in Nat
  BY <1>3, <1>9, <1>6
<1>18. ASSUME NEW v \in DOMAIN new PROVE Formed(new[v])
  BY <1>2, <1>3, <1>9, <1>15, <1>18 DEF Put
<1>19. Tokens(new, fly \cup (w.probes \cup more), w.last + fresh)
  <2> DEFINE F == fly \cup w.probes
             P == {NextProbe(FlowOf(itf[u], i)) : i \in used}
             Q == ProbesMade(ttl, w.last, fresh)
  <2>1. Tokens(itf, F, w.last)
    BY <1>3, <1>9, <1>6, <1>8, NoWrapBefore DEF WorkOrdered, Ordered
  <2>2. \A v \in DOMAIN itf : Counters(itf[v])
    BY <2>1 DEF Tokens, SentEnough
  <2>3. /\ Counters(x) /\ Counters(y) /\ Counters(z) /\ Answered(y) = Answered(x) /\ Answered(z) = Answered(x)
    BY <1>2, <1>16, <2>2 DEF x
  <2>4. \A i \in used : Holds(itf, u, i) /\ FlowOf(itf[u], i).state = "AVAILABLE"
    BY <1>2, <1>4 DEF Holds, x
  <2>5. PICK m : m = mid
    OBVIOUS
  <2>6. /\ DOMAIN m = DOMAIN itf /\ m[u] = z
        /\ \A v \in DOMAIN itf : v # u => m[v] = itf[v]
        /\ \A i : Holds(m, u, i) => i \in DOMAIN z.ttl_flows /\ FlowOf(z, i).state # "TESTING"
        /\ \A v, i : Holds(m, v, i) /\ v # u => Holds(itf, v, i) /\ FlowOf(m[v], i) = FlowOf(itf[v], i)
    <3> HIDE DEF itf
    <3>1. IsPut(m, itf, u, z)
      BY <1>2, <2>5, HoldsPut
    <3> QED
      BY <3>1 DEF IsPut
  <2>7. ASSUME NEW i \in DOMAIN x.ttl_flows
        PROVE  /\ FlowOf(z, i).ttl = FlowOf(x, i).ttl /\ FlowOf(z, i).id = FlowOf(x, i).id
               /\ FlowOf(z, i).state = IF i \in used THEN "UNAVAILABLE" ELSE FlowOf(x, i).state
               /\ FlowOf(y, i) = FlowOf(z, i)
    BY <1>12, <1>14 DEF FlowOf
  <2>8. Keeps(m, itf)
    <3> SUFFICES ASSUME NEW v, NEW i, Holds(m, v, i)
                 PROVE  /\ Holds(itf, v, i)
                        /\ FlowOf(m[v], i).ttl = FlowOf(itf[v], i).ttl
                        /\ FlowOf(m[v], i).id = FlowOf(itf[v], i).id
                        /\ FlowOf(m[v], i).state = "AVAILABLE" => FlowOf(itf[v], i).state = "AVAILABLE"
      BY DEF Keeps
    <3>1. CASE v # u
      BY <2>6, <3>1
    <3>2. CASE v = u
      <4>1. i \in DOMAIN x.ttl_flows /\ FlowOf(z, i).state # "TESTING"
        BY <1>12, <1>14, <2>6, <3>2
      <4>2. FlowOf(x, i).state # "TESTING"
        BY <1>4, <2>7, <4>1
      <4>3. itf[u] = x /\ m[u] = z
        BY <2>6 DEF x
      <4> QED
        BY <1>2, <2>7, <3>2, <4>1, <4>2, <4>3 DEF Holds
    <3> QED
      BY <3>1, <3>2
  <2>9. \A i \in used : FlowOf(m[u], i).state # "AVAILABLE"
    BY <1>4, <2>6, <2>7
  <2>10. ASSUME NEW v \in DOMAIN itf
         PROVE  /\ Counters(m[v]) /\ Answered(m[v]) = Answered(itf[v])
                /\ m[v].sent = itf[v].sent + (IF v = u THEN Cardinality(used) ELSE 0)
    <3>1. CASE v = u
      BY <1>14, <2>3, <2>6, <3>1 DEF x, c
    <3>2. CASE v # u
      <4>1. m[v] = itf[v] /\ itf[v].sent \in Nat
        BY <2>2, <2>6, <3>2 DEF Counters
      <4> QED
        BY <2>2, <3>2, <4>1
    <3> QED
      BY <3>1, <3>2
  <2>11. Tokens(m, F \cup P, w.last)
    <3> HIDE DEF itf, F
    <3> QED
      BY <1>2, <1>4, <2>1, <2>4, <2>6, <2>8, <2>9, <2>10, TokensUse
  <2>12. PICK r : r = new
    OBVIOUS
  <2>13. /\ DOMAIN r = DOMAIN itf /\ r[u] = y
         /\ \A v \in DOMAIN itf : v # u => r[v] = itf[v]
         /\ \A i : Holds(r, u, i) => i \in DOMAIN y.ttl_flows /\ FlowOf(y, i).state # "TESTING"
         /\ \A v, i : Holds(r, v, i) /\ v # u => Holds(itf, v, i) /\ FlowOf(r[v], i) = FlowOf(itf[v], i)
    <3> HIDE DEF itf
    <3>1. IsPut(r, itf, u, y)
      BY <1>2, <2>12, HoldsPut
    <3> QED
      BY <3>1 DEF IsPut
  <2>14. Len(m[u].ttl_flows) = L
    <3>1. IsList(known) /\ DOMAIN known = 1 .. L
      BY <1>12, <1>13
    <3>2. Len(known) \in Nat /\ DOMAIN known = 1 .. Len(known)
      BY <3>1, ListDomain
    <3>3. Len(known) = L
      BY <1>13, <3>1, <3>2
    <3> QED
      BY <1>14, <2>6, <3>3
  <2>15. ASSUME NEW v, NEW i, Holds(r, v, i)
         PROVE  \/ Holds(m, v, i) /\ FlowOf(r[v], i) = FlowOf(m[v], i)
                \/ /\ v = u
                   /\ \E k \in 1 .. fresh : /\ i = Len(m[u].ttl_flows) + k
                                            /\ FlowOf(r[v], i) = Flow(ttl, w.last + k, "UNAVAILABLE")
    <3>1. CASE v # u
      <4>1. Holds(itf, v, i) /\ FlowOf(r[v], i) = FlowOf(itf[v], i)
        BY <2>13, <2>15, <3>1
      <4>2. v \in DOMAIN itf /\ m[v] = itf[v] /\ v \in DOMAIN m
        BY <2>6, <3>1, <4>1 DEF Holds
      <4> QED
        BY <4>1, <4>2 DEF Holds
    <3>2. CASE v = u /\ i \in DOMAIN x.ttl_flows
      <4>1. FlowOf(y, i) = FlowOf(z, i) /\ FlowOf(y, i).state # "TESTING"
        BY <2>7, <2>13, <2>15, <3>2
      <4>2. u \in DOMAIN m /\ i \in DOMAIN m[u].ttl_flows /\ m[u] = z /\ r[u] = y
        BY <1>2, <1>12, <1>14, <2>6, <2>13, <3>2
      <4> QED
        BY <3>2, <4>1, <4>2 DEF Holds
    <3>3. CASE v = u /\ i \notin DOMAIN x.ttl_flows
      <4>1. i \in 1 .. L + fresh /\ i \notin 1 .. L
        BY <1>12, <1>13, <1>14, <2>13, <2>15, <3>3
      <4>2. i - L \in 1 .. fresh /\ i = L + (i - L)
        BY <1>6, <1>13, <4>1
      <4>3. all[i] = Flow(ttl, w.last + (i - L), "UNAVAILABLE")
        BY <1>12, <4>2
      <4>4. FlowOf(r[v], i) = all[i]
        BY <1>14, <2>13, <3>3 DEF FlowOf
      <4> QED
        BY <2>14, <3>3, <4>2, <4>3, <4>4
    <3> QED
      BY <3>1, <3>2, <3>3
  <2>16. ASSUME NEW v \in DOMAIN m
         PROVE  /\ Counters(r[v]) /\ Answered(r[v]) = Answered(m[v])
                /\ r[v].sent = m[v].sent + (IF v = u THEN fresh ELSE 0)
    <3>1. CASE v = u
      BY <1>14, <2>3, <2>6, <2>13, <3>1
    <3>2. CASE v # u
      <4>1. m[v] = itf[v] /\ r[v] = itf[v] /\ itf[v].sent \in Nat /\ v \in DOMAIN itf
        BY <2>2, <2>6, <2>13, <3>2 DEF Counters
      <4> QED
        BY <2>2, <3>2, <4>1
    <3> QED
      BY <3>1, <3>2
  <2>17. Tokens(r, (F \cup P) \cup Q, w.last + fresh)
    <3>1. u \in DOMAIN m /\ DOMAIN r = DOMAIN m
      BY <1>2, <2>6, <2>13
    <3>2. Makes(r, m, u, fresh, ttl, w.last)
      BY <2>15 DEF Makes
    <3>3. Sends(r, m, u, fresh)
      BY <2>16 DEF Sends
    <3> HIDE DEF F, P, Q
    <3>4. Tokens(r, (F \cup P) \cup ProbesMade(ttl, w.last, fresh), w.last + fresh)
      BY <1>6, <1>10, <2>11, <3>1, <3>2, <3>3, TokensMake
    <3> QED
      BY <3>4 DEF Q
  <2>18. (F \cup P) \cup Q = fly \cup (w.probes \cup more)
    <3>1. \A id \in 1 .. w.last + fresh : id % 2^FlowIdWidth = id
      BY <1>8 DEF NoWrap
    <3>2. ASSUME NEW i \in used
          PROVE  Probe(known[i].ttl + 1, known[i].id) = NextProbe(FlowOf(itf[u], i))
      <4>1. known[i].ttl = FlowOf(itf[u], i).ttl /\ known[i].id = FlowOf(itf[u], i).id
        BY <1>4, <1>12 DEF x
      <4>2. FlowOf(itf[u], i).id \in 1 .. w.last
        BY <2>1, <2>4 DEF Tokens, FlowsKnown
      <4>3. FlowOf(itf[u], i).id \in 1 .. w.last + fresh
        BY <1>3, <1>9, <1>6, <4>2
      <4> QED
        BY <3>1, <4>1, <4>3 DEF Probe, NextProbe
    <3>3. ASSUME NEW k \in 1 .. fresh
          PROVE  LET f == Flow(ttl, w.last + k, "UNAVAILABLE")
                 IN  Probe(f.ttl + 1, f.id) = [ttl |-> ttl + 1, flow_id |-> w.last + k]
      <4>1. w.last + k \in 1 .. w.last + fresh
        BY <1>3, <1>9, <1>6
      <4> QED
        BY <3>1, <4>1 DEF Probe, Flow
    <3>4. more = {Probe(known[i].ttl + 1, known[i].id) : i \in used}
                 \cup {Probe(f.ttl + 1, f.id) : f \in {Flow(ttl, w.last + k, "UNAVAILABLE") : k \in 1 .. fresh}}
      BY <1>12
    <3>5. {Probe(known[i].ttl + 1, known[i].id) : i \in used} = P
      BY <3>2
    <3>6. {Probe(f.ttl + 1, f.id) : f \in {Flow(ttl, w.last + k, "UNAVAILABLE") : k \in 1 .. fresh}} = Q
      BY <3>3 DEF ProbesMade
    <3>7. more = P \cup Q
      BY <3>4, <3>5, <3>6
    <3> HIDE DEF more, P, Q
    <3> QED
      BY <3>7
  <2> QED
    BY <2>12, <2>17, <2>18
<1>20. Ordered(new, fly \cup (w.probes \cup more), w.last + fresh)
  BY <1>17, <1>18, <1>19 DEF Ordered
<1>21. w.last <= result.last
  BY <1>1, <1>3, <1>9, <1>6
<1> HIDE DEF result
<1> QED
  BY <1>1, <1>11, <1>20, <1>21 DEF WorkOrdered

(* The flows that TestFlows makes for the interface x. *)
Tests(x, last, n) ==
    [i \in 1 .. n |-> Flow(x.ttl_set[((i - 1) % Len(x.ttl_set)) + 1], last + i, "TESTING")]

AreTests(s, last, n) ==
    /\ IsList(s) /\ DOMAIN s = 1 .. n /\ Len(s) = n
    /\ \A i \in 1 .. n : \E ttl \in Int : s[i] = Flow(ttl, last + i, "TESTING")

(* The tests are new flows, under test. *)
LEMMA TestsAre ==
    ASSUME NEW x, Formed(x), NEW last \in Nat, NEW n \in Nat
    PROVE  AreTests(Tests(x, last, n), last, n)
<1> DEFINE s == Tests(x, last, n)
           m == Len(x.ttl_set)
<1>1. s = [i \in 1 .. n |-> s[i]] /\ DOMAIN s = 1 .. n
  BY DEF Tests
<1>2. IsList(s)
  <2> HIDE DEF s
  <2> QED
    BY <1>1, ListOfFunction
<1>3. Len(s) = n
  <2> HIDE DEF s
  <2>1. Len(s) \in Nat /\ 1 .. Len(s) = 1 .. n
    BY <1>1, <1>2, ListDomain
  <2> QED
    BY <2>1
<1>4. m \in Nat \ {0}
  BY ListDomain DEF Formed
<1>5. ASSUME NEW i \in 1 .. n
      PROVE  \E ttl \in Int : s[i] = Flow(ttl, last + i, "TESTING")
  <2> DEFINE j == ((i - 1) % m) + 1
  <2>1. j \in 1 .. m
    <3> HIDE DEF m
    <3>1. i - 1 \in Nat
      OBVIOUS
    <3>2. (i - 1) % m \in 0 .. m - 1
      BY <1>4, <3>1
    <3> QED
      BY <1>4, <3>2
  <2>2. x.ttl_set[j] \in Int
    <3> HIDE DEF j
    <3> QED
      BY <2>1 DEF Formed
  <2>3. s[i] = Flow(x.ttl_set[j], last + i, "TESTING")
    BY DEF Tests
  <2> HIDE DEF j, s
  <2> QED
    BY <2>2, <2>3
<1> QED
  BY <1>1, <1>2, <1>3, <1>5 DEF AreTests

(* The list r is s, then t. *)
IsJoin(r, s, t) ==
    /\ IsList(r) /\ DOMAIN r = 1 .. Len(s) + Len(t)
    /\ \A i \in 1 .. Len(s) : r[i] = s[i]
    /\ \A i \in 1 .. Len(t) : r[Len(s) + i] = t[i]

(* Lists that are joined. *)
LEMMA JoinIs ==
    ASSUME NEW s, IsList(s), NEW t, IsList(t)
    PROVE  IsJoin(s \o t, s, t)
<1> DEFINE r == s \o t
<1>1. /\ IsList(r)
      /\ Len(r) = Len(s) + Len(t)
      /\ \A i \in 1 .. Len(s) : r[i] = s[i]
      /\ \A i \in 1 .. Len(t) : r[Len(s) + i] = t[i]
  BY ListJoin
<1> HIDE DEF r
<1>2. DOMAIN r = 1 .. Len(s) + Len(t)
  BY <1>1, ListDomain
<1> QED
  BY <1>1, <1>2 DEF IsJoin, r

(* The tests of per-packet balancing keep the tokens (mda_classify). *)
LEMMA TestFlowsOrdered ==
    ASSUME NEW l, NEW w, WorkSound(l, w), NEW fly, WorkOrdered(w, fly),
           NEW u \in Elements(l), NEW n \in Nat
    PROVE  /\ WorkOrdered(TestFlows(w, u, n), fly)
           /\ w.last <= TestFlows(w, u, n).last
           /\ TestFlows(w, u, n).interfaces[u].address = w.interfaces[u].address
<1> DEFINE itf    == w.interfaces
           x      == itf[u]
           L      == Len(x.ttl_flows)
           tests  == Tests(x, w.last, n)
           all    == x.ttl_flows \o tests
           y      == [x EXCEPT !.ttl_flows = all]
           new    == Put(itf, u, y)
           P      == {Probe(f.ttl, f.id) : f \in Range(tests)}
           result == TestFlows(w, u, n)
<1>1. /\ result.interfaces = [itf EXCEPT ![u].ttl_flows = @ \o tests]
      /\ result.last = w.last + n
      /\ result.probes = w.probes \cup P
      /\ DOMAIN result = {"interfaces", "last", "probes"}
  BY DEF TestFlows, Work, Tests
<1>2. /\ Fields \subseteq DOMAIN x /\ IsList(x.ttl_flows) /\ x.sent \in Nat
      /\ u \in DOMAIN itf /\ 0 \notin DOMAIN itf
  BY SoundDomain DEF WorkSound, Sound, Within
<1>3. w.last \in Nat
  BY <1>2 DEF WorkOrdered, Ordered
<1>4. CASE ~ NoWrap(w.last + n)
  <2> DEFINE z == [x EXCEPT !.ttl_flows = @ \o tests]
  <2>1. w.last + n \in Nat /\ w.last <= w.last + n
    BY <1>3
  <2> HIDE DEF tests
  <2>2. result.interfaces[u] = z
    BY <1>1, <1>2
  <2>3. z.address = x.address
    BY <1>2 DEF Fields
  <2> HIDE DEF result, P
  <2> QED
    BY <1>1, <1>4, <2>1, <2>2, <2>3 DEF WorkOrdered, Ordered, result
<1>5. SUFFICES ASSUME NoWrap(w.last + n)
               PROVE  /\ WorkOrdered(result, fly)
                      /\ w.last <= result.last
                      /\ result.interfaces[u].address = w.interfaces[u].address
  BY <1>4
<1>6. Formed(x) /\ \A v \in DOMAIN itf : Formed(itf[v])
  BY <1>2, <1>3, <1>5, NoWrapBefore DEF WorkOrdered, Ordered
<1>7. /\ IsList(tests) /\ DOMAIN tests = 1 .. n /\ Len(tests) = n
      /\ \A i \in 1 .. n : \E ttl \in Int : tests[i] = Flow(ttl, w.last + i, "TESTING")
  <2> HIDE DEF x
  <2>1. AreTests(tests, w.last, n)
    BY <1>3, <1>6, TestsAre
  <2> QED
    BY <2>1 DEF AreTests
<1>8. L \in Nat /\ DOMAIN x.ttl_flows = 1 .. L
  BY <1>2, ListDomain
<1>9. result.interfaces = new
  <2> HIDE DEF tests
  <2> QED
    BY <1>1 DEF Put
<1> HIDE DEF tests
<1>10. /\ IsList(all) /\ DOMAIN all = 1 .. L + n
       /\ \A i \in 1 .. L : all[i] = x.ttl_flows[i]
       /\ \A k \in 1 .. n : all[L + k] = tests[k]
  <2>1. IsJoin(all, x.ttl_flows, tests)
    <3> HIDE DEF x
    <3> QED
      BY <1>2, <1>7, JoinIs
  <2> HIDE DEF all, x
  <2> QED
    BY <1>7, <2>1 DEF IsJoin
<1> HIDE DEF all
<1>11. /\ y.ttl_flows = all /\ y.sent = x.sent /\ y.received = x.received /\ y.timeout = x.timeout
       /\ y.address = x.address /\ y.ttl_set = x.ttl_set
  <2> HIDE DEF x
  <2> QED
    BY <1>2 DEF Fields
<1> HIDE DEF y, x
<1>12. ASSUME NEW i \in 1 .. L + n, i \notin 1 .. L
       PROVE  all[i].state = "TESTING" /\ {"ttl", "id", "state"} \subseteq DOMAIN all[i]
  <2>1. i - L \in 1 .. n /\ i = L + (i - L)
    BY <1>8, <1>12
  <2>2. all[i] = tests[i - L]
    BY <1>10, <2>1
  <2> QED
    BY <1>7, <2>1, <2>2 DEF Flow
<1>13. Formed(y)
  <2>1. ASSUME NEW i \in DOMAIN y.ttl_flows
        PROVE  {"ttl", "id", "state"} \subseteq DOMAIN y.ttl_flows[i]
    <3>1. CASE i \in 1 .. L
      BY <1>3, <1>6, <1>8, <1>10, <1>11, <3>1 DEF Formed
    <3>2. CASE i \notin 1 .. L
      BY <1>10, <1>11, <1>12, <3>2
    <3> QED
      BY <3>1, <3>2
  <2> QED
    BY <1>3, <1>6, <1>11, <2>1 DEF Formed
<1>14. Counters(x) => Counters(y) /\ Answered(y) = Answered(x)
  BY <1>11 DEF Counters, Answered
<1>15. w.last + n \in Nat
  BY <1>3, <1>6
<1>16. IsPut(new, itf, u, y)
  <2> HIDE DEF itf
  <2> QED
    BY <1>2, HoldsPut
<1> HIDE DEF new
<1>17. ASSUME NEW v \in DOMAIN new PROVE Formed(new[v])
  BY <1>3, <1>6, <1>13, <1>16 DEF IsPut
<1>18. Keeps(new, itf)
  <2> SUFFICES ASSUME NEW v, NEW i, Holds(new, v, i)
               PROVE  Holds(itf, v, i) /\ FlowOf(new[v], i) = FlowOf(itf[v], i)
    BY DEF Keeps
  <2>1. CASE v # u
    BY <1>16, <2>1 DEF IsPut
  <2>2. CASE v = u
    <3>1. i \in 1 .. L + n /\ all[i].state # "TESTING" /\ FlowOf(new[v], i) = all[i]
      BY <1>10, <1>11, <1>16, <2>2 DEF IsPut, FlowOf
    <3>2. i \in 1 .. L
      BY <1>12, <3>1
    <3>3. all[i] = FlowOf(itf[v], i)
      BY <1>10, <2>2, <3>2 DEF x, FlowOf
    <3> QED
      BY <1>2, <1>8, <2>2, <3>1, <3>2, <3>3 DEF Holds, x
  <2> QED
    BY <2>1, <2>2
<1>19. Tokens(new, fly \cup (w.probes \cup P), w.last + n)
  <2> DEFINE F == fly \cup w.probes
  <2>1. Tokens(itf, F, w.last)
    BY <1>3, <1>6, <1>5, NoWrapBefore DEF WorkOrdered, Ordered
  <2>2. \A v \in DOMAIN itf : Counters(itf[v])
    BY <2>1 DEF Tokens, SentEnough
  <2> DEFINE g == [i \in 1 .. n |-> Probe(tests[i].ttl, tests[i].id)]
  <2>3. P = {g[i] : i \in 1 .. n}
    BY <1>7 DEF Range
  <2>4. IsFiniteSet(P)
    <3> HIDE DEF P
    <3>1. IsFiniteSet(1 .. n)
      BY FS_Interval
    <3>2. DOMAIN g = 1 .. n
      OBVIOUS
    <3> HIDE DEF g
    <3> QED
      BY <2>3, <3>1, <3>2, ImageFinite
  <2>5. ASSUME NEW i \in 1 .. n
        PROVE  g[i].ttl \in Int /\ g[i].flow_id = w.last + i
    <3>1. PICK t \in Int : tests[i] = Flow(t, w.last + i, "TESTING")
      BY <1>7
    <3>2. w.last + i \in 1 .. w.last + n
      BY <1>3, <1>6
    <3>3. (w.last + i) % 2^FlowIdWidth = w.last + i
      BY <1>5, <3>2 DEF NoWrap
    <3>4. g[i] = [ttl |-> t, flow_id |-> (w.last + i) % 2^FlowIdWidth]
      BY <3>1 DEF Probe, Flow
    <3> HIDE DEF g
    <3> QED
      BY <3>3, <3>4
  <2> HIDE DEF g, P
  <2>6. ASSUME NEW p \in P
        PROVE  /\ p.ttl \in Int /\ p.flow_id \in w.last + 1 .. w.last + n
               /\ \A q \in P : q.flow_id = p.flow_id => q = p
    <3>1. PICK i \in 1 .. n : p = g[i]
      BY <2>3
    <3>2. p.flow_id = w.last + i
      BY <2>5, <3>1
    <3>3. ASSUME NEW q \in P, q.flow_id = p.flow_id
          PROVE  q = p
      <4>1. PICK j \in 1 .. n : q = g[j]
        BY <2>3
      <4>2. q.flow_id = w.last + j
        BY <2>5, <4>1
      <4>3. i = j
        BY <1>3, <1>6, <3>2, <3>3, <4>2
      <4> QED
        BY <3>1, <4>1, <4>3
    <3> QED
      BY <1>3, <1>6, <2>5, <3>1, <3>2, <3>3
  <2>7. \A v \in DOMAIN itf : Counters(new[v]) /\ Answered(new[v]) = Answered(itf[v])
                              /\ new[v].sent = itf[v].sent
    BY <1>11, <1>14, <1>16, <2>2 DEF IsPut, x
  <2>8. Tokens(new, F \cup P, w.last + n)
    <3>1. DOMAIN new = DOMAIN itf
      BY <1>16 DEF IsPut
    <3> HIDE DEF F, itf
    <3> QED
      BY <1>18, <2>1, <2>4, <2>6, <2>7, <3>1, TokensTest
  <2>9. F \cup P = fly \cup (w.probes \cup P)
    OBVIOUS
  <2> QED
    BY <2>8, <2>9
<1>20. Ordered(new, fly \cup (w.probes \cup P), w.last + n)
  BY <1>15, <1>17, <1>19 DEF Ordered
<1>21. new[u].address = itf[u].address
  BY <1>11, <1>16 DEF IsPut, x
<1>22. w.last <= result.last
  BY <1>1, <1>3, <1>6
<1> HIDE DEF result
<1> QED
  BY <1>1, <1>9, <1>20, <1>21, <1>22 DEF WorkOrdered

(* Two interfaces with the same counters and the same flows. *)
Equal(y, x) ==
    /\ y.sent = x.sent /\ y.received = x.received /\ y.timeout = x.timeout
    /\ y.address = x.address /\ y.ttl_flows = x.ttl_flows /\ y.ttl_set = x.ttl_set

(* The tokens depend on the counters, the flows and the ttls only. *)
LEMMA OrderedEqual ==
    ASSUME NEW itf, 0 \notin DOMAIN itf, NEW fly, NEW last, Ordered(itf, fly, last),
           NEW new, DOMAIN new = DOMAIN itf, \A v \in DOMAIN itf : Equal(new[v], itf[v])
    PROVE  Ordered(new, fly, last)
<1>1. ASSUME NEW v \in DOMAIN new, NoWrap(last) PROVE Formed(new[v])
  BY <1>1 DEF Ordered, Formed, Equal
<1>2. Keeps(new, itf)
  BY DEF Keeps, Holds, FlowOf, Equal
<1>3. ASSUME Tokens(itf, fly, last)
      PROVE  Tokens(new, fly, last)
  <2>1. ASSUME NEW u \in DOMAIN new
        PROVE  /\ Counters(new[u])
               /\ u \in DOMAIN itf
               /\ new[u].sent = itf[u].sent
               /\ Answered(new[u]) <= Answered(itf[u]) + Cardinality(Owed(itf, fly \ fly, u))
    <3>1. Counters(itf[u])
      BY <1>3 DEF Tokens, SentEnough
    <3>2. Counters(new[u]) /\ Answered(new[u]) = Answered(itf[u])
      BY <3>1 DEF Counters, Answered, Equal
    <3>3. Owed(itf, fly \ fly, u) = {}
      BY DEF Owed
    <3>4. Cardinality(Owed(itf, fly \ fly, u)) = 0
      BY <3>3, FS_EmptySet
    <3>5. Answered(itf[u]) \in Nat
      BY <3>1, AnsweredType
    <3>6. Answered(new[u]) <= Answered(itf[u]) + Cardinality(Owed(itf, fly \ fly, u))
      BY <3>2, <3>4, <3>5
    <3> QED
      BY <3>2, <3>6 DEF Equal
  <2>2. fly \in SUBSET fly
    OBVIOUS
  <2> QED
    BY <1>2, <1>3, <2>1, <2>2, TokensKeep
<1> QED
  BY <1>1, <1>3 DEF Ordered

(* The classification of an interface keeps the tokens. *)
LEMMA ClassifyOrdered ==
    ASSUME NEW l, NEW itf, Sound(l, itf), NEW u \in Elements(l),
           NEW fly, NEW last, Ordered(itf, fly, last)
    PROVE  Ordered(Classify(itf, l, u), fly, last)
<1>1. CASE Classify(itf, l, u) = itf
  BY <1>1
<1>2. CASE Classify(itf, l, u) = [itf EXCEPT ![u].type = "IN_PROGRESS"]
  <2> DEFINE new == [itf EXCEPT ![u].type = "IN_PROGRESS"]
  <2>1. DOMAIN itf = Elements(l) /\ 0 \notin DOMAIN itf
    BY SoundDomain
  <2>2. Fields \subseteq DOMAIN itf[u]
    BY DEF Sound, Within
  <2>3. DOMAIN new = DOMAIN itf
    OBVIOUS
  <2>4. ASSUME NEW v \in DOMAIN itf
        PROVE  Equal(new[v], itf[v])
    BY <2>2 DEF Fields, Equal
  <2> HIDE DEF new
  <2>5. Ordered(new, fly, last)
    BY <2>1, <2>3, <2>4, OrderedEqual
  <2> QED
    BY <1>2, <2>5 DEF new
<1> QED
  BY <1>1, <1>2 DEF Classify

(* The enumeration of an interface keeps the tokens (mda_enumerate). *)
LEMMA EnumerateOrdered ==
    ASSUME NEW l, NEW w, WorkSound(l, w), NEW fly, WorkOrdered(w, fly),
           NEW u \in Elements(l), w.interfaces[u].address # Dst
    PROVE  WorkOrdered(Enumerate(w, l, u), fly) /\ w.last <= Enumerate(w, l, u).last
<1> DEFINE x == w.interfaces[u]
           n == ToSend(l, w.interfaces, u)
           k == Hops(l, u)
           m == Missing(x, n)
           t == TestFlows(w, u, m)
<1>1. Within(x, StopsAt(l, u)) /\ IsLattice(l)
  BY DEF WorkSound, Sound
<1>2. k \in Nat \ {0}
  BY <1>1, HopsType
<1>3. n \in Int
  <2>1. n = GetNk(k) - x.sent
    BY DEF ToSend, Hops
  <2>2. GetNk(k) \in Nat /\ x.sent \in Nat
    BY <1>1, <1>2, GetNkType DEF Within
  <2> HIDE DEF n, k, x
  <2> QED
    BY <2>1, <2>2
<1>4. Enumerate(w, l, u) = IF Many(l, u) THEN SendNext(t, l, u, n) ELSE SendNext(w, l, u, n)
  BY DEF Enumerate
<1> HIDE DEF n
<1>5. m \in Nat
  BY <1>1, <1>3, MissingType DEF Within
<1> HIDE DEF m
<1>6. WorkSound(l, t) /\ WorkOrdered(t, fly) /\ t.interfaces[u].address # Dst /\ w.last <= t.last
  BY <1>5, TestFlowsSound, TestFlowsOrdered
<1> HIDE DEF t
<1>7. WorkOrdered(SendNext(t, l, u, n), fly) /\ t.last <= SendNext(t, l, u, n).last
  BY <1>3, <1>6, SendNextOrdered
<1>8. WorkOrdered(SendNext(w, l, u, n), fly) /\ w.last <= SendNext(w, l, u, n).last
  BY <1>3, SendNextOrdered
<1>9. w.last <= SendNext(t, l, u, n).last
  BY <1>6, <1>7 DEF WorkOrdered, Ordered
<1> QED
  BY <1>4, <1>7, <1>8, <1>9

(* So does the visit of an interface (mda_process_interface). *)
LEMMA ProcessInterfaceOrdered ==
    ASSUME NEW l, NEW w, WorkSound(l, w), NEW fly, WorkOrdered(w, fly), NEW u \in Elements(l)
    PROVE  WorkOrdered(ProcessInterface(w, l, u), fly) /\ w.last <= ProcessInterface(w, l, u).last
<1> DEFINE done == IF Enumerated(l, w.interfaces, u) THEN w ELSE Enumerate(w, l, u)
           result == ProcessInterface(w, l, u)
<1>1. WorkSound(l, done)
  BY EnumerateSound
<1>2. WorkOrdered(done, fly) /\ w.last <= done.last
  <2>1. w.last <= w.last
    BY DEF WorkOrdered, Ordered
  <2> QED
    BY <2>1, EnumerateOrdered DEF Enumerated
<1>3. result = [done EXCEPT !.interfaces = Classify(@, l, u)]
  BY DEF ProcessInterface
<1> HIDE DEF done, result
<1>4. /\ DOMAIN result = DOMAIN done
      /\ result.interfaces = Classify(done.interfaces, l, u)
      /\ result.last = done.last
      /\ result.probes = done.probes
  BY <1>2, <1>3 DEF WorkOrdered
<1>5. Ordered(Classify(done.interfaces, l, u), fly \cup done.probes, done.last)
  BY <1>1, <1>2, ClassifyOrdered DEF WorkSound, WorkOrdered
<1> QED
  BY <1>2, <1>4, <1>5 DEF WorkOrdered, result

(* The visits of a walk. *)
LEMMA VisitsOrdered ==
    ASSUME NEW l, NEW base, WorkSound(l, base), NEW fly, WorkOrdered(base, fly),
           NEW q \in Seq(Elements(l))
    PROVE  WorkOrdered(Visits(l, base, q), fly) /\ base.last <= Visits(l, base, q).last
<1> DEFINE n == Len(q)
           f == CHOOSE f : IsFold(f, l, base, q, DOMAIN q)
           Good(w) == WorkSound(l, w) /\ WorkOrdered(w, fly) /\ base.last <= w.last
<1>1. n \in Nat /\ DOMAIN q = 1 .. n
  OBVIOUS
<1>2. IsFold(f, l, base, q, 1 .. n)
  BY <1>1, FoldExists
<1>3. Visits(l, base, q) = f[1 .. n]
  <2>1. Visits(l, base, q) = f[DOMAIN q]
    BY DEF Visits, FoldLeft, MapThenFoldSet, IsFold
  <2> QED
    BY <1>1, <2>1
<1> HIDE DEF f
<1> DEFINE B == {m \in Nat : m \in 0 .. n /\ ~ Good(f[1 .. m])}
<1>4. SUFFICES ASSUME B # {} PROVE FALSE
  BY <1>1, <1>3
<1>5. PICK m \in B : \A k \in B : m <= k
  BY <1>4, LeastNumber
<1>6. m # 0
  <2>1. 1 .. 0 = {} /\ {} \in SUBSET (1 .. n)
    OBVIOUS
  <2>2. f[{}] = base
    BY <1>2, <2>1 DEF IsFold
  <2>3. Good(base)
    BY DEF WorkOrdered, Ordered
  <2> HIDE DEF Good
  <2> QED
    BY <2>1, <2>2, <2>3
<1>7. Good(f[1 .. m - 1])
  <2>1. m - 1 \in 0 .. n /\ ~ (m <= m - 1)
    BY <1>6
  <2> QED
    BY <1>5, <2>1
<1>8. f[1 .. m] = ProcessInterface(f[1 .. m - 1], l, q[m])
  <2> DEFINE s == 1 .. m
  <2>1. m \in 1 .. n
    BY <1>6
  <2>2. s \in SUBSET (1 .. n) /\ s \in SUBSET (1 .. m) /\ m \in s
    BY <1>1, <2>1
  <2>3. Max(s) = m
    BY <2>2, LargestOfPrefix
  <2>4. s \ {m} = 1 .. m - 1
    OBVIOUS
  <2> HIDE DEF s
  <2>5. f[s] = ProcessInterface(f[s \ {Max(s)}], l, q[Max(s)])
    BY <1>2, <2>2 DEF IsFold
  <2> QED
    BY <2>3, <2>4, <2>5 DEF s
<1>9. q[m] \in Elements(l)
  BY <1>6
<1>10. Good(f[1 .. m])
  <2> DEFINE w == f[1 .. m - 1]
             v == ProcessInterface(w, l, q[m])
  <2> HIDE DEF w
  <2>1. Good(w)
    BY <1>7 DEF w
  <2>2. WorkSound(l, v) /\ WorkOrdered(v, fly) /\ w.last <= v.last
    BY <1>9, <2>1, ProcessInterfaceSound, ProcessInterfaceOrdered
  <2>3. base.last <= v.last
    BY <2>1, <2>2 DEF WorkOrdered, Ordered
  <2>4. f[1 .. m] = v
    BY <1>8 DEF w
  <2> HIDE DEF v
  <2> QED
    BY <2>2, <2>3, <2>4
<1> QED
  BY <1>10

(* So does the walk that ends mda_handler. *)
LEMMA ProcessedOrdered ==
    ASSUME NEW l, NEW itf, Sound(l, itf), Len(l.next) # 0, NEW told,
           NEW fly, Ordered(itf, fly, last_flow_id)
    PROVE  /\ WorkOrdered(Processed(l, itf, told).work, fly)
           /\ last_flow_id <= Processed(l, itf, told).work.last
<1> DEFINE done  == {u \in Elements(l) : Enumerated(l, itf, u)}
           q     == Walk(l, done)
           base  == Work(itf, last_flow_id, {})
<1>1. WorkSound(l, base)
  BY DEF WorkSound, Work
<1>2. q \in Seq(Elements(l))
  <2> HIDE DEF done
  <2> QED
    BY WalkType DEF Sound
<1>3. WorkOrdered(base, fly)
  <2>1. fly \cup {} = fly
    OBVIOUS
  <2> QED
    BY <2>1 DEF WorkOrdered, Work
<1>4. Processed(l, itf, told).work = Visits(l, base, q)
  BY DEF Processed, Visits
<1>5. base.last = last_flow_id
  BY DEF Work
<1> HIDE DEF base, q
<1> QED
  BY <1>1, <1>2, <1>3, <1>4, <1>5, VisitsOrdered

-----------------------------------------------------------------------------
(* The end of the walk *)

DoneIn(l, itf) == {u \in Elements(l) : Enumerated(l, itf, u)}

(* The walk that ends mda_handler would end the algorithm. *)
Finished(l, itf) == Range(Walk(l, DoneIn(l, itf))) \subseteq DoneIn(l, itf)

SameCounts(y, x) ==
    /\ y.sent = x.sent /\ y.received = x.received /\ y.timeout = x.timeout
    /\ y.address = x.address

(* What is enumerated depends on the counters and the address only. *)
LEMMA DoneKept ==
    ASSUME NEW l, NEW itf, NEW new, \A u \in Elements(l) : SameCounts(new[u], itf[u])
    PROVE  DoneIn(l, new) = DoneIn(l, itf)
<1>1. ASSUME NEW u \in Elements(l)
      PROVE  Enumerated(l, new, u) <=> Enumerated(l, itf, u)
  <2>1. SameCounts(new[u], itf[u])
    OBVIOUS
  <2> QED
    BY <2>1 DEF Enumerated, ToSend, AllAnswered, SameCounts
<1> QED
  BY <1>1 DEF DoneIn

(* The classification counts nothing. *)
LEMMA ClassifyCounts ==
    ASSUME NEW l, NEW itf, Sound(l, itf), NEW u \in Elements(l)
    PROVE  \A v \in Elements(l) : SameCounts(Classify(itf, l, u)[v], itf[v])
<1>1. ASSUME NEW v \in Elements(l)
      PROVE  SameCounts([itf EXCEPT ![u].type = "IN_PROGRESS"][v], itf[v])
  <2>1. Fields \subseteq DOMAIN itf[v] /\ v \in DOMAIN itf
    BY SoundDomain DEF Sound, Within
  <2> QED
    BY <2>1 DEF Fields, SameCounts
<1>2. \A v \in Elements(l) : SameCounts(itf[v], itf[v])
  BY DEF SameCounts
<1> QED
  BY <1>1, <1>2 DEF Classify

(* The visits of interfaces that are enumerated send nothing. *)
LEMMA VisitsOfDone ==
    ASSUME NEW l, NEW base, WorkSound(l, base), {"last", "probes"} \subseteq DOMAIN base,
           NEW q \in Seq(Elements(l)), Range(q) \subseteq DoneIn(l, base.interfaces)
    PROVE  /\ \A v \in Elements(l) :
                SameCounts(Visits(l, base, q).interfaces[v], base.interfaces[v])
           /\ Visits(l, base, q).last = base.last
<1> DEFINE n == Len(q)
           f == CHOOSE f : IsFold(f, l, base, q, DOMAIN q)
           Good(w) == /\ WorkSound(l, w)
                      /\ \A v \in Elements(l) : SameCounts(w.interfaces[v], base.interfaces[v])
                      /\ w.last = base.last
<1>1. n \in Nat /\ DOMAIN q = 1 .. n
  OBVIOUS
<1>2. IsFold(f, l, base, q, 1 .. n)
  BY <1>1, FoldExists
<1>3. Visits(l, base, q) = f[1 .. n]
  <2>1. Visits(l, base, q) = f[DOMAIN q]
    BY DEF Visits, FoldLeft, MapThenFoldSet, IsFold
  <2> QED
    BY <1>1, <2>1
<1> HIDE DEF f
<1> DEFINE B == {m \in Nat : m \in 0 .. n /\ ~ Good(f[1 .. m])}
<1>4. SUFFICES ASSUME B # {} PROVE FALSE
  BY <1>1, <1>3
<1>5. PICK m \in B : \A k \in B : m <= k
  BY <1>4, LeastNumber
<1>6. m # 0
  <2>1. 1 .. 0 = {} /\ {} \in SUBSET (1 .. n)
    OBVIOUS
  <2>2. f[{}] = base
    BY <1>2, <2>1 DEF IsFold
  <2>3. Good(base)
    BY DEF SameCounts
  <2> HIDE DEF Good
  <2> QED
    BY <2>1, <2>2, <2>3
<1>7. Good(f[1 .. m - 1])
  <2>1. m - 1 \in 0 .. n /\ ~ (m <= m - 1)
    BY <1>6
  <2> QED
    BY <1>5, <2>1
<1>8. f[1 .. m] = ProcessInterface(f[1 .. m - 1], l, q[m])
  <2> DEFINE s == 1 .. m
  <2>1. m \in 1 .. n
    BY <1>6
  <2>2. s \in SUBSET (1 .. n) /\ s \in SUBSET (1 .. m) /\ m \in s
    BY <1>1, <2>1
  <2>3. Max(s) = m
    BY <2>2, LargestOfPrefix
  <2>4. s \ {m} = 1 .. m - 1
    OBVIOUS
  <2> HIDE DEF s
  <2>5. f[s] = ProcessInterface(f[s \ {Max(s)}], l, q[Max(s)])
    BY <1>2, <2>2 DEF IsFold
  <2> QED
    BY <2>3, <2>4, <2>5 DEF s
<1>9. q[m] \in Elements(l) /\ q[m] \in Range(q)
  BY <1>6 DEF Range
<1>10. Good(f[1 .. m])
  <2> DEFINE w == f[1 .. m - 1]
             u == q[m]
             v == ProcessInterface(w, l, u)
  <2> HIDE DEF w, u
  <2>1. Good(w) /\ u \in Elements(l) /\ u \in DoneIn(l, base.interfaces)
    BY <1>7, <1>9 DEF w, u
  <2>2. WorkSound(l, v)
    BY <2>1, ProcessInterfaceSound
  <2>3. DoneIn(l, w.interfaces) = DoneIn(l, base.interfaces)
    BY <2>1, DoneKept
  <2>4. Enumerated(l, w.interfaces, u)
    BY <2>1, <2>3 DEF DoneIn
  <2>5. v = [w EXCEPT !.interfaces = Classify(@, l, u)]
    BY <2>4 DEF ProcessInterface
  <2>6. v.interfaces = Classify(w.interfaces, l, u) /\ v.last = w.last
    BY <2>1, <2>5 DEF WorkSound
  <2>7. \A x \in Elements(l) : SameCounts(v.interfaces[x], w.interfaces[x])
    BY <2>1, <2>6, ClassifyCounts DEF WorkSound
  <2> HIDE DEF v
  <2>8. \A x \in Elements(l) : SameCounts(v.interfaces[x], base.interfaces[x])
    BY <2>1, <2>7 DEF SameCounts
  <2>9. v.last = base.last
    BY <2>1, <2>6
  <2>10. f[1 .. m] = v
    BY <1>8 DEF w, u, v
  <2> QED
    BY <2>2, <2>8, <2>9, <2>10
<1> QED
  BY <1>10

(* The end is raised when the lattice is finished, and then nothing is sent. *)
LEMMA ProcessedFinished ==
    ASSUME NEW l, NEW itf, Sound(l, itf), Len(l.next) # 0, NEW told
    PROVE  /\ Processed(l, itf, told).ends \in {0, 1}
           /\ Processed(l, itf, told).ends = 1 <=> Finished(l, itf)
           /\ Finished(l, itf) => /\ Finished(l, Processed(l, itf, told).work.interfaces)
                                  /\ Processed(l, itf, told).work.last = last_flow_id
<1> DEFINE done == DoneIn(l, itf)
           q    == Walk(l, done)
           base == Work(itf, last_flow_id, {})
           w    == Visits(l, base, q)
<1>1. WorkSound(l, base) /\ base.interfaces = itf /\ base.last = last_flow_id
      /\ {"last", "probes"} \subseteq DOMAIN base
  BY DEF WorkSound, Work
<1>2. q \in Seq(Elements(l))
  <2> HIDE DEF done
  <2> QED
    BY WalkType DEF Sound
<1>3. /\ Processed(l, itf, told).work = w
      /\ Processed(l, itf, told).ends = IF Range(q) \subseteq done THEN 1 ELSE 0
  BY DEF Processed, Visits, DoneIn
<1>4. Finished(l, itf) <=> Range(q) \subseteq done
  BY DEF Finished
<1>5. ASSUME Finished(l, itf)
      PROVE  Finished(l, w.interfaces) /\ w.last = last_flow_id
  <2> HIDE DEF base, q, done
  <2>1. /\ \A v \in Elements(l) : SameCounts(w.interfaces[v], itf[v])
        /\ w.last = last_flow_id
    <3>1. Range(q) \subseteq DoneIn(l, base.interfaces)
      BY <1>1, <1>4, <1>5 DEF done
    <3>2. \A v \in Elements(l) : SameCounts(w.interfaces[v], base.interfaces[v])
      BY <1>1, <1>2, <3>1, VisitsOfDone
    <3>3. w.last = base.last
      BY <1>1, <1>2, <3>1, VisitsOfDone
    <3> QED
      BY <1>1, <3>2, <3>3
  <2> HIDE DEF w
  <2>2. DoneIn(l, w.interfaces) = DoneIn(l, itf)
    BY <2>1, DoneKept
  <2> QED
    BY <1>5, <2>1, <2>2 DEF Finished
<1> HIDE DEF w, q, done
<1> QED
  BY <1>3, <1>4, <1>5

-----------------------------------------------------------------------------
(* The answers: ttls, counts and flows *)

(* The ttls of an interface: a list of numbers, which is not empty. *)
AreTtls(s) == IsList(s) /\ Len(s) # 0 /\ \A i \in 1 .. Len(s) : s[i] \in Int

AddTtl(s, t) == IF Contains(s, t + 1) \/ Len(s) = MaxTtls THEN s ELSE Append(s, t + 1)

(* One more ttl leaves a list of ttls. *)
LEMMA AddTtlKeeps ==
    ASSUME NEW s, AreTtls(s), NEW t \in Int
    PROVE  AreTtls(AddTtl(s, t))
<1> DEFINE r == Append(s, t + 1)
           n == Len(s)
<1>1. IsList(s) /\ n \in Nat /\ n # 0 /\ \A i \in 1 .. n : s[i] \in Int
  BY ListDomain DEF AreTtls
<1>2. /\ IsList(r) /\ Len(r) = n + 1
      /\ \A i \in 1 .. n : r[i] = s[i]
      /\ r[n + 1] = t + 1
  BY <1>1, ListAppend
<1> HIDE DEF r, n
<1>3. ASSUME NEW i \in 1 .. n + 1 PROVE r[i] \in Int
  <2>1. CASE i = n + 1
    BY <1>2, <2>1
  <2>2. CASE i # n + 1
    BY <1>1, <1>2, <2>2
  <2> QED
    BY <2>1, <2>2
<1>4. AreTtls(r)
  BY <1>1, <1>2, <1>3 DEF AreTtls
<1> QED
  BY <1>4 DEF AddTtl, r

(* What AddTtls makes of base, with the ttls of q. *)
IsTtlFold(f, base, q, S) ==
    f = [s \in SUBSET S |-> IF s = {} THEN base ELSE AddTtl(f[s \ {Max(s)}], q[Max(s)])]

(* The fold of the ttls of an interface is defined. *)
LEMMA TtlFoldExists ==
    ASSUME NEW base, NEW q, NEW n \in Nat
    PROVE  \E f : IsTtlFold(f, base, q, 1 .. n)
<1> DEFINE S == {m \in Nat : ~ \E f : IsTtlFold(f, base, q, 1 .. m)}
<1>1. SUFFICES ASSUME S # {} PROVE FALSE
  OBVIOUS
<1>2. PICK m \in S : \A k \in S : m <= k
  BY <1>1, LeastNumber
<1>3. m # 0
  <2> DEFINE h == [s \in SUBSET (1 .. 0) |-> base]
  <2>1. \A s \in SUBSET (1 .. 0) : s = {}
    OBVIOUS
  <2>2. IsTtlFold(h, base, q, 1 .. 0)
    BY <2>1 DEF IsTtlFold
  <2> QED
    BY <2>2
<1>4. PICK f : IsTtlFold(f, base, q, 1 .. m - 1)
  <2>1. m - 1 \in Nat /\ ~ (m <= m - 1)
    BY <1>3
  <2> QED
    BY <1>2, <2>1
<1> DEFINE Step(g, s) == IF s = {} THEN base ELSE AddTtl(g[s \ {Max(s)}], q[Max(s)])
           h == [s \in SUBSET (1 .. m) |-> IF m \in s THEN Step(f, s) ELSE f[s]]
<1>5. ASSUME NEW s \in SUBSET (1 .. m)
      PROVE  h[s] = Step(h, s)
  <2>1. h[s] = IF m \in s THEN Step(f, s) ELSE f[s]
    OBVIOUS
  <2>2. m \notin s \ {Max(s)}
    BY LargestOfPrefix
  <2>3. s \ {Max(s)} \in SUBSET (1 .. m)
    OBVIOUS
  <2>4. h[s \ {Max(s)}] = f[s \ {Max(s)}]
    BY <2>2, <2>3
  <2>5. Step(h, s) = Step(f, s)
    <3> HIDE DEF h
    <3> QED
      BY <2>4
  <2>6. CASE m \in s
    BY <2>1, <2>5, <2>6
  <2>7. CASE m \notin s
    <3>1. s \in SUBSET (1 .. m - 1)
      BY <2>7
    <3>2. f[s] = Step(f, s)
      BY <1>4, <3>1 DEF IsTtlFold
    <3> HIDE DEF h, Step
    <3> QED
      BY <2>1, <2>5, <2>7, <3>2
  <2> QED
    BY <2>6, <2>7
<1>6. IsTtlFold(h, base, q, 1 .. m)
  <2>1. h = [s \in SUBSET (1 .. m) |-> h[s]]
    OBVIOUS
  <2> HIDE DEF h
  <2>2. h = [s \in SUBSET (1 .. m) |-> Step(h, s)]
    BY <1>5, <2>1
  <2> QED
    BY <2>2 DEF IsTtlFold
<1> QED
  BY <1>2, <1>6

(* The ttls that an interface gets from another are ttls. *)
LEMMA AddTtlsType ==
    ASSUME NEW base, AreTtls(base), NEW q, AreTtls(q)
    PROVE  AreTtls(AddTtls(base, q))
<1> DEFINE n == Len(q)
           f == CHOOSE f : IsTtlFold(f, base, q, DOMAIN q)
<1>1. n \in Nat /\ DOMAIN q = 1 .. n /\ \A i \in 1 .. n : q[i] \in Int
  BY ListDomain DEF AreTtls
<1>2. IsTtlFold(f, base, q, 1 .. n)
  BY <1>1, TtlFoldExists
<1>3. AddTtls(base, q) = f[1 .. n]
  <2>1. AddTtls(base, q) = f[DOMAIN q]
    BY DEF AddTtls, AddTtl, FoldLeft, MapThenFoldSet, IsTtlFold
  <2> QED
    BY <1>1, <2>1
<1> HIDE DEF f
<1> DEFINE B == {m \in Nat : m \in 0 .. n /\ ~ AreTtls(f[1 .. m])}
<1>4. SUFFICES ASSUME B # {} PROVE FALSE
  BY <1>1, <1>3
<1>5. PICK m \in B : \A k \in B : m <= k
  BY <1>4, LeastNumber
<1>6. m # 0
  <2>1. 1 .. 0 = {} /\ {} \in SUBSET (1 .. n)
    OBVIOUS
  <2>2. f[{}] = base
    BY <1>2, <2>1 DEF IsTtlFold
  <2> QED
    BY <2>1, <2>2
<1>7. AreTtls(f[1 .. m - 1])
  <2>1. m - 1 \in 0 .. n /\ ~ (m <= m - 1)
    BY <1>6
  <2> QED
    BY <1>5, <2>1
<1>8. f[1 .. m] = AddTtl(f[1 .. m - 1], q[m])
  <2> DEFINE s == 1 .. m
  <2>1. m \in 1 .. n
    BY <1>6
  <2>2. s \in SUBSET (1 .. n) /\ s \in SUBSET (1 .. m) /\ m \in s
    BY <1>1, <2>1
  <2>3. Max(s) = m
    BY <2>2, LargestOfPrefix
  <2>4. s \ {m} = 1 .. m - 1
    OBVIOUS
  <2> HIDE DEF s
  <2>5. f[s] = AddTtl(f[s \ {Max(s)}], q[Max(s)])
    BY <1>2, <2>2 DEF IsTtlFold
  <2> QED
    BY <2>3, <2>4, <2>5 DEF s
<1>9. q[m] \in Int
  BY <1>1, <1>6
<1>10. AreTtls(f[1 .. m])
  BY <1>7, <1>8, <1>9, AddTtlKeeps
<1> QED
  BY <1>10

Accounted(itf, fly, last) ==
    Tokens(itf, fly, last) /\ \A u \in DOMAIN itf : Formed(itf[u])

(* More answers are counted than before by those that came. *)
LEMMA MoreAnswers ==
    ASSUME NEW itf, NEW fly, IsFiniteSet(fly), NEW left \in SUBSET fly, NEW u,
           NEW x, Counters(x), NEW y, Answered(y) = Answered(x)
    PROVE  Answered(y) <= Answered(x) + Cardinality(Owed(itf, fly \ left, u))
<1> DEFINE c == Cardinality(Owed(itf, fly \ left, u))
<1>1. IsFiniteSet(fly \ left)
  BY FS_Subset
<1>2. c \in Nat
  BY <1>1, OwedFinite
<1>3. Answered(x) \in Nat
  BY AnsweredType
<1> HIDE DEF c
<1>4. Answered(y) <= Answered(x) + c
  BY <1>2, <1>3
<1> QED
  BY <1>4 DEF c

(* Every flow of y that is not under test is one of x. *)
FlowsKept(y, x) ==
    \A i \in DOMAIN y.ttl_flows :
        FlowOf(y, i).state # "TESTING" =>
            /\ i \in DOMAIN x.ttl_flows
            /\ FlowOf(x, i).state # "TESTING"
            /\ FlowOf(y, i).ttl = FlowOf(x, i).ttl
            /\ FlowOf(y, i).id = FlowOf(x, i).id
            /\ FlowOf(y, i).state = "AVAILABLE" => FlowOf(x, i).state = "AVAILABLE"

(* One interface changes, and counts the answers that come to it. *)
LEMMA AccountedPut ==
    ASSUME NEW itf, 0 \notin DOMAIN itf, NEW fly, NEW last, Accounted(itf, fly, last),
           NEW u \in DOMAIN itf, NEW y, Formed(y), Counters(y), y.sent = itf[u].sent,
           FlowsKept(y, itf[u]), NEW left \in SUBSET fly,
           Answered(y) <= Answered(itf[u]) + Cardinality(Owed(itf, fly \ left, u))
    PROVE  Accounted(Put(itf, u, y), left, last)
<1> DEFINE new == Put(itf, u, y)
<1>1. IsPut(new, itf, u, y)
  BY HoldsPut
<1> HIDE DEF new
<1>2. DOMAIN new = DOMAIN itf /\ new[u] = y /\ \A v \in DOMAIN itf : v # u => new[v] = itf[v]
  BY <1>1 DEF IsPut
<1>3. Keeps(new, itf)
  <2> SUFFICES ASSUME NEW v, NEW i, Holds(new, v, i)
               PROVE  /\ Holds(itf, v, i)
                      /\ FlowOf(new[v], i).ttl = FlowOf(itf[v], i).ttl
                      /\ FlowOf(new[v], i).id = FlowOf(itf[v], i).id
                      /\ FlowOf(new[v], i).state = "AVAILABLE" => FlowOf(itf[v], i).state = "AVAILABLE"
    BY DEF Keeps
  <2>1. CASE v # u
    BY <1>1, <2>1 DEF IsPut
  <2>2. CASE v = u
    <3>1. i \in DOMAIN y.ttl_flows /\ FlowOf(y, i).state # "TESTING"
      BY <1>1, <2>2 DEF IsPut
    <3> QED
      BY <1>2, <2>2, <3>1 DEF FlowsKept, Holds
  <2> QED
    BY <2>1, <2>2
<1>4. ASSUME NEW v \in DOMAIN new
      PROVE  /\ Counters(new[v])
             /\ v \in DOMAIN itf
             /\ new[v].sent = itf[v].sent
             /\ Answered(new[v]) <= Answered(itf[v]) + Cardinality(Owed(itf, fly \ left, v))
  <2>1. CASE v = u
    BY <1>2, <2>1
  <2>2. CASE v # u
    <3>1. v \in DOMAIN itf /\ new[v] = itf[v] /\ Counters(itf[v]) /\ IsFiniteSet(fly)
      BY <1>2, <2>2 DEF Accounted, Tokens, SentEnough
    <3>2. Answered(itf[v]) <= Answered(itf[v]) + Cardinality(Owed(itf, fly \ left, v))
      BY <3>1, MoreAnswers
    <3> QED
      BY <3>1, <3>2
  <2> QED
    BY <2>1, <2>2
<1>5. Tokens(new, left, last)
  BY <1>2, <1>3, <1>4, TokensKeep DEF Accounted
<1>6. \A v \in DOMAIN new : Formed(new[v])
  BY <1>2 DEF Accounted
<1> QED
  BY <1>5, <1>6 DEF Accounted, new

(* Probes may leave the network. *)
LEMMA AccountedLess ==
    ASSUME NEW itf, 0 \notin DOMAIN itf, NEW fly, NEW last, Accounted(itf, fly, last),
           NEW left \in SUBSET fly
    PROVE  Accounted(itf, left, last)
<1>1. Keeps(itf, itf)
  BY DEF Keeps
<1>2. ASSUME NEW v \in DOMAIN itf
      PROVE  /\ Counters(itf[v])
             /\ v \in DOMAIN itf
             /\ itf[v].sent = itf[v].sent
             /\ Answered(itf[v]) <= Answered(itf[v]) + Cardinality(Owed(itf, fly \ left, v))
  <2>1. Counters(itf[v]) /\ IsFiniteSet(fly)
    BY DEF Accounted, Tokens, SentEnough
  <2> QED
    BY <2>1, MoreAnswers
<1>3. Tokens(itf, left, last)
  BY <1>1, <1>2, TokensKeep DEF Accounted
<1> QED
  BY <1>3 DEF Accounted

(* Two interfaces with the same flows. *)
SameFlows(y, x) == y.ttl_flows = x.ttl_flows /\ y.ttl_set = x.ttl_set

(* Interfaces with the same flows hold the same. *)
LEMMA SameFlowsKept ==
    ASSUME NEW x, NEW y, y.ttl_flows = x.ttl_flows
    PROVE  FlowsKept(y, x)
  BY DEF FlowsKept, FlowOf

(* The interface u counts the answer to p, which it waits for. *)
LEMMA AccountedCount ==
    ASSUME NEW itf, 0 \notin DOMAIN itf, NEW fly, NEW last, Accounted(itf, fly, last),
           NEW u \in DOMAIN itf, NEW p, p \in Owed(itf, fly, u), NEW y,
           SameFlows(y, itf[u]), y.sent = itf[u].sent, y.address = itf[u].address,
           \/ y.received = itf[u].received + 1 /\ y.timeout = itf[u].timeout
           \/ y.received = itf[u].received /\ y.timeout = itf[u].timeout + 1
    PROVE  Accounted(Put(itf, u, y), fly \ {p}, last)
<1> DEFINE x == itf[u]
           left == fly \ {p}
           c == Cardinality(Owed(itf, fly \ left, u))
<1>1. Formed(x) /\ Counters(x) /\ IsFiniteSet(fly) /\ p \in fly
  BY DEF Accounted, Tokens, SentEnough, Owed
<1>2. Formed(y)
  BY <1>1 DEF Formed, SameFlows
<1>3. FlowsKept(y, x)
  BY SameFlowsKept DEF SameFlows
<1>4. Counters(y) /\ Answered(y) = Answered(x) + 1
  <2> HIDE DEF x
  <2>1. x.received \in Nat /\ x.timeout \in Nat /\ x.sent \in Nat
    BY <1>1 DEF Counters
  <2>2. \/ y.received = x.received + 1 /\ y.timeout = x.timeout
        \/ y.received = x.received /\ y.timeout = x.timeout + 1
    BY DEF x
  <2>3. y.received + y.timeout = x.received + x.timeout + 1 /\ y.received \in Nat /\ y.timeout \in Nat
    BY <2>1, <2>2
  <2>4. y.sent = x.sent /\ y.address = x.address
    BY DEF x
  <2> QED
    BY <1>1, <2>3, <2>4 DEF Counters, Answered
<1>5. c \in Nat /\ c # 0
  <2>1. fly \ left = {p}
    BY <1>1
  <2>2. IsFiniteSet(fly \ left)
    BY <1>1, FS_Subset
  <2>3. p \in Owed(itf, fly \ left, u)
    <3> HIDE DEF left
    <3> QED
      BY <2>1 DEF Owed
  <2> HIDE DEF left
  <2>4. IsFiniteSet(Owed(itf, fly \ left, u)) /\ c \in Nat
    BY <2>2, OwedFinite
  <2> QED
    BY <2>3, <2>4, FS_EmptySet
<1>6. Answered(x) \in Nat
  BY <1>1, AnsweredType
<1>7. Answered(y) <= Answered(x) + c
  <2> HIDE DEF x, c
  <2> QED
    BY <1>4, <1>5, <1>6
<1>8. left \in SUBSET fly
  OBVIOUS
<1> HIDE DEF left
<1>9. Accounted(Put(itf, u, y), left, last)
  BY <1>2, <1>3, <1>4, <1>7, <1>8, AccountedPut
<1> QED
  BY <1>9 DEF left

(* An interface that has sent nothing and has no flow is added. *)
LEMMA AccountedAppend ==
    ASSUME NEW itf, IsList(itf), NEW fly, NEW last, Accounted(itf, fly, last),
           NEW z, Formed(z), Counters(z), Answered(z) = 0, z.ttl_flows = << >>
    PROVE  Accounted(Append(itf, z), fly, last)
<1> DEFINE new == Append(itf, z)
           n == Len(itf)
<1>1. n \in Nat /\ DOMAIN itf = 1 .. n
  BY ListDomain
<1>2. /\ IsList(new) /\ Len(new) = n + 1
      /\ \A i \in 1 .. n : new[i] = itf[i]
      /\ new[n + 1] = z
  BY ListAppend
<1> HIDE DEF new, n
<1>3. DOMAIN new = 1 .. n + 1
  BY <1>2, ListDomain
<1>4. 0 \notin DOMAIN new
  BY <1>1, <1>3
<1>5. ASSUME NEW v \in DOMAIN new
      PROVE  \/ v \in DOMAIN itf /\ new[v] = itf[v]
             \/ v = n + 1 /\ new[v] = z
  <2>1. v \in 1 .. n + 1
    BY <1>3
  <2>2. v \in 1 .. n \/ v = n + 1
    BY <1>1, <2>1
  <2> QED
    BY <1>1, <1>2, <2>2
<1>6. ASSUME NEW v, NEW i, Holds(new, v, i)
      PROVE  Holds(itf, v, i) /\ new[v] = itf[v]
  <2>1. v \in DOMAIN new /\ i \in DOMAIN new[v].ttl_flows
    BY <1>6 DEF Holds
  <2>2. new[v] # z
    BY <2>1
  <2>3. v \in DOMAIN itf /\ new[v] = itf[v]
    BY <1>5, <2>1, <2>2
  <2> QED
    BY <1>6, <2>3 DEF Holds
<1>7. Keeps(new, itf)
  BY <1>6 DEF Keeps
<1>8. ASSUME NEW v \in DOMAIN new
      PROVE  /\ Counters(new[v])
             /\ \/ /\ v \in DOMAIN itf
                   /\ new[v].sent = itf[v].sent
                   /\ Answered(new[v]) <= Answered(itf[v]) + Cardinality(Owed(itf, fly \ fly, v))
                \/ Owed(new, fly, v) = {} /\ Answered(new[v]) = 0
  <2>1. CASE v \in DOMAIN itf /\ new[v] = itf[v]
    <3>1. Counters(itf[v]) /\ IsFiniteSet(fly)
      BY <2>1 DEF Accounted, Tokens, SentEnough
    <3>2. Answered(itf[v]) <= Answered(itf[v]) + Cardinality(Owed(itf, fly \ fly, v))
      BY <3>1, MoreAnswers
    <3> QED
      BY <2>1, <3>1, <3>2
  <2>2. CASE v = n + 1 /\ new[v] = z
    <3>1. \A i : ~ Holds(new, v, i)
      BY <2>2 DEF Holds
    <3>2. Owed(new, fly, v) = {}
      BY <3>1 DEF Owed
    <3> QED
      BY <2>2, <3>2
  <2> QED
    BY <1>5, <2>1, <2>2
<1>9. Tokens(new, fly, last)
  <2>1. fly \in SUBSET fly
    OBVIOUS
  <2> QED
    BY <1>4, <1>7, <1>8, <2>1, TokensKeep DEF Accounted
<1>10. \A v \in DOMAIN new : Formed(new[v])
  BY <1>5 DEF Accounted
<1> QED
  BY <1>9, <1>10 DEF Accounted, new

(* What is held when an interface has one flow more. *)
LEMMA AppendIs ==
    ASSUME NEW s, IsList(s), NEW e
    PROVE  /\ DOMAIN Append(s, e) = 1 .. Len(s) + 1
           /\ \A i \in DOMAIN s : Append(s, e)[i] = s[i]
           /\ Append(s, e)[Len(s) + 1] = e
           /\ \A i \in DOMAIN Append(s, e) : i \in DOMAIN s \/ i = Len(s) + 1
<1> DEFINE r == Append(s, e)
           n == Len(s)
<1>1. n \in Nat /\ DOMAIN s = 1 .. n
  BY ListDomain
<1>2. /\ IsList(r) /\ Len(r) = n + 1
      /\ \A i \in 1 .. n : r[i] = s[i]
      /\ r[n + 1] = e
  BY ListAppend
<1> HIDE DEF r, n
<1>3. DOMAIN r = 1 .. n + 1
  BY <1>2, ListDomain
<1> QED
  BY <1>1, <1>2, <1>3 DEF r, n

(* The answer to p is the furthest that its flow has come. *)
LEMMA BehindAnswer ==
    ASSUME NEW itf, NEW fly, NEW last, Tokens(itf, fly, last), NEW p \in fly
    PROVE  /\ Behind(itf, fly \ {p}, p.ttl, p.flow_id)
           /\ p.ttl \in Int /\ p.flow_id \in 1 .. last
<1>1. p.ttl \in Int /\ p.flow_id \in 1 .. last
  BY DEF Tokens, ProbesDiffer
<1>2. \A q \in fly \ {p} : q.flow_id # p.flow_id
  BY DEF Tokens, ProbesDiffer
<1>3. \A v, i : Holds(itf, v, i) /\ FlowOf(itf[v], i).id = p.flow_id =>
          FlowOf(itf[v], i).ttl < p.ttl /\ FlowOf(itf[v], i).state # "AVAILABLE"
  BY DEF Tokens, ProbesAhead
<1> QED
  BY <1>1, <1>2, <1>3 DEF Behind

(* A flow stays behind when no interface learns it. *)
LEMMA BehindKept ==
    ASSUME NEW itf, NEW fly, NEW ttl, NEW id, Behind(itf, fly, ttl, id), NEW new, Keeps(new, itf)
    PROVE  Behind(new, fly, ttl, id)
<1>1. ASSUME NEW v, NEW i, Holds(new, v, i), FlowOf(new[v], i).id = id
      PROVE  FlowOf(new[v], i).ttl < ttl /\ FlowOf(new[v], i).state # "AVAILABLE"
  <2>1. /\ Holds(itf, v, i)
        /\ FlowOf(new[v], i).ttl = FlowOf(itf[v], i).ttl
        /\ FlowOf(new[v], i).id = FlowOf(itf[v], i).id
        /\ FlowOf(new[v], i).state = "AVAILABLE" => FlowOf(itf[v], i).state = "AVAILABLE"
    BY <1>1 DEF Keeps
  <2> QED
    BY <1>1, <2>1 DEF Behind
<1> QED
  BY <1>1 DEF Behind

(* The flow of the answer is added to those of u. *)
LEMMA AccountedLearn ==
    ASSUME NEW itf, NEW fly, NEW last, Accounted(itf, fly, last),
           NEW u \in DOMAIN itf, IsList(itf[u].ttl_flows),
           NEW ttl \in Int, NEW id \in 1 .. last, Behind(itf, fly, ttl, id), NEW y,
           SameCounts(y, itf[u]), y.ttl_set = itf[u].ttl_set,
           y.ttl_flows = Append(itf[u].ttl_flows, Flow(ttl, id, "AVAILABLE"))
    PROVE  Accounted(Put(itf, u, y), fly, last)
<1> DEFINE new == Put(itf, u, y)
           x   == itf[u]
           s   == x.ttl_flows
           k   == Len(s) + 1
           e   == Flow(ttl, id, "AVAILABLE")
<1>1. IsPut(new, itf, u, y)
  BY HoldsPut
<1> HIDE DEF new
<1>2. DOMAIN new = DOMAIN itf /\ new[u] = y /\ \A v \in DOMAIN itf : v # u => new[v] = itf[v]
  BY <1>1 DEF IsPut
<1>3. /\ \A i \in DOMAIN s : y.ttl_flows[i] = s[i]
      /\ y.ttl_flows[k] = e
      /\ \A i \in DOMAIN y.ttl_flows : i \in DOMAIN s \/ i = k
  <2>1. PICK e2 : e2 = e
    OBVIOUS
  <2>2. PICK z : z = s
    OBVIOUS
  <2>3. IsList(z) /\ y.ttl_flows = Append(z, e2)
    BY <2>1, <2>2
  <2>4. PICK r : r = Append(z, e2)
    OBVIOUS
  <2>5. /\ \A i \in DOMAIN z : r[i] = z[i]
        /\ r[Len(z) + 1] = e2
        /\ \A i \in DOMAIN r : i \in DOMAIN z \/ i = Len(z) + 1
    BY ONLY <2>3, <2>4, AppendIs
  <2> HIDE DEF e, x, s
  <2> QED
    BY ONLY <2>1, <2>2, <2>3, <2>4, <2>5
<1> HIDE DEF s, k
<1>4. Formed(x) /\ Counters(x)
  BY DEF Accounted, Tokens, SentEnough
<1>5. Formed(y)
  <2>1. ASSUME NEW i \in DOMAIN y.ttl_flows
        PROVE  {"ttl", "id", "state"} \subseteq DOMAIN y.ttl_flows[i]
    <3>1. CASE i \in DOMAIN s
      BY <1>3, <1>4, <3>1 DEF Formed, s
    <3>2. CASE i = k
      BY <1>3, <3>2 DEF Flow
    <3> QED
      BY <1>3, <3>1, <3>2
  <2> QED
    BY <1>4, <2>1 DEF Formed
<1>6. Counters(y) /\ Answered(y) = Answered(x) /\ y.sent = x.sent
  BY <1>4 DEF Counters, Answered, SameCounts
<1>7. ASSUME NEW v, NEW i, Holds(new, v, i)
      PROVE  \/ Holds(itf, v, i) /\ FlowOf(new[v], i) = FlowOf(itf[v], i)
             \/ v = u /\ i = k /\ FlowOf(new[v], i) = e
  <2>1. CASE v # u
    BY <1>1, <1>7, <2>1 DEF IsPut
  <2>2. CASE v = u
    <3>1. i \in DOMAIN y.ttl_flows /\ FlowOf(y, i).state # "TESTING" /\ new[v] = y
      BY <1>1, <1>2, <1>7, <2>2 DEF IsPut
    <3>2. CASE i \in DOMAIN s
      <4>1. FlowOf(y, i) = FlowOf(x, i)
        BY <1>3, <3>2 DEF FlowOf, s
      <4> QED
        BY <2>2, <3>1, <3>2, <4>1 DEF Holds, s
    <3>3. CASE i = k
      BY <1>3, <2>2, <3>1, <3>3 DEF FlowOf
    <3> QED
      BY <1>3, <3>1, <3>2, <3>3
  <2> QED
    BY <2>1, <2>2
<1>8. \A v \in DOMAIN itf : Counters(new[v]) /\ Answered(new[v]) = Answered(itf[v])
                            /\ new[v].sent = itf[v].sent
  BY <1>2, <1>6 DEF Accounted, Tokens, SentEnough
<1>9. Tokens(new, fly, last)
  <2>1. Learns(new, itf, u, k, e) /\ Idle(new, itf)
    BY <1>7, <1>8 DEF Learns, Idle
  <2>2. Tokens(itf, fly, last)
    BY DEF Accounted
  <2> HIDE DEF x
  <2> QED
    BY <1>2, <2>1, <2>2, TokensLearn
<1>10. \A v \in DOMAIN new : Formed(new[v])
  BY <1>2, <1>5 DEF Accounted
<1> QED
  BY <1>9, <1>10 DEF Accounted, new

(* What is held when an interface has one flow less. *)
LEMMA RemoveIs ==
    ASSUME NEW s, IsList(s), NEW k \in 1 .. Len(s)
    PROVE  \A i \in DOMAIN RemoveAt(s, k) :
               /\ (IF i >= k THEN i + 1 ELSE i) \in DOMAIN s
               /\ RemoveAt(s, k)[i] = s[IF i >= k THEN i + 1 ELSE i]
               /\ i \in Int
<1> DEFINE n == Len(s)
           a == SubSeq(s, 1, k - 1)
           b == SubSeq(s, k + 1, n)
           r == RemoveAt(s, k)
<1>1. n \in Nat /\ DOMAIN s = 1 .. n
  BY ListDomain
<1>2. /\ IsList(a) /\ Len(a) = k - 1
      /\ \A i \in 1 .. k - 1 : a[i] = s[i]
  <2>1. k - 1 \in Nat /\ 1 >= 1 /\ k - 1 <= Len(s) /\ 1 <= (k - 1) + 1
    BY <1>1
  <2>2. /\ IsList(a) /\ Len(a) = (k - 1) - 1 + 1
        /\ \A i \in 1 .. (k - 1) - 1 + 1 : a[i] = s[i + (1 - 1)]
    <3> HIDE DEF n
    <3> QED
      BY <2>1, ListSub
  <2> HIDE DEF a
  <2>3. (k - 1) - 1 + 1 = k - 1 /\ \A i \in 1 .. k - 1 : i + (1 - 1) = i
    BY <1>1
  <2> QED
    BY <2>2, <2>3
<1>3. /\ IsList(b) /\ Len(b) = n - k
      /\ \A i \in 1 .. n - k : b[i] = s[i + k]
  <2>1. k + 1 \in Nat /\ k + 1 >= 1 /\ n <= Len(s) /\ k + 1 <= n + 1
    BY <1>1
  <2>2. /\ IsList(b) /\ Len(b) = n - (k + 1) + 1
        /\ \A i \in 1 .. n - (k + 1) + 1 : b[i] = s[i + ((k + 1) - 1)]
    BY <1>1, <2>1, ListSub
  <2> HIDE DEF b, n
  <2>3. n - (k + 1) + 1 = n - k /\ \A i \in 1 .. n - k : i + ((k + 1) - 1) = i + k
    BY <1>1
  <2> QED
    BY <2>2, <2>3
<1>4. r = a \o b
  BY DEF RemoveAt
<1> HIDE DEF a, b, r
<1>5. IsJoin(r, a, b)
  BY <1>2, <1>3, <1>4, JoinIs
<1>6. /\ DOMAIN r = 1 .. (k - 1) + (n - k)
      /\ \A i \in 1 .. k - 1 : r[i] = a[i]
      /\ \A i \in 1 .. n - k : r[(k - 1) + i] = b[i]
  BY <1>2, <1>3, <1>5 DEF IsJoin
<1>7. ASSUME NEW i \in DOMAIN r
      PROVE  /\ (IF i >= k THEN i + 1 ELSE i) \in DOMAIN s
             /\ r[i] = s[IF i >= k THEN i + 1 ELSE i]
             /\ i \in Int
  <2> HIDE DEF n
  <2>1. i \in 1 .. n - 1
    BY <1>1, <1>6
  <2>2. CASE i >= k
    <3> DEFINE j == i - (k - 1)
    <3>1. j \in 1 .. n - k /\ i = (k - 1) + j /\ j + k = i + 1 /\ i + 1 \in 1 .. n
      BY <1>1, <2>1, <2>2
    <3> HIDE DEF j
    <3>2. r[i] = s[i + 1]
      BY <1>3, <1>6, <3>1
    <3> QED
      BY <1>1, <2>1, <2>2, <3>1, <3>2
  <2>3. CASE ~ (i >= k)
    <3>1. i \in 1 .. k - 1 /\ i \in 1 .. n
      BY <1>1, <2>1, <2>3
    <3> QED
      BY <1>1, <1>2, <1>6, <2>1, <2>3, <3>1
  <2> QED
    BY <2>2, <2>3
<1> QED
  BY <1>7 DEF r

(* The first flow in a state is found, if there is one. *)
LEMMA FirstFlowFound ==
    ASSUME NEW x, IsList(x.ttl_flows), NEW id, NEW state,
           \E f \in Range(x.ttl_flows) : f.id = id /\ f.state = state
    PROVE  FirstFlow(x, id, state) \in 1 .. Len(x.ttl_flows)
<1> DEFINE s == x.ttl_flows
           I == {i \in 1 .. Len(s) : s[i].id = id /\ s[i].state = state}
<1>1. FirstFlow(x, id, state) = IF I # {} THEN Min(I) ELSE 0
  BY DEF FirstFlow, SelectInSeq
<1>2. Len(s) \in Nat /\ DOMAIN s = 1 .. Len(s)
  BY ListDomain
<1>3. I \in SUBSET Nat
  OBVIOUS
<1>4. I # {} => Min(I) \in I
  BY <1>3, LeastNumber DEF Min
<1>5. I # {}
  BY <1>2 DEF Range
<1> QED
  BY <1>1, <1>2, <1>4, <1>5

(* The interface that a search by state finds has a flow in that state. *)
LEMMA HolderHolds ==
    ASSUME NEW l, NEW itf, NEW ttl, NEW id, NEW state, Holder(l, itf, ttl, id, state) # << >>
    PROVE  /\ Holder(l, itf, ttl, id, state)[1] \in Elements(l)
           /\ \E f \in Range(itf[Holder(l, itf, ttl, id, state)[1]].ttl_flows) :
                f.id = id /\ f.state = state
<1> DEFINE hop  == {u \in Elements(l) : Contains(itf[u].ttl_set, ttl)}
           hits == {u \in hop : \E f \in Range(itf[u].ttl_flows) : f.id = id /\ f.state = state}
           below == Elements(l) \ hop
<1>1. Holder(l, itf, ttl, id, state) = Found(l, below, hits)
  BY DEF Holder
<1>2. ASSUME NEW u \in hits
      PROVE  u \in Elements(l) /\ \E f \in Range(itf[u].ttl_flows) : f.id = id /\ f.state = state
  OBVIOUS
<1> HIDE DEF hits, below
<1>3. Found(l, below, hits)[1] \in hits
  BY <1>1, FoundHits
<1> QED
  BY <1>1, <1>2, <1>3

(* A flow leaves an interface. *)
LEMMA AccountedRemove ==
    ASSUME NEW itf, 0 \notin DOMAIN itf, NEW fly, NEW last, Accounted(itf, fly, last),
           NEW u \in DOMAIN itf, IsList(itf[u].ttl_flows),
           NEW k \in 1 .. Len(itf[u].ttl_flows), NEW y,
           SameCounts(y, itf[u]), y.ttl_set = itf[u].ttl_set,
           y.ttl_flows = RemoveAt(itf[u].ttl_flows, k)
    PROVE  Accounted(Put(itf, u, y), fly, last)
<1> DEFINE new == Put(itf, u, y)
           x   == itf[u]
           s   == x.ttl_flows
<1>1. IsPut(new, itf, u, y)
  BY HoldsPut
<1> HIDE DEF new
<1>2. DOMAIN new = DOMAIN itf /\ new[u] = y /\ \A v \in DOMAIN itf : v # u => new[v] = itf[v]
  BY <1>1 DEF IsPut
<1>3. ASSUME NEW i \in DOMAIN y.ttl_flows
      PROVE  /\ Moved(u, k, u, i) \in DOMAIN s
             /\ FlowOf(y, i) = FlowOf(x, Moved(u, k, u, i))
             /\ i \in Int
  <2> DEFINE r == RemoveAt(s, k)
  <2>1. \A j \in DOMAIN r : /\ (IF j >= k THEN j + 1 ELSE j) \in DOMAIN s
                            /\ r[j] = s[IF j >= k THEN j + 1 ELSE j]
                            /\ j \in Int
    <3> HIDE DEF x
    <3> QED
      BY RemoveIs DEF x
  <2>2. y.ttl_flows = r
    OBVIOUS
  <2> HIDE DEF r, x
  <2> QED
    BY <2>1, <2>2 DEF Moved, FlowOf
<1> HIDE DEF s
<1>4. Formed(x) /\ Counters(x)
  BY DEF Accounted, Tokens, SentEnough
<1>5. Formed(y)
  <2>1. ASSUME NEW i \in DOMAIN y.ttl_flows
        PROVE  {"ttl", "id", "state"} \subseteq DOMAIN y.ttl_flows[i]
    BY <1>3, <1>4 DEF Formed, s, FlowOf
  <2> QED
    BY <1>4, <2>1 DEF Formed
<1>6. Counters(y) /\ Answered(y) = Answered(x) /\ y.sent = x.sent
  BY <1>4 DEF Counters, Answered, SameCounts
<1>7. ASSUME NEW i, Holds(new, u, i)
      PROVE  /\ Holds(itf, u, Moved(u, k, u, i))
             /\ FlowOf(new[u], i) = FlowOf(itf[u], Moved(u, k, u, i))
             /\ i \in Int
  <2>1. i \in DOMAIN y.ttl_flows /\ FlowOf(y, i).state # "TESTING"
    BY <1>1, <1>7 DEF IsPut
  <2>2. /\ Moved(u, k, u, i) \in DOMAIN s
        /\ FlowOf(y, i) = FlowOf(x, Moved(u, k, u, i))
        /\ i \in Int
    BY <1>3, <2>1
  <2> QED
    BY <1>2, <2>1, <2>2 DEF Holds, s
<1>8. ASSUME NEW v, NEW i, Holds(new, v, i)
      PROVE  /\ Holds(itf, v, Moved(u, k, v, i))
             /\ FlowOf(new[v], i) = FlowOf(itf[v], Moved(u, k, v, i))
  <2>1. CASE v = u
    BY <1>7, <1>8, <2>1
  <2>2. CASE v # u
    <3>1. Moved(u, k, v, i) = i
      BY <2>2 DEF Moved
    <3> QED
      BY <1>1, <1>8, <2>2, <3>1 DEF IsPut
  <2> QED
    BY <2>1, <2>2
<1>9. ASSUME NEW v, NEW i, NEW j, Holds(new, v, i), Holds(new, v, j), i # j
      PROVE  Moved(u, k, v, i) # Moved(u, k, v, j)
  <2>1. CASE v # u
    BY <1>9, <2>1 DEF Moved
  <2>2. CASE v = u
    <3>1. i \in Int /\ j \in Int /\ k \in Int
      BY <1>7, <1>9, <2>2
    <3> QED
      BY <1>9, <3>1 DEF Moved
  <2> QED
    BY <2>1, <2>2
<1>10. Embeds(new, itf, u, k)
  BY <1>8, <1>9 DEF Embeds
<1>11. ASSUME NEW v \in DOMAIN new
       PROVE  /\ Counters(new[v])
              /\ v \in DOMAIN itf
              /\ new[v].sent = itf[v].sent
              /\ Answered(new[v]) <= Answered(itf[v]) + Cardinality(Owed(itf, fly \ fly, v))
  <2>1. Counters(itf[v]) /\ IsFiniteSet(fly)
    BY <1>2 DEF Accounted, Tokens, SentEnough
  <2>2. Counters(new[v]) /\ new[v].sent = itf[v].sent /\ Answered(new[v]) = Answered(itf[v])
    BY <1>2, <1>6, <2>1
  <2> QED
    BY <1>2, <2>1, <2>2, MoreAnswers
<1>12. Tokens(new, fly, last)
  <2>1. fly \in SUBSET fly
    OBVIOUS
  <2> QED
    BY <1>10, <1>11, <2>1, TokensShrink DEF Accounted
<1>13. \A v \in DOMAIN new : Formed(new[v])
  BY <1>2, <1>5 DEF Accounted
<1> QED
  BY <1>12, <1>13 DEF Accounted, new

(* The removal of a flow under test counts nothing (mda_delete_flow). *)
LEMMA DeleteFlowCounts ==
    ASSUME NEW l, NEW itf, Sound(l, itf), NEW ttl, NEW id
    PROVE  \A v \in Elements(l) : SameCounts(DeleteFlow(l, itf, ttl, id)[v], itf[v])
<1> DEFINE holder == Holder(l, itf, ttl, id, "TESTING")
           u == holder[1]
           i == FirstFlow(itf[u], id, "TESTING")
<1>1. DeleteFlow(l, itf, ttl, id) =
        IF holder = << >> THEN itf ELSE [itf EXCEPT ![u].ttl_flows = RemoveAt(@, i)]
  BY DEF DeleteFlow
<1> HIDE DEF holder, i
<1>2. ASSUME NEW v \in Elements(l)
      PROVE  SameCounts([itf EXCEPT ![u].ttl_flows = RemoveAt(@, i)][v], itf[v])
  <2>1. Fields \subseteq DOMAIN itf[v] /\ v \in DOMAIN itf
    BY SoundDomain DEF Sound, Within
  <2>2. PICK t : t = RemoveAt(itf[u].ttl_flows, i)
    OBVIOUS
  <2>3. [itf EXCEPT ![u].ttl_flows = RemoveAt(@, i)] = [itf EXCEPT ![u].ttl_flows = t]
    BY <2>2
  <2>4. SameCounts([itf EXCEPT ![u].ttl_flows = t][v], itf[v])
    BY <2>1 DEF Fields, SameCounts
  <2> QED
    BY <2>3, <2>4
<1>3. \A v \in Elements(l) : SameCounts(itf[v], itf[v])
  BY DEF SameCounts
<1> QED
  BY <1>1, <1>2, <1>3

(* The removal of a flow under test keeps the tokens. *)
LEMMA DeleteFlowAccounted ==
    ASSUME NEW l, NEW itf, Sound(l, itf), NEW ttl, NEW id,
           NEW fly, NEW last, Accounted(itf, fly, last)
    PROVE  Accounted(DeleteFlow(l, itf, ttl, id), fly, last)
<1> DEFINE holder == Holder(l, itf, ttl, id, "TESTING")
           u == holder[1]
           x == itf[u]
           k == FirstFlow(x, id, "TESTING")
           t == RemoveAt(x.ttl_flows, k)
           y == [x EXCEPT !.ttl_flows = t]
<1>1. CASE holder = << >>
  BY <1>1 DEF DeleteFlow
<1>2. CASE holder # << >>
  <2>1. u \in Elements(l) /\ \E f \in Range(itf[u].ttl_flows) : f.id = id /\ f.state = "TESTING"
    BY <1>2, HolderHolds
  <2>2. DeleteFlow(l, itf, ttl, id) = [itf EXCEPT ![u].ttl_flows = RemoveAt(@, k)]
    BY <1>2 DEF DeleteFlow
  <2> HIDE DEF holder, k
  <2>3. u \in DOMAIN itf /\ 0 \notin DOMAIN itf /\ Fields \subseteq DOMAIN x /\ IsList(x.ttl_flows)
    BY <2>1, SoundDomain DEF Sound, Within
  <2>4. k \in 1 .. Len(x.ttl_flows)
    BY <2>1, <2>3, FirstFlowFound DEF k
  <2>5. DeleteFlow(l, itf, ttl, id) = Put(itf, u, y)
    <3>1. [itf EXCEPT ![u].ttl_flows = RemoveAt(@, k)] = [itf EXCEPT ![u] = y]
      OBVIOUS
    <3> HIDE DEF y
    <3> QED
      BY <2>2, <3>1 DEF Put
  <2> HIDE DEF t
  <2>6. y.ttl_flows = t /\ SameCounts(y, x) /\ y.ttl_set = x.ttl_set
    BY <2>3 DEF Fields, SameCounts
  <2> HIDE DEF y
  <2>7. Accounted(Put(itf, u, y), fly, last)
    BY <2>3, <2>4, <2>6, AccountedRemove DEF t
  <2> QED
    BY <2>5, <2>7
<1> QED
  BY <1>1, <1>2

(* The mark of a timeout counts nothing (mda_timeout_flow). *)
LEMMA MarkTimeoutCounts ==
    ASSUME NEW l, NEW itf, Sound(l, itf), NEW u, NEW id
    PROVE  \A v \in Elements(l) : SameCounts(MarkTimeout(itf, u, id)[v], itf[v])
<1> DEFINE i == FirstFlow(itf[u], id, "UNAVAILABLE")
           t == [itf[u].ttl_flows EXCEPT ![i].state = "TIMEOUT"]
<1>1. MarkTimeout(itf, u, id) = itf \/ MarkTimeout(itf, u, id) = [itf EXCEPT ![u].ttl_flows = t]
  <2>1. MarkTimeout(itf, u, id) =
          IF i = 0 THEN itf ELSE [itf EXCEPT ![u].ttl_flows[i].state = "TIMEOUT"]
    BY DEF MarkTimeout
  <2> HIDE DEF i
  <2> QED
    BY <2>1
<1> HIDE DEF t
<1>2. ASSUME NEW v \in Elements(l)
      PROVE  SameCounts([itf EXCEPT ![u].ttl_flows = t][v], itf[v])
  <2>1. Fields \subseteq DOMAIN itf[v] /\ v \in DOMAIN itf
    BY SoundDomain DEF Sound, Within
  <2> QED
    BY <2>1 DEF Fields, SameCounts
<1>3. \A v \in Elements(l) : SameCounts(itf[v], itf[v])
  BY DEF SameCounts
<1> QED
  BY <1>1, <1>2, <1>3

(* The mark of a timeout keeps the tokens. *)
LEMMA MarkTimeoutAccounted ==
    ASSUME NEW l, NEW itf, Sound(l, itf), NEW u \in Elements(l), NEW id,
           NEW fly, NEW last, Accounted(itf, fly, last)
    PROVE  Accounted(MarkTimeout(itf, u, id), fly, last)
<1> DEFINE x == itf[u]
           i == FirstFlow(x, id, "UNAVAILABLE")
           s == x.ttl_flows
           e == [s[i] EXCEPT !.state = "TIMEOUT"]
           t == [s EXCEPT ![i] = e]
           y == [x EXCEPT !.ttl_flows = t]
<1>1. CASE i = 0
  BY <1>1 DEF MarkTimeout
<1>2. CASE i # 0
  <2>1. u \in DOMAIN itf /\ 0 \notin DOMAIN itf /\ Fields \subseteq DOMAIN x /\ IsList(s)
    BY SoundDomain DEF Sound, Within
  <2>2. i \in DOMAIN s
    BY <1>2, <2>1, FirstFlowType, ListDomain
  <2>3. MarkTimeout(itf, u, id) = [itf EXCEPT ![u].ttl_flows[i].state = "TIMEOUT"]
    BY <1>2 DEF MarkTimeout
  <2> HIDE DEF i
  <2>4. MarkTimeout(itf, u, id) = Put(itf, u, y)
    BY <2>3 DEF Put
  <2>5. Formed(x) /\ Counters(x) /\ IsFiniteSet(fly)
    BY <2>1 DEF Accounted, Tokens, SentEnough
  <2>6. {"ttl", "id", "state"} \subseteq DOMAIN s[i]
    BY <2>2, <2>5 DEF Formed
  <2>7. DOMAIN e = DOMAIN s[i] /\ e.ttl = s[i].ttl /\ e.id = s[i].id /\ e.state = "TIMEOUT"
    BY <2>6
  <2> HIDE DEF e
  <2>8. DOMAIN t = DOMAIN s /\ t[i] = e /\ \A j \in DOMAIN s : j # i => t[j] = s[j]
    BY <2>2
  <2> HIDE DEF t
  <2>9. y.ttl_flows = t /\ SameCounts(y, x) /\ y.ttl_set = x.ttl_set
    BY <2>1 DEF Fields, SameCounts
  <2> HIDE DEF y
  <2>10. Formed(y)
    <3>1. ASSUME NEW j \in DOMAIN y.ttl_flows
          PROVE  {"ttl", "id", "state"} \subseteq DOMAIN y.ttl_flows[j]
      BY <2>5, <2>6, <2>7, <2>8, <2>9 DEF Formed
    <3> QED
      BY <2>5, <2>9, <3>1 DEF Formed
  <2>11. Counters(y) /\ Answered(y) = Answered(x) /\ y.sent = x.sent
    BY <2>5, <2>9 DEF Counters, Answered, SameCounts
  <2>12. Accounted(Put(itf, u, y), fly, last)
    <3>1. CASE e.state = "TESTING" \/ s[i].state # "TESTING"
      <4>1. FlowsKept(y, x)
        BY <2>2, <2>7, <2>8, <2>9, <3>1 DEF FlowsKept, FlowOf
      <4>2. Answered(y) <= Answered(x) + Cardinality(Owed(itf, fly \ fly, u))
        BY <2>5, <2>11, MoreAnswers
      <4>3. fly \in SUBSET fly
        OBVIOUS
      <4> QED
        BY <2>1, <2>10, <2>11, <4>1, <4>2, <4>3, AccountedPut
    <3>2. s[i].state # "TESTING"
      <4> DEFINE I == {j \in 1 .. Len(s) : s[j].id = id /\ s[j].state = "UNAVAILABLE"}
      <4>1. i = IF I # {} THEN Min(I) ELSE 0
        BY DEF i, FirstFlow, SelectInSeq
      <4>2. I \in SUBSET Nat
        OBVIOUS
      <4>3. I # {} => Min(I) \in I
        BY <4>2, LeastNumber DEF Min
      <4> QED
        BY <1>2, <4>1, <4>3
    <3> QED
      BY <3>1, <3>2
  <2> QED
    BY <2>4, <2>12
<1> QED
  BY <1>1, <1>2

(* The interface that an answer adds. *)
LEMMA NewInterfaceAccounted ==
    ASSUME NEW address, NEW ttl \in Int, NEW stars, NEW z, z = NewInterface(address, ttl, stars)
    PROVE  Formed(z) /\ Counters(z) /\ Answered(z) = 0 /\ z.ttl_flows = << >>
<1>1. /\ z.sent = 0 /\ z.received = 0 /\ z.timeout = 0
      /\ z.ttl_flows = << >> /\ z.ttl_set = <<ttl>>
  BY DEF NewInterface
<1>2. Counters(z) /\ Answered(z) = 0
  BY <1>1 DEF Counters, Answered
<1>3. z.ttl_set \in Seq(Int) /\ Len(z.ttl_set) = 1 /\ z.ttl_set[1] = ttl
  BY <1>1
<1>4. IsList(z.ttl_set)
  BY <1>3 DEF IsList
<1>5. \A i \in 1 .. Len(z.ttl_set) : z.ttl_set[i] \in Int
  BY <1>3
<1>6. DOMAIN z.ttl_flows = {}
  BY <1>1
<1>7. Formed(z)
  BY <1>3, <1>4, <1>5, <1>6 DEF Formed
<1> QED
  BY <1>1, <1>2, <1>7

(* The ttls of an interface change. *)
LEMMA TtlsAccounted ==
    ASSUME NEW l, NEW itf, Sound(l, itf), NEW u \in Elements(l), NEW ttls, AreTtls(ttls),
           NEW fly, NEW last, Accounted(itf, fly, last)
    PROVE  Accounted([itf EXCEPT ![u].ttl_set = ttls], fly, last)
<1> DEFINE x == itf[u]
           y == [x EXCEPT !.ttl_set = ttls]
<1>1. u \in DOMAIN itf /\ 0 \notin DOMAIN itf /\ Fields \subseteq DOMAIN x
  BY SoundDomain DEF Sound, Within
<1>2. [itf EXCEPT ![u].ttl_set = ttls] = Put(itf, u, y)
  BY DEF Put
<1>3. Formed(x) /\ Counters(x) /\ IsFiniteSet(fly)
  BY <1>1 DEF Accounted, Tokens, SentEnough
<1>4. SameCounts(y, x) /\ y.ttl_flows = x.ttl_flows /\ y.ttl_set = ttls
  BY <1>1 DEF Fields, SameCounts
<1> HIDE DEF y
<1>5. Formed(y)
  BY <1>3, <1>4 DEF Formed, AreTtls
<1>6. Counters(y) /\ Answered(y) = Answered(x) /\ y.sent = x.sent
  BY <1>3, <1>4 DEF Counters, Answered, SameCounts
<1>7. FlowsKept(y, x)
  BY <1>4, SameFlowsKept
<1>8. Answered(y) <= Answered(x) + Cardinality(Owed(itf, fly \ fly, u))
  BY <1>3, <1>6, MoreAnswers
<1>9. fly \in SUBSET fly
  OBVIOUS
<1>10. Accounted(Put(itf, u, y), fly, last)
  BY <1>1, <1>5, <1>6, <1>7, <1>8, <1>9, AccountedPut
<1> QED
  BY <1>2, <1>10

(* An answer is counted by the interface that waits for it. *)
LEMMA CountAccounted ==
    ASSUME NEW l, NEW itf, Sound(l, itf), NEW u \in Elements(l),
           NEW fly, NEW last, Accounted(itf, fly, last), NEW p, p \in Owed(itf, fly, u)
    PROVE  /\ Accounted([itf EXCEPT ![u].received = @ + 1], fly \ {p}, last)
           /\ Accounted([itf EXCEPT ![u].timeout = @ + 1], fly \ {p}, last)
<1> DEFINE x == itf[u]
           r == [x EXCEPT !.received = x.received + 1]
           t == [x EXCEPT !.timeout = x.timeout + 1]
<1>1. u \in DOMAIN itf /\ 0 \notin DOMAIN itf /\ Fields \subseteq DOMAIN x
  BY SoundDomain DEF Sound, Within
<1>2. /\ SameFlows(r, x) /\ r.sent = x.sent /\ r.address = x.address
      /\ r.received = x.received + 1 /\ r.timeout = x.timeout
  BY <1>1 DEF Fields, SameFlows
<1>3. /\ SameFlows(t, x) /\ t.sent = x.sent /\ t.address = x.address
      /\ t.received = x.received /\ t.timeout = x.timeout + 1
  BY <1>1 DEF Fields, SameFlows
<1>4. /\ [itf EXCEPT ![u].received = @ + 1] = Put(itf, u, r)
      /\ [itf EXCEPT ![u].timeout = @ + 1] = Put(itf, u, t)
  BY DEF Put
<1> HIDE DEF r, t
<1>5. Accounted(Put(itf, u, r), fly \ {p}, last)
  BY <1>1, <1>2, AccountedCount
<1>6. Accounted(Put(itf, u, t), fly \ {p}, last)
  BY <1>1, <1>3, AccountedCount
<1> QED
  BY <1>4, <1>5, <1>6

-----------------------------------------------------------------------------
(* A reply, step by step *)

(* An answer that has a source is one that the source waits for. *)
LEMMA SourceOwed ==
    ASSUME Running, NEW p \in flying, p.ttl \in Int, Source(p.ttl - 1, p.flow_id) # << >>
    PROVE  p \in Owed(interfaces, flying, Source(p.ttl - 1, p.flow_id)[1])
<1> DEFINE ttl   == p.ttl - 1
           id    == p.flow_id
           hop   == {u \in Elements(lattice) : HasTtl(u, ttl)}
           below == {u \in Elements(lattice) : u \in hop => Len(interfaces[u].ttl_set) > 1}
           hits  == {u \in hop : \E f \in Range(interfaces[u].ttl_flows) :
                       f.ttl = ttl /\ f.id = id /\ f.state # "TESTING"}
<1>1. Source(ttl, id) = Found(lattice, below, hits)
  BY DEF Source
<1>2. PICK u : u = Source(ttl, id)[1]
  OBVIOUS
<1>3. u \in hits
  <2> HIDE DEF hits, below
  <2> QED
    BY <1>1, <1>2, FoundHits
<1>4. u \in DOMAIN interfaces
  BY <1>3, SoundDomain DEF Running
<1>5. PICK f \in Range(interfaces[u].ttl_flows) : f.ttl = ttl /\ f.id = id /\ f.state # "TESTING"
  BY <1>3
<1>6. PICK i : Holds(interfaces, u, i) /\ FlowOf(interfaces[u], i) = f
  BY <1>4, <1>5 DEF Range, Holds, FlowOf
<1>7. p \in Owed(interfaces, flying, u)
  BY <1>5, <1>6 DEF Owed, SentFrom
<1> QED
  BY <1>2, <1>7

(* No probe in flight has a source when the lattice is finished: the source would *)
(* wait for it.                                                                   *)
LEMMA FinishedNoSource ==
    ASSUME Running, Tokens(interfaces, flying, last_flow_id), Finished(lattice, interfaces),
           NEW p \in flying
    PROVE  Source(p.ttl - 1, p.flow_id) = << >>
<1> DEFINE ttl   == p.ttl - 1
           id    == p.flow_id
           hop   == {u \in Elements(lattice) : HasTtl(u, ttl)}
           below == {u \in Elements(lattice) : u \in hop => Len(interfaces[u].ttl_set) > 1}
           hits  == {u \in hop : \E f \in Range(interfaces[u].ttl_flows) :
                       f.ttl = ttl /\ f.id = id /\ f.state # "TESTING"}
           done  == DoneIn(lattice, interfaces)
<1>1. SUFFICES ASSUME Source(ttl, id) # << >> PROVE FALSE
  OBVIOUS
<1>2. Source(ttl, id) = Found(lattice, below, hits)
  BY DEF Source
<1>3. PICK u : u = Source(ttl, id)[1]
  OBVIOUS
<1>4. IsLattice(lattice) /\ Len(lattice.next) # 0 /\ DOMAIN interfaces = Elements(lattice)
  BY SoundDomain DEF Running, Sound
<1>5. u \in hits /\ u \in Range(Walk(lattice, below))
  <2> HIDE DEF hits, below
  <2> QED
    BY <1>1, <1>2, <1>3, <1>4, FoundHits, FoundOnWalk
<1>6. u \in done
  <2> HIDE DEF done, below
  <2>1. Range(Walk(lattice, done)) \subseteq done
    BY DEF Finished, done
  <2>2. Range(Walk(lattice, below)) \subseteq done
    BY <1>4, <2>1, WalkReachesAll
  <2> QED
    BY <1>5, <2>2
<1>7. u \in Elements(lattice) /\ Enumerated(lattice, interfaces, u)
  BY <1>6 DEF DoneIn
<1>8. p.ttl \in Int
  BY DEF Tokens, ProbesDiffer
<1>9. p \in Owed(interfaces, flying, u)
  BY <1>1, <1>3, <1>8, SourceOwed
<1> DEFINE x == interfaces[u]
           c == Cardinality(Owed(interfaces, flying, u))
<1>10. Counters(x) /\ c + Answered(x) <= x.sent
  BY <1>4, <1>7 DEF Tokens, SentEnough
<1>11. c \in Nat /\ c # 0
  <2>1. IsFiniteSet(Owed(interfaces, flying, u)) /\ c \in Nat
    BY OwedFinite DEF Tokens
  <2>2. c # 0
    BY <1>9, <2>1, FS_EmptySet
  <2> QED
    BY <2>1, <2>2
<1>12. x.sent \in Nat /\ Answered(x) \in Nat /\ x.received \in Nat /\ x.timeout \in Nat
  BY <1>10, AnsweredType
<1>13. x.sent # x.received + x.timeout
  <2> HIDE DEF x, c
  <2> QED
    BY <1>10, <1>11, <1>12 DEF Answered
<1>14. x.sent # 0
  <2> HIDE DEF x, c
  <2> QED
    BY <1>10, <1>11, <1>12
<1>15. AllAnswered(x) \/ x.address = Dst
  BY <1>7 DEF Enumerated
<1> QED
  BY <1>10, <1>13, <1>14, <1>15 DEF AllAnswered, Counters

(* A reply counted and linked keeps the tokens. *)
LEMMA LinkedAccounted ==
    ASSUME Running, NEW u \in Elements(lattice), NEW m, Grows(lattice, m),
           NEW dest, NEW address, NEW ttl \in Int,
           IF dest = 0 THEN Len(m.next) = Len(lattice.next) + 1
           ELSE dest \in Elements(lattice) /\ Len(m.next) = Len(lattice.next),
           NEW last, Accounted(interfaces, flying, last),
           NEW p, p \in Owed(interfaces, flying, u)
    PROVE  /\ Accounted(Linked(u, dest, address, ttl), flying \ {p}, last)
           /\ Behind(Linked(u, dest, address, ttl), flying \ {p}, p.ttl, p.flow_id)
<1> DEFINE ttls  == AddTtls(interfaces[dest].ttl_set, interfaces[u].ttl_set)
           grown == IF dest = 0 THEN Append(interfaces, NewInterface(address, ttl, 0))
                    ELSE [interfaces EXCEPT ![dest].ttl_set = ttls]
<1>1. u \in Elements(m) /\ u \in DOMAIN interfaces /\ Sound(lattice, interfaces) /\ IsList(interfaces)
  BY LatticeTypes, SoundDomain DEF Grows, Running, Sound
<1>2. Linked(u, dest, address, ttl) = [grown EXCEPT ![u].received = @ + 1]
  BY DEF Linked
<1>3. Sound(m, grown) /\ Accounted(grown, flying, last) /\ grown[u].ttl_flows = interfaces[u].ttl_flows
  <2>1. CASE dest = 0
    <3>1. PICK y : y = NewInterface(address, ttl, 0)
      OBVIOUS
    <3>2. Within(y, 0)
      BY <3>1, NewInterfaceWithin
    <3>3. Sound(m, Append(interfaces, y))
      BY <2>1, <3>2, SoundAppend DEF Running
    <3>4. Formed(y) /\ Counters(y) /\ Answered(y) = 0 /\ y.ttl_flows = << >>
      BY <3>1, NewInterfaceAccounted
    <3>5. Accounted(Append(interfaces, y), flying, last)
      BY <1>1, <3>4, AccountedAppend
    <3>6. Append(interfaces, y)[u] = interfaces[u]
      BY <1>1, AppendIs
    <3> QED
      BY <2>1, <3>1, <3>3, <3>5, <3>6
  <2>2. CASE dest # 0
    <3>1. dest \in Elements(lattice) /\ dest \in DOMAIN interfaces
      BY <2>2, SoundDomain DEF Running
    <3>2. AreTtls(ttls)
      <4>1. Formed(interfaces[dest]) /\ Formed(interfaces[u])
        BY <1>1, <3>1 DEF Accounted
      <4>2. AreTtls(interfaces[dest].ttl_set) /\ AreTtls(interfaces[u].ttl_set)
        BY <4>1 DEF Formed, AreTtls
      <4> QED
        BY <4>2, AddTtlsType
    <3> HIDE DEF ttls
    <3>3. Sound(lattice, [interfaces EXCEPT ![dest].ttl_set = ttls])
      BY <2>2, TtlsSound DEF Running
    <3>4. Sound(m, [interfaces EXCEPT ![dest].ttl_set = ttls])
      BY <2>2, <3>3, SoundGrows
    <3>5. Accounted([interfaces EXCEPT ![dest].ttl_set = ttls], flying, last)
      BY <1>1, <3>1, <3>2, TtlsAccounted
    <3>6. [interfaces EXCEPT ![dest].ttl_set = ttls][u].ttl_flows = interfaces[u].ttl_flows
      <4>1. Fields \subseteq DOMAIN interfaces[u]
        BY <1>1 DEF Sound, Within
      <4> QED
        BY <1>1, <4>1 DEF Fields
    <3> QED
      BY <2>2, <3>4, <3>5, <3>6
  <2> QED
    BY <2>1, <2>2
<1> HIDE DEF grown
<1>4. u \in DOMAIN grown /\ p \in flying
  BY <1>1, <1>3, SoundDomain DEF Owed
<1>5. p \in Owed(grown, flying, u)
  BY <1>1, <1>3, <1>4 DEF Owed, Holds, FlowOf
<1>6. PICK r : r = [grown EXCEPT ![u].received = @ + 1]
  OBVIOUS
<1>7. Accounted(r, flying \ {p}, last)
  BY <1>1, <1>3, <1>5, <1>6, CountAccounted
<1>8. Behind(grown, flying \ {p}, p.ttl, p.flow_id)
  BY <1>3, <1>4, BehindAnswer DEF Accounted
<1>9. Keeps(r, grown)
  <2>1. ASSUME NEW v, NEW i, Holds(r, v, i)
        PROVE  Holds(grown, v, i) /\ FlowOf(r[v], i) = FlowOf(grown[v], i)
    <3>1. v \in DOMAIN grown /\ v \in Elements(m)
      BY <1>3, <1>6, <2>1, SoundDomain DEF Holds
    <3>2. Fields \subseteq DOMAIN grown[v]
      BY <1>3, <3>1 DEF Sound, Within
    <3>3. r[v].ttl_flows = grown[v].ttl_flows
      BY <1>6, <3>1, <3>2 DEF Fields
    <3> QED
      BY <2>1, <3>1, <3>3 DEF Holds, FlowOf
  <2> QED
    BY <2>1 DEF Keeps
<1>10. Behind(r, flying \ {p}, p.ttl, p.flow_id)
  BY <1>8, <1>9, BehindKept
<1> QED
  BY <1>2, <1>6, <1>7, <1>10

(* What the reply address to the probe p does, step by step: the interface that *)
(* answers, the lattice, the interfaces once they are linked, and once the one  *)
(* that answers has the flow.                                                   *)
Sender(p) == Source(p.ttl - 1, p.flow_id)

DestOf(p, address) ==
    IF WithAddress(address) # << >> THEN WithAddress(address)[1]
    ELSE IF Sender(p) # << >> THEN Len(interfaces) + 1 ELSE 0

LatticeAfter(p, address) ==
    IF Sender(p) = << >> THEN lattice
    ELSE IF WithAddress(address) # << >> THEN Connect(lattice, Sender(p)[1], DestOf(p, address))
    ELSE AddElement(lattice, Sender(p)[1])

LinkedAfter(p, address) ==
    IF Sender(p) = << >> THEN interfaces
    ELSE Linked(Sender(p)[1], IF WithAddress(address) = << >> THEN 0 ELSE DestOf(p, address),
                address, p.ttl)

FilledAfter(p, address) ==
    IF DestOf(p, address) = 0 THEN LinkedAfter(p, address)
    ELSE [LinkedAfter(p, address) EXCEPT ![DestOf(p, address)].ttl_flows =
            Append(@, Flow(p.ttl, p.flow_id, "AVAILABLE"))]

(* The reply, then the walk. *)
LEMMA RepliedIs ==
    ASSUME NEW p, NEW address
    PROVE  \E told : Replied(p, address) =
               Processed(LatticeAfter(p, address),
                         DeleteFlow(LatticeAfter(p, address), FilledAfter(p, address), p.ttl, p.flow_id),
                         told)
<1> DEFINE told == IF Sender(p) = << >> THEN {}
                   ELSE NewLinks(LinkedAfter(p, address), Sender(p)[1], {DestOf(p, address)})
<1>1. Replied(p, address) =
          Processed(LatticeAfter(p, address),
                    DeleteFlow(LatticeAfter(p, address), FilledAfter(p, address), p.ttl, p.flow_id),
                    told)
  BY DEF Replied, LatticeAfter, FilledAfter, LinkedAfter, DestOf, Sender
<1> QED
  BY <1>1

(* The interfaces once they are linked. *)
LEMMA LinkedAfterSound ==
    ASSUME Running, NEW p, NEW address
    PROVE  /\ Sound(LatticeAfter(p, address), LinkedAfter(p, address))
           /\ Len(LatticeAfter(p, address).next) # 0
           /\ DestOf(p, address) # 0 => DestOf(p, address) \in Elements(LatticeAfter(p, address))
           /\ \A last : /\ Accounted(interfaces, flying, last)
                        /\ p \in flying
                        => /\ Accounted(LinkedAfter(p, address), flying \ {p}, last)
                           /\ Behind(LinkedAfter(p, address), flying \ {p}, p.ttl, p.flow_id)
<1> DEFINE known  == WithAddress(address)
           source == Sender(p)
           dest   == DestOf(p, address)
           l      == LatticeAfter(p, address)
           itf    == LinkedAfter(p, address)
           ttl    == p.ttl
<1>1. known # << >> => known[1] \in Elements(lattice)
  BY WithAddressType
<1>2. source # << >> => source[1] \in Elements(lattice)
  BY SourceType DEF Sender
<1>3. Len(interfaces) = Len(lattice.next) /\ Len(lattice.next) \in Nat /\ Elements(lattice) = 1 .. Len(lattice.next)
  BY LatticeTypes DEF Running, Sound
<1>4. IsLattice(lattice) /\ 0 \notin DOMAIN interfaces
  BY SoundDomain DEF Running, Sound
<1>5. ASSUME NEW last, Accounted(interfaces, flying, last), p \in flying
      PROVE  /\ p.ttl \in Int
             /\ Behind(interfaces, flying \ {p}, p.ttl, p.flow_id)
             /\ source # << >> => p \in Owed(interfaces, flying, source[1])
  <2>1. p.ttl \in Int /\ Behind(interfaces, flying \ {p}, p.ttl, p.flow_id)
    BY <1>5, BehindAnswer DEF Accounted
  <2> QED
    BY <1>5, <2>1, SourceOwed DEF Sender
<1>6. CASE source = << >>
  <2>1. l = lattice /\ itf = interfaces /\ (dest # 0 => dest \in Elements(lattice))
    BY <1>1, <1>6 DEF LatticeAfter, LinkedAfter, DestOf
  <2>2. ASSUME NEW last, Accounted(interfaces, flying, last), p \in flying
        PROVE  Accounted(interfaces, flying \ {p}, last) /\ Behind(interfaces, flying \ {p}, p.ttl, p.flow_id)
    <3>1. flying \ {p} \in SUBSET flying
      OBVIOUS
    <3> QED
      BY <1>4, <1>5, <2>2, <3>1, AccountedLess
  <2> HIDE DEF l, itf, dest
  <2>3. /\ Sound(l, itf)
        /\ Len(l.next) # 0
        /\ dest # 0 => dest \in Elements(l)
    BY <2>1 DEF Running
  <2>4. \A last : Accounted(interfaces, flying, last) /\ p \in flying
                    => Accounted(itf, flying \ {p}, last) /\ Behind(itf, flying \ {p}, p.ttl, p.flow_id)
    BY <2>1, <2>2
  <2> QED
    BY <2>3, <2>4 DEF l, itf, dest
<1>7. CASE source # << >> /\ known = << >>
  <2> DEFINE u == source[1]
  <2>1. /\ l = AddElement(lattice, u)
        /\ itf = Linked(u, 0, address, ttl)
        /\ dest = Len(interfaces) + 1
    BY <1>7 DEF LatticeAfter, LinkedAfter, DestOf
  <2>2. u \in Elements(lattice)
    BY <1>2, <1>7
  <2>3. \A last : Accounted(interfaces, flying, last) /\ p \in flying
                    => p.ttl \in Int /\ p \in Owed(interfaces, flying, u)
    BY <1>5, <1>7
  <2> HIDE DEF l, itf, dest, u, ttl
  <2>4. Grows(lattice, l) /\ Len(l.next) = Len(lattice.next) + 1
    BY <1>4, <2>1, <2>2, AddElementGrows
  <2>5. Sound(l, Linked(u, 0, address, ttl))
    BY <2>2, <2>4, LinkedSound
  <2>6. Elements(l) = 1 .. Len(lattice.next) + 1
    BY <2>4 DEF Elements
  <2>7. /\ Sound(l, itf)
        /\ Len(l.next) # 0
        /\ dest # 0 => dest \in Elements(l)
    BY <1>3, <2>1, <2>4, <2>5, <2>6
  <2>8. ASSUME NEW last, Accounted(interfaces, flying, last), p \in flying
        PROVE  Accounted(itf, flying \ {p}, last) /\ Behind(itf, flying \ {p}, p.ttl, p.flow_id)
    <3>1. ttl \in Int /\ p \in Owed(interfaces, flying, u)
      BY <2>3, <2>8 DEF ttl
    <3> QED
      BY <2>1, <2>2, <2>4, <2>8, <3>1, LinkedAccounted
  <2> QED
    BY <2>7, <2>8 DEF l, itf, dest
<1>8. CASE source # << >> /\ known # << >>
  <2> DEFINE u == source[1]
  <2>1. /\ l = Connect(lattice, u, dest)
        /\ itf = Linked(u, dest, address, ttl)
        /\ dest = known[1]
    BY <1>8 DEF LatticeAfter, LinkedAfter, DestOf
  <2>2. u \in Elements(lattice)
    BY <1>2, <1>8
  <2>3. \A last : Accounted(interfaces, flying, last) /\ p \in flying
                    => p.ttl \in Int /\ p \in Owed(interfaces, flying, u)
    BY <1>5, <1>8
  <2>4. dest \in Elements(lattice) /\ dest # 0
    BY <1>1, <1>3, <1>8, <2>1
  <2> HIDE DEF l, itf, dest, u, ttl
  <2>5. Grows(lattice, l) /\ Len(l.next) = Len(lattice.next)
    BY <1>4, <2>1, <2>2, <2>4, ConnectGrows
  <2>6. Sound(l, Linked(u, dest, address, ttl))
    BY <2>2, <2>4, <2>5, LinkedSound
  <2>7. Elements(l) = Elements(lattice)
    BY <2>5 DEF Elements
  <2>8. Len(lattice.next) # 0
    BY DEF Running
  <2>9. /\ Sound(l, itf)
        /\ Len(l.next) # 0
        /\ dest # 0 => dest \in Elements(l)
    BY <2>1, <2>4, <2>5, <2>6, <2>7, <2>8
  <2>10. ASSUME NEW last, Accounted(interfaces, flying, last), p \in flying
         PROVE  Accounted(itf, flying \ {p}, last) /\ Behind(itf, flying \ {p}, p.ttl, p.flow_id)
    <3>1. ttl \in Int /\ p \in Owed(interfaces, flying, u)
      BY <2>3, <2>10 DEF ttl
    <3> QED
      BY <2>1, <2>2, <2>4, <2>5, <2>10, <3>1, LinkedAccounted
  <2> QED
    BY <2>9, <2>10 DEF l, itf, dest
<1> QED
  BY <1>6, <1>7, <1>8

(* The interfaces once the one that answers has the flow. *)
LEMMA FilledAfterSound ==
    ASSUME Running, NEW p, NEW address
    PROVE  /\ Sound(LatticeAfter(p, address), FilledAfter(p, address))
           /\ \A v \in Elements(LatticeAfter(p, address)) :
                SameCounts(FilledAfter(p, address)[v], LinkedAfter(p, address)[v])
           /\ \A last : /\ Accounted(interfaces, flying, last)
                        /\ p \in flying
                        => Accounted(FilledAfter(p, address), flying \ {p}, last)
<1> DEFINE dest   == DestOf(p, address)
           l      == LatticeAfter(p, address)
           itf    == LinkedAfter(p, address)
           flow   == Flow(p.ttl, p.flow_id, "AVAILABLE")
           filled == FilledAfter(p, address)
<1>1. /\ Sound(l, itf)
      /\ dest # 0 => dest \in Elements(l)
      /\ \A last : Accounted(interfaces, flying, last) /\ p \in flying
                     => /\ Accounted(itf, flying \ {p}, last)
                        /\ Behind(itf, flying \ {p}, p.ttl, p.flow_id)
  BY LinkedAfterSound
<1>2. filled = IF dest = 0 THEN itf
               ELSE [itf EXCEPT ![dest].ttl_flows = Append(@, flow)]
  BY DEF FilledAfter
<1> HIDE DEF dest, l, itf, flow, filled
<1>3. CASE dest = 0
  <2>1. \A v \in Elements(l) : SameCounts(itf[v], itf[v])
    BY DEF SameCounts
  <2>2. Sound(l, filled) /\ \A v \in Elements(l) : SameCounts(filled[v], itf[v])
    BY <1>1, <1>2, <1>3, <2>1
  <2>3. \A last : Accounted(interfaces, flying, last) /\ p \in flying
                    => Accounted(filled, flying \ {p}, last)
    BY <1>1, <1>2, <1>3
  <2> QED
    BY <2>2, <2>3 DEF l, itf, filled
<1>4. CASE dest # 0
  <2> DEFINE x == itf[dest]
             t == Append(x.ttl_flows, flow)
             y == [x EXCEPT !.ttl_flows = t]
  <2>1. /\ dest \in Elements(l) /\ dest \in DOMAIN itf /\ IsList(x.ttl_flows)
        /\ DOMAIN itf = Elements(l)
    BY <1>1, <1>4, SoundDomain, InterfaceAt
  <2>2. IsList(t)
    BY <2>1, ListAppend
  <2>3. filled = [itf EXCEPT ![dest].ttl_flows = t]
    BY <1>2, <1>4
  <2>4. filled = Put(itf, dest, y)
    <3> HIDE DEF t
    <3> QED
      BY <2>3 DEF Put
  <2> HIDE DEF t
  <2>5. Sound(l, [itf EXCEPT ![dest].ttl_flows = t])
    BY <1>1, <2>1, <2>2, FlowsSound
  <2>6. Fields \subseteq DOMAIN x
    BY <1>1, <2>1 DEF Sound, Within
  <2>7. SameCounts(y, x) /\ y.ttl_set = x.ttl_set /\ y.ttl_flows = t
    BY <2>6 DEF Fields, SameCounts
  <2> HIDE DEF y
  <2>8. IsPut(filled, itf, dest, y)
    <3> HIDE DEF x
    <3> QED
      BY <2>1, <2>4, HoldsPut
  <2>9. ASSUME NEW v \in Elements(l)
        PROVE  SameCounts(filled[v], itf[v])
    <3>1. filled[dest] = y /\ (v # dest => filled[v] = itf[v])
      BY <2>1, <2>8 DEF IsPut
    <3>2. CASE v = dest
      BY <2>7, <3>1, <3>2
    <3>3. CASE v # dest
      BY <3>1, <3>3 DEF SameCounts
    <3> QED
      BY <3>2, <3>3
  <2>10. ASSUME NEW last, Accounted(interfaces, flying, last), p \in flying
         PROVE  Accounted(filled, flying \ {p}, last)
    <3>1. Accounted(itf, flying \ {p}, last) /\ Behind(itf, flying \ {p}, p.ttl, p.flow_id)
      BY <1>1, <2>10
    <3>2. p.ttl \in Int /\ p.flow_id \in 1 .. last
      BY <2>10, BehindAnswer DEF Accounted
    <3>3. Accounted(Put(itf, dest, y), flying \ {p}, last)
      BY <2>1, <2>7, <3>1, <3>2, AccountedLearn DEF flow, t
    <3> QED
      BY <2>4, <3>3
  <2> QED
    BY <2>3, <2>5, <2>9, <2>10 DEF l, itf, filled
<1> QED
  BY <1>3, <1>4

LEMMA RepliedOutcome ==
    ASSUME Running, NEW p, NEW address
    PROVE  Outcome(Replied(p, address))
<1>1. PICK l : l = LatticeAfter(p, address)
  OBVIOUS
<1>2. PICK filled : filled = FilledAfter(p, address)
  OBVIOUS
<1>3. PICK itf : itf = DeleteFlow(l, filled, p.ttl, p.flow_id)
  OBVIOUS
<1>4. PICK told : Replied(p, address) = Processed(l, itf, told)
  BY <1>1, <1>2, <1>3, RepliedIs
<1>5. Len(l.next) # 0
  BY <1>1, LinkedAfterSound
<1>6. Sound(l, filled)
  BY <1>1, <1>2, FilledAfterSound
<1>7. Sound(l, itf)
  BY <1>3, <1>6, DeleteFlowSound
<1>8. Outcome(Processed(l, itf, told))
  BY <1>5, <1>7, ProcessedOutcome
<1> QED
  BY <1>4, <1>8

LEMMA TimedOutOutcome ==
    ASSUME Running, NEW probe
    PROVE  Outcome(TimedOut(probe))
<1>1. IsLattice(lattice) /\ Sound(lattice, interfaces) /\ Len(lattice.next) # 0
  BY DEF Running, Sound
<1>2. ASSUME NEW u \in Elements(lattice)
      PROVE  Outcome(TimedOutFrom(u, probe))
  <2> DEFINE itf   == MarkTimeout([interfaces EXCEPT ![u].timeout = @ + 1], u, probe.flow_id)
             x     == itf[u]
             star  == NewInterface(None, probe.ttl, x.num_stars + 1)
             dark  == x.timeout = x.sent
             grows == dark /\ x.num_stars < MaxUndiscovered
             l     == IF grows THEN AddElement(lattice, u) ELSE lattice
             told  == NewLinks(itf, u, IF grows THEN {Len(l.next)}
                                       ELSE IF dark THEN {0} ELSE Range(l.next[u]))
             all   == IF grows THEN Append(itf, star) ELSE itf
  <2>1. TimedOutFrom(u, probe) = Processed(l, all, told)
    BY DEF TimedOutFrom
  <2>2. Sound(lattice, itf)
    <3>1. PICK c : c = [interfaces EXCEPT ![u].timeout = @ + 1]
      OBVIOUS
    <3>2. Sound(lattice, c)
      BY <1>1, <3>1, CountedSound
    <3>3. Sound(lattice, MarkTimeout(c, u, probe.flow_id))
      BY <3>2, MarkTimeoutSound
    <3> QED
      BY <3>1, <3>3
  <2> HIDE DEF itf, told
  <2>3. Sound(l, all) /\ Len(l.next) # 0
    <3>1. CASE grows
      <4>1. Within(star, 0)
        BY NewInterfaceWithin
      <4>2. Grows(lattice, l) /\ Len(l.next) = Len(lattice.next) + 1
        BY <1>1, <3>1, AddElementGrows
      <4>3. all = Append(itf, star)
        BY <3>1
      <4> HIDE DEF l, all, star
      <4>4. Sound(l, Append(itf, star))
        BY <2>2, <4>1, <4>2, SoundAppend
      <4>5. Len(lattice.next) \in Nat
        BY <1>1, LatticeTypes
      <4> QED
        BY <4>2, <4>3, <4>4, <4>5
    <3>2. CASE ~ grows
      BY <1>1, <2>2, <3>2
    <3> QED
      BY <3>1, <3>2
  <2> HIDE DEF l, all
  <2>4. Outcome(Processed(l, all, told))
    BY <2>3, ProcessedOutcome
  <2> QED
    BY <2>1, <2>4
<1>3. Outcome(TestTimedOut(probe))
  <2> DEFINE holder == Holder(lattice, interfaces, probe.ttl, probe.flow_id, "UNAVAILABLE")
             itf    == IF holder = << >> THEN interfaces
                       ELSE MarkTimeout(interfaces, holder[1], probe.flow_id)
  <2>1. TestTimedOut(probe) = Processed(lattice, itf, {})
    BY DEF TestTimedOut
  <2>2. holder # << >> => holder[1] \in Elements(lattice)
    BY HolderType
  <2> HIDE DEF holder
  <2>3. Sound(lattice, itf)
    <3>1. CASE holder = << >>
      BY <1>1, <3>1
    <3>2. CASE holder # << >>
      BY <1>1, <2>2, <3>2, MarkTimeoutSound
    <3> QED
      BY <3>1, <3>2
  <2> HIDE DEF itf
  <2>4. PICK told : told = {}
    OBVIOUS
  <2>5. Outcome(Processed(lattice, itf, told))
    BY <1>1, <2>3, ProcessedOutcome
  <2> QED
    BY <2>1, <2>4, <2>5
<1> DEFINE source == Source(probe.ttl - 1, probe.flow_id)
<1>4. source # << >> => source[1] \in Elements(lattice)
  BY SourceType
<1>5. TimedOut(probe) = IF source # << >> THEN TimedOutFrom(source[1], probe)
                        ELSE TestTimedOut(probe)
  BY DEF TimedOut
<1> HIDE DEF source
<1>6. CASE source # << >>
  BY <1>2, <1>4, <1>5, <1>6
<1>7. CASE source = << >>
  BY <1>3, <1>5, <1>7
<1> QED
  BY <1>6, <1>7

-----------------------------------------------------------------------------
(* The invariant *)

MdaInv ==
    \/ pc = "init" /\ lattice = EmptyLattice /\ interfaces = << >>
    \/ pc # "init" /\ Running

LEMMA HandleSound ==
    ASSUME NEW o, Outcome(o), NEW answered, NEW term, Handle(o, answered, term)
    PROVE  Running'
<1>1. lattice' = o.lattice /\ interfaces' = o.work.interfaces
  BY DEF Handle
<1> QED
  BY <1>1 DEF Outcome, Running

(* The lattice and the interfaces of the root, when INIT is handled. *)
LEMMA FirstSound ==
    /\ Sound(Create(EmptyLattice), <<NewInterface(None, 0, 0)>>)
    /\ Len(Create(EmptyLattice).next) # 0
<1> DEFINE l == EmptyLattice
           m == Create(l)
           x == NewInterface(None, 0, 0)
           itf == << >>
<1>1. IsLattice(l) /\ Len(l.next) = 0
  <2>1. l.next = << >>
    BY DEF EmptyLattice
  <2>2. PICK F : F = Seq(Elements(l))
    OBVIOUS
  <2>3. << >> \in Seq(F)
    OBVIOUS
  <2> HIDE DEF l
  <2>4. Len(l.next) = 0
    BY <2>1
  <2> QED
    BY <2>1, <2>2, <2>3, <2>4 DEF IsLattice
<1>2. Sound(l, itf)
  <2>1. itf \in Seq(Nat) /\ Len(itf) = 0
    OBVIOUS
  <2>2. IsList(itf)
    BY <2>1 DEF IsList
  <2> HIDE DEF l, itf
  <2>3. Elements(l) = {}
    BY <1>1 DEF Elements
  <2> QED
    BY <1>1, <2>1, <2>2, <2>3 DEF Sound
<1>3. Within(x, 0)
  BY NewInterfaceWithin
<1>4. <<x>> = Append(itf, x)
  <2> HIDE DEF x
  <2> QED
    OBVIOUS
<1>5. Grows(l, m) /\ Len(m.next) = Len(l.next) + 1
  BY <1>1, CreateGrows
<1> HIDE DEF x, itf, l, m
<1>6. Sound(m, Append(itf, x))
  BY <1>2, <1>3, <1>5, SoundAppend
<1>7. Len(m.next) # 0
  BY <1>1, <1>5
<1> QED
  BY <1>4, <1>6, <1>7 DEF m, l, x

LEMMA InitOutcome ==
    ASSUME NEW told
    PROVE  Outcome(Processed(Create(EmptyLattice), <<NewInterface(None, 0, 0)>>, told))
<1>1. PICK all : all = <<NewInterface(None, 0, 0)>>
  OBVIOUS
<1>2. PICK l : l = Create(EmptyLattice)
  OBVIOUS
<1>3. Sound(l, all) /\ Len(l.next) # 0
  BY <1>1, <1>2, FirstSound
<1>4. Outcome(Processed(l, all, told))
  BY <1>3, ProcessedOutcome
<1> QED
  BY <1>1, <1>2, <1>4

LEMMA MdaInvNext == MdaInv /\ [Next]_vars => MdaInv'
<1> SUFFICES ASSUME MdaInv, [Next]_vars PROVE MdaInv'
  OBVIOUS
<1>1. CASE HandleInit
  <2> DEFINE told == {}
  <2> DEFINE o == Processed(Create(EmptyLattice), <<NewInterface(None, 0, 0)>>, told)
  <2> HIDE DEF told
  <2>1. Outcome(o)
    BY InitOutcome
  <2>2. Handle(o, {}, 0) /\ pc' = "run"
    BY <1>1 DEF HandleInit, told
  <2> HIDE DEF o
  <2>3. Running'
    BY <2>1, <2>2, HandleSound
  <2> QED
    BY <2>2, <2>3 DEF MdaInv
<1>2. CASE HandleTerm
  <2> DEFINE told == {}
  <2> DEFINE o == Processed(lattice, interfaces, told)
  <2> HIDE DEF told
  <2>1. Running /\ pc # "init"
    BY <1>2 DEF HandleTerm, MdaInv
  <2>2. Outcome(o)
    BY <2>1, ProcessedOutcome DEF Running
  <2>3. Handle(o, {}, 1) /\ pc' = pc
    BY <1>2 DEF HandleTerm, told
  <2> HIDE DEF o
  <2>4. Running'
    BY <2>2, <2>3, HandleSound
  <2> QED
    BY <2>1, <2>3, <2>4 DEF MdaInv
<1>3. CASE Reply
  <2>1. Running /\ pc # "init" /\ pc' = pc
    BY <1>3 DEF Reply, MdaInv
  <2>2. PICK p \in flying : Handle(Replied(p, Hop(p.flow_id, p.ttl)), {p}, 0)
    BY <1>3 DEF Reply
  <2>3. PICK address : address = Hop(p.flow_id, p.ttl)
    OBVIOUS
  <2>4. PICK o : o = Replied(p, address)
    OBVIOUS
  <2>5. Outcome(o)
    BY <2>1, <2>4, RepliedOutcome
  <2>6. PICK answered : answered = {p}
    OBVIOUS
  <2>7. Handle(o, answered, 0)
    BY <2>2, <2>3, <2>4, <2>6
  <2>8. Running'
    BY <2>5, <2>7, HandleSound
  <2> QED
    BY <2>1, <2>8 DEF MdaInv
<1>4. CASE Timeout
  <2>1. Running /\ pc # "init" /\ pc' = pc
    BY <1>4 DEF Timeout, MdaInv
  <2>2. PICK p \in flying : Handle(TimedOut(p), {p}, 0)
    BY <1>4 DEF Timeout
  <2>3. PICK o : o = TimedOut(p)
    OBVIOUS
  <2>4. Outcome(o)
    BY <2>1, <2>3, TimedOutOutcome
  <2>5. PICK answered : answered = {p}
    OBVIOUS
  <2>6. Handle(o, answered, 0)
    BY <2>2, <2>3, <2>5
  <2>7. Running'
    BY <2>4, <2>6, HandleSound
  <2> QED
    BY <2>1, <2>7 DEF MdaInv
<1>5. CASE UserTerminated
  <2>1. pc = "run" /\ pc' = "ended" /\ lattice' = lattice /\ interfaces' = interfaces
    BY <1>5 DEF UserTerminated, dataVars
  <2>2. Running
    BY <2>1 DEF MdaInv
  <2> QED
    BY <2>1, <2>2 DEF MdaInv, Running
<1>6. CASE UNCHANGED vars
  BY <1>6 DEF vars, dataVars, MdaInv, Running
<1> QED
  BY <1>1, <1>2, <1>3, <1>4, <1>5, <1>6 DEF Next

LEMMA MdaInvInductive == Spec => []MdaInv
<1>1. Init => MdaInv
  BY DEF Init, MdaInv
<1> QED
  BY <1>1, MdaInvNext, PTL DEF Spec

(* No interface sends more probes than the stopping point for one next hop     *)
(* more than it has, for any network, any stopping points and any order of the *)
(* answers (mda_enumerate, and mda_process_interface for each interface that   *)
(* the walk visits).                                                           *)
THEOREM InterfacesStop == Spec => []StoppingRule
<1>1. MdaInv => StoppingRule
  <2> SUFFICES ASSUME MdaInv, NEW u \in Elements(lattice)
               PROVE  interfaces[u].sent <= StopsAt(lattice, u)
    BY DEF StoppingRule, StopsAt, Points, Hops
  <2>1. CASE lattice = EmptyLattice
    <3>1. Len(lattice.next) = 0
      BY <2>1 DEF EmptyLattice
    <3> QED
      BY <3>1 DEF Elements
  <2>2. CASE Running
    BY <2>2 DEF Running, Sound, Within
  <2> QED
    BY <2>1, <2>2 DEF MdaInv
<1> QED
  BY <1>1, MdaInvInductive, PTL

-----------------------------------------------------------------------------
(* What is in flight when the algorithm ends *)

(* What an event leaves behind, with the probes fly still in flight: the tokens, *)
(* and a lattice that is finished when the end is raised.                        *)
Follows(o, fly) ==
    /\ WorkOrdered(o.work, fly)
    /\ last_flow_id <= o.work.last
    /\ o.ends \in {0, 1}
    /\ o.ends = 1 => Finished(o.lattice, o.work.interfaces)

(* It is finished as it was, and nothing has been sent. *)
StaysFinished(o) ==
    Finished(o.lattice, o.work.interfaces) /\ o.work.last = last_flow_id

(* The tokens, until the flow ids wrap. *)
LEMMA OrderedIs ==
    ASSUME NEW itf, NEW fly, NEW last
    PROVE  Ordered(itf, fly, last) <=> last \in Nat /\ (NoWrap(last) => Accounted(itf, fly, last))
  BY DEF Ordered, Accounted

(* What the walk that ends mda_handler leaves behind. *)
LEMMA ProcessedFollows ==
    ASSUME NEW l, NEW itf, Sound(l, itf), Len(l.next) # 0, NEW told,
           NEW fly, Ordered(itf, fly, last_flow_id)
    PROVE  /\ Follows(Processed(l, itf, told), fly)
           /\ Finished(l, itf) => StaysFinished(Processed(l, itf, told))
<1>1. PICK o : o = Processed(l, itf, told)
  OBVIOUS
<1>2. o.lattice = l
  BY <1>1, Zenon DEF Processed
<1>3. WorkOrdered(o.work, fly) /\ last_flow_id <= o.work.last
  BY <1>1, ProcessedOrdered
<1>4. /\ o.ends \in {0, 1}
      /\ o.ends = 1 <=> Finished(l, itf)
      /\ Finished(l, itf) => Finished(l, o.work.interfaces) /\ o.work.last = last_flow_id
  BY <1>1, ProcessedFinished
<1> QED
  BY <1>1, <1>2, <1>3, <1>4 DEF Follows, StaysFinished

(* Counts that stay leave the lattice finished. *)
LEMMA FinishedKept ==
    ASSUME NEW l, NEW itf, NEW new, \A v \in Elements(l) : SameCounts(new[v], itf[v]),
           Finished(l, itf)
    PROVE  Finished(l, new)
<1>1. DoneIn(l, new) = DoneIn(l, itf)
  BY DoneKept
<1> QED
  BY <1>1 DEF Finished

(* What a reply leaves behind. *)
LEMMA RepliedFollows ==
    ASSUME Running, Ordered(interfaces, flying, last_flow_id), NEW p \in flying, NEW address
    PROVE  /\ Follows(Replied(p, address), flying \ {p})
           /\ Sender(p) = << >> /\ Finished(lattice, interfaces)
                => StaysFinished(Replied(p, address))
<1> DEFINE fly == flying \ {p}
<1>1. PICK l : l = LatticeAfter(p, address)
  OBVIOUS
<1>2. PICK filled : filled = FilledAfter(p, address)
  OBVIOUS
<1>3. PICK itf : itf = DeleteFlow(l, filled, p.ttl, p.flow_id)
  OBVIOUS
<1>4. PICK told : Replied(p, address) = Processed(l, itf, told)
  BY <1>1, <1>2, <1>3, RepliedIs
<1>5. Len(l.next) # 0
  BY <1>1, LinkedAfterSound
<1>6. /\ Sound(l, filled)
      /\ \A v \in Elements(l) : SameCounts(filled[v], LinkedAfter(p, address)[v])
      /\ \A last : Accounted(interfaces, flying, last) /\ p \in flying => Accounted(filled, fly, last)
  BY <1>1, <1>2, FilledAfterSound
<1>7. Sound(l, itf)
  BY <1>3, <1>6, DeleteFlowSound
<1>8. Ordered(itf, fly, last_flow_id)
  <2>1. last_flow_id \in Nat
    BY OrderedIs
  <2>2. ASSUME NoWrap(last_flow_id)
        PROVE  Accounted(itf, fly, last_flow_id)
    <3>1. Accounted(interfaces, flying, last_flow_id)
      BY <2>2, OrderedIs
    <3>2. Accounted(filled, fly, last_flow_id)
      BY <1>6, <3>1
    <3> HIDE DEF fly
    <3> QED
      BY <1>3, <1>6, <3>2, DeleteFlowAccounted
  <2> QED
    BY <2>1, <2>2, OrderedIs
<1>9. ASSUME Sender(p) = << >>, Finished(lattice, interfaces)
      PROVE  Finished(l, itf)
  <2>1. l = lattice /\ LinkedAfter(p, address) = interfaces
    BY <1>1, <1>9 DEF LatticeAfter, LinkedAfter
  <2>2. \A v \in Elements(l) : SameCounts(filled[v], interfaces[v])
    BY <1>6, <2>1
  <2>3. Finished(l, filled)
    BY <1>9, <2>1, <2>2, FinishedKept
  <2>4. \A v \in Elements(l) : SameCounts(itf[v], filled[v])
    BY <1>3, <1>6, DeleteFlowCounts
  <2> QED
    BY <2>3, <2>4, FinishedKept
<1>10. Follows(Processed(l, itf, told), fly) /\ (Finished(l, itf) => StaysFinished(Processed(l, itf, told)))
  <2> HIDE DEF fly
  <2> QED
    BY <1>5, <1>7, <1>8, ProcessedFollows
<1> QED
  BY <1>4, <1>9, <1>10

(* The interfaces that the timeout of a probe of u leaves, before a star. *)
CountedOut(u, p) == MarkTimeout([interfaces EXCEPT ![u].timeout = @ + 1], u, p.flow_id)

(* A timeout counted by the interface that waits for it. *)
LEMMA CountedOutSound ==
    ASSUME Running, NEW u \in Elements(lattice), NEW p
    PROVE  /\ Sound(lattice, CountedOut(u, p))
           /\ \A last : /\ Accounted(interfaces, flying, last)
                        /\ p \in Owed(interfaces, flying, u)
                        => Accounted(CountedOut(u, p), flying \ {p}, last)
<1>1. PICK c : c = [interfaces EXCEPT ![u].timeout = @ + 1]
  OBVIOUS
<1>2. Sound(lattice, interfaces)
  BY DEF Running
<1>3. Sound(lattice, c)
  BY <1>1, <1>2, CountedSound
<1>4. CountedOut(u, p) = MarkTimeout(c, u, p.flow_id)
  BY <1>1 DEF CountedOut
<1>5. Sound(lattice, CountedOut(u, p))
  BY <1>3, <1>4, MarkTimeoutSound
<1>6. ASSUME NEW last, Accounted(interfaces, flying, last), p \in Owed(interfaces, flying, u)
      PROVE  Accounted(CountedOut(u, p), flying \ {p}, last)
  <2>1. PICK left : left = flying \ {p}
    OBVIOUS
  <2>2. Accounted(c, left, last)
    BY <1>1, <1>2, <1>6, <2>1, CountAccounted
  <2>3. PICK id : id = p.flow_id
    OBVIOUS
  <2>4. Accounted(MarkTimeout(c, u, id), left, last)
    BY <1>3, <2>2, MarkTimeoutAccounted
  <2> QED
    BY <1>4, <2>1, <2>3, <2>4
<1> QED
  BY <1>5, <1>6

(* What the timeout of a probe that has a source leaves behind. *)
LEMMA TimedOutFromFollows ==
    ASSUME Running, Ordered(interfaces, flying, last_flow_id), NEW u \in Elements(lattice),
           NEW p \in flying,
           NoWrap(last_flow_id) => p.ttl \in Int /\ p \in Owed(interfaces, flying, u)
    PROVE  Follows(TimedOutFrom(u, p), flying \ {p})
<1> DEFINE itf   == CountedOut(u, p)
           x     == itf[u]
           star  == NewInterface(None, p.ttl, x.num_stars + 1)
           dark  == x.timeout = x.sent
           grows == dark /\ x.num_stars < MaxUndiscovered
           l     == IF grows THEN AddElement(lattice, u) ELSE lattice
           told  == NewLinks(itf, u, IF grows THEN {Len(l.next)}
                                     ELSE IF dark THEN {0} ELSE Range(l.next[u]))
           all   == IF grows THEN Append(itf, star) ELSE itf
           fly   == flying \ {p}
<1>1. TimedOutFrom(u, p) = Processed(l, all, told)
  BY DEF TimedOutFrom, CountedOut
<1>2. IsLattice(lattice) /\ Len(lattice.next) # 0
  BY DEF Running, Sound
<1>3. Sound(lattice, itf)
  BY CountedOutSound
<1>4. NoWrap(last_flow_id) => p.ttl \in Int /\ Accounted(itf, fly, last_flow_id)
  <2>1. NoWrap(last_flow_id) => Accounted(interfaces, flying, last_flow_id)
    BY OrderedIs
  <2> QED
    BY <2>1, CountedOutSound
<1> HIDE DEF itf, told, fly
<1>5. /\ Sound(l, all) /\ Len(l.next) # 0
      /\ NoWrap(last_flow_id) => Accounted(all, fly, last_flow_id)
  <2>1. CASE grows
    <3>1. Within(star, 0)
      BY NewInterfaceWithin
    <3>2. Grows(lattice, l) /\ Len(l.next) = Len(lattice.next) + 1
      BY <1>2, <2>1, AddElementGrows
    <3>3. all = Append(itf, star)
      BY <2>1
    <3>4. p.ttl \in Int =>
            Formed(star) /\ Counters(star) /\ Answered(star) = 0 /\ star.ttl_flows = << >>
      BY NewInterfaceAccounted
    <3> HIDE DEF l, all, star
    <3>5. Sound(l, Append(itf, star))
      BY <1>3, <3>1, <3>2, SoundAppend
    <3>6. Len(lattice.next) \in Nat
      BY <1>2, LatticeTypes
    <3>7. NoWrap(last_flow_id) => Accounted(Append(itf, star), fly, last_flow_id)
      <4>1. IsList(itf)
        BY <1>3 DEF Sound
      <4> QED
        BY <1>4, <3>4, <4>1, AccountedAppend
    <3> QED
      BY <3>2, <3>3, <3>5, <3>6, <3>7
  <2>2. CASE ~ grows
    BY <1>2, <1>3, <1>4, <2>2
  <2> QED
    BY <2>1, <2>2
<1> HIDE DEF l, all
<1>6. Ordered(all, fly, last_flow_id)
  BY <1>5, OrderedIs
<1>7. Follows(Processed(l, all, told), fly)
  BY <1>5, <1>6, ProcessedFollows
<1> QED
  BY <1>1, <1>7 DEF fly

(* What the timeout of a flow under test leaves behind. *)
LEMMA TestTimedOutFollows ==
    ASSUME Running, Ordered(interfaces, flying, last_flow_id), NEW p \in flying
    PROVE  /\ Follows(TestTimedOut(p), flying \ {p})
           /\ Finished(lattice, interfaces) => StaysFinished(TestTimedOut(p))
<1> DEFINE holder == Holder(lattice, interfaces, p.ttl, p.flow_id, "UNAVAILABLE")
           itf    == IF holder = << >> THEN interfaces
                     ELSE MarkTimeout(interfaces, holder[1], p.flow_id)
<1>1. PICK told : told = {}
  OBVIOUS
<1>2. TestTimedOut(p) = Processed(lattice, itf, told)
  BY <1>1 DEF TestTimedOut
<1>3. holder # << >> => holder[1] \in Elements(lattice)
  BY HolderType
<1>4. PICK left : left = flying \ {p}
  OBVIOUS
<1>5. PICK id : id = p.flow_id
  OBVIOUS
<1>6. Sound(lattice, interfaces) /\ Len(lattice.next) # 0 /\ 0 \notin DOMAIN interfaces
  BY SoundDomain DEF Running
<1>7. NoWrap(last_flow_id) => Accounted(interfaces, left, last_flow_id)
  <2>1. NoWrap(last_flow_id) => Accounted(interfaces, flying, last_flow_id)
    BY OrderedIs
  <2>2. left \in SUBSET flying
    BY <1>4
  <2> QED
    BY <1>6, <2>1, <2>2, AccountedLess
<1>8. itf = IF holder = << >> THEN interfaces ELSE MarkTimeout(interfaces, holder[1], id)
  BY <1>5
<1> HIDE DEF holder, itf
<1>9. /\ Sound(lattice, itf)
      /\ NoWrap(last_flow_id) => Accounted(itf, left, last_flow_id)
      /\ \A v \in Elements(lattice) : SameCounts(itf[v], interfaces[v])
  <2>1. CASE holder = << >>
    BY <1>6, <1>7, <1>8, <2>1 DEF SameCounts
  <2>2. CASE holder # << >>
    <3>1. PICK u \in Elements(lattice) : u = holder[1]
      BY <1>3, <2>2
    <3>2. itf = MarkTimeout(interfaces, u, id)
      BY <1>8, <2>2, <3>1
    <3>3. Sound(lattice, MarkTimeout(interfaces, u, id))
      BY <1>6, MarkTimeoutSound
    <3>4. NoWrap(last_flow_id) => Accounted(MarkTimeout(interfaces, u, id), left, last_flow_id)
      BY <1>6, <1>7, MarkTimeoutAccounted
    <3>5. \A v \in Elements(lattice) : SameCounts(MarkTimeout(interfaces, u, id)[v], interfaces[v])
      BY <1>6, MarkTimeoutCounts
    <3> QED
      BY <3>2, <3>3, <3>4, <3>5
  <2> QED
    BY <2>1, <2>2
<1>10. last_flow_id \in Nat
  BY OrderedIs
<1>11. Ordered(itf, left, last_flow_id)
  BY <1>9, <1>10, OrderedIs
<1>12. Finished(lattice, interfaces) => Finished(lattice, itf)
  BY <1>9, FinishedKept
<1>13. /\ Follows(Processed(lattice, itf, told), left)
       /\ Finished(lattice, itf) => StaysFinished(Processed(lattice, itf, told))
  BY <1>6, <1>9, <1>11, ProcessedFollows
<1> QED
  BY <1>2, <1>4, <1>12, <1>13

(* What a timeout leaves behind. *)
LEMMA TimedOutFollows ==
    ASSUME Running, Ordered(interfaces, flying, last_flow_id), NEW p \in flying
    PROVE  /\ Follows(TimedOut(p), flying \ {p})
           /\ Sender(p) = << >> /\ Finished(lattice, interfaces) => StaysFinished(TimedOut(p))
<1>1. TimedOut(p) = IF Sender(p) # << >> THEN TimedOutFrom(Sender(p)[1], p) ELSE TestTimedOut(p)
  BY DEF TimedOut, Sender
<1>2. CASE Sender(p) # << >>
  <2>1. PICK u \in Elements(lattice) : u = Sender(p)[1]
    BY <1>2, SourceType DEF Sender
  <2>2. NoWrap(last_flow_id) => p.ttl \in Int /\ p \in Owed(interfaces, flying, u)
    <3>1. NoWrap(last_flow_id) => p.ttl \in Int
      BY BehindAnswer DEF Ordered
    <3> QED
      BY <1>2, <2>1, <3>1, SourceOwed DEF Sender
  <2>3. Follows(TimedOutFrom(u, p), flying \ {p})
    BY <2>2, TimedOutFromFollows
  <2> QED
    BY <1>1, <1>2, <2>1, <2>3
<1>3. CASE Sender(p) = << >>
  BY <1>1, <1>3, TestTimedOutFollows
<1> QED
  BY <1>2, <1>3

(* The flow ids that the probes carry are still those that the algorithm counts. *)
FlowIdsFit == NoWrap(last_flow_id)

LateInv ==
    /\ MdaInv
    /\ terms \in Nat /\ raised \in Nat
    /\ pc = "init" => flying = {} /\ last_flow_id = 0 /\ raised = 0
    /\ pc # "init" => Ordered(interfaces, flying, last_flow_id)
    /\ pc # "init" /\ terms = 0 /\ raised > 0 /\ FlowIdsFit => Finished(lattice, interfaces)

(* The answers of the probes that are in flight when a lattice is finished have *)
(* no source.                                                                   *)
LEMMA FinishedAnswersNothing ==
    ASSUME Running, Ordered(interfaces, flying, last_flow_id), FlowIdsFit,
           Finished(lattice, interfaces), NEW p \in flying
    PROVE  Sender(p) = << >>
<1>1. Tokens(interfaces, flying, last_flow_id)
  BY DEF Ordered, FlowIdsFit
<1> QED
  BY <1>1, FinishedNoSource DEF Sender

(* What the state becomes. *)
LEMMA HandleFollows ==
    ASSUME NEW o, NEW answered, NEW term \in Nat, Handle(o, answered, term),
           Follows(o, flying \ answered), last_flow_id \in Nat, raised \in Nat
    PROVE  /\ Ordered(interfaces', flying', last_flow_id')
           /\ raised' \in Nat /\ raised' = raised + term + o.ends
           /\ lattice' = o.lattice /\ interfaces' = o.work.interfaces
           /\ last_flow_id' = o.work.last
           /\ NoWrap(last_flow_id') => NoWrap(last_flow_id)
<1>1. /\ lattice' = o.lattice /\ interfaces' = o.work.interfaces
      /\ last_flow_id' = o.work.last
      /\ flying' = (flying \ answered) \cup o.work.probes
      /\ raised' = raised + term + o.ends
  BY DEF Handle
<1>2. Ordered(interfaces', flying', last_flow_id')
  BY <1>1 DEF Follows, WorkOrdered
<1>3. raised' \in Nat
  BY <1>1 DEF Follows
<1>4. NoWrap(last_flow_id') => NoWrap(last_flow_id)
  <2>1. last_flow_id' \in Nat /\ last_flow_id <= last_flow_id'
    BY <1>1, <1>2, OrderedIs DEF Follows
  <2>2. PICK n : n = last_flow_id'
    OBVIOUS
  <2>3. last_flow_id <= n /\ n \in Nat
    BY <2>1, <2>2
  <2>4. 1 .. last_flow_id \subseteq 1 .. n
    BY <2>3
  <2> QED
    BY <2>2, <2>4 DEF NoWrap
<1> QED
  BY <1>1, <1>2, <1>3, <1>4

(* The end that is raised when an answer is handled finds the lattice finished, *)
(* and the answers that come after it leave it finished.                        *)
LEMMA AnswerFollows ==
    ASSUME LateInv, pc = "run", NEW p \in flying, NEW o,
           Follows(o, flying \ {p}),
           Sender(p) = << >> /\ Finished(lattice, interfaces) => StaysFinished(o),
           Handle(o, {p}, 0)
    PROVE  /\ Ordered(interfaces', flying', last_flow_id')
           /\ raised' \in Nat
           /\ terms = 0 /\ raised' > 0 /\ NoWrap(last_flow_id') => Finished(lattice', interfaces')
<1>1. Running /\ raised \in Nat /\ Ordered(interfaces, flying, last_flow_id) /\ pc # "init"
  BY DEF LateInv, MdaInv
<1>2. last_flow_id \in Nat
  BY <1>1, OrderedIs
<1>3. PICK answered : answered = {p}
  OBVIOUS
<1>4. /\ Ordered(interfaces', flying', last_flow_id')
      /\ raised' \in Nat /\ raised' = raised + 0 + o.ends
      /\ lattice' = o.lattice /\ interfaces' = o.work.interfaces
      /\ NoWrap(last_flow_id') => NoWrap(last_flow_id)
  BY <1>1, <1>2, <1>3, HandleFollows
<1>5. ASSUME terms = 0, raised' > 0, NoWrap(last_flow_id')
      PROVE  Finished(o.lattice, o.work.interfaces)
  <2>1. CASE raised > 0
    <3>1. FlowIdsFit
      BY <1>4, <1>5 DEF FlowIdsFit
    <3>2. Finished(lattice, interfaces)
      BY <1>1, <1>5, <2>1, <3>1 DEF LateInv
    <3>3. Sender(p) = << >>
      BY <1>1, <3>1, <3>2, FinishedAnswersNothing
    <3> QED
      BY <3>2, <3>3 DEF StaysFinished
  <2>2. CASE ~ (raised > 0)
    <3>1. o.ends \in {0, 1} /\ o.ends # 0
      BY <1>1, <1>4, <1>5, <2>2 DEF Follows
    <3> QED
      BY <3>1 DEF Follows
  <2> QED
    BY <2>1, <2>2
<1> QED
  BY <1>4, <1>5

(* The first state has sent nothing. *)
LEMMA LateInit == Init => LateInv
<1> SUFFICES ASSUME Init PROVE LateInv
  OBVIOUS
<1>1. pc = "init" /\ lattice = EmptyLattice /\ interfaces = << >> /\ flying = {}
      /\ last_flow_id = 0 /\ raised = 0 /\ terms = 0
  BY DEF Init
<1> QED
  BY <1>1 DEF LateInv, MdaInv

(* Nor has the root of INIT. *)
LEMMA FirstOrdered == Ordered(<<NewInterface(None, 0, 0)>>, {}, 0)
<1> DEFINE x == NewInterface(None, 0, 0)
<1>1. Formed(x) /\ Counters(x) /\ Answered(x) = 0 /\ x.ttl_flows = << >>
  BY NewInterfaceAccounted
<1>2. x.sent \in Nat
  BY <1>1 DEF Counters
<1> HIDE DEF x
<1> DEFINE itf == <<x>>
<1>3. DOMAIN itf = {1} /\ itf[1] = x
  OBVIOUS
<1> HIDE DEF itf
<1>4. \A v, i : ~ Holds(itf, v, i)
  BY <1>1, <1>3 DEF Holds
<1>5. \A v : Owed(itf, {}, v) = {}
  BY DEF Owed
<1>6. Cardinality({}) = 0 /\ IsFiniteSet({})
  BY FS_EmptySet
<1>7. SentEnough(itf, {})
  <2>1. ASSUME NEW u \in DOMAIN itf
        PROVE  Counters(itf[u]) /\ Cardinality(Owed(itf, {}, u)) + Answered(itf[u]) <= itf[u].sent
    <3>1. itf[u] = x /\ Cardinality(Owed(itf, {}, u)) = 0
      BY <1>3, <1>5, <1>6
    <3>2. Cardinality(Owed(itf, {}, u)) + Answered(itf[u]) = 0
      BY <1>1, <3>1
    <3> QED
      BY <1>1, <1>2, <3>1, <3>2
  <2> QED
    BY <2>1 DEF SentEnough
<1>8. FlowsKnown(itf, 0) /\ FlowsDiffer(itf) /\ ProbesAhead(itf, {}) /\ ProbesDiffer({}, 0)
  BY <1>4 DEF FlowsKnown, FlowsDiffer, ProbesAhead, ProbesDiffer
<1>9. Tokens(itf, {}, 0)
  BY <1>6, <1>7, <1>8 DEF Tokens
<1> QED
  BY <1>1, <1>3, <1>9 DEF Ordered, itf, x

(* Every event keeps the invariant. *)
LEMMA LateNext == LateInv /\ [Next]_vars => LateInv'
<1> SUFFICES ASSUME LateInv, [Next]_vars PROVE LateInv'
  OBVIOUS
<1>1. MdaInv'
  BY MdaInvNext DEF LateInv
<1>2. CASE HandleInit
  <2>1. pc = "init" /\ pc' = "run" /\ terms' = terms
    BY <1>2 DEF HandleInit, envVars
  <2>2. flying = {} /\ last_flow_id = 0 /\ raised = 0 /\ terms \in Nat
    BY <2>1 DEF LateInv
  <2>3. PICK all : all = <<NewInterface(None, 0, 0)>>
    OBVIOUS
  <2>4. PICK none : none = {}
    OBVIOUS
  <2>5. PICK l : l = Create(EmptyLattice)
    OBVIOUS
  <2>6. PICK o : o = Processed(l, all, none)
    OBVIOUS
  <2>7. Handle(o, none, 0)
    BY <1>2, <2>3, <2>4, <2>5, <2>6 DEF HandleInit
  <2>8. Sound(l, all) /\ Len(l.next) # 0
    BY <2>3, <2>5, FirstSound
  <2>9. Ordered(all, flying \ none, last_flow_id)
    <3>1. flying \ none = {}
      BY <2>2
    <3> QED
      BY <2>2, <2>3, <3>1, FirstOrdered
  <2>10. Follows(o, flying \ none)
    BY <2>6, <2>8, <2>9, ProcessedFollows
  <2>11. 0 \in Nat /\ last_flow_id \in Nat /\ raised \in Nat
    BY <2>2
  <2>12. /\ Ordered(interfaces', flying', last_flow_id')
         /\ raised' \in Nat /\ raised' = raised + 0 + o.ends
         /\ lattice' = o.lattice /\ interfaces' = o.work.interfaces
    BY <2>7, <2>10, <2>11, HandleFollows
  <2>13. raised' > 0 => Finished(lattice', interfaces')
    <3>1. raised' > 0 => o.ends = 1
      BY <2>2, <2>10, <2>12 DEF Follows
    <3> QED
      BY <2>10, <2>12, <3>1 DEF Follows
  <2> QED
    BY <1>1, <2>1, <2>2, <2>12, <2>13 DEF LateInv, FlowIdsFit
<1>3. CASE HandleTerm
  <2>1. pc = "run" /\ pc' = pc /\ terms' = terms + 1
    BY <1>3 DEF HandleTerm
  <2>2. /\ Running /\ terms \in Nat /\ raised \in Nat
        /\ Ordered(interfaces, flying, last_flow_id)
    BY <2>1 DEF LateInv, MdaInv
  <2>3. PICK none : none = {}
    OBVIOUS
  <2>4. PICK o : o = Processed(lattice, interfaces, none)
    OBVIOUS
  <2>5. Handle(o, none, 1)
    BY <1>3, <2>3, <2>4 DEF HandleTerm
  <2>6. flying \ none = flying
    BY <2>3
  <2>7. Follows(o, flying \ none)
    BY <2>2, <2>4, <2>6, ProcessedFollows DEF Running
  <2>8. 1 \in Nat /\ last_flow_id \in Nat
    BY <2>2, OrderedIs
  <2>9. Ordered(interfaces', flying', last_flow_id') /\ raised' \in Nat
    BY <2>2, <2>5, <2>7, <2>8, HandleFollows
  <2>10. terms' \in Nat /\ terms' # 0 /\ pc' # "init"
    BY <2>1, <2>2
  <2> QED
    BY <1>1, <2>9, <2>10 DEF LateInv
<1>4. CASE Reply
  <2>1. pc = "run" /\ pc' = pc /\ terms' = terms /\ terms \in Nat
    BY <1>4 DEF Reply, envVars, LateInv
  <2>2. Running /\ Ordered(interfaces, flying, last_flow_id)
    BY <2>1 DEF LateInv, MdaInv
  <2>3. PICK p \in flying : Handle(Replied(p, Hop(p.flow_id, p.ttl)), {p}, 0)
    BY <1>4 DEF Reply
  <2>4. PICK address : address = Hop(p.flow_id, p.ttl)
    OBVIOUS
  <2>5. PICK o : o = Replied(p, address)
    OBVIOUS
  <2>6. Handle(o, {p}, 0)
    BY <2>3, <2>4, <2>5
  <2>7. /\ Follows(o, flying \ {p})
        /\ Sender(p) = << >> /\ Finished(lattice, interfaces) => StaysFinished(o)
    BY <2>2, <2>5, RepliedFollows
  <2>8. /\ Ordered(interfaces', flying', last_flow_id')
        /\ raised' \in Nat
        /\ terms = 0 /\ raised' > 0 /\ NoWrap(last_flow_id') => Finished(lattice', interfaces')
    BY <2>1, <2>6, <2>7, AnswerFollows
  <2> QED
    BY <1>1, <2>1, <2>8 DEF LateInv, FlowIdsFit
<1>5. CASE Timeout
  <2>1. pc = "run" /\ pc' = pc /\ terms' = terms /\ terms \in Nat
    BY <1>5 DEF Timeout, LateInv
  <2>2. Running /\ Ordered(interfaces, flying, last_flow_id)
    BY <2>1 DEF LateInv, MdaInv
  <2>3. PICK p \in flying : Handle(TimedOut(p), {p}, 0)
    BY <1>5 DEF Timeout
  <2>4. PICK o : o = TimedOut(p)
    OBVIOUS
  <2>5. Handle(o, {p}, 0)
    BY <2>3, <2>4
  <2>6. /\ Follows(o, flying \ {p})
        /\ Sender(p) = << >> /\ Finished(lattice, interfaces) => StaysFinished(o)
    BY <2>2, <2>4, TimedOutFollows
  <2>7. /\ Ordered(interfaces', flying', last_flow_id')
        /\ raised' \in Nat
        /\ terms = 0 /\ raised' > 0 /\ NoWrap(last_flow_id') => Finished(lattice', interfaces')
    BY <2>1, <2>5, <2>6, AnswerFollows
  <2> QED
    BY <1>1, <2>1, <2>7 DEF LateInv, FlowIdsFit
<1>6. CASE UserTerminated
  <2>1. /\ pc = "run" /\ pc' = "ended" /\ lattice' = lattice /\ interfaces' = interfaces
        /\ last_flow_id' = last_flow_id /\ raised' = raised /\ flying' = flying /\ terms' = terms
    BY <1>6 DEF UserTerminated, dataVars, envVars
  <2> QED
    BY <1>1, <2>1 DEF LateInv, FlowIdsFit
<1>7. CASE UNCHANGED vars
  <2>1. /\ pc' = pc /\ lattice' = lattice /\ interfaces' = interfaces
        /\ last_flow_id' = last_flow_id /\ raised' = raised /\ flying' = flying /\ terms' = terms
    BY <1>7 DEF vars, dataVars, envVars
  <2> QED
    BY <1>1, <2>1 DEF LateInv, FlowIdsFit
<1> QED
  BY <1>2, <1>3, <1>4, <1>5, <1>6, <1>7 DEF Next

(* When the algorithm has ended by itself, no probe in flight has a source: the *)
(* answers that come after the end, which the instance may still have to handle *)
(* before the user handler frees its data, make no link and no interface        *)
(* (mda_handler_reply and mda_handler_timeout, after the ALGORITHM_TERM that    *)
(* mda_handler raises).  It holds for any network, any stopping points and any  *)
(* order of the answers, until the flow ids that the probes carry wrap.         *)
THEOREM EndsWithNothingToLearn == Spec => [](FlowIdsFit => NoLateDiscovery)
<1>1. LateInv => (FlowIdsFit => NoLateDiscovery)
  <2> SUFFICES ASSUME LateInv, FlowIdsFit, raised > 0, terms = 0, NEW p \in flying
               PROVE  Source(p.ttl - 1, p.flow_id) = << >>
    BY DEF NoLateDiscovery
  <2>1. pc # "init"
    BY DEF LateInv
  <2>2. Running /\ Ordered(interfaces, flying, last_flow_id) /\ Finished(lattice, interfaces)
    BY <2>1 DEF LateInv, MdaInv
  <2> QED
    BY <2>2, FinishedAnswersNothing DEF Sender
<1> QED
  BY <1>1, LateInit, LateNext, PTL DEF Spec

=============================================================================
