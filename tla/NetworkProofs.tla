--------------------------- MODULE NetworkProofs ---------------------------
(***************************************************************************)
(* Proofs about Network, for any number of probes, tags and ticks.         *)
(*                                                                         *)
(* The argument about the timer rests on one fact, that the list of flying *)
(* probes is sorted: the timer is then only ever compared with what the    *)
(* first probe has left.                                                   *)
(*                                                                         *)
(* Then every probe handed to the layer is followed to its end, and its    *)
(* end is the right one.  The argument is that no probe is ever in two     *)
(* places: a position in one of the queues stands for its probe, and what  *)
(* happens to the element happens to that probe alone.                     *)
(***************************************************************************)
EXTENDS Network, CountingProofs

-----------------------------------------------------------------------------
(* itimerspec_set_delay: the timer is disarmed exactly by a delay of 0, and *)
(* never armed for longer than the delay.                                  *)
LEMMA ArmedForBounds ==
    ASSUME NEW delay \in Nat
    PROVE  /\ ArmedFor(delay) \in Nat \cup {Off}
           /\ delay = 0 => ArmedFor(delay) = Off
           /\ delay > 0 => ArmedFor(delay) \in 1 .. delay
<1>1. CASE delay = 0
  BY <1>1 DEF ArmedFor, Off
<1>2. CASE delay # 0
  <2>1. ArmedFor(delay) = Shortened(delay, Second, FracDiv)
    BY <1>2 DEF ArmedFor, Shortened
  <2> QED
    BY <1>2, <2>1, TimerAssumption, DelayBounds
<1> QED
  BY <1>1, <1>2

-----------------------------------------------------------------------------
(* A set of natural numbers has a first element. *)
LEMMA FirstOfIsFirst ==
    ASSUME NEW S \in SUBSET Nat, S # {}
    PROVE  FirstOf(S) \in S /\ \A j \in S : FirstOf(S) <= j
<1> DEFINE Less == {ss \in Nat \X Nat : ss[1] < ss[2]}
<1>1. IsWellFoundedOn(Less, Nat)
  BY NatLessThanWellFounded DEF OpToRel
<1>2. \E i \in S : \A j \in S : ~ (<<j, i>> \in Less)
  <2> HIDE DEF Less
  <2> QED
    BY <1>1, WFMin
<1>3. \A i, j \in S : ~ (<<j, i>> \in Less) => i <= j
  OBVIOUS
<1>4. \E i \in S : \A j \in S : i <= j
  BY <1>2, <1>3
<1> QED
  BY <1>4 DEF FirstOf

-----------------------------------------------------------------------------
(* Sequences of flying probes *)

LEMMA AgedByBounds ==
    ASSUME NEW a \in Ages, NEW e \in Nat
    PROVE  /\ AgedBy(a, e) \in Ages
           /\ AgedBy(a, e) <= a + e
           /\ a <= AgedBy(a, e)
           /\ \A b \in Ages : a >= b => AgedBy(a, e) >= AgedBy(b, e)
  BY NetworkAssumption DEF AgedBy, Ages

LEMMA OlderProperties ==
    ASSUME NEW fl \in Seq(Flying), NEW e \in Nat
    PROVE  /\ Older(fl, e) \in Seq(Flying)
           /\ Len(Older(fl, e)) = Len(fl)
           /\ \A i \in 1 .. Len(fl) :
                 /\ Older(fl, e)[i].age = AgedBy(fl[i].age, e)
                 /\ Older(fl, e)[i].probe = fl[i].probe
                 /\ Older(fl, e)[i].tag = fl[i].tag
<1> DEFINE aged(i) == [fl[i] EXCEPT !.age = AgedBy(fl[i].age, e)]
<1>1. \A i \in 1 .. Len(fl) : fl[i] \in Flying
  BY ElementOfSeq
<1>2. \A i \in 1 .. Len(fl) : fl[i].age \in Ages /\ AgedBy(fl[i].age, e) \in Ages
  BY <1>1, AgedByBounds DEF Flying
<1>3. \A i \in 1 .. Len(fl) : /\ aged(i) \in Flying
                              /\ aged(i).age = AgedBy(fl[i].age, e)
                              /\ aged(i).probe = fl[i].probe
                              /\ aged(i).tag = fl[i].tag
  BY <1>1, <1>2 DEF Flying
<1>4. Older(fl, e) = [i \in 1 .. Len(fl) |-> aged(i)]
  BY DEF Older
<1>5. Len(fl) \in Nat
  BY LenProperties
<1> HIDE DEF aged
<1>6. [i \in 1 .. Len(fl) |-> aged(i)] \in Seq(Flying)
  BY <1>3, <1>5, IsASeq
<1>7. Len([i \in 1 .. Len(fl) |-> aged(i)]) = Len(fl)
  BY <1>5
<1> QED
  BY <1>3, <1>4, <1>6, <1>7

LEMMA RemoveAtProperties ==
    ASSUME NEW S, NEW s \in Seq(S), NEW i \in 1 .. Len(s)
    PROVE  /\ RemoveAt(s, i) \in Seq(S)
           /\ Len(RemoveAt(s, i)) = Len(s) - 1
           /\ \A j \in 1 .. Len(s) - 1 :
                 RemoveAt(s, i)[j] = IF j < i THEN s[j] ELSE s[j + 1]
<1> DEFINE a == SubSeq(s, 1, i - 1)
           b == SubSeq(s, i + 1, Len(s))
<1>1. Len(s) \in Nat /\ \A j \in 1 .. Len(s) : s[j] \in S
  BY LenProperties, ElementOfSeq
<1>2. /\ a \in Seq(S)
      /\ Len(a) = i - 1
      /\ \A j \in 1 .. i - 1 : a[j] = s[j]
  BY <1>1, SubSeqProperties
<1>3. /\ b \in Seq(S)
      /\ Len(b) = Len(s) - i
      /\ \A j \in 1 .. Len(s) - i : b[j] = s[i + j]
  <2>1. \A j \in i + 1 .. Len(s) : s[j] \in S
    BY <1>1
  <2>2. /\ b \in Seq(S)
        /\ Len(b) = IF i + 1 <= Len(s) THEN Len(s) - (i + 1) + 1 ELSE 0
        /\ \A j \in 1 .. Len(s) - (i + 1) + 1 : b[j] = s[i + 1 + j - 1]
    BY <1>1, <2>1, SubSeqProperties
  <2> QED
    BY <1>1, <2>2
<1> HIDE DEF a, b
<1>4. /\ a \o b \in Seq(S)
      /\ Len(a \o b) = Len(a) + Len(b)
      /\ \A j \in 1 .. Len(a) + Len(b) :
           (a \o b)[j] = IF j <= Len(a) THEN a[j] ELSE b[j - Len(a)]
  BY <1>2, <1>3, ConcatProperties
<1>5. RemoveAt(s, i) = a \o b
  BY DEF RemoveAt, a, b
<1>6. ASSUME NEW j \in 1 .. Len(s) - 1
      PROVE  (a \o b)[j] = IF j < i THEN s[j] ELSE s[j + 1]
  <2>1. (a \o b)[j] = IF j <= i - 1 THEN a[j] ELSE b[j - (i - 1)]
    BY <1>1, <1>2, <1>3, <1>4
  <2>2. CASE j < i
    BY <1>1, <1>2, <2>1, <2>2
  <2>3. CASE j >= i
    <3>1. j - (i - 1) \in 1 .. Len(s) - i
      BY <1>1, <2>3
    <3>2. b[j - (i - 1)] = s[i + (j - (i - 1))]
      BY <1>3, <3>1
    <3> QED
      BY <1>1, <2>1, <2>3, <3>2
  <2>4. j < i \/ j >= i
    BY <1>1
  <2> QED
    BY <2>2, <2>3, <2>4
<1>7. Len(a \o b) = Len(s) - 1
  BY <1>1, <1>2, <1>3, <1>4
<1> QED
  BY <1>4, <1>5, <1>6, <1>7

-----------------------------------------------------------------------------
(* Types *)

LEMMA ReadyIsTyped == Readable \in SUBSET Fds
  BY DEF Readable

LEMMA TimerTypes ==
    ASSUME NEW t \in Int, t >= Off, NEW e \in Nat
    PROVE  RunDown(t, e) \in Int /\ RunDown(t, e) >= Off
  BY DEF RunDown, Off

LEMMA NextTimeoutType ==
    ASSUME NEW fl \in Seq(Flying), NEW t \in Int, t >= Off
    PROVE  NextTimeout(fl, t) \in Int /\ NextTimeout(fl, t) >= Off
<1>1. CASE fl = << >>
  BY <1>1 DEF NextTimeout, Off
<1>2. CASE fl # << >>
  <2>1. fl[1] \in Flying
    BY <1>2, EmptySeq, ElementOfSeq
  <2>2. Remaining(fl[1]) \in Int
    BY <2>1, NetworkAssumption DEF Flying, Ages, Remaining
  <2>3. CASE Remaining(fl[1]) < 0
    BY <1>2, <2>3 DEF NextTimeout, UpdateTimer
  <2>4. CASE Remaining(fl[1]) >= 0
    <3>1. Remaining(fl[1]) \in Nat
      BY <2>2, <2>4
    <3>2. ArmedFor(Remaining(fl[1])) \in Int /\ ArmedFor(Remaining(fl[1])) >= Off
      BY <3>1, ArmedForBounds DEF Off
    <3>3. NextTimeout(fl, t) = ArmedFor(Remaining(fl[1]))
      BY <1>2, <2>2, <2>4 DEF NextTimeout, UpdateTimer
    <3> QED
      BY <3>2, <3>3
  <2> QED
    BY <2>2, <2>3, <2>4
<1> QED
  BY <1>1, <1>2

(* The first flying probe with a reply's tag. *)
LEMMA MatchIsFlying ==
    ASSUME TypeOK, NEW r \in Replies, Matches(r) # {}
    PROVE  FirstOf(Matches(r)) \in 1 .. Len(flying)
<1>1. Len(flying) \in Nat
  BY LenProperties DEF TypeOK
<1>2. Matches(r) \in SUBSET Nat /\ Matches(r) \subseteq 1 .. Len(flying)
  BY <1>1 DEF Matches
<1> QED
  BY <1>2, FirstOfIsFirst

(* network_drop_expired_flying_probe drops the probes before the first one
   that has time left. *)
LEMMA NumExpiredIsPrefix ==
    ASSUME TypeOK
    PROVE  /\ NumExpired \in 0 .. Len(flying)
           /\ \A i \in 1 .. NumExpired : Expired(flying[i])
           /\ NumExpired < Len(flying) => ~ Expired(flying[NumExpired + 1])
<1> DEFINE alive == {i \in 1 .. Len(flying) : ~ Expired(flying[i])}
<1>1. Len(flying) \in Nat
  BY LenProperties DEF TypeOK
<1>2. CASE alive = {}
  <2>1. NumExpired = Len(flying)
    BY <1>2 DEF NumExpired
  <2> QED
    BY <1>1, <1>2, <2>1
<1>3. CASE alive # {}
  <2>1. NumExpired = FirstOf(alive) - 1
    BY <1>3 DEF NumExpired
  <2>2. alive \in SUBSET Nat
    BY <1>1
  <2>3. FirstOf(alive) \in alive /\ \A j \in alive : FirstOf(alive) <= j
    BY <1>3, <2>2, FirstOfIsFirst
  <2> DEFINE n == FirstOf(alive)
  <2>4. n \in 1 .. Len(flying) /\ ~ Expired(flying[n])
    BY <2>3
  <2>5. \A i \in 1 .. n - 1 : i \notin alive
    BY <1>1, <2>3, <2>4
  <2> HIDE DEF n
  <2>6. \A i \in 1 .. n - 1 : Expired(flying[i])
    BY <1>1, <2>4, <2>5
  <2>7. NumExpired = n - 1
    BY <2>1 DEF n
  <2> QED
    BY <1>1, <2>4, <2>6, <2>7
<1> QED
  BY <1>2, <1>3

LEMMA InitTypes == Init => TypeInv
  BY NetworkAssumption, EmptySeq
  DEF Init, TypeInv, TypeOK, BatchReady, Tags, Off, NoTag, Fates

LEMMA NextTagType == \A t \in Tags : NextTag(t) \in Tags
<1> SUFFICES ASSUME NEW t \in Tags PROVE NextTag(t) \in Tags
  OBVIOUS
<1>1. t + 1 \in Nat
  BY NetworkAssumption DEF Tags
<1>2. (t + 1) % TagMod \in 0 .. TagMod - 1
  BY <1>1, NetworkAssumption, DivMod
<1> QED
  BY <1>2 DEF NextTag, Tags

LEMMA StepTypes == TypeInv /\ [Next]_vars => TypeInv'
<1> SUFFICES ASSUME TypeOK, BatchReady, [Next]_vars
             PROVE  TypeOK' /\ BatchReady'
  BY DEF TypeInv
<1>1. ASSUME NEW p \in Probes, SendProbe(p)
      PROVE  TypeOK' /\ BatchReady'
  <2>1. sendq' \in Seq(Probes) /\ sendq' # << >>
    BY <1>1, AppendProperties DEF SendProbe, TypeOK
  <2>2. fate' \in [Probes -> Fates]
    BY <1>1 DEF SendProbe, TypeOK, Fates
  <2> QED
    BY <1>1, <2>1, <2>2 DEF SendProbe, TypeOK, BatchReady
<1>2. CASE EpollWait
  BY <1>2, ReadyIsTyped DEF EpollWait, TypeOK, BatchReady, Readable
<1>3. CASE ProcessSendq
  <2>1. sendq # << >> /\ Head(sendq) \in Probes /\ sendq' \in Seq(Probes)
    BY <1>3, HeadTailProperties DEF ProcessSendq, Handle, BatchReady, TypeOK
  <2>2. lastTag' \in Tags
    BY <1>3, NextTagType DEF ProcessSendq, TypeOK
  <2>3. wireTag' \in [Probes -> Tags \cup {NoTag}]
    BY <1>3, <2>1, <2>2 DEF ProcessSendq, TypeOK
  <2>4. PICK e \in 0 .. Lag :
          /\ flying' = Older(Register([probe |-> Head(sendq), tag |-> lastTag', age |-> 0]), e)
          /\ timer' = TimerAfterSend(e)
    BY <1>3 DEF ProcessSendq
  <2>5. e \in Nat
    BY NetworkAssumption
  <2>6. [probe |-> Head(sendq), tag |-> lastTag', age |-> 0] \in Flying
    BY <2>1, <2>2, NetworkAssumption DEF Flying, Ages
  <2>7. flying' \in Seq(Flying)
    <3>1. Register([probe |-> Head(sendq), tag |-> lastTag', age |-> 0]) \in Seq(Flying)
      BY <2>6, AppendProperties DEF Register, TypeOK
    <3> QED
      BY <2>4, <2>5, <3>1, OlderProperties
  <2>8. timer' \in Int /\ timer' >= Off
    <3>1. ArmedFor(Timeout) \in Int /\ ArmedFor(Timeout) >= Off
      BY NetworkAssumption, ArmedForBounds DEF Off
    <3>2. RunDown(timer, e) \in Int /\ RunDown(timer, e) >= Off
      BY <2>5, TimerTypes DEF TypeOK
    <3> QED
      BY <2>4, <3>1, <3>2 DEF TimerAfterSend
  <2> QED
    BY <1>3, <2>1, <2>2, <2>3, <2>7, <2>8 DEF ProcessSendq, Handle, TypeOK, BatchReady
<1>4. CASE ProcessSendqFails
  <2>1. Head(sendq) \in Probes /\ sendq' \in Seq(Probes)
    BY <1>4, HeadTailProperties DEF ProcessSendqFails, Handle, BatchReady, TypeOK
  <2>2. lastTag' \in Tags
    BY <1>4, NextTagType DEF ProcessSendqFails, TypeOK
  <2>3. fate' \in [Probes -> Fates]
    BY <1>4, <2>1 DEF ProcessSendqFails, TypeOK, Fates
  <2> QED
    BY <1>4, <2>1, <2>2, <2>3 DEF ProcessSendqFails, Handle, TypeOK, BatchReady
<1>5. CASE ProcessSniffer
  <2>1. Head(inbox) \in Replies /\ inbox' \in Seq(Replies)
    BY <1>5, HeadTailProperties DEF ProcessSniffer, Handle, BatchReady, TypeOK
  <2>2. /\ Append(recvq, Head(inbox)) \in Seq(Replies)
        /\ Append(recvq, Head(inbox)) # << >>
    BY <2>1, AppendProperties DEF TypeOK
  <2>3. recvq' \in Seq(Replies) /\ (recvq # << >> => recvq' # << >>)
    BY <1>5, <2>2 DEF ProcessSniffer, TypeOK
  <2> QED
    BY <1>5, <2>1, <2>3 DEF ProcessSniffer, Handle, TypeOK, BatchReady
<1>6. CASE ProcessRecvq
  <2>1. Head(recvq) \in Replies /\ recvq' \in Seq(Replies)
    BY <1>6, HeadTailProperties DEF ProcessRecvq, Handle, BatchReady, TypeOK
  <2> DEFINE i == FirstOf(Matches(Head(recvq)))
  <2>2. i \in 1 .. Len(flying)
    BY <1>6, <2>1, MatchIsFlying DEF ProcessRecvq
  <2>3. /\ flying' = RemoveAt(flying, i)
        /\ timer' = IF i = 1 THEN NextTimeout(flying', timer) ELSE timer
        /\ fate' = [fate EXCEPT ![flying[i].probe] = "reply"]
    BY <1>6 DEF ProcessRecvq, Without
  <2> HIDE DEF i
  <2>4. flying' \in Seq(Flying)
    BY <2>2, <2>3, RemoveAtProperties DEF TypeOK
  <2>5. timer' \in Int /\ timer' >= Off
    BY <2>3, <2>4, NextTimeoutType DEF TypeOK
  <2>6. fate' \in [Probes -> Fates]
    BY <2>3 DEF TypeOK, Fates
  <2> QED
    BY <1>6, <2>1, <2>4, <2>5, <2>6 DEF ProcessRecvq, Handle, TypeOK, BatchReady
<1>7. CASE ProcessRecvqDiscards
  <2>1. recvq' \in Seq(Replies)
    BY <1>7, HeadTailProperties DEF ProcessRecvqDiscards, Handle, BatchReady, TypeOK
  <2> QED
    BY <1>7, <2>1 DEF ProcessRecvqDiscards, Handle, TypeOK, BatchReady
<1>8. CASE DropExpired
  <2>1. PICK e \in 0 .. Lag :
          /\ flying' = Older(SubSeq(flying, NumExpired + 1, Len(flying)), e)
          /\ timer' = NextTimeout(flying', RunDown(timer, e))
    BY <1>8 DEF DropExpired
  <2>2. e \in Nat
    BY NetworkAssumption
  <2>3. SubSeq(flying, NumExpired + 1, Len(flying)) \in Seq(Flying)
    <3>1. Len(flying) \in Nat /\ NumExpired \in 0 .. Len(flying)
      BY NumExpiredIsPrefix, LenProperties DEF TypeOK
    <3>2. \A i \in NumExpired + 1 .. Len(flying) : flying[i] \in Flying
      BY <3>1, ElementOfSeq DEF TypeOK
    <3> QED
      BY <3>1, <3>2, SubSeqProperties
  <2>4. flying' \in Seq(Flying)
    BY <2>1, <2>2, <2>3, OlderProperties
  <2>5. timer' \in Int /\ timer' >= Off
    BY <2>1, <2>2, <2>4, TimerTypes, NextTimeoutType DEF TypeOK
  <2>6. fate' \in [Probes -> Fates]
    BY <1>8 DEF DropExpired, TypeOK, Fates
  <2> QED
    BY <1>8, <2>4, <2>5, <2>6 DEF DropExpired, Handle, TypeOK, BatchReady
<1>9. CASE DropExpiredNone
  BY <1>9 DEF DropExpiredNone, Handle, TypeOK, BatchReady
<1>10. ASSUME NEW r \in Replies, Arrive(r)
       PROVE  TypeOK' /\ BatchReady'
  <2>1. inbox' \in Seq(Replies) /\ inbox' # << >>
    BY <1>10, AppendProperties DEF Arrive, TypeOK
  <2> QED
    BY <1>10, <2>1 DEF Arrive, TypeOK, BatchReady
<1>11. CASE Tick
  <2>1. flying' \in Seq(Flying)
    BY <1>11, OlderProperties DEF Tick, TypeOK
  <2>2. timer' \in Int /\ timer' >= Off
    BY <1>11, TimerTypes DEF Tick, TypeOK
  <2> QED
    BY <1>11, <2>1, <2>2 DEF Tick, TypeOK, BatchReady
<1>12. CASE UNCHANGED vars
  BY <1>12 DEF vars, TypeOK, BatchReady
<1> QED
  BY <1>1, <1>2, <1>3, <1>4, <1>5, <1>6, <1>7, <1>8, <1>9, <1>10, <1>11, <1>12
  DEF Next, Handlers

(* Every variable keeps its type, and a handler that pops its queue never
   finds it empty (queue_pop_element would return NULL). *)
THEOREM TypeCorrect == Spec => []TypeInv
  BY InitTypes, StepTypes, PTL DEF Spec

-----------------------------------------------------------------------------
(* The timer *)

Sorted(fl) == \A i, j \in 1 .. Len(fl) : i < j => fl[i].age >= fl[j].age

(* What is true of the timer t while the probes fl are flying. *)
Covers(fl, t) ==
    IF fl = << >> THEN t = Off
    ELSE IF t = Off THEN Remaining(fl[1]) <= 0
    ELSE t <= Lag \/ t <= Remaining(fl[1]) + Lag

LEMMA CoversIsTimerInvariant ==
    Covers(flying, timer) <=> TimerCoversOldest /\ DisarmedOnlyIfDue /\ IdleTimerOff
  BY DEF Covers, TimerCoversOldest, DisarmedOnlyIfDue, IdleTimerOff

LEMMA AgesOfFlying ==
    ASSUME NEW fl \in Seq(Flying)
    PROVE  \A i \in 1 .. Len(fl) : /\ fl[i] \in Flying
                                   /\ fl[i].age \in Ages
                                   /\ fl[i].age \in Nat
<1>1. \A i \in 1 .. Len(fl) : fl[i] \in Flying
  BY ElementOfSeq
<1>2. Ages \subseteq Nat
  BY NetworkAssumption DEF Ages
<1> QED
  BY <1>1, <1>2 DEF Flying

(* The first of a non-empty list. *)
LEMMA FirstIsFlying ==
    ASSUME NEW fl \in Seq(Flying), fl # << >>
    PROVE  /\ 1 \in 1 .. Len(fl)
           /\ fl[1] \in Flying
           /\ fl[1].age \in Ages
           /\ Remaining(fl[1]) = Timeout - fl[1].age
           /\ Remaining(fl[1]) \in Int
<1>1. 1 \in 1 .. Len(fl) /\ fl[1] \in Flying
  BY EmptySeq, ElementOfSeq
<1> QED
  BY <1>1, NetworkAssumption DEF Flying, Ages, Remaining

(* Time does not change the order. *)
LEMMA SortedOlder ==
    ASSUME NEW fl \in Seq(Flying), NEW e \in Nat, Sorted(fl)
    PROVE  Sorted(Older(fl, e))
<1>1. \A i \in 1 .. Len(fl) : fl[i].age \in Ages
  BY AgesOfFlying
<1>2. ASSUME NEW i \in 1 .. Len(fl), NEW j \in 1 .. Len(fl), i < j
      PROVE  AgedBy(fl[i].age, e) >= AgedBy(fl[j].age, e)
  BY <1>1, <1>2, AgedByBounds DEF Sorted
<1> QED
  BY <1>2, OlderProperties DEF Sorted

(* A probe is registered with age 0, behind all the others. *)
LEMMA SortedAppend ==
    ASSUME NEW fl \in Seq(Flying), NEW f \in Flying, f.age = 0, Sorted(fl)
    PROVE  Sorted(Append(fl, f))
<1>1. \A i \in 1 .. Len(fl) : fl[i].age \in Nat
  BY AgesOfFlying
<1>2. Len(fl) \in Nat
  BY LenProperties
<1>3. /\ Len(Append(fl, f)) = Len(fl) + 1
      /\ \A i \in 1 .. Len(fl) : Append(fl, f)[i] = fl[i]
      /\ Append(fl, f)[Len(fl) + 1] = f
  BY AppendProperties
<1>4. ASSUME NEW i \in 1 .. Len(fl) + 1, NEW j \in 1 .. Len(fl) + 1, i < j
      PROVE  Append(fl, f)[i].age >= Append(fl, f)[j].age
  <2>1. i \in 1 .. Len(fl) /\ Append(fl, f)[i] = fl[i]
    BY <1>2, <1>3, <1>4
  <2>2. CASE j = Len(fl) + 1
    BY <1>1, <1>3, <2>1, <2>2
  <2>3. CASE j \in 1 .. Len(fl)
    BY <1>3, <1>4, <2>1, <2>3 DEF Sorted
  <2> QED
    BY <1>2, <2>2, <2>3
<1> QED
  BY <1>3, <1>4 DEF Sorted

(* A reply takes a probe out of the middle. *)
LEMMA SortedRemoveAt ==
    ASSUME NEW fl \in Seq(Flying), NEW k \in 1 .. Len(fl), Sorted(fl)
    PROVE  Sorted(RemoveAt(fl, k))
<1>1. Len(fl) \in Nat
  BY LenProperties
<1> DEFINE from(i) == IF i < k THEN i ELSE i + 1
<1>2. /\ Len(RemoveAt(fl, k)) = Len(fl) - 1
      /\ \A i \in 1 .. Len(fl) - 1 : RemoveAt(fl, k)[i] = fl[from(i)]
  BY RemoveAtProperties
<1>3. ASSUME NEW i \in 1 .. Len(fl) - 1, NEW j \in 1 .. Len(fl) - 1, i < j
      PROVE  from(i) \in 1 .. Len(fl) /\ from(j) \in 1 .. Len(fl) /\ from(i) < from(j)
  BY <1>1, <1>3
<1> HIDE DEF from
<1>4. ASSUME NEW i \in 1 .. Len(fl) - 1, NEW j \in 1 .. Len(fl) - 1, i < j
      PROVE  RemoveAt(fl, k)[i].age >= RemoveAt(fl, k)[j].age
  BY <1>2, <1>3, <1>4 DEF Sorted
<1> QED
  BY <1>2, <1>4 DEF Sorted

(* The oldest probes are dropped. *)
LEMMA SuffixProperties ==
    ASSUME NEW fl \in Seq(Flying), NEW n \in 0 .. Len(fl), Sorted(fl)
    PROVE  /\ SubSeq(fl, n + 1, Len(fl)) \in Seq(Flying)
           /\ Len(SubSeq(fl, n + 1, Len(fl))) = Len(fl) - n
           /\ \A i \in 1 .. Len(fl) - n : SubSeq(fl, n + 1, Len(fl))[i] = fl[n + i]
           /\ Sorted(SubSeq(fl, n + 1, Len(fl)))
<1> DEFINE sub == SubSeq(fl, n + 1, Len(fl))
<1>1. Len(fl) \in Nat
  BY LenProperties
<1>2. \A i \in n + 1 .. Len(fl) : fl[i] \in Flying
  BY <1>1, ElementOfSeq
<1>3. /\ sub \in Seq(Flying)
      /\ Len(sub) = IF n + 1 <= Len(fl) THEN Len(fl) - (n + 1) + 1 ELSE 0
      /\ \A i \in 1 .. Len(fl) - (n + 1) + 1 : sub[i] = fl[n + 1 + i - 1]
  BY <1>1, <1>2, SubSeqProperties
<1> HIDE DEF sub
<1>4. Len(sub) = Len(fl) - n
  BY <1>1, <1>3
<1>5. \A i \in 1 .. Len(fl) - n : sub[i] = fl[n + i]
  BY <1>1, <1>3
<1>6. Sorted(sub)
  <2>1. ASSUME NEW i \in 1 .. Len(fl) - n, NEW j \in 1 .. Len(fl) - n, i < j
        PROVE  n + i \in 1 .. Len(fl) /\ n + j \in 1 .. Len(fl) /\ n + i < n + j
    BY <1>1, <2>1
  <2>2. ASSUME NEW i \in 1 .. Len(fl) - n, NEW j \in 1 .. Len(fl) - n, i < j
        PROVE  sub[i].age >= sub[j].age
    BY <1>5, <2>1, <2>2 DEF Sorted
  <2> QED
    BY <1>4, <2>2 DEF Sorted
<1> QED
  BY <1>3, <1>4, <1>5, <1>6 DEF sub

(* As time goes by the timer runs down with the time the oldest probe has
   left. *)
LEMMA CoversOlder ==
    ASSUME NEW fl \in Seq(Flying), NEW t \in Int, t >= Off, NEW e \in Nat, Covers(fl, t)
    PROVE  Covers(Older(fl, e), RunDown(t, e))
<1>1. CASE fl = << >>
  <2>1. Older(fl, e) = << >>
    BY <1>1, OlderProperties, EmptySeq
  <2> QED
    BY <1>1, <2>1 DEF Covers, RunDown
<1>2. CASE fl # << >>
  <2>1. Older(fl, e) # << >> /\ Older(fl, e) \in Seq(Flying)
    BY <1>2, OlderProperties, EmptySeq
  <2>2. /\ fl[1].age \in Ages
        /\ Older(fl, e)[1].age = AgedBy(fl[1].age, e)
    BY <1>2, FirstIsFlying, OlderProperties
  <2> DEFINE a == fl[1].age
             b == Older(fl, e)[1].age
  <2>3. a \in Nat /\ b \in Nat /\ a <= b /\ b <= a + e
    <3>1. a \in Ages /\ b = AgedBy(a, e)
      BY <2>2
    <3> HIDE DEF a, b
    <3>2. b \in Ages /\ a <= b /\ b <= a + e
      BY <3>1, AgedByBounds
    <3> QED
      BY <3>1, <3>2, NetworkAssumption DEF Ages
  <2>4. Remaining(fl[1]) = Timeout - a /\ Remaining(Older(fl, e)[1]) = Timeout - b
    BY DEF Remaining
  <2> HIDE DEF a, b
  <2>5. CASE t = Off
    BY <1>2, <2>1, <2>3, <2>4, <2>5, NetworkAssumption DEF Covers, RunDown
  <2>6. CASE t # Off
    <3>1. t \in Nat /\ RunDown(t, e) = IF t > e THEN t - e ELSE 0
      BY <2>6 DEF RunDown, Off
    <3>2. t <= Lag \/ t <= Timeout - a + Lag
      BY <1>2, <2>4, <2>6 DEF Covers
    <3>3. RunDown(t, e) <= Lag \/ RunDown(t, e) <= Timeout - b + Lag
      BY <2>3, <3>1, <3>2, NetworkAssumption
    <3>4. RunDown(t, e) # Off
      BY <3>1 DEF Off
    <3> QED
      BY <2>1, <2>4, <3>3, <3>4 DEF Covers
  <2> QED
    BY <2>5, <2>6
<1> QED
  BY <1>1, <1>2

(* network_update_next_timeout sets the timer right, unless the oldest probe
   is overdue: then it leaves the timer as it is, which has to be right. *)
LEMMA CoversNextTimeout ==
    ASSUME NEW fl \in Seq(Flying), NEW t \in Int, t >= Off,
           fl # << >> /\ Remaining(fl[1]) < 0 => Covers(fl, t)
    PROVE  Covers(fl, NextTimeout(fl, t))
<1>1. CASE fl = << >>
  BY <1>1 DEF Covers, NextTimeout, UpdateTimer
<1>2. CASE fl # << >> /\ Remaining(fl[1]) < 0
  BY <1>2 DEF NextTimeout, UpdateTimer
<1>3. CASE fl # << >> /\ ~ (Remaining(fl[1]) < 0)
  <2> DEFINE d == Remaining(fl[1])
  <2>1. d \in Nat
    BY <1>3, FirstIsFlying
  <2>2. NextTimeout(fl, t) = ArmedFor(d)
    BY <1>3 DEF NextTimeout, UpdateTimer
  <2> HIDE DEF d
  <2>3. CASE d = 0
    BY <1>3, <2>2, <2>3, ArmedForBounds DEF Covers, d
  <2>4. CASE d > 0
    <3>1. ArmedFor(d) \in 1 .. d
      BY <2>1, <2>4, ArmedForBounds
    <3>2. ArmedFor(d) # Off /\ ArmedFor(d) <= d + Lag
      BY <2>1, <3>1, NetworkAssumption DEF Off
    <3> QED
      BY <1>3, <2>2, <3>2 DEF Covers, d
  <2> QED
    BY <2>1, <2>3, <2>4
<1> QED
  BY <1>1, <1>2, <1>3

(* The inductive invariant.  It says of the timer what the three invariants of
   Network say, and needs the order of the probes: a probe that takes the first
   place has no less time left than the one it replaces. *)
IInv == TypeInv /\ Sorted(flying) /\ Covers(flying, timer)

LEMMA InitIInv == Init => IInv
<1> SUFFICES ASSUME Init PROVE Sorted(flying) /\ Covers(flying, timer)
  BY InitTypes DEF IInv
<1> QED
  BY EmptySeq DEF Init, Sorted, Covers

LEMMA StepIInv == IInv /\ [Next]_vars => IInv'
<1> SUFFICES ASSUME TypeInv, TypeInv', Sorted(flying), Covers(flying, timer), [Next]_vars
             PROVE  Sorted(flying') /\ Covers(flying', timer')
  BY StepTypes DEF IInv
<1>1. /\ flying \in Seq(Flying) /\ timer \in Int /\ timer >= Off
      /\ flying' \in Seq(Flying)
      /\ TypeOK /\ BatchReady
  BY DEF TypeInv, TypeOK
<1>2. CASE ProcessSendq
  <2> DEFINE f == [probe |-> Head(sendq), tag |-> lastTag', age |-> 0]
  <2>1. PICK e \in 0 .. Lag : flying' = Older(Append(flying, f), e) /\ timer' = TimerAfterSend(e)
    BY <1>2 DEF ProcessSendq, Register
  <2>2. e \in Nat /\ e <= Lag
    BY NetworkAssumption
  <2>3. f \in Flying /\ f.age = 0
    <3>1. Head(sendq) \in Probes
      BY <1>1, <1>2, HeadTailProperties DEF ProcessSendq, Handle, BatchReady, TypeOK
    <3>2. lastTag' \in Tags
      BY DEF TypeInv, TypeOK
    <3> QED
      BY <3>1, <3>2, NetworkAssumption DEF Flying, Ages
  <2> HIDE DEF f
  <2>4. /\ Append(flying, f) \in Seq(Flying)
        /\ Append(flying, f) # << >>
        /\ Append(flying, f)[1] = IF flying = << >> THEN f ELSE flying[1]
    BY <1>1, <2>3, AppendProperties, EmptySeq
  <2>5. Sorted(flying')
    BY <1>1, <2>1, <2>2, <2>3, <2>4, SortedAppend, SortedOlder
  <2>6. CASE flying = << >>
    <3>1. flying' # << >> /\ flying'[1].age = AgedBy(0, e)
      BY <2>1, <2>2, <2>3, <2>4, <2>6, OlderProperties, EmptySeq
    <3>2. AgedBy(0, e) \in Nat /\ AgedBy(0, e) <= e
      BY <2>2, AgedByBounds, NetworkAssumption DEF Ages
    <3>3. timer' = ArmedFor(Timeout)
      BY <2>1, <2>6 DEF TimerAfterSend
    <3>4. CASE Timeout = 0
      <4>1. timer' = Off /\ Remaining(flying'[1]) <= 0
        BY <3>1, <3>2, <3>3, <3>4, ArmedForBounds DEF Remaining
      <4> QED
        BY <2>5, <3>1, <4>1 DEF Covers
    <3>5. CASE Timeout > 0
      <4>1. ArmedFor(Timeout) \in 1 .. Timeout
        BY <3>5, ArmedForBounds, NetworkAssumption
      <4>2. timer' # Off /\ timer' <= Timeout - AgedBy(0, e) + Lag
        BY <2>2, <3>2, <3>3, <4>1, NetworkAssumption DEF Off
      <4> QED
        BY <2>5, <3>1, <4>2 DEF Covers, Remaining
    <3> QED
      BY <3>4, <3>5, NetworkAssumption
  <2>7. CASE flying # << >>
    <3>1. Covers(Append(flying, f), timer)
      BY <2>4, <2>7 DEF Covers
    <3>2. timer' = RunDown(timer, e)
      BY <2>1, <2>7 DEF TimerAfterSend
    <3> QED
      BY <1>1, <2>1, <2>2, <2>4, <2>5, <3>1, <3>2, CoversOlder
  <2> QED
    BY <2>6, <2>7
<1>3. CASE ProcessRecvq
  <2> DEFINE i == FirstOf(Matches(Head(recvq)))
  <2>1. i \in 1 .. Len(flying)
    <3>1. Head(recvq) \in Replies
      BY <1>1, <1>3, HeadTailProperties DEF ProcessRecvq, Handle, BatchReady, TypeOK
    <3> QED
      BY <1>1, <1>3, <3>1, MatchIsFlying DEF ProcessRecvq
  <2>2. /\ flying' = RemoveAt(flying, i)
        /\ timer' = IF i = 1 THEN NextTimeout(flying', timer) ELSE timer
    BY <1>3 DEF ProcessRecvq, Without
  <2> HIDE DEF i
  <2>3. Sorted(flying')
    BY <1>1, <2>1, <2>2, SortedRemoveAt
  <2>4. /\ Len(flying) \in Nat
        /\ Len(flying') = Len(flying) - 1
        /\ \A j \in 1 .. Len(flying) - 1 : flying'[j] = IF j < i THEN flying[j] ELSE flying[j + 1]
    BY <1>1, <2>1, <2>2, RemoveAtProperties, LenProperties
  <2>5. flying # << >>
    BY <1>1, <2>1, EmptySeq
  <2>6. CASE i = 1
    <3>1. ASSUME flying' # << >>, Remaining(flying'[1]) < 0
          PROVE  Covers(flying', timer)
      <4>1. 1 \in 1 .. Len(flying) - 1 /\ flying'[1] = flying[2]
        BY <1>1, <2>4, <2>6, <3>1, EmptySeq
      <4>2. flying[1].age >= flying'[1].age
        BY <2>4, <4>1 DEF Sorted
      <4>3. flying[1].age \in Nat /\ flying'[1].age \in Nat
        BY <1>1, <2>4, <4>1, AgesOfFlying
      <4>4. Remaining(flying[1]) <= Remaining(flying'[1])
        <5>1. PICK a, b : a = flying[1].age /\ b = flying'[1].age
          OBVIOUS
        <5>2. Timeout - a <= Timeout - b
          <6>1. Timeout \in Nat /\ a \in Nat /\ b \in Nat /\ a >= b
            BY ONLY <4>2, <4>3, <5>1, NetworkAssumption
          <6> QED
            BY ONLY <6>1
        <5> QED
          BY ONLY <5>1, <5>2 DEF Remaining
      <4>5. /\ Remaining(flying[1]) \in Int /\ Remaining(flying'[1]) \in Int
            /\ timer \in Int /\ Lag \in Nat
        BY <1>1, <4>3, NetworkAssumption DEF Remaining
      <4>6. IF timer = Off THEN Remaining(flying[1]) <= 0
            ELSE timer <= Lag \/ timer <= Remaining(flying[1]) + Lag
        BY <2>5 DEF Covers
      <4>7. PICK a, b : a = Remaining(flying[1]) /\ b = Remaining(flying'[1])
        OBVIOUS
      <4>8. IF timer = Off THEN b <= 0 ELSE timer <= Lag \/ timer <= b + Lag
        <5>1. IF timer = Off THEN a <= 0 ELSE timer <= Lag \/ timer <= a + Lag
          BY ONLY <4>6, <4>7
        <5>2. a <= b /\ a \in Int /\ b \in Int /\ b < 0 /\ timer \in Int /\ Lag \in Nat
          BY ONLY <3>1, <4>4, <4>5, <4>7
        <5> QED
          BY ONLY <5>1, <5>2
      <4> QED
        BY ONLY <3>1, <4>7, <4>8 DEF Covers
    <3>2. timer' = NextTimeout(flying', timer)
      BY <2>2, <2>6
    <3> QED
      BY <1>1, <2>3, <3>1, <3>2, CoversNextTimeout
  <2>7. CASE i # 1
    <3>1. flying' # << >> /\ flying'[1] = flying[1]
      BY <1>1, <2>1, <2>4, <2>7, EmptySeq
    <3> QED
      BY <2>2, <2>3, <2>5, <2>7, <3>1 DEF Covers
  <2> QED
    BY <2>6, <2>7
<1>4. CASE DropExpired
  <2> DEFINE n   == NumExpired
             sub == SubSeq(flying, n + 1, Len(flying))
  <2>1. PICK e \in 0 .. Lag : flying' = Older(sub, e) /\ timer' = NextTimeout(flying', RunDown(timer, e))
    BY <1>4 DEF DropExpired
  <2>2. e \in Nat
    BY NetworkAssumption
  <2>3. n \in 0 .. Len(flying) /\ Len(flying) \in Nat
    BY <1>1, NumExpiredIsPrefix, LenProperties
  <2>4. /\ sub \in Seq(Flying) /\ Len(sub) = Len(flying) - n /\ Sorted(sub)
        /\ \A j \in 1 .. Len(flying) - n : sub[j] = flying[n + j]
    <3> HIDE DEF n
    <3> QED
      BY <1>1, <2>3, SuffixProperties
  <2> HIDE DEF n, sub
  <2>5. Sorted(flying')
    BY <2>1, <2>2, <2>4, SortedOlder
  <2>6. RunDown(timer, e) \in Int /\ RunDown(timer, e) >= Off
    BY <1>1, <2>2, TimerTypes
  <2>7. ASSUME flying' # << >>, Remaining(flying'[1]) < 0
        PROVE  Covers(flying', RunDown(timer, e))
    <3>1. sub # << >>
      BY <2>1, <2>2, <2>4, <2>7, OlderProperties, EmptySeq
    <3>2. n + 1 \in 1 .. Len(flying) /\ sub[1] = flying[n + 1] /\ flying # << >>
      BY <1>1, <2>3, <2>4, <3>1, EmptySeq
    <3>3. flying[1].age \in Nat /\ sub[1].age \in Nat
      BY <1>1, <3>2, AgesOfFlying
    <3>4. flying[1].age >= sub[1].age
      <4>1. CASE n = 0
        BY <3>2, <3>3, <4>1
      <4>2. CASE n > 0
        BY <2>3, <3>2, <4>2 DEF Sorted
      <4> QED
        BY <2>3, <4>1, <4>2
    <3>5. CASE timer # Off
      <4>1. Covers(sub, timer)
        BY <1>1, <3>1, <3>2, <3>3, <3>4, <3>5, NetworkAssumption DEF Covers, Remaining
      <4> QED
        BY <1>1, <2>1, <2>2, <2>4, <4>1, CoversOlder
    <3>6. CASE timer = Off
      <4>1. RunDown(timer, e) = Off /\ Remaining(flying'[1]) <= 0
        BY <1>1, <2>7, <3>6, FirstIsFlying DEF RunDown
      <4> QED
        BY <2>7, <4>1 DEF Covers
    <3> QED
      BY <3>5, <3>6
  <2> QED
    BY <1>1, <2>1, <2>5, <2>6, <2>7, CoversNextTimeout
<1>5. CASE Tick
  <2>1. flying' = Older(flying, 1) /\ timer' = RunDown(timer, 1)
    BY <1>5 DEF Tick
  <2> QED
    BY <1>1, <2>1, SortedOlder, CoversOlder
<1>6. CASE UNCHANGED <<flying, timer>>
  BY <1>6
<1>7. CASE \/ \E p \in Probes : SendProbe(p)
           \/ \E r \in Replies : Arrive(r)
           \/ EpollWait \/ ProcessSendqFails \/ ProcessSniffer
           \/ ProcessRecvqDiscards \/ DropExpiredNone
           \/ UNCHANGED vars
  <2>1. UNCHANGED <<flying, timer>>
    BY <1>7 DEF SendProbe, Arrive, EpollWait, ProcessSendqFails, ProcessSniffer,
                ProcessRecvqDiscards, DropExpiredNone, vars
  <2> QED
    BY <1>6, <2>1
<1> QED
  BY <1>2, <1>3, <1>4, <1>5, <1>7 DEF Next, Handlers

LEMMA InvariantHolds == Spec => []IInv
  BY InitIInv, StepIInv, PTL DEF Spec

(* The flying probes stay in the order in which they were sent, which the
   search for the oldest one and for the expired ones relies on. *)
THEOREM OldestFirstHolds == Spec => []OldestFirst
<1>1. IInv => OldestFirst
  BY DEF IInv, Sorted, OldestFirst
<1> QED
  BY <1>1, InvariantHolds, PTL

(* A running timer goes off in time for the oldest flying probe, whatever was
   answered in between; it is off without flying probes, and with flying
   probes only when the oldest one is due. *)
THEOREM TimerIsRight == Spec => []TimerRight /\ []IdleTimerOff
<1>1. IInv => TimerRight /\ IdleTimerOff
  BY CoversIsTimerInvariant DEF IInv, TimerRight
<1> QED
  BY <1>1, InvariantHolds, PTL

(* EXTRA_DELAY keeps network_drop_expired_flying_probe from disarming the timer
   while it leaves probes in flight, provided the handler takes no longer than
   that. *)
THEOREM ExtraDelayKeepsTimer ==
    ASSUME Lag <= ExtraDelay
    PROVE  Spec => DropKeepsTimer
<1>1. ASSUME IInv, IInv', DropExpired, flying' # << >>
      PROVE  timer' # Off
  <2> DEFINE n   == NumExpired
             sub == SubSeq(flying, n + 1, Len(flying))
  <2>1. PICK e \in 0 .. Lag : flying' = Older(sub, e) /\ timer' = NextTimeout(flying', RunDown(timer, e))
    BY <1>1 DEF DropExpired
  <2>2. e \in Nat /\ e <= ExtraDelay
    BY NetworkAssumption
  <2>3. /\ flying \in Seq(Flying) /\ flying' \in Seq(Flying) /\ Sorted(flying) /\ TypeOK
    BY <1>1 DEF IInv, TypeInv, TypeOK
  <2>4. /\ n \in 0 .. Len(flying) /\ Len(flying) \in Nat
        /\ n < Len(flying) => ~ Expired(flying[n + 1])
    BY <2>3, NumExpiredIsPrefix, LenProperties
  <2>5. /\ sub \in Seq(Flying) /\ Len(sub) = Len(flying) - n
        /\ \A j \in 1 .. Len(flying) - n : sub[j] = flying[n + j]
    <3> HIDE DEF n
    <3> QED
      BY <2>3, <2>4, SuffixProperties
  <2> HIDE DEF n, sub
  <2>6. sub # << >>
    BY <1>1, <2>1, <2>2, <2>5, OlderProperties, EmptySeq
  <2>7. n < Len(flying) /\ sub[1] = flying[n + 1]
    BY <2>4, <2>5, <2>6, EmptySeq
  <2>8. Remaining(sub[1]) > ExtraDelay
    BY <2>4, <2>5, <2>6, <2>7, FirstIsFlying, NetworkAssumption DEF Expired
  <2>9. flying'[1].age = AgedBy(sub[1].age, e) /\ sub[1].age \in Ages
    BY <2>1, <2>2, <2>5, <2>6, FirstIsFlying, OlderProperties
  <2>10. AgedBy(sub[1].age, e) \in Nat /\ AgedBy(sub[1].age, e) <= sub[1].age + e
    <3>1. AgedBy(sub[1].age, e) \in Ages /\ AgedBy(sub[1].age, e) <= sub[1].age + e
      BY <2>2, <2>9, AgedByBounds
    <3> QED
      BY <3>1, NetworkAssumption DEF Ages
  <2>11. sub[1].age \in Nat
    BY <2>9, NetworkAssumption DEF Ages
  <2>12. Remaining(flying'[1]) \in Nat /\ Remaining(flying'[1]) > 0
    BY <2>2, <2>8, <2>9, <2>10, <2>11, NetworkAssumption DEF Remaining
  <2>13. timer' = ArmedFor(Remaining(flying'[1]))
    BY <1>1, <2>1, <2>12 DEF NextTimeout, UpdateTimer
  <2> QED
    BY <2>12, <2>13, ArmedForBounds DEF Off
<1>2. IInv /\ IInv' /\ [Next]_vars => [DropExpired /\ flying' # << >> => timer' # Off]_vars
  BY <1>1
<1> QED
  BY <1>2, InvariantHolds, PTL DEF Spec, DropKeepsTimer

-----------------------------------------------------------------------------
(* The end of every probe *)

(* The probes to send are sq, the flying ones fl, and ft says what became of
   them: the probes in the two lists are those that are pending, once each. *)
Once(sq, fl) ==
    /\ \A i, j \in 1 .. Len(sq) : sq[i] = sq[j] => i = j
    /\ \A i, j \in 1 .. Len(fl) : fl[i].probe = fl[j].probe => i = j
    /\ \A i \in 1 .. Len(sq), j \in 1 .. Len(fl) : sq[i] # fl[j].probe

AllPending(sq, fl, ft) ==
    /\ \A i \in 1 .. Len(sq) : ft[sq[i]] = "pending"
    /\ \A i \in 1 .. Len(fl) : ft[fl[i].probe] = "pending"

NoneLost(sq, fl, ft) ==
    \A p \in Probes : ft[p] = "pending" =>
        \/ \E i \in 1 .. Len(sq) : sq[i] = p
        \/ \E i \in 1 .. Len(fl) : fl[i].probe = p

Delivered(sq, fl, ft) == Once(sq, fl) /\ AllPending(sq, fl, ft) /\ NoneLost(sq, fl, ft)

(* A new probe is queued. *)
LEMMA DeliveredQueued ==
    ASSUME NEW sq \in Seq(Probes), NEW fl \in Seq(Flying), NEW ft \in [Probes -> Fates],
           NEW p \in Probes, ft[p] = "new", Delivered(sq, fl, ft)
    PROVE  Delivered(Append(sq, p), fl, [ft EXCEPT ![p] = "pending"])
<1> DEFINE sq2 == Append(sq, p)
           ft2 == [ft EXCEPT ![p] = "pending"]
<1>1. /\ Len(sq) \in Nat /\ Len(sq2) = Len(sq) + 1
      /\ \A i \in 1 .. Len(sq) : sq2[i] = sq[i] /\ sq2[i] \in Probes
      /\ sq2[Len(sq) + 1] = p
  BY LenProperties, AppendProperties, ElementOfSeq
<1>2. /\ \A i \in 1 .. Len(sq) : sq[i] # p
      /\ \A i \in 1 .. Len(fl) : fl[i].probe # p /\ fl[i].probe \in Probes
  <2>1. \A i \in 1 .. Len(fl) : fl[i].probe \in Probes
    BY AgesOfFlying DEF Flying
  <2>2. \A i \in 1 .. Len(sq) : sq[i] # p
    BY DEF Delivered, AllPending
  <2>3. \A i \in 1 .. Len(fl) : fl[i].probe # p
    BY DEF Delivered, AllPending
  <2> QED
    BY <2>1, <2>2, <2>3
<1>3. ft2[p] = "pending" /\ \A q \in Probes : q # p => ft2[q] = ft[q]
  OBVIOUS
<1> HIDE DEF sq2, ft2
<1>4. \A i \in 1 .. Len(sq2) : i \in 1 .. Len(sq) \/ (i = Len(sq) + 1 /\ sq2[i] = p)
  BY <1>1
<1>5. Once(sq2, fl)
  BY <1>1, <1>2, <1>4 DEF Delivered, Once
<1>6. AllPending(sq2, fl, ft2)
  BY <1>1, <1>2, <1>3, <1>4 DEF Delivered, AllPending
<1>7. NoneLost(sq2, fl, ft2)
  <2> SUFFICES ASSUME NEW q \in Probes, ft2[q] = "pending"
               PROVE  \/ \E i \in 1 .. Len(sq2) : sq2[i] = q
                      \/ \E i \in 1 .. Len(fl) : fl[i].probe = q
    BY DEF NoneLost
  <2>1. CASE q = p
    <3>1. Len(sq) + 1 \in 1 .. Len(sq2)
      BY <1>1
    <3> QED
      BY <1>1, <2>1, <3>1
  <2>2. CASE q # p
    <3>1. \/ \E i \in 1 .. Len(sq) : sq[i] = q
          \/ \E i \in 1 .. Len(fl) : fl[i].probe = q
      BY <1>3, <2>2 DEF Delivered, NoneLost
    <3>2. \A i \in 1 .. Len(sq) : i \in 1 .. Len(sq2)
      BY <1>1
    <3> QED
      BY <1>1, <3>1, <3>2
  <2> QED
    BY <2>1, <2>2
<1> QED
  BY <1>5, <1>6, <1>7 DEF Delivered, sq2, ft2

(* What is left of the queue once its first probe p is taken. *)
LEMMA RestOfQueue ==
    ASSUME NEW sq \in Seq(Probes), NEW fl \in Seq(Flying), sq # << >>, Once(sq, fl)
    PROVE  /\ Len(sq) \in Nat \ {0} /\ Head(sq) \in Probes /\ Head(sq) = sq[1]
           /\ Tail(sq) \in Seq(Probes)
           /\ Len(Tail(sq)) = Len(sq) - 1
           /\ \A i \in 1 .. Len(Tail(sq)) : /\ Tail(sq)[i] = sq[i + 1]
                                            /\ i + 1 \in 1 .. Len(sq)
                                            /\ Tail(sq)[i] # Head(sq)
           /\ \A i \in 1 .. Len(fl) : fl[i].probe # Head(sq)
<1>1. Len(sq) \in Nat \ {0} /\ Head(sq) \in Probes /\ Head(sq) = sq[1]
  BY EmptySeq, HeadTailProperties
<1>2. /\ Tail(sq) \in Seq(Probes)
      /\ Len(Tail(sq)) = Len(sq) - 1
      /\ \A i \in 1 .. Len(Tail(sq)) : Tail(sq)[i] = sq[i + 1]
  BY HeadTailProperties
<1>3. \A i \in 1 .. Len(Tail(sq)) : i + 1 \in 1 .. Len(sq) /\ i + 1 # 1
  BY <1>1, <1>2
<1>4. 1 \in 1 .. Len(sq)
  BY <1>1
<1>5. \A i \in 1 .. Len(Tail(sq)) : Tail(sq)[i] # Head(sq)
  BY <1>1, <1>2, <1>3, <1>4 DEF Once
<1>6. \A i \in 1 .. Len(fl) : fl[i].probe # Head(sq)
  BY <1>1, <1>4 DEF Once
<1> QED
  BY <1>1, <1>2, <1>3, <1>5, <1>6

(* The first probe of the queue flies. *)
LEMMA DeliveredSent ==
    ASSUME NEW sq \in Seq(Probes), NEW fl \in Seq(Flying), NEW ft \in [Probes -> Fates],
           sq # << >>, Delivered(sq, fl, ft), NEW f \in Flying, f.probe = Head(sq)
    PROVE  Delivered(Tail(sq), Append(fl, f), ft)
<1> DEFINE p   == Head(sq)
           sq2 == Tail(sq)
           fl2 == Append(fl, f)
<1>1. /\ Len(sq) \in Nat \ {0} /\ p = sq[1] /\ Len(sq2) = Len(sq) - 1
      /\ \A i \in 1 .. Len(sq2) : sq2[i] = sq[i + 1] /\ i + 1 \in 1 .. Len(sq) /\ sq2[i] # p
      /\ \A i \in 1 .. Len(fl) : fl[i].probe # p
  BY RestOfQueue DEF Delivered
<1>2. /\ Len(fl) \in Nat /\ Len(fl2) = Len(fl) + 1
      /\ \A i \in 1 .. Len(fl) : fl2[i] = fl[i]
      /\ fl2[Len(fl) + 1].probe = p
  BY LenProperties, AppendProperties
<1> HIDE DEF p, sq2, fl2
<1>3. \A i \in 1 .. Len(fl2) :
         (i \in 1 .. Len(fl) /\ fl2[i].probe = fl[i].probe) \/ (i = Len(fl) + 1 /\ fl2[i].probe = p)
  BY <1>2
<1>4. 1 \in 1 .. Len(sq) /\ Len(sq2) \in Nat
  BY <1>1
<1>5. Once(sq2, fl2)
  <2>1. ASSUME NEW i \in 1 .. Len(sq2), NEW j \in 1 .. Len(sq2), sq2[i] = sq2[j]
        PROVE  i = j
    <3>1. i + 1 = j + 1
      BY <1>1, <2>1 DEF Delivered, Once
    <3> QED
      BY <1>4, <3>1
  <2>2. ASSUME NEW i \in 1 .. Len(fl2), NEW j \in 1 .. Len(fl2), fl2[i].probe = fl2[j].probe
        PROVE  i = j
    BY <1>1, <1>3, <2>2 DEF Delivered, Once
  <2>3. ASSUME NEW i \in 1 .. Len(sq2), NEW j \in 1 .. Len(fl2)
        PROVE  sq2[i] # fl2[j].probe
    BY <1>1, <1>3 DEF Delivered, Once
  <2> QED
    BY <2>1, <2>2, <2>3 DEF Once
<1>6. AllPending(sq2, fl2, ft)
  <2>1. \A i \in 1 .. Len(sq2) : ft[sq2[i]] = "pending"
    BY <1>1 DEF Delivered, AllPending
  <2>2. ft[p] = "pending"
    BY <1>1, <1>4 DEF Delivered, AllPending
  <2>3. \A i \in 1 .. Len(fl2) : ft[fl2[i].probe] = "pending"
    BY <1>3, <2>2 DEF Delivered, AllPending
  <2> QED
    BY <2>1, <2>3 DEF AllPending
<1>7. NoneLost(sq2, fl2, ft)
  <2> SUFFICES ASSUME NEW q \in Probes, ft[q] = "pending"
               PROVE  \/ \E i \in 1 .. Len(sq2) : sq2[i] = q
                      \/ \E i \in 1 .. Len(fl2) : fl2[i].probe = q
    BY DEF NoneLost
  <2>1. ASSUME NEW i \in 1 .. Len(sq), sq[i] = q
        PROVE  \/ \E k \in 1 .. Len(sq2) : sq2[k] = q
               \/ \E k \in 1 .. Len(fl2) : fl2[k].probe = q
    <3>1. CASE i = 1
      <4>1. Len(fl) + 1 \in 1 .. Len(fl2)
        BY <1>2
      <4> QED
        BY <1>1, <1>2, <2>1, <3>1, <4>1
    <3>2. CASE i # 1
      <4>1. i - 1 \in 1 .. Len(sq2) /\ (i - 1) + 1 = i
        BY <1>1, <3>2
      <4>2. sq2[i - 1] = q
        BY <1>1, <2>1, <4>1
      <4> QED
        BY <4>1, <4>2
    <3> QED
      BY <3>1, <3>2
  <2>2. ASSUME NEW i \in 1 .. Len(fl), fl[i].probe = q
        PROVE  \E k \in 1 .. Len(fl2) : fl2[k].probe = q
    <3>1. i \in 1 .. Len(fl2)
      BY <1>2
    <3> QED
      BY <1>2, <2>2, <3>1
  <2> QED
    BY <2>1, <2>2 DEF Delivered, NoneLost
<1> QED
  BY <1>5, <1>6, <1>7 DEF Delivered, sq2, fl2

(* The first probe of the queue could not be sent, and is told so. *)
LEMMA DeliveredForgotten ==
    ASSUME NEW sq \in Seq(Probes), NEW fl \in Seq(Flying), NEW ft \in [Probes -> Fates],
           sq # << >>, Delivered(sq, fl, ft)
    PROVE  Delivered(Tail(sq), fl, [ft EXCEPT ![Head(sq)] = "unsent"])
<1> DEFINE p   == Head(sq)
           sq2 == Tail(sq)
           ft2 == [ft EXCEPT ![p] = "unsent"]
<1>1. /\ Len(sq) \in Nat \ {0} /\ p = sq[1] /\ p \in Probes /\ Len(sq2) = Len(sq) - 1
      /\ \A i \in 1 .. Len(sq2) : sq2[i] = sq[i + 1] /\ i + 1 \in 1 .. Len(sq) /\ sq2[i] # p
      /\ \A i \in 1 .. Len(fl) : fl[i].probe # p
  BY RestOfQueue DEF Delivered
<1>2. ft2[p] = "unsent" /\ \A q \in Probes : q # p => ft2[q] = ft[q]
  BY <1>1
<1>3. /\ \A i \in 1 .. Len(sq) : sq[i] \in Probes
      /\ \A i \in 1 .. Len(fl) : fl[i].probe \in Probes
  BY ElementOfSeq, AgesOfFlying DEF Flying
<1> HIDE DEF p, sq2, ft2
<1>4. Once(sq2, fl)
  <2>1. ASSUME NEW i \in 1 .. Len(sq2), NEW j \in 1 .. Len(sq2), sq2[i] = sq2[j]
        PROVE  i = j
    <3>1. i + 1 = j + 1
      BY <1>1, <2>1 DEF Delivered, Once
    <3> QED
      BY <1>1, <3>1
  <2> QED
    BY <1>1, <2>1 DEF Delivered, Once
<1>5. AllPending(sq2, fl, ft2)
  <2>1. \A i \in 1 .. Len(sq2) : sq2[i] \in Probes /\ ft[sq2[i]] = "pending"
    BY <1>1, <1>3 DEF Delivered, AllPending
  <2> QED
    BY <1>1, <1>2, <1>3, <2>1 DEF Delivered, AllPending
<1>6. NoneLost(sq2, fl, ft2)
  <2> SUFFICES ASSUME NEW q \in Probes, ft2[q] = "pending"
               PROVE  \/ \E i \in 1 .. Len(sq2) : sq2[i] = q
                      \/ \E i \in 1 .. Len(fl) : fl[i].probe = q
    BY DEF NoneLost
  <2>1. q # p /\ ft[q] = "pending"
    BY <1>2
  <2>2. ASSUME NEW i \in 1 .. Len(sq), sq[i] = q
        PROVE  \E k \in 1 .. Len(sq2) : sq2[k] = q
    <3>1. i - 1 \in 1 .. Len(sq2) /\ (i - 1) + 1 = i
      BY <1>1, <2>1, <2>2
    <3>2. sq2[i - 1] = q
      BY <1>1, <2>2, <3>1
    <3> QED
      BY <3>1, <3>2
  <2> QED
    BY <2>1, <2>2 DEF Delivered, NoneLost
<1> QED
  BY <1>4, <1>5, <1>6 DEF Delivered, p, sq2, ft2

(* The k-th flying probe is answered. *)
LEMMA DeliveredAnswered ==
    ASSUME NEW sq \in Seq(Probes), NEW fl \in Seq(Flying), NEW ft \in [Probes -> Fates],
           Delivered(sq, fl, ft), NEW k \in 1 .. Len(fl)
    PROVE  Delivered(sq, RemoveAt(fl, k), [ft EXCEPT ![fl[k].probe] = "reply"])
<1> DEFINE p   == fl[k].probe
           fl2 == RemoveAt(fl, k)
           ft2 == [ft EXCEPT ![p] = "reply"]
           from(i) == IF i < k THEN i ELSE i + 1
<1>1. Len(fl) \in Nat
  BY LenProperties
<1>2. /\ \A i \in 1 .. Len(sq) : sq[i] \in Probes
      /\ \A i \in 1 .. Len(fl) : fl[i].probe \in Probes
  BY ElementOfSeq, AgesOfFlying DEF Flying
<1>3. ft2[p] = "reply" /\ p \in Probes /\ \A q \in Probes : q # p => ft2[q] = ft[q]
  BY <1>2
<1>4. /\ Len(fl2) = Len(fl) - 1
      /\ \A i \in 1 .. Len(fl) - 1 : fl2[i] = fl[from(i)]
  BY RemoveAtProperties
<1>5. \A i \in 1 .. Len(fl2) : from(i) \in 1 .. Len(fl) /\ from(i) # k
  BY <1>1, <1>4
<1>6. \A i, j \in 1 .. Len(fl2) : from(i) = from(j) => i = j
  BY <1>1, <1>4
<1>7. \A i \in 1 .. Len(fl) : i # k => \E j \in 1 .. Len(fl2) : from(j) = i
  <2> SUFFICES ASSUME NEW i \in 1 .. Len(fl), i # k
               PROVE  \E j \in 1 .. Len(fl2) : from(j) = i
    OBVIOUS
  <2>1. CASE i < k
    <3>1. i \in 1 .. Len(fl2) /\ from(i) = i
      BY <1>1, <1>4, <2>1
    <3> QED
      BY <3>1
  <2>2. CASE i > k
    <3>1. i - 1 \in 1 .. Len(fl2) /\ from(i - 1) = i
      BY <1>1, <1>4, <2>2
    <3> QED
      BY <3>1
  <2> QED
    BY <1>1, <2>1, <2>2
<1> HIDE DEF p, fl2, ft2, from
<1>8. \A i \in 1 .. Len(fl2) : fl2[i].probe = fl[from(i)].probe /\ fl2[i].probe # p
  <2>1. \A i \in 1 .. Len(fl2) : fl2[i].probe = fl[from(i)].probe
    BY <1>4
  <2>2. \A i \in 1 .. Len(fl) : fl[i].probe = p => i = k
    BY DEF Delivered, Once, p
  <2> QED
    BY <1>5, <2>1, <2>2
<1>9. \A i \in 1 .. Len(sq) : sq[i] # p
  BY DEF Delivered, Once, p
<1>10. Once(sq, fl2)
  <2>1. ASSUME NEW i \in 1 .. Len(fl2), NEW j \in 1 .. Len(fl2), fl2[i].probe = fl2[j].probe
        PROVE  i = j
    <3>1. from(i) = from(j)
      BY <1>5, <1>8, <2>1 DEF Delivered, Once
    <3> QED
      BY <1>6, <3>1
  <2>2. \A i \in 1 .. Len(sq), j \in 1 .. Len(fl2) : sq[i] # fl2[j].probe
    BY <1>5, <1>8 DEF Delivered, Once
  <2> QED
    BY <2>1, <2>2 DEF Delivered, Once
<1>11. AllPending(sq, fl2, ft2)
  <2>1. \A i \in 1 .. Len(fl2) : fl2[i].probe \in Probes /\ ft[fl2[i].probe] = "pending"
    BY <1>2, <1>5, <1>8 DEF Delivered, AllPending
  <2> QED
    BY <1>2, <1>3, <1>8, <1>9, <2>1 DEF Delivered, AllPending
<1>12. NoneLost(sq, fl2, ft2)
  <2> SUFFICES ASSUME NEW q \in Probes, ft2[q] = "pending"
               PROVE  \/ \E i \in 1 .. Len(sq) : sq[i] = q
                      \/ \E i \in 1 .. Len(fl2) : fl2[i].probe = q
    BY DEF NoneLost
  <2>1. q # p /\ ft[q] = "pending"
    BY <1>3
  <2>2. ASSUME NEW i \in 1 .. Len(fl), fl[i].probe = q
        PROVE  \E j \in 1 .. Len(fl2) : fl2[j].probe = q
    <3>1. i # k
      BY <2>1, <2>2 DEF p
    <3>2. PICK j \in 1 .. Len(fl2) : from(j) = i
      BY <1>7, <3>1
    <3> QED
      BY <1>8, <2>2, <3>2
  <2> QED
    BY <2>1, <2>2 DEF Delivered, NoneLost
<1> QED
  BY <1>10, <1>11, <1>12 DEF Delivered, p, fl2, ft2

(* The n oldest flying probes have timed out. *)
LEMMA DeliveredDropped ==
    ASSUME NEW sq \in Seq(Probes), NEW fl \in Seq(Flying), NEW ft \in [Probes -> Fates],
           Delivered(sq, fl, ft), NEW n \in 0 .. Len(fl), Sorted(fl),
           NEW ft2, ft2 = [p \in Probes |->
                             IF \E i \in 1 .. n : fl[i].probe = p THEN "timeout" ELSE ft[p]]
    PROVE  Delivered(sq, SubSeq(fl, n + 1, Len(fl)), ft2)
<1> DEFINE fl2 == SubSeq(fl, n + 1, Len(fl))
<1>1. Len(fl) \in Nat
  BY LenProperties
<1>2. /\ Len(fl2) = Len(fl) - n
      /\ \A i \in 1 .. Len(fl) - n : fl2[i] = fl[n + i]
  BY SuffixProperties
<1> HIDE DEF fl2
<1>3. \A i \in 1 .. Len(fl2) : n + i \in 1 .. Len(fl) /\ fl2[i] = fl[n + i] /\ n + i \notin 1 .. n
  BY <1>1, <1>2
<1>4. /\ \A i \in 1 .. Len(sq) : sq[i] \in Probes
      /\ \A i \in 1 .. Len(fl) : fl[i].probe \in Probes
  BY ElementOfSeq, AgesOfFlying DEF Flying
<1>5. \A i \in 1 .. n : i \in 1 .. Len(fl)
  BY <1>1
<1>6. Once(sq, fl2)
  <2>1. ASSUME NEW i \in 1 .. Len(fl2), NEW j \in 1 .. Len(fl2), fl2[i].probe = fl2[j].probe
        PROVE  i = j
    <3>1. PICK a \in 1 .. Len(fl) : a = n + i /\ fl2[i] = fl[a]
      BY ONLY <1>3
    <3>2. PICK b \in 1 .. Len(fl) : b = n + j /\ fl2[j] = fl[b]
      BY ONLY <1>3
    <3>3. \A c, d \in 1 .. Len(fl) : fl[c].probe = fl[d].probe => c = d
      BY DEF Delivered, Once
    <3>4. a = b
      BY ONLY <2>1, <3>1, <3>2, <3>3
    <3>5. n \in Int /\ i \in Int /\ j \in Int
      OBVIOUS
    <3> QED
      BY ONLY <3>1, <3>2, <3>4, <3>5
  <2>2. ASSUME NEW i \in 1 .. Len(sq), NEW j \in 1 .. Len(fl2)
        PROVE  sq[i] # fl2[j].probe
    <3>1. n + j \in 1 .. Len(fl) /\ fl2[j] = fl[n + j]
      BY <1>3
    <3> QED
      BY <3>1 DEF Delivered, Once
  <2> QED
    BY <2>1, <2>2 DEF Delivered, Once
<1>7. AllPending(sq, fl2, ft2)
  <2>1. ASSUME NEW i \in 1 .. Len(sq)
        PROVE  ft2[sq[i]] = "pending"
    <3>1. ~ \E k \in 1 .. n : fl[k].probe = sq[i]
      BY <1>5 DEF Delivered, Once
    <3> QED
      BY <1>4, <3>1 DEF Delivered, AllPending
  <2>2. ASSUME NEW i \in 1 .. Len(fl2)
        PROVE  ft2[fl2[i].probe] = "pending"
    <3>1. ~ \E k \in 1 .. n : fl[k].probe = fl[n + i].probe
      BY <1>3, <1>5 DEF Delivered, Once
    <3>2. fl[n + i].probe \in Probes /\ ft[fl[n + i].probe] = "pending"
      BY <1>3, <1>4 DEF Delivered, AllPending
    <3> QED
      BY <1>3, <3>1, <3>2
  <2> QED
    BY <2>1, <2>2 DEF AllPending
<1>8. NoneLost(sq, fl2, ft2)
  <2> SUFFICES ASSUME NEW q \in Probes, ft2[q] = "pending"
               PROVE  \/ \E i \in 1 .. Len(sq) : sq[i] = q
                      \/ \E i \in 1 .. Len(fl2) : fl2[i].probe = q
    BY DEF NoneLost
  <2>1. ft[q] = "pending" /\ ~ \E i \in 1 .. n : fl[i].probe = q
    OBVIOUS
  <2>2. ASSUME NEW i \in 1 .. Len(fl), fl[i].probe = q
        PROVE  \E j \in 1 .. Len(fl2) : fl2[j].probe = q
    <3>1. i - n \in 1 .. Len(fl2) /\ n + (i - n) = i
      BY <1>1, <1>2, <2>1, <2>2
    <3>2. fl2[i - n].probe = q
      BY <1>3, <2>2, <3>1
    <3> QED
      BY <3>1, <3>2
  <2> QED
    BY <2>1, <2>2 DEF Delivered, NoneLost
<1> QED
  BY <1>6, <1>7, <1>8 DEF Delivered, fl2

(* Time goes by. *)
LEMMA DeliveredOlder ==
    ASSUME NEW sq, NEW fl \in Seq(Flying), NEW ft, NEW e \in Nat, Delivered(sq, fl, ft)
    PROVE  Delivered(sq, Older(fl, e), ft)
<1> DEFINE fl2 == Older(fl, e)
<1>1. Len(fl2) = Len(fl) /\ \A i \in 1 .. Len(fl) : fl2[i].probe = fl[i].probe
  BY OlderProperties
<1> HIDE DEF fl2
<1>2. Once(sq, fl2)
  BY <1>1 DEF Delivered, Once
<1>3. AllPending(sq, fl2, ft)
  BY <1>1 DEF Delivered, AllPending
<1>4. NoneLost(sq, fl2, ft)
  BY <1>1 DEF Delivered, NoneLost
<1> QED
  BY <1>2, <1>3, <1>4 DEF Delivered, fl2

-----------------------------------------------------------------------------
(* The inductive invariant.  That the list is sorted, which IInv says, is what
   SuffixProperties asks. *)
DInv == IInv /\ Delivered(sendq, flying, fate)

LEMMA InitDInv == Init => DInv
<1> SUFFICES ASSUME Init PROVE Delivered(sendq, flying, fate)
  BY InitIInv DEF DInv
<1>1. Len(sendq) = 0 /\ Len(flying) = 0 /\ \A p \in Probes : fate[p] = "new"
  BY EmptySeq DEF Init
<1> QED
  BY <1>1 DEF Delivered, Once, AllPending, NoneLost

(* A probe flies with the tag it is sent with. *)
LEMMA SentFlies ==
    ASSUME TypeInv, TypeInv', ProcessSendq
    PROVE  /\ sendq # << >> /\ Head(sendq) \in Probes
           /\ [probe |-> Head(sendq), tag |-> lastTag', age |-> 0] \in Flying
<1>1. sendq # << >> /\ sendq \in Seq(Probes) /\ lastTag' \in Tags
  BY DEF ProcessSendq, Handle, BatchReady, TypeInv, TypeOK
<1>2. Head(sendq) \in Probes
  BY <1>1, HeadTailProperties
<1> QED
  BY <1>1, <1>2, NetworkAssumption DEF Flying, Ages

(* The reply on top of recvq is to a flying probe. *)
LEMMA AnsweredFlies ==
    ASSUME TypeInv, ProcessRecvq
    PROVE  /\ recvq # << >> /\ Head(recvq) \in Replies
           /\ FirstOf(Matches(Head(recvq))) \in 1 .. Len(flying)
           /\ FirstOf(Matches(Head(recvq))) \in Matches(Head(recvq))
<1>1. recvq # << >> /\ Head(recvq) \in Replies
  BY HeadTailProperties DEF ProcessRecvq, Handle, BatchReady, TypeInv, TypeOK
<1>2. Matches(Head(recvq)) # {}
  BY DEF ProcessRecvq
<1>3. Len(flying) \in Nat
  BY LenProperties DEF TypeInv, TypeOK
<1>4. Matches(Head(recvq)) \in SUBSET Nat
  BY <1>3 DEF Matches
<1> QED
  BY <1>1, <1>2, <1>4, MatchIsFlying, FirstOfIsFirst DEF TypeInv

LEMMA StepDInv == DInv /\ [Next]_vars => DInv'
<1> SUFFICES ASSUME IInv, IInv', Delivered(sendq, flying, fate), [Next]_vars
             PROVE  Delivered(sendq', flying', fate')
  BY StepIInv DEF DInv
<1>1. /\ TypeInv /\ TypeInv' /\ Sorted(flying) /\ TypeOK
      /\ sendq \in Seq(Probes) /\ flying \in Seq(Flying) /\ fate \in [Probes -> Fates]
  BY DEF IInv, TypeInv, TypeOK
<1>2. ASSUME NEW p \in Probes, SendProbe(p)
      PROVE  Delivered(sendq', flying', fate')
  BY <1>1, <1>2, DeliveredQueued DEF SendProbe
<1>3. CASE ProcessSendq
  <2> DEFINE f == [probe |-> Head(sendq), tag |-> lastTag', age |-> 0]
  <2>1. sendq # << >> /\ f \in Flying /\ f.probe = Head(sendq)
    BY <1>1, <1>3, SentFlies
  <2>2. PICK e \in 0 .. Lag : flying' = Older(Append(flying, f), e)
    BY <1>3 DEF ProcessSendq, Register
  <2>3. e \in Nat
    BY NetworkAssumption
  <2> HIDE DEF f
  <2>4. Append(flying, f) \in Seq(Flying)
    BY <1>1, <2>1, AppendProperties
  <2>5. Delivered(Tail(sendq), Append(flying, f), fate)
    BY <1>1, <2>1, DeliveredSent
  <2>6. Delivered(Tail(sendq), Older(Append(flying, f), e), fate)
    BY <2>3, <2>4, <2>5, DeliveredOlder
  <2> QED
    BY <1>3, <2>2, <2>6 DEF ProcessSendq
<1>4. CASE ProcessSendqFails
  <2>1. sendq # << >>
    BY <1>1, <1>4 DEF ProcessSendqFails, Handle, BatchReady, TypeInv
  <2> QED
    BY <1>1, <1>4, <2>1, DeliveredForgotten DEF ProcessSendqFails
<1>5. CASE ProcessRecvq
  <2> DEFINE i == FirstOf(Matches(Head(recvq)))
  <2>1. i \in 1 .. Len(flying)
    BY <1>1, <1>5, AnsweredFlies
  <2>2. /\ flying' = RemoveAt(flying, i)
        /\ fate' = [fate EXCEPT ![flying[i].probe] = "reply"]
        /\ sendq' = sendq
    BY <1>5 DEF ProcessRecvq, Without
  <2> HIDE DEF i
  <2> QED
    BY <1>1, <2>1, <2>2, DeliveredAnswered
<1>6. CASE DropExpired
  <2> DEFINE n == NumExpired
  <2>1. PICK e \in 0 .. Lag : flying' = Older(SubSeq(flying, n + 1, Len(flying)), e)
    BY <1>6 DEF DropExpired
  <2>2. e \in Nat
    BY NetworkAssumption
  <2>3. n \in 0 .. Len(flying)
    BY <1>1, NumExpiredIsPrefix
  <2>4. /\ fate' = [p \in Probes |->
                      IF \E i \in 1 .. n : flying[i].probe = p THEN "timeout" ELSE fate[p]]
        /\ sendq' = sendq
    BY <1>6 DEF DropExpired
  <2> HIDE DEF n
  <2>5. Delivered(sendq, SubSeq(flying, n + 1, Len(flying)), fate')
    BY <1>1, <2>3, <2>4, DeliveredDropped
  <2>6. SubSeq(flying, n + 1, Len(flying)) \in Seq(Flying)
    BY <1>1, <2>3, SuffixProperties
  <2> QED
    BY <2>1, <2>2, <2>4, <2>5, <2>6, DeliveredOlder
<1>7. CASE Tick
  BY <1>1, <1>7, DeliveredOlder DEF Tick
<1>8. CASE \/ \E r \in Replies : Arrive(r)
           \/ EpollWait \/ ProcessSniffer \/ ProcessRecvqDiscards \/ DropExpiredNone
           \/ UNCHANGED vars
  <2>1. UNCHANGED <<sendq, flying, fate>>
    BY <1>8 DEF Arrive, EpollWait, ProcessSniffer, ProcessRecvqDiscards, DropExpiredNone, vars
  <2> QED
    BY <2>1
<1> QED
  BY <1>2, <1>3, <1>4, <1>5, <1>6, <1>7, <1>8 DEF Next, Handlers

LEMMA DeliveryHolds == Spec => []DInv
  BY InitDInv, StepDInv, PTL DEF Spec

-----------------------------------------------------------------------------
(* At most one position holds p: it is one, or none. *)
LEMMA CountOnce ==
    ASSUME NEW S, \A i, j \in S : i = j
    PROVE  Cardinality(S) = IF S = {} THEN 0 ELSE 1
<1>1. CASE S = {}
  BY <1>1, FS_EmptySet
<1>2. CASE S # {}
  <2>1. PICK i \in S : TRUE
    BY <1>2
  <2>2. S = {i}
    BY <2>1
  <2> QED
    BY <1>2, <2>2, FS_Singleton
<1> QED
  BY <1>1, <1>2

(* Every probe is in sendq or among the flying probes, once, from the moment
   it is handed over until its caller is told of it, and never afterwards: no
   handler loses a probe, and no caller is told twice. *)
THEOREM EveryProbeAccounted == Spec => []Accounted
<1>1. ASSUME DInv, NEW p \in Probes
      PROVE  Places(p) = IF fate[p] = "pending" THEN 1 ELSE 0
  <2> DEFINE waiting == {i \in 1 .. Len(sendq) : sendq[i] = p}
             aloft   == {i \in 1 .. Len(flying) : flying[i].probe = p}
  <2>1. Cardinality(waiting) = IF waiting = {} THEN 0 ELSE 1
    <3>1. \A i, j \in waiting : i = j
      BY <1>1 DEF DInv, Delivered, Once
    <3> QED
      BY <3>1, CountOnce
  <2>2. Cardinality(aloft) = IF aloft = {} THEN 0 ELSE 1
    <3>1. \A i, j \in aloft : i = j
      BY <1>1 DEF DInv, Delivered, Once
    <3> QED
      BY <3>1, CountOnce
  <2>3. waiting = {} \/ aloft = {}
    BY <1>1 DEF DInv, Delivered, Once
  <2>4. fate[p] = "pending" <=> (waiting # {} \/ aloft # {})
    <3>1. fate[p] = "pending" => (waiting # {} \/ aloft # {})
      BY <1>1 DEF DInv, Delivered, NoneLost
    <3>2. waiting # {} => fate[p] = "pending"
      BY <1>1 DEF DInv, Delivered, AllPending
    <3>3. aloft # {} => fate[p] = "pending"
      BY <1>1 DEF DInv, Delivered, AllPending
    <3> QED
      BY <3>1, <3>2, <3>3
  <2>5. Places(p) = Cardinality(waiting) + Cardinality(aloft)
    BY DEF Places
  <2> HIDE DEF waiting, aloft
  <2> QED
    BY <2>1, <2>2, <2>3, <2>4, <2>5
<1>2. DInv => Accounted
  BY <1>1 DEF Accounted
<1> QED
  BY <1>2, DeliveryHolds, PTL

(* PROBE_TIMEOUT goes to the probes whose time is up and to no other: the ones
   that network_drop_expired_flying_probe drops from the front of the list are
   all overdue, give or take EXTRA_DELAY, although it looks no further than
   the first one that is not. *)
THEOREM NoTimeoutIsEarly == Spec => NoEarlyTimeout
<1>1. ASSUME DInv, [Next]_vars, NEW i \in 1 .. Len(flying), Told(flying[i].probe, "timeout")
      PROVE  Remaining(flying[i]) <= ExtraDelay
  <2> DEFINE p == flying[i].probe
  <2>1. /\ flying \in Seq(Flying) /\ fate \in [Probes -> Fates] /\ p \in Probes /\ TypeOK
        /\ fate[p] # "timeout" /\ fate'[p] = "timeout"
    BY <1>1, AgesOfFlying DEF DInv, IInv, TypeInv, TypeOK, Flying, Told
  <2> HIDE DEF p
  <2>2. CASE DropExpired
    <3>1. PICK k \in 1 .. NumExpired : flying[k].probe = p
      BY <2>1, <2>2 DEF DropExpired
    <3>2. k \in 1 .. Len(flying) /\ Expired(flying[k])
      BY <2>1, <3>1, NumExpiredIsPrefix, LenProperties
    <3>3. k = i
      BY <1>1, <3>1, <3>2 DEF DInv, Delivered, Once, p
    <3> QED
      BY <3>2, <3>3 DEF Expired
  <2>3. ASSUME NEW q \in Probes, SendProbe(q) PROVE FALSE
    BY <2>1, <2>3 DEF SendProbe
  <2>4. CASE ProcessSendqFails
    BY <2>1, <2>4 DEF ProcessSendqFails
  <2>5. CASE ProcessRecvq
    BY <2>1, <2>5 DEF ProcessRecvq
  <2>6. CASE \/ \E r \in Replies : Arrive(r)
             \/ EpollWait \/ ProcessSendq \/ ProcessSniffer \/ ProcessRecvqDiscards
             \/ DropExpiredNone \/ Tick \/ UNCHANGED vars
    <3>1. UNCHANGED fate
      BY <2>6 DEF Arrive, EpollWait, ProcessSendq, ProcessSniffer, ProcessRecvqDiscards,
                  DropExpiredNone, Tick, vars
    <3> QED
      BY <2>1, <3>1
  <2> QED
    BY <1>1, <2>2, <2>3, <2>4, <2>5, <2>6 DEF Next, Handlers
<1>2. DInv /\ [Next]_vars =>
        [\A i \in 1 .. Len(flying) :
            Told(flying[i].probe, "timeout") => Remaining(flying[i]) <= ExtraDelay]_vars
  BY <1>1
<1> QED
  BY <1>2, DeliveryHolds, PTL DEF Spec, NoEarlyTimeout

-----------------------------------------------------------------------------
(* Tags.  A tag comes back once TagMod more have been taken, so that replies
   can only be told apart if there are no more probes than tags.  The tags in
   use are then the last ones that were taken, as many at most as the probes
   they were taken for. *)
EnoughTags == IsFiniteSet(Probes) /\ Cardinality(Probes) <= TagMod

(* How many tags were taken after t, if the last one is last. *)
Behind(t, last) == IF t <= last THEN last - t ELSE last - t + TagMod

LEMMA NextTagValue ==
    ASSUME NEW last \in Tags
    PROVE  NextTag(last) = IF last = TagMod - 1 THEN 0 ELSE last + 1
<1>1. TagMod \in Nat \ {0} /\ last \in 0 .. TagMod - 1
  BY NetworkAssumption DEF Tags
<1>2. CASE last = TagMod - 1
  <2>1. NextTag(last) = TagMod % TagMod
    BY <1>1, <1>2 DEF NextTag
  <2>2. /\ TagMod % TagMod \in 0 .. TagMod - 1
        /\ TagMod = (TagMod \div TagMod) * TagMod + (TagMod % TagMod)
        /\ TagMod \div TagMod \in Nat
    BY <1>1, DivMod
  <2> DEFINE k == TagMod \div TagMod
             m == TagMod % TagMod
  <2>3. k \in Nat /\ m \in 0 .. TagMod - 1 /\ TagMod = k * TagMod + m
    BY <2>2
  <2> HIDE DEF k, m
  <2>4. k <= 1
    BY <1>1, <2>3
  <2>5. k # 0
    BY <1>1, <2>3
  <2>6. k = 1
    BY <2>3, <2>4, <2>5
  <2>7. m = 0
    BY <1>1, <2>3, <2>6
  <2> QED
    BY <1>2, <2>1, <2>7 DEF m
<1>3. CASE last # TagMod - 1
  <2>1. last + 1 \in 0 .. TagMod - 1
    BY <1>1, <1>3
  <2> QED
    BY <1>1, <1>3, <2>1 DEF NextTag
<1> QED
  BY <1>2, <1>3

LEMMA BehindNext ==
    ASSUME NEW t \in Tags, NEW last \in Tags
    PROVE  /\ Behind(t, last) \in Nat
           /\ Behind(NextTag(last), NextTag(last)) = 0
           /\ Behind(t, last) < TagMod - 1 =>
                 Behind(t, NextTag(last)) = Behind(t, last) + 1
<1>1. TagMod \in Nat \ {0} /\ last \in 0 .. TagMod - 1 /\ t \in 0 .. TagMod - 1
  BY NetworkAssumption DEF Tags
<1>2. NextTag(last) = IF last = TagMod - 1 THEN 0 ELSE last + 1
  BY NextTagValue
<1> QED
  BY <1>1, <1>2 DEF Behind

(* The tags wt of the probes of tk, the last one of which is last. *)
Issued(tk, wt, last) ==
    /\ \A p \in Probes \ tk : wt[p] = NoTag
    /\ \A p \in Probes : wt[p] # NoTag => Behind(wt[p], last) < Cardinality(tk)
    /\ \A p, q \in Probes : wt[p] # NoTag /\ wt[p] = wt[q] => p = q

LEMMA OneMoreTaken ==
    ASSUME EnoughTags, NEW tk \in SUBSET Probes, NEW p \in Probes \ tk
    PROVE  /\ Cardinality(tk) \in Nat
           /\ Cardinality(tk \cup {p}) = Cardinality(tk) + 1
           /\ Cardinality(tk) + 1 <= TagMod
<1>1. IsFiniteSet(tk) /\ IsFiniteSet(Probes)
  BY FS_Subset DEF EnoughTags
<1>2. Cardinality(tk) \in Nat /\ Cardinality(Probes) \in Nat
  BY <1>1, FS_CardinalityType
<1>3. Cardinality(tk \cup {p}) = Cardinality(tk) + 1
  BY <1>1, FS_AddElement
<1>4. Cardinality(tk \cup {p}) <= Cardinality(Probes)
  <2>1. tk \cup {p} \in SUBSET Probes
    OBVIOUS
  <2> QED
    BY <1>1, <2>1, FS_Subset
<1> QED
  BY <1>2, <1>3, <1>4, NetworkAssumption DEF EnoughTags

(* The tag of a probe that is sent is that of no other. *)
LEMMA TagIssued ==
    ASSUME EnoughTags, NEW tk \in SUBSET Probes, NEW p \in Probes \ tk,
           NEW wt \in [Probes -> Tags \cup {NoTag}], NEW last \in Tags, Issued(tk, wt, last)
    PROVE  Issued(tk \cup {p}, [wt EXCEPT ![p] = NextTag(last)], NextTag(last))
<1> DEFINE new == NextTag(last)
           wt2 == [wt EXCEPT ![p] = new]
           n   == Cardinality(tk)
<1>1. n \in Nat /\ Cardinality(tk \cup {p}) = n + 1 /\ n + 1 <= TagMod
  BY OneMoreTaken
<1>2. wt2[p] = new /\ new \in Tags /\ new # NoTag /\ \A q \in Probes : q # p => wt2[q] = wt[q]
  <2>1. new \in Tags
    BY NextTagType
  <2> QED
    BY <2>1, NetworkAssumption DEF Tags, NoTag
<1> HIDE DEF new, wt2, n
<1>3. ASSUME NEW q \in Probes, wt[q] # NoTag
      PROVE  Behind(wt[q], new) < n + 1 /\ wt[q] # new
  <2>1. wt[q] \in Tags /\ Behind(wt[q], last) < n
    BY <1>3 DEF Issued, n
  <2>2. Behind(wt[q], last) \in Nat
    BY <2>1, BehindNext
  <2>3. Behind(wt[q], last) < TagMod - 1
    BY <1>1, <2>1, <2>2, NetworkAssumption
  <2>4. Behind(wt[q], new) = Behind(wt[q], last) + 1 /\ Behind(new, new) = 0
    BY <2>1, <2>3, BehindNext DEF new
  <2>5. wt[q] # new
    BY <2>2, <2>4
  <2> QED
    BY <1>1, <2>1, <2>2, <2>4, <2>5
<1>4. Behind(new, new) < n + 1
  <2>1. Behind(new, new) = 0
    BY <1>2, BehindNext DEF new
  <2> QED
    BY <1>1, <2>1
<1>5. ASSUME NEW q \in Probes, wt2[q] # NoTag
      PROVE  Behind(wt2[q], new) < n + 1
  BY <1>2, <1>3, <1>4, <1>5
<1>6. ASSUME NEW q \in Probes, NEW r \in Probes, wt2[q] # NoTag, wt2[q] = wt2[r]
      PROVE  q = r
  BY <1>2, <1>3, <1>6 DEF Issued
<1>7. ASSUME NEW q \in Probes \ (tk \cup {p})
      PROVE  wt2[q] = NoTag
  BY <1>2, <1>7 DEF Issued
<1>8. Issued(tk \cup {p}, wt2, new)
  BY <1>1, <1>5, <1>6, <1>7 DEF Issued
<1> QED
  BY <1>8 DEF new, wt2

(* A probe that is not sent may use up a tag, or not. *)
LEMMA TagWasted ==
    ASSUME EnoughTags, NEW tk \in SUBSET Probes, NEW p \in Probes \ tk,
           NEW wt \in [Probes -> Tags \cup {NoTag}], NEW last \in Tags, Issued(tk, wt, last),
           NEW next \in {last, NextTag(last)}
    PROVE  Issued(tk \cup {p}, wt, next)
<1> DEFINE n == Cardinality(tk)
<1>1. n \in Nat /\ Cardinality(tk \cup {p}) = n + 1 /\ n + 1 <= TagMod
  BY OneMoreTaken
<1> HIDE DEF n
<1>2. ASSUME NEW q \in Probes, wt[q] # NoTag
      PROVE  Behind(wt[q], next) < n + 1
  <2>1. wt[q] \in Tags /\ Behind(wt[q], last) < n
    BY <1>2 DEF Issued, n
  <2>2. Behind(wt[q], last) \in Nat
    BY <2>1, BehindNext
  <2>3. Behind(wt[q], last) < TagMod - 1
    BY <1>1, <2>1, <2>2, NetworkAssumption
  <2>4. Behind(wt[q], NextTag(last)) = Behind(wt[q], last) + 1
    BY <2>1, <2>3, BehindNext
  <2> QED
    BY <1>1, <2>1, <2>2, <2>4
<1> QED
  BY <1>1, <1>2 DEF Issued

-----------------------------------------------------------------------------
(* The probes for which a tag may have been taken. *)
TakenOf(sq, ft) ==
    {p \in Probes : ft[p] # "new" /\ \A i \in 1 .. Len(sq) : sq[i] # p}

(* A probe that waits has not taken a tag, and takes it off the queue. *)
LEMMA TakenMore ==
    ASSUME NEW sq \in Seq(Probes), NEW fl \in Seq(Flying), NEW ft \in [Probes -> Fates],
           sq # << >>, Delivered(sq, fl, ft),
           NEW ft2 \in [Probes -> Fates], ft2[Head(sq)] # "new",
           \A q \in Probes : q # Head(sq) => ft2[q] = ft[q]
    PROVE  /\ Head(sq) \in Probes \ TakenOf(sq, ft)
           /\ TakenOf(Tail(sq), ft2) = TakenOf(sq, ft) \cup {Head(sq)}
<1> DEFINE p == Head(sq)
           sq2 == Tail(sq)
<1>1. /\ Len(sq) \in Nat \ {0} /\ p \in Probes /\ p = sq[1] /\ Len(sq2) = Len(sq) - 1
      /\ \A i \in 1 .. Len(sq2) : sq2[i] = sq[i + 1] /\ i + 1 \in 1 .. Len(sq) /\ sq2[i] # p
  BY RestOfQueue DEF Delivered
<1> HIDE DEF p, sq2
<1>2. 1 \in 1 .. Len(sq) /\ p \notin TakenOf(sq, ft)
  BY <1>1 DEF TakenOf
<1>3. p \in TakenOf(sq2, ft2)
  BY <1>1 DEF TakenOf, p
<1>4. ASSUME NEW q \in Probes, q # p
      PROVE  (\A i \in 1 .. Len(sq) : sq[i] # q) <=> (\A i \in 1 .. Len(sq2) : sq2[i] # q)
  <2>1. ASSUME NEW i \in 1 .. Len(sq), sq[i] = q
        PROVE  \E k \in 1 .. Len(sq2) : sq2[k] = q
    <3>1. i - 1 \in 1 .. Len(sq2) /\ (i - 1) + 1 = i
      BY <1>1, <1>4, <2>1
    <3>2. sq2[i - 1] = q
      BY <1>1, <2>1, <3>1
    <3> QED
      BY <3>1, <3>2
  <2> QED
    BY <1>1, <2>1
<1>5. ASSUME NEW q \in Probes, q # p
      PROVE  q \in TakenOf(sq2, ft2) <=> q \in TakenOf(sq, ft)
  BY <1>4, <1>5 DEF TakenOf, p
<1>6. TakenOf(sq2, ft2) = TakenOf(sq, ft) \cup {p}
  BY <1>1, <1>3, <1>5 DEF TakenOf
<1> QED
  BY <1>1, <1>2, <1>6 DEF p, sq2

LEMMA TakenQueued ==
    ASSUME NEW sq \in Seq(Probes), NEW ft \in [Probes -> Fates],
           NEW p \in Probes, ft[p] = "new"
    PROVE  TakenOf(Append(sq, p), [ft EXCEPT ![p] = "pending"]) = TakenOf(sq, ft)
<1> DEFINE sq2 == Append(sq, p)
           ft2 == [ft EXCEPT ![p] = "pending"]
<1>1. /\ Len(sq) \in Nat /\ Len(sq2) = Len(sq) + 1
      /\ \A i \in 1 .. Len(sq) : sq2[i] = sq[i]
      /\ sq2[Len(sq) + 1] = p
  BY LenProperties, AppendProperties
<1>2. ft2[p] = "pending" /\ \A q \in Probes : q # p => ft2[q] = ft[q]
  OBVIOUS
<1> HIDE DEF sq2, ft2
<1>3. /\ \A i \in 1 .. Len(sq2) : i \in 1 .. Len(sq) \/ (i = Len(sq) + 1 /\ sq2[i] = p)
      /\ \A i \in 1 .. Len(sq) : i \in 1 .. Len(sq2)
      /\ Len(sq) + 1 \in 1 .. Len(sq2)
  BY <1>1
<1>4. p \notin TakenOf(sq, ft) /\ p \notin TakenOf(sq2, ft2)
  BY <1>1, <1>3 DEF TakenOf
<1>5. ASSUME NEW q \in Probes, q # p
      PROVE  q \in TakenOf(sq2, ft2) <=> q \in TakenOf(sq, ft)
  BY <1>1, <1>2, <1>3, <1>5 DEF TakenOf
<1>6. TakenOf(sq2, ft2) = TakenOf(sq, ft)
  BY <1>4, <1>5 DEF TakenOf
<1> QED
  BY <1>6 DEF sq2, ft2

(* A packet quotes the tag of the probe that it replies to. *)
Genuine(r, wt) == r.tag # NoTag => r.of \in Probes /\ r.tag = wt[r.of]

(* Replies, and flying probes, keep the tag of their probe: it is only sent
   once. *)
Tagged(fl, ib, rq, wt) ==
    /\ \A i \in 1 .. Len(fl) : wt[fl[i].probe] = fl[i].tag
    /\ \A i \in 1 .. Len(ib) : Genuine(ib[i], wt)
    /\ \A i \in 1 .. Len(rq) : Genuine(rq[i], wt)

TagInv ==
    /\ DInv
    /\ Issued(TakenOf(sendq, fate), wireTag, lastTag)
    /\ Tagged(flying, inbox, recvq, wireTag)

LEMMA InitTagInv == Init => TagInv
<1> SUFFICES ASSUME Init
             PROVE  /\ Issued(TakenOf(sendq, fate), wireTag, lastTag)
                    /\ Tagged(flying, inbox, recvq, wireTag)
  BY InitDInv DEF TagInv
<1>1. \A p \in Probes : wireTag[p] = NoTag
  BY DEF Init
<1>2. Len(flying) = 0 /\ Len(inbox) = 0 /\ Len(recvq) = 0
  BY EmptySeq DEF Init
<1> QED
  BY <1>1, <1>2 DEF Issued, Tagged

(* The tags that are in use after a step. *)
LEMMA StepIssued ==
    ASSUME EnoughTags, DInv, DInv', [Next]_vars, Issued(TakenOf(sendq, fate), wireTag, lastTag)
    PROVE  Issued(TakenOf(sendq', fate'), wireTag', lastTag')
<1>1. /\ TypeInv /\ TypeInv' /\ TypeOK /\ Sorted(flying) /\ Delivered(sendq, flying, fate)
      /\ sendq \in Seq(Probes) /\ flying \in Seq(Flying) /\ lastTag \in Tags
      /\ fate \in [Probes -> Fates] /\ fate' \in [Probes -> Fates]
      /\ wireTag \in [Probes -> Tags \cup {NoTag}]
  BY DEF DInv, IInv, TypeInv, TypeOK
<1> DEFINE tk == TakenOf(sendq, fate)
<1>2. tk \in SUBSET Probes
  BY DEF TakenOf
<1>3. ASSUME NEW p \in Probes, SendProbe(p)
      PROVE  Issued(TakenOf(sendq', fate'), wireTag', lastTag')
  BY <1>1, <1>3, TakenQueued DEF SendProbe
<1>4. CASE ProcessSendq
  <2>1. sendq # << >> /\ Head(sendq) \in Probes
    BY <1>1, <1>4, SentFlies
  <2>2. /\ sendq' = Tail(sendq) /\ fate' = fate /\ lastTag' = NextTag(lastTag)
        /\ wireTag' = [wireTag EXCEPT ![Head(sendq)] = NextTag(lastTag)]
    BY <1>4 DEF ProcessSendq
  <2>3. fate[Head(sendq)] # "new"
    <3>1. 1 \in 1 .. Len(sendq) /\ Head(sendq) = sendq[1]
      BY <1>1, <2>1, RestOfQueue DEF Delivered
    <3> QED
      BY <1>1, <3>1 DEF Delivered, AllPending
  <2>4. Head(sendq) \in Probes \ tk /\ TakenOf(sendq', fate') = tk \cup {Head(sendq)}
    BY <1>1, <2>1, <2>2, <2>3, TakenMore
  <2> HIDE DEF tk
  <2>5. Issued(tk, wireTag, lastTag)
    BY DEF tk
  <2> QED
    BY <1>1, <1>2, <2>2, <2>4, <2>5, TagIssued
<1>5. CASE ProcessSendqFails
  <2>1. sendq # << >>
    BY <1>1, <1>5 DEF ProcessSendqFails, Handle, BatchReady, TypeInv
  <2>2. /\ sendq' = Tail(sendq) /\ fate' = [fate EXCEPT ![Head(sendq)] = "unsent"]
        /\ lastTag' \in {lastTag, NextTag(lastTag)} /\ wireTag' = wireTag
    BY <1>5 DEF ProcessSendqFails
  <2>3. Head(sendq) \in Probes
    BY <1>1, <2>1, HeadTailProperties
  <2>4. fate'[Head(sendq)] # "new" /\ \A q \in Probes : q # Head(sendq) => fate'[q] = fate[q]
    BY <1>1, <2>2, <2>3
  <2>5. Head(sendq) \in Probes \ tk /\ TakenOf(sendq', fate') = tk \cup {Head(sendq)}
    BY <1>1, <2>1, <2>2, <2>4, TakenMore
  <2> HIDE DEF tk
  <2>6. Issued(tk, wireTag, lastTag)
    BY DEF tk
  <2>7. Issued(tk \cup {Head(sendq)}, wireTag, lastTag')
    BY <1>1, <1>2, <2>2, <2>5, <2>6, TagWasted
  <2> QED
    BY <2>2, <2>5, <2>7
<1>6. ASSUME UNCHANGED <<sendq, wireTag, lastTag>>,
             \A p \in Probes : fate[p] = "new" <=> fate'[p] = "new"
      PROVE  Issued(TakenOf(sendq', fate'), wireTag', lastTag')
  <2>1. TakenOf(sendq', fate') = TakenOf(sendq, fate)
    BY <1>6 DEF TakenOf
  <2> QED
    BY <1>6, <2>1
<1>7. CASE ProcessRecvq
  <2> DEFINE i == FirstOf(Matches(Head(recvq)))
  <2>1. i \in 1 .. Len(flying)
    BY <1>1, <1>7, AnsweredFlies
  <2>2. fate' = [fate EXCEPT ![flying[i].probe] = "reply"]
    BY <1>7 DEF ProcessRecvq
  <2> HIDE DEF i
  <2>3. fate[flying[i].probe] = "pending"
    BY <1>1, <2>1 DEF Delivered, AllPending
  <2>4. \A p \in Probes : fate[p] = "new" <=> fate'[p] = "new"
    BY <1>1, <2>2, <2>3
  <2> QED
    BY <1>6, <1>7, <2>4 DEF ProcessRecvq
<1>8. CASE DropExpired
  <2>1. \A k \in 1 .. NumExpired : k \in 1 .. Len(flying)
    BY <1>1, NumExpiredIsPrefix, LenProperties
  <2>2. \A k \in 1 .. NumExpired : fate[flying[k].probe] = "pending"
    BY <1>1, <2>1 DEF Delivered, AllPending
  <2>3. fate' = [p \in Probes |->
                   IF \E k \in 1 .. NumExpired : flying[k].probe = p
                   THEN "timeout" ELSE fate[p]]
    BY <1>8 DEF DropExpired
  <2>4. \A p \in Probes : fate[p] = "new" <=> fate'[p] = "new"
    BY <2>2, <2>3
  <2> QED
    BY <1>6, <1>8, <2>4 DEF DropExpired
<1>9. CASE \/ \E r \in Replies : Arrive(r)
           \/ EpollWait \/ ProcessSniffer \/ ProcessRecvqDiscards \/ DropExpiredNone
           \/ Tick \/ UNCHANGED vars
  <2>1. UNCHANGED <<sendq, fate, wireTag, lastTag>>
    BY <1>9 DEF Arrive, EpollWait, ProcessSniffer, ProcessRecvqDiscards, DropExpiredNone, Tick, vars
  <2> QED
    BY <2>1
<1> QED
  BY <1>3, <1>4, <1>5, <1>7, <1>8, <1>9 DEF Next, Handlers

LEMMA StepTagged ==
    ASSUME DInv, DInv', [Next]_vars,
           Issued(TakenOf(sendq, fate), wireTag, lastTag),
           Tagged(flying, inbox, recvq, wireTag)
    PROVE  Tagged(flying', inbox', recvq', wireTag')
<1>1. /\ TypeInv /\ TypeInv' /\ TypeOK /\ BatchReady /\ Sorted(flying)
      /\ Delivered(sendq, flying, fate)
      /\ sendq \in Seq(Probes) /\ flying \in Seq(Flying)
      /\ fate \in [Probes -> Fates]
      /\ inbox \in Seq(Replies) /\ recvq \in Seq(Replies)
      /\ wireTag \in [Probes -> Tags \cup {NoTag}]
  BY DEF DInv, IInv, TypeInv, TypeOK
<1>2. CASE ProcessSendq
  <2> DEFINE p == Head(sendq)
             f == [probe |-> p, tag |-> lastTag', age |-> 0]
  <2>1. sendq # << >> /\ p \in Probes /\ f \in Flying /\ f.probe = p /\ f.tag = lastTag'
    BY <1>1, <1>2, SentFlies
  <2>2. PICK e \in 0 .. Lag : flying' = Older(Append(flying, f), e)
    BY <1>2 DEF ProcessSendq, Register
  <2>3. /\ wireTag' = [wireTag EXCEPT ![p] = lastTag']
        /\ inbox' = inbox /\ recvq' = recvq
    BY <1>2 DEF ProcessSendq
  <2>4. e \in Nat
    BY NetworkAssumption
  <2>5. wireTag[p] = NoTag /\ \A i \in 1 .. Len(flying) : flying[i].probe # p
    <3>1. /\ 1 \in 1 .. Len(sendq) /\ p = sendq[1]
          /\ \A i \in 1 .. Len(flying) : flying[i].probe # p
      BY <1>1, <2>1, RestOfQueue DEF Delivered
    <3>2. p \in Probes \ TakenOf(sendq, fate)
      BY <2>1, <3>1 DEF TakenOf
    <3> QED
      BY <3>1, <3>2 DEF Issued
  <2> HIDE DEF p, f
  <2>6. wireTag'[p] = lastTag' /\ \A q \in Probes : q # p => wireTag'[q] = wireTag[q]
    BY <1>1, <2>1, <2>3
  <2>7. \A r : Genuine(r, wireTag) => Genuine(r, wireTag')
    BY <2>5, <2>6 DEF Genuine
  <2>8. /\ Append(flying, f) \in Seq(Flying) /\ Len(Append(flying, f)) = Len(flying) + 1
        /\ \A i \in 1 .. Len(flying) : Append(flying, f)[i] = flying[i]
        /\ Append(flying, f)[Len(flying) + 1] = f
        /\ Len(flying) \in Nat
    BY <1>1, <2>1, AppendProperties, LenProperties
  <2>9. ASSUME NEW i \in 1 .. Len(flying')
        PROVE  wireTag'[flying'[i].probe] = flying'[i].tag
    <3>1. i \in 1 .. Len(Append(flying, f)) /\ Len(flying') = Len(flying) + 1
      BY <2>2, <2>4, <2>8, OlderProperties
    <3>2. /\ flying'[i].probe = Append(flying, f)[i].probe
          /\ flying'[i].tag = Append(flying, f)[i].tag
      BY <2>2, <2>4, <2>8, <3>1, OlderProperties
    <3>3. CASE i = Len(flying) + 1
      BY <2>1, <2>6, <2>8, <3>2, <3>3
    <3>4. CASE i \in 1 .. Len(flying)
      <4>1. flying[i].probe \in Probes /\ flying[i].probe # p
        BY <1>1, <2>5, <3>4, AgesOfFlying DEF Flying
      <4> QED
        BY <2>6, <2>8, <3>2, <3>4, <4>1 DEF Tagged
    <3> QED
      BY <2>8, <3>1, <3>3, <3>4
  <2> QED
    BY <2>3, <2>7, <2>9 DEF Tagged
<1>3. CASE ProcessSniffer
  <2>1. /\ inbox # << >> /\ inbox' = Tail(inbox) /\ recvq' \in {recvq, Append(recvq, Head(inbox))}
        /\ UNCHANGED <<flying, wireTag>>
    BY <1>1, <1>3 DEF ProcessSniffer, Handle, BatchReady
  <2>2. /\ Len(inbox) \in Nat \ {0} /\ Head(inbox) = inbox[1] /\ Head(inbox) \in Replies
        /\ Len(inbox') = Len(inbox) - 1
        /\ \A i \in 1 .. Len(inbox') : inbox'[i] = inbox[i + 1]
    BY <1>1, <2>1, HeadTailProperties, EmptySeq
  <2>3. Genuine(Head(inbox), wireTag)
    BY <2>2 DEF Tagged
  <2>4. \A i \in 1 .. Len(inbox') : i + 1 \in 1 .. Len(inbox)
    BY <2>2
  <2>5. \A i \in 1 .. Len(inbox') : Genuine(inbox'[i], wireTag)
    BY <2>2, <2>4 DEF Tagged
  <2> DEFINE rq == Append(recvq, Head(inbox))
  <2>6. /\ Len(recvq) \in Nat /\ Len(rq) = Len(recvq) + 1
        /\ \A i \in 1 .. Len(recvq) : rq[i] = recvq[i]
        /\ rq[Len(recvq) + 1] = Head(inbox)
    BY <1>1, <2>2, AppendProperties, LenProperties
  <2> HIDE DEF rq
  <2>7. \A i \in 1 .. Len(rq) : i \in 1 .. Len(recvq) \/ i = Len(recvq) + 1
    BY <2>6
  <2>8. \A i \in 1 .. Len(rq) : Genuine(rq[i], wireTag)
    BY <2>3, <2>6, <2>7 DEF Tagged
  <2>9. recvq' = recvq \/ recvq' = rq
    BY <2>1 DEF rq
  <2>10. \A i \in 1 .. Len(recvq') : Genuine(recvq'[i], wireTag)
    BY <2>8, <2>9 DEF Tagged
  <2> QED
    BY <2>1, <2>5, <2>10 DEF Tagged
<1>4. ASSUME recvq # << >>, recvq' = Tail(recvq)
      PROVE  \A i \in 1 .. Len(recvq') : Genuine(recvq'[i], wireTag)
  <2>1. /\ Len(recvq) \in Nat \ {0} /\ Len(recvq') = Len(recvq) - 1
        /\ \A i \in 1 .. Len(recvq') : recvq'[i] = recvq[i + 1]
    BY <1>1, <1>4, HeadTailProperties, EmptySeq
  <2>2. \A i \in 1 .. Len(recvq') : i + 1 \in 1 .. Len(recvq)
    BY <2>1
  <2> QED
    BY <2>1, <2>2 DEF Tagged
<1>5. CASE ProcessRecvq
  <2> DEFINE i == FirstOf(Matches(Head(recvq)))
  <2>1. i \in 1 .. Len(flying) /\ recvq # << >>
    BY <1>1, <1>5, AnsweredFlies
  <2>2. flying' = RemoveAt(flying, i) /\ recvq' = Tail(recvq) /\ UNCHANGED <<inbox, wireTag>>
    BY <1>5 DEF ProcessRecvq, Without
  <2> HIDE DEF i
  <2>3. /\ Len(flying) \in Nat /\ Len(flying') = Len(flying) - 1
        /\ \A j \in 1 .. Len(flying) - 1 : flying'[j] = IF j < i THEN flying[j] ELSE flying[j + 1]
    BY <1>1, <2>1, <2>2, RemoveAtProperties, LenProperties
  <2>4. \A j \in 1 .. Len(flying') : j \in 1 .. Len(flying) /\ j + 1 \in 1 .. Len(flying)
    BY <2>3
  <2>5. \A j \in 1 .. Len(flying') : wireTag[flying'[j].probe] = flying'[j].tag
    BY <2>3, <2>4 DEF Tagged
  <2> QED
    BY <1>4, <2>1, <2>2, <2>5 DEF Tagged
<1>6. CASE ProcessRecvqDiscards
  <2>1. recvq # << >> /\ recvq' = Tail(recvq) /\ UNCHANGED <<flying, inbox, wireTag>>
    BY <1>1, <1>6 DEF ProcessRecvqDiscards, Handle, BatchReady
  <2> QED
    BY <1>4, <2>1 DEF Tagged
<1>7. ASSUME NEW fl \in Seq(Flying), NEW e \in Nat, flying' = Older(fl, e),
             \A i \in 1 .. Len(fl) : wireTag[fl[i].probe] = fl[i].tag,
             UNCHANGED <<inbox, recvq, wireTag>>
      PROVE  Tagged(flying', inbox', recvq', wireTag')
  <2>1. Len(flying') = Len(fl) /\ \A i \in 1 .. Len(fl) : /\ flying'[i].probe = fl[i].probe
                                                         /\ flying'[i].tag = fl[i].tag
    BY <1>7, OlderProperties
  <2> QED
    BY <1>7, <2>1 DEF Tagged
<1>8. CASE DropExpired
  <2> DEFINE n  == NumExpired
             fl == SubSeq(flying, n + 1, Len(flying))
  <2>1. PICK e \in 0 .. Lag : flying' = Older(fl, e)
    BY <1>8 DEF DropExpired
  <2>2. e \in Nat /\ n \in 0 .. Len(flying) /\ Len(flying) \in Nat
    BY <1>1, NumExpiredIsPrefix, LenProperties, NetworkAssumption
  <2>3. UNCHANGED <<inbox, recvq, wireTag>>
    BY <1>8 DEF DropExpired
  <2> HIDE DEF n
  <2>4. /\ fl \in Seq(Flying) /\ Len(fl) = Len(flying) - n
        /\ \A i \in 1 .. Len(flying) - n : fl[i] = flying[n + i]
    BY <1>1, <2>2, SuffixProperties
  <2> HIDE DEF fl
  <2>5. \A i \in 1 .. Len(fl) : n + i \in 1 .. Len(flying)
    BY <2>2, <2>4
  <2>6. \A i \in 1 .. Len(fl) : wireTag[fl[i].probe] = fl[i].tag
    BY <2>4, <2>5 DEF Tagged
  <2> QED
    BY <1>7, <2>1, <2>2, <2>3, <2>4, <2>6
<1>9. CASE Tick
  <2>1. flying' = Older(flying, 1) /\ UNCHANGED <<inbox, recvq, wireTag>>
    BY <1>9 DEF Tick
  <2>2. \A i \in 1 .. Len(flying) : wireTag[flying[i].probe] = flying[i].tag
    BY DEF Tagged
  <2> QED
    BY <1>1, <1>7, <2>1, <2>2
<1>10. ASSUME NEW r \in Replies, Arrive(r)
       PROVE  Tagged(flying', inbox', recvq', wireTag')
  <2>1. Genuine(r, wireTag) /\ inbox' = Append(inbox, r) /\ UNCHANGED <<flying, recvq, wireTag>>
    BY <1>10 DEF Arrive, Genuine
  <2>2. /\ Len(inbox) \in Nat /\ Len(inbox') = Len(inbox) + 1
        /\ \A i \in 1 .. Len(inbox) : inbox'[i] = inbox[i]
        /\ inbox'[Len(inbox) + 1] = r
    BY <1>1, <2>1, AppendProperties, LenProperties
  <2>3. \A i \in 1 .. Len(inbox') : i \in 1 .. Len(inbox) \/ i = Len(inbox) + 1
    BY <2>2
  <2>4. \A i \in 1 .. Len(inbox') : Genuine(inbox'[i], wireTag)
    BY <2>1, <2>2, <2>3 DEF Tagged
  <2> QED
    BY <2>1, <2>4 DEF Tagged
<1>11. CASE \/ \E p \in Probes : SendProbe(p)
            \/ EpollWait \/ ProcessSendqFails \/ DropExpiredNone \/ UNCHANGED vars
  <2>1. UNCHANGED <<flying, inbox, recvq, wireTag>>
    BY <1>11 DEF SendProbe, EpollWait, ProcessSendqFails, DropExpiredNone, vars
  <2> QED
    BY <2>1
<1> QED
  BY <1>2, <1>3, <1>5, <1>6, <1>8, <1>9, <1>10, <1>11 DEF Next, Handlers

LEMMA TagsHold == ASSUME EnoughTags PROVE Spec => []TagInv
<1>1. TagInv /\ [Next]_vars => TagInv'
  <2> SUFFICES ASSUME TagInv, [Next]_vars PROVE TagInv'
    OBVIOUS
  <2>1. DInv /\ DInv'
    BY StepDInv DEF TagInv
  <2>2. Issued(TakenOf(sendq', fate'), wireTag', lastTag')
    BY <2>1, StepIssued DEF TagInv
  <2>3. Tagged(flying', inbox', recvq', wireTag')
    BY <2>1, StepTagged DEF TagInv
  <2> QED
    BY <2>1, <2>2, <2>3 DEF TagInv
<1> QED
  BY <1>1, InitTagInv, PTL DEF Spec

(* With no more probes than tags no two flying probes have the same one,
   wherever the counter starts and wherever it wraps, and although probes that
   are not sent use tags up. *)
THEOREM FlyingTagsDistinct == ASSUME EnoughTags PROVE Spec => []TagsDistinct
<1>1. ASSUME TagInv, NEW i \in 1 .. Len(flying), NEW j \in 1 .. Len(flying),
             flying[i].tag = flying[j].tag
      PROVE  i = j
  <2>1. flying[i] \in Flying /\ flying[j] \in Flying
    BY <1>1, AgesOfFlying DEF TagInv, DInv, IInv, TypeInv, TypeOK
  <2>2. wireTag[flying[i].probe] = flying[i].tag /\ wireTag[flying[j].probe] = flying[j].tag
    BY <1>1 DEF TagInv, Tagged
  <2>3. flying[i].tag # NoTag
    BY <2>1, NetworkAssumption DEF Flying, Tags, NoTag
  <2>4. flying[i].probe = flying[j].probe
    BY <1>1, <2>1, <2>2, <2>3 DEF TagInv, Issued, Flying
  <2> QED
    BY <1>1, <2>4 DEF TagInv, DInv, Delivered, Once
<1>2. TagInv => TagsDistinct
  BY <1>1 DEF TagsDistinct
<1> QED
  BY <1>2, TagsHold, PTL

(* With no more probes than tags network_get_matching_probe finds the probe
   that the packet replies to, or none: not another one, even if the reply is
   late or a duplicate. *)
THEOREM RepliesFindTheirProbe == ASSUME EnoughTags PROVE Spec => RightReply
<1>1. ASSUME TagInv, [Next]_vars, NEW p \in Probes, Told(p, "reply")
      PROVE  Head(recvq).of = p
  <2>1. fate \in [Probes -> Fates] /\ TypeInv /\ fate[p] # "reply" /\ fate'[p] = "reply"
    BY <1>1 DEF TagInv, DInv, IInv, TypeInv, TypeOK, Told
  <2>2. CASE ProcessRecvq
    <3> DEFINE r == Head(recvq)
               i == FirstOf(Matches(r))
    <3>1. recvq # << >> /\ r \in Replies /\ i \in 1 .. Len(flying) /\ i \in Matches(r)
      BY <2>1, <2>2, AnsweredFlies
    <3>2. fate' = [fate EXCEPT ![flying[i].probe] = "reply"]
      BY <2>2 DEF ProcessRecvq
    <3>3. flying[i].tag = r.tag
      BY <3>1 DEF Matches
    <3>4. Genuine(r, wireTag)
      <4>1. 1 \in 1 .. Len(recvq) /\ r = recvq[1]
        BY <2>1, <3>1, EmptySeq, HeadTailProperties DEF TypeInv, TypeOK
      <4> QED
        BY <1>1, <4>1 DEF TagInv, Tagged
    <3> HIDE DEF r, i
    <3>5. flying[i] \in Flying /\ wireTag[flying[i].probe] = flying[i].tag
      BY <1>1, <2>1, <3>1, AgesOfFlying DEF TagInv, Tagged, TypeInv, TypeOK
    <3>6. flying[i].probe \in Probes /\ flying[i].tag # NoTag
      BY <3>5, NetworkAssumption DEF Flying, Tags, NoTag
    <3>7. flying[i].probe = r.of
      BY <1>1, <3>3, <3>4, <3>5, <3>6 DEF TagInv, Issued, Genuine
    <3>8. p = flying[i].probe
      BY <2>1, <3>2, <3>6
    <3> QED
      BY <3>7, <3>8 DEF r
  <2>3. ASSUME NEW q \in Probes, SendProbe(q) PROVE FALSE
    BY <2>1, <2>3 DEF SendProbe
  <2>4. CASE ProcessSendqFails
    BY <2>1, <2>4 DEF ProcessSendqFails
  <2>5. CASE DropExpired
    BY <2>1, <2>5 DEF DropExpired
  <2>6. CASE \/ \E r \in Replies : Arrive(r)
             \/ EpollWait \/ ProcessSendq \/ ProcessSniffer \/ ProcessRecvqDiscards
             \/ DropExpiredNone \/ Tick \/ UNCHANGED vars
    <3>1. UNCHANGED fate
      BY <2>6 DEF Arrive, EpollWait, ProcessSendq, ProcessSniffer, ProcessRecvqDiscards,
                  DropExpiredNone, Tick, vars
    <3> QED
      BY <2>1, <3>1
  <2> QED
    BY <1>1, <2>2, <2>3, <2>4, <2>5, <2>6 DEF Next, Handlers
<1>2. TagInv /\ [Next]_vars => [\A p \in Probes : Told(p, "reply") => Head(recvq).of = p]_vars
  BY <1>1
<1> QED
  BY <1>2, TagsHold, PTL DEF Spec, RightReply

=============================================================================
