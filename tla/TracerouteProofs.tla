-------------------------- MODULE TracerouteProofs --------------------------
(***************************************************************************)
(* Proofs about Traceroute, for any options, any answers in any order, and *)
(* probes that are lost or cannot be handed over.                          *)
(*                                                                         *)
(* The handler of traceroute.c never looks at the list of its probes: it   *)
(* counts answers, and takes a hop for explored when their number is a     *)
(* multiple of num_probes.  The argument is that the number of answers and *)
(* that of the probes without one add up to whole hops, the last one of    *)
(* which is the only one with probes that are still to be answered.        *)
(*                                                                         *)
(* Then what the two counters make of the answers, in the order they come, *)
(* is what the answers say once they are all there.  num_stars counts the  *)
(* timeouts in a row, and num_undiscovered the hops in a row without a     *)
(* reply.  Tally says what they mean at any moment of a hop, although the  *)
(* handler resets both at the first reply.                                 *)
(***************************************************************************)
EXTENDS Traceroute, SequenceTheorems, FiniteSetTheorems, TLAPS

-----------------------------------------------------------------------------
(* Arithmetic of num_replies *)

LEMMA Remainder ==
    ASSUME NEW n \in Nat \ {0}, NEW h \in Nat, NEW x \in 0 .. n - 1
    PROVE  (h * n + x) % n = x
<1> DEFINE d == h * n + x
           q == d \div n
           m == d % n
<1>1. d \in Nat
  BY SMT
<1>2. q \in Nat /\ m \in 0 .. n - 1 /\ d = q * n + m
  <2> HIDE DEF d
  <2> QED
    BY <1>1, SMT
<1> HIDE DEF q, m
<1>3. q = h
  <2>1. q >= h + 1 => q * n >= h * n + n
    <3> SUFFICES ASSUME q >= h + 1 PROVE q * n >= h * n + n
      OBVIOUS
    <3>1. q * n >= (h + 1) * n
      BY <1>2, SMT
    <3> QED
      BY <1>2, <3>1, SMT
  <2>2. h >= q + 1 => h * n >= q * n + n
    <3> SUFFICES ASSUME h >= q + 1 PROVE h * n >= q * n + n
      OBVIOUS
    <3>1. h * n >= (q + 1) * n
      BY <1>2, SMT
    <3> QED
      BY <1>2, <3>1, SMT
  <2> QED
    BY <1>2, <2>1, <2>2, SMT
<1>4. m = x
  BY <1>2, <1>3, SMT
<1> QED
  BY <1>4 DEF m

(* w probes of the last of h whole hops of n probes are to be answered: the
   next answer makes a multiple of n if it is the last one. *)
LEMMA WholeHops ==
    ASSUME NEW n \in Nat \ {0}, NEW h \in Nat, NEW w \in 1 .. n, NEW r \in Nat, r + w = h * n
    PROVE  (r + 1) % n = 0 <=> w = 1
<1>1. h >= 1
  <2> SUFFICES ASSUME h = 0 PROVE FALSE
    OBVIOUS
  <2> QED
    BY SMT
<1>2. CASE w = 1
  <2>1. r + 1 = h * n + 0
    BY <1>2
  <2>2. (h * n + 0) % n = 0
    <3>1. 0 \in 0 .. n - 1
      OBVIOUS
    <3> QED
      BY <3>1, Remainder
  <2> QED
    BY <1>2, <2>1, <2>2
<1>3. CASE w # 1
  <2>1. n - w + 1 \in 0 .. n - 1 /\ n - w + 1 # 0 /\ h - 1 \in Nat
    BY <1>1, <1>3
  <2>2. r + 1 = (h - 1) * n + (n - w + 1)
    BY <1>1, SMT
  <2>3. ((h - 1) * n + (n - w + 1)) % n = n - w + 1
    BY <2>1, Remainder
  <2> QED
    BY <1>3, <2>1, <2>2, <2>3
<1> QED
  BY <1>2, <1>3

(* A hop of m < n probes, w of which are to be answered, is never whole. *)
LEMMA PartOfHop ==
    ASSUME NEW n \in Nat \ {0}, NEW h \in Nat, NEW m \in 0 .. n - 1, NEW w \in 1 .. m,
           NEW r \in Nat, r + w = h * n + m
    PROVE  (r + 1) % n # 0
<1>1. m - w + 1 \in 0 .. n - 1 /\ m - w + 1 # 0
  OBVIOUS
<1>2. r + 1 = h * n + (m - w + 1)
  BY SMT
<1>3. (h * n + (m - w + 1)) % n = m - w + 1
  BY <1>1, Remainder
<1> QED
  BY <1>1, <1>2, <1>3

-----------------------------------------------------------------------------
(* The list of probes *)

WaitingIn(ps) == {k \in 1 .. Len(ps) : ps[k].answer \notin Answers}

LastIn(ps) == ps[Len(ps)].ttl

Hop(n, t) == [i \in 1 .. n |-> [ttl |-> t, answer |-> "none"]]

LEMMA WaitingFinite ==
    ASSUME NEW ps \in Seq(Probe)
    PROVE  /\ IsFiniteSet(WaitingIn(ps))
           /\ Cardinality(WaitingIn(ps)) \in Nat
           /\ Cardinality(WaitingIn(ps)) = 0 <=> WaitingIn(ps) = {}
<1>1. IsFiniteSet(1 .. Len(ps))
  BY LenProperties, FS_Interval
<1>2. WaitingIn(ps) \in SUBSET (1 .. Len(ps))
  BY DEF WaitingIn
<1>3. IsFiniteSet(WaitingIn(ps))
  BY <1>1, <1>2, FS_Subset
<1> QED
  BY <1>3, FS_CardinalityType, FS_EmptySet

LEMMA HopProperties ==
    ASSUME NEW n \in Nat, NEW t \in Ttls
    PROVE  /\ Hop(n, t) \in Seq(Probe)
           /\ Len(Hop(n, t)) = n
           /\ \A i \in 1 .. n : Hop(n, t)[i] = [ttl |-> t, answer |-> "none"]
<1>1. [ttl |-> t, answer |-> "none"] \in Probe
  BY DEF Probe
<1> DEFINE e(i) == [ttl |-> t, answer |-> "none"]
<1>2. \A i \in 1 .. n : e(i) \in Probe
  BY <1>1
<1> HIDE DEF e
<1>3. [i \in 1 .. n |-> e(i)] \in Seq(Probe)
  BY <1>2, IsASeq
<1>4. Hop(n, t) = [i \in 1 .. n |-> e(i)]
  BY DEF Hop, e
<1> QED
  BY <1>3, <1>4 DEF e

(* A hop, or a part of it, is explored after the probes ps, all answered. *)
LEMMA HopAdded ==
    ASSUME NEW ps \in Seq(Probe), WaitingIn(ps) = {}, NEW n \in Nat, NEW t \in Ttls
    PROVE  /\ ps \o Hop(n, t) \in Seq(Probe)
           /\ Len(ps \o Hop(n, t)) = Len(ps) + n
           /\ Cardinality(WaitingIn(ps \o Hop(n, t))) = n
           /\ \A i \in 1 .. Len(ps) : (ps \o Hop(n, t))[i] = ps[i]
           /\ \A i \in Len(ps) + 1 .. Len(ps) + n :
                 (ps \o Hop(n, t))[i].ttl = t /\ (ps \o Hop(n, t))[i].answer = "none"
           /\ WaitingIn(ps \o Hop(n, t)) = Len(ps) + 1 .. Len(ps) + n
           /\ n = 0 => ps \o Hop(n, t) = ps
           /\ n > 0 => ps \o Hop(n, t) # << >> /\ LastIn(ps \o Hop(n, t)) = t
<1> DEFINE hop == Hop(n, t)
           ps2 == ps \o hop
<1>1. /\ hop \in Seq(Probe) /\ Len(hop) = n
      /\ \A i \in 1 .. n : hop[i] = [ttl |-> t, answer |-> "none"]
  BY HopProperties
<1> HIDE DEF hop
<1>2. Len(ps) \in Nat
  BY LenProperties
<1>3. /\ ps2 \in Seq(Probe) /\ Len(ps2) = Len(ps) + n
      /\ \A i \in 1 .. Len(ps) + n : ps2[i] = IF i <= Len(ps) THEN ps[i] ELSE hop[i - Len(ps)]
  BY <1>1, ConcatProperties
<1> HIDE DEF ps2
<1>4. \A i \in 1 .. Len(ps) : i \in 1 .. Len(ps) + n /\ ps2[i] = ps[i]
  BY <1>2, <1>3
<1>5. ASSUME NEW i \in Len(ps) + 1 .. Len(ps) + n
      PROVE  i \in 1 .. Len(ps) + n /\ ps2[i].ttl = t /\ ps2[i].answer = "none"
  <2>1. i \in 1 .. Len(ps) + n /\ ~ (i <= Len(ps)) /\ i - Len(ps) \in 1 .. n
    BY <1>2
  <2> QED
    BY <1>1, <1>3, <2>1
<1>6. WaitingIn(ps2) = Len(ps) + 1 .. Len(ps) + n
  <2>1. \A i \in 1 .. Len(ps) : i \notin WaitingIn(ps2)
    BY <1>4 DEF WaitingIn
  <2>2. \A i \in Len(ps) + 1 .. Len(ps) + n : i \in WaitingIn(ps2)
    BY <1>3, <1>5 DEF WaitingIn, Answers
  <2>3. \A i \in 1 .. Len(ps) + n : i \in 1 .. Len(ps) \/ i \in Len(ps) + 1 .. Len(ps) + n
    BY <1>2
  <2>4. WaitingIn(ps2) \subseteq 1 .. Len(ps) + n
    BY <1>3 DEF WaitingIn
  <2> QED
    BY <2>1, <2>2, <2>3, <2>4
<1>7. Cardinality(WaitingIn(ps2)) = n
  <2>1. Cardinality(Len(ps) + 1 .. Len(ps) + n) = IF Len(ps) + 1 > Len(ps) + n THEN 0
                                                 ELSE (Len(ps) + n) - (Len(ps) + 1) + 1
    <3>1. Len(ps) + 1 \in Int /\ Len(ps) + n \in Int
      BY <1>2
    <3> HIDE DEF ps2
    <3> QED
      BY <3>1, FS_Interval
  <2> QED
    BY <1>2, <1>6, <2>1
<1>8. n = 0 => ps2 = ps
  BY <1>3, <1>4, <1>2, SeqEqual
<1>9. ASSUME n > 0 PROVE ps2 # << >> /\ LastIn(ps2) = t
  <2>1. Len(ps2) \in Len(ps) + 1 .. Len(ps) + n /\ Len(ps2) # 0
    BY <1>2, <1>3, <1>9
  <2> QED
    BY <1>5, <2>1, EmptySeq DEF LastIn
<1> QED
  BY <1>3, <1>4, <1>5, <1>6, <1>7, <1>8, <1>9 DEF ps2, hop

(* The parts of HopAdded, one by one: the hop that comes last is the last one
   explored, its probes are the only ones to wait for. *)
LEMMA HopLast ==
    ASSUME NEW ps \in Seq(Probe), WaitingIn(ps) = {}, NEW n \in Nat, NEW t \in Ttls
    PROVE  n > 0 => ps \o Hop(n, t) # << >> /\ LastIn(ps \o Hop(n, t)) = t
  BY HopAdded

LEMMA HopNew ==
    ASSUME NEW ps \in Seq(Probe), WaitingIn(ps) = {}, NEW n \in Nat, NEW t \in Ttls
    PROVE  \A i \in Len(ps) + 1 .. Len(ps) + n :
              (ps \o Hop(n, t))[i].ttl = t /\ (ps \o Hop(n, t))[i].answer = "none"
<1>1. PICK h : h = Hop(n, t)
  OBVIOUS
<1>2. h \in Seq(Probe) /\ Len(h) = n /\ \A i \in 1 .. n : h[i] = [ttl |-> t, answer |-> "none"]
  BY <1>1, HopProperties
<1>3. Len(ps) \in Nat
  BY LenProperties
<1>4. \A i \in 1 .. Len(ps) + Len(h) : (ps \o h)[i] = IF i <= Len(ps) THEN ps[i] ELSE h[i - Len(ps)]
  BY ONLY <1>2, ConcatProperties
<1>5. ASSUME NEW i \in Len(ps) + 1 .. Len(ps) + n
      PROVE  (ps \o h)[i].ttl = t /\ (ps \o h)[i].answer = "none"
  <2>1. i \in 1 .. Len(ps) + n /\ ~(i <= Len(ps)) /\ i - Len(ps) \in 1 .. n
    BY ONLY <1>3
  <2>2. (ps \o h)[i] = [ttl |-> t, answer |-> "none"]
    BY ONLY <1>2, <1>4, <2>1
  <2> QED
    BY ONLY <2>2
<1> QED
  BY ONLY <1>1, <1>5

LEMMA HopWaits ==
    ASSUME NEW ps \in Seq(Probe), WaitingIn(ps) = {}, NEW n \in Nat, NEW t \in Ttls
    PROVE  Cardinality(WaitingIn(ps \o Hop(n, t))) = n
  BY HopAdded

LEMMA HopLength ==
    ASSUME NEW ps \in Seq(Probe), WaitingIn(ps) = {}, NEW n \in Nat, NEW t \in Ttls
    PROVE  Len(ps \o Hop(n, t)) = Len(ps) + n
  BY HopAdded

LEMMA NoHop ==
    ASSUME NEW ps \in Seq(Probe), WaitingIn(ps) = {}, NEW n \in Nat, NEW t \in Ttls
    PROVE  n = 0 => ps \o Hop(n, t) = ps
  BY HopAdded

(* The answer of a probe changes: it is answered, or was lost on the way. *)
LEMMA AnswerSet ==
    ASSUME NEW ps \in Seq(Probe), NEW k \in 1 .. Len(ps), ps[k].answer = "none",
           NEW a \in Answers \cup {"lost"}
    PROVE  LET ps2 == [ps EXCEPT ![k].answer = a]
           IN  /\ ps2 \in Seq(Probe)
               /\ Len(ps2) = Len(ps)
               /\ \A i \in 1 .. Len(ps) : ps2[i].ttl = ps[i].ttl
               /\ \A i \in 1 .. Len(ps) : i # k => ps2[i] = ps[i]
               /\ ps2[k].answer = a
               /\ k \in WaitingIn(ps)
               /\ a \in Answers =>
                     /\ WaitingIn(ps2) = WaitingIn(ps) \ {k}
                     /\ Cardinality(WaitingIn(ps2)) = Cardinality(WaitingIn(ps)) - 1
               /\ a = "lost" => WaitingIn(ps2) = WaitingIn(ps)
<1> DEFINE p   == [ps[k] EXCEPT !.answer = a]
           ps2 == [ps EXCEPT ![k] = p]
<1>1. ps[k] \in Probe
  BY ElementOfSeq
<1>2. p \in Probe /\ p.ttl = ps[k].ttl /\ p.answer = a
  BY <1>1 DEF Probe
<1>3. [ps EXCEPT ![k].answer = a] = ps2
  OBVIOUS
<1> HIDE DEF p
<1>4. /\ ps2 \in Seq(Probe) /\ Len(ps2) = Len(ps)
      /\ \A i \in 1 .. Len(ps) : ps2[i] = IF i = k THEN p ELSE ps[i]
  BY <1>2, ExceptSeq
<1> HIDE DEF ps2
<1>5. k \in WaitingIn(ps)
  BY DEF WaitingIn, Answers
<1>6. a \in Answers => WaitingIn(ps2) = WaitingIn(ps) \ {k}
  BY <1>2, <1>4 DEF WaitingIn
<1>7. a = "lost" => WaitingIn(ps2) = WaitingIn(ps)
  BY <1>2, <1>4 DEF WaitingIn, Answers
<1>8. a \in Answers => Cardinality(WaitingIn(ps2)) = Cardinality(WaitingIn(ps)) - 1
  BY <1>5, <1>6, WaitingFinite, FS_RemoveElement
<1> QED
  BY <1>2, <1>3, <1>4, <1>5, <1>6, <1>7, <1>8

-----------------------------------------------------------------------------
(* The events raised *)

HasIn(q, event) == \E i \in 1 .. Len(q) : q[i] = event

LEMMA RaisedMore ==
    ASSUME NEW q \in Seq(Raised), NEW s \in Seq(Raised), NEW e
    PROVE  HasIn(q \o s, e) <=> HasIn(q, e) \/ HasIn(s, e)
<1>1. Len(q) \in Nat /\ Len(s) \in Nat
  BY LenProperties
<1>2. /\ Len(q \o s) = Len(q) + Len(s)
      /\ \A i \in 1 .. Len(q) + Len(s) : (q \o s)[i] = IF i <= Len(q) THEN q[i] ELSE s[i - Len(q)]
  BY ConcatProperties
<1>3. HasIn(q, e) => HasIn(q \o s, e)
  <2> SUFFICES ASSUME NEW i \in 1 .. Len(q), q[i] = e PROVE HasIn(q \o s, e)
    BY DEF HasIn
  <2>1. i \in 1 .. Len(q \o s) /\ (q \o s)[i] = e
    BY <1>1, <1>2
  <2> QED
    BY <2>1 DEF HasIn
<1>4. HasIn(s, e) => HasIn(q \o s, e)
  <2> SUFFICES ASSUME NEW i \in 1 .. Len(s), s[i] = e PROVE HasIn(q \o s, e)
    BY DEF HasIn
  <2>1. Len(q) + i \in 1 .. Len(q \o s) /\ (q \o s)[Len(q) + i] = s[i]
    <3>1. Len(q) + i \in 1 .. Len(q) + Len(s) /\ ~ (Len(q) + i <= Len(q)) /\ (Len(q) + i) - Len(q) = i
      BY <1>1
    <3> QED
      BY <1>2, <3>1
  <2> QED
    BY <2>1 DEF HasIn
<1>5. HasIn(q \o s, e) => HasIn(q, e) \/ HasIn(s, e)
  <2> SUFFICES ASSUME NEW i \in 1 .. Len(q \o s), (q \o s)[i] = e PROVE HasIn(q, e) \/ HasIn(s, e)
    BY DEF HasIn
  <2>1. CASE i <= Len(q)
    <3>1. i \in 1 .. Len(q) /\ q[i] = e
      BY <1>1, <1>2, <2>1
    <3> QED
      BY <3>1 DEF HasIn
  <2>2. CASE ~ (i <= Len(q))
    <3>1. i - Len(q) \in 1 .. Len(s) /\ s[i - Len(q)] = e
      BY <1>1, <1>2, <2>2
    <3> QED
      BY <3>1 DEF HasIn
  <2> QED
    BY <2>1, <2>2
<1> QED
  BY <1>3, <1>4, <1>5

LEMMA RaisedOne ==
    ASSUME NEW a \in Raised, NEW e
    PROVE  <<a>> \in Seq(Raised) /\ (HasIn(<<a>>, e) <=> e = a)
  BY DEF HasIn

LEMMA RaisedTwo ==
    ASSUME NEW a \in Raised, NEW b \in Raised, NEW e
    PROVE  <<a, b>> \in Seq(Raised) /\ (HasIn(<<a, b>>, e) <=> e = a \/ e = b)
<1>1. Len(<<a, b>>) = 2 /\ <<a, b>>[1] = a /\ <<a, b>>[2] = b /\ <<a, b>> \in Seq(Raised)
  OBVIOUS
<1>2. \A i \in 1 .. 2 : i = 1 \/ i = 2
  OBVIOUS
<1>3. 1 \in 1 .. 2 /\ 2 \in 1 .. 2
  OBVIOUS
<1> QED
  BY <1>1, <1>2, <1>3 DEF HasIn

-----------------------------------------------------------------------------
(* Types *)

LEMMA OptionTypes ==
    ASSUME NEW o \in OptionSets
    PROVE  /\ o.num_probes \in Nat \ {0} /\ o.max_undiscovered \in Nat \ {0}
           /\ o.min_ttl \in Ttls \ {0} /\ o.max_ttl \in Ttls \ {0}
           /\ o.min_ttl \in Nat /\ o.max_ttl \in Nat
  BY TracerouteAssumption DEF Ttls

LEMMA NextTtl ==
    ASSUME NEW t \in Ttls
    PROVE  (t + 1) % TtlMod \in Ttls /\ (t < TtlMod - 1 => (t + 1) % TtlMod = t + 1)
<1>1. TtlMod \in Nat \ {0} /\ t \in Nat
  BY TracerouteAssumption DEF Ttls
<1>2. (t + 1) % TtlMod \in 0 .. TtlMod - 1
  BY <1>1, SMT
<1>3. ASSUME t < TtlMod - 1 PROVE (t + 1) % TtlMod = t + 1
  <2>1. t + 1 \in 0 .. TtlMod - 1 /\ 0 * TtlMod + (t + 1) = t + 1 /\ 0 \in Nat
    BY <1>1, <1>3
  <2>2. (0 * TtlMod + (t + 1)) % TtlMod = t + 1
    BY <1>1, <2>1, Remainder
  <2> QED
    BY <2>1, <2>2
<1> QED
  BY <1>2, <1>3 DEF Ttls

(* What exploring a hop does, in the order of the code: probes, TTL, error. *)
Explored(sent, t) ==
    \/ /\ probes' = sent \o Hop(options.num_probes, t)
       /\ ttl' = (t + 1) % TtlMod
       /\ raised' = raised
    \/ /\ \E n \in 0 .. options.num_probes - 1 : probes' = sent \o Hop(n, t)
       /\ ttl' = t
       /\ raised' = raised \o <<"ERROR">>

LEMMA ExploreHopExplores ==
    ASSUME NEW sent, NEW t, ExploreHop(sent, t)
    PROVE  Explored(sent, t) /\ num_stars' = 0
  BY DEF ExploreHop, Explored, Hop, Raise

LEMMA ExploredTypes ==
    ASSUME NEW sent \in Seq(Probe), NEW t \in Ttls, options \in OptionSets,
           raised \in Seq(Raised), Explored(sent, t)
    PROVE  probes' \in Seq(Probe) /\ ttl' \in Ttls /\ raised' \in Seq(Raised)
<1>1. options.num_probes \in Nat \ {0}
  BY OptionTypes
<1>2. \A n \in Nat : sent \o Hop(n, t) \in Seq(Probe)
  BY HopProperties, ConcatProperties
<1>3. probes' \in Seq(Probe)
  <2>1. PICK n \in 0 .. options.num_probes : probes' = sent \o Hop(n, t)
    <3>1. CASE probes' = sent \o Hop(options.num_probes, t)
      <4>1. options.num_probes \in 0 .. options.num_probes
        BY <1>1
      <4> QED
        BY <3>1, <4>1
    <3>2. ASSUME NEW n \in 0 .. options.num_probes - 1, probes' = sent \o Hop(n, t)
          PROVE  \E m \in 0 .. options.num_probes : probes' = sent \o Hop(m, t)
      <4>1. n \in 0 .. options.num_probes
        BY <1>1
      <4> QED
        BY <3>2, <4>1
    <3> QED
      BY <3>1, <3>2 DEF Explored
  <2>2. n \in Nat
    BY <1>1
  <2> QED
    BY <1>2, <2>1, <2>2
<1>4. raised \o <<"ERROR">> \in Seq(Raised)
  BY RaisedOne, ConcatProperties DEF Raised
<1> QED
  BY <1>3, <1>4, NextTtl DEF Explored

(* What an answer does. *)
Answered(k, a) == [probes EXCEPT ![k].answer = a]

Concluded(k, a, r) ==
    /\ probes' = Answered(k, a) /\ ttl' = ttl
    /\ raised' = raised \o <<r, "HAS_TERMINATED">>
    /\ r = "MAX_TTL_REACHED" => LimitReached

LEMMA AnswerSteps ==
    ASSUME NEW k, NEW a, HandleAnswer(k, a)
    PROVE  \/ /\ ~ HopIsOver(num_replies + 1)
              /\ probes' = Answered(k, a) /\ ttl' = ttl /\ raised' = raised \o << >>
           \/ /\ HopIsOver(num_replies + 1)
              /\ \/ \E r \in Reasons : Concluded(k, a, r)
                 \/ ~ LimitReached /\ Explored(Answered(k, a), ttl)
<1>1. num_replies' = num_replies + 1
  BY DEF HandleAnswer
<1> QED
  BY <1>1, ExploreHopExplores
  DEF HandleAnswer, Raise, Answered, Concluded, Reasons

LEMMA InitTypes == Init => TypeOK
<1>1. 0 \in Ttls
  BY TracerouteAssumption DEF Ttls
<1>2. << >> \in Seq(Probe) /\ << >> \in Seq(Raised)
  BY EmptySeq
<1> SUFFICES ASSUME Init PROVE TypeOK
  OBVIOUS
<1>3. options \in OptionSets /\ data \in {"none", "live", "fault"} /\ ttl \in Ttls
  BY <1>1 DEF Init
<1>4. num_replies \in Nat /\ num_undiscovered \in Nat /\ num_stars \in Nat
  BY DEF Init
<1>5. destination_reached \in BOOLEAN
  BY DEF Init
<1>6. probes \in Seq(Probe) /\ raised \in Seq(Raised)
  BY <1>2 DEF Init
<1> QED
  BY <1>3, <1>4, <1>5, <1>6 DEF TypeOK

LEMMA StepTypes == TypeOK /\ [Next]_vars => TypeOK'
<1> SUFFICES ASSUME TypeOK, [Next]_vars PROVE TypeOK'
  OBVIOUS
<1> USE DEF TypeOK
<1>1. CASE HandleInit
  <2>1. options.min_ttl \in Ttls
    BY OptionTypes
  <2>2. Explored(<< >>, options.min_ttl) /\ num_stars' = 0
    BY <1>1, ExploreHopExplores DEF HandleInit
  <2>3. probes' \in Seq(Probe) /\ ttl' \in Ttls /\ raised' \in Seq(Raised)
    BY <2>1, <2>2, ExploredTypes, EmptySeq
  <2> QED
    BY <1>1, <2>2, <2>3 DEF HandleInit
<1>2. ASSUME NEW s \in Seq(Raised), raised' = raised \o s
      PROVE  raised' \in Seq(Raised)
  BY <1>2, ConcatProperties
<1>3. CASE HandleInitFails
  <2>1. raised' \in Seq(Raised)
    BY <1>2, <1>3, RaisedOne DEF HandleInitFails, Raise, Raised
  <2> QED
    BY <1>3, <2>1 DEF HandleInitFails
<1>4. CASE HandleTerm
  <2>1. raised' \in Seq(Raised)
    BY <1>2, <1>4, RaisedOne DEF HandleTerm, Raise, Raised
  <2> QED
    BY <1>4, <2>1 DEF HandleTerm
<1>5. ASSUME NEW k \in 1 .. Len(probes), NEW a \in Answers, HandleAnswer(k, a)
      PROVE  TypeOK'
  <2>1. Answered(k, a) \in Seq(Probe)
    BY <1>5, AnswerSet DEF HandleAnswer, Answered
  <2>2. probes' \in Seq(Probe) /\ ttl' \in Ttls /\ raised' \in Seq(Raised)
    <3>1. << >> \in Seq(Raised) /\ \A r \in Reasons : <<r, "HAS_TERMINATED">> \in Seq(Raised)
      BY RaisedTwo, EmptySeq DEF Raised
    <3>2. CASE Explored(Answered(k, a), ttl)
      BY <2>1, <3>2, ExploredTypes
    <3>3. CASE \E r \in Reasons : Concluded(k, a, r)
      BY <1>2, <2>1, <3>1, <3>3 DEF Concluded
    <3>4. CASE probes' = Answered(k, a) /\ ttl' = ttl /\ raised' = raised \o << >>
      BY <1>2, <2>1, <3>1, <3>4
    <3> QED
      BY <1>5, <3>2, <3>3, <3>4, AnswerSteps
  <2>3. num_stars' \in Nat /\ num_undiscovered' \in Nat
    <3>1. StarsAfter(a) \in Nat /\ UndiscoveredAfter(a) \in Nat
      BY DEF StarsAfter, UndiscoveredAfter
    <3>2. num_stars' \in {0, StarsAfter(a)}
      BY <1>5 DEF HandleAnswer, ExploreHop
    <3>3. num_undiscovered' \in {UndiscoveredAfter(a), UndiscoveredAfter(a) + 0, UndiscoveredAfter(a) + 1}
      BY <1>5 DEF HandleAnswer
    <3> QED
      BY ONLY <3>1, <3>2, <3>3
  <2>4. num_replies' \in Nat /\ destination_reached' \in BOOLEAN /\ UNCHANGED <<options, data>>
    BY <1>5 DEF HandleAnswer
  <2> QED
    BY <2>2, <2>3, <2>4
<1>6. ASSUME NEW k \in 1 .. Len(probes), HandleAnswerWithoutData(k)
      PROVE  TypeOK'
  BY <1>6 DEF HandleAnswerWithoutData
<1>7. ASSUME NEW k \in 1 .. Len(probes), Lose(k)
      PROVE  TypeOK'
  <2>1. probes' \in Seq(Probe)
    BY <1>7, AnswerSet DEF Lose
  <2> QED
    BY <1>7, <2>1 DEF Lose
<1>8. CASE UNCHANGED vars
  BY <1>8 DEF vars
<1> QED
  BY <1>1, <1>3, <1>4, <1>5, <1>6, <1>7, <1>8 DEF Next

-----------------------------------------------------------------------------
(* The invariant *)

(* The probes ps make whole hops, with n answers, or a hop was cut short by an
   error; what is to be answered is in the last hop.  t is the TTL to come. *)
Whole(o, ps, t) ==
    /\ Cardinality(WaitingIn(ps)) <= o.num_probes
    /\ \E h \in Nat : Len(ps) = h * o.num_probes
    /\ ps # << >> => t = LastIn(ps) + 1

Cut(o, ps) ==
    \E h \in Nat, m \in 0 .. o.num_probes - 1 :
        Len(ps) = h * o.num_probes + m /\ Cardinality(WaitingIn(ps)) <= m

Shape(o, ps, rs, t, n) ==
    /\ n + Cardinality(WaitingIn(ps)) = Len(ps)
    /\ ps # << >> => LastIn(ps) \in o.min_ttl .. o.max_ttl
    /\ IF HasIn(rs, "ERROR") THEN Cut(o, ps) ELSE Whole(o, ps, t)

(* Once a reason to stop is given nothing is to be answered, and no other one
   is given.  An instance that was told to end has no data. *)
Verdict(ps, rs, dt) ==
    /\ \A r \in Reasons : HasIn(rs, r) => WaitingIn(ps) = {} /\ ~ HasIn(rs, "ERROR")
    /\ \A r, s \in Reasons : HasIn(rs, r) /\ HasIn(rs, s) => r = s
    /\ HasIn(rs, "HAS_TERMINATED") => dt # "live" \/ \E r \in Reasons : HasIn(rs, r)

HopInv ==
    /\ TypeOK
    /\ Shape(options, probes, raised, ttl, num_replies)
    /\ Verdict(probes, raised, data)

(* max_ttl + 1 is a TTL: with 255 the uint8_t of the code wraps. *)
NoWrap == \A o \in OptionSets : o.max_ttl < TtlMod - 1

(* What holds when an answer comes. *)
LEMMA AnswerFacts ==
    ASSUME HopInv, NEW k \in 1 .. Len(probes), NEW a \in Answers, HandleAnswer(k, a)
    PROVE  /\ Answered(k, a) \in Seq(Probe) /\ Len(Answered(k, a)) = Len(probes)
           /\ LastIn(Answered(k, a)) = LastIn(probes)
           /\ Answered(k, a) # << >> /\ probes # << >>
           /\ WaitingIn(probes) # {}
           /\ Cardinality(WaitingIn(probes)) \in Nat \ {0}
           /\ Cardinality(WaitingIn(Answered(k, a))) = Cardinality(WaitingIn(probes)) - 1
           /\ \A r \in Reasons : ~ HasIn(raised, r)
           /\ ~ HasIn(raised, "HAS_TERMINATED")
           /\ num_replies' = num_replies + 1
           /\ HopIsOver(num_replies + 1) <=>
                 ~ HasIn(raised, "ERROR") /\ Cardinality(WaitingIn(probes)) = 1
<1> DEFINE w == Cardinality(WaitingIn(probes))
           N == options.num_probes
<1>1. /\ probes \in Seq(Probe) /\ options \in OptionSets /\ num_replies \in Nat
      /\ raised \in Seq(Raised) /\ Len(probes) \in Nat
  BY LenProperties DEF HopInv, TypeOK
<1>2. probes[k].answer = "none" /\ data = "live" /\ num_replies' = num_replies + 1
  BY DEF HandleAnswer
<1>3. /\ Answered(k, a) \in Seq(Probe) /\ Len(Answered(k, a)) = Len(probes)
      /\ \A i \in 1 .. Len(probes) : Answered(k, a)[i].ttl = probes[i].ttl
      /\ k \in WaitingIn(probes)
      /\ Cardinality(WaitingIn(Answered(k, a))) = w - 1
  <2> DEFINE ps2 == [probes EXCEPT ![k].answer = a]
  <2>1. /\ ps2 \in Seq(Probe)
        /\ Len(ps2) = Len(probes)
        /\ \A i \in 1 .. Len(probes) : ps2[i].ttl = probes[i].ttl
        /\ k \in WaitingIn(probes)
    <3> HIDE DEF w, N
    <3>1. a \in Answers \cup {"lost"}
      OBVIOUS
    <3>2. ps2 \in Seq(Probe) /\ Len(ps2) = Len(probes)
      BY <1>1, <1>2, <3>1, AnswerSet
    <3>3. \A i \in 1 .. Len(probes) : ps2[i].ttl = probes[i].ttl
      BY <1>1, <1>2, <3>1, AnswerSet
    <3>4. k \in WaitingIn(probes)
      BY <1>2 DEF WaitingIn, Answers
    <3> QED
      BY <3>2, <3>3, <3>4
  <2>2. Cardinality(WaitingIn(ps2)) = Cardinality(WaitingIn(probes)) - 1
    BY <1>1, <1>2, AnswerSet
  <2>3. Answered(k, a) = ps2
    BY DEF Answered
  <2> HIDE DEF ps2
  <2> QED
    BY <2>1, <2>2, <2>3
<1>4. Len(probes) \in 1 .. Len(probes)
  BY <1>1
<1>5. LastIn(Answered(k, a)) = LastIn(probes)
  BY <1>3, <1>4 DEF LastIn
<1>6. Answered(k, a) # << >> /\ probes # << >>
  BY <1>1, <1>3, EmptySeq
<1>7. w \in Nat \ {0}
  BY <1>1, <1>3, WaitingFinite
<1>8. \A r \in Reasons : ~ HasIn(raised, r)
  BY <1>3 DEF HopInv, Verdict
<1>9. ~ HasIn(raised, "HAS_TERMINATED")
  BY <1>2, <1>8 DEF HopInv, Verdict
<1> HIDE DEF w
<1>10. N \in Nat \ {0}
  BY <1>1, OptionTypes
<1>11. num_replies + w = Len(probes)
  BY DEF HopInv, Shape, w
<1>12. CASE HasIn(raised, "ERROR")
  <2>1. PICK h \in Nat, m \in 0 .. N - 1 : Len(probes) = h * N + m /\ w <= m
    BY <1>12 DEF HopInv, Shape, Cut, w
  <2>2. w \in 1 .. m /\ num_replies + w = h * N + m
    BY <1>7, <1>11, <2>1
  <2> HIDE DEF N
  <2>3. (num_replies + 1) % N # 0
    BY <1>1, <1>10, <2>1, <2>2, PartOfHop
  <2> QED
    BY <1>2, <1>3, <1>5, <1>6, <1>7, <1>8, <1>9, <1>12, <2>3 DEF HopIsOver, w, N
<1>13. CASE ~ HasIn(raised, "ERROR")
  <2>1. PICK h \in Nat : Len(probes) = h * N
    BY <1>13 DEF HopInv, Shape, Whole
  <2>2. w <= N
    BY <1>13 DEF HopInv, Shape, Whole, w
  <2>3. w \in 1 .. N /\ num_replies + w = h * N
    BY <1>7, <1>10, <1>11, <2>1, <2>2
  <2> HIDE DEF N
  <2>4. (num_replies + 1) % N = 0 <=> w = 1
    BY <1>1, <1>10, <2>3, WholeHops
  <2> QED
    BY <1>2, <1>3, <1>5, <1>6, <1>7, <1>8, <1>9, <1>13, <2>4 DEF HopIsOver, w, N
<1> QED
  BY <1>12, <1>13

(* What holds when a hop, or a part of it, has been explored. *)
LEMMA HopExplored ==
    ASSUME NoWrap, options \in OptionSets, raised \in Seq(Raised), ~ HasIn(raised, "ERROR"),
           NEW sent \in Seq(Probe), WaitingIn(sent) = {},
           NEW h \in Nat, Len(sent) = h * options.num_probes,
           sent # << >> => LastIn(sent) \in options.min_ttl .. options.max_ttl,
           NEW t \in Ttls, t \in options.min_ttl .. options.max_ttl, Explored(sent, t)
    PROVE  /\ Shape(options, probes', raised', ttl', Len(sent))
           /\ \/ /\ raised' = raised
                 /\ probes' # << >> /\ LastIn(probes') = t
                 /\ Cardinality(WaitingIn(probes')) = options.num_probes
              \/ /\ \A e : HasIn(raised', e) <=> HasIn(raised, e) \/ e = "ERROR"
                 /\ Cardinality(WaitingIn(probes')) \in 0 .. options.num_probes - 1
                 /\ probes' = sent \/ (probes' # << >> /\ LastIn(probes') = t)
<1> DEFINE N == options.num_probes
<1>1. N \in Nat \ {0} /\ Len(sent) \in Nat /\ t \in Nat /\ options.max_ttl < TtlMod - 1
  <2>1. options.max_ttl < TtlMod - 1
    BY DEF NoWrap
  <2> QED
    BY <2>1, OptionTypes, LenProperties DEF Ttls
<1>2. ASSUME NEW n \in Nat
      PROVE  /\ sent \o Hop(n, t) \in Seq(Probe)
             /\ Len(sent \o Hop(n, t)) = Len(sent) + n
             /\ Cardinality(WaitingIn(sent \o Hop(n, t))) = n
             /\ n > 0 => sent \o Hop(n, t) # << >> /\ LastIn(sent \o Hop(n, t)) = t
             /\ n = 0 => sent \o Hop(n, t) = sent
  <2>1. sent \o Hop(n, t) \in Seq(Probe) /\ Len(sent \o Hop(n, t)) = Len(sent) + n
    BY HopAdded
  <2>2. Cardinality(WaitingIn(sent \o Hop(n, t))) = n
    BY HopAdded
  <2>3. n > 0 => sent \o Hop(n, t) # << >> /\ LastIn(sent \o Hop(n, t)) = t
    BY HopLast
  <2>4. n = 0 => sent \o Hop(n, t) = sent
    BY NoHop
  <2> QED
    BY <2>1, <2>2, <2>3, <2>4
<1>3. CASE probes' = sent \o Hop(N, t) /\ ttl' = (t + 1) % TtlMod /\ raised' = raised
  <2>1. /\ Len(probes') = Len(sent) + N /\ Cardinality(WaitingIn(probes')) = N
        /\ probes' # << >> /\ LastIn(probes') = t
    <3>1. N \in Nat /\ N > 0
      BY <1>1
    <3> HIDE DEF N
    <3> QED
      BY <1>2, <1>3, <3>1
  <2>2. ttl' = t + 1
    <3>1. t < TtlMod - 1
      BY <1>1, OptionTypes, TracerouteAssumption
    <3> QED
      BY <1>3, <3>1, NextTtl
  <2>3. Len(probes') = (h + 1) * N /\ h + 1 \in Nat
    <3>1. (h + 1) * N = h * N + N
      <4>1. N \in Nat
        BY <1>1
      <4> HIDE DEF N
      <4> QED
        BY <4>1, SMT
    <3> QED
      BY <1>1, <2>1, <3>1
  <2>4. Whole(options, probes', ttl')
    <3>1. \E g \in Nat : Len(probes') = g * options.num_probes
      BY <2>3
    <3>2. Cardinality(WaitingIn(probes')) <= options.num_probes
      BY <1>1, <2>1
    <3> QED
      BY <2>1, <2>2, <3>1, <3>2 DEF Whole
  <2>5. Len(sent) + Cardinality(WaitingIn(probes')) = Len(probes')
    BY <2>1
  <2>6. Shape(options, probes', raised', ttl', Len(sent))
    BY <1>3, <2>1, <2>4, <2>5 DEF Shape
  <2> QED
    BY <1>3, <2>1, <2>6
<1>4. ASSUME NEW n \in 0 .. N - 1, probes' = sent \o Hop(n, t), ttl' = t,
             raised' = raised \o <<"ERROR">>
      PROVE  /\ Shape(options, probes', raised', ttl', Len(sent))
             /\ \A e : HasIn(raised', e) <=> HasIn(raised, e) \/ e = "ERROR"
             /\ Cardinality(WaitingIn(probes')) \in 0 .. options.num_probes - 1
             /\ probes' = sent \/ (probes' # << >> /\ LastIn(probes') = t)
  <2>1. n \in Nat
    BY <1>1
  <2>2. /\ Len(probes') = Len(sent) + n /\ Cardinality(WaitingIn(probes')) = n
        /\ n > 0 => probes' # << >> /\ LastIn(probes') = t
        /\ n = 0 => probes' = sent
    BY <1>2, <1>4, <2>1
  <2>3. \A e : HasIn(raised', e) <=> HasIn(raised, e) \/ e = "ERROR"
    <3>1. "ERROR" \in Raised
      BY DEF Raised
    <3>2. <<"ERROR">> \in Seq(Raised) /\ \A e : HasIn(<<"ERROR">>, e) <=> e = "ERROR"
      BY <3>1, RaisedOne
    <3> QED
      BY <1>4, <3>2, RaisedMore
  <2>4. Cut(options, probes')
    <3>1. Len(probes') = h * options.num_probes + n /\ Cardinality(WaitingIn(probes')) <= n
      BY <2>1, <2>2
    <3> QED
      BY <3>1 DEF Cut
  <2>5. probes' # << >> => LastIn(probes') \in options.min_ttl .. options.max_ttl
    BY <2>1, <2>2
  <2>6. Shape(options, probes', raised', ttl', Len(sent))
    BY <2>2, <2>3, <2>4, <2>5 DEF Shape
  <2> QED
    BY <2>1, <2>2, <2>3, <2>6
<1> QED
  BY <1>3, <1>4 DEF Explored

LEMMA InitHopInv == Init => HopInv
<1> SUFFICES ASSUME Init PROVE HopInv
  OBVIOUS
<1>1. TypeOK
  BY InitTypes
<1>2. probes = << >> /\ Len(probes) = 0 /\ Len(raised) = 0 /\ num_replies = 0
  BY EmptySeq DEF Init
<1>3. WaitingIn(probes) = {} /\ \A e : ~ HasIn(raised, e)
  BY <1>2 DEF WaitingIn, HasIn
<1>4. Cardinality(WaitingIn(probes)) = 0
  BY <1>3, FS_EmptySet
<1>5. options.num_probes \in Nat \ {0}
  BY <1>1, OptionTypes DEF TypeOK
<1>6. Len(probes) = 0 * options.num_probes /\ 0 \in Nat
  BY <1>2, <1>5
<1>7. Shape(options, probes, raised, ttl, num_replies)
  BY <1>2, <1>3, <1>4, <1>5, <1>6 DEF Shape, Whole
<1> QED
  BY <1>1, <1>3, <1>7 DEF HopInv, Verdict

(* Answers, losses and events that are not errors leave the hops alone. *)
LEMMA ShapeStays ==
    ASSUME NEW o \in OptionSets, NEW ps \in Seq(Probe), NEW qs \in Seq(Probe), NEW rs, NEW ss,
           NEW t, NEW n \in Nat, NEW m \in Nat, Shape(o, ps, rs, t, n),
           Len(qs) = Len(ps), LastIn(qs) = LastIn(ps),
           Cardinality(WaitingIn(qs)) <= Cardinality(WaitingIn(ps)),
           m + Cardinality(WaitingIn(qs)) = n + Cardinality(WaitingIn(ps)),
           HasIn(ss, "ERROR") <=> HasIn(rs, "ERROR")
    PROVE  Shape(o, qs, ss, t, m)
<1>1. o.num_probes \in Nat \ {0} /\ Len(ps) \in Nat
  BY OptionTypes, LenProperties
<1>2. Cardinality(WaitingIn(ps)) \in Nat /\ Cardinality(WaitingIn(qs)) \in Nat
  BY WaitingFinite
<1>3. qs # << >> => ps # << >>
  BY EmptySeq
<1>4. m + Cardinality(WaitingIn(qs)) = Len(qs)
  BY DEF Shape
<1>5. qs # << >> => LastIn(qs) \in o.min_ttl .. o.max_ttl
  BY <1>3 DEF Shape
<1>6. ASSUME HasIn(rs, "ERROR") PROVE Cut(o, qs)
  <2>1. PICK h \in Nat, x \in 0 .. o.num_probes - 1 :
               Len(ps) = h * o.num_probes + x /\ Cardinality(WaitingIn(ps)) <= x
    BY <1>6 DEF Shape, Cut
  <2>2. Len(qs) = h * o.num_probes + x /\ Cardinality(WaitingIn(qs)) <= x
    <3>1. x \in Nat
      BY <1>1
    <3>2. Cardinality(WaitingIn(qs)) <= x
      BY <1>2, <2>1, <3>1
    <3> QED
      BY <2>1, <3>2
  <2> QED
    BY <2>2 DEF Cut
<1>7. ASSUME ~ HasIn(rs, "ERROR") PROVE Whole(o, qs, t)
  <2>1. Whole(o, ps, t)
    BY <1>7 DEF Shape
  <2>2. Cardinality(WaitingIn(qs)) <= o.num_probes
    BY <1>1, <1>2, <2>1 DEF Whole
  <2> QED
    BY <1>3, <2>1, <2>2 DEF Whole
<1> QED
  BY <1>4, <1>5, <1>6, <1>7 DEF Shape

(* Every step of the handler preserves the invariant. *)
LEMMA AnswerHopInv ==
    ASSUME NoWrap, HopInv, NEW k \in 1 .. Len(probes), NEW a \in Answers, HandleAnswer(k, a)
    PROVE  /\ Shape(options', probes', raised', ttl', num_replies')
           /\ Verdict(probes', raised', data')
<1> DEFINE w == Cardinality(WaitingIn(probes))
           sent == Answered(k, a)
<1>1. /\ probes \in Seq(Probe) /\ options \in OptionSets /\ num_replies \in Nat /\ ttl \in Ttls
      /\ raised \in Seq(Raised) /\ Len(probes) \in Nat
  BY LenProperties DEF HopInv, TypeOK
<1>2. sent \in Seq(Probe) /\ Len(sent) = Len(probes) /\ LastIn(sent) = LastIn(probes)
  BY AnswerFacts
<1>3. sent # << >> /\ probes # << >>
  BY AnswerFacts
<1>4. w \in Nat \ {0} /\ Cardinality(WaitingIn(sent)) = w - 1
  BY AnswerFacts
<1>5. (\A r \in Reasons : ~ HasIn(raised, r)) /\ ~ HasIn(raised, "HAS_TERMINATED")
  BY AnswerFacts
<1>6. num_replies' = num_replies + 1
  BY AnswerFacts
<1>7. HopIsOver(num_replies + 1) <=> ~ HasIn(raised, "ERROR") /\ w = 1
  BY AnswerFacts
<1>8. options' = options /\ data' = data /\ data = "live"
  BY DEF HandleAnswer
<1> HIDE DEF w, sent
<1>9. num_replies + 1 \in Nat /\ (num_replies + 1) + (w - 1) = num_replies + w /\ w - 1 <= w
  BY <1>1, <1>4
<1>10. ASSUME NEW rs, HasIn(rs, "ERROR") <=> HasIn(raised, "ERROR")
       PROVE  Shape(options, sent, rs, ttl, num_replies + 1)
  <2>1. Shape(options, probes, raised, ttl, num_replies)
    BY DEF HopInv
  <2> QED
    BY <1>1, <1>2, <1>4, <1>9, <1>10, <2>1, ShapeStays DEF w
<1>11. << >> \in Seq(Raised) /\ raised \o << >> = raised
  BY <1>1, EmptySeq, ConcatEmptySeq
<1>12. CASE ~ HopIsOver(num_replies + 1)
  <2>1. probes' = sent /\ ttl' = ttl /\ raised' = raised
    BY <1>11, <1>12, AnswerSteps DEF sent
  <2>2. Shape(options, sent, raised, ttl, num_replies + 1)
    BY <1>10
  <2>3. Verdict(sent, raised, data)
    BY <1>5 DEF Verdict
  <2> QED
    BY <1>6, <1>8, <2>1, <2>2, <2>3
<1>13. ASSUME HopIsOver(num_replies + 1), NEW r \in Reasons, Concluded(k, a, r)
       PROVE  /\ Shape(options', probes', raised', ttl', num_replies')
              /\ Verdict(probes', raised', data')
  <2>1. probes' = sent /\ ttl' = ttl /\ raised' = raised \o <<r, "HAS_TERMINATED">>
    BY <1>13 DEF Concluded, sent
  <2>2. \A e : HasIn(raised', e) <=> HasIn(raised, e) \/ e = r \/ e = "HAS_TERMINATED"
    <3>1. r \in Raised /\ "HAS_TERMINATED" \in Raised
      BY DEF Raised
    <3>2. /\ <<r, "HAS_TERMINATED">> \in Seq(Raised)
          /\ \A e : HasIn(<<r, "HAS_TERMINATED">>, e) <=> e = r \/ e = "HAS_TERMINATED"
      BY <3>1, RaisedTwo
    <3> QED
      BY <1>1, <2>1, <3>2, RaisedMore
  <2>3. HasIn(raised', "ERROR") <=> HasIn(raised, "ERROR")
    BY <2>2 DEF Reasons
  <2>4. WaitingIn(sent) = {} /\ ~ HasIn(raised, "ERROR")
    BY <1>2, <1>4, <1>7, <1>13, WaitingFinite
  <2>5. Verdict(sent, raised', data)
    BY <1>5, <2>2, <2>3, <2>4 DEF Verdict, Reasons
  <2> QED
    BY <1>6, <1>8, <1>10, <2>1, <2>3, <2>5
<1>14. ASSUME HopIsOver(num_replies + 1), ~ LimitReached, Explored(sent, ttl)
       PROVE  /\ Shape(options', probes', raised', ttl', num_replies')
              /\ Verdict(probes', raised', data')
  <2>1. WaitingIn(sent) = {} /\ ~ HasIn(raised, "ERROR")
    BY <1>2, <1>4, <1>7, <1>14, WaitingFinite
  <2>2. /\ Whole(options, probes, ttl) /\ LastIn(probes) \in options.min_ttl .. options.max_ttl
        /\ num_replies + w = Len(probes)
    BY <1>3, <2>1 DEF HopInv, Shape, w
  <2>3. PICK h \in Nat : Len(sent) = h * options.num_probes
    BY <1>2, <2>2 DEF Whole
  <2>4. num_replies + 1 = Len(sent)
    BY <1>1, <1>2, <1>7, <1>14, <2>2
  <2>5. ttl \in options.min_ttl .. options.max_ttl
    <3>1. ttl = LastIn(probes) + 1
      BY <1>3, <2>2 DEF Whole
    <3>2. options.min_ttl \in Nat /\ options.max_ttl \in Nat /\ ttl <= options.max_ttl
      BY <1>1, <1>14, OptionTypes DEF LimitReached, Ttls
    <3> QED
      BY <2>2, <3>1, <3>2
  <2>6. sent # << >> => LastIn(sent) \in options.min_ttl .. options.max_ttl
    BY <1>2, <2>2
  <2>7. Shape(options, probes', raised', ttl', Len(sent))
    BY <1>1, <1>2, <1>14, <2>1, <2>3, <2>5, <2>6, HopExplored
  <2>8. raised' = raised \/ \A e : HasIn(raised', e) <=> HasIn(raised, e) \/ e = "ERROR"
    BY <1>1, <1>2, <1>14, <2>1, <2>3, <2>5, <2>6, HopExplored
  <2>9. Verdict(probes', raised', data)
    BY <1>5, <2>8 DEF Verdict, Reasons
  <2> QED
    BY <1>6, <1>8, <2>4, <2>7, <2>9
<1> QED
  BY <1>12, <1>13, <1>14, AnswerSteps DEF sent

LEMMA InitHandledHopInv ==
    ASSUME NoWrap, HopInv, HandleInit
    PROVE  /\ Shape(options', probes', raised', ttl', num_replies')
           /\ Verdict(probes', raised', data')
<1>1. /\ options \in OptionSets /\ raised \in Seq(Raised) /\ num_replies \in Nat
      /\ probes = << >> /\ raised = << >> /\ options.min_ttl <= options.max_ttl
      /\ options' = options /\ num_replies' = num_replies
  BY DEF HopInv, TypeOK, HandleInit, Initialised
<1>2. /\ << >> \in Seq(Probe) /\ Len(<< >>) = 0 /\ WaitingIn(<< >>) = {}
      /\ \A e : ~ HasIn(<< >>, e)
  BY EmptySeq DEF WaitingIn, HasIn
<1>3. /\ options.min_ttl \in Ttls /\ options.min_ttl \in options.min_ttl .. options.max_ttl
      /\ options.num_probes \in Nat
  BY <1>1, OptionTypes
<1>4. 0 \in Nat /\ Len(<< >>) = 0 * options.num_probes
  BY <1>2, <1>3
<1>5. Explored(<< >>, options.min_ttl)
  BY ExploreHopExplores DEF HandleInit
<1>6. ~ HasIn(raised, "ERROR")
  BY <1>1, <1>2
<1>7. /\ Shape(options, probes', raised', ttl', Len(<< >>))
      /\ raised' = raised \/ \A e : HasIn(raised', e) <=> HasIn(raised, e) \/ e = "ERROR"
  BY <1>1, <1>2, <1>3, <1>4, <1>5, <1>6, HopExplored
<1>8. num_replies = 0
  <2>1. Cardinality(WaitingIn(probes)) = 0
    BY <1>1, <1>2, FS_EmptySet
  <2>2. num_replies + Cardinality(WaitingIn(probes)) = Len(probes)
    BY DEF HopInv, Shape
  <2> QED
    BY <1>1, <1>2, <2>1, <2>2
<1>9. Verdict(probes', raised', data')
  BY <1>1, <1>2, <1>7 DEF Verdict, Reasons
<1> QED
  BY <1>1, <1>2, <1>7, <1>8, <1>9

LEMMA StepHopInv == NoWrap /\ HopInv /\ [Next]_vars => HopInv'
<1> SUFFICES ASSUME NoWrap, HopInv, [Next]_vars
             PROVE  /\ Shape(options', probes', raised', ttl', num_replies')
                    /\ Verdict(probes', raised', data')
  BY StepTypes DEF HopInv
<1>1. /\ probes \in Seq(Probe) /\ options \in OptionSets /\ num_replies \in Nat
      /\ raised \in Seq(Raised)
      /\ Shape(options, probes, raised, ttl, num_replies) /\ Verdict(probes, raised, data)
  BY DEF HopInv, TypeOK
<1>2. ASSUME NEW e \in Raised, raised' = raised \o <<e>>
      PROVE  \A f : HasIn(raised', f) <=> HasIn(raised, f) \/ f = e
  <2>1. <<e>> \in Seq(Raised) /\ \A f : HasIn(<<e>>, f) <=> f = e
    BY RaisedOne
  <2> QED
    BY <1>1, <1>2, <2>1, RaisedMore
<1>3. CASE HandleInit
  BY <1>3, InitHandledHopInv
<1>4. CASE HandleInitFails
  <2>1. /\ probes = << >> /\ UNCHANGED <<options, probes, ttl, num_replies, data>>
        /\ raised = << >> /\ raised' = raised \o <<"ERROR">>
    BY <1>4 DEF HandleInitFails, Initialised, Raise
  <2>2. \A f : HasIn(raised', f) <=> HasIn(raised, f) \/ f = "ERROR"
    BY <1>2, <2>1 DEF Raised
  <2>3. \A f : ~ HasIn(raised, f)
    BY <2>1, EmptySeq DEF HasIn
  <2>4. Cut(options, probes)
    <3>1. options.num_probes \in Nat \ {0}
      BY <1>1, OptionTypes
    <3>2. Len(probes) = 0 /\ Cardinality(WaitingIn(probes)) = 0
      BY <2>1, EmptySeq, FS_EmptySet DEF WaitingIn
    <3>3. 0 \in Nat /\ 0 \in 0 .. options.num_probes - 1 /\ Len(probes) = 0 * options.num_probes + 0
      BY <3>1, <3>2
    <3> QED
      BY <3>2, <3>3 DEF Cut
  <2>5. Shape(options, probes, raised', ttl, num_replies)
    BY <1>1, <2>1, <2>2, <2>4 DEF Shape
  <2>6. Verdict(probes, raised', data)
    BY <2>2, <2>3 DEF Verdict, Reasons
  <2> QED
    BY <2>1, <2>5, <2>6
<1>5. ASSUME NEW k \in 1 .. Len(probes), NEW a \in Answers, HandleAnswer(k, a)
      PROVE  /\ Shape(options', probes', raised', ttl', num_replies')
             /\ Verdict(probes', raised', data')
  BY <1>5, AnswerHopInv
<1>6. ASSUME NEW k \in 1 .. Len(probes), HandleAnswerWithoutData(k)
      PROVE  /\ Shape(options', probes', raised', ttl', num_replies')
             /\ Verdict(probes', raised', data')
  <2>1. UNCHANGED <<options, probes, raised, ttl, num_replies>> /\ data' = "fault"
    BY <1>6 DEF HandleAnswerWithoutData
  <2>2. Verdict(probes, raised, "fault")
    BY <1>1 DEF Verdict
  <2> QED
    BY <1>1, <2>1, <2>2
<1>7. ASSUME NEW k \in 1 .. Len(probes), Lose(k)
      PROVE  /\ Shape(options', probes', raised', ttl', num_replies')
             /\ Verdict(probes', raised', data')
  <2> DEFINE qs == [probes EXCEPT ![k].answer = "lost"]
  <2>1. /\ UNCHANGED <<options, raised, ttl, num_replies, data>>
        /\ probes' = qs /\ probes[k].answer = "none"
    BY <1>7 DEF Lose
  <2>2. qs \in Seq(Probe) /\ Len(qs) = Len(probes) /\ WaitingIn(qs) = WaitingIn(probes)
    <3>1. "lost" \in Answers \cup {"lost"}
      OBVIOUS
    <3>2. qs \in Seq(Probe) /\ Len(qs) = Len(probes)
      BY <1>1, <2>1, <3>1, AnswerSet
    <3>3. WaitingIn(qs) = WaitingIn(probes)
      BY <1>1, <2>1, <3>1, AnswerSet
    <3> QED
      BY <3>2, <3>3
  <2>3. \A i \in 1 .. Len(probes) : qs[i].ttl = probes[i].ttl
    BY <1>1, <2>1, AnswerSet
  <2> HIDE DEF qs
  <2>4. LastIn(qs) = LastIn(probes)
    <3>1. Len(probes) \in 1 .. Len(probes)
      BY <1>1, LenProperties
    <3> QED
      BY <2>2, <2>3, <3>1 DEF LastIn
  <2>5. Cardinality(WaitingIn(qs)) <= Cardinality(WaitingIn(probes))
    BY <1>1, <2>2, WaitingFinite
  <2>6. Shape(options, qs, raised, ttl, num_replies)
    BY <1>1, <2>2, <2>4, <2>5, ShapeStays
  <2>7. Verdict(qs, raised, data)
    BY <1>1, <2>2 DEF Verdict
  <2> QED
    BY <2>1, <2>6, <2>7
<1>8. CASE HandleTerm
  <2>1. /\ UNCHANGED <<options, probes, ttl, num_replies>> /\ data' = "none"
        /\ raised' = raised \o <<"HAS_TERMINATED">>
    BY <1>8 DEF HandleTerm, Raise
  <2>2. \A f : HasIn(raised', f) <=> HasIn(raised, f) \/ f = "HAS_TERMINATED"
    BY <1>2, <2>1 DEF Raised
  <2>3. Shape(options, probes, raised', ttl, num_replies)
    BY <1>1, <2>2 DEF Shape
  <2>4. Verdict(probes, raised', "none")
    BY <1>1, <2>2 DEF Verdict, Reasons
  <2> QED
    BY <2>1, <2>3, <2>4
<1>9. CASE UNCHANGED vars
  BY <1>1, <1>9 DEF vars
<1> QED
  BY <1>3, <1>4, <1>5, <1>6, <1>7, <1>8, <1>9 DEF Next

-----------------------------------------------------------------------------
(* The refinement *)

HopIn(ps) == IF ps = << >> THEN 0 ELSE LastIn(ps)

OutcomeIn(rs) ==
    IF \E r \in Reasons : HasIn(rs, r) THEN CHOOSE r \in Reasons : HasIn(rs, r)
    ELSE IF HasIn(rs, "ERROR") \/ HasIn(rs, "HAS_TERMINATED") THEN "aborted" ELSE "exploring"

LEMMA OutcomeValue ==
    ASSUME NEW rs, \A r, s \in Reasons : HasIn(rs, r) /\ HasIn(rs, s) => r = s
    PROVE  /\ \A r \in Reasons : HasIn(rs, r) => OutcomeIn(rs) = r
           /\ (\A r \in Reasons : ~ HasIn(rs, r)) =>
                 OutcomeIn(rs) = IF HasIn(rs, "ERROR") \/ HasIn(rs, "HAS_TERMINATED")
                                 THEN "aborted" ELSE "exploring"
<1>1. ASSUME NEW r \in Reasons, HasIn(rs, r) PROVE OutcomeIn(rs) = r
  <2> DEFINE c == CHOOSE x \in Reasons : HasIn(rs, x)
  <2>1. c \in Reasons /\ HasIn(rs, c)
    BY <1>1
  <2>2. OutcomeIn(rs) = c
    BY <1>1 DEF OutcomeIn
  <2> HIDE DEF c
  <2> QED
    BY <1>1, <2>1, <2>2
<1>2. ASSUME \A r \in Reasons : ~ HasIn(rs, r)
      PROVE  OutcomeIn(rs) = IF HasIn(rs, "ERROR") \/ HasIn(rs, "HAS_TERMINATED")
                             THEN "aborted" ELSE "exploring"
  BY <1>2 DEF OutcomeIn
<1> QED
  BY <1>1, <1>2

(* The variables of HopByHop, read in the state of the algorithm. *)
hopNow     == HopIn(probes)
waitingNow == Cardinality(WaitingIn(probes))
outcomeNow == OutcomeIn(raised)

LEMMA AbstractActions ==
    /\ Abstract!Init <=> hopNow = 0 /\ waitingNow = 0 /\ outcomeNow = "exploring"
    /\ Abstract!ExploreHop <=>
          /\ outcomeNow = "exploring" /\ waitingNow <= 1
          /\ hopNow' = (IF hopNow = 0 THEN options.min_ttl ELSE hopNow + 1)
          /\ hopNow' <= options.max_ttl
          /\ waitingNow' = options.num_probes
          /\ options' = options /\ outcomeNow' = outcomeNow
    /\ Abstract!Answer <=>
          /\ waitingNow > 0
          /\ outcomeNow = "exploring" => waitingNow > 1
          /\ waitingNow' = waitingNow - 1
          /\ options' = options /\ hopNow' = hopNow /\ outcomeNow' = outcomeNow
    /\ Abstract!Stop <=>
          /\ outcomeNow = "exploring" /\ waitingNow = 1 /\ waitingNow' = 0
          /\ outcomeNow' \in Reasons
          /\ outcomeNow' = "MAX_TTL_REACHED" => hopNow = options.max_ttl
          /\ options' = options /\ hopNow' = hopNow
    /\ Abstract!Abort <=>
          /\ outcomeNow = "exploring" /\ outcomeNow' = "aborted"
          /\ \/ hopNow' = hopNow /\ waitingNow' = waitingNow
             \/ /\ waitingNow <= 1
                /\ \/ hopNow' = hopNow
                   \/ hopNow' = (IF hopNow = 0 THEN options.min_ttl ELSE hopNow + 1)
                /\ waitingNow' < options.num_probes
                /\ waitingNow' \in Nat
          /\ options' = options
    /\ UNCHANGED Abstract!vars <=>
          options' = options /\ hopNow' = hopNow /\ waitingNow' = waitingNow /\ outcomeNow' = outcomeNow
<1>1. (IF probes = << >> THEN 0 ELSE LastTtl) = hopNow
  BY DEF hopNow, HopIn, LastTtl, LastIn
<1>2. Cardinality(Waiting) = waitingNow
  BY DEF waitingNow, Waiting, WaitingIn
<1>3. Outcome = outcomeNow
  BY DEF outcomeNow, Outcome, OutcomeIn, Has, HasIn
<1>4. (IF probes = << >> THEN 0 ELSE LastTtl)' = hopNow'
  BY DEF hopNow, HopIn, LastTtl, LastIn
<1>5. Cardinality(Waiting)' = waitingNow'
  BY DEF waitingNow, Waiting, WaitingIn
<1>6. Outcome' = outcomeNow'
  BY DEF outcomeNow, Outcome, OutcomeIn, Has, HasIn
<1>7. Abstract!Init <=> hopNow = 0 /\ waitingNow = 0 /\ outcomeNow = "exploring"
  BY <1>1, <1>2, <1>3 DEF Abstract!Init
<1>8. Abstract!ExploreHop <=>
          /\ outcomeNow = "exploring" /\ waitingNow <= 1
          /\ hopNow' = (IF hopNow = 0 THEN options.min_ttl ELSE hopNow + 1)
          /\ hopNow' <= options.max_ttl
          /\ waitingNow' = options.num_probes
          /\ options' = options /\ outcomeNow' = outcomeNow
  BY <1>1, <1>2, <1>3, <1>4, <1>5, <1>6, Zenon DEF Abstract!ExploreHop
<1>9. Abstract!Answer <=>
          /\ waitingNow > 0
          /\ outcomeNow = "exploring" => waitingNow > 1
          /\ waitingNow' = waitingNow - 1
          /\ options' = options /\ hopNow' = hopNow /\ outcomeNow' = outcomeNow
  BY <1>1, <1>2, <1>3, <1>4, <1>5, <1>6 DEF Abstract!Answer
<1>10. Abstract!Stop <=>
          /\ outcomeNow = "exploring" /\ waitingNow = 1 /\ waitingNow' = 0
          /\ outcomeNow' \in Reasons
          /\ outcomeNow' = "MAX_TTL_REACHED" => hopNow = options.max_ttl
          /\ options' = options /\ hopNow' = hopNow
  BY <1>1, <1>2, <1>3, <1>4, <1>5, <1>6 DEF Abstract!Stop, Abstract!Reasons, Reasons
<1>11. Abstract!Abort <=>
          /\ outcomeNow = "exploring" /\ outcomeNow' = "aborted"
          /\ \/ hopNow' = hopNow /\ waitingNow' = waitingNow
             \/ /\ waitingNow <= 1
                /\ \/ hopNow' = hopNow
                   \/ hopNow' = (IF hopNow = 0 THEN options.min_ttl ELSE hopNow + 1)
                /\ waitingNow' < options.num_probes
                /\ waitingNow' \in Nat
          /\ options' = options
  BY <1>1, <1>2, <1>3, <1>4, <1>5, <1>6 DEF Abstract!Abort
<1>12. UNCHANGED Abstract!vars <=>
          options' = options /\ hopNow' = hopNow /\ waitingNow' = waitingNow /\ outcomeNow' = outcomeNow
  BY <1>1, <1>2, <1>3, <1>4, <1>5, <1>6 DEF Abstract!vars
<1> QED
  BY <1>7, <1>8, <1>9, <1>10, <1>11, <1>12

(* An event without reason ends what was explored, and nothing else. *)
LEMMA Aborted ==
    ASSUME Verdict(probes, raised, data), Verdict(probes', raised', data'),
           NEW e \in {"ERROR", "HAS_TERMINATED"},
           \A f : HasIn(raised', f) <=> HasIn(raised, f) \/ f = e
    PROVE  \/ outcomeNow = "exploring" /\ outcomeNow' = "aborted"
           \/ outcomeNow' = outcomeNow
<1>1. \A r \in Reasons : HasIn(raised', r) <=> HasIn(raised, r)
  BY DEF Reasons
<1>2. CASE \E r \in Reasons : HasIn(raised, r)
  <2>1. PICK r \in Reasons : HasIn(raised, r)
    BY <1>2
  <2>2. outcomeNow = r
    BY <2>1, OutcomeValue DEF outcomeNow, Verdict
  <2>3. outcomeNow' = r
    BY <1>1, <2>1, OutcomeValue DEF outcomeNow, Verdict
  <2> QED
    BY <2>2, <2>3
<1>3. CASE \A r \in Reasons : ~ HasIn(raised, r)
  <2>1. outcomeNow = IF HasIn(raised, "ERROR") \/ HasIn(raised, "HAS_TERMINATED")
                     THEN "aborted" ELSE "exploring"
    BY <1>3, OutcomeValue DEF outcomeNow, Verdict
  <2>2. \A r \in Reasons : ~ HasIn(raised', r)
    BY <1>1, <1>3
  <2>3. outcomeNow' = IF HasIn(raised', "ERROR") \/ HasIn(raised', "HAS_TERMINATED")
                      THEN "aborted" ELSE "exploring"
    BY <2>2, OutcomeValue DEF outcomeNow, Verdict
  <2>4. HasIn(raised', "ERROR") \/ HasIn(raised', "HAS_TERMINATED")
    OBVIOUS
  <2> QED
    BY <2>1, <2>3, <2>4
<1> QED
  BY <1>2, <1>3

(* A hop explored at TTL t after hop hopNow, or begun and cut by an error. *)
LEMMA ExploredStep ==
    ASSUME NoWrap, TypeOK, Verdict(probes, raised, data), Verdict(probes', raised', data'),
           \A r \in Reasons : ~ HasIn(raised, r),
           ~ HasIn(raised, "ERROR"), ~ HasIn(raised, "HAS_TERMINATED"),
           waitingNow <= 1, options' = options,
           NEW sent \in Seq(Probe), HopIn(sent) = hopNow, WaitingIn(sent) = {},
           NEW h \in Nat, Len(sent) = h * options.num_probes,
           sent # << >> => LastIn(sent) \in options.min_ttl .. options.max_ttl,
           NEW t \in Ttls, t \in options.min_ttl .. options.max_ttl,
           t = (IF hopNow = 0 THEN options.min_ttl ELSE hopNow + 1), Explored(sent, t)
    PROVE  Abstract!Next
<1>1. options \in OptionSets /\ raised \in Seq(Raised) /\ options.num_probes \in Nat \ {0}
  BY OptionTypes DEF TypeOK
<1>2. outcomeNow = "exploring"
  BY OutcomeValue DEF outcomeNow, Verdict
<1>3. t <= options.max_ttl
  BY <1>1, OptionTypes
<1>4. CASE /\ raised' = raised
           /\ probes' # << >> /\ LastIn(probes') = t
           /\ Cardinality(WaitingIn(probes')) = options.num_probes
  <2>1. outcomeNow' = outcomeNow
    BY <1>4 DEF outcomeNow
  <2>2. hopNow' = t
    BY <1>4 DEF hopNow, HopIn
  <2>3. waitingNow' = options.num_probes
    BY <1>4 DEF waitingNow
  <2>4. hopNow' <= options.max_ttl
    BY <1>3, <2>2
  <2>5. hopNow' = (IF hopNow = 0 THEN options.min_ttl ELSE hopNow + 1)
    BY <2>2
  <2>6. Abstract!ExploreHop
    BY <1>2, <2>1, <2>3, <2>4, <2>5, AbstractActions
  <2> QED
    BY <2>6 DEF Abstract!Next
<1>5. CASE /\ \A e : HasIn(raised', e) <=> HasIn(raised, e) \/ e = "ERROR"
           /\ Cardinality(WaitingIn(probes')) \in 0 .. options.num_probes - 1
           /\ probes' = sent \/ (probes' # << >> /\ LastIn(probes') = t)
  <2>1. outcomeNow' = "aborted"
    <3>1. \A r \in Reasons : ~ HasIn(raised', r)
      BY <1>5 DEF Reasons
    <3>2. HasIn(raised', "ERROR")
      BY <1>5
    <3> QED
      BY <3>1, <3>2, OutcomeValue DEF outcomeNow, Verdict
  <2>2. hopNow' = hopNow \/ hopNow' = t
    BY <1>5 DEF hopNow, HopIn
  <2>3. waitingNow' < options.num_probes /\ waitingNow' \in Nat
    BY <1>1, <1>5 DEF waitingNow
  <2>4. hopNow' = hopNow \/ hopNow' = (IF hopNow = 0 THEN options.min_ttl ELSE hopNow + 1)
    BY <2>2
  <2>5. Abstract!Abort
    BY <1>2, <2>1, <2>3, <2>4, AbstractActions
  <2> QED
    BY <2>5 DEF Abstract!Next
<1> QED
  BY <1>1, <1>4, <1>5, HopExplored

LEMMA AnswerImplements ==
    ASSUME NoWrap, HopInv, HopInv', NEW k \in 1 .. Len(probes), NEW a \in Answers, HandleAnswer(k, a)
    PROVE  Abstract!Next
<1> DEFINE sent == Answered(k, a)
<1>1. /\ probes \in Seq(Probe) /\ options \in OptionSets /\ num_replies \in Nat /\ ttl \in Ttls
      /\ raised \in Seq(Raised) /\ TypeOK
      /\ Verdict(probes, raised, data) /\ Verdict(probes', raised', data')
  BY DEF HopInv, TypeOK
<1>2. sent \in Seq(Probe) /\ Len(sent) = Len(probes) /\ LastIn(sent) = LastIn(probes)
  BY AnswerFacts
<1>3. sent # << >> /\ probes # << >>
  BY AnswerFacts
<1>4. waitingNow \in Nat \ {0} /\ Cardinality(WaitingIn(sent)) = waitingNow - 1
  BY AnswerFacts DEF waitingNow
<1>5. (\A r \in Reasons : ~ HasIn(raised, r)) /\ ~ HasIn(raised, "HAS_TERMINATED")
  BY AnswerFacts
<1>6. HopIsOver(num_replies + 1) <=> ~ HasIn(raised, "ERROR") /\ waitingNow = 1
  BY AnswerFacts DEF waitingNow
<1>7. options' = options
  BY DEF HandleAnswer
<1>8. outcomeNow = IF HasIn(raised, "ERROR") THEN "aborted" ELSE "exploring"
  BY <1>1, <1>5, OutcomeValue DEF outcomeNow, Verdict
<1> HIDE DEF sent
<1>9. hopNow = LastIn(probes) /\ HopIn(sent) = hopNow
  BY <1>2, <1>3 DEF hopNow, HopIn
<1>10. LastIn(probes) \in options.min_ttl .. options.max_ttl
  BY <1>3 DEF HopInv, Shape
<1>11. CASE ~ HopIsOver(num_replies + 1)
  <2>1. probes' = sent /\ raised' = raised
    <3>1. raised \o << >> = raised
      BY <1>1, ConcatEmptySeq
    <3> QED
      BY <1>11, <3>1, AnswerSteps DEF sent
  <2>2. hopNow' = hopNow /\ waitingNow' = waitingNow - 1 /\ outcomeNow' = outcomeNow
    BY <1>4, <1>9, <2>1 DEF hopNow, waitingNow, outcomeNow
  <2>3. waitingNow > 0 /\ (outcomeNow = "exploring" => waitingNow > 1)
    BY <1>4, <1>6, <1>8, <1>11
  <2>4. Abstract!Answer
    BY <1>7, <2>2, <2>3, AbstractActions
  <2> QED
    BY <2>4 DEF Abstract!Next
<1>12. ASSUME HopIsOver(num_replies + 1) PROVE WaitingIn(sent) = {} /\ Whole(options, probes, ttl)
  BY <1>2, <1>4, <1>6, <1>12, WaitingFinite DEF HopInv, Shape
<1>13. ASSUME HopIsOver(num_replies + 1), NEW r \in Reasons, Concluded(k, a, r)
       PROVE  Abstract!Next
  <2>1. /\ probes' = sent /\ raised' = raised \o <<r, "HAS_TERMINATED">>
        /\ r = "MAX_TTL_REACHED" => LimitReached
    BY <1>13 DEF Concluded, sent
  <2>2. HasIn(raised', r)
    <3>1. r \in Raised /\ "HAS_TERMINATED" \in Raised
      BY DEF Raised
    <3>2. <<r, "HAS_TERMINATED">> \in Seq(Raised) /\ HasIn(<<r, "HAS_TERMINATED">>, r)
      BY <3>1, RaisedTwo
    <3> QED
      BY <1>1, <2>1, <3>2, RaisedMore
  <2>3. outcomeNow' = r
    BY <1>1, <2>2, OutcomeValue DEF outcomeNow, Verdict
  <2>4. hopNow' = hopNow /\ waitingNow' = waitingNow - 1
    BY <1>4, <1>9, <2>1 DEF hopNow, waitingNow
  <2>5. waitingNow = 1 /\ waitingNow' = 0 /\ outcomeNow = "exploring"
    BY <1>6, <1>8, <1>13, <2>4
  <2>6. LimitReached => hopNow = options.max_ttl
    <3>1. ttl = LastIn(probes) + 1
      BY <1>3, <1>12, <1>13 DEF Whole
    <3>2. options.min_ttl \in Nat /\ options.max_ttl \in Nat
      BY <1>1, OptionTypes
    <3> QED
      BY <1>9, <1>10, <3>1, <3>2 DEF LimitReached
  <2>7. Abstract!Stop
    BY <1>7, <2>1, <2>3, <2>4, <2>5, <2>6, AbstractActions
  <2> QED
    BY <2>7 DEF Abstract!Next
<1>14. ASSUME HopIsOver(num_replies + 1), ~ LimitReached, Explored(sent, ttl)
       PROVE  Abstract!Next
  <2>1. WaitingIn(sent) = {} /\ ~ HasIn(raised, "ERROR") /\ waitingNow <= 1
    BY <1>6, <1>12, <1>14
  <2>2. PICK h \in Nat : Len(sent) = h * options.num_probes
    BY <1>2, <1>12, <1>14 DEF Whole
  <2>3. options.min_ttl \in Nat \ {0} /\ options.max_ttl \in Nat
    BY <1>1, OptionTypes DEF Ttls
  <2>4. ttl = LastIn(probes) + 1
    BY <1>3, <1>12, <1>14 DEF Whole
  <2>5. ttl \in options.min_ttl .. options.max_ttl
    <3>1. ttl \in Nat /\ ttl <= options.max_ttl
      BY <1>1, <1>14, <2>3 DEF LimitReached, Ttls
    <3> QED
      BY <1>10, <2>3, <2>4, <3>1
  <2>6. ttl = (IF hopNow = 0 THEN options.min_ttl ELSE hopNow + 1)
    BY <1>9, <1>10, <2>3, <2>4
  <2>7. sent # << >> => LastIn(sent) \in options.min_ttl .. options.max_ttl
    BY <1>2, <1>10
  <2> QED
    BY <1>1, <1>2, <1>5, <1>7, <1>9, <1>14, <2>1, <2>2, <2>5, <2>6, <2>7, ExploredStep
<1> QED
  BY <1>11, <1>13, <1>14, AnswerSteps DEF sent

LEMMA InitImplements == Init => Abstract!Init
<1> SUFFICES ASSUME Init PROVE Abstract!Init
  OBVIOUS
<1>1. probes = << >> /\ raised = << >>
  BY DEF Init
<1>2. WaitingIn(probes) = {} /\ \A e : ~ HasIn(raised, e)
  BY <1>1, EmptySeq DEF WaitingIn, HasIn
<1>3. waitingNow = 0
  BY <1>2, FS_EmptySet DEF waitingNow
<1>4. hopNow = 0
  BY <1>1 DEF hopNow, HopIn
<1>5. outcomeNow = "exploring"
  BY <1>2 DEF outcomeNow, OutcomeIn
<1> QED
  BY <1>3, <1>4, <1>5, AbstractActions

LEMMA StepImplements ==
    NoWrap /\ HopInv /\ HopInv' /\ [Next]_vars => [Abstract!Next]_(Abstract!vars)
<1> SUFFICES ASSUME NoWrap, HopInv, HopInv', [Next]_vars
             PROVE  Abstract!Next \/ UNCHANGED Abstract!vars
  OBVIOUS
<1>1. /\ probes \in Seq(Probe) /\ options \in OptionSets
      /\ raised \in Seq(Raised) /\ TypeOK
      /\ Verdict(probes, raised, data) /\ Verdict(probes', raised', data')
  BY DEF HopInv, TypeOK
<1>2. ASSUME NEW e \in {"ERROR", "HAS_TERMINATED"}, raised' = raised \o <<e>>,
             options' = options, probes' = probes
      PROVE  Abstract!Next \/ UNCHANGED Abstract!vars
  <2>1. <<e>> \in Seq(Raised) /\ \A f : HasIn(<<e>>, f) <=> f = e
    BY RaisedOne DEF Raised
  <2>2. \A f : HasIn(raised', f) <=> HasIn(raised, f) \/ f = e
    BY <1>1, <1>2, <2>1, RaisedMore
  <2>3. hopNow' = hopNow /\ waitingNow' = waitingNow
    BY <1>2 DEF hopNow, waitingNow
  <2>4. \/ outcomeNow = "exploring" /\ outcomeNow' = "aborted"
        \/ outcomeNow' = outcomeNow
    BY <1>1, <2>2, Aborted
  <2>5. Abstract!Abort \/ UNCHANGED Abstract!vars
    BY <1>2, <2>3, <2>4, AbstractActions
  <2> QED
    BY <2>5 DEF Abstract!Next
<1>3. ASSUME UNCHANGED <<options, raised>>, hopNow' = hopNow, waitingNow' = waitingNow
      PROVE  UNCHANGED Abstract!vars
  <2>1. outcomeNow' = outcomeNow
    BY <1>3 DEF outcomeNow
  <2> QED
    BY <1>3, <2>1, AbstractActions
<1>4. CASE HandleInit
  <2> DEFINE none == << >>
  <2>1. /\ probes = none /\ raised = << >> /\ options' = options
        /\ options.min_ttl <= options.max_ttl
    BY <1>4 DEF HandleInit, Initialised
  <2>2. none \in Seq(Probe) /\ Len(none) = 0 /\ WaitingIn(none) = {} /\ HopIn(none) = 0
    BY EmptySeq DEF WaitingIn, HopIn
  <2>3. \A e : ~ HasIn(raised, e)
    BY <2>1, EmptySeq DEF HasIn
  <2>4. hopNow = 0 /\ waitingNow = 0
    BY <2>1, <2>2, FS_EmptySet DEF hopNow, waitingNow
  <2>5. /\ options.min_ttl \in Ttls /\ options.min_ttl \in options.min_ttl .. options.max_ttl
        /\ options.num_probes \in Nat
    BY <1>1, <2>1, OptionTypes
  <2>6. 0 \in Nat /\ Len(none) = 0 * options.num_probes
    BY <2>2, <2>5
  <2>7. Explored(none, options.min_ttl)
    BY <1>4, ExploreHopExplores DEF HandleInit
  <2>8. options.min_ttl = (IF hopNow = 0 THEN options.min_ttl ELSE hopNow + 1)
    BY <2>4
  <2>9. none # << >> => LastIn(none) \in options.min_ttl .. options.max_ttl
    OBVIOUS
  <2> HIDE DEF none
  <2>10. waitingNow <= 1 /\ HopIn(none) = hopNow
    BY <2>2, <2>4
  <2>11. Abstract!Next
    BY <1>1, <2>1, <2>2, <2>3, <2>5, <2>6, <2>7, <2>8, <2>9, <2>10, ExploredStep, Zenon
  <2> QED
    BY <2>11
<1>5. CASE HandleInitFails
  <2>1. raised' = raised \o <<"ERROR">> /\ options' = options /\ probes' = probes
    BY <1>5 DEF HandleInitFails, Raise
  <2> QED
    BY <1>2, <2>1
<1>6. ASSUME NEW k \in 1 .. Len(probes), NEW a \in Answers, HandleAnswer(k, a)
      PROVE  Abstract!Next
  BY <1>6, AnswerImplements
<1>7. ASSUME NEW k \in 1 .. Len(probes), HandleAnswerWithoutData(k)
      PROVE  UNCHANGED Abstract!vars
  <2>1. UNCHANGED <<options, probes, raised>>
    BY <1>7 DEF HandleAnswerWithoutData
  <2> QED
    BY <1>3, <2>1 DEF hopNow, waitingNow
<1>8. ASSUME NEW k \in 1 .. Len(probes), Lose(k)
      PROVE  UNCHANGED Abstract!vars
  <2> DEFINE qs == [probes EXCEPT ![k].answer = "lost"]
  <2>1. UNCHANGED <<options, raised>> /\ probes' = qs /\ probes[k].answer = "none"
    BY <1>8 DEF Lose
  <2>2. "lost" \in Answers \cup {"lost"}
    OBVIOUS
  <2>3. qs \in Seq(Probe) /\ Len(qs) = Len(probes)
    BY <1>1, <2>1, <2>2, AnswerSet
  <2>4. WaitingIn(qs) = WaitingIn(probes)
    BY <1>1, <2>1, <2>2, AnswerSet
  <2>5. \A i \in 1 .. Len(probes) : qs[i].ttl = probes[i].ttl
    BY <1>1, <2>1, AnswerSet
  <2> HIDE DEF qs
  <2>6. probes # << >> /\ qs # << >> /\ Len(probes) \in 1 .. Len(probes)
    BY <1>1, <2>3, LenProperties, EmptySeq
  <2>7. hopNow' = hopNow /\ waitingNow' = waitingNow
    BY <2>1, <2>3, <2>4, <2>5, <2>6 DEF hopNow, HopIn, LastIn, waitingNow
  <2> QED
    BY <1>3, <2>1, <2>7
<1>9. CASE HandleTerm
  <2>1. raised' = raised \o <<"HAS_TERMINATED">> /\ options' = options /\ probes' = probes
    BY <1>9 DEF HandleTerm, Raise
  <2> QED
    BY <1>2, <2>1
<1>10. CASE UNCHANGED vars
  BY <1>3, <1>10 DEF vars, hopNow, waitingNow
<1> QED
  BY <1>4, <1>5, <1>6, <1>7, <1>8, <1>9, <1>10 DEF Next

-----------------------------------------------------------------------------
(* The state of an instance is well typed, whatever the options: this needs
   no assumption on max_ttl, the uint8_t wraps within its type. *)
THEOREM TracerouteTyped == Spec => []TypeOK
<1> QED
  BY InitTypes, StepTypes, PTL DEF Spec

(* algorithms/traceroute.c does what traceroute.h promises: hop after hop, from
   min_ttl to max_ttl at most, the next one only when the last one is answered,
   and a verdict only then, for any options with max_ttl < 255. *)
THEOREM TracerouteRefines ==
    ASSUME NoWrap
    PROVE  Spec => ImplementsHopByHop
<1>1. Init => HopInv
  BY InitHopInv
<1>2. HopInv /\ [Next]_vars => HopInv'
  BY StepHopInv
<1>3. HopInv /\ HopInv' /\ [Next]_vars => [Abstract!Next]_(Abstract!vars)
  BY StepImplements
<1> QED
  BY <1>1, <1>2, <1>3, InitImplements, PTL DEF Spec, ImplementsHopByHop, Abstract!Spec

-----------------------------------------------------------------------------
(* The verdict *)

StarHopIn(ps, j) ==
    \A k \in 1 .. Len(ps) : ps[k].ttl = j => ps[k].answer = "star"

ReachedIn(ps) == \E k \in 1 .. Len(ps) : ps[k].answer = "destination"

(* The probes of TTL t that are answered have timed out. *)
OnlyStarsIn(ps, t) ==
    \A k \in 1 .. Len(ps) :
        ps[k].ttl = t /\ ps[k].answer \in Answers => ps[k].answer = "star"

StarsBehind(o, ps, nu) ==
    \A j \in LastIn(ps) - nu .. LastIn(ps) - 1 : j >= o.min_ttl /\ StarHopIn(ps, j)

(* The fields num_stars, num_undiscovered and destination_reached, given the
   probes and g, the number of them that are answered in the last hop. *)
Tally(o, ps, ns, nu, dr, g) ==
    /\ \A k \in 1 .. Len(ps) : ps[k].ttl <= LastIn(ps)
    /\ dr <=> ReachedIn(ps)
    /\ ns <= g
    /\ ns = g => OnlyStarsIn(ps, LastIn(ps))
    /\ ns < g => nu = 0
    /\ StarsBehind(o, ps, nu)

LEMMA ProbeTypes ==
    ASSUME NEW ps \in Seq(Probe), NEW k \in 1 .. Len(ps)
    PROVE  ps[k].ttl \in Nat /\ ps[k].ttl \in Int
<1>1. ps[k] \in Probe
  BY ElementOfSeq
<1> QED
  BY <1>1 DEF Probe, Ttls

(* An answer more, and one probe less to wait for. *)
LEMMA TallyAnswered ==
    ASSUME NEW o, NEW ps \in Seq(Probe), NEW k \in 1 .. Len(ps), ps[k].answer = "none",
           NEW a \in Answers, NEW ns \in Nat, NEW nu \in Nat, NEW dr \in BOOLEAN, NEW g \in Nat,
           Tally(o, ps, ns, nu, dr, g)
    PROVE  Tally(o, [ps EXCEPT ![k].answer = a], IF a = "star" THEN ns + 1 ELSE 0,
                 IF a = "star" THEN nu ELSE 0, dr \/ a = "destination", g + 1)
<1> DEFINE qs == [ps EXCEPT ![k].answer = a]
           ns2 == IF a = "star" THEN ns + 1 ELSE 0
           nu2 == IF a = "star" THEN nu ELSE 0
<1>1. qs \in Seq(Probe) /\ Len(qs) = Len(ps)
  BY AnswerSet
<1>2. \A i \in 1 .. Len(ps) : qs[i].ttl = ps[i].ttl
  BY AnswerSet
<1>3. \A i \in 1 .. Len(ps) : i # k => qs[i] = ps[i]
  BY AnswerSet
<1>4. qs[k].answer = a
  BY AnswerSet
<1> HIDE DEF qs
<1>5. LastIn(qs) = LastIn(ps)
  <2>1. Len(ps) \in 1 .. Len(ps)
    BY LenProperties
  <2> QED
    BY <1>1, <1>2, <2>1 DEF LastIn
<1>6. \A i \in 1 .. Len(qs) : qs[i].ttl <= LastIn(qs)
  BY <1>1, <1>2, <1>5 DEF Tally
<1>7. (dr \/ a = "destination") <=> ReachedIn(qs)
  <2>1. ReachedIn(ps) => ReachedIn(qs)
    BY <1>1, <1>3 DEF ReachedIn
  <2>2. a = "destination" => ReachedIn(qs)
    BY <1>1, <1>4 DEF ReachedIn
  <2>3. ReachedIn(qs) => ReachedIn(ps) \/ a = "destination"
    BY <1>1, <1>3, <1>4 DEF ReachedIn
  <2> QED
    BY <2>1, <2>2, <2>3 DEF Tally
<1>8. ns2 <= g + 1 /\ (ns2 = g + 1 => a = "star" /\ ns = g) /\ (ns2 < g + 1 => nu2 = 0)
  BY DEF Tally
<1>9. a = "star" /\ ns = g => OnlyStarsIn(qs, LastIn(qs))
  <2> SUFFICES ASSUME a = "star", ns = g PROVE OnlyStarsIn(qs, LastIn(qs))
    OBVIOUS
  <2>1. OnlyStarsIn(ps, LastIn(ps))
    BY DEF Tally
  <2> QED
    BY <1>1, <1>2, <1>3, <1>4, <1>5, <2>1 DEF OnlyStarsIn
<1>10. ASSUME NEW j, StarHopIn(ps, j) PROVE StarHopIn(qs, j)
  BY <1>1, <1>2, <1>3, <1>10 DEF StarHopIn
<1>11. StarsBehind(o, qs, nu2)
  <2>1. CASE a = "star"
    BY <1>5, <1>10, <2>1 DEF Tally, StarsBehind
  <2>2. CASE a # "star"
    <3>1. LastIn(ps) \in Int
      BY ProbeTypes, LenProperties DEF LastIn
    <3>2. LastIn(qs) - 0 .. LastIn(qs) - 1 = {}
      BY <1>5, <3>1
    <3>3. nu2 = 0
      BY <2>2
    <3> QED
      BY <3>2, <3>3 DEF StarsBehind
  <2> QED
    BY <2>1, <2>2
<1> QED
  BY <1>6, <1>7, <1>8, <1>9, <1>11 DEF Tally, qs

(* A probe is lost: nobody is told, and it stays in the way. *)
LEMMA TallyLost ==
    ASSUME NEW o, NEW ps \in Seq(Probe), NEW k \in 1 .. Len(ps), ps[k].answer = "none",
           NEW ns \in Nat, NEW nu \in Nat, NEW dr \in BOOLEAN, NEW g \in Int, Tally(o, ps, ns, nu, dr, g)
    PROVE  Tally(o, [ps EXCEPT ![k].answer = "lost"], ns, nu, dr, g)
<1> DEFINE qs == [ps EXCEPT ![k].answer = "lost"]
<1>1. qs \in Seq(Probe) /\ Len(qs) = Len(ps)
  BY AnswerSet
<1>2. \A i \in 1 .. Len(ps) : qs[i].ttl = ps[i].ttl
  BY AnswerSet
<1>3. \A i \in 1 .. Len(ps) : i # k => qs[i] = ps[i]
  BY AnswerSet
<1>4. qs[k].answer = "lost"
  BY AnswerSet
<1> HIDE DEF qs
<1>5. LastIn(qs) = LastIn(ps)
  <2>1. Len(ps) \in 1 .. Len(ps)
    BY LenProperties
  <2> QED
    BY <1>1, <1>2, <2>1 DEF LastIn
<1>6. \A i \in 1 .. Len(qs) : qs[i].ttl <= LastIn(qs)
  BY <1>1, <1>2, <1>5 DEF Tally
<1>7. ReachedIn(ps) <=> ReachedIn(qs)
  <2>1. ReachedIn(ps) => ReachedIn(qs)
    BY <1>1, <1>3 DEF ReachedIn
  <2>2. ReachedIn(qs) => ReachedIn(ps)
    BY <1>1, <1>3, <1>4 DEF ReachedIn
  <2> QED
    BY <2>1, <2>2
<1>8. OnlyStarsIn(ps, LastIn(ps)) => OnlyStarsIn(qs, LastIn(qs))
  BY <1>1, <1>2, <1>3, <1>4, <1>5 DEF OnlyStarsIn, Answers
<1>9. StarsBehind(o, qs, nu)
  <2>1. ASSUME NEW j, StarHopIn(ps, j) PROVE StarHopIn(qs, j)
    BY <1>1, <1>2, <1>3, <2>1 DEF StarHopIn
  <2> QED
    BY <1>5, <2>1 DEF Tally, StarsBehind
<1> QED
  BY <1>6, <1>7, <1>8, <1>9 DEF Tally, qs

(* The next hop: a hop of stars more behind, if the last one was. *)
LEMMA TallyHop ==
    ASSUME NEW o \in OptionSets, NEW ps \in Seq(Probe), ps # << >>, WaitingIn(ps) = {},
           LastIn(ps) + 1 \in Ttls, LastIn(ps) >= o.min_ttl,
           NEW ns \in Nat, NEW nu \in Nat, NEW dr \in BOOLEAN,
           Tally(o, ps, ns, nu, dr, o.num_probes)
    PROVE  Tally(o, ps \o Hop(o.num_probes, LastIn(ps) + 1), 0,
                 nu + (IF ns = o.num_probes THEN 1 ELSE 0), dr, 0)
<1> DEFINE N == o.num_probes
           t == LastIn(ps) + 1
           qs == ps \o Hop(N, t)
           nu2 == nu + (IF ns = N THEN 1 ELSE 0)
<1>1. N \in Nat /\ N > 0 /\ LastIn(ps) \in Int /\ Len(ps) \in Nat /\ o.min_ttl \in Nat
  <2>1. Len(ps) \in 1 .. Len(ps)
    BY LenProperties, EmptySeq
  <2> QED
    BY <2>1, OptionTypes, ProbeTypes, LenProperties DEF LastIn
<1>2. t \in Ttls
  OBVIOUS
<1> HIDE DEF t, N
<1>3. Len(qs) = Len(ps) + N /\ \A i \in 1 .. Len(ps) : qs[i] = ps[i]
  BY <1>1, <1>2, HopAdded
<1>4. \A i \in Len(ps) + 1 .. Len(ps) + N : qs[i].ttl = t /\ qs[i].answer = "none"
  BY <1>1, <1>2, HopNew
<1>5. LastIn(qs) = t
  BY <1>1, <1>2, HopLast
<1> HIDE DEF qs
<1>6. \A i \in 1 .. Len(qs) : i \in 1 .. Len(ps) \/ i \in Len(ps) + 1 .. Len(ps) + N
  BY <1>1, <1>3
<1>7. \A i \in 1 .. Len(ps) : i \in 1 .. Len(qs)
  BY <1>1, <1>3
<1>8. \A i \in 1 .. Len(ps) : ps[i].ttl \in Int /\ ps[i].ttl <= LastIn(ps)
  BY ProbeTypes DEF Tally
<1>9. t = LastIn(ps) + 1 /\ t \in Int
  BY <1>1 DEF t
<1>10. \A i \in 1 .. Len(qs) : qs[i].ttl <= LastIn(qs)
  <2> SUFFICES ASSUME NEW i \in 1 .. Len(qs) PROVE qs[i].ttl <= t
    BY <1>5
  <2>1. CASE i \in 1 .. Len(ps)
    <3>1. qs[i].ttl \in Int /\ qs[i].ttl <= LastIn(ps)
      BY <1>3, <1>8, <2>1
    <3> QED
      BY <1>1, <1>9, <3>1
  <2>2. CASE i \in Len(ps) + 1 .. Len(ps) + N
    BY <1>4, <1>9, <2>2
  <2> QED
    BY <1>6, <2>1, <2>2
<1>11. dr <=> ReachedIn(qs)
  <2>1. ReachedIn(ps) => ReachedIn(qs)
    BY <1>3, <1>7 DEF ReachedIn
  <2>2. ReachedIn(qs) => ReachedIn(ps)
    BY <1>3, <1>4, <1>6 DEF ReachedIn
  <2> QED
    BY <2>1, <2>2 DEF Tally
<1>12. OnlyStarsIn(qs, LastIn(qs))
  <2> SUFFICES ASSUME NEW i \in 1 .. Len(qs), qs[i].ttl = t PROVE qs[i].answer \notin Answers
    BY <1>5 DEF OnlyStarsIn
  <2>1. i \notin 1 .. Len(ps)
    <3> SUFFICES ASSUME i \in 1 .. Len(ps) PROVE FALSE
      OBVIOUS
    <3>1. ps[i].ttl = t
      BY <1>3
    <3> QED
      BY <1>1, <1>8, <1>9, <3>1
  <2> QED
    BY <1>4, <1>6, <2>1 DEF Answers
<1>13. ASSUME NEW j \in Int, j <= LastIn(ps), StarHopIn(ps, j) PROVE StarHopIn(qs, j)
  <2> SUFFICES ASSUME NEW i \in 1 .. Len(qs), qs[i].ttl = j PROVE qs[i].answer = "star"
    BY DEF StarHopIn
  <2>1. j # t
    BY <1>1, <1>9, <1>13
  <2>2. i \in 1 .. Len(ps)
    BY <1>4, <1>6, <2>1
  <2> QED
    BY <1>3, <1>13, <2>2 DEF StarHopIn
<1>14. ns = N => StarHopIn(ps, LastIn(ps))
  <2> SUFFICES ASSUME ns = N PROVE StarHopIn(ps, LastIn(ps))
    OBVIOUS
  <2>1. OnlyStarsIn(ps, LastIn(ps))
    BY DEF Tally, N
  <2>2. \A i \in 1 .. Len(ps) : ps[i].answer \in Answers
    BY DEF WaitingIn
  <2> QED
    BY <2>1, <2>2 DEF OnlyStarsIn, StarHopIn
<1>15. StarsBehind(o, qs, nu2)
  <2> SUFFICES ASSUME NEW j \in t - nu2 .. t - 1 PROVE j >= o.min_ttl /\ StarHopIn(qs, j)
    BY <1>5 DEF StarsBehind
  <2>1. j \in Int /\ j <= LastIn(ps) /\ t - nu2 <= j
    BY <1>1, <1>9
  <2>2. CASE ns = N
    <3>1. j = LastIn(ps) \/ j \in LastIn(ps) - nu .. LastIn(ps) - 1
      BY <1>1, <1>9, <2>1, <2>2
    <3>2. j >= o.min_ttl /\ StarHopIn(ps, j)
      BY <1>14, <2>2, <3>1 DEF Tally, StarsBehind
    <3> QED
      BY <1>13, <2>1, <3>2
  <2>3. CASE ns # N
    <3>1. nu = 0
      BY <1>1, <2>3 DEF Tally, N
    <3> QED
      BY <1>1, <1>9, <2>1, <2>3, <3>1
  <2> QED
    BY <2>2, <2>3
<1> QED
  BY <1>10, <1>11, <1>12, <1>15 DEF Tally, qs, t, N

-----------------------------------------------------------------------------
(* The invariant: the tally while answers are to come, the verdict then. *)

DueIn(o, ps) ==
    IF ReachedIn(ps) THEN "DESTINATION_REACHED"
    ELSE IF LastIn(ps) = o.max_ttl THEN "MAX_TTL_REACHED"
    ELSE IF \A j \in LastIn(ps) - o.max_undiscovered + 1 .. LastIn(ps) :
               j >= o.min_ttl /\ StarHopIn(ps, j)
    THEN "TOO_MANY_STARS" ELSE "none"

Concluding(o, ps, rs) ==
    DueIn(o, ps) # "none" /\ \A r \in Reasons : HasIn(rs, r) <=> r = DueIn(o, ps)

AnsweredInHop(o, ps) == o.num_probes - Cardinality(WaitingIn(ps))

TallyInv(o, ps, rs, ns, nu, dr) ==
    /\ ps = << >> => dr = FALSE /\ nu = 0
    /\ ~ HasIn(rs, "ERROR") /\ ps # << >> =>
          IF WaitingIn(ps) = {} THEN Concluding(o, ps, rs)
          ELSE Tally(o, ps, ns, nu, dr, AnsweredInHop(o, ps))

VerdictInv ==
    HopInv /\ TallyInv(options, probes, raised, num_stars, num_undiscovered, destination_reached)

LEMMA VerdictIsRight == VerdictInv => RightVerdict
<1> SUFFICES ASSUME VerdictInv, ~ Has("ERROR"), probes # << >>
             PROVE  IF Waiting = {} THEN Due # "none" /\ \A r \in Reasons : Has(r) <=> r = Due
                    ELSE \A r \in Reasons : ~ Has(r)
  BY DEF RightVerdict
<1>1. \A e : Has(e) <=> HasIn(raised, e)
  BY DEF Has, HasIn
<1>2. Waiting = WaitingIn(probes)
  BY DEF Waiting, WaitingIn
<1>3. Due = DueIn(options, probes)
  BY DEF Due, DueIn, ReachedIn, LastTtl, LastIn, StarHop, StarHopIn
<1>4. CASE Waiting = {}
  BY <1>1, <1>2, <1>3, <1>4 DEF VerdictInv, TallyInv, Concluding
<1>5. CASE Waiting # {}
  BY <1>1, <1>2, <1>5 DEF VerdictInv, HopInv, Verdict
<1> QED
  BY <1>4, <1>5

(* What the answer that ends a hop makes of the counters, and why the
   exploration stops, if it does. *)
LEMMA LastAnswer ==
    ASSUME NEW k \in 1 .. Len(probes), NEW a \in Answers, HandleAnswer(k, a),
           HopIsOver(num_replies + 1)
    PROVE  \/ /\ destination_reached'
              /\ Concluded(k, a, "DESTINATION_REACHED")
           \/ /\ ~ destination_reached' /\ LimitReached
              /\ Concluded(k, a, "MAX_TTL_REACHED")
           \/ /\ ~ destination_reached' /\ ~ LimitReached
              /\ num_undiscovered' = UndiscoveredAfter(a)
                     + (IF StarsAfter(a) = options.num_probes THEN 1 ELSE 0)
              /\ \/ /\ StarsAfter(a) = options.num_probes
                    /\ num_undiscovered' = options.max_undiscovered
                    /\ Concluded(k, a, "TOO_MANY_STARS")
                 \/ Explored(Answered(k, a), ttl) /\ num_stars' = 0
<1>1. num_replies' = num_replies + 1
  BY DEF HandleAnswer
<1> QED
  BY <1>1, ExploreHopExplores DEF HandleAnswer, Raise, Answered, Concluded

LEMMA EarlyAnswer ==
    ASSUME NEW k \in 1 .. Len(probes), NEW a \in Answers, HandleAnswer(k, a),
           ~ HopIsOver(num_replies + 1)
    PROVE  /\ num_stars' = StarsAfter(a) /\ num_undiscovered' = UndiscoveredAfter(a)
           /\ probes' = Answered(k, a) /\ raised' = raised \o << >>
<1>1. num_replies' = num_replies + 1
  BY DEF HandleAnswer
<1> QED
  BY <1>1 DEF HandleAnswer, Raise, Answered

LEMMA AnswerVerdict ==
    ASSUME NoWrap, VerdictInv, HopInv', NEW k \in 1 .. Len(probes), NEW a \in Answers,
           HandleAnswer(k, a)
    PROVE  TallyInv(options', probes', raised', num_stars', num_undiscovered', destination_reached')
<1> DEFINE w == Cardinality(WaitingIn(probes))
           N == options.num_probes
           sent == Answered(k, a)
           dr2 == destination_reached \/ a = "destination"
<1>1. /\ HopInv /\ probes \in Seq(Probe) /\ options \in OptionSets /\ ttl \in Ttls
      /\ raised \in Seq(Raised) /\ num_stars \in Nat /\ num_undiscovered \in Nat
      /\ destination_reached \in BOOLEAN
  BY DEF VerdictInv, HopInv, TypeOK
<1>2. sent \in Seq(Probe) /\ LastIn(sent) = LastIn(probes)
  BY <1>1, AnswerFacts
<1>3. sent # << >> /\ probes # << >> /\ WaitingIn(probes) # {}
  BY <1>1, AnswerFacts
<1>4. w \in Nat \ {0} /\ Cardinality(WaitingIn(sent)) = w - 1
  BY <1>1, AnswerFacts
<1>5. HopIsOver(num_replies + 1) <=> ~ HasIn(raised, "ERROR") /\ w = 1
  BY <1>1, AnswerFacts
<1>6. /\ options' = options /\ destination_reached' = dr2 /\ probes[k].answer = "none"
      /\ \A r \in Reasons : ~ HasIn(raised, r)
  BY <1>1, AnswerFacts DEF HandleAnswer
<1>7. StarsAfter(a) \in Nat /\ UndiscoveredAfter(a) \in Nat /\ dr2 \in BOOLEAN /\ N \in Nat \ {0}
  BY <1>1, OptionTypes DEF StarsAfter, UndiscoveredAfter
<1>8. ASSUME ~ HasIn(raised, "ERROR")
      PROVE  Tally(options, sent, StarsAfter(a), UndiscoveredAfter(a), dr2, N - (w - 1))
  <2>1. w <= N
    BY <1>1, <1>8 DEF HopInv, Shape, Whole
  <2>2. N - w \in Nat /\ (N - w) + 1 = N - (w - 1)
    BY <1>4, <1>7, <2>1
  <2>3. Tally(options, probes, num_stars, num_undiscovered, destination_reached, N - w)
    BY <1>3, <1>8 DEF VerdictInv, TallyInv, AnsweredInHop
  <2> HIDE DEF w, N
  <2>4. Tally(options, sent, StarsAfter(a), UndiscoveredAfter(a), dr2, (N - w) + 1)
    BY <1>1, <1>6, <2>2, <2>3, TallyAnswered DEF StarsAfter, UndiscoveredAfter, Answered
  <2> QED
    BY <2>2, <2>4
<1> HIDE DEF w, sent, dr2
<1>9. CASE ~ HopIsOver(num_replies + 1)
  <2>1. raised' = raised /\ probes' = sent
    <3>1. raised \o << >> = raised
      BY <1>1, ConcatEmptySeq
    <3> QED
      BY <1>9, <3>1, EarlyAnswer DEF sent
  <2>2. num_stars' = StarsAfter(a) /\ num_undiscovered' = UndiscoveredAfter(a)
    BY <1>9, EarlyAnswer
  <2>3. ASSUME ~ HasIn(raised, "ERROR")
        PROVE  WaitingIn(sent) # {}
    <3>1. Cardinality(WaitingIn(sent)) # 0
      BY <1>4, <1>5, <1>9, <2>3
    <3> QED
      BY <1>2, <3>1, WaitingFinite
  <2>4. AnsweredInHop(options, sent) = N - (w - 1)
    BY <1>4 DEF AnsweredInHop
  <2> HIDE DEF N
  <2> QED
    BY <1>3, <1>6, <1>8, <2>1, <2>2, <2>3, <2>4 DEF TallyInv
<1>10. ASSUME HopIsOver(num_replies + 1)
       PROVE  /\ WaitingIn(sent) = {} /\ ~ HasIn(raised, "ERROR")
              /\ Tally(options, sent, StarsAfter(a), UndiscoveredAfter(a), dr2, N)
              /\ LastIn(sent) + 1 = ttl /\ LastIn(sent) \in options.min_ttl .. options.max_ttl
  <2>1. ~ HasIn(raised, "ERROR") /\ w = 1 /\ N - (w - 1) = N
    BY <1>5, <1>7, <1>10
  <2>2. WaitingIn(sent) = {}
    BY <1>2, <1>4, <2>1, WaitingFinite
  <2>3. LastIn(sent) + 1 = ttl /\ LastIn(sent) \in options.min_ttl .. options.max_ttl
    BY <1>1, <1>2, <1>3, <2>1 DEF HopInv, Shape, Whole
  <2> QED
    BY <1>8, <2>1, <2>2, <2>3
<1>11. ASSUME HopIsOver(num_replies + 1), NEW r \in Reasons, Concluded(k, a, r),
              DueIn(options, sent) = r
       PROVE  TallyInv(options', probes', raised', num_stars', num_undiscovered', destination_reached')
  <2>1. probes' = sent /\ raised' = raised \o <<r, "HAS_TERMINATED">>
    BY <1>11 DEF Concluded, sent
  <2>2. \A e : HasIn(raised', e) <=> HasIn(raised, e) \/ e = r \/ e = "HAS_TERMINATED"
    <3>1. r \in Raised /\ "HAS_TERMINATED" \in Raised
      BY DEF Raised
    <3>2. /\ <<r, "HAS_TERMINATED">> \in Seq(Raised)
          /\ \A e : HasIn(<<r, "HAS_TERMINATED">>, e) <=> e = r \/ e = "HAS_TERMINATED"
      BY <3>1, RaisedTwo
    <3> QED
      BY <1>1, <2>1, <3>2, RaisedMore
  <2>3. Concluding(options, sent, raised')
    BY <1>6, <1>11, <2>2 DEF Concluding, Reasons
  <2> QED
    BY <1>3, <1>6, <1>10, <1>11, <2>1, <2>3 DEF TallyInv
<1>12. ASSUME HopIsOver(num_replies + 1), ~ destination_reached', ~ LimitReached
       PROVE  /\ ~ ReachedIn(sent) /\ LastIn(sent) # options.max_ttl
              /\ LastIn(sent) \in Int /\ options.min_ttl \in Nat /\ options.max_ttl \in Nat
  <2>1. ~ ReachedIn(sent)
    BY <1>6, <1>10, <1>12 DEF Tally
  <2>2. options.min_ttl \in Nat /\ options.max_ttl \in Nat
    BY <1>1, OptionTypes
  <2> QED
    BY <1>10, <1>12, <2>1, <2>2 DEF LimitReached
<1>13. CASE HopIsOver(num_replies + 1) /\ destination_reached' /\ Concluded(k, a, "DESTINATION_REACHED")
  <2>1. DueIn(options, sent) = "DESTINATION_REACHED"
    BY <1>6, <1>10, <1>13 DEF DueIn, Tally
  <2> QED
    BY <1>11, <1>13, <2>1 DEF Reasons
<1>14. CASE /\ HopIsOver(num_replies + 1) /\ ~ destination_reached' /\ LimitReached
            /\ Concluded(k, a, "MAX_TTL_REACHED")
  <2>1. LastIn(sent) = options.max_ttl
    <3>1. options.min_ttl \in Nat /\ options.max_ttl \in Nat
      BY <1>1, OptionTypes
    <3> QED
      BY <1>10, <1>14, <3>1 DEF LimitReached
  <2>2. ~ ReachedIn(sent)
    BY <1>6, <1>10, <1>14 DEF Tally
  <2>3. DueIn(options, sent) = "MAX_TTL_REACHED"
    BY <2>1, <2>2 DEF DueIn
  <2> QED
    BY <1>11, <1>14, <2>3 DEF Reasons
<1>15. CASE /\ HopIsOver(num_replies + 1) /\ ~ destination_reached' /\ ~ LimitReached
            /\ StarsAfter(a) = options.num_probes
            /\ UndiscoveredAfter(a) + 1 = options.max_undiscovered
            /\ Concluded(k, a, "TOO_MANY_STARS")
  <2> DEFINE last == LastIn(sent)
             mu == options.max_undiscovered
  <2>1. StarHopIn(sent, last)
    <3>1. OnlyStarsIn(sent, last)
      BY <1>10, <1>15 DEF Tally
    <3>2. \A i \in 1 .. Len(sent) : sent[i].answer \in Answers
      BY <1>10, <1>15 DEF WaitingIn
    <3> QED
      BY <3>1, <3>2 DEF OnlyStarsIn, StarHopIn
  <2>2. \A j \in last - UndiscoveredAfter(a) .. last - 1 : j >= options.min_ttl /\ StarHopIn(sent, j)
    BY <1>10, <1>15 DEF Tally, StarsBehind
  <2>3. mu \in Nat /\ last \in Int /\ last >= options.min_ttl
    BY <1>1, <1>10, <1>12, <1>15, OptionTypes
  <2>4. mu = UndiscoveredAfter(a) + 1
    BY <1>15
  <2> HIDE DEF last, mu
  <2>5. ASSUME NEW j \in last - mu + 1 .. last
        PROVE  j >= options.min_ttl /\ StarHopIn(sent, j)
    <3>1. j = last \/ j \in last - UndiscoveredAfter(a) .. last - 1
      BY <1>7, <2>3, <2>4
    <3> QED
      BY <2>1, <2>2, <2>3, <3>1
  <2>6. DueIn(options, sent) = "TOO_MANY_STARS"
    BY <1>12, <1>15, <2>5 DEF DueIn, last, mu
  <2> QED
    BY <1>11, <1>15, <2>6 DEF Reasons
<1>16. CASE /\ HopIsOver(num_replies + 1) /\ ~ destination_reached' /\ ~ LimitReached
            /\ num_undiscovered' = UndiscoveredAfter(a)
                     + (IF StarsAfter(a) = options.num_probes THEN 1 ELSE 0)
            /\ Explored(sent, ttl) /\ num_stars' = 0
  <2>1. CASE probes' = sent \o Hop(options.num_probes, ttl) /\ raised' = raised
    <3>1. Tally(options, probes', 0, num_undiscovered', dr2, 0)
      <4>1. LastIn(sent) + 1 \in Ttls /\ LastIn(sent) >= options.min_ttl
        BY <1>1, <1>10, <1>12, <1>16
      <4>2. /\ WaitingIn(sent) = {}
            /\ Tally(options, sent, StarsAfter(a), UndiscoveredAfter(a), dr2, options.num_probes)
            /\ ttl = LastIn(sent) + 1
        BY <1>10, <1>16
      <4> QED
        BY <1>1, <1>2, <1>3, <1>7, <1>16, <2>1, <4>1, <4>2, TallyHop
    <3>2. /\ Cardinality(WaitingIn(probes')) = N /\ WaitingIn(probes') # {}
          /\ probes' # << >>
      <4>1. WaitingIn(sent) = {} /\ N \in Nat /\ N > 0
        BY <1>7, <1>10, <1>16
      <4>2. probes' = sent \o Hop(N, ttl)
        BY <2>1
      <4> HIDE DEF N
      <4>3. Cardinality(WaitingIn(probes')) = N
        BY <1>1, <1>2, <4>1, <4>2, HopWaits
      <4>4. probes' # << >>
        BY <1>1, <1>2, <4>1, <4>2, HopLast
      <4>5. probes' \in Seq(Probe)
        BY DEF HopInv, TypeOK
      <4> QED
        BY <4>1, <4>3, <4>4, <4>5, WaitingFinite
    <3>3. AnsweredInHop(options, probes') = 0
      BY <1>7, <3>2 DEF AnsweredInHop
    <3> QED
      BY <1>6, <1>16, <3>1, <3>2, <3>3 DEF TallyInv
  <2>2. ASSUME NEW n \in 0 .. N - 1, probes' = sent \o Hop(n, ttl), raised' = raised \o <<"ERROR">>
        PROVE  TallyInv(options', probes', raised', num_stars', num_undiscovered', destination_reached')
    <3>1. HasIn(raised', "ERROR")
      <4>1. "ERROR" \in Raised
        BY DEF Raised
      <4>2. <<"ERROR">> \in Seq(Raised) /\ HasIn(<<"ERROR">>, "ERROR")
        BY <4>1, RaisedOne
      <4> QED
        BY <1>1, <2>2, <4>2, RaisedMore
    <3>2. probes' # << >>
      <4>1. n \in Nat
        BY <1>7
      <4>2. n = 0 => probes' = sent
        BY <1>1, <1>2, <1>10, <1>16, <2>2, <4>1, NoHop
      <4>3. n > 0 => probes' # << >>
        BY <1>1, <1>2, <1>10, <1>16, <2>2, <4>1, HopLast
      <4> QED
        BY <1>3, <4>1, <4>2, <4>3
    <3> QED
      BY <3>1, <3>2 DEF TallyInv
  <2> QED
    BY <1>16, <2>1, <2>2 DEF Explored
<1> QED
  BY <1>9, <1>13, <1>14, <1>15, <1>16, LastAnswer DEF sent

LEMMA InitVerdict == Init => VerdictInv
<1> SUFFICES ASSUME Init PROVE VerdictInv
  OBVIOUS
<1>1. HopInv
  BY InitHopInv
<1>2. probes = << >> /\ destination_reached = FALSE /\ num_undiscovered = 0
  BY DEF Init
<1> QED
  BY <1>1, <1>2 DEF VerdictInv, TallyInv

LEMMA FirstHopVerdict ==
    ASSUME NoWrap, VerdictInv, HopInv', HandleInit
    PROVE  TallyInv(options', probes', raised', num_stars', num_undiscovered', destination_reached')
<1> DEFINE none == << >>
           t == options.min_ttl
           N == options.num_probes
<1>1. /\ options \in OptionSets /\ raised \in Seq(Raised) /\ probes' \in Seq(Probe)
      /\ probes = none /\ options' = options /\ num_stars' = 0
      /\ destination_reached' = FALSE /\ num_undiscovered' = 0 /\ Explored(none, t)
  BY ExploreHopExplores DEF VerdictInv, TallyInv, HopInv, TypeOK, HandleInit, Initialised
<1>2. t \in Ttls /\ N \in Nat /\ N > 0
  BY <1>1, OptionTypes
<1>3. none \in Seq(Probe) /\ WaitingIn(none) = {} /\ Len(none) = 0
  BY EmptySeq DEF WaitingIn
<1> HIDE DEF none, t, N
<1>4. CASE probes' = none \o Hop(N, t)
  <2>1. probes' # << >> /\ LastIn(probes') = t
    BY <1>2, <1>3, <1>4, HopLast
  <2>2. Cardinality(WaitingIn(probes')) = N
    BY <1>2, <1>3, <1>4, HopWaits
  <2>3. WaitingIn(probes') # {}
    BY <1>1, <1>2, <2>2, WaitingFinite
  <2>4. Len(probes') = N
    <3>1. Len(probes') = Len(none) + N
      BY <1>2, <1>3, <1>4, HopLength
    <3> QED
      BY <1>2, <1>3, <3>1
  <2>5. \A i \in 1 .. N : probes'[i].ttl = t /\ probes'[i].answer = "none"
    <3>1. \A i \in Len(none) + 1 .. Len(none) + N : probes'[i].ttl = t /\ probes'[i].answer = "none"
      <4>1. PICK h \in Ttls, l \in Nat : h = t /\ l = N
        BY ONLY <1>2
      <4>2. \A i \in Len(none) + 1 .. Len(none) + l :
              (none \o Hop(l, h))[i].ttl = h /\ (none \o Hop(l, h))[i].answer = "none"
        BY ONLY <1>3, HopNew
      <4> QED
        BY ONLY <1>4, <4>1, <4>2
    <3>2. Len(none) + 1 = 1 /\ Len(none) + N = N
      BY <1>2, <1>3
    <3> QED
      BY <3>1, <3>2
  <2>6. AnsweredInHop(options, probes') = 0
    BY <1>2, <2>2 DEF AnsweredInHop, N
  <2>7. t \in Int /\ t <= t /\ t - 0 .. t - 1 = {}
    BY <1>2 DEF Ttls
  <2>8. Tally(options, probes', 0, 0, FALSE, 0)
    <3>1. \A i \in 1 .. Len(probes') : probes'[i].ttl <= LastIn(probes')
      BY <2>1, <2>4, <2>5, <2>7
    <3>2. ~ ReachedIn(probes')
      BY <2>4, <2>5 DEF ReachedIn
    <3>3. OnlyStarsIn(probes', LastIn(probes'))
      BY <2>4, <2>5 DEF OnlyStarsIn, Answers
    <3>4. StarsBehind(options, probes', 0)
      BY <2>1, <2>7 DEF StarsBehind
    <3> QED
      BY <3>1, <3>2, <3>3, <3>4 DEF Tally
  <2> QED
    BY <1>1, <2>1, <2>3, <2>6, <2>8 DEF TallyInv
<1>5. CASE raised' = raised \o <<"ERROR">>
  <2>1. HasIn(raised', "ERROR")
    <3>1. "ERROR" \in Raised
      BY DEF Raised
    <3>2. <<"ERROR">> \in Seq(Raised) /\ HasIn(<<"ERROR">>, "ERROR")
      BY <3>1, RaisedOne
    <3> QED
      BY <1>1, <1>5, <3>2, RaisedMore
  <2> QED
    BY <1>1, <2>1 DEF TallyInv
<1> QED
  BY <1>1, <1>4, <1>5 DEF Explored, N

LEMMA StepVerdict == NoWrap /\ VerdictInv /\ [Next]_vars => VerdictInv'
<1> SUFFICES ASSUME NoWrap, VerdictInv, [Next]_vars PROVE VerdictInv'
  OBVIOUS
<1>1. /\ HopInv /\ probes \in Seq(Probe) /\ raised \in Seq(Raised)
      /\ destination_reached \in BOOLEAN
      /\ TallyInv(options, probes, raised, num_stars, num_undiscovered, destination_reached)
  BY DEF VerdictInv, HopInv, TypeOK
<1>2. HopInv'
  BY <1>1, StepHopInv
<1> SUFFICES TallyInv(options', probes', raised', num_stars', num_undiscovered', destination_reached')
  BY <1>2 DEF VerdictInv
<1>3. ASSUME NEW e \in {"ERROR", "HAS_TERMINATED"}, raised' = raised \o <<e>>,
             UNCHANGED <<options, probes, num_stars, num_undiscovered, destination_reached>>
      PROVE  TallyInv(options', probes', raised', num_stars', num_undiscovered', destination_reached')
  <2>1. <<e>> \in Seq(Raised) /\ \A f : HasIn(<<e>>, f) <=> f = e
    BY RaisedOne DEF Raised
  <2>2. \A f : HasIn(raised', f) <=> HasIn(raised, f) \/ f = e
    BY <1>1, <1>3, <2>1, RaisedMore
  <2>3. ~ HasIn(raised', "ERROR") => ~ HasIn(raised, "ERROR")
    BY <2>2
  <2>4. \A r \in Reasons : HasIn(raised', r) <=> HasIn(raised, r)
    BY <2>2 DEF Reasons
  <2> QED
    BY <1>1, <1>3, <2>3, <2>4 DEF TallyInv, Concluding
<1>4. CASE HandleInit
  BY <1>2, <1>4, FirstHopVerdict
<1>5. CASE HandleInitFails
  BY <1>3, <1>5 DEF HandleInitFails, Raise
<1>6. ASSUME NEW k \in 1 .. Len(probes), NEW a \in Answers, HandleAnswer(k, a)
      PROVE  TallyInv(options', probes', raised', num_stars', num_undiscovered', destination_reached')
  BY <1>2, <1>6, AnswerVerdict
<1>7. ASSUME NEW k \in 1 .. Len(probes), HandleAnswerWithoutData(k)
      PROVE  TallyInv(options', probes', raised', num_stars', num_undiscovered', destination_reached')
  BY <1>1, <1>7 DEF HandleAnswerWithoutData
<1>8. ASSUME NEW k \in 1 .. Len(probes), Lose(k)
      PROVE  TallyInv(options', probes', raised', num_stars', num_undiscovered', destination_reached')
  <2> DEFINE qs == [probes EXCEPT ![k].answer = "lost"]
  <2>1. /\ UNCHANGED <<options, raised, num_stars, num_undiscovered, destination_reached>>
        /\ probes' = qs /\ probes[k].answer = "none"
    BY <1>8 DEF Lose
  <2>2. "lost" \in Answers \cup {"lost"}
    OBVIOUS
  <2>3. qs \in Seq(Probe) /\ Len(qs) = Len(probes)
    BY <1>1, <2>1, <2>2, AnswerSet
  <2>4. WaitingIn(qs) = WaitingIn(probes)
    BY <1>1, <2>1, <2>2, AnswerSet
  <2>5. probes # << >> /\ qs # << >> /\ WaitingIn(probes) # {}
    BY <1>1, <2>1, <2>3, EmptySeq DEF WaitingIn, Answers
  <2>6. ASSUME ~ HasIn(raised, "ERROR")
        PROVE  Tally(options, qs, num_stars, num_undiscovered, destination_reached,
                     AnsweredInHop(options, qs))
    <3>1. Tally(options, probes, num_stars, num_undiscovered, destination_reached,
                AnsweredInHop(options, probes))
      BY <1>1, <2>5, <2>6 DEF TallyInv
    <3>2. AnsweredInHop(options, qs) = AnsweredInHop(options, probes)
      BY <2>4 DEF AnsweredInHop
    <3>3. Tally(options, [probes EXCEPT ![k].answer = "lost"], num_stars, num_undiscovered,
                destination_reached, AnsweredInHop(options, probes))
      <4>1. /\ probes[k].answer = "none" /\ probes \in Seq(Probe) /\ destination_reached \in BOOLEAN
            /\ num_stars \in Nat /\ num_undiscovered \in Nat
        BY <1>1, <2>1 DEF HopInv, TypeOK
      <4>2. AnsweredInHop(options, probes) \in Int
        BY <1>1, WaitingFinite, OptionTypes DEF AnsweredInHop, HopInv, TypeOK
      <4> QED
        BY <3>1, <4>1, <4>2, TallyLost
    <3> HIDE DEF qs
    <3> QED
      BY <3>2, <3>3 DEF qs
  <2> HIDE DEF qs
  <2> QED
    BY <2>1, <2>4, <2>5, <2>6 DEF TallyInv
<1>9. CASE HandleTerm
  BY <1>3, <1>9 DEF HandleTerm, Raise
<1>10. CASE UNCHANGED vars
  BY <1>1, <1>10 DEF vars
<1> QED
  BY <1>4, <1>5, <1>6, <1>7, <1>8, <1>9, <1>10 DEF Next

(* traceroute.c gives the right verdict, and only once every probe of the last
   hop is answered, for any options with max_ttl < 255 and any answers. *)
THEOREM VerdictsAreRight ==
    ASSUME NoWrap
    PROVE  Spec => []RightVerdict
<1>1. VerdictInv /\ [Next]_vars => VerdictInv'
  BY StepVerdict
<1> QED
  BY <1>1, InitVerdict, VerdictIsRight, PTL DEF Spec

=============================================================================
