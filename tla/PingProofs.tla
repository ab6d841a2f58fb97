--------------------------- MODULE PingProofs -----------------------------
(***************************************************************************)
(* The scheduled probes and ping, for any delays, any count, any interval  *)
(* and any timeout.                                                        *)
(*                                                                         *)
(* The group sets its timer from the difference of two delays, that of the *)
(* root and last_delay.  The argument is that last_delay is the delay of   *)
(* the root whenever a probe waits, so that the difference is positive, or *)
(* corrected by the test of probe_group_update_delay.                      *)
(*                                                                         *)
(* ping sends a window of probes at first and then one more per answer.    *)
(* The argument is that the window is the quotient of the timeout by the   *)
(* interval, rounded up, and that an answer makes room for the probe it    *)
(* lets ping send.  Its counters are then compared with the probes that    *)
(* wait in the group, travel, or are answered in its queue: each step      *)
(* takes a probe from one place to the next.  The firings are a whole      *)
(* number of intervals apart because all the delays of the group are.      *)
(***************************************************************************)
EXTENDS Ping, CountingProofs

-----------------------------------------------------------------------------
(* update_timer keeps a timer a timer; it arms it exactly for a positive   *)
(* delay, and never for longer than the delay.                             *)
LEMMA UpdateTimerBounds ==
    ASSUME NEW t \in Int, t >= Off, NEW delay \in Int
    PROVE  /\ UpdateTimer(t, delay) \in Int
           /\ UpdateTimer(t, delay) >= Off
           /\ delay = 0 => UpdateTimer(t, delay) = Off
           /\ delay > 0 => UpdateTimer(t, delay) \in 1 .. delay
<1>1. CASE delay < 0
  BY <1>1 DEF UpdateTimer
<1>2. CASE delay = 0
  BY <1>2 DEF UpdateTimer, ArmedFor, Off
<1>3. CASE delay > 0
  <2>1. UpdateTimer(t, delay) = Shortened(delay, Second, FracDiv)
    BY <1>3 DEF UpdateTimer, ArmedFor, Shortened
  <2>2. delay \in Nat
    BY <1>3
  <2>3. /\ Shortened(delay, Second, FracDiv) \in 0 .. delay
        /\ Shortened(delay, Second, FracDiv) > 0
    BY <1>3, <2>2, TimerAssumption, DelayBounds
  <2> QED
    BY <1>3, <2>1, <2>3 DEF Off
<1> QED
  BY <1>1, <1>2, <1>3

-----------------------------------------------------------------------------
(* The shortest of some delays *)

LEMMA MinIsFirst ==
    ASSUME NEW S \in SUBSET Nat, S # {}
    PROVE  Min(S) \in S /\ \A j \in S : Min(S) <= j
  BY LeastNumber DEF Min

Children == [Delays -> Nat]

LEMMA NextDelayIsMin ==
    ASSUME NEW c \in Children
    PROVE  /\ NextDelay(c) \in Waits(c) \cup {DblMax}
           /\ NextDelay(c) \in Nat
           /\ \A d \in Waits(c) : NextDelay(c) <= d
           /\ NextDelay(c) = DblMax <=> Waits(c) = {}
           /\ NextDelay(c) <= DblMax
<1>1. \A d \in Waits(c) : d < DblMax /\ d \in Nat
  BY ProbeGroupAssumption DEF Waits
<1>2. Waits(c) \cup {DblMax} \in SUBSET Nat
  BY <1>1, ProbeGroupAssumption
<1>3. /\ NextDelay(c) \in Waits(c) \cup {DblMax}
      /\ \A d \in Waits(c) \cup {DblMax} : NextDelay(c) <= d
  BY <1>2, MinIsFirst DEF NextDelay
<1> QED
  BY <1>1, <1>3, ProbeGroupAssumption

(* There is only one shortest delay. *)
LEMMA NextDelayUnique ==
    ASSUME NEW c \in Children, NEW m \in Waits(c) \cup {DblMax},
           \A d \in Waits(c) : m <= d, m <= DblMax
    PROVE  m = NextDelay(c)
<1>1. m \in Nat /\ \A d \in Waits(c) : d \in Nat
  BY ProbeGroupAssumption DEF Waits
<1> QED
  BY <1>1, NextDelayIsMin, ProbeGroupAssumption

-----------------------------------------------------------------------------
(* The invariant.  last_delay follows the delay of the root, but keeps its last
   value when the group gets empty. *)
LastFollows(g) == g.delay < DblMax => g.last_delay = g.delay

Armed(g) == (g.delay < DblMax) <=> (g.timer # Off)

GroupOK(g) ==
    /\ g \in Groups
    /\ g.timer >= Off
    /\ g.delay = NextDelay(g.children)
    /\ LastFollows(g)
    /\ Armed(g)

GroupInv == GroupOK(group) /\ reported \in BOOLEAN /\ sendq \in Nat

(* The records that the operators make of a group. *)
LEMMA GroupUpdates ==
    ASSUME NEW g \in Groups, NEW c, NEW d
    PROVE  /\ [g EXCEPT !.children = c]
                = [children |-> c, delay |-> g.delay, last_delay |-> g.last_delay, timer |-> g.timer]
           /\ [[g EXCEPT !.children = c] EXCEPT !.delay = d]
                = [children |-> c, delay |-> d, last_delay |-> g.last_delay, timer |-> g.timer]
<1> DEFINE a == [g EXCEPT !.children = c]
<1>1. a = [children |-> c, delay |-> g.delay, last_delay |-> g.last_delay, timer |-> g.timer]
  BY DEF Groups
<1> HIDE DEF a
<1>2. [a EXCEPT !.delay = d]
        = [children |-> c, delay |-> d, last_delay |-> g.last_delay, timer |-> g.timer]
  BY <1>1
<1> QED
  BY <1>1, <1>2 DEF a

(* probe_group_update_delay, whatever last_delay was. *)
LEMMA UpdateDelayOK ==
    ASSUME NEW g \in Groups, g.timer >= Off, g.delay = NextDelay(g.children)
    PROVE  GroupOK(UpdateDelay(g))
<1> DEFINE h == UpdateDelay(g)
           last == IF g.delay - g.last_delay <= 0 THEN 0 ELSE g.last_delay
<1>1. /\ g.children \in Children /\ g.delay \in Nat
      /\ g.last_delay \in Nat /\ g.timer \in Int
  BY DEF Groups, Children
<1>2. g.delay \in Delays \cup {DblMax}
  BY <1>1, NextDelayIsMin DEF Waits
<1>3. CASE g.delay < DblMax
  <2>1. g.delay > 0 /\ last \in Nat /\ g.delay - last > 0
    BY <1>1, <1>2, <1>3, ProbeGroupAssumption
  <2> DEFINE t == UpdateTimer(g.timer, g.delay - last)
  <2>2. h = [g EXCEPT !.timer = t, !.last_delay = g.delay]
    BY <1>3 DEF UpdateDelay
  <2>3. t \in Int /\ t >= 1
    <3>1. g.delay - last \in Int
      BY <1>1, <2>1
    <3>2. t \in 1 .. (g.delay - last)
      BY <1>1, <2>1, <3>1, UpdateTimerBounds
    <3> QED
      BY <3>1, <3>2
  <2> HIDE DEF last, t
  <2>4. h = [children |-> g.children, delay |-> g.delay, last_delay |-> g.delay, timer |-> t]
    BY <2>2 DEF Groups
  <2> HIDE DEF h
  <2>5. h \in Groups
    BY <1>1, <2>3, <2>4 DEF Groups, Children
  <2> QED
    BY <1>1, <1>3, <2>3, <2>4, <2>5 DEF GroupOK, LastFollows, Armed, Off, h
<1>4. CASE ~ (g.delay < DblMax)
  <2>1. h = [g EXCEPT !.timer = UpdateTimer(g.timer, 0)]
    BY <1>4 DEF UpdateDelay
  <2>2. UpdateTimer(g.timer, 0) = Off
    BY <1>1, UpdateTimerBounds
  <2>3. /\ h \in Groups /\ h.timer = Off
        /\ h.delay = g.delay /\ h.children = g.children /\ h.last_delay = g.last_delay
    BY <1>1, <2>1, <2>2 DEF Groups, Off
  <2> QED
    BY <1>4, <2>3 DEF GroupOK, LastFollows, Armed, Off
<1> QED
  BY <1>3, <1>4

(* probe_group_add: a longer delay changes nothing to the timer, and the root
   keeps the shortest one. *)
LEMMA AddOK ==
    ASSUME NEW g, GroupOK(g), NEW d \in Delays
    PROVE  GroupOK(Add(g, d))
<1> DEFINE c == [g.children EXCEPT ![d] = @ + 1]
           added == [g EXCEPT !.children = c]
<1>1. /\ g \in Groups /\ g.children \in Children /\ g.delay \in Nat
      /\ g.last_delay \in Nat /\ g.timer \in Int /\ g.timer >= Off
  BY DEF GroupOK, Groups, Children
<1>2. d \in Nat /\ d < DblMax
  BY ProbeGroupAssumption
<1>3. c \in Children /\ Waits(c) = Waits(g.children) \cup {d}
  BY <1>1 DEF Children, Waits
<1>4. /\ g.delay \in Waits(g.children) \cup {DblMax} /\ g.delay <= DblMax
      /\ \A e \in Waits(g.children) : g.delay <= e
  BY <1>1, NextDelayIsMin DEF GroupOK
<1>5. \A e \in Waits(g.children) : e \in Nat
  BY ProbeGroupAssumption DEF Waits
<1> HIDE DEF c
<1>6. added = [children |-> c, delay |-> g.delay, last_delay |-> g.last_delay, timer |-> g.timer]
  BY <1>1, GroupUpdates
<1>7. Add(g, d) = IF g.delay > d THEN UpdateDelay([added EXCEPT !.delay = d]) ELSE added
  BY DEF Add, c
<1>8. CASE g.delay > d
  <2> DEFINE h == [children |-> c, delay |-> d, last_delay |-> g.last_delay, timer |-> g.timer]
  <2>1. [added EXCEPT !.delay = d] = h
    BY <1>1, GroupUpdates
  <2>2. h \in Groups
    BY <1>1, <1>2, <1>3 DEF Groups, Children
  <2>3. d = NextDelay(c)
    <3>1. \A e \in Waits(c) : d <= e
      BY <1>1, <1>2, <1>3, <1>4, <1>5, <1>8
    <3> QED
      BY <1>2, <1>3, <3>1, NextDelayUnique, ProbeGroupAssumption
  <2>4. h.timer >= Off /\ h.delay = NextDelay(h.children)
    BY <1>1, <2>3
  <2> HIDE DEF h, added
  <2> QED
    BY <1>7, <1>8, <2>1, <2>2, <2>4, UpdateDelayOK
<1>9. CASE ~ (g.delay > d)
  <2>1. g.delay = NextDelay(c)
    <3>1. g.delay \in Waits(c)
      BY <1>1, <1>2, <1>3, <1>4, <1>9, ProbeGroupAssumption
    <3>2. \A e \in Waits(c) : g.delay <= e
      BY <1>1, <1>2, <1>3, <1>4, <1>9
    <3> QED
      BY <1>3, <1>4, <3>1, <3>2, NextDelayUnique
  <2>2. added \in Groups
    BY <1>1, <1>3, <1>6 DEF Groups, Children
  <2>3. Add(g, d) = added
    BY <1>7, <1>9
  <2>4. LastFollows(added) /\ Armed(added)
    BY <1>6 DEF GroupOK, LastFollows, Armed
  <2>5. added.timer >= Off /\ added.delay = NextDelay(added.children)
    BY <1>1, <1>6, <2>1
  <2> HIDE DEF added
  <2> QED
    BY <2>2, <2>3, <2>4, <2>5 DEF GroupOK
<1> QED
  BY <1>8, <1>9

(* network_process_scheduled_probe: the timer is set for the probes that are
   left, or disarmed. *)
LEMMA FireOK ==
    ASSUME NEW g, GroupOK(g)
    PROVE  GroupOK(Fire(g)) /\ Fired(g) \in Nat
<1>1. /\ g \in Groups /\ g.children \in Children /\ g.delay \in Nat
      /\ g.last_delay \in Nat /\ g.timer \in Int /\ g.timer >= Off
  BY DEF GroupOK, Groups, Children
<1>2. CASE g.delay \notin Waits(g.children)
  BY <1>2 DEF Fire, Fired
<1>3. CASE g.delay \in Waits(g.children)
  <2> DEFINE rest == [g.children EXCEPT ![g.delay] = 0]
             next == NextDelay(rest)
             last == IF g.children[g.delay] > 1 THEN g.delay ELSE g.last_delay
             h == [children |-> rest, delay |-> next, last_delay |-> last, timer |-> g.timer]
  <2>1. g.delay \in Delays /\ g.children[g.delay] \in Nat
    BY <1>1, <1>3 DEF Waits, Children
  <2>2. rest \in Children
    BY <1>1, <2>1 DEF Children
  <2>3. next \in Nat /\ last \in Nat
    BY <1>1, <2>2, NextDelayIsMin
  <2> HIDE DEF rest, next, last
  <2>4. Fire(g) = UpdateDelay(h) /\ Fired(g) = g.children[g.delay]
    BY <1>3 DEF Fire, Fired, rest, next, last
  <2>5. h \in Groups
    BY <1>1, <2>2, <2>3 DEF Groups, Children
  <2>6. h.timer >= Off /\ h.delay = NextDelay(h.children)
    BY <1>1 DEF next
  <2> HIDE DEF h
  <2> QED
    BY <2>1, <2>4, <2>5, <2>6, UpdateDelayOK
<1> QED
  BY <1>2, <1>3

(* Time never disarms the timer. *)
LEMMA TickOK ==
    ASSUME NEW g, GroupOK(g), g.timer > 0
    PROVE  GroupOK([g EXCEPT !.timer = RunDown(@, 1)])
<1> DEFINE t == RunDown(g.timer, 1)
           h == [g EXCEPT !.timer = t]
<1>1. /\ g \in Groups /\ g.children \in Children /\ g.delay \in Nat
      /\ g.last_delay \in Nat /\ g.timer \in Int
  BY DEF GroupOK, Groups, Children
<1>2. t \in Nat /\ g.timer # Off
  BY <1>1 DEF RunDown, Off
<1> HIDE DEF t
<1>3. h = [children |-> g.children, delay |-> g.delay, last_delay |-> g.last_delay, timer |-> t]
  BY <1>1 DEF Groups
<1> HIDE DEF h
<1>4. h \in Groups
  BY <1>1, <1>2, <1>3 DEF Groups, Children
<1>5. GroupOK(h)
  BY <1>2, <1>3, <1>4 DEF GroupOK, LastFollows, Armed, Off
<1> QED
  BY <1>5 DEF h, t

-----------------------------------------------------------------------------
(* The theorem *)

LEMMA InitOK == GroupInit => GroupInv
<1> SUFFICES ASSUME GroupInit PROVE GroupInv
  OBVIOUS
<1> DEFINE c == [d \in Delays |-> 0]
<1>1. c \in Children /\ Waits(c) = {}
  BY DEF Children, Waits
<1>2. NextDelay(c) = DblMax /\ DblMax \in Nat
  BY <1>1, NextDelayIsMin, ProbeGroupAssumption
<1> HIDE DEF c
<1>3. group = [children |-> c, delay |-> DblMax, last_delay |-> 0, timer |-> Off]
  BY DEF GroupInit, EmptyGroup, c
<1>4. group \in Groups
  BY <1>1, <1>2, <1>3 DEF Groups, Children, Off
<1>5. GroupOK(group)
  BY <1>2, <1>3, <1>4 DEF GroupOK, LastFollows, Armed, Off
<1> QED
  BY <1>5 DEF GroupInv, GroupInit

LEMMA StepOK == GroupInv /\ [GroupNext]_groupVars => GroupInv'
<1> SUFFICES ASSUME GroupInv, [GroupNext]_groupVars PROVE GroupInv'
  OBVIOUS
<1> USE DEF GroupInv
<1>1. CASE \E d \in Delays : Schedule(d)
  BY <1>1, AddOK DEF Schedule
<1>2. CASE Report
  BY <1>2 DEF Report
<1>3. CASE ProcessScheduled
  <2>1. GroupOK(group') /\ Fired(group) \in Nat
    BY <1>3, FireOK DEF ProcessScheduled
  <2>2. sendq' \in Nat
    BY <1>3, <2>1 DEF ProcessScheduled
  <2>3. reported' \in BOOLEAN
    BY <1>3, Zenon DEF ProcessScheduled
  <2> QED
    BY <2>1, <2>2, <2>3
<1>4. CASE PopSendq
  BY <1>4 DEF PopSendq
<1>5. CASE GroupTick
  BY <1>5, TickOK DEF GroupTick
<1>6. CASE UNCHANGED groupVars
  BY <1>6 DEF groupVars
<1> QED
  BY <1>1, <1>2, <1>3, <1>4, <1>5, <1>6 DEF GroupNext

(* Whatever is scheduled and whenever the timer is reported, the group keeps
   its types, the root holds the shortest delay, and the timer is armed exactly
   when a probe waits: no scheduled probe is forgotten by the timer. *)
THEOREM TimerServesGroup == GroupSpec => [](GroupTypeOK /\ RootIsMin /\ TimerArmed)
<1>1. GroupInv => GroupTypeOK /\ RootIsMin /\ TimerArmed
  <2> SUFFICES ASSUME GroupInv PROVE GroupTypeOK /\ RootIsMin /\ TimerArmed
    OBVIOUS
  <2>1. group \in Groups /\ group.children \in Children
    BY DEF GroupInv, GroupOK, Groups, Children
  <2>2. group.delay < DblMax <=> Waits(group.children) # {}
    BY <2>1, NextDelayIsMin, ProbeGroupAssumption DEF GroupInv, GroupOK
  <2> QED
    BY <2>1, <2>2 DEF GroupInv, GroupOK, Armed, GroupTypeOK, RootIsMin, TimerArmed
<1> QED
  BY <1>1, InitOK, StepOK, PTL DEF GroupSpec

-----------------------------------------------------------------------------
(* The window *)

(* The window: n probes at most, n - 1 intervals of which take less than the
   timeout. *)
LEMMA WindowSize ==
    ASSUME NEW t \in Nat \ {0}, NEW i \in Nat \ {0}, NEW n \in Nat, n <= (t + i - 1) \div i
    PROVE  (n - 1) * i < t
<1> DEFINE d == t + i - 1
           q == d \div i
           r == d % i
<1>1. d \in Nat
  OBVIOUS
<1>2. q \in Nat /\ r \in 0 .. i - 1 /\ d = q * i + r
  <2> HIDE DEF d
  <2> QED
    BY <1>1, SMT
<1>3. n <= q
  OBVIOUS
<1> HIDE DEF q, r
<1>4. n * i <= q * i
  BY <1>2, <1>3, SMT
<1>5. q * i <= t + i - 1
  BY <1>2 DEF d
<1>6. (n - 1) * i = n * i - i
  BY SMT
<1>7. n * i \in Int /\ q * i \in Int
  BY <1>2, SMT
<1> QED
  BY <1>2, <1>4, <1>5, <1>6, <1>7

LEMMA MinOfTwo ==
    ASSUME NEW x \in Nat, NEW y \in Nat
    PROVE  /\ Min({x, y}) \in Nat /\ Min({x, y}) <= x /\ Min({x, y}) <= y
           /\ Min({x, y}) \in {x, y}
<1>1. \E m \in {x, y} : \A z \in {x, y} : m <= z
  BY SMT
<1>2. Min({x, y}) \in {x, y} /\ \A z \in {x, y} : Min({x, y}) <= z
  BY <1>1 DEF Min
<1> QED
  BY <1>2

-----------------------------------------------------------------------------
(* The counters of ping_data_t.  That they only count up or down keeps the
   types, without what the other variables hold. *)
Counts == [num_replies : Nat, num_losses : Nat, num_probes_in_flight : Int,
           num_sent : Nat, rtt_results : Nat]

Window(o, d) ==
    /\ d \in Counts
    /\ d.num_sent <= o.count
    /\ (d.num_probes_in_flight - 1) * o.interval < NetTimeout

WInv == options \in OptionSets /\ Window(options, data)

LEMMA OptionTypes ==
    ASSUME NEW o \in OptionSets
    PROVE  o.count \in Nat /\ o.interval \in Nat \ {0} /\ NetTimeout \in Nat \ {0}
  BY PingAssumption

LEMMA EmptyWindow ==
    ASSUME NEW o \in OptionSets
    PROVE  Window(o, NoCounters)
<1>1. o.count \in Nat /\ o.interval \in Nat \ {0} /\ NetTimeout \in Nat \ {0}
  BY OptionTypes
<1>2. (0 - 1) * o.interval < NetTimeout
  BY <1>1, SMT
<1> QED
  BY <1>1, <1>2 DEF Window, Counts, NoCounters

(* What the handlers do to the counters. *)
Sent(d, n) == [d EXCEPT !.num_sent = @ + n, !.num_probes_in_flight = @ + n]

LEMMA SentCounts ==
    ASSUME NEW d \in Counts, NEW n \in Nat
    PROVE  /\ Sent(d, n) \in Counts
           /\ Sent(d, n).num_sent = d.num_sent + n
           /\ Sent(d, n).num_probes_in_flight = d.num_probes_in_flight + n
           /\ Sent(d, n).num_replies = d.num_replies
           /\ Sent(d, n).num_losses = d.num_losses
           /\ Sent(d, n).rtt_results = d.rtt_results
<1>1. d.num_sent + n \in Nat /\ d.num_probes_in_flight + n \in Int
  BY DEF Counts
<1> DEFINE s == d.num_sent + n
           f == d.num_probes_in_flight + n
<1>2. Sent(d, n) = [d EXCEPT !.num_sent = s, !.num_probes_in_flight = f]
  BY DEF Sent, Counts
<1> HIDE DEF s, f
<1>3. [d EXCEPT !.num_sent = s, !.num_probes_in_flight = f] \in Counts
  BY <1>1 DEF Counts, s, f
<1> DEFINE e == [d EXCEPT !.num_sent = s, !.num_probes_in_flight = f]
<1>4. /\ e.num_sent = s /\ e.num_probes_in_flight = f
      /\ e.num_replies = d.num_replies /\ e.num_losses = d.num_losses
      /\ e.rtt_results = d.rtt_results
  BY DEF Counts
<1> QED
  BY <1>2, <1>3, <1>4 DEF s, f

LEMMA CountedCounts ==
    ASSUME data \in Counts, NEW a
    PROVE  /\ Counted(a) \in Counts
           /\ Counted(a).num_sent = data.num_sent
           /\ Counted(a).num_probes_in_flight = data.num_probes_in_flight - 1
           /\ Counted(a).num_replies = data.num_replies + 1
           /\ Counted(a).num_losses = data.num_losses + (IF a = "REPLY" THEN 0 ELSE 1)
           /\ Counted(a).rtt_results = data.rtt_results
<1> DEFINE r == data.num_replies + 1
           l == IF a = "REPLY" THEN data.num_losses ELSE data.num_losses + 1
           f == data.num_probes_in_flight - 1
           e == [data EXCEPT !.num_replies = r, !.num_losses = l, !.num_probes_in_flight = f]
<1>1. r \in Nat /\ l \in Nat /\ f \in Int
  BY DEF Counts
<1>2. Counted(a) = e
  BY DEF Counted, Counts
<1> HIDE DEF r, l, f
<1>3. e \in Counts
  BY <1>1 DEF Counts
<1>4. /\ e.num_sent = data.num_sent /\ e.num_probes_in_flight = f
      /\ e.num_replies = r /\ e.num_losses = l /\ e.rtt_results = data.rtt_results
  BY DEF Counts
<1>5. l = data.num_losses + (IF a = "REPLY" THEN 0 ELSE 1)
  BY DEF l, Counts
<1> HIDE DEF e
<1> QED
  BY <1>2, <1>3, <1>4, <1>5 DEF f, r

(* The first window. *)
LEMMA InitialOK ==
    ASSUME options \in OptionSets
    PROVE  /\ InitialWindow \in Nat /\ InitialWindow <= options.count
           /\ (InitialWindow - 1) * options.interval < NetTimeout
<1>1. options.count \in Nat /\ options.interval \in Nat \ {0} /\ NetTimeout \in Nat \ {0}
  BY OptionTypes
<1> DEFINE d == NetTimeout + options.interval - 1
           q == d \div options.interval
<1>2. d \in Nat
  BY <1>1
<1>3. q \in Nat
  <2> HIDE DEF d
  <2> QED
    BY <1>1, <1>2, SMT
<1>4. InitialWindow = Min({q, options.count})
  BY DEF InitialWindow
<1>5. InitialWindow \in Nat /\ InitialWindow <= q /\ InitialWindow <= options.count
  <2> HIDE DEF q
  <2> QED
    BY <1>1, <1>3, <1>4, MinOfTwo
<1> QED
  BY <1>1, <1>5, WindowSize

LEMMA InitWindow == Init => WInv
  BY EmptyWindow DEF Init, WInv

LEMMA StepWindow == WInv /\ [Next]_vars => WInv'
<1> SUFFICES ASSUME WInv, [Next]_vars PROVE WInv'
  OBVIOUS
<1>1. /\ options \in OptionSets /\ Window(options, data)
      /\ options.count \in Nat /\ options.interval \in Nat \ {0} /\ NetTimeout \in Nat \ {0}
  BY OptionTypes DEF WInv
<1>2. options' = options
  BY DEF Next, Instance, User, HandleInit, HandleAnswer, HandleAnswerWithoutData, HandleTerm,
     UserReply, UserPrints, UserWithoutData, UserStatistics, UserTerminated, TakeUser,
     Terminate, Reported, Scheduled, ProcessSendq, Answer, Tick, vars, pingVars
<1>3. CASE data' = data
  BY <1>1, <1>2, <1>3 DEF WInv
<1>4. CASE HandleInit
  <2> DEFINE n == InitialWindow
  <2>1. n \in Nat /\ n <= options.count /\ (n - 1) * options.interval < NetTimeout
    BY <1>1, InitialOK
  <2> HIDE DEF n
  <2>2. \/ data' = NoCounters
        \/ data' = Sent(NoCounters, n)
    BY <1>4 DEF HandleInit, Conclude, Send, Sent, n
  <2>3. CASE data' = NoCounters
    BY <1>1, <1>2, <2>3, EmptyWindow DEF WInv
  <2>4. CASE data' = Sent(NoCounters, n)
    <3>1. NoCounters \in Counts /\ NoCounters.num_sent = 0 /\ NoCounters.num_probes_in_flight = 0
      BY DEF NoCounters, Counts
    <3>2. data' \in Counts /\ data'.num_sent = 0 + n /\ data'.num_probes_in_flight = 0 + n
      BY <2>1, <2>4, <3>1, SentCounts
    <3>3. data'.num_sent = n /\ data'.num_probes_in_flight = n
      BY <2>1, <3>2
    <3>4. Window(options, data')
      BY <2>1, <3>2, <3>3 DEF Window
    <3> QED
      BY <1>1, <1>2, <3>4 DEF WInv
  <2> QED
    BY <2>2, <2>3, <2>4
<1>5. CASE HandleAnswer
  <2> DEFINE d == Counted(Head(events))
             f == data.num_probes_in_flight
             i == options.interval
  <2>1. /\ d \in Counts
        /\ d.num_sent = data.num_sent /\ d.num_probes_in_flight = f - 1
    BY <1>1, CountedCounts DEF Window
  <2>2. f \in Int /\ (f - 1) * i < NetTimeout /\ data.num_sent \in Nat
        /\ data.num_sent <= options.count
    BY <1>1 DEF Window, Counts
  <2>3. (f - 1 - 1) * i < NetTimeout
    <3>1. i \in Nat \ {0} /\ NetTimeout \in Nat
      BY <1>1
    <3> HIDE DEF f, i
    <3>2. (f - 1 - 1) * i = (f - 1) * i - i /\ (f - 1) * i \in Int
      BY <2>2, <3>1, SMT
    <3> QED
      BY <2>2, <3>1, <3>2
  <2>4. \/ data' = d
        \/ /\ data.num_sent # options.count
           /\ data' = Sent(d, 1)
    <3>1. Conclude(d, ToSend(data), <<Told(Head(events))>>)
      BY <1>5 DEF HandleAnswer
    <3> HIDE DEF d
    <3>2. data' = d \/ (ToSend(data) > 0 /\ Send(d, ToSend(data)))
      BY <3>1 DEF Conclude
    <3>3. ToSend(data) > 0 => data.num_sent # options.count /\ ToSend(data) = 1
      BY DEF ToSend
    <3> QED
      BY <3>2, <3>3 DEF Send, Sent
  <2> HIDE DEF d
  <2>5. CASE data' = d
    BY <1>1, <1>2, <2>1, <2>2, <2>3, <2>5 DEF WInv, Window
  <2>6. CASE /\ data.num_sent # options.count
             /\ data' = Sent(d, 1)
    <3>1. data' \in Counts /\ data'.num_sent = data.num_sent + 1
      BY <2>1, <2>6, SentCounts
    <3>2. data'.num_probes_in_flight = f
      <4>1. data'.num_probes_in_flight = f - 1 + 1
        BY <2>1, <2>6, SentCounts
      <4> HIDE DEF f
      <4> QED
        BY <2>2, <4>1
    <3>3. data.num_sent + 1 <= options.count
      <4> DEFINE m == data.num_sent
                 c == options.count
      <4>1. m \in Nat /\ c \in Nat /\ m <= c /\ m # c
        BY <1>1, <2>2, <2>6
      <4> HIDE DEF m, c
      <4>2. m + 1 <= c
        BY <4>1
      <4> QED
        BY <4>2 DEF m, c
    <3> QED
      BY <1>1, <1>2, <2>2, <3>1, <3>2, <3>3 DEF WInv, Window
  <2> QED
    BY <2>4, <2>5, <2>6
<1>6. CASE HandleTerm
  BY <1>1, <1>2, <1>6, EmptyWindow DEF HandleTerm, WInv
<1>7. CASE UserReply
  <2>1. data' = [data EXCEPT !.rtt_results = @ + 1]
    BY <1>7 DEF UserReply
  <2>2. data' \in Counts
    BY <1>1, <2>1 DEF Window, Counts
  <2>3. data'.num_sent = data.num_sent /\ data'.num_probes_in_flight = data.num_probes_in_flight
    BY <1>1, <2>1 DEF Window, Counts
  <2> QED
    BY <1>1, <1>2, <2>2, <2>3 DEF WInv, Window
<1>8. data' = data \/ HandleInit \/ HandleAnswer \/ HandleTerm \/ UserReply
  BY DEF Next, Instance, User, HandleAnswerWithoutData,
     UserPrints, UserWithoutData, UserStatistics, UserTerminated, TakeUser,
     Terminate, Reported, Scheduled, ProcessSendq, Answer, Tick, vars, pingVars
<1> QED
  BY <1>3, <1>4, <1>5, <1>6, <1>7, <1>8

(* Never more than count probes, nor more on their way than the timeout has
   room for, for any options and any answers, losses and TERMs. *)
THEOREM WindowHolds == Spec => []WindowRespected
<1>1. WInv => WindowRespected
  BY DEF WInv, Window, WindowRespected
<1> QED
  BY <1>1, InitWindow, StepWindow, PTL DEF Spec

-----------------------------------------------------------------------------
(* What send_ping_probes adds to the group *)

(* The groups on the way are a function of the number of probes added. *)
IsAdded(f, g, v, n) ==
    f = [i \in 0 .. n |-> IF i = 0 THEN g ELSE Add(f[i - 1], i * v)]

LEMMA AddedExists ==
    ASSUME NEW g, NEW v, NEW n \in Nat
    PROVE  \E f : IsAdded(f, g, v, n)
<1> DEFINE S == {m \in Nat : ~ \E f : IsAdded(f, g, v, m)}
<1>1. SUFFICES ASSUME S # {} PROVE FALSE
  OBVIOUS
<1>2. PICK m \in S : \A k \in S : m <= k
  BY <1>1, MinIsFirst
<1>3. m # 0
  <2>1. IsAdded([i \in 0 .. 0 |-> g], g, v, 0)
    BY DEF IsAdded
  <2> QED
    BY <2>1
<1>4. PICK f : IsAdded(f, g, v, m - 1)
  <2>1. m - 1 \in Nat /\ ~ (m <= m - 1)
    BY <1>3
  <2> QED
    BY <1>2, <2>1
<1> DEFINE h == [i \in 0 .. m |-> IF i = m THEN Add(f[m - 1], m * v) ELSE f[i]]
<1>5. ASSUME NEW i \in 0 .. m
      PROVE  h[i] = IF i = 0 THEN g ELSE Add(h[i - 1], i * v)
  <2>1. CASE i = m
    BY <1>3, <2>1
  <2>2. CASE i # m
    <3>1. i \in 0 .. m - 1 /\ (i # 0 => i - 1 \in 0 .. m /\ i - 1 # m)
      BY <2>2
    <3>2. f[i] = IF i = 0 THEN g ELSE Add(f[i - 1], i * v)
      BY <1>4, <3>1 DEF IsAdded
    <3> QED
      BY <2>2, <3>1, <3>2
  <2> QED
    BY <2>1, <2>2
<1>6. IsAdded(h, g, v, m)
  <2> DEFINE r == [i \in 0 .. m |-> IF i = 0 THEN g ELSE Add(h[i - 1], i * v)]
  <2>1. h = r
    BY <1>5
  <2> QED
    BY <2>1 DEF IsAdded
<1> QED
  BY <1>2, <1>6

LEMMA AddProbesIs ==
    ASSUME NEW g, NEW v, NEW n \in Nat
    PROVE  \E f : IsAdded(f, g, v, n) /\ AddProbes(g, v, n) = f[n]
<1> DEFINE f == CHOOSE f : IsAdded(f, g, v, n)
<1>1. IsAdded(f, g, v, n)
  BY AddedExists
<1>2. AddProbes(g, v, n) = f[n]
  BY DEF AddProbes, IsAdded
<1> QED
  BY <1>1, <1>2

(* What holds of the group at first, and after each probe if it does before,
   holds in the end. *)
LEMMA AddedInduction ==
    ASSUME NEW g, NEW v, NEW n \in Nat, NEW G, g \in G[0],
           \A i \in 1 .. n : \A h \in G[i - 1] : Add(h, i * v) \in G[i]
    PROVE  AddProbes(g, v, n) \in G[n]
<1>1. PICK f : IsAdded(f, g, v, n) /\ AddProbes(g, v, n) = f[n]
  BY AddProbesIs
<1> DEFINE S == {m \in Nat : m <= n /\ f[m] \notin G[m]}
<1>2. SUFFICES ASSUME S # {} PROVE FALSE
  BY <1>1
<1>3. PICK m \in S : \A k \in S : m <= k
  BY <1>2, MinIsFirst
<1>4. f[0] = g /\ \A i \in 1 .. n : f[i] = Add(f[i - 1], i * v)
  BY <1>1 DEF IsAdded
<1>5. m \in 1 .. n
  BY <1>3, <1>4
<1>6. f[m - 1] \in G[m - 1]
  <2>1. m - 1 \in Nat /\ m - 1 <= n /\ ~ (m <= m - 1)
    BY <1>5
  <2> QED
    BY <1>3, <2>1
<1>7. f[m] \in G[m]
  BY <1>4, <1>5, <1>6
<1> QED
  BY <1>3, <1>7

LEMMA DelaysFinite == IsFiniteSet(Delays)
<1>1. IsFiniteSet(1 .. DblMax - 1)
  BY FS_Interval, ProbeGroupAssumption
<1> QED
  BY <1>1, FS_Subset, ProbeGroupAssumption

LEMMA UpdateDelayKeeps ==
    ASSUME NEW g \in Groups
    PROVE  UpdateDelay(g).children = g.children
  BY DEF UpdateDelay, Groups

(* One more probe waits. *)
LEMMA AddCounts ==
    ASSUME NEW g, GroupOK(g), NEW d \in Delays
    PROVE  Total(Add(g, d).children, Delays) = Total(g.children, Delays) + 1
<1> DEFINE c == [g.children EXCEPT ![d] = @ + 1]
<1>1. g \in Groups /\ g.children \in [Delays -> Nat] /\ d \in Nat
  BY ProbeGroupAssumption DEF GroupOK, Groups
<1>2. c \in [Delays -> Nat] /\ \A e \in Delays : c[e] = IF e = d THEN g.children[e] + 1 ELSE g.children[e]
  BY <1>1
<1>3. Add(g, d) = IF g.delay > d THEN UpdateDelay([[g EXCEPT !.children = c] EXCEPT !.delay = d])
                                ELSE [g EXCEPT !.children = c]
  BY DEF Add
<1> HIDE DEF c
<1>4. Add(g, d).children = c
  <2> DEFINE h == [[g EXCEPT !.children = c] EXCEPT !.delay = d]
             a == [g EXCEPT !.children = c]
  <2>1. /\ h = [children |-> c, delay |-> d, last_delay |-> g.last_delay, timer |-> g.timer]
        /\ a = [children |-> c, delay |-> g.delay, last_delay |-> g.last_delay, timer |-> g.timer]
    BY <1>1, GroupUpdates
  <2>2. h \in Groups /\ h.children = c /\ a.children = c
    BY <1>1, <1>2, <2>1 DEF Groups
  <2>3. Add(g, d) = UpdateDelay(h) \/ Add(g, d) = a
    BY <1>3
  <2> HIDE DEF h, a
  <2>4. UpdateDelay(h).children = c
    BY <2>2, UpdateDelayKeeps
  <2> QED
    BY <2>2, <2>3, <2>4
<1>5. Total(c, Delays) = Total(g.children, Delays) + 1
  <2>1. \A e \in Delays : g.children[e] \in Nat /\ c[e] = IF e = d THEN g.children[e] + 1 ELSE g.children[e]
    BY <1>1, <1>2
  <2>2. PICK S, n, q, k : S = Delays /\ n = g.children /\ q = c /\ k = 1
    OBVIOUS
  <2>3. /\ IsFiniteSet(S) /\ d \in S /\ k \in Nat
        /\ \A e \in S : n[e] \in Nat /\ q[e] = IF e = d THEN n[e] + k ELSE n[e]
    BY <2>1, <2>2, DelaysFinite
  <2>4. Total(q, S) = Total(n, S) + k
    BY ONLY <2>3, TotalGrows
  <2> QED
    BY ONLY <2>2, <2>4
<1> QED
  BY <1>4, <1>5

(* The probes that leave the group are those that no longer wait. *)
LEMMA FireCounts ==
    ASSUME NEW g, GroupOK(g)
    PROVE  Total(g.children, Delays) = Total(Fire(g).children, Delays) + Fired(g)
<1>1. g \in Groups /\ g.children \in [Delays -> Nat] /\ g.delay \in Nat /\ g.last_delay \in Nat
      /\ g.timer \in Int
  BY DEF GroupOK, Groups
<1>2. CASE g.delay \notin Waits(g.children)
  <2>1. Total(g.children, Delays) \in Nat
    BY <1>1, DelaysFinite, TotalIsFinite
  <2> QED
    BY <1>2, <2>1 DEF Fire, Fired
<1>3. CASE g.delay \in Waits(g.children)
  <2> DEFINE rest == [g.children EXCEPT ![g.delay] = 0]
             next == NextDelay(rest)
             last == IF g.children[g.delay] > 1 THEN g.delay ELSE g.last_delay
             h == [children |-> rest, delay |-> next, last_delay |-> last, timer |-> g.timer]
  <2>1. g.delay \in Delays /\ g.children[g.delay] \in Nat
    BY <1>1, <1>3 DEF Waits
  <2>2. rest \in [Delays -> Nat]
    BY <1>1, <2>1
  <2>3. next \in Nat /\ last \in Nat
    BY <1>1, <2>2, NextDelayIsMin DEF Children
  <2>4. \A e \in Delays : rest[e] \in Nat /\ g.children[e] =
          IF e = g.delay THEN rest[e] + g.children[g.delay] ELSE rest[e]
    BY <1>1, <2>1
  <2> HIDE DEF rest, next, last
  <2>5. Fire(g) = UpdateDelay(h) /\ Fired(g) = g.children[g.delay]
    BY <1>3 DEF Fire, Fired, rest, next, last
  <2>6. h \in Groups /\ h.children = rest
    BY <1>1, <2>2, <2>3 DEF Groups
  <2> HIDE DEF h
  <2>7. Fire(g).children = rest
    BY <2>5, <2>6, UpdateDelayKeeps
  <2>8. Total(g.children, Delays) = Total(rest, Delays) + g.children[g.delay]
    <3> DEFINE d == g.delay
               c == g.children[g.delay]
               n == g.children
    <3>1. d \in Delays /\ c \in Nat
      BY <2>1
    <3>2. \A e \in Delays : rest[e] \in Nat /\ n[e] = IF e = d THEN rest[e] + c ELSE rest[e]
      BY <2>4
    <3> HIDE DEF c, d, n
    <3>3. Total(n, Delays) = Total(rest, Delays) + c
      BY <3>1, <3>2, DelaysFinite, TotalGrows
    <3> QED
      BY <3>3 DEF c, n
  <2> QED
    BY <2>5, <2>7, <2>8
<1> QED
  BY <1>2, <1>3

(* send_ping_probes *)
LEMMA ProbesAdded ==
    ASSUME NEW g, GroupOK(g), NEW v, NEW n \in Nat, \A i \in 1 .. n : i * v \in Delays
    PROVE  /\ GroupOK(AddProbes(g, v, n))
           /\ Total(AddProbes(g, v, n).children, Delays) = Total(g.children, Delays) + n
<1> DEFINE T == Total(g.children, Delays)
           G == [i \in 0 .. n |-> {h \in Groups : GroupOK(h) /\ Total(h.children, Delays) = T + i}]
<1>1. g \in Groups /\ T \in Nat
  <2>1. g \in Groups /\ \A d \in Delays : g.children[d] \in Nat
    BY DEF GroupOK, Groups
  <2> QED
    BY <2>1, DelaysFinite, TotalIsFinite
<1> HIDE DEF T
<1>2. g \in G[0]
  BY <1>1 DEF T
<1>3. ASSUME NEW i \in 1 .. n, NEW h \in G[i - 1]
      PROVE  Add(h, i * v) \in G[i]
  <2>1. i - 1 \in 0 .. n /\ i \in 0 .. n /\ i * v \in Delays
    OBVIOUS
  <2>2. GroupOK(h) /\ Total(h.children, Delays) = T + (i - 1)
    BY <1>3, <2>1
  <2>3. /\ GroupOK(Add(h, i * v))
        /\ Total(Add(h, i * v).children, Delays) = T + (i - 1) + 1
    BY <2>1, <2>2, AddOK, AddCounts
  <2>4. Add(h, i * v) \in Groups
    BY <2>3 DEF GroupOK
  <2>5. T + (i - 1) + 1 = T + i
    BY <1>1
  <2> QED
    BY <2>1, <2>3, <2>4, <2>5
<1> HIDE DEF G
<1>4. AddProbes(g, v, n) \in G[n]
  BY <1>2, <1>3, AddedInduction
<1> QED
  BY <1>4 DEF G, T

(* The probes of the first window, and the one that an answer makes room for,
   have delays. *)
LEMMA WindowDelays ==
    ASSUME WInv
    PROVE  /\ \A i \in 1 .. InitialWindow : i * options.interval \in Delays
           /\ \A i \in 1 .. ToSend(data) : i * options.interval \in Delays
<1> DEFINE v == options.interval
           c == options.count
           w == InitialWindow
<1>1. /\ options \in OptionSets /\ v \in Nat \ {0} /\ c \in Nat /\ NetTimeout \in Nat \ {0}
      /\ data.num_sent \in Nat /\ data.num_sent <= c
  BY OptionTypes DEF WInv, Window, Counts
<1>2. w \in Nat /\ w <= c /\ (w - 1) * v < NetTimeout
  BY <1>1, InitialOK
<1>3. \A i \in 1 .. c : (i - 1) * v < NetTimeout => i * v \in Delays
  BY <1>1, WindowAssumption
<1>4. ToSend(data) \in {0, 1} /\ (ToSend(data) = 1 => c >= 1)
  <2>1. data.num_sent # c => c >= 1
    BY <1>1
  <2> QED
    BY <2>1 DEF ToSend
<1> HIDE DEF v, c, w
<1>5. ASSUME NEW i \in 1 .. w PROVE i * v \in Delays
  <2>1. i \in 1 .. c /\ i - 1 <= w - 1 /\ i - 1 \in Nat /\ w - 1 \in Nat
    BY <1>1, <1>2
  <2>2. (i - 1) * v <= (w - 1) * v
    BY <1>1, <2>1, SMT
  <2>3. (i - 1) * v \in Int /\ (w - 1) * v \in Int
    BY <1>1, <2>1, SMT
  <2>4. (i - 1) * v < NetTimeout
    BY <1>1, <1>2, <2>2, <2>3
  <2> QED
    BY <1>3, <2>1, <2>4
<1>6. ASSUME NEW i \in 1 .. ToSend(data) PROVE i * v \in Delays
  <2>1. i = 1 /\ c >= 1
    BY <1>4
  <2>2. 1 \in 1 .. c /\ (1 - 1) * v < NetTimeout
    BY <1>1, <2>1
  <2> QED
    BY <1>3, <2>1, <2>2
<1> QED
  BY <1>5, <1>6 DEF v, w

-----------------------------------------------------------------------------
(* Types *)

UserTypes == Answers \cup {"ALL_PROBES_SENT", "PRINT_STATISTICS", "HAS_TERMINATED"}

UserEvents == [type : UserTypes, copy : {Without} \cup {<<c>> : c \in Counts}]

TypeInv ==
    /\ WInv
    /\ GroupInv
    /\ pc \in {"run", "done", "null data"}
    /\ events \in Seq(Events)
    /\ live \in BOOLEAN
    /\ userq \in Seq(UserEvents)
    /\ flying \in Nat /\ lost \in Nat /\ terms \in Nat /\ since \in Nat
    /\ printed \in Seq(Counts)

Ended == <<Told("ALL_PROBES_SENT"), Told("HAS_TERMINATED")>>

LEMMA ToldTypes ==
    /\ \A a \in Answers : Told(a) \in UserEvents /\ <<Told(a)>> \in Seq(UserEvents)
    /\ Told("HAS_TERMINATED") \in UserEvents
    /\ Ended \in Seq(UserEvents) /\ Len(Ended) = 2
    /\ Ended[1] = Told("ALL_PROBES_SENT") /\ Ended[2] = Told("HAS_TERMINATED")
<1>1. \A t \in UserTypes : Told(t) \in UserEvents
  BY DEF Told, UserEvents
<1>2. /\ \A a \in Answers : Told(a) \in UserEvents
      /\ Told("ALL_PROBES_SENT") \in UserEvents /\ Told("HAS_TERMINATED") \in UserEvents
  BY <1>1 DEF UserTypes
<1> QED
  BY <1>2 DEF Ended

(* What ping_loop_handler does in the end. *)
LEMMA ConcludeEffect ==
    ASSUME TypeInv, NEW d \in Counts, NEW n \in Nat, \A i \in 1 .. n : i * options.interval \in Delays,
           NEW raised \in Seq(UserEvents), Conclude(d, n, raised)
    PROVE  /\ GroupOK(group') /\ Waiting' = Waiting + n
           /\ data' \in Counts
           /\ data'.num_sent = d.num_sent + n
           /\ data'.num_probes_in_flight = d.num_probes_in_flight + n
           /\ data'.num_replies = d.num_replies
           /\ data'.num_losses = d.num_losses
           /\ data'.rtt_results = d.rtt_results
           /\ userq' \in Seq(UserEvents)
           /\ n = 0 /\ Finished(d) => userq' = userq \o (raised \o Ended)
           /\ ~ (n = 0 /\ Finished(d)) => userq' = userq \o raised
<1>1. GroupOK(group) /\ userq \in Seq(UserEvents) /\ Waiting \in Nat
  <2>1. GroupOK(group) /\ userq \in Seq(UserEvents)
    BY DEF TypeInv, GroupInv
  <2>2. \A e \in Delays : group.children[e] \in Nat
    BY <2>1 DEF GroupOK, Groups
  <2> QED
    BY <2>1, <2>2, DelaysFinite, TotalIsFinite DEF Waiting
<1>2. /\ userq \o raised \in Seq(UserEvents)
      /\ raised \o Ended \in Seq(UserEvents)
      /\ userq \o (raised \o Ended) \in Seq(UserEvents)
      /\ (userq \o raised) \o Ended = userq \o (raised \o Ended)
  <2>1. PICK u, r, e : u = userq /\ r = raised /\ e = Ended
    OBVIOUS
  <2>2. u \in Seq(UserEvents) /\ r \in Seq(UserEvents) /\ e \in Seq(UserEvents)
    BY <1>1, <2>1, ToldTypes
  <2>3. u \o r \in Seq(UserEvents) /\ r \o e \in Seq(UserEvents)
    BY ONLY <2>2, ConcatProperties
  <2>4. u \o (r \o e) \in Seq(UserEvents)
    BY ONLY <2>2, <2>3, ConcatProperties
  <2>5. (u \o r) \o e = u \o (r \o e)
    BY ONLY <2>2
  <2> QED
    BY ONLY <2>1, <2>3, <2>4, <2>5
<1>3. CASE n > 0 /\ Send(d, n) /\ userq' = userq \o raised
  <2>1. /\ GroupOK(AddProbes(group, options.interval, n))
        /\ Total(AddProbes(group, options.interval, n).children, Delays)
             = Total(group.children, Delays) + n
    BY <1>1, ProbesAdded
  <2>2. GroupOK(group') /\ Waiting' = Waiting + n
    BY <1>3, <2>1 DEF Send, Waiting
  <2>3. data' = Sent(d, n) /\ ~ (n = 0)
    BY <1>3 DEF Send, Sent
  <2> QED
    BY <1>2, <1>3, <2>2, <2>3, SentCounts
<1>4. CASE /\ n = 0 /\ data' = d /\ UNCHANGED group
           /\ userq' = userq \o raised \o (IF Finished(d) THEN Ended ELSE << >>)
  <2>1. GroupOK(group') /\ Waiting' = Waiting + n
    BY <1>1, <1>4 DEF Waiting
  <2>2. d.num_sent \in Int /\ d.num_probes_in_flight \in Int
    BY DEF Counts
  <2>3. Finished(d) => userq' = userq \o (raised \o Ended)
    BY <1>2, <1>4
  <2>4. ~ Finished(d) => userq' = userq \o raised
    <3>1. ~ Finished(d) => userq' = (userq \o raised) \o << >>
      BY <1>4
    <3> QED
      BY <1>2, <3>1, ConcatEmptySeq
  <2>5. d.num_sent + n = d.num_sent /\ d.num_probes_in_flight + n = d.num_probes_in_flight
    BY <1>4, <2>2
  <2>6. userq' \in Seq(UserEvents)
    BY <1>2, <2>3, <2>4
  <2> QED
    BY <1>4, <2>1, <2>3, <2>4, <2>5, <2>6
<1> QED
  BY <1>3, <1>4 DEF Conclude, Ended

LEMMA InitEffect ==
    ASSUME TypeInv, HandleInit
    PROVE  /\ InitialWindow \in Nat
           /\ GroupOK(group') /\ Waiting' = Waiting + InitialWindow
           /\ data' \in Counts
           /\ data'.num_sent = InitialWindow
           /\ data'.num_probes_in_flight = InitialWindow
           /\ data'.num_replies = 0 /\ data'.num_losses = 0 /\ data'.rtt_results = 0
           /\ userq' \in Seq(UserEvents)
           /\ InitialWindow = 0 => userq' = userq \o Ended
           /\ InitialWindow # 0 => userq' = userq
<1> DEFINE n == InitialWindow
           none == << >>
<1>1. Conclude(NoCounters, n, none)
  BY DEF HandleInit
<1>2. n \in Nat /\ \A i \in 1 .. n : i * options.interval \in Delays
  BY InitialOK, WindowDelays DEF TypeInv, WInv
<1>3. /\ NoCounters \in Counts /\ NoCounters.num_sent = 0 /\ NoCounters.num_probes_in_flight = 0
      /\ NoCounters.num_replies = 0 /\ NoCounters.num_losses = 0 /\ NoCounters.rtt_results = 0
      /\ Finished(NoCounters)
  BY DEF NoCounters, Counts, Finished
<1>4. none \in Seq(UserEvents) /\ none \o Ended = Ended /\ userq \o none = userq
  BY EmptySeq, ConcatEmptySeq, ToldTypes DEF TypeInv
<1> HIDE DEF n, none
<1>5. /\ GroupOK(group') /\ Waiting' = Waiting + n
      /\ data' \in Counts
      /\ data'.num_sent = NoCounters.num_sent + n
      /\ data'.num_probes_in_flight = NoCounters.num_probes_in_flight + n
      /\ data'.num_replies = NoCounters.num_replies
      /\ data'.num_losses = NoCounters.num_losses
      /\ data'.rtt_results = NoCounters.rtt_results
      /\ userq' \in Seq(UserEvents)
      /\ n = 0 /\ Finished(NoCounters) => userq' = userq \o (none \o Ended)
      /\ ~ (n = 0 /\ Finished(NoCounters)) => userq' = userq \o none
  BY <1>1, <1>2, <1>3, <1>4, ConcludeEffect
<1> QED
  BY <1>2, <1>3, <1>4, <1>5 DEF n

LEMMA AnswerEffect ==
    ASSUME TypeInv, HandleAnswer
    PROVE  /\ Head(events) \in Answers /\ ToSend(data) \in Nat
           /\ GroupOK(group') /\ Waiting' = Waiting + ToSend(data)
           /\ data' \in Counts
           /\ data'.num_sent = data.num_sent + ToSend(data)
           /\ data'.num_probes_in_flight = data.num_probes_in_flight - 1 + ToSend(data)
           /\ data'.num_replies = data.num_replies + 1
           /\ data'.num_losses = data.num_losses + (IF Head(events) = "REPLY" THEN 0 ELSE 1)
           /\ data'.rtt_results = data.rtt_results
           /\ userq' \in Seq(UserEvents)
           /\ \/ userq' = userq \o <<Told(Head(events))>>
              \/ /\ ToSend(data) = 0 /\ data'.num_probes_in_flight = 0
                 /\ userq' = userq \o (<<Told(Head(events))>> \o Ended)
<1> DEFINE a == Head(events)
           n == ToSend(data)
           d == Counted(a)
           raised == <<Told(a)>>
<1>1. a \in Answers /\ Conclude(d, n, raised)
  BY DEF HandleAnswer, Take
<1>2. n \in Nat /\ \A i \in 1 .. n : i * options.interval \in Delays
  BY WindowDelays DEF TypeInv, ToSend
<1>3. /\ d \in Counts /\ d.num_sent = data.num_sent
      /\ d.num_probes_in_flight = data.num_probes_in_flight - 1
      /\ d.num_replies = data.num_replies + 1
      /\ d.num_losses = data.num_losses + (IF a = "REPLY" THEN 0 ELSE 1)
      /\ d.rtt_results = data.rtt_results
  BY CountedCounts DEF TypeInv, WInv, Window
<1>4. raised \in Seq(UserEvents)
  BY <1>1, ToldTypes
<1> HIDE DEF a, n, d, raised
<1>5. /\ GroupOK(group') /\ Waiting' = Waiting + n
      /\ data' \in Counts
      /\ data'.num_sent = d.num_sent + n
      /\ data'.num_probes_in_flight = d.num_probes_in_flight + n
      /\ data'.num_replies = d.num_replies
      /\ data'.num_losses = d.num_losses
      /\ data'.rtt_results = d.rtt_results
      /\ userq' \in Seq(UserEvents)
      /\ n = 0 /\ Finished(d) => userq' = userq \o (raised \o Ended)
      /\ ~ (n = 0 /\ Finished(d)) => userq' = userq \o raised
  BY <1>1, <1>2, <1>3, <1>4, ConcludeEffect
<1>6. \/ userq' = userq \o raised
      \/ n = 0 /\ data'.num_probes_in_flight = 0 /\ userq' = userq \o (raised \o Ended)
  <2>1. n = 0 /\ Finished(d) => data'.num_probes_in_flight = 0
    BY <1>5 DEF Finished
  <2> QED
    BY <1>5, <2>1
<1>7. data'.num_sent = data.num_sent + n /\ data'.num_probes_in_flight = data.num_probes_in_flight - 1 + n
  BY <1>3, <1>5
<1>8. /\ data'.num_replies = data.num_replies + 1
      /\ data'.num_losses = data.num_losses + (IF a = "REPLY" THEN 0 ELSE 1)
      /\ data'.rtt_results = data.rtt_results
  BY <1>3, <1>5
<1> QED
  BY <1>1, <1>2, <1>5, <1>6, <1>7, <1>8 DEF a, n, raised

(* TERM: the user gets a copy of the data. *)
Last(copy) == <<[type |-> "PRINT_STATISTICS", copy |-> copy], Told("HAS_TERMINATED")>>

LEMMA TermEffect ==
    ASSUME TypeInv, HandleTerm
    PROVE  \E copy \in {Without} \cup {<<c>> : c \in Counts} :
             /\ live => copy = <<data>>
             /\ ~ live => copy = Without
             /\ userq' = userq \o Last(copy)
             /\ Last(copy) \in Seq(UserEvents) /\ Len(Last(copy)) = 2
             /\ Last(copy)[1].type = "PRINT_STATISTICS" /\ Last(copy)[1].copy = copy
             /\ Last(copy)[2] = Told("HAS_TERMINATED")
<1> DEFINE copy == IF live THEN <<data>> ELSE Without
<1>1. data \in Counts /\ live \in BOOLEAN
  BY DEF TypeInv, WInv, Window
<1>2. copy \in {Without} \cup {<<c>> : c \in Counts}
  BY <1>1
<1>3. userq' = userq \o Last(copy)
  BY DEF HandleTerm, Last
<1>4. (live => copy = <<data>>) /\ (~ live => copy = Without)
  BY <1>1
<1> HIDE DEF copy
<1>5. [type |-> "PRINT_STATISTICS", copy |-> copy] \in UserEvents
  BY <1>2 DEF UserEvents, UserTypes
<1>6. /\ Last(copy) \in Seq(UserEvents) /\ Len(Last(copy)) = 2
      /\ Last(copy)[1].type = "PRINT_STATISTICS" /\ Last(copy)[1].copy = copy
      /\ Last(copy)[2] = Told("HAS_TERMINATED")
  BY <1>5, ToldTypes DEF Last
<1> QED
  BY <1>2, <1>3, <1>4, <1>6

LEMMA HeadTail ==
    ASSUME NEW E, NEW s \in Seq(E), s # << >>
    PROVE  /\ Head(s) \in E /\ Head(s) = s[1]
           /\ Tail(s) \in Seq(E) /\ Len(Tail(s)) = Len(s) - 1
           /\ Len(s) \in Nat \ {0}
           /\ \A i \in 1 .. Len(Tail(s)) : Tail(s)[i] = s[i + 1]
  BY HeadTailProperties, EmptySeq

(* What the actions leave alone. *)
LEMMA QueueSteps ==
    ASSUME [Next]_vars
    PROVE  /\ \/ HandleInit \/ HandleAnswer \/ Reported \/ Scheduled \/ ProcessSendq \/ Tick
              \/ UNCHANGED groupVars
           /\ \/ HandleInit \/ HandleAnswer \/ HandleAnswerWithoutData \/ HandleTerm
              \/ Terminate \/ (\E a \in Answers : Answer(a)) \/ UNCHANGED events
           /\ ProcessSendq \/ (\E a \in Answers : Answer(a)) \/ UNCHANGED <<flying, lost>>
           /\ Terminate \/ UNCHANGED terms
           /\ Scheduled \/ Tick \/ UNCHANGED since
           /\ UNCHANGED options
<1> USE DEF pingVars
<1>1. CASE Instance
  BY <1>1 DEF Instance, HandleInit, HandleAnswer, HandleAnswerWithoutData, HandleTerm
<1>2. CASE User
  BY <1>2 DEF User, UserReply, UserPrints, UserWithoutData, UserStatistics, UserTerminated,
              TakeUser
<1>3. CASE Terminate \/ Reported \/ Scheduled \/ ProcessSendq \/ Tick
  BY <1>3 DEF Terminate, Reported, Scheduled, ProcessSendq, Tick
<1>4. CASE \E a \in Answers : Answer(a)
  BY <1>4 DEF Answer
<1>5. CASE UNCHANGED vars
  BY <1>5 DEF vars
<1> QED
  BY <1>1, <1>2, <1>3, <1>4, <1>5 DEF Next

LEMMA DataSteps ==
    ASSUME [Next]_vars
    PROVE  /\ HandleInit \/ HandleAnswer \/ HandleTerm \/ UserReply \/ UNCHANGED data
           /\ HandleInit \/ HandleTerm \/ UNCHANGED live
           /\ HandleInit \/ HandleAnswer \/ HandleTerm \/ User \/ UNCHANGED userq
           /\ UserStatistics \/ UserTerminated \/ UNCHANGED printed
           /\ HandleAnswerWithoutData \/ UserWithoutData \/ UserTerminated \/ UNCHANGED pc
<1> USE DEF pingVars
<1>1. CASE Instance
  BY <1>1 DEF Instance, HandleInit, HandleAnswer, HandleAnswerWithoutData, HandleTerm
<1>2. CASE User
  BY <1>2 DEF User, UserReply, UserPrints, UserWithoutData, UserStatistics, UserTerminated,
              TakeUser
<1>3. CASE Terminate \/ Reported \/ Scheduled \/ ProcessSendq \/ Tick
  BY <1>3 DEF Terminate, Reported, Scheduled, ProcessSendq, Tick
<1>4. CASE \E a \in Answers : Answer(a)
  BY <1>4 DEF Answer
<1>5. CASE UNCHANGED vars
  BY <1>5 DEF vars
<1> QED
  BY <1>1, <1>2, <1>3, <1>4, <1>5 DEF Next

(* The user handler takes the first of its events. *)
LEMMA UserTakes ==
    ASSUME TypeInv, User
    PROVE  /\ pc = "run" /\ userq # << >> /\ userq' = Tail(userq)
           /\ Head(userq) = userq[1] /\ Head(userq) \in UserEvents
           /\ userq' \in Seq(UserEvents) /\ Len(userq') = Len(userq) - 1
           /\ Len(userq) \in Nat \ {0}
           /\ \A i \in 1 .. Len(userq') : userq'[i] = userq[i + 1]
<1>1. pc = "run" /\ userq # << >> /\ userq' = Tail(userq)
  BY DEF User, UserReply, UserPrints, UserWithoutData, UserStatistics, UserTerminated, TakeUser
<1> QED
  BY <1>1, HeadTail DEF TypeInv

LEMMA GroupStep ==
    ASSUME TypeInv, [Next]_vars
    PROVE  GroupInv'
<1> USE DEF GroupInv
<1>1. GroupOK(group) /\ reported \in BOOLEAN /\ sendq \in Nat
  BY DEF TypeInv
<1>2. CASE HandleInit \/ HandleAnswer
  BY <1>1, <1>2, InitEffect, AnswerEffect DEF HandleInit, HandleAnswer
<1>3. CASE Reported \/ Scheduled \/ ProcessSendq \/ Tick
  <2>1. [GroupNext]_groupVars
    BY <1>3 DEF Reported, Scheduled, ProcessSendq, Tick, GroupNext
  <2> QED
    BY <1>1, <2>1, StepOK
<1>4. CASE UNCHANGED groupVars
  BY <1>1, <1>4 DEF groupVars
<1> QED
  BY <1>2, <1>3, <1>4, QueueSteps

LEMMA EventsType ==
    ASSUME TypeInv, [Next]_vars
    PROVE  events' \in Seq(Events)
<1>1. events \in Seq(Events)
  BY DEF TypeInv
<1>2. CASE HandleInit \/ HandleAnswer \/ HandleAnswerWithoutData
  <2>1. events # << >> /\ events' = Tail(events)
    BY <1>2 DEF HandleInit, HandleAnswer, HandleAnswerWithoutData, Take
  <2> QED
    BY <1>1, <2>1, HeadTail
<1>3. CASE HandleTerm
  BY <1>3, EmptySeq DEF HandleTerm
<1>4. CASE Terminate \/ \E a \in Answers : Answer(a)
  <2>1. PICK e \in Events : events' = Append(events, e)
    BY <1>4 DEF Terminate, Answer, Events
  <2> QED
    BY <1>1, <2>1, AppendProperties
<1> QED
  BY <1>1, <1>2, <1>3, <1>4, QueueSteps

LEMMA PrintedType ==
    ASSUME TypeInv, [Next]_vars
    PROVE  printed' \in Seq(Counts)
<1>1. printed \in Seq(Counts) /\ data \in Counts
  BY DEF TypeInv, WInv, Window
<1>2. CASE UserStatistics
  <2>1. printed' = printed \o Head(userq).copy /\ Head(userq) \in UserEvents
    BY <1>2, UserTakes DEF UserStatistics, User
  <2>2. Head(userq).copy \in Seq(Counts)
    <3>1. Head(userq).copy \in {Without} \cup {<<c>> : c \in Counts}
      BY <2>1 DEF UserEvents
    <3>2. \A c \in Counts : <<c>> \in Seq(Counts)
      OBVIOUS
    <3>3. Without \in Seq(Counts)
      BY EmptySeq DEF Without
    <3> QED
      BY <3>1, <3>2, <3>3
  <2> QED
    BY <1>1, <2>1, <2>2, ConcatProperties
<1>3. CASE UserTerminated
  <2>1. printed' = Append(printed, data) \/ printed' = printed
    BY <1>3 DEF UserTerminated
  <2> QED
    BY <1>1, <2>1, AppendProperties
<1> QED
  BY <1>1, <1>2, <1>3, DataSteps

LEMMA UserqType ==
    ASSUME TypeInv, [Next]_vars
    PROVE  userq' \in Seq(UserEvents)
<1>1. CASE HandleTerm
  <2>1. PICK copy : userq' = userq \o Last(copy) /\ Last(copy) \in Seq(UserEvents)
    BY <1>1, TermEffect
  <2> QED
    BY <2>1, ConcatProperties DEF TypeInv
<1> QED
  BY <1>1, DataSteps, InitEffect, AnswerEffect, UserTakes DEF TypeInv

LEMMA TypeStep ==
    ASSUME TypeInv, [Next]_vars
    PROVE  TypeInv'
<1>1. WInv'
  BY StepWindow DEF TypeInv
<1>2. flying' \in Nat /\ lost' \in Nat
  <2>1. CASE ProcessSendq
    BY <2>1 DEF ProcessSendq, TypeInv
  <2>2. CASE \E a \in Answers : Answer(a)
    BY <2>2 DEF Answer, TypeInv
  <2> QED
    BY <2>1, <2>2, QueueSteps DEF TypeInv
<1>3. terms' \in Nat
  <2>1. CASE Terminate
    BY <2>1 DEF Terminate, TypeInv
  <2> QED
    BY <2>1, QueueSteps DEF TypeInv
<1>4. since' \in Nat
  <2>1. since \in Nat
    BY DEF TypeInv
  <2>2. CASE Scheduled
    <3>1. since' = 0 \/ since' = since
      BY <2>2 DEF Scheduled
    <3> QED
      BY <2>1, <3>1
  <2>3. CASE Tick
    <3>1. since' = since + 1 \/ since' = since
      BY <2>3 DEF Tick
    <3> QED
      BY <2>1, <3>1
  <2> QED
    BY <2>1, <2>2, <2>3, QueueSteps
<1>5. live' \in BOOLEAN
  <2>1. live' \in {TRUE, FALSE} \/ live' = live
    BY DataSteps DEF HandleInit, HandleTerm
  <2> QED
    BY <2>1 DEF TypeInv
<1>6. pc' \in {"run", "done", "null data"}
  BY DataSteps DEF HandleAnswerWithoutData, UserWithoutData, UserTerminated, TypeInv
<1> QED
  BY <1>1, <1>2, <1>3, <1>4, <1>5, <1>6, GroupStep, EventsType, PrintedType, UserqType
     DEF TypeInv

LEMMA InitTyped == Init => TypeInv
<1> SUFFICES ASSUME Init PROVE TypeInv
  OBVIOUS
<1>1. WInv /\ GroupInv
  BY InitWindow, InitOK DEF Init
<1>2. events \in Seq(Events)
  BY DEF Init, Events
<1>3. userq \in Seq(UserEvents) /\ printed \in Seq(Counts)
  BY EmptySeq DEF Init
<1> QED
  BY <1>1, <1>2, <1>3 DEF Init, TypeInv

-----------------------------------------------------------------------------
(* The probes on their way, wherever they are *)

OnTheWay == Waiting + sendq + flying + lost + Count(events, Answers)

LEMMA PartTypes ==
    ASSUME TypeInv
    PROVE  /\ Waiting \in Nat /\ sendq \in Nat /\ flying \in Nat /\ lost \in Nat
           /\ Count(events, Answers) \in Nat
<1>1. /\ GroupOK(group) /\ sendq \in Nat /\ flying \in Nat /\ lost \in Nat
      /\ events \in Seq(Events)
  BY DEF TypeInv, GroupInv
<1>2. \A e \in Delays : group.children[e] \in Nat
  BY <1>1 DEF GroupOK, Groups
<1>3. Waiting \in Nat
  BY <1>2, DelaysFinite, TotalIsFinite DEF Waiting
<1>4. 1 \in Nat \ {0}
  OBVIOUS
<1>5. Count(events, Answers) \in Nat
  BY <1>1, <1>4, CountType DEF Count
<1> QED
  BY <1>1, <1>3, <1>5

(* The instance takes an event. *)
LEMMA TakenAnswers ==
    ASSUME TypeInv, NEW T, Take(T)
    PROVE  /\ Head(events) \in T \cap Events /\ Head(events) = events[1]
           /\ Count(events, Answers) =
                Count(events', Answers) + (IF Head(events) \in Answers THEN 1 ELSE 0)
           /\ Len(events) \in Nat \ {0} /\ Len(events') = Len(events) - 1
           /\ \A k \in 1 .. Len(events') : events'[k] = events[k + 1]
<1>1. events \in Seq(Events) /\ events # << >> /\ events' = Tail(events) /\ Head(events) \in T
  BY DEF TypeInv, Take
<1> QED
  BY <1>1, HeadTail, CountTail

LEMMA OnTheWayStep ==
    ASSUME TypeInv, [Next]_vars
    PROVE  /\ HandleInit => OnTheWay' = OnTheWay + InitialWindow
           /\ HandleAnswer => OnTheWay' = OnTheWay - 1 + ToSend(data)
           /\ HandleInit \/ HandleAnswer \/ HandleAnswerWithoutData \/ HandleTerm
              \/ OnTheWay' = OnTheWay
<1> DEFINE c == Count(events, Answers)
<1>1. /\ Waiting \in Nat /\ sendq \in Nat /\ flying \in Nat /\ lost \in Nat
      /\ c \in Nat
  BY PartTypes
<1>2. Count(events', Answers) \in Nat
  <2>1. events' \in Seq(Events) /\ 1 \in Nat \ {0}
    BY EventsType
  <2> QED
    BY <2>1, CountType DEF Count
<1>3. OnTheWay = Waiting + sendq + flying + lost + c
  BY DEF OnTheWay
<1>4. OnTheWay' = Waiting' + sendq' + flying' + lost' + Count(events', Answers)
  BY DEF OnTheWay
<1>5. CASE HandleInit
  <2>1. Waiting' = Waiting + InitialWindow /\ InitialWindow \in Nat
    BY <1>5, InitEffect
  <2>2. sendq' = sendq /\ flying' = flying /\ lost' = lost /\ Take({"INIT"})
    BY <1>5 DEF HandleInit
  <2>3. Count(events', Answers) = c
    <3>1. Head(events) = "INIT" /\ c = Count(events', Answers) + (IF Head(events) \in Answers THEN 1 ELSE 0)
      BY <2>2, TakenAnswers
    <3>2. Head(events) \notin Answers
      BY <3>1 DEF Answers
    <3> HIDE DEF c
    <3> QED
      BY <1>2, <3>1, <3>2
  <2>4. OnTheWay' = OnTheWay + InitialWindow
    <3> HIDE DEF c
    <3> QED
      BY <1>1, <1>3, <1>4, <2>1, <2>2, <2>3
  <2> QED
    BY <1>5, <2>4 DEF HandleInit, HandleAnswer, Take, Answers
<1>6. CASE HandleAnswer
  <2>1. Waiting' = Waiting + ToSend(data) /\ ToSend(data) \in Nat
    BY <1>6, AnswerEffect
  <2>2. sendq' = sendq /\ flying' = flying /\ lost' = lost /\ Take(Answers)
    BY <1>6 DEF HandleAnswer
  <2>3. c = Count(events', Answers) + 1
    <3>1. Head(events) \in Answers /\ c = Count(events', Answers) + (IF Head(events) \in Answers THEN 1 ELSE 0)
      BY <2>2, TakenAnswers
    <3> QED
      BY <3>1
  <2>4. OnTheWay' = OnTheWay - 1 + ToSend(data)
    <3> HIDE DEF c
    <3> QED
      BY <1>1, <1>2, <1>3, <1>4, <2>1, <2>2, <2>3
  <2> QED
    BY <1>6, <2>4 DEF HandleInit, HandleAnswer, Take, Answers
<1>7. CASE Terminate
  <2>1. UNCHANGED <<group, sendq, flying, lost>> /\ events' = Append(events, "TERM")
    BY <1>7 DEF Terminate, groupVars
  <2>2. Count(events', Answers) = c
    <3>1. events \in Seq(Events) /\ "TERM" \in Events /\ "TERM" \notin Answers
      BY DEF TypeInv, Events, Answers
    <3>2. Count(events', Answers) = c + (IF "TERM" \in Answers THEN 1 ELSE 0)
      BY <2>1, <3>1, CountAppend
    <3> HIDE DEF c
    <3> QED
      BY <1>1, <3>1, <3>2
  <2>3. Waiting' = Waiting
    BY <2>1 DEF Waiting
  <2> QED
    BY <1>3, <1>4, <1>7, <2>1, <2>2, <2>3 DEF Terminate, HandleInit, HandleAnswer
<1>8. CASE \E a \in Answers : Answer(a)
  <2>1. PICK a \in Answers : Answer(a)
    BY <1>8
  <2>2. /\ UNCHANGED <<group, sendq, lost>> /\ flying' = flying - 1 /\ flying > 0
        /\ events' = Append(events, a)
    BY <2>1 DEF Answer, groupVars
  <2>3. Count(events', Answers) = c + 1
    <3>1. events \in Seq(Events) /\ a \in Events
      BY DEF TypeInv, Events
    <3> QED
      BY <2>2, <3>1, CountAppend
  <2>4. Waiting' = Waiting
    BY <2>2 DEF Waiting
  <2>5. OnTheWay' = OnTheWay
    <3> HIDE DEF c
    <3> QED
      BY <1>1, <1>3, <1>4, <2>2, <2>3, <2>4
  <2> QED
    BY <1>5, <1>6, <2>5
<1>9. CASE Scheduled
  <2>1. /\ group' = Fire(group) /\ sendq' = sendq + Fired(group)
        /\ UNCHANGED <<flying, lost, events>>
    BY <1>9 DEF Scheduled, ProcessScheduled
  <2>2. GroupOK(group) /\ Fired(group) \in Nat
    BY FireOK DEF TypeInv, GroupInv
  <2>3. Waiting = Waiting' + Fired(group) /\ Waiting' \in Nat
    <3>1. Waiting = Total(group'.children, Delays) + Fired(group)
      BY <2>1, <2>2, FireCounts DEF Waiting
    <3>2. GroupOK(group')
      BY GroupStep DEF GroupInv
    <3>3. \A e \in Delays : group'.children[e] \in Nat
      BY <3>2 DEF GroupOK, Groups
    <3>4. Total(group'.children, Delays) \in Nat
      BY <3>3, DelaysFinite, TotalIsFinite
    <3> QED
      BY <3>1, <3>4 DEF Waiting
  <2>4. OnTheWay' = OnTheWay
    <3>1. Count(events', Answers) = c
      BY <2>1
    <3> HIDE DEF c
    <3> QED
      BY <1>1, <1>3, <1>4, <2>1, <2>2, <2>3, <3>1
  <2> QED
    BY <1>5, <1>6, <2>4
<1>10. CASE ProcessSendq
  <2>1. /\ UNCHANGED <<group, events>> /\ sendq' = sendq - 1
        /\ \/ flying' = flying + 1 /\ lost' = lost
           \/ lost' = lost + 1 /\ flying' = flying
    BY <1>10 DEF ProcessSendq, PopSendq
  <2>2. Waiting' = Waiting /\ Count(events', Answers) = c
    BY <2>1 DEF Waiting
  <2>3. OnTheWay' = OnTheWay
    <3> HIDE DEF c
    <3> QED
      BY <1>1, <1>3, <1>4, <2>1, <2>2
  <2> QED
    BY <1>5, <1>6, <2>3
<1>11. CASE Reported \/ Tick
  <2>1. UNCHANGED <<sendq, flying, lost, events>> /\ group'.children = group.children
    <3>1. CASE Reported
      BY <3>1 DEF Reported, Report, pingVars
    <3>2. CASE Tick
      <4>1. group \in Groups
        BY DEF TypeInv, GroupInv, GroupOK
      <4>2. /\ UNCHANGED <<sendq, flying, lost, events>>
            /\ group' = [group EXCEPT !.timer = RunDown(@, 1)]
        BY <3>2 DEF Tick, GroupTick
      <4> QED
        BY <4>1, <4>2 DEF Groups
    <3> QED
      BY <1>11, <3>1, <3>2
  <2>2. Waiting' = Waiting
    BY <2>1 DEF Waiting
  <2>3. OnTheWay' = OnTheWay
    BY <1>3, <1>4, <2>1, <2>2
  <2> QED
    BY <1>5, <1>6, <2>3
<1>12. CASE UNCHANGED <<groupVars, flying, lost, events>>
  <2>1. OnTheWay' = OnTheWay
    BY <1>12 DEF OnTheWay, Waiting, groupVars
  <2> QED
    BY <1>5, <1>6, <2>1
<1>13. CASE HandleAnswerWithoutData \/ HandleTerm
  BY <1>5, <1>6, <1>13
<1>14. \/ HandleInit \/ HandleAnswer \/ Terminate \/ (\E a \in Answers : Answer(a)) \/ Scheduled
       \/ ProcessSendq \/ Reported \/ Tick \/ HandleAnswerWithoutData \/ HandleTerm
       \/ UNCHANGED <<groupVars, flying, lost, events>>
  BY QueueSteps
<1> QED
  BY <1>5, <1>6, <1>7, <1>8, <1>9, <1>10, <1>11, <1>12, <1>13, <1>14

(* INIT comes first: the instance has no data yet, and there is nothing on its
   way to it nor from it to the user. *)
InitFirst ==
    \A k \in 1 .. Len(events) : events[k] = "INIT" =>
        /\ k = 1
        /\ ~ live
        /\ OnTheWay = 0
        /\ userq = << >> /\ printed = << >>

LEMMA InitFirstStep ==
    ASSUME TypeInv, InitFirst, [Next]_vars
    PROVE  InitFirst'
<1>1. CASE HandleInit \/ HandleAnswer \/ HandleAnswerWithoutData
  <2>1. PICK T : Take(T)
    BY <1>1 DEF HandleInit, HandleAnswer, HandleAnswerWithoutData
  <2>2. /\ Len(events) \in Nat /\ Len(events') = Len(events) - 1
        /\ \A k \in 1 .. Len(events') : events'[k] = events[k + 1]
    BY <2>1, TakenAnswers
  <2>3. ASSUME NEW k \in 1 .. Len(events') PROVE events'[k] # "INIT"
    <3>1. k + 1 \in 1 .. Len(events) /\ k + 1 # 1 /\ events'[k] = events[k + 1]
      BY <2>2
    <3> QED
      BY <3>1 DEF InitFirst
  <2> QED
    BY <2>3 DEF InitFirst
<1>2. CASE HandleTerm
  <2>1. events' = << >>
    BY <1>2 DEF HandleTerm
  <2> QED
    BY <2>1 DEF InitFirst
<1>3. CASE Terminate \/ \E a \in Answers : Answer(a)
  <2>1. PICK a \in Events \ {"INIT"} :
          /\ events' = Append(events, a)
          /\ UNCHANGED <<live, userq, printed>>
    BY <1>3 DEF Terminate, Answer, Events, Answers
  <2>2. /\ Len(events) \in Nat
        /\ Len(events') = Len(events) + 1 /\ events'[Len(events) + 1] = a
        /\ \A k \in 1 .. Len(events) : events'[k] = events[k]
    <3>1. events \in Seq(Events) /\ a \in Events
      BY DEF TypeInv
    <3> QED
      BY <2>1, <3>1, AppendProperties
  <2>3. OnTheWay' = OnTheWay
    <3>1. ~ (HandleInit \/ HandleAnswer \/ HandleAnswerWithoutData)
      <4>1. ASSUME NEW T, Take(T) PROVE FALSE
        BY <2>2, <4>1, TakenAnswers
      <4> QED
        BY <4>1 DEF HandleInit, HandleAnswer, HandleAnswerWithoutData
    <3>2. ~ HandleTerm
      <4>1. events' # << >>
        BY <2>2
      <4> QED
        BY <4>1 DEF HandleTerm
    <3> QED
      BY <3>1, <3>2, OnTheWayStep
  <2>4. ASSUME NEW k \in 1 .. Len(events'), events'[k] = "INIT"
        PROVE  k \in 1 .. Len(events) /\ events[k] = "INIT"
    BY <2>1, <2>2, <2>4
  <2> QED
    BY <2>1, <2>2, <2>3, <2>4 DEF InitFirst
<1>4. CASE /\ ~ (HandleInit \/ HandleAnswer \/ HandleAnswerWithoutData \/ HandleTerm)
           /\ UNCHANGED events
  <2>1. ASSUME NEW k \in 1 .. Len(events), events[k] = "INIT"
        PROVE  k = 1 /\ ~ live /\ OnTheWay = 0 /\ userq = << >> /\ printed = << >>
    BY <2>1 DEF InitFirst
  <2>2. OnTheWay' = OnTheWay /\ UNCHANGED live
    BY <1>4, OnTheWayStep, DataSteps
  <2>3. ASSUME userq = << >> PROVE UNCHANGED <<userq, printed>>
    <3>1. ~ User
      BY <2>3, UserTakes
    <3> QED
      BY <1>4, <3>1, DataSteps DEF User
  <2> QED
    BY <1>4, <2>1, <2>2, <2>3 DEF InitFirst
<1> QED
  BY <1>1, <1>2, <1>3, <1>4, QueueSteps

FlightInv == TypeInv /\ InitFirst /\ InFlightExact

LEMMA InFlightStep ==
    ASSUME FlightInv, [Next]_vars
    PROVE  InFlightExact'
<1>1. TypeInv /\ InitFirst /\ (live => data.num_probes_in_flight = OnTheWay)
  BY DEF FlightInv, InFlightExact, OnTheWay
<1>2. OnTheWay \in Nat
  BY <1>1, PartTypes DEF OnTheWay
<1>3. CASE HandleInit
  <2>1. Take({"INIT"})
    BY <1>3 DEF HandleInit
  <2>2. Len(events) \in Nat \ {0} /\ events[1] = "INIT"
    BY <1>1, <2>1, TakenAnswers
  <2>3. OnTheWay = 0
    BY <1>1, <2>2 DEF InitFirst
  <2>4. /\ InitialWindow \in Nat /\ data'.num_probes_in_flight = InitialWindow
        /\ OnTheWay' = OnTheWay + InitialWindow
    BY <1>1, <1>3, InitEffect, OnTheWayStep
  <2>5. data'.num_probes_in_flight = OnTheWay'
    BY <2>3, <2>4
  <2> QED
    BY <2>5 DEF InFlightExact, OnTheWay
<1>4. CASE HandleAnswer
  <2>1. /\ live /\ data'.num_probes_in_flight = data.num_probes_in_flight - 1 + ToSend(data)
        /\ OnTheWay' = OnTheWay - 1 + ToSend(data)
    BY <1>1, <1>4, AnswerEffect, OnTheWayStep DEF HandleAnswer
  <2>2. data'.num_probes_in_flight = OnTheWay'
    BY <1>1, <2>1
  <2> QED
    BY <2>2 DEF InFlightExact, OnTheWay
<1>5. CASE HandleTerm \/ HandleAnswerWithoutData
  <2>1. ~ live'
    BY <1>5 DEF HandleTerm, HandleAnswerWithoutData
  <2> QED
    BY <2>1 DEF InFlightExact
<1>6. CASE ~ (HandleInit \/ HandleAnswer \/ HandleTerm \/ HandleAnswerWithoutData)
  <2>1. OnTheWay' = OnTheWay /\ UNCHANGED live
    BY <1>1, <1>6, OnTheWayStep, DataSteps
  <2>2. data'.num_probes_in_flight = data.num_probes_in_flight
    <3>1. CASE UserReply
      BY <1>1, <3>1 DEF UserReply, TypeInv, WInv, Window, Counts
    <3> QED
      BY <1>6, <3>1, DataSteps
  <2>3. live' => data'.num_probes_in_flight = OnTheWay'
    BY <1>1, <2>1, <2>2
  <2> QED
    BY <2>3 DEF InFlightExact, OnTheWay
<1> QED
  BY <1>3, <1>4, <1>5, <1>6

LEMMA InitFlight == Init => FlightInv
<1> SUFFICES ASSUME Init PROVE FlightInv
  OBVIOUS
<1>1. TypeInv
  BY InitTyped
<1>2. /\ group.children = [d \in Delays |-> 0] /\ events = <<"INIT">> /\ live = FALSE
      /\ sendq = 0 /\ flying = 0 /\ lost = 0 /\ userq = << >> /\ printed = << >>
  BY DEF Init, GroupInit, EmptyGroup
<1>3. Waiting = 0
  BY <1>2, TotalNone DEF Waiting
<1>4. Count(events, Answers) = 0
  <2>1. /\ events \in Seq(Events) /\ 1 \in Nat \ {0}
        /\ \A k \in 1 .. Len(events) : events[k] \notin Answers
    <3>1. events \in Seq(Events)
      BY <1>1 DEF TypeInv
    <3>2. "INIT" \notin Answers
      BY DEF Answers
    <3> QED
      BY <1>2, <3>1, <3>2
  <2> QED
    BY <2>1, CountNone DEF Count
<1>5. OnTheWay = 0
  BY <1>2, <1>3, <1>4 DEF OnTheWay
<1> QED
  BY <1>1, <1>2, <1>5 DEF FlightInv, InitFirst, InFlightExact

(* The counter of ping is exact: num_probes_in_flight is the number of the
   probes that wait in the group, are in the queue of the network layer or in
   flight, are lost, or have an answer in the queue of the instance, for any
   options and whatever the network does. *)
THEOREM ProbesInFlight == Spec => []InFlightExact
<1>1. FlightInv /\ [Next]_vars => FlightInv'
  <2>1. ASSUME FlightInv, [Next]_vars PROVE FlightInv'
    BY <2>1, TypeStep, InitFirstStep, InFlightStep DEF FlightInv
  <2>2. ASSUME FlightInv, UNCHANGED vars PROVE FlightInv'
    BY <2>1, <2>2
  <2> QED
    BY <2>1, <2>2
<1>2. FlightInv => InFlightExact
  BY DEF FlightInv
<1> QED
  BY <1>1, <1>2, InitFlight, PTL DEF Spec

-----------------------------------------------------------------------------
(* The statistics *)

Replied == Told("REPLY")

Ending(k) == userq[k].type = "HAS_TERMINATED"

Balanced(c) == c.num_replies = c.num_losses + c.rtt_results

(* As long as there are data, each answer counted is a loss, has given a
   round-trip time, or waits in the queue of the user to give one; and the
   end is announced once everything has been answered. *)
LiveStats ==
    live =>
        /\ data.num_replies = data.num_losses + data.rtt_results + Count(userq, {Replied})
        /\ data.num_replies + data.num_probes_in_flight = data.num_sent
        /\ printed = << >>
        /\ \A k \in 1 .. Len(userq) :
             /\ userq[k].copy = Without
             /\ Ending(k) =>
                  /\ data.num_probes_in_flight = 0 /\ data.num_sent = options.count
                  /\ \A j \in k + 1 .. Len(userq) : userq[j] # Replied

(* The copy that TERM makes is the only one, and balanced once the answers
   before it have been handled. *)
Copies ==
    \A k \in 1 .. Len(userq) : userq[k].copy # Without =>
        /\ printed = << >>
        /\ \A j \in 1 .. Len(userq) : userq[j].copy # Without => j = k
        /\ (\A j \in 1 .. k - 1 : userq[j] # Replied) => Balanced(userq[k].copy[1])

PrintedOnce == Len(printed) <= 1 /\ \A k \in 1 .. Len(printed) : Balanced(printed[k])

(* Nobody asks for the end. *)
Unasked ==
    terms = 0 =>
        /\ \A k \in 1 .. Len(events) : events[k] # "TERM"
        /\ ~ live => userq = << >> /\ events # << >> /\ events[1] = "INIT"
        /\ pc = "done" => Len(printed) = 1 /\ printed[1].num_replies = options.count

StatInv ==
    /\ FlightInv
    /\ pc = "run" => LiveStats /\ Copies
    /\ PrintedOnce
    /\ Unasked

(* An empty window is sent only by a ping of no probe. *)
LEMMA NoWindow ==
    ASSUME options \in OptionSets, InitialWindow = 0
    PROVE  options.count = 0
<1> DEFINE t == NetTimeout
           i == options.interval
           c == options.count
           q == (t + i - 1) \div i
<1>1. c \in Nat /\ i \in Nat \ {0} /\ t \in Nat \ {0}
  BY OptionTypes
<1>2. InitialWindow = Min({q, c})
  BY DEF InitialWindow
<1> HIDE DEF t, i, c
<1>3. q \in Nat /\ q # 0
  <2> DEFINE d == t + i - 1
             r == d % i
  <2>1. d \in Nat /\ d >= i
    BY <1>1
  <2> HIDE DEF d
  <2>2. q = d \div i
    BY DEF d
  <2>3. d \div i \in Nat /\ r \in 0 .. i - 1 /\ d = (d \div i) * i + r
    BY <1>1, <2>1, SMT
  <2> HIDE DEF q, r
  <2>4. q # 0
    <3>1. q = 0 => d = 0 * i + r
      BY <2>2, <2>3
    <3>2. 0 * i + r = r /\ r < i
      BY <1>1, <2>3, SMT
    <3> QED
      BY <1>1, <2>1, <3>1, <3>2
  <2> QED
    BY <2>2, <2>3, <2>4
<1> HIDE DEF q
<1>4. Min({q, c}) \in {q, c}
  BY <1>1, <1>3, MinOfTwo
<1> QED
  BY <1>2, <1>3, <1>4 DEF c

(* No answer is left once no probe is on its way. *)
LEMMA AnswerOnTheWay ==
    ASSUME FlightInv, HandleAnswer
    PROVE  live /\ data.num_probes_in_flight # 0
<1>1. TypeInv /\ live /\ Take(Answers) /\ data.num_probes_in_flight = OnTheWay
  BY DEF FlightInv, InFlightExact, OnTheWay, HandleAnswer
<1> DEFINE c == Count(events, Answers)
<1>2. Waiting \in Nat /\ sendq \in Nat /\ flying \in Nat /\ lost \in Nat /\ c \in Nat
  BY <1>1, PartTypes
<1>3. c # 0
  <2>1. /\ events \in Seq(Events) /\ 1 \in Nat \ {0}
        /\ events[1] \in Answers /\ Len(events) \in Nat \ {0}
    <3>1. events \in Seq(Events)
      BY <1>1 DEF TypeInv
    <3> QED
      BY <1>1, <3>1, TakenAnswers
  <2>2. 1 \in 1 .. Len(events)
    BY <2>1
  <2> QED
    BY <2>1, <2>2, CountNone DEF Count
<1>4. OnTheWay = Waiting + sendq + flying + lost + c
  BY DEF OnTheWay
<1> HIDE DEF c
<1> QED
  BY <1>1, <1>2, <1>3, <1>4

LEMMA RepliedCounts ==
    ASSUME NEW s \in Seq(UserEvents)
    PROVE  /\ Count(s, {Replied}) \in Nat
           /\ Count(s, {Replied}) = 0 <=> \A k \in 1 .. Len(s) : s[k] # Replied
<1>1. 1 \in Nat \ {0}
  OBVIOUS
<1>2. Count(s, {Replied}) \in Nat
  BY <1>1, CountType DEF Count
<1>3. CountFrom(s, 1, {Replied}) = 0 <=> \A k \in 1 .. Len(s) : s[k] \notin {Replied}
  BY <1>1, CountNone
<1> QED
  BY <1>2, <1>3 DEF Count

LEMMA CountEmpty ==
    ASSUME NEW V
    PROVE  Count(<< >>, V) = 0
<1>1. \A k \in 1 .. Len(<< >>) : FALSE
  OBVIOUS
<1>2. {k \in 1 .. Len(<< >>) : << >>[k] \in V} = {}
  BY <1>1
<1> QED
  BY <1>2, FS_EmptySet DEF Count, CountFrom

(* What is told of an answer, and of the end. *)
LEMMA ToldCounts ==
    /\ Replied.type = "REPLY" /\ Replied.copy = Without
    /\ \A a \in Answers : Count(<<Told(a)>>, {Replied}) = IF a = "REPLY" THEN 1 ELSE 0
    /\ Count(Ended, {Replied}) = 0
    /\ \A a \in Answers : Told(a).type = a /\ Told(a).copy = Without
    /\ Ended[1] # Replied /\ Ended[1].type # "HAS_TERMINATED" /\ Ended[1].copy = Without
    /\ Ended[2] # Replied /\ Ended[2].type = "HAS_TERMINATED" /\ Ended[2].copy = Without
<1>1. \A t \in UserTypes : Told(t).type = t /\ Told(t).copy = Without
  BY DEF Told
<1>2. \A t \in UserTypes : Told(t) = Replied <=> t = "REPLY"
  BY DEF Told, Replied
<1>3. Answers \subseteq UserTypes /\ "ALL_PROBES_SENT" \in UserTypes /\ "HAS_TERMINATED" \in UserTypes
  BY DEF UserTypes
<1>4. Ended[1] = Told("ALL_PROBES_SENT") /\ Ended[2] = Told("HAS_TERMINATED")
      /\ Ended \in Seq(UserEvents) /\ Len(Ended) = 2
  BY ToldTypes
<1>5. ASSUME NEW a \in Answers
      PROVE  Count(<<Told(a)>>, {Replied}) = IF a = "REPLY" THEN 1 ELSE 0
  <2> DEFINE e == Told(a)
  <2>1. PICK none : none = << >>
    OBVIOUS
  <2>2. e \in UserEvents /\ none \in Seq(UserEvents) /\ <<e>> = Append(none, e)
    BY <2>1, ToldTypes, EmptySeq
  <2>3. e \in {Replied} <=> a = "REPLY"
    BY <1>2, <1>3
  <2> HIDE DEF e
  <2>4. Count(<<e>>, {Replied}) = Count(none, {Replied}) + (IF e \in {Replied} THEN 1 ELSE 0)
    <3>1. PICK V : V = {Replied}
      OBVIOUS
    <3>2. Count(Append(none, e), V) = Count(none, V) + (IF e \in V THEN 1 ELSE 0)
      BY <2>2, CountAppend
    <3> QED
      BY <2>2, <3>1, <3>2
  <2>5. Count(<<e>>, {Replied}) = IF a = "REPLY" THEN 1 ELSE 0
    BY <2>1, <2>3, <2>4, CountEmpty
  <2> QED
    BY <2>5 DEF e
<1>6. Ended[1] # Replied /\ Ended[2] # Replied
  BY <1>2, <1>3, <1>4
<1>7. \A k \in 1 .. Len(Ended) : Ended[k] # Replied
  BY <1>4, <1>6
<1>8. Count(Ended, {Replied}) = 0
  BY <1>4, <1>7, RepliedCounts
<1>9. Replied.type = "REPLY" /\ Replied.copy = Without
  BY DEF Replied, Told
<1> QED
  BY <1>1, <1>3, <1>4, <1>5, <1>6, <1>8, <1>9

LEMMA LiveInit ==
    ASSUME FlightInv, HandleInit
    PROVE  LiveStats'
<1>1. TypeInv /\ Take({"INIT"})
  BY DEF FlightInv, HandleInit
<1>2. userq = << >> /\ printed = << >>
  <2>1. Len(events) \in Nat \ {0} /\ events[1] = "INIT"
    BY <1>1, TakenAnswers
  <2> QED
    BY <2>1 DEF FlightInv, InitFirst
<1> DEFINE n == InitialWindow
<1>3. /\ n \in Nat
      /\ data'.num_sent = n /\ data'.num_probes_in_flight = n
      /\ data'.num_replies = 0 /\ data'.num_losses = 0 /\ data'.rtt_results = 0
      /\ n = 0 => userq' = userq \o Ended
      /\ n # 0 => userq' = userq
  BY <1>1, InitEffect
<1>4. options' = options /\ printed' = << >> /\ options \in OptionSets
  BY <1>1, <1>2 DEF HandleInit, TypeInv, WInv
<1>5. n = 0 => options.count = 0
  BY <1>4, NoWindow
<1> HIDE DEF n
<1>6. data'.num_replies + data'.num_probes_in_flight = data'.num_sent
  BY <1>3
<1>7. CASE n = 0
  <2>1. userq' = Ended /\ Ended \in Seq(UserEvents) /\ Len(Ended) = 2
    BY <1>2, <1>3, <1>7, ToldTypes, ConcatEmptySeq
  <2>2. Count(userq', {Replied}) = 0
    BY <2>1, ToldCounts
  <2>3. data'.num_replies = data'.num_losses + data'.rtt_results + Count(userq', {Replied})
    BY <1>3, <2>2
  <2>4. ASSUME NEW k \in 1 .. Len(userq')
        PROVE  /\ userq'[k].copy = Without
               /\ data'.num_probes_in_flight = 0 /\ data'.num_sent = options'.count
               /\ userq'[k] # Replied
    <3>1. k = 1 \/ k = 2
      BY <2>1
    <3> QED
      BY <1>3, <1>4, <1>5, <1>7, <2>1, <3>1, ToldCounts
  <2>5. ASSUME NEW k \in 1 .. Len(userq'), NEW j \in k + 1 .. Len(userq')
        PROVE  userq'[j] # Replied
    BY <2>1, <2>4
  <2> QED
    BY <1>4, <1>6, <2>3, <2>4, <2>5 DEF LiveStats
<1>8. CASE n # 0
  <2>1. userq' = << >>
    BY <1>2, <1>3, <1>8
  <2>2. Count(userq', {Replied}) = 0
    BY <2>1, CountEmpty
  <2>3. data'.num_replies = data'.num_losses + data'.rtt_results + Count(userq', {Replied})
    BY <1>3, <2>2
  <2> QED
    BY <1>4, <1>6, <2>1, <2>3 DEF LiveStats
<1> QED
  BY <1>7, <1>8

(* What an answer tells the user. *)
LEMMA AnswerTells ==
    ASSUME TypeInv, HandleAnswer
    PROVE  \E t \in Seq(UserEvents) :
             /\ userq' = userq \o t
             /\ Count(t, {Replied}) = IF Head(events) = "REPLY" THEN 1 ELSE 0
             /\ \A k \in 1 .. Len(t) :
                  /\ t[k].copy = Without
                  /\ t[k].type = "HAS_TERMINATED" =>
                       /\ k = Len(t)
                       /\ ToSend(data) = 0 /\ data'.num_probes_in_flight = 0
<1> DEFINE a == Head(events)
           e == Told(a)
<1>1. /\ a \in Answers
      /\ \/ userq' = userq \o <<e>>
         \/ /\ ToSend(data) = 0 /\ data'.num_probes_in_flight = 0
            /\ userq' = userq \o (<<e>> \o Ended)
  BY AnswerEffect
<1>2. /\ <<e>> \in Seq(UserEvents) /\ Ended \in Seq(UserEvents) /\ Len(Ended) = 2
      /\ Count(<<e>>, {Replied}) = (IF a = "REPLY" THEN 1 ELSE 0) /\ Count(Ended, {Replied}) = 0
      /\ e.type # "HAS_TERMINATED" /\ e.copy = Without
  <2>1. Told(a).type = a /\ a # "HAS_TERMINATED"
    BY <1>1, ToldCounts DEF Answers
  <2> QED
    BY <1>1, <2>1, ToldTypes, ToldCounts
<1> HIDE DEF e
<1>3. CASE userq' = userq \o <<e>>
  <2>1. PICK s : s = <<e>>
    OBVIOUS
  <2>2. s \in Seq(UserEvents) /\ \A k \in 1 .. Len(s) : s[k] = e
    BY <1>2, <2>1
  <2>3. userq' = userq \o s /\ Count(s, {Replied}) = IF a = "REPLY" THEN 1 ELSE 0
    BY <1>2, <1>3, <2>1
  <2> QED
    BY <1>2, <2>2, <2>3
<1>4. CASE /\ ToSend(data) = 0 /\ data'.num_probes_in_flight = 0
           /\ userq' = userq \o (<<e>> \o Ended)
  <2> DEFINE t == <<e>> \o Ended
  <2>1. PICK s : s = <<e>>
    OBVIOUS
  <2>2. s \in Seq(UserEvents) /\ Len(s) = 1 /\ s[1] = e
    BY <1>2, <2>1
  <2>3. /\ t \in Seq(UserEvents) /\ Len(t) = 3
        /\ t[1] = e /\ t[2] = Ended[1] /\ t[3] = Ended[2]
    <3>1. /\ s \o Ended \in Seq(UserEvents) /\ Len(s \o Ended) = 3
          /\ \A i \in 1 .. 3 : (s \o Ended)[i] = IF i <= 1 THEN s[i] ELSE Ended[i - 1]
      <4>1. /\ s \o Ended \in Seq(UserEvents) /\ Len(s \o Ended) = Len(s) + Len(Ended)
            /\ \A i \in 1 .. Len(s) + Len(Ended) :
                 (s \o Ended)[i] = IF i <= Len(s) THEN s[i] ELSE Ended[i - Len(s)]
        BY ONLY <1>2, <2>2, ConcatProperties
      <4> QED
        BY <1>2, <2>2, <4>1
    <3>2. (s \o Ended)[1] = s[1] /\ (s \o Ended)[2] = Ended[1] /\ (s \o Ended)[3] = Ended[2]
      BY <3>1
    <3> QED
      BY <2>1, <2>2, <3>1, <3>2
  <2>4. Count(t, {Replied}) = IF a = "REPLY" THEN 1 ELSE 0
    <3>1. PICK V : V = {Replied}
      OBVIOUS
    <3>2. Count(s \o Ended, V) = Count(s, V) + Count(Ended, V)
      BY <1>2, <2>2, CountConcat
    <3> QED
      BY <1>2, <2>1, <3>1, <3>2
  <2> HIDE DEF t, a
  <2>5. ASSUME NEW k \in 1 .. Len(t)
        PROVE  t[k].copy = Without /\ (t[k].type = "HAS_TERMINATED" => k = Len(t))
    <3>1. k = 1 \/ k = 2 \/ k = 3
      BY <2>3
    <3> QED
      BY <1>2, <2>3, <3>1, ToldCounts
  <2> QED
    BY <1>4, <2>3, <2>4, <2>5 DEF t, a
<1> QED
  BY <1>1, <1>3, <1>4

LEMMA BalanceKept ==
    ASSUME NEW d \in Counts, NEW e \in Counts, NEW c \in Nat, NEW p \in Nat, NEW n \in Nat,
           NEW l \in {0, 1},
           d.num_replies = d.num_losses + d.rtt_results + c,
           d.num_replies + d.num_probes_in_flight = d.num_sent,
           e.num_sent = d.num_sent + n,
           e.num_probes_in_flight = d.num_probes_in_flight - 1 + n,
           e.num_replies = d.num_replies + 1,
           e.num_losses = d.num_losses + l,
           e.rtt_results = d.rtt_results,
           p = c + 1 - l
    PROVE  /\ e.num_replies = e.num_losses + e.rtt_results + p
           /\ e.num_replies + e.num_probes_in_flight = e.num_sent
<1>1. /\ d.num_replies \in Nat /\ d.num_losses \in Nat /\ d.rtt_results \in Nat
      /\ d.num_probes_in_flight \in Int /\ d.num_sent \in Nat
  BY DEF Counts
<1>2. PICK a \in Nat, b \in Nat, f \in Int, g \in Nat :
        a = d.num_losses /\ b = d.rtt_results /\ f = d.num_probes_in_flight /\ g = d.num_sent
  BY <1>1
<1>3. d.num_replies = a + b + c /\ a + b + c + f = g
  BY <1>2
<1>4. e.num_replies = a + b + c + 1 /\ e.num_losses = a + l /\ e.rtt_results = b
  BY <1>2, <1>3
<1>5. e.num_probes_in_flight = f - 1 + n /\ e.num_sent = g + n
  BY <1>2
<1>6. l \in Int
  OBVIOUS
<1>7. a + b + c + 1 = a + l + b + p
  BY <1>6
<1>8. a + b + c + 1 + (f - 1 + n) = g + n
  BY <1>3
<1> QED
  BY <1>4, <1>5, <1>7, <1>8

LEMMA LiveAnswer ==
    ASSUME FlightInv, LiveStats, HandleAnswer
    PROVE  LiveStats'
<1> DEFINE a == Head(events)
           n == ToSend(data)
           m == Len(userq)
<1>1. TypeInv /\ live /\ userq \in Seq(UserEvents) /\ m \in Nat /\ data \in Counts
      /\ options' = options
  <2>1. TypeInv /\ live /\ options' = options
    BY DEF FlightInv, HandleAnswer
  <2>2. userq \in Seq(UserEvents) /\ data \in Counts
    BY <2>1 DEF TypeInv, WInv, Window
  <2> QED
    BY <2>1, <2>2
<1>2. /\ data.num_replies = data.num_losses + data.rtt_results + Count(userq, {Replied})
      /\ data.num_replies + data.num_probes_in_flight = data.num_sent
      /\ printed' = << >>
      /\ \A k \in 1 .. m : userq[k].copy = Without /\ ~ Ending(k)
  BY <1>1, AnswerOnTheWay DEF LiveStats, HandleAnswer
<1>3. /\ n \in Nat /\ data'.num_sent = data.num_sent + n
      /\ data'.num_probes_in_flight = data.num_probes_in_flight - 1 + n
      /\ data'.num_replies = data.num_replies + 1
      /\ data'.num_losses = data.num_losses + (IF a = "REPLY" THEN 0 ELSE 1)
      /\ data'.rtt_results = data.rtt_results
  BY <1>1, AnswerEffect
<1>4. PICK t \in Seq(UserEvents) :
             /\ userq' = userq \o t
             /\ Count(t, {Replied}) = IF a = "REPLY" THEN 1 ELSE 0
             /\ \A k \in 1 .. Len(t) :
                  /\ t[k].copy = Without
                  /\ t[k].type = "HAS_TERMINATED" =>
                       /\ k = Len(t)
                       /\ n = 0 /\ data'.num_probes_in_flight = 0
  BY <1>1, AnswerTells
<1>5. /\ Len(t) \in Nat /\ Len(userq') = m + Len(t)
      /\ \A k \in 1 .. m + Len(t) : userq'[k] = IF k <= m THEN userq[k] ELSE t[k - m]
  BY <1>1, <1>4, ConcatProperties
<1>6. Count(userq', {Replied}) = Count(userq, {Replied}) + Count(t, {Replied})
  <2>1. PICK V : V = {Replied}
    OBVIOUS
  <2>2. Count(userq \o t, V) = Count(userq, V) + Count(t, V)
    BY <1>1, CountConcat
  <2> QED
    BY <1>4, <2>1, <2>2
<1>7. n = 0 => data.num_sent = options.count
  BY DEF ToSend
<1>8. data.num_sent \in Nat /\ Count(userq, {Replied}) \in Nat /\ data' \in Counts
  BY <1>1, RepliedCounts, AnswerEffect DEF Counts
<1> HIDE DEF a, n, m
<1>9. /\ data'.num_replies = data'.num_losses + data'.rtt_results + Count(userq', {Replied})
      /\ data'.num_replies + data'.num_probes_in_flight = data'.num_sent
  <2>1. PICK l \in {0, 1} : l = IF a = "REPLY" THEN 0 ELSE 1
    OBVIOUS
  <2>2. PICK c \in Nat : c = Count(userq, {Replied})
    BY <1>8
  <2>3. PICK p \in Nat : p = Count(userq', {Replied}) /\ p = c + 1 - l
    <3>1. Count(userq', {Replied}) = c + 1 - l /\ c + 1 - l \in Nat
      BY <1>4, <1>6, <2>1, <2>2 DEF a
    <3> QED
      BY <3>1
  <2>4. /\ data'.num_replies = data'.num_losses + data'.rtt_results + p
        /\ data'.num_replies + data'.num_probes_in_flight = data'.num_sent
    <3>1. /\ data.num_replies = data.num_losses + data.rtt_results + c
          /\ data.num_replies + data.num_probes_in_flight = data.num_sent
      BY <1>2, <2>2
    <3>2. data'.num_losses = data.num_losses + l
      BY <1>3, <2>1
    <3>3. PICK d \in Counts, e \in Counts, x \in Nat : d = data /\ e = data' /\ x = n
      BY ONLY <1>1, <1>3, <1>8
    <3>4. /\ d.num_replies = d.num_losses + d.rtt_results + c
          /\ d.num_replies + d.num_probes_in_flight = d.num_sent
          /\ e.num_sent = d.num_sent + x
          /\ e.num_probes_in_flight = d.num_probes_in_flight - 1 + x
          /\ e.num_replies = d.num_replies + 1
          /\ e.num_losses = d.num_losses + l
          /\ e.rtt_results = d.rtt_results
      BY ONLY <1>3, <3>1, <3>2, <3>3
    <3>5. e.num_replies = e.num_losses + e.rtt_results + p /\ e.num_replies + e.num_probes_in_flight = e.num_sent
      BY ONLY <2>3, <3>4, BalanceKept
    <3> QED
      BY ONLY <3>3, <3>5
  <2> QED
    BY <2>3, <2>4
<1>10. ASSUME NEW k \in 1 .. Len(userq')
       PROVE  /\ userq'[k].copy = Without
              /\ userq'[k].type = "HAS_TERMINATED" =>
                   /\ k = Len(userq')
                   /\ data'.num_probes_in_flight = 0 /\ data'.num_sent = options'.count
  <2>1. CASE k <= m
    <3>1. k \in 1 .. m /\ userq'[k] = userq[k]
      BY <1>1, <1>5, <2>1 DEF m
    <3> QED
      BY <1>2, <3>1 DEF Ending
  <2>2. CASE ~ (k <= m)
    <3>1. k - m \in 1 .. Len(t) /\ userq'[k] = t[k - m]
      BY <1>1, <1>5, <2>2 DEF m
    <3>2. k - m = Len(t) => k = Len(userq')
      BY <1>1, <1>5 DEF m
    <3>3. n = 0 => data'.num_sent = options'.count
      BY <1>1, <1>3, <1>7, <1>8
    <3> QED
      BY <1>4, <3>1, <3>2, <3>3
  <2> QED
    BY <2>1, <2>2
<1>11. ASSUME NEW k \in 1 .. Len(userq'), userq'[k].type = "HAS_TERMINATED",
              NEW j \in k + 1 .. Len(userq')
       PROVE  FALSE
  BY <1>1, <1>5, <1>10, <1>11 DEF m
<1> QED
  BY <1>2, <1>9, <1>10, <1>11 DEF LiveStats, Ending

(* The first event of the user and the answers that wait behind it. *)
LEMMA RepliesTaken ==
    ASSUME TypeInv, User
    PROVE  /\ Head(userq) = Replied <=> Head(userq).type = "REPLY" /\ Head(userq).copy = Without
           /\ Count(userq, {Replied}) =
                Count(userq', {Replied}) + (IF Head(userq) = Replied THEN 1 ELSE 0)
           /\ Count(userq, {Replied}) \in Nat /\ Count(userq', {Replied}) \in Nat
<1>1. /\ userq \in Seq(UserEvents) /\ userq # << >> /\ userq' = Tail(userq)
      /\ Head(userq) \in UserEvents /\ userq' \in Seq(UserEvents)
  BY UserTakes DEF TypeInv
<1>2. Head(userq) = Replied <=> Head(userq).type = "REPLY" /\ Head(userq).copy = Without
  <2>1. \A h \in UserEvents : h = Replied <=> h.type = "REPLY" /\ h.copy = Without
    BY DEF UserEvents, Replied, Told
  <2> QED
    BY <1>1, <2>1
<1>3. Count(userq, {Replied}) =
        Count(userq', {Replied}) + (IF Head(userq) = Replied THEN 1 ELSE 0)
  <2>1. PICK V : V = {Replied}
    OBVIOUS
  <2>2. Count(userq, V) = Count(Tail(userq), V) + (IF Head(userq) \in V THEN 1 ELSE 0)
    BY <1>1, CountTail
  <2>3. Head(userq) \in V <=> Head(userq) = Replied
    BY <2>1
  <2> QED
    BY <1>1, <2>1, <2>2, <2>3
<1> QED
  BY <1>1, <1>2, <1>3, RepliedCounts

LEMMA LiveUser ==
    ASSUME FlightInv, LiveStats, live, User, pc' = "run"
    PROVE  LiveStats'
<1>1. /\ TypeInv /\ options' = options
      /\ UserReply \/ UserPrints \/ UserStatistics
  <2>1. TypeInv /\ options' = options
    BY DEF FlightInv, User, UserReply, UserPrints, UserWithoutData, UserStatistics,
           UserTerminated, TakeUser
  <2>2. ~ UserWithoutData /\ ~ UserTerminated
    BY DEF UserWithoutData, UserTerminated
  <2> QED
    BY <2>1, <2>2 DEF User
<1>2. /\ Head(userq) = userq[1] /\ Len(userq) \in Nat \ {0} /\ Len(userq') = Len(userq) - 1
      /\ \A k \in 1 .. Len(userq') : userq'[k] = userq[k + 1]
  BY <1>1, UserTakes
<1>3. /\ data.num_replies = data.num_losses + data.rtt_results + Count(userq, {Replied})
      /\ data.num_replies + data.num_probes_in_flight = data.num_sent
      /\ printed = << >>
      /\ \A k \in 1 .. Len(userq) :
           /\ userq[k].copy = Without
           /\ Ending(k) =>
                /\ data.num_probes_in_flight = 0 /\ data.num_sent = options.count
                /\ \A j \in k + 1 .. Len(userq) : userq[j] # Replied
  BY DEF LiveStats
<1>4. Head(userq).copy = Without
  <2>1. 1 \in 1 .. Len(userq)
    BY <1>2
  <2> QED
    BY <1>2, <1>3, <2>1
<1>5. ASSUME NEW k \in 1 .. Len(userq')
      PROVE  /\ userq'[k].copy = Without
             /\ userq'[k].type = "HAS_TERMINATED" =>
                  /\ data.num_probes_in_flight = 0 /\ data.num_sent = options.count
                  /\ \A j \in k + 1 .. Len(userq') : userq'[j] # Replied
  <2>1. k + 1 \in 1 .. Len(userq) /\ userq'[k] = userq[k + 1]
    BY <1>2
  <2>2. ASSUME NEW j \in k + 1 .. Len(userq')
        PROVE  j + 1 \in (k + 1) + 1 .. Len(userq) /\ userq'[j] = userq[j + 1]
    BY <1>2
  <2> QED
    BY <1>3, <2>1, <2>2 DEF Ending
<1>6. data \in Counts
  BY <1>1 DEF TypeInv, WInv, Window
<1>7. printed' = << >>
  <2>1. CASE UserStatistics
    BY <1>3, <1>4, <2>1 DEF UserStatistics, Without
  <2> QED
    BY <1>1, <1>3, <2>1 DEF UserReply, UserPrints
<1>8. CASE UserReply
  <2>1. /\ Count(userq, {Replied}) = Count(userq', {Replied}) + 1
        /\ Count(userq, {Replied}) \in Nat /\ Count(userq', {Replied}) \in Nat
    <3>1. Head(userq).type = "REPLY"
      BY <1>8 DEF UserReply, TakeUser
    <3> QED
      BY <1>1, <1>4, <3>1, RepliesTaken
  <2>2. /\ data'.rtt_results = data.rtt_results + 1
        /\ data'.num_replies = data.num_replies /\ data'.num_losses = data.num_losses
        /\ data'.num_sent = data.num_sent
        /\ data'.num_probes_in_flight = data.num_probes_in_flight
    BY <1>6, <1>8 DEF UserReply, Counts
  <2>3. data'.num_replies = data'.num_losses + data'.rtt_results + Count(userq', {Replied})
    <3>1. data.num_losses \in Nat /\ data.rtt_results \in Nat
      BY <1>6 DEF Counts
    <3>2. PICK c, d : c = Count(userq, {Replied}) /\ d = Count(userq', {Replied})
      OBVIOUS
    <3>3. c = d + 1 /\ c \in Nat /\ d \in Nat
      BY ONLY <2>1, <3>2
    <3>4. data.num_replies = data.num_losses + data.rtt_results + c
      BY ONLY <1>3, <3>2
    <3>5. data'.num_replies = data'.num_losses + data'.rtt_results + d
      BY ONLY <2>2, <3>1, <3>3, <3>4
    <3> QED
      BY ONLY <3>2, <3>5
  <2> QED
    BY <1>1, <1>3, <1>5, <1>7, <2>2, <2>3 DEF LiveStats, Ending
<1>9. CASE UserPrints \/ UserStatistics
  <2>1. data' = data /\ Head(userq).type # "REPLY"
    BY <1>9 DEF UserPrints, UserStatistics, TakeUser
  <2>2. Count(userq', {Replied}) = Count(userq, {Replied})
    BY <1>1, <2>1, RepliesTaken
  <2> QED
    BY <1>1, <1>3, <1>5, <1>7, <2>1, <2>2 DEF LiveStats, Ending
<1> QED
  BY <1>1, <1>8, <1>9

LEMMA LiveStep ==
    ASSUME StatInv, [Next]_vars, pc' = "run"
    PROVE  LiveStats'
<1>1. FlightInv /\ (pc = "run" => LiveStats)
  BY DEF StatInv
<1>2. CASE HandleInit
  BY <1>1, <1>2, LiveInit
<1>3. CASE HandleAnswer
  BY <1>1, <1>3, LiveAnswer DEF HandleAnswer, Take
<1>4. CASE HandleTerm
  BY <1>4 DEF HandleTerm, LiveStats
<1>5. CASE User
  <2>1. UNCHANGED live /\ pc = "run"
    BY <1>5 DEF User, UserReply, UserPrints, UserWithoutData, UserStatistics,
                UserTerminated, TakeUser
  <2>2. CASE live
    BY <1>1, <1>5, <2>1, <2>2, LiveUser
  <2>3. CASE ~ live
    BY <2>1, <2>3 DEF LiveStats
  <2> QED
    BY <2>2, <2>3
<1>6. CASE ~ (HandleInit \/ HandleAnswer \/ HandleTerm \/ User)
  <2>1. UNCHANGED <<live, data, userq, printed, options>> /\ (live => pc = "run")
    <3>1. UNCHANGED <<live, data, userq, printed, options>>
      BY <1>6, DataSteps, QueueSteps DEF User
    <3>2. UNCHANGED pc \/ HandleAnswerWithoutData
      BY <1>6, DataSteps DEF User
    <3> QED
      BY <3>1, <3>2 DEF HandleAnswerWithoutData
  <2> QED
    BY <1>1, <2>1 DEF LiveStats, Ending
<1> QED
  BY <1>2, <1>3, <1>4, <1>5, <1>6

LEMMA CopiesStep ==
    ASSUME StatInv, [Next]_vars, pc' = "run"
    PROVE  Copies'
<1>1. FlightInv /\ TypeInv /\ userq \in Seq(UserEvents) /\ (pc = "run" => LiveStats /\ Copies)
  BY DEF StatInv, FlightInv, TypeInv
<1>2. CASE live'
  <2>1. \A k \in 1 .. Len(userq') : userq'[k].copy = Without
    BY <1>2, LiveStep DEF LiveStats
  <2> QED
    BY <2>1 DEF Copies
<1>3. CASE HandleTerm
  <2>1. pc = "run" /\ printed' = printed
    BY <1>3 DEF HandleTerm
  <2>2. PICK copy \in {Without} \cup {<<c>> : c \in Counts} :
             /\ live => copy = <<data>>
             /\ ~ live => copy = Without
             /\ userq' = userq \o Last(copy)
             /\ Last(copy) \in Seq(UserEvents) /\ Len(Last(copy)) = 2
             /\ Last(copy)[1].type = "PRINT_STATISTICS" /\ Last(copy)[1].copy = copy
             /\ Last(copy)[2] = Told("HAS_TERMINATED")
    BY <1>1, <1>3, TermEffect
  <2> DEFINE m == Len(userq)
             t == Last(copy)
  <2>3. /\ m \in Nat /\ Len(userq') = m + 2
        /\ \A k \in 1 .. m + 2 : userq'[k] = IF k <= m THEN userq[k] ELSE t[k - m]
    <3>1. t \in Seq(UserEvents) /\ Len(t) = 2 /\ userq' = userq \o t
      BY <2>2
    <3> HIDE DEF t
    <3>2. PICK u : u = userq
      OBVIOUS
    <3>3. /\ Len(u \o t) = Len(u) + Len(t)
          /\ \A k \in 1 .. Len(u) + Len(t) : (u \o t)[k] = IF k <= Len(u) THEN u[k] ELSE t[k - Len(u)]
      BY ONLY <1>1, <3>1, <3>2, ConcatProperties
    <3>4. Len(u) \in Nat
      BY ONLY <1>1, <3>2, LenProperties
    <3> QED
      BY ONLY <3>1, <3>2, <3>3, <3>4
  <2>4. t[1].copy = copy /\ t[2].copy = Without
    BY <2>2 DEF Told
  <2> HIDE DEF t
  <2>5. /\ \A k \in 1 .. m : userq'[k] = userq[k]
        /\ userq'[m + 1] = t[1] /\ userq'[m + 2] = t[2]
        /\ \A k \in 1 .. Len(userq') : k \in 1 .. m \/ k = m + 1 \/ k = m + 2
    BY <2>3
  <2>6. CASE live
    <3>1. /\ printed = << >>
          /\ \A k \in 1 .. m : userq[k].copy = Without
          /\ data.num_replies = data.num_losses + data.rtt_results + Count(userq, {Replied})
      BY <1>1, <2>1, <2>6 DEF LiveStats
    <3>2. ASSUME NEW k \in 1 .. Len(userq'), userq'[k].copy # Without
          PROVE  k = m + 1
      BY <2>4, <2>5, <3>1, <3>2
    <3>3. ASSUME \A j \in 1 .. m : userq'[j] # Replied
          PROVE  Balanced(userq'[m + 1].copy[1])
      <4>1. Count(userq, {Replied}) = 0
        BY <1>1, <2>5, <3>3, RepliedCounts
      <4>2. data \in Counts
        BY <1>1 DEF TypeInv, WInv, Window
      <4>3. Balanced(data)
        BY <3>1, <4>1, <4>2 DEF Balanced, Counts
      <4>4. userq'[m + 1].copy = <<data>>
        BY <2>2, <2>4, <2>5, <2>6
      <4> QED
        BY <4>3, <4>4
    <3>4. ASSUME NEW k \in 1 .. Len(userq'), userq'[k].copy # Without,
                 \A j \in 1 .. k - 1 : userq'[j] # Replied
          PROVE  Balanced(userq'[k].copy[1])
      <4>1. k = m + 1 /\ 1 .. k - 1 = 1 .. m
        BY <2>3, <3>2, <3>4
      <4> QED
        BY <3>3, <3>4, <4>1
    <3> QED
      BY <2>1, <3>1, <3>2, <3>4 DEF Copies
  <2>7. CASE ~ live
    <3>1. copy = Without
      BY <2>2, <2>7
    <3>2. ASSUME NEW k \in 1 .. Len(userq'), userq'[k].copy # Without
          PROVE  k \in 1 .. m /\ userq[k].copy # Without
      BY <2>4, <2>5, <3>1, <3>2
    <3>3. ASSUME NEW k \in 1 .. Len(userq'), userq'[k].copy # Without
          PROVE  /\ printed = << >>
                 /\ \A j \in 1 .. Len(userq') : userq'[j].copy # Without => j = k
                 /\ (\A j \in 1 .. k - 1 : userq'[j] # Replied) => Balanced(userq'[k].copy[1])
      <4>1. k \in 1 .. m /\ userq[k].copy # Without /\ Copies
        BY <1>1, <2>1, <3>2, <3>3
      <4>2. /\ printed = << >>
            /\ \A j \in 1 .. m : userq[j].copy # Without => j = k
            /\ (\A j \in 1 .. k - 1 : userq[j] # Replied) => Balanced(userq[k].copy[1])
        BY <4>1 DEF Copies
      <4>3. \A j \in 1 .. k - 1 : j \in 1 .. m
        BY <2>3, <4>1
      <4> QED
        BY <2>5, <3>2, <4>1, <4>2, <4>3
    <3> QED
      BY <2>1, <3>3 DEF Copies
  <2> QED
    BY <2>6, <2>7
<1>4. CASE User /\ ~ live'
  <2>1. ~ live /\ pc = "run" /\ (UserPrints \/ UserStatistics)
    BY <1>4 DEF User, UserReply, UserPrints, UserWithoutData, UserStatistics,
                UserTerminated, TakeUser
  <2>2. /\ Head(userq) = userq[1] /\ Len(userq) \in Nat \ {0} /\ Len(userq') = Len(userq) - 1
        /\ \A k \in 1 .. Len(userq') : userq'[k] = userq[k + 1]
    BY <1>1, <1>4, UserTakes
  <2>3. userq[1] # Replied
    <3>1. Head(userq).type # "REPLY"
      BY <2>1 DEF UserPrints, UserStatistics, TakeUser
    <3> QED
      BY <1>1, <1>4, <2>2, <3>1, RepliesTaken
  <2>4. ASSUME NEW k \in 1 .. Len(userq'), userq'[k].copy # Without
        PROVE  /\ printed' = << >>
               /\ \A j \in 1 .. Len(userq') : userq'[j].copy # Without => j = k
               /\ (\A j \in 1 .. k - 1 : userq'[j] # Replied) => Balanced(userq'[k].copy[1])
    <3>1. k + 1 \in 1 .. Len(userq) /\ userq'[k] = userq[k + 1] /\ 1 \in 1 .. Len(userq)
      BY <2>2
    <3>2. /\ printed = << >>
          /\ \A j \in 1 .. Len(userq) : userq[j].copy # Without => j = k + 1
          /\ (\A j \in 1 .. k : userq[j] # Replied) => Balanced(userq[k + 1].copy[1])
      <4>1. (k + 1) - 1 = k
        BY <2>2
      <4>2. Copies
        BY <1>1, <2>1
      <4> QED
        BY <2>4, <3>1, <4>1, <4>2 DEF Copies
    <3>3. userq[1].copy = Without
      BY <3>1, <3>2
    <3>4. printed' = << >>
      BY <2>1, <2>2, <3>2, <3>3 DEF UserPrints, UserStatistics, Without
    <3>5. ASSUME NEW j \in 1 .. Len(userq'), userq'[j].copy # Without
          PROVE  j = k
      <4>1. j + 1 \in 1 .. Len(userq) /\ userq[j + 1] = userq'[j]
        BY ONLY <2>2
      <4>2. j + 1 = k + 1
        BY ONLY <3>2, <3>5, <4>1
      <4>3. j \in Int /\ k \in Int
        BY ONLY <2>2
      <4> QED
        BY ONLY <4>2, <4>3
    <3>6. ASSUME \A j \in 1 .. k - 1 : userq'[j] # Replied
          PROVE  \A j \in 1 .. k : userq[j] # Replied
      <4>1. ASSUME NEW j \in 1 .. k, j # 1 PROVE userq[j] # Replied
        <5>1. j - 1 \in 1 .. k - 1 /\ userq'[j - 1] = userq[j]
          BY <2>2, <4>1
        <5> QED
          BY <3>6, <5>1
      <4> QED
        BY <2>3, <4>1
    <3> QED
      BY <3>1, <3>2, <3>4, <3>5, <3>6
  <2> QED
    BY <2>4 DEF Copies
<1>5. CASE ~ (live' \/ HandleTerm \/ User)
  <2>1. ~ HandleInit /\ ~ HandleAnswer
    BY <1>5 DEF HandleInit, HandleAnswer
  <2>2. UNCHANGED <<userq, printed>> /\ pc = "run"
    <3>1. UNCHANGED <<userq, printed>>
      BY <1>5, <2>1, DataSteps DEF User
    <3>2. UNCHANGED pc \/ HandleAnswerWithoutData
      BY <1>5, DataSteps DEF User
    <3> QED
      BY <3>1, <3>2 DEF HandleAnswerWithoutData
  <2> QED
    BY <1>1, <2>2 DEF Copies
<1> QED
  BY <1>2, <1>3, <1>4, <1>5

(* The last event of the user finds the counters of a ping that has ended. *)
LEMMA EndBalanced ==
    ASSUME StatInv, UserTerminated, live
    PROVE  /\ printed = << >> /\ printed' = <<data>>
           /\ Balanced(data)
           /\ data.num_replies = options.count
<1>1. FlightInv /\ TypeInv /\ User /\ userq \in Seq(UserEvents) /\ data \in Counts
  BY DEF StatInv, FlightInv, TypeInv, WInv, Window, User
<1>2. /\ pc = "run" /\ Head(userq).type = "HAS_TERMINATED"
      /\ printed' = Append(printed, data)
  BY DEF UserTerminated, TakeUser
<1>3. Head(userq) = userq[1] /\ Len(userq) \in Nat \ {0}
  BY <1>1, UserTakes
<1>4. /\ data.num_replies = data.num_losses + data.rtt_results + Count(userq, {Replied})
      /\ data.num_replies + data.num_probes_in_flight = data.num_sent
      /\ printed = << >>
      /\ \A k \in 1 .. Len(userq) : Ending(k) =>
           /\ data.num_probes_in_flight = 0 /\ data.num_sent = options.count
           /\ \A j \in k + 1 .. Len(userq) : userq[j] # Replied
  BY <1>2 DEF StatInv, LiveStats
<1>5. 1 \in 1 .. Len(userq) /\ Ending(1) /\ userq[1] # Replied
  BY <1>2, <1>3, ToldCounts DEF Ending
<1>6. /\ data.num_probes_in_flight = 0 /\ data.num_sent = options.count
      /\ \A j \in 1 .. Len(userq) : userq[j] # Replied
  <2>1. \A j \in 1 + 1 .. Len(userq) : userq[j] # Replied
    BY <1>4, <1>5
  <2>2. \A j \in 1 .. Len(userq) : j = 1 \/ j \in 1 + 1 .. Len(userq)
    BY <1>3
  <2> QED
    BY <1>4, <1>5, <2>1, <2>2
<1>7. Count(userq, {Replied}) = 0
  BY <1>1, <1>6, RepliedCounts
<1>8. /\ data.num_replies \in Nat /\ data.num_losses \in Nat /\ data.rtt_results \in Nat
  BY <1>1 DEF Counts
<1> QED
  BY <1>2, <1>4, <1>6, <1>7, <1>8 DEF Balanced

LEMMA PrintedStep ==
    ASSUME StatInv, [Next]_vars
    PROVE  PrintedOnce'
<1>1. FlightInv /\ TypeInv /\ PrintedOnce /\ (pc = "run" => LiveStats /\ Copies)
  BY DEF StatInv, FlightInv
<1>2. CASE UserStatistics
  <2>1. /\ User /\ pc = "run" /\ printed' = printed \o Head(userq).copy
    BY <1>2 DEF User, UserStatistics, TakeUser
  <2>2. Head(userq) = userq[1] /\ Len(userq) \in Nat \ {0} /\ Head(userq) \in UserEvents
    BY <1>1, <2>1, UserTakes
  <2>3. CASE Head(userq).copy = Without
    <3>1. printed \in Seq(Counts)
      BY <1>1 DEF TypeInv
    <3>2. printed' = printed
      BY <2>1, <2>3, <3>1, ConcatEmptySeq DEF Without
    <3> QED
      BY <1>1, <3>2 DEF PrintedOnce
  <2>4. CASE Head(userq).copy # Without
    <3>1. PICK c \in Counts : Head(userq).copy = <<c>>
      BY <2>2, <2>4 DEF UserEvents
    <3>2. 1 \in 1 .. Len(userq) /\ 1 .. 1 - 1 = {}
      BY <2>2
    <3>3. printed = << >> /\ Balanced(c)
      BY <1>1, <2>1, <2>2, <2>4, <3>1, <3>2 DEF Copies
    <3>4. printed' = <<c>>
      <4>1. <<c>> \in Seq(Counts)
        OBVIOUS
      <4> QED
        BY <2>1, <3>1, <3>3, <4>1, ConcatEmptySeq
    <3> QED
      BY <3>3, <3>4 DEF PrintedOnce
  <2> QED
    BY <2>3, <2>4
<1>3. CASE UserTerminated /\ live
  <2>1. printed' = <<data>> /\ Balanced(data)
    BY <1>3, EndBalanced
  <2>2. PICK s, d : s = <<d>> /\ d = data
    OBVIOUS
  <2>3. Len(s) = 1 /\ s[1] = d /\ printed' = s /\ Balanced(d)
    BY <2>1, <2>2
  <2> QED
    BY <2>3 DEF PrintedOnce
<1>4. CASE ~ UserStatistics /\ ~ (UserTerminated /\ live)
  <2>1. UNCHANGED printed
    <3>1. CASE UserTerminated
      BY <1>4, <3>1 DEF UserTerminated
    <3> QED
      BY <1>4, <3>1, DataSteps
  <2> QED
    BY <1>1, <2>1 DEF PrintedOnce
<1> QED
  BY <1>2, <1>3, <1>4

LEMMA UnaskedStep ==
    ASSUME StatInv, [Next]_vars
    PROVE  Unasked'
<1> SUFFICES ASSUME terms' = 0
             PROVE  /\ \A k \in 1 .. Len(events') : events'[k] # "TERM"
                    /\ ~ live' => userq' = << >> /\ events' # << >> /\ events'[1] = "INIT"
                    /\ pc' = "done" => Len(printed') = 1 /\ printed'[1].num_replies = options'.count
  BY DEF Unasked
<1>1. FlightInv /\ TypeInv /\ options' = options /\ events \in Seq(Events)
  BY QueueSteps DEF StatInv, FlightInv, TypeInv
<1>2. ~ Terminate /\ terms = 0
  <2>1. terms \in Nat
    BY <1>1 DEF TypeInv
  <2>2. ~ Terminate
    BY <2>1 DEF Terminate
  <2> QED
    BY <2>2, QueueSteps
<1>3. /\ \A k \in 1 .. Len(events) : events[k] # "TERM"
      /\ ~ live => userq = << >> /\ events # << >> /\ events[1] = "INIT"
      /\ pc = "done" => Len(printed) = 1 /\ printed[1].num_replies = options.count
  BY <1>2 DEF StatInv, Unasked
<1>4. ~ HandleTerm
  <2>1. ASSUME HandleTerm PROVE FALSE
    <3>1. Take({"TERM"}) \/ (events # << >> /\ Head(events) = "TERM")
      BY <2>1 DEF HandleTerm
    <3>2. Len(events) \in Nat \ {0} /\ events[1] = "TERM"
      BY <1>1, <2>1, HeadTail DEF HandleTerm
    <3>3. 1 \in 1 .. Len(events)
      BY <3>2
    <3> QED
      BY <1>3, <3>2, <3>3
  <2> QED
    BY <2>1
<1>5. ~ HandleAnswerWithoutData
  <2>1. ASSUME HandleAnswerWithoutData PROVE FALSE
    <3>1. Take(Answers) /\ ~ live
      BY <2>1 DEF HandleAnswerWithoutData
    <3>2. events[1] \in Answers /\ events[1] = "INIT"
      BY <1>1, <1>3, <3>1, TakenAnswers
    <3> QED
      BY <3>2 DEF Answers
  <2> QED
    BY <2>1
<1>6. ASSUME ~ live PROVE ~ User
  BY <1>1, <1>3, <1>6, UserTakes
<1>7. \A k \in 1 .. Len(events') : events'[k] # "TERM"
  <2>1. CASE HandleInit \/ HandleAnswer
    <3>1. PICK T : Take(T)
      BY <2>1 DEF HandleInit, HandleAnswer
    <3>2. /\ Len(events) \in Nat /\ Len(events') = Len(events) - 1
          /\ \A k \in 1 .. Len(events') : events'[k] = events[k + 1]
      BY <1>1, <3>1, TakenAnswers
    <3>3. \A k \in 1 .. Len(events') : k + 1 \in 1 .. Len(events)
      BY <3>2
    <3> QED
      BY <1>3, <3>2, <3>3
  <2>2. CASE \E a \in Answers : Answer(a)
    <3>1. PICK a \in Answers : events' = Append(events, a)
      BY <2>2 DEF Answer
    <3>2. a \in Events /\ a # "TERM"
      BY DEF Events, Answers
    <3>3. /\ Len(events) \in Nat /\ Len(events') = Len(events) + 1
          /\ events'[Len(events) + 1] = a
          /\ \A k \in 1 .. Len(events) : events'[k] = events[k]
      BY <1>1, <3>1, <3>2, AppendProperties
    <3> QED
      BY <1>3, <3>2, <3>3
  <2> QED
    BY <1>2, <1>3, <1>4, <1>5, <2>1, <2>2, QueueSteps
<1>8. ASSUME ~ live' PROVE userq' = << >> /\ events' # << >> /\ events'[1] = "INIT"
  <2>1. ~ live /\ ~ HandleInit /\ ~ HandleAnswer
    <3>1. ~ HandleInit /\ ~ HandleAnswer
      BY <1>8 DEF HandleInit, HandleAnswer
    <3> QED
      BY <1>4, <1>8, <3>1, DataSteps
  <2>2. userq = << >> /\ events # << >> /\ events[1] = "INIT" /\ ~ User
    BY <1>3, <1>6, <2>1
  <2>3. userq' = userq
    BY <1>4, <2>1, <2>2, DataSteps
  <2>4. CASE \E a \in Answers : Answer(a)
    <3>1. PICK a \in Events : events' = Append(events, a)
      BY <2>4 DEF Answer, Events
    <3>2. /\ Len(events) \in Nat \ {0} /\ Len(events') = Len(events) + 1
          /\ \A k \in 1 .. Len(events) : events'[k] = events[k]
      BY <1>1, <2>2, <3>1, HeadTail, AppendProperties
    <3>3. events' # << >> /\ 1 \in 1 .. Len(events)
      BY <3>2
    <3> QED
      BY <2>2, <2>3, <3>2, <3>3
  <2> QED
    BY <1>2, <1>4, <1>5, <2>1, <2>2, <2>3, <2>4, QueueSteps
<1>9. ASSUME pc' = "done"
      PROVE  Len(printed') = 1 /\ printed'[1].num_replies = options'.count
  <2>1. CASE UserTerminated
    <3>1. live
      BY <1>6, <2>1 DEF User
    <3>2. printed' = <<data>> /\ data.num_replies = options.count
      BY <2>1, <3>1, EndBalanced
    <3>3. PICK s, d : s = <<d>> /\ d = data
      OBVIOUS
    <3>4. Len(s) = 1 /\ s[1] = d /\ printed' = s /\ d.num_replies = options.count
      BY <3>2, <3>3
    <3> QED
      BY <1>1, <3>4
  <2>2. CASE ~ UserTerminated
    <3>1. pc = "done"
      BY <1>5, <1>9, <2>2, DataSteps DEF UserWithoutData
    <3>2. ~ UserStatistics
      BY <3>1 DEF UserStatistics, TakeUser
    <3>3. printed' = printed
      BY <2>2, <3>2, DataSteps
    <3> QED
      BY <1>1, <1>3, <3>1, <3>3
  <2> QED
    BY <2>1, <2>2
<1> QED
  BY <1>7, <1>8, <1>9

LEMMA InitStat == Init => StatInv
<1> SUFFICES ASSUME Init PROVE StatInv
  OBVIOUS
<1>1. /\ events = <<"INIT">> /\ live = FALSE /\ userq = << >> /\ printed = << >>
      /\ pc = "run"
  BY DEF Init
<1>2. LiveStats /\ Copies /\ PrintedOnce
  BY <1>1 DEF LiveStats, Copies, PrintedOnce
<1>3. Unasked
  <2>1. events # << >> /\ events[1] = "INIT" /\ \A k \in 1 .. Len(events) : events[k] # "TERM"
    BY <1>1
  <2> QED
    BY <1>1, <2>1 DEF Unasked
<1> QED
  BY <1>2, <1>3, InitFlight DEF StatInv

(* What ping prints is right: every answer that the printed counters hold is a
   loss or has a round-trip time, however far the user handler was behind when
   TERM came; nothing is printed twice; and a ping that nobody stops prints the
   statistics of count probes. *)
THEOREM StatisticsAreRight == Spec => []StatisticsRight
<1>1. StatInv /\ [Next]_vars => StatInv'
  <2>1. ASSUME StatInv, [Next]_vars PROVE StatInv'
    <3>1. FlightInv'
      BY <2>1, TypeStep, InitFirstStep, InFlightStep DEF StatInv, FlightInv
    <3> QED
      BY <2>1, <3>1, LiveStep, CopiesStep, PrintedStep, UnaskedStep DEF StatInv
  <2> QED
    BY <2>1
<1>2. StatInv => StatisticsRight
  BY DEF StatInv, PrintedOnce, Balanced, Unasked, StatisticsRight
<1> QED
  BY <1>1, <1>2, InitStat, PTL DEF Spec

-----------------------------------------------------------------------------
(* The firings of the timer of the group *)

(* The intervals hold whole seconds: of a fraction, itimerspec_set_delay keeps
   a thousandth (see Timer). *)
WholeIntervals == \A o \in OptionSets : \E k \in Nat : o.interval = k * Second

Multiple(d, v) == \E k \in Nat : d = k * v

(* The delays that the group computes with. *)
SpacedDelays(g, v) ==
    /\ \A d \in Waits(g.children) : Multiple(d, v)
    /\ Multiple(g.last_delay, v)

(* The timer does not expire before an interval is over. *)
Spaced ==
    /\ SpacedDelays(group, options.interval)
    /\ group.timer # Off => group.timer + since >= options.interval
    /\ reported => since >= options.interval

LEMMA ArmedForSeconds ==
    ASSUME NEW n \in Nat \ {0}
    PROVE  ArmedFor(n * Second) = n * Second
<1> USE TimerAssumption
<1> DEFINE d == n * Second
           q == d \div Second
           m == d % Second
           z == (0 + FracDiv - 1) \div FracDiv
<1>1. d \in Nat /\ d >= Second
  <2>1. d \in Nat
    BY SMT
  <2>2. n * Second >= 1 * Second
    BY SMT
  <2> QED
    BY <2>1, <2>2
<1>2. z = 0
  <2>1. z \in Nat /\ z <= 0
    BY RoundedUp
  <2> HIDE DEF z
  <2> QED
    BY <2>1
<1> HIDE DEF d
<1>3. q \in Nat /\ m \in 0 .. Second - 1 /\ d = q * Second + m
  BY <1>1, DivMod
<1> HIDE DEF q, m
<1>4. q = n
  <2>1. ASSUME q < n PROVE FALSE
    <3>1. n * Second >= (q + 1) * Second
      BY <1>3, <2>1, SMT
    <3>2. (q + 1) * Second = q * Second + Second
      BY <1>3, SMT
    <3>3. q * Second \in Int /\ n * Second \in Int
      BY <1>3, SMT
    <3> QED
      BY <1>3, <3>1, <3>2, <3>3 DEF d
  <2>2. ASSUME q > n PROVE FALSE
    <3>1. q * Second >= (n + 1) * Second
      BY <1>3, <2>2, SMT
    <3>2. (n + 1) * Second = n * Second + Second
      BY SMT
    <3>3. q * Second \in Int /\ n * Second \in Int
      BY <1>3, SMT
    <3> QED
      BY <1>3, <3>1, <3>2, <3>3 DEF d
  <2> QED
    BY <1>3, <2>1, <2>2
<1>5. m = 0
  <2>1. q * Second \in Int /\ q * Second = d
    BY <1>3, <1>4, SMT DEF d
  <2> QED
    BY <1>1, <1>3, <2>1
<1>6. ArmedFor(d) = q * Second + z
  <2>1. d # 0
    BY <1>1
  <2>2. ArmedFor(d) = q * Second + ((m + FracDiv - 1) \div FracDiv)
    BY <2>1 DEF ArmedFor, q, m
  <2> QED
    BY <1>5, <2>2
<1>7. q * Second + z = d
  BY <1>1, <1>2, <1>3, <1>5
<1> QED
  BY <1>6, <1>7 DEF d

(* The difference of two delays is an interval at least, if it is positive. *)
LEMMA MultiplesApart ==
    ASSUME NEW v \in Nat \ {0}, Multiple(v, Second), NEW d \in Nat, NEW l \in Nat,
           Multiple(d, v), Multiple(l, v), d - l > 0
    PROVE  ArmedFor(d - l) >= v
<1> USE TimerAssumption
<1>1. PICK a \in Nat : d = a * v
  BY DEF Multiple
<1>2. PICK b \in Nat : l = b * v
  BY DEF Multiple
<1>3. PICK s \in Nat : v = s * Second
  BY DEF Multiple
<1>4. a > b
  <2>1. ASSUME a <= b PROVE FALSE
    <3>1. a * v <= b * v
      BY <2>1, SMT
    <3> QED
      BY <1>1, <1>2, <3>1
  <2> QED
    BY <2>1
<1>5. PICK c \in Nat \ {0} : a = b + c
  <2>1. a - b \in Nat \ {0} /\ a = b + (a - b)
    BY <1>4
  <2> QED
    BY <2>1
<1>6. d - l = c * v
  <2>1. (b + c) * v = b * v + c * v
    BY SMT
  <2>2. b * v \in Int /\ c * v \in Int
    BY SMT
  <2> QED
    BY <1>1, <1>2, <1>5, <2>1, <2>2
<1>7. c * v >= v
  <2>1. c * v >= 1 * v
    BY SMT
  <2> QED
    BY <2>1
<1>8. c * s \in Nat \ {0} /\ c * v = (c * s) * Second
  <2>1. s # 0
    <3>1. 0 * Second = 0
      BY SMT
    <3> QED
      BY <1>3, <3>1
  <2>2. c * s >= 1
    <3>1. c * s >= c * 1
      BY <2>1, SMT
    <3> QED
      BY <3>1
  <2>3. c * s \in Int
    BY SMT
  <2>4. c * (s * Second) = (c * s) * Second
    BY SMT
  <2> QED
    BY <1>3, <2>2, <2>3, <2>4
<1>9. ArmedFor(d - l) = c * v
  <2>1. PICK n \in Nat \ {0} : n = c * s
    BY <1>8
  <2>2. ArmedFor(n * Second) = n * Second
    BY ArmedForSeconds
  <2> QED
    BY <1>6, <1>8, <2>1, <2>2
<1>10. c * v \in Int
  BY SMT
<1> QED
  BY <1>7, <1>9, <1>10

(* probe_group_update_delay arms the timer for an interval at least. *)
LEMMA UpdateSpaced ==
    ASSUME NEW v \in Nat \ {0}, Multiple(v, Second), NEW g \in Groups,
           g.delay = NextDelay(g.children), SpacedDelays(g, v)
    PROVE  /\ SpacedDelays(UpdateDelay(g), v)
           /\ UpdateDelay(g).timer # Off => UpdateDelay(g).timer >= v
<1> DEFINE h == UpdateDelay(g)
           last == IF g.delay - g.last_delay <= 0 THEN 0 ELSE g.last_delay
<1>1. /\ g.children \in Children /\ g.delay \in Nat
      /\ g.last_delay \in Nat /\ g.timer \in Int
  BY DEF Groups, Children
<1>2. g.delay < DblMax => g.delay \in Waits(g.children) /\ g.delay > 0
  <2>1. g.delay \in Waits(g.children) \cup {DblMax}
    BY <1>1, NextDelayIsMin
  <2>2. \A d \in Waits(g.children) : d > 0
    BY ProbeGroupAssumption DEF Waits
  <2> QED
    BY <1>1, <2>1, <2>2, ProbeGroupAssumption
<1>3. CASE g.delay < DblMax
  <2>1. Multiple(g.delay, v) /\ Multiple(last, v) /\ last \in Nat /\ g.delay - last > 0
    <3>1. Multiple(0, v)
      <4>1. 0 = 0 * v
        BY SMT
      <4> QED
        BY <4>1 DEF Multiple
    <3> QED
      BY <1>1, <1>2, <1>3, <3>1 DEF SpacedDelays
  <2> DEFINE t == UpdateTimer(g.timer, g.delay - last)
  <2>2. t >= v
    <3>1. t = ArmedFor(g.delay - last)
      BY <1>1, <2>1 DEF UpdateTimer
    <3> HIDE DEF last
    <3>2. ArmedFor(g.delay - last) >= v
      BY <1>1, <2>1, MultiplesApart
    <3> QED
      BY <3>1, <3>2
  <2>3. h = [g EXCEPT !.timer = t, !.last_delay = g.delay]
    BY <1>3 DEF UpdateDelay
  <2> HIDE DEF last, t
  <2>4. h = [children |-> g.children, delay |-> g.delay, last_delay |-> g.delay, timer |-> t]
    BY <2>3 DEF Groups
  <2> HIDE DEF h
  <2>5. SpacedDelays(h, v) /\ h.timer >= v
    BY <2>1, <2>2, <2>4 DEF SpacedDelays
  <2> QED
    BY <2>5 DEF h
<1>4. CASE ~ (g.delay < DblMax)
  <2>1. h = [g EXCEPT !.timer = UpdateTimer(g.timer, 0)]
    BY <1>4 DEF UpdateDelay
  <2>2. UpdateTimer(g.timer, 0) = Off
    BY DEF UpdateTimer, ArmedFor
  <2>3. h.children = g.children /\ h.last_delay = g.last_delay /\ h.timer = Off
    BY <2>1, <2>2 DEF Groups
  <2> QED
    BY <2>3 DEF SpacedDelays
<1> QED
  BY <1>3, <1>4

LEMMA AddSpaced ==
    ASSUME NEW v \in Nat \ {0}, Multiple(v, Second), NEW g, GroupOK(g), SpacedDelays(g, v),
           NEW d \in Delays, Multiple(d, v), NEW s \in Nat,
           g.timer # Off => g.timer + s >= v
    PROVE  /\ SpacedDelays(Add(g, d), v)
           /\ Add(g, d).timer # Off => Add(g, d).timer + s >= v
<1> DEFINE c == [g.children EXCEPT ![d] = @ + 1]
           h == [children |-> c, delay |-> d, last_delay |-> g.last_delay, timer |-> g.timer]
           a == [children |-> c, delay |-> g.delay, last_delay |-> g.last_delay, timer |-> g.timer]
<1>1. /\ g \in Groups /\ g.children \in [Delays -> Nat] /\ g.children \in Children
      /\ g.delay \in Nat /\ g.last_delay \in Nat /\ g.timer \in Int
      /\ d \in Nat /\ d < DblMax /\ g.delay = NextDelay(g.children)
  BY ProbeGroupAssumption DEF GroupOK, Groups, Children
<1>2. c \in Children /\ Waits(c) = Waits(g.children) \cup {d}
  BY <1>1 DEF Children, Waits
<1>3. Add(g, d) = IF g.delay > d THEN UpdateDelay(h) ELSE a
  <2>1. Add(g, d) = IF g.delay > d THEN UpdateDelay([[g EXCEPT !.children = c] EXCEPT !.delay = d])
                                   ELSE [g EXCEPT !.children = c]
    BY DEF Add
  <2> HIDE DEF c
  <2> QED
    BY <1>1, <2>1, GroupUpdates
<1> HIDE DEF c
<1>4. SpacedDelays(h, v) /\ SpacedDelays(a, v)
  BY <1>2 DEF SpacedDelays
<1>5. CASE g.delay > d
  <2>1. h \in Groups /\ h.children = c /\ h.delay = d
    BY <1>1, <1>2 DEF Groups, Children
  <2>2. d = NextDelay(c)
    <3>1. \A e \in Waits(g.children) : g.delay <= e /\ e \in Nat
      BY <1>1, NextDelayIsMin, ProbeGroupAssumption DEF Waits
    <3>2. \A e \in Waits(c) : d <= e
      BY <1>1, <1>2, <1>5, <3>1
    <3> QED
      BY <1>1, <1>2, <3>2, NextDelayUnique, ProbeGroupAssumption
  <2> HIDE DEF h
  <2>3. /\ SpacedDelays(UpdateDelay(h), v)
        /\ UpdateDelay(h).timer # Off => UpdateDelay(h).timer >= v
    BY <1>4, <2>1, <2>2, UpdateSpaced
  <2>4. UpdateDelay(h).timer \in Int
    <3>1. GroupOK(UpdateDelay(h))
      <4>1. h.timer >= Off
        BY DEF h, GroupOK
      <4> QED
        BY <2>1, <2>2, <4>1, UpdateDelayOK
    <3> QED
      BY <3>1 DEF GroupOK, Groups
  <2> QED
    BY <1>3, <1>5, <2>3, <2>4
<1>6. CASE ~ (g.delay > d)
  <2>1. Add(g, d) = a /\ a.timer = g.timer
    BY <1>3, <1>6
  <2> HIDE DEF a
  <2> QED
    BY <1>4, <2>1
<1> QED
  BY <1>5, <1>6

(* send_ping_probes *)
LEMMA ProbesSpaced ==
    ASSUME NEW v \in Nat \ {0}, Multiple(v, Second), NEW g, GroupOK(g), SpacedDelays(g, v),
           NEW n \in Nat, \A i \in 1 .. n : i * v \in Delays, NEW s \in Nat,
           g.timer # Off => g.timer + s >= v
    PROVE  /\ SpacedDelays(AddProbes(g, v, n), v)
           /\ AddProbes(g, v, n).timer # Off => AddProbes(g, v, n).timer + s >= v
<1> DEFINE S == {h \in Groups : /\ GroupOK(h) /\ SpacedDelays(h, v)
                                /\ h.timer # Off => h.timer + s >= v}
           G == [i \in 0 .. n |-> S]
<1>1. g \in G[0]
  BY DEF GroupOK
<1>2. ASSUME NEW i \in 1 .. n, NEW h \in G[i - 1]
      PROVE  Add(h, i * v) \in G[i]
  <2>1. i \in Nat /\ i - 1 \in 0 .. n /\ i \in 0 .. n /\ i * v \in Delays
    OBVIOUS
  <2>2. h \in S
    BY <1>2, <2>1
  <2>3. Multiple(i * v, v)
    BY <2>1 DEF Multiple
  <2>4. GroupOK(Add(h, i * v))
    BY <2>1, <2>2, AddOK
  <2>5. /\ SpacedDelays(Add(h, i * v), v)
        /\ Add(h, i * v).timer # Off => Add(h, i * v).timer + s >= v
    BY <2>1, <2>2, <2>3, AddSpaced
  <2>6. Add(h, i * v) \in S
    BY <2>4, <2>5 DEF GroupOK
  <2> HIDE DEF S
  <2> QED
    BY <2>1, <2>6
<1> HIDE DEF G
<1>3. AddProbes(g, v, n) \in G[n]
  BY <1>1, <1>2, AddedInduction
<1> QED
  BY <1>3 DEF G

LEMMA FireSpaced ==
    ASSUME NEW v \in Nat \ {0}, Multiple(v, Second), NEW g, GroupOK(g), SpacedDelays(g, v)
    PROVE  /\ SpacedDelays(Fire(g), v)
           /\ Fired(g) > 0 /\ Fire(g).timer # Off => Fire(g).timer >= v
           /\ ~ (Fired(g) > 0) => Fire(g) = g
<1>1. /\ g \in Groups /\ g.children \in Children /\ g.delay \in Nat
      /\ g.last_delay \in Nat /\ g.timer \in Int
  BY DEF GroupOK, Groups, Children
<1>2. CASE g.delay \notin Waits(g.children)
  BY <1>2 DEF Fire, Fired
<1>3. CASE g.delay \in Waits(g.children)
  <2> DEFINE rest == [g.children EXCEPT ![g.delay] = 0]
             next == NextDelay(rest)
             last == IF g.children[g.delay] > 1 THEN g.delay ELSE g.last_delay
             h == [children |-> rest, delay |-> next, last_delay |-> last, timer |-> g.timer]
  <2>1. g.delay \in Delays /\ g.children[g.delay] \in Nat /\ g.children[g.delay] > 0
    BY <1>1, <1>3 DEF Waits, Children
  <2>2. rest \in Children /\ Waits(rest) \subseteq Waits(g.children)
    BY <1>1, <2>1 DEF Children, Waits
  <2>3. next \in Nat /\ last \in Nat /\ Multiple(last, v)
    BY <1>1, <1>3, <2>2, NextDelayIsMin DEF SpacedDelays
  <2> HIDE DEF rest, last
  <2>4. Fire(g) = UpdateDelay(h) /\ Fired(g) > 0
    BY <1>3, <2>1 DEF Fire, Fired, rest, last
  <2>5. h \in Groups /\ h.delay = NextDelay(h.children)
    BY <1>1, <2>2, <2>3 DEF Groups, Children
  <2>6. SpacedDelays(h, v)
    BY <2>2, <2>3 DEF SpacedDelays
  <2> HIDE DEF h
  <2> QED
    BY <2>4, <2>5, <2>6, UpdateSpaced
<1> QED
  BY <1>2, <1>3

SpacedInv == TypeInv /\ Spaced

LEMMA SpacedStep ==
    ASSUME WholeIntervals, SpacedInv, [Next]_vars
    PROVE  Spaced'
<1> DEFINE v == options.interval
<1>1. /\ TypeInv /\ options' = options /\ options \in OptionSets
      /\ v \in Nat \ {0} /\ Multiple(v, Second)
      /\ GroupOK(group) /\ since \in Nat /\ group.timer \in Int /\ group.timer >= Off
  <2>1. TypeInv /\ options' = options
    BY QueueSteps DEF SpacedInv
  <2>2. options \in OptionSets /\ GroupOK(group) /\ since \in Nat
    BY <2>1 DEF TypeInv, WInv, GroupInv
  <2>3. v \in Nat \ {0} /\ Multiple(v, Second)
    BY <2>2, OptionTypes DEF WholeIntervals, Multiple
  <2> QED
    BY <2>1, <2>2, <2>3 DEF GroupOK, Groups
<1>2. /\ SpacedDelays(group, v)
      /\ group.timer # Off => group.timer + since >= v
      /\ reported => since >= v
  BY DEF SpacedInv, Spaced
<1> HIDE DEF v
<1>3. SUFFICES /\ SpacedDelays(group', v)
               /\ group'.timer # Off => group'.timer + since' >= v
               /\ reported' => since' >= v
  BY <1>1 DEF Spaced, v
<1>4. CASE HandleInit \/ HandleAnswer
  <2>1. PICK n \in Nat : /\ group' = AddProbes(group, v, n) \/ group' = group
                         /\ \A i \in 1 .. n : i * v \in Delays
    <3>1. CASE HandleInit
      <4>1. group' = AddProbes(group, v, InitialWindow) \/ group' = group
        BY <3>1 DEF HandleInit, Conclude, Send, v
      <4>2. InitialWindow \in Nat /\ \A i \in 1 .. InitialWindow : i * v \in Delays
        BY <1>1, InitialOK, WindowDelays DEF TypeInv, v
      <4> QED
        BY <4>1, <4>2
    <3>2. CASE HandleAnswer
      <4>1. group' = AddProbes(group, v, ToSend(data)) \/ group' = group
        BY <3>2 DEF HandleAnswer, Conclude, Send, v
      <4>2. ToSend(data) \in Nat /\ \A i \in 1 .. ToSend(data) : i * v \in Delays
        BY <1>1, WindowDelays DEF TypeInv, ToSend, v
      <4> QED
        BY <4>1, <4>2
    <3> QED
      BY <1>4, <3>1, <3>2
  <2>2. UNCHANGED <<reported, since>>
    BY <1>4 DEF HandleInit, HandleAnswer
  <2>3. /\ SpacedDelays(AddProbes(group, v, n), v)
        /\ AddProbes(group, v, n).timer # Off => AddProbes(group, v, n).timer + since >= v
    BY <1>1, <1>2, <2>1, ProbesSpaced
  <2> QED
    BY <1>2, <2>1, <2>2, <2>3
<1>5. CASE Scheduled
  <2>1. /\ reported' = FALSE /\ group' = Fire(group)
        /\ since' = IF Fired(group) > 0 THEN 0 ELSE since
    BY <1>5 DEF Scheduled, ProcessScheduled
  <2>2. /\ SpacedDelays(Fire(group), v)
        /\ Fired(group) > 0 /\ Fire(group).timer # Off => Fire(group).timer >= v
        /\ ~ (Fired(group) > 0) => Fire(group) = group
    BY <1>1, <1>2, FireSpaced
  <2>3. Fire(group).timer \in Int
    BY <1>1, FireOK DEF GroupOK, Groups
  <2>4. CASE Fired(group) > 0
    BY <1>1, <2>1, <2>2, <2>3, <2>4
  <2>5. CASE ~ (Fired(group) > 0)
    BY <1>2, <2>1, <2>2, <2>5
  <2> QED
    BY <2>4, <2>5
<1>6. CASE Reported
  <2>1. UNCHANGED <<group, since>> /\ group.timer = 0
    BY <1>6 DEF Reported, Report, pingVars
  <2> QED
    BY <1>1, <1>2, <2>1 DEF Off
<1>7. CASE ProcessSendq
  <2>1. UNCHANGED <<group, since, reported>>
    BY <1>7 DEF ProcessSendq, PopSendq
  <2> QED
    BY <1>2, <2>1
<1>8. CASE Tick
  <2> DEFINE t == RunDown(group.timer, 1)
  <2>1. /\ group.timer > 0 /\ reported' = reported
        /\ group' = [group EXCEPT !.timer = t]
        /\ since' = IF since < v THEN since + 1 ELSE since
    BY <1>8 DEF Tick, GroupTick, v
  <2>2. t = group.timer - 1 /\ group.timer # Off
    BY <1>1, <2>1 DEF RunDown, Off
  <2> HIDE DEF t
  <2>3. /\ group'.children = group.children /\ group'.last_delay = group.last_delay
        /\ group'.timer = t
    BY <1>1, <2>1 DEF GroupOK, Groups
  <2>4. group.timer + since >= v
    BY <1>2, <2>2
  <2>5. t + since' >= v /\ (reported' => since' >= v)
    BY <1>1, <1>2, <2>1, <2>2, <2>4
  <2> QED
    BY <1>2, <2>3, <2>5 DEF SpacedDelays
<1>9. CASE UNCHANGED <<groupVars, since>>
  BY <1>2, <1>9 DEF groupVars
<1> QED
  BY <1>4, <1>5, <1>6, <1>7, <1>8, <1>9, QueueSteps

LEMMA SpacedStepOK ==
    ASSUME SpacedInv, [Next]_vars
    PROVE  sendq' > sendq => since >= options.interval
<1>1. TypeInv /\ sendq \in Nat
  BY DEF SpacedInv, TypeInv, GroupInv
<1>2. CASE HandleInit \/ HandleAnswer \/ Reported \/ Tick \/ UNCHANGED groupVars
  <2>1. sendq' = sendq
    BY <1>2 DEF HandleInit, HandleAnswer, Reported, Report, Tick, GroupTick, groupVars
  <2> QED
    BY <1>1, <2>1
<1>3. CASE Scheduled
  BY <1>3 DEF Scheduled, ProcessScheduled, SpacedInv, Spaced
<1>4. CASE ProcessSendq
  <2>1. sendq' = sendq - 1
    BY <1>4 DEF ProcessSendq, PopSendq
  <2> QED
    BY <1>1, <2>1
<1> QED
  BY <1>2, <1>3, <1>4, QueueSteps

LEMMA InitSpaced == Init => SpacedInv
<1> SUFFICES ASSUME Init PROVE SpacedInv
  OBVIOUS
<1>1. group = EmptyGroup /\ reported = FALSE /\ options \in OptionSets
  BY DEF Init, GroupInit
<1>2. Waits(group.children) = {}
  BY <1>1 DEF EmptyGroup, Waits
<1>3. group.last_delay = 0 /\ group.timer = Off
  BY <1>1 DEF EmptyGroup
<1>4. Multiple(0, options.interval)
  <2>1. options.interval \in Nat
    BY <1>1, OptionTypes
  <2>2. 0 = 0 * options.interval
    BY <2>1, SMT
  <2> QED
    BY <2>2 DEF Multiple
<1> QED
  BY <1>1, <1>2, <1>3, <1>4, InitTyped DEF SpacedInv, Spaced, SpacedDelays

(* The probes leave the group an interval apart, although every answer adds a
   probe that may set the timer again: the timer is set from the difference of
   two delays, which are multiples of the interval.  For intervals of whole
   seconds, any count, timeout, losses and TERMs. *)
THEOREM FiringsAreSpaced ==
    ASSUME WholeIntervals
    PROVE  Spec => FiringsSpaced
<1>1. SpacedInv /\ [Next]_vars => SpacedInv'
  <2>1. ASSUME SpacedInv, [Next]_vars PROVE SpacedInv'
    BY <2>1, SpacedStep, TypeStep DEF SpacedInv
  <2> QED
    BY <2>1
<1>2. SpacedInv /\ [Next]_vars => [sendq' > sendq => since >= options.interval]_vars
  BY SpacedStepOK
<1> QED
  BY <1>1, <1>2, InitSpaced, PTL DEF Spec, FiringsSpaced

(* The timer of the group serves ping too: armed exactly when a probe waits. *)
THEOREM PingTimerArmed == Spec => []TimerArmed
<1>1. TypeInv /\ [Next]_vars => TypeInv'
  <2>1. ASSUME TypeInv, [Next]_vars PROVE TypeInv'
    BY <2>1, TypeStep
  <2> QED
    BY <2>1
<1>2. TypeInv => TimerArmed
  <2> SUFFICES ASSUME TypeInv PROVE TimerArmed
    OBVIOUS
  <2>1. GroupOK(group)
    BY DEF TypeInv, GroupInv
  <2>2. group.children \in Children
    BY <2>1 DEF GroupOK, Groups, Children
  <2>3. group.delay < DblMax <=> Waits(group.children) # {}
    BY <2>1, <2>2, NextDelayIsMin, ProbeGroupAssumption DEF GroupOK
  <2> QED
    BY <2>1, <2>3 DEF GroupOK, Armed, TimerArmed
<1> QED
  BY <1>1, <1>2, InitTyped, PTL DEF Spec

=============================================================================
