------------------------------ MODULE Network ------------------------------
(***************************************************************************)
(* The network layer of libparistraceroute (network.c): the queues between *)
(* the loop and the sockets, the list of flying probes and the one timerfd *)
(* that makes their timeouts happen.                                       *)
(*                                                                         *)
(* The loop is single-threaded.  epoll_wait reports every ready descriptor *)
(* (there are fewer of them than MAXEVENTS), and the loop then calls the   *)
(* handler of each one, in any order: "batch" is what is left of the       *)
(* current report.  A handler may therefore run for a descriptor that an   *)
(* earlier handler of the same report has made unreadable.                 *)
(*                                                                         *)
(* Time.  One tick is the shortest delay the timerfd can hold, which is    *)
(* one microsecond of probe timeout (see ArmedFor).  What the code reads   *)
(* as "now - sending_time" is the age of the probe.  Ages stop growing at  *)
(* Timeout + 1: the code only compares what is left before the timeout     *)
(* with 0 and EXTRA_DELAY, so that all overdue probes are alike.           *)
(***************************************************************************)
EXTENDS Integers, Sequences, SequencesExt, Timer

CONSTANTS
    Probes,      (* the probe_t instances the algorithms hand over         *)
    TagMod,      (* number of tags: 2^16 in the code (uint16_t last_tag)   *)
    Timeout,     (* network->timeout, in ticks                             *)
    ExtraDelay,  (* EXTRA_DELAY, in ticks                                  *)
    Lag,         (* most ticks between two clock readings of one handler   *)
    MaxInbox     (* packets the kernel buffers for the ICMP socket         *)

ASSUME NetworkAssumption ==
    /\ TagMod \in Nat \ {0}
    /\ Timeout \in Nat
    /\ ExtraDelay \in Nat
    /\ Lag \in Nat
    /\ MaxInbox \in Nat

Tags    == 0 .. TagMod - 1
NoTag   == -1                   \* a packet that quotes no probe of ours
Ages    == 0 .. Timeout + 1
Fds     == {"sendq", "recvq", "sniffer", "timer"}
Nobody  == "nobody"             \* the origin of a foreign packet
Fates   == {"new", "pending", "reply", "timeout", "unsent"}

Flying  == [probe : Probes, tag : Tags, age : Ages]
Replies == [tag : Tags \cup {NoTag}, of : Probes \cup {Nobody}]

VARIABLES
    sendq,     (* network->sendq: probes to send                           *)
    inbox,     (* packets waiting in the ICMP socket                       *)
    recvq,     (* network->recvq: sniffed packets                          *)
    flying,    (* network->probes: sent and not answered, oldest first     *)
    timer,     (* network->timerfd: Off, or the ticks before it expires;   *)
               (* at 0 it is readable, and stays so until it is set again  *)
    lastTag,   (* network->last_tag                                        *)
    batch,     (* descriptors of the epoll report not handled yet          *)
    fate,      (* history: the event thrown to the caller of each probe    *)
    wireTag    (* history: the tag each probe was sent with                *)

vars == <<sendq, inbox, recvq, flying, timer, lastTag, batch, fate, wireTag>>

-----------------------------------------------------------------------------
(* Clock and timer *)

AgedBy(age, e) == IF age + e > Timeout THEN Timeout + 1 ELSE age + e

(* The flying probes e ticks later. *)
Older(fl, e) == [i \in 1 .. Len(fl) |-> [fl[i] EXCEPT !.age = AgedBy(@, e)]]

(* network_get_probe_timeout: negative once the probe is overdue. *)
Remaining(f) == Timeout - f.age

MutNextTimeoutTooLate(fl, t) == IF Len(fl) <= 1 THEN Off ELSE ArmedFor(Remaining(fl[1]))

(* network_update_next_timeout on the probes fl with timer t: update_timer
   refuses a negative delay and leaves the timer as it is. *)
NextTimeout(fl, t) ==
    IF fl = << >> THEN Off ELSE UpdateTimer(t, Remaining(fl[1]))

-----------------------------------------------------------------------------
(* Initially nothing is queued or flying.  The tag counter may have any
   value: the layer may have served any number of probes before. *)
Init ==
    /\ sendq = << >>
    /\ inbox = << >>
    /\ recvq = << >>
    /\ flying = << >>
    /\ timer = Off
    /\ lastTag \in Tags
    /\ batch = {}
    /\ fate = [p \in Probes |-> "new"]
    /\ wireTag = [p \in Probes |-> NoTag]

(* network_send_probe for a best-effort probe, called by an algorithm. *)
SendProbe(p) ==
    /\ fate[p] = "new"
    /\ fate' = [fate EXCEPT ![p] = "pending"]
    /\ sendq' = Append(sendq, p)
    /\ UNCHANGED <<inbox, recvq, flying, timer, lastTag, batch, wireTag>>

(* epoll_wait: level-triggered, so every readable descriptor is reported. *)
Readable ==
    {fd \in Fds : \/ fd = "sendq"   /\ sendq # << >>
                  \/ fd = "recvq"   /\ recvq # << >>
                  \/ fd = "sniffer" /\ inbox # << >>
                  \/ fd = "timer"   /\ timer = 0}

EpollWait ==
    /\ batch = {}
    /\ Readable # {}
    /\ batch' = Readable
    /\ UNCHANGED <<sendq, inbox, recvq, flying, timer, lastTag, fate, wireTag>>

MutHandle(fd) == fd \in batch /\ UNCHANGED batch

Handle(fd) ==
    /\ fd \in batch
    /\ batch' = batch \ {fd}

(* get_available_tag *)
MutTagNotWrapped(tag) == tag + 1

MutSameTag(tag) == tag

NextTag(tag) == (tag + 1) % TagMod

(* network_process_sendq registers the probe it has sent as the youngest one,
   and arms the timer if it is the only one.  e ticks go by in between. *)
MutRegister(f) == <<f>> \o flying

Register(f) == Append(flying, f)

MutTimerAfterSend(e) == ArmedFor(Timeout)

TimerAfterSend(e) == IF flying = << >> THEN ArmedFor(Timeout) ELSE RunDown(timer, e)

(* network_process_sendq, when the probe is sent. *)
ProcessSendq ==
    /\ Handle("sendq")
    /\ lastTag' = NextTag(lastTag)
    /\ wireTag' = [wireTag EXCEPT ![Head(sendq)] = lastTag']
    /\ \E e \in 0 .. Lag :
         /\ flying' = Older(Register([probe |-> Head(sendq), tag |-> lastTag', age |-> 0]), e)
         /\ timer' = TimerAfterSend(e)
    /\ sendq' = Tail(sendq)
    /\ UNCHANGED <<inbox, recvq, fate>>

(* network_process_sendq, when a step before the registration fails: the
   probe is forgotten and no event is thrown to its caller.  The tag may have
   been taken (payload too short, packet not created or not sent) or not
   (fewer than two layers). *)
ProcessSendqFails ==
    /\ Handle("sendq")
    /\ lastTag' \in {lastTag, NextTag(lastTag)}
    /\ fate' = [fate EXCEPT ![Head(sendq)] = "unsent"]
    /\ sendq' = Tail(sendq)
    /\ UNCHANGED <<inbox, recvq, flying, timer, wireTag>>

(* network_process_sniffer: one packet per call, dropped if it is shorter than
   4 bytes or could not be received whole. *)
ProcessSniffer ==
    /\ Handle("sniffer")
    /\ recvq' \in {recvq, Append(recvq, Head(inbox))}
    /\ inbox' = Tail(inbox)
    /\ UNCHANGED <<sendq, flying, timer, lastTag, fate, wireTag>>

MutMatches(r) == {i \in 1 .. Len(flying) : flying[i].tag % 2 = r.tag % 2}

(* network_get_matching_probe: the first flying probe with the reply's tag
   stops flying.  If it was the oldest one, the timer is set for the next. *)
Matches(r) == {i \in 1 .. Len(flying) : flying[i].tag = r.tag}

FirstOf(S) == CHOOSE i \in S : \A j \in S : i <= j

MutWithout(i) == flying

Without(i) == RemoveAt(flying, i)

(* network_process_recvq, when a flying probe matches. *)
ProcessRecvq ==
    /\ Handle("recvq")
    /\ Matches(Head(recvq)) # {}
    /\ LET i == FirstOf(Matches(Head(recvq)))
       IN  /\ flying' = Without(i)
           /\ timer' = IF i = 1 THEN NextTimeout(flying', timer) ELSE timer
           /\ fate' = [fate EXCEPT ![flying[i].probe] = "reply"]
    /\ recvq' = Tail(recvq)
    /\ UNCHANGED <<sendq, inbox, lastTag, wireTag>>

(* network_process_recvq, when the packet is not a reply to a flying probe
   (it quotes no tag, the probe has already been answered or has timed out). *)
ProcessRecvqDiscards ==
    /\ Handle("recvq")
    /\ Matches(Head(recvq)) = {}
    /\ recvq' = Tail(recvq)
    /\ UNCHANGED <<sendq, inbox, flying, timer, lastTag, fate, wireTag>>

MutExpiredLate(f) == Remaining(f) <= 0

MutExpiredEarly(f) == Remaining(f) <= 2 * ExtraDelay

(* The probes that network_drop_expired_flying_probe drops: it goes through
   the list and stops at the first one with more than EXTRA_DELAY left. *)
Expired(f) == Remaining(f) <= ExtraDelay

MutNumExpired ==
    LET alive == {i \in 1 .. Len(flying) : ~ Expired(flying[i])}
    IN  IF alive = {} THEN Len(flying) - 1 ELSE FirstOf(alive) - 1

NumExpired ==
    LET alive == {i \in 1 .. Len(flying) : ~ Expired(flying[i])}
    IN  IF alive = {} THEN Len(flying) ELSE FirstOf(alive) - 1

(* network_drop_expired_flying_probe.  e ticks go by between the test of the
   last probe and the setting of the timer. *)
DropExpired ==
    /\ Handle("timer")
    /\ flying # << >>
    /\ \E e \in 0 .. Lag :
         /\ flying' = Older(SubSeq(flying, NumExpired + 1, Len(flying)), e)
         /\ timer' = NextTimeout(flying', RunDown(timer, e))
    /\ fate' = [p \in Probes |->
                  IF \E i \in 1 .. NumExpired : flying[i].probe = p
                  THEN "timeout" ELSE fate[p]]
    /\ UNCHANGED <<sendq, inbox, recvq, lastTag, wireTag>>

(* The same for a report made stale by the answer to the last flying probe:
   the handler only complains. *)
DropExpiredNone ==
    /\ Handle("timer")
    /\ flying = << >>
    /\ UNCHANGED <<sendq, inbox, recvq, flying, timer, lastTag, fate, wireTag>>

(* A packet reaches the socket: a reply to any probe sent so far, on time or
   late, first or duplicate, or one that concerns no probe of ours.  Losing a
   reply is never taking this step. *)
Arrive(r) ==
    /\ Len(inbox) < MaxInbox
    /\ \/ r = [tag |-> NoTag, of |-> Nobody]
       \/ /\ r.of \in Probes
          /\ wireTag[r.of] # NoTag
          /\ r.tag = wireTag[r.of]
    /\ inbox' = Append(inbox, r)
    /\ UNCHANGED <<sendq, recvq, flying, timer, lastTag, batch, fate, wireTag>>

Tick ==
    /\ flying' = Older(flying, 1)
    /\ timer' = RunDown(timer, 1)
    /\ UNCHANGED <<sendq, inbox, recvq, lastTag, batch, fate, wireTag>>

Handlers ==
    \/ ProcessSendq
    \/ ProcessSendqFails
    \/ ProcessSniffer
    \/ ProcessRecvq
    \/ ProcessRecvqDiscards
    \/ DropExpired
    \/ DropExpiredNone

Next ==
    \/ \E p \in Probes : SendProbe(p)
    \/ EpollWait
    \/ Handlers
    \/ \E r \in Replies : Arrive(r)
    \/ Tick

Spec == Init /\ [][Next]_vars

(* The loop keeps running and time passes.  Nothing is asked of the network
   or of the algorithms. *)
FairSpec == Spec /\ WF_vars(EpollWait) /\ WF_vars(Handlers) /\ WF_vars(Tick)

-----------------------------------------------------------------------------
(* Properties *)

TypeOK ==
    /\ sendq \in Seq(Probes)
    /\ inbox \in Seq(Replies)
    /\ recvq \in Seq(Replies)
    /\ flying \in Seq(Flying)
    /\ timer \in Int /\ timer >= Off
    /\ lastTag \in Tags
    /\ batch \in SUBSET Fds
    /\ fate \in [Probes -> Fates]
    /\ wireTag \in [Probes -> Tags \cup {NoTag}]

(* A handler that pops its queue never finds it empty, whatever the handlers
   before it in the report have done: each queue has one consumer. *)
BatchReady ==
    /\ "sendq" \in batch => sendq # << >>
    /\ "recvq" \in batch => recvq # << >>
    /\ "sniffer" \in batch => inbox # << >>

(* The types, and what the handlers assume of the queues they pop without a
   look (queue_pop_element, queue.c:54). *)
TypeInv == TypeOK /\ BatchReady

(* Every probe handed to the layer is in exactly one place, once: in sendq or
   among the flying probes until its caller has been told of its reply or of
   its timeout (network_process_recvq, network_drop_expired_flying_probe), or
   until it could not be sent.  Hence no caller is told twice of one probe,
   and none is forgotten on the way. *)
Places(p) ==
    Cardinality({i \in 1 .. Len(sendq) : sendq[i] = p})
    + Cardinality({i \in 1 .. Len(flying) : flying[i].probe = p})

Accounted ==
    \A p \in Probes : Places(p) = IF fate[p] = "pending" THEN 1 ELSE 0

(* network->probes is sorted, oldest first, whatever is removed from its
   middle: network_get_oldest_probe and the loop that drops the expired probes
   look no further than the first probe that is still alive. *)
OldestFirst ==
    \A i, j \in 1 .. Len(flying) : i < j => flying[i].age >= flying[j].age

(* Two flying probes never have the same tag as long as tags are not used up,
   so that network_get_matching_probe finds the right one. *)
TagsDistinct ==
    \A i, j \in 1 .. Len(flying) : flying[i].tag = flying[j].tag => i = j

(* A running timer goes off no later than the oldest flying probe expires
   (give or take the ticks a handler may lose between reading the clock and
   setting the timer): no removal leaves it set for a younger probe. *)
TimerCoversOldest ==
    flying # << >> /\ timer # Off =>
        \/ timer <= Lag
        \/ timer <= Remaining(flying[1]) + Lag

(* The timer is disarmed under flying probes only when the oldest one is
   overdue, or just expiring: never while it has time left. *)
DisarmedOnlyIfDue ==
    flying # << >> /\ timer = Off => Remaining(flying[1]) <= 0

(* The timer serves the oldest flying probe: set, it goes off in time for it;
   off, that probe is due (network_update_next_timeout, network.c:203). *)
TimerRight == TimerCoversOldest /\ DisarmedOnlyIfDue

(* Without flying probes the timer is disarmed, so that the loop does not spin
   on a timerfd that network_drop_expired_flying_probe would never reset. *)
IdleTimerOff == flying = << >> => timer = Off

(* The probes that stop flying in a step, with the event their caller gets. *)
Told(p, event) == fate[p] # event /\ fate'[p] = event

(* A probe is matched only with a reply that it provoked: a late or duplicate
   reply never answers another probe, whatever was answered in between. *)
RightReply ==
    [][\A p \in Probes : Told(p, "reply") => Head(recvq).of = p]_vars

(* PROBE_TIMEOUT is never thrown to a probe with more than EXTRA_DELAY left,
   although the timer goes off early (see ArmedFor). *)
NoEarlyTimeout ==
    [][\A i \in 1 .. Len(flying) :
          Told(flying[i].probe, "timeout") => Remaining(flying[i]) <= ExtraDelay]_vars

(* network_drop_expired_flying_probe leaves the timer armed if it leaves a
   flying probe: this is what EXTRA_DELAY is for.  It holds if no more than
   EXTRA_DELAY goes by in the handler. *)
DropKeepsTimer ==
    [][DropExpired /\ flying' # << >> => timer' # Off]_vars

(* The comment on EXTRA_DELAY (network.c:723) takes the deadlock it describes,
   a timer disarmed while probes are flying, to be avoided.  It is not in
   network_get_matching_probe, which sets the timer for the next probe with
   whatever that one has left, be it 0. *)
NeverFrozen == flying # << >> => timer # Off

(* Every flying probe is answered or times out, unless the timer is ever
   disarmed under flying probes. *)
IsFlying(p) == \E i \in 1 .. Len(flying) : flying[i].probe = p

EveryProbeAnswered ==
    []NeverFrozen => \A p \in Probes : IsFlying(p) ~> fate[p] \in {"reply", "timeout"}

=============================================================================
