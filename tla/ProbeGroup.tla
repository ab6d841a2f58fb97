----------------------------- MODULE ProbeGroup -----------------------------
(***************************************************************************)
(* The scheduled probes of the network layer (probe_group.c, and what      *)
(* network.c does of them): a probe with a delay waits in a group, and one *)
(* timerfd serves the whole group.                                         *)
(*                                                                         *)
(* The group is a tree with a single level: the root holds the delay for   *)
(* which the timer has been set, its children the probes.  Children of one *)
(* delay always leave together, so that all there is to know of them is    *)
(* how many of them wait with each delay.                                  *)
(***************************************************************************)
EXTENDS Integers, FiniteSets, FiniteSetsExt, Timer

CONSTANTS
    Delays,      (* the delays of the probes, in ticks                     *)
    DblMax,      (* DBL_MAX, the delay of the root of an empty group       *)
    MaxWaiting   (* bound on the probes that wait with one delay           *)

ASSUME ProbeGroupAssumption ==
    /\ DblMax \in Nat
    /\ Delays \subseteq 1 .. DblMax - 1
    /\ MaxWaiting \in Nat

VARIABLES
    group,     (* network->scheduled_probes and its timerfd                *)
    reported,  (* epoll_wait has reported the timerfd, and its handler has *)
               (* not run yet                                              *)
    sendq      (* how many probes network->sendq holds                     *)

groupVars == <<group, reported, sendq>>

Groups == [children : [Delays -> Nat], delay : Nat, last_delay : Nat, timer : Int]

EmptyGroup ==
    [children |-> [d \in Delays |-> 0], delay |-> DblMax, last_delay |-> 0, timer |-> Off]

Waits(children) == {d \in Delays : children[d] > 0}

NextDelay(children) == Min(Waits(children) \cup {DblMax})

-----------------------------------------------------------------------------
(* probe_group_update_delay, called with the root. *)
MutUpdateDelay(g) ==
    IF g.delay < DblMax
    THEN [g EXCEPT !.timer = UpdateTimer(@, g.delay - g.last_delay), !.last_delay = g.delay]
    ELSE [g EXCEPT !.timer = UpdateTimer(@, 0)]

UpdateDelay(g) ==
    LET last == IF g.delay - g.last_delay <= 0 THEN 0 ELSE g.last_delay
    IN  IF g.delay < DblMax
        THEN [g EXCEPT !.timer = UpdateTimer(@, g.delay - last), !.last_delay = g.delay]
        ELSE [g EXCEPT !.timer = UpdateTimer(@, 0)]

(* probe_group_add: the delay of the root changes for a shorter one only. *)
Add(g, d) ==
    LET added == [g EXCEPT !.children[d] = @ + 1]
    IN  IF g.delay > d THEN UpdateDelay([added EXCEPT !.delay = d]) ELSE added

MutFire(g) ==
    LET rest == [g.children EXCEPT ![g.delay] = 0]
    IN  [g EXCEPT !.children = rest, !.delay = NextDelay(rest)]

(* probe_group_iter_next_scheduled_probes with network_process_probe_node:
   every child with the delay of the root at the time of the call is deleted.
   Each deletion (probe_group_del) updates the delay; all but the last one find
   the delay unchanged, which leaves it in last_delay. *)
Fire(g) ==
    IF g.delay \notin Waits(g.children) THEN g
    ELSE LET rest == [g.children EXCEPT ![g.delay] = 0]
         IN  UpdateDelay([children   |-> rest,
                          delay      |-> NextDelay(rest),
                          last_delay |-> IF g.children[g.delay] > 1 THEN g.delay ELSE g.last_delay,
                          timer      |-> g.timer])

(* The probes that it pushes to the sendq. *)
Fired(g) == IF g.delay \in Waits(g.children) THEN g.children[g.delay] ELSE 0

-----------------------------------------------------------------------------
GroupInit ==
    /\ group = EmptyGroup
    /\ reported = FALSE
    /\ sendq = 0

(* network_send_probe for a probe with a delay. *)
Schedule(d) ==
    /\ group.children[d] < MaxWaiting
    /\ group' = Add(group, d)
    /\ UNCHANGED <<reported, sendq>>

(* epoll_wait finds that the timer has expired.  Other handlers of the same
   report may run before the one of the timer, and set it again. *)
Report ==
    /\ group.timer = 0
    /\ ~ reported
    /\ reported' = TRUE
    /\ UNCHANGED <<group, sendq>>

(* network_process_scheduled_probe *)
ProcessScheduled ==
    /\ reported
    /\ reported' = FALSE
    /\ group' = Fire(group)
    /\ sendq' = sendq + Fired(group)

(* network_process_sendq *)
PopSendq ==
    /\ sendq > 0
    /\ sendq' = sendq - 1
    /\ UNCHANGED <<group, reported>>

GroupTick ==
    /\ group.timer > 0
    /\ group' = [group EXCEPT !.timer = RunDown(@, 1)]
    /\ UNCHANGED <<reported, sendq>>

GroupNext ==
    \/ \E d \in Delays : Schedule(d)
    \/ Report
    \/ ProcessScheduled
    \/ PopSendq
    \/ GroupTick

GroupSpec == GroupInit /\ [][GroupNext]_groupVars

-----------------------------------------------------------------------------
(* Properties *)

GroupTypeOK ==
    /\ group \in Groups
    /\ reported \in BOOLEAN
    /\ sendq \in Nat

(* The root holds the shortest delay of its children, whatever has been added
   and sent: the handler of the timer looks for children of that delay only,
   and would otherwise send none and leave the timer readable for ever. *)
RootIsMin == group.delay = NextDelay(group.children)

(* The timer is armed as long as a probe waits, and only then: no computation
   of a delay from the last one makes it null or negative, which update_timer
   would take for an order to disarm, or refuse. *)
TimerArmed == (Waits(group.children) # {}) <=> (group.timer # Off)

=============================================================================
