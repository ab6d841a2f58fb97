-------------------------------- MODULE Ping --------------------------------
(***************************************************************************)
(* The ping algorithm (algorithms/ping.c) with the handler of its user     *)
(* (loop_handler of paris-ping.c, which calls ping_handler), on top of the *)
(* scheduled probes: paris-ping gives every probe a delay.                 *)
(*                                                                         *)
(* The loop between them is reduced to its queues: the events thrown to    *)
(* the instance, and those raised to the user.  The network layer answers  *)
(* a probe it has sent by PROBE_REPLY or PROBE_TIMEOUT, at any time.       *)
(***************************************************************************)
EXTENDS Sequences, Counting, ProbeGroup

CONSTANTS
    OptionSets,  (* count and interval (in ticks) of the instance          *)
    NetTimeout,  (* options_network_get_timeout(), in ticks                *)
    MayLose,     (* may a probe be handed over but never answered?         *)
    MaxTerms     (* how often TERM is thrown: a signal, the maximum time   *)

ASSUME PingAssumption ==
    /\ OptionSets \subseteq [count : Nat, interval : Nat \ {0}]
    /\ NetTimeout \in Nat \ {0}
    /\ MayLose \in BOOLEAN
    /\ MaxTerms \in Nat

(* The delays of the probes of a window are delays. *)
ASSUME WindowAssumption ==
    \A o \in OptionSets : \A i \in 1 .. o.count :
        (i - 1) * o.interval < NetTimeout => i * o.interval \in Delays

(* A reply of the destination, a reply of another host (an ICMP error), no
   reply in time. *)
Answers == {"REPLY", "ERROR_REPLY", "TIMEOUT"}
Events  == Answers \cup {"INIT", "TERM"}

Counters == [num_replies : Nat, num_losses : Nat, num_probes_in_flight : Nat,
             num_sent : Nat, rtt_results : Nat]

NoCounters == [num_replies |-> 0, num_losses |-> 0, num_probes_in_flight |-> 0,
               num_sent |-> 0, rtt_results |-> 0]

VARIABLES
    options,   (* ping_options_t                                           *)
    pc,        (* "run", "done" once the user handler has terminated the   *)
               (* loop, "null data" once NULL has been dereferenced        *)
    events,    (* instance->events                                         *)
    live,      (* whether instance->data is not NULL                       *)
    data,      (* ... and the ping_data_t it points to; of rtt_results,    *)
               (* the length                                               *)
    userq,     (* loop->events_user, with the copy of the data it carries  *)
    flying,    (* probes the network layer has sent and not answered       *)
    lost,      (* history: probes that could not be sent                   *)
    terms,     (* history: TERMs thrown                                    *)
    printed,   (* history: the data of which statistics have been printed  *)
    since      (* history: ticks since the last ProcessScheduled that sent *)

pingVars == <<options, pc, events, live, data, userq, flying, lost, terms, printed, since>>
vars     == <<groupVars, pingVars>>

-----------------------------------------------------------------------------
Init ==
    /\ GroupInit
    /\ options \in OptionSets
    /\ pc = "run"
    /\ events = <<"INIT">>
    /\ live = FALSE /\ data = NoCounters
    /\ userq = << >>
    /\ flying = 0 /\ lost = 0 /\ terms = 0
    /\ printed = << >>
    /\ since = 0

Without == << >>       \* the event carries no copy of the data

Told(type) == [type |-> type, copy |-> Without]

MutInitialWindow == (NetTimeout + options.interval - 1) \div options.interval

(* ALGORITHM_INIT: the probes to send at once. *)
InitialWindow ==
    Min({(NetTimeout + options.interval - 1) \div options.interval, options.count})

(* PROBE_REPLY, PROBE_TIMEOUT: one more probe, or none. *)
ToSend(d) == IF d.num_sent # options.count THEN 1 ELSE 0

Finished(d) == d.num_probes_in_flight = 0

(* send_ping_probes: the i-th probe has delay i * interval. *)
AddProbes(g, interval, n) ==
    LET added[i \in 0 .. n] == IF i = 0 THEN g ELSE Add(added[i - 1], i * interval)
    IN  added[n]

MutSend(d, n) ==
    /\ group' = AddProbes(group, options.interval, n)
    /\ data' = [d EXCEPT !.num_sent = @ + n]

Send(d, n) ==
    /\ group' = AddProbes(group, options.interval, n)
    /\ data' = [d EXCEPT !.num_sent = @ + n, !.num_probes_in_flight = @ + n]

(* The end of ping_loop_handler, with data d, n probes to send, and the events
   already raised. *)
Conclude(d, n, raised) ==
    \/ /\ n > 0
       /\ Send(d, n)
       /\ userq' = userq \o raised
    \/ /\ n = 0
       /\ data' = d
       /\ userq' = userq \o raised
                   \o (IF Finished(d) THEN <<Told("ALL_PROBES_SENT"), Told("HAS_TERMINATED")>>
                       ELSE << >>)
       /\ UNCHANGED group

Take(types) ==
    /\ pc = "run"
    /\ events # << >>
    /\ Head(events) \in types
    /\ events' = Tail(events)

HandleInit ==
    /\ Take({"INIT"})
    /\ live' = TRUE
    /\ Conclude(NoCounters, InitialWindow, << >>)
    /\ UNCHANGED <<reported, sendq, options, pc, flying, lost, terms, printed, since>>

MutCounted(a) ==
    [data EXCEPT !.num_replies = @ + 1,
                 !.num_losses = IF a = "TIMEOUT" THEN @ + 1 ELSE @,
                 !.num_probes_in_flight = @ - 1]

(* What an answer makes of the counters. *)
Counted(a) ==
    [data EXCEPT !.num_replies = @ + 1,
                 !.num_losses = IF a = "REPLY" THEN @ ELSE @ + 1,
                 !.num_probes_in_flight = @ - 1]

HandleAnswer ==
    /\ Take(Answers)
    /\ live
    /\ LET a == Head(events)
       IN  Conclude(Counted(a), ToSend(data), <<Told(a)>>)
    /\ UNCHANGED <<reported, sendq, options, pc, live, flying, lost, terms, printed, since>>

HandleAnswerWithoutData ==
    /\ Take(Answers)
    /\ ~ live
    /\ pc' = "null data"
    /\ UNCHANGED <<groupVars, options, live, data, userq, flying, lost, terms, printed, since>>

(* ALGORITHM_TERM: the user gets a copy of the data, if there are any.  The
   events that follow TERM are flushed. *)
HandleTerm ==
    /\ pc = "run"
    /\ events # << >>
    /\ Head(events) = "TERM"
    /\ events' = << >>
    /\ live' = FALSE
    /\ data' = NoCounters
    /\ userq' = userq \o <<[type |-> "PRINT_STATISTICS",
                            copy |-> IF live THEN <<data>> ELSE Without],
                           Told("HAS_TERMINATED")>>
    /\ UNCHANGED <<groupVars, options, pc, flying, lost, terms, printed, since>>

-----------------------------------------------------------------------------
(* The user handler.  It reads issuer->data when it runs, not when the event
   was raised. *)
TakeUser(types) ==
    /\ pc = "run"
    /\ userq # << >>
    /\ Head(userq).type \in types
    /\ userq' = Tail(userq)
    /\ UNCHANGED <<groupVars, options, events, live, flying, lost, terms, since>>

UserReply ==
    /\ TakeUser({"REPLY"})
    /\ live
    /\ data' = [data EXCEPT !.rtt_results = @ + 1]
    /\ UNCHANGED <<pc, printed>>

UserPrints ==
    /\ TakeUser({"TIMEOUT", "ERROR_REPLY", "ALL_PROBES_SENT"})
    /\ Head(userq).type = "ERROR_REPLY" => live
    /\ UNCHANGED <<pc, data, printed>>

UserWithoutData ==
    /\ TakeUser({"REPLY", "ERROR_REPLY"})
    /\ ~ live
    /\ pc' = "null data"
    /\ UNCHANGED <<data, printed>>

UserStatistics ==
    /\ TakeUser({"PRINT_STATISTICS"})
    /\ printed' = printed \o Head(userq).copy
    /\ UNCHANGED <<pc, data>>

(* The statistics are printed unless TERM has had them printed; the instance
   is stopped and deleted, and the loop terminates. *)
UserTerminated ==
    /\ TakeUser({"HAS_TERMINATED"})
    /\ printed' = IF live THEN Append(printed, data) ELSE printed
    /\ pc' = "done"
    /\ UNCHANGED data

-----------------------------------------------------------------------------
(* The rest of the loop *)

Terminate ==
    /\ pc = "run"
    /\ terms < MaxTerms
    /\ terms' = terms + 1
    /\ events' = Append(events, "TERM")
    /\ UNCHANGED <<groupVars, options, pc, live, data, userq, flying, lost, printed, since>>

Reported ==
    /\ pc = "run"
    /\ Report
    /\ UNCHANGED pingVars

Scheduled ==
    /\ pc = "run"
    /\ ProcessScheduled
    /\ since' = IF Fired(group) > 0 THEN 0 ELSE since
    /\ UNCHANGED <<options, pc, events, live, data, userq, flying, lost, terms, printed>>

(* network_process_sendq: the probe is sent, or forgotten. *)
ProcessSendq ==
    /\ pc = "run"
    /\ PopSendq
    /\ \/ /\ flying' = flying + 1
          /\ UNCHANGED lost
       \/ /\ MayLose
          /\ lost' = lost + 1
          /\ UNCHANGED flying
    /\ UNCHANGED <<options, pc, events, live, data, userq, terms, printed, since>>

Answer(a) ==
    /\ pc = "run"
    /\ flying > 0
    /\ flying' = flying - 1
    /\ events' = Append(events, a)
    /\ UNCHANGED <<groupVars, options, pc, live, data, userq, lost, terms, printed, since>>

(* Beyond the interval nobody looks at since. *)
Tick ==
    /\ pc = "run"
    /\ GroupTick
    /\ since' = IF since < options.interval THEN since + 1 ELSE since
    /\ UNCHANGED <<options, pc, events, live, data, userq, flying, lost, terms, printed>>

Instance == HandleInit \/ HandleAnswer \/ HandleAnswerWithoutData \/ HandleTerm
User     == UserReply \/ UserPrints \/ UserWithoutData \/ UserStatistics \/ UserTerminated

Next ==
    \/ Instance
    \/ User
    \/ Terminate
    \/ Reported
    \/ Scheduled
    \/ ProcessSendq
    \/ \E a \in Answers : Answer(a)
    \/ Tick

Spec == Init /\ [][Next]_vars

(* The loop handles what is thrown and reported, time passes, and the network
   layer answers every probe it has sent. *)
FairSpec ==
    /\ Spec
    /\ WF_vars(Instance) /\ WF_vars(User)
    /\ WF_vars(Reported) /\ WF_vars(Scheduled)
    /\ WF_vars(ProcessSendq)
    /\ WF_vars(\E a \in Answers : Answer(a))
    /\ WF_vars(Tick)

-----------------------------------------------------------------------------
(* Properties *)

TypeOK ==
    /\ GroupTypeOK
    /\ options \in OptionSets
    /\ pc \in {"run", "done", "null data"}
    /\ events \in Seq(Events)
    /\ live \in BOOLEAN
    /\ data \in Counters
    /\ \A i \in 1 .. Len(userq) :
         /\ userq[i].type \in Answers \cup {"ALL_PROBES_SENT", "PRINT_STATISTICS", "HAS_TERMINATED"}
         /\ userq[i].copy \in Seq(Counters)
    /\ {flying, lost, terms, since} \subseteq Nat
    /\ printed \in Seq(Counters)

Waiting == Total(group.children, Delays)

(* num_probes_in_flight counts every probe that is on its way between ping and
   the answer that ping handles, wherever it is: in the group, in the queue of
   the network layer, in flight, lost, or answered in the queue of the instance. *)
InFlightExact ==
    live => data.num_probes_in_flight =
                Waiting + sendq + flying + lost + Count(events, Answers)

(* There are never more than count probes, nor more of them on their way than
   can be sent within the timeout, one per interval. *)
WindowRespected ==
    /\ data.num_sent <= options.count
    /\ (data.num_probes_in_flight - 1) * options.interval < NetTimeout

(* The statistics that are printed account for each answer once: an answer is
   a loss or has given a round-trip time, which the user handler records later
   than ping counts the answer.  They are never printed twice, and a ping that
   ends by itself prints them, for count probes. *)
StatisticsRight ==
    /\ \A i \in 1 .. Len(printed) :
         printed[i].num_replies = printed[i].num_losses + printed[i].rtt_results
    /\ Len(printed) <= 1
    /\ terms = 0 /\ pc = "done" =>
         /\ Len(printed) = 1
         /\ printed[1].num_replies = options.count

(* Two reports of the timer that send probes are at least an interval apart,
   although each answer schedules a probe that may set the timer again. *)
FiringsSpaced == [][sendq' > sendq => since >= options.interval]_vars

(* A ping ends if no probe is lost, unless TERM makes it meet freed data. *)
Ends == [](lost = 0) => <>(pc = "done" \/ (pc = "null data" /\ terms > 0))

=============================================================================
