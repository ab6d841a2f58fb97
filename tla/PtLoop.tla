------------------------------- MODULE PtLoop -------------------------------
(***************************************************************************)
(* The main loop of libparistraceroute (pt_loop.c) with the event queues   *)
(* of the algorithm instances (algorithm.c) and the user handler of the    *)
(* programs (loop_handler of paris-traceroute.c and paris-ping.c).         *)
(*                                                                         *)
(* One thread runs the loop.  It waits in epoll_wait, without time limit,  *)
(* then dispatches the ready descriptors one by one.  Each instance has a  *)
(* queue of events; all instances share one semaphore eventfd that should  *)
(* count them.  The user queue has an eventfd of its own.                  *)
(*                                                                         *)
(* The network layer is reduced to what the loop sees of it: an instance   *)
(* hands probes over, each is sent or lost on the way out (Network shows   *)
(* that the caller is not told), and each one sent is answered by a reply  *)
(* or by a timeout.  An algorithm is reduced to rounds of ProbesPerRound   *)
(* probes: when all of them are answered it goes on or terminates.         *)
(***************************************************************************)
EXTENDS Counting

CONSTANTS
    Instances,       (* the algorithm instances added before the loop runs *)
    ProbesPerRound,  (* probes each instance sends at a time               *)
    MaxRounds,       (* bound on the rounds of an instance                 *)
    HasMaxTime,      (* is loop->timeout set (option --timeout)?           *)
    MaxSignals,      (* bound on the signals (SIGINT, SIGQUIT) received    *)
    MayLose,         (* may the sending of a probe fail?                   *)
    MayFail          (* may an instance reject its options?                *)

ASSUME PtLoopAssumption ==
    /\ IsFiniteSet(Instances)
    /\ ProbesPerRound \in [Instances -> Nat \ {0}]
    /\ MaxRounds \in Nat \ {0}
    /\ MaxSignals \in Nat
    /\ {HasMaxTime, MayLose, MayFail} \subseteq BOOLEAN

VARIABLES
    pc,          (* where the loop is                                      *)
    status,      (* loop->status                                           *)
    batch,       (* descriptors of the epoll report not dispatched yet     *)
    late,        (* has more than loop->timeout elapsed?                   *)
    expired,     (* max_time_has_expired                                   *)
    signal,      (* is a signal waiting in the signalfd?                   *)
    signals,     (* signals received so far                                *)
    algfd,       (* counter of loop->eventfd_algorithm                     *)
    userfd,      (* counter of loop->eventfd_user                          *)
    registered,  (* instances in loop->algorithm_instances_root            *)
    alive,       (* instances not freed                                    *)
    events,      (* instance->events                                       *)
    data,        (* instance->data: "none" before INIT and after TERM      *)
    userq,       (* loop->events_user                                      *)
    visits,      (* instances twalk has still to visit                     *)
    cur,         (* the instance being processed (loop->cur_instance)      *)
    done,        (* events of the processed queue already handled          *)
    waiting,     (* answers an instance still waits for (in its data)      *)
    rounds,      (* rounds an instance has started                         *)
    sendq,       (* callers of the probes to send                          *)
    flying,      (* number of flying probes of each instance               *)
    recvq,       (* callers of the probes whose reply has been sniffed     *)
    timeUp,      (* is the timerfd of the network layer readable?          *)
    lost         (* history: probes of each instance that were not sent    *)

loopVars  == <<status, late, expired, signal, signals>>
queueVars == <<algfd, events>>
userVars  == <<userfd, userq>>
instVars  == <<registered, alive>>
walkVars  == <<visits, cur, done>>
algoVars  == <<data, waiting, rounds>>
netVars   == <<sendq, flying, recvq, timeUp, lost>>
vars == <<pc, batch, loopVars, queueVars, userVars, instVars, walkVars, algoVars, netVars>>

Nobody == "nobody"

ASSUME NobodyAssumption == Nobody \notin Instances

NetFds == {"sendq", "recvq", "timerfd"}
Fds    == NetFds \cup {"algorithm", "user", "signalfd"}
Places == {"top", "wait", "dispatch", "walk", "visit", "users", "exit"}

(* Undefined behaviour ends the run: the data of an instance is used after
   TERM, an event is thrown to a freed instance, or the user handler looks
   into a freed instance. *)
Faults == {"null data", "freed caller", "freed issuer"}

(* What may be in the queue of an instance, and in the user queue. *)
EventTypes == {"INIT", "REPLY", "TIMEOUT", "TERM"}
Answers    == {"REPLY", "TIMEOUT"}
UserTypes  == {"EVENT", "HAS_TERMINATED", "ERROR", "FORWARDED"}

-----------------------------------------------------------------------------
(* pt_add_instance has thrown INIT to every instance. *)
Init ==
    /\ pc = "top"
    /\ status = "CONTINUE"
    /\ batch = {}
    /\ late = FALSE /\ expired = FALSE /\ signal = FALSE /\ signals = 0
    /\ registered = Instances /\ alive = Instances
    /\ events = [i \in Instances |-> <<"INIT">>]
    /\ algfd = Cardinality(Instances)
    /\ userq = << >> /\ userfd = 0
    /\ data = [i \in Instances |-> "none"]
    /\ visits = {} /\ cur = Nobody /\ done = 0
    /\ waiting = [i \in Instances |-> 0]
    /\ rounds = [i \in Instances |-> 0]
    /\ sendq = << >> /\ recvq = << >> /\ timeUp = FALSE
    /\ flying = [i \in Instances |-> 0]
    /\ lost = [i \in Instances |-> 0]

-----------------------------------------------------------------------------
(* pt_throw *)

(* ... of n[i] events of one type to every instance i of S. *)
MutThrowTo(S, type, n) ==
    /\ events' = [i \in Instances |->
                    IF i \in S THEN events[i] \o [k \in 1 .. n[i] |-> type] ELSE events[i]]
    /\ algfd' = algfd + Cardinality(S)

ThrowTo(S, type, n) ==
    /\ events' = [i \in Instances |->
                    IF i \in S THEN events[i] \o [k \in 1 .. n[i] |-> type] ELSE events[i]]
    /\ algfd' = algfd + Total(n, S)

(* pt_process_algorithms_terminate throws TERM to an instance whenever twalk
   visits its node: once for a leaf of the tree of the registered instances,
   three times (preorder, postorder, endorder) for an inner node. *)
NodeVisits ==
    {n \in [registered -> {1, 3}] : registered # {} => \E i \in registered : n[i] = 1}

ThrowTermToAll == \E n \in NodeVisits : ThrowTo(registered, "TERM", n)

(* ... of a sequence of events to the user, the caller of every instance. *)
Raise(i, types) ==
    /\ userq' = userq \o [k \in 1 .. Len(types) |-> [type |-> types[k], issuer |-> i]]
    /\ userfd' = userfd + Len(types)

-----------------------------------------------------------------------------
(* The loop *)

(* The head of the loop: more than --timeout has elapsed, for the first time. *)
TimeExpires ==
    /\ pc = "top"
    /\ HasMaxTime /\ late /\ ~ expired
    /\ ThrowTermToAll
    /\ expired' = TRUE
    /\ pc' = "wait"
    /\ UNCHANGED <<batch, status, late, signal, signals, userVars, instVars, walkVars, algoVars, netVars>>

TimeNotExpired ==
    /\ pc = "top"
    /\ ~ (HasMaxTime /\ late /\ ~ expired)
    /\ pc' = "wait"
    /\ UNCHANGED <<batch, loopVars, queueVars, userVars, instVars, walkVars, algoVars, netVars>>

Readable ==
    {fd \in Fds : \/ fd = "sendq"     /\ sendq # << >>
                  \/ fd = "recvq"     /\ recvq # << >>
                  \/ fd = "timerfd"   /\ timeUp
                  \/ fd = "algorithm" /\ algfd > 0
                  \/ fd = "user"      /\ userfd > 0
                  \/ fd = "signalfd"  /\ signal}

(* epoll_wait, with an infinite timeout. *)
EpollWait ==
    /\ pc = "wait"
    /\ Readable # {}
    /\ batch' = Readable
    /\ pc' = "dispatch"
    /\ UNCHANGED <<loopVars, queueVars, userVars, instVars, walkVars, algoVars, netVars>>

MutNextTurn ==
    /\ pc = "dispatch"
    /\ batch = {}
    /\ pc' = "top"
    /\ UNCHANGED <<batch, loopVars, queueVars, userVars, instVars, walkVars, algoVars, netVars>>

(* The end of the report and the condition of the loop. *)
NextTurn ==
    /\ pc = "dispatch"
    /\ batch = {}
    /\ pc' = IF status = "TERMINATE" THEN "exit" ELSE "top"
    /\ UNCHANGED <<batch, loopVars, queueVars, userVars, instVars, walkVars, algoVars, netVars>>

(* An interrupted loop ignores all but the two event queues. *)
MutIgnores(fd) == status = "INTERRUPTED" /\ fd = "signalfd"

Ignores(fd) == status = "INTERRUPTED" /\ fd \in NetFds \cup {"signalfd"}

Skip(fd) ==
    /\ pc = "dispatch"
    /\ fd \in batch
    /\ Ignores(fd)
    /\ batch' = batch \ {fd}
    /\ UNCHANGED <<pc, loopVars, queueVars, userVars, instVars, walkVars, algoVars, netVars>>

Dispatch(fd) ==
    /\ pc = "dispatch"
    /\ fd \in batch
    /\ ~ Ignores(fd)
    /\ batch' = batch \ {fd}

(* The signalfd: every registered instance must terminate.  The loop leaves
   the rest of the report, whatever its status was. *)
ReadSignal ==
    /\ pc = "dispatch"
    /\ "signalfd" \in batch
    /\ ~ Ignores("signalfd")
    /\ signal' = FALSE
    /\ ThrowTermToAll
    /\ status' = "INTERRUPTED"
    /\ batch' = {}
    /\ UNCHANGED <<pc, late, expired, signals, userVars, instVars, walkVars, algoVars, netVars>>

-----------------------------------------------------------------------------
(* The handlers of the network layer *)

(* network_process_sendq: the probe is sent, or forgotten. *)
ProcessSendq ==
    /\ Dispatch("sendq")
    /\ LET i == Head(sendq)
       IN  \/ /\ flying' = [flying EXCEPT ![i] = @ + 1]
              /\ UNCHANGED lost
           \/ /\ MayLose
              /\ lost' = [lost EXCEPT ![i] = @ + 1]
              /\ UNCHANGED flying
    /\ sendq' = Tail(sendq)
    /\ UNCHANGED <<pc, loopVars, queueVars, userVars, instVars, walkVars, algoVars, recvq, timeUp>>

(* The answers to n[i] probes of every instance i are thrown to it. *)
Answer(type, n) ==
    LET callers == {i \in Instances : n[i] > 0}
    IN  IF callers \subseteq alive
        THEN /\ ThrowTo(callers, type, n)
             /\ flying' = [i \in Instances |-> flying[i] - n[i]]
             /\ UNCHANGED pc
        ELSE /\ pc' = "freed caller"
             /\ UNCHANGED <<queueVars, flying>>

MutStillFlying(i) == TRUE

StillFlying(i) == flying[i] > 0

(* network_process_recvq.  The probe may have timed out in between: then its
   reply is discarded.  If the probe was the oldest one, the timer is set
   again or disarmed. *)
ProcessRecvq ==
    /\ Dispatch("recvq")
    /\ LET i == Head(recvq)
       IN  \/ /\ StillFlying(i)
              /\ Answer("REPLY", [j \in Instances |-> IF j = i THEN 1 ELSE 0])
              /\ timeUp' \in {FALSE, timeUp /\ \E j \in Instances : flying'[j] > 0}
           \/ UNCHANGED <<pc, queueVars, flying, timeUp>>
    /\ recvq' = Tail(recvq)
    /\ UNCHANGED <<loopVars, userVars, instVars, walkVars, algoVars, sendq, lost>>

(* network_drop_expired_flying_probe: the expired probes, at least one of them
   unless an earlier handler of the same report has made the timer unreadable. *)
DropExpired ==
    /\ Dispatch("timerfd")
    /\ \E n \in [Instances -> UNION {0 .. flying[i] : i \in Instances}] :
         /\ \A i \in Instances : n[i] <= flying[i]
         /\ timeUp => \E i \in Instances : n[i] > 0
         /\ Answer("TIMEOUT", n)
    /\ timeUp' = FALSE
    /\ UNCHANGED <<loopVars, userVars, instVars, walkVars, algoVars, sendq, recvq, lost>>

-----------------------------------------------------------------------------
(* pt_process_instance: eventfd_algorithm is ready, and the loop visits the
   instances.  (The second and third visits of an inner node find an empty
   queue, as nothing is thrown to an instance during the walk.) *)
StartWalk ==
    /\ Dispatch("algorithm")
    /\ pc' = "walk"
    /\ visits' = registered
    /\ UNCHANGED <<loopVars, queueVars, userVars, instVars, cur, done, algoVars, netVars>>

Visit(i) ==
    /\ pc = "walk" /\ i \in visits
    /\ pc' = "visit"
    /\ visits' = visits \ {i}
    /\ cur' = i
    /\ done' = 0
    /\ UNCHANGED <<batch, loopVars, queueVars, userVars, instVars, algoVars, netVars>>

EndWalk ==
    /\ pc = "walk" /\ visits = {}
    /\ pc' = "dispatch"
    /\ UNCHANGED <<batch, loopVars, queueVars, userVars, instVars, walkVars, algoVars, netVars>>

(* All events are handled, or TERM has been: the queue is flushed.  The
   counter keeps what the skipped events have added to it. *)
EndVisit ==
    /\ pc = "visit"
    /\ \/ done = Len(events[cur])
       \/ done > 0 /\ events[cur][done] = "TERM"
    /\ events' = [events EXCEPT ![cur] = << >>]
    /\ cur' = Nobody
    /\ pc' = "walk"
    /\ UNCHANGED <<batch, loopVars, algfd, userVars, instVars, visits, done, algoVars, netVars>>

(* read(eventfd_algorithm), which blocks at 0, then the handler. *)
Take(types) ==
    /\ pc = "visit"
    /\ done < Len(events[cur])
    /\ ~ (done > 0 /\ events[cur][done] = "TERM")
    /\ events[cur][done + 1] \in types
    /\ algfd > 0
    /\ algfd' = algfd - 1
    /\ done' = done + 1
    /\ UNCHANGED <<batch, loopVars, events, instVars, visits, cur, flying, recvq, timeUp, lost>>

(* pt_send_probe for a round of probes, of which the instance cur is the
   caller. *)
MutSendRound ==
    /\ sendq' = sendq \o [k \in 1 .. ProbesPerRound[cur] - 1 |-> cur]
    /\ rounds' = [rounds EXCEPT ![cur] = @ + 1]

SendRound ==
    /\ sendq' = sendq \o [k \in 1 .. ProbesPerRound[cur] |-> cur]
    /\ rounds' = [rounds EXCEPT ![cur] = @ + 1]

HandleInit ==
    /\ Take({"INIT"})
    /\ data' = [data EXCEPT ![cur] = "live"]
    /\ SendRound
    /\ waiting' = [waiting EXCEPT ![cur] = ProbesPerRound[cur]]
    /\ Raise(cur, <<"FORWARDED">>)
    /\ UNCHANGED pc

(* The options are invalid: FAILURE, before the data are allocated. *)
HandleInitFails ==
    /\ MayFail
    /\ Take({"INIT"})
    /\ Raise(cur, <<"ERROR">>)
    /\ UNCHANGED <<pc, algoVars, sendq>>

MutLastOfRound == waiting[cur] <= 2

LastOfRound == waiting[cur] = 1

(* An answer is reported to the user.  The last one of a round starts another
   round or terminates the algorithm. *)
HandleAnswer ==
    /\ Take(Answers)
    /\ data[cur] = "live"
    /\ \/ /\ ~ LastOfRound
          /\ waiting' = [waiting EXCEPT ![cur] = @ - 1]
          /\ Raise(cur, <<"EVENT", "FORWARDED">>)
          /\ UNCHANGED <<rounds, sendq>>
       \/ /\ LastOfRound /\ rounds[cur] < MaxRounds
          /\ waiting' = [waiting EXCEPT ![cur] = ProbesPerRound[cur]]
          /\ Raise(cur, <<"EVENT", "FORWARDED">>)
          /\ SendRound
       \/ /\ LastOfRound
          /\ waiting' = [waiting EXCEPT ![cur] = 0]
          /\ Raise(cur, <<"EVENT", "FORWARDED", "EVENT", "HAS_TERMINATED">>)
          /\ UNCHANGED <<rounds, sendq>>
    /\ UNCHANGED <<pc, data>>

HandleAnswerWithoutData ==
    /\ Take(Answers)
    /\ data[cur] = "none"
    /\ pc' = "null data"
    /\ UNCHANGED <<userVars, algoVars, sendq>>

(* TERM: the data are freed and the user is told. *)
HandleTerm ==
    /\ Take({"TERM"})
    /\ data' = [data EXCEPT ![cur] = "none"]
    /\ Raise(cur, <<"HAS_TERMINATED">>)
    /\ UNCHANGED <<pc, waiting, rounds, sendq>>

-----------------------------------------------------------------------------
(* pt_loop_process_user_events: eventfd_user is ready. *)
StartUsers ==
    /\ Dispatch("user")
    /\ pc' = "users"
    /\ done' = 0
    /\ UNCHANGED <<loopVars, queueVars, userVars, instVars, visits, cur, algoVars, netVars>>

(* pt_loop_clear_user_events *)
EndUsers ==
    /\ pc = "users"
    /\ done = Len(userq)
    /\ userq' = << >>
    /\ pc' = "dispatch"
    /\ UNCHANGED <<batch, loopVars, queueVars, userfd, instVars, walkVars, algoVars, netVars>>

(* read(eventfd_user), which blocks at 0, then the user handler. *)
TakeUser(types) ==
    /\ pc = "users"
    /\ done < Len(userq)
    /\ userq[done + 1].type \in types
    /\ userfd > 0
    /\ userfd' = userfd - 1
    /\ done' = done + 1
    /\ UNCHANGED <<batch, late, expired, signal, signals, userq, visits, cur, algoVars, netVars>>

(* loop_handler on an event it ignores: one that the algorithm forwards, or
   ALGORITHM_ERROR. *)
UserIgnores ==
    /\ TakeUser({"FORWARDED", "ERROR"})
    /\ UNCHANGED <<pc, status, queueVars, instVars>>

(* loop_handler reads event->issuer first. *)
UserFaults ==
    /\ TakeUser({"EVENT", "HAS_TERMINATED"})
    /\ userq[done + 1].issuer \notin alive
    /\ pc' = "freed issuer"
    /\ UNCHANGED <<status, queueVars, instVars>>

UserEvent ==
    /\ TakeUser({"EVENT"})
    /\ userq[done + 1].issuer \in alive
    /\ UNCHANGED <<pc, status, queueVars, instVars>>

(* pt_stop_instance throws TERM, which pt_del_instance clears right after
   without touching the counter; then pt_loop_terminate. *)
UserTerminated ==
    /\ TakeUser({"HAS_TERMINATED"})
    /\ LET i == userq[done + 1].issuer
       IN  /\ i \in alive
           /\ algfd' = algfd + 1
           /\ events' = [events EXCEPT ![i] = << >>]
           /\ registered' = registered \ {i}
           /\ alive' = alive \ {i}
    /\ status' = "TERMINATE"
    /\ UNCHANGED pc

-----------------------------------------------------------------------------
(* The environment *)

TimePasses ==
    /\ HasMaxTime /\ ~ late
    /\ pc \notin Faults \cup {"exit"}
    /\ late' = TRUE
    /\ UNCHANGED <<pc, batch, status, expired, signal, signals, queueVars, userVars, instVars, walkVars,
                   algoVars, netVars>>

Interrupt ==
    /\ signals < MaxSignals /\ ~ signal
    /\ pc \notin Faults \cup {"exit"}
    /\ signal' = TRUE
    /\ signals' = signals + 1
    /\ UNCHANGED <<pc, batch, status, late, expired, queueVars, userVars, instVars, walkVars, algoVars, netVars>>

(* A reply to a flying probe of i is sniffed. *)
ReplyArrives(i) ==
    /\ pc \notin Faults \cup {"exit"}
    /\ Count(recvq, {i}) < flying[i]
    /\ recvq' = Append(recvq, i)
    /\ UNCHANGED <<pc, batch, loopVars, queueVars, userVars, instVars, walkVars, algoVars,
                   sendq, flying, timeUp, lost>>

(* The timer of the network layer goes off. *)
TimerExpires ==
    /\ pc \notin Faults \cup {"exit"}
    /\ ~ timeUp /\ \E i \in Instances : flying[i] > 0
    /\ timeUp' = TRUE
    /\ UNCHANGED <<pc, batch, loopVars, queueVars, userVars, instVars, walkVars, algoVars,
                   sendq, flying, recvq, lost>>

(* pt_loop has returned, or the behaviour is undefined. *)
Over ==
    /\ pc \in Faults \cup {"exit"}
    /\ UNCHANGED vars

-----------------------------------------------------------------------------
Loop ==
    \/ TimeExpires \/ TimeNotExpired \/ EpollWait \/ NextTurn
    \/ \E fd \in Fds : Skip(fd)
    \/ ReadSignal
    \/ ProcessSendq \/ ProcessRecvq \/ DropExpired
    \/ StartWalk \/ \E i \in Instances : Visit(i)
    \/ EndVisit \/ EndWalk
    \/ HandleInit \/ HandleInitFails
    \/ HandleAnswer \/ HandleAnswerWithoutData \/ HandleTerm
    \/ StartUsers \/ EndUsers
    \/ UserIgnores \/ UserFaults \/ UserEvent \/ UserTerminated

Environment ==
    \/ TimePasses \/ Interrupt \/ TimerExpires
    \/ \E i \in Instances : ReplyArrives(i)

Next == Loop \/ Environment \/ Over

Spec == Init /\ [][Next]_vars

(* The thread runs when it can, time passes, and as the network layer
   promises a probe in flight is at least timed out in the end. *)
FairSpec ==
    /\ Spec
    /\ WF_vars(Loop)
    /\ WF_vars(TimePasses)
    /\ WF_vars(TimerExpires)

-----------------------------------------------------------------------------
(* Properties *)

TypeOK ==
    /\ pc \in Places \cup Faults
    /\ status \in {"CONTINUE", "TERMINATE", "INTERRUPTED"}
    /\ batch \in SUBSET Fds
    /\ {late, expired, signal, timeUp} \subseteq BOOLEAN
    /\ signals \in 0 .. MaxSignals
    /\ registered \subseteq Instances /\ alive \subseteq Instances
    /\ algfd \in Nat /\ userfd \in Nat /\ done \in Nat
    /\ events \in [Instances -> Seq(EventTypes)]
    /\ userq \in Seq([type : UserTypes, issuer : Instances])
    /\ data \in [Instances -> {"none", "live"}]
    /\ visits \subseteq Instances /\ cur \in Instances \cup {Nobody}
    /\ {waiting, rounds, flying, lost} \subseteq [Instances -> Nat]
    /\ sendq \in Seq(Instances) /\ recvq \in Seq(Instances)

(* Events of the queue of i that have been handled. *)
Handled(i) == IF cur = i THEN done ELSE 0

(* All the events thrown to registered instances and not handled yet. *)
Pending == Total([i \in Instances |-> Len(events[i]) - Handled(i)], registered)

(* The blocking reads of pt_process_instance and of
   pt_loop_process_user_events never block: each counter is at least the
   number of events still queued, whatever was flushed, skipped or deleted. *)
ReadsNeverBlock ==
    /\ algfd >= Pending
    /\ userfd = Len(userq) - (IF pc \in {"users", "freed issuer"} THEN done ELSE 0)

(* eventfd_algorithm counts the queued events, so that epoll_wait does not
   report it for nothing (the loop would spin).  It holds as long as no TERM
   is thrown: the events that follow a TERM are flushed but stay counted, and
   so does the TERM of pt_stop_instance.  (--timeout throws TERM as well.) *)
CounterExact == status = "CONTINUE" => algfd = Pending

(* No answer gets lost between the network layer and the algorithm: what an
   instance still waits for is in sendq, in flight or in its queue, or was
   never sent. *)
Awaited(i) ==
    Count(sendq, {i}) + flying[i] + lost[i] + CountFrom(events[i], Handled(i) + 1, Answers)

AnswersAccounted ==
    \A i \in alive : data[i] = "live" => waiting[i] = Awaited(i)

(* Nobody has interrupted the loop, its time is not up, and all probes could be
   sent. *)
Undisturbed == signals = 0 /\ ~ late /\ \A i \in Instances : lost[i] = 0

(* No undefined behaviour as long as nobody else than the instances themselves
   decides when they terminate: the one that has terminated, and is freed, has
   no probe in flight and no event left to be read. *)
NoFault == signals = 0 /\ ~ late => pc \notin Faults


(* A signal ends the loop as long as an instance is left to be told: its TERM
   comes back as HAS_TERMINATED although an interrupted loop leaves the network
   alone, and pt_loop_terminate takes the loop out of that status. *)
InterruptEnds ==
    status = "INTERRUPTED" /\ registered # {} ~> pc \in Faults \cup {"exit"}

(* The loop ends: left alone, with an instance that has terminated, and
   interrupted, with the TERM it throws (pt_loop.c:456-550). *)
Ends == ([]Undisturbed => <>(pc = "exit")) /\ InterruptEnds

(* "Next events for this instance are ignored" after TERM (pt_loop.c:397): no
   answer is handled without data.  A loop interrupted once keeps the promise,
   as it handles no answer after TERM.  --timeout does not: answers come in
   after the queue that held TERM has been flushed.  Nor does a second signal,
   read after the first one has taken the loop out of the interrupted status:
   it makes another turn of what would have been the last one. *)
NoAnswerAfterTerm == pc # "null data"

=============================================================================
