---------------------------- MODULE PtLoopProofs ----------------------------
(***************************************************************************)
(* Proofs about PtLoop, for any instances, rounds, signals and losses.     *)
(*                                                                         *)
(* The counters of the loop are compared with the places of the queues     *)
(* that hold an event not handled yet.  What an instance waits for is      *)
(* followed from the queue of the probes to send to its own queue.  As     *)
(* long as no TERM is thrown (Calm), the instances alone decide when they  *)
(* end, and then nothing of theirs is left anywhere.  After TERM (the      *)
(* storm) the argument is about the turn of the loop in which an answer    *)
(* could still come in: it is the last one, and its walk is over.          *)
(***************************************************************************)
EXTENDS PtLoop, CountingProofs

-----------------------------------------------------------------------------
(* Types, but for waiting: that it never gets negative is a consequence of   *)
(* the accounting of the answers.                                            *)
LoopType ==
    /\ pc \in Places \cup Faults
    /\ status \in {"CONTINUE", "TERMINATE", "INTERRUPTED"}
    /\ batch \in SUBSET Fds
    /\ late \in BOOLEAN /\ expired \in BOOLEAN /\ signal \in BOOLEAN
    /\ signals \in Nat /\ signals <= MaxSignals

WalkType ==
    /\ registered \in SUBSET Instances /\ alive \in SUBSET Instances
    /\ visits \in SUBSET Instances
    /\ cur \in Instances \cup {Nobody}
    /\ done \in Nat

EventType == events \in [Instances -> Seq(EventTypes)] /\ algfd \in Nat

UserType ==
    userq \in Seq([type : UserTypes, issuer : Instances]) /\ userfd \in Nat

AlgoType ==
    /\ data \in [Instances -> {"none", "live"}]
    /\ waiting \in [Instances -> Int]
    /\ rounds \in [Instances -> Nat]

NetType ==
    /\ sendq \in Seq(Instances) /\ recvq \in Seq(Instances)
    /\ flying \in [Instances -> Nat]
    /\ lost \in [Instances -> Nat]
    /\ timeUp \in BOOLEAN

TypeInv ==
    LoopType /\ WalkType /\ EventType /\ UserType /\ AlgoType /\ NetType

(* Where the loop is, and what it is about. *)
Visiting == pc \in {"visit", "null data"}
InUsers  == pc \in {"users", "freed issuer"}

PlaceInv ==
    /\ "sendq" \in batch => sendq # << >>
    /\ "recvq" \in batch => recvq # << >>
    /\ "signalfd" \in batch => signal
    /\ pc \in {"walk", "visit", "null data"} => "algorithm" \notin batch
    /\ registered = alive
    /\ visits \subseteq registered
    /\ pc \in {"walk", "visit", "null data"} \/ visits = {}
    /\ Visiting => cur \in registered /\ done <= Len(events[cur])
    /\ ~ Visiting => cur = Nobody
    /\ InUsers => done <= Len(userq)

(* The inductive invariant behind CounterExact. *)
NoTerm == \A i \in Instances : \A k \in 1 .. Len(events[i]) : events[i][k] # "TERM"

ExactInv == ~ late /\ status = "CONTINUE" => algfd = Pending /\ NoTerm

-----------------------------------------------------------------------------
(* What an instance waits for *)

(* The events of i not handled yet that are in V. *)
Queued(i, V) == CountFrom(events[i], Handled(i) + 1, V)

(* TERM has been handled, and the rest of the queue will be flushed. *)
Flushing(i) == Visiting /\ cur = i /\ done > 0 /\ events[i][done] = "TERM"

AnswersFor(i) ==
    /\ waiting[i] >= 0
    /\ \A k \in 2 .. Len(events[i]) : events[i][k] # "INIT"
    /\ Queued(i, {"INIT"}) > 0 => data[i] = "none" /\ Awaited(i) = 0
    /\ Flushing(i) => data[i] = "none"
    /\ i \in alive /\ data[i] = "live" => waiting[i] = Awaited(i)

AnswerInv == \A i \in Instances : AnswersFor(i)

-----------------------------------------------------------------------------
(* Before and after TERM *)

(* No TERM has been thrown by the loop: at most, a signal waits. *)
Calm == ~ late /\ signals = IF signal THEN 1 ELSE 0

(* The events of the user queue not handled yet. *)
ToUser == {k \in 1 .. Len(userq) : InUsers => k > done}

ToldEnd(i, k) == userq[k].type = "HAS_TERMINATED" /\ userq[k].issuer = i

(* Nothing is awaited without data, what has terminated has raised its last
   event, and nothing is left of an instance that is freed. *)
CalmFor(i) ==
    /\ i \in alive /\ data[i] = "none" => Awaited(i) = 0
    /\ \A k \in ToUser :
         ToldEnd(i, k) =>
             /\ waiting[i] = 0 /\ data[i] = "live"
             /\ \A j \in ToUser : j > k => userq[j].issuer # i
    /\ i \notin alive => Awaited(i) = 0 /\ \A k \in ToUser : userq[k].issuer # i

CalmInv == pc \notin Faults /\ NoTerm /\ \A i \in Instances : CalmFor(i)

(* The loop ends with this turn, and its walk is over. *)
LastTurn == status = "TERMINATE" /\ "algorithm" \notin batch /\ pc \notin {"top", "wait"}

StormFor(i) ==
    i \in alive /\ data[i] = "none" =>
        /\ Awaited(i) > 0 =>
             /\ \E k \in ToUser : ToldEnd(i, k)
             /\ status = "INTERRUPTED" \/ InUsers \/ LastTurn
        /\ Queued(i, Answers) > 0 =>
             Flushing(i) \/ (LastTurn /\ pc \notin {"walk", "visit"})

StormInv ==
    /\ pc # "null data"
    /\ signals = 1 /\ ~ signal
    /\ status # "CONTINUE"
    /\ \A i \in Instances : StormFor(i)

-----------------------------------------------------------------------------
(* What is thrown and what is raised *)

(* What an instance has once m events of the type have been written after those
   it had. *)
LEMMA CopiesAdded ==
    ASSUME NEW s \in Seq(EventTypes), NEW type \in EventTypes, NEW m \in Nat,
           NEW t, t = s \o [k \in 1 .. m |-> type]
    PROVE  /\ t \in Seq(EventTypes)
           /\ Len(t) = Len(s) + m
           /\ \A k \in 1 .. Len(s) : t[k] = s[k]
           /\ \A k \in Len(s) + 1 .. Len(t) : t[k] = type
<1>1. Len(s) \in Nat
  BY LenProperties
<1>2. /\ t \in Seq(EventTypes)
      /\ Len(t) = Len(s) + m
      /\ \A j \in 1 .. Len(s) + m : t[j] = IF j <= Len(s) THEN s[j] ELSE type
  <2> DEFINE r == s \o [k \in 1 .. m |-> type]
  <2>1. /\ r \in Seq(EventTypes)
        /\ Len(r) = Len(s) + m
        /\ \A j \in 1 .. Len(s) + m : r[j] = IF j <= Len(s) THEN s[j] ELSE type
    BY ONLY ConcatCopies
  <2>2. t = r
    OBVIOUS
  <2> HIDE DEF r
  <2> QED
    BY ONLY <2>1, <2>2
<1>3. \A k \in 1 .. Len(s) : t[k] = s[k]
  BY ONLY <1>1, <1>2
<1>4. \A k \in Len(s) + 1 .. Len(t) : t[k] = type
  BY ONLY <1>1, <1>2
<1> QED
  BY ONLY <1>2, <1>3, <1>4

LEMMA ThrowToEffect ==
    ASSUME EventType, NEW S \in SUBSET Instances, NEW type \in EventTypes,
           NEW n, \A i \in S : n[i] \in Nat, ThrowTo(S, type, n)
    PROVE  /\ events' \in [Instances -> Seq(EventTypes)]
           /\ algfd' \in Nat
           /\ \A i \in Instances : i \notin S => events'[i] = events[i]
           /\ \A i \in S : /\ Len(events'[i]) = Len(events[i]) + n[i]
                           /\ \A k \in 1 .. Len(events[i]) : events'[i][k] = events[i][k]
                           /\ \A k \in Len(events[i]) + 1 .. Len(events'[i]) : events'[i][k] = type
<1>1. \A i \in Instances : events[i] \in Seq(EventTypes)
  BY DEF EventType
<1>2. \A i \in Instances : i \notin S => events'[i] = events[i]
  BY DEF ThrowTo
<1>3. ASSUME NEW i \in S
      PROVE  /\ events'[i] \in Seq(EventTypes)
             /\ Len(events'[i]) = Len(events[i]) + n[i]
             /\ \A k \in 1 .. Len(events[i]) : events'[i][k] = events[i][k]
             /\ \A k \in Len(events[i]) + 1 .. Len(events'[i]) : events'[i][k] = type
  <2>1. PICK s \in Seq(EventTypes), m \in Nat : s = events[i] /\ m = n[i]
    BY <1>1
  <2>2. PICK t : t = events'[i]
    OBVIOUS
  <2>3. t = s \o [k \in 1 .. m |-> type]
    BY <2>1, <2>2 DEF ThrowTo
  <2>4. /\ t \in Seq(EventTypes)
        /\ Len(t) = Len(s) + m
        /\ \A k \in 1 .. Len(s) : t[k] = s[k]
        /\ \A k \in Len(s) + 1 .. Len(t) : t[k] = type
    BY ONLY <2>3, CopiesAdded
  <2> QED
    BY ONLY <2>1, <2>2, <2>4
<1>4. events' \in [Instances -> Seq(EventTypes)]
  <2>1. \A i \in Instances : events'[i] \in Seq(EventTypes)
    BY <1>1, <1>2, <1>3
  <2>2. events' = [i \in Instances |-> events'[i]]
    BY DEF ThrowTo
  <2> QED
    BY <2>1, <2>2
<1>5. algfd' \in Nat
  <2>1. IsFiniteSet(S)
    BY PtLoopAssumption, FS_Subset
  <2>2. Total(n, S) \in Nat
    BY <2>1, TotalIsFinite
  <2> QED
    BY <2>2 DEF ThrowTo, EventType
<1> QED
  BY <1>2, <1>3, <1>4, <1>5

(* An event that an instance has after a throw is one it had, or a new one. *)
LEMMA ThrownEvent ==
    ASSUME EventType, NEW S \in SUBSET Instances, NEW type \in EventTypes, NEW n,
           \A j \in S : n[j] \in Nat, ThrowTo(S, type, n),
           NEW i \in Instances, NEW k \in 1 .. Len(events'[i])
    PROVE  \/ k \in 1 .. Len(events[i]) /\ events'[i][k] = events[i][k]
           \/ k > Len(events[i]) /\ events'[i][k] = type
<1>1. Len(events[i]) \in Nat
  BY LenProperties DEF EventType
<1>2. CASE i \in S
  <2>1. /\ \A j \in 1 .. Len(events[i]) : events'[i][j] = events[i][j]
        /\ \A j \in Len(events[i]) + 1 .. Len(events'[i]) : events'[i][j] = type
        /\ events'[i] \in Seq(EventTypes)
    <3>1. PICK s \in Seq(EventTypes), m \in Nat : s = events[i] /\ m = n[i]
      BY <1>2 DEF EventType
    <3>2. PICK t : t = events'[i]
      OBVIOUS
    <3>3. t = s \o [j \in 1 .. m |-> type]
      BY <1>2, <3>1, <3>2 DEF ThrowTo
    <3>4. /\ t \in Seq(EventTypes)
          /\ \A j \in 1 .. Len(s) : t[j] = s[j]
          /\ \A j \in Len(s) + 1 .. Len(t) : t[j] = type
      BY ONLY <3>3, CopiesAdded
    <3> QED
      BY ONLY <3>1, <3>2, <3>4
  <2>2. Len(events'[i]) \in Nat
    BY <2>1, LenProperties
  <2>3. k \in 1 .. Len(events[i]) \/ (k > Len(events[i]) /\ k \in Len(events[i]) + 1 .. Len(events'[i]))
    BY ONLY <1>1, <2>2
  <2> QED
    BY ONLY <2>1, <2>3
<1>3. CASE i \notin S
  <2>1. events'[i] = events[i]
    BY <1>3 DEF ThrowTo
  <2> QED
    BY <1>1, <2>1
<1> QED
  BY <1>2, <1>3

LEMMA TermIsThrown ==
    ASSUME ThrowTermToAll
    PROVE  \E n \in [registered -> Nat] : ThrowTo(registered, "TERM", n)
<1>1. PICK n \in NodeVisits : ThrowTo(registered, "TERM", n)
  BY DEF ThrowTermToAll
<1>2. n \in [registered -> Nat]
  BY DEF NodeVisits
<1> QED
  BY <1>1, <1>2

LEMMA RaiseEffect ==
    ASSUME UserType, NEW i \in Instances, NEW types \in Seq(UserTypes), Raise(i, types)
    PROVE  /\ userq' \in Seq([type : UserTypes, issuer : Instances])
           /\ Len(userq') = Len(userq) + Len(types)
           /\ userfd' = userfd + Len(types) /\ userfd' \in Nat
           /\ \A k \in 1 .. Len(userq) : userq'[k] = userq[k]
           /\ \A k \in Len(userq) + 1 .. Len(userq') :
                userq'[k] = [type |-> types[k - Len(userq)], issuer |-> i]
<1> DEFINE E == [type : UserTypes, issuer : Instances]
           t == [k \in 1 .. Len(types) |-> [type |-> types[k], issuer |-> i]]
<1>1. Len(types) \in Nat /\ Len(userq) \in Nat
  BY LenProperties DEF UserType
<1>2. t \in Seq(E) /\ Len(t) = Len(types)
  <2>1. \A k \in 1 .. Len(types) : types[k] \in UserTypes
    BY ElementOfSeq
  <2>2. \A k \in 1 .. Len(types) : [type |-> types[k], issuer |-> i] \in E
    BY <2>1
  <2> HIDE DEF E
  <2> QED
    BY <1>1, <2>2
<1>3. userq \in Seq(E) /\ userq' = userq \o t
  BY DEF Raise, UserType
<1>4. \A k \in 1 .. Len(types) : t[k] = [type |-> types[k], issuer |-> i]
  OBVIOUS
<1> HIDE DEF t, E
<1>5. /\ userq \o t \in Seq(E)
      /\ Len(userq \o t) = Len(userq) + Len(t)
      /\ \A k \in 1 .. Len(userq) + Len(t) :
           (userq \o t)[k] = IF k <= Len(userq) THEN userq[k] ELSE t[k - Len(userq)]
  BY <1>2, <1>3, ConcatProperties
<1>6. /\ userq' \in Seq(E)
      /\ Len(userq') = Len(userq) + Len(types)
      /\ \A k \in 1 .. Len(userq) + Len(types) :
           userq'[k] = IF k <= Len(userq) THEN userq[k] ELSE t[k - Len(userq)]
  BY <1>2, <1>3, <1>5
<1>7. \A k \in 1 .. Len(userq) : userq'[k] = userq[k]
  BY <1>1, <1>6
<1>8. \A k \in Len(userq) + 1 .. Len(userq') :
        userq'[k] = [type |-> types[k - Len(userq)], issuer |-> i]
  BY <1>1, <1>4, <1>6
<1>9. userfd' = userfd + Len(types) /\ userfd' \in Nat
  BY <1>1 DEF Raise, UserType
<1> QED
  BY <1>6, <1>7, <1>8, <1>9 DEF E

LEMMA SendRoundEffect ==
    ASSUME NetType, AlgoType, cur \in Instances, SendRound
    PROVE  /\ sendq' \in Seq(Instances)
           /\ rounds' \in [Instances -> Nat]
<1>1. ProbesPerRound[cur] \in Nat /\ sendq \in Seq(Instances)
  BY PtLoopAssumption DEF NetType, AlgoType
<1>2. sendq' \in Seq(Instances)
  <2> DEFINE m == ProbesPerRound[cur]
             c == cur
  <2>1. sendq' = sendq \o [k \in 1 .. m |-> c]
    BY DEF SendRound
  <2>2. m \in Nat /\ c \in Instances
    BY <1>1
  <2> HIDE DEF m, c
  <2>3. sendq \o [k \in 1 .. m |-> c] \in Seq(Instances)
    BY <1>1, <2>2, ConcatCopies
  <2> QED
    BY <2>1, <2>3
<1>3. rounds' \in [Instances -> Nat]
  BY DEF SendRound, NetType, AlgoType
<1> QED
  BY <1>2, <1>3

(* Either the answers are thrown to instances that are all alive, or one of
   them is not. *)
LEMMA AnswerEffect ==
    ASSUME EventType, NetType, NEW type \in Answers,
           NEW n \in [Instances -> Nat], \A i \in Instances : n[i] <= flying[i],
           Answer(type, n)
    PROVE  /\ flying' \in [Instances -> Nat]
           /\ events' \in [Instances -> Seq(EventTypes)]
           /\ algfd' \in Nat
           /\ pc' \in {pc, "freed caller"}
<1> DEFINE callers == {i \in Instances : n[i] > 0}
<1>1. CASE callers \subseteq alive
  <2>1. ThrowTo(callers, type, n) /\ UNCHANGED pc
    BY <1>1 DEF Answer
  <2>2. type \in EventTypes /\ callers \in SUBSET Instances /\ \A i \in callers : n[i] \in Nat
    BY DEF Answers, EventTypes
  <2>3. events' \in [Instances -> Seq(EventTypes)] /\ algfd' \in Nat
    <3> HIDE DEF callers
    <3> QED
      BY <2>1, <2>2, ThrowToEffect
  <2>4. flying' \in [Instances -> Nat]
    <3>1. flying' = [i \in Instances |-> flying[i] - n[i]]
      BY <1>1 DEF Answer
    <3>2. \A i \in Instances : flying[i] - n[i] \in Nat
      BY DEF EventType, NetType
    <3> QED
      BY <3>1, <3>2
  <2> QED
    BY <2>1, <2>3, <2>4
<1>2. CASE ~ (callers \subseteq alive)
  BY <1>2 DEF Answer, EventType, NetType, queueVars
<1> QED
  BY <1>1, <1>2

-----------------------------------------------------------------------------
(* Which steps change what *)

(* A step is one of the actions, or nothing happens. *)
LEMMA StepCases ==
    ASSUME [Next]_vars
    PROVE  \/ TimeExpires \/ TimeNotExpired \/ EpollWait \/ NextTurn
           \/ (\E fd \in Fds : Skip(fd)) \/ ReadSignal
           \/ ProcessSendq \/ ProcessRecvq \/ DropExpired
           \/ StartWalk \/ (\E i \in Instances : Visit(i)) \/ EndVisit \/ EndWalk
           \/ HandleInit \/ HandleInitFails
           \/ HandleAnswer \/ HandleAnswerWithoutData \/ HandleTerm
           \/ StartUsers \/ EndUsers
           \/ UserIgnores \/ UserFaults \/ UserEvent \/ UserTerminated
           \/ TimePasses \/ Interrupt \/ TimerExpires
           \/ (\E i \in Instances : ReplyArrives(i))
           \/ UNCHANGED vars
  BY DEF Next, Loop, Environment, Over

LEMMA EventsUnchanged ==
    ASSUME [Next]_vars
    PROVE  \/ TimeExpires \/ ReadSignal \/ ProcessRecvq \/ DropExpired
           \/ EndVisit \/ HandleInit \/ HandleInitFails \/ HandleAnswer
           \/ HandleAnswerWithoutData \/ HandleTerm \/ UserTerminated
           \/ UNCHANGED <<events, algfd>>
<1> USE DEF queueVars
<1>1. CASE TimeNotExpired \/ EpollWait \/ NextTurn \/ (\E fd \in Fds : Skip(fd)) \/ ProcessSendq
  BY <1>1 DEF TimeNotExpired, EpollWait, NextTurn, Skip, ProcessSendq
<1>2. CASE StartWalk \/ (\E i \in Instances : Visit(i)) \/ EndWalk \/ StartUsers \/ EndUsers
  BY <1>2 DEF StartWalk, Visit, EndWalk, StartUsers, EndUsers
<1>3. CASE UserIgnores \/ UserFaults \/ UserEvent \/ UNCHANGED vars
  BY <1>3 DEF UserIgnores, UserFaults, UserEvent, vars
<1>4. CASE TimePasses \/ Interrupt \/ TimerExpires \/ (\E i \in Instances : ReplyArrives(i))
  BY <1>4 DEF TimePasses, Interrupt, TimerExpires, ReplyArrives
<1> QED
  BY <1>1, <1>2, <1>3, <1>4, StepCases

LEMMA UserUnchanged ==
    ASSUME [Next]_vars
    PROVE  \/ HandleInit \/ HandleInitFails \/ HandleAnswer \/ HandleTerm
           \/ EndUsers \/ UserIgnores \/ UserFaults \/ UserEvent \/ UserTerminated
           \/ UNCHANGED <<userq, userfd>>
<1> USE DEF userVars
<1>1. CASE TimeExpires \/ TimeNotExpired \/ EpollWait \/ NextTurn \/ (\E fd \in Fds : Skip(fd))
  BY <1>1 DEF TimeExpires, TimeNotExpired, EpollWait, NextTurn, Skip
<1>2. CASE ReadSignal \/ ProcessSendq \/ ProcessRecvq \/ DropExpired
  BY <1>2 DEF ReadSignal, ProcessSendq, ProcessRecvq, DropExpired
<1>3. CASE StartWalk \/ (\E i \in Instances : Visit(i)) \/ EndVisit \/ EndWalk \/ StartUsers
  BY <1>3 DEF StartWalk, Visit, EndVisit, EndWalk, StartUsers
<1>4. CASE HandleAnswerWithoutData \/ UNCHANGED vars
  BY <1>4 DEF HandleAnswerWithoutData, vars
<1>5. CASE TimePasses \/ Interrupt \/ TimerExpires \/ (\E i \in Instances : ReplyArrives(i))
  BY <1>5 DEF TimePasses, Interrupt, TimerExpires, ReplyArrives
<1> QED
  BY <1>1, <1>2, <1>3, <1>4, <1>5, StepCases

LEMMA AlgoUnchanged ==
    ASSUME [Next]_vars
    PROVE  HandleInit \/ HandleAnswer \/ HandleTerm \/ UNCHANGED <<data, waiting, rounds>>
<1> USE DEF algoVars
<1>1. CASE TimeExpires \/ TimeNotExpired \/ EpollWait \/ NextTurn \/ (\E fd \in Fds : Skip(fd))
  BY <1>1 DEF TimeExpires, TimeNotExpired, EpollWait, NextTurn, Skip
<1>2. CASE ReadSignal \/ ProcessSendq \/ ProcessRecvq \/ DropExpired
  BY <1>2 DEF ReadSignal, ProcessSendq, ProcessRecvq, DropExpired
<1>3. CASE StartWalk \/ (\E i \in Instances : Visit(i)) \/ EndVisit \/ EndWalk
           \/ StartUsers \/ EndUsers
  BY <1>3 DEF StartWalk, Visit, EndVisit, EndWalk, StartUsers, EndUsers
<1>4. CASE HandleInitFails \/ HandleAnswerWithoutData \/ UNCHANGED vars
  BY <1>4 DEF HandleInitFails, HandleAnswerWithoutData, vars
<1>5. CASE UserIgnores \/ UserFaults \/ UserEvent \/ UserTerminated
  BY <1>5 DEF UserIgnores, UserFaults, UserEvent, UserTerminated, TakeUser
<1>6. CASE TimePasses \/ Interrupt \/ TimerExpires \/ (\E i \in Instances : ReplyArrives(i))
  BY <1>6 DEF TimePasses, Interrupt, TimerExpires, ReplyArrives
<1> QED
  BY <1>1, <1>2, <1>3, <1>4, <1>5, <1>6, StepCases

LEMMA NetUnchanged ==
    ASSUME [Next]_vars
    PROVE  \/ ProcessSendq \/ ProcessRecvq \/ DropExpired
           \/ HandleInit \/ HandleAnswer
           \/ TimerExpires \/ (\E i \in Instances : ReplyArrives(i))
           \/ UNCHANGED <<sendq, flying, recvq, timeUp, lost>>
<1> USE DEF netVars
<1>1. CASE TimeExpires \/ TimeNotExpired \/ EpollWait \/ NextTurn \/ (\E fd \in Fds : Skip(fd))
  BY <1>1 DEF TimeExpires, TimeNotExpired, EpollWait, NextTurn, Skip
<1>2. CASE ReadSignal \/ StartWalk \/ (\E i \in Instances : Visit(i)) \/ EndVisit \/ EndWalk
           \/ StartUsers \/ EndUsers
  BY <1>2 DEF ReadSignal, StartWalk, Visit, EndVisit, EndWalk, StartUsers, EndUsers
<1>3. CASE HandleInitFails \/ HandleAnswerWithoutData \/ HandleTerm
  BY <1>3 DEF HandleInitFails, HandleAnswerWithoutData, HandleTerm, Take
<1>4. CASE UserIgnores \/ UserFaults \/ UserEvent \/ UserTerminated
  BY <1>4 DEF UserIgnores, UserFaults, UserEvent, UserTerminated, TakeUser
<1>5. CASE TimePasses \/ Interrupt \/ UNCHANGED vars
  BY <1>5 DEF TimePasses, Interrupt, vars
<1> QED
  BY <1>1, <1>2, <1>3, <1>4, <1>5, StepCases

LEMMA RegisteredUnchanged ==
    ASSUME [Next]_vars
    PROVE  UserTerminated \/ UNCHANGED <<registered, alive>>
<1> USE DEF instVars
<1>1. CASE TimeExpires \/ TimeNotExpired \/ EpollWait \/ NextTurn \/ (\E fd \in Fds : Skip(fd))
  BY <1>1 DEF TimeExpires, TimeNotExpired, EpollWait, NextTurn, Skip
<1>2. CASE ReadSignal \/ ProcessSendq \/ ProcessRecvq \/ DropExpired
  BY <1>2 DEF ReadSignal, ProcessSendq, ProcessRecvq, DropExpired
<1>3. CASE StartWalk \/ (\E i \in Instances : Visit(i)) \/ EndVisit \/ EndWalk
           \/ StartUsers \/ EndUsers
  BY <1>3 DEF StartWalk, Visit, EndVisit, EndWalk, StartUsers, EndUsers
<1>4. CASE HandleInit \/ HandleInitFails \/ HandleAnswer \/ HandleAnswerWithoutData \/ HandleTerm
  BY <1>4 DEF HandleInit, HandleInitFails, HandleAnswer, HandleAnswerWithoutData, HandleTerm, Take
<1>5. CASE UserIgnores \/ UserFaults \/ UserEvent \/ UNCHANGED vars
  BY <1>5 DEF UserIgnores, UserFaults, UserEvent, vars
<1>6. CASE TimePasses \/ Interrupt \/ TimerExpires \/ (\E i \in Instances : ReplyArrives(i))
  BY <1>6 DEF TimePasses, Interrupt, TimerExpires, ReplyArrives
<1> QED
  BY <1>1, <1>2, <1>3, <1>4, <1>5, <1>6, StepCases

LEMMA WalkUnchanged ==
    ASSUME [Next]_vars
    PROVE  \/ StartWalk \/ (\E i \in Instances : Visit(i)) \/ EndVisit
           \/ HandleInit \/ HandleInitFails \/ HandleAnswer
           \/ HandleAnswerWithoutData \/ HandleTerm
           \/ StartUsers \/ UserIgnores \/ UserFaults \/ UserEvent \/ UserTerminated
           \/ UNCHANGED <<visits, cur, done>>
<1> USE DEF walkVars
<1>1. CASE TimeExpires \/ TimeNotExpired \/ EpollWait \/ NextTurn \/ (\E fd \in Fds : Skip(fd))
  BY <1>1 DEF TimeExpires, TimeNotExpired, EpollWait, NextTurn, Skip
<1>2. CASE ReadSignal \/ ProcessSendq \/ ProcessRecvq \/ DropExpired \/ EndWalk \/ EndUsers
  BY <1>2 DEF ReadSignal, ProcessSendq, ProcessRecvq, DropExpired, EndWalk, EndUsers
<1>3. CASE TimePasses \/ Interrupt \/ TimerExpires \/ UNCHANGED vars
  BY <1>3 DEF TimePasses, Interrupt, TimerExpires, vars
<1>4. CASE \E i \in Instances : ReplyArrives(i)
  BY <1>4 DEF ReplyArrives
<1> QED
  BY <1>1, <1>2, <1>3, <1>4, StepCases

-----------------------------------------------------------------------------
(* Type correctness *)

LEMMA CurIsInstance ==
    ASSUME TypeInv, PlaceInv, pc = "visit"
    PROVE  /\ cur \in Instances /\ cur \in registered /\ cur # Nobody
           /\ events[cur] \in Seq(EventTypes)
           /\ Len(events[cur]) \in Nat
           /\ done \in Nat /\ done <= Len(events[cur])
<1>1. cur \in registered /\ done <= Len(events[cur])
  BY DEF PlaceInv, Visiting
<1>2. cur \in Instances
  BY <1>1 DEF TypeInv, WalkType
<1>3. events[cur] \in Seq(EventTypes)
  BY <1>2 DEF TypeInv, EventType
<1> QED
  BY <1>1, <1>2, <1>3, NobodyAssumption, LenProperties DEF TypeInv, WalkType

LEMMA EventTypeStep ==
    ASSUME TypeInv, PlaceInv, [Next]_vars
    PROVE  EventType'
<1> USE DEF TypeInv
<1>1. CASE UNCHANGED <<events, algfd>>
  BY <1>1 DEF EventType
<1>2. CASE TimeExpires \/ ReadSignal
  <2>1. PICK n \in [registered -> Nat] : ThrowTo(registered, "TERM", n)
    BY <1>2, TermIsThrown DEF TimeExpires, ReadSignal
  <2>2. registered \in SUBSET Instances /\ "TERM" \in EventTypes /\ \A i \in registered : n[i] \in Nat
    BY DEF WalkType, EventTypes
  <2> QED
    BY <2>1, <2>2, ThrowToEffect DEF EventType
<1>3. CASE ProcessRecvq
  <2> DEFINE i == Head(recvq)
             n == [j \in Instances |-> IF j = i THEN 1 ELSE 0]
  <2>1. CASE StillFlying(i) /\ Answer("REPLY", n)
    <3>1. n \in [Instances -> Nat] /\ "REPLY" \in Answers
      BY DEF Answers
    <3>2. \A j \in Instances : n[j] <= flying[j]
      BY <2>1 DEF StillFlying, NetType
    <3> HIDE DEF n, i
    <3> QED
      BY <2>1, <3>1, <3>2, AnswerEffect DEF EventType
  <2>2. CASE UNCHANGED queueVars
    BY <2>2 DEF EventType, queueVars
  <2> QED
    BY <1>3, <2>1, <2>2 DEF ProcessRecvq
<1>4. CASE DropExpired
  <2>1. PICK n \in [Instances -> UNION {0 .. flying[i] : i \in Instances}] :
          (\A i \in Instances : n[i] <= flying[i]) /\ Answer("TIMEOUT", n)
    BY <1>4 DEF DropExpired
  <2>2. n \in [Instances -> Nat] /\ "TIMEOUT" \in Answers
    BY DEF Answers, NetType
  <2> QED
    BY <2>1, <2>2, AnswerEffect DEF EventType
<1>5. CASE EndVisit
  BY <1>5, EmptySeq DEF EndVisit, EventType
<1>6. CASE HandleInit \/ HandleInitFails \/ HandleAnswer \/ HandleAnswerWithoutData \/ HandleTerm
  <2>1. UNCHANGED events /\ algfd > 0 /\ algfd' = algfd - 1
    BY <1>6 DEF HandleInit, HandleInitFails, HandleAnswer, HandleAnswerWithoutData, HandleTerm, Take
  <2> QED
    BY <2>1 DEF EventType
<1>7. CASE UserTerminated
  <2>1. /\ events' = [events EXCEPT ![userq[done + 1].issuer] = << >>]
        /\ algfd' = algfd + 1
    BY <1>7 DEF UserTerminated
  <2>2. << >> \in Seq(EventTypes)
    BY EmptySeq
  <2>3. events' \in [Instances -> Seq(EventTypes)]
    BY <2>1, <2>2 DEF EventType
  <2>4. algfd' \in Nat
    BY <2>1 DEF EventType
  <2> QED
    BY <2>3, <2>4 DEF EventType
<1> QED
  BY <1>1, <1>2, <1>3, <1>4, <1>5, <1>6, <1>7, EventsUnchanged

LEMMA UserTypeStep ==
    ASSUME TypeInv, PlaceInv, [Next]_vars
    PROVE  UserType'
<1>1. CASE UNCHANGED <<userq, userfd>>
  BY <1>1 DEF UserType, TypeInv
<1>2. CASE HandleInit \/ HandleInitFails \/ HandleAnswer \/ HandleTerm
  <2>1. cur \in Instances
    BY <1>2, CurIsInstance DEF HandleInit, HandleInitFails, HandleAnswer, HandleTerm, Take
  <2>2. PICK types \in Seq(UserTypes) : Raise(cur, types)
    <3>1. /\ <<"FORWARDED">> \in Seq(UserTypes) /\ <<"ERROR">> \in Seq(UserTypes)
          /\ <<"EVENT", "FORWARDED">> \in Seq(UserTypes)
          /\ <<"EVENT", "FORWARDED", "EVENT", "HAS_TERMINATED">> \in Seq(UserTypes)
          /\ <<"HAS_TERMINATED">> \in Seq(UserTypes)
      BY DEF UserTypes
    <3> QED
      BY <1>2, <3>1 DEF HandleInit, HandleInitFails, HandleAnswer, HandleTerm
  <2> QED
    BY <2>1, <2>2, RaiseEffect DEF UserType, TypeInv
<1>3. CASE EndUsers
  BY <1>3, EmptySeq DEF EndUsers, UserType, TypeInv
<1>4. CASE UserIgnores \/ UserFaults \/ UserEvent \/ UserTerminated
  <2>1. UNCHANGED userq /\ userfd > 0 /\ userfd' = userfd - 1
    BY <1>4 DEF UserIgnores, UserFaults, UserEvent, UserTerminated, TakeUser
  <2> QED
    BY <2>1 DEF UserType, TypeInv
<1> QED
  BY <1>1, <1>2, <1>3, <1>4, UserUnchanged

LEMMA AlgoTypeStep ==
    ASSUME TypeInv, PlaceInv, [Next]_vars
    PROVE  AlgoType'
<1>1. CASE UNCHANGED <<data, waiting, rounds>>
  BY <1>1 DEF AlgoType, TypeInv
<1>2. CASE HandleInit \/ HandleAnswer \/ HandleTerm
  <2>1. cur \in Instances
    BY <1>2, CurIsInstance DEF HandleInit, HandleAnswer, HandleTerm, Take
  <2>2. ProbesPerRound[cur] \in Int /\ AlgoType
    BY <2>1, PtLoopAssumption DEF TypeInv
  <2>3. CASE HandleInit
    BY <2>1, <2>2, <2>3 DEF HandleInit, SendRound, AlgoType
  <2>4. CASE HandleAnswer
    <3>1. waiting' \in [Instances -> Int]
      BY <2>1, <2>2, <2>4 DEF HandleAnswer, AlgoType
    <3>2. rounds' \in [Instances -> Nat]
      BY <2>1, <2>2, <2>4 DEF HandleAnswer, SendRound, AlgoType
    <3> QED
      BY <2>2, <2>4, <3>1, <3>2 DEF HandleAnswer, AlgoType
  <2>5. CASE HandleTerm
    BY <2>1, <2>2, <2>5 DEF HandleTerm, AlgoType
  <2> QED
    BY <1>2, <2>3, <2>4, <2>5
<1> QED
  BY <1>1, <1>2, AlgoUnchanged

LEMMA NetTypeStep ==
    ASSUME TypeInv, PlaceInv, [Next]_vars
    PROVE  NetType'
<1>1. CASE UNCHANGED <<sendq, flying, recvq, timeUp, lost>>
  BY <1>1 DEF NetType, TypeInv
<1>2. CASE ProcessSendq
  <2>1. sendq # << >> /\ NetType
    BY <1>2 DEF ProcessSendq, Dispatch, PlaceInv, TypeInv
  <2>2. Head(sendq) \in Instances /\ sendq' \in Seq(Instances)
    <3>1. PICK s \in Seq(Instances) : s = sendq
      BY <2>1 DEF NetType
    <3>2. s # << >> /\ sendq' = Tail(s)
      BY <1>2, <2>1, <3>1 DEF ProcessSendq
    <3>3. Head(s) \in Instances /\ Tail(s) \in Seq(Instances)
      BY ONLY <3>2, HeadTailProperties
    <3> QED
      BY ONLY <3>1, <3>2, <3>3
  <2>3. flying' \in [Instances -> Nat] /\ lost' \in [Instances -> Nat]
    <3>1. PICK i \in Instances : i = Head(sendq)
      BY <2>2
    <3>2. flying \in [Instances -> Nat] /\ lost \in [Instances -> Nat]
      BY <2>1 DEF NetType
    <3>3. flying' = flying \/ flying' = [flying EXCEPT ![i] = @ + 1]
      BY <1>2, <3>1 DEF ProcessSendq
    <3>4. lost' = lost \/ lost' = [lost EXCEPT ![i] = @ + 1]
      BY <1>2, <3>1 DEF ProcessSendq
    <3> QED
      BY ONLY <3>2, <3>3, <3>4
  <2> QED
    BY <1>2, <2>1, <2>2, <2>3 DEF ProcessSendq, NetType
<1>3. CASE ProcessRecvq
  <2>1. recvq # << >> /\ NetType
    BY <1>3 DEF ProcessRecvq, Dispatch, PlaceInv, TypeInv
  <2>2. Head(recvq) \in Instances /\ recvq' \in Seq(Instances)
    BY <1>3, <2>1, HeadTailProperties DEF ProcessRecvq, NetType
  <2> DEFINE i == Head(recvq)
             n == [j \in Instances |-> IF j = i THEN 1 ELSE 0]
  <2>3. CASE /\ StillFlying(i) /\ Answer("REPLY", n)
             /\ timeUp' \in {FALSE, timeUp /\ \E j \in Instances : flying'[j] > 0}
    <3>1. n \in [Instances -> Nat] /\ "REPLY" \in Answers
      BY DEF Answers
    <3>2. \A j \in Instances : n[j] <= flying[j]
      BY <2>1, <2>3 DEF StillFlying, NetType
    <3>3. flying' \in [Instances -> Nat]
      <4> HIDE DEF n, i
      <4> QED
        BY <2>1, <2>3, <3>1, <3>2, AnswerEffect DEF TypeInv
    <3>4. timeUp' \in BOOLEAN
      BY <2>1, <2>3 DEF NetType
    <3> QED
      BY <1>3, <2>1, <2>2, <3>3, <3>4 DEF ProcessRecvq, NetType
  <2>4. CASE UNCHANGED <<flying, timeUp>>
    BY <1>3, <2>1, <2>2, <2>4 DEF ProcessRecvq, NetType
  <2> QED
    BY <1>3, <2>3, <2>4 DEF ProcessRecvq
<1>4. CASE DropExpired
  <2>1. PICK n \in [Instances -> UNION {0 .. flying[i] : i \in Instances}] :
          (\A i \in Instances : n[i] <= flying[i]) /\ Answer("TIMEOUT", n)
    BY <1>4 DEF DropExpired
  <2>2. n \in [Instances -> Nat] /\ "TIMEOUT" \in Answers
    BY DEF Answers, NetType, TypeInv
  <2>3. flying' \in [Instances -> Nat]
    BY <2>1, <2>2, AnswerEffect DEF TypeInv
  <2> QED
    BY <1>4, <2>3 DEF DropExpired, NetType, TypeInv
<1>5. CASE HandleInit \/ HandleAnswer
  <2>1. cur \in Instances
    BY <1>5, CurIsInstance DEF HandleInit, HandleAnswer, Take
  <2>2. sendq' \in Seq(Instances)
    BY <1>5, <2>1, SendRoundEffect DEF HandleInit, HandleAnswer, NetType, TypeInv
  <2> QED
    BY <1>5, <2>2 DEF HandleInit, HandleAnswer, Take, NetType, TypeInv
<1>6. CASE TimerExpires
  BY <1>6 DEF TimerExpires, NetType, TypeInv
<1>7. CASE \E i \in Instances : ReplyArrives(i)
  <2>1. PICK i \in Instances : ReplyArrives(i)
    BY <1>7
  <2>2. recvq' \in Seq(Instances)
    BY <2>1, AppendProperties DEF ReplyArrives, NetType, TypeInv
  <2> QED
    BY <2>1, <2>2 DEF ReplyArrives, NetType, TypeInv
<1> QED
  BY <1>1, <1>2, <1>3, <1>4, <1>5, <1>6, <1>7, NetUnchanged

LEMMA WalkTypeStep ==
    ASSUME TypeInv, PlaceInv, [Next]_vars
    PROVE  WalkType'
<1>1. /\ registered' \in SUBSET Instances
      /\ alive' \in SUBSET Instances
  <2>1. CASE UserTerminated
    BY <2>1 DEF UserTerminated, WalkType, TypeInv
  <2>2. CASE UNCHANGED <<registered, alive>>
    BY <2>2 DEF WalkType, TypeInv
  <2> QED
    BY <2>1, <2>2, RegisteredUnchanged
<1>2. visits' \in SUBSET Instances /\ cur' \in Instances \cup {Nobody} /\ done' \in Nat
  <2>1. CASE StartWalk \/ (\E i \in Instances : Visit(i)) \/ EndVisit \/ StartUsers
    BY <2>1 DEF StartWalk, Visit, EndVisit, StartUsers, WalkType, TypeInv
  <2>2. CASE HandleInit \/ HandleInitFails \/ HandleAnswer \/ HandleAnswerWithoutData \/ HandleTerm
    <3>1. UNCHANGED <<visits, cur>> /\ done' = done + 1
      BY <2>2 DEF HandleInit, HandleInitFails, HandleAnswer, HandleAnswerWithoutData, HandleTerm, Take
    <3> QED
      BY <3>1 DEF WalkType, TypeInv
  <2>3. CASE UserIgnores \/ UserFaults \/ UserEvent \/ UserTerminated
    <3>1. UNCHANGED <<visits, cur>> /\ done' = done + 1
      BY <2>3 DEF UserIgnores, UserFaults, UserEvent, UserTerminated, TakeUser
    <3> QED
      BY <3>1 DEF WalkType, TypeInv
  <2>4. CASE UNCHANGED <<visits, cur, done>>
    BY <2>4 DEF WalkType, TypeInv
  <2> QED
    BY <2>1, <2>2, <2>3, <2>4, WalkUnchanged
<1> QED
  BY <1>1, <1>2 DEF WalkType

LEMMA LoopTypeStep ==
    ASSUME TypeInv, PlaceInv, [Next]_vars
    PROVE  LoopType'
<1> USE DEF LoopType, loopVars, Places, Faults
<1>1. LoopType
  BY DEF TypeInv
<1>2. CASE TimeExpires \/ TimeNotExpired \/ EpollWait \/ NextTurn \/ (\E fd \in Fds : Skip(fd))
  BY <1>1, <1>2 DEF TimeExpires, TimeNotExpired, EpollWait, Readable, NextTurn, Skip
<1>3. CASE ReadSignal \/ ProcessSendq \/ StartWalk \/ StartUsers
  BY <1>1, <1>3 DEF ReadSignal, ProcessSendq, StartWalk, StartUsers, Dispatch
<1>4. CASE ProcessRecvq \/ DropExpired
  <2>1. pc' \in {pc, "freed caller"}
    BY <1>4 DEF ProcessRecvq, DropExpired, Answer
  <2> QED
    BY <1>1, <1>4, <2>1 DEF ProcessRecvq, DropExpired, Dispatch
<1>5. CASE (\E i \in Instances : Visit(i)) \/ EndVisit \/ EndWalk \/ EndUsers
  BY <1>1, <1>5 DEF Visit, EndVisit, EndWalk, EndUsers
<1>6. CASE HandleInit \/ HandleInitFails \/ HandleAnswer \/ HandleAnswerWithoutData \/ HandleTerm
  BY <1>1, <1>6 DEF HandleInit, HandleInitFails, HandleAnswer, HandleAnswerWithoutData, HandleTerm, Take
<1>7. CASE UserIgnores \/ UserFaults \/ UserEvent \/ UserTerminated
  BY <1>1, <1>7 DEF UserIgnores, UserFaults, UserEvent, UserTerminated, TakeUser
<1>8. CASE TimePasses \/ TimerExpires \/ (\E i \in Instances : ReplyArrives(i)) \/ UNCHANGED vars
  BY <1>1, <1>8 DEF TimePasses, TimerExpires, ReplyArrives, vars
<1>9. CASE Interrupt
  <2>1. UNCHANGED <<pc, batch, status, late, expired>> /\ signal' = TRUE
    BY <1>9 DEF Interrupt
  <2>2. signals < MaxSignals /\ signals' = signals + 1 /\ MaxSignals \in Nat
    BY <1>9, PtLoopAssumption DEF Interrupt
  <2>3. signals \in Nat
    BY <1>1
  <2>4. signals' \in Nat /\ signals' <= MaxSignals
    <3> HIDE DEF LoopType
    <3> QED
      BY <2>2, <2>3
  <2> QED
    BY <1>1, <2>1, <2>4
<1> QED
  BY <1>2, <1>3, <1>4, <1>5, <1>6, <1>7, <1>8, <1>9, StepCases

LEMMA TypeStep ==
    ASSUME TypeInv, PlaceInv, [Next]_vars
    PROVE  TypeInv'
  BY LoopTypeStep, WalkTypeStep, EventTypeStep, UserTypeStep, AlgoTypeStep, NetTypeStep DEF TypeInv

-----------------------------------------------------------------------------
(* Places *)

LEMMA BatchShrinks ==
    ASSUME [Next]_vars
    PROVE  \/ EpollWait
           \/ pc = "dispatch" /\ batch' \subseteq batch
           \/ UNCHANGED batch
<1>1. CASE TimeExpires \/ TimeNotExpired \/ NextTurn
  BY <1>1 DEF TimeExpires, TimeNotExpired, NextTurn
<1>2. CASE (\E fd \in Fds : Skip(fd)) \/ ReadSignal
  BY <1>2 DEF Skip, ReadSignal
<1>3. CASE ProcessSendq \/ ProcessRecvq \/ DropExpired \/ StartWalk \/ StartUsers
  BY <1>3 DEF ProcessSendq, ProcessRecvq, DropExpired, StartWalk, StartUsers, Dispatch
<1>4. CASE (\E i \in Instances : Visit(i)) \/ EndVisit \/ EndWalk \/ EndUsers
  BY <1>4 DEF Visit, EndVisit, EndWalk, EndUsers
<1>5. CASE HandleInit \/ HandleInitFails \/ HandleAnswer \/ HandleAnswerWithoutData \/ HandleTerm
  BY <1>5 DEF HandleInit, HandleInitFails, HandleAnswer, HandleAnswerWithoutData, HandleTerm, Take
<1>6. CASE UserIgnores \/ UserFaults \/ UserEvent \/ UserTerminated
  BY <1>6 DEF UserIgnores, UserFaults, UserEvent, UserTerminated, TakeUser
<1>7. CASE TimePasses \/ Interrupt \/ TimerExpires \/ UNCHANGED vars
  BY <1>7 DEF TimePasses, Interrupt, TimerExpires, vars
<1>8. CASE \E i \in Instances : ReplyArrives(i)
  BY <1>8 DEF ReplyArrives
<1> QED
  BY <1>1, <1>2, <1>3, <1>4, <1>5, <1>6, <1>7, <1>8, StepCases

(* From where to where a step goes. *)
LEMMA Moves ==
    ASSUME [Next]_vars
    PROVE  \/ UNCHANGED pc
           \/ pc \in {"top", "wait", "dispatch"} /\ pc' \in {"top", "wait", "dispatch", "exit", "freed caller"}
           \/ StartWalk \/ (\E i \in Instances : Visit(i)) \/ EndVisit \/ EndWalk
           \/ HandleAnswerWithoutData
           \/ StartUsers \/ EndUsers \/ UserFaults
<1>1. CASE TimeExpires \/ TimeNotExpired \/ NextTurn \/ EpollWait
  BY <1>1 DEF TimeExpires, TimeNotExpired, NextTurn, EpollWait
<1>2. CASE (\E fd \in Fds : Skip(fd)) \/ ReadSignal \/ ProcessSendq
  BY <1>2 DEF Skip, ReadSignal, ProcessSendq
<1>3. CASE ProcessRecvq \/ DropExpired
  BY <1>3 DEF ProcessRecvq, DropExpired, Dispatch, Answer
<1>4. CASE HandleInit \/ HandleInitFails \/ HandleAnswer \/ HandleTerm
  BY <1>4 DEF HandleInit, HandleInitFails, HandleAnswer, HandleTerm
<1>5. CASE UserIgnores \/ UserEvent \/ UserTerminated
  BY <1>5 DEF UserIgnores, UserEvent, UserTerminated
<1>6. CASE TimePasses \/ Interrupt \/ TimerExpires \/ UNCHANGED vars
  BY <1>6 DEF TimePasses, Interrupt, TimerExpires, vars
<1>7. CASE \E i \in Instances : ReplyArrives(i)
  BY <1>7 DEF ReplyArrives
<1> QED
  BY <1>1, <1>2, <1>3, <1>4, <1>5, <1>6, <1>7, StepCases

LEMMA SignalUnchanged ==
    ASSUME [Next]_vars
    PROVE  ReadSignal \/ Interrupt \/ UNCHANGED <<signal, signals>>
<1> USE DEF loopVars
<1>1. CASE TimeExpires \/ TimeNotExpired \/ EpollWait \/ NextTurn \/ (\E fd \in Fds : Skip(fd))
  BY <1>1 DEF TimeExpires, TimeNotExpired, EpollWait, NextTurn, Skip
<1>2. CASE ProcessSendq \/ ProcessRecvq \/ DropExpired \/ StartWalk \/ StartUsers
  BY <1>2 DEF ProcessSendq, ProcessRecvq, DropExpired, StartWalk, StartUsers
<1>3. CASE (\E i \in Instances : Visit(i)) \/ EndVisit \/ EndWalk \/ EndUsers
  BY <1>3 DEF Visit, EndVisit, EndWalk, EndUsers
<1>4. CASE HandleInit \/ HandleInitFails \/ HandleAnswer \/ HandleAnswerWithoutData \/ HandleTerm
  BY <1>4 DEF HandleInit, HandleInitFails, HandleAnswer, HandleAnswerWithoutData, HandleTerm, Take
<1>5. CASE UserIgnores \/ UserFaults \/ UserEvent \/ UserTerminated
  BY <1>5 DEF UserIgnores, UserFaults, UserEvent, UserTerminated, TakeUser
<1>6. CASE TimePasses \/ TimerExpires \/ (\E i \in Instances : ReplyArrives(i)) \/ UNCHANGED vars
  BY <1>6 DEF TimePasses, TimerExpires, ReplyArrives, vars
<1> QED
  BY <1>1, <1>2, <1>3, <1>4, <1>5, <1>6, StepCases

LEMMA LateUnchanged ==
    ASSUME [Next]_vars
    PROVE  TimePasses \/ UNCHANGED late
<1> USE DEF loopVars
<1>1. CASE TimeExpires \/ TimeNotExpired \/ EpollWait \/ NextTurn \/ (\E fd \in Fds : Skip(fd))
  BY <1>1 DEF TimeExpires, TimeNotExpired, EpollWait, NextTurn, Skip
<1>2. CASE ReadSignal \/ ProcessSendq \/ ProcessRecvq \/ DropExpired \/ StartWalk \/ StartUsers
  BY <1>2 DEF ReadSignal, ProcessSendq, ProcessRecvq, DropExpired, StartWalk, StartUsers
<1>3. CASE (\E i \in Instances : Visit(i)) \/ EndVisit \/ EndWalk \/ EndUsers
  BY <1>3 DEF Visit, EndVisit, EndWalk, EndUsers
<1>4. CASE HandleInit \/ HandleInitFails \/ HandleAnswer \/ HandleAnswerWithoutData \/ HandleTerm
  BY <1>4 DEF HandleInit, HandleInitFails, HandleAnswer, HandleAnswerWithoutData, HandleTerm, Take
<1>5. CASE UserIgnores \/ UserFaults \/ UserEvent \/ UserTerminated
  BY <1>5 DEF UserIgnores, UserFaults, UserEvent, UserTerminated, TakeUser
<1>6. CASE Interrupt \/ TimerExpires \/ (\E i \in Instances : ReplyArrives(i)) \/ UNCHANGED vars
  BY <1>6 DEF Interrupt, TimerExpires, ReplyArrives, vars
<1> QED
  BY <1>1, <1>2, <1>3, <1>4, <1>5, <1>6, StepCases

LEMMA StatusUnchanged ==
    ASSUME [Next]_vars
    PROVE  ReadSignal \/ UserTerminated \/ UNCHANGED status
<1> USE DEF loopVars
<1>1. CASE TimeExpires \/ TimeNotExpired \/ EpollWait \/ NextTurn \/ (\E fd \in Fds : Skip(fd))
  BY <1>1 DEF TimeExpires, TimeNotExpired, EpollWait, NextTurn, Skip
<1>2. CASE ProcessSendq \/ ProcessRecvq \/ DropExpired \/ StartWalk \/ StartUsers
  BY <1>2 DEF ProcessSendq, ProcessRecvq, DropExpired, StartWalk, StartUsers
<1>3. CASE (\E i \in Instances : Visit(i)) \/ EndVisit \/ EndWalk \/ EndUsers
  BY <1>3 DEF Visit, EndVisit, EndWalk, EndUsers
<1>4. CASE HandleInit \/ HandleInitFails \/ HandleAnswer \/ HandleAnswerWithoutData \/ HandleTerm
  BY <1>4 DEF HandleInit, HandleInitFails, HandleAnswer, HandleAnswerWithoutData, HandleTerm, Take
<1>5. CASE UserIgnores \/ UserFaults \/ UserEvent
  BY <1>5 DEF UserIgnores, UserFaults, UserEvent
<1>6. CASE TimePasses \/ Interrupt \/ TimerExpires \/ UNCHANGED vars
  BY <1>6 DEF TimePasses, Interrupt, TimerExpires, vars
<1>7. CASE \E i \in Instances : ReplyArrives(i)
  BY <1>7 DEF ReplyArrives
<1> QED
  BY <1>1, <1>2, <1>3, <1>4, <1>5, <1>6, <1>7, StepCases

(* What the report says is still so: nobody else empties the queues. *)
LEMMA ReportHolds ==
    ASSUME TypeInv, PlaceInv, [Next]_vars
    PROVE  /\ "sendq" \in batch' => sendq' # << >>
           /\ "recvq" \in batch' => recvq' # << >>
           /\ "signalfd" \in batch' => signal'
<1>1. CASE EpollWait
  BY <1>1 DEF EpollWait, Readable, netVars, loopVars
<1>2. CASE batch' \subseteq batch
  <2>1. CASE ProcessSendq
    BY <1>2, <2>1 DEF ProcessSendq, Dispatch, PlaceInv, loopVars
  <2>2. CASE ProcessRecvq
    BY <1>2, <2>2 DEF ProcessRecvq, Dispatch, PlaceInv, loopVars
  <2>3. CASE \E i \in Instances : ReplyArrives(i)
    <3>1. recvq' # << >> /\ UNCHANGED <<sendq, signal>>
      <4>1. PICK i \in Instances : ReplyArrives(i)
        BY <2>3
      <4>2. recvq' = Append(recvq, i) /\ UNCHANGED <<sendq, signal>>
        BY <4>1 DEF ReplyArrives, loopVars
      <4>3. recvq \in Seq(Instances)
        BY DEF TypeInv, NetType
      <4> QED
        BY <4>2, <4>3, AppendProperties
    <3> QED
      BY <1>2, <3>1 DEF PlaceInv
  <2>4. CASE HandleInit \/ HandleAnswer
    <3>1. UNCHANGED recvq /\ UNCHANGED signal
      BY <2>4 DEF HandleInit, HandleAnswer, Take, loopVars
    <3>2. UNCHANGED sendq \/ SendRound
      BY <2>4 DEF HandleInit, HandleAnswer
    <3>3. sendq # << >> => sendq' # << >>
      <4>1. SUFFICES ASSUME SendRound, sendq # << >> PROVE sendq' # << >>
        BY <3>2
      <4>2. cur \in Instances
        BY <2>4, CurIsInstance DEF HandleInit, HandleAnswer, Take
      <4>3. ProbesPerRound[cur] \in Nat /\ sendq \in Seq(Instances)
        BY <4>2, PtLoopAssumption DEF TypeInv, NetType
      <4> DEFINE m == ProbesPerRound[cur]
                 c == cur
      <4>4. sendq' = sendq \o [k \in 1 .. m |-> c] /\ m \in Nat /\ c \in Instances
        BY <4>1, <4>2, <4>3 DEF SendRound
      <4> HIDE DEF m, c
      <4>5. Len(sendq') = Len(sendq) + m /\ Len(sendq) \in Nat \ {0}
        BY <4>1, <4>3, <4>4, ConcatCopies, EmptySeq
      <4> QED
        BY <4>4, <4>5
    <3> QED
      BY <1>2, <3>1, <3>3 DEF PlaceInv
  <2>5. CASE DropExpired \/ TimerExpires \/ UNCHANGED <<sendq, flying, recvq, timeUp, lost>>
    <3>1. UNCHANGED <<sendq, recvq>>
      BY <2>5 DEF DropExpired, TimerExpires
    <3>2. CASE ReadSignal
      BY <3>2 DEF ReadSignal
    <3>3. CASE Interrupt
      BY <1>2, <3>1, <3>3 DEF Interrupt, PlaceInv
    <3>4. CASE UNCHANGED signal
      BY <1>2, <3>1, <3>4 DEF PlaceInv
    <3> QED
      BY <3>2, <3>3, <3>4, SignalUnchanged
  <2> QED
    BY <2>1, <2>2, <2>3, <2>4, <2>5, NetUnchanged
<1> QED
  BY <1>1, <1>2, BatchShrinks

LEMMA WalkTurn ==
    ASSUME TypeInv, PlaceInv, [Next]_vars
    PROVE  pc' \in {"walk", "visit", "null data"} => "algorithm" \notin batch'
<1> DEFINE W == {"walk", "visit", "null data"}
<1>1. CASE StartWalk
  BY <1>1 DEF StartWalk, Dispatch
<1>2. CASE pc \in W
  BY <1>2, BatchShrinks DEF PlaceInv, EpollWait
<1>3. CASE pc \notin W /\ pc' \in W /\ ~ StartWalk
  BY <1>3, Moves DEF Visit, EndVisit, EndWalk, HandleAnswerWithoutData, Take, StartUsers, EndUsers,
                     UserFaults
<1> QED
  BY <1>1, <1>2, <1>3

LEMMA RegisteredAlive ==
    ASSUME TypeInv, PlaceInv, [Next]_vars
    PROVE  registered' = alive'
<1>1. CASE UserTerminated
  BY <1>1 DEF UserTerminated, PlaceInv
<1> QED
  BY <1>1, RegisteredUnchanged DEF PlaceInv

(* The handlers run in a visit, on behalf of cur. *)
LEMMA HandlerEffect ==
    ASSUME HandleInit \/ HandleInitFails \/ HandleAnswer \/ HandleAnswerWithoutData \/ HandleTerm
    PROVE  /\ pc = "visit"
           /\ pc' \in {"visit", "null data"}
           /\ done < Len(events[cur])
           /\ algfd > 0 /\ algfd' = algfd - 1
           /\ done' = done + 1
           /\ UNCHANGED <<events, visits, cur, registered, alive, batch, status>>
  BY DEF HandleInit, HandleInitFails, HandleAnswer, HandleAnswerWithoutData, HandleTerm, Take,
         instVars, loopVars

LEMMA UserHandlerEffect ==
    ASSUME UserIgnores \/ UserFaults \/ UserEvent \/ UserTerminated
    PROVE  /\ pc = "users"
           /\ pc' \in {"users", "freed issuer"}
           /\ done < Len(userq)
           /\ userfd > 0 /\ userfd' = userfd - 1
           /\ done' = done + 1
           /\ UNCHANGED <<userq, visits, cur, batch>>
  BY DEF UserIgnores, UserFaults, UserEvent, UserTerminated, TakeUser

LEMMA WalkPlaces ==
    ASSUME TypeInv, PlaceInv, [Next]_vars
    PROVE  /\ visits' \subseteq registered'
           /\ pc' \in {"walk", "visit", "null data"} \/ visits' = {}
           /\ ~ Visiting' => cur' = Nobody
<1> USE DEF Visiting
<1>1. CASE StartWalk
  BY <1>1 DEF StartWalk, Dispatch, PlaceInv, instVars
<1>2. CASE \E i \in Instances : Visit(i)
  BY <1>2 DEF Visit, PlaceInv, instVars
<1>3. CASE EndVisit
  BY <1>3 DEF EndVisit, PlaceInv, instVars
<1>4. CASE EndWalk
  BY <1>4 DEF EndWalk, PlaceInv, instVars, walkVars
<1>5. CASE HandleInit \/ HandleInitFails \/ HandleAnswer \/ HandleAnswerWithoutData \/ HandleTerm
  BY <1>5, HandlerEffect DEF PlaceInv
<1>6. CASE UserIgnores \/ UserFaults \/ UserEvent \/ UserTerminated
  BY <1>6, UserHandlerEffect DEF PlaceInv
<1>7. CASE StartUsers
  BY <1>7 DEF StartUsers, Dispatch, PlaceInv, instVars
<1>8. CASE UNCHANGED <<visits, cur, done>> /\ ~ EndWalk /\ ~ UserTerminated /\ ~ UserFaults
           /\ ~ StartWalk /\ ~ StartUsers /\ ~ EndVisit /\ ~ (\E i \in Instances : Visit(i))
           /\ ~ HandleAnswerWithoutData
  <2>1. UNCHANGED registered
    BY <1>8, RegisteredUnchanged
  <2>2. UNCHANGED pc \/ (pc \notin {"walk", "visit", "null data"} /\ pc' \notin {"walk", "visit", "null data"})
    BY <1>8, Moves DEF EndUsers
  <2> QED
    BY <1>8, <2>1, <2>2 DEF PlaceInv
<1> QED
  BY <1>1, <1>2, <1>3, <1>4, <1>5, <1>6, <1>7, <1>8, WalkUnchanged

(* While an instance is visited, nothing is thrown: only its handlers run. *)
LEMMA VisitsAlone ==
    ASSUME [Next]_vars, Visiting, Visiting'
    PROVE  \/ HandleInit \/ HandleInitFails \/ HandleAnswer
           \/ HandleAnswerWithoutData \/ HandleTerm
           \/ UNCHANGED <<pc, events, algfd, visits, cur, done, registered, alive>>
<1> USE DEF Visiting
<1>1. pc \notin {"top", "wait", "dispatch", "walk", "users"} /\ pc' # "walk"
  OBVIOUS
<1>2. /\ ~ TimeExpires /\ ~ ReadSignal /\ ~ ProcessRecvq /\ ~ DropExpired
      /\ ~ EndVisit /\ ~ UserTerminated
  BY <1>1 DEF TimeExpires, ReadSignal, ProcessRecvq, DropExpired, Dispatch, EndVisit,
              UserTerminated, TakeUser
<1>3. /\ ~ StartWalk /\ ~ (\E i \in Instances : Visit(i)) /\ ~ EndWalk /\ ~ StartUsers /\ ~ EndUsers
      /\ ~ UserIgnores /\ ~ UserFaults /\ ~ UserEvent
  BY <1>1 DEF StartWalk, Visit, EndWalk, StartUsers, EndUsers, Dispatch, UserIgnores, UserFaults,
              UserEvent, TakeUser
<1> QED
  BY <1>1, <1>2, <1>3, EventsUnchanged, WalkUnchanged, RegisteredUnchanged, Moves

LEMMA VisitPlace ==
    ASSUME TypeInv, PlaceInv, [Next]_vars
    PROVE  Visiting' => cur' \in registered' /\ done' <= Len(events'[cur'])
<1>1. CASE \E i \in Instances : Visit(i)
  <2>1. PICK i \in Instances : Visit(i)
    BY <1>1
  <2>2. cur' = i /\ done' = 0 /\ UNCHANGED <<events, registered>> /\ i \in registered
    BY <2>1 DEF Visit, PlaceInv, queueVars, instVars
  <2>3. events[i] \in Seq(EventTypes)
    BY DEF TypeInv, EventType
  <2>4. Len(events[i]) \in Nat
    BY <2>3, LenProperties
  <2> QED
    BY <2>2, <2>4
<1>2. CASE HandleInit \/ HandleInitFails \/ HandleAnswer \/ HandleAnswerWithoutData \/ HandleTerm
  <2>1. /\ pc = "visit" /\ done < Len(events[cur]) /\ done' = done + 1
        /\ events' = events /\ cur' = cur /\ registered' = registered
    BY <1>2, HandlerEffect
  <2>2. cur \in registered /\ Len(events[cur]) \in Nat /\ done \in Nat
    BY <2>1, CurIsInstance
  <2>3. done' <= Len(events[cur])
    BY <2>1, <2>2
  <2> QED
    BY <2>1, <2>2, <2>3
<1>3. CASE Visiting /\ Visiting'
  BY <1>2, <1>3, VisitsAlone DEF PlaceInv
<1>4. CASE ~ Visiting /\ Visiting' /\ ~ (\E i \in Instances : Visit(i)) /\ ~ HandleAnswerWithoutData
  BY <1>4, Moves DEF Visiting, StartWalk, EndVisit, EndWalk, StartUsers, EndUsers, UserFaults
<1> QED
  BY <1>1, <1>2, <1>3, <1>4

(* The user handler may raise nothing: the queue is as long as it was. *)
LEMMA UsersAlone ==
    ASSUME [Next]_vars, InUsers, InUsers'
    PROVE  \/ UserIgnores \/ UserFaults \/ UserEvent \/ UserTerminated
           \/ UNCHANGED <<pc, userq, userfd, visits, cur, done, registered, alive>>
<1> USE DEF InUsers
<1>1. pc \notin {"top", "wait", "dispatch", "walk", "visit"} /\ pc' # "dispatch"
  OBVIOUS
<1>2. /\ ~ HandleInit /\ ~ HandleInitFails /\ ~ HandleAnswer /\ ~ HandleAnswerWithoutData
      /\ ~ HandleTerm
  BY <1>1, HandlerEffect
<1>3. /\ ~ StartWalk /\ ~ (\E i \in Instances : Visit(i)) /\ ~ EndVisit /\ ~ EndWalk
      /\ ~ StartUsers /\ ~ EndUsers
  BY <1>1 DEF StartWalk, Visit, EndVisit, EndWalk, StartUsers, EndUsers, Dispatch
<1> QED
  BY <1>1, <1>2, <1>3, UserUnchanged, WalkUnchanged, RegisteredUnchanged, Moves

LEMMA UserPlace ==
    ASSUME TypeInv, PlaceInv, [Next]_vars
    PROVE  InUsers' => done' <= Len(userq')
<1>1. userq \in Seq([type : UserTypes, issuer : Instances]) /\ done \in Nat
  BY DEF TypeInv, UserType, WalkType
<1>2. Len(userq) \in Nat
  BY <1>1, LenProperties
<1>3. CASE StartUsers
  BY <1>2, <1>3 DEF StartUsers, userVars
<1>4. CASE UserIgnores \/ UserFaults \/ UserEvent \/ UserTerminated
  <2>1. done < Len(userq) /\ done' = done + 1 /\ userq' = userq
    BY <1>4, UserHandlerEffect
  <2>2. done' <= Len(userq)
    BY <1>1, <1>2, <2>1
  <2> QED
    BY <2>1, <2>2
<1>5. CASE InUsers /\ InUsers'
  BY <1>4, <1>5, UsersAlone DEF PlaceInv
<1>6. CASE ~ InUsers /\ InUsers' /\ ~ StartUsers /\ ~ UserFaults
  BY <1>6, Moves DEF InUsers, StartWalk, Visit, EndVisit, EndWalk, EndUsers, HandleAnswerWithoutData
<1> QED
  BY <1>3, <1>4, <1>5, <1>6

LEMMA PlaceStep ==
    ASSUME TypeInv, PlaceInv, [Next]_vars
    PROVE  PlaceInv'
  BY ReportHolds, WalkTurn, RegisteredAlive, WalkPlaces, VisitPlace, UserPlace DEF PlaceInv

LEMMA InitTyped ==
    ASSUME Init
    PROVE  TypeInv /\ PlaceInv
<1>1. LoopType /\ WalkType
  <2>1. MaxSignals \in Nat
    BY PtLoopAssumption
  <2>2. LoopType
    <3>1. signals \in Nat /\ signals <= MaxSignals
      BY <2>1 DEF Init
    <3>2. pc \in Places /\ status = "CONTINUE" /\ batch = {}
      BY DEF Init, Places
    <3>3. late = FALSE /\ expired = FALSE /\ signal = FALSE
      BY DEF Init
    <3> QED
      BY <3>1, <3>2, <3>3 DEF LoopType
  <2>3. WalkType
    BY DEF Init, WalkType
  <2> QED
    BY <2>2, <2>3
<1>2. EventType
  <2>1. <<"INIT">> \in Seq(EventTypes)
    BY DEF EventTypes
  <2>2. Cardinality(Instances) \in Nat
    BY PtLoopAssumption, FS_CardinalityType
  <2> QED
    BY <2>1, <2>2 DEF Init, EventType
<1>3. UserType /\ AlgoType /\ NetType
  <2>1. UserType
    BY EmptySeq DEF Init, UserType
  <2>2. AlgoType
    BY DEF Init, AlgoType
  <2>3. NetType
    BY EmptySeq DEF Init, NetType
  <2> QED
    BY <2>1, <2>2, <2>3
<1>4. PlaceInv
  BY DEF Init, PlaceInv, Visiting, InUsers
<1> QED
  BY <1>1, <1>2, <1>3, <1>4 DEF TypeInv

LEMMA Typed == Spec => [](TypeInv /\ PlaceInv)
<1>1. TypeInv /\ PlaceInv /\ [Next]_vars => (TypeInv /\ PlaceInv)'
  BY TypeStep, PlaceStep
<1> QED
  BY InitTyped, <1>1, PTL DEF Spec

-----------------------------------------------------------------------------
(* The counter of the events *)

LEMMA FiniteRegistered ==
    ASSUME TypeInv
    PROVE  /\ IsFiniteSet(registered)
           /\ registered \in SUBSET Instances
<1>1. registered \in SUBSET Instances
  BY DEF TypeInv, WalkType
<1> QED
  BY <1>1, PtLoopAssumption, FS_Subset

LEMMA LeftType ==
    ASSUME TypeInv, PlaceInv, NEW i \in Instances
    PROVE  /\ events[i] \in Seq(EventTypes)
           /\ Len(events[i]) \in Nat
           /\ Handled(i) \in Nat /\ Handled(i) <= Len(events[i])
           /\ Len(events[i]) - Handled(i) \in Nat
<1>1. events[i] \in Seq(EventTypes) /\ done \in Nat
  BY DEF TypeInv, EventType, WalkType
<1>2. Len(events[i]) \in Nat
  BY <1>1, LenProperties
<1>3. Handled(i) \in Nat /\ Handled(i) <= Len(events[i])
  <2>1. CASE cur = i
    <3>1. Visiting
      BY <2>1, NobodyAssumption DEF PlaceInv
    <3> QED
      BY <1>1, <2>1, <3>1 DEF Handled, PlaceInv
  <2>2. CASE cur # i
    BY <1>2, <2>2 DEF Handled
  <2> QED
    BY <2>1, <2>2
<1> QED
  BY <1>1, <1>2, <1>3

LEMMA PendingType ==
    ASSUME TypeInv, PlaceInv
    PROVE  Pending \in Nat
<1> DEFINE left == [i \in Instances |-> Len(events[i]) - Handled(i)]
<1>1. \A i \in registered : left[i] \in Nat
  BY LeftType, FiniteRegistered
<1> HIDE DEF left
<1>2. Total(left, registered) \in Nat
  BY <1>1, FiniteRegistered, TotalIsFinite
<1> QED
  BY <1>2 DEF left, Pending

(* Nothing is thrown and nothing is handled. *)
LEMMA PendingSame ==
    ASSUME TypeInv, UNCHANGED <<events, registered>>,
           \A i \in Instances : Handled(i)' = Handled(i)
    PROVE  Pending' = Pending
<1> DEFINE left == [i \in Instances |-> Len(events[i]) - Handled(i)]
           left1 == [i \in Instances |-> Len(events'[i]) - Handled(i)']
<1>1. \A i \in registered : left[i] = left1[i]
  BY FiniteRegistered
<1> HIDE DEF left, left1
<1>2. Total(left, registered) = Total(left1, registered)
  BY <1>1, TotalSame
<1> QED
  BY <1>2 DEF left, left1, Pending

LEMMA PendingThrown ==
    ASSUME TypeInv, PlaceInv, ~ Visiting, UNCHANGED <<registered, cur>>,
           NEW S \in SUBSET registered, NEW type \in EventTypes,
           NEW n, \A i \in S : n[i] \in Nat, ThrowTo(S, type, n)
    PROVE  algfd' - Pending' = algfd - Pending
<1> DEFINE left == [i \in Instances |-> Len(events[i]) - Handled(i)]
           left1 == [i \in Instances |-> Len(events'[i]) - Handled(i)']
           m == [i \in Instances |-> IF i \in S THEN n[i] ELSE 0]
<1>1. \A i \in Instances : Handled(i) = 0 /\ Handled(i)' = 0
  BY NobodyAssumption DEF PlaceInv, Handled
<1>2. registered \in SUBSET Instances /\ IsFiniteSet(registered)
  BY FiniteRegistered
<1>3. \A i \in Instances : Len(events'[i]) = Len(events[i]) + (IF i \in S THEN n[i] ELSE 0)
  <2>1. S \in SUBSET Instances /\ EventType
    BY <1>2 DEF TypeInv
  <2>2. ASSUME NEW j \in S
        PROVE  Len(events'[j]) = Len(events[j]) + n[j]
    <3> DEFINE s == events[j]
               c == n[j]
    <3>1. events'[j] = s \o [k \in 1 .. c |-> type]
      BY <2>1 DEF ThrowTo
    <3>2. s \in Seq(EventTypes) /\ c \in Nat
      BY <2>1 DEF EventType
    <3> HIDE DEF s, c
    <3>3. Len(s \o [k \in 1 .. c |-> type]) = Len(s) + c
      BY <3>2, ConcatCopies
    <3> QED
      BY <3>1, <3>3 DEF s, c
  <2> TAKE i \in Instances
  <2>3. CASE i \in S
    BY <2>3, <2>2
  <2>4. CASE i \notin S
    <3>1. events'[i] = events[i]
      BY <2>1, <2>4, ThrowToEffect
    <3>2. Len(events[i]) \in Nat
      BY LeftType
    <3> QED
      BY <2>4, <3>1, <3>2
  <2> QED
    BY <2>3, <2>4
<1>4. \A i \in registered : left[i] \in Nat /\ m[i] \in Nat /\ left1[i] = left[i] + m[i]
  <2> TAKE i \in registered
  <2>1. i \in Instances
    BY <1>2
  <2>2. Len(events[i]) \in Nat
    BY <2>1, LeftType
  <2>3. m[i] \in Nat
    BY <2>1
  <2>4. left[i] = Len(events[i]) /\ left1[i] = Len(events'[i])
    <3>1. Len(events'[i]) \in Nat
      BY <2>1, <2>2, <1>3
    <3> QED
      BY <1>1, <2>1, <2>2, <3>1
  <2> QED
    BY <1>3, <2>1, <2>2, <2>3, <2>4
<1>5. \A i \in registered \ S : m[i] = 0
  BY <1>2
<1>6. \A i \in S : m[i] = n[i]
  BY <1>2
<1> HIDE DEF left, left1, m
<1>7. Total(left1, registered) = Total(left, registered) + Total(m, registered)
  BY <1>2, <1>4, TotalAdd
<1>8. Total(m, registered) = Total(m, S)
  BY <1>5, TotalSupport
<1>9. Total(m, S) = Total(n, S)
  BY <1>6, TotalSame
<1>10. Total(n, S) \in Nat
  BY <1>2, FS_Subset, TotalIsFinite
<1>11. Pending = Total(left, registered) /\ Pending' = Total(left1, registered)
  BY DEF left, left1, Pending
<1>12. algfd' = algfd + Total(n, S) /\ algfd \in Nat /\ Pending \in Nat
  BY PendingType DEF ThrowTo, TypeInv, EventType
<1> QED
  BY <1>7, <1>8, <1>9, <1>10, <1>11, <1>12

LEMMA PendingHandled ==
    ASSUME TypeInv, PlaceInv, pc = "visit", done < Len(events[cur]),
           UNCHANGED <<events, registered, cur>>, done' = done + 1
    PROVE  Pending = Pending' + 1 /\ Pending' \in Nat
<1> DEFINE left == [i \in Instances |-> Len(events[i]) - Handled(i)]
           left1 == [i \in Instances |-> Len(events'[i]) - Handled(i)']
           m == [i \in Instances |-> IF i = cur THEN 1 ELSE 0]
<1>1. cur \in registered /\ registered \in SUBSET Instances /\ IsFiniteSet(registered)
  BY CurIsInstance, FiniteRegistered
<1>2. \A i \in registered : left1[i] \in Nat /\ m[i] \in Nat /\ left[i] = left1[i] + m[i]
  <2> TAKE i \in registered
  <2>1. i \in Instances
    BY <1>1
  <2>2. Len(events[i]) \in Nat /\ Handled(i) \in Nat /\ Handled(i) <= Len(events[i])
    BY <2>1, LeftType
  <2>3. CASE i = cur
    <3>1. Handled(i) = done /\ Handled(i)' = done + 1
      BY <2>3 DEF Handled
    <3> QED
      BY <2>1, <2>2, <2>3, <3>1
  <2>4. CASE i # cur
    <3>1. Handled(i) = 0 /\ Handled(i)' = 0
      BY <2>4 DEF Handled
    <3> QED
      BY <2>1, <2>2, <2>4, <3>1
  <2> QED
    BY <2>3, <2>4
<1>3. \A i \in registered : m[i] = IF i = cur THEN 1 ELSE 0
  BY <1>1
<1> HIDE DEF left, left1, m
<1>4. Total(left, registered) = Total(left1, registered) + Total(m, registered)
  BY <1>1, <1>2, TotalAdd
<1>5. Total(m, registered) = 1
  BY <1>1, <1>3, TotalOne
<1>6. Total(left1, registered) \in Nat
  BY <1>1, <1>2, TotalIsFinite
<1>7. Pending = Total(left, registered) /\ Pending' = Total(left1, registered)
  BY DEF left, left1, Pending
<1> QED
  BY <1>4, <1>5, <1>6, <1>7

(* What is flushed or deleted does not count any longer. *)
LEMMA PendingDropped ==
    ASSUME TypeInv, PlaceInv, registered' \subseteq registered,
           \A i \in registered' : Len(events'[i]) - Handled(i)' \in Nat,
           \A i \in registered' : Len(events'[i]) - Handled(i)' <= Len(events[i]) - Handled(i)
    PROVE  Pending' <= Pending
<1> DEFINE left == [i \in Instances |-> Len(events[i]) - Handled(i)]
           left1 == [i \in Instances |-> Len(events'[i]) - Handled(i)']
           R == registered'
<1>1. registered \in SUBSET Instances /\ IsFiniteSet(registered) /\ R \in SUBSET registered
  BY FiniteRegistered
<1>2. \A i \in registered : left[i] \in Nat
  BY <1>1, LeftType
<1>3. \A i \in R : left1[i] \in Nat /\ left1[i] <= left[i]
  BY <1>1
<1>4. Pending = Total(left, registered) /\ Pending' = Total(left1, R)
  BY DEF Pending
<1> HIDE DEF left, left1, R
<1>5. Total(left1, R) <= Total(left, registered)
  BY <1>1, <1>2, <1>3, TotalMonotone
<1> QED
  BY <1>4, <1>5

(* The steps that throw answers, and what they add to the queues. *)
LEMMA AnswerSteps ==
    ASSUME TypeInv, ProcessRecvq \/ DropExpired
    PROVE  \/ UNCHANGED <<events, algfd, flying, pc>>
           \/ \E type \in Answers : \E n \in [Instances -> Nat] :
                Answer(type, n) /\ \A i \in Instances : n[i] <= flying[i]
<1>1. CASE ProcessRecvq
  <2> DEFINE n == [j \in Instances |-> IF j = Head(recvq) THEN 1 ELSE 0]
  <2>1. n \in [Instances -> Nat] /\ "REPLY" \in Answers
    BY DEF Answers
  <2>2. CASE StillFlying(Head(recvq)) /\ Answer("REPLY", n)
    <3>1. \A i \in Instances : n[i] <= flying[i]
      BY <2>2 DEF StillFlying, TypeInv, NetType
    <3> QED
      BY <2>1, <2>2, <3>1
  <2> QED
    BY <1>1, <2>2 DEF ProcessRecvq, queueVars
<1>2. CASE DropExpired
  <2>1. PICK n \in [Instances -> UNION {0 .. flying[i] : i \in Instances}] :
          Answer("TIMEOUT", n) /\ \A i \in Instances : n[i] <= flying[i]
    BY <1>2 DEF DropExpired
  <2>2. n \in [Instances -> Nat] /\ "TIMEOUT" \in Answers
    BY DEF Answers, TypeInv, NetType
  <2> QED
    BY <2>1, <2>2
<1> QED
  BY <1>1, <1>2

LEMMA AnswerIsThrown ==
    ASSUME NEW type \in Answers, NEW n \in [Instances -> Nat], Answer(type, n)
    PROVE  \/ /\ {i \in Instances : n[i] > 0} \subseteq alive
              /\ ThrowTo({i \in Instances : n[i] > 0}, type, n)
              /\ flying' = [i \in Instances |-> flying[i] - n[i]]
              /\ UNCHANGED pc
           \/ /\ ~ ({i \in Instances : n[i] > 0} \subseteq alive)
              /\ pc' = "freed caller"
              /\ UNCHANGED <<events, algfd, flying>>
  BY DEF Answer, queueVars

(* What each step does to the counter and to the events it counts: the two
   stay as far apart as they were, or the counter gets too high. *)
LEMMA CounterStep ==
    ASSUME TypeInv, PlaceInv, [Next]_vars
    PROVE  \/ algfd' - Pending' = algfd - Pending /\ ~ UserTerminated /\ ~ EndVisit
           \/ algfd' = algfd + 1 /\ Pending' <= Pending /\ UserTerminated
           \/ algfd' = algfd /\ Pending' <= Pending /\ EndVisit
<1>1. algfd \in Nat /\ Pending \in Nat
  BY PendingType DEF TypeInv, EventType
<1>2. CASE TimeExpires \/ ReadSignal
  <2>1. PICK n \in [registered -> Nat] : ThrowTo(registered, "TERM", n)
    BY <1>2, TermIsThrown DEF TimeExpires, ReadSignal
  <2>2. "TERM" \in EventTypes /\ (\A i \in registered : n[i] \in Nat) /\ ~ Visiting
    BY <1>2 DEF EventTypes, TimeExpires, ReadSignal, Visiting
  <2>3. UNCHANGED <<registered, cur>> /\ ~ UserTerminated /\ ~ EndVisit
    BY <1>2 DEF TimeExpires, ReadSignal, instVars, walkVars, UserTerminated, TakeUser, EndVisit
  <2> QED
    BY <2>1, <2>2, <2>3, PendingThrown
<1>3. CASE ProcessRecvq \/ DropExpired
  <2>1. /\ ~ Visiting /\ UNCHANGED <<registered, cur, done>>
        /\ ~ UserTerminated /\ ~ EndVisit
    BY <1>3 DEF ProcessRecvq, DropExpired, Dispatch, Visiting, instVars, walkVars, UserTerminated,
                TakeUser, EndVisit
  <2>2. \/ UNCHANGED queueVars
        \/ \E type \in Answers : \E n \in [Instances -> Nat] : Answer(type, n)
    BY <1>3, AnswerSteps DEF queueVars
  <2>3. CASE UNCHANGED queueVars
    <3>1. UNCHANGED <<events, algfd, registered>> /\ \A i \in Instances : Handled(i)' = Handled(i)
      BY <2>1, <2>3 DEF queueVars, Handled
    <3>2. Pending' = Pending
      BY <3>1, PendingSame
    <3> QED
      BY <2>1, <3>1, <3>2
  <2>4. CASE \E type \in Answers : \E n \in [Instances -> Nat] : Answer(type, n)
    <3>1. PICK type \in Answers : \E n \in [Instances -> Nat] : Answer(type, n)
      BY <2>4
    <3>2. PICK n \in [Instances -> Nat] : Answer(type, n)
      BY <3>1
    <3> DEFINE callers == {i \in Instances : n[i] > 0}
    <3>3. CASE callers \subseteq alive
      <4>1. ThrowTo(callers, type, n) /\ type \in EventTypes
        BY <3>2, <3>3 DEF Answer, Answers, EventTypes
      <4>2. callers \in SUBSET registered /\ \A i \in callers : n[i] \in Nat
        BY <3>3 DEF PlaceInv
      <4> HIDE DEF callers
      <4>3. algfd' - Pending' = algfd - Pending
        BY <2>1, <4>1, <4>2, PendingThrown
      <4> QED
        BY <2>1, <4>3
    <3>4. CASE ~ (callers \subseteq alive)
      BY <2>3, <3>2, <3>4 DEF Answer
    <3> QED
      BY <3>3, <3>4
  <2> QED
    BY <2>2, <2>3, <2>4
<1>4. CASE EndVisit
  <2>1. /\ pc = "visit" /\ events' = [events EXCEPT ![cur] = << >>]
        /\ cur' = Nobody /\ UNCHANGED <<registered, algfd, done>>
    BY <1>4 DEF EndVisit, instVars
  <2>2. registered \in SUBSET Instances /\ cur \in Instances /\ events \in [Instances -> Seq(EventTypes)]
    BY <2>1, CurIsInstance, FiniteRegistered DEF TypeInv, EventType
  <2>3. \A i \in registered :
          /\ Len(events'[i]) - Handled(i)' \in Nat
          /\ Len(events'[i]) - Handled(i)' <= Len(events[i]) - Handled(i)
    <3> TAKE i \in registered
    <3>1. Len(events[i]) \in Nat /\ Handled(i) \in Nat /\ Len(events[i]) - Handled(i) \in Nat
      BY <2>2, LeftType
    <3>2. Handled(i)' = 0
      BY <2>1, <2>2, NobodyAssumption DEF Handled
    <3>3. CASE i = cur
      <4>1. Len(events'[i]) = 0
        BY <2>1, <2>2, <3>3, EmptySeq
      <4> QED
        BY <3>1, <3>2, <4>1
    <3>4. CASE i # cur
      <4>1. events'[i] = events[i] /\ Handled(i) = 0
        BY <2>1, <2>2, <3>4 DEF Handled
      <4> QED
        BY <3>1, <3>2, <4>1
    <3> QED
      BY <3>3, <3>4
  <2>4. Pending' <= Pending
    BY <2>1, <2>3, PendingDropped
  <2> QED
    BY <1>4, <2>1, <2>4
<1>5. CASE HandleInit \/ HandleInitFails \/ HandleAnswer \/ HandleAnswerWithoutData \/ HandleTerm
  <2>1. /\ pc = "visit" /\ done < Len(events[cur]) /\ done' = done + 1
        /\ algfd' = algfd - 1
        /\ UNCHANGED <<events, registered, cur>>
    BY <1>5, HandlerEffect
  <2>2. Pending = Pending' + 1 /\ Pending' \in Nat
    BY <2>1, PendingHandled
  <2>3. ~ UserTerminated /\ ~ EndVisit
    BY <2>1, NobodyAssumption, CurIsInstance DEF UserTerminated, TakeUser, EndVisit
  <2>4. algfd' - Pending' = algfd - Pending
    <3> DEFINE p == Pending
               q == Pending'
               a == algfd
    <3>1. p = q + 1 /\ q \in Nat /\ algfd' = a - 1 /\ a \in Nat
      BY <1>1, <2>1, <2>2
    <3> HIDE DEF p, q, a
    <3>2. algfd' - q = a - p
      BY <3>1
    <3> QED
      BY <3>2 DEF p, q, a
  <2> QED
    BY <2>3, <2>4
<1>6. CASE UserTerminated
  <2>1. /\ pc = "users" /\ algfd' = algfd + 1 /\ UNCHANGED cur
        /\ events' = [events EXCEPT ![userq[done + 1].issuer] = << >>]
        /\ registered' = registered \ {userq[done + 1].issuer}
    BY <1>6 DEF UserTerminated, TakeUser
  <2>2. registered \in SUBSET Instances /\ events \in [Instances -> Seq(EventTypes)] /\ cur = Nobody
    BY <2>1, FiniteRegistered DEF TypeInv, EventType, PlaceInv, Visiting
  <2>3. \A i \in registered' :
          /\ Len(events'[i]) - Handled(i)' \in Nat
          /\ Len(events'[i]) - Handled(i)' <= Len(events[i]) - Handled(i)
    <3> TAKE i \in registered'
    <3>1. i \in Instances
      BY <2>1, <2>2
    <3>2. events'[i] = events[i] /\ Handled(i)' = 0 /\ Handled(i) = 0
      BY <2>1, <2>2, <3>1, NobodyAssumption DEF Handled
    <3>3. Len(events[i]) \in Nat
      BY <3>1, LeftType
    <3> QED
      BY <3>2, <3>3
  <2>4. Pending' <= Pending
    BY <2>1, <2>3, PendingDropped
  <2> QED
    BY <1>6, <2>1, <2>4
<1>7. CASE UNCHANGED <<events, algfd>> /\ ~ UserTerminated /\ ~ EndVisit
           /\ ~ (HandleInit \/ HandleInitFails \/ HandleAnswer \/ HandleAnswerWithoutData \/ HandleTerm)
  <2>1. UNCHANGED registered
    BY <1>7, RegisteredUnchanged
  <2>2. \A i \in Instances : Handled(i)' = Handled(i)
    <3>1. CASE UNCHANGED <<visits, cur, done>>
      BY <3>1 DEF Handled
    <3>2. CASE \E i \in Instances : Visit(i)
      <4>1. pc = "walk" /\ done' = 0
        BY <3>2 DEF Visit
      <4>2. cur = Nobody
        BY <4>1 DEF PlaceInv, Visiting
      <4> QED
        BY <4>1, <4>2, NobodyAssumption DEF Handled
    <3>3. CASE StartWalk \/ StartUsers \/ UserIgnores \/ UserFaults \/ UserEvent
      <4>1. pc \in {"dispatch", "users"} /\ UNCHANGED cur
        BY <3>3 DEF StartWalk, StartUsers, Dispatch, UserIgnores, UserFaults, UserEvent, TakeUser
      <4>2. cur = Nobody
        BY <4>1 DEF PlaceInv, Visiting
      <4> QED
        BY <4>1, <4>2, NobodyAssumption DEF Handled
    <3> QED
      BY <1>7, <3>1, <3>2, <3>3, WalkUnchanged
  <2>3. Pending' = Pending
    BY <1>7, <2>1, <2>2, PendingSame
  <2> QED
    BY <1>7, <2>3
<1> QED
  BY <1>2, <1>3, <1>4, <1>5, <1>6, <1>7, EventsUnchanged

(* eventfd_user counts what the user has still to read. *)
UserExact == userfd = Len(userq) - (IF InUsers THEN done ELSE 0)

LEMMA UserStep ==
    ASSUME TypeInv, PlaceInv, UserExact, [Next]_vars
    PROVE  UserExact'
<1>1. userq \in Seq([type : UserTypes, issuer : Instances]) /\ done \in Nat /\ userfd \in Nat
  BY DEF TypeInv, UserType, WalkType
<1>2. Len(userq) \in Nat
  BY <1>1, LenProperties
<1>3. CASE HandleInit \/ HandleInitFails \/ HandleAnswer \/ HandleTerm
  <2>1. cur \in Instances /\ ~ InUsers /\ ~ InUsers'
    BY <1>3, HandlerEffect, CurIsInstance DEF InUsers
  <2>2. PICK types \in Seq(UserTypes) : Raise(cur, types)
    <3>1. /\ <<"FORWARDED">> \in Seq(UserTypes) /\ <<"ERROR">> \in Seq(UserTypes)
          /\ <<"EVENT", "FORWARDED">> \in Seq(UserTypes)
          /\ <<"EVENT", "FORWARDED", "EVENT", "HAS_TERMINATED">> \in Seq(UserTypes)
          /\ <<"HAS_TERMINATED">> \in Seq(UserTypes)
      BY DEF UserTypes
    <3> QED
      BY <1>3, <3>1 DEF HandleInit, HandleInitFails, HandleAnswer, HandleTerm
  <2>3. Len(userq') = Len(userq) + Len(types) /\ userfd' = userfd + Len(types)
    BY <2>1, <2>2, RaiseEffect DEF TypeInv
  <2>4. Len(types) \in Nat
    BY LenProperties
  <2> QED
    BY <1>1, <1>2, <2>1, <2>3, <2>4 DEF UserExact
<1>4. CASE EndUsers
  <2>1. userq' = << >> /\ userfd' = userfd /\ done = Len(userq) /\ InUsers /\ ~ InUsers'
    BY <1>4 DEF EndUsers, InUsers
  <2>2. userfd = 0
    BY <1>1, <1>2, <2>1 DEF UserExact
  <2> QED
    BY <2>1, <2>2, EmptySeq DEF UserExact
<1>5. CASE UserIgnores \/ UserFaults \/ UserEvent \/ UserTerminated
  <2>1. userq' = userq /\ userfd' = userfd - 1 /\ done' = done + 1 /\ InUsers /\ InUsers'
    BY <1>5, UserHandlerEffect DEF InUsers
  <2> QED
    BY <1>1, <1>2, <2>1 DEF UserExact
<1>6. CASE UNCHANGED <<userq, userfd>> /\ ~ EndUsers
           /\ ~ (UserIgnores \/ UserFaults \/ UserEvent \/ UserTerminated)
  <2>1. CASE StartUsers
    <3>1. ~ InUsers /\ done' = 0
      BY <2>1 DEF StartUsers, Dispatch, InUsers
    <3> QED
      BY <1>1, <1>2, <1>6, <3>1 DEF UserExact
  <2>2. CASE InUsers /\ InUsers'
    <3>1. done' = done
      BY <1>6, <2>2, UsersAlone
    <3> QED
      BY <1>6, <2>2, <3>1 DEF UserExact
  <2>3. CASE ~ InUsers /\ ~ InUsers'
    BY <1>6, <2>3 DEF UserExact
  <2>4. CASE ~ (InUsers <=> InUsers') /\ ~ StartUsers
    <3>1. ~ StartWalk /\ ~ (\E i \in Instances : Visit(i)) /\ ~ EndVisit /\ ~ EndWalk
      BY <2>4 DEF InUsers, StartWalk, Visit, EndVisit, EndWalk, Dispatch
    <3>2. ~ HandleAnswerWithoutData
      BY <2>4, HandlerEffect DEF InUsers
    <3> QED
      BY <1>6, <2>4, <3>1, <3>2, Moves DEF InUsers
  <2> QED
    BY <2>1, <2>2, <2>3, <2>4
<1> QED
  BY <1>3, <1>4, <1>5, <1>6, UserUnchanged

LEMMA PendingTypeStep == TypeInv /\ PlaceInv /\ [Next]_vars => (Pending \in Nat)'
<1>1. TypeInv /\ PlaceInv => Pending \in Nat
  BY PendingType
<1>2. TypeInv /\ PlaceInv /\ [Next]_vars => (TypeInv /\ PlaceInv)'
  BY TypeStep, PlaceStep
<1> QED
  BY <1>1, <1>2, PTL

LEMMA CounterHighStep ==
    ASSUME TypeInv, PlaceInv, algfd >= Pending, [Next]_vars
    PROVE  algfd' >= Pending'
<1> DEFINE p == Pending
           q == Pending'
           a == algfd
           b == algfd'
<1>1. p \in Nat /\ q \in Nat /\ a \in Nat /\ b \in Nat
  <2>1. TypeInv' /\ q \in Nat
    BY TypeStep, PendingTypeStep
  <2> QED
    BY <2>1, PendingType DEF TypeInv, EventType
<1>2. b - q = a - p \/ (b = a + 1 /\ q <= p) \/ (b = a /\ q <= p)
  BY CounterStep
<1>3. a >= p
  OBVIOUS
<1> HIDE DEF p, q, a, b
<1>4. b >= q
  BY <1>1, <1>2, <1>3
<1> QED
  BY <1>4 DEF b, q

LEMMA InitPending ==
    ASSUME Init
    PROVE  algfd = Pending /\ UserExact
<1> DEFINE left == [i \in Instances |-> Len(events[i]) - Handled(i)]
<1>1. \A i \in Instances : left[i] = 1
  BY NobodyAssumption DEF Init, Handled
<1>2. algfd = Cardinality(Instances) /\ registered = Instances
  BY DEF Init
<1>3. Pending = Total(left, registered)
  BY DEF Pending
<1> HIDE DEF left
<1>4. Total(left, Instances) = Cardinality(Instances)
  BY <1>1, PtLoopAssumption, TotalOnes
<1>5. UserExact
  BY EmptySeq DEF Init, UserExact, InUsers
<1> QED
  BY <1>2, <1>3, <1>4, <1>5

(* The reads of the two event queues never block: eventfd_algorithm is at    *)
(* least the number of the events left in the queues of the registered       *)
(* instances, and eventfd_user is the number of the user events left.        *)
THEOREM ReadsDoNotBlock == Spec => []ReadsNeverBlock
<1> DEFINE Inv == TypeInv /\ PlaceInv /\ algfd >= Pending /\ UserExact
<1>1. Init => Inv
  <2>1. SUFFICES ASSUME Init PROVE Inv
    OBVIOUS
  <2>2. TypeInv /\ PlaceInv /\ algfd = Pending /\ UserExact
    BY <2>1, InitTyped, InitPending
  <2> QED
    BY <2>2, PendingType
<1>2. Inv /\ [Next]_vars => Inv'
  BY TypeStep, PlaceStep, CounterHighStep, UserStep
<1>3. Inv => ReadsNeverBlock
  BY DEF UserExact, InUsers, ReadsNeverBlock
<1> QED
  BY <1>1, <1>2, <1>3, PTL DEF Spec

LEMMA OnlyAnswersComeIn ==
    ASSUME TypeInv, ProcessRecvq \/ DropExpired, NEW i \in Instances, NEW k \in 1 .. Len(events'[i])
    PROVE  \/ k \in 1 .. Len(events[i]) /\ events'[i][k] = events[i][k]
           \/ k > Len(events[i]) /\ events'[i][k] \in Answers
<1>1. CASE UNCHANGED events
  BY <1>1
<1>2. CASE \E type \in Answers : \E n \in [Instances -> Nat] : Answer(type, n)
  <2>1. PICK type \in Answers : \E n \in [Instances -> Nat] : Answer(type, n)
    BY <1>2
  <2>2. PICK n \in [Instances -> Nat] : Answer(type, n)
    BY <2>1
  <2> DEFINE S == {j \in Instances : n[j] > 0}
  <2>3. CASE ThrowTo(S, type, n)
    <3>1. type \in EventTypes /\ S \in SUBSET Instances /\ \A j \in S : n[j] \in Nat
      BY DEF Answers, EventTypes
    <3>2. EventType
      BY DEF TypeInv
    <3> HIDE DEF S
    <3>3. \/ k \in 1 .. Len(events[i]) /\ events'[i][k] = events[i][k]
          \/ k > Len(events[i]) /\ events'[i][k] = type
      BY <2>3, <3>1, <3>2, ThrownEvent
    <3> QED
      BY <3>3
  <2>4. CASE UNCHANGED events
    BY <2>4
  <2> QED
    BY <2>2, <2>3, <2>4, AnswerIsThrown
<1> QED
  BY <1>1, <1>2, AnswerSteps

-----------------------------------------------------------------------------
(* The counter is exact until TERM is thrown *)

LEMMA NoTermStep ==
    ASSUME TypeInv, PlaceInv, NoTerm, ~ TimeExpires, ~ ReadSignal, [Next]_vars
    PROVE  NoTerm'
<1>1. CASE UNCHANGED events
  BY <1>1 DEF NoTerm
<1>2. CASE ProcessRecvq \/ DropExpired
  <2>1. SUFFICES ASSUME NEW i \in Instances, NEW k \in 1 .. Len(events'[i])
                 PROVE  events'[i][k] # "TERM"
    BY DEF NoTerm
  <2>2. \/ k \in 1 .. Len(events[i]) /\ events'[i][k] = events[i][k]
        \/ events'[i][k] \in Answers
    BY <1>2, OnlyAnswersComeIn
  <2> QED
    BY <2>2 DEF NoTerm, Answers
<1>3. CASE EndVisit \/ UserTerminated
  <2>1. PICK c : events' = [events EXCEPT ![c] = << >>]
    BY <1>3 DEF EndVisit, UserTerminated
  <2>2. \A i \in Instances : events'[i] = events[i] \/ events'[i] = << >>
    BY <2>1 DEF TypeInv, EventType
  <2> QED
    BY <2>2, EmptySeq DEF NoTerm
<1>4. CASE HandleInit \/ HandleInitFails \/ HandleAnswer \/ HandleAnswerWithoutData \/ HandleTerm
  BY <1>1, <1>4, HandlerEffect
<1> QED
  BY <1>1, <1>2, <1>3, <1>4, EventsUnchanged

(* The queue that is flushed has been handled to its end. *)
LEMMA PendingFlushed ==
    ASSUME TypeInv, PlaceInv, NoTerm, EndVisit
    PROVE  Pending' = Pending
<1> DEFINE left == [i \in Instances |-> Len(events[i]) - Handled(i)]
           left1 == [i \in Instances |-> Len(events'[i]) - Handled(i)']
<1>1. /\ pc = "visit" /\ events' = [events EXCEPT ![cur] = << >>]
      /\ cur' = Nobody /\ registered' = registered
  BY DEF EndVisit, instVars
<1>2. cur \in Instances /\ Len(events[cur]) \in Nat /\ done \in Nat /\ done <= Len(events[cur])
  BY <1>1, CurIsInstance
<1>3. done = Len(events[cur])
  BY <1>2 DEF EndVisit, NoTerm
<1>4. registered \in SUBSET Instances /\ events \in [Instances -> Seq(EventTypes)]
  BY FiniteRegistered DEF TypeInv, EventType
<1>5. \A i \in registered : left[i] = left1[i]
  <2> TAKE i \in registered
  <2>1. Len(events[i]) \in Nat /\ i \in Instances
    BY <1>4, LeftType
  <2>2. Handled(i)' = 0
    BY <1>1, <2>1, NobodyAssumption DEF Handled
  <2>3. CASE i = cur
    <3>1. Len(events'[i]) = 0 /\ Handled(i) = Len(events[i])
      BY <1>1, <1>3, <1>4, <2>1, <2>3, EmptySeq DEF Handled
    <3> QED
      BY <2>1, <2>2, <3>1
  <2>4. CASE i # cur
    <3>1. events'[i] = events[i] /\ Handled(i) = 0
      BY <1>1, <1>4, <2>1, <2>4 DEF Handled
    <3> QED
      BY <2>1, <2>2, <3>1
  <2> QED
    BY <2>3, <2>4
<1>6. Pending = Total(left, registered) /\ Pending' = Total(left1, registered)
  BY <1>1 DEF Pending
<1> HIDE DEF left, left1
<1> QED
  BY <1>5, <1>6, TotalSame

LEMMA ExactStep ==
    ASSUME TypeInv, PlaceInv, ExactInv, [Next]_vars
    PROVE  ExactInv'
<1>1. SUFFICES ASSUME ~ late', status' = "CONTINUE"
               PROVE  algfd' = Pending' /\ NoTerm'
  BY DEF ExactInv
<1>2. status = "CONTINUE" /\ ~ ReadSignal /\ ~ UserTerminated
  BY <1>1, StatusUnchanged DEF ReadSignal, UserTerminated
<1>3. ~ late /\ ~ TimeExpires
  <2>1. late' = TRUE \/ late' = late
    BY LateUnchanged DEF TimePasses
  <2>2. TimeExpires => late /\ late' = late
    BY DEF TimeExpires
  <2>3. late \in BOOLEAN
    BY DEF TypeInv, LoopType
  <2> QED
    BY <1>1, <2>1, <2>2, <2>3
<1>4. algfd = Pending /\ NoTerm
  BY <1>2, <1>3 DEF ExactInv
<1>5. NoTerm'
  BY <1>2, <1>3, <1>4, NoTermStep
<1>6. algfd' = Pending'
  <2>1. CASE EndVisit
    <3>1. algfd' = algfd
      BY <2>1 DEF EndVisit
    <3> QED
      BY <1>4, <2>1, <3>1, PendingFlushed
  <2>2. CASE algfd' - Pending' = algfd - Pending
    <3> DEFINE p == Pending
               q == Pending'
               a == algfd
               b == algfd'
    <3>1. p \in Nat /\ q \in Nat /\ a = p /\ b - q = a - p
      BY <1>4, <2>2, PendingType, PendingTypeStep
    <3>2. b \in Nat
      BY TypeStep DEF TypeInv, EventType
    <3> HIDE DEF p, q, a, b
    <3>3. b = q
      BY <3>1, <3>2
    <3> QED
      BY <3>3 DEF b, q
  <2> QED
    BY <1>2, <2>1, <2>2, CounterStep
<1> QED
  BY <1>5, <1>6

(* Until the time given by --timeout is up, eventfd_algorithm counts the      *)
(* events that are left exactly, as long as no instance has terminated and no *)
(* signal is read: the loop never turns for nothing.                          *)
THEOREM CounterStaysExact == Spec => [](~ late => CounterExact)
<1> DEFINE Inv == TypeInv /\ PlaceInv /\ ExactInv
<1>1. Init => Inv
  <2>1. SUFFICES ASSUME Init PROVE Inv
    OBVIOUS
  <2>2. TypeInv /\ PlaceInv /\ algfd = Pending
    BY <2>1, InitTyped, InitPending
  <2>3. NoTerm
    BY <2>1 DEF Init, NoTerm
  <2> QED
    BY <2>2, <2>3 DEF ExactInv
<1>2. Inv /\ [Next]_vars => Inv'
  BY TypeStep, PlaceStep, ExactStep
<1>3. Inv => (~ late => CounterExact)
  BY DEF ExactInv, CounterExact
<1> QED
  BY <1>1, <1>2, <1>3, PTL DEF Spec

-----------------------------------------------------------------------------
(* What an instance waits for *)

Handling == HandleInit \/ HandleInitFails \/ HandleAnswer \/ HandleAnswerWithoutData \/ HandleTerm

LEMMA HandledStep ==
    ASSUME TypeInv, PlaceInv, [Next]_vars, NEW i \in Instances
    PROVE  \/ Handled(i)' = Handled(i)
           \/ cur = i /\ Handled(i)' = Handled(i) + 1 /\ Handling
           \/ cur = i /\ Handled(i)' = 0 /\ EndVisit
<1>1. CASE UNCHANGED <<visits, cur, done>>
  BY <1>1 DEF Handled
<1>2. CASE \E j \in Instances : Visit(j)
  <2>1. done' = 0 /\ cur = Nobody
    BY <1>2 DEF PlaceInv, Visiting, Visit
  <2> QED
    BY <2>1, NobodyAssumption DEF Handled
<1>3. CASE StartWalk \/ StartUsers \/ UserIgnores \/ UserFaults \/ UserEvent \/ UserTerminated
  <2>1. pc \in {"dispatch", "users"} /\ UNCHANGED cur
    BY <1>3 DEF StartWalk, StartUsers, Dispatch, UserIgnores, UserFaults, UserEvent,
                UserTerminated, TakeUser
  <2>2. cur = Nobody
    BY <2>1 DEF PlaceInv, Visiting
  <2> QED
    BY <2>1, <2>2, NobodyAssumption DEF Handled
<1>4. CASE EndVisit
  <2>1. cur' = Nobody
    BY <1>4 DEF EndVisit
  <2> QED
    BY <1>4, <2>1, NobodyAssumption DEF Handled
<1>5. CASE Handling
  <2>1. UNCHANGED cur /\ done' = done + 1
    BY <1>5, HandlerEffect DEF Handling
  <2> QED
    BY <1>5, <2>1 DEF Handled
<1> QED
  BY <1>1, <1>2, <1>3, <1>4, <1>5, WalkUnchanged DEF Handling

LEMMA QueuedType ==
    ASSUME TypeInv, PlaceInv, NEW i \in Instances, NEW V
    PROVE  Queued(i, V) \in Nat
<1>1. events[i] \in Seq(EventTypes) /\ Handled(i) \in Nat
  BY LeftType
<1>2. Handled(i) + 1 \in Nat \ {0}
  BY <1>1
<1> QED
  BY <1>1, <1>2, CountType DEF Queued

LEMMA AwaitedType ==
    ASSUME TypeInv, PlaceInv, NEW i \in Instances
    PROVE  /\ Count(sendq, {i}) \in Nat
           /\ flying[i] \in Nat /\ lost[i] \in Nat
           /\ Queued(i, Answers) \in Nat
           /\ Awaited(i) = Count(sendq, {i}) + flying[i] + lost[i] + Queued(i, Answers)
           /\ Awaited(i) \in Nat
<1>1. sendq \in Seq(Instances) /\ 1 \in Nat \ {0}
  BY DEF TypeInv, NetType
<1>2. Count(sendq, {i}) \in Nat
  BY <1>1, CountType DEF Count
<1>3. flying[i] \in Nat /\ lost[i] \in Nat
  BY DEF TypeInv, NetType
<1>4. Queued(i, Answers) \in Nat
  BY QueuedType
<1>5. Awaited(i) = Count(sendq, {i}) + flying[i] + lost[i] + Queued(i, Answers)
  BY DEF Awaited, Queued
<1> QED
  BY <1>2, <1>3, <1>4, <1>5

LEMMA NothingAwaited ==
    ASSUME TypeInv, PlaceInv, NEW i \in Instances, Awaited(i) = 0
    PROVE  flying[i] = 0 /\ Queued(i, Answers) = 0
<1> DEFINE c == Count(sendq, {i})
           f == flying[i]
           l == lost[i]
           q == Queued(i, Answers)
<1>1. c \in Nat /\ f \in Nat /\ l \in Nat /\ q \in Nat /\ c + f + l + q = 0
  BY AwaitedType
<1> HIDE DEF c, f, l, q
<1>2. f = 0 /\ q = 0
  BY <1>1
<1> QED
  BY <1>2 DEF f, q

LEMMA AwaitedTypeStep ==
    ASSUME NEW i \in Instances
    PROVE  TypeInv /\ PlaceInv /\ [Next]_vars =>
               (Queued(i, Answers) \in Nat /\ Queued(i, {"INIT"}) \in Nat /\ Awaited(i) \in Nat)'
<1>1. TypeInv /\ PlaceInv =>
          Queued(i, Answers) \in Nat /\ Queued(i, {"INIT"}) \in Nat /\ Awaited(i) \in Nat
  BY QueuedType, AwaitedType
<1>2. TypeInv /\ PlaceInv /\ [Next]_vars => (TypeInv /\ PlaceInv)'
  BY TypeStep, PlaceStep
<1> QED
  BY <1>1, <1>2, PTL

LEMMA NothingAwaitedNext ==
    ASSUME NEW i \in Instances
    PROVE  TypeInv /\ PlaceInv /\ [Next]_vars => (Awaited(i) = 0 => Queued(i, Answers) = 0)'
<1>1. TypeInv /\ PlaceInv => (Awaited(i) = 0 => Queued(i, Answers) = 0)
  BY NothingAwaited
<1>2. TypeInv /\ PlaceInv /\ [Next]_vars => (TypeInv /\ PlaceInv)'
  BY TypeStep, PlaceStep
<1> QED
  BY <1>1, <1>2, PTL

LEMMA QueuedSame ==
    ASSUME NEW i \in Instances, NEW V, events'[i] = events[i], Handled(i)' = Handled(i)
    PROVE  Queued(i, V)' = Queued(i, V)
  BY DEF Queued

LEMMA QueuedDropped ==
    ASSUME NEW i \in Instances, NEW V, events'[i] = << >>, Handled(i)' = 0
    PROVE  Queued(i, V)' = 0
<1>1. {k \in 1 .. Len(<< >>) : << >>[k] \in V} = {}
  BY EmptySeq
<1>2. CountFrom(<< >>, 1, V) = 0
  BY <1>1, FS_EmptySet DEF CountFrom
<1> QED
  BY <1>2 DEF Queued

(* An event is handled. *)
LEMMA QueuedHandled ==
    ASSUME TypeInv, PlaceInv, pc = "visit", NEW V, done < Len(events[cur]),
           UNCHANGED <<events, cur>>, done' = done + 1
    PROVE  /\ events[cur][done + 1] \in V => Queued(cur, V) = Queued(cur, V)' + 1
           /\ events[cur][done + 1] \notin V => Queued(cur, V) = Queued(cur, V)'
<1> DEFINE s == events[cur]
           m == done + 1
<1>1. s \in Seq(EventTypes) /\ m \in 1 .. Len(s) /\ m + 1 \in Nat \ {0}
  BY CurIsInstance
<1>2. CountFrom(s, m, V) = CountFrom(s, m + 1, V) + (IF s[m] \in V THEN 1 ELSE 0)
  <2> HIDE DEF s, m
  <2> QED
    BY <1>1, CountStep
<1>3. CountFrom(s, m + 1, V) \in Nat
  BY <1>1, CountType
<1>4. Queued(cur, V) = CountFrom(s, m, V) /\ Queued(cur, V)' = CountFrom(s, m + 1, V)
  BY DEF Queued, Handled
<1> HIDE DEF s, m
<1>5. /\ s[m] \in V => Queued(cur, V) = Queued(cur, V)' + 1
      /\ s[m] \notin V => Queued(cur, V) = Queued(cur, V)'
  BY <1>2, <1>3, <1>4
<1> QED
  BY <1>5 DEF s, m

LEMMA ThrownCount ==
    ASSUME EventType, NEW S \in SUBSET Instances, NEW type \in EventTypes, NEW n,
           ThrowTo(S, type, n), NEW i \in S, n[i] \in Nat,
           NEW m \in 1 .. Len(events[i]) + 1, NEW V
    PROVE  CountFrom(events'[i], m, V) =
               CountFrom(events[i], m, V) + (IF type \in V THEN n[i] ELSE 0)
<1> DEFINE s == events[i]
           c == n[i]
<1>1. events'[i] = s \o [k \in 1 .. c |-> type]
  BY DEF ThrowTo
<1>2. s \in Seq(EventTypes) /\ c \in Nat /\ m \in 1 .. Len(s) + 1
  BY DEF EventType
<1> HIDE DEF s, c
<1>3. CountFrom(s \o [k \in 1 .. c |-> type], m, V) =
          CountFrom(s, m, V) + (IF type \in V THEN c ELSE 0)
  BY <1>2, CountCopies
<1> QED
  BY <1>1, <1>3 DEF s, c

LEMMA QueuedThrown ==
    ASSUME TypeInv, PlaceInv, ~ Visiting, UNCHANGED cur,
           NEW S \in SUBSET Instances, NEW type \in EventTypes, NEW n,
           \A j \in S : n[j] \in Nat, ThrowTo(S, type, n), NEW i \in S, NEW V, type \in V
    PROVE  Queued(i, V)' = Queued(i, V) + n[i]
<1>1. Handled(i) = 0 /\ Handled(i)' = 0 /\ EventType
  BY NobodyAssumption DEF PlaceInv, Handled, TypeInv
<1>2. Len(events[i]) \in Nat
  BY LeftType
<1>3. 1 \in 1 .. Len(events[i]) + 1 /\ n[i] \in Nat
  BY <1>2
<1>4. CountFrom(events'[i], 1, V) = CountFrom(events[i], 1, V) + (IF type \in V THEN n[i] ELSE 0)
  BY <1>1, <1>3, ThrownCount
<1> QED
  BY <1>1, <1>4 DEF Queued

LEMMA QueuedOther ==
    ASSUME TypeInv, PlaceInv, ~ Visiting, UNCHANGED cur,
           NEW S \in SUBSET Instances, NEW type \in EventTypes, NEW n,
           \A j \in S : n[j] \in Nat, ThrowTo(S, type, n), NEW i \in S, NEW V, type \notin V
    PROVE  Queued(i, V)' = Queued(i, V)
<1>1. Handled(i) = 0 /\ Handled(i)' = 0 /\ EventType
  BY NobodyAssumption DEF PlaceInv, Handled, TypeInv
<1>2. Len(events[i]) \in Nat
  BY LeftType
<1>3. 1 \in 1 .. Len(events[i]) + 1 /\ n[i] \in Nat
  BY <1>2
<1>4. CountFrom(events'[i], 1, V) = CountFrom(events[i], 1, V) + (IF type \in V THEN n[i] ELSE 0)
  BY <1>1, <1>3, ThrownCount
<1>5. CountFrom(events[i], 1, V) \in Nat
  BY <1>1, QueuedType DEF Queued
<1> QED
  BY <1>1, <1>4, <1>5 DEF Queued

LEMMA QueuedAside ==
    ASSUME TypeInv, PlaceInv, ~ Visiting, UNCHANGED cur,
           NEW S \in SUBSET Instances, NEW type, NEW n, ThrowTo(S, type, n),
           NEW i \in Instances \ S, NEW V
    PROVE  Queued(i, V)' = Queued(i, V)
<1>1. Handled(i) = 0 /\ Handled(i)' = 0
  BY NobodyAssumption DEF PlaceInv, Handled
<1>2. events'[i] = events[i]
  BY DEF ThrowTo
<1> QED
  BY <1>1, <1>2, QueuedSame

(* What leaves the network comes into the queue. *)
LEMMA QueuedAnswers ==
    ASSUME TypeInv, PlaceInv, [Next]_vars, ProcessRecvq \/ DropExpired, NEW i \in Instances
    PROVE  /\ Queued(i, Answers)' + flying'[i] = Queued(i, Answers) + flying[i]
           /\ Queued(i, {"INIT"})' = Queued(i, {"INIT"})
           /\ Queued(i, Answers) <= Queued(i, Answers)'
           /\ Queued(i, Answers) < Queued(i, Answers)' => i \in alive
<1>1. ~ Visiting /\ UNCHANGED <<cur, done>> /\ Handled(i)' = Handled(i)
  BY DEF ProcessRecvq, DropExpired, Dispatch, Visiting, walkVars, Handled
<1>2. Queued(i, Answers) \in Nat /\ flying[i] \in Nat
  BY AwaitedType
<1>3. CASE UNCHANGED <<events, flying>>
  <2>1. Queued(i, Answers)' = Queued(i, Answers) /\ Queued(i, {"INIT"})' = Queued(i, {"INIT"})
    BY <1>1, <1>3, QueuedSame
  <2> QED
    BY <1>2, <1>3, <2>1
<1>4. CASE \E type \in Answers : \E n \in [Instances -> Nat] : Answer(type, n)
  <2>1. PICK type \in Answers : \E n \in [Instances -> Nat] : Answer(type, n)
    BY <1>4
  <2>2. PICK n \in [Instances -> Nat] : Answer(type, n)
    BY <2>1
  <2> DEFINE S == {j \in Instances : n[j] > 0}
  <2>3. CASE S \subseteq alive /\ ThrowTo(S, type, n) /\ flying' = [j \in Instances |-> flying[j] - n[j]]
    <3>1. S \in SUBSET Instances /\ (\A j \in S : n[j] \in Nat) /\ n[i] \in Nat
      OBVIOUS
    <3>2. type \in EventTypes /\ type \in Answers /\ type \notin {"INIT"}
      BY DEF Answers, EventTypes
    <3>3. i \notin S => n[i] = 0
      OBVIOUS
    <3> HIDE DEF S
    <3>4. Queued(i, {"INIT"}) \in Nat
      BY QueuedType
    <3>5. i \in S => /\ Queued(i, Answers)' = Queued(i, Answers) + n[i]
                    /\ Queued(i, {"INIT"})' = Queued(i, {"INIT"})
      <4> SUFFICES ASSUME i \in S
                   PROVE  /\ Queued(i, Answers)' = Queued(i, Answers) + n[i]
                          /\ Queued(i, {"INIT"})' = Queued(i, {"INIT"})
        OBVIOUS
      <4>1. Queued(i, Answers)' = Queued(i, Answers) + n[i]
        BY <1>1, <2>3, <3>1, <3>2, QueuedThrown
      <4>2. Queued(i, {"INIT"})' = Queued(i, {"INIT"})
        BY <1>1, <2>3, <3>1, <3>2, QueuedOther
      <4> QED
        BY <4>1, <4>2
    <3>6. i \notin S => /\ Queued(i, Answers)' = Queued(i, Answers)
                       /\ Queued(i, {"INIT"})' = Queued(i, {"INIT"})
      BY <1>1, <2>3, <3>1, <3>2, QueuedAside
    <3>7. flying'[i] = flying[i] - n[i]
      BY <2>3
    <3> QED
      BY <1>2, <2>3, <3>1, <3>3, <3>5, <3>6, <3>7
  <2> HIDE DEF S
  <2>4. (S \subseteq alive /\ ThrowTo(S, type, n) /\ flying' = [j \in Instances |-> flying[j] - n[j]])
        \/ UNCHANGED <<events, flying>>
    BY <2>2, AnswerIsThrown DEF S
  <2> QED
    BY <1>3, <2>3, <2>4
<1> QED
  BY <1>3, <1>4, AnswerSteps

(* TERM is no answer. *)
LEMMA QueuedTerm ==
    ASSUME TypeInv, PlaceInv, TimeExpires \/ ReadSignal, NEW i \in Instances, NEW V, "TERM" \notin V
    PROVE  Queued(i, V)' = Queued(i, V)
<1>1. PICK n \in [registered -> Nat] : ThrowTo(registered, "TERM", n)
  BY TermIsThrown DEF TimeExpires, ReadSignal
<1>2. "TERM" \in EventTypes /\ (\A j \in registered : n[j] \in Nat) /\ ~ Visiting /\ UNCHANGED cur
  BY DEF EventTypes, TimeExpires, ReadSignal, Visiting, walkVars
<1>3. registered \in SUBSET Instances
  BY FiniteRegistered
<1>4. CASE i \in registered
  BY <1>1, <1>2, <1>3, <1>4, QueuedOther
<1>5. CASE i \notin registered
  BY <1>1, <1>2, <1>3, <1>5, QueuedAside
<1> QED
  BY <1>4, <1>5

LEMMA SendRoundCount ==
    ASSUME TypeInv, cur \in Instances, SendRound, NEW i \in Instances
    PROVE  /\ i = cur => Count(sendq', {i}) = Count(sendq, {i}) + ProbesPerRound[i]
           /\ i # cur => Count(sendq', {i}) = Count(sendq, {i})
<1> DEFINE m == ProbesPerRound[cur]
           c == cur
           s == sendq
           V == {i}
<1>1. s \in Seq(Instances) /\ c \in Instances /\ m \in Nat
  BY PtLoopAssumption DEF TypeInv, NetType
<1>2. sendq' = s \o [k \in 1 .. m |-> c]
  BY DEF SendRound
<1>3. 1 \in 1 .. Len(s) + 1 /\ 1 \in Nat \ {0}
  BY <1>1, LenProperties
<1>4. c \in V <=> i = c
  OBVIOUS
<1> HIDE DEF m, c, s, V
<1>5. CountFrom(s \o [k \in 1 .. m |-> c], 1, V) = CountFrom(s, 1, V) + (IF c \in V THEN m ELSE 0)
  BY <1>1, <1>3, CountCopies
<1>6. CountFrom(s, 1, V) \in Nat
  BY <1>1, <1>3, CountType
<1>7. /\ i = c => CountFrom(sendq', 1, V) = CountFrom(s, 1, V) + m
      /\ i # c => CountFrom(sendq', 1, V) = CountFrom(s, 1, V)
  BY <1>2, <1>4, <1>5, <1>6
<1> QED
  BY <1>7 DEF m, c, s, V, Count

(* A probe leaves sendq for the network, or is lost. *)
LEMMA SendqCount ==
    ASSUME TypeInv, PlaceInv, ProcessSendq, NEW i \in Instances
    PROVE  Count(sendq', {i}) + flying'[i] + lost'[i] = Count(sendq, {i}) + flying[i] + lost[i]
<1> DEFINE h == Head(sendq)
           V == {i}
<1>1. sendq \in Seq(Instances) /\ sendq # << >> /\ sendq' = Tail(sendq)
  BY DEF TypeInv, NetType, PlaceInv, ProcessSendq, Dispatch
<1>2. Tail(sendq) \in Seq(Instances) /\ h \in Instances
  BY <1>1, HeadTailProperties
<1>3. h \in V <=> i = h
  OBVIOUS
<1>4. flying \in [Instances -> Nat] /\ lost \in [Instances -> Nat]
  BY DEF TypeInv, NetType
<1>5. \/ flying' = [flying EXCEPT ![h] = @ + 1] /\ lost' = lost
      \/ lost' = [lost EXCEPT ![h] = @ + 1] /\ flying' = flying
  BY DEF ProcessSendq
<1> HIDE DEF V
<1>6. Count(sendq, V) = Count(Tail(sendq), V) + (IF h \in V THEN 1 ELSE 0)
  BY <1>1, CountTail
<1>7. Count(Tail(sendq), V) \in Nat
  <2>1. 1 \in Nat \ {0}
    OBVIOUS
  <2> QED
    BY <1>2, <2>1, CountType DEF Count
<1> HIDE DEF h
<1>8. CASE i = h
  <2>1. Count(sendq, V) = Count(sendq', V) + 1
    BY <1>1, <1>3, <1>6, <1>8
  <2>2. flying'[i] + lost'[i] = flying[i] + lost[i] + 1
    BY <1>4, <1>5, <1>8
  <2>3. /\ flying[i] \in Nat /\ lost[i] \in Nat
        /\ flying'[i] \in Nat /\ lost'[i] \in Nat
    BY <1>2, <1>4, <1>5, <1>8
  <2>4. Count(sendq', V) \in Nat
    BY <1>1, <1>7
  <2>5. Count(sendq', V) + flying'[i] + lost'[i] = Count(sendq, V) + flying[i] + lost[i]
    BY <2>1, <2>2, <2>3, <2>4
  <2> QED
    BY <2>5 DEF V
<1>9. CASE i # h
  <2>1. Count(sendq, V) = Count(sendq', V)
    BY <1>1, <1>3, <1>6, <1>7, <1>9
  <2>2. flying'[i] = flying[i] /\ lost'[i] = lost[i]
    BY <1>4, <1>5, <1>9
  <2> QED
    BY <2>1, <2>2 DEF V
<1> QED
  BY <1>8, <1>9

(* The user handler frees i. *)
Frees(i) == UserTerminated /\ userq[done + 1].issuer = i

(* The instances that a step is not about wait for what they waited for. *)
LEMMA AwaitedElsewhere ==
    ASSUME TypeInv, PlaceInv, [Next]_vars, NEW i \in Instances,
           ~ (cur = i /\ Handling), ~ (cur = i /\ EndVisit), ~ Frees(i)
    PROVE  /\ Awaited(i)' = Awaited(i)
           /\ Queued(i, {"INIT"})' = Queued(i, {"INIT"})
           /\ \/ Queued(i, Answers)' = Queued(i, Answers)
              \/ (ProcessRecvq \/ DropExpired) /\ i \in alive
<1>1. Handled(i)' = Handled(i)
  BY HandledStep
<1>2. Awaited(i)' = Count(sendq', {i}) + flying'[i] + lost'[i] + Queued(i, Answers)'
  BY DEF Awaited, Queued
<1>3. /\ Count(sendq, {i}) \in Nat
      /\ flying[i] \in Nat /\ lost[i] \in Nat
      /\ Queued(i, Answers) \in Nat
      /\ Awaited(i) = Count(sendq, {i}) + flying[i] + lost[i] + Queued(i, Answers)
  BY AwaitedType
<1>4. CASE ProcessRecvq \/ DropExpired
  <2>1. UNCHANGED <<sendq, lost>>
    BY <1>4 DEF ProcessRecvq, DropExpired
  <2>2. /\ Queued(i, Answers)' + flying'[i] = Queued(i, Answers) + flying[i]
        /\ Queued(i, {"INIT"})' = Queued(i, {"INIT"})
        /\ Queued(i, Answers) <= Queued(i, Answers)'
        /\ Queued(i, Answers) < Queued(i, Answers)' => i \in alive
    BY <1>4, QueuedAnswers
  <2>3. Queued(i, Answers)' \in Nat /\ flying'[i] \in Nat
    <3>1. flying'[i] \in Nat
      BY NetTypeStep DEF NetType
    <3> QED
      BY <1>3, <2>2, <3>1, AwaitedTypeStep
  <2> QED
    BY <1>2, <1>3, <1>4, <2>1, <2>2, <2>3
<1>5. CASE TimeExpires \/ ReadSignal
  <2>1. UNCHANGED <<sendq, flying, lost>>
    BY <1>5 DEF TimeExpires, ReadSignal, netVars
  <2>2. "TERM" \notin Answers /\ "TERM" \notin {"INIT"}
    BY DEF Answers
  <2>3. Queued(i, Answers)' = Queued(i, Answers) /\ Queued(i, {"INIT"})' = Queued(i, {"INIT"})
    BY <1>5, <2>2, QueuedTerm
  <2> QED
    BY <1>2, <1>3, <2>1, <2>3
<1>6. CASE events'[i] = events[i] /\ ~ (ProcessRecvq \/ DropExpired)
  <2>1. Queued(i, Answers)' = Queued(i, Answers) /\ Queued(i, {"INIT"})' = Queued(i, {"INIT"})
    BY <1>1, <1>6, QueuedSame
  <2>2. Count(sendq', {i}) + flying'[i] + lost'[i] = Count(sendq, {i}) + flying[i] + lost[i]
    <3>1. CASE ProcessSendq
      BY <3>1, SendqCount
    <3>2. CASE HandleInit \/ HandleAnswer
      <4>1. cur \in Instances /\ cur # i
        BY <3>2, HandlerEffect, CurIsInstance DEF Handling
      <4>2. UNCHANGED <<flying, lost>> /\ (SendRound \/ UNCHANGED sendq)
        BY <3>2 DEF HandleInit, HandleAnswer, Take
      <4>3. Count(sendq', {i}) = Count(sendq, {i})
        BY <4>1, <4>2, SendRoundCount
      <4> QED
        BY <4>2, <4>3
    <3>3. CASE UNCHANGED <<sendq, flying, lost>>
      BY <3>3
    <3>4. CASE TimerExpires \/ (\E j \in Instances : ReplyArrives(j))
      BY <3>3, <3>4 DEF TimerExpires, ReplyArrives
    <3> QED
      BY <1>6, <3>1, <3>2, <3>3, <3>4, NetUnchanged
  <2> QED
    BY <1>2, <1>3, <2>1, <2>2
<1>7. CASE EndVisit \/ UserTerminated \/ Handling
  <2>1. events'[i] = events[i]
    <3>1. CASE EndVisit
      <4>1. cur # i /\ events' = [events EXCEPT ![cur] = << >>]
        BY <3>1 DEF EndVisit
      <4> QED
        BY <4>1 DEF TypeInv, EventType
    <3>2. CASE UserTerminated
      <4>1. userq[done + 1].issuer # i /\ events' = [events EXCEPT ![userq[done + 1].issuer] = << >>]
        BY <3>2 DEF UserTerminated, Frees
      <4> QED
        BY <4>1 DEF TypeInv, EventType
    <3>3. CASE Handling
      BY <3>3, HandlerEffect DEF Handling
    <3> QED
      BY <1>7, <3>1, <3>2, <3>3
  <2> QED
    BY <1>4, <1>6, <2>1
<1>8. CASE UNCHANGED events
  BY <1>4, <1>6, <1>8
<1> QED
  BY <1>4, <1>5, <1>7, <1>8, EventsUnchanged DEF Handling

(* The instance that handles an event. *)
LEMMA AwaitedHandled ==
    ASSUME TypeInv, PlaceInv, [Next]_vars, Handling, NEW i \in Instances, i = cur
    PROVE  /\ HandleInit =>
                /\ events[i][done + 1] = "INIT"
                /\ Awaited(i)' = Awaited(i) + ProbesPerRound[i]
           /\ HandleInitFails => events[i][done + 1] = "INIT" /\ Awaited(i)' = Awaited(i)
           /\ HandleTerm => events[i][done + 1] = "TERM" /\ Awaited(i)' = Awaited(i)
           /\ HandleAnswer =>
                /\ events[i][done + 1] \in Answers
                /\ Awaited(i) >= 1
                /\ SendRound => Awaited(i)' = Awaited(i) - 1 + ProbesPerRound[i]
                /\ UNCHANGED sendq => Awaited(i)' = Awaited(i) - 1
           /\ HandleAnswerWithoutData =>
                /\ events[i][done + 1] \in Answers
                /\ Awaited(i) >= 1
                /\ Awaited(i)' = Awaited(i) - 1
<1>1. /\ pc = "visit" /\ done < Len(events[cur]) /\ done' = done + 1
      /\ UNCHANGED <<events, cur>>
  BY HandlerEffect DEF Handling
<1>2. UNCHANGED <<flying, lost>>
  BY DEF Handling, HandleInit, HandleInitFails, HandleAnswer, HandleAnswerWithoutData, HandleTerm, Take
<1>3. cur \in Instances
  BY <1>1, CurIsInstance
<1>4. Awaited(i)' = Count(sendq', {i}) + flying'[i] + lost'[i] + Queued(i, Answers)'
  BY DEF Awaited, Queued
<1>5. /\ Count(sendq, {i}) \in Nat
      /\ flying[i] \in Nat /\ lost[i] \in Nat
      /\ Queued(i, Answers) \in Nat
      /\ Awaited(i) = Count(sendq, {i}) + flying[i] + lost[i] + Queued(i, Answers)
  BY AwaitedType
<1>6. Queued(i, Answers)' \in Nat
  BY AwaitedTypeStep
<1>7. /\ events[i][done + 1] \in Answers => Queued(i, Answers) = Queued(i, Answers)' + 1
      /\ events[i][done + 1] \notin Answers => Queued(i, Answers) = Queued(i, Answers)'
  BY <1>1, QueuedHandled
<1>8. ProbesPerRound[i] \in Nat
  BY PtLoopAssumption
<1>9. SendRound => Count(sendq', {i}) = Count(sendq, {i}) + ProbesPerRound[i]
  BY <1>3, SendRoundCount
<1>10. ASSUME SendRound
       PROVE  /\ events[i][done + 1] \in Answers => Awaited(i)' = Awaited(i) - 1 + ProbesPerRound[i]
              /\ events[i][done + 1] \notin Answers => Awaited(i)' = Awaited(i) + ProbesPerRound[i]
  BY <1>2, <1>4, <1>5, <1>6, <1>7, <1>8, <1>9, <1>10
<1>11. ASSUME UNCHANGED sendq
       PROVE  /\ events[i][done + 1] \in Answers => Awaited(i)' = Awaited(i) - 1
              /\ events[i][done + 1] \notin Answers => Awaited(i)' = Awaited(i)
  BY <1>2, <1>4, <1>5, <1>6, <1>7, <1>11
<1>12. events[i][done + 1] \in Answers => Awaited(i) >= 1
  BY <1>5, <1>6, <1>7
<1>13. HandleInit => events[i][done + 1] = "INIT" /\ SendRound
  BY DEF HandleInit, Take
<1>14. HandleInitFails => events[i][done + 1] = "INIT" /\ UNCHANGED sendq
  BY DEF HandleInitFails, Take
<1>15. HandleTerm => events[i][done + 1] = "TERM" /\ UNCHANGED sendq
  BY DEF HandleTerm, Take
<1>16. HandleAnswer => events[i][done + 1] \in Answers /\ (SendRound \/ UNCHANGED sendq)
  BY DEF HandleAnswer, Take
<1>17. HandleAnswerWithoutData => events[i][done + 1] \in Answers /\ UNCHANGED sendq
  BY DEF HandleAnswerWithoutData, Take
<1>18. "INIT" \notin Answers /\ "TERM" \notin Answers
  BY DEF Answers
<1> QED
  BY <1>10, <1>11, <1>12, <1>13, <1>14, <1>15, <1>16, <1>17, <1>18

(* The instance whose queue is flushed, or that is freed. *)
LEMMA AwaitedDropped ==
    ASSUME TypeInv, PlaceInv, [Next]_vars, NEW i \in Instances,
           (cur = i /\ EndVisit) \/ Frees(i)
    PROVE  /\ Queued(i, {"INIT"})' = 0 /\ Queued(i, Answers)' = 0
           /\ Awaited(i)' = Awaited(i) - Queued(i, Answers)
           /\ events'[i] = << >>
<1>1. events'[i] = << >>
  BY DEF EndVisit, Frees, UserTerminated, TypeInv, EventType
<1>2. Handled(i)' = 0
  <2>1. CASE EndVisit
    BY <2>1, NobodyAssumption DEF EndVisit, Handled
  <2>2. CASE Frees(i)
    <3>1. cur' = cur /\ pc = "users"
      BY <2>2 DEF Frees, UserTerminated, TakeUser
    <3> QED
      BY <3>1, NobodyAssumption DEF PlaceInv, Visiting, Handled
  <2> QED
    BY <2>1, <2>2
<1>3. Queued(i, {"INIT"})' = 0 /\ Queued(i, Answers)' = 0
  BY <1>1, <1>2, QueuedDropped
<1>4. UNCHANGED <<sendq, flying, lost>>
  BY DEF EndVisit, Frees, UserTerminated, TakeUser, netVars
<1>5. Awaited(i)' = Count(sendq', {i}) + flying'[i] + lost'[i] + Queued(i, Answers)'
  BY DEF Awaited, Queued
<1> QED
  BY <1>1, <1>3, <1>4, <1>5, AwaitedType

(* What comes in with TERM. *)
LEMMA OnlyTermComesIn ==
    ASSUME TypeInv, TimeExpires \/ ReadSignal, NEW i \in Instances, NEW k \in 1 .. Len(events'[i])
    PROVE  \/ k \in 1 .. Len(events[i]) /\ events'[i][k] = events[i][k]
           \/ k > Len(events[i]) /\ events'[i][k] = "TERM"
<1>1. PICK n \in [registered -> Nat] : ThrowTo(registered, "TERM", n)
  BY TermIsThrown DEF TimeExpires, ReadSignal
<1>2. "TERM" \in EventTypes /\ (\A j \in registered : n[j] \in Nat) /\ EventType
  BY DEF EventTypes, TypeInv
<1>3. registered \in SUBSET Instances
  BY FiniteRegistered
<1> QED
  BY <1>1, <1>2, <1>3, ThrownEvent

(* INIT is the first event of an instance, if it is one. *)
LEMMA InitStaysFirst ==
    ASSUME TypeInv, PlaceInv, [Next]_vars, NEW i \in Instances,
           \A k \in 2 .. Len(events[i]) : events[i][k] # "INIT"
    PROVE  \A k \in 2 .. Len(events'[i]) : events'[i][k] # "INIT"
<1>1. CASE events'[i] = events[i]
  BY <1>1
<1>2. CASE events'[i] = << >>
  BY <1>2, EmptySeq
<1>3. CASE TimeExpires \/ ReadSignal
  <2>1. ASSUME NEW k \in 1 .. Len(events'[i]), k \in 2 .. Len(events'[i])
        PROVE  events'[i][k] # "INIT"
    BY <1>3, <2>1, OnlyTermComesIn
  <2> QED
    BY <2>1
<1>4. CASE ProcessRecvq \/ DropExpired
  <2>1. ASSUME NEW k \in 1 .. Len(events'[i]), k \in 2 .. Len(events'[i])
        PROVE  events'[i][k] # "INIT"
    <3>1. \/ k \in 1 .. Len(events[i]) /\ events'[i][k] = events[i][k]
          \/ k > Len(events[i]) /\ events'[i][k] \in Answers
      BY <1>4, OnlyAnswersComeIn
    <3> QED
      BY <2>1, <3>1 DEF Answers
  <2> QED
    BY <2>1
<1>5. CASE EndVisit \/ UserTerminated
  <2>1. PICK c : events' = [events EXCEPT ![c] = << >>]
    BY <1>5 DEF EndVisit, UserTerminated
  <2>2. events'[i] = events[i] \/ events'[i] = << >>
    BY <2>1 DEF TypeInv, EventType
  <2> QED
    BY <1>1, <1>2, <2>2
<1>6. CASE Handling
  BY <1>1, <1>6, HandlerEffect DEF Handling
<1> QED
  BY <1>1, <1>3, <1>4, <1>5, <1>6, EventsUnchanged DEF Handling

(* A queue is being flushed only once TERM has been handled. *)
LEMMA FlushingStep ==
    ASSUME TypeInv, PlaceInv, [Next]_vars, NEW i \in Instances, Flushing(i)', ~ Flushing(i)
    PROVE  HandleTerm /\ cur = i
<1>1. Visiting' /\ cur' = i /\ done' > 0 /\ events'[i][done'] = "TERM"
  BY DEF Flushing
<1>2. CASE Visiting
  <2>1. CASE UNCHANGED <<pc, events, cur, done>>
    BY <1>1, <2>1 DEF Flushing, Visiting
  <2>2. CASE Handling
    <3>1. cur = i /\ done' = done + 1 /\ events' = events
      BY <1>1, <2>2, HandlerEffect DEF Handling
    <3>2. events[i][done + 1] = "TERM"
      BY <1>1, <3>1
    <3>3. HandleTerm
      BY <2>2, <3>1, <3>2 DEF Handling, HandleInit, HandleInitFails, HandleAnswer,
                              HandleAnswerWithoutData, Take, Answers
    <3> QED
      BY <3>1, <3>3
  <2> QED
    BY <1>1, <1>2, <2>1, <2>2, VisitsAlone DEF Handling
<1>3. CASE ~ Visiting
  <2>1. \E j \in Instances : Visit(j)
    BY <1>1, <1>3, Moves DEF Visiting, StartWalk, EndVisit, EndWalk, HandleAnswerWithoutData, Take,
                             StartUsers, EndUsers, UserFaults
  <2>2. done' = 0
    BY <2>1 DEF Visit
  <2> QED
    BY <1>1, <2>2
<1> QED
  BY <1>2, <1>3

LEMMA AnswersForStep ==
    ASSUME TypeInv, PlaceInv, [Next]_vars, NEW i \in Instances, AnswersFor(i)
    PROVE  AnswersFor(i)'
<1>1. Awaited(i) \in Nat /\ Queued(i, Answers) \in Nat /\ Queued(i, {"INIT"}) \in Nat
  BY AwaitedType, QueuedType
<1>2. \A k \in 2 .. Len(events'[i]) : events'[i][k] # "INIT"
  BY InitStaysFirst DEF AnswersFor
<1>3. /\ waiting \in [Instances -> Int] /\ data \in [Instances -> {"none", "live"}]
      /\ waiting[i] \in Int
  BY DEF TypeInv, AlgoType
<1>4. i \in alive' => i \in alive
  BY RegisteredUnchanged DEF UserTerminated
<1>5. CASE cur = i /\ Handling
  <2>1. /\ pc = "visit" /\ done' = done + 1 /\ UNCHANGED <<events, cur, alive>>
        /\ i \in alive /\ done \in Nat /\ done < Len(events[i]) /\ Len(events[i]) \in Nat
    BY <1>5, HandlerEffect, CurIsInstance DEF Handling, PlaceInv
  <2>2. ~ Flushing(i)' \/ HandleTerm
    <3>1. ~ Flushing(i)
      BY <1>5, <2>1 DEF Flushing, Handling, HandleInit, HandleInitFails, HandleAnswer,
                        HandleAnswerWithoutData, HandleTerm, Take
    <3> QED
      BY <3>1, FlushingStep
  <2>3. Queued(i, {"INIT"})' = 0
    <3>1. Queued(i, {"INIT"})' = CountFrom(events[i], done + 2, {"INIT"})
      BY <1>5, <2>1 DEF Queued, Handled
    <3>2. events[i] \in Seq(EventTypes) /\ done + 2 \in Nat \ {0}
      BY <2>1 DEF TypeInv, EventType
    <3>3. \A k \in done + 2 .. Len(events[i]) : events[i][k] \notin {"INIT"}
      BY <2>1 DEF AnswersFor
    <3> QED
      BY <3>1, <3>2, <3>3, CountNone
  <2>4. CASE HandleInit
    <3>1. Queued(i, {"INIT"}) > 0
      <4>1. events[i][done + 1] \in {"INIT"}
        BY <1>5, <2>4, AwaitedHandled
      <4> QED
        BY <1>1, <1>5, <2>1, <2>3, <4>1, QueuedHandled
    <3>2. Awaited(i) = 0
      BY <3>1 DEF AnswersFor
    <3>3. Awaited(i)' = ProbesPerRound[i] /\ ProbesPerRound[i] \in Nat \ {0}
      BY <1>1, <1>5, <2>4, <3>2, AwaitedHandled, PtLoopAssumption
    <3>4. waiting'[i] = ProbesPerRound[i] /\ data'[i] = "live"
      BY <1>3, <1>5, <2>4 DEF HandleInit
    <3>5. ~ HandleTerm
      BY <2>4 DEF HandleInit, HandleTerm, Take
    <3> QED
      BY <1>2, <2>2, <2>3, <3>3, <3>4, <3>5 DEF AnswersFor
  <2>5. CASE HandleAnswer
    <3>1. /\ data[i] = "live" /\ data' = data
      BY <1>5, <2>5 DEF HandleAnswer
    <3>2. waiting[i] = Awaited(i) /\ Awaited(i) >= 1
      BY <1>5, <2>1, <2>5, <3>1, AwaitedHandled DEF AnswersFor
    <3>3. ProbesPerRound[i] \in Nat \ {0}
      BY PtLoopAssumption
    <3>4. \/ waiting'[i] = waiting[i] - 1 /\ UNCHANGED sendq
          \/ waiting'[i] = ProbesPerRound[i] /\ SendRound /\ waiting[i] = 1
          \/ waiting'[i] = 0 /\ UNCHANGED sendq /\ waiting[i] = 1
      BY <1>3, <1>5, <2>5 DEF HandleAnswer, LastOfRound
    <3>5. /\ SendRound => Awaited(i)' = Awaited(i) - 1 + ProbesPerRound[i]
          /\ UNCHANGED sendq => Awaited(i)' = Awaited(i) - 1
      BY <1>5, <2>5, AwaitedHandled
    <3>6. waiting'[i] = Awaited(i)' /\ waiting'[i] >= 0
      BY <1>1, <3>2, <3>3, <3>4, <3>5
    <3>7. ~ HandleTerm
      BY <2>5 DEF HandleAnswer, HandleTerm, Take, Answers
    <3> QED
      BY <1>2, <2>2, <2>3, <3>6, <3>7 DEF AnswersFor
  <2>6. CASE HandleInitFails
    <3>1. UNCHANGED <<waiting, data>>
      BY <2>6 DEF HandleInitFails, algoVars
    <3>2. Awaited(i)' = Awaited(i)
      BY <1>5, <2>6, AwaitedHandled
    <3>3. ~ HandleTerm
      BY <2>6 DEF HandleInitFails, HandleTerm, Take
    <3> QED
      BY <1>2, <1>4, <2>2, <2>3, <3>1, <3>2, <3>3 DEF AnswersFor
  <2>7. CASE HandleTerm
    <3>1. waiting' = waiting /\ data'[i] = "none"
      BY <1>3, <1>5, <2>7 DEF HandleTerm
    <3> QED
      BY <1>2, <2>3, <3>1 DEF AnswersFor
  <2>8. CASE HandleAnswerWithoutData
    <3>1. UNCHANGED <<waiting, data>> /\ data[i] = "none"
      BY <1>5, <2>8 DEF HandleAnswerWithoutData, algoVars
    <3> QED
      BY <1>2, <2>3, <3>1 DEF AnswersFor
  <2> QED
    BY <1>5, <2>4, <2>5, <2>6, <2>7, <2>8 DEF Handling
<1>6. CASE (cur = i /\ EndVisit) \/ Frees(i)
  <2>1. UNCHANGED <<waiting, data>>
    BY <1>6 DEF EndVisit, Frees, UserTerminated, TakeUser, algoVars
  <2>2. Queued(i, {"INIT"})' = 0 /\ Awaited(i)' = Awaited(i) - Queued(i, Answers) /\ events'[i] = << >>
    BY <1>6, AwaitedDropped
  <2>3. ~ Flushing(i)'
    <3>1. ~ Visiting'
      BY <1>6 DEF EndVisit, Frees, UserTerminated, TakeUser, Visiting
    <3> QED
      BY <3>1 DEF Flushing
  <2>4. CASE Frees(i)
    <3>1. i \notin alive'
      BY <2>4 DEF Frees, UserTerminated
    <3> QED
      BY <1>2, <2>1, <2>2, <2>3, <3>1 DEF AnswersFor
  <2>5. CASE cur = i /\ EndVisit
    <3>1. data[i] = "none" \/ Queued(i, Answers) = 0
      <4>1. pc = "visit" /\ (done = Len(events[i]) \/ (done > 0 /\ events[i][done] = "TERM"))
        BY <2>5 DEF EndVisit
      <4>2. CASE done = Len(events[i])
        <5>1. events[i] \in Seq(EventTypes) /\ done \in Nat /\ done + 1 \in Nat \ {0}
          BY <2>5, <4>1, CurIsInstance
        <5>2. \A k \in done + 1 .. Len(events[i]) : events[i][k] \notin Answers
          BY <4>2, <5>1
        <5> QED
          BY <2>5, <5>1, <5>2, CountNone DEF Queued, Handled
      <4>3. CASE done > 0 /\ events[i][done] = "TERM"
        BY <2>5, <4>1, <4>3 DEF AnswersFor, Flushing, Visiting
      <4> QED
        BY <4>1, <4>2, <4>3
    <3>2. data[i] = "live" => Awaited(i)' = Awaited(i)
      BY <1>1, <2>2, <3>1
    <3> QED
      BY <1>2, <1>4, <2>1, <2>2, <2>3, <3>2 DEF AnswersFor
  <2> QED
    BY <1>6, <2>4, <2>5
<1>7. CASE ~ (cur = i /\ Handling) /\ ~ (cur = i /\ EndVisit) /\ ~ Frees(i)
  <2>1. Awaited(i)' = Awaited(i) /\ Queued(i, {"INIT"})' = Queued(i, {"INIT"})
    BY <1>7, AwaitedElsewhere
  <2>2. waiting'[i] = waiting[i] /\ data'[i] = data[i]
    <3>1. CASE HandleInit \/ HandleAnswer \/ HandleTerm
      BY <1>3, <1>7, <3>1 DEF Handling, HandleInit, HandleAnswer, HandleTerm
    <3> QED
      BY <3>1, AlgoUnchanged
  <2>3. Flushing(i)' => Flushing(i)
    BY <1>7, FlushingStep DEF Handling
  <2> QED
    BY <1>2, <1>4, <2>1, <2>2, <2>3 DEF AnswersFor
<1> QED
  BY <1>5, <1>6, <1>7

LEMMA AnswerStep ==
    ASSUME TypeInv, PlaceInv, AnswerInv, [Next]_vars
    PROVE  AnswerInv'
  BY AnswersForStep DEF AnswerInv

LEMMA InitAwaits ==
    ASSUME Init, NEW i \in Instances
    PROVE  AnswersFor(i) /\ Awaited(i) = 0
<1>1. /\ events[i] = <<"INIT">> /\ Handled(i) = 0 /\ sendq = << >> /\ flying[i] = 0 /\ lost[i] = 0
      /\ data[i] = "none" /\ waiting[i] = 0 /\ pc = "top"
  BY NobodyAssumption DEF Init, Handled
<1>2. CountFrom(<<"INIT">>, 1, Answers) = 0
  <2>1. {k \in 1 .. Len(<<"INIT">>) : <<"INIT">>[k] \in Answers} = {}
    BY DEF Answers
  <2> QED
    BY <2>1, FS_EmptySet DEF CountFrom
<1>3. Count(<< >>, {i}) = 0
  <2>1. {k \in 1 .. Len(<< >>) : << >>[k] \in {i}} = {}
    BY EmptySeq
  <2> QED
    BY <2>1, FS_EmptySet DEF Count, CountFrom
<1>4. Awaited(i) = 0
  BY <1>1, <1>2, <1>3 DEF Awaited
<1>5. ~ Flushing(i) /\ \A k \in 2 .. Len(events[i]) : events[i][k] # "INIT"
  BY <1>1 DEF Flushing, Visiting
<1> QED
  BY <1>1, <1>4, <1>5 DEF AnswersFor

LEMMA Answered == Spec => [](TypeInv /\ PlaceInv /\ AnswerInv)
<1>1. Init => TypeInv /\ PlaceInv /\ AnswerInv
  BY InitTyped, InitAwaits DEF AnswerInv
<1>2. TypeInv /\ PlaceInv /\ AnswerInv /\ [Next]_vars => (TypeInv /\ PlaceInv /\ AnswerInv)'
  BY TypeStep, PlaceStep, AnswerStep
<1> QED
  BY <1>1, <1>2, PTL DEF Spec

(* Every instance that runs waits for exactly the answers that are still to   *)
(* come: those of the probes it has in sendq, in flight or lost, and those    *)
(* in its queue that it has not handled.                                      *)
THEOREM NoAnswerIsLost == Spec => []AnswersAccounted
<1>1. TypeInv /\ PlaceInv /\ AnswerInv => AnswersAccounted
  <2>1. TypeInv => alive \subseteq Instances
    BY DEF TypeInv, WalkType
  <2> QED
    BY <2>1 DEF AnswerInv, AnswersFor, AnswersAccounted
<1> QED
  BY <1>1, Answered, PTL

(* The types of the state of the loop; no instance waits for a negative       *)
(* number of answers, and no counter of the eventfds gets below zero.         *)
THEOREM LoopIsTyped == Spec => []TypeOK
<1>1. TypeInv /\ PlaceInv /\ AnswerInv => TypeOK
  <2>1. SUFFICES ASSUME TypeInv, AnswerInv PROVE TypeOK
    OBVIOUS
  <2>2. /\ pc \in Places \cup Faults
        /\ status \in {"CONTINUE", "TERMINATE", "INTERRUPTED"}
        /\ batch \in SUBSET Fds
        /\ signals \in 0 .. MaxSignals
    <3>1. MaxSignals \in Nat
      BY PtLoopAssumption
    <3>2. LoopType
      BY <2>1 DEF TypeInv
    <3> QED
      BY <3>1, <3>2 DEF LoopType
  <2>3. {late, expired, signal, timeUp} \subseteq BOOLEAN
    BY <2>1 DEF TypeInv, LoopType, NetType
  <2>4. /\ registered \subseteq Instances /\ alive \subseteq Instances
        /\ visits \subseteq Instances /\ cur \in Instances \cup {Nobody}
        /\ algfd \in Nat /\ userfd \in Nat /\ done \in Nat
        /\ events \in [Instances -> Seq(EventTypes)]
        /\ userq \in Seq([type : UserTypes, issuer : Instances])
    BY <2>1 DEF TypeInv, WalkType, EventType, UserType
  <2>5. waiting \in [Instances -> Nat]
    <3>1. waiting \in [Instances -> Int]
      BY <2>1 DEF TypeInv, AlgoType
    <3>2. \A i \in Instances : waiting[i] >= 0
      BY <2>1 DEF AnswerInv, AnswersFor
    <3>3. \A i \in Instances : waiting[i] \in Nat
      BY <3>1, <3>2
    <3> QED
      BY <3>1, <3>3
  <2>6. {waiting, rounds, flying, lost} \subseteq [Instances -> Nat]
    BY <2>1, <2>5 DEF TypeInv, AlgoType, NetType
  <2>7. /\ data \in [Instances -> {"none", "live"}]
        /\ sendq \in Seq(Instances) /\ recvq \in Seq(Instances)
    BY <2>1 DEF TypeInv, AlgoType, NetType
  <2> QED
    BY <2>2, <2>3, <2>4, <2>6, <2>7 DEF TypeOK
<1> QED
  BY <1>1, Answered, PTL

-----------------------------------------------------------------------------
(* No undefined behaviour before TERM is thrown *)

SignalInv == signal => signals > 0

(* The calm ends with a TERM, and does not come back. *)
LEMMA StaysCalm ==
    ASSUME TypeInv, PlaceInv, SignalInv, [Next]_vars
    PROVE  /\ SignalInv'
           /\ Calm' => Calm /\ ~ ReadSignal /\ ~ TimeExpires
<1>1. signals \in Nat /\ signal \in BOOLEAN /\ late \in BOOLEAN
  BY DEF TypeInv, LoopType
<1>2. CASE ReadSignal
  <2>1. signal /\ signals > 0
    BY <1>2 DEF ReadSignal, PlaceInv, SignalInv
  <2>2. ~ signal' /\ signals' = signals
    BY <1>2 DEF ReadSignal
  <2> QED
    BY <1>1, <2>1, <2>2 DEF SignalInv, Calm
<1>3. CASE Interrupt
  <2>1. ~ signal /\ signal' = TRUE /\ signals' = signals + 1 /\ late' = late
    BY <1>3 DEF Interrupt
  <2>2. ~ ReadSignal /\ ~ TimeExpires
    BY <2>1 DEF ReadSignal, TimeExpires
  <2> QED
    BY <1>1, <2>1, <2>2 DEF SignalInv, Calm
<1>4. CASE UNCHANGED <<signal, signals>> /\ ~ ReadSignal
  <2>1. late' = TRUE \/ late' = late
    BY LateUnchanged DEF TimePasses
  <2>2. TimeExpires => late /\ late' = late
    BY DEF TimeExpires
  <2> QED
    BY <1>1, <1>4, <2>1, <2>2 DEF SignalInv, Calm
<1> QED
  BY <1>2, <1>3, <1>4, SignalUnchanged

(* What comes into the user queue is from the instance being processed, and
   HAS_TERMINATED is the last of it. *)
LEMMA ToUserStep ==
    ASSUME TypeInv, PlaceInv, [Next]_vars, NEW k \in ToUser'
    PROVE  \/ k \in ToUser /\ userq'[k] = userq[k]
           \/ /\ Handling /\ userq'[k].issuer = cur
              /\ \A j \in ToUser : j < k
              /\ userq'[k].type = "HAS_TERMINATED" =>
                   /\ \A j \in ToUser' : j <= k
                   /\ HandleTerm \/ (HandleAnswer /\ waiting'[cur] = 0)
<1>1. /\ userq \in Seq([type : UserTypes, issuer : Instances])
      /\ Len(userq) \in Nat /\ done \in Nat
  BY LenProperties DEF TypeInv, UserType, WalkType
<1>2. CASE HandleInit \/ HandleInitFails \/ HandleAnswer \/ HandleTerm
  <2>1. cur \in Instances /\ ~ InUsers /\ ~ InUsers'
    BY <1>2, HandlerEffect, CurIsInstance DEF InUsers
  <2>2. PICK types \in Seq(UserTypes) :
          /\ Raise(cur, types)
          /\ \A j \in 1 .. Len(types) : types[j] = "HAS_TERMINATED" =>
               j = Len(types) /\ (HandleTerm \/ (HandleAnswer /\ waiting'[cur] = 0))
    <3>1. CASE HandleInit
      <4> DEFINE t == <<"FORWARDED">>
      <4>1. Raise(cur, t)
        BY <3>1 DEF HandleInit
      <4>2. t \in Seq(UserTypes) /\ \A j \in 1 .. Len(t) : t[j] # "HAS_TERMINATED"
        BY DEF UserTypes
      <4> HIDE DEF t
      <4> QED
        BY <3>1, <4>1, <4>2
    <3>2. CASE HandleInitFails
      <4> DEFINE t == <<"ERROR">>
      <4>1. Raise(cur, t)
        BY <3>2 DEF HandleInitFails
      <4>2. t \in Seq(UserTypes) /\ \A j \in 1 .. Len(t) : t[j] # "HAS_TERMINATED"
        BY DEF UserTypes
      <4> HIDE DEF t
      <4> QED
        BY <3>2, <4>1, <4>2
    <3>3. CASE HandleTerm
      <4> DEFINE t == <<"HAS_TERMINATED">>
      <4>1. Raise(cur, t)
        BY <3>3 DEF HandleTerm
      <4>2. t \in Seq(UserTypes) /\ \A j \in 1 .. Len(t) : t[j] = "HAS_TERMINATED" => j = Len(t)
        BY DEF UserTypes
      <4> HIDE DEF t
      <4> QED
        BY <3>3, <4>1, <4>2
    <3>4. CASE HandleAnswer
      <4> DEFINE t == <<"EVENT", "FORWARDED">>
                 u == <<"EVENT", "FORWARDED", "EVENT", "HAS_TERMINATED">>
      <4>1. Raise(cur, t) \/ (Raise(cur, u) /\ waiting' = [waiting EXCEPT ![cur] = 0])
        BY <3>4 DEF HandleAnswer
      <4>2. t \in Seq(UserTypes) /\ \A j \in 1 .. Len(t) : t[j] # "HAS_TERMINATED"
        BY DEF UserTypes
      <4>3. u \in Seq(UserTypes) /\ \A j \in 1 .. Len(u) : u[j] = "HAS_TERMINATED" => j = Len(u)
        BY DEF UserTypes
      <4>4. waiting' = [waiting EXCEPT ![cur] = 0] => waiting'[cur] = 0
        BY <2>1 DEF TypeInv, AlgoType
      <4> HIDE DEF t, u
      <4> QED
        BY <3>4, <4>1, <4>2, <4>3, <4>4
    <3> QED
      BY <1>2, <3>1, <3>2, <3>3, <3>4
  <2>3. /\ Len(userq') = Len(userq) + Len(types)
        /\ \A j \in 1 .. Len(userq) : userq'[j] = userq[j]
        /\ \A j \in Len(userq) + 1 .. Len(userq') :
             userq'[j] = [type |-> types[j - Len(userq)], issuer |-> cur]
    BY <2>1, <2>2, RaiseEffect DEF TypeInv
  <2>4. Len(types) \in Nat
    BY LenProperties
  <2>5. ToUser = 1 .. Len(userq) /\ ToUser' = 1 .. Len(userq')
    BY <2>1 DEF ToUser
  <2>6. CASE k <= Len(userq)
    BY <1>1, <2>3, <2>4, <2>5, <2>6
  <2>7. CASE k > Len(userq)
    <3>1. k \in Len(userq) + 1 .. Len(userq') /\ k - Len(userq) \in 1 .. Len(types)
      BY <1>1, <2>3, <2>4, <2>5, <2>7
    <3>2. userq'[k].issuer = cur /\ userq'[k].type = types[k - Len(userq)]
      <4>1. userq'[k] = [type |-> types[k - Len(userq)], issuer |-> cur]
        BY <2>3, <3>1
      <4> QED
        BY <4>1
    <3>3. userq'[k].type = "HAS_TERMINATED" =>
            k = Len(userq') /\ (HandleTerm \/ (HandleAnswer /\ waiting'[cur] = 0))
      <4> SUFFICES ASSUME userq'[k].type = "HAS_TERMINATED"
                   PROVE  k = Len(userq') /\ (HandleTerm \/ (HandleAnswer /\ waiting'[cur] = 0))
        OBVIOUS
      <4>1. k - Len(userq) = Len(types) /\ (HandleTerm \/ (HandleAnswer /\ waiting'[cur] = 0))
        BY <2>2, <3>1, <3>2
      <4> QED
        BY <1>1, <2>3, <2>4, <3>1, <4>1
    <3>4. \A j \in ToUser : j < k
      BY <1>1, <2>5, <2>7, <3>1
    <3>5. k = Len(userq') => \A j \in ToUser' : j <= k
      BY <1>1, <2>3, <2>4, <2>5
    <3> QED
      BY <1>2, <3>2, <3>3, <3>4, <3>5 DEF Handling
  <2> QED
    BY <1>1, <2>5, <2>6, <2>7, <2>3, <2>4
<1>3. CASE EndUsers
  BY <1>3, EmptySeq DEF EndUsers, ToUser
<1>4. CASE UserIgnores \/ UserFaults \/ UserEvent \/ UserTerminated
  <2>1. userq' = userq /\ done' = done + 1 /\ InUsers /\ InUsers'
    BY <1>4, UserHandlerEffect DEF InUsers
  <2> QED
    BY <1>1, <2>1 DEF ToUser
<1>5. CASE UNCHANGED <<userq, userfd>> /\ ~ EndUsers
           /\ ~ (UserIgnores \/ UserFaults \/ UserEvent \/ UserTerminated)
  <2>1. CASE StartUsers
    <3>1. ~ InUsers
      BY <2>1 DEF StartUsers, Dispatch, InUsers
    <3> QED
      BY <1>5, <3>1 DEF ToUser
  <2>2. CASE InUsers /\ InUsers'
    <3>1. done' = done
      BY <1>5, <2>2, UsersAlone
    <3> QED
      BY <1>5, <2>2, <3>1 DEF ToUser
  <2>3. CASE ~ InUsers
    BY <1>5, <2>3 DEF ToUser
  <2>4. CASE InUsers /\ ~ InUsers'
    BY <1>5, <2>4, Moves, HandlerEffect
       DEF InUsers, StartWalk, Visit, EndVisit, EndWalk, StartUsers, Dispatch
  <2> QED
    BY <2>1, <2>2, <2>3, <2>4
<1> QED
  BY <1>2, <1>3, <1>4, <1>5, UserUnchanged

(* How the run gets to undefined behaviour. *)
LEMMA FaultStep ==
    ASSUME TypeInv, PlaceInv, [Next]_vars, pc \notin Faults, pc' \in Faults
    PROVE  \/ \E i \in Instances : i \notin alive /\ flying[i] > 0
           \/ HandleAnswerWithoutData
           \/ UserFaults
<1>1. CASE ProcessRecvq \/ DropExpired
  <2>1. ~ UNCHANGED pc
    OBVIOUS
  <2>2. PICK type \in Answers : \E n \in [Instances -> Nat] :
          Answer(type, n) /\ \A i \in Instances : n[i] <= flying[i]
    BY <1>1, <2>1, AnswerSteps
  <2>3. PICK n \in [Instances -> Nat] : Answer(type, n) /\ \A i \in Instances : n[i] <= flying[i]
    BY <2>2
  <2>4. ~ ({i \in Instances : n[i] > 0} \subseteq alive)
    BY <2>1, <2>3, AnswerIsThrown
  <2>5. PICK i \in Instances : n[i] > 0 /\ i \notin alive
    BY <2>4
  <2>6. flying[i] > 0
    BY <2>3, <2>5 DEF TypeInv, NetType
  <2> QED
    BY <2>5, <2>6
<1>2. CASE TimeExpires \/ TimeNotExpired \/ EpollWait \/ NextTurn \/ (\E fd \in Fds : Skip(fd))
  BY <1>2 DEF TimeExpires, TimeNotExpired, EpollWait, NextTurn, Skip, Faults
<1>3. CASE ReadSignal \/ ProcessSendq \/ StartWalk \/ StartUsers
  BY <1>3 DEF ReadSignal, ProcessSendq, StartWalk, StartUsers, Faults
<1>4. CASE (\E i \in Instances : Visit(i)) \/ EndVisit \/ EndWalk \/ EndUsers
  BY <1>4 DEF Visit, EndVisit, EndWalk, EndUsers, Faults
<1>5. CASE HandleInit \/ HandleInitFails \/ HandleAnswer \/ HandleTerm
  BY <1>5 DEF HandleInit, HandleInitFails, HandleAnswer, HandleTerm
<1>6. CASE UserIgnores \/ UserEvent \/ UserTerminated
  BY <1>6 DEF UserIgnores, UserEvent, UserTerminated
<1>7. CASE TimePasses \/ Interrupt \/ TimerExpires \/ UNCHANGED vars
  BY <1>7 DEF TimePasses, Interrupt, TimerExpires, vars
<1>8. CASE \E i \in Instances : ReplyArrives(i)
  BY <1>8 DEF ReplyArrives
<1> QED
  BY <1>1, <1>2, <1>3, <1>4, <1>5, <1>6, <1>7, <1>8, StepCases

LEMMA NoFaultStep ==
    ASSUME TypeInv, PlaceInv, CalmInv, [Next]_vars
    PROVE  pc' \notin Faults
<1>1. SUFFICES ASSUME pc' \in Faults PROVE FALSE
  OBVIOUS
<1>2. pc \notin Faults /\ \A i \in Instances : CalmFor(i)
  BY DEF CalmInv
<1>3. CASE \E i \in Instances : i \notin alive /\ flying[i] > 0
  <2>1. PICK i \in Instances : i \notin alive /\ flying[i] > 0
    BY <1>3
  <2>2. Awaited(i) = 0
    BY <1>2, <2>1 DEF CalmFor
  <2> QED
    BY <2>1, <2>2, NothingAwaited
<1>4. CASE HandleAnswerWithoutData
  <2>1. cur \in Instances /\ cur \in alive /\ data[cur] = "none"
    BY <1>4, CurIsInstance DEF HandleAnswerWithoutData, Take, PlaceInv
  <2>2. Awaited(cur) >= 1
    BY <1>4, <2>1, AwaitedHandled DEF Handling
  <2>3. Awaited(cur) = 0
    BY <1>2, <2>1 DEF CalmFor
  <2> QED
    BY <2>2, <2>3
<1>5. CASE UserFaults
  <2>1. /\ pc = "users" /\ done < Len(userq) /\ userq[done + 1].issuer \notin alive
        /\ done \in Nat /\ userq \in Seq([type : UserTypes, issuer : Instances])
    BY <1>5 DEF UserFaults, TakeUser, TypeInv, WalkType, UserType
  <2>2. Len(userq) \in Nat
    BY <2>1, LenProperties
  <2>3. done + 1 \in 1 .. Len(userq)
    BY <2>1, <2>2
  <2>4. done + 1 \in ToUser
    BY <2>1, <2>3 DEF ToUser
  <2>5. userq[done + 1] \in [type : UserTypes, issuer : Instances]
    BY <2>1, <2>3, ElementOfSeq
  <2> DEFINE i == userq[done + 1].issuer
  <2>6. i \in Instances /\ i \notin alive
    BY <2>1, <2>5
  <2>7. \A k \in ToUser : userq[k].issuer # i
    BY <1>2, <2>6 DEF CalmFor
  <2> QED
    BY <2>4, <2>7
<1> QED
  BY <1>1, <1>2, <1>3, <1>4, <1>5, FaultStep

LEMMA CalmForStep ==
    ASSUME TypeInv, PlaceInv, AnswerInv, CalmInv, [Next]_vars, NEW i \in Instances
    PROVE  CalmFor(i)'
<1>1. /\ AnswersFor(i) /\ CalmFor(i) /\ pc \notin Faults /\ NoTerm
  BY DEF AnswerInv, CalmInv
<1>2. Awaited(i) \in Nat /\ Queued(i, Answers) \in Nat
  BY AwaitedType
<1>3. ~ HandleTerm /\ ~ HandleAnswerWithoutData
  <2>1. ASSUME HandleTerm PROVE FALSE
    <3>1. /\ cur \in Instances /\ done < Len(events[cur]) /\ done \in Nat /\ Len(events[cur]) \in Nat
          /\ events[cur][done + 1] = "TERM"
      BY <2>1, CurIsInstance DEF HandleTerm, Take
    <3> QED
      BY <1>1, <3>1 DEF NoTerm
  <2>2. ASSUME HandleAnswerWithoutData PROVE FALSE
    <3>1. pc' \in Faults
      BY <2>2 DEF HandleAnswerWithoutData, Faults
    <3> QED
      BY <3>1, NoFaultStep
  <2> QED
    BY <2>1, <2>2
<1>4. /\ waiting \in [Instances -> Int] /\ data \in [Instances -> {"none", "live"}]
  BY DEF TypeInv, AlgoType
<1>5. CASE cur = i /\ Handling
  <2>1. /\ pc = "visit" /\ UNCHANGED <<cur, alive>> /\ i \in alive
    BY <1>5, HandlerEffect, CurIsInstance DEF Handling, PlaceInv
  <2>2. \A k \in ToUser : ~ ToldEnd(i, k)
    <3>1. SUFFICES ASSUME NEW k \in ToUser, ToldEnd(i, k) PROVE FALSE
      OBVIOUS
    <3>2. waiting[i] = 0 /\ data[i] = "live" /\ Awaited(i) = 0
      BY <1>1, <2>1, <3>1 DEF CalmFor, AnswersFor
    <3>3. HandleInit \/ HandleInitFails
      BY <1>2, <1>3, <1>5, <3>2, AwaitedHandled DEF Handling
    <3>4. Queued(i, {"INIT"}) > 0
      <4>1. pc = "visit" /\ done < Len(events[cur]) /\ done' = done + 1 /\ UNCHANGED <<events, cur>>
        BY <1>5, HandlerEffect DEF Handling
      <4>2. events[i][done + 1] \in {"INIT"}
        BY <1>5, <3>3, AwaitedHandled
      <4>3. Queued(i, {"INIT"})' \in Nat
        BY AwaitedTypeStep
      <4> QED
        BY <1>5, <4>1, <4>2, <4>3, QueuedHandled
    <3> QED
      BY <1>1, <3>2, <3>4 DEF AnswersFor
  <2>3. data'[i] = "none" => Awaited(i)' = 0
    <3>1. CASE HandleInit
      BY <1>4, <1>5, <3>1 DEF HandleInit
    <3>2. CASE HandleInitFails
      <4>1. data' = data
        BY <3>2 DEF HandleInitFails, algoVars
      <4> QED
        BY <1>1, <1>5, <2>1, <3>2, <4>1, AwaitedHandled DEF CalmFor
    <3>3. CASE HandleAnswer
      BY <1>4, <1>5, <3>3 DEF HandleAnswer
    <3> QED
      BY <1>3, <1>5, <3>1, <3>2, <3>3 DEF Handling
  <2>4. ASSUME NEW k \in ToUser', ToldEnd(i, k)'
        PROVE  /\ waiting'[i] = 0 /\ data'[i] = "live"
               /\ \A j \in ToUser' : j > k => userq'[j].issuer # i
    <3>1. userq'[k].type = "HAS_TERMINATED" /\ userq'[k].issuer = i
      BY <2>4 DEF ToldEnd
    <3>2. ~ (k \in ToUser /\ userq'[k] = userq[k])
      BY <2>2, <3>1 DEF ToldEnd
    <3>3. (\A j \in ToUser' : j <= k) /\ HandleAnswer /\ waiting'[cur] = 0
      BY <1>3, <3>1, <3>2, ToUserStep
    <3>4. data'[i] = "live"
      BY <1>5, <3>3 DEF HandleAnswer
    <3>5. \A j \in ToUser' : ~ (j > k)
      <4>1. ToUser' \subseteq Nat
        <5>1. Len(userq') \in Nat
          BY UserTypeStep, LenProperties DEF UserType
        <5> QED
          BY <5>1 DEF ToUser
      <4> QED
        BY <3>3, <4>1
    <3> QED
      BY <1>5, <3>3, <3>4, <3>5
  <2> QED
    BY <2>1, <2>3, <2>4 DEF CalmFor
<1>6. CASE ~ (cur = i /\ Handling)
  <2>1. waiting'[i] = waiting[i] /\ data'[i] = data[i]
    <3>1. CASE HandleInit \/ HandleAnswer \/ HandleTerm
      BY <1>4, <1>6, <3>1 DEF Handling, HandleInit, HandleAnswer, HandleTerm
    <3> QED
      BY <3>1, AlgoUnchanged
  <2>2. \A k \in ToUser' : userq'[k].issuer = i => k \in ToUser /\ userq'[k] = userq[k]
    BY <1>6, ToUserStep
  <2>3. \A k \in ToUser' : ToldEnd(i, k)' =>
          /\ waiting'[i] = 0 /\ data'[i] = "live"
          /\ \A j \in ToUser' : j > k => userq'[j].issuer # i
    BY <1>1, <2>1, <2>2 DEF CalmFor, ToldEnd
  <2>4. Awaited(i) = 0 => Awaited(i)' = 0
    <3>1. CASE (cur = i /\ EndVisit) \/ Frees(i)
      <4>1. Awaited(i)' = Awaited(i) - Queued(i, Answers)
        BY <3>1, AwaitedDropped
      <4> QED
        BY <4>1, NothingAwaited
    <3>2. CASE ~ ((cur = i /\ EndVisit) \/ Frees(i))
      BY <1>6, <3>2, AwaitedElsewhere
    <3> QED
      BY <3>1, <3>2
  <2>5. CASE Frees(i)
    <3>1. /\ pc = "users" /\ done < Len(userq) /\ done \in Nat /\ done' = done + 1
          /\ userq[done + 1].type = "HAS_TERMINATED" /\ userq[done + 1].issuer = i
          /\ userq' = userq /\ pc' = "users" /\ i \in alive /\ i \notin alive'
      BY <2>5 DEF Frees, UserTerminated, TakeUser, TypeInv, WalkType
    <3>2. Len(userq) \in Nat
      BY LenProperties DEF TypeInv, UserType
    <3>3. done + 1 \in ToUser
      BY <3>1, <3>2 DEF ToUser
    <3>4. ToldEnd(i, done + 1)
      BY <3>1 DEF ToldEnd
    <3>5. /\ waiting[i] = 0 /\ data[i] = "live"
          /\ \A j \in ToUser : j > done + 1 => userq[j].issuer # i
      BY <1>1, <3>3, <3>4 DEF CalmFor
    <3>6. Awaited(i) = 0
      BY <1>1, <3>1, <3>5 DEF AnswersFor
    <3>7. \A k \in ToUser' : k > done + 1 /\ k \in ToUser
      BY <3>1, <3>2 DEF ToUser, InUsers
    <3>8. \A k \in ToUser' : userq'[k].issuer # i
      BY <3>1, <3>5, <3>7
    <3> QED
      BY <2>3, <2>4, <3>1, <3>6, <3>8 DEF CalmFor
  <2>6. CASE ~ Frees(i)
    <3>1. i \in alive' <=> i \in alive
      BY <2>6, RegisteredUnchanged DEF Frees, UserTerminated
    <3>2. i \notin alive => \A k \in ToUser' : userq'[k].issuer # i
      BY <1>1, <2>2 DEF CalmFor
    <3> QED
      BY <1>1, <2>1, <2>3, <2>4, <3>1, <3>2 DEF CalmFor
  <2> QED
    BY <2>5, <2>6
<1> QED
  BY <1>5, <1>6

LEMMA CalmStep ==
    ASSUME TypeInv, PlaceInv, AnswerInv, SignalInv, Calm => CalmInv, [Next]_vars
    PROVE  (Calm => CalmInv)'
<1>1. SUFFICES ASSUME Calm' PROVE CalmInv'
  OBVIOUS
<1>2. CalmInv /\ ~ ReadSignal /\ ~ TimeExpires
  BY <1>1, StaysCalm
<1>3. NoTerm'
  BY <1>2, NoTermStep DEF CalmInv
<1>4. pc' \notin Faults
  BY <1>2, NoFaultStep
<1>5. \A i \in Instances : CalmFor(i)'
  BY <1>2, CalmForStep
<1> QED
  BY <1>3, <1>4, <1>5 DEF CalmInv

LEMMA InitCalm ==
    ASSUME Init
    PROVE  SignalInv /\ CalmInv
<1>1. NoTerm
  BY DEF Init, NoTerm
<1>2. pc = "top" /\ userq = << >> /\ signal = FALSE
  BY DEF Init
<1>3. ToUser = {}
  BY <1>2, EmptySeq DEF ToUser
<1>4. \A i \in Instances : CalmFor(i)
  BY <1>3, InitAwaits DEF CalmFor
<1> QED
  BY <1>1, <1>2, <1>4 DEF SignalInv, CalmInv, Faults

(* As long as neither a signal nor the end of the time makes an instance       *)
(* terminate, there is no undefined behaviour: no event of a freed instance    *)
(* is left for the user, no probe of it in flight, and no answer is handled    *)
(* by an instance without data.                                                *)
THEOREM CalmHasNoFault == Spec => []NoFault
<1> DEFINE Inv == TypeInv /\ PlaceInv /\ AnswerInv /\ SignalInv /\ (Calm => CalmInv)
<1>1. Init => Inv
  BY InitTyped, InitAwaits, InitCalm DEF AnswerInv
<1>2. Inv /\ [Next]_vars => Inv'
  BY TypeStep, PlaceStep, AnswerStep, StaysCalm, CalmStep
<1>3. Inv => NoFault
  <2>1. ASSUME Inv, signals = 0, ~ late PROVE pc \notin Faults
    <3>1. signal = FALSE
      BY <2>1 DEF SignalInv, TypeInv, LoopType
    <3>2. Calm
      BY <2>1, <3>1 DEF Calm
    <3> QED
      BY <2>1, <3>2 DEF CalmInv
  <2> QED
    BY <2>1 DEF NoFault
<1> QED
  BY <1>1, <1>2, <1>3, PTL DEF Spec

-----------------------------------------------------------------------------
(* No answer is handled after the TERM of a signal *)

LEMMA UsersEnd ==
    ASSUME [Next]_vars, InUsers, ~ InUsers'
    PROVE  EndUsers
<1>1. pc \in {"users", "freed issuer"} /\ pc' # pc
  BY DEF InUsers
<1>2. ~ StartWalk /\ ~ (\E i \in Instances : Visit(i)) /\ ~ EndVisit /\ ~ EndWalk /\ ~ StartUsers
  BY <1>1 DEF StartWalk, Visit, EndVisit, EndWalk, StartUsers, Dispatch
<1>3. ~ HandleAnswerWithoutData
  BY <1>1, HandlerEffect
<1>4. ~ UserFaults
  BY UserHandlerEffect DEF InUsers
<1> QED
  BY <1>1, <1>2, <1>3, <1>4, Moves

(* HAS_TERMINATED waits until the user handler frees the instance. *)
LEMMA ToldEndStays ==
    ASSUME TypeInv, PlaceInv, [Next]_vars, NEW i \in Instances, i \in alive',
           NEW k \in ToUser, ToldEnd(i, k)
    PROVE  k \in ToUser' /\ ToldEnd(i, k)' /\ ~ EndUsers
<1>1. /\ userq \in Seq([type : UserTypes, issuer : Instances])
      /\ Len(userq) \in Nat /\ done \in Nat /\ k \in 1 .. Len(userq)
      /\ userq[k].type = "HAS_TERMINATED" /\ userq[k].issuer = i
  BY LenProperties DEF TypeInv, UserType, WalkType, ToUser, ToldEnd
<1>2. ~ EndUsers
  <2>1. SUFFICES ASSUME pc = "users", done = Len(userq) PROVE FALSE
    BY DEF EndUsers
  <2>2. k > done
    BY <2>1 DEF ToUser, InUsers
  <2> QED
    BY <1>1, <2>1, <2>2
<1>3. CASE HandleInit \/ HandleInitFails \/ HandleAnswer \/ HandleTerm
  <2>1. cur \in Instances /\ ~ InUsers'
    BY <1>3, HandlerEffect, CurIsInstance DEF InUsers
  <2>2. PICK types \in Seq(UserTypes) : Raise(cur, types)
    <3>1. /\ <<"FORWARDED">> \in Seq(UserTypes) /\ <<"ERROR">> \in Seq(UserTypes)
          /\ <<"EVENT", "FORWARDED">> \in Seq(UserTypes)
          /\ <<"EVENT", "FORWARDED", "EVENT", "HAS_TERMINATED">> \in Seq(UserTypes)
          /\ <<"HAS_TERMINATED">> \in Seq(UserTypes)
      BY DEF UserTypes
    <3> QED
      BY <1>3, <3>1 DEF HandleInit, HandleInitFails, HandleAnswer, HandleTerm
  <2>3. Len(userq') = Len(userq) + Len(types) /\ userq'[k] = userq[k]
    BY <1>1, <2>1, <2>2, RaiseEffect DEF TypeInv
  <2>4. Len(types) \in Nat
    BY LenProperties
  <2>5. k \in 1 .. Len(userq')
    BY <1>1, <2>3, <2>4
  <2> QED
    BY <1>1, <1>2, <2>1, <2>3, <2>5 DEF ToUser, ToldEnd
<1>4. CASE UserIgnores \/ UserFaults \/ UserEvent \/ UserTerminated
  <2>1. userq' = userq /\ done' = done + 1 /\ InUsers /\ InUsers'
    BY <1>4, UserHandlerEffect DEF InUsers
  <2>2. k # done + 1
    <3>1. SUFFICES ASSUME k = done + 1 PROVE FALSE
      OBVIOUS
    <3>2. ~ UserIgnores /\ ~ UserEvent
      BY <1>1, <3>1 DEF UserIgnores, UserEvent, TakeUser
    <3>3. ~ UserFaults
      BY <1>1, <3>1 DEF UserFaults, instVars
    <3>4. ~ UserTerminated
      BY <1>1, <3>1 DEF UserTerminated
    <3> QED
      BY <1>4, <3>2, <3>3, <3>4
  <2>3. k > done
    BY <2>1 DEF ToUser
  <2> QED
    BY <1>1, <1>2, <2>1, <2>2, <2>3 DEF ToUser, ToldEnd
<1>5. CASE UNCHANGED <<userq, userfd>> /\ ~ EndUsers
           /\ ~ (UserIgnores \/ UserFaults \/ UserEvent \/ UserTerminated)
  <2>1. CASE StartUsers
    <3>1. done' = 0
      BY <2>1 DEF StartUsers
    <3> QED
      BY <1>1, <1>2, <1>5, <3>1 DEF ToUser, ToldEnd
  <2>2. CASE InUsers /\ InUsers'
    <3>1. done' = done
      BY <1>5, <2>2, UsersAlone
    <3> QED
      BY <1>1, <1>2, <1>5, <2>2, <3>1 DEF ToUser, ToldEnd
  <2>3. CASE ~ InUsers'
    BY <1>1, <1>2, <1>5, <2>3 DEF ToUser, ToldEnd
  <2>4. CASE ~ InUsers /\ InUsers' /\ ~ StartUsers
    BY <1>5, <2>4, Moves, HandlerEffect
       DEF InUsers, StartWalk, Visit, EndVisit, EndWalk, EndUsers
  <2> QED
    BY <2>1, <2>2, <2>3, <2>4
<1> QED
  BY <1>2, <1>3, <1>4, <1>5, UserUnchanged

(* Once the walk of the last turn is over, there is no other. *)
LEMMA LastTurnStays ==
    ASSUME [Next]_vars, LastTurn, ~ ReadSignal
    PROVE  /\ LastTurn'
           /\ pc \notin {"walk", "visit"} => pc' \notin {"walk", "visit"}
<1>1. status = "TERMINATE" /\ "algorithm" \notin batch /\ pc \notin {"top", "wait"}
  BY DEF LastTurn
<1>2. status' = "TERMINATE"
  BY <1>1, StatusUnchanged DEF UserTerminated
<1>3. "algorithm" \notin batch'
  BY <1>1, BatchShrinks DEF EpollWait
<1>4. ~ StartWalk /\ ~ TimeExpires /\ ~ TimeNotExpired /\ ~ EpollWait
  BY <1>1 DEF StartWalk, Dispatch, TimeExpires, TimeNotExpired, EpollWait
<1>5. pc' \notin {"top", "wait"}
  <2>1. CASE NextTurn \/ (\E fd \in Fds : Skip(fd)) \/ ProcessSendq
    BY <1>1, <2>1 DEF NextTurn, Skip, ProcessSendq
  <2>2. CASE ProcessRecvq \/ DropExpired
    BY <1>1, <2>2 DEF ProcessRecvq, DropExpired, Answer
  <2>3. CASE (\E i \in Instances : Visit(i)) \/ EndVisit \/ EndWalk \/ StartUsers \/ EndUsers
    BY <2>3 DEF Visit, EndVisit, EndWalk, StartUsers, EndUsers
  <2>4. CASE Handling
    BY <2>4, HandlerEffect DEF Handling
  <2>5. CASE UserIgnores \/ UserFaults \/ UserEvent \/ UserTerminated
    BY <2>5, UserHandlerEffect
  <2>6. CASE TimePasses \/ Interrupt \/ TimerExpires \/ UNCHANGED vars
    BY <1>1, <2>6 DEF TimePasses, Interrupt, TimerExpires, vars
  <2>7. CASE \E i \in Instances : ReplyArrives(i)
    BY <1>1, <2>7 DEF ReplyArrives
  <2> QED
    BY <1>4, <2>1, <2>2, <2>3, <2>4, <2>5, <2>6, <2>7, StepCases DEF Handling
<1>6. pc \notin {"walk", "visit"} => pc' \notin {"walk", "visit"}
  BY <1>4, Moves, HandlerEffect
     DEF Visit, EndVisit, EndWalk, StartUsers, EndUsers, UserFaults
<1> QED
  BY <1>2, <1>3, <1>5, <1>6 DEF LastTurn

LEMMA FlushingStays ==
    ASSUME TypeInv, PlaceInv, [Next]_vars, NEW i \in Instances,
           Flushing(i), pc # "null data", ~ EndVisit
    PROVE  Flushing(i)' /\ ~ Handling
<1>1. pc = "visit" /\ cur = i /\ done > 0 /\ events[i][done] = "TERM"
  BY DEF Flushing, Visiting
<1>2. ~ Handling
  BY <1>1 DEF Handling, HandleInit, HandleInitFails, HandleAnswer, HandleAnswerWithoutData,
              HandleTerm, Take
<1>3. ~ StartWalk /\ ~ (\E j \in Instances : Visit(j)) /\ ~ EndWalk /\ ~ StartUsers /\ ~ EndUsers
  BY <1>1 DEF StartWalk, Visit, EndWalk, StartUsers, EndUsers, Dispatch
<1>4. ~ UserFaults
  BY <1>1, UserHandlerEffect
<1>5. pc' = pc
  BY <1>1, <1>2, <1>3, <1>4, Moves DEF Handling
<1>6. UNCHANGED <<events, cur, done>>
  BY <1>1, <1>2, <1>5, VisitsAlone DEF Handling, Visiting
<1> QED
  BY <1>1, <1>2, <1>5, <1>6 DEF Flushing, Visiting

LEMMA StormHasData ==
    ASSUME TypeInv, PlaceInv, StormInv, [Next]_vars
    PROVE  ~ HandleAnswerWithoutData /\ pc' # "null data"
<1>1. ~ HandleAnswerWithoutData
  <2>1. SUFFICES ASSUME HandleAnswerWithoutData PROVE FALSE
    OBVIOUS
  <2>2. /\ pc = "visit" /\ done < Len(events[cur]) /\ data[cur] = "none"
        /\ ~ (done > 0 /\ events[cur][done] = "TERM")
        /\ events[cur][done + 1] \in Answers
        /\ UNCHANGED <<events, cur>> /\ done' = done + 1
    BY <2>1 DEF HandleAnswerWithoutData, Take
  <2>3. cur \in Instances /\ cur \in alive
    BY <2>2, CurIsInstance DEF PlaceInv
  <2>4. Queued(cur, Answers) > 0
    <3>1. CountFrom(events[cur], done + 1, Answers) > 0
      <4>1. events[cur] \in Seq(EventTypes) /\ done \in Nat /\ Len(events[cur]) \in Nat
        BY <2>2, CurIsInstance
      <4>2. done + 1 \in Nat \ {0} /\ done + 1 \in done + 1 .. Len(events[cur])
        BY <2>2, <4>1
      <4>3. CountFrom(events[cur], done + 1, Answers) # 0
        BY <2>2, <4>1, <4>2, CountNone
      <4>4. CountFrom(events[cur], done + 1, Answers) \in Nat
        BY <4>1, <4>2, CountType
      <4> QED
        BY <4>3, <4>4
    <3> QED
      BY <3>1 DEF Queued, Handled
  <2>5. ~ Flushing(cur)
    BY <2>2 DEF Flushing
  <2>6. StormFor(cur)
    BY <2>3 DEF StormInv
  <2> QED
    BY <2>2, <2>3, <2>4, <2>5, <2>6 DEF StormFor
<1>2. CASE UNCHANGED pc
  BY <1>1, <1>2 DEF StormInv
<1> QED
  BY <1>1, <1>2, Moves DEF StartWalk, Visit, EndVisit, EndWalk, StartUsers, EndUsers, UserFaults

LEMMA StormForStep ==
    ASSUME TypeInv, PlaceInv, AnswerInv, StormInv, [Next]_vars, ~ ReadSignal, NEW i \in Instances
    PROVE  StormFor(i)'
<1>1. /\ StormFor(i) /\ AnswersFor(i) /\ pc # "null data" /\ ~ HandleAnswerWithoutData
      /\ status \in {"TERMINATE", "INTERRUPTED"}
  BY StormHasData DEF StormInv, AnswerInv, TypeInv, LoopType
<1>2. /\ Awaited(i) \in Nat /\ Queued(i, Answers) \in Nat
      /\ Awaited(i)' \in Nat /\ Queued(i, Answers)' \in Nat
  BY AwaitedType, AwaitedTypeStep
<1>3. SUFFICES ASSUME i \in alive', data'[i] = "none"
               PROVE  /\ Awaited(i)' > 0 =>
                           /\ \E k \in ToUser' : ToldEnd(i, k)'
                           /\ status' = "INTERRUPTED" \/ InUsers' \/ LastTurn'
                      /\ Queued(i, Answers)' > 0 =>
                           Flushing(i)' \/ (LastTurn' /\ pc' \notin {"walk", "visit"})
  BY DEF StormFor
<1>4. i \in alive
  BY <1>3, RegisteredUnchanged DEF UserTerminated
<1>5. ASSUME \E k \in ToUser : ToldEnd(i, k),
             status = "INTERRUPTED" \/ InUsers \/ LastTurn
      PROVE  /\ \E k \in ToUser' : ToldEnd(i, k)'
             /\ status' = "INTERRUPTED" \/ InUsers' \/ LastTurn'
  <2>1. PICK k \in ToUser : ToldEnd(i, k)
    BY <1>5
  <2>2. k \in ToUser' /\ ToldEnd(i, k)' /\ ~ EndUsers
    BY <1>3, <2>1, ToldEndStays
  <2>3. InUsers => InUsers'
    BY <2>2, UsersEnd
  <2>4. LastTurn => LastTurn'
    BY LastTurnStays
  <2>5. UserTerminated => InUsers'
    BY UserHandlerEffect DEF InUsers
  <2>6. status' = status \/ UserTerminated
    BY StatusUnchanged
  <2> QED
    BY <1>5, <2>2, <2>3, <2>4, <2>5, <2>6
<1>6. CASE cur = i /\ Handling
  <2>1. HandleInitFails \/ HandleTerm
    BY <1>1, <1>3, <1>6 DEF Handling, HandleInit, HandleAnswer, TypeInv, AlgoType
  <2>2. CASE HandleInitFails
    <3>1. Queued(i, {"INIT"}) > 0
      <4>1. pc = "visit" /\ done < Len(events[cur]) /\ done' = done + 1 /\ UNCHANGED <<events, cur>>
        BY <1>6, HandlerEffect DEF Handling
      <4>2. events[i][done + 1] \in {"INIT"}
        BY <1>6, <2>2, AwaitedHandled
      <4>3. Queued(i, {"INIT"})' \in Nat
        BY AwaitedTypeStep
      <4> QED
        BY <1>6, <4>1, <4>2, <4>3, QueuedHandled
    <3>2. Awaited(i)' = 0
      BY <1>1, <1>6, <2>2, <3>1, AwaitedHandled DEF AnswersFor
    <3>3. Queued(i, Answers)' = 0
      BY <3>2, NothingAwaitedNext
    <3> QED
      BY <3>2, <3>3
  <2>3. CASE HandleTerm
    <3>1. /\ pc = "visit" /\ pc' = "visit" /\ UNCHANGED <<batch, status, events, cur>>
          /\ done' = done + 1 /\ done \in Nat /\ events[i][done + 1] = "TERM"
      BY <1>6, <2>3, HandlerEffect, CurIsInstance DEF HandleTerm, Take
    <3>2. Flushing(i)'
      BY <1>6, <3>1 DEF Flushing, Visiting
    <3>3. \E k \in ToUser' : ToldEnd(i, k)'
      <4> DEFINE types == <<"HAS_TERMINATED">>
      <4>1. Raise(cur, types) /\ types \in Seq(UserTypes) /\ Len(types) = 1 /\ types[1] = "HAS_TERMINATED"
        BY <2>3 DEF HandleTerm, UserTypes
      <4>2. Len(userq) \in Nat
        BY LenProperties DEF TypeInv, UserType
      <4> HIDE DEF types
      <4>3. /\ Len(userq') = Len(userq) + Len(types)
            /\ \A k \in Len(userq) + 1 .. Len(userq') :
                 userq'[k] = [type |-> types[k - Len(userq)], issuer |-> cur]
        BY <1>6, <4>1, RaiseEffect DEF TypeInv
      <4>4. PICK k \in Nat : k = Len(userq) + 1
        BY <4>2
      <4>5. k \in Len(userq) + 1 .. Len(userq') /\ k - Len(userq) = 1 /\ k \in 1 .. Len(userq')
        BY <4>1, <4>2, <4>3, <4>4
      <4>6. userq'[k] = [type |-> "HAS_TERMINATED", issuer |-> i]
        BY <1>6, <4>1, <4>3, <4>5
      <4>7. k \in ToUser' /\ ToldEnd(i, k)'
        BY <3>1, <4>5, <4>6 DEF ToUser, ToldEnd, InUsers
      <4> QED
        BY <4>7
    <3>4. status' = "INTERRUPTED" \/ LastTurn'
      BY <1>1, <3>1 DEF LastTurn, PlaceInv
    <3> QED
      BY <3>2, <3>3, <3>4
  <2> QED
    BY <2>1, <2>2, <2>3
<1>7. CASE ~ (cur = i /\ Handling)
  <2>1. data[i] = "none"
    <3>1. CASE HandleInit \/ HandleAnswer \/ HandleTerm
      BY <1>3, <1>7, <3>1 DEF Handling, HandleInit, HandleAnswer, HandleTerm, TypeInv, AlgoType
    <3> QED
      BY <1>3, <3>1, AlgoUnchanged
  <2>2. ~ Frees(i)
    BY <1>3 DEF Frees, UserTerminated
  <2>3. CASE cur = i /\ EndVisit
    <3>1. Awaited(i)' = Awaited(i) - Queued(i, Answers) /\ Queued(i, Answers)' = 0
      BY <2>3, AwaitedDropped
    <3>2. Awaited(i)' > 0 => Awaited(i) > 0
      BY <1>2, <3>1
    <3>3. Awaited(i)' > 0 => /\ \E k \in ToUser : ToldEnd(i, k)
                             /\ status = "INTERRUPTED" \/ InUsers \/ LastTurn
      BY <1>1, <1>4, <2>1, <3>2 DEF StormFor
    <3>4. ~ (Queued(i, Answers)' > 0)
      BY <3>1
    <3> QED
      BY <1>5, <3>3, <3>4
  <2>4. CASE ~ (cur = i /\ EndVisit)
    <3>1. /\ Awaited(i)' = Awaited(i)
          /\ \/ Queued(i, Answers)' = Queued(i, Answers)
             \/ (ProcessRecvq \/ DropExpired) /\ i \in alive
      BY <1>7, <2>2, <2>4, AwaitedElsewhere
    <3>2. Awaited(i)' > 0 =>
             /\ \E k \in ToUser' : ToldEnd(i, k)'
             /\ status' = "INTERRUPTED" \/ InUsers' \/ LastTurn'
      BY <1>1, <1>4, <1>5, <2>1, <3>1 DEF StormFor
    <3>3. CASE Queued(i, Answers)' = Queued(i, Answers) /\ Queued(i, Answers) > 0
      <4>1. CASE Flushing(i)
        <5>1. ~ EndVisit
          BY <2>4, <4>1 DEF Flushing
        <5> QED
          BY <1>1, <3>2, <4>1, <5>1, FlushingStays
      <4>2. CASE LastTurn /\ pc \notin {"walk", "visit"}
        BY <3>2, <4>2, LastTurnStays
      <4> QED
        BY <1>1, <1>4, <2>1, <3>3, <4>1, <4>2 DEF StormFor
    <3>4. CASE (ProcessRecvq \/ DropExpired) /\ Queued(i, Answers)' > 0
      <4>1. Awaited(i) > 0
        <5>1. Awaited(i)' # 0
          BY <3>4, NothingAwaitedNext
        <5> QED
          BY <1>2, <3>1, <5>1
      <4>2. status = "TERMINATE" /\ pc = "dispatch"
        BY <1>1, <3>4 DEF ProcessRecvq, DropExpired, Dispatch, Ignores, NetFds
      <4>3. LastTurn
        BY <1>1, <1>4, <2>1, <4>1, <4>2 DEF StormFor, InUsers
      <4>4. LastTurn' /\ pc' \notin {"walk", "visit"}
        BY <4>2, <4>3, LastTurnStays
      <4> QED
        BY <3>2, <4>4
    <3> QED
      BY <1>2, <3>1, <3>2, <3>3, <3>4
  <2> QED
    BY <2>3, <2>4
<1> QED
  BY <1>6, <1>7

(* The signal is read: nothing is awaited without data when TERM is thrown. *)
LEMMA StormBegins ==
    ASSUME TypeInv, PlaceInv, SignalInv, Calm, CalmInv, [Next]_vars, ReadSignal
    PROVE  StormInv'
<1>1. /\ pc = "dispatch" /\ pc' = pc /\ signal' = FALSE /\ signals' = signals
      /\ status' = "INTERRUPTED" /\ "signalfd" \in batch
      /\ UNCHANGED <<data, alive, cur, done>>
  BY DEF ReadSignal, instVars, walkVars, algoVars
<1>2. signals' = 1
  BY <1>1 DEF PlaceInv, Calm
<1>3. ASSUME NEW i \in Instances, i \in alive, data[i] = "none"
      PROVE  Awaited(i)' = 0 /\ Queued(i, Answers)' = 0
  <2>1. Awaited(i) = 0
    BY <1>3 DEF CalmInv, CalmFor
  <2>2. ~ Handling /\ ~ EndVisit /\ ~ Frees(i)
    BY <1>1 DEF Handling, HandleInit, HandleInitFails, HandleAnswer, HandleAnswerWithoutData,
                HandleTerm, Take, EndVisit, Frees, UserTerminated, TakeUser
  <2>3. Awaited(i)' = 0
    BY <2>1, <2>2, AwaitedElsewhere
  <2> QED
    BY <2>3, NothingAwaitedNext
<1>4. ASSUME NEW i \in Instances PROVE StormFor(i)'
  <2>1. SUFFICES ASSUME i \in alive, data[i] = "none"
                 PROVE  ~ (Awaited(i)' > 0) /\ ~ (Queued(i, Answers)' > 0)
    BY <1>1 DEF StormFor
  <2> QED
    BY <1>3, <2>1
<1> QED
  BY <1>1, <1>2, <1>4 DEF StormInv

(* One signal has been read, and the time is not up. *)
Storm == ~ late /\ signals = 1 /\ ~ signal

(* A storm follows the calm, or goes on. *)
LEMMA StormFollows ==
    ASSUME TypeInv, PlaceInv, SignalInv, [Next]_vars, Storm'
    PROVE  \/ ReadSignal /\ Calm
           \/ Storm /\ ~ ReadSignal
<1>1. /\ signals \in Nat /\ signal \in BOOLEAN /\ late \in BOOLEAN
      /\ signals' = 1 /\ ~ signal' /\ ~ late'
  BY DEF TypeInv, LoopType, Storm
<1>2. ~ late
  BY <1>1, LateUnchanged DEF TimePasses
<1>3. CASE ReadSignal
  <2>1. signal /\ signals = 1
    BY <1>1, <1>3 DEF ReadSignal, PlaceInv
  <2> QED
    BY <1>2, <1>3, <2>1 DEF Calm
<1>4. CASE ~ ReadSignal
  <2>1. ~ Interrupt
    BY <1>1 DEF Interrupt
  <2>2. UNCHANGED <<signal, signals>>
    BY <1>4, <2>1, SignalUnchanged
  <2> QED
    BY <1>1, <1>2, <1>4, <2>2 DEF Storm
<1> QED
  BY <1>3, <1>4

LEMMA StormStep ==
    ASSUME TypeInv, PlaceInv, AnswerInv, SignalInv, Calm => CalmInv, Storm => StormInv,
           [Next]_vars
    PROVE  (Storm => StormInv)'
<1>1. SUFFICES ASSUME Storm' PROVE StormInv'
  OBVIOUS
<1>2. CASE ReadSignal /\ Calm
  BY <1>2, StormBegins
<1>3. CASE Storm /\ ~ ReadSignal
  <2>1. StormInv
    BY <1>3
  <2>2. pc' # "null data"
    BY <2>1, StormHasData
  <2>3. signals' = 1 /\ ~ signal'
    BY <1>1 DEF Storm
  <2>4. status' # "CONTINUE"
    <3>1. status' = status \/ UserTerminated
      BY <1>3, StatusUnchanged
    <3> QED
      BY <2>1, <3>1 DEF StormInv, UserTerminated
  <2>5. \A i \in Instances : StormFor(i)'
    BY <1>3, <2>1, StormForStep
  <2> QED
    BY <2>2, <2>3, <2>4, <2>5 DEF StormInv
<1> QED
  BY <1>1, <1>2, <1>3, StormFollows

(* "Next events for this instance are ignored" (pt_loop.c:397): when one signal *)
(* interrupts the loop and its time is not up, no instance ever handles an      *)
(* answer after it has freed its data on TERM.                                  *)
THEOREM NoAnswerAfterOneSignal ==
    Spec => [](~ late /\ signals <= 1 => NoAnswerAfterTerm)
<1> DEFINE Inv == /\ TypeInv /\ PlaceInv /\ AnswerInv /\ SignalInv
                  /\ Calm => CalmInv
                  /\ Storm => StormInv
<1>1. Init => Inv
  <2>1. Init => ~ Storm
    BY DEF Init, Storm
  <2> QED
    BY <2>1, InitTyped, InitAwaits, InitCalm DEF AnswerInv
<1>2. Inv /\ [Next]_vars => Inv'
  BY TypeStep, PlaceStep, AnswerStep, StaysCalm, CalmStep, StormStep
<1>3. Inv => (~ late /\ signals <= 1 => NoAnswerAfterTerm)
  <2>1. SUFFICES ASSUME Inv, ~ late, signals <= 1 PROVE pc # "null data"
    BY DEF NoAnswerAfterTerm
  <2>2. signals \in Nat /\ signal \in BOOLEAN /\ (signal => signals > 0)
    BY <2>1 DEF TypeInv, LoopType, SignalInv
  <2>3. Calm \/ Storm
    BY <2>1, <2>2 DEF Calm, Storm
  <2> QED
    BY <2>1, <2>3 DEF CalmInv, StormInv, Faults
<1> QED
  BY <1>1, <1>2, <1>3, PTL DEF Spec

=============================================================================
