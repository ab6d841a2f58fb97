----------------------------- MODULE Traceroute -----------------------------
(***************************************************************************)
(* The traceroute algorithm (algorithms/traceroute.c): the handler of the  *)
(* events thrown to an instance.                                           *)
(*                                                                         *)
(* The network answers a probe once, by PROBE_REPLY or PROBE_TIMEOUT, in   *)
(* any order, or never if the probe could not be sent (MayLose).  What the *)
(* algorithm reads in a reply is whether it comes from the destination.    *)
(***************************************************************************)
EXTENDS Integers, Sequences, FiniteSets

CONSTANTS
    OptionSets,   (* the options instances are created with                *)
    TtlMod,       (* 256: ttl is a uint8_t                                 *)
    MayFail,      (* may pt_send_probe fail?                               *)
    MayLose,      (* may a probe be handed over but never answered?        *)
    MaxRaised     (* bound on the events raised                            *)

Ttls == 0 .. TtlMod - 1

ASSUME TracerouteAssumption ==
    /\ TtlMod \in Nat \ {0}
    /\ OptionSets \subseteq [min_ttl : Ttls \ {0}, max_ttl : Ttls \ {0},
                             num_probes : Nat \ {0}, max_undiscovered : Nat \ {0}]
    /\ {MayFail, MayLose} \subseteq BOOLEAN
    /\ MaxRaised \in Nat

(* A reply of a router (whatever its ICMP type: the handler does not look at
   it), a reply of the destination, no reply in time. *)
Answers == {"reply", "destination", "star"}
Probe   == [ttl : Ttls, answer : Answers \cup {"none", "lost"}]
Reasons == {"DESTINATION_REACHED", "MAX_TTL_REACHED", "TOO_MANY_STARS"}
Raised  == Reasons \cup {"HAS_TERMINATED", "ERROR"}

VARIABLES
    options,              (* traceroute_options_t                          *)
    data,                 (* *pdata: "none", "live", or "fault" once it    *)
                          (* has been dereferenced without being there     *)
    destination_reached,  (* the fields of traceroute_data_t               *)
    ttl,
    num_replies,
    num_undiscovered,
    num_stars,
    probes,               (* data->probes, with the answer to each probe   *)
    raised                (* events raised to the user, but for the answers*)

vars == <<options, data, destination_reached, ttl, num_replies,
          num_undiscovered, num_stars, probes, raised>>

-----------------------------------------------------------------------------
Init ==
    /\ options \in OptionSets
    /\ data = "none"
    /\ destination_reached = FALSE
    /\ ttl = 0 /\ num_replies = 0 /\ num_undiscovered = 0 /\ num_stars = 0
    /\ probes = << >>
    /\ raised = << >>

(* pt_raise_event, pt_raise_terminated, pt_raise_error *)
Raise(types) == raised' = raised \o types

(* What an answer makes of num_stars and num_undiscovered. *)
StarsAfter(a) == IF a = "star" THEN num_stars + 1 ELSE 0

MutUndiscoveredAfter(a) == num_undiscovered

UndiscoveredAfter(a) == IF a = "star" THEN num_undiscovered ELSE 0

(* After n answers no probe of the current hop is left to be answered. *)
MutOnlyFirstHopIsOver(n) == n = options.num_probes

HopIsOver(n) == n % options.num_probes = 0

(* ttl is already the TTL of the next hop. *)
MutLimitReached == ttl > options.max_ttl + 1

LimitReached == ttl > options.max_ttl

MutExploreHop(sent, t) ==
    /\ num_stars' = 0
    /\ probes' = sent \o [i \in 1 .. options.num_probes |-> [ttl |-> t, answer |-> "none"]]
    /\ ttl' = t + options.num_probes
    /\ UNCHANGED raised

(* send_traceroute_probes at ttl t, after the probes sent before, and the
   incrementation of ttl.  If a probe cannot be sent the handler fails: those
   before it are sent nevertheless, and ttl is not incremented. *)
ExploreHop(sent, t) ==
    LET hop(n) == [i \in 1 .. n |-> [ttl |-> t, answer |-> "none"]]
    IN  /\ num_stars' = 0
        /\ \/ /\ probes' = sent \o hop(options.num_probes)
              /\ ttl' = (t + 1) % TtlMod
              /\ UNCHANGED raised
           \/ /\ MayFail
              /\ \E n \in 0 .. options.num_probes - 1 : probes' = sent \o hop(n)
              /\ ttl' = t
              /\ Raise(<<"ERROR">>)

(* ALGORITHM_INIT is the first event thrown to an instance, and thrown once. *)
Initialised == probes # << >> \/ raised # << >>

(* ALGORITHM_INIT: the data are allocated and the first hop explored. *)
HandleInit ==
    /\ ~ Initialised
    /\ options.min_ttl <= options.max_ttl
    /\ data' = "live"
    /\ ExploreHop(<< >>, options.min_ttl)
    /\ UNCHANGED <<options, destination_reached, num_replies, num_undiscovered>>

HandleInitFails ==
    /\ ~ Initialised
    /\ options.min_ttl > options.max_ttl
    /\ Raise(<<"ERROR">>)
    /\ UNCHANGED <<options, data, destination_reached, ttl, num_replies,
                   num_undiscovered, num_stars, probes>>

(* PROBE_REPLY and PROBE_TIMEOUT: the k-th probe gets answer a.  The counters
   are updated first, then the handler looks for what to do next. *)
HandleAnswer(k, a) ==
    /\ data = "live"
    /\ probes[k].answer = "none"
    /\ num_replies' = num_replies + 1
    /\ destination_reached' = (destination_reached \/ a = "destination")
    /\ LET answered == [probes EXCEPT ![k].answer = a]
           hopIsOver == HopIsOver(num_replies')
           onlyStars == StarsAfter(a) = options.num_probes
           Rest(types) == /\ probes' = answered
                          /\ num_stars' = StarsAfter(a)
                          /\ UNCHANGED ttl
                          /\ Raise(types)
       IN  \/ /\ ~ hopIsOver
              /\ num_undiscovered' = UndiscoveredAfter(a)
              /\ Rest(<< >>)
           \/ /\ hopIsOver /\ destination_reached'
              /\ num_undiscovered' = UndiscoveredAfter(a)
              /\ Rest(<<"DESTINATION_REACHED", "HAS_TERMINATED">>)
           \/ /\ hopIsOver /\ ~ destination_reached' /\ LimitReached
              /\ num_undiscovered' = UndiscoveredAfter(a)
              /\ Rest(<<"MAX_TTL_REACHED", "HAS_TERMINATED">>)
           \/ /\ hopIsOver /\ ~ destination_reached' /\ ~ LimitReached
              /\ num_undiscovered' = UndiscoveredAfter(a) + (IF onlyStars THEN 1 ELSE 0)
              /\ IF onlyStars /\ num_undiscovered' = options.max_undiscovered
                 THEN Rest(<<"TOO_MANY_STARS", "HAS_TERMINATED">>)
                 ELSE ExploreHop(answered, ttl)
    /\ UNCHANGED <<options, data>>

(* The same after ALGORITHM_TERM: *pdata is NULL. *)
HandleAnswerWithoutData(k) ==
    /\ data = "none"
    /\ probes[k].answer = "none"
    /\ data' = "fault"
    /\ UNCHANGED <<options, destination_reached, ttl, num_replies,
                   num_undiscovered, num_stars, probes, raised>>

(* ALGORITHM_TERM *)
HandleTerm ==
    /\ data # "fault"
    /\ Initialised
    /\ Len(raised) < MaxRaised
    /\ data' = "none"
    /\ Raise(<<"HAS_TERMINATED">>)
    /\ UNCHANGED <<options, destination_reached, ttl, num_replies,
                   num_undiscovered, num_stars, probes>>

(* The network layer could not send the k-th probe, and tells nobody. *)
Lose(k) ==
    /\ MayLose
    /\ data # "fault"
    /\ probes[k].answer = "none"
    /\ probes' = [probes EXCEPT ![k].answer = "lost"]
    /\ UNCHANGED <<options, data, destination_reached, ttl, num_replies,
                   num_undiscovered, num_stars, raised>>

Next ==
    \/ HandleInit
    \/ HandleInitFails
    \/ \E k \in 1 .. Len(probes) :
          \/ \E a \in Answers : HandleAnswer(k, a)
          \/ HandleAnswerWithoutData(k)
          \/ Lose(k)
    \/ HandleTerm

Spec == Init /\ [][Next]_vars

(* The loop handles the events thrown to the instance, and the network layer
   answers every probe it has sent. *)
FairSpec ==
    /\ Spec
    /\ WF_vars(HandleInit)
    /\ WF_vars(\E k \in 1 .. Len(probes), a \in Answers : HandleAnswer(k, a))

-----------------------------------------------------------------------------
(* Properties *)

TypeOK ==
    /\ options \in OptionSets
    /\ data \in {"none", "live", "fault"}
    /\ destination_reached \in BOOLEAN
    /\ ttl \in Ttls
    /\ num_replies \in Nat /\ num_undiscovered \in Nat /\ num_stars \in Nat
    /\ probes \in Seq(Probe)
    /\ raised \in Seq(Raised)

Has(event) == \E i \in 1 .. Len(raised) : raised[i] = event

(* The probes that are not answered, and perhaps never will be. *)
Waiting == {k \in 1 .. Len(probes) : probes[k].answer \notin Answers}

(* What the answers ask for once they are all there. *)
StarHop(j) ==
    \A k \in 1 .. Len(probes) : probes[k].ttl = j => probes[k].answer = "star"

LastTtl == probes[Len(probes)].ttl

Due ==
    LET lastHops == LastTtl - options.max_undiscovered + 1 .. LastTtl
    IN  IF \E k \in 1 .. Len(probes) : probes[k].answer = "destination"
        THEN "DESTINATION_REACHED"
        ELSE IF LastTtl = options.max_ttl THEN "MAX_TTL_REACHED"
        ELSE IF \A j \in lastHops : j >= options.min_ttl /\ StarHop(j)
        THEN "TOO_MANY_STARS" ELSE "none"

(* The exploration stops after the first hop that gives a reason to, and tells
   the right one: the destination has answered, else the last hop allowed has
   been explored, else max_undiscovered hops in a row have answered nothing.
   In particular it never rests with all probes answered and nothing said.
   (If a probe cannot be handed over, the hop stays incomplete for ever.) *)
RightVerdict ==
    ~ Has("ERROR") /\ probes # << >> =>
        IF Waiting = {}
        THEN Due # "none" /\ \A r \in Reasons : Has(r) <=> r = Due
        ELSE \A r \in Reasons : ~ Has(r)

(* An exploration ends, if all the probes it hands over are sent and answered. *)
NothingLost == ~ Has("ERROR") /\ \A k \in 1 .. Len(probes) : probes[k].answer # "lost"

Concludes == []NothingLost => (data = "live" ~> Has("HAS_TERMINATED"))

-----------------------------------------------------------------------------
(* The algorithm implements the one that traceroute.h describes. *)

Outcome ==
    IF \E r \in Reasons : Has(r) THEN CHOOSE r \in Reasons : Has(r)
    ELSE IF Has("ERROR") \/ Has("HAS_TERMINATED") THEN "aborted" ELSE "exploring"

Abstract ==
    INSTANCE HopByHop WITH
        hop     <- IF probes = << >> THEN 0 ELSE LastTtl,
        waiting <- Cardinality(Waiting),
        outcome <- Outcome

ImplementsHopByHop == Abstract!Spec

=============================================================================
