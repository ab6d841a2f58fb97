--------------------------------- MODULE Mda ---------------------------------
(***************************************************************************)
(* The multipath detection algorithm (algorithms/mda.c): it discovers all  *)
(* the interfaces that load balancers spread the flows over, hop by hop,   *)
(* sending as many flows through each interface as the stopping points ask *)
(* for.                                                                    *)
(*                                                                         *)
(* An event is handled as a whole, with the walk of the lattice that ends  *)
(* mda_handler.  Around it, the network answers each probe once, in any    *)
(* order; load balancers are per flow, so a flow follows one route.        *)
(***************************************************************************)
EXTENDS FiniteSets, FiniteSetsExt, Lattice

CONSTANTS
    StoppingPoints, (* bound->nk_table: number of next hops -> probes      *)
    Networks,       (* a network has a sequence of routes, which flows of  *)
                    (* successive ids follow in turn, and loses so many    *)
                    (* answers at most; a route is what answers at each    *)
                    (* hop, and its last element what answers beyond       *)
    Dst,            (* dst_ip                                              *)
    None,           (* no address: an interface that is not known, a hop   *)
                    (* that does not answer                                *)
    MaxUndiscovered,(* options->traceroute_options.max_undiscovered        *)
    MaxTtls,        (* MAX_TTLS                                            *)
    FlowIdWidth,    (* probes carry flow_id % 2^FlowIdWidth                *)
    MaxTerms        (* bound: how often TERM is thrown                     *)

ASSUME MdaAssumption ==
    /\ StoppingPoints \in Seq(Nat)
    /\ \A n \in Networks :
         /\ n.losses \in Nat
         /\ n.routes # << >>
         /\ \A r \in Range(n.routes) : r # << >> /\ Last(r) \in {Dst, None}
    /\ Dst # None
    /\ {MaxTtls, FlowIdWidth} \subseteq Nat \ {0}
    /\ {MaxUndiscovered, MaxTerms} \subseteq Nat

FlowStates == {"AVAILABLE", "UNAVAILABLE", "TESTING", "TIMEOUT"}

VARIABLES
    lattice,      (* data->lattice                                         *)
    interfaces,   (* the mda_interface_t each element carries              *)
    last_flow_id, (* data->last_flow_id                                    *)
    pc,           (* "init" before INIT, "run", "ended"                    *)
    raised,       (* how often HAS_TERMINATED is raised                    *)
    links,        (* history: MDA_NEW_LINK events: (source, target); 0 is NULL *)
    flying,       (* probes handed to the network and not answered         *)
    network,      (* what the load balancers do                            *)
    lost,         (* history: probes that a hop that answers never answered*)
    terms         (* history: TERMs thrown                                 *)

dataVars == <<lattice, interfaces, last_flow_id>>
envVars  == <<network, lost, terms>>
vars     == <<dataVars, pc, raised, links, flying, envVars>>

-----------------------------------------------------------------------------
(* Interfaces and their flows *)

Flow(ttl, id, state) == [ttl |-> ttl, id |-> id, state |-> state]

NewInterface(address, ttl, stars) ==
    [address |-> address, sent |-> 0, received |-> 0, timeout |-> 0,
     num_stars |-> stars, ttl_flows |-> << >>, ttl_set |-> <<ttl>>,
     type |-> "UNKNOWN"]

Probe(ttl, id) == [ttl |-> ttl, flow_id |-> id % 2^FlowIdWidth]

NumFlows(x, state) ==
    Cardinality({i \in DOMAIN x.ttl_flows : x.ttl_flows[i].state = state})

MutGetNk(k) == IF k <= Len(StoppingPoints) THEN StoppingPoints[k - 1] ELSE 0

(* bound_get_nk *)
GetNk(k) == IF k <= Len(StoppingPoints) THEN StoppingPoints[k] ELSE 0

ToSend(l, itf, u) == GetNk(Max({Len(l.next[u]) + 1, 2})) - itf[u].sent

AllAnswered(x) == x.sent = x.received + x.timeout

MutEnumerated(l, itf, u) == ToSend(l, itf, u) <= 0 \/ itf[u].address = Dst

(* When mda_enumerate returns LATTICE_DONE or LATTICE_CONTINUE: the walk goes on
   to the next hops and may still be done.  No probe is sent from the
   destination. *)
Enumerated(l, itf, u) ==
    \/ ToSend(l, itf, u) <= 0 /\ AllAnswered(itf[u])
    \/ itf[u].address = Dst

Many(l, u) == Len(l.siblings[u]) > 1

MutUsedFlows(x, n) == {i \in DOMAIN x.ttl_flows : x.ttl_flows[i].state = "AVAILABLE"}

(* The first n flows that are available are used: mda_interface_get_available_flow_id
   in a loop. *)
UsedFlows(x, n) ==
    LET avail == {i \in DOMAIN x.ttl_flows : x.ttl_flows[i].state = "AVAILABLE"}
    IN  {i \in avail : Cardinality({j \in avail : j < i}) < n}

(* The part of the enumeration done so far in a walk: the interfaces, the last
   flow_id, the probes sent. *)
Work(itf, last, probes) == [interfaces |-> itf, last |-> last, probes |-> probes]

(* Flows to test, because other interfaces share the hop and too few flows are
   known to reach this one. *)
Missing(x, to_send) ==
    Max({0, to_send - NumFlows(x, "AVAILABLE") - NumFlows(x, "TESTING")})

MutTestFlows(w, u, n) ==
    LET x == w.interfaces[u]
        Tested(i) == x.ttl_set[((i - 1) % Len(x.ttl_set)) + 1]
        new == [i \in 1 .. n |-> Flow(Tested(i), w.last + i, "TESTING")]
    IN  Work([w.interfaces EXCEPT ![u].ttl_flows = @ \o new],
             w.last,
             w.probes \cup {Probe(f.ttl, f.id) : f \in Range(new)})

(* The flow ids after w.last are tested, over all the ttls of the interface. *)
TestFlows(w, u, n) ==
    LET x == w.interfaces[u]
        Tested(i) == x.ttl_set[((i - 1) % Len(x.ttl_set)) + 1]
        new == [i \in 1 .. n |-> Flow(Tested(i), w.last + i, "TESTING")]
    IN  Work([w.interfaces EXCEPT ![u].ttl_flows = @ \o new],
             w.last + n,
             w.probes \cup {Probe(f.ttl, f.id) : f \in Range(new)})

(* Up to n probes to the next hop, with available flows first.  The only
   interface of a hop, if it has one ttl, makes the flows it misses: all flows
   go through it. *)
SendNext(w, l, u, n) ==
    LET x     == w.interfaces[u]
        used  == UsedFlows(x, n)
        fresh == IF ~ Many(l, u) /\ Len(x.ttl_set) = 1
                 THEN Max({0, n - Cardinality(used)}) ELSE 0
        made  == [i \in 1 .. fresh |-> Flow(x.ttl_set[1], w.last + i, "UNAVAILABLE")]
        known == [i \in DOMAIN x.ttl_flows |->
                    [x.ttl_flows[i] EXCEPT !.state = IF i \in used THEN "UNAVAILABLE" ELSE @]]
        sent  == {known[i] : i \in used} \cup Range(made)
    IN  Work([w.interfaces EXCEPT ![u].ttl_flows = known \o made,
                                  ![u].sent = @ + Cardinality(used) + fresh],
             w.last + fresh,
             w.probes \cup {Probe(f.ttl + 1, f.id) : f \in sent})

(* mda_enumerate, for an interface that is not enumerated. *)
Enumerate(w, l, u) ==
    LET to_send == ToSend(l, w.interfaces, u)
        tested  == TestFlows(w, u, Missing(w.interfaces[u], to_send))
    IN  IF Many(l, u) THEN SendNext(tested, l, u, to_send)
        ELSE SendNext(w, l, u, to_send)

(* mda_classify: enumeration_done is never set, so a type is found only for
   interfaces with several next hops. *)
Classify(itf, l, u) ==
    IF itf[u].type = "UNKNOWN" /\ Len(l.next[u]) > 1
    THEN [itf EXCEPT ![u].type = "IN_PROGRESS"] ELSE itf

(* mda_process_interface *)
ProcessInterface(w, l, u) ==
    LET done == IF Enumerated(l, w.interfaces, u) THEN w ELSE Enumerate(w, l, u)
    IN  [done EXCEPT !.interfaces = Classify(@, l, u)]

-----------------------------------------------------------------------------
(* The end of mda_handler: the interfaces are processed, each one once those
   before it are enumerated, and the algorithm ends when all are.  links are the
   events raised before. *)
Processed(l, itf, told) ==
    LET done  == {u \in Elements(l) : Enumerated(l, itf, u)}
        order == Walk(l, done)
        w     == FoldLeft(LAMBDA s, u : ProcessInterface(s, l, u),
                          Work(itf, last_flow_id, {}), order)
    IN  [lattice |-> l, work |-> w, links |-> told,
         ends |-> IF Range(order) \subseteq done THEN 1 ELSE 0]

(* What mda_handler makes of an event: its outcome, the probes that the event
   answers, and how often the end is raised before the walk. *)
Handle(outcome, answered, term) ==
    \E o \in {outcome} :
        /\ lattice' = o.lattice
        /\ interfaces' = o.work.interfaces
        /\ last_flow_id' = o.work.last
        /\ flying' = (flying \ answered) \cup o.work.probes
        /\ links' = links \cup o.links
        /\ raised' = raised + term + o.ends

-----------------------------------------------------------------------------
(* Searches in the lattice *)

(* mda_search_interface *)
WithAddress(address) ==
    Found(lattice, Elements(lattice), {u \in Elements(lattice) : interfaces[u].address = address})

HasTtl(u, ttl) == Contains(interfaces[u].ttl_set, ttl)

MutSourceHop(ttl, id) ==
    LET hop   == {u \in Elements(lattice) : HasTtl(u, ttl)}
        below == {u \in Elements(lattice) : u \in hop => Len(interfaces[u].ttl_set) > 1}
    IN  Found(lattice, below, hop)

(* mda_search_source: the interface that has sent a flow from ttl on.  The walk
   does not go on below an interface that is at this ttl only. *)
Source(ttl, id) ==
    LET hop   == {u \in Elements(lattice) : HasTtl(u, ttl)}
        below == {u \in Elements(lattice) : u \in hop => Len(interfaces[u].ttl_set) > 1}
    IN  Found(lattice, below,
              {u \in hop : \E f \in Range(interfaces[u].ttl_flows) :
                  f.ttl = ttl /\ f.id = id /\ f.state # "TESTING"})

FirstFlow(x, id, state) ==
    SelectInSeq(x.ttl_flows, LAMBDA f : f.id = id /\ f.state = state)

(* mda_delete_flow and mda_timeout_flow look for a flow at the interfaces of a
   hop whatever ttl the flow itself has. *)
Holder(l, itf, ttl, id, state) ==
    LET hop == {u \in Elements(l) : Contains(itf[u].ttl_set, ttl)}
    IN  Found(l, Elements(l) \ hop,
              {u \in hop : \E f \in Range(itf[u].ttl_flows) : f.id = id /\ f.state = state})

MutDeleteFlow(l, itf, ttl, id) == itf

DeleteFlow(l, itf, ttl, id) ==
    LET holder == Holder(l, itf, ttl, id, "TESTING")
    IN  IF holder = << >> THEN itf
        ELSE LET u == holder[1]
             IN  [itf EXCEPT ![u].ttl_flows = RemoveAt(@, FirstFlow(itf[u], id, "TESTING"))]

(* mda_timeout_flow at one interface. *)
MarkTimeout(itf, u, id) ==
    LET i == FirstFlow(itf[u], id, "UNAVAILABLE")
    IN  IF i = 0 THEN itf ELSE [itf EXCEPT ![u].ttl_flows[i].state = "TIMEOUT"]

-----------------------------------------------------------------------------
(* ALGORITHM_INIT: the root is the interface before the first hop. *)
HandleInit ==
    /\ pc = "init"
    /\ pc' = "run"
    /\ Handle(Processed(Create(EmptyLattice), <<NewInterface(None, 0, 0)>>, {}), {}, 0)
    /\ UNCHANGED envVars

MutAddTtls(ttl_set, source_ttls) == ttl_set

(* The ttls of an interface, with those at which it is reached through another
   one, as far as there is room. *)
AddTtls(ttl_set, source_ttls) ==
    FoldLeft(LAMBDA s, t : IF Contains(s, t + 1) \/ Len(s) = MaxTtls THEN s
                           ELSE Append(s, t + 1),
             ttl_set, source_ttls)

(* MDA_NEW_LINK is raised when source has all its answers. *)
NewLinks(itf, source, targets) ==
    IF AllAnswered(itf[source]) THEN {source} \X targets ELSE {}

(* PROBE_REPLY with a source: the link is added to the lattice, and the reply
   counted.  dest is the element that has the address, 0 if there is none. *)
Linked(source, dest, address, ttl) ==
    LET grown == IF dest = 0 THEN Append(interfaces, NewInterface(address, ttl, 0))
                 ELSE [interfaces EXCEPT ![dest].ttl_set = AddTtls(@, interfaces[source].ttl_set)]
    IN  [grown EXCEPT ![source].received = @ + 1]

Replied(probe, address) ==
    LET ttl    == probe.ttl
        id     == probe.flow_id
        known  == WithAddress(address)
        source == Source(ttl - 1, id)
        dest   == IF known # << >> THEN known[1]
                  ELSE IF source # << >> THEN Len(interfaces) + 1 ELSE 0
        l      == IF source = << >> THEN lattice
                  ELSE IF known # << >> THEN Connect(lattice, source[1], dest)
                  ELSE AddElement(lattice, source[1])
        itf    == IF source = << >> THEN interfaces
                  ELSE Linked(source[1], IF known = << >> THEN 0 ELSE dest, address, ttl)
        \* a new interface that has no source is not in the lattice
        filled == IF dest = 0 THEN itf
                  ELSE [itf EXCEPT ![dest].ttl_flows = Append(@, Flow(ttl, id, "AVAILABLE"))]
    IN  Processed(l, DeleteFlow(l, filled, ttl, id),
                  IF source = << >> THEN {} ELSE NewLinks(itf, source[1], {dest}))

(* PROBE_TIMEOUT of a probe sent from source.  If nothing but timeouts has come
   back, a star takes the place of the next hop. *)
TimedOutFrom(source, probe) ==
    LET itf   == MarkTimeout([interfaces EXCEPT ![source].timeout = @ + 1], source, probe.flow_id)
        x     == itf[source]
        star  == NewInterface(None, probe.ttl, x.num_stars + 1)
        dark  == x.timeout = x.sent
        grows == dark /\ x.num_stars < MaxUndiscovered
        l     == IF grows THEN AddElement(lattice, source) ELSE lattice
    IN  Processed(l, IF grows THEN Append(itf, star) ELSE itf,
                  NewLinks(itf, source, IF grows THEN {Len(l.next)}
                                        ELSE IF dark THEN {0} ELSE Range(l.next[source])))

(* PROBE_TIMEOUT of a flow under test, which mda_timeout_flow looks for in the
   wrong state. *)
TestTimedOut(probe) ==
    LET holder == Holder(lattice, interfaces, probe.ttl, probe.flow_id, "UNAVAILABLE")
    IN  Processed(lattice,
                  IF holder = << >> THEN interfaces
                  ELSE MarkTimeout(interfaces, holder[1], probe.flow_id),
                  {})

TimedOut(probe) ==
    LET source == Source(probe.ttl - 1, probe.flow_id)
    IN  IF source # << >> THEN TimedOutFrom(source[1], probe) ELSE TestTimedOut(probe)

(* ALGORITHM_TERM: the end is raised, and the interfaces are processed all the
   same. *)
HandleTerm ==
    /\ pc = "run"
    /\ terms < MaxTerms
    /\ terms' = terms + 1
    /\ Handle(Processed(lattice, interfaces, {}), {}, 1)
    /\ UNCHANGED <<pc, network, lost>>

-----------------------------------------------------------------------------
(* The network *)

(* What answers at a hop of a route, and what answers a flow there. *)
Answers(r, ttl) == IF ttl <= Len(r) THEN r[ttl] ELSE Last(r)

Hop(id, ttl) == Answers(network.routes[(id % Len(network.routes)) + 1], ttl)

Reply ==
    /\ pc = "run"
    /\ \E p \in flying :
         /\ Hop(p.flow_id, p.ttl) # None
         /\ Handle(Replied(p, Hop(p.flow_id, p.ttl)), {p}, 0)
    /\ UNCHANGED <<pc, envVars>>

Timeout ==
    /\ pc = "run"
    /\ \E p \in flying :
         /\ IF Hop(p.flow_id, p.ttl) = None THEN UNCHANGED lost
            ELSE lost < network.losses /\ lost' = lost + 1
         /\ Handle(TimedOut(p), {p}, 0)
    /\ UNCHANGED <<pc, network, terms>>

(* The user handler frees the data and deletes the instance.  It runs after the
   answers that the instance has in its queue. *)
UserTerminated ==
    /\ pc = "run"
    /\ raised > 0
    /\ pc' = "ended"
    /\ UNCHANGED <<dataVars, raised, links, flying, envVars>>

Init ==
    /\ lattice = EmptyLattice
    /\ interfaces = << >>
    /\ last_flow_id = 0
    /\ pc = "init"
    /\ raised = 0
    /\ links = {}
    /\ flying = {}
    /\ network \in Networks
    /\ lost = 0
    /\ terms = 0

Next ==
    \/ HandleInit
    \/ HandleTerm
    \/ Reply
    \/ Timeout
    \/ UserTerminated

Spec == Init /\ [][Next]_vars

-----------------------------------------------------------------------------
(* Properties *)

TypeOK ==
    /\ Len(interfaces) = Len(lattice.next)
    /\ Len(lattice.siblings) = Len(lattice.next)
    /\ \A u \in Elements(lattice) :
         /\ Range(lattice.next[u]) \subseteq Elements(lattice)
         /\ Range(lattice.siblings[u]) \subseteq Elements(lattice)
         /\ {interfaces[u].sent, interfaces[u].received, interfaces[u].timeout,
             interfaces[u].num_stars} \subseteq Nat
         /\ \A f \in Range(interfaces[u].ttl_flows) :
              f.state \in FlowStates /\ f.id \in 1 .. last_flow_id
    /\ pc \in {"init", "run", "ended"}
    /\ {last_flow_id, raised, lost, terms} \subseteq Nat

(* Every probe an interface counts as sent and not answered is in flight, and
   its answer will be attributed to that interface: so none waits for ever, and
   none is complete too early.  An answer finds its source by ttl and flow,
   among interfaces that exchange flows and are reached at several ttls. *)
InFlightExact ==
    LET source == [p \in flying |-> Source(p.ttl - 1, p.flow_id)]
    IN  \A u \in Elements(lattice) :
            interfaces[u].sent = interfaces[u].received + interfaces[u].timeout
                + Cardinality({p \in flying : source[p] = <<u>>})

(* A flow is under test only while its probe is in flight: a reply removes it
   ("Delete flow in all siblings", mda.c:678), a timeout marks it ("Mark the
   flow as timeout", mda.c:771). *)
TestsInFlight ==
    \A u \in Elements(lattice) : \A f \in Range(interfaces[u].ttl_flows) :
        f.state = "TESTING" => Probe(f.ttl, f.id) \in flying

(* The algorithm never waits for nothing: as long as some interface is not
   enumerated, a probe is in flight. *)
NeverStranded == pc = "run" /\ raised = 0 => flying # {}

(* A flow is kept by the interface it really goes through, also when it was
   made without a probe, by the only interface of a hop. *)
FlowsRight ==
    \A u \in Elements(lattice) : \A f \in Range(interfaces[u].ttl_flows) :
        interfaces[u].address # None /\ f.state # "TESTING"
            => Hop(f.id, f.ttl) = interfaces[u].address

Known(u) == u = 1 \/ interfaces[u].address # None

(* The interface u is the hop ttl of the route r. *)
At(u, r, ttl) ==
    IF ttl = 0 THEN u = 1 ELSE u # 1 /\ interfaces[u].address = Answers(r, ttl)

(* No false link: two interfaces are linked only if they follow each other on a
   route. *)
LinksReal ==
    \A u \in Elements(lattice) : \A v \in Range(lattice.next[u]) :
        lost = 0 \/ (Known(u) /\ Known(v)) =>
            \E r \in Range(network.routes) : \E ttl \in 0 .. Len(r) :
                At(u, r, ttl) /\ At(v, r, ttl + 1)

(* When the algorithm ends by itself, and no answer was lost, it has found all
   the interfaces and all the links between those that answer.  In the networks
   of the run successive flows follow the routes in turn, so that the stopping
   points are enough to meet each of them. *)
EveryLinkFound ==
    raised > 0 /\ terms = 0 /\ lost = 0 =>
        \A r \in Range(network.routes) : \A ttl \in 0 .. Len(r) - 1 :
            r[ttl + 1] # None /\ (ttl = 0 \/ r[ttl] # None) =>
                \E u \in Elements(lattice) : \E v \in Range(lattice.next[u]) :
                    At(u, r, ttl) /\ At(v, r, ttl + 1)

(* The links of the lattice are those of the network (mda_handler_reply). *)
LinksRight == LinksReal /\ EveryLinkFound

(* No interface sends more probes than the stopping point for one next hop more
   than it has, whatever comes back late or goes through other interfaces. *)
StoppingRule ==
    \A u \in Elements(lattice) :
        interfaces[u].sent
            <= Max({GetNk(k) : k \in 2 .. Max({Len(lattice.next[u]) + 1, 2})})

(* The algorithm ends only when nothing is left to discover: the probes then in
   flight are flows under test, whose answers make no link.  The user handler
   frees the data when it handles the end (paris-traceroute.c:222). *)
NoLateDiscovery ==
    raised > 0 /\ terms = 0 => \A p \in flying : Source(p.ttl - 1, p.flow_id) = << >>

=============================================================================
