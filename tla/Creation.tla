------------------------------ MODULE Creation ------------------------------
(***************************************************************************)
(* The creation of the loop and of what it is made of, when a step of it   *)
(* fails.  A constructor is a sequence of steps and, after a successful    *)
(* end, the labels where a failing step jumps to, each with what is        *)
(* released from there on.  A resource (a block of memory, a descriptor)   *)
(* is the path of fields that holds it.                                    *)
(*                                                                         *)
(* An outcome says whether the constructor succeeds, the resources that    *)
(* are held when it returns, and those released without being held, which  *)
(* would be a double free or the use of a pointer never set.               *)
(***************************************************************************)
EXTENDS Integers, Sequences, FiniteSetsExt, SequencesExt

Outcome(made, held, wrong) == [made |-> made, held |-> held, wrong |-> wrong]

(* A step that allocates or opens r, one that only registers, and one that *)
(* cannot fail; label is where its failure leads.                          *)
Step(outcomes, label) == [outcomes |-> outcomes, label |-> label]
Opens(r, label) == Step({Outcome(TRUE, {r}, {}), Outcome(FALSE, {}, {})}, label)
Checks(label)   == Step({Outcome(TRUE, {}, {}), Outcome(FALSE, {}, {})}, label)

(* Successful steps have one outcome. *)
Done(step) == CHOOSE o \in step.outcomes : o.made

(* A label of the error path and what is released under it: a set for      *)
(* every call that releases.                                               *)
Label(name, releases) == [name |-> name, releases |-> releases]

(* What the calls from label on release, one after the other. *)
Undo(path, label) ==
    IF \E j \in DOMAIN path : path[j].name = label
    THEN LET from == CHOOSE j \in DOMAIN path : path[j].name = label
         IN  FlattenSeq([j \in 1 .. Len(path) - from + 1 |-> path[from + j - 1].releases])
    ELSE <<>>

Release(outcome, calls) ==
    FoldLeft(LAMBDA o, freed : Outcome(o.made, o.held \ freed, o.wrong \cup (freed \ o.held)),
             outcome, calls)

(* Every way the steps can go: all succeed, or one of them fails. *)
Create(steps, path) ==
    LET before(i) == UNION {Done(steps[j]).held : j \in 1 .. i - 1}
        failures(i) == {Release(Outcome(FALSE, before(i) \cup o.held, o.wrong), Undo(path, steps[i].label)) :
                            o \in {f \in steps[i].outcomes : ~f.made}}
    IN  {Outcome(TRUE, before(Len(steps) + 1), {})}
        \cup UNION {failures(i) : i \in DOMAIN steps}

-----------------------------------------------------------------------------
(* The parts.  p is the path of the pointer that holds the part. *)

Field(p, name) == Append(p, name)

DynarrayCreate(p) ==
    Create(<<Opens(p, "ERR_MALLOC"), Opens(Field(p, "elements"), "ERR_CALLOC")>>,
           <<Label("ERR_CALLOC", <<{p}>>)>>)

DynarrayFree(p) == {p, Field(p, "elements")}

QueueCreate(p) ==
    Create(<<Opens(p, "ERR_QUEUE"),
             Opens(Field(p, "eventfd"), "ERR_EVENTFD"),
             Opens(Field(p, "list"), "ERR_ELEMENTS")>>,
           <<Label("ERR_ELEMENTS", <<{Field(p, "eventfd")}>>),
             Label("ERR_EVENTFD", <<{p}>>)>>)

QueueFree(p) == {p, Field(p, "eventfd"), Field(p, "list")}

SocketpoolCreate(p) ==
    Create(<<Opens(p, "ERR_MALLOC"),
             Opens(Field(p, "ipv4_sockfd"), "ERR_CREATE_RAW_SOCKET_IPV4"),
             Opens(Field(p, "ipv6_sockfd"), "ERR_CREATE_RAW_SOCKET_IPV6")>>,
           <<Label("ERR_CREATE_RAW_SOCKET_IPV6", <<{Field(p, "ipv4_sockfd")}>>),
             Label("ERR_CREATE_RAW_SOCKET_IPV4", <<{p}>>)>>)

SocketpoolFree(p) == {p, Field(p, "ipv4_sockfd"), Field(p, "ipv6_sockfd")}

(* create_icmpv4_socket, and create_icmpv6_socket, which also asks for the *)
(* ancillary data the rebuilding of the IPv6 header needs.                 *)
IcmpSocket(r, options) ==
    Create(<<Opens(r, "ERR_SOCKET"), Checks("ERR_FCNTL")>> \o options \o <<Checks("ERR_BIND")>>,
           <<Label("ERR_BIND", <<>>), Label("ERR_SETSOCKOPT", <<>>), Label("ERR_FCNTL", <<{r}>>)>>)

SnifferCreate(p) ==
    Create(<<Opens(p, "ERR_MALLOC"),
             Step(IcmpSocket(Field(p, "icmpv4_sockfd"), <<>>), "ERR_CREATE_ICMPV4_SOCKET"),
             Step(IcmpSocket(Field(p, "icmpv6_sockfd"), <<Checks("ERR_SETSOCKOPT")>>),
                  "ERR_CREATE_ICMPV6_SOCKET")>>,
           <<Label("ERR_CREATE_ICMPV6_SOCKET", <<{Field(p, "icmpv4_sockfd")}>>),
             Label("ERR_CREATE_ICMPV4_SOCKET", <<{p}>>)>>)

SnifferFree(p) == {p, Field(p, "icmpv4_sockfd"), Field(p, "icmpv6_sockfd")}

(* tree_node_create forgets the node when it cannot make its children. *)
TreeNodeCreate(p) ==
    Create(<<Opens(p, "ERR_CALLOC"), Step(DynarrayCreate(Field(p, "children")), "ERR_DYNARRAY_CREATE")>>, <<>>)

(* A node that has no child is released with its data. *)
TreeNodeFree(p, data) == {p, data} \cup DynarrayFree(Field(p, "children"))

(* tree_free releases nothing of a root that does not exist: when the root *)
(* cannot be made, its data is left to the label after.                    *)
Tree(p) == Field(p, "tree_probes")
Root(p) == Field(Tree(p), "root")
Data(p) == Field(p, "tree_node_probe")

ProbeGroupCreate(p) ==
    Create(<<Opens(p, "ERR_MALLOC"),
             Opens(Data(p), "ERR_TREE_NODE_PROBE_CREATE"),
             Opens(Tree(p), "ERR_TREE_CREATE"),
             Step(TreeNodeCreate(Root(p)), "ERR_ADD_ROOT")>>,
           <<Label("ERR_ADD_ROOT", <<{Tree(p)}>>),
             Label("ERR_TREE_CREATE", <<{Data(p)}>>),
             Label("ERR_TREE_NODE_PROBE_CREATE", <<{p}>>)>>)

ProbeGroupFree(p) == {p, Tree(p)} \cup TreeNodeFree(Root(p), Data(p))

-----------------------------------------------------------------------------
(* The network layer and the loop. *)

NetworkCreate(p) ==
    Create(<<Opens(p, "ERR_NETWORK"),
             Step(SocketpoolCreate(Field(p, "socketpool")), "ERR_SOCKETPOOL"),
             Step(QueueCreate(Field(p, "sendq")), "ERR_SENDQ"),
             Step(QueueCreate(Field(p, "recvq")), "ERR_RECVQ"),
             Opens(Field(p, "timerfd"), "ERR_TIMERFD"),
             Opens(Field(p, "scheduled_timerfd"), "ERR_GROUP_TIMERFD"),
             Step(ProbeGroupCreate(Field(p, "scheduled_probes")), "ERR_GROUP"),
             Step(SnifferCreate(Field(p, "sniffer")), "ERR_SNIFFER"),
             Step(DynarrayCreate(Field(p, "probes")), "ERR_PROBES")>>,
           <<Label("ERR_PROBES", <<SnifferFree(Field(p, "sniffer"))>>),
             Label("ERR_SNIFFER", <<ProbeGroupFree(Field(p, "scheduled_probes"))>>),
             Label("ERR_GROUP", <<{Field(p, "scheduled_timerfd")}>>),
             Label("ERR_GROUP_TIMERFD", <<{Field(p, "timerfd")}>>),
             Label("ERR_TIMERFD", <<QueueFree(Field(p, "recvq"))>>),
             Label("ERR_RECVQ", <<QueueFree(Field(p, "sendq"))>>),
             Label("ERR_SENDQ", <<SocketpoolFree(Field(p, "socketpool"))>>),
             Label("ERR_SOCKETPOOL", <<{p}>>)>>)

(* network_free, in its order: it closes the timer of the timeouts only. *)
NetworkFree(p) ==
    <<DynarrayFree(Field(p, "probes")), {Field(p, "timerfd")}, SnifferFree(Field(p, "sniffer")),
      QueueFree(Field(p, "sendq")), QueueFree(Field(p, "recvq")),
      SocketpoolFree(Field(p, "socketpool")), ProbeGroupFree(Field(p, "scheduled_probes")), {p}>>

(* Blocking SIGINT and SIGQUIT is a resource too: what holds it is the     *)
(* process.                                                                *)
Signals(p) == Field(p, "blocked signals")

MakeSignalFd(p) ==
    Create(<<Opens(Signals(p), "ERR_SIGPROCMASK"), Opens(Field(p, "sfd"), "ERR_SIGNALFD")>>, <<>>)

LoopSteps(p) ==
    <<Opens(p, "ERR_MALLOC"),
      Opens(Field(p, "efd"), "ERR_EPOLL"),
      Opens(Field(p, "eventfd_algorithm"), "ERR_MAKE_EVENTFD_ALGORITHM"),
      Checks("ERR_EVENTFD_ALGORITHM"),
      Opens(Field(p, "eventfd_user"), "ERR_MAKE_EVENTFD_USER"),
      Checks("ERR_EVENTFD_USER"),
      Step(MakeSignalFd(p), "ERR_MAKE_SIGNALFD"),
      Checks("ERR_SIGNALFD"),
      Step(NetworkCreate(Field(p, "network")), "ERR_NETWORK_CREATE")>>
    \o [registered \in 1 .. 6 |-> Checks("ERR_EVENTFD")]
    \o <<Opens(Field(p, "epoll_events"), "ERR_EVENTS"),
         Step(DynarrayCreate(Field(p, "events_user")), "ERR_EVENTS_USER")>>

(* The labels of the six descriptors of the network (ERR_EVENTFD_SENDQ to  *)
(* ERR_EVENTFD_GROUP) and ERR_EVENTS name one place.                       *)
LoopErrors(p) ==
    <<Label("ERR_EVENTS_USER", <<{Field(p, "epoll_events")}>>),
      Label("ERR_EVENTS", <<>>),
      Label("ERR_EVENTFD", NetworkFree(Field(p, "network"))),
      Label("ERR_NETWORK_CREATE", <<>>),
      Label("ERR_SIGNALFD", <<{Field(p, "sfd")}>>),
      Label("ERR_MAKE_SIGNALFD", <<{Field(p, "eventfd_user")}>>),
      Label("ERR_EVENTFD_USER", <<{Field(p, "eventfd_algorithm")}>>),
      Label("ERR_MAKE_EVENTFD_USER", <<>>),
      Label("ERR_EVENTFD_ALGORITHM", <<{Field(p, "efd")}>>),
      Label("ERR_MAKE_EVENTFD_ALGORITHM", <<>>),
      Label("ERR_EPOLL", <<{p}>>)>>

PtLoopCreate(p) == Create(LoopSteps(p), LoopErrors(p))

PtLoopFree(p) ==
    <<DynarrayFree(Field(p, "events_user")), {Field(p, "epoll_events")}>> \o NetworkFree(Field(p, "network"))
    \o <<{Field(p, "sfd")}, {Field(p, "eventfd_user")}, {Field(p, "eventfd_algorithm")},
         {Field(p, "efd")}, {p}>>

-----------------------------------------------------------------------------
(* What is expected. *)

Failures(outcomes) == {o \in outcomes : ~o.made}
LeftBy(outcomes)   == {o.held : o \in Failures(outcomes)}

Created(outcomes) == CHOOSE o \in outcomes : o.made

loop == <<"loop">>
net  == Field(loop, "network")

(* Whatever fails, nothing is released that is not held.  The error paths  *)
(* of pt_loop_create and of network_create, with those of their parts.     *)
NothingReleasedTwice ==
    \A o \in PtLoopCreate(loop) \cup {Release(Created(PtLoopCreate(loop)), PtLoopFree(loop))} : o.wrong = {}

(* These constructors leave nothing behind when they fail. *)
PartsFailCleanly ==
    \A outcomes \in {DynarrayCreate(net), QueueCreate(net), SocketpoolCreate(net), SnifferCreate(net)} :
        LeftBy(outcomes) = {{}}

(* The network layer, too, except for the root of the scheduled probes     *)
(* without memory for its children.                                        *)
NetworkFailsCleanly == LeftBy(NetworkCreate(net)) = {{}, {Root(Field(net, "scheduled_probes"))}}

(* The labels of pt_loop_create are shifted by one: the descriptor just    *)
(* made is left open when it cannot be registered, and the one before it   *)
(* when a descriptor cannot be made.  Then the timer of the scheduled      *)
(* probes, which network_free leaves open, and the signals, which nothing  *)
(* unblocks.                                                               *)
LoopLeaves ==
    LeftBy(PtLoopCreate(loop)) =
        {{}, {Field(loop, "efd")}, {Field(loop, "eventfd_algorithm")}, {Field(loop, "eventfd_user")},
         {Signals(loop)}, {Signals(loop), Root(Field(net, "scheduled_probes"))},
         {Signals(loop), Field(net, "scheduled_timerfd")}}

(* pt_loop_free leaves the same two: a program that makes a loop again     *)
(* loses a descriptor every time.                                          *)
FreedLeaves ==
    Release(Created(PtLoopCreate(loop)), PtLoopFree(loop)).held =
        {Signals(loop), Field(net, "scheduled_timerfd")}

=============================================================================
