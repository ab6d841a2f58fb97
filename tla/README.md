# TLA+ models of libparistraceroute

libparistraceroute sends probes (IP packets with a chosen TTL and flow), matches
the ICMP replies with the probes that provoked them, and runs measurement
algorithms (traceroute, mda, ping) on top.  It is a single-threaded program built
around an `epoll` loop.  Nothing is persisted.  What is hard in it is not
parallelism but the order of things: `epoll_wait` reports several descriptors at
once, the handlers of one report run one after the other on state that the
previous ones have changed, packets come late or twice or not at all, and the
end of a measurement (by itself, by a signal, by `--timeout`) meets answers that
are already on their way.

Paths below are relative to `src/libparistraceroute/`.

## 1. Inventory

| part | state | operations | interacts with |
|---|---|---|---|
| network layer (`network.c`, `queue.c`) | `sendq`, `recvq` (list + eventfd), `probes` in flight, `timerfd`, `last_tag` | send a probe, process `sendq`, `recvq`, the sniffer, the timer; tag a probe, match a reply | called by the loop for each ready descriptor; throws `PROBE_REPLY`, `PROBE_TIMEOUT` to the instance that sent the probe |
| scheduled probes (`probe_group.c`, `tree.c`) | tree of delays, `last_delay`, `scheduled_timerfd` | add, delete, iterate, update the delay | feeds `sendq` |
| main loop (`pt_loop.c`, `event.c`) | `status`, two semaphore eventfds, signalfd, queue of user events, `cur_instance` | wait, dispatch, process instances, process user events, terminate | everything |
| algorithm instances (`algorithm.c`) | tree of instances, queue of events and data of each | add, throw, stop, delete | the loop, the user handler |
| traceroute (`algorithms/traceroute.c`) | `ttl`, counters, probes | handler of `INIT`, `PROBE_REPLY`, `PROBE_TIMEOUT`, `TERM` | sends probes, raises events to the user |
| mda (`algorithms/mda.c`, `mda/`, `lattice.c`) | lattice of interfaces, flows and their state | the same events | the same |
| ping (`algorithms/ping.c`) | counters, probes in flight | the same events | the same |
| user handler (`paris-traceroute.c`, `paris-ping.c`: `loop_handler`) | none | on `HAS_TERMINATED` stops and deletes the instance and terminates the loop | the loop, the instances |
| probes, layers, protocols, fields, bits (`probe.c`, `layer.c`, `protocol*.c`, `protocols/`, `field.c`, `bits.c`) | the octets of a packet, and layers that point into them | build, resize, set and extract fields, checksums, dissect, duplicate | programs, algorithms, network layer |
| sockets and sniffer (`socketpool.c`, `sniffer.c`) | raw sockets | send a packet; read an ICMP message, rebuild its IPv6 header | network layer |
| options (`options.c`, `optparse.c`) | a vector of options, static variables | gather the options, parse `argv` | the mains |
| the mains (`paris-traceroute.c`, `paris-ping.c`, `traceroute.c`) | settings | check the settings, resolve the destination, build the skeleton | all the above |
| containers (`vector.c`, `dynarray.c`, `containers/`) | blocks and cells | push, pop, delete, find | everything |
| addresses and whois | caches of names | resolve, print | the mains |
| filters, generators, portability | - | - | nothing on Linux, or no program |

What makes each part correct:

* network layer: each probe handed over is told of exactly once, and by the right
  event; a reply is given to the probe that provoked it; the timer is armed
  for the oldest probe as long as there is one;
* loop: blocking reads never block; the counters follow the queues; no event gets
  lost between the queues; a freed instance is not used; the loop ends;
* traceroute: hops are explored in order, one at a time, within the limits; the
  exploration ends for the right reason, once;
* scheduled probes: the timer is armed as long as a probe waits, for the shortest
  delay; none is forgotten;
* ping: the counters follow the probes; at most `count` probes, and a window of them at a
  time; one end, with the right statistics;
* programs and probes: what is sent is what the options ask for; packets are well formed and
  of one flow although their tag changes; an answer finds its probe from what routers quote;
* bits: a field is written and read where it is, whatever its place in an octet;
* creation and release: what a failing step leaves is released, once;
* mda: an answer is attributed to the interface that asked; no false link, and no link missed
  if the stopping points are enough; no more probes than they ask for; it never waits for nothing.

The behaviours that a test hardly reaches are listed in `PROJECT.json` under
`hazards`, each at its line.

## 2. Modules

| module | models | proofs |
|---|---|---|
| `Network` | the network layer, with real time in ticks | `NetworkProofs` |
| `PtLoop` | the loop, the queues of the instances and of the user, the user handler; the network and the algorithms are reduced to what the loop sees of them | `PtLoopProofs` |
| `Traceroute` | the handler of the traceroute algorithm | `TracerouteProofs` |
| `HopByHop` | what `traceroute.h` promises of it; `Traceroute` refines it | `TracerouteProofs` |
| `Counting` | sums, and occurrences in a queue, as sizes of finite sets: what the counters of `PtLoop` and `Ping` should amount to | `CountingProofs` |
| `Timer` | a timerfd as `update_timer` sets it, shared by the next two | `CountingProofs` |
| `ProbeGroup` | the scheduled probes and their timer | `PingProofs` |
| `Ping` | the handler of the ping algorithm and of its user, on top of `ProbeGroup` | `PingProofs` |
| `Lattice` | the lattice of `lattice.c`: links, siblings, walk | `MdaProofs` |
| `Mda` | the handler of the mda algorithm, on top of `Lattice`, and load balancers around it | `MdaProofs` |
| `Bound` | the table of stopping points of `bound.c`, against its definition by counting | |
| `PingReplies` | the event ping raises for an ICMP message, and its statistics | |
| `Containers` | vectors, arrays, lists, sets and maps in memory, against sequences, queues and functions | |
| `Options` | the tables of options and `opt_parse`, one argument or letter at a time | `ProgramsProofs` |
| `Bits` | `bits.c` and the fields of bits of the protocols, bit by bit | |
| `Protocols` | the six protocols: fields, default headers, checksums, dissection | `PacketProofs` |
| `Probe` | a probe from its skeleton to its reply: building, copying, tagging, quoting, matching | `PacketProofs` |
| `Programs` | the three mains, on top of `Options`, `Probe` and `Bits` | `ProgramsProofs` |
| `Creation` | creation and release of the loop and its parts, any step failing | |
| `MCNetwork`, `MCPtLoop`, `MCTraceroute`, `MCPing`, `MCMda`, `MCPrograms` | small instances for TLC | |

### Network

One action per handler: `SendProbe`, `ProcessSendq` (and `ProcessSendqFails`),
`ProcessSniffer`, `ProcessRecvq` (and `ProcessRecvqDiscards`), `DropExpired` (and
`DropExpiredNone`).  `EpollWait` takes the readable descriptors into `batch`; the
handlers of a batch run in any order.  The kernel's order of the ready list is not
specified, so any order is allowed.

`flying` is `network->probes`.  The code keeps `sending_time` and computes
`timeout - (now - sending_time)`; the model keeps the age of each probe, capped
at `Timeout + 1`, which is enough as the code only compares what is left with 0
and `EXTRA_DELAY`.  `timer` is what is left before the timerfd expires.
`ArmedFor` (module `Timer`) does what `itimerspec_set_delay` does: the fraction of second is
multiplied by 10^6 instead of 10^9.  `Lag` bounds the time between two readings of
the clock in one handler.

The environment: `Arrive` (replies on time, late, duplicate, foreign; a lost reply is one
that never arrives) and `Tick`.

### PtLoop

`pc` says where the loop is: at the head (`top`), in `epoll_wait` (`wait`), in
the dispatch, in the visit of the instances (`walk`, `visit`), in the user
events (`users`), or over (`exit`, or one of three faults: undefined behaviour
ends the run).  `algfd` and `userfd` are the semaphores; each event handled
reads one unit, and a read at 0 would block, which TLC would report as a
deadlock.  `twalk` visits inner nodes three times, so that
`pt_process_algorithms_terminate` throws `TERM` once or three times.

The user handler is `UserTerminated` (stop, delete, terminate), `UserEvent`,
`UserIgnores`.  An algorithm sends `ProbesPerRound[i]` probes, waits for all the
answers, then goes on or terminates.  This is what traceroute does
hop by hop; `Traceroute` has the details.

### Traceroute and HopByHop

One action per event of `traceroute_loop_handler`; the exploration of the next
hop that ends the handler is a part of the action, as in the code.  `probes`
holds the answer of every probe sent, so that the properties can say what the
counters `num_replies`, `num_stars`, `num_undiscovered` should amount to.
`ExploreHop` may fail after any number of probes of the hop (`MayFail`), and a
probe handed over may never be answered (`MayLose`).

### ProbeGroup and Ping

`group` is the tree of delays, with its timer: the tree has one level, and children of
one delay always leave together, so `children` counts them by delay.  `UpdateDelay`,
`Add` and `Fire` are `probe_group_update_delay`, `probe_group_add` and the
iteration that deletes the children it visits.  `Report` and `ProcessScheduled`
are separate, since other handlers of the same report may set the timer in between.

`Ping` extends `ProbeGroup` (paris-ping gives every probe a delay).  Its actions are the events
of `ping_loop_handler` and those of the user handler, between which the events
wait in `userq`: the user handler reads the data of the instance when it runs.
The network layer below is reduced to the numbers of probes flying and lost, and answers at any time;
the loop to the two queues.

### Lattice and Mda

`Lattice` keeps, for each element (its number is its index), the sequences of its successors and of
its siblings.  `Connect` fills the siblings as `lattice_connect` does, order and
repetitions included: an element that closes a diamond is pushed as its own sibling.
`Walk` is the depth-first walk, that visits an element once for each path to it; `Found` is a
walk whose visitor stops at the first element it looks for.

`Mda` has one action per event of `mda_handler`.  Each one ends with `Processed`, the
walk over `mda_process_interface` that sends the next probes and raises the end
if every interface is enumerated.  `interfaces[u]` is the `mda_interface_t` of the element
`u`; `ttl_flows` has the flows with their states in their order, as the code takes the
first that fits.  `flying` holds the probes not answered.  Both values that the visitors of the
walk return when they want it to go on have the same effect, which is why `Enumerated` is a
predicate.

The load balancers are per flow: a network is a sequence of routes that successive flow ids follow
in turn, so that the number of probes the stopping points ask for
(2, 3 and 4 for 2, 3 and 4 next hops) finds every branch, and a missed link is the fault of
the algorithm and not of chance.

`Bound` computes the real stopping points.  `bound_build` follows, over two vectors overwritten in
place, the probability of having found `j` next hops; the model does the same walk on numbers
of sequences of next hops, which are those probabilities over a common denominator, so
that there is no rounding.  `TableRight` counts the sequences themselves: the failures
stay within what is allowed, and no stopping point could be one less.

### Options, Programs, Protocols, Probe and Bits

`Options` reads one command line from left to right: `LongOption`, `StartCluster`, `ShortOption`,
`CountArgument`, `EndOfOptions`, as the branches of the loop of `opt_parse`.  The options of the
three programs are gathered in a vector of `Containers`; an option found by a prefix, or by
a letter, is the first one in its order.  Numbers and the texts that stand for them are
constants.  Where `opt_parse` or a callback reads beyond an array the outcome is `"undefined"`.

`Programs` adds the mains: `TracerouteMain`, `PingMain`, `ExampleMain` check the settings and make
the record `program`, which says with which steps the skeleton is built.  `Probe` then takes
these steps (`SetProtocols`, `SetAddress`, `SetTtl`, `SetPorts`, `ResizePayload`, `WriteFirst`,
`SetTarget`), duplicates the skeleton (`SendProbe`), tags and sends it (`ProcessSendq`).
The environment quotes it in full or in part (`RouterAnswers`, `TargetAnswers`), and
`ProcessRecvq` dissects the message and looks for the probe.

A packet is a sequence of words, one per field of `Protocols`, with checksums in one's complement
modulo `W - 1`.  A layer is a place in it, as in the code a pointer into the buffer, and a size that is
kept apart.  `routed = FALSE` makes `finalize` fail, after which the code goes on.

`Bits` puts a name in place of each bit, so that one evaluation tells where every bit goes.
`BitsWrite` follows the three parts of `bits_write` (first octet, whole octets, last octet)
with the pointers that each one moves or forgets to move, and ends with `"done"`, `"refused"` or
`"aborted"`.

### Pure parts evaluated in the runs

`RepliesAreRight` (`MCPing`), `CreationIsRight` (`MCPtLoop`) and `ContainersAreRight` (`MCPrograms`) are
assumptions of the MC modules.  They state, of modules without state, facts that TLC evaluates when
the runs start:

* `PingReplies`: the event raised for each of the 65536 types and codes of both versions is the one that
  RFC 792 and 4443 give, except that "network" and "host unreachable" are swapped
  (`Swapped`); means and deviations are those of their definitions;
* `Containers`: after any of some ten thousand histories of operations the contents are those of a
  sequence, a queue or a function;
* `Creation`: a constructor is a sequence of steps and an error path, and an outcome is what is held
  when it returns.  `NothingReleasedTwice` says that no failure releases what is not held;
  `LoopLeaves` and `FreedLeaves` say exactly what is left (section 4).

## 3. Runs

Bounds are in the `.cfg` files.

| run | question | bounds |
|---|---|---|
| `network` | is every probe told of once and rightly, is the timer right? | 3 probes, 4 tags, timeout of 3 ticks, 1 packet waiting at a time.  Three probes are needed to remove one from the middle; a second of 3 ticks gives timers shortened, exact, and null.  Ages, late replies and duplicates are unbounded.  Probes are symmetric. |
| `network_live` | is every probe sent answered or timed out in the end? | 2 probes, no symmetry |
| `network_freeze` | (violation) is the timer ever off under flying probes? | as above |
| `loop` | does the loop end by itself and on a signal, without fault, its semaphore exact? | 2 instances, one with 2 probes a round, the other with 1; one signal; probes may be lost |
| `loop_all` | do the reads never block, does no answer get lost inside, whatever happens? | 2 instances, 2 rounds of 1 probe, a signal, the maximum time, lost probes, rejected options |
| `loop_timeout` | (violation) is an answer handled after `TERM`? | 1 instance, the maximum time |
| `traceroute` | are hops explored as promised, with the right verdict, and does the exploration end? | every option record up to TTL 4, 2 probes per hop, 3 undiscovered hops, and up to TTL 2 with 3 probes per hop; lost probes, failures, `TERM` at any time |
| `ping` | does the timer serve the scheduled probes, do the counters follow them, are the statistics right, does the ping end? | 0, 1, 3 and 5 probes with a window of 3, so that the window slides and two answers may schedule at the same delay; longer interval with 2 and 3; lost probes; `TERM` twice |
| `mda` | do answers find their interface, are the links found those that exist, does the algorithm go on until all is found and no longer, and are the stopping points right? | nine networks: one route with up to 2 lost answers, with a silent hop, with a destination that cannot be reached; a diamond, two chains, two pairs of branches of unequal length (interfaces with several ttls, the hard case of `mda_search_source`), three branches, an uneven spread; `TERM` once.  Stopping points up to 4 next hops, by enumeration of the sequences |
| `mda_silent` | (violation) is a flow under test forgotten when its probe times out? | two branches, one with a silent hop |
| `programs` | from the command line to the reply: is the destination the operand, are the packets well formed and what was asked for, of one flow, and does an answer find its probe? | 65 command lines of the three programs, accepted and refused, with clusters, prefixes, `--`, options that disagree; 4 hosts of one or two families; 2 packets, enough for an answer to find another probe than its own; tags from 0 or wrapping on the way; words of 8 bits, the constants being chosen distinct so that no two fields agree by chance; with and without a route; quotations in full and cut |
| `tcp_flag` | (violation) does an assertion fail on some command line? | 3 command lines of paris-ping |

The bounds of `Bits` are the fields of the protocols: `AllBitsRight` takes every field of bits of
`ipv4.c`, `ipv6.c` and `tcp.c`, and reads at every offset and length up to 16.

`CHECK_DEADLOCK FALSE` is said of traceroute, ping, mda and programs only: an instance rests when it has ended or
waits for an answer, and a program when it has refused its options or sent its packets.

Every property has a mutant: the definition of the model that a plausible bug
would change, in the form the bug would give it (the `Mut...` operators, each just before
the definition it would replace).  They are not used by the specifications.

### Fairness

* `Network!FairSpec`: the loop calls `epoll_wait` and handles what is reported
  (it is one thread that does nothing else), and time passes.  Nothing is asked of
  the network or of the algorithms.
* `PtLoop!FairSpec`: the thread runs when it can; time passes; a probe in flight
  is answered or at least timed out, which `network_live` shows as long as
  the timer is not frozen.
* `Traceroute!FairSpec`: the events thrown to the instance are handled, and each probe sent
  is answered.
* `Ping!FairSpec`: the same, for the events of the instance and of the user, the timer of the
  group, and time.
* `Mda` has no fairness.  That it does not stop too early is said without: `NeverStranded` (some
  probe is in flight until the end) with the finite number of probes `StoppingRule` gives.

## 4. What the models show

Four runs exhibit a disagreement of the code with its comments or its help (`findings`):

* `network_freeze`: a reply to the oldest probe at the tick the next one expires sets
  the timer to 0, which disarms it.  `EXTRA_DELAY` prevents this in
  `network_drop_expired_flying_probe` only.
* `loop_timeout`: `--timeout` (180 s by default) throws `TERM`, the data are freed,
  and the next answer dereferences `NULL`.
* `mda_silent`: the probe of a flow under test times out, `mda_timeout_flow` looks for the flow in the
  wrong state, and it counts as on its way for ever.  With one branch of a load
  balancer silent (the star has siblings), nothing is sent any more and the enumeration never ends.
* `tcp_flag`: `paris-ping -T` writes one bit inside an octet, and `assert(!offset_out)`
  (`bits.c:258`) ends the program: the assertion stands for "the rest starts at an octet", and does not hold
  when there is no rest.  `BitsRight` shows that the fields that are reached are otherwise
  written where they belong, and that no other one is silently misplaced.

The models show others, not kept as runs of their own.

Loop, network and algorithms:

* after a signal, or with `--timeout`, an answer is thrown to an instance that the user handler has
  deleted, because the flying probes keep it as their caller (`network.c:691`; `pc = "freed caller"`
  in `PtLoop`).  `NoFault` is stated for a loop that nobody interrupts;
* the timer goes off up to a second early (`network.c:173`), and its handler then
  finds no expired probe although its comment says there is one (`network.c:719`): harmless, as
  `NoEarlyTimeout` and `TimerRight` show, but for the turns of the loop it costs;
* an instance that ends by itself when `--timeout` expires raises `HAS_TERMINATED`
  twice, and the user handler reads the instance it has freed (`pt_loop.c:451`);
* a signal handled after `pt_loop_terminate` in the same report overwrites the status
  (`pt_loop.c:535`);
* if the last probes could not be sent the loop sleeps for ever, `--timeout`
  or not (`pt_loop.c:457`): `Ends` excludes it by `Undisturbed`;
* `pt_stop_instance` counts an event that `pt_del_instance` clears: after a `TERM`
  the semaphore stays above 0, which is why `CounterExact` is stated for a loop that
  nobody has told to end.  `ReadsNeverBlock` holds in all cases.
* a probe added with a shorter delay postpones those that wait (`probe_group.c:77`): their delays
  are counted again from the moment it is sent.  In ping they wait until the window stops
  sliding;
* an interval that is not a whole number of seconds is shortened to little more than
  its whole part (`network.c:173`), here without any check of the clock: the `ping`
  run uses whole seconds;
* a reply and `TERM` handled before the user handler runs make it dereference `NULL`
  (`paris-ping.c:262`): `Ends` allows it after `TERM`;
* the statistics count as transmitted the probes that are answered or timed out, not those sent
  (`ping.c:193`);
* mda, one answer lost where a hop has several interfaces: the timeout of the first probe an
  interface has sent makes a star at once (`mda.c:731`, "XXX to_send ??"), although others may be on
  their way, and the star then tests flows without end, since they all reach its sibling.  The
  comment at `mda.c:645` ("we cannot have several parallel interfaces with stars") does not hold either.
  This is why the networks of `mda` with load balancers lose nothing;
* mda, no answer lost, if the stopping points let an interface miss a next hop: with the routes
  `<<a, Dst>>`, `<<b, Dst>>`, `<<c, a, Dst>>`, `<<c, a, Dst>>` and the stopping points of the run, the
  root may not meet `a`, which is then known at ttl 2 only.  When a flow under test reaches it at ttl 1,
  `mda_handler_reply` gives it the flow (`mda.c:662`), but not the ttl, which comes with a source
  (`mda.c:615`).  The probes that `a` then sends on this flow have no source when they are answered
  (`mda_search_source` wants the ttl among those of the interface): they count as sent, never as received,
  and mda waits for ever.  So `InFlightExact` and `NeverStranded` are about networks, like those of the run, whose
  next hops the stopping points meet;
* mda raises `HAS_TERMINATED` once more for each flow under test that is answered after the end
  (`mda.c:834`), and the user handler then reads data it has freed.  `NoLateDiscovery` shows that
  these are the only answers to come (`EndsWithNothingToLearn`: for any network);
* `MDA_NEW_LINK` is raised for the last reply only (`mda.c:658`): with several next
  hops and a reply at the end, one link is told of;
* `lattice_connect` pushes the element that closes a diamond as its own sibling, twice: the only interface
  of a hop then has 3 siblings, and mda tests flows where it could make them;
* `enumeration_done` is never set: `END_HOST` and `SIMPLE_ROUTER` are never given (`mda.c:316`);
* an ICMP error is an ordinary reply to traceroute, whereas `traceroute.h:65`
  makes it a reason to stop;
* with `-m 255` the TTL of traceroute, a `uint8_t`, wraps and the exploration starts over at 0
  (`traceroute.c:466`);
* two answers of ping handled within an interval schedule two probes for the same instant
  (`ping.c:687`);
* ping tells "network" and "host unreachable" one for the other (`ping.c:213`), in both versions.

Creation and release (`Creation`):

* the labels of `pt_loop_create` are shifted by one.  When `eventfd_algorithm` or `eventfd_user` cannot be
  made, the descriptor before it stays open; when it cannot be registered, it stays open itself;
* `network_free` does not close `scheduled_timerfd`, which the error path of `network_create` does: one
  descriptor is lost at each `pt_loop_free`;
* `tree_node_create` loses the node when its array cannot be made;
* SIGINT and SIGQUIT stay blocked after a failure and after `pt_loop_free`;
* nothing is released twice on these paths.  `pt_loop_free` then lets `twalk` free the instances: it
  visits an inner node three times, and frees it three times, if several are left;
* `fcntl(F_SETFD, O_NONBLOCK)` (`sniffer.c:61`) sets another flag than the one its comment says: the sockets
  stay blocking.

Probes:

* a quotation of ICMP probes and of TCP ones in 8 octets does not hold the checksum, or holds
  it where the tag is a part of what load balancers hash: `PathKept` is stated of UDP and TCP, where the man
  page speaks of all probes; `RightProbe` is stated of quotations that hold the tag;
* echo replies, and the answers of the destination itself over UDP or TCP, are never matched: the tag is
  only looked for at the depth of a quotation (`network.c:281`);
* after `finalize` has failed `probe_payload_resize` returns early and leaves the size of the payload
  behind (`probe.c:687`): `Tiled` is stated of skeletons with a route;
* a source address given with `-I` to paris-ping is overwritten by `finalize` (`ipv4.c:107`,
  `ipv6.c:235`);
* tag 0 is a legal tag, and means "no checksum" in UDP;
* `bits_extract` is wrong when a field is a whole number of octets at an offset in an octet, and when
  it has more than 8 bits and ends at the border of an octet; `bits_write` is wrong for more than an
  octet when a part is copied whole, as the copy moves no pointer.  No field that a program reaches is
  concerned (`ExtractsWrong`);
* `tcp.c:291` reads two octets beyond a TCP segment with an odd end; the traffic class is shifted by 8
  instead of 20 (`sniffer.c:258`); a comparison of `icmpv6.c:168` is always true.

Programs and options:

* the vector of options of paris-traceroute holds 25 options in 25 cells, and `opt_parse` looks for a cell of
  zeros after them: an unknown option reads beyond the array (`ZeroEnded`);
* `opt_store_double_lim_en` writes a fourth cell in an array of three (`paris-ping.c:81`, option `-i`);
* the range of the third value of `-B` is checked on the second (`optparse.c:515`);
* the comment at `paris-traceroute.c:396` says that `-T` makes 80 the default port; line 391 tests the ports of UDP
  first, whose option has a default, so that it does not.  The help of both programs swaps
  source and destination in the default ports;
* the destination is `argv[argc - 1]`, whatever `opt_parse` has left: `DestinationIsOperand` shows that only
  one operand and in the last place is accepted;
* `--protocol` is not looked at by `check_protocol`, so that `-T --protocol udp` is accepted, and
  `paris-ping --protocol tcp` may leave no room for the tag (`paris-ping.c:442`);
* `paris-ping -6 -T` is refused with the default size, which has no room for the headers and the tag;
* the man page says that the default algorithm is mda; the code says paris-traceroute.

## 5. What is proved

`NetworkProofs` proves, for any number of probes and any value of the constants
that `NetworkAssumption` allows:

* `TypeCorrect`: `TypeInv`, the types, and that a handler never pops an empty queue;
* `OldestFirstHolds`: the list of flying probes is sorted;
* `TimerIsRight`: `TimerRight`, on a running, a disarmed and an idle timer;
* `ExtraDelayKeepsTimer`: `DropKeepsTimer`, if `Lag <= ExtraDelay`.

The inductive invariant is `IInv`: types and ready queues (`TypeInv`), `Sorted(flying)`,
and `Covers(flying, timer)`, which joins the three facts on the timer.  None is
inductive alone: a removal keeps the timer right only because the
list is sorted (the probe that becomes the oldest was younger than the one the timer was
set for), and `network_get_oldest_probe` is only meaningful if it is.  The lemmas come in
three groups: arithmetic of `ArmedFor` (the timer is never set later than the
delay asked for, and never to 0 for a positive delay), sequences (removing an
element or a prefix, appending, ageing keep the list sorted), and one lemma per
operator of the model on its type.

The second part of the module is about what callers are told:

* `EveryProbeAccounted`: `Accounted`, no probe is lost, in two places, or told of twice;
* `NoTimeoutIsEarly`: `NoEarlyTimeout`, only probes without time left time out;
* `FlyingTagsDistinct` and `RepliesFindTheirProbe`: `TagsDistinct` and `RightReply`, if there are no more
  probes than tags (`EnoughTags`).

Its invariants are `DInv`, that the probes in `sendq` and among the flying ones are those
that are pending, once each, so that a position in a queue stands for its probe; and `TagInv`,
that replies and flying probes hold the tag of their probe (`Tagged`), and that the tags in use are the last
ones taken, no more of them than probes that have left `sendq` (`Issued`).  `EnoughTags` is what makes
this inductive: a tag would be taken again when as many have been taken since as there are tags
(`Behind`).  The code relies on it without a check: 2^16 tags, far more than
probes in a run.  The theorem asks more than is needed, since tags may be
taken again once no reply to their probe can come; for that the code would have to bound how late a reply is.

`PingProofs` first proves `TimerServesGroup`, for any delays and any number of
probes: `RootIsMin` and `TimerArmed`.  The inductive invariant `GroupOK` adds that
`last_delay` is the delay of the root whenever a probe waits (`LastFollows`), and
that the timer is off exactly when the root has the delay of an empty group (`Armed`).
The argument is in `UpdateDelayOK`: whatever `last_delay` was, the difference that
`probe_group_update_delay` gives to the timer is positive, because its test resets
`last_delay`.  The theorem is about one probe scheduled at a time by anybody;
ping schedules a window of probes in one action, which is a sequence of such steps.

`TracerouteProofs` proves, for any options, any answers in any order, probes lost or
refused, and TERM at any time:

* `TracerouteTyped`: `TypeOK`, whatever the options;
* `TracerouteRefines`: `Traceroute` implements `HopByHop` (`ImplementsHopByHop`), if `NoWrap`.

`NoWrap` asks that `max_ttl` be less than 255: the code keeps the TTL to come in a
`uint8_t`, and `max_ttl + 1` must fit.  The handler never looks at the probes it has sent; it takes a hop
for explored when `num_replies % num_probes` is 0.  `HopInv` says why that is right: the answers
and the probes without one add up to all probes (`Shape`), which are whole hops (`Whole`) unless an error
cut the last one short (`Cut`), and only the last hop has probes to wait for.  The
arithmetic is in `WholeHops` and `PartOfHop`: the next answer makes a multiple
exactly if it is the last one of a whole hop, and never after an error.  `Verdict` adds that at most
one reason to stop is ever raised, which is what gives `Outcome` of the refinement mapping its value.

On top of it comes `VerdictsAreRight` (`RightVerdict`).  Its invariant, `Tally`, says what
`num_stars` and `num_undiscovered` mean between two answers: stars are no more than the answers of the
current hop, and as many only if nothing else has been answered there; a hop with a reply in it has
set `num_undiscovered` to 0; and that many hops just behind the current one are made of stars.  That is
not obvious from the code, which counts timeouts in a row rather than timeouts of a hop.

`CountingProofs` has what the other proofs share: lemmas on lists, what `update_timer` makes of a
delay, and the lemmas on counters: how a sum over a finite set changes when one term does, and
how the occurrences in a queue do when something is appended, taken, or copied several times.  Sums
are sizes of sets of pairs, which is what brings them within the reach of the prover: no induction over
the data is needed, but bijections between these sets.

`PtLoopProofs` proves, for any number of instances, probes and rounds, with signals, the maximum time,
probes lost and options refused:

* `LoopIsTyped` (`TypeOK`);
* `ReadsDoNotBlock` (`ReadsNeverBlock`): neither semaphore is ever read at 0;
* `CounterStaysExact` (`CounterExact`, as long as the maximum time is not up);
* `NoAnswerIsLost` (`AnswersAccounted`);
* `CalmHasNoFault` (`NoFault`): no undefined behaviour in a loop nobody interrupts;
* `NoAnswerAfterOneSignal`: `NoAnswerAfterTerm`, if the time is not up and there is one signal at
  most.

`PlaceInv` relates the place of the loop to the queues: what of the current queue has been handled, which
instances are still to be visited, and that the events of a deleted instance are gone.  With it
`algfd >= Pending` is inductive, and `algfd = Pending` until something has been told to end (`ExactInv`).
`AnswerInv` is `AnswersAccounted` made inductive, with the probes of instances that are still to start.
The last two theorems need to know what an instance has been told.  `CalmInv` says that, as long as nobody
interrupts the loop, an instance that has raised `HAS_TERMINATED`, or has no data yet, waits for nothing,
and that no event of a deleted instance is left for the user.  `StormInv` says that after one signal an
instance without data has answers on their way only if `HAS_TERMINATED` is in the queue of the user, and
its loop is in its last turn or not allowed to visit it; what is in its own queue is being flushed.  With two signals this fails, and TLC
shows it: the second one is read after `TERM` has been handled and puts the status back to
`INTERRUPTED` (`pt_loop.c:535`), so that instances without data are visited again.

Of ping itself `PingProofs` proves, for any count, interval and timeout, any answers, losses and `TERM`s:

* `WindowHolds` (`WindowRespected`): `WindowSize` is the arithmetic of the first window, rounded up, and
  `Window` the invariant of the counters;
* `ProbesInFlight` (`InFlightExact`).  `OnTheWay` is the sum of the property; `OnTheWayStep` says that only
  the handlers of `INIT` and of an answer change it, by what they do to `num_probes_in_flight`;
  `InitFirst` (nothing is on its way before `INIT` is handled) makes it inductive;
* `StatisticsAreRight` (`StatisticsRight`).  `LiveStats` says that an answer counted is a loss, has given
  its round-trip time, or waits as `PROBE_REPLY` in the queue of the user, and that the end comes after all
  of them.  `Copies` says the same of the copy of the data that `TERM` makes.  No answer
  follows the end because none is on its way: `StatInv` contains `InFlightExact`;
* `FiringsAreSpaced` (`FiringsSpaced`), for intervals of whole seconds (`WholeIntervals`; a fraction is cut
  short, see 4).  The invariant `Spaced` says that what is left before the timer expires and what
  has passed since the last firing make an interval; a probe that an answer schedules may set the timer
  again, for the difference of two delays, which are multiples of the interval;
* `PingTimerArmed` (`TimerArmed`): a window of probes scheduled in one action keeps the invariant of
  `ProbeGroup`.

`WindowAssumption` says that the delays of the probes are in `Delays`.  `AddProbes` is a
recursive function; what is proved about it is by the least counterexample (`AddedInduction`).

`ProgramsProofs` proves `DestinationIsTheOperand` (`DestinationIsOperand`), for any command line, any
tables of options, any letters and prefixes, and any hosts.  `opt_parse` blanks an argument it
uses and counts the others, and the mains trust that count and the last argument.  The invariant,
`CommandLineInv`, says that operands come last: nothing is counted before `skipping` is set, and while
nothing or one argument is counted, all that precedes it is blank.  So a count of 1 leaves one argument
that is not blank, the last one.  `ProgramsAssumption` says that a name `getaddrinfo` knows has an address
at least, that the address in the example program stands for itself, and that `getaddrinfo` refuses an empty
name, which is what tells an operand from an argument that was used.

It proves `SettingsStayInRange` (no run checks it): whatever is typed, the ports that were given are ports, the
number of hops of a traceroute is in 1 .. 255 and a protocol is one of three.  The prover cannot compute
`OptionTable`; each static array of the code has a lemma instead, that its options do what their data needs
(`GoodOption`: only `opt_store_int_lim_en` writes a port), and `GatheredTable` says that the sequence of calls to
`options_add_optspec` keeps that.  Each callback then keeps the settings good (`EffectsGood`), the one that writes past
`send_time` too (`StoreOverrunGood`), as what it destroys is a size, a flow label or padding.

On top of `PacketProofs`, which has what a program makes of a packet, it also proves six promises
about the packets, for any width of a word (`W`), any payload, tags, ports, times
to live and flows, with a route and without, and any answers and losses:

* `ProbesTile` (`Tiled`): the layers of every probe on its way cover its packet;
* `ProbesRemember` (`Remembered`): an answer brings back the time to live and the flow that were asked for;
* `FlowsKeepTheirPath` (`PathKept`): all packets of a flow look the same to a load balancer;
* `AnswersFindTheirProbes` (`RightProbe`), if no more packets leave than a tag has values
  (`MaxProbes <= W`): a quotation that goes as far as the tag takes the probe it quotes off the list and no other;
* `PacketsWellFormed` (`WellFormed`): the lengths and the checksums of every packet that leaves are right;
* `PacketsAreAsAsked` (`AsAsked`): every packet of `paris-traceroute` and `paris-ping` goes where, over what and
  between the ports that the command line asks for.

The argument goes from words to programs.  `LoopSteps` describes the loops that update a probe
(`UpdateProtocol`, `SetLengths`, `UpdateChecksum`), and `CoreAvoids` the words they never write: `Core`, with
the time to live, the addresses and the first words of the transport header.  `Made` says what a probe is: three
layers, at the places and with the sizes of its protocols, over a packet that can be dissected again into the same
headers (`Packet`); every step of a main that builds the skeleton keeps it, and so do a copy, which does
dissect the packet, a tag and an update.  `Own` says that a packet differs from the one of the skeleton by the
time to live and the flow asked for it alone, as far as a load balancer can see, and that its source is the one
the kernel would choose.

The inductive invariant, `PacketInv`, has a case for each age of a program: its options are not read
(`Unknown`), its skeleton is not begun (`Ready`), or there is a skeleton (`Running`), no probe has left it
before it was finished, and each probe that is queued, flies or is on the wire is `Made` and `Own`.  That last
part is what compares two packets of a flow: both are compared with the skeleton, which changes no more.  Without
a route `finalize` fails and the payload layer of the skeleton stays empty, so that `Skeleton` needs the
case `routed`; copies are whole again since they are dissected.  `PacketInv` is kept by the mains whatever the
options are (`MainReady`); `ProgramsInv` adds that nothing is built while the command line is read.

For the answers, `WrapFour` says what the dissection of a reply finds, if the quotation is not cut before the
checksum: the headers of the reply, then those of the quotation, so that the fourth layer has the tag (`QuoteIsPacket`).
The invariant is `TagInv`: the packet that left n tags ago holds the tag that many before `lastTag` (`Back`,
`TagsFollow`), a flying probe is a packet that left, with the bytes it had (`FlyingLeft`), and the message about to
be read quotes one that left (`AnswerLeft`).  `SwapWrites` is what makes the tag end where it is read: the word that
keeps it and the word that keeps the checksum are exchanged, wherever the protocol has them.  With no more packets
than tags, two packets on the wire then never hold the same (`TagsDiffer`).  The code has no bound on its packets: this
is the same hypothesis as for `RightReply` of `Network`.

For the checksums, `HeaderAdds` and `SegmentAdds` say that a checksum just computed makes its words add up to a
multiple of `W - 1`, and `TagIsValid` that the tag does no harm: it is written where the payload has room
before the checksum is computed, and then changes places with it, which changes no sum (`TotalSwap`).
`SumIsTotal` turns `WordSum` into the size of a set of pairs (`Total` of `CountingProofs`), which is how the counters of
the other proofs are treated too.  `csum` adds the carries back twice, and `CsumAdds` says that this is
enough for sums below `W * W`.  So `Sound` also says that words are words, that the
payload of a probe is zeros until it is tagged, that its lengths are right, and that it is no longer than a word can
say, pseudo-header included.  That is why the steps of a main are counted: each may add two words of payload
(`Budget`).  `SoundInv` joins this to the ages of a program.  It begins with `MainSound`: the three mains hand over words only.  That
comes from `SettingsStayInRange` for ports and hops, and from `ProgramsAssumption` for addresses and flows: the
words of `Hosts` are words, and so are `FlowBase` and `FlowBase + 1`, the two flows of the programs.

For what was asked, `AskedInv` says that, once a main has run, its program is what the settings and the last
argument name (`ProgramAsked`) and stays so, since options are only read before; that the skeleton holds the
destination and the ports, unless the step that writes them is still to come (`Drawn`); and that the flows of probes
are those of the program.  `Drawn` also says that `probe_set_protocols`, which writes default headers, is never behind the
steps that write over them: the lists of steps that the mains make have it first (`Orderly`).  The steps that
follow, an update, a resize, the flag of `paris-ping`, leave those words alone (`Marks`, `Alike`), and by `Own`
so do copies and tags, but for the source port of a flow.  `TracerouteProtocolAsked` and `PingProtocolAsked` are
about `get_protocol_name` of each program: they disagree on which option wins, but both pick one that was given.

`MdaProofs` proves `InterfacesStop` (`StoppingRule`), for any network, any stopping points (they need not
grow), any order of the answers, any losses and stars, and `TERM` at any time.  The invariant, `MdaInv`,
is that an interface has sent no more than its stopping point (`Within`), and that links lead to
interfaces (`IsLattice`).  A visit sends at most what the stopping point leaves (`SendNextSound`, with
`UsedFlowsCount`: no more flows are used than are asked for); a walk visits only interfaces of the lattice
(`WalkType`), so that the visits of a whole walk keep the invariant (`VisitsSound`); and an event only adds
links (`Grows`), after which an interface stops later or at the same point (`StopsLater`).  `Walk`,
`FlattenSeq` and `FoldLeft` are recursive functions: each has a lemma that the function exists, and what is
proved about it is by the least counterexample.

It also proves `EndsWithNothingToLearn`: `NoLateDiscovery` holds for any network, stopping points, order of answers,
losses and stars, as long as `FlowIdsFit`, that is until more flows have been made than the 16 bits of a
`flow_id` tell apart.  After that the answer to a flow under test may be taken for that of an older flow.  The argument
has two halves.  The walk that ends `mda_handler` raises the end when it meets enumerated interfaces only
(`Finished`); it has then been wherever links lead from the root, so that any search, whatever it goes below,
visits enumerated interfaces only (`WalkReachesAll`, `FoundOnWalk`).  On the other side, an answer that would find
a source is `Owed` to it: it holds a flow, not under test, that was sent from its ttl.  `Tokens` says that the answers
an interface has counted and the probes owed to it are no more than those it has sent (`SentEnough`).  So a source is never
enumerated, and the two halves exclude each other (`FinishedNoSource`).  `SentEnough` is half of
`InFlightExact`, the half that holds for every network.  To be inductive it needs that two probes in flight have
different flows (`ProbesDiffer`), that no two interfaces have sent the same flow from the same ttl, and that an
interface that can still send a flow has it from the highest ttl (`FlowsDiffer`), and that no flow in
flight is held further on (`ProbesAhead`): then an answer moves its flow one hop on, and is owed to one interface.
`LateInv` puts it together with `MdaInv`, and `LateNext` shows that every event keeps it: a visit makes
new flows or sends available ones (`SendNextOrdered`, `TestFlowsOrdered`), a reply links, gives the flow to who answers
and deletes that under test (`RepliedFollows`), a timeout counts, marks, and may add a star
(`TimedOutFollows`).  Once the lattice is finished no answer has a source, so that nothing is counted, it stays
finished and no probe is sent (`StaysFinished`).

Only model-checked:

* liveness (`Ends`, `Concludes`, `EveryProbeAnswered`), which is out of the prover's reach;
* of `Mda`, `InFlightExact`, `TestsInFlight`, `NeverStranded`, `FlowsRight` and `LinksRight`.  They do not
  hold for every network: as section 4 shows, they need the stopping
  points to meet all the next hops, and `TestsInFlight` fails besides with the first answer lost to a flow under test
  (`mda_timeout_flow` looks for it in the wrong state).  When `flow_id` wraps (it is sent in 16 bits
  and kept in a word), as it does on the networks of the run with a `FlowIdWidth` of 2, `InFlightExact`, `TestsInFlight`
  and `NeverStranded` fail;
* `BitsRight` and `StoppingPointsRight`, which are about the tables of the code itself rather than for every
  value of a constant: TLC evaluates them.

## 6. What is not modelled

* Failures of `malloc`, `timerfd_settime` and `eventfd` after the creation, and descriptors in error (the
  loop closes them and goes on).
* The walk that frees the instances left when the loop is released.
* The order of the octets in a field, and widths other than that of a word: a word stands for one field
  in `Protocols`; `Bits` has the bits.  Extension headers of IPv6.
* Text: `getaddrinfo`, `strtol` and `strtod` are constants; whois, caches of names, help and printing.
* `filter.c`, `generator.c`, `bitfield.c`, `node_query.c` and `os/`: no program reaches them, or they do
  nothing, or they replace system calls that Linux has.
* mda: load balancing per packet, routes with a loop (the lattice would have a cycle, and its
  walk no end), lost answers behind a load balancer (see 4); the rounding of `bound.c`; `main` at
  the end of that file.
* `network->timeout = 0` (`-w 0`): the timer would be disarmed for every probe.

## 7. Plan

Done: `Network`, `PtLoop`, `Traceroute`, `HopByHop`; `ProbeGroup`; `Ping`; `Lattice`, `Mda`, `Bound`;
`Protocols`, `Probe`, `Containers`, `Options`, `Bits`, `Programs`; `PingReplies`, `Creation`; the
proofs of section 5.

Left, in this order:

1. Which networks, and which choices of the flows, make the other half of `InFlightExact` of `Mda` (an interface
   waits only for probes that are in flight) and what follows from it true, until `flow_id` wraps.
2. Composition: `Network` under `PtLoop` with `Traceroute` as the instance, to show
   that what `PtLoop` assumes of the network layer is what `Network` does.
3. Larger words in `Programs`, for the fields that share an octet.
