------------------------------- MODULE Probe -------------------------------
(***************************************************************************)
(* The life of a probe packet (probe.c, layer.c, packet.c, and the tagging *)
(* and matching of network.c): a program builds a skeleton step by step,   *)
(* an algorithm duplicates it and sets what distinguishes its probes, the  *)
(* network layer tags and sends each copy, a router quotes it in an ICMP   *)
(* error, and the quotation is dissected and matched with the probe.       *)
(***************************************************************************)
EXTENDS Protocols

CONSTANTS
    StartTags,  (* values of last_tag to start from: 0, or what a long     *)
                (* session has left                                        *)
    Router,     (* the address of the router that answers                  *)
    MaxProbes   (* bound: packets sent in a behaviour                      *)

NoFlow == -1
NoTtl  == -1

(* What a program makes of its options: the protocols of its probes, their *)
(* destination, their source address (0: none given), their ttl and ports, *)
(* the words of payload, the steps of its main that build the skeleton,    *)
(* and what its algorithm sets in each probe.                              *)
ProgramType == [net : IpNames, l4 : Protos \ IpNames, target : Words, source : Words,
                ttl : Words, ports : Words \X Words, payload : Nat,
                steps : Seq({"protocols", "address", "ttl", "ports", "resize",
                             "flag", "write", "target"}),
                ttls : SUBSET (Words \cup {NoTtl}), flows : SUBSET (Words \cup {NoFlow})]

ASSUME ProbeAssumption ==
    /\ StartTags \subseteq Words
    /\ Router \in Words \ {0}
    /\ MaxProbes \in Nat

VARIABLES
    program,  (* what the program that runs has made of its options        *)
    routed,   (* whether the kernel has a route to the target, without     *)
              (* which "finalize" fails                                    *)
    todo,     (* steps of the program left before its skeleton is ready    *)
    skel,     (* the skeleton: [data, layers]                              *)
    lastTag,  (* network->last_tag                                         *)
    sendq,    (* network->sendq: [probe, ttl, flow], with what the         *)
              (* algorithm asked for as history                            *)
    flying,   (* network->probes: the same with "id", the rank in "wire"   *)
    wire,     (* history: packets given to sendto, whether they left, and  *)
              (* what they were for                                        *)
    inbox     (* the ICMP message the sniffer is about to read             *)

vars == <<program, routed, todo, skel, lastTag, sendq, flying, wire, inbox>>

-----------------------------------------------------------------------------
(* Layers of a probe *)

PayloadLayer(p) == Last(p.layers)

(* The first layer from "depth" on that has the field, as a position in    *)
(* the packet; 0 if there is none (probe_extract_ext, probe_set_field_ext  *)
(* and probe_write_field_ext search the same way).                         *)
Position(p, name, depth) ==
    LET having == {i \in depth + 1 .. Len(p.layers) : LayerHas(p.layers[i], name)}
    IN  IF having = {} THEN 0 ELSE FieldAt(p.layers[Min(having)], name)

SetFieldFrom(p, name, v, depth) ==
    LET pos == Position(p, name, depth)
    IN  IF pos = 0 THEN p ELSE [p EXCEPT !.data[pos] = v]

(* Mutant: the flow goes to the destination port. *)
MutSetField(p, name, v) ==
    IF Position(p, name, 0) # 0 THEN SetFieldFrom(p, name, v, 0)
    ELSE IF name = "flow_id" THEN SetFieldFrom(p, "dst_port", FlowBase + v, 0)
    ELSE p

(* What probe_set_fields does of one field: the only metafield, flow_id,   *)
(* is stored in the source port.                                           *)
SetField(p, name, v) ==
    IF Position(p, name, 0) # 0 THEN SetFieldFrom(p, name, v, 0)
    ELSE IF name = "flow_id" THEN SetFieldFrom(p, "src_port", FlowBase + v, 0)
    ELSE p

(* probe_extract of flow_id *)
FlowOf(p) == p.data[Position(p, "src_port", 0)] - FlowBase

-----------------------------------------------------------------------------
(* Keeping a probe consistent *)

(* probe_finalize, when there is a route: the IP layer takes the source    *)
(* address the kernel would choose, whatever it held.                      *)
Finalize(p) == SetFieldFrom(p, "src_ip", Local, 0)

(* probe_update_protocol *)
UpdateProtocol(p) ==
    [p EXCEPT !.data = FoldLeft(
        LAMBDA d, i : IF IsProtocol(p.layers[i])
                      THEN LayerSet(d, p.layers[i - 1], "protocol", Protocol[p.layers[i].proto].id)
                      ELSE d,
        @, [k \in 1 .. Len(p.layers) - 1 |-> k + 1])]

(* The "length" of every header, given how many words come before it.      *)
SetLengths(d, layers, before) ==
    FoldLeft(LAMBDA e, i : LayerSetLength(e, layers[i], Len(e) - before[i]),
             d, [k \in 1 .. Len(layers) - 1 |-> k])

(* Mutant: the size of the payload layer is not updated. *)
MutUpdateLength(p) ==
    [p EXCEPT !.data = SetLengths(@, p.layers, [i \in DOMAIN p.layers |-> p.layers[i].at])]

(* probe_update_length: the length of each header, then the payload layer. *)
UpdateLength(p) ==
    LET n == Len(p.layers)
        before == [i \in 1 .. n |->
                     WordSum([k \in 1 .. i - 1 |-> HeaderSize(p.layers[k].proto)])]
    IN  [data   |-> SetLengths(p.data, p.layers, before),
         layers |-> [p.layers EXCEPT ![n].size = Len(p.data) - before[n]]]

(* probe_update_fields: nothing is updated once finalize has failed. *)
UpdateFields(p, junk) ==
    IF ~routed THEN p
    ELSE LET q == UpdateLength(UpdateProtocol(Finalize(p)))
         IN  [q EXCEPT !.data = UpdateChecksum(q.data, q.layers, junk)]

(* probe_packet_resize: the bytes added are zero, every layer is moved and *)
(* the lengths follow; the size of the payload layer is left to            *)
(* probe_update_length.                                                    *)
PacketResize(p, size) ==
    LET d == SubSeq(p.data, 1, Min({size, Len(p.data)})) \o [i \in 1 .. size - Len(p.data) |-> 0]
        before == [i \in DOMAIN p.layers |-> WordSum([k \in 1 .. i - 1 |-> p.layers[k].size])]
        moved == [i \in DOMAIN p.layers |-> [p.layers[i] EXCEPT !.at = before[i]]]
    IN  [data |-> SetLengths(d, moved, before), layers |-> moved]

(* probe_payload_resize *)
PayloadResize(p, size) ==
    LET old == PayloadLayer(p).size
    IN  IF old = size THEN p
        ELSE UpdateFields(PacketResize(p, Len(p.data) - old + size), 0)

(* probe_write_payload_ext at offset 0: the payload grows if it must, and  *)
(* nothing is written when its layer did not follow.                       *)
WritePayload(p, ws) ==
    LET q == IF Len(ws) > PayloadLayer(p).size THEN PayloadResize(p, Len(ws)) ELSE p
        l == PayloadLayer(q)
    IN  IF Len(ws) > l.size THEN q
        ELSE [q EXCEPT !.data =
                [i \in DOMAIN @ |-> IF i - l.at \in DOMAIN ws THEN ws[i - l.at] ELSE @[i]]]

(* probe_dup: the copy is dissected again from its bytes. *)
Dup(p) == WrapPacket(p.data)

-----------------------------------------------------------------------------
(* Building the skeleton *)

AtStep(step) == todo # <<>> /\ Head(todo) = step /\ todo' = Tail(todo)

Built(p) == skel' = p /\ UNCHANGED <<program, routed, lastTag, sendq, flying, wire, inbox>>

(* probe_set_protocols: default headers, each announced by the previous    *)
(* one, and an empty payload.  Checksums are left for later.               *)
SetProtocols ==
    /\ AtStep("protocols")
    /\ LET names  == <<program.net, program.l4>>
           d      == Protocol[names[1]].default \o Protocol[names[2]].default
           first  == LayerFrom(d, names[1], 0)
           second == LayerFrom(d, names[2], first.size)
           set    == LayerSetLength(
                        LayerSet(LayerSetLength(d, first, Len(d)),
                                 first, "protocol", Protocol[names[2]].id),
                        second, Len(d) - second.at)
       IN  Built([data |-> set,
                  layers |-> <<first, second,
                               [proto |-> Payload, at |-> Len(d), size |-> 0]>>])

(* probe_set_field: dst_ip, and src_ip when the user gave one *)
SetAddress ==
    /\ AtStep("address")
    /\ LET p == SetFieldFrom(skel, "dst_ip", program.target, 0)
       IN  Built(IF program.source = 0 THEN p ELSE SetFieldFrom(p, "src_ip", program.source, 0))

SetTtl ==
    /\ AtStep("ttl")
    /\ Built(SetFieldFrom(skel, "ttl", program.ttl, 0))

(* probe_set_fields of the ports.  The TCP checksum counts two bytes of    *)
(* payload that are not there yet.                                         *)
SetPorts ==
    /\ AtStep("ports")
    /\ \E junk \in {0, W - 1} :
          Built(UpdateFields(SetField(SetField(skel, "src_port", program.ports[1]),
                                      "dst_port", program.ports[2]), junk))

ResizePayload ==
    /\ AtStep("resize")
    /\ Built(PayloadResize(skel, program.payload))

(* The example program writes a payload before it sets the destination. *)
WriteFirst ==
    /\ AtStep("write")
    /\ Built(WritePayload(skel, [i \in 1 .. program.payload |-> 0]))

SetTarget ==
    /\ AtStep("target")
    /\ Built(UpdateFields(SetField(SetField(skel, "dst_ip", program.target),
                                   "dst_port", program.ports[2]), 0))

-----------------------------------------------------------------------------
(* Sending *)

(* An algorithm duplicates the skeleton and sets the fields of the probe   *)
(* (send_traceroute_probe, mda_send_probe, send_ping_probe).               *)
SendProbe ==
    /\ todo = <<>>
    /\ Len(sendq) + Len(wire) < MaxProbes
    /\ \E ttl \in program.ttls, flow \in program.flows :
          LET p == IF ttl = NoTtl THEN Dup(skel) ELSE SetField(Dup(skel), "ttl", ttl)
              q == IF flow = NoFlow THEN p ELSE SetField(p, "flow_id", flow)
          IN  sendq' = Append(sendq, [probe |-> UpdateFields(q, 0), ttl |-> ttl, flow |-> flow])
    /\ UNCHANGED <<program, routed, todo, skel, lastTag, flying, wire, inbox>>

(* Mutant: the room for the tag is the first word of the transport header. *)
MutWriteRoom(p, w) ==
    [p EXCEPT !.data[p.layers[2].at + 1] = w]

(* Where network_tag_probe puts what it must add to the packet. *)
WriteRoom(p, w) ==
    IF HasField(p.layers[Len(p.layers) - 1].proto, "body")
    THEN SetFieldFrom(p, "body", w, 0)
    ELSE WritePayload(p, <<w>>)

HasRoom(p) ==
    \/ HasField(p.layers[Len(p.layers) - 1].proto, "body")
    \/ PayloadLayer(p).size >= 1

(* The checksum of the layer above IP: where the tag travels. *)
TagPosition(p) == Position(p, "checksum", 1)

Resum(p) == [p EXCEPT !.data = UpdateChecksum(@, p.layers, 0)]

(* The checksum moves to the packet and the tag takes its place. *)
Swap(p, tag) == WriteRoom(SetFieldFrom(p, "checksum", tag, 1), p.data[TagPosition(p)])

(* Mutant: the checksum is not put back in the packet. *)
MutTagProbe(p, tag) == SetFieldFrom(Resum(WriteRoom(p, tag)), "checksum", tag, 1)

(* network_tag_probe: the tag is written in the packet, the checksum that  *)
(* results is computed, and the two are swapped.  The packet is as valid   *)
(* as before, and its checksum is the tag.                                 *)
TagProbe(p, tag) == Swap(Resum(WriteRoom(p, tag)), tag)

(* network_process_sendq: a probe that cannot be tagged, or whose packet   *)
(* sendto refuses, is lost.                                                *)
ProcessSendq ==
    /\ sendq # <<>>
    /\ sendq' = Tail(sendq)
    /\ lastTag' = (lastTag + 1) % W
    /\ LET s == Head(sendq)
       IN  \/ /\ HasRoom(s.probe)
              /\ \E sent \in BOOLEAN, p \in {TagProbe(s.probe, lastTag')} :
                    /\ wire' = Append(wire, [data |-> p.data, ttl |-> s.ttl,
                                             flow |-> s.flow, sent |-> sent])
                    /\ flying' = IF sent THEN Append(flying, [probe |-> p, ttl |-> s.ttl,
                                                flow |-> s.flow, id |-> Len(wire')])
                                 ELSE flying
           \/ ~HasRoom(s.probe) /\ UNCHANGED <<wire, flying>>
    /\ UNCHANGED <<program, routed, todo, skel, inbox>>

-----------------------------------------------------------------------------
(* Answers *)

Departed == {i \in DOMAIN wire : wire[i].sent}

IcmpOf(net) == IF net = "ipv4" THEN "icmpv4" ELSE "icmpv6"

(* What the sniffer hands over: the whole packet for IPv4, and for IPv6    *)
(* the message behind a header rebuilt from the ancillary data.            *)
Sniffed(net, from, type, rest) ==
    (IF net = "ipv4"
     THEN <<4, 7 + 3 + Len(rest), 64, Icmpv4.id, 0, from, Local>>
     ELSE <<6, 3 + Len(rest), Icmpv6.id, 64, from, Local>>) \o <<type, 0, 0>> \o rest

(* A router has decremented the time to live of what it quotes, and quotes *)
(* the IP header and 8 bytes at least: the ports and the sequence number   *)
(* of TCP, the whole header of UDP and ICMP.                               *)
Quotes(d) ==
    LET p == WrapPacket(d)
        short == HeaderSize(program.net) +
                 (IF program.l4 = "tcp" THEN 3 ELSE HeaderSize(program.l4))
        expired == [d EXCEPT ![Position(p, "ttl", 0)] = 0]
    IN  {SubSeq(expired, 1, n) : n \in {short, Len(d)}}

(* A router answers a packet with "time exceeded", possibly long after the *)
(* probe was given up, and possibly twice.                                 *)
RouterAnswers ==
    /\ inbox = <<>>
    /\ \E i \in Departed : \E quote \in Quotes(wire[i].data) :
          inbox' = <<[of |-> i, quote |-> quote,
                      data |-> Sniffed(program.net, Router,
                                       IF program.net = "ipv4" THEN 11 ELSE 3, quote)]>>
    /\ UNCHANGED <<program, routed, todo, skel, lastTag, sendq, flying, wire>>

(* The target of an ICMP probe answers with an echo reply, which quotes    *)
(* nothing.  The answers to UDP and TCP probes are not ICMP, unless they   *)
(* are errors: the sniffer does not see them.                              *)
TargetAnswers ==
    /\ inbox = <<>>
    /\ program.l4 \in IcmpNames
    /\ \E i \in Departed :
          inbox' = <<[of |-> i, quote |-> <<>>,
                      data |-> Sniffed(program.net, program.target,
                                       IF program.net = "ipv4" THEN 0 ELSE 129, <<>>)]>>
    /\ UNCHANGED <<program, routed, todo, skel, lastTag, sendq, flying, wire>>

(* Mutant: the checksum of the IP header is read instead. *)
MutReplyTags(reply) ==
    LET pos == Position(reply, "checksum", 2)
    IN  IF pos = 0 THEN {} ELSE IF pos > Len(reply.data) THEN Words ELSE {reply.data[pos]}

(* reply_extract_tag: the word the fourth layer of the reply has for a     *)
(* checksum, if it has one.  It is read even if the quotation stops before *)
(* it: what follows the packet in memory may be anything.                  *)
ReplyTags(reply) ==
    LET pos == Position(reply, "checksum", 3)
    IN  IF pos = 0 THEN {} ELSE IF pos > Len(reply.data) THEN Words ELSE {reply.data[pos]}

(* network_get_matching_probe: the first flying probe with this tag, 0 if  *)
(* there is none.                                                          *)
MatchingProbe(tag) ==
    LET match == {i \in DOMAIN flying :
                    flying[i].probe.data[TagPosition(flying[i].probe)] = tag}
    IN  IF match = {} THEN 0 ELSE Min(match)

(* network_process_recvq: the probe that matches leaves the list.  A reply *)
(* without a tag is discarded.                                             *)
ProcessRecvq ==
    /\ inbox # <<>>
    /\ inbox' = <<>>
    /\ LET tags == ReplyTags(WrapPacket(Head(inbox).data))
       IN  \/ tags = {} /\ UNCHANGED flying
           \/ \E tag \in tags : LET i == MatchingProbe(tag)
                               IN  flying' = IF i = 0 THEN flying ELSE RemoveAt(flying, i)
    /\ UNCHANGED <<program, routed, todo, skel, lastTag, sendq, wire>>

(* network_drop_expired_flying_probe *)
DropOldest ==
    /\ flying # <<>>
    /\ flying' = Tail(flying)
    /\ UNCHANGED <<program, routed, todo, skel, lastTag, sendq, wire, inbox>>

-----------------------------------------------------------------------------
(* Before the program has read its options *)
ProbeInit ==
    /\ routed \in BOOLEAN
    /\ todo = <<"options">>
    /\ skel = [data |-> <<>>, layers |-> <<>>]    \* probe_create
    /\ lastTag \in StartTags
    /\ sendq = <<>> /\ flying = <<>> /\ wire = <<>> /\ inbox = <<>>

Build ==
    \/ SetProtocols \/ SetAddress \/ SetTtl \/ SetPorts
    \/ ResizePayload \/ WriteFirst \/ SetTarget

ProbeNext ==
    \/ Build \/ SendProbe \/ ProcessSendq
    \/ RouterAnswers \/ TargetAnswers \/ ProcessRecvq \/ DropOldest

-----------------------------------------------------------------------------
(* Properties *)

(* The headers and the payload of a probe follow one another from the      *)
(* first to the last byte of its packet.                                   *)
Tiles(p) ==
    /\ \A i \in DOMAIN p.layers :
          p.layers[i].at = WordSum([k \in 1 .. i - 1 |-> p.layers[k].size])
    /\ WordSum([k \in DOMAIN p.layers |-> p.layers[k].size]) = Len(p.data)

(* Layers are pointers into a buffer that is resized, duplicated and       *)
(* dissected (probe_packet_resize, probe_update_length, probe_dup): those  *)
(* of every probe on its way tile its packet.  Those of the skeleton do    *)
(* too, unless finalize has failed: probe_payload_resize ignores that      *)
(* failure and leaves the size of the payload behind.                      *)
Tiled ==
    /\ \A i \in DOMAIN sendq  : Tiles(sendq[i].probe)
    /\ \A i \in DOMAIN flying : Tiles(flying[i].probe)
    /\ routed => Tiles(skel)

(* What a receiver checks of a packet, from the formats of the protocols:  *)
(* the sums are those of one's complement arithmetic, where a valid        *)
(* segment adds up to zero, that is to a multiple of W - 1.                *)
Adds(ws) == WordSum(ws) % (W - 1) = 0 /\ WordSum(ws) # 0

Valid(d) ==
    LET ip   == HeaderSize(program.net)
        seg  == SubSeq(d, ip + 1, Len(d))
        id   == Protocol[program.l4].id
        pseudo == IF program.net = "ipv4" THEN <<d[6], d[7], id, Len(seg)>>
                                          ELSE <<d[5], d[6], id, Len(seg)>>
    IN  /\ program.net = "ipv4" =>
              d[2] = Len(d) /\ d[4] = id /\ Adds(SubSeq(d, 1, ip))
        /\ program.net = "ipv6" => d[2] = Len(seg) /\ d[3] = id
        /\ program.l4 = "udp" => seg[3] = Len(seg)
        /\ Adds(IF program.l4 = "icmpv4" THEN seg ELSE pseudo \o seg)

(* Every packet sent is well formed (network_tag_probe: "Fix checksum to   *)
(* get a well-formed packet"), although its checksum is the tag, although  *)
(* fields were set after the last update, and even without a route.        *)
WellFormed == \A i \in DOMAIN wire : Valid(wire[i].data)

(* A quotation of a flying probe takes that probe off the list and no      *)
(* other, and a quotation of a probe that is not flying any more takes     *)
(* none (network_get_matching_probe): the tag is found at the right depth  *)
(* through the layers of the reply.  Nothing is claimed of a quotation     *)
(* that stops before the checksum.                                         *)
HoldsTag(r) ==
    Len(r.quote) >= HeaderSize(program.net) + FieldOffset(program.l4, "checksum")

TakesOnly(id) ==
    \/ \E i \in DOMAIN flying : flying[i].id = id /\ flying' = RemoveAt(flying, i)
    \/ id \notin {flying[i].id : i \in DOMAIN flying} /\ flying' = flying

RightProbe ==
    [][(inbox # <<>> /\ inbox' = <<>> /\ HoldsTag(inbox[1])) => TakesOnly(inbox[1].of)]_vars

(* The packets of a flow take one path: all that a per-flow load balancer  *)
(* looks at, the addresses, the protocol and the first four bytes of the   *)
(* transport header, is the same whatever their tags and times to live     *)
(* (src/man/paris-traceroute.1).  True of UDP and TCP: the tag of an ICMP  *)
(* probe is its checksum, within those four bytes.                         *)
Hashed(d) ==
    LET p == WrapPacket(d)
    IN  <<d[Position(p, "src_ip", 0)], d[Position(p, "dst_ip", 0)],
          d[Position(p, "protocol", 0)], d[p.layers[2].at + 1], d[p.layers[2].at + 2]>>

PathKept ==
    program.l4 \notin IcmpNames =>
        \A i, j \in DOMAIN wire :
            wire[i].flow = wire[j].flow => Hashed(wire[i].data) = Hashed(wire[j].data)

(* What an algorithm asked for is what it reads back from the probe that   *)
(* an answer gives it (mda_handler_reply reads the ttl and the flow of     *)
(* the probe): tagging and sending have not disturbed them.                *)
Remembered ==
    \A i \in DOMAIN flying :
        LET f == flying[i]
        IN  /\ f.ttl # NoTtl => f.probe.data[Position(f.probe, "ttl", 0)] = f.ttl
            /\ f.flow # NoFlow /\ program.l4 \notin IcmpNames => FlowOf(f.probe) = f.flow

=============================================================================
