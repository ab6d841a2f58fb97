------------------------------ MODULE Programs ------------------------------
(***************************************************************************)
(* The three programs (paris-traceroute.c, paris-ping.c, traceroute.c),    *)
(* from the command line to the packets: opt_parse fills the settings, the *)
(* main checks them, finds the address of the destination (address.c) and  *)
(* decides on the skeleton of the probes, which Probe then builds, copies, *)
(* tags and sends.                                                         *)
(***************************************************************************)
EXTENDS Probe, Options, Bits

CONSTANTS
    Hosts,        (* the names and addresses getaddrinfo knows: sequences  *)
                  (* of [family, address]                                  *)
    DefaultPorts, (* UDP_DEFAULT_*, UDP_DST_PORT_USING_U and the same of   *)
                  (* TCP: [udp, tcp], each [src, dst, named]               *)
    ExamplePort   (* the port of the example program                       *)

(* The example program has its destination in its code. *)
ExampleHost == "8.8.8.8"

ASSUME ProgramsAssumption ==
    /\ \A name \in DOMAIN Hosts :
         Hosts[name] \in Seq([family : IpNames, address : Words \ {0}]) \ {<<>>}
    /\ ExampleHost \in DOMAIN Hosts    \* an address stands for itself
    /\ "" \notin DOMAIN Hosts    \* getaddrinfo refuses an empty name
    /\ DefaultPorts \in [{"udp", "tcp"} -> [{"src", "dst", "named"} -> Words]]
    /\ ExamplePort \in Words
    /\ FlowBase + 1 \in Words    \* the flows are 0 and 1
    /\ MaxPort < W

-----------------------------------------------------------------------------
(* Addresses *)

(* address_guess_family: the family of the first result. *)
GuessFamily(name) == Hosts[name][1].family

(* ip_from_string only asks for addresses of the family, ... *)
AddressesOf(family, name) ==
    IF name \in DOMAIN Hosts
    THEN {i \in DOMAIN Hosts[name] : Hosts[name][i].family = family} ELSE {}

(* ... and takes the first. *)
FirstAddress(family, name) == Hosts[name][Min(AddressesOf(family, name))].address

(* -4 or -6 decides, and the name otherwise. *)
FamilyOf(s, name) ==
    IF s.ipv4 THEN "ipv4" ELSE IF s.ipv6 THEN "ipv6" ELSE GuessFamily(name)

(* An address is found. *)
Resolves(s, name) ==
    /\ name \in DOMAIN Hosts
    /\ AddressesOf(FamilyOf(s, name), name) # {}

-----------------------------------------------------------------------------
(* The checks of the mains *)

CheckIpVersion(s) == ~(s.ipv4 /\ s.ipv6)

(* --protocol is not looked at. *)
CheckProtocol(s) == Cardinality({f \in {"icmp", "tcp", "udp"} : s[f]}) <= 1

CheckPorts(s) == ~(s.icmp /\ (s.dst_port.set \/ s.src_port.set))

CheckAlgorithm(s) == s.mda.set => Head(s.algorithm) = "mda"

CheckFlowLabel(s) == s.flow_label.set => s.ipv6

CheckAck(s) == s.ack => s.tcp

CheckOptions ==
    /\ CheckIpVersion(settings) /\ CheckProtocol(settings) /\ CheckPorts(settings)
    /\ tool = TracerouteTool => CheckAlgorithm(settings)
    /\ tool = PingTool => CheckFlowLabel(settings) /\ CheckAck(settings)

-----------------------------------------------------------------------------
(* The skeleton *)

UsesIcmp(s) == s.icmp \/ Head(s.protocol) = "icmp"
UsesUdp(s)  == s.udp \/ Head(s.protocol) = "udp"

(* Mutant: the option is forgotten. *)
MutUsesTcp(s) == Head(s.protocol) = "tcp"
UsesTcp(s)    == s.tcp \/ Head(s.protocol) = "tcp"

(* get_protocol_name of each program: they differ in what wins when an     *)
(* option and --protocol disagree.                                         *)
TracerouteProtocol(s, family) ==
    IF UsesIcmp(s) THEN IcmpOf(family) ELSE IF UsesTcp(s) THEN "tcp" ELSE "udp"

PingProtocol(s, family) ==
    IF UsesTcp(s) THEN "tcp" ELSE IF UsesUdp(s) THEN "udp" ELSE IcmpOf(family)

Given(port, otherwise) == IF port.set THEN port.value ELSE otherwise

(* The ports: those of UDP whenever UDP is used or is the default.         *)
PortsOf(s) ==
    LET ports(proto) ==
            <<Given(s.src_port, DefaultPorts[proto].src),
              Given(s.dst_port, IF s[proto] THEN DefaultPorts[proto].named
                                ELSE DefaultPorts[proto].dst)>>
    IN  IF UsesUdp(s) THEN ports("udp") ELSE ports("tcp")

(* Bytes of the headers, and bytes as words of the model: the whole words  *)
(* they hold, of which two stand for more.                                 *)
HeaderBytes == [ipv4 |-> 20, ipv6 |-> 40, udp |-> 8, tcp |-> 20, icmpv4 |-> 8, icmpv6 |-> 8]

WordsOf(bytes) == Cardinality({k \in 1 .. 2 : 2 * k <= bytes})

(* An algorithm starts at min_ttl; the first two hops stand for all.       *)
FirstTtls(s) == {s.min_ttl, s.min_ttl + 1} \cap 0 .. s.max_ttl

TracerouteProgram(s, family, target) ==
    LET l4 == TracerouteProtocol(s, family)
    IN  [net |-> family, l4 |-> l4, target |-> target, source |-> 0, ttl |-> 0,
         ports |-> PortsOf(s), payload |-> 1,
         steps |-> <<"protocols", "address">>
                   \o IF UsesIcmp(s) THEN <<>> ELSE <<"ports", "resize">>,
         ttls |-> FirstTtls(s),
         flows |-> IF Head(s.algorithm) = "mda" THEN {0, 1} ELSE {NoFlow}]

PingHeaders(s, family) == HeaderBytes[family] + HeaderBytes[PingProtocol(s, family)]

(* check_packet_size: there must be room for the tag, unless the probe is  *)
(* taken for an ICMP one: neither -T nor -U was given.                     *)
CheckPacketSize(s, family) ==
    s.packet_size >= PingHeaders(s, family) + (IF ~s.tcp /\ ~s.udp THEN 0 ELSE 2)

PingProgram(s, family, target, source) ==
    [net |-> family, l4 |-> PingProtocol(s, family), target |-> target, source |-> source,
     ttl |-> s.max_ttl % 256, ports |-> PortsOf(s),
     payload |-> WordsOf(s.packet_size - PingHeaders(s, family)),
     steps |-> <<"protocols", "address", "ttl">>
               \o (IF UsesTcp(s) \/ UsesUdp(s) THEN <<"ports">> ELSE <<>>) \o <<"resize">>
               \o (IF s.tcp THEN <<"flag">> ELSE <<>>),
     ttls |-> {NoTtl}, flows |-> {NoFlow}]

ExampleProgram ==
    [net |-> GuessFamily(ExampleHost), l4 |-> "tcp", target |-> Hosts[ExampleHost][1].address,
     source |-> 0, ttl |-> 0, ports |-> <<TcpPorts[1], ExamplePort>>, payload |-> 2,
     steps |-> <<"protocols", "write", "target">>, ttls |-> {1, 2}, flows |-> {NoFlow}]

-----------------------------------------------------------------------------
(* The mains *)

Fail == outcome' = "error" /\ UNCHANGED <<program, todo>>

Run(p) == outcome' = "run" /\ program' = p /\ todo' = p.steps

(* The destination is taken to be the last argument. *)
Destination == argv[Len(argv)]

Accepted == count = 1 /\ CheckOptions /\ Resolves(settings, Destination)

TracerouteMain ==
    /\ Parsed /\ tool = TracerouteTool
    /\ IF ~Accepted THEN Fail
       ELSE \E f \in {FamilyOf(settings, Destination)} :
            \E p \in {TracerouteProgram(settings, f, FirstAddress(f, Destination))} : Run(p)

(* -I gives a source address, of the family of the destination. *)
PingMain ==
    /\ Parsed /\ tool = PingTool
    /\ IF ~Accepted THEN Fail
       ELSE \E f \in {FamilyOf(settings, Destination)} :
            IF \/ settings.source # "" /\ AddressesOf(f, settings.source) = {}
               \/ ~CheckPacketSize(settings, f)
            THEN Fail
            ELSE \E p \in {PingProgram(settings, f, FirstAddress(f, Destination),
                                       IF settings.source = "" THEN 0
                                       ELSE FirstAddress(f, settings.source))} : Run(p)

ExampleMain ==
    /\ outcome = "start" /\ tool = ExampleTool
    /\ \E p \in {ExampleProgram} : Run(p)

Main ==
    /\ TracerouteMain \/ PingMain \/ ExampleMain
    /\ UNCHANGED <<tool, argv, pos, rest, skipping, count, settings,
                   routed, skel, lastTag, sendq, flying, wire, inbox>>

(* paris-ping sets the SYN or the ACK bit once everything is computed: the *)
(* first bit of an int that is 1, least significant byte first.  No        *)
(* checksum is updated.  The program stops if an assertion fails.          *)
FlagEnd(flag) ==
    LET one   == [i \in 0 .. 3 |-> [k \in 0 .. 7 |-> IF i = 0 /\ k = 7 THEN {"1"} ELSE {}]]
        field == BitsOf(one, 1)
    IN  IF field.end # "done" THEN field.end
        ELSE SetBits([i \in 0 .. 0 |-> Zero], [offset |-> TcpFlags[flag], size |-> 1], field).end

SetFlag ==
    /\ outcome = "run" /\ todo # <<>> /\ Head(todo) = "flag"
    /\ LET end == FlagEnd(IF settings.ack THEN "ack" ELSE "syn")
       IN  IF end = "aborted"
           THEN outcome' = "aborted" /\ UNCHANGED vars
           ELSE /\ AtStep("flag")
                /\ Built(IF end = "done" THEN SetFieldFrom(skel, "flags", 1, 0) ELSE skel)
                /\ UNCHANGED outcome
    /\ UNCHANGED <<tool, argv, pos, rest, skipping, count, settings>>

-----------------------------------------------------------------------------
(* Nothing runs before the options are read. *)
NoProgram ==
    [net |-> "ipv4", l4 |-> "udp", target |-> 0, source |-> 0, ttl |-> 0, ports |-> <<0, 0>>,
     payload |-> 0, steps |-> <<"options">>, ttls |-> {}, flows |-> {}]

Init == OptionsInit /\ ProbeInit /\ program = NoProgram

Next ==
    \/ OptParse /\ UNCHANGED vars
    \/ Main
    \/ SetFlag
    \/ ProbeNext /\ UNCHANGED cmdVars

Spec == Init /\ [][Next]_<<vars, cmdVars>>

-----------------------------------------------------------------------------
(* Properties *)

(* A program that runs aims at the one argument that no option has used:   *)
(* nothing of the command line is ignored, although the main only looks at *)
(* the number of such arguments and at the last argument, wherever it is   *)
(* (paris-traceroute.c: "We assume that the target IP address is always    *)
(* the last argument").                                                    *)
DestinationIsOperand ==
    outcome = "run" /\ tool # ExampleTool =>
        /\ argv[Len(argv)] # ""
        /\ \A i \in 1 .. Len(argv) - 1 : argv[i] = ""

(* Every packet on the wire is what the options ask for, through settings, *)
(* skeleton, copy and tag: it goes to an address of the destination, of    *)
(* the version asked for, with the protocol that the one option about      *)
(* protocols names (either, when -T, -U or -I and --protocol disagree),    *)
(* and to and from the ports that were given.                              *)
ProtocolsAsked ==
    LET flags  == {f \in {"icmp", "tcp", "udp"} : settings[f]}
        choice == Head(settings.protocol)
        asked  == IF flags = {} THEN {choice}
                  ELSE IF choice = Head(Defaults(tool).protocol) THEN flags
                  ELSE flags \cup {choice}
    IN  {IF p = "icmp" THEN IcmpOf(program.net) ELSE p : p \in asked}

AsAsked ==
    tool # ExampleTool =>
        \A i \in DOMAIN wire :
            LET p == WrapPacket(wire[i].data)
                net == p.layers[1].proto
                l4  == p.layers[2].proto
            IN  /\ [family |-> net, address |-> p.data[Position(p, "dst_ip", 0)]]
                        \in Range(Hosts[Destination])
                /\ (settings.ipv4 => net = "ipv4") /\ (settings.ipv6 => net = "ipv6")
                /\ l4 \in ProtocolsAsked
                /\ l4 \notin IcmpNames /\ settings.dst_port.set =>
                       p.data[Position(p, "dst_port", 0)] = settings.dst_port.value
                /\ l4 \notin IcmpNames /\ settings.src_port.set /\ program.flows = {NoFlow} =>
                       p.data[Position(p, "src_port", 0)] = settings.src_port.value

(* bits.c and its callers write the fields of the headers where they       *)
(* belong, or stop the program, and what is read from them is what they    *)
(* hold, although the same functions are wrong for other offsets: whatever  *)
(* program runs, its packets can be trusted to hold what was written.       *)
BitsRight == outcome = "run" => AllBitsRight

(* bits.c:258: assert(!offset_out).  paris-ping.c:35, help of -T: "Use     *)
(* TCP": no command line makes a program fail that assertion.              *)
NoAssertionFails == outcome # "aborted"

=============================================================================
