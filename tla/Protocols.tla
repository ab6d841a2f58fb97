----------------------------- MODULE Protocols -----------------------------
(***************************************************************************)
(* The protocols of libparistraceroute (protocols/*.c, protocol.c,         *)
(* layer.c) as pure operators over packets.                                *)
(*                                                                         *)
(* A packet is a sequence of words.  A word stands for one field: the      *)
(* fields that share a word in the code, or span several, differ only in   *)
(* widths that no property here tells apart.  The order of the words is    *)
(* the order of the fields on the wire, which matters twice: a router      *)
(* quotes a prefix of the packet, and load balancers hash the first words  *)
(* of the transport header.                                                *)
(***************************************************************************)
EXTENDS Integers, Sequences, SequencesExt

CONSTANTS
    W,        (* number of values of a word: 2^16 in the code              *)
    Local,    (* the address the kernel would choose as a source           *)
    FlowBase, (* 24000: what is added to a flow_id to make a source port   *)
    UdpPort,  (* UDP_DEFAULT_SRC_PORT and UDP_DEFAULT_DST_PORT             *)
    TcpPorts  (* <<TCP_DEFAULT_SRC_PORT, TCP_DEFAULT_DST_PORT>>            *)

Words == 0 .. W - 1

(* The ICMP types and protocol numbers below are the real ones. *)
ASSUME ProtocolsAssumption ==
    /\ W \in Nat /\ W >= 256
    /\ {Local, FlowBase, UdpPort} \subseteq Words
    /\ TcpPorts \in Words \X Words

-----------------------------------------------------------------------------
(* Headers: for each protocol its "protocol_t": the number that names it in *)
(* the IP header, its fields in order, and what write_default_header       *)
(* writes.  No default time to live reaches the wire: the programs set it. *)

Ipv4 == [id |-> 4,
    fields  |-> <<"version", "length", "ttl", "protocol", "checksum", "src_ip", "dst_ip">>,
    default |-> <<4, 0, W - 1, 4, 0, 0, 0>>]

Ipv6 == [id |-> 41,
    fields  |-> <<"version", "length", "protocol", "ttl", "src_ip", "dst_ip">>,
    default |-> <<6, 0, 17, 64, 0, 0>>]

Udp == [id |-> 17,
    fields  |-> <<"src_port", "dst_port", "length", "checksum">>,
    default |-> <<UdpPort, UdpPort, 0, 0>>]

Tcp == [id |-> 6,
    fields  |-> <<"src_port", "dst_port", "seq_num", "flags", "checksum">>,
    default |-> <<TcpPorts[1], TcpPorts[2], 0, 0, 0>>]

Icmpv4 == [id |-> 1, fields |-> <<"type", "checksum", "body">>, default |-> <<8, 0, 0>>]

Icmpv6 == [id |-> 58, fields |-> <<"type", "checksum", "body">>, default |-> <<128, 0, 0>>]

(* The registry of protocol.c. *)
Protocol == [ipv4 |-> Ipv4, ipv6 |-> Ipv6, udp |-> Udp, tcp |-> Tcp,
             icmpv4 |-> Icmpv4, icmpv6 |-> Icmpv6]

IpNames   == {"ipv4", "ipv6"}
IcmpNames == {"icmpv4", "icmpv6"}
Protos    == DOMAIN Protocol

HeaderSize(proto) == Len(Protocol[proto].fields)

HasField(proto, name) == Contains(Protocol[proto].fields, name)

FieldOffset(proto, name) ==
    CHOOSE i \in 1 .. HeaderSize(proto) : Protocol[proto].fields[i] = name

-----------------------------------------------------------------------------
(* Layers: [proto, at, size], where "at" counts the words of the packet    *)
(* before the layer.  The last layer of a probe is its payload.            *)

Payload == "payload"

IsProtocol(l) == l.proto # Payload

LayerHas(l, name) == IsProtocol(l) /\ HasField(l.proto, name)

(* Where the word of a field of a layer is: beyond the packet when the     *)
(* header is truncated, as nothing compares it with the size of the layer. *)
FieldAt(l, name) == l.at + FieldOffset(l.proto, name)

(* layer_set_field, but for "length": the field is left alone when the     *)
(* layer has none of that name.                                            *)
LayerSet(d, l, name, v) ==
    IF LayerHas(l, name) THEN [d EXCEPT ![FieldAt(l, name)] = v] ELSE d

(* "length" is the size of the layer and of what it carries, but IPv6      *)
(* stores the size of what it carries and refuses less than its header.    *)
LayerSetLength(d, l, v) ==
    IF l.proto # "ipv6" THEN LayerSet(d, l, "length", v)
    ELSE IF v < HeaderSize("ipv6") THEN d
    ELSE LayerSet(d, l, "length", v - HeaderSize("ipv6"))

-----------------------------------------------------------------------------
(* Checksums *)

WordSum(ws) == FoldSeq(LAMBDA x, y : x + y, 0, ws)

(* csum: the carries are added back twice and the sum is complemented. *)
Csum(ws) ==
    LET sum    == WordSum(ws)
        once   == (sum \div W) + (sum % W)
        twice  == once + (once \div W)
    IN  (W - 1) - (twice % W)

Ipv4PseudoHeader(d, ip) ==
    <<d[FieldAt(ip, "src_ip")], d[FieldAt(ip, "dst_ip")], d[FieldAt(ip, "protocol")],
      d[FieldAt(ip, "length")] - HeaderSize("ipv4")>>

Ipv6PseudoHeader(d, ip) ==
    <<d[FieldAt(ip, "src_ip")], d[FieldAt(ip, "dst_ip")],
      d[FieldAt(ip, "length")], d[FieldAt(ip, "protocol")]>>

(* udp_create_pseudo_header, tcp_create_pseudo_header: by the version. *)
PseudoHeader(d, ip) ==
    IF d[FieldAt(ip, "version")] = 4 THEN Ipv4PseudoHeader(d, ip) ELSE Ipv6PseudoHeader(d, ip)

(* The first n words of a layer, its checksum taken as 0.  A read beyond   *)
(* the end of the packet yields "junk".                                    *)
Blanked(d, l, n, junk) ==
    [k \in 1 .. n |-> IF l.at + k = FieldAt(l, "checksum") THEN 0
                      ELSE IF l.at + k > Len(d) THEN junk ELSE d[l.at + k]]

(* The write_checksum of each protocol: of the header alone for IPv4 and   *)
(* ICMP, of the header and two bytes for TCP, and of what "length" says    *)
(* for UDP; with the header of the layer below for all but IPv4 and ICMP.  *)
Ipv4Checksum(d, l, ip, junk)   == Csum(Blanked(d, l, HeaderSize("ipv4"), junk))
Icmpv4Checksum(d, l, ip, junk) == Csum(Blanked(d, l, HeaderSize("icmpv4"), junk))

Icmpv6Checksum(d, l, ip, junk) ==
    Csum(Ipv6PseudoHeader(d, ip) \o Blanked(d, l, HeaderSize("icmpv6"), junk))

UdpChecksum(d, l, ip, junk) ==
    Csum(PseudoHeader(d, ip) \o Blanked(d, l, d[FieldAt(l, "length")], junk))

TcpChecksum(d, l, ip, junk) ==
    Csum(PseudoHeader(d, ip) \o Blanked(d, l, HeaderSize("tcp") + 1, junk))

(* The checksum of the i-th layer, if it has one. *)
WriteChecksum(d, layers, i, junk) ==
    LET l == layers[i]
        with(Sum(_, _, _, _)) ==
            LayerSet(d, l, "checksum", Sum(d, l, IF i = 1 THEN l ELSE layers[i - 1], junk))
    IN  CASE l.proto = "ipv4"   -> with(Ipv4Checksum)
          [] l.proto = "icmpv4" -> with(Icmpv4Checksum)
          [] l.proto = "icmpv6" -> with(Icmpv6Checksum)
          [] l.proto = "udp"    -> with(UdpChecksum)
          [] l.proto = "tcp"    -> with(TcpChecksum)
          [] OTHER              -> d

(* probe_update_checksum: from the last layer to the first. *)
UpdateChecksum(d, layers, junk) ==
    FoldLeft(LAMBDA e, i : WriteChecksum(e, layers, i, junk),
             d, Reverse([i \in 1 .. Len(layers) |-> i]))

-----------------------------------------------------------------------------
(* Dissection *)

None == "none"

(* icmpv4_get_next_protocol, icmpv6_get_next_protocol: an ICMP error nests *)
(* the packet it answers.                                                  *)
Icmpv4Next(type) == IF type \in {3, 11} THEN "ipv4" ELSE None
Icmpv6Next(type) == IF type \in {1, 3} THEN "ipv6" ELSE None

(* protocol_get_next_protocol: UDP and TCP nest nothing. *)
NextProtocol(d, l) ==
    CASE l.proto \in IpNames ->
            LET named == {p \in Protos : Protocol[p].id = d[FieldAt(l, "protocol")]}
            IN  IF named = {} THEN None ELSE CHOOSE p \in named : TRUE
      [] l.proto = "icmpv4" -> Icmpv4Next(d[FieldAt(l, "type")])
      [] l.proto = "icmpv6" -> Icmpv6Next(d[FieldAt(l, "type")])
      [] OTHER -> None

(* packet_guess_address_family *)
FirstProtocol(d) == CASE d[1] = 4 -> "ipv4" [] d[1] = 6 -> "ipv6" [] OTHER -> None

LayerFrom(d, proto, at) ==
    [proto |-> proto, at |-> at, size |-> Min({HeaderSize(proto), Len(d) - at})]

MaxDepth == 5    \* the layers of an ICMP error that quotes a probe

(* probe_wrap_packet: the layers of a packet, found from its first word.   *)
(* A header that does not fit takes what is left of the packet, and what   *)
(* follows the last header is the payload.                                 *)
WrapPacket(d) ==
    LET chain[n \in 1 .. MaxDepth] ==
          IF n = 1 THEN <<LayerFrom(d, FirstProtocol(d), 0)>>
          ELSE LET last == Last(chain[n - 1])
                   next == NextProtocol(d, last)
               IN  IF Len(chain[n - 1]) < n - 1 \/ next = None THEN chain[n - 1]
                   ELSE Append(chain[n - 1], LayerFrom(d, next, last.at + last.size))
        headers == chain[MaxDepth]
        at      == Last(headers).at + Last(headers).size
    IN  [data   |-> d,
         layers |-> Append(headers, [proto |-> Payload, at |-> at, size |-> Len(d) - at])]

=============================================================================
