---------------------------- MODULE PacketProofs ----------------------------
(***************************************************************************)
(* The probes of any program, for any words, payload, tags and answers.    *)
(*                                                                         *)
(* A probe is a copy of the skeleton that its program built.  The argument *)
(* has three parts: what the updates of the fields of a probe write, and   *)
(* so which words they leave alone (Core); what every operation on a       *)
(* skeleton or a probe keeps of its layers and headers (Made); and the     *)
(* order of things, that no probe leaves an unfinished skeleton, so that   *)
(* all probes differ from one packet by what was asked for them (Own).     *)
(*                                                                         *)
(* Checksums come after that: they are sums over the words of a packet,    *)
(* which stay 0 modulo W - 1 as long as their words are small enough for   *)
(* a sum to be taken without losing a carry (Sound, Small).                *)
(***************************************************************************)
EXTENDS Probe, CountingProofs

-----------------------------------------------------------------------------
(* The protocols of a transport header. *)
TransportNames == {"udp", "tcp"} \cup IcmpNames

(* The fields of the headers of IP: where those that a probe keeps are. *)
LEMMA NetFields ==
    ASSUME NEW net \in IpNames
    PROVE  /\ HeaderSize(net) \in {6, 7}
           /\ \A name \in {"version", "length", "ttl", "protocol", "src_ip", "dst_ip"} :
                HasField(net, name)
           /\ FieldOffset(net, "version") = 1 /\ FieldOffset(net, "length") = 2
           /\ FieldOffset(net, "ttl") = (IF net = "ipv4" THEN 3 ELSE 4)
           /\ FieldOffset(net, "protocol") = (IF net = "ipv4" THEN 4 ELSE 3)
           /\ FieldOffset(net, "src_ip") = HeaderSize(net) - 1
           /\ FieldOffset(net, "dst_ip") = HeaderSize(net)
           /\ HasField(net, "checksum") <=> net = "ipv4"
           /\ net = "ipv4" => FieldOffset(net, "checksum") = 5 /\ HeaderSize(net) = 7
           /\ \A name \in {"src_port", "dst_port", "flags", "body", "type", "flow_id"} : ~HasField(net, name)
<1> DEFINE f == Protocol[net].fields
<1>1. /\ HeaderSize(net) = Len(f)
      /\ \A name : HasField(net, name) <=> \E i \in 1 .. Len(f) : f[i] = name
      /\ \A name : FieldOffset(net, name) = CHOOSE i \in 1 .. Len(f) : f[i] = name
  BY DEF HeaderSize, HasField, Contains, FieldOffset
<1>2. CASE net = "ipv4"
  <2>1. /\ Len(f) = 7
        /\ f[1] = "version" /\ f[2] = "length" /\ f[3] = "ttl" /\ f[4] = "protocol"
        /\ f[5] = "checksum" /\ f[6] = "src_ip" /\ f[7] = "dst_ip"
    BY <1>2 DEF Protocol, Ipv4
  <2> HIDE DEF f
  <2>2. \A i \in 1 .. 7 : FieldOffset(net, f[i]) = i
    BY <1>1, <2>1
  <2> QED
    BY <1>1, <1>2, <2>1, <2>2
<1>3. CASE net = "ipv6"
  <2>1. /\ Len(f) = 6
        /\ f[1] = "version" /\ f[2] = "length" /\ f[3] = "protocol" /\ f[4] = "ttl"
        /\ f[5] = "src_ip" /\ f[6] = "dst_ip"
    BY <1>3 DEF Protocol, Ipv6
  <2> HIDE DEF f
  <2>2. \A i \in 1 .. 6 : FieldOffset(net, f[i]) = i
    BY <1>1, <2>1
  <2> QED
    BY <1>1, <1>3, <2>1, <2>2
<1> QED
  BY <1>2, <1>3 DEF IpNames

LEMMA TransportFields ==
    ASSUME NEW l4 \in TransportNames
    PROVE  /\ HeaderSize(l4) \in {3, 4, 5}
           /\ HasField(l4, "checksum")
           /\ FieldOffset(l4, "checksum") = (IF l4 = "udp" THEN 4 ELSE IF l4 = "tcp" THEN 5 ELSE 2)
           /\ FieldOffset(l4, "checksum") <= HeaderSize(l4)
           /\ \A name \in {"version", "ttl", "protocol", "src_ip", "dst_ip", "flow_id"} : ~HasField(l4, name)
           /\ HasField(l4, "length") <=> l4 = "udp"
           /\ l4 = "udp" => FieldOffset(l4, "length") = 3
           /\ HasField(l4, "flags") <=> l4 = "tcp"
           /\ l4 = "tcp" => FieldOffset(l4, "flags") = 4
           /\ HasField(l4, "body") <=> l4 \in IcmpNames
           /\ HasField(l4, "type") <=> l4 \in IcmpNames
           /\ l4 \in IcmpNames => /\ FieldOffset(l4, "type") = 1 /\ FieldOffset(l4, "body") = 3
                                  /\ HeaderSize(l4) = 3
           /\ HasField(l4, "src_port") <=> l4 \notin IcmpNames
           /\ HasField(l4, "dst_port") <=> l4 \notin IcmpNames
           /\ l4 \notin IcmpNames => /\ FieldOffset(l4, "src_port") = 1
                                     /\ FieldOffset(l4, "dst_port") = 2
                                     /\ HeaderSize(l4) \in {4, 5}
<1> DEFINE f == Protocol[l4].fields
<1>1. /\ HeaderSize(l4) = Len(f)
      /\ \A name : HasField(l4, name) <=> \E i \in 1 .. Len(f) : f[i] = name
      /\ \A name : FieldOffset(l4, name) = CHOOSE i \in 1 .. Len(f) : f[i] = name
  BY DEF HeaderSize, HasField, Contains, FieldOffset
<1>2. CASE l4 = "udp"
  <2>1. /\ Len(f) = 4
        /\ f[1] = "src_port" /\ f[2] = "dst_port" /\ f[3] = "length" /\ f[4] = "checksum"
    BY <1>2 DEF Protocol, Udp
  <2> HIDE DEF f
  <2>2. \A i \in 1 .. 4 : FieldOffset(l4, f[i]) = i
    BY <1>1, <2>1
  <2> QED
    BY <1>1, <1>2, <2>1, <2>2 DEF IcmpNames
<1>3. CASE l4 = "tcp"
  <2>1. /\ Len(f) = 5
        /\ f[1] = "src_port" /\ f[2] = "dst_port" /\ f[3] = "seq_num" /\ f[4] = "flags"
        /\ f[5] = "checksum"
    BY <1>3 DEF Protocol, Tcp
  <2> HIDE DEF f
  <2>2. \A i \in 1 .. 5 : FieldOffset(l4, f[i]) = i
    BY <1>1, <2>1
  <2> QED
    BY <1>1, <1>3, <2>1, <2>2 DEF IcmpNames
<1>4. CASE l4 \in IcmpNames
  <2>1. /\ Len(f) = 3
        /\ f[1] = "type" /\ f[2] = "checksum" /\ f[3] = "body"
    BY <1>4 DEF Protocol, Icmpv4, Icmpv6, IcmpNames
  <2> HIDE DEF f
  <2>2. \A i \in 1 .. 3 : FieldOffset(l4, f[i]) = i
    BY <1>1, <2>1
  <2>3. l4 # "udp" /\ l4 # "tcp"
    BY <1>4 DEF IcmpNames
  <2> QED
    BY <1>1, <1>4, <2>1, <2>2, <2>3
<1> QED
  BY <1>2, <1>3, <1>4 DEF TransportNames

LEMMA OffsetType ==
    ASSUME NEW proto, NEW name, HasField(proto, name),
           Len(Protocol[proto].fields) \in Nat
    PROVE  FieldOffset(proto, name) \in 1 .. HeaderSize(proto)
  BY DEF HasField, Contains, FieldOffset, HeaderSize

(* The headers of a probe are those of net and l4, and s words of payload follow. *)
IsLayers(ls, net, l4, s) ==
    /\ IsList(ls)
    /\ Len(ls) = 3
    /\ ls[1] = [proto |-> net, at |-> 0, size |-> HeaderSize(net)]
    /\ ls[2] = [proto |-> l4, at |-> HeaderSize(net), size |-> HeaderSize(l4)]
    /\ ls[3] = [proto |-> Payload, at |-> HeaderSize(net) + HeaderSize(l4), size |-> s]

LEMMA LeastOf ==
    ASSUME NEW S, NEW x \in S, \A y \in S : y \in Int /\ x <= y
    PROVE  Min(S) = x
<1>1. \A z \in S : (\A y \in S : z <= y) => z = x
  OBVIOUS
<1> QED
  BY <1>1 DEF Min

(* Where a field of a probe is. *)
LEMMA FieldIsAt ==
    ASSUME NEW net \in IpNames, NEW l4 \in TransportNames, NEW s,
           NEW p, NEW name, IsLayers(p.layers, net, l4, s)
    PROVE  /\ Position(p, name, 0) = IF HasField(net, name) THEN FieldOffset(net, name)
                                     ELSE IF HasField(l4, name)
                                     THEN HeaderSize(net) + FieldOffset(l4, name) ELSE 0
           /\ Position(p, name, 1) = IF HasField(l4, name)
                                     THEN HeaderSize(net) + FieldOffset(l4, name) ELSE 0
<1> DEFINE ls == p.layers
           having(depth) == {i \in depth + 1 .. Len(ls) : LayerHas(ls[i], name)}
<1>1. /\ net # Payload /\ l4 # Payload
  BY DEF IpNames, TransportNames, IcmpNames, Payload
<1>2. /\ LayerHas(ls[1], name) <=> HasField(net, name)
      /\ LayerHas(ls[2], name) <=> HasField(l4, name)
      /\ ~LayerHas(ls[3], name)
  BY <1>1 DEF IsLayers, LayerHas, IsProtocol
<1>3. Len(ls) = 3
  BY DEF IsLayers
<1>4. HasField(net, name) => Min(having(0)) = 1
  <2> SUFFICES ASSUME HasField(net, name) PROVE Min(having(0)) = 1
    OBVIOUS
  <2>1. 1 \in having(0) /\ \A y \in having(0) : y \in Int /\ 1 <= y
    BY <1>2, <1>3
  <2> HIDE DEF having
  <2> QED
    BY <2>1, LeastOf
<1>5. ~HasField(net, name) /\ HasField(l4, name) => Min(having(0)) = 2
  <2> SUFFICES ASSUME ~HasField(net, name), HasField(l4, name) PROVE Min(having(0)) = 2
    OBVIOUS
  <2>1. 2 \in having(0) /\ \A y \in having(0) : y \in Int /\ 2 <= y
    BY <1>2, <1>3
  <2> HIDE DEF having
  <2> QED
    BY <2>1, LeastOf
<1>6. HasField(l4, name) => Min(having(1)) = 2
  <2> SUFFICES ASSUME HasField(l4, name) PROVE Min(having(1)) = 2
    OBVIOUS
  <2>1. 2 \in having(1) /\ \A y \in having(1) : y \in Int /\ 2 <= y
    BY <1>2, <1>3
  <2> HIDE DEF having
  <2> QED
    BY <2>1, LeastOf
<1>7. /\ HasField(net, name) \/ HasField(l4, name) <=> having(0) # {}
      /\ HasField(l4, name) <=> having(1) # {}
  BY <1>2, <1>3
<1>8. \A depth : Position(p, name, depth)
                    = IF having(depth) = {} THEN 0 ELSE FieldAt(ls[Min(having(depth))], name)
  BY DEF Position
<1>9. /\ FieldAt(ls[1], name) = 0 + FieldOffset(net, name)
      /\ FieldAt(ls[2], name) = HeaderSize(net) + FieldOffset(l4, name)
  BY DEF IsLayers, FieldAt
<1>10. HasField(net, name) => FieldOffset(net, name) \in Int
  <2>1. Len(Protocol[net].fields) \in Nat
    BY NetFields DEF HeaderSize
  <2> QED
    BY <2>1, OffsetType
<1>11. HasField(net, name) => 0 + FieldOffset(net, name) = FieldOffset(net, name)
  BY <1>10
<1> HIDE DEF having, ls
<1> QED
  BY <1>4, <1>5, <1>6, <1>7, <1>8, <1>9, <1>11

LEMMA FieldPlaces ==
    ASSUME NEW net \in IpNames, NEW l4 \in TransportNames, NEW s,
           NEW p, IsLayers(p.layers, net, l4, s)
    PROVE  /\ Position(p, "src_ip", 0) = HeaderSize(net) - 1
           /\ Position(p, "dst_ip", 0) = HeaderSize(net)
           /\ Position(p, "ttl", 0) = FieldOffset(net, "ttl")
           /\ Position(p, "protocol", 0) = FieldOffset(net, "protocol")
           /\ Position(p, "flow_id", 0) = 0
           /\ Position(p, "src_port", 0) = IF l4 \in IcmpNames THEN 0 ELSE HeaderSize(net) + 1
           /\ Position(p, "dst_port", 0) = IF l4 \in IcmpNames THEN 0 ELSE HeaderSize(net) + 2
           /\ Position(p, "flags", 0) = IF l4 = "tcp" THEN HeaderSize(net) + 4 ELSE 0
           /\ Position(p, "body", 0) = IF l4 \in IcmpNames THEN HeaderSize(net) + 3 ELSE 0
           /\ Position(p, "checksum", 1) = HeaderSize(net) + FieldOffset(l4, "checksum")
<1>1. \A name : Position(p, name, 0) = IF HasField(net, name) THEN FieldOffset(net, name)
                                        ELSE IF HasField(l4, name)
                                        THEN HeaderSize(net) + FieldOffset(l4, name) ELSE 0
  BY FieldIsAt
<1>2. /\ Position(p, "src_ip", 0) = HeaderSize(net) - 1
      /\ Position(p, "dst_ip", 0) = HeaderSize(net)
      /\ Position(p, "ttl", 0) = FieldOffset(net, "ttl")
      /\ Position(p, "protocol", 0) = FieldOffset(net, "protocol")
  BY <1>1, NetFields
<1>3. Position(p, "flow_id", 0) = 0
  <2>1. ~HasField(net, "flow_id") /\ ~HasField(l4, "flow_id")
    BY NetFields, TransportFields
  <2> QED
    BY <1>1, <2>1
<1>4. /\ Position(p, "src_port", 0) = IF l4 \in IcmpNames THEN 0 ELSE HeaderSize(net) + 1
      /\ Position(p, "dst_port", 0) = IF l4 \in IcmpNames THEN 0 ELSE HeaderSize(net) + 2
  <2>1. ~HasField(net, "src_port") /\ ~HasField(net, "dst_port")
    BY NetFields
  <2>2. /\ HasField(l4, "src_port") <=> l4 \notin IcmpNames
        /\ HasField(l4, "dst_port") <=> l4 \notin IcmpNames
        /\ l4 \notin IcmpNames => FieldOffset(l4, "src_port") = 1 /\ FieldOffset(l4, "dst_port") = 2
    BY TransportFields
  <2> QED
    BY <1>1, <2>1, <2>2
<1>5. Position(p, "flags", 0) = IF l4 = "tcp" THEN HeaderSize(net) + 4 ELSE 0
  <2>1. ~HasField(net, "flags")
    BY NetFields
  <2>2. /\ HasField(l4, "flags") <=> l4 = "tcp"
        /\ l4 = "tcp" => FieldOffset(l4, "flags") = 4
    BY TransportFields
  <2> QED
    BY <1>1, <2>1, <2>2
<1>6. Position(p, "body", 0) = IF l4 \in IcmpNames THEN HeaderSize(net) + 3 ELSE 0
  <2>1. ~HasField(net, "body")
    BY NetFields
  <2>2. /\ HasField(l4, "body") <=> l4 \in IcmpNames
        /\ l4 \in IcmpNames => FieldOffset(l4, "body") = 3
    BY TransportFields
  <2> QED
    BY <1>1, <2>1, <2>2
<1>7. Position(p, "checksum", 1) = HeaderSize(net) + FieldOffset(l4, "checksum")
  <2>1. HasField(l4, "checksum")
    BY TransportFields
  <2> QED
    BY <2>1, FieldIsAt
<1> QED
  BY <1>2, <1>3, <1>4, <1>5, <1>6, <1>7

-----------------------------------------------------------------------------
(* Sums of a few words *)

IsSum(f, q, S) ==
    f = [s \in SUBSET S |-> IF s = {} THEN 0
                            ELSE q[CHOOSE x \in s : TRUE] + f[s \ {CHOOSE x \in s : TRUE}]]

LEMMA SumExists ==
    ASSUME NEW q, q[1] \in Int, q[2] \in Int, q[3] \in Int, NEW S \in SUBSET (1 .. 3)
    PROVE  \E f : IsSum(f, q, S)
<1> DEFINE Part(i, s) == IF i \in s THEN q[i] ELSE 0
           h == [s \in SUBSET S |-> Part(1, s) + Part(2, s) + Part(3, s)]
<1>1. ASSUME NEW s \in SUBSET S
      PROVE  h[s] = IF s = {} THEN 0
                    ELSE q[CHOOSE x \in s : TRUE] + h[s \ {CHOOSE x \in s : TRUE}]
  <2>1. CASE s = {}
    BY <2>1
  <2>2. CASE s # {}
    <3>1. PICK x \in s : x = CHOOSE y \in s : TRUE
      BY <2>2
    <3>2. s \ {x} \in SUBSET S /\ x \in {1, 2, 3}
      OBVIOUS
    <3>3. h[s] = q[x] + h[s \ {x}]
      BY <3>2
    <3> HIDE DEF h
    <3> QED
      BY <2>2, <3>1, <3>3
  <2> QED
    BY <2>1, <2>2
<1>2. h = [s \in SUBSET S |-> h[s]]
  OBVIOUS
<1> HIDE DEF h
<1>3. IsSum(h, q, S)
  BY <1>1, <1>2 DEF IsSum
<1> QED
  BY <1>3

(* The words of a sequence of three at most add up to their sum. *)
LEMMA WordSumIs ==
    ASSUME NEW q, NEW n \in 0 .. 3, DOMAIN q = 1 .. n, \A i \in 1 .. n : q[i] \in Int
    PROVE  /\ n = 0 => WordSum(q) = 0
           /\ n = 1 => WordSum(q) = q[1]
           /\ n = 2 => WordSum(q) = q[1] + q[2]
           /\ n = 3 => WordSum(q) = q[1] + q[2] + q[3]
<1> DEFINE f == CHOOSE f : IsSum(f, q, DOMAIN q)
           S == 1 .. n
<1>1. WordSum(q) = f[DOMAIN q]
  BY DEF WordSum, FoldSeq, FoldFunction, FoldFunctionOnSet, MapThenFoldSet, IsSum
<1>2. \E g : IsSum(g, q, S)
  <2> DEFINE r == [i \in 1 .. 3 |-> IF i <= n THEN q[i] ELSE 0]
  <2>1. r[1] \in Int /\ r[2] \in Int /\ r[3] \in Int
    OBVIOUS
  <2>2. S \in SUBSET (1 .. 3)
    OBVIOUS
  <2>3. \A i \in S : r[i] = q[i]
    OBVIOUS
  <2> HIDE DEF r
  <2>4. PICK g : IsSum(g, r, S)
    BY <2>1, <2>2, SumExists
  <2>5. \A s \in SUBSET S : s # {} => (CHOOSE x \in s : TRUE) \in S
    OBVIOUS
  <2>6. IsSum(g, q, S)
    BY <2>3, <2>4, <2>5 DEF IsSum
  <2> QED
    BY <2>6
<1>3. IsSum(f, q, S)
  BY <1>2
<1> HIDE DEF f
<1>4. f[{}] = 0
  BY <1>3 DEF IsSum
<1>5. ASSUME NEW s \in SUBSET S, s # {}
      PROVE  \E x \in s : f[s] = q[x] + f[s \ {x}]
  BY <1>3, <1>5 DEF IsSum
<1>6. \A i \in S : f[{i}] = q[i]
  <2> SUFFICES ASSUME NEW i \in S PROVE f[{i}] = q[i]
    OBVIOUS
  <2>1. f[{i}] = q[i] + f[{i} \ {i}]
    BY <1>5
  <2>2. f[{i} \ {i}] = 0
    <3>1. {i} \ {i} = {}
      OBVIOUS
    <3> QED
      BY <1>4, <3>1
  <2>3. q[i] \in Int
    OBVIOUS
  <2> QED
    BY <2>1, <2>2, <2>3
<1>7. \A i, j \in S : i # j => f[{i, j}] = q[i] + q[j]
  <2> SUFFICES ASSUME NEW i \in S, NEW j \in S, i # j PROVE f[{i, j}] = q[i] + q[j]
    OBVIOUS
  <2>1. PICK x \in {i, j} : f[{i, j}] = q[x] + f[{i, j} \ {x}]
    BY <1>5
  <2>2. f[{i, j} \ {i}] = q[j] /\ f[{i, j} \ {j}] = q[i]
    <3>1. {i, j} \ {i} = {j} /\ {i, j} \ {j} = {i}
      OBVIOUS
    <3> QED
      BY <1>6, <3>1
  <2>3. q[i] \in Int /\ q[j] \in Int
    OBVIOUS
  <2>4. CASE x = i
    <3>1. f[{i, j}] = q[i] + f[{i, j} \ {i}]
      BY <2>1, <2>4
    <3> QED
      BY <2>2, <3>1
  <2>5. CASE x = j
    <3>1. f[{i, j}] = q[j] + f[{i, j} \ {j}]
      BY <2>1, <2>5
    <3> QED
      BY <2>2, <2>3, <3>1
  <2> QED
    BY <2>4, <2>5
<1>8. CASE n = 0
  BY <1>1, <1>4, <1>8
<1>9. CASE n = 1
  <2>1. S = {1}
    BY <1>9
  <2> QED
    BY <1>1, <1>6, <1>9, <2>1
<1>10. CASE n = 2
  <2>1. S = {1, 2}
    BY <1>10
  <2> QED
    BY <1>1, <1>7, <1>10, <2>1
<1>11. CASE n = 3
  <2>1. S = {1, 2, 3}
    BY <1>11
  <2>2. PICK x \in S : f[S] = q[x] + f[S \ {x}]
    BY <1>5, <2>1
  <2>3. /\ f[S \ {1}] = q[2] + q[3]
        /\ f[S \ {2}] = q[1] + q[3]
        /\ f[S \ {3}] = q[1] + q[2]
    <3>1. S \ {1} = {2, 3} /\ S \ {2} = {1, 3} /\ S \ {3} = {1, 2}
      BY <2>1
    <3>2. 1 \in S /\ 2 \in S /\ 3 \in S
      BY <2>1
    <3> QED
      BY <1>7, <3>1, <3>2
  <2>4. q[1] \in Int /\ q[2] \in Int /\ q[3] \in Int
    BY <1>11
  <2>5. /\ x = 1 => f[S] = q[1] + (q[2] + q[3])
        /\ x = 2 => f[S] = q[2] + (q[1] + q[3])
        /\ x = 3 => f[S] = q[3] + (q[1] + q[2])
    <3> HIDE DEF S
    <3> QED
      BY <2>2, <2>3
  <2>6. x = 1 \/ x = 2 \/ x = 3
    BY <2>1
  <2>7. f[S] = q[1] + q[2] + q[3]
    <3> HIDE DEF S
    <3> QED
      BY <2>4, <2>5, <2>6
  <2> QED
    BY <1>1, <1>11, <2>7
<1> QED
  BY <1>8, <1>9, <1>10, <1>11

-----------------------------------------------------------------------------
(* Packets that differ in a few words *)

LEMMA MinOfTwo ==
    ASSUME NEW a \in Int, NEW b \in Int
    PROVE  Min({a, b}) = IF a <= b THEN a ELSE b
<1>1. CASE a <= b
  <2>1. \A y \in {a, b} : y \in Int /\ a <= y
    BY <1>1
  <2> QED
    BY <1>1, <2>1, LeastOf
<1>2. CASE b < a
  <2>1. \A y \in {a, b} : y \in Int /\ b <= y
    BY <1>2
  <2> QED
    BY <1>2, <2>1, LeastOf
<1> QED
  BY <1>1, <1>2

LEMMA ListExcept ==
    ASSUME NEW d, IsList(d), NEW k, NEW v
    PROVE  /\ IsList([d EXCEPT ![k] = v])
           /\ Len([d EXCEPT ![k] = v]) = Len(d)
<1>1. PICK S : d \in Seq(S)
  BY DEF IsList
<1>2. PICK T : T = S \cup {v}
  OBVIOUS
<1>3. d \in Seq(T) /\ v \in T
  BY <1>1, <1>2
<1> DEFINE e == [d EXCEPT ![k] = v]
           n == Len(d)
<1>4. n \in Nat /\ DOMAIN d = 1 .. n /\ \A i \in 1 .. n : d[i] \in T
  BY <1>3
<1>5. e = [i \in 1 .. n |-> IF i = k THEN v ELSE d[i]]
  BY <1>4
<1> HIDE DEF n, e
<1>6. e \in [1 .. n -> T]
  BY <1>3, <1>4, <1>5
<1>7. e \in Seq(T) /\ Len(e) = n
  BY <1>4, <1>6
<1> QED
  BY <1>7 DEF IsList, n, e

(* The packet e is the packet d but for words that are not in K. *)
Same(d, e, K) == IsList(e) /\ Len(e) = Len(d) /\ \A k \in K : e[k] = d[k]

LEMMA SameAfter ==
    ASSUME NEW d, NEW e, NEW f, NEW K, Same(d, e, K), Same(e, f, K)
    PROVE  Same(d, f, K)
  BY DEF Same

LEMMA LayerSetSame ==
    ASSUME NEW d, IsList(d), NEW K, NEW l, NEW name, NEW v,
           LayerHas(l, name) => FieldAt(l, name) \notin K
    PROVE  Same(d, LayerSet(d, l, name, v), K)
<1>1. CASE LayerHas(l, name)
  <2>1. LayerSet(d, l, name, v) = [d EXCEPT ![FieldAt(l, name)] = v]
    BY <1>1 DEF LayerSet
  <2> DEFINE spot == FieldAt(l, name)
             e == [d EXCEPT ![spot] = v]
  <2>2. spot \notin K
    BY <1>1
  <2>3. \A k \in K : e[k] = d[k]
    BY <2>2
  <2>4. IsList(e) /\ Len(e) = Len(d)
    BY ListExcept
  <2> HIDE DEF e
  <2> QED
    BY <2>1, <2>3, <2>4 DEF Same, e
<1>2. CASE ~LayerHas(l, name)
  BY <1>2 DEF LayerSet, Same
<1> QED
  BY <1>1, <1>2

(* The words that the updates of a probe leave alone: the version, the time *)
(* to live, the protocol, the addresses, and the first words of the        *)
(* transport header.                                                       *)
Core(net, l4) ==
    {1, FieldOffset(net, "ttl"), FieldOffset(net, "protocol"),
     HeaderSize(net) - 1, HeaderSize(net), HeaderSize(net) + 1}
    \cup {k \in {HeaderSize(net) + 2} : l4 \notin IcmpNames}

Updated == {"length", "checksum", "body", "flags"}

LEMMA CoreAvoids ==
    ASSUME NEW net \in IpNames, NEW l4 \in TransportNames, NEW s,
           NEW ls, IsLayers(ls, net, l4, s), NEW i \in 1 .. 3, NEW name \in Updated,
           LayerHas(ls[i], name)
    PROVE  FieldAt(ls[i], name) \notin Core(net, l4)
<1>1. ~LayerHas(ls[3], name)
  BY DEF IsLayers, LayerHas, IsProtocol
<1>2. CASE i = 1
  <2>1. HasField(net, name) /\ FieldAt(ls[i], name) = 0 + FieldOffset(net, name)
    BY <1>2 DEF IsLayers, LayerHas, FieldAt
  <2>2. \/ name = "length" /\ FieldOffset(net, name) = 2
        \/ name = "checksum" /\ net = "ipv4" /\ FieldOffset(net, name) = 5
    BY <2>1, NetFields DEF Updated
  <2>3. CASE name = "length"
    BY <2>1, <2>2, <2>3, NetFields DEF Core
  <2>4. CASE name = "checksum"
    BY <2>1, <2>2, <2>4, NetFields DEF Core
  <2> QED
    BY <2>2, <2>3, <2>4
<1>3. CASE i = 2
  <2>1. HasField(l4, name) /\ FieldAt(ls[i], name) = HeaderSize(net) + FieldOffset(l4, name)
    BY <1>3 DEF IsLayers, LayerHas, FieldAt
  <2>2. \/ FieldOffset(l4, name) \in {3, 4, 5}
        \/ FieldOffset(l4, name) = 2 /\ l4 \in IcmpNames
    BY <2>1, TransportFields DEF Updated, TransportNames
  <2>3. HeaderSize(net) \in {6, 7} /\ FieldOffset(net, "ttl") \in {3, 4}
        /\ FieldOffset(net, "protocol") \in {3, 4}
    BY NetFields
  <2> QED
    BY <2>1, <2>2, <2>3 DEF Core
<1> QED
  BY <1>1, <1>2, <1>3

-----------------------------------------------------------------------------
(* The loops over the layers of a probe *)

(* One step of the loops of UpdateProtocol, SetLengths and UpdateChecksum;  *)
(* x is what comes before each layer, or what is read beyond the packet.   *)
Step(loop, ls, x, e, i) ==
    CASE loop = 1 -> (IF IsProtocol(ls[i])
                      THEN LayerSet(e, ls[i - 1], "protocol", Protocol[ls[i].proto].id)
                      ELSE e)
      [] loop = 2 -> LayerSetLength(e, ls[i], Len(e) - x[i])
      [] loop = 3 -> WriteChecksum(e, ls, i, x)

IsLoop(f, loop, ls, x, base, q, S) ==
    f = [s \in SUBSET S |-> IF s = {} THEN base
                            ELSE Step(loop, ls, x, f[s \ {Max(s)}], q[Max(s)])]

LEMMA LargestOfPrefix ==
    ASSUME NEW n \in Nat, NEW s \in SUBSET (1 .. n), n \in s
    PROVE  Max(s) = n
<1>1. \A x \in s : (\A y \in s : x >= y) <=> x = n
  OBVIOUS
<1> QED
  BY <1>1 DEF Max

LEMMA LoopExists ==
    ASSUME NEW loop, NEW ls, NEW x, NEW base, NEW q, NEW n \in Nat
    PROVE  \E f : IsLoop(f, loop, ls, x, base, q, 1 .. n)
<1> DEFINE S == {m \in Nat : ~ \E f : IsLoop(f, loop, ls, x, base, q, 1 .. m)}
<1>1. SUFFICES ASSUME S # {} PROVE FALSE
  OBVIOUS
<1>2. PICK m \in S : \A k \in S : m <= k
  BY <1>1, LeastNumber
<1>3. m # 0
  <2> DEFINE h == [s \in SUBSET (1 .. 0) |-> base]
  <2>1. \A s \in SUBSET (1 .. 0) : s = {}
    OBVIOUS
  <2>2. IsLoop(h, loop, ls, x, base, q, 1 .. 0)
    BY <2>1 DEF IsLoop
  <2> QED
    BY <2>2
<1>4. PICK f : IsLoop(f, loop, ls, x, base, q, 1 .. m - 1)
  <2>1. m - 1 \in Nat /\ ~ (m <= m - 1)
    BY <1>3
  <2> QED
    BY <1>2, <2>1
<1> DEFINE After(g, s) == IF s = {} THEN base
                          ELSE Step(loop, ls, x, g[s \ {Max(s)}], q[Max(s)])
           h == [s \in SUBSET (1 .. m) |-> IF m \in s THEN After(f, s) ELSE f[s]]
<1>5. ASSUME NEW s \in SUBSET (1 .. m)
      PROVE  h[s] = After(h, s)
  <2>1. h[s] = IF m \in s THEN After(f, s) ELSE f[s]
    OBVIOUS
  <2>2. m \notin s \ {Max(s)}
    BY LargestOfPrefix
  <2>3. s \ {Max(s)} \in SUBSET (1 .. m)
    OBVIOUS
  <2>4. h[s \ {Max(s)}] = f[s \ {Max(s)}]
    BY <2>2, <2>3
  <2>5. After(h, s) = After(f, s)
    <3> HIDE DEF h
    <3> QED
      BY <2>4
  <2>6. CASE m \in s
    BY <2>1, <2>5, <2>6
  <2>7. CASE m \notin s
    <3>1. s \in SUBSET (1 .. m - 1)
      BY <2>7
    <3>2. f[s] = After(f, s)
      BY <1>4, <3>1 DEF IsLoop
    <3> HIDE DEF h, After
    <3> QED
      BY <2>1, <2>5, <2>7, <3>2
  <2> QED
    BY <2>6, <2>7
<1>6. IsLoop(h, loop, ls, x, base, q, 1 .. m)
  <2>1. h = [s \in SUBSET (1 .. m) |-> h[s]]
    OBVIOUS
  <2> HIDE DEF h
  <2>2. h = [s \in SUBSET (1 .. m) |-> After(h, s)]
    BY <1>5, <2>1
  <2> QED
    BY <2>2 DEF IsLoop
<1> QED
  BY <1>2, <1>6

(* A loop takes its steps one after the other. *)
LEMMA LoopSteps ==
    ASSUME NEW loop, NEW ls, NEW x, NEW base, NEW q, NEW n \in 2 .. 3, NEW f,
           IsLoop(f, loop, ls, x, base, q, 1 .. n)
    PROVE  LET second == Step(loop, ls, x, Step(loop, ls, x, base, q[1]), q[2])
           IN  f[1 .. n] = IF n = 2 THEN second ELSE Step(loop, ls, x, second, q[3])
<1>1. f[1 .. 0] = base
  <2>1. 1 .. 0 = {} /\ {} \in SUBSET (1 .. n)
    OBVIOUS
  <2>2. f[{}] = base
    BY <2>1 DEF IsLoop
  <2> QED
    BY <2>1, <2>2
<1>2. ASSUME NEW m \in 1 .. n
      PROVE  f[1 .. m] = Step(loop, ls, x, f[1 .. m - 1], q[m])
  <2> DEFINE s == 1 .. m
  <2>1. m \in Nat /\ n \in Nat /\ 1 <= m /\ m <= n
    OBVIOUS
  <2>2. s \in SUBSET (1 .. n) /\ s \in SUBSET (1 .. m) /\ m \in s
    BY <2>1
  <2>3. Max(s) = m
    BY <2>1, <2>2, LargestOfPrefix
  <2>4. s \ {m} = 1 .. m - 1
    BY <2>1
  <2> HIDE DEF s
  <2>5. f[s] = Step(loop, ls, x, f[s \ {Max(s)}], q[Max(s)])
    BY <2>2 DEF IsLoop
  <2> QED
    BY <2>3, <2>4, <2>5 DEF s
<1>3. f[1 .. 1] = Step(loop, ls, x, f[1 .. 0], q[1])
  <2>1. 1 \in 1 .. n
    OBVIOUS
  <2>2. 1 - 1 = 0
    OBVIOUS
  <2> QED
    BY <1>2, <2>1, <2>2
<1>4. f[1 .. 2] = Step(loop, ls, x, f[1 .. 1], q[2])
  <2>1. 2 \in 1 .. n
    OBVIOUS
  <2>2. 2 - 1 = 1
    OBVIOUS
  <2> QED
    BY <1>2, <2>1, <2>2
<1>5. n = 3 => f[1 .. 3] = Step(loop, ls, x, f[1 .. 2], q[3])
  <2>1. 3 - 1 = 2
    OBVIOUS
  <2> QED
    BY <1>2, <2>1
<1>6. CASE n = 2
  BY <1>1, <1>3, <1>4, <1>6
<1>7. CASE n = 3
  BY <1>1, <1>3, <1>4, <1>5, <1>7
<1> QED
  BY <1>6, <1>7

LEMMA ChecksumIsSet ==
    ASSUME NEW d, NEW ls, NEW i, NEW junk
    PROVE  \/ WriteChecksum(d, ls, i, junk) = d
           \/ \E v : WriteChecksum(d, ls, i, junk) = LayerSet(d, ls[i], "checksum", v)
<1> DEFINE prev == IF i = 1 THEN ls[i] ELSE ls[i - 1]
<1>1. WriteChecksum(d, ls, i, junk) =
        CASE ls[i].proto = "ipv4"   -> LayerSet(d, ls[i], "checksum", Ipv4Checksum(d, ls[i], prev, junk))
          [] ls[i].proto = "icmpv4" -> LayerSet(d, ls[i], "checksum", Icmpv4Checksum(d, ls[i], prev, junk))
          [] ls[i].proto = "icmpv6" -> LayerSet(d, ls[i], "checksum", Icmpv6Checksum(d, ls[i], prev, junk))
          [] ls[i].proto = "udp"    -> LayerSet(d, ls[i], "checksum", UdpChecksum(d, ls[i], prev, junk))
          [] ls[i].proto = "tcp"    -> LayerSet(d, ls[i], "checksum", TcpChecksum(d, ls[i], prev, junk))
          [] OTHER                  -> d
  BY DEF WriteChecksum
<1> HIDE DEF prev
<1> QED
  BY <1>1

LEMMA ProtocolsLoop ==
    ASSUME NEW p, Len(p.layers) = 3
    PROVE  UpdateProtocol(p) =
             [p EXCEPT !.data = Step(1, p.layers, 0, Step(1, p.layers, 0, p.data, 2), 3)]
<1> DEFINE q == [k \in 1 .. Len(p.layers) - 1 |-> k + 1]
           Names(f, s) == IF IsProtocol(p.layers[q[Max(s)]])
                          THEN LayerSet(f[s \ {Max(s)}], p.layers[q[Max(s)] - 1], "protocol",
                                        Protocol[p.layers[q[Max(s)]].proto].id)
                          ELSE f[s \ {Max(s)}]
           F == CHOOSE f : f = [s \in SUBSET DOMAIN q |-> IF s = {} THEN p.data ELSE Names(f, s)]
<1>1. UpdateProtocol(p) = [p EXCEPT !.data = F[DOMAIN q]]
  BY DEF UpdateProtocol, FoldLeft, MapThenFoldSet
<1>2. q[1] = 2 /\ q[2] = 3 /\ DOMAIN q = 1 .. 2
  OBVIOUS
<1> HIDE DEF q
<1>3. \E f : IsLoop(f, 1, p.layers, 0, p.data, q, 1 .. 2)
  BY LoopExists
<1>4. IsLoop(F, 1, p.layers, 0, p.data, q, 1 .. 2)
  <2>1. \A f, s : Names(f, s) = Step(1, p.layers, 0, f[s \ {Max(s)}], q[Max(s)])
    BY DEF Step
  <2> HIDE DEF Names, F
  <2>2. \A f : IsLoop(f, 1, p.layers, 0, p.data, q, 1 .. 2)
                <=> f = [s \in SUBSET DOMAIN q |-> IF s = {} THEN p.data ELSE Names(f, s)]
    BY <1>2, <2>1 DEF IsLoop
  <2>3. \E f : f = [s \in SUBSET DOMAIN q |-> IF s = {} THEN p.data ELSE Names(f, s)]
    BY <1>3, <2>2
  <2>4. F = [s \in SUBSET DOMAIN q |-> IF s = {} THEN p.data ELSE Names(F, s)]
    BY <2>3 DEF F
  <2> QED
    BY <2>2, <2>4
<1> HIDE DEF F
<1>5. F[1 .. 2] = Step(1, p.layers, 0, Step(1, p.layers, 0, p.data, 2), 3)
  BY <1>2, <1>4, LoopSteps
<1> QED
  BY <1>1, <1>2, <1>5

LEMMA LengthsLoop ==
    ASSUME NEW d, NEW ls, Len(ls) = 3, NEW before
    PROVE  SetLengths(d, ls, before) = Step(2, ls, before, Step(2, ls, before, d, 1), 2)
<1> DEFINE q == [k \in 1 .. Len(ls) - 1 |-> k]
           Sets(f, s) == LayerSetLength(f[s \ {Max(s)}], ls[q[Max(s)]],
                                        Len(f[s \ {Max(s)}]) - before[q[Max(s)]])
           F == CHOOSE f : f = [s \in SUBSET DOMAIN q |-> IF s = {} THEN d ELSE Sets(f, s)]
<1>1. SetLengths(d, ls, before) = F[DOMAIN q]
  BY DEF SetLengths, FoldLeft, MapThenFoldSet
<1>2. q[1] = 1 /\ q[2] = 2 /\ DOMAIN q = 1 .. 2
  OBVIOUS
<1> HIDE DEF q
<1>3. \E f : IsLoop(f, 2, ls, before, d, q, 1 .. 2)
  BY LoopExists
<1>4. IsLoop(F, 2, ls, before, d, q, 1 .. 2)
  <2>1. \A f, s : Sets(f, s) = Step(2, ls, before, f[s \ {Max(s)}], q[Max(s)])
    BY DEF Step
  <2> HIDE DEF Sets, F
  <2>2. \A f : IsLoop(f, 2, ls, before, d, q, 1 .. 2)
                <=> f = [s \in SUBSET DOMAIN q |-> IF s = {} THEN d ELSE Sets(f, s)]
    BY <1>2, <2>1 DEF IsLoop
  <2>3. \E f : f = [s \in SUBSET DOMAIN q |-> IF s = {} THEN d ELSE Sets(f, s)]
    BY <1>3, <2>2
  <2>4. F = [s \in SUBSET DOMAIN q |-> IF s = {} THEN d ELSE Sets(F, s)]
    BY <2>3 DEF F
  <2> QED
    BY <2>2, <2>4
<1> HIDE DEF F
<1>5. F[1 .. 2] = Step(2, ls, before, Step(2, ls, before, d, 1), 2)
  BY <1>2, <1>4, LoopSteps
<1> QED
  BY <1>1, <1>2, <1>5

LEMMA ChecksumsLoop ==
    ASSUME NEW d, NEW ls, Len(ls) = 3, NEW junk
    PROVE  UpdateChecksum(d, ls, junk) =
             Step(3, ls, junk, Step(3, ls, junk, Step(3, ls, junk, d, 3), 2), 1)
<1> DEFINE q == Reverse([i \in 1 .. Len(ls) |-> i])
           Sums(f, s) == WriteChecksum(f[s \ {Max(s)}], ls, q[Max(s)], junk)
           F == CHOOSE f : f = [s \in SUBSET DOMAIN q |-> IF s = {} THEN d ELSE Sums(f, s)]
<1>1. UpdateChecksum(d, ls, junk) = F[DOMAIN q]
  BY DEF UpdateChecksum, FoldLeft, MapThenFoldSet
<1>2. q[1] = 3 /\ q[2] = 2 /\ q[3] = 1 /\ DOMAIN q = 1 .. 3
  <2>1. Len([i \in 1 .. 3 |-> i]) = 3
    OBVIOUS
  <2>2. q = [i \in 1 .. 3 |-> 3 - i + 1]
    BY <2>1 DEF Reverse
  <2> HIDE DEF q
  <2> QED
    BY <2>2
<1> HIDE DEF q
<1>3. \E f : IsLoop(f, 3, ls, junk, d, q, 1 .. 3)
  BY LoopExists
<1>4. IsLoop(F, 3, ls, junk, d, q, 1 .. 3)
  <2>1. \A f, s : Sums(f, s) = Step(3, ls, junk, f[s \ {Max(s)}], q[Max(s)])
    BY DEF Step
  <2> HIDE DEF Sums, F
  <2>2. \A f : IsLoop(f, 3, ls, junk, d, q, 1 .. 3)
                <=> f = [s \in SUBSET DOMAIN q |-> IF s = {} THEN d ELSE Sums(f, s)]
    BY <1>2, <2>1 DEF IsLoop
  <2>3. \E f : f = [s \in SUBSET DOMAIN q |-> IF s = {} THEN d ELSE Sums(f, s)]
    BY <1>3, <2>2
  <2>4. F = [s \in SUBSET DOMAIN q |-> IF s = {} THEN d ELSE Sums(F, s)]
    BY <2>3 DEF F
  <2> QED
    BY <2>2, <2>4
<1> HIDE DEF F
<1>5. F[1 .. 3] = Step(3, ls, junk, Step(3, ls, junk, Step(3, ls, junk, d, 3), 2), 1)
  BY <1>2, <1>4, LoopSteps
<1> QED
  BY <1>1, <1>2, <1>5

-----------------------------------------------------------------------------
(* What the updates of a probe keep *)

(* A packet that can be dissected again into the headers it was made with. *)
Packet(d, net, l4) ==
    /\ IsList(d)
    /\ Len(d) >= HeaderSize(net) + HeaderSize(l4)
    /\ d[1] = (IF net = "ipv4" THEN 4 ELSE 6)
    /\ d[FieldOffset(net, "protocol")] = Protocol[l4].id
    /\ l4 = "icmpv4" => d[HeaderSize(net) + 1] \notin {3, 11}
    /\ l4 = "icmpv6" => d[HeaderSize(net) + 1] \notin {1, 3}

(* The words that make it so. *)
Frame(net, l4) ==
    {1, FieldOffset(net, "protocol")} \cup {k \in {HeaderSize(net) + 1} : l4 \in IcmpNames}

(* A probe with s words in the layer of its payload. *)
Made(p, net, l4, s) ==
    /\ p = [data |-> p.data, layers |-> p.layers]
    /\ IsLayers(p.layers, net, l4, s)
    /\ Packet(p.data, net, l4)

(* The words of a packet behind its headers. *)
Rest(d, net, l4) == Len(d) - HeaderSize(net) - HeaderSize(l4)

LEMMA PacketSame ==
    ASSUME NEW net, NEW l4, NEW d, NEW e, NEW K, Frame(net, l4) \subseteq K,
           Packet(d, net, l4), Same(d, e, K)
    PROVE  Packet(e, net, l4)
<1>1. e[1] = d[1] /\ e[FieldOffset(net, "protocol")] = d[FieldOffset(net, "protocol")]
  BY DEF Same, Frame
<1>2. l4 \in IcmpNames => e[HeaderSize(net) + 1] = d[HeaderSize(net) + 1]
  BY DEF Same, Frame
<1>3. IsList(e) /\ Len(e) = Len(d)
  BY DEF Same
<1> QED
  BY <1>1, <1>2, <1>3 DEF Packet, IcmpNames

LEMMA FrameInCore ==
    ASSUME NEW net, NEW l4
    PROVE  Frame(net, l4) \subseteq Core(net, l4)
  BY DEF Frame, Core

LEMMA ProtocolsKept ==
    ASSUME NEW net \in IpNames, NEW l4 \in TransportNames, NEW s, NEW p, Made(p, net, l4, s),
           NEW K
    PROVE  /\ Made(UpdateProtocol(p), net, l4, s)
           /\ Same(p.data, UpdateProtocol(p).data, K)
<1> DEFINE ls == p.layers
           d == p.data
           spot == FieldOffset(net, "protocol")
           e == [d EXCEPT ![spot] = Protocol[l4].id]
<1>1. Len(ls) = 3 /\ p = [data |-> d, layers |-> ls]
  BY DEF Made, IsLayers
<1>2. UpdateProtocol(p) = [p EXCEPT !.data = Step(1, ls, 0, Step(1, ls, 0, d, 2), 3)]
  BY <1>1, ProtocolsLoop
<1>3. Step(1, ls, 0, d, 2) = e
  <2>1. Step(1, ls, 0, d, 2)
          = IF IsProtocol(ls[2])
            THEN LayerSet(d, ls[2 - 1], "protocol", Protocol[ls[2].proto].id) ELSE d
    BY DEF Step
  <2>2. ls[2].proto = l4 /\ IsProtocol(ls[2])
    BY DEF Made, IsLayers, IsProtocol, TransportNames, IcmpNames, Payload
  <2>3. ls[1].proto = net /\ ls[1].at = 0 /\ IsProtocol(ls[1]) /\ 2 - 1 = 1
    BY DEF Made, IsLayers, IsProtocol, IpNames, Payload
  <2>4. HasField(net, "protocol") /\ 0 + spot = spot
    BY NetFields
  <2>5. LayerHas(ls[1], "protocol") /\ FieldAt(ls[1], "protocol") = spot
    BY <2>3, <2>4 DEF LayerHas, FieldAt
  <2> HIDE DEF ls, d, spot
  <2> QED
    BY <2>1, <2>2, <2>3, <2>5 DEF LayerSet
<1>4. \A f : Step(1, ls, 0, f, 3) = f
  <2>1. ~IsProtocol(ls[3])
    BY DEF Made, IsLayers, IsProtocol
  <2> QED
    BY <2>1 DEF Step
<1>5. UpdateProtocol(p) = [p EXCEPT !.data = e]
  BY <1>2, <1>3, <1>4
<1>6. Same(d, e, K) /\ Packet(e, net, l4)
  <2>1. IsList(d) /\ d[spot] = Protocol[l4].id /\ Packet(d, net, l4)
    BY DEF Made, Packet
  <2>2. IsList(e) /\ Len(e) = Len(d)
    BY <2>1, ListExcept
  <2>3. \A k : e[k] = d[k]
    BY <2>1
  <2> HIDE DEF e, d, spot
  <2>4. Same(d, e, K) /\ Same(d, e, Frame(net, l4))
    BY <2>2, <2>3 DEF Same
  <2> QED
    BY <2>1, <2>4, PacketSame
<1> HIDE DEF e
<1>7. UpdateProtocol(p) = [data |-> e, layers |-> ls]
  BY <1>1, <1>5
<1>8. IsLayers(ls, net, l4, s)
  BY DEF Made
<1> QED
  BY <1>6, <1>7, <1>8 DEF Made

LEMMA LengthsKept ==
    ASSUME NEW net \in IpNames, NEW l4 \in TransportNames, NEW s,
           NEW ls, IsLayers(ls, net, l4, s), NEW d, IsList(d), NEW before
    PROVE  Same(d, SetLengths(d, ls, before), Core(net, l4))
<1> DEFINE K == Core(net, l4)
<1>1. ASSUME NEW e, IsList(e), NEW i \in 1 .. 2
      PROVE  Same(e, Step(2, ls, before, e, i), K)
  <2>1. Step(2, ls, before, e, i) = LayerSetLength(e, ls[i], Len(e) - before[i])
    BY DEF Step
  <2>2. LayerHas(ls[i], "length") => FieldAt(ls[i], "length") \notin K
    BY CoreAvoids DEF Updated
  <2>3. \A v : Same(e, LayerSet(e, ls[i], "length", v), K)
    BY <1>1, <2>2, LayerSetSame
  <2>4. Same(e, e, K)
    BY <1>1 DEF Same
  <2> QED
    BY <2>1, <2>3, <2>4 DEF LayerSetLength
<1>2. SetLengths(d, ls, before) = Step(2, ls, before, Step(2, ls, before, d, 1), 2)
  BY LengthsLoop DEF IsLayers
<1>3. PICK e : e = Step(2, ls, before, d, 1)
  OBVIOUS
<1>4. Same(d, e, K)
  BY <1>1, <1>3
<1>5. Same(e, Step(2, ls, before, e, 2), K)
  BY <1>1, <1>4 DEF Same
<1> QED
  BY <1>2, <1>3, <1>4, <1>5, SameAfter

LEMMA ChecksumsKept ==
    ASSUME NEW net \in IpNames, NEW l4 \in TransportNames, NEW s,
           NEW ls, IsLayers(ls, net, l4, s), NEW d, IsList(d), NEW junk
    PROVE  Same(d, UpdateChecksum(d, ls, junk), Core(net, l4))
<1> DEFINE K == Core(net, l4)
<1>1. ASSUME NEW e, IsList(e), NEW i \in 1 .. 3
      PROVE  Same(e, Step(3, ls, junk, e, i), K)
  <2>1. Step(3, ls, junk, e, i) = WriteChecksum(e, ls, i, junk)
    BY DEF Step
  <2>2. LayerHas(ls[i], "checksum") => FieldAt(ls[i], "checksum") \notin K
    BY CoreAvoids DEF Updated
  <2>3. \A v : Same(e, LayerSet(e, ls[i], "checksum", v), K)
    BY <1>1, <2>2, LayerSetSame
  <2>4. Same(e, e, K)
    BY <1>1 DEF Same
  <2> QED
    BY <2>1, <2>3, <2>4, ChecksumIsSet
<1>2. UpdateChecksum(d, ls, junk) = Step(3, ls, junk, Step(3, ls, junk, Step(3, ls, junk, d, 3), 2), 1)
  BY ChecksumsLoop DEF IsLayers
<1>3. PICK e : e = Step(3, ls, junk, d, 3)
  OBVIOUS
<1>4. PICK f : f = Step(3, ls, junk, e, 2)
  OBVIOUS
<1>5. Same(d, e, K)
  BY <1>1, <1>3
<1>6. Same(e, f, K)
  BY <1>1, <1>4, <1>5 DEF Same
<1>7. Same(f, Step(3, ls, junk, f, 1), K)
  BY <1>1, <1>6 DEF Same
<1>8. Same(d, f, K)
  BY <1>5, <1>6, SameAfter
<1> QED
  BY <1>2, <1>3, <1>4, <1>7, <1>8, SameAfter

(* Setting a field changes the word where it is, if the probe has it. *)
LEMMA SetFieldKept ==
    ASSUME NEW net \in IpNames, NEW l4 \in TransportNames, NEW s, NEW p, Made(p, net, l4, s),
           NEW name, NEW v, NEW depth, NEW K,
           Position(p, name, depth) \notin K, Frame(net, l4) \subseteq K
    PROVE  /\ Made(SetFieldFrom(p, name, v, depth), net, l4, s)
           /\ SetFieldFrom(p, name, v, depth).layers = p.layers
           /\ Same(p.data, SetFieldFrom(p, name, v, depth).data, K)
           /\ Position(p, name, depth) \in 1 .. Len(p.data)
                => SetFieldFrom(p, name, v, depth).data[Position(p, name, depth)] = v
<1> DEFINE d == p.data
           ls == p.layers
           spot == Position(p, name, depth)
           q == SetFieldFrom(p, name, v, depth)
<1>1. p = [data |-> d, layers |-> ls] /\ IsList(d) /\ IsLayers(ls, net, l4, s) /\ Packet(d, net, l4)
  BY DEF Made, Packet
<1>2. CASE spot = 0
  <2>1. q = p /\ spot \notin 1 .. Len(d)
    BY <1>2 DEF SetFieldFrom
  <2>2. Same(d, d, K)
    BY <1>1 DEF Same
  <2> QED
    BY <1>1, <2>1, <2>2
<1>3. CASE spot # 0
  <2> DEFINE e == [d EXCEPT ![spot] = v]
  <2>1. q = [p EXCEPT !.data = e]
    BY <1>1, <1>3 DEF SetFieldFrom
  <2>2. IsList(e) /\ Len(e) = Len(d)
    BY <1>1, ListExcept
  <2>3. \A k \in K : e[k] = d[k]
    OBVIOUS
  <2>4. spot \in 1 .. Len(d) => e[spot] = v
    BY <1>1, ListDomain
  <2> HIDE DEF e, d, ls, spot, q
  <2>5. q = [data |-> e, layers |-> ls]
    BY <1>1, <2>1
  <2>6. Same(d, e, K)
    BY <2>2, <2>3 DEF Same
  <2>7. Packet(e, net, l4)
    BY <1>1, <2>6, PacketSame
  <2>8. Made(q, net, l4, s)
    BY <1>1, <2>5, <2>7 DEF Made
  <2> QED
    BY <2>4, <2>5, <2>6, <2>8 DEF d, ls, spot, q
<1> QED
  BY <1>2, <1>3

(* The size of the payload follows the packet. *)
LEMMA LengthKept ==
    ASSUME NEW net \in IpNames, NEW l4 \in TransportNames, NEW s, NEW p, Made(p, net, l4, s)
    PROVE  /\ Same(p.data, UpdateLength(p).data, Core(net, l4))
           /\ Made(UpdateLength(p), net, l4, Rest(p.data, net, l4))
<1> DEFINE d == p.data
           ls == p.layers
           n == Len(ls)
           before == [i \in 1 .. n |-> WordSum([k \in 1 .. i - 1 |-> HeaderSize(ls[k].proto)])]
           e == SetLengths(d, ls, before)
           ms == [ls EXCEPT ![n].size = Len(d) - before[n]]
<1>1. n = 3 /\ IsList(d) /\ IsList(ls) /\ IsLayers(ls, net, l4, s) /\ Packet(d, net, l4)
  BY DEF Made, Packet, IsLayers
<1>2. UpdateLength(p) = [data |-> e, layers |-> ms]
  BY DEF UpdateLength
<1>3. Same(d, e, Core(net, l4))
  BY <1>1, LengthsKept
<1>4. before[3] = HeaderSize(net) + HeaderSize(l4)
  <2> DEFINE sizes == [k \in 1 .. 2 |-> HeaderSize(ls[k].proto)]
  <2>1. before[3] = WordSum(sizes)
    BY <1>1
  <2>2. DOMAIN sizes = 1 .. 2 /\ sizes[1] = HeaderSize(net) /\ sizes[2] = HeaderSize(l4)
    BY <1>1 DEF IsLayers
  <2>3. HeaderSize(net) \in Int /\ HeaderSize(l4) \in Int
    BY NetFields, TransportFields
  <2> HIDE DEF sizes, before
  <2>4. \A i \in 1 .. 2 : sizes[i] \in Int
    BY <2>2, <2>3
  <2> QED
    BY <2>1, <2>2, <2>4, WordSumIs
<1> HIDE DEF before, e
<1>5. IsLayers(ms, net, l4, Rest(d, net, l4))
  <2>1. HeaderSize(net) \in Int /\ HeaderSize(l4) \in Int /\ Len(d) \in Int
    BY <1>1, NetFields, TransportFields, ListDomain
  <2>2. Len(d) - before[3] = Rest(d, net, l4)
    BY <1>4, <2>1 DEF Rest
  <2>3. ms = [ls EXCEPT ![3] = [ls[3] EXCEPT !.size = Rest(d, net, l4)]]
    BY <1>1, <2>2
  <2>4. ls[3] = [proto |-> Payload, at |-> HeaderSize(net) + HeaderSize(l4), size |-> s]
        /\ DOMAIN ls = 1 .. 3
    BY <1>1, ListDomain DEF IsLayers
  <2>5. PICK payload : payload = [ls[3] EXCEPT !.size = Rest(d, net, l4)]
    OBVIOUS
  <2>6. payload = [proto |-> Payload, at |-> HeaderSize(net) + HeaderSize(l4),
                   size |-> Rest(d, net, l4)]
    BY <2>4, <2>5
  <2>7. ms = [ls EXCEPT ![3] = payload]
    BY <2>3, <2>5
  <2> HIDE DEF ms, ls
  <2>8. ms[3] = payload /\ ms[1] = ls[1] /\ ms[2] = ls[2]
    BY <2>4, <2>7
  <2>9. IsList(ms) /\ Len(ms) = 3
    BY <1>1, <2>7, ListExcept
  <2> QED
    BY <1>1, <2>6, <2>8, <2>9 DEF IsLayers
<1>6. Packet(e, net, l4)
  BY <1>1, <1>3, FrameInCore, PacketSame
<1>7. Rest(e, net, l4) = Rest(d, net, l4)
  BY <1>3 DEF Same, Rest
<1> HIDE DEF ms
<1> QED
  BY <1>2, <1>3, <1>5, <1>6 DEF Made

(* What the update of all fields makes of the probe p, if there is a route. *)
Refreshed(p, q, net, l4) ==
    /\ Made(q, net, l4, Rest(q.data, net, l4))
    /\ Same(p.data, q.data, Core(net, l4) \ {HeaderSize(net) - 1})
    /\ q.data[HeaderSize(net) - 1] = Local

LEMMA UpdateKept ==
    ASSUME NEW net \in IpNames, NEW l4 \in TransportNames, NEW s, NEW p, Made(p, net, l4, s),
           routed, NEW junk
    PROVE  Refreshed(p, UpdateFields(p, junk), net, l4)
<1> DEFINE core == Core(net, l4)
           source == HeaderSize(net) - 1
           f == Finalize(p)
           g == UpdateProtocol(f)
           h == UpdateLength(g)
           e == UpdateChecksum(h.data, h.layers, junk)
           q == UpdateFields(p, junk)
<1>1. q = [h EXCEPT !.data = e]
  BY DEF UpdateFields
<1>2. Position(p, "src_ip", 0) = source /\ source \in 1 .. Len(p.data)
  <2>1. HeaderSize(net) \in {6, 7} /\ HeaderSize(l4) \in {3, 4, 5}
    BY NetFields, TransportFields
  <2>2. Len(p.data) \in Int /\ Len(p.data) >= HeaderSize(net) + HeaderSize(l4)
    BY ListDomain DEF Made, Packet
  <2>3. Position(p, "src_ip", 0) = source
    BY FieldPlaces DEF Made
  <2> QED
    BY <2>1, <2>2, <2>3
<1>3. source \notin Frame(net, l4)
  BY NetFields DEF Frame
<1>4. /\ Made(f, net, l4, s)
      /\ Same(p.data, f.data, core \ {source})
      /\ f.data[source] = Local
  <2>1. Frame(net, l4) \subseteq core \ {source}
    BY <1>3, FrameInCore
  <2>2. Position(p, "src_ip", 0) \notin core \ {source}
    BY <1>2
  <2> HIDE DEF core, source
  <2> QED
    BY <1>2, <2>1, <2>2, SetFieldKept DEF Finalize
<1> HIDE DEF f
<1>5. Made(g, net, l4, s) /\ Same(f.data, g.data, core)
  BY <1>4, ProtocolsKept
<1> HIDE DEF g
<1>6. Same(g.data, h.data, core) /\ Made(h, net, l4, Rest(g.data, net, l4))
  BY <1>5, LengthKept
<1> HIDE DEF h
<1>7. Same(h.data, e, core)
  BY <1>6, ChecksumsKept DEF Made, Packet
<1> HIDE DEF e
<1>8. Same(f.data, e, core)
  <2>1. Same(f.data, h.data, core)
    BY <1>5, <1>6, SameAfter
  <2> QED
    BY <1>7, <2>1, SameAfter
<1>9. q = [data |-> e, layers |-> h.layers]
  BY <1>1, <1>6 DEF Made
<1>10. Same(p.data, e, core \ {source}) /\ e[source] = Local
  <2>1. source \in core
    BY DEF Core
  <2> QED
    BY <1>4, <1>8, <2>1 DEF Same
<1>11. Packet(e, net, l4)
  BY <1>4, <1>8, FrameInCore, PacketSame DEF Made
<1>12. Rest(e, net, l4) = Rest(g.data, net, l4)
  BY <1>6, <1>7 DEF Same, Rest
<1>13. IsLayers(h.layers, net, l4, Rest(e, net, l4))
  BY <1>6, <1>12 DEF Made
<1> HIDE DEF q
<1>14. q.data = e /\ q.layers = h.layers
  BY <1>9
<1>15. Made(q, net, l4, Rest(e, net, l4))
  BY <1>9, <1>11, <1>13 DEF Made
<1> QED
  BY <1>10, <1>14, <1>15 DEF q, Refreshed

-----------------------------------------------------------------------------
(* Payloads *)

Resized(d, n) == SubSeq(d, 1, Min({n, Len(d)})) \o [i \in 1 .. n - Len(d) |-> 0]

LEMMA ResizedIs ==
    ASSUME NEW d, IsList(d), NEW n \in Nat
    PROVE  /\ IsList(Resized(d, n))
           /\ Len(Resized(d, n)) = n
           /\ \A k \in 1 .. n : k <= Len(d) => Resized(d, n)[k] = d[k]
<1>1. PICK S : d \in Seq(S)
  BY DEF IsList
<1>2. PICK T : T = S \cup {0}
  OBVIOUS
<1>3. d \in Seq(T) /\ 0 \in T /\ Len(d) \in Nat
  BY <1>1, <1>2
<1> DEFINE m == Min({n, Len(d)})
           a == SubSeq(d, 1, m)
           z == [i \in 1 .. n - Len(d) |-> 0]
<1>4. m \in Nat /\ m = IF n <= Len(d) THEN n ELSE Len(d)
  BY <1>3, MinOfTwo
<1> HIDE DEF m
<1>5. a \in Seq(T) /\ Len(a) = m /\ \A k \in 1 .. m : a[k] = d[k]
  BY <1>3, <1>4
<1> HIDE DEF a
<1>6. z \in Seq(T) /\ Len(z) = (IF n <= Len(d) THEN 0 ELSE n - Len(d))
  <2>1. CASE n <= Len(d)
    <3>1. 1 .. n - Len(d) = 1 .. 0
      BY <1>3, <2>1
    <3>2. z = [i \in 1 .. 0 |-> 0]
      BY <3>1
    <3>3. z \in [1 .. 0 -> T]
      BY <3>2
    <3> HIDE DEF z
    <3> QED
      BY <2>1, <3>3
  <2>2. CASE n > Len(d)
    <3>1. n - Len(d) \in Nat
      BY <1>3, <2>2
    <3>2. z \in [1 .. n - Len(d) -> T]
      BY <1>3
    <3> HIDE DEF z
    <3> QED
      BY <2>2, <3>1, <3>2
  <2>3. n <= Len(d) \/ n > Len(d)
    BY <1>3
  <2> HIDE DEF z
  <2> QED
    BY <1>3, <2>1, <2>2, <2>3
<1> HIDE DEF z
<1>7. /\ a \o z \in Seq(T)
      /\ Len(a \o z) = Len(a) + Len(z)
      /\ \A k \in 1 .. Len(a) : (a \o z)[k] = a[k]
  BY <1>5, <1>6
<1>8. Resized(d, n) = a \o z
  BY DEF Resized, m, a, z
<1>9. Len(a) + Len(z) = n
  BY <1>3, <1>4, <1>5, <1>6
<1>10. \A k \in 1 .. n : k <= Len(d) => k \in 1 .. m
  BY <1>3, <1>4
<1>11. IsList(a \o z)
  BY <1>7 DEF IsList
<1> QED
  BY <1>5, <1>7, <1>8, <1>9, <1>10, <1>11

LEMMA ResizeKept ==
    ASSUME NEW net \in IpNames, NEW l4 \in TransportNames, NEW s, NEW p, Made(p, net, l4, s),
           NEW n \in Nat, n >= HeaderSize(net) + HeaderSize(l4)
    PROVE  /\ Made(PacketResize(p, n), net, l4, s)
           /\ Len(PacketResize(p, n).data) = n
           /\ \A k \in Core(net, l4) : PacketResize(p, n).data[k] = p.data[k]
<1> DEFINE d == p.data
           ls == p.layers
           e == Resized(d, n)
           before == [i \in DOMAIN ls |-> WordSum([k \in 1 .. i - 1 |-> ls[k].size])]
           ms == [i \in DOMAIN ls |-> [ls[i] EXCEPT !.at = before[i]]]
           f == SetLengths(e, ms, before)
           H == HeaderSize(net)
           T == HeaderSize(l4)
<1>1. PacketResize(p, n) = [data |-> f, layers |-> ms]
  BY DEF PacketResize, Resized
<1>2. /\ IsList(d) /\ IsLayers(ls, net, l4, s) /\ Packet(d, net, l4)
      /\ DOMAIN ls = 1 .. 3 /\ IsList(ls)
  BY ListDomain DEF Made, Packet, IsLayers
<1>3. H \in {6, 7} /\ T \in {3, 4, 5}
  BY NetFields, TransportFields
<1>4. before[1] = 0 /\ before[2] = H /\ before[3] = H + T
  <2> DEFINE sizes(n_) == [k \in 1 .. n_ |-> ls[k].size]
  <2>1. before[1] = WordSum(sizes(0)) /\ before[2] = WordSum(sizes(1))
        /\ before[3] = WordSum(sizes(2))
    BY <1>2
  <2>2. ls[1].size = H /\ ls[2].size = T
    BY <1>2 DEF IsLayers
  <2>3. \A i \in 0 .. 2 : DOMAIN sizes(i) = 1 .. i
    OBVIOUS
  <2>4. sizes(1)[1] = H /\ sizes(2)[1] = H /\ sizes(2)[2] = T
    BY <2>2
  <2> HIDE DEF sizes, before, H, T
  <2>5. WordSum(sizes(0)) = 0
    <3>1. DOMAIN sizes(0) = 1 .. 0 /\ \A i \in 1 .. 0 : sizes(0)[i] \in Int
      BY <2>3
    <3> QED
      BY <3>1, WordSumIs
  <2>6. WordSum(sizes(1)) = H
    <3>1. DOMAIN sizes(1) = 1 .. 1 /\ \A i \in 1 .. 1 : sizes(1)[i] \in Int
      BY <1>3, <2>3, <2>4
    <3> QED
      BY <2>4, <3>1, WordSumIs
  <2>7. WordSum(sizes(2)) = H + T
    <3>1. DOMAIN sizes(2) = 1 .. 2 /\ \A i \in 1 .. 2 : sizes(2)[i] \in Int
      BY <1>3, <2>3, <2>4
    <3> QED
      BY <2>4, <3>1, WordSumIs
  <2> QED
    BY <2>1, <2>5, <2>6, <2>7
<1> HIDE DEF before
<1>5. IsLayers(ms, net, l4, s)
  <2>1. DOMAIN ms = 1 .. 3 /\ ms = [i \in 1 .. 3 |-> ms[i]]
    BY <1>2
  <2>2. ms[1] = [ls[1] EXCEPT !.at = 0] /\ ms[2] = [ls[2] EXCEPT !.at = H]
        /\ ms[3] = [ls[3] EXCEPT !.at = H + T]
    BY <1>2, <1>4
  <2>3. ls[1] = [proto |-> net, at |-> 0, size |-> H]
        /\ ls[2] = [proto |-> l4, at |-> H, size |-> T]
        /\ ls[3] = [proto |-> Payload, at |-> H + T, size |-> s]
    BY <1>2 DEF IsLayers
  <2> HIDE DEF ms, H, T
  <2>4. ms[1] = ls[1] /\ ms[2] = ls[2] /\ ms[3] = ls[3]
    BY <2>2, <2>3
  <2>5. IsList(ms)
    BY <2>1, ListOfFunction
  <2>6. Len(ms) = 3
    BY <2>1
  <2> QED
    BY <2>3, <2>4, <2>5, <2>6 DEF IsLayers, H, T
<1> HIDE DEF ms
<1>6. IsList(e) /\ Len(e) = n /\ \A k \in 1 .. H + T : e[k] = d[k]
  <2>1. IsList(e) /\ Len(e) = n /\ \A k \in 1 .. n : k <= Len(d) => e[k] = d[k]
    BY <1>2, ResizedIs
  <2>2. \A k \in 1 .. H + T : k \in 1 .. n /\ k <= Len(d)
    <3>1. Len(d) \in Nat /\ Len(d) >= H + T
      BY <1>2, ListDomain DEF Packet
    <3> QED
      BY <1>3, <3>1
  <2> QED
    BY <2>1, <2>2
<1> HIDE DEF e
<1>7. Packet(e, net, l4)
  <2>1. 1 \in 1 .. H + T /\ FieldOffset(net, "protocol") \in 1 .. H + T /\ H + 1 \in 1 .. H + T
    BY <1>3, NetFields
  <2> QED
    BY <1>2, <1>6, <2>1 DEF Packet
<1>8. Same(e, f, Core(net, l4))
  BY <1>5, <1>6, LengthsKept
<1>9. Packet(f, net, l4) /\ Len(f) = n
  BY <1>6, <1>7, <1>8, FrameInCore, PacketSame DEF Same
<1>10. \A k \in Core(net, l4) : f[k] = d[k]
  <2>1. \A k \in Core(net, l4) : k \in 1 .. H + T
    BY <1>3, NetFields, TransportFields DEF Core
  <2> QED
    BY <1>6, <1>8, <2>1 DEF Same
<1> HIDE DEF f
<1> QED
  BY <1>1, <1>5, <1>9, <1>10 DEF Made

-----------------------------------------------------------------------------
(* Skeletons *)

(* A probe all of whose packet is covered. *)
Whole(p, net, l4) == Made(p, net, l4, Rest(p.data, net, l4))

(* The skeleton of a program: without a route, the layer of its payload    *)
(* stays empty.                                                            *)
Skeleton(p, net, l4) == Made(p, net, l4, IF routed THEN Rest(p.data, net, l4) ELSE 0)

LEMMA Sizes ==
    ASSUME NEW net \in IpNames, NEW l4 \in TransportNames, NEW d, Packet(d, net, l4)
    PROVE  /\ HeaderSize(net) \in {6, 7}
           /\ HeaderSize(l4) \in {3, 4, 5}
           /\ Len(d) \in Nat
           /\ Len(d) >= HeaderSize(net) + HeaderSize(l4)
           /\ Rest(d, net, l4) \in Nat
           /\ Len(d) = HeaderSize(net) + HeaderSize(l4) + Rest(d, net, l4)
<1>1. HeaderSize(net) \in {6, 7} /\ HeaderSize(l4) \in {3, 4, 5}
  BY NetFields, TransportFields
<1>2. Len(d) \in Nat /\ Len(d) >= HeaderSize(net) + HeaderSize(l4)
  BY ListDomain DEF Packet
<1> QED
  BY <1>1, <1>2 DEF Rest

(* The fields that programs and algorithms set. *)
Settable == {"src_ip", "dst_ip", "ttl", "src_port", "dst_port", "flow_id", "flags"}

LEMMA SettableIsFree ==
    ASSUME NEW net \in IpNames, NEW l4 \in TransportNames, NEW s, NEW p, Made(p, net, l4, s),
           NEW name \in Settable
    PROVE  Position(p, name, 0) \notin Frame(net, l4)
<1> DEFINE spot == Position(p, name, 0)
           H == HeaderSize(net)
<1>1. IsLayers(p.layers, net, l4, s)
  BY DEF Made
<1>2. /\ H \in {6, 7}
      /\ FieldOffset(net, "ttl") = (IF net = "ipv4" THEN 3 ELSE 4)
      /\ FieldOffset(net, "protocol") = (IF net = "ipv4" THEN 4 ELSE 3)
  BY NetFields
<1>3. \/ spot = 0
      \/ spot \in {H - 1, H}
      \/ spot = FieldOffset(net, "ttl")
      \/ spot \in {H + 1, H + 2, H + 4} /\ l4 \notin IcmpNames
  <2>1. /\ Position(p, "src_ip", 0) = H - 1
        /\ Position(p, "dst_ip", 0) = H
        /\ Position(p, "ttl", 0) = FieldOffset(net, "ttl")
        /\ Position(p, "flow_id", 0) = 0
        /\ Position(p, "src_port", 0) = (IF l4 \in IcmpNames THEN 0 ELSE H + 1)
        /\ Position(p, "dst_port", 0) = (IF l4 \in IcmpNames THEN 0 ELSE H + 2)
        /\ Position(p, "flags", 0) = (IF l4 = "tcp" THEN H + 4 ELSE 0)
    BY <1>1, FieldPlaces
  <2>2. l4 = "tcp" => l4 \notin IcmpNames
    BY DEF IcmpNames
  <2> HIDE DEF H
  <2> QED
    BY <2>1, <2>2 DEF Settable
<1> HIDE DEF spot, H
<1>4. Frame(net, l4) = {1, FieldOffset(net, "protocol")} \cup {k \in {H + 1} : l4 \in IcmpNames}
  BY DEF Frame, H
<1>5. spot \notin Frame(net, l4)
  BY <1>2, <1>3, <1>4
<1> QED
  BY <1>5 DEF spot

LEMMA SetFieldMade ==
    ASSUME NEW net \in IpNames, NEW l4 \in TransportNames, NEW s, NEW p, Made(p, net, l4, s),
           NEW name \in Settable, NEW v
    PROVE  /\ Made(SetFieldFrom(p, name, v, 0), net, l4, s)
           /\ Len(SetFieldFrom(p, name, v, 0).data) = Len(p.data)
<1>1. Position(p, name, 0) \notin Frame(net, l4)
  BY SettableIsFree
<1>2. /\ Made(SetFieldFrom(p, name, v, 0), net, l4, s)
      /\ Same(p.data, SetFieldFrom(p, name, v, 0).data, Frame(net, l4))
  BY <1>1, SetFieldKept
<1> QED
  BY <1>2 DEF Same

(* A field that is set, by its name or as a metafield, leaves a skeleton.  *)
LEMMA SetFieldSkeleton ==
    ASSUME NEW net \in IpNames, NEW l4 \in TransportNames, NEW p, Skeleton(p, net, l4),
           NEW name \in Settable, NEW v
    PROVE  /\ Skeleton(SetFieldFrom(p, name, v, 0), net, l4)
           /\ Skeleton(SetField(p, name, v), net, l4)
<1> DEFINE s == IF routed THEN Rest(p.data, net, l4) ELSE 0
<1>1. Made(p, net, l4, s)
  BY DEF Skeleton
<1>2. ASSUME NEW field \in Settable, NEW w
      PROVE  Skeleton(SetFieldFrom(p, field, w, 0), net, l4)
  <2> DEFINE q == SetFieldFrom(p, field, w, 0)
  <2>1. Made(q, net, l4, s) /\ Len(q.data) = Len(p.data)
    BY <1>1, SetFieldMade
  <2>2. Rest(q.data, net, l4) = Rest(p.data, net, l4)
    BY <2>1 DEF Rest
  <2> QED
    BY <2>1, <2>2 DEF Skeleton
<1>3. SetField(p, name, v) \in {SetFieldFrom(p, name, v, 0),
                                SetFieldFrom(p, "src_port", FlowBase + v, 0), p}
  BY DEF SetField
<1>4. "src_port" \in Settable
  BY DEF Settable
<1> QED
  BY <1>2, <1>3, <1>4

LEMMA UpdateSkeleton ==
    ASSUME NEW net \in IpNames, NEW l4 \in TransportNames, NEW s, NEW p, Made(p, net, l4, s),
           ~routed => s = 0, NEW junk
    PROVE  Skeleton(UpdateFields(p, junk), net, l4)
<1>1. CASE routed
  BY <1>1, UpdateKept DEF Skeleton, Refreshed
<1>2. CASE ~routed
  <2>1. UpdateFields(p, junk) = p
    BY <1>2 DEF UpdateFields
  <2> QED
    BY <1>2, <2>1 DEF Skeleton
<1> QED
  BY <1>1, <1>2

LEMMA PayloadOf ==
    ASSUME NEW net, NEW l4, NEW s, NEW p, Made(p, net, l4, s)
    PROVE  PayloadLayer(p) = [proto |-> Payload, at |-> HeaderSize(net) + HeaderSize(l4), size |-> s]
  BY DEF Made, IsLayers, PayloadLayer, Last

LEMMA ResizeSkeleton ==
    ASSUME NEW net \in IpNames, NEW l4 \in TransportNames, NEW p, Skeleton(p, net, l4),
           NEW size \in Nat
    PROVE  Skeleton(PayloadResize(p, size), net, l4)
<1> DEFINE s == IF routed THEN Rest(p.data, net, l4) ELSE 0
           n == Len(p.data) - s + size
           q == PacketResize(p, n)
<1>1. Made(p, net, l4, s) /\ Packet(p.data, net, l4)
  BY DEF Skeleton, Made
<1>2. PayloadLayer(p).size = s
  BY <1>1, PayloadOf
<1>3. n \in Nat /\ n >= HeaderSize(net) + HeaderSize(l4)
  <2>1. /\ HeaderSize(net) \in Nat /\ HeaderSize(l4) \in Nat
        /\ Rest(p.data, net, l4) \in Nat
        /\ Len(p.data) = HeaderSize(net) + HeaderSize(l4) + Rest(p.data, net, l4)
    BY <1>1, Sizes
  <2> HIDE DEF q
  <2>2. CASE routed
    BY <2>1, <2>2
  <2>3. CASE ~routed
    BY <2>1, <2>3
  <2> QED
    BY <2>2, <2>3
<1>4. PayloadResize(p, size) \in {p, UpdateFields(q, 0)}
  BY <1>2 DEF PayloadResize
<1> HIDE DEF n
<1>5. Made(q, net, l4, s)
  BY <1>1, <1>3, ResizeKept
<1>6. ~routed => s = 0
  OBVIOUS
<1> HIDE DEF q, s
<1>7. Skeleton(UpdateFields(q, 0), net, l4)
  BY <1>5, <1>6, UpdateSkeleton
<1> QED
  BY <1>4, <1>7

(* What is written from the start of the payload leaves the headers alone. *)
LEMMA WriteFits ==
    ASSUME NEW net \in IpNames, NEW l4 \in TransportNames, NEW s, NEW p, Made(p, net, l4, s),
           NEW n \in Nat, NEW ws, DOMAIN ws = 1 .. n, NEW q,
           q = [p EXCEPT !.data = [i \in DOMAIN @ |->
                  IF i - PayloadLayer(p).at \in DOMAIN ws THEN ws[i - PayloadLayer(p).at] ELSE @[i]]]
    PROVE  /\ Made(q, net, l4, s)
           /\ Same(p.data, q.data, 1 .. HeaderSize(net) + HeaderSize(l4))
<1> DEFINE d == p.data
           at == HeaderSize(net) + HeaderSize(l4)
           e == [i \in 1 .. Len(d) |-> IF i - at \in DOMAIN ws THEN ws[i - at] ELSE d[i]]
<1>1. p = [data |-> d, layers |-> p.layers] /\ Packet(d, net, l4) /\ IsList(d)
  BY DEF Made, Packet
<1>2. PayloadLayer(p).at = at
  BY PayloadOf
<1>3. DOMAIN d = 1 .. Len(d)
  BY <1>1, ListDomain
<1>4. q = [p EXCEPT !.data = e]
  BY <1>2, <1>3
<1>5. HeaderSize(net) \in {6, 7} /\ HeaderSize(l4) \in {3, 4, 5} /\ Len(d) \in Nat /\ Len(d) >= at
  BY <1>1, Sizes
<1>6. \A k \in 1 .. at : e[k] = d[k]
  BY <1>5
<1>7. IsList(e) /\ Len(e) = Len(d)
  <2>1. e = [i \in 1 .. Len(d) |-> e[i]]
    OBVIOUS
  <2> HIDE DEF e
  <2> QED
    BY <1>5, <2>1, ListOfFunction
<1> HIDE DEF e, d, at
<1>8. Same(d, e, 1 .. at)
  BY <1>6, <1>7 DEF Same
<1>9. Frame(net, l4) \subseteq 1 .. at
  BY <1>5, NetFields DEF Frame, at
<1>10. Packet(e, net, l4)
  BY <1>1, <1>8, <1>9, PacketSame
<1>11. q = [data |-> e, layers |-> p.layers]
  BY <1>1, <1>4
<1> QED
  BY <1>8, <1>10, <1>11 DEF Made, d, at

LEMMA WriteSkeleton ==
    ASSUME NEW net \in IpNames, NEW l4 \in TransportNames, NEW p, Skeleton(p, net, l4),
           NEW n \in Nat, NEW ws, DOMAIN ws = 1 .. n, Len(ws) = n
    PROVE  Skeleton(WritePayload(p, ws), net, l4)
<1>1. PICK q : q = IF Len(ws) > PayloadLayer(p).size THEN PayloadResize(p, Len(ws)) ELSE p
  OBVIOUS
<1>2. Skeleton(q, net, l4)
  BY <1>1, ResizeSkeleton
<1>3. PICK r : r = [q EXCEPT !.data = [i \in DOMAIN @ |->
                  IF i - PayloadLayer(q).at \in DOMAIN ws THEN ws[i - PayloadLayer(q).at] ELSE @[i]]]
  OBVIOUS
<1>4. WritePayload(p, ws) \in {q, r}
  BY <1>1, <1>3 DEF WritePayload
<1> DEFINE s == IF routed THEN Rest(q.data, net, l4) ELSE 0
<1>5. Made(q, net, l4, s)
  BY <1>2 DEF Skeleton
<1>6. Made(r, net, l4, s) /\ Same(q.data, r.data, 1 .. HeaderSize(net) + HeaderSize(l4))
  <2> HIDE DEF s
  <2> QED
    BY <1>3, <1>5, WriteFits
<1>7. Rest(r.data, net, l4) = Rest(q.data, net, l4)
  BY <1>6 DEF Same, Rest
<1>8. Skeleton(r, net, l4)
  BY <1>6, <1>7 DEF Skeleton
<1> QED
  BY <1>2, <1>4, <1>8

-----------------------------------------------------------------------------
(* New probes *)

LEMMA IdsDiffer ==
    ASSUME NEW l4 \in TransportNames
    PROVE  {n \in Protos : Protocol[n].id = Protocol[l4].id} = {l4}
<1>1. Protos = IpNames \cup TransportNames
  BY DEF Protos, Protocol, IpNames, TransportNames, IcmpNames
<1>2. /\ Protocol["ipv4"].id = 4 /\ Protocol["ipv6"].id = 41
      /\ Protocol["udp"].id = 17 /\ Protocol["tcp"].id = 6
      /\ Protocol["icmpv4"].id = 1 /\ Protocol["icmpv6"].id = 58
  BY DEF Protocol, Ipv4, Ipv6, Udp, Tcp, Icmpv4, Icmpv6
<1>3. \A n \in Protos : Protocol[n].id = Protocol[l4].id <=> n = l4
  BY <1>1, <1>2 DEF IpNames, TransportNames, IcmpNames
<1> QED
  BY <1>1, <1>3

(* The headers of a new probe. *)
Headers(net, l4) == Protocol[net].default \o Protocol[l4].default

LEMMA DefaultHeaders ==
    ASSUME NEW net \in IpNames, NEW l4 \in TransportNames, NEW d,
           d = Headers(net, l4)
    PROVE  /\ IsList(d)
           /\ Len(d) = HeaderSize(net) + HeaderSize(l4)
           /\ d[1] = (IF net = "ipv4" THEN 4 ELSE 6)
           /\ l4 = "icmpv4" => d[HeaderSize(net) + 1] = 8
           /\ l4 = "icmpv6" => d[HeaderSize(net) + 1] = 128
<1> DEFINE a == Protocol[net].default
           b == Protocol[l4].default
<1>1. W \in Int /\ UdpPort \in Int /\ TcpPorts[1] \in Int /\ TcpPorts[2] \in Int
  BY ProtocolsAssumption DEF Words
<1>2. IsList(a) /\ Len(a) = HeaderSize(net) /\ a[1] = IF net = "ipv4" THEN 4 ELSE 6
  <2>1. CASE net = "ipv4"
    <3>1. a = <<4, 0, W - 1, 4, 0, 0, 0>> /\ HeaderSize(net) = 7
      BY <2>1 DEF Protocol, Ipv4, HeaderSize
    <3> HIDE DEF a
    <3>2. a \in Seq(Int)
      BY <1>1, <3>1
    <3>3. Len(a) = 7 /\ a[1] = 4
      BY <3>1
    <3> QED
      BY <2>1, <3>1, <3>2, <3>3 DEF IsList
  <2>2. CASE net = "ipv6"
    <3>1. a = <<6, 0, 17, 64, 0, 0>> /\ HeaderSize(net) = 6
      BY <2>2 DEF Protocol, Ipv6, HeaderSize
    <3> HIDE DEF a
    <3>2. a \in Seq(Int)
      BY <1>1, <3>1
    <3>3. Len(a) = 6 /\ a[1] = 6
      BY <3>1
    <3> QED
      BY <2>2, <3>1, <3>2, <3>3 DEF IsList
  <2> QED
    BY <2>1, <2>2 DEF IpNames
<1>3. IsList(b) /\ Len(b) = HeaderSize(l4)
  <2>1. CASE l4 = "udp"
    <3>1. b = <<UdpPort, UdpPort, 0, 0>> /\ HeaderSize(l4) = 4
      BY <2>1 DEF Protocol, Udp, HeaderSize
    <3> HIDE DEF b
    <3>2. b \in Seq(Int)
      BY <1>1, <3>1
    <3>3. Len(b) = 4
      BY <3>1
    <3> QED
      BY <2>1, <3>1, <3>2, <3>3 DEF IsList
  <2>2. CASE l4 = "tcp"
    <3>1. b = <<TcpPorts[1], TcpPorts[2], 0, 0, 0>> /\ HeaderSize(l4) = 5
      BY <2>2 DEF Protocol, Tcp, HeaderSize
    <3> HIDE DEF b
    <3>2. b \in Seq(Int)
      BY <1>1, <3>1
    <3>3. Len(b) = 5
      BY <3>1
    <3> QED
      BY <2>2, <3>1, <3>2, <3>3 DEF IsList
  <2>3. CASE l4 = "icmpv4"
    <3>1. b = <<8, 0, 0>> /\ HeaderSize(l4) = 3
      BY <2>3 DEF Protocol, Icmpv4, HeaderSize
    <3> HIDE DEF b
    <3>2. b \in Seq(Int)
      BY <1>1, <3>1
    <3>3. Len(b) = 3
      BY <3>1
    <3> QED
      BY <2>3, <3>1, <3>2, <3>3 DEF IsList
  <2>4. CASE l4 = "icmpv6"
    <3>1. b = <<128, 0, 0>> /\ HeaderSize(l4) = 3
      BY <2>4 DEF Protocol, Icmpv6, HeaderSize
    <3> HIDE DEF b
    <3>2. b \in Seq(Int)
      BY <1>1, <3>1
    <3>3. Len(b) = 3
      BY <3>1
    <3> QED
      BY <2>4, <3>1, <3>2, <3>3 DEF IsList
  <2> QED
    BY <2>1, <2>2, <2>3, <2>4 DEF TransportNames, IcmpNames
<1>4. (l4 = "icmpv4" => b[1] = 8) /\ (l4 = "icmpv6" => b[1] = 128)
  BY DEF Protocol, Icmpv4, Icmpv6
<1>5. HeaderSize(net) \in {6, 7} /\ HeaderSize(l4) \in {3, 4, 5}
  BY NetFields, TransportFields
<1> HIDE DEF a, b
<1>6. d = a \o b
  BY DEF Headers, a, b
<1>7. IsList(d) /\ Len(d) = Len(a) + Len(b) /\ d[1] = a[1] /\ d[Len(a) + 1] = b[1]
  <2>1. PICK S : a \in Seq(S)
    BY <1>2 DEF IsList
  <2>2. PICK T : b \in Seq(T)
    BY <1>3 DEF IsList
  <2>3. PICK R : R = S \cup T
    OBVIOUS
  <2>4. a \in Seq(R) /\ b \in Seq(R)
    BY <2>1, <2>2, <2>3
  <2>5. a \o b \in Seq(R)
    BY <2>4
  <2>6. Len(a \o b) = Len(a) + Len(b) /\ (a \o b)[1] = a[1] /\ (a \o b)[Len(a) + 1] = b[1]
    BY <1>2, <1>3, <1>5, <2>4
  <2> QED
    BY <1>6, <2>5, <2>6 DEF IsList
<1> QED
  BY <1>2, <1>3, <1>4, <1>7

LEMMA HeaderLayer ==
    ASSUME NEW d, NEW proto, NEW at \in Nat, HeaderSize(proto) \in Nat, Len(d) \in Nat,
           Len(d) >= at + HeaderSize(proto)
    PROVE  LayerFrom(d, proto, at) = [proto |-> proto, at |-> at, size |-> HeaderSize(proto)]
<1>1. Min({HeaderSize(proto), Len(d) - at}) = HeaderSize(proto)
  BY MinOfTwo
<1> QED
  BY <1>1 DEF LayerFrom

LEMMA LengthSame ==
    ASSUME NEW net \in IpNames, NEW l4 \in TransportNames, NEW s,
           NEW ls, IsLayers(ls, net, l4, s), NEW d, IsList(d), NEW i \in 1 .. 3, NEW v
    PROVE  Same(d, LayerSetLength(d, ls[i], v), Core(net, l4))
<1> DEFINE K == Core(net, l4)
<1>1. LayerHas(ls[i], "length") => FieldAt(ls[i], "length") \notin K
  BY CoreAvoids DEF Updated
<1>2. \A w : Same(d, LayerSet(d, ls[i], "length", w), K)
  BY <1>1, LayerSetSame
<1>3. Same(d, d, K)
  BY DEF Same
<1> QED
  BY <1>2, <1>3 DEF LayerSetLength

(* What SetProtocols makes. *)
LEMMA NewSkeleton ==
    ASSUME NEW net \in IpNames, NEW l4 \in TransportNames,
           NEW d, d = Headers(net, l4),
           NEW ls, ls = <<LayerFrom(d, net, 0), LayerFrom(d, l4, LayerFrom(d, net, 0).size),
                          [proto |-> Payload, at |-> Len(d), size |-> 0]>>
    PROVE  Skeleton([data |-> LayerSetLength(
                                LayerSet(LayerSetLength(d, ls[1], Len(d)),
                                         ls[1], "protocol", Protocol[l4].id),
                                ls[2], Len(d) - ls[2].at),
                     layers |-> ls], net, l4)
<1> DEFINE H == HeaderSize(net)
           T == HeaderSize(l4)
           K == Core(net, l4)
           place == FieldOffset(net, "protocol")
           K1 == {1} \cup {k \in {H + 1} : l4 \in IcmpNames}
<1>1. H \in {6, 7} /\ T \in {3, 4, 5}
  BY NetFields, TransportFields
<1>2. /\ IsList(d) /\ Len(d) = H + T
      /\ d[1] = (IF net = "ipv4" THEN 4 ELSE 6)
      /\ l4 = "icmpv4" => d[H + 1] = 8
      /\ l4 = "icmpv6" => d[H + 1] = 128
  BY DefaultHeaders
<1>3. LayerFrom(d, net, 0) = [proto |-> net, at |-> 0, size |-> H]
  <2>1. H \in Nat /\ Len(d) \in Nat /\ Len(d) >= 0 + H
    BY <1>1, <1>2
  <2> QED
    BY <2>1, HeaderLayer
<1>4. LayerFrom(d, l4, H) = [proto |-> l4, at |-> H, size |-> T]
  <2>1. H \in Nat /\ T \in Nat /\ Len(d) \in Nat /\ Len(d) >= H + T
    BY <1>1, <1>2
  <2> QED
    BY <2>1, HeaderLayer
<1>5. IsLayers(ls, net, l4, 0)
  <2>1. ls[1] = [proto |-> net, at |-> 0, size |-> H]
        /\ ls[2] = [proto |-> l4, at |-> H, size |-> T]
        /\ ls[3] = [proto |-> Payload, at |-> H + T, size |-> 0]
    BY <1>2, <1>3, <1>4
  <2>2. ls = [i \in 1 .. 3 |-> ls[i]] /\ Len(ls) = 3
    OBVIOUS
  <2>3. IsList(ls)
    BY <2>2, ListOfFunction
  <2> HIDE DEF H, T
  <2> QED
    BY <2>1, <2>2, <2>3 DEF IsLayers, H, T
<1>6. PICK e : e = LayerSetLength(d, ls[1], Len(d))
  OBVIOUS
<1>7. PICK f : f = LayerSet(e, ls[1], "protocol", Protocol[l4].id)
  OBVIOUS
<1>8. PICK g : g = LayerSetLength(f, ls[2], Len(d) - ls[2].at)
  OBVIOUS
<1>9. Same(d, e, K)
  BY <1>2, <1>5, <1>6, LengthSame
<1>10. FieldAt(ls[1], "protocol") = place /\ LayerHas(ls[1], "protocol") /\ place \in {3, 4}
  <2>1. ls[1].proto = net /\ ls[1].at = 0 /\ net # Payload
    BY <1>5 DEF IsLayers, IpNames, Payload
  <2>2. HasField(net, "protocol") /\ place \in {3, 4} /\ 0 + place = place
    BY NetFields
  <2> HIDE DEF place
  <2> QED
    BY <2>1, <2>2 DEF FieldAt, LayerHas, IsProtocol, place
<1>11. Same(e, f, K1) /\ f[place] = Protocol[l4].id
  <2>1. IsList(e) /\ Len(e) = Len(d)
    BY <1>9 DEF Same
  <2>2. place \notin K1
    BY <1>1, <1>10
  <2>3. Same(e, f, K1)
    BY <1>7, <1>10, <2>1, <2>2, LayerSetSame
  <2>4. f = [e EXCEPT ![place] = Protocol[l4].id]
    BY <1>7, <1>10 DEF LayerSet
  <2>5. place \in DOMAIN e
    BY <1>1, <1>2, <1>10, <2>1, ListDomain
  <2> HIDE DEF place
  <2> QED
    BY <2>3, <2>4, <2>5
<1>12. IsList(f)
  BY <1>11 DEF Same
<1>13. Same(f, g, K)
  <2>1. 2 \in 1 .. 3
    OBVIOUS
  <2> HIDE DEF K
  <2>2. \A v : Same(f, LayerSetLength(f, ls[2], v), K)
    BY <1>5, <1>12, <2>1, LengthSame DEF K
  <2> QED
    BY <1>8, <2>2
<1>14. K1 \subseteq K /\ place \in K
  BY DEF Core
<1>15. Same(d, g, K1) /\ g[place] = Protocol[l4].id
  <2> HIDE DEF K, K1, place
  <2>1. Same(d, e, K1) /\ Same(f, g, K1)
    BY <1>9, <1>13, <1>14 DEF Same
  <2>2. Same(d, f, K1)
    BY <1>11, <2>1, SameAfter
  <2> QED
    BY <1>11, <1>13, <1>14, <2>1, <2>2, SameAfter DEF Same
<1>16. IsList(g) /\ Len(g) = H + T /\ g[1] = d[1] /\ (l4 \in IcmpNames => g[H + 1] = d[H + 1])
  BY <1>2, <1>15 DEF Same
<1>17. Packet(g, net, l4)
  <2>1. l4 = "icmpv4" => g[H + 1] = 8
    BY <1>2, <1>16 DEF IcmpNames
  <2>2. l4 = "icmpv6" => g[H + 1] = 128
    BY <1>2, <1>16 DEF IcmpNames
  <2>3. Len(g) >= H + T
    BY <1>1, <1>16
  <2> QED
    BY <1>2, <1>15, <1>16, <2>1, <2>2, <2>3 DEF Packet
<1>18. Rest(g, net, l4) = 0
  BY <1>1, <1>16 DEF Rest
<1>19. PICK p : p = [data |-> g, layers |-> ls]
  OBVIOUS
<1>20. p.data = g /\ p.layers = ls
  BY <1>19
<1>21. Made(p, net, l4, 0)
  BY <1>5, <1>17, <1>19, <1>20 DEF Made
<1>22. Skeleton(p, net, l4)
  BY <1>18, <1>20, <1>21 DEF Skeleton
<1> QED
  BY <1>6, <1>7, <1>8, <1>19, <1>22

-----------------------------------------------------------------------------
(* Copies: a packet is dissected into the headers it was made with *)

ChainStep(d, c, n) ==
    IF n = 1 THEN <<LayerFrom(d, FirstProtocol(d), 0)>>
    ELSE IF Len(c[n - 1]) < n - 1 \/ NextProtocol(d, Last(c[n - 1])) = None THEN c[n - 1]
    ELSE Append(c[n - 1], LayerFrom(d, NextProtocol(d, Last(c[n - 1])),
                                    Last(c[n - 1]).at + Last(c[n - 1]).size))

IsChain(c, d) == c = [n \in 1 .. MaxDepth |-> ChainStep(d, c, n)]

Closed(d, headers) ==
    [data   |-> d,
     layers |-> Append(headers, [proto |-> Payload,
                                 at    |-> Last(headers).at + Last(headers).size,
                                 size  |-> Len(d) - (Last(headers).at + Last(headers).size)])]

LEMMA WrapIs ==
    ASSUME NEW d, NEW c, c = CHOOSE x : IsChain(x, d)
    PROVE  WrapPacket(d) = Closed(d, c[MaxDepth])
  BY Zenon DEF WrapPacket, IsChain, ChainStep, Closed

LEMMA NextOf ==
    ASSUME NEW net \in IpNames, NEW l4 \in TransportNames, NEW d, Packet(d, net, l4),
           NEW first, first = [proto |-> net, at |-> 0, size |-> HeaderSize(net)],
           NEW second, second = [proto |-> l4, at |-> HeaderSize(net), size |-> HeaderSize(l4)]
    PROVE  /\ FirstProtocol(d) = net
           /\ NextProtocol(d, first) = l4
           /\ NextProtocol(d, second) = None
<1>1. FirstProtocol(d) = net
  BY DEF FirstProtocol, Packet, IpNames
<1>2. NextProtocol(d, first) = l4
  <2>1. FieldOffset(net, "protocol") \in {3, 4}
    BY NetFields
  <2>2. FieldAt(first, "protocol") = FieldOffset(net, "protocol")
    BY <2>1 DEF FieldAt
  <2>3. PICK named : named = {n \in Protos : Protocol[n].id = d[FieldAt(first, "protocol")]}
    OBVIOUS
  <2>4. named = {l4}
    BY <2>2, <2>3, IdsDiffer DEF Packet
  <2>5. NextProtocol(d, first) = IF named = {} THEN None ELSE CHOOSE n \in named : TRUE
    <3>1. first.proto \in IpNames /\ first.proto \notin {"icmpv4", "icmpv6"}
      BY DEF IpNames
    <3> QED
      BY <2>3, <3>1 DEF NextProtocol
  <2> QED
    BY <2>4, <2>5
<1>3. NextProtocol(d, second) = None
  <2>1. l4 \notin IpNames
    BY DEF IpNames, TransportNames, IcmpNames
  <2>2. CASE l4 = "icmpv4"
    <3>1. FieldAt(second, "type") = HeaderSize(net) + 1
      BY <2>2, TransportFields DEF FieldAt, IcmpNames
    <3>2. NextProtocol(d, second) = Icmpv4Next(d[FieldAt(second, "type")])
      BY <2>1, <2>2 DEF NextProtocol
    <3>3. d[HeaderSize(net) + 1] \notin {3, 11}
      BY <2>2 DEF Packet
    <3> QED
      BY <3>1, <3>2, <3>3 DEF Icmpv4Next
  <2>3. CASE l4 = "icmpv6"
    <3>1. FieldAt(second, "type") = HeaderSize(net) + 1
      BY <2>3, TransportFields DEF FieldAt, IcmpNames
    <3>2. NextProtocol(d, second) = Icmpv6Next(d[FieldAt(second, "type")])
      BY <2>1, <2>3 DEF NextProtocol
    <3>3. d[HeaderSize(net) + 1] \notin {1, 3}
      BY <2>3 DEF Packet
    <3> QED
      BY <3>1, <3>2, <3>3 DEF Icmpv6Next
  <2>4. CASE l4 \notin IcmpNames
    BY <2>1, <2>4 DEF NextProtocol, IcmpNames
  <2> QED
    BY <2>2, <2>3, <2>4 DEF IcmpNames
<1> QED
  BY <1>1, <1>2, <1>3

LEMMA WrapWhole ==
    ASSUME NEW net \in IpNames, NEW l4 \in TransportNames, NEW d, Packet(d, net, l4)
    PROVE  /\ WrapPacket(d).data = d
           /\ Whole(WrapPacket(d), net, l4)
<1> DEFINE H == HeaderSize(net)
           T == HeaderSize(l4)
<1>1. H \in {6, 7} /\ T \in {3, 4, 5} /\ Len(d) \in Nat /\ Len(d) >= H + T
  BY Sizes
<1>2. PICK first : first = [proto |-> net, at |-> 0, size |-> H]
  OBVIOUS
<1>3. PICK second : second = [proto |-> l4, at |-> H, size |-> T]
  OBVIOUS
<1>4. /\ FirstProtocol(d) = net
      /\ NextProtocol(d, first) = l4
      /\ NextProtocol(d, second) = None
  BY <1>2, <1>3, NextOf
<1>5. LayerFrom(d, net, 0) = first
  <2>1. H \in Nat /\ Len(d) >= 0 + H
    BY <1>1
  <2> QED
    BY <1>1, <1>2, <2>1, HeaderLayer
<1>6. LayerFrom(d, l4, first.at + first.size) = second
  <2>1. H \in Nat /\ T \in Nat
    BY <1>1
  <2>2. LayerFrom(d, l4, H) = second
    BY <1>1, <1>3, <2>1, HeaderLayer
  <2>3. first.at + first.size = H
    BY <1>1, <1>2
  <2> QED
    BY <2>2, <2>3
<1> HIDE DEF H, T
<1>7. PICK one : one = <<first>>
  OBVIOUS
<1>8. PICK both : both = Append(one, second)
  OBVIOUS
<1>9. /\ IsList(both)
      /\ Len(one) = 1 /\ Last(one) = first
      /\ Len(both) = 2 /\ both[1] = first /\ both[2] = second /\ Last(both) = second
  <2>1. Len(one) = 1 /\ one[1] = first
    BY <1>7
  <2>2. IsList(one)
    <3>1. one = [i \in 1 .. 1 |-> one[i]]
      BY <1>7
    <3> QED
      BY <3>1, ListOfFunction
  <2>3. IsList(both) /\ Len(both) = 2 /\ both[1] = first /\ both[2] = second
    <3>1. /\ IsList(both) /\ Len(both) = Len(one) + 1
          /\ \A i \in 1 .. Len(one) : both[i] = one[i]
          /\ both[Len(one) + 1] = second
      BY <1>8, <2>2, ListAppend
    <3> QED
      BY <2>1, <3>1
  <2> QED
    BY <2>1, <2>3 DEF Last
<1>10. l4 # None
  BY DEF TransportNames, IcmpNames, None
<1>11. ASSUME NEW c
       PROVE  /\ ChainStep(d, c, 1) = one
              /\ c[1] = one => ChainStep(d, c, 2) = both
              /\ \A n \in 3 .. 5 : c[n - 1] = both => ChainStep(d, c, n) = both
  <2>1. ChainStep(d, c, 1) = one
    BY <1>4, <1>5, <1>7 DEF ChainStep
  <2>2. c[1] = one => ChainStep(d, c, 2) = both
    BY <1>4, <1>6, <1>8, <1>9, <1>10 DEF ChainStep
  <2>3. \A n \in 3 .. 5 : c[n - 1] = both => ChainStep(d, c, n) = both
    BY <1>4, <1>9 DEF ChainStep
  <2> QED
    BY <2>1, <2>2, <2>3
<1>12. \E c : IsChain(c, d)
  <2> DEFINE c == [n \in 1 .. 5 |-> IF n = 1 THEN one ELSE both]
  <2>1. c[1] = one /\ \A n \in 3 .. 5 : c[n - 1] = both
    OBVIOUS
  <2>2. c = [n \in 1 .. 5 |-> c[n]] /\ \A n \in 2 .. 5 : c[n] = both
    OBVIOUS
  <2> HIDE DEF c
  <2>3. \A n \in 1 .. 5 : ChainStep(d, c, n) = c[n]
    <3>1. ChainStep(d, c, 1) = c[1] /\ ChainStep(d, c, 2) = c[2]
      BY <1>11, <2>1, <2>2
    <3>2. \A n \in 3 .. 5 : ChainStep(d, c, n) = c[n]
      BY <1>11, <2>1, <2>2
    <3> QED
      BY <3>1, <3>2
  <2>4. IsChain(c, d)
    BY <2>2, <2>3 DEF IsChain, MaxDepth
  <2> QED
    BY <2>4
<1>13. PICK c : c = CHOOSE x : IsChain(x, d)
  OBVIOUS
<1>14. IsChain(c, d)
  BY <1>12, <1>13
<1>15. \A n \in 1 .. 5 : c[n] = ChainStep(d, c, n)
  BY <1>14 DEF IsChain, MaxDepth
<1>16. c[5] = both
  <2>1. c[1] = one
    BY <1>11, <1>15
  <2>2. c[2] = both
    BY <1>11, <1>15, <2>1
  <2>3. c[3] = both
    BY <1>11, <1>15, <2>2
  <2>4. c[4] = both
    BY <1>11, <1>15, <2>3
  <2> QED
    BY <1>11, <1>15, <2>4
<1>17. WrapPacket(d) = Closed(d, both)
  BY <1>13, <1>16, WrapIs DEF MaxDepth
<1>18. PICK pay : pay = [proto |-> Payload, at |-> H + T, size |-> Rest(d, net, l4)]
  OBVIOUS
<1>19. Closed(d, both) = [data |-> d, layers |-> Append(both, pay)]
  <2>1. second.at + second.size = H + T
    BY <1>3
  <2>2. Len(d) - (H + T) = Rest(d, net, l4)
    BY <1>1 DEF Rest, H, T
  <2> QED
    BY <1>9, <1>18, <2>1, <2>2 DEF Closed
<1>20. PICK ls : ls = Append(both, pay)
  OBVIOUS
<1>21. IsList(ls) /\ Len(ls) = 3 /\ ls[1] = first /\ ls[2] = second /\ ls[3] = pay
  <2>1. /\ IsList(ls) /\ Len(ls) = Len(both) + 1
        /\ \A i \in 1 .. Len(both) : ls[i] = both[i]
        /\ ls[Len(both) + 1] = pay
    <3>1. IsList(both)
      BY <1>9
    <3> QED
      BY ONLY <1>20, <3>1, ListAppend
  <2> QED
    BY <1>9, <2>1
<1>22. IsLayers(ls, net, l4, Rest(d, net, l4))
  BY <1>2, <1>3, <1>18, <1>21 DEF IsLayers, H, T
<1>23. WrapPacket(d) = [data |-> d, layers |-> ls]
  BY <1>17, <1>19, <1>20
<1>24. PICK p : p = WrapPacket(d)
  OBVIOUS
<1>25. p = [data |-> d, layers |-> ls]
  BY <1>23, <1>24
<1>26. p.data = d /\ p.layers = ls
  BY <1>25
<1>27. Whole(p, net, l4)
  BY <1>22, <1>25, <1>26 DEF Whole, Made
<1> QED
  BY <1>24, <1>26, <1>27

LEMMA WholeTiles ==
    ASSUME NEW net \in IpNames, NEW l4 \in TransportNames, NEW p, Whole(p, net, l4)
    PROVE  Tiles(p)
<1> DEFINE H == HeaderSize(net)
           T == HeaderSize(l4)
           r == Rest(p.data, net, l4)
           sizes(n) == [k \in 1 .. n |-> p.layers[k].size]
<1>1. /\ H \in Int /\ T \in Int /\ r \in Int
      /\ Len(p.data) = H + T + r
  BY Sizes DEF Whole, Made
<1>2. /\ DOMAIN p.layers = 1 .. 3
      /\ p.layers[1].at = 0 /\ p.layers[2].at = H /\ p.layers[3].at = H + T
      /\ p.layers[1].size = H /\ p.layers[2].size = T /\ p.layers[3].size = r
  BY ListDomain DEF Whole, Made, IsLayers
<1>3. \A i \in 1 .. 3 : [k \in 1 .. i - 1 |-> p.layers[k].size] = sizes(i - 1)
  OBVIOUS
<1>4. [k \in DOMAIN p.layers |-> p.layers[k].size] = sizes(3)
  BY <1>2
<1>5. \A n \in 0 .. 3 : DOMAIN sizes(n) = 1 .. n /\ \A k \in 1 .. n : sizes(n)[k] = p.layers[k].size
  OBVIOUS
<1> HIDE DEF H, T, r, sizes
<1>6. WordSum(sizes(0)) = 0
  <2>1. DOMAIN sizes(0) = 1 .. 0 /\ \A k \in 1 .. 0 : sizes(0)[k] \in Int
    BY <1>5
  <2> QED
    BY <2>1, WordSumIs
<1>7. WordSum(sizes(1)) = H
  <2>1. DOMAIN sizes(1) = 1 .. 1 /\ sizes(1)[1] = H
    BY <1>2, <1>5
  <2>2. \A k \in 1 .. 1 : sizes(1)[k] \in Int
    BY <1>1, <2>1
  <2> QED
    BY <2>1, <2>2, WordSumIs
<1>8. WordSum(sizes(2)) = H + T
  <2>1. DOMAIN sizes(2) = 1 .. 2 /\ sizes(2)[1] = H /\ sizes(2)[2] = T
    BY <1>2, <1>5
  <2>2. \A k \in 1 .. 2 : sizes(2)[k] \in Int
    BY <1>1, <2>1
  <2> QED
    BY <2>1, <2>2, WordSumIs
<1>9. WordSum(sizes(3)) = H + T + r
  <2>1. DOMAIN sizes(3) = 1 .. 3 /\ sizes(3)[1] = H /\ sizes(3)[2] = T /\ sizes(3)[3] = r
    BY <1>2, <1>5
  <2>2. \A k \in 1 .. 3 : sizes(3)[k] \in Int
    BY <1>1, <2>1
  <2> QED
    BY <2>1, <2>2, WordSumIs
<1>10. ASSUME NEW i \in 1 .. 3
       PROVE  p.layers[i].at = WordSum(sizes(i - 1))
  <2>1. CASE i = 1
    BY <1>2, <1>6, <2>1
  <2>2. CASE i = 2
    BY <1>2, <1>7, <2>2
  <2>3. CASE i = 3
    BY <1>2, <1>8, <2>3
  <2> QED
    BY <2>1, <2>2, <2>3
<1>11. \A i \in DOMAIN p.layers : p.layers[i].at = WordSum([k \in 1 .. i - 1 |-> p.layers[k].size])
  BY <1>2, <1>3, <1>10
<1> QED
  BY <1>1, <1>4, <1>9, <1>11 DEF Tiles

-----------------------------------------------------------------------------
(* What a tag changes *)

(* There is room for a tag in the header or in the payload. *)
LEMMA RoomKept ==
    ASSUME NEW net \in IpNames, NEW l4 \in TransportNames, NEW s \in Int, NEW p,
           Made(p, net, l4, s), l4 \in IcmpNames \/ s >= 1, NEW w
    PROVE  /\ Made(WriteRoom(p, w), net, l4, s)
           /\ Same(p.data, WriteRoom(p, w).data, Core(net, l4))
<1>1. HasField(p.layers[Len(p.layers) - 1].proto, "body") <=> l4 \in IcmpNames
  <2>1. p.layers[Len(p.layers) - 1].proto = l4
    BY DEF Made, IsLayers
  <2> QED
    BY <2>1, TransportFields
<1>2. CASE l4 \in IcmpNames
  <2>1. WriteRoom(p, w) = SetFieldFrom(p, "body", w, 0)
    BY <1>1, <1>2 DEF WriteRoom
  <2>2. Position(p, "body", 0) = HeaderSize(net) + 3
    BY <1>2, FieldPlaces DEF Made
  <2>3. HeaderSize(net) \in {6, 7} /\ FieldOffset(net, "ttl") \in {3, 4}
        /\ FieldOffset(net, "protocol") \in {3, 4}
    BY NetFields
  <2>4. Position(p, "body", 0) \notin Core(net, l4)
    BY <2>2, <2>3 DEF Core
  <2> QED
    BY <2>1, <2>4, FrameInCore, SetFieldKept
<1>3. CASE l4 \notin IcmpNames
  <2>1. PICK ws : ws = <<w>>
    OBVIOUS
  <2>2. DOMAIN ws = 1 .. 1 /\ Len(ws) = 1
    BY <2>1
  <2>3. PayloadLayer(p).size = s
    BY PayloadOf
  <2>4. WriteRoom(p, w) = WritePayload(p, ws)
    BY <1>1, <1>3, <2>1 DEF WriteRoom
  <2>5. ~(Len(ws) > PayloadLayer(p).size)
    BY <1>3, <2>2, <2>3
  <2>6. WritePayload(p, ws)
          = [p EXCEPT !.data = [i \in DOMAIN @ |->
               IF i - PayloadLayer(p).at \in DOMAIN ws THEN ws[i - PayloadLayer(p).at] ELSE @[i]]]
    BY <2>5 DEF WritePayload
  <2>7. PICK q : q = WriteRoom(p, w)
    OBVIOUS
  <2>8. Made(q, net, l4, s) /\ Same(p.data, q.data, 1 .. HeaderSize(net) + HeaderSize(l4))
    <3>1. PICK n : n = 1
      OBVIOUS
    <3>2. n \in Nat /\ DOMAIN ws = 1 .. n
      BY <2>2, <3>1
    <3>3. q = [p EXCEPT !.data = [i \in DOMAIN @ |->
               IF i - PayloadLayer(p).at \in DOMAIN ws THEN ws[i - PayloadLayer(p).at] ELSE @[i]]]
      BY <2>4, <2>6, <2>7
    <3> QED
      BY <3>2, <3>3, WriteFits
  <2>9. Core(net, l4) \subseteq 1 .. HeaderSize(net) + HeaderSize(l4)
    <3>1. HeaderSize(net) \in {6, 7} /\ FieldOffset(net, "ttl") \in {3, 4}
          /\ FieldOffset(net, "protocol") \in {3, 4} /\ HeaderSize(l4) \in {3, 4, 5}
      BY NetFields, TransportFields
    <3> QED
      BY <3>1 DEF Core
  <2>10. Same(p.data, q.data, Core(net, l4))
    BY <2>8, <2>9 DEF Same
  <2> QED
    BY <2>7, <2>8, <2>10
<1> QED
  BY <1>2, <1>3

LEMMA ResumKept ==
    ASSUME NEW net \in IpNames, NEW l4 \in TransportNames, NEW s, NEW p, Made(p, net, l4, s)
    PROVE  /\ Made(Resum(p), net, l4, s)
           /\ Same(p.data, Resum(p).data, Core(net, l4))
<1> DEFINE e == UpdateChecksum(p.data, p.layers, 0)
           q == Resum(p)
<1>1. IsLayers(p.layers, net, l4, s) /\ IsList(p.data) /\ p = [data |-> p.data, layers |-> p.layers]
  BY DEF Made, Packet
<1>2. Same(p.data, e, Core(net, l4))
  BY <1>1, ChecksumsKept
<1>3. q = [p EXCEPT !.data = e]
  BY DEF Resum
<1> HIDE DEF q, e
<1>4. q = [data |-> e, layers |-> p.layers]
  BY <1>1, <1>3
<1>5. Packet(e, net, l4)
  BY <1>2, FrameInCore, PacketSame DEF Made
<1>6. Made(q, net, l4, s)
  BY <1>1, <1>4, <1>5 DEF Made
<1> QED
  BY <1>2, <1>4, <1>6 DEF q

(* A tag leaves alone all that a load balancer or an algorithm looks at. *)
LEMMA TagKept ==
    ASSUME NEW net \in IpNames, NEW l4 \in TransportNames, NEW p, Whole(p, net, l4), HasRoom(p),
           NEW tag
    PROVE  /\ Whole(TagProbe(p, tag), net, l4)
           /\ Same(p.data, TagProbe(p, tag).data, Core(net, l4))
<1> DEFINE s == Rest(p.data, net, l4)
           K == Core(net, l4)
<1>1. Made(p, net, l4, s)
  BY DEF Whole
<1>2. s \in Int
  BY Sizes DEF Whole, Made
<1>3. l4 \in IcmpNames \/ s >= 1
  <2>1. p.layers[Len(p.layers) - 1].proto = l4
    BY <1>1 DEF Made, IsLayers
  <2>2. PayloadLayer(p).size = s
    BY <1>1, PayloadOf
  <2> QED
    BY <2>1, <2>2, TransportFields DEF HasRoom
<1> HIDE DEF s
<1>4. PICK a : a = WriteRoom(p, tag)
  OBVIOUS
<1>5. Made(a, net, l4, s) /\ Same(p.data, a.data, K)
  BY <1>1, <1>2, <1>3, <1>4, RoomKept
<1>6. PICK b : b = Resum(a)
  OBVIOUS
<1>7. Made(b, net, l4, s) /\ Same(a.data, b.data, K)
  BY <1>5, <1>6, ResumKept
<1>8. PICK c : c = SetFieldFrom(b, "checksum", tag, 1)
  OBVIOUS
<1>9. Made(c, net, l4, s) /\ Same(b.data, c.data, K)
  <2>1. Position(b, "checksum", 1) = HeaderSize(net) + FieldOffset(l4, "checksum")
    BY <1>7, FieldPlaces DEF Made
  <2>2. FieldOffset(l4, "checksum") = (IF l4 = "udp" THEN 4 ELSE IF l4 = "tcp" THEN 5 ELSE 2)
    BY TransportFields
  <2>3. l4 \notin {"udp", "tcp"} => l4 \in IcmpNames
    BY DEF TransportNames
  <2>4. HeaderSize(net) \in {6, 7} /\ FieldOffset(net, "ttl") \in {3, 4}
        /\ FieldOffset(net, "protocol") \in {3, 4}
    BY NetFields
  <2>5. Position(b, "checksum", 1) \notin K
    BY <2>1, <2>2, <2>3, <2>4 DEF Core
  <2> HIDE DEF K
  <2> QED
    BY <1>7, <1>8, <2>5, FrameInCore, SetFieldKept DEF K
<1>10. PICK e : e = WriteRoom(c, b.data[TagPosition(b)])
  OBVIOUS
<1>11. Made(e, net, l4, s) /\ Same(c.data, e.data, K)
  BY <1>2, <1>3, <1>9, <1>10, RoomKept
<1>12. TagProbe(p, tag) = e
  BY <1>4, <1>6, <1>8, <1>10 DEF TagProbe, Swap
<1>13. Same(p.data, e.data, K)
  <2> HIDE DEF K
  <2>1. Same(p.data, b.data, K)
    BY <1>5, <1>7, SameAfter
  <2>2. Same(p.data, c.data, K)
    BY <1>9, <2>1, SameAfter
  <2> QED
    BY <1>11, <2>2, SameAfter
<1>14. Rest(e.data, net, l4) = s
  BY <1>13 DEF Same, Rest, s
<1> QED
  BY <1>11, <1>12, <1>13, <1>14 DEF Whole

-----------------------------------------------------------------------------
(* What distinguishes the probes of a program *)

(* The packet d differs from b, the packet of the skeleton, by the time to *)
(* live and the flow its algorithm asked for, and by no other word that a  *)
(* load balancer looks at; with a route, its source is the one the kernel  *)
(* would choose.                                                           *)
Own(d, b, net, l4, ttl, flow) ==
    /\ Len(d) = Len(b)
    /\ ttl # NoTtl => d[FieldOffset(net, "ttl")] = ttl
    /\ d[HeaderSize(net)] = b[HeaderSize(net)]
    /\ d[HeaderSize(net) - 1] = (IF routed THEN Local ELSE b[HeaderSize(net) - 1])
    /\ l4 \notin IcmpNames =>
         /\ d[HeaderSize(net) + 1] = (IF flow = NoFlow THEN b[HeaderSize(net) + 1]
                                      ELSE FlowBase + flow)
         /\ d[HeaderSize(net) + 2] = b[HeaderSize(net) + 2]

LEMMA OwnKept ==
    ASSUME NEW net, NEW l4, NEW b, NEW ttl, NEW flow, NEW d, Own(d, b, net, l4, ttl, flow),
           NEW e, Same(d, e, Core(net, l4))
    PROVE  Own(e, b, net, l4, ttl, flow)
<1> DEFINE H == HeaderSize(net)
<1>1. \A k \in {FieldOffset(net, "ttl"), H - 1, H, H + 1} : e[k] = d[k]
  BY DEF Same, Core
<1>2. l4 \notin IcmpNames => e[H + 2] = d[H + 2]
  BY DEF Same, Core
<1>3. Len(e) = Len(d)
  BY DEF Same
<1> QED
  BY <1>1, <1>2, <1>3 DEF Own

(* What SendProbe puts in the queue. *)
LEMMA SentIsOwn ==
    ASSUME NEW net \in IpNames, NEW l4 \in TransportNames, NEW sk, Skeleton(sk, net, l4),
           NEW ttl, NEW flow,
           NEW p, p = IF ttl = NoTtl THEN Dup(sk) ELSE SetField(Dup(sk), "ttl", ttl),
           NEW q, q = IF flow = NoFlow THEN p ELSE SetField(p, "flow_id", flow)
    PROVE  /\ Whole(UpdateFields(q, 0), net, l4)
           /\ Own(UpdateFields(q, 0).data, sk.data, net, l4, ttl, flow)
<1> DEFINE b == sk.data
           H == HeaderSize(net)
           T == FieldOffset(net, "ttl")
           K == Core(net, l4)
           s == Rest(b, net, l4)
<1>1. Packet(b, net, l4)
  BY DEF Skeleton, Made
<1>2. /\ H \in {6, 7} /\ T = (IF net = "ipv4" THEN 3 ELSE 4)
      /\ FieldOffset(net, "protocol") = (IF net = "ipv4" THEN 4 ELSE 3)
      /\ Len(b) \in Nat /\ Len(b) >= H + 3
  <2>1. HeaderSize(l4) \in {3, 4, 5} /\ H \in {6, 7} /\ Len(b) \in Nat /\ Len(b) >= H + HeaderSize(l4)
    BY <1>1, Sizes
  <2> QED
    BY <2>1, NetFields
<1>3. PICK c : c = Dup(sk)
  OBVIOUS
<1>4. c.data = b /\ Made(c, net, l4, s)
  <2>1. c = WrapPacket(b)
    BY <1>3 DEF Dup
  <2>2. WrapPacket(b).data = b /\ Whole(WrapPacket(b), net, l4)
    BY <1>1, WrapWhole
  <2> QED
    BY <2>1, <2>2 DEF Whole
<1>5. /\ Made(p, net, l4, s)
      /\ Same(b, p.data, K \ {T})
      /\ ttl # NoTtl => p.data[T] = ttl
  <2>1. CASE ttl = NoTtl
    <3>1. p = c
      BY <1>3, <2>1
    <3>2. Same(b, b, K \ {T})
      BY <1>1 DEF Same, Packet
    <3> QED
      BY <1>4, <2>1, <3>1, <3>2
  <2>2. CASE ttl # NoTtl
    <3>1. Position(c, "ttl", 0) = T
      BY <1>4, FieldPlaces DEF Made
    <3>2. p = SetFieldFrom(c, "ttl", ttl, 0)
      BY <1>2, <1>3, <2>2, <3>1 DEF SetField
    <3>3. T \notin Frame(net, l4)
      BY <1>2 DEF Frame
    <3>4. Frame(net, l4) \subseteq K \ {T} /\ T \notin K \ {T}
      BY <3>3, FrameInCore
    <3>5. T \in 1 .. Len(c.data)
      BY <1>2, <1>4
    <3> HIDE DEF K, T
    <3> QED
      BY <1>4, <3>1, <3>2, <3>4, <3>5, SetFieldKept
  <2> QED
    BY <2>1, <2>2
<1>6. /\ Made(q, net, l4, s)
      /\ Same(p.data, q.data, K \ {k \in {H + 1} : l4 \notin IcmpNames})
      /\ l4 \notin IcmpNames => q.data[H + 1] = IF flow = NoFlow THEN p.data[H + 1] ELSE FlowBase + flow
  <2> DEFINE L == K \ {k \in {H + 1} : l4 \notin IcmpNames}
  <2>1. CASE flow = NoFlow
    <3>1. q = p
      BY <2>1
    <3>2. Same(p.data, p.data, L)
      BY <1>5 DEF Same
    <3> QED
      BY <1>5, <2>1, <3>1, <3>2
  <2>2. CASE flow # NoFlow
    <3>1. /\ Position(p, "flow_id", 0) = 0
          /\ Position(p, "src_port", 0) = IF l4 \in IcmpNames THEN 0 ELSE H + 1
      BY <1>5, FieldPlaces DEF Made
    <3>2. q = SetFieldFrom(p, "src_port", FlowBase + flow, 0)
      BY <2>2, <3>1 DEF SetField
    <3>3. Position(p, "src_port", 0) \notin L
      <4>1. 0 \notin K
        BY <1>2 DEF Core
      <4> QED
        BY <3>1, <4>1
    <3>4. Frame(net, l4) \subseteq L
      <4>1. l4 \notin IcmpNames => H + 1 \notin Frame(net, l4)
        BY <1>2 DEF Frame
      <4> QED
        BY <4>1, FrameInCore
    <3>5. l4 \notin IcmpNames => H + 1 \in 1 .. Len(p.data)
      <4>1. Len(p.data) = Len(b)
        BY <1>5 DEF Same
      <4> QED
        BY <1>2, <4>1
    <3> HIDE DEF L
    <3>6. /\ Made(q, net, l4, s) /\ Same(p.data, q.data, L)
          /\ Position(p, "src_port", 0) \in 1 .. Len(p.data)
               => q.data[Position(p, "src_port", 0)] = FlowBase + flow
      BY <1>5, <3>2, <3>3, <3>4, SetFieldKept
    <3> QED
      BY <2>2, <3>1, <3>5, <3>6 DEF L
  <2> QED
    BY <2>1, <2>2
<1>7. /\ ttl # NoTtl => q.data[T] = ttl
      /\ q.data[H] = b[H]
      /\ q.data[H - 1] = b[H - 1]
      /\ l4 \notin IcmpNames => /\ q.data[H + 1] = IF flow = NoFlow THEN b[H + 1] ELSE FlowBase + flow
                                /\ q.data[H + 2] = b[H + 2]
  <2>1. T \in K /\ H \in K /\ H - 1 \in K /\ H + 1 \in K /\ (l4 \notin IcmpNames => H + 2 \in K)
    BY DEF Core
  <2>2. T \notin {H, H - 1, H + 1, H + 2} /\ H # H + 1 /\ H - 1 # H + 1 /\ H + 2 # H + 1
    BY <1>2
  <2> HIDE DEF K, T, H
  <2>3. /\ p.data[H] = b[H] /\ p.data[H - 1] = b[H - 1] /\ p.data[H + 1] = b[H + 1]
        /\ l4 \notin IcmpNames => p.data[H + 2] = b[H + 2]
    BY <1>5, <2>1, <2>2 DEF Same
  <2>4. /\ q.data[T] = p.data[T] /\ q.data[H] = p.data[H] /\ q.data[H - 1] = p.data[H - 1]
        /\ l4 \notin IcmpNames => q.data[H + 2] = p.data[H + 2]
    BY <1>6, <2>1, <2>2 DEF Same
  <2> QED
    BY <1>5, <1>6, <2>3, <2>4
<1>8. Rest(q.data, net, l4) = s /\ Len(q.data) = Len(b)
  BY <1>5, <1>6 DEF Same, Rest
<1>9. PICK u : u = UpdateFields(q, 0)
  OBVIOUS
<1>10. CASE routed
  <2>1. /\ Whole(u, net, l4)
        /\ Same(q.data, u.data, K \ {H - 1})
        /\ u.data[H - 1] = Local
    <3>1. PICK n : n = s
      OBVIOUS
    <3>2. Made(q, net, l4, n)
      BY <1>6, <3>1
    <3>3. Refreshed(q, u, net, l4)
      BY <1>9, <1>10, <3>2, UpdateKept
    <3> QED
      BY <3>3 DEF Whole, Refreshed
  <2>2. T \in K /\ H \in K /\ H + 1 \in K /\ (l4 \notin IcmpNames => H + 2 \in K)
    BY DEF Core
  <2>3. T # H - 1 /\ H # H - 1 /\ H + 1 # H - 1 /\ H + 2 # H - 1
    BY <1>2
  <2> HIDE DEF K, T, H
  <2>4. /\ u.data[T] = q.data[T] /\ u.data[H] = q.data[H] /\ u.data[H + 1] = q.data[H + 1]
        /\ l4 \notin IcmpNames => u.data[H + 2] = q.data[H + 2]
    BY <2>1, <2>2, <2>3 DEF Same
  <2>5. Own(u.data, b, net, l4, ttl, flow)
    <3>1. Len(u.data) = Len(b)
      BY <1>8, <2>1 DEF Same
    <3> QED
      BY <1>7, <1>10, <2>1, <2>4, <3>1 DEF Own, T, H
  <2> QED
    BY <1>9, <2>1, <2>5
<1>11. CASE ~routed
  <2>1. u = q
    BY <1>9, <1>11 DEF UpdateFields
  <2>2. Whole(u, net, l4)
    BY <1>6, <1>8, <2>1 DEF Whole
  <2>3. Own(u.data, b, net, l4, ttl, flow)
    BY <1>7, <1>8, <1>11, <2>1 DEF Own
  <2> QED
    BY <1>9, <2>2, <2>3
<1> QED
  BY <1>10, <1>11

-----------------------------------------------------------------------------
(* Lists of what another list holds *)

Among(t, s) == IsList(t) /\ \A i \in DOMAIN t : \E k \in DOMAIN s : t[i] = s[k]

LEMMA AmongElements ==
    ASSUME NEW s, NEW t, t \in Seq({s[k] : k \in DOMAIN s})
    PROVE  Among(t, s)
<1>1. PICK E : E = {s[k] : k \in DOMAIN s}
  OBVIOUS
<1>2. t \in Seq(E)
  BY <1>1
<1>3. \A i \in DOMAIN t : t[i] \in E
  BY <1>2
<1>4. IsList(t)
  BY <1>2 DEF IsList
<1> QED
  BY <1>1, <1>3, <1>4 DEF Among

LEMMA OwnElements ==
    ASSUME NEW s, IsList(s), NEW E, E = {s[k] : k \in DOMAIN s}
    PROVE  s \in Seq(E)
<1>1. PICK n : n = Len(s)
  OBVIOUS
<1>2. n \in Nat /\ DOMAIN s = 1 .. n /\ s = [k \in 1 .. n |-> s[k]]
  <2>1. PICK S : s \in Seq(S)
    BY DEF IsList
  <2> QED
    BY <1>1, <2>1
<1>3. s \in [1 .. n -> E]
  BY <1>2
<1> QED
  BY <1>2, <1>3

LEMMA TailAmong ==
    ASSUME NEW s, IsList(s), s # << >>
    PROVE  /\ Among(Tail(s), s)
           /\ 1 \in DOMAIN s
           /\ Head(s) = s[1]
<1>1. PICK E : E = {s[k] : k \in DOMAIN s}
  OBVIOUS
<1>2. s \in Seq(E)
  BY <1>1, OwnElements
<1>3. Tail(s) \in Seq(E)
  BY <1>2
<1>4. 1 \in DOMAIN s /\ Head(s) = s[1]
  BY <1>2
<1> QED
  BY <1>1, <1>3, <1>4, AmongElements

LEMMA RemoveAmong ==
    ASSUME NEW s, IsList(s), NEW i \in DOMAIN s
    PROVE  Among(RemoveAt(s, i), s)
<1>1. PICK E : E = {s[k] : k \in DOMAIN s}
  OBVIOUS
<1>2. s \in Seq(E) /\ i \in 1 .. Len(s)
  BY <1>1, OwnElements, ListDomain
<1>3. SubSeq(s, 1, i - 1) \in Seq(E) /\ SubSeq(s, i + 1, Len(s)) \in Seq(E)
  BY <1>2
<1>4. SubSeq(s, 1, i - 1) \o SubSeq(s, i + 1, Len(s)) \in Seq(E)
  BY <1>3
<1>5. RemoveAt(s, i) \in Seq(E)
  BY <1>4 DEF RemoveAt
<1> QED
  BY <1>1, <1>5, AmongElements

LEMMA LeastIsMember ==
    ASSUME NEW S \in SUBSET Nat, S # {}
    PROVE  Min(S) \in S
<1>1. PICK m \in S : \A j \in S : m <= j
  BY LeastNumber
<1>2. Min(S) = m
  <2>1. \A j \in S : j \in Int /\ m <= j
    BY <1>1
  <2> QED
    BY <2>1, LeastOf
<1> QED
  BY <1>2

-----------------------------------------------------------------------------
(* The life of the probes of a program *)

(* What the main of a program makes of its options, whatever they are. *)
GoodProgram ==
    /\ program.net \in IpNames /\ program.l4 \in TransportNames
    /\ program.payload \in Nat /\ program.flows \subseteq Int

NoSkeleton == skel = [data |-> << >>, layers |-> << >>]

NoProbe == sendq = << >> /\ flying = << >> /\ wire = << >>

(* A probe of the queue or of the list of those that fly, and a packet on  *)
(* the wire: what they keep of the skeleton and of what was asked.         *)
GoodProbe(x) ==
    /\ Whole(x.probe, program.net, program.l4)
    /\ Own(x.probe.data, skel.data, program.net, program.l4, x.ttl, x.flow)
    /\ x.flow \in Int

GoodPacket(x) ==
    /\ Packet(x.data, program.net, program.l4)
    /\ Own(x.data, skel.data, program.net, program.l4, x.ttl, x.flow)

GoodQueue(q)  == IsList(q) /\ \A i \in DOMAIN q : GoodProbe(q[i])

GoodWire(w) == IsList(w) /\ \A i \in DOMAIN w : GoodPacket(w[i])

(* Before the program is known, before its skeleton is begun, and after.   *)
(* No probe leaves before the skeleton is finished, so that all the probes *)
(* of a program come from one skeleton.                                    *)
Unknown == todo # << >> /\ Head(todo) = "options" /\ NoSkeleton /\ NoProbe

Ready == GoodProgram /\ todo # << >> /\ Head(todo) = "protocols" /\ NoSkeleton /\ NoProbe

Running ==
    /\ GoodProgram
    /\ Skeleton(skel, program.net, program.l4)
    /\ todo # << >> => NoProbe
    /\ GoodQueue(sendq) /\ GoodQueue(flying) /\ GoodWire(wire)

PacketInv == Unknown \/ Ready \/ Running

(* A step that builds the skeleton. *)
LEMMA BuiltRuns ==
    ASSUME GoodProgram, NoProbe, NEW p, Skeleton(p, program.net, program.l4), Built(p)
    PROVE  Running'
<1>1. /\ skel' = p /\ program' = program /\ routed' = routed
      /\ sendq' = sendq /\ flying' = flying /\ wire' = wire
  BY DEF Built
<1>2. NoProbe'
  BY <1>1 DEF NoProbe
<1>3. GoodQueue(sendq)' /\ GoodQueue(flying)' /\ GoodWire(wire)'
  <2>1. PICK e : e = << >>
    OBVIOUS
  <2>2. IsList(e) /\ DOMAIN e = {}
    BY <2>1 DEF IsList
  <2>3. sendq' = e /\ flying' = e /\ wire' = e
    BY <1>2, <2>1 DEF NoProbe
  <2> QED
    BY <2>2, <2>3 DEF GoodQueue, GoodWire
<1>4. GoodProgram' /\ Skeleton(skel, program.net, program.l4)'
  BY <1>1 DEF GoodProgram, Skeleton
<1> QED
  BY <1>2, <1>3, <1>4 DEF Running

(* The probes are what they were. *)
LEMMA GoodStays ==
    ASSUME program' = program, routed' = routed, skel' = skel, NEW x
    PROVE  /\ GoodProbe(x)' <=> GoodProbe(x)
           /\ GoodPacket(x)' <=> GoodPacket(x)
  BY DEF GoodProbe, GoodPacket, Own

(* Steps that leave the skeleton alone. *)
LEMMA StillRunning ==
    ASSUME Running, program' = program, routed' = routed, skel' = skel, todo' = todo,
           todo = << >>, GoodQueue(sendq'), GoodQueue(flying'), GoodWire(wire')
    PROVE  Running'
<1>1. GoodQueue(sendq)' /\ GoodQueue(flying)' /\ GoodWire(wire)'
  BY GoodStays DEF GoodQueue, GoodWire
<1>2. GoodProgram' /\ Skeleton(skel, program.net, program.l4)'
  BY DEF Running, GoodProgram, Skeleton
<1> QED
  BY <1>1, <1>2 DEF Running

LEMMA PacketInit ==
    ASSUME ProbeInit
    PROVE  PacketInv
<1>1. PICK t : t = <<"options">>
  OBVIOUS
<1>2. t # << >> /\ Head(t) = "options"
  BY <1>1
<1>3. todo = t /\ NoSkeleton /\ NoProbe
  BY <1>1 DEF ProbeInit, NoSkeleton, NoProbe
<1> QED
  BY <1>2, <1>3 DEF PacketInv, Unknown

(* What probe_set_protocols builds, its layers named. *)
LEMMA SetProtocolsBuilds ==
    ASSUME SetProtocols, NEW d, d = Headers(program.net, program.l4),
           NEW ls, ls = <<LayerFrom(d, program.net, 0),
                          LayerFrom(d, program.l4, LayerFrom(d, program.net, 0).size),
                          [proto |-> Payload, at |-> Len(d), size |-> 0]>>,
           NEW p, p = [data |-> LayerSetLength(
                                  LayerSet(LayerSetLength(d, ls[1], Len(d)),
                                           ls[1], "protocol", Protocol[program.l4].id),
                                  ls[2], Len(d) - ls[2].at),
                       layers |-> ls]
    PROVE  Built(p)
<1> DEFINE net == program.net
           l4 == program.l4
           one == LayerFrom(d, net, 0)
           two == LayerFrom(d, l4, one.size)
           pay == [proto |-> Payload, at |-> Len(d), size |-> 0]
           Set(n) == LayerSetLength(LayerSet(LayerSetLength(d, one, Len(d)), one, "protocol", n),
                                    two, Len(d) - two.at)
<1>1. ls[1] = one /\ ls[2] = two /\ ls = <<one, two, pay>>
  OBVIOUS
<1>2. <<net, l4>>[1] = net /\ <<net, l4>>[2] = l4
  OBVIOUS
<1>3. d = Protocol[net].default \o Protocol[l4].default
  BY Zenon DEF Headers
<1>4. Built([data |-> Set(Protocol[l4].id), layers |-> <<one, two, pay>>])
  BY <1>2, <1>3, Zenon DEF SetProtocols
<1>5. p = [data |-> Set(Protocol[l4].id), layers |-> <<one, two, pay>>]
  <2> HIDE DEF one, two, pay
  <2> QED
    BY <1>1
<1> QED
  BY ONLY <1>4, <1>5

(* Each step of a main that builds the skeleton. *)
LEMMA SetProtocolsRuns ==
    ASSUME PacketInv, SetProtocols
    PROVE  Running'
<1>1. todo # << >> /\ Head(todo) = "protocols"
  BY DEF SetProtocols, AtStep
<1>2. GoodProgram /\ NoProbe
  BY <1>1 DEF PacketInv, Unknown, Ready, Running
<1> DEFINE net == program.net
           l4 == program.l4
<1>3. PICK d : d = Headers(net, l4)
  OBVIOUS
<1>4. PICK ls : ls = <<LayerFrom(d, net, 0), LayerFrom(d, l4, LayerFrom(d, net, 0).size),
                       [proto |-> Payload, at |-> Len(d), size |-> 0]>>
  OBVIOUS
<1>5. PICK p : p = [data |-> LayerSetLength(
                                LayerSet(LayerSetLength(d, ls[1], Len(d)),
                                         ls[1], "protocol", Protocol[l4].id),
                                ls[2], Len(d) - ls[2].at),
                    layers |-> ls]
  OBVIOUS
<1>6. Skeleton(p, net, l4)
  <2>1. PICK a \in IpNames, b \in TransportNames : a = net /\ b = l4
    BY <1>2 DEF GoodProgram
  <2>2. /\ d = Headers(a, b)
        /\ ls = <<LayerFrom(d, a, 0), LayerFrom(d, b, LayerFrom(d, a, 0).size),
                  [proto |-> Payload, at |-> Len(d), size |-> 0]>>
    BY ONLY <1>3, <1>4, <2>1
  <2>3. Skeleton([data |-> LayerSetLength(
                             LayerSet(LayerSetLength(d, ls[1], Len(d)),
                                      ls[1], "protocol", Protocol[b].id),
                             ls[2], Len(d) - ls[2].at),
                  layers |-> ls], a, b)
    BY ONLY <2>2, NewSkeleton
  <2> QED
    BY ONLY <1>5, <2>1, <2>3
<1>7. Built(p)
  BY <1>3, <1>4, <1>5, SetProtocolsBuilds
<1> QED
  BY <1>2, <1>6, <1>7, BuiltRuns

LEMMA OtherBuildRuns ==
    ASSUME PacketInv,
           SetAddress \/ SetTtl \/ SetPorts \/ ResizePayload \/ WriteFirst \/ SetTarget
    PROVE  Running'
<1>1. /\ todo # << >>
      /\ Head(todo) \in {"address", "ttl", "ports", "resize", "write", "target"}
  BY DEF SetAddress, SetTtl, SetPorts, ResizePayload, WriteFirst, SetTarget, AtStep
<1>2. Running
  BY <1>1 DEF PacketInv, Unknown, Ready
<1> DEFINE net == program.net
           l4 == program.l4
<1>3. GoodProgram /\ NoProbe /\ Skeleton(skel, net, l4)
  BY <1>1, <1>2 DEF Running
<1>4. net \in IpNames /\ l4 \in TransportNames /\ program.payload \in Nat
  BY <1>3 DEF GoodProgram
<1>5. ASSUME NEW p, Skeleton(p, net, l4), NEW name \in Settable, NEW v
      PROVE  Skeleton(SetFieldFrom(p, name, v, 0), net, l4) /\ Skeleton(SetField(p, name, v), net, l4)
  BY <1>4, <1>5, SetFieldSkeleton
<1>6. ASSUME NEW p, Skeleton(p, net, l4), NEW junk
      PROVE  Skeleton(UpdateFields(p, junk), net, l4)
  <2>1. PICK s : s = IF routed THEN Rest(p.data, net, l4) ELSE 0
    OBVIOUS
  <2>2. Made(p, net, l4, s) /\ (~routed => s = 0)
    BY <1>6, <2>1 DEF Skeleton
  <2> QED
    BY <1>4, <2>2, UpdateSkeleton
<1>7. {"dst_ip", "src_ip", "ttl", "src_port", "dst_port"} \subseteq Settable
  BY DEF Settable
<1> HIDE DEF net, l4
<1>8. ASSUME NEW p, Built(p), Skeleton(p, net, l4)
      PROVE  Running'
  BY <1>3, <1>8, BuiltRuns DEF net, l4
<1>9. CASE SetAddress
  <2>1. PICK p : p = SetFieldFrom(skel, "dst_ip", program.target, 0)
    OBVIOUS
  <2>2. PICK q : q = IF program.source = 0 THEN p ELSE SetFieldFrom(p, "src_ip", program.source, 0)
    OBVIOUS
  <2>3. Built(q)
    BY <1>9, <2>1, <2>2 DEF SetAddress
  <2>4. Skeleton(p, net, l4)
    BY <1>3, <1>5, <1>7, <2>1
  <2>5. Skeleton(q, net, l4)
    BY <1>5, <1>7, <2>2, <2>4
  <2> QED
    BY <1>8, <2>3, <2>5
<1>10. CASE SetTtl
  <2>1. PICK p : p = SetFieldFrom(skel, "ttl", program.ttl, 0)
    OBVIOUS
  <2>2. Built(p)
    BY <1>10, <2>1 DEF SetTtl
  <2>3. Skeleton(p, net, l4)
    BY <1>3, <1>5, <1>7, <2>1
  <2> QED
    BY <1>8, <2>2, <2>3
<1>11. CASE SetPorts
  <2>1. PICK p : p = SetField(skel, "src_port", program.ports[1])
    OBVIOUS
  <2>2. PICK q : q = SetField(p, "dst_port", program.ports[2])
    OBVIOUS
  <2>3. PICK junk : Built(UpdateFields(q, junk))
    BY <1>11, <2>1, <2>2 DEF SetPorts
  <2>4. Skeleton(p, net, l4)
    BY <1>3, <1>5, <1>7, <2>1
  <2>5. Skeleton(q, net, l4)
    BY <1>5, <1>7, <2>2, <2>4
  <2>6. Skeleton(UpdateFields(q, junk), net, l4)
    BY <1>6, <2>5
  <2> QED
    BY <1>8, <2>3, <2>6
<1>12. CASE ResizePayload
  <2>1. Built(PayloadResize(skel, program.payload))
    BY <1>12 DEF ResizePayload
  <2>2. Skeleton(PayloadResize(skel, program.payload), net, l4)
    BY <1>3, <1>4, ResizeSkeleton
  <2> QED
    BY <1>8, <2>1, <2>2
<1>13. CASE WriteFirst
  <2>1. PICK ws : ws = [i \in 1 .. program.payload |-> 0]
    OBVIOUS
  <2>2. DOMAIN ws = 1 .. program.payload /\ Len(ws) = program.payload
    BY <1>4, <2>1
  <2>3. Built(WritePayload(skel, ws))
    BY <1>13, <2>1 DEF WriteFirst
  <2>4. Skeleton(WritePayload(skel, ws), net, l4)
    BY <1>3, <1>4, <2>2, WriteSkeleton
  <2> QED
    BY <1>8, <2>3, <2>4
<1>14. CASE SetTarget
  <2>1. PICK p : p = SetField(skel, "dst_ip", program.target)
    OBVIOUS
  <2>2. PICK q : q = SetField(p, "dst_port", program.ports[2])
    OBVIOUS
  <2>3. Built(UpdateFields(q, 0))
    BY <1>14, <2>1, <2>2 DEF SetTarget
  <2>4. Skeleton(p, net, l4)
    BY <1>3, <1>5, <1>7, <2>1
  <2>5. Skeleton(q, net, l4)
    BY <1>5, <1>7, <2>2, <2>4
  <2>6. Skeleton(UpdateFields(q, 0), net, l4)
    BY <1>6, <2>5
  <2> QED
    BY <1>8, <2>3, <2>6
<1> QED
  BY <1>9, <1>10, <1>11, <1>12, <1>13, <1>14

LEMMA GoodAmong ==
    ASSUME NEW s, NEW t, GoodQueue(s), Among(t, s)
    PROVE  GoodQueue(t)
  BY DEF GoodQueue, Among

LEMMA GoodAppend ==
    ASSUME NEW s, NEW x
    PROVE  /\ GoodQueue(s) /\ GoodProbe(x) => GoodQueue(Append(s, x))
           /\ GoodWire(s) /\ GoodPacket(x) => GoodWire(Append(s, x))
<1>1. PICK t : t = Append(s, x)
  OBVIOUS
<1>2. ASSUME IsList(s)
      PROVE  IsList(t) /\ \A i \in DOMAIN t : t[i] = x \/ \E k \in DOMAIN s : t[i] = s[k]
  <2>1. /\ IsList(t) /\ Len(t) = Len(s) + 1
        /\ \A i \in 1 .. Len(s) : t[i] = s[i]
        /\ t[Len(s) + 1] = x
    BY <1>1, <1>2, ListAppend
  <2>2. DOMAIN t = 1 .. Len(s) + 1 /\ DOMAIN s = 1 .. Len(s) /\ Len(s) \in Nat
    BY <1>2, <2>1, ListDomain
  <2> QED
    BY <2>1, <2>2
<1>3. GoodQueue(s) /\ GoodProbe(x) => GoodQueue(t)
  BY <1>2 DEF GoodQueue
<1>4. GoodWire(s) /\ GoodPacket(x) => GoodWire(t)
  BY <1>2 DEF GoodWire
<1> QED
  BY <1>1, <1>3, <1>4

(* The steps of the network and of the algorithm leave program, route and  *)
(* skeleton alone, and need a skeleton that is finished to change the      *)
(* probes.                                                                 *)
LEMMA SendProbeRuns ==
    ASSUME PacketInv, SendProbe
    PROVE  Running'
<1>1. todo = << >> /\ Running
  BY DEF SendProbe, PacketInv, Unknown, Ready
<1> DEFINE net == program.net
           l4 == program.l4
<1>2. net \in IpNames /\ l4 \in TransportNames /\ Skeleton(skel, net, l4) /\ program.flows \subseteq Int
  BY <1>1 DEF Running, GoodProgram
<1>3. PICK ttl, flow, p, q :
           /\ ttl \in program.ttls
           /\ flow \in program.flows
           /\ p = (IF ttl = NoTtl THEN Dup(skel) ELSE SetField(Dup(skel), "ttl", ttl))
           /\ q = (IF flow = NoFlow THEN p ELSE SetField(p, "flow_id", flow))
           /\ sendq' = Append(sendq, [probe |-> UpdateFields(q, 0), ttl |-> ttl, flow |-> flow])
  BY DEF SendProbe
<1>4. PICK u : u = UpdateFields(q, 0)
  OBVIOUS
<1>5. Whole(u, net, l4) /\ Own(u.data, skel.data, net, l4, ttl, flow)
  BY <1>2, <1>3, <1>4, SentIsOwn
<1>6. PICK x : x = [probe |-> u, ttl |-> ttl, flow |-> flow]
  OBVIOUS
<1>7. GoodProbe(x)
  <2>1. x.probe = u /\ x.ttl = ttl /\ x.flow = flow
    BY <1>6
  <2>2. flow \in Int
    BY <1>2, <1>3
  <2> QED
    BY <1>5, <2>1, <2>2 DEF GoodProbe
<1>8. sendq' = Append(sendq, x)
  BY <1>3, <1>4, <1>6
<1>9. GoodQueue(sendq')
  <2>1. GoodQueue(sendq)
    BY <1>1 DEF Running
  <2> QED
    BY <1>7, <1>8, <2>1, GoodAppend
<1>10. /\ program' = program /\ routed' = routed /\ skel' = skel /\ todo' = todo
       /\ flying' = flying /\ wire' = wire
  BY DEF SendProbe
<1>11. GoodQueue(flying') /\ GoodWire(wire')
  BY <1>1, <1>10 DEF Running
<1> QED
  BY <1>1, <1>9, <1>10, <1>11, StillRunning

LEMMA ProcessSendqRuns ==
    ASSUME PacketInv, ProcessSendq
    PROVE  Running'
<1>1. sendq # << >> /\ sendq' = Tail(sendq)
  BY DEF ProcessSendq
<1>2. todo = << >> /\ Running
  BY <1>1 DEF PacketInv, Unknown, Ready, Running, NoProbe
<1> DEFINE net == program.net
           l4 == program.l4
<1>3. net \in IpNames /\ l4 \in TransportNames
  BY <1>2 DEF Running, GoodProgram
<1>4. GoodQueue(sendq) /\ GoodQueue(flying) /\ GoodWire(wire)
  BY <1>2 DEF Running
<1>5. GoodQueue(sendq')
  BY <1>1, <1>4, TailAmong, GoodAmong DEF GoodQueue
<1>6. PICK s : s = Head(sendq)
  OBVIOUS
<1>7. GoodProbe(s)
  BY <1>1, <1>4, <1>6, TailAmong DEF GoodQueue
<1>8. GoodQueue(flying') /\ GoodWire(wire')
  <2>1. CASE UNCHANGED <<wire, flying>>
    BY <1>4, <2>1
  <2>2. CASE HasRoom(s.probe)
                /\ \E sent \in BOOLEAN, p \in {TagProbe(s.probe, lastTag')} :
                      /\ wire' = Append(wire, [data |-> p.data, ttl |-> s.ttl,
                                               flow |-> s.flow, sent |-> sent])
                      /\ flying' = IF sent THEN Append(flying, [probe |-> p, ttl |-> s.ttl,
                                                  flow |-> s.flow, id |-> Len(wire')])
                                   ELSE flying
    <3>1. PICK sent, p, x, y :
             /\ p = TagProbe(s.probe, lastTag')
             /\ x = [data |-> p.data, ttl |-> s.ttl, flow |-> s.flow, sent |-> sent]
             /\ y = [probe |-> p, ttl |-> s.ttl, flow |-> s.flow, id |-> Len(wire')]
             /\ wire' = Append(wire, x)
             /\ flying' \in {Append(flying, y), flying}
      BY <2>2
    <3>2. Whole(p, net, l4) /\ Own(p.data, skel.data, net, l4, s.ttl, s.flow)
      <4>1. Whole(p, net, l4) /\ Same(s.probe.data, p.data, Core(net, l4))
        BY <1>3, <1>7, <2>2, <3>1, TagKept DEF GoodProbe
      <4> QED
        BY <1>7, <4>1, OwnKept DEF GoodProbe
    <3>3. GoodPacket(x) /\ GoodProbe(y)
      <4>1. x.data = p.data /\ x.ttl = s.ttl /\ x.flow = s.flow
            /\ y.probe = p /\ y.ttl = s.ttl /\ y.flow = s.flow
        BY <3>1
      <4>2. s.flow \in Int
        BY <1>7 DEF GoodProbe
      <4> QED
        BY <3>2, <4>1, <4>2 DEF GoodPacket, GoodProbe, Whole, Made
    <3>4. GoodWire(wire')
      BY <1>4, <3>1, <3>3, GoodAppend
    <3>5. GoodQueue(Append(flying, y))
      BY <1>4, <3>3, GoodAppend
    <3> QED
      BY <1>4, <3>1, <3>4, <3>5
  <2> QED
    BY <1>6, <2>1, <2>2 DEF ProcessSendq
<1>9. program' = program /\ routed' = routed /\ skel' = skel /\ todo' = todo
  BY DEF ProcessSendq
<1> QED
  BY <1>2, <1>5, <1>8, <1>9, StillRunning

(* Steps that only take probes off the list of those that fly. *)
LEMMA FlyingKept ==
    ASSUME PacketInv, program' = program, routed' = routed, skel' = skel, todo' = todo,
           sendq' = sendq, wire' = wire, flying' = flying \/ Among(flying', flying)
    PROVE  PacketInv'
<1>1. CASE todo # << >>
  <2>1. CASE flying' = flying
    <3>1. Unknown => Unknown'
      BY <2>1 DEF Unknown, NoSkeleton, NoProbe
    <3>2. Ready => Ready'
      BY <2>1 DEF Ready, GoodProgram, NoSkeleton, NoProbe
    <3>3. Running => Running'
      <4> SUFFICES ASSUME Running PROVE Running'
        OBVIOUS
      <4>1. GoodQueue(sendq)' /\ GoodQueue(flying)' /\ GoodWire(wire)'
        BY <2>1, GoodStays DEF GoodQueue, GoodWire, Running
      <4> QED
        BY <2>1, <4>1 DEF Running, GoodProgram, Skeleton, NoProbe
    <3> QED
      BY <3>1, <3>2, <3>3 DEF PacketInv
  <2>2. CASE flying' # flying
    <3>1. flying = << >>
      BY <1>1 DEF PacketInv, Unknown, Ready, Running, NoProbe
    <3>2. flying' = << >>
      <4>1. PICK e : e = << >>
        OBVIOUS
      <4>2. DOMAIN e = {} /\ flying = e
        BY <3>1, <4>1
      <4>3. IsList(flying') /\ \A i \in DOMAIN flying' : \E k \in DOMAIN e : flying'[i] = e[k]
        BY <2>2, <4>2 DEF Among
      <4>4. DOMAIN flying' = {}
        BY <4>2, <4>3
      <4> QED
        BY <4>3, <4>4 DEF IsList
    <3> QED
      BY <2>2, <3>1, <3>2
  <2> QED
    BY <2>1, <2>2
<1>2. CASE todo = << >>
  <2>1. Running
    BY <1>2 DEF PacketInv, Unknown, Ready
  <2>2. GoodQueue(flying')
    BY <2>1, GoodAmong DEF Running, GoodQueue
  <2>3. GoodQueue(sendq') /\ GoodWire(wire')
    BY <2>1 DEF Running
  <2> QED
    BY <1>2, <2>1, <2>2, <2>3, StillRunning DEF PacketInv
<1> QED
  BY <1>1, <1>2

LEMMA AnswersRun ==
    ASSUME PacketInv, ProcessRecvq \/ DropOldest \/ RouterAnswers \/ TargetAnswers
    PROVE  PacketInv'
<1>1. /\ program' = program /\ routed' = routed /\ skel' = skel /\ todo' = todo
      /\ sendq' = sendq /\ wire' = wire
  BY DEF ProcessRecvq, DropOldest, RouterAnswers, TargetAnswers
<1>2. IsList(flying)
  <2>1. PICK e : e = << >>
    OBVIOUS
  <2>2. IsList(e)
    BY <2>1 DEF IsList
  <2> QED
    BY <2>1, <2>2 DEF PacketInv, Unknown, Ready, Running, NoProbe, GoodQueue
<1>3. flying' = flying \/ Among(flying', flying)
  <2>1. CASE RouterAnswers \/ TargetAnswers
    BY <2>1 DEF RouterAnswers, TargetAnswers
  <2>2. CASE DropOldest
    BY <1>2, <2>2, TailAmong DEF DropOldest
  <2>3. CASE ProcessRecvq
    <3>1. \/ flying' = flying
          \/ \E tag : MatchingProbe(tag) # 0 /\ flying' = RemoveAt(flying, MatchingProbe(tag))
      BY <2>3 DEF ProcessRecvq
    <3>2. ASSUME NEW tag, MatchingProbe(tag) # 0
          PROVE  MatchingProbe(tag) \in DOMAIN flying
      <4>1. PICK match : match = {i \in DOMAIN flying :
                                    flying[i].probe.data[TagPosition(flying[i].probe)] = tag}
        OBVIOUS
      <4>2. MatchingProbe(tag) = IF match = {} THEN 0 ELSE Min(match)
        BY <4>1 DEF MatchingProbe
      <4>3. match \in SUBSET Nat
        <5>1. DOMAIN flying = 1 .. Len(flying) /\ Len(flying) \in Nat
          BY <1>2, ListDomain
        <5> QED
          BY <4>1, <5>1
      <4> QED
        BY <3>2, <4>1, <4>2, <4>3, LeastIsMember
    <3> QED
      BY <1>2, <3>1, <3>2, RemoveAmong
  <2> QED
    BY <2>1, <2>2, <2>3
<1> QED
  BY <1>1, <1>3, FlyingKept

LEMMA ProbeNextKeeps ==
    ASSUME PacketInv, ProbeNext
    PROVE  PacketInv'
<1>1. CASE SetProtocols
  BY <1>1, SetProtocolsRuns DEF PacketInv
<1>2. CASE SetAddress \/ SetTtl \/ SetPorts \/ ResizePayload \/ WriteFirst \/ SetTarget
  BY <1>2, OtherBuildRuns DEF PacketInv
<1>3. CASE SendProbe
  BY <1>3, SendProbeRuns DEF PacketInv
<1>4. CASE ProcessSendq
  BY <1>4, ProcessSendqRuns DEF PacketInv
<1>5. CASE ProcessRecvq \/ DropOldest \/ RouterAnswers \/ TargetAnswers
  BY <1>5, AnswersRun
<1> QED
  BY <1>1, <1>2, <1>3, <1>4, <1>5 DEF ProbeNext, Build

-----------------------------------------------------------------------------
(* What follows *)

LEMMA ProbesTiled ==
    ASSUME PacketInv
    PROVE  Tiled
<1>1. CASE NoSkeleton /\ NoProbe
  <2>1. PICK e : e = << >>
    OBVIOUS
  <2>2. DOMAIN e = {} /\ DOMAIN e = 1 .. 0 /\ Len(e) = 0
    BY <2>1
  <2>3. skel.layers = e /\ skel.data = e /\ sendq = e /\ flying = e
    BY <1>1, <2>1 DEF NoSkeleton, NoProbe
  <2>4. PICK sizes : sizes = [k \in DOMAIN e |-> e[k].size]
    OBVIOUS
  <2>5. WordSum(sizes) = 0
    <3>1. DOMAIN sizes = 1 .. 0 /\ \A k \in 1 .. 0 : sizes[k] \in Int
      BY <2>2, <2>4
    <3> QED
      BY <3>1, WordSumIs
  <2>6. Tiles(skel)
    BY <2>2, <2>3, <2>4, <2>5 DEF Tiles
  <2> QED
    BY <2>2, <2>3, <2>6 DEF Tiled
<1>2. CASE Running
  <2>1. program.net \in IpNames /\ program.l4 \in TransportNames
    BY <1>2 DEF Running, GoodProgram
  <2>2. \A i \in DOMAIN sendq : Tiles(sendq[i].probe)
    BY <1>2, <2>1, WholeTiles DEF Running, GoodQueue, GoodProbe
  <2>3. \A i \in DOMAIN flying : Tiles(flying[i].probe)
    BY <1>2, <2>1, WholeTiles DEF Running, GoodQueue, GoodProbe
  <2>4. routed => Tiles(skel)
    <3> SUFFICES ASSUME routed PROVE Tiles(skel)
      OBVIOUS
    <3>1. Whole(skel, program.net, program.l4)
      BY <1>2 DEF Running, Skeleton, Whole
    <3> QED
      BY <2>1, <3>1, WholeTiles
  <2> QED
    BY <2>2, <2>3, <2>4 DEF Tiled
<1> QED
  BY <1>1, <1>2 DEF PacketInv, Unknown, Ready

LEMMA ProbesRemembered ==
    ASSUME PacketInv
    PROVE  Remembered
<1>1. SUFFICES ASSUME NEW i \in DOMAIN flying
               PROVE  /\ flying[i].ttl # NoTtl
                           => flying[i].probe.data[Position(flying[i].probe, "ttl", 0)] = flying[i].ttl
                      /\ flying[i].flow # NoFlow /\ program.l4 \notin IcmpNames
                           => FlowOf(flying[i].probe) = flying[i].flow
  BY Zenon DEF Remembered
<1>2. Running
  <2>1. flying # << >>
    BY <1>1
  <2> QED
    BY <2>1 DEF PacketInv, Unknown, Ready, NoProbe
<1> DEFINE net == program.net
           l4 == program.l4
<1>3. PICK f : f = flying[i]
  OBVIOUS
<1>4. net \in IpNames /\ l4 \in TransportNames /\ GoodProbe(f)
  BY <1>2, <1>3 DEF Running, GoodProgram, GoodQueue
<1>5. /\ Position(f.probe, "ttl", 0) = FieldOffset(net, "ttl")
      /\ Position(f.probe, "src_port", 0) = IF l4 \in IcmpNames THEN 0 ELSE HeaderSize(net) + 1
  <2>1. PICK p, s : p = f.probe /\ s = Rest(p.data, net, l4)
    OBVIOUS
  <2>2. IsLayers(p.layers, net, l4, s)
    BY <1>4, <2>1 DEF GoodProbe, Whole, Made
  <2> HIDE DEF net, l4
  <2>3. /\ Position(p, "ttl", 0) = FieldOffset(net, "ttl")
        /\ Position(p, "src_port", 0) = IF l4 \in IcmpNames THEN 0 ELSE HeaderSize(net) + 1
    BY <1>4, <2>2, FieldPlaces
  <2> QED
    BY <2>1, <2>3
<1>6. f.ttl # NoTtl => f.probe.data[Position(f.probe, "ttl", 0)] = f.ttl
  BY <1>4, <1>5 DEF GoodProbe, Own
<1>7. f.flow # NoFlow /\ l4 \notin IcmpNames => FlowOf(f.probe) = f.flow
  <2> SUFFICES ASSUME f.flow # NoFlow, l4 \notin IcmpNames PROVE FlowOf(f.probe) = f.flow
    OBVIOUS
  <2>1. f.probe.data[HeaderSize(net) + 1] = FlowBase + f.flow
    BY <1>4 DEF GoodProbe, Own
  <2>2. FlowOf(f.probe) = (FlowBase + f.flow) - FlowBase
    BY <1>5, <2>1 DEF FlowOf
  <2>3. FlowBase \in Int /\ f.flow \in Int
    BY <1>4, ProtocolsAssumption DEF GoodProbe, Words
  <2> QED
    BY <2>2, <2>3
<1> QED
  BY <1>3, <1>6, <1>7

LEMMA PathsKept ==
    ASSUME PacketInv
    PROVE  PathKept
<1>1. SUFFICES ASSUME program.l4 \notin IcmpNames, NEW i \in DOMAIN wire, NEW j \in DOMAIN wire,
                      wire[i].flow = wire[j].flow
               PROVE  Hashed(wire[i].data) = Hashed(wire[j].data)
  BY DEF PathKept
<1>2. Running
  <2>1. wire # << >>
    BY <1>1
  <2> QED
    BY <2>1 DEF PacketInv, Unknown, Ready, NoProbe
<1> DEFINE net == program.net
           l4 == program.l4
           H == HeaderSize(net)
           b == skel.data
           flow == wire[i].flow
<1>3. net \in IpNames /\ l4 \in TransportNames
  BY <1>2 DEF Running, GoodProgram
<1>4. ASSUME NEW k \in DOMAIN wire, wire[k].flow = flow
      PROVE  Hashed(wire[k].data)
               = <<IF routed THEN Local ELSE b[H - 1], b[H], Protocol[l4].id,
                   IF flow = NoFlow THEN b[H + 1] ELSE FlowBase + flow, b[H + 2]>>
  <2>1. PICK d : d = wire[k].data
    OBVIOUS
  <2>2. Packet(d, net, l4) /\ Own(d, b, net, l4, wire[k].ttl, flow)
    BY <1>2, <1>4, <2>1 DEF Running, GoodWire, GoodPacket
  <2>3. PICK p : p = WrapPacket(d)
    OBVIOUS
  <2>4. p.data = d /\ IsLayers(p.layers, net, l4, Rest(d, net, l4))
    BY <1>3, <2>2, <2>3, WrapWhole DEF Whole, Made
  <2>5. /\ Position(p, "src_ip", 0) = H - 1
        /\ Position(p, "dst_ip", 0) = H
        /\ Position(p, "protocol", 0) = FieldOffset(net, "protocol")
    <3>1. PICK v, x, s : v = net /\ x = l4 /\ s = Rest(d, net, l4)
      OBVIOUS
    <3>2. v \in IpNames /\ x \in TransportNames /\ IsLayers(p.layers, v, x, s)
      BY <1>3, <2>4, <3>1
    <3>3. /\ Position(p, "src_ip", 0) = HeaderSize(v) - 1
          /\ Position(p, "dst_ip", 0) = HeaderSize(v)
          /\ Position(p, "protocol", 0) = FieldOffset(v, "protocol")
      BY ONLY <3>2, FieldPlaces
    <3> QED
      BY ONLY <3>1, <3>3
  <2>6. p.layers[2].at = H
    BY <2>4 DEF IsLayers
  <2>7. Hashed(d) = <<d[H - 1], d[H], d[FieldOffset(net, "protocol")], d[H + 1], d[H + 2]>>
    BY <2>3, <2>4, <2>5, <2>6 DEF Hashed
  <2>8. /\ d[H - 1] = (IF routed THEN Local ELSE b[H - 1])
        /\ d[H] = b[H]
        /\ d[FieldOffset(net, "protocol")] = Protocol[l4].id
        /\ d[H + 1] = (IF flow = NoFlow THEN b[H + 1] ELSE FlowBase + flow)
        /\ d[H + 2] = b[H + 2]
    BY <1>1, <2>2 DEF Own, Packet
  <2> QED
    BY <2>1, <2>7, <2>8
<1> QED
  BY <1>1, <1>4

-----------------------------------------------------------------------------
(* The quotation of a packet in an ICMP error *)

(* The packet d is an ICMP error that carries the packet q. *)
Carries(d, net, q) ==
    /\ IsList(d)
    /\ Len(d) = HeaderSize(net) + 3 + Len(q)
    /\ d[1] = (IF net = "ipv4" THEN 4 ELSE 6)
    /\ d[FieldOffset(net, "protocol")] = Protocol[IcmpOf(net)].id
    /\ d[HeaderSize(net) + 1] = (IF net = "ipv4" THEN 11 ELSE 3)
    /\ \A k \in 1 .. Len(q) : d[HeaderSize(net) + 3 + k] = q[k]

LEMMA SniffedCarries ==
    ASSUME NEW net \in IpNames, NEW from, NEW type, type = (IF net = "ipv4" THEN 11 ELSE 3),
           NEW q, IsList(q)
    PROVE  Carries(Sniffed(net, from, type, q), net, q)
<1>1. /\ Protocol["icmpv4"].id = Icmpv4.id /\ Protocol["icmpv6"].id = Icmpv6.id
  BY DEF Protocol
<1>2. PICK m : m = <<type, 0, 0>>
  OBVIOUS
<1>3. IsList(m) /\ Len(m) = 3 /\ m[1] = type
  <2>1. m \in Seq({type, 0})
    BY <1>2
  <2> QED
    BY <1>2, <2>1 DEF IsList
<1>4. PICK h : h = (IF net = "ipv4"
                    THEN <<4, 7 + 3 + Len(q), 64, Icmpv4.id, 0, from, Local>>
                    ELSE <<6, 3 + Len(q), Icmpv6.id, 64, from, Local>>)
  OBVIOUS
<1>5. /\ IsList(h) /\ Len(h) = HeaderSize(net)
      /\ h[1] = (IF net = "ipv4" THEN 4 ELSE 6)
      /\ h[FieldOffset(net, "protocol")] = Protocol[IcmpOf(net)].id
  <2>1. CASE net = "ipv4"
    <3>1. PICK len, id : len = 7 + 3 + Len(q) /\ id = Icmpv4.id
      OBVIOUS
    <3>2. h = <<4, len, 64, id, 0, from, Local>>
      BY <1>4, <2>1, <3>1
    <3>3. h \in Seq({4, len, 64, id, 0, from, Local})
      BY <3>2
    <3>4. Len(h) = 7 /\ h[1] = 4 /\ h[4] = id
      BY <3>2
    <3>5. HeaderSize(net) = 7 /\ FieldOffset(net, "protocol") = 4
      BY <2>1, NetFields
    <3>6. Protocol[IcmpOf(net)].id = id
      BY <1>1, <2>1, <3>1 DEF IcmpOf
    <3> QED
      BY <2>1, <3>3, <3>4, <3>5, <3>6 DEF IsList
  <2>2. CASE net = "ipv6"
    <3>1. PICK len, id : len = 3 + Len(q) /\ id = Icmpv6.id
      OBVIOUS
    <3>2. h = <<6, len, id, 64, from, Local>>
      BY <1>4, <2>2, <3>1
    <3>3. h \in Seq({6, len, id, 64, from, Local})
      BY <3>2
    <3>4. Len(h) = 6 /\ h[1] = 6 /\ h[3] = id
      BY <3>2
    <3>5. HeaderSize(net) = 6 /\ FieldOffset(net, "protocol") = 3
      <4>1. net # "ipv4"
        BY <2>2
      <4>2. Len(Protocol[net].fields) = 6
        BY <2>2 DEF Protocol, Ipv6
      <4> QED
        BY <4>1, <4>2, NetFields DEF HeaderSize
    <3>6. Protocol[IcmpOf(net)].id = id
      BY <1>1, <2>2, <3>1 DEF IcmpOf
    <3> QED
      BY <2>2, <3>3, <3>4, <3>5, <3>6 DEF IsList
  <2> QED
    BY <2>1, <2>2 DEF IpNames
<1>6. PICK e, d : e = h \o m /\ d = e \o q
  OBVIOUS
<1>7. Sniffed(net, from, type, q) = d
  BY <1>2, <1>4, <1>6 DEF Sniffed
<1>8. HeaderSize(net) \in {6, 7} /\ FieldOffset(net, "protocol") \in {3, 4}
  BY NetFields
<1>9. /\ IsList(e) /\ Len(e) = HeaderSize(net) + 3
      /\ \A i \in 1 .. Len(h) : e[i] = h[i]
      /\ \A i \in 1 .. Len(m) : e[Len(h) + i] = m[i]
  <2>1. /\ IsList(e) /\ Len(e) = Len(h) + Len(m)
        /\ \A i \in 1 .. Len(h) : e[i] = h[i]
        /\ \A i \in 1 .. Len(m) : e[Len(h) + i] = m[i]
    <3>1. IsList(h) /\ IsList(m) /\ e = h \o m
      BY <1>3, <1>5, <1>6
    <3> QED
      BY <3>1, ListJoin
  <2> QED
    BY <1>3, <1>5, <1>8, <2>1
<1>10. /\ IsList(d) /\ Len(d) = Len(e) + Len(q)
       /\ \A i \in 1 .. Len(e) : d[i] = e[i]
       /\ \A i \in 1 .. Len(q) : d[Len(e) + i] = q[i]
  BY <1>6, <1>9, ListJoin
<1>11. /\ d[1] = h[1] /\ d[FieldOffset(net, "protocol")] = h[FieldOffset(net, "protocol")]
       /\ d[HeaderSize(net) + 1] = m[1]
  <2>1. PICK H, P : H = HeaderSize(net) /\ P = FieldOffset(net, "protocol")
    OBVIOUS
  <2>2. H \in {6, 7} /\ P \in {3, 4} /\ Len(h) = H /\ Len(e) = H + 3
    BY <1>5, <1>8, <1>9, <2>1
  <2>3. d[1] = e[1] /\ d[P] = e[P] /\ d[H + 1] = e[H + 1]
    BY <1>10, <2>2
  <2>4. e[1] = h[1] /\ e[P] = h[P]
    BY <1>9, <2>2
  <2>5. e[H + 1] = m[1]
    BY <1>3, <1>9, <2>2
  <2> QED
    BY <2>1, <2>3, <2>4, <2>5
<1> QED
  BY <1>3, <1>5, <1>7, <1>9, <1>10, <1>11 DEF Carries

(* The chain of a packet of four headers. *)
LEMMA WrapFour ==
    ASSUME NEW d, Len(d) \in Nat,
           NEW one, NEW two, NEW three, NEW four,
           LayerFrom(d, FirstProtocol(d), 0) = one,
           NextProtocol(d, one) # None,
           LayerFrom(d, NextProtocol(d, one), one.at + one.size) = two,
           NextProtocol(d, two) # None,
           LayerFrom(d, NextProtocol(d, two), two.at + two.size) = three,
           NextProtocol(d, three) # None,
           LayerFrom(d, NextProtocol(d, three), three.at + three.size) = four,
           NextProtocol(d, four) = None
    PROVE  LET p == WrapPacket(d)
           IN  /\ p.data = d
               /\ IsList(p.layers) /\ Len(p.layers) = 5
               /\ p.layers[1] = one /\ p.layers[2] = two
               /\ p.layers[3] = three /\ p.layers[4] = four
               /\ p.layers[5].proto = Payload
<1>1. PICK a, b, e, f : a = <<one>> /\ b = Append(a, two) /\ e = Append(b, three) /\ f = Append(e, four)
  OBVIOUS
<1>2. IsList(a) /\ Len(a) = 1 /\ a[1] = one
  <2>1. a = [i \in 1 .. 1 |-> a[i]]
    BY <1>1
  <2> QED
    BY <1>1, <2>1, ListOfFunction
<1>3. IsList(b) /\ Len(b) = 2 /\ b[1] = one /\ b[2] = two
  <2>1. /\ IsList(b) /\ Len(b) = Len(a) + 1
        /\ \A i \in 1 .. Len(a) : b[i] = a[i]
        /\ b[Len(a) + 1] = two
    BY <1>1, <1>2, ListAppend
  <2> QED
    BY <1>2, <2>1
<1>4. IsList(e) /\ Len(e) = 3 /\ e[1] = one /\ e[2] = two /\ e[3] = three
  <2>1. /\ IsList(e) /\ Len(e) = Len(b) + 1
        /\ \A i \in 1 .. Len(b) : e[i] = b[i]
        /\ e[Len(b) + 1] = three
    BY <1>1, <1>3, ListAppend
  <2> QED
    BY <1>3, <2>1
<1>5. IsList(f) /\ Len(f) = 4 /\ f[1] = one /\ f[2] = two /\ f[3] = three /\ f[4] = four
  <2>1. /\ IsList(f) /\ Len(f) = Len(e) + 1
        /\ \A i \in 1 .. Len(e) : f[i] = e[i]
        /\ f[Len(e) + 1] = four
    BY <1>1, <1>4, ListAppend
  <2> QED
    BY <1>4, <2>1
<1>6. Last(a) = one /\ Last(b) = two /\ Last(e) = three /\ Last(f) = four
  BY <1>2, <1>3, <1>4, <1>5 DEF Last
<1>7. ASSUME NEW c
      PROVE  /\ ChainStep(d, c, 1) = a
             /\ c[1] = a => ChainStep(d, c, 2) = b
             /\ c[2] = b => ChainStep(d, c, 3) = e
             /\ c[3] = e => ChainStep(d, c, 4) = f
             /\ c[4] = f => ChainStep(d, c, 5) = f
  <2>1. ChainStep(d, c, 1) = a
    BY <1>1 DEF ChainStep
  <2>2. c[1] = a => ChainStep(d, c, 2) = b
    BY <1>1, <1>2, <1>6 DEF ChainStep
  <2>3. c[2] = b => ChainStep(d, c, 3) = e
    <3>1. ChainStep(d, c, 3) =
            IF Len(c[2]) < 2 \/ NextProtocol(d, Last(c[2])) = None THEN c[2]
            ELSE Append(c[2], LayerFrom(d, NextProtocol(d, Last(c[2])),
                                        Last(c[2]).at + Last(c[2]).size))
      BY DEF ChainStep
    <3> QED
      BY <1>1, <1>3, <1>6, <3>1
  <2>4. c[3] = e => ChainStep(d, c, 4) = f
    <3>1. ChainStep(d, c, 4) =
            IF Len(c[3]) < 3 \/ NextProtocol(d, Last(c[3])) = None THEN c[3]
            ELSE Append(c[3], LayerFrom(d, NextProtocol(d, Last(c[3])),
                                        Last(c[3]).at + Last(c[3]).size))
      BY DEF ChainStep
    <3> QED
      BY <1>1, <1>4, <1>6, <3>1
  <2>5. c[4] = f => ChainStep(d, c, 5) = f
    BY <1>5, <1>6 DEF ChainStep
  <2> QED
    BY <2>1, <2>2, <2>3, <2>4, <2>5
<1>8. \E c : IsChain(c, d)
  <2> DEFINE c == [n \in 1 .. 5 |-> IF n = 1 THEN a ELSE IF n = 2 THEN b ELSE IF n = 3 THEN e ELSE f]
  <2>1. c[1] = a /\ c[2] = b /\ c[3] = e /\ c[4] = f /\ c[5] = f
    OBVIOUS
  <2>2. c = [n \in 1 .. 5 |-> c[n]]
    OBVIOUS
  <2> HIDE DEF c
  <2>3. ASSUME NEW n \in 1 .. 5
        PROVE  ChainStep(d, c, n) = c[n]
    <3>1. n = 1 \/ n = 2 \/ n = 3 \/ n = 4 \/ n = 5
      BY <2>3
    <3> QED
      BY <1>7, <2>1, <3>1
  <2>4. IsChain(c, d)
    BY <2>2, <2>3 DEF IsChain, MaxDepth
  <2> QED
    BY <2>4
<1>9. PICK c : c = CHOOSE x : IsChain(x, d)
  OBVIOUS
<1>10. IsChain(c, d)
  BY <1>8, <1>9
<1>11. \A n \in 1 .. 5 : c[n] = ChainStep(d, c, n)
  BY <1>10 DEF IsChain, MaxDepth
<1>12. c[5] = f
  <2>1. c[1] = a
    BY <1>7, <1>11
  <2>2. c[2] = b
    BY <1>7, <1>11, <2>1
  <2>3. c[3] = e
    BY <1>7, <1>11, <2>2
  <2>4. c[4] = f
    BY <1>7, <1>11, <2>3
  <2> QED
    BY <1>7, <1>11, <2>4
<1>13. WrapPacket(d) = Closed(d, f)
  BY <1>9, <1>12, WrapIs DEF MaxDepth
<1>14. PICK pay : pay = [proto |-> Payload, at |-> four.at + four.size,
                         size |-> Len(d) - (four.at + four.size)]
  BY ONLY <1>1
<1>15. PICK ls : ls = Append(f, pay)
  OBVIOUS
<1>16. Closed(d, f) = [data |-> d, layers |-> ls]
  BY <1>6, <1>14, <1>15 DEF Closed
<1>17. /\ IsList(ls) /\ Len(ls) = 5 /\ ls[1] = one /\ ls[2] = two /\ ls[3] = three /\ ls[4] = four
       /\ ls[5] = pay
  <2>1. /\ IsList(ls) /\ Len(ls) = Len(f) + 1
        /\ \A i \in 1 .. Len(f) : ls[i] = f[i]
        /\ ls[Len(f) + 1] = pay
    <3>1. IsList(f)
      BY <1>5
    <3> QED
      BY <1>15, <3>1, ListAppend
  <2> QED
    BY <1>5, <2>1
<1>18. pay.proto = Payload
  BY <1>14
<1> QED
  BY <1>13, <1>16, <1>17, <1>18

LEMMA WrapCarried ==
    ASSUME NEW net \in IpNames, NEW l4 \in TransportNames, NEW q, Packet(q, net, l4),
           NEW d, Carries(d, net, q)
    PROVE  /\ WrapPacket(d).data = d
           /\ Position(WrapPacket(d), "checksum", 3)
                = HeaderSize(net) + 3 + (HeaderSize(net) + FieldOffset(l4, "checksum"))
<1> DEFINE H == HeaderSize(net)
           T == HeaderSize(l4)
           icmp == IcmpOf(net)
           P == FieldOffset(net, "protocol")
           C == FieldOffset(l4, "checksum")
<1>1. /\ H \in {6, 7} /\ T \in {3, 4, 5} /\ Len(q) \in Nat /\ Len(q) >= H + T
      /\ P \in {3, 4} /\ C \in 1 .. T /\ C \in {2, 4, 5}
  <2>1. H \in {6, 7} /\ T \in {3, 4, 5} /\ Len(q) \in Nat /\ Len(q) >= H + T
    BY Sizes
  <2>2. P \in {3, 4} /\ C \in {2, 4, 5} /\ C <= T
    BY NetFields, TransportFields
  <2> QED
    BY <2>1, <2>2
<1>2. Len(d) = H + 3 + Len(q) /\ Len(d) \in Nat
  BY <1>1 DEF Carries
<1>3. icmp \in IcmpNames /\ icmp \in TransportNames /\ HeaderSize(icmp) = 3 /\ FieldOffset(icmp, "type") = 1
  <2>1. icmp \in IcmpNames /\ icmp \in TransportNames
    BY DEF IcmpOf, IcmpNames, TransportNames
  <2> QED
    BY <2>1, TransportFields
<1>4. PICK one : one = [proto |-> net, at |-> 0, size |-> H]
  OBVIOUS
<1>5. PICK two : two = [proto |-> icmp, at |-> H, size |-> 3]
  OBVIOUS
<1>6. PICK three : three = [proto |-> net, at |-> H + 3, size |-> H]
  OBVIOUS
<1>7. PICK four : four = [proto |-> l4, at |-> H + 3 + H, size |-> T]
  OBVIOUS
<1>8. LayerFrom(d, FirstProtocol(d), 0) = one
  <2>1. FirstProtocol(d) = net
    BY DEF FirstProtocol, Carries, IpNames
  <2>2. H \in Nat /\ Len(d) >= 0 + H
    BY <1>1, <1>2
  <2> QED
    BY <1>2, <1>4, <2>1, <2>2, HeaderLayer
<1>9. NextProtocol(d, one) = icmp /\ icmp # None
  <2>1. FieldAt(one, "protocol") = P
    BY <1>1, <1>4 DEF FieldAt
  <2>2. d[P] = Protocol[icmp].id
    BY DEF Carries
  <2>3. PICK named : named = {n \in Protos : Protocol[n].id = d[FieldAt(one, "protocol")]}
    OBVIOUS
  <2> HIDE DEF icmp, P
  <2>4. named = {icmp}
    BY <1>3, <2>1, <2>2, <2>3, IdsDiffer
  <2>5. NextProtocol(d, one) = IF named = {} THEN None ELSE CHOOSE n \in named : TRUE
    <3>1. one.proto \in IpNames /\ one.proto \notin {"icmpv4", "icmpv6"}
      BY <1>4 DEF IpNames
    <3> QED
      BY <2>3, <3>1 DEF NextProtocol
  <2>6. icmp # None
    BY <1>3 DEF IcmpNames, None
  <2> QED
    BY <2>4, <2>5, <2>6
<1>10. LayerFrom(d, NextProtocol(d, one), one.at + one.size) = two
  <2>1. one.at + one.size = H
    BY <1>1, <1>4
  <2>2. H \in Nat /\ Len(d) >= H + HeaderSize(icmp) /\ HeaderSize(icmp) \in Nat
    BY <1>1, <1>2, <1>3
  <2> HIDE DEF icmp, H
  <2>3. LayerFrom(d, icmp, H) = [proto |-> icmp, at |-> H, size |-> HeaderSize(icmp)]
    BY <1>2, <2>2, HeaderLayer
  <2> QED
    BY <1>3, <1>5, <1>9, <2>1, <2>3
<1>11. NextProtocol(d, two) = net /\ net # None
  <2>1. FieldAt(two, "type") = H + 1
    BY <1>3, <1>5 DEF FieldAt
  <2>2. d[H + 1] = (IF net = "ipv4" THEN 11 ELSE 3)
    BY DEF Carries
  <2>3. CASE net = "ipv4"
    <3>1. two.proto = "icmpv4"
      BY <1>5, <2>3 DEF IcmpOf
    <3>2. NextProtocol(d, two) = Icmpv4Next(d[FieldAt(two, "type")])
      BY <3>1 DEF NextProtocol, IpNames
    <3> QED
      BY <2>1, <2>2, <2>3, <3>2 DEF Icmpv4Next, None
  <2>4. CASE net = "ipv6"
    <3>1. two.proto = "icmpv6"
      BY <1>5, <2>4 DEF IcmpOf
    <3>2. NextProtocol(d, two) = Icmpv6Next(d[FieldAt(two, "type")])
      BY <3>1 DEF NextProtocol, IpNames
    <3> QED
      BY <2>1, <2>2, <2>4, <3>2 DEF Icmpv6Next, None
  <2> QED
    BY <2>3, <2>4 DEF IpNames
<1>12. LayerFrom(d, NextProtocol(d, two), two.at + two.size) = three
  <2>1. PICK at : at = H + 3
    OBVIOUS
  <2>2. two.at + two.size = at
    BY <1>1, <1>5, <2>1
  <2>3. at \in Nat /\ H \in Nat /\ Len(d) >= at + H
    BY <1>1, <1>2, <2>1
  <2>4. LayerFrom(d, net, at) = [proto |-> net, at |-> at, size |-> H]
    BY <1>2, <2>3, HeaderLayer
  <2> QED
    BY <1>6, <1>11, <2>1, <2>2, <2>4
<1>13. NextProtocol(d, three) = l4 /\ l4 # None
  <2>1. FieldAt(three, "protocol") = H + 3 + P
    BY <1>6 DEF FieldAt
  <2>2. d[H + 3 + P] = q[P]
    <3>1. P \in 1 .. Len(q)
      BY <1>1
    <3> QED
      BY <3>1 DEF Carries
  <2>3. q[P] = Protocol[l4].id
    BY DEF Packet
  <2>4. PICK named : named = {n \in Protos : Protocol[n].id = d[FieldAt(three, "protocol")]}
    OBVIOUS
  <2>5. named = {l4}
    BY <2>1, <2>2, <2>3, <2>4, IdsDiffer
  <2>6. NextProtocol(d, three) = IF named = {} THEN None ELSE CHOOSE n \in named : TRUE
    <3>1. three.proto \in IpNames /\ three.proto \notin {"icmpv4", "icmpv6"}
      BY <1>6 DEF IpNames
    <3> QED
      BY <2>4, <3>1 DEF NextProtocol
  <2>7. l4 # None
    BY DEF TransportNames, IcmpNames, None
  <2> QED
    BY <2>5, <2>6, <2>7
<1>14. LayerFrom(d, NextProtocol(d, three), three.at + three.size) = four
  <2>1. PICK at : at = H + 3 + H
    OBVIOUS
  <2>2. three.at + three.size = at
    BY <1>1, <1>6, <2>1
  <2>3. at \in Nat /\ T \in Nat /\ Len(d) >= at + T
    <3>1. PICK z, l \in Nat : z = Len(q) /\ l = Len(d)
      BY ONLY <1>1, <1>2
    <3>2. /\ H \in {6, 7} /\ T \in {3, 4, 5} /\ z >= H + T /\ l = H + 3 + z
      BY ONLY <1>1, <1>2, <3>1
    <3>3. z \in Int
      BY ONLY <1>1, <3>1
    <3>4. at \in Nat /\ T \in Nat /\ l >= at + T
      BY ONLY <2>1, <3>2, <3>3
    <3> QED
      BY ONLY <3>1, <3>4
  <2>4. LayerFrom(d, l4, at) = [proto |-> l4, at |-> at, size |-> T]
    BY <1>2, <2>3, HeaderLayer
  <2> QED
    BY <1>7, <1>13, <2>1, <2>2, <2>4
<1>15. NextProtocol(d, four) = None
  <2>1. l4 \notin IpNames
    BY DEF IpNames, TransportNames, IcmpNames
  <2>2. l4 \in IcmpNames => d[FieldAt(four, "type")] = q[H + 1]
    <3> SUFFICES ASSUME l4 \in IcmpNames PROVE d[FieldAt(four, "type")] = q[H + 1]
      OBVIOUS
    <3>1. PICK k : k = H + 1
      OBVIOUS
    <3>2. FieldOffset(l4, "type") = 1
      BY TransportFields
    <3>3. FieldAt(four, "type") = H + 3 + k
      BY <1>1, <1>7, <3>1, <3>2 DEF FieldAt
    <3>4. k \in 1 .. Len(q)
      BY <1>1, <3>1
    <3>5. d[H + 3 + k] = q[k]
      BY <3>4 DEF Carries
    <3> QED
      BY <3>1, <3>3, <3>5
  <2>3. CASE l4 = "icmpv4"
    <3>1. NextProtocol(d, four) = Icmpv4Next(d[FieldAt(four, "type")])
      BY <1>7, <2>1, <2>3 DEF NextProtocol
    <3>2. q[H + 1] \notin {3, 11}
      BY <2>3 DEF Packet
    <3> QED
      BY <2>2, <2>3, <3>1, <3>2 DEF Icmpv4Next, IcmpNames
  <2>4. CASE l4 = "icmpv6"
    <3>1. NextProtocol(d, four) = Icmpv6Next(d[FieldAt(four, "type")])
      BY <1>7, <2>1, <2>4 DEF NextProtocol
    <3>2. q[H + 1] \notin {1, 3}
      BY <2>4 DEF Packet
    <3> QED
      BY <2>2, <2>4, <3>1, <3>2 DEF Icmpv6Next, IcmpNames
  <2>5. CASE l4 \notin IcmpNames
    BY <1>7, <2>1, <2>5 DEF NextProtocol, IcmpNames
  <2> QED
    BY <2>3, <2>4, <2>5 DEF IcmpNames
<1> HIDE DEF H, T, icmp, P, C
<1>16. PICK p : p = WrapPacket(d)
  OBVIOUS
<1>17. /\ p.data = d
       /\ IsList(p.layers) /\ Len(p.layers) = 5
       /\ p.layers[4] = four /\ p.layers[5].proto = Payload
  <2>1. /\ NextProtocol(d, one) # None /\ NextProtocol(d, two) # None
        /\ NextProtocol(d, three) # None
    BY <1>9, <1>11, <1>13
  <2> QED
    BY <1>2, <1>8, <1>10, <1>12, <1>14, <1>15, <1>16, <2>1, WrapFour
<1>18. LayerHas(four, "checksum") /\ FieldAt(four, "checksum") = H + 3 + (H + C)
  <2>1. HasField(l4, "checksum") /\ l4 # Payload
    BY TransportFields DEF TransportNames, IcmpNames, Payload
  <2> QED
    BY <1>1, <1>7, <2>1 DEF LayerHas, IsProtocol, FieldAt, C
<1>19. ~LayerHas(p.layers[5], "checksum")
  BY <1>17 DEF LayerHas, IsProtocol
<1>20. PICK having : having = {i \in 3 + 1 .. Len(p.layers) : LayerHas(p.layers[i], "checksum")}
  OBVIOUS
<1>21. having = {4}
  <2>1. \A i \in 3 + 1 .. Len(p.layers) : i = 4 \/ i = 5
    BY <1>17
  <2>2. 4 \in 3 + 1 .. Len(p.layers)
    BY <1>17
  <2> QED
    BY <1>17, <1>18, <1>19, <1>20, <2>1, <2>2
<1>22. Min(having) = 4
  <2>1. 4 \in having /\ \A y \in having : y \in Int /\ 4 <= y
    BY <1>21
  <2> QED
    BY <2>1, LeastOf
<1>23. Position(p, "checksum", 3) = FieldAt(four, "checksum")
  BY <1>17, <1>20, <1>21, <1>22 DEF Position
<1> QED
  BY <1>16, <1>17, <1>18, <1>23 DEF H, C


-----------------------------------------------------------------------------
(* The word of the packet that makes room for the tag *)
Room(net, l4) == IF l4 \in IcmpNames THEN HeaderSize(net) + 3
                 ELSE HeaderSize(net) + HeaderSize(l4) + 1

Roomy(l4, s) == l4 \in IcmpNames \/ s >= 1

LEMMA RoomOf ==
    ASSUME NEW net, NEW l4 \in TransportNames, NEW s, NEW p, Made(p, net, l4, s)
    PROVE  /\ HasRoom(p) <=> Roomy(l4, s)
           /\ HasField(p.layers[Len(p.layers) - 1].proto, "body") <=> l4 \in IcmpNames
<1>1. p.layers[Len(p.layers) - 1].proto = l4
  BY DEF Made, IsLayers
<1>2. PayloadLayer(p).size = s
  BY PayloadOf
<1> QED
  BY <1>1, <1>2, TransportFields DEF HasRoom, Roomy

LEMMA RoomWrites ==
    ASSUME NEW net \in IpNames, NEW l4 \in TransportNames, NEW s \in Int, NEW p,
           Made(p, net, l4, s), Roomy(l4, s), NEW w
    PROVE  WriteRoom(p, w) = [data |-> [p.data EXCEPT ![Room(net, l4)] = w], layers |-> p.layers]
<1> DEFINE d == p.data
           ls == p.layers
<1>1. HeaderSize(net) \in {6, 7} /\ HeaderSize(l4) \in {3, 4, 5}
  BY NetFields, TransportFields
<1>2. p = [data |-> d, layers |-> ls] /\ IsList(d)
  BY DEF Made, Packet
<1>3. CASE l4 \in IcmpNames
  <2>1. WriteRoom(p, w) = SetFieldFrom(p, "body", w, 0)
    BY <1>3, RoomOf DEF WriteRoom
  <2>2. PICK pos : pos = Position(p, "body", 0)
    OBVIOUS
  <2>3. pos = HeaderSize(net) + 3
    BY <1>3, <2>2, FieldPlaces DEF Made
  <2>4. pos # 0
    BY <1>1, <2>3
  <2> DEFINE e == [d EXCEPT ![pos] = w]
  <2>5. SetFieldFrom(p, "body", w, 0) = [p EXCEPT !.data = e]
    BY <1>2, <2>2, <2>4 DEF SetFieldFrom
  <2> HIDE DEF e, d, ls
  <2>6. [p EXCEPT !.data = e] = [data |-> e, layers |-> ls]
    BY <1>2
  <2> QED
    BY <1>3, <2>1, <2>3, <2>5, <2>6 DEF Room, e, d, ls
<1>4. CASE l4 \notin IcmpNames
  <2>1. PICK ws : ws = <<w>>
    OBVIOUS
  <2>2. DOMAIN ws = 1 .. 1 /\ Len(ws) = 1 /\ ws[1] = w
    BY <2>1
  <2>3. PayloadLayer(p).size = s /\ PayloadLayer(p).at = HeaderSize(net) + HeaderSize(l4)
    BY PayloadOf
  <2>4. WriteRoom(p, w) = WritePayload(p, ws)
    BY <1>4, <2>1, RoomOf DEF WriteRoom
  <2>5. ~(Len(ws) > PayloadLayer(p).size)
    BY <1>4, <2>2, <2>3 DEF Roomy
  <2>6. PICK at : at = HeaderSize(net) + HeaderSize(l4)
    OBVIOUS
  <2> DEFINE e == [i \in DOMAIN d |-> IF i - at \in DOMAIN ws THEN ws[i - at] ELSE d[i]]
  <2>7. WritePayload(p, ws) = [p EXCEPT !.data = e]
    BY <2>3, <2>5, <2>6 DEF WritePayload
  <2>8. at \in Nat /\ DOMAIN d = 1 .. Len(d)
    BY <1>1, <1>2, <2>6, ListDomain
  <2>9. e = [d EXCEPT ![at + 1] = w]
    <3>1. d = [i \in 1 .. Len(d) |-> d[i]]
      <4>1. PICK S : d \in Seq(S)
        BY <1>2 DEF IsList
      <4> QED
        BY <4>1
    <3>2. \A i \in 1 .. Len(d) : i - at \in DOMAIN ws <=> i = at + 1
      BY <2>2, <2>8
    <3>3. \A i \in 1 .. Len(d) : e[i] = IF i = at + 1 THEN w ELSE d[i]
      BY <2>2, <2>8, <3>2
    <3>4. [d EXCEPT ![at + 1] = w] = [i \in 1 .. Len(d) |-> IF i = at + 1 THEN w ELSE d[i]]
      BY <2>8, <3>1
    <3> QED
      BY <2>8, <3>3, <3>4
  <2> HIDE DEF e, d, ls
  <2>10. [p EXCEPT !.data = e] = [data |-> e, layers |-> ls]
    BY <1>2
  <2> QED
    BY <1>4, <2>4, <2>6, <2>7, <2>9, <2>10 DEF Room, d, ls
<1> QED
  BY <1>3, <1>4

(* Where the checksum of a transport header is. *)
Check(net, l4) == HeaderSize(net) + FieldOffset(l4, "checksum")

LEMMA CheckPlaces ==
    ASSUME NEW net \in IpNames, NEW l4 \in TransportNames
    PROVE  /\ Check(net, l4) \in Nat
           /\ Check(net, l4) <= HeaderSize(net) + HeaderSize(l4)
           /\ Check(net, l4) > HeaderSize(net) + 1
           /\ Check(net, l4) \notin Core(net, l4)
           /\ Check(net, l4) # Room(net, l4)
           /\ Room(net, l4) \notin Core(net, l4)
           /\ Room(net, l4) \in Nat /\ Room(net, l4) > HeaderSize(net) + 2
<1>1. /\ HeaderSize(net) \in {6, 7} /\ FieldOffset(net, "ttl") \in {3, 4}
      /\ FieldOffset(net, "protocol") \in {3, 4}
  BY NetFields
<1>2. CASE l4 \in IcmpNames
  <2>1. FieldOffset(l4, "checksum") = 2 /\ HeaderSize(l4) = 3
    <3>1. l4 # "udp" /\ l4 # "tcp"
      BY <1>2 DEF IcmpNames
    <3> QED
      BY <1>2, <3>1, TransportFields
  <2> QED
    BY <1>1, <1>2, <2>1 DEF Check, Room, Core
<1>3. CASE l4 \notin IcmpNames
  <2>1. /\ FieldOffset(l4, "checksum") \in {4, 5} /\ HeaderSize(l4) \in {4, 5}
        /\ FieldOffset(l4, "checksum") <= HeaderSize(l4)
    <3>1. l4 = "udp" \/ l4 = "tcp"
      BY <1>3 DEF TransportNames
    <3> QED
      BY <1>3, <3>1, TransportFields
  <2> QED
    BY <1>1, <1>3, <2>1 DEF Check, Room, Core
<1> QED
  BY <1>2, <1>3

(* What the exchange of the tag and the checksum writes. *)
LEMMA SwapWrites ==
    ASSUME NEW net \in IpNames, NEW l4 \in TransportNames, NEW s \in Int, NEW b,
           Made(b, net, l4, s), Roomy(l4, s), NEW tag
    PROVE  Swap(b, tag) =
             [data |-> [[b.data EXCEPT ![Check(net, l4)] = tag]
                          EXCEPT ![Room(net, l4)] = b.data[Check(net, l4)]],
              layers |-> b.layers]
<1>1. PICK pos : pos = Position(b, "checksum", 1)
  OBVIOUS
<1>2. pos = Check(net, l4)
  BY <1>1, FieldPlaces DEF Check, Made
<1>3. b = [data |-> b.data, layers |-> b.layers] /\ IsList(b.data)
  BY DEF Made, Packet
<1>4. PICK c : c = SetFieldFrom(b, "checksum", tag, 1)
  OBVIOUS
<1>5. /\ c.data = [b.data EXCEPT ![pos] = tag] /\ c.layers = b.layers
      /\ Made(c, net, l4, s)
  <2>1. pos # 0 /\ pos \notin Core(net, l4)
    BY <1>2, CheckPlaces, NetFields
  <2> DEFINE e == [b.data EXCEPT ![pos] = tag]
  <2>2. c = [b EXCEPT !.data = e]
    BY <1>1, <1>3, <1>4, <2>1 DEF SetFieldFrom
  <2> HIDE DEF e
  <2>3. c = [data |-> e, layers |-> b.layers]
    BY <1>3, <2>2
  <2>4. Made(c, net, l4, s)
    <3>1. PICK K : K = Core(net, l4)
      OBVIOUS
    <3>2. Position(b, "checksum", 1) \notin K /\ Frame(net, l4) \subseteq K
      BY <1>1, <2>1, <3>1, FrameInCore
    <3> QED
      BY <1>4, <3>2, SetFieldKept
  <2> QED
    BY <2>3, <2>4 DEF e
<1>6. PICK w : w = b.data[pos]
  OBVIOUS
<1>7. Swap(b, tag) = WriteRoom(c, w)
  BY <1>1, <1>4, <1>6 DEF Swap, TagPosition
<1>8. WriteRoom(c, w) = [data |-> [c.data EXCEPT ![Room(net, l4)] = w], layers |-> c.layers]
  <2>1. Made(c, net, l4, s)
    BY <1>5
  <2> QED
    BY <2>1, RoomWrites
<1> QED
  BY <1>2, <1>5, <1>6, <1>7, <1>8

(* The word of a packet that holds its tag. *)
TagOf(d) == d[Check(program.net, program.l4)]

LEMMA TagIsWritten ==
    ASSUME NEW net \in IpNames, NEW l4 \in TransportNames, NEW p, Whole(p, net, l4), HasRoom(p),
           NEW tag
    PROVE  TagProbe(p, tag).data[Check(net, l4)] = tag
<1>1. PICK s : s = Rest(p.data, net, l4)
  OBVIOUS
<1>2. Made(p, net, l4, s) /\ s \in Int /\ Roomy(l4, s)
  <2>1. Made(p, net, l4, s)
    BY <1>1 DEF Whole
  <2>2. Packet(p.data, net, l4)
    BY <2>1 DEF Made
  <2> QED
    BY <1>1, <2>1, <2>2, Sizes, RoomOf
<1>3. PICK a : a = WriteRoom(p, tag)
  OBVIOUS
<1>4. Made(a, net, l4, s)
  BY <1>2, <1>3, RoomKept DEF Roomy
<1>5. PICK b : b = Resum(a)
  OBVIOUS
<1>6. Made(b, net, l4, s)
  BY <1>4, <1>5, ResumKept
<1>7. PICK C, R : C = Check(net, l4) /\ R = Room(net, l4)
  OBVIOUS
<1>8. Swap(b, tag) = [data |-> [[b.data EXCEPT ![C] = tag] EXCEPT ![R] = b.data[C]],
                      layers |-> b.layers]
  BY <1>2, <1>6, <1>7, SwapWrites
<1>9. C # R /\ C \in 1 .. Len(b.data) /\ IsList(b.data)
  <2>1. Packet(b.data, net, l4)
    BY <1>6 DEF Made
  <2>2. Len(b.data) >= HeaderSize(net) + HeaderSize(l4) /\ Len(b.data) \in Nat /\ HeaderSize(net) \in {6, 7}
        /\ HeaderSize(l4) \in {3, 4, 5}
    BY <2>1, Sizes
  <2>3. C \in Nat /\ C <= HeaderSize(net) + HeaderSize(l4) /\ C > HeaderSize(net) + 1 /\ C # R
    BY <1>7, CheckPlaces
  <2> QED
    BY <2>1, <2>2, <2>3 DEF Packet
<1>10. DOMAIN b.data = 1 .. Len(b.data)
  BY <1>9, ListDomain
<1>11. [[b.data EXCEPT ![C] = tag] EXCEPT ![R] = b.data[C]][C] = tag
  BY <1>9, <1>10
<1>12. TagProbe(p, tag) = Swap(b, tag)
  BY <1>3, <1>5 DEF TagProbe
<1> QED
  BY <1>7, <1>8, <1>11, <1>12

-----------------------------------------------------------------------------
(* The tags of the packets on the wire *)

(* The tag of the packet that left n packets before the last one. *)
Back(n) == IF n <= lastTag THEN lastTag - n ELSE lastTag - n + W

TagsFollow ==
    \A i \in DOMAIN wire : TagOf(wire[i].data) = Back(Len(wire) - i)

(* What flies is what left, in the order it left. *)
FlyingLeft ==
    /\ \A i \in DOMAIN flying :
          flying[i].id \in DOMAIN wire /\ flying[i].probe.data = wire[flying[i].id].data
    /\ \A i, j \in DOMAIN flying : i < j => flying[i].id < flying[j].id

(* What the sniffer has read answers a packet that left. *)
Answers(r) ==
    /\ r.of \in DOMAIN wire
    /\ r.quote # << >> =>
         /\ r.quote \in Quotes(wire[r.of].data)
         /\ r.data = Sniffed(program.net, Router, IF program.net = "ipv4" THEN 11 ELSE 3, r.quote)

AnswerLeft == inbox # << >> => Answers(inbox[1])

TagInv ==
    /\ lastTag \in Words
    /\ IsList(sendq) /\ IsList(flying) /\ IsList(wire)
    /\ Len(sendq) + Len(wire) <= MaxProbes
    /\ wire # << >> => Roomy(program.l4, Rest(skel.data, program.net, program.l4))
    /\ TagsFollow /\ FlyingLeft /\ AnswerLeft

LEMMA TagInit ==
    ASSUME ProbeInit
    PROVE  TagInv
<1>1. /\ IsList(sendq) /\ Len(sendq) = 0
      /\ IsList(flying) /\ DOMAIN flying = {}
      /\ IsList(wire) /\ Len(wire) = 0 /\ DOMAIN wire = {} /\ wire = << >> /\ inbox = << >>
  BY EmptyList DEF ProbeInit
<1>2. lastTag \in Words
  BY ProbeAssumption DEF ProbeInit
<1>3. Len(sendq) + Len(wire) <= MaxProbes
  BY <1>1, ProbeAssumption
<1> QED
  BY <1>1, <1>2, <1>3 DEF TagInv, TagsFollow, FlyingLeft, AnswerLeft

(* Nothing is answered before a probe leaves. *)
LEMMA NothingSent ==
    ASSUME TagInv, NoProbe, NoProbe', lastTag' = lastTag, inbox' = inbox
    PROVE  TagInv'
<1>1. inbox = << >>
  <2>1. DOMAIN wire = {}
    BY EmptyList DEF NoProbe
  <2> QED
    BY <2>1 DEF TagInv, AnswerLeft, Answers
<1>2. /\ IsList(sendq') /\ Len(sendq') = 0
      /\ IsList(flying') /\ DOMAIN flying' = {}
      /\ IsList(wire') /\ Len(wire') = 0 /\ DOMAIN wire' = {} /\ wire' = << >>
  BY EmptyList DEF NoProbe
<1>3. Len(sendq') + Len(wire') <= MaxProbes
  BY <1>2, ProbeAssumption
<1>4. lastTag' \in Words
  BY DEF TagInv
<1> QED
  BY <1>1, <1>2, <1>3, <1>4 DEF TagInv, TagsFollow, FlyingLeft, AnswerLeft

(* The parts of the invariant in steps that leave the packets alone. *)
LEMMA SameWire ==
    ASSUME TagInv, wire' = wire, lastTag' = lastTag, program' = program, skel' = skel
    PROVE  /\ lastTag' \in Words /\ IsList(wire')
           /\ wire' # << >> => Roomy(program.l4, Rest(skel.data, program.net, program.l4))'
           /\ TagsFollow'
           /\ \A r : Answers(r)' <=> Answers(r)
<1>1. \A d : TagOf(d)' = TagOf(d)
  BY DEF TagOf
<1>2. \A n : Back(n)' = Back(n)
  BY DEF Back
<1>3. TagsFollow'
  BY <1>1, <1>2 DEF TagInv, TagsFollow
<1>4. \A d : Quotes(d)' = Quotes(d)
  BY DEF Quotes
<1>5. \A r : Answers(r)' <=> Answers(r)
  BY <1>4 DEF Answers
<1> QED
  BY <1>3, <1>5 DEF TagInv

LEMMA SendProbeTags ==
    ASSUME TagInv, SendProbe
    PROVE  TagInv'
<1>1. /\ wire' = wire /\ lastTag' = lastTag /\ program' = program /\ skel' = skel
      /\ flying' = flying /\ inbox' = inbox
      /\ Len(sendq) + Len(wire) < MaxProbes
  BY DEF SendProbe
<1>2. PICK x : sendq' = Append(sendq, x)
  BY DEF SendProbe
<1>3. IsList(sendq') /\ Len(sendq') = Len(sendq) + 1
  BY <1>2, ListAppend DEF TagInv
<1>4. Len(sendq') + Len(wire') <= MaxProbes
  <2>1. Len(sendq) \in Nat /\ Len(wire) \in Nat
    BY ListDomain DEF TagInv
  <2> QED
    BY <1>1, <1>3, <2>1, ProbeAssumption
<1>5. FlyingLeft'
  BY <1>1 DEF TagInv, FlyingLeft
<1>6. AnswerLeft'
  BY <1>1, SameWire DEF TagInv, AnswerLeft
<1>7. IsList(flying')
  BY <1>1 DEF TagInv
<1> QED
  BY <1>1, <1>3, <1>4, <1>5, <1>6, <1>7, SameWire DEF TagInv

(* The list t is s without its i-th element. *)
Removed(t, s, i) ==
    /\ IsList(t) /\ Len(t) = Len(s) - 1
    /\ \A k \in 1 .. Len(s) - 1 : t[k] = s[IF k < i THEN k ELSE k + 1]

LEMMA RemoveIs ==
    ASSUME NEW s, IsList(s), NEW i \in 1 .. Len(s)
    PROVE  Removed(RemoveAt(s, i), s, i)
<1>1. PICK n : n = Len(s)
  OBVIOUS
<1>2. n \in Nat /\ i \in 1 .. n
  BY <1>1, ListDomain
<1>3. PICK a, b : a = SubSeq(s, 1, i - 1) /\ b = SubSeq(s, i + 1, n)
  OBVIOUS
<1>4. IsList(a) /\ Len(a) = i - 1 /\ \A k \in 1 .. i - 1 : a[k] = s[k]
  <2>1. PICK f, l : f = 1 /\ l = i - 1
    OBVIOUS
  <2>2. f \in Nat /\ l \in Nat /\ f >= 1 /\ l <= Len(s) /\ f <= l + 1
    BY <1>1, <1>2, <2>1
  <2>3. /\ IsList(SubSeq(s, f, l)) /\ Len(SubSeq(s, f, l)) = l - f + 1
        /\ \A k \in 1 .. l - f + 1 : SubSeq(s, f, l)[k] = s[k + (f - 1)]
    BY <2>2, ListSub
  <2>4. l - f + 1 = i - 1 /\ \A k \in 1 .. i - 1 : k + (f - 1) = k
    BY <1>2, <2>1
  <2> QED
    BY <1>3, <2>1, <2>3, <2>4
<1>5. IsList(b) /\ Len(b) = n - i /\ \A k \in 1 .. n - i : b[k] = s[k + i]
  <2>1. PICK f : f = i + 1
    OBVIOUS
  <2>2. f \in Nat /\ f >= 1 /\ n <= Len(s) /\ f <= n + 1
    BY <1>1, <1>2, <2>1
  <2>3. /\ IsList(SubSeq(s, f, n)) /\ Len(SubSeq(s, f, n)) = n - f + 1
        /\ \A k \in 1 .. n - f + 1 : SubSeq(s, f, n)[k] = s[k + (f - 1)]
    BY <1>2, <2>2, ListSub
  <2>4. n - f + 1 = n - i /\ f - 1 = i
    BY <1>2, <2>1
  <2> QED
    BY <1>3, <2>1, <2>3, <2>4
<1>6. PICK t : t = a \o b
  OBVIOUS
<1>7. RemoveAt(s, i) = t
  BY <1>1, <1>3, <1>6 DEF RemoveAt
<1>8. /\ IsList(t) /\ Len(t) = Len(a) + Len(b)
      /\ \A k \in 1 .. Len(a) : t[k] = a[k]
      /\ \A k \in 1 .. Len(b) : t[Len(a) + k] = b[k]
  <2>1. IsList(a) /\ IsList(b)
    BY <1>4, <1>5
  <2> QED
    BY <1>6, <2>1, ListJoin
<1>9. Len(t) = n - 1
  BY <1>2, <1>4, <1>5, <1>8
<1>10. ASSUME NEW k \in 1 .. n - 1
       PROVE  t[k] = s[IF k < i THEN k ELSE k + 1]
  <2>1. CASE k < i
    <3>1. k \in 1 .. i - 1
      BY <1>2, <2>1
    <3> QED
      BY <1>4, <1>8, <2>1, <3>1
  <2>2. CASE ~(k < i)
    <3>1. PICK m : m = k - (i - 1)
      OBVIOUS
    <3>2. m \in 1 .. n - i /\ m + i = k + 1 /\ (i - 1) + m = k
      BY <1>2, <2>2, <3>1
    <3>3. b[m] = s[k + 1]
      BY <1>5, <3>2
    <3>4. t[k] = b[m]
      BY <1>4, <1>5, <1>8, <3>2
    <3> QED
      BY <2>2, <3>3, <3>4
  <2> QED
    BY <2>1, <2>2
<1> QED
  BY <1>1, <1>7, <1>8, <1>9, <1>10 DEF Removed

(* A list of what flies without one element. *)
LEMMA OneRemoved ==
    ASSUME FlyingLeft, IsList(flying), wire' = wire,
           NEW i \in DOMAIN flying, Removed(flying', flying, i)
    PROVE  IsList(flying') /\ FlyingLeft'
<1>1. PICK n : n = Len(flying)
  OBVIOUS
<1>2. n \in Nat /\ DOMAIN flying = 1 .. n
  BY <1>1, ListDomain
<1>3. /\ IsList(flying') /\ Len(flying') = n - 1
      /\ \A k \in 1 .. n - 1 : flying'[k] = flying[IF k < i THEN k ELSE k + 1]
  BY <1>1 DEF Removed
<1>4. DOMAIN flying' = 1 .. n - 1
  BY <1>3, ListDomain
<1>5. ASSUME NEW k \in DOMAIN flying'
      PROVE  flying'[k].id \in DOMAIN wire' /\ flying'[k].probe.data = wire'[flying'[k].id].data
  <2>1. PICK m : m = IF k < i THEN k ELSE k + 1
    OBVIOUS
  <2>2. m \in DOMAIN flying /\ flying'[k] = flying[m]
    BY <1>2, <1>3, <1>4, <2>1
  <2> QED
    BY <2>2 DEF FlyingLeft
<1>6. ASSUME NEW k \in DOMAIN flying', NEW m \in DOMAIN flying', k < m
      PROVE  flying'[k].id < flying'[m].id
  <2>1. PICK a, b : a = (IF k < i THEN k ELSE k + 1) /\ b = (IF m < i THEN m ELSE m + 1)
    OBVIOUS
  <2>2. a \in DOMAIN flying /\ b \in DOMAIN flying /\ a < b
    BY <1>2, <1>4, <1>6, <2>1
  <2>3. flying'[k] = flying[a] /\ flying'[m] = flying[b]
    BY <1>3, <1>4, <2>1
  <2> QED
    BY <2>2, <2>3 DEF FlyingLeft
<1> QED
  BY <1>3, <1>5, <1>6 DEF FlyingLeft

LEMMA Without ==
    ASSUME FlyingLeft, IsList(flying), wire' = wire,
           \/ flying' = flying
           \/ flying # << >> /\ flying' = Tail(flying)
           \/ \E i \in DOMAIN flying : flying' = RemoveAt(flying, i)
    PROVE  IsList(flying') /\ FlyingLeft'
<1>1. CASE flying' = flying
  BY <1>1 DEF FlyingLeft
<1>2. CASE flying # << >> /\ flying' = Tail(flying)
  <2>1. PICK i : i = 1
    OBVIOUS
  <2>2. /\ IsList(flying') /\ Len(flying) \in Nat /\ Len(flying) >= 1 /\ Len(flying') = Len(flying) - 1
        /\ \A k \in 1 .. Len(flying) - 1 : flying'[k] = flying[k + 1]
    BY <1>2, ListTail
  <2>3. i \in DOMAIN flying
    BY <2>1, <2>2, ListDomain
  <2>4. Removed(flying', flying, i)
    BY <2>1, <2>2 DEF Removed
  <2> QED
    BY <2>3, <2>4, OneRemoved
<1>3. CASE \E i \in DOMAIN flying : flying' = RemoveAt(flying, i)
  <2>1. PICK i \in DOMAIN flying : flying' = RemoveAt(flying, i)
    BY <1>3
  <2>2. i \in 1 .. Len(flying)
    BY ListDomain
  <2>3. Removed(flying', flying, i)
    BY <2>1, <2>2, RemoveIs
  <2> QED
    BY <2>3, OneRemoved
<1> QED
  BY <1>1, <1>2, <1>3

LEMMA ReceivedTags ==
    ASSUME TagInv, ProcessRecvq \/ DropOldest
    PROVE  TagInv'
<1>1. /\ wire' = wire /\ lastTag' = lastTag /\ program' = program /\ skel' = skel /\ sendq' = sendq
      /\ inbox' \in {inbox, << >>}
  BY DEF ProcessRecvq, DropOldest
<1>2. \/ flying' = flying
      \/ flying # << >> /\ flying' = Tail(flying)
      \/ \E i \in DOMAIN flying : flying' = RemoveAt(flying, i)
  <2>1. CASE DropOldest
    BY <2>1 DEF DropOldest
  <2>2. CASE ProcessRecvq
    <3>1. \/ flying' = flying
          \/ \E tag : MatchingProbe(tag) # 0 /\ flying' = RemoveAt(flying, MatchingProbe(tag))
      BY <2>2 DEF ProcessRecvq
    <3>2. ASSUME NEW tag, MatchingProbe(tag) # 0
          PROVE  MatchingProbe(tag) \in DOMAIN flying
      <4>1. PICK match : match = {i \in DOMAIN flying :
                                    flying[i].probe.data[TagPosition(flying[i].probe)] = tag}
        OBVIOUS
      <4>2. MatchingProbe(tag) = IF match = {} THEN 0 ELSE Min(match)
        BY <4>1 DEF MatchingProbe
      <4>3. match \in SUBSET Nat
        <5>1. DOMAIN flying = 1 .. Len(flying) /\ Len(flying) \in Nat
          BY ListDomain DEF TagInv
        <5> QED
          BY <4>1, <5>1
      <4> QED
        BY <3>2, <4>1, <4>2, <4>3, LeastIsMember
    <3> QED
      BY <3>1, <3>2
  <2> QED
    BY <2>1, <2>2
<1>3. IsList(flying') /\ FlyingLeft'
  BY <1>1, <1>2, Without DEF TagInv
<1>4. AnswerLeft'
  BY <1>1, SameWire DEF TagInv, AnswerLeft
<1> QED
  BY <1>1, <1>3, <1>4, SameWire DEF TagInv

LEMMA AnsweredTags ==
    ASSUME TagInv, RouterAnswers \/ TargetAnswers
    PROVE  TagInv'
<1>1. /\ wire' = wire /\ lastTag' = lastTag /\ program' = program /\ skel' = skel /\ sendq' = sendq
      /\ flying' = flying
  BY DEF RouterAnswers, TargetAnswers
<1>2. AnswerLeft'
  <2>1. PICK r : inbox' = <<r>> /\ Answers(r)
    <3>1. CASE RouterAnswers
      <4>1. PICK i \in Departed : \E quote \in Quotes(wire[i].data) :
              inbox' = <<[of |-> i, quote |-> quote,
                          data |-> Sniffed(program.net, Router,
                                           IF program.net = "ipv4" THEN 11 ELSE 3, quote)]>>
        BY <3>1 DEF RouterAnswers
      <4>2. PICK quote \in Quotes(wire[i].data) :
              inbox' = <<[of |-> i, quote |-> quote,
                          data |-> Sniffed(program.net, Router,
                                           IF program.net = "ipv4" THEN 11 ELSE 3, quote)]>>
        BY <4>1
      <4>3. PICK r : r = [of |-> i, quote |-> quote,
                          data |-> Sniffed(program.net, Router,
                                           IF program.net = "ipv4" THEN 11 ELSE 3, quote)]
        OBVIOUS
      <4>4. r.of = i /\ r.quote = quote
            /\ r.data = Sniffed(program.net, Router, IF program.net = "ipv4" THEN 11 ELSE 3, quote)
        BY <4>3
      <4>5. i \in DOMAIN wire
        BY DEF Departed
      <4> QED
        BY <4>2, <4>3, <4>4, <4>5 DEF Answers
    <3>2. CASE TargetAnswers
      <4>1. PICK i \in Departed :
              inbox' = <<[of |-> i, quote |-> << >>,
                          data |-> Sniffed(program.net, program.target,
                                           IF program.net = "ipv4" THEN 0 ELSE 129, << >>)]>>
        BY <3>2 DEF TargetAnswers
      <4>2. PICK d, r : /\ d = Sniffed(program.net, program.target,
                                     IF program.net = "ipv4" THEN 0 ELSE 129, << >>)
                      /\ r = [of |-> i, quote |-> << >>, data |-> d]
        OBVIOUS
      <4>3. r.of = i /\ r.quote = << >>
        BY <4>2
      <4>4. i \in DOMAIN wire
        BY DEF Departed
      <4> QED
        BY <4>1, <4>2, <4>3, <4>4 DEF Answers
    <3> QED
      BY <3>1, <3>2
  <2>2. inbox'[1] = r
    BY <2>1
  <2> QED
    BY <1>1, <2>1, <2>2, SameWire DEF AnswerLeft
<1>3. FlyingLeft'
  BY <1>1 DEF TagInv, FlyingLeft
<1> QED
  BY <1>1, <1>2, <1>3, SameWire DEF TagInv

LEMMA NextTag ==
    ASSUME lastTag \in Words, lastTag' = (lastTag + 1) % W
    PROVE  lastTag' = (IF lastTag = W - 1 THEN 0 ELSE lastTag + 1) /\ lastTag' \in Words
<1>1. W \in Nat /\ W >= 256 /\ lastTag \in 0 .. W - 1
  BY ProtocolsAssumption DEF Words
<1>2. CASE lastTag = W - 1
  <2>1. lastTag + 1 = W /\ W % W = 0
    BY <1>1, <1>2
  <2> QED
    BY <1>1, <1>2, <2>1 DEF Words
<1>3. CASE lastTag # W - 1
  <2>1. lastTag + 1 \in 0 .. W - 1
    BY <1>1, <1>3
  <2>2. (lastTag + 1) % W = lastTag + 1
    BY <1>1, <2>1
  <2> QED
    BY <1>3, <2>1, <2>2 DEF Words
<1> QED
  BY <1>2, <1>3

LEMMA ProcessSendqTags ==
    ASSUME MaxProbes <= W, PacketInv, TagInv, ProcessSendq
    PROVE  TagInv'
<1> DEFINE net == program.net
           l4 == program.l4
<1>1. /\ sendq # << >> /\ sendq' = Tail(sendq)
      /\ program' = program /\ skel' = skel /\ inbox' = inbox
      /\ lastTag' = (lastTag + 1) % W
  BY DEF ProcessSendq
<1>2. Running
  BY <1>1 DEF PacketInv, Unknown, Ready, Running, NoProbe
<1>3. net \in IpNames /\ l4 \in TransportNames
  BY <1>2 DEF Running, GoodProgram
<1>4. PICK x : x = Head(sendq)
  OBVIOUS
<1>5. GoodProbe(x)
  <2>1. GoodQueue(sendq)
    BY <1>2 DEF Running
  <2> QED
    BY <1>1, <1>4, <2>1, TailAmong DEF GoodQueue
<1>6. HasRoom(x.probe) <=> Roomy(l4, Rest(skel.data, net, l4))
  <2>1. PICK p, s : p = x.probe /\ s = Rest(p.data, net, l4)
    OBVIOUS
  <2>2. Made(p, net, l4, s)
    BY <1>5, <2>1 DEF GoodProbe, Whole
  <2>3. HasRoom(p) <=> Roomy(l4, s)
    BY <1>3, <2>2, RoomOf
  <2>4. Len(p.data) = Len(skel.data)
    BY <1>5, <2>1 DEF GoodProbe, Own
  <2> QED
    BY <2>1, <2>3, <2>4 DEF Rest
<1>7. lastTag \in Words /\ lastTag' \in Words /\ lastTag' = (IF lastTag = W - 1 THEN 0 ELSE lastTag + 1)
  BY <1>1, NextTag DEF TagInv
<1>8. /\ IsList(sendq') /\ Len(sendq') = Len(sendq) - 1 /\ Len(sendq) \in Nat /\ Len(sendq) >= 1
      /\ IsList(wire) /\ Len(wire) \in Nat /\ DOMAIN wire = 1 .. Len(wire)
      /\ IsList(flying) /\ Len(flying) \in Nat /\ DOMAIN flying = 1 .. Len(flying)
      /\ Len(sendq) + Len(wire) <= MaxProbes
  BY <1>1, ListTail, ListDomain DEF TagInv
<1>9. /\ \A d : TagOf(d)' = TagOf(d)
      /\ \A d : Quotes(d)' = Quotes(d)
  BY <1>1 DEF TagOf, Quotes
<1>10. CASE ~HasRoom(x.probe)
  <2>1. wire' = wire /\ flying' = flying
    BY <1>4, <1>10 DEF ProcessSendq
  <2>2. wire = << >>
    BY <1>6, <1>10 DEF TagInv
  <2>3. DOMAIN wire = {}
    BY <2>2, EmptyList
  <2>4. FlyingLeft'
    BY <2>1 DEF TagInv, FlyingLeft
  <2>5. TagsFollow'
    BY <2>1, <2>3 DEF TagsFollow
  <2>6. AnswerLeft'
    BY <1>1, <2>1, <2>3 DEF TagInv, AnswerLeft, Answers
  <2>7. Len(sendq') + Len(wire') <= MaxProbes
    BY <1>8, <2>1, ProbeAssumption
  <2> QED
    BY <1>7, <1>8, <2>1, <2>2, <2>4, <2>5, <2>6, <2>7 DEF TagInv
<1>11. CASE HasRoom(x.probe)
  <2>1. PICK sent, p, y, z :
           /\ p = TagProbe(x.probe, lastTag')
           /\ y = [data |-> p.data, ttl |-> x.ttl, flow |-> x.flow, sent |-> sent]
           /\ z = [probe |-> p, ttl |-> x.ttl, flow |-> x.flow, id |-> Len(wire')]
           /\ wire' = Append(wire, y)
           /\ flying' \in {Append(flying, z), flying}
    BY <1>4, <1>11 DEF ProcessSendq
  <2>2. PICK n : n = Len(wire)
    OBVIOUS
  <2>3. n \in Nat /\ DOMAIN wire = 1 .. n /\ n + 1 <= MaxProbes /\ n + 1 <= W /\ MaxProbes \in Nat
    BY <1>8, <2>2, ProbeAssumption, ProtocolsAssumption
  <2>4. /\ IsList(wire') /\ Len(wire') = n + 1
        /\ \A i \in 1 .. n : wire'[i] = wire[i]
        /\ wire'[n + 1] = y
    BY <1>8, <2>1, <2>2, ListAppend
  <2>5. DOMAIN wire' = 1 .. n + 1
    BY <2>4, ListDomain
  <2>6. y.data = p.data /\ z.probe = p /\ z.id = n + 1
    BY <2>1, <2>4
  <2>7. TagOf(p.data) = lastTag'
    <3>1. p.data[Check(net, l4)] = lastTag'
      <4>1. Whole(x.probe, net, l4)
        BY <1>5 DEF GoodProbe
      <4> QED
        BY <1>3, <1>11, <2>1, <4>1, TagIsWritten
    <3> QED
      BY <3>1 DEF TagOf
  <2>8. TagsFollow'
    <3>1. ASSUME NEW i \in 1 .. n + 1
          PROVE  TagOf(wire'[i].data) = IF n + 1 - i <= lastTag' THEN lastTag' - (n + 1 - i)
                                        ELSE lastTag' - (n + 1 - i) + W
      <4>1. CASE i = n + 1
        <5>1. n + 1 - i = 0 /\ lastTag' - 0 = lastTag' /\ 0 <= lastTag'
          BY <1>7, <2>3, <4>1, ProtocolsAssumption DEF Words
        <5> QED
          BY <2>4, <2>6, <2>7, <4>1, <5>1
      <4>2. CASE i # n + 1
        <5>1. i \in 1 .. n
          BY <2>3, <4>2
        <5>2. TagOf(wire[i].data) = Back(n - i)
          BY <2>2, <2>3, <5>1 DEF TagInv, TagsFollow
        <5>3. PICK k : k = n - i
          OBVIOUS
        <5>4. k \in Nat /\ k <= W - 2 /\ n + 1 - i = k + 1
          BY <2>3, <5>1, <5>3, ProtocolsAssumption
        <5>5. Back(k) = IF k + 1 <= lastTag' THEN lastTag' - (k + 1) ELSE lastTag' - (k + 1) + W
          BY <1>7, <5>4, ProtocolsAssumption DEF Back, Words
        <5> QED
          BY <2>4, <5>1, <5>2, <5>3, <5>4, <5>5
      <4> QED
        BY <4>1, <4>2
    <3>2. \A i \in 1 .. n + 1 :
             wire'[i].data[Check(program'.net, program'.l4)]
               = IF n + 1 - i <= lastTag' THEN lastTag' - (n + 1 - i)
                 ELSE lastTag' - (n + 1 - i) + W
      BY <1>1, <3>1 DEF TagOf
    <3>3. \A i \in DOMAIN wire' :
             wire'[i].data[Check(program'.net, program'.l4)]
               = IF Len(wire') - i <= lastTag' THEN lastTag' - (Len(wire') - i)
                 ELSE lastTag' - (Len(wire') - i) + W
      <4>1. PICK m : m = Len(wire')
        OBVIOUS
      <4>2. m = n + 1 /\ DOMAIN wire' = 1 .. m
        BY <2>4, <2>5, <4>1
      <4>3. \A i \in 1 .. m :
               wire'[i].data[Check(program'.net, program'.l4)]
                 = IF m - i <= lastTag' THEN lastTag' - (m - i) ELSE lastTag' - (m - i) + W
        BY <2>3, <3>2, <4>2
      <4> QED
        BY <4>1, <4>2, <4>3
    <3> QED
      BY <3>3 DEF TagsFollow, TagOf, Back
  <2>9. IsList(flying') /\ FlyingLeft'
    <3>1. CASE flying' = flying
      <4>1. \A i \in DOMAIN flying : flying[i].id \in DOMAIN wire' /\ flying[i].probe.data = wire'[flying[i].id].data
        BY <2>3, <2>4, <2>5 DEF TagInv, FlyingLeft
      <4> QED
        BY <1>8, <3>1, <4>1 DEF TagInv, FlyingLeft
    <3>2. CASE flying' = Append(flying, z)
      <4>1. PICK m : m = Len(flying)
        OBVIOUS
      <4>2. /\ IsList(flying') /\ Len(flying') = m + 1
            /\ \A i \in 1 .. m : flying'[i] = flying[i]
            /\ flying'[m + 1] = z
        BY <1>8, <3>2, <4>1, ListAppend
      <4>3. DOMAIN flying' = 1 .. m + 1 /\ DOMAIN flying = 1 .. m /\ m \in Nat
        BY <1>8, <4>1, <4>2, ListDomain
      <4>4. ASSUME NEW i \in 1 .. m + 1
            PROVE  /\ flying'[i].id \in 1 .. n + 1
                   /\ flying'[i].probe.data = wire'[flying'[i].id].data
                   /\ i # m + 1 => flying'[i].id \in 1 .. n /\ flying'[i] = flying[i] /\ i \in 1 .. m
                   /\ i = m + 1 => flying'[i].id = n + 1
        <5>1. CASE i = m + 1
          BY <2>3, <2>4, <2>6, <4>2, <5>1
        <5>2. CASE i # m + 1
          <6>1. i \in 1 .. m
            BY <4>3, <5>2
          <6>2. flying[i].id \in 1 .. n /\ flying[i].probe.data = wire[flying[i].id].data
            BY <2>3, <4>3, <6>1 DEF TagInv, FlyingLeft
          <6> QED
            BY <2>3, <2>4, <4>2, <5>2, <6>1, <6>2
        <5> QED
          BY <5>1, <5>2
      <4>5. ASSUME NEW i \in 1 .. m + 1, NEW j \in 1 .. m + 1, i < j
            PROVE  flying'[i].id < flying'[j].id
        <5>1. i # m + 1
          BY <4>3, <4>5
        <5>2. CASE j = m + 1
          BY <2>3, <4>4, <5>1, <5>2
        <5>3. CASE j # m + 1
          <6>1. flying'[i] = flying[i] /\ flying'[j] = flying[j] /\ i \in DOMAIN flying /\ j \in DOMAIN flying
            BY <4>3, <4>4, <5>1, <5>3
          <6> QED
            BY <4>5, <6>1 DEF TagInv, FlyingLeft
        <5> QED
          BY <5>2, <5>3
      <4> QED
        BY <2>5, <4>2, <4>3, <4>4, <4>5 DEF FlyingLeft
    <3> QED
      BY <2>1, <3>1, <3>2
  <2>10. AnswerLeft'
    <3> SUFFICES ASSUME inbox # << >> PROVE Answers(inbox[1])'
      BY <1>1 DEF AnswerLeft
    <3>1. PICK r : r = inbox[1]
      OBVIOUS
    <3>2. Answers(r)
      BY <3>1 DEF TagInv, AnswerLeft
    <3>3. r.of \in 1 .. n /\ wire'[r.of] = wire[r.of] /\ r.of \in DOMAIN wire'
      BY <2>3, <2>4, <2>5, <3>2 DEF Answers
    <3> QED
      BY <1>1, <1>9, <3>1, <3>2, <3>3 DEF Answers
  <2>11. Len(sendq') + Len(wire') <= MaxProbes
    BY <1>8, <2>2, <2>3, <2>4
  <2>12. wire' # << >> => Roomy(program.l4, Rest(skel.data, program.net, program.l4))'
    BY <1>1, <1>6, <1>11
  <2> QED
    BY <1>7, <1>8, <2>4, <2>8, <2>9, <2>10, <2>11, <2>12 DEF TagInv
<1> QED
  BY <1>10, <1>11

(* A packet is a list of words. *)
LEMMA PacketIsList ==
    ASSUME NEW net, NEW l4, NEW d, Packet(d, net, l4)
    PROVE  IsList(d) /\ DOMAIN d = 1 .. Len(d)
<1>1. IsList(d)
  BY Zenon DEF Packet
<1> QED
  BY ONLY <1>1, ListDomain

(* A quotation that goes as far as the tag is a packet of its own. *)
LEMMA QuoteIsPacket ==
    ASSUME program.net \in IpNames, program.l4 \in TransportNames,
           NEW w, Packet(w, program.net, program.l4), NEW q \in Quotes(w),
           Len(q) >= Check(program.net, program.l4)
    PROVE  Packet(q, program.net, program.l4) /\ TagOf(q) = TagOf(w)
<1> DEFINE net == program.net
           l4 == program.l4
           H == HeaderSize(net)
           T == HeaderSize(l4)
           short == H + (IF l4 = "tcp" THEN 3 ELSE T)
<1>1. PICK pos, e, n : /\ pos = Position(WrapPacket(w), "ttl", 0)
                       /\ e = [w EXCEPT ![pos] = 0]
                       /\ n \in {short, Len(w)}
                       /\ q = SubSeq(e, 1, n)
  BY DEF Quotes
<1>2. /\ H \in {6, 7} /\ T \in {3, 4, 5} /\ Len(w) \in Nat /\ Len(w) >= H + T
  BY Sizes
<1>3. pos = FieldOffset(net, "ttl")
  <2>1. PICK p, s : p = WrapPacket(w) /\ s = Rest(p.data, net, l4)
    OBVIOUS
  <2>2. IsLayers(p.layers, net, l4, s)
    BY <2>1, WrapWhole DEF Whole, Made
  <2>3. Position(p, "ttl", 0) = FieldOffset(net, "ttl")
    <3>1. PICK a \in IpNames, b \in TransportNames : a = net /\ b = l4
      OBVIOUS
    <3>2. IsLayers(p.layers, a, b, s)
      BY ONLY <2>2, <3>1
    <3>3. Position(p, "ttl", 0) = FieldOffset(a, "ttl")
      BY ONLY <3>2, FieldPlaces
    <3> QED
      BY ONLY <3>1, <3>3
  <2> QED
    BY ONLY <1>1, <2>1, <2>3
<1>4. IsList(e) /\ Len(e) = Len(w) /\ \A k \in 1 .. Len(w) : k # pos => e[k] = w[k]
  <2>1. IsList(w) /\ DOMAIN w = 1 .. Len(w)
    BY PacketIsList
  <2>2. IsList(e) /\ Len(e) = Len(w)
    <3>1. PICK v : v = 0
      OBVIOUS
    <3>2. e = [w EXCEPT ![pos] = v]
      BY ONLY <1>1, <3>1
    <3>3. IsList([w EXCEPT ![pos] = v]) /\ Len([w EXCEPT ![pos] = v]) = Len(w)
      BY ONLY <2>1, ListExcept
    <3> QED
      BY ONLY <3>2, <3>3
  <2>3. \A k \in 1 .. Len(w) : k # pos => e[k] = w[k]
    BY ONLY <1>1, <2>1
  <2> QED
    BY <2>2, <2>3
<1>5. n \in Nat /\ n <= Len(w) /\ n >= 1
  <2>1. short \in Nat /\ short <= H + T /\ short >= 1
    <3>1. l4 = "tcp" => T \in {4, 5}
      BY TransportFields DEF IcmpNames
    <3> QED
      BY <1>2, <3>1
  <2> QED
    BY <1>1, <1>2, <2>1
<1>6. IsList(q) /\ Len(q) = n /\ \A k \in 1 .. n : q[k] = e[k]
  <2>1. PICK f : f = 1
    OBVIOUS
  <2>2. f \in Nat /\ f >= 1 /\ n <= Len(e) /\ f <= n + 1
    BY <1>4, <1>5, <2>1
  <2>3. /\ IsList(SubSeq(e, f, n)) /\ Len(SubSeq(e, f, n)) = n - f + 1
        /\ \A k \in 1 .. n - f + 1 : SubSeq(e, f, n)[k] = e[k + (f - 1)]
    BY <1>4, <1>5, <2>2, ListSub
  <2>4. n - f + 1 = n /\ \A k \in 1 .. n : k + (f - 1) = k
    BY <1>5, <2>1
  <2> QED
    BY <1>1, <2>1, <2>3, <2>4
<1>7. n >= H + T
  <2>1. CASE l4 = "tcp"
    <3>1. FieldOffset(l4, "checksum") = 5 /\ T <= 5
      BY <1>2, <2>1, TransportFields
    <3> QED
      BY <1>2, <1>5, <1>6, <3>1 DEF Check
  <2>2. CASE l4 # "tcp"
    BY <1>1, <1>2, <2>2
  <2> QED
    BY <2>1, <2>2
<1>8. /\ FieldOffset(net, "protocol") \in {3, 4} /\ pos \in {3, 4} /\ pos # FieldOffset(net, "protocol")
  BY <1>3, NetFields
<1>9. \A k \in 1 .. n : k # pos => q[k] = w[k]
  BY <1>2, <1>4, <1>5, <1>6
<1>10. q[1] = w[1] /\ q[FieldOffset(net, "protocol")] = w[FieldOffset(net, "protocol")]
       /\ q[H + 1] = w[H + 1]
  <2> HIDE DEF H, T
  <2> QED
    BY <1>2, <1>5, <1>7, <1>8, <1>9
<1>11. Packet(q, net, l4)
  BY <1>5, <1>6, <1>7, <1>10 DEF Packet
<1>12. q[Check(net, l4)] = w[Check(net, l4)]
  <2>1. PICK c : c = Check(net, l4)
    OBVIOUS
  <2>2. c \in Nat /\ c <= H + T /\ c > H + 1
    BY <2>1, CheckPlaces
  <2>3. c \in 1 .. n /\ c # pos
    BY <1>2, <1>5, <1>7, <1>8, <2>2
  <2> QED
    BY <1>9, <2>1, <2>3
<1> QED
  BY <1>11, <1>12 DEF TagOf

LEMMA TagsDiffer ==
    ASSUME MaxProbes <= W, TagInv, NEW i \in DOMAIN wire, NEW j \in DOMAIN wire,
           TagOf(wire[i].data) = TagOf(wire[j].data)
    PROVE  i = j
<1>1. PICK n : n = Len(wire)
  OBVIOUS
<1>2. n \in Nat /\ i \in 1 .. n /\ j \in 1 .. n
  BY <1>1, ListDomain DEF TagInv
<1>3. n <= W
  <2>1. Len(sendq) \in Nat /\ Len(sendq) + n <= MaxProbes
    BY <1>1, ListDomain DEF TagInv
  <2> QED
    BY <1>2, <2>1, ProbeAssumption, ProtocolsAssumption
<1>4. Back(n - i) = Back(n - j)
  BY <1>1 DEF TagInv, TagsFollow
<1>5. lastTag \in 0 .. W - 1 /\ W \in Nat
  BY ProtocolsAssumption DEF TagInv, Words
<1> QED
  BY <1>2, <1>3, <1>4, <1>5 DEF Back

(* A quotation finds the probe it answers. *)
LEMMA AnswerFindsProbe ==
    ASSUME MaxProbes <= W, PacketInv, TagInv, ProcessRecvq, HoldsTag(inbox[1])
    PROVE  TakesOnly(inbox[1].of)
<1> DEFINE net == program.net
           l4 == program.l4
<1>1. PICK r : r = inbox[1]
  OBVIOUS
<1>2. inbox # << >> /\ Answers(r) /\ r.of \in DOMAIN wire
  BY <1>1 DEF ProcessRecvq, TagInv, AnswerLeft, Answers
<1>3. Running
  <2>1. wire # << >>
    BY <1>2
  <2> QED
    BY <2>1 DEF PacketInv, Unknown, Ready, NoProbe
<1>4. net \in IpNames /\ l4 \in TransportNames
  BY <1>3 DEF Running, GoodProgram
<1>5. PICK w, q : w = wire[r.of].data /\ q = r.quote
  OBVIOUS
<1>6. Packet(w, net, l4)
  BY <1>2, <1>3, <1>5 DEF Running, GoodWire, GoodPacket
<1>7. Len(q) >= Check(net, l4)
  BY <1>1, <1>5 DEF HoldsTag, Check
<1>8. q # << >>
  <2>1. Check(net, l4) \in Nat /\ Check(net, l4) > HeaderSize(net) + 1 /\ HeaderSize(net) \in {6, 7}
    BY <1>4, CheckPlaces, NetFields
  <2>2. q = << >> => Len(q) = 0
    BY EmptyList
  <2> QED
    BY <1>7, <2>1, <2>2
<1>9. q \in Quotes(w) /\ r.data = Sniffed(net, Router, IF net = "ipv4" THEN 11 ELSE 3, q)
  BY <1>2, <1>5, <1>8 DEF Answers
<1>10. Packet(q, net, l4) /\ TagOf(q) = TagOf(w)
  BY <1>4, <1>6, <1>7, <1>9, QuoteIsPacket
<1>11. PICK d, type : d = r.data /\ type = IF net = "ipv4" THEN 11 ELSE 3
  OBVIOUS
<1>12. Carries(d, net, q)
  <2>1. IsList(q)
    BY <1>10 DEF Packet
  <2> QED
    BY <1>4, <1>9, <1>11, <2>1, SniffedCarries
<1>13. PICK reply : reply = WrapPacket(d)
  OBVIOUS
<1>14. PICK pos : pos = Position(reply, "checksum", 3)
  OBVIOUS
<1>15. reply.data = d /\ pos = HeaderSize(net) + 3 + Check(net, l4)
  BY <1>4, <1>10, <1>12, <1>13, <1>14, WrapCarried DEF Check
<1>16. pos # 0 /\ ~(pos > Len(reply.data)) /\ reply.data[pos] = TagOf(w)
  <2>1. PICK c, H : c = Check(net, l4) /\ H = HeaderSize(net)
    OBVIOUS
  <2>2. c \in Nat /\ c > H + 1 /\ H \in {6, 7}
    BY <1>4, <2>1, CheckPlaces, NetFields
  <2>3. Len(q) \in Nat /\ c \in 1 .. Len(q) /\ Len(d) = H + 3 + Len(q)
    BY <1>4, <1>7, <1>10, <1>12, <2>1, <2>2, Sizes DEF Carries
  <2>4. d[H + 3 + c] = q[c]
    BY <1>12, <2>1, <2>3 DEF Carries
  <2>5. q[c] = TagOf(w)
    BY <1>10, <2>1 DEF TagOf
  <2>6. PICK k : k = H + 3 + c
    OBVIOUS
  <2>7. k # 0 /\ ~(k > Len(d))
    BY ONLY <2>2, <2>3, <2>6
  <2>8. pos = k
    BY ONLY <1>15, <2>1, <2>6
  <2> QED
    BY ONLY <1>15, <2>4, <2>5, <2>6, <2>7, <2>8
<1>17. ReplyTags(reply) = {TagOf(w)}
  BY <1>14, <1>16 DEF ReplyTags
<1>18. PICK tag : tag = TagOf(w)
  OBVIOUS
<1>19. flying' = IF MatchingProbe(tag) = 0 THEN flying ELSE RemoveAt(flying, MatchingProbe(tag))
  <2>1. Head(inbox) = r
    BY <1>1, <1>2
  <2>2. ReplyTags(WrapPacket(Head(inbox).data)) = {tag}
    BY <1>11, <1>13, <1>17, <1>18, <2>1
  <2> QED
    BY <2>2 DEF ProcessRecvq
<1>20. PICK match : match = {i \in DOMAIN flying :
                               flying[i].probe.data[TagPosition(flying[i].probe)] = tag}
  OBVIOUS
<1>21. MatchingProbe(tag) = IF match = {} THEN 0 ELSE Min(match)
  BY <1>20 DEF MatchingProbe
<1>22. \A i \in DOMAIN flying : i \in match <=> flying[i].id = r.of
  <2> SUFFICES ASSUME NEW i \in DOMAIN flying PROVE i \in match <=> flying[i].id = r.of
    OBVIOUS
  <2>1. PICK p, s : p = flying[i].probe /\ s = Rest(p.data, net, l4)
    OBVIOUS
  <2>2. Made(p, net, l4, s)
    BY <1>3, <2>1 DEF Running, GoodQueue, GoodProbe, Whole
  <2>3. TagPosition(p) = Check(net, l4)
    BY <1>4, <2>2, FieldPlaces DEF Made, TagPosition, Check
  <2>4. i \in match <=> TagOf(p.data) = tag
    BY <1>20, <2>1, <2>3 DEF TagOf
  <2>5. PICK k : k = flying[i].id
    OBVIOUS
  <2>6. k \in DOMAIN wire /\ p.data = wire[k].data
    BY <2>1, <2>5 DEF TagInv, FlyingLeft
  <2>7. TagOf(p.data) = tag <=> k = r.of
    BY <1>2, <1>5, <1>18, <2>6, TagsDiffer
  <2> QED
    BY <2>4, <2>5, <2>7
<1>23. match \in SUBSET Nat
  <2>1. DOMAIN flying = 1 .. Len(flying) /\ Len(flying) \in Nat
    BY ListDomain DEF TagInv
  <2> QED
    BY <1>20, <2>1
<1>24. CASE match = {}
  <2>1. flying' = flying
    BY <1>19, <1>21, <1>24
  <2>2. r.of \notin {flying[i].id : i \in DOMAIN flying}
    BY <1>22, <1>24
  <2> QED
    BY <1>1, <2>1, <2>2 DEF TakesOnly
<1>25. CASE match # {}
  <2>1. PICK i : i = Min(match)
    OBVIOUS
  <2>2. i \in match /\ i \in DOMAIN flying
    BY <1>20, <1>23, <1>25, <2>1, LeastIsMember
  <2>3. i # 0
    <3>1. DOMAIN flying = 1 .. Len(flying) /\ Len(flying) \in Nat
      BY ListDomain DEF TagInv
    <3> QED
      BY <2>2, <3>1
  <2>4. flying' = RemoveAt(flying, i)
    BY <1>19, <1>21, <1>25, <2>1, <2>3
  <2>5. flying[i].id = r.of
    BY <1>22, <2>2
  <2> QED
    BY <1>1, <2>2, <2>4, <2>5 DEF TakesOnly
<1> QED
  BY <1>24, <1>25

-----------------------------------------------------------------------------
(* Checksums *)

(* The sum of the words of a packet. *)
LEMMA SumIsTotal ==
    ASSUME NEW q, NEW n \in Nat, DOMAIN q = 1 .. n, \A i \in 1 .. n : q[i] \in Nat
    PROVE  WordSum(q) = Total(q, 1 .. n)
<1> DEFINE f == CHOOSE f : IsSum(f, q, DOMAIN q)
           S == 1 .. n
<1>1. WordSum(q) = f[DOMAIN q]
  BY DEF WordSum, FoldSeq, FoldFunction, FoldFunctionOnSet, MapThenFoldSet, IsSum
<1>2. IsFiniteSet(S) /\ \A s \in SUBSET S : IsFiniteSet(s)
  <2>1. IsFiniteSet(S)
    BY FS_Interval
  <2> QED
    BY <2>1, FS_Subset
<1>3. ASSUME NEW s \in SUBSET S, NEW x \in s
      PROVE  Total(q, s) = q[x] + Total(q, s \ {x})
  BY <1>2, TotalPart
<1>4. Total(q, {}) = 0
  BY TotalNone
<1>5. \E g : IsSum(g, q, S)
  <2> DEFINE g == [s \in SUBSET S |-> Total(q, s)]
  <2>1. ASSUME NEW s \in SUBSET S
        PROVE  g[s] = IF s = {} THEN 0
                      ELSE q[CHOOSE x \in s : TRUE] + g[s \ {CHOOSE x \in s : TRUE}]
    <3>1. CASE s = {}
      BY <1>4, <3>1
    <3>2. CASE s # {}
      <4>1. PICK x \in s : x = CHOOSE y \in s : TRUE
        BY <3>2
      <4>2. s \ {x} \in SUBSET S
        OBVIOUS
      <4>3. g[s] = q[x] + g[s \ {x}]
        BY <1>3, <4>2
      <4> HIDE DEF g
      <4> QED
        BY <3>2, <4>1, <4>3
    <3> QED
      BY <3>1, <3>2
  <2>2. g = [s \in SUBSET S |-> g[s]]
    OBVIOUS
  <2> HIDE DEF g, S
  <2>3. IsSum(g, q, S)
    BY <2>1, <2>2 DEF IsSum
  <2> QED
    BY <2>3
<1>6. IsSum(f, q, S)
  BY <1>5
<1> HIDE DEF f
<1>7. \A s \in SUBSET S : f[s] = Total(q, s)
  <2> DEFINE Bad == {k \in Nat : \E s \in SUBSET S : Cardinality(s) = k /\ f[s] # Total(q, s)}
  <2>1. SUFFICES ASSUME NEW s0 \in SUBSET S, f[s0] # Total(q, s0) PROVE FALSE
    OBVIOUS
  <2>2. Cardinality(s0) \in Bad
    BY <1>2, <2>1, FS_CardinalityType
  <2>3. PICK k \in Bad : \A j \in Bad : k <= j
    BY <2>2, LeastNumber
  <2>4. PICK s \in SUBSET S : Cardinality(s) = k /\ f[s] # Total(q, s)
    BY <2>3
  <2>5. s # {}
    <3>1. f[{}] = 0
      <4>1. {} \in SUBSET S
        OBVIOUS
      <4> HIDE DEF S
      <4> QED
        BY <1>6, <4>1 DEF IsSum
    <3> QED
      BY <1>4, <2>4, <3>1
  <2>6. PICK x \in s : x = CHOOSE y \in s : TRUE
    BY <2>5
  <2>7. f[s] = q[x] + f[s \ {x}]
    <3> HIDE DEF S
    <3> QED
      BY <1>6, <2>5, <2>6 DEF IsSum
  <2>8. f[s \ {x}] = Total(q, s \ {x})
    <3>1. s \ {x} \in SUBSET S
      OBVIOUS
    <3>2. Cardinality(s \ {x}) = k - 1 /\ Cardinality(s \ {x}) \in Nat
      <4>1. IsFiniteSet(s) /\ IsFiniteSet(s \ {x})
        BY <1>2, <3>1
      <4> QED
        BY <2>4, <4>1, FS_RemoveElement, FS_CardinalityType
    <3>3. k \in Nat /\ k - 1 \notin Bad
      BY <2>3
    <3> QED
      BY <3>1, <3>2, <3>3
  <2> QED
    BY <1>3, <2>4, <2>7, <2>8
<1> QED
  BY <1>1, <1>7

LEMMA Multiple ==
    ASSUME NEW k \in Int, NEW m \in Nat \ {0}
    PROVE  (k * m) % m = 0
<1> DEFINE z == k * m
           a == z \div m
           r == z % m
<1>1. z \in Int /\ a \in Int /\ r \in 0 .. m - 1 /\ z = a * m + r
  BY SMT
<1>2. (k - a) * m = r
  <2>1. a \in Int /\ k * m = a * m + r /\ r \in Int
    BY <1>1
  <2> HIDE DEF a, r
  <2>2. (k - a) * m = k * m - a * m
    BY <2>1
  <2>3. k * m \in Int /\ a * m \in Int
    BY <2>1
  <2> QED
    BY <2>1, <2>2, <2>3
<1>3. \A i \in Int : i >= 1 => i * m >= m
  BY SMT
<1>4. \A i \in Int : i <= -1 => i * m <= -m
  BY SMT
<1>5. k - a \in Int
  BY <1>1
<1> HIDE DEF z, a, r
<1>6. ~(k - a >= 1)
  BY <1>1, <1>2, <1>3, <1>5
<1>7. ~(k - a <= -1)
  BY <1>1, <1>2, <1>4, <1>5
<1>8. k - a = 0
  BY <1>5, <1>6, <1>7
<1>9. r = 0
  BY <1>2, <1>8
<1> QED
  BY <1>9 DEF z, r

(* A segment and its checksum amount to a multiple of W - 1. *)
LEMMA CsumAdds ==
    ASSUME NEW q, NEW x \in Nat, WordSum(q) = x, x < W * W
    PROVE  /\ Csum(q) \in Words
           /\ (x + Csum(q)) % (W - 1) = 0
           /\ x + Csum(q) > 0
<1>1. W \in Nat /\ W >= 256
  BY ProtocolsAssumption
<1> DEFINE a == x \div W
           r == x % W
           once == a + r
           twice == once + (once \div W)
           c == (W - 1) - (twice % W)
<1>2. Csum(q) = c
  BY DEF Csum
<1>3. a \in Nat /\ r \in 0 .. W - 1 /\ x = a * W + r
  <2>1. W \in Nat \ {0}
    BY <1>1
  <2> QED
    BY <2>1, DivMod
<1>4. a <= W - 1
  <2>1. SUFFICES ASSUME a >= W PROVE FALSE
    BY <1>1, <1>3
  <2>2. a * W >= W * W
    <3> HIDE DEF a
    <3>1. (a - W) * W >= 0
      BY <1>1, <1>3, <2>1
    <3>2. (a - W) * W = a * W - W * W
      BY <1>1, <1>3
    <3>3. a * W \in Int /\ W * W \in Int
      BY <1>1, <1>3
    <3> QED
      BY <3>1, <3>2, <3>3
  <2>3. a * W \in Int /\ W * W \in Int
    BY <1>1, <1>3
  <2> HIDE DEF a, r
  <2> QED
    BY <1>1, <1>3, <2>2, <2>3
<1> HIDE DEF a, r
<1>5. once \in Nat /\ once <= 2 * W - 2
  BY <1>1, <1>3, <1>4
<1>6. x = a * (W - 1) + once
  <2>1. a * (W - 1) = a * W - a
    BY <1>1, <1>3
  <2>2. a * W \in Int
    BY <1>1, <1>3
  <2> QED
    BY <1>1, <1>3, <2>1, <2>2
<1> HIDE DEF once
<1>7. CASE once < W
  <2>1. once \div W = 0
    BY <1>1, <1>5, <1>7
  <2>2. twice = once
    BY <1>5, <2>1
  <2>3. once % W = once
    BY <1>1, <1>5, <1>7
  <2>4. c = (W - 1) - once
    BY <2>2, <2>3
  <2>5. x + c = (a + 1) * (W - 1)
    <3>1. (a + 1) * (W - 1) = a * (W - 1) + (W - 1)
      BY <1>1, <1>3
    <3>2. a * (W - 1) \in Int
      BY <1>1, <1>3
    <3> QED
      BY <1>1, <1>5, <1>6, <2>4, <3>1, <3>2
  <2>6. c \in 0 .. W - 1
    BY <1>1, <1>5, <1>7, <2>4
  <2>7. x + c > 0
    <3>1. a * (W - 1) \in Nat
      BY <1>1, <1>3
    <3> QED
      BY <1>1, <1>5, <1>6, <2>4, <3>1
  <2>8. (x + c) % (W - 1) = 0
    <3>1. W - 1 \in Nat \ {0} /\ a + 1 \in Int
      BY <1>1, <1>3
    <3>2. ((a + 1) * (W - 1)) % (W - 1) = 0
      BY <3>1, Multiple
    <3> HIDE DEF c
    <3> QED
      BY <2>5, <3>2
  <2> HIDE DEF c
  <2> QED
    BY <1>2, <2>6, <2>7, <2>8 DEF Words
<1>8. CASE once >= W
  <2>1. once \div W = 1
    BY <1>1, <1>5, <1>8
  <2>2. twice = once + 1
    BY <2>1
  <2>3. (once + 1) % W = once + 1 - W
    <3>1. CASE once + 1 < 2 * W
      BY <1>1, <1>5, <1>8, <3>1
    <3> QED
      BY <1>1, <1>5, <3>1
  <2>4. c = (W - 1) - (once + 1 - W)
    BY <2>2, <2>3
  <2>5. x + c = (a + 2) * (W - 1)
    <3>1. (a + 2) * (W - 1) = a * (W - 1) + 2 * (W - 1)
      BY <1>1, <1>3
    <3>2. a * (W - 1) \in Int
      BY <1>1, <1>3
    <3> QED
      BY <1>1, <1>5, <1>6, <2>4, <3>1, <3>2
  <2>6. c \in 0 .. W - 1
    BY <1>1, <1>5, <1>8, <2>4
  <2>7. x + c > 0
    <3>1. a * (W - 1) \in Nat
      BY <1>1, <1>3
    <3> QED
      BY <1>1, <1>5, <1>6, <1>8, <2>4, <3>1
  <2>8. (x + c) % (W - 1) = 0
    <3>1. W - 1 \in Nat \ {0} /\ a + 2 \in Int
      BY <1>1, <1>3
    <3>2. ((a + 2) * (W - 1)) % (W - 1) = 0
      BY <3>1, Multiple
    <3> HIDE DEF c
    <3> QED
      BY <2>5, <3>2
  <2> HIDE DEF c
  <2> QED
    BY <1>2, <2>6, <2>7, <2>8 DEF Words
<1> QED
  BY <1>1, <1>5, <1>7, <1>8

-----------------------------------------------------------------------------
(* Packets whose words are words, with nothing but zeros for a payload *)

Clean(d, net, l4) ==
    \A k \in 1 .. Len(d) : d[k] \in Words /\ (k > HeaderSize(net) + HeaderSize(l4) => d[k] = 0)

(* The lengths in its headers are right. *)
Measured(d, net, l4) ==
    /\ d[2] = (IF net = "ipv4" THEN Len(d) ELSE Len(d) - HeaderSize(net))
    /\ l4 = "udp" => d[HeaderSize(net) + 3] = Len(d) - HeaderSize(net)

(* A packet that the checksums can be computed of. *)
Sound(d, net, l4) == Clean(d, net, l4) /\ Measured(d, net, l4) /\ Len(d) + 4 \in Words

(* The words of the headers but for the lengths. *)
Free(k, net, l4) ==
    /\ k \in 1 .. HeaderSize(net) + HeaderSize(l4)
    /\ k # 2
    /\ l4 = "udp" => k # HeaderSize(net) + 3

LEMMA CleanExcept ==
    ASSUME NEW net, NEW l4, NEW d, IsList(d), Clean(d, net, l4), NEW k, NEW v \in Words,
           k \in 1 .. HeaderSize(net) + HeaderSize(l4),
           HeaderSize(net) \in Nat, HeaderSize(l4) \in Nat
    PROVE  Clean([d EXCEPT ![k] = v], net, l4)
<1>1. PICK e : e = [d EXCEPT ![k] = v]
  OBVIOUS
<1>2. Len(e) = Len(d)
  BY <1>1, ListExcept
<1>3. DOMAIN d = 1 .. Len(d) /\ Len(d) \in Nat
  BY ListDomain
<1>4. \A i \in 1 .. Len(d) : e[i] = IF i = k THEN v ELSE d[i]
  BY <1>1, <1>3
<1>5. Clean(e, net, l4)
  BY <1>2, <1>3, <1>4 DEF Clean
<1> QED
  BY <1>1, <1>5

LEMMA SoundExcept ==
    ASSUME NEW net \in IpNames, NEW l4 \in TransportNames,
           NEW d, IsList(d), Sound(d, net, l4), NEW k, Free(k, net, l4), NEW v \in Words
    PROVE  Sound([d EXCEPT ![k] = v], net, l4)
<1>1. PICK e : e = [d EXCEPT ![k] = v]
  OBVIOUS
<1>2. HeaderSize(net) \in Nat /\ HeaderSize(l4) \in Nat
  BY NetFields, TransportFields
<1>3. Clean(e, net, l4)
  BY <1>1, <1>2, CleanExcept DEF Sound, Free
<1>4. Len(e) = Len(d)
  BY <1>1, ListExcept
<1>5. e[2] = d[2] /\ (l4 = "udp" => e[HeaderSize(net) + 3] = d[HeaderSize(net) + 3])
  BY <1>1 DEF Free
<1>6. Measured(e, net, l4)
  BY <1>4, <1>5 DEF Sound, Measured
<1> QED
  BY <1>1, <1>3, <1>4, <1>6 DEF Sound

LEMMA FieldName ==
    ASSUME NEW proto, NEW name, HasField(proto, name), Len(Protocol[proto].fields) \in Nat
    PROVE  /\ FieldOffset(proto, name) \in 1 .. HeaderSize(proto)
           /\ Protocol[proto].fields[FieldOffset(proto, name)] = name
  BY DEF HasField, Contains, FieldOffset, HeaderSize

(* Where the fields are that are not lengths. *)
LEMMA FieldIsFree ==
    ASSUME NEW net \in IpNames, NEW l4 \in TransportNames, NEW name, name # "length"
    PROVE  /\ HasField(net, name) => Free(FieldOffset(net, name), net, l4)
           /\ HasField(l4, name) => Free(HeaderSize(net) + FieldOffset(l4, name), net, l4)
<1>1. /\ HeaderSize(net) \in {6, 7} /\ HeaderSize(l4) \in {3, 4, 5}
      /\ Len(Protocol[net].fields) \in Nat /\ Len(Protocol[l4].fields) \in Nat
  BY NetFields, TransportFields DEF HeaderSize
<1>2. Protocol[net].fields[2] = "length"
  BY DEF Protocol, Ipv4, Ipv6, IpNames
<1>3. l4 = "udp" => Protocol[l4].fields[3] = "length"
  BY DEF Protocol, Udp
<1>4. HasField(net, name) => Free(FieldOffset(net, name), net, l4)
  <2> SUFFICES ASSUME HasField(net, name)
               PROVE  Free(FieldOffset(net, name), net, l4)
    OBVIOUS
  <2>1. FieldOffset(net, name) \in 1 .. HeaderSize(net) /\ FieldOffset(net, name) # 2
    BY <1>1, <1>2, FieldName
  <2> QED
    BY <1>1, <2>1 DEF Free
<1>5. HasField(l4, name) => Free(HeaderSize(net) + FieldOffset(l4, name), net, l4)
  <2> SUFFICES ASSUME HasField(l4, name)
               PROVE  Free(HeaderSize(net) + FieldOffset(l4, name), net, l4)
    OBVIOUS
  <2>1. FieldOffset(l4, name) \in 1 .. HeaderSize(l4) /\ (l4 = "udp" => FieldOffset(l4, name) # 3)
    BY <1>1, <1>3, FieldName
  <2> QED
    BY <1>1, <2>1 DEF Free
<1> QED
  BY <1>4, <1>5

(* Setting a field, as a layer or a probe does. *)
LEMMA LayerSetSound ==
    ASSUME NEW net \in IpNames, NEW l4 \in TransportNames, NEW s,
           NEW ls, IsLayers(ls, net, l4, s), NEW i \in 1 .. 3,
           NEW name, name # "length", NEW v \in Words,
           NEW d, IsList(d), Sound(d, net, l4)
    PROVE  Sound(LayerSet(d, ls[i], name, v), net, l4)
<1>1. CASE ~LayerHas(ls[i], name)
  BY <1>1 DEF LayerSet
<1>2. CASE LayerHas(ls[i], name)
  <2>1. LayerSet(d, ls[i], name, v) = [d EXCEPT ![FieldAt(ls[i], name)] = v]
    BY <1>2 DEF LayerSet
  <2>2. Free(FieldAt(ls[i], name), net, l4)
    <3>1. i # 3
      BY <1>2 DEF LayerHas, IsProtocol, IsLayers
    <3>2. CASE i = 1
      <4>1. HasField(net, name) /\ FieldAt(ls[i], name) = 0 + FieldOffset(net, name)
        BY <1>2, <3>2 DEF LayerHas, FieldAt, IsLayers
      <4>2. Free(FieldOffset(net, name), net, l4)
        BY <4>1, FieldIsFree
      <4>3. 0 + FieldOffset(net, name) = FieldOffset(net, name)
        BY <4>2, NetFields, TransportFields DEF Free
      <4> QED
        BY <4>1, <4>2, <4>3
    <3>3. CASE i = 2
      <4>1. HasField(l4, name) /\ FieldAt(ls[i], name) = HeaderSize(net) + FieldOffset(l4, name)
        BY <1>2, <3>3 DEF LayerHas, FieldAt, IsLayers
      <4> QED
        BY <4>1, FieldIsFree
    <3> QED
      BY <3>1, <3>2, <3>3
  <2> QED
    BY <2>1, <2>2, SoundExcept
<1> QED
  BY <1>1, <1>2

LEMMA SetFieldSound ==
    ASSUME NEW net \in IpNames, NEW l4 \in TransportNames, NEW s, NEW p, Made(p, net, l4, s),
           Sound(p.data, net, l4), NEW name, name # "length", NEW v \in Words
    PROVE  Sound(SetFieldFrom(p, name, v, 0).data, net, l4)
<1>1. PICK k : k = Position(p, name, 0)
  OBVIOUS
<1>2. IsLayers(p.layers, net, l4, s) /\ IsList(p.data) /\ p = [data |-> p.data, layers |-> p.layers]
  BY DEF Made, Packet
<1>3. CASE k = 0
  <2>1. SetFieldFrom(p, name, v, 0) = p
    BY <1>1, <1>3 DEF SetFieldFrom
  <2> QED
    BY <2>1
<1>4. CASE k # 0
  <2>1. Free(k, net, l4)
    <3>1. k = IF HasField(net, name) THEN FieldOffset(net, name)
              ELSE IF HasField(l4, name) THEN HeaderSize(net) + FieldOffset(l4, name) ELSE 0
      BY <1>1, <1>2, FieldIsAt
    <3> QED
      BY <1>4, <3>1, FieldIsFree
  <2> DEFINE e == [p.data EXCEPT ![k] = v]
  <2>2. SetFieldFrom(p, name, v, 0) = [p EXCEPT !.data = e]
    BY <1>1, <1>2, <1>4 DEF SetFieldFrom
  <2>3. Sound(e, net, l4)
    BY <1>2, <2>1, SoundExcept
  <2> HIDE DEF e
  <2>4. SetFieldFrom(p, name, v, 0).data = e
    BY <1>2, <2>2
  <2> QED
    BY <2>3, <2>4
<1> QED
  BY <1>3, <1>4

-----------------------------------------------------------------------------
(* Lengths *)

LEMMA FirstLength ==
    ASSUME NEW net \in IpNames, NEW l4 \in TransportNames, NEW s,
           NEW ls, IsLayers(ls, net, l4, s), NEW d, IsList(d), Clean(d, net, l4),
           Len(d) >= HeaderSize(net) + HeaderSize(l4), Len(d) + 4 \in Words,
           NEW e, e = LayerSetLength(d, ls[1], Len(d))
    PROVE  /\ IsList(e) /\ Len(e) = Len(d) /\ Clean(e, net, l4)
           /\ e[2] = (IF net = "ipv4" THEN Len(d) ELSE Len(d) - HeaderSize(net))
<1>1. /\ HeaderSize(net) = (IF net = "ipv4" THEN 7 ELSE 6) /\ HeaderSize(l4) \in {3, 4, 5}
      /\ HasField(net, "length") /\ FieldOffset(net, "length") = 2
      /\ net # "ipv4" => net = "ipv6"
  <2>1. HeaderSize("ipv6") = 6
    BY DEF HeaderSize, Protocol, Ipv6
  <2> QED
    BY <2>1, NetFields, TransportFields DEF IpNames
<1>2. ls[1].proto = net /\ ls[1].at = 0 /\ net # Payload
  BY DEF IsLayers, IpNames, Payload
<1>3. FieldAt(ls[1], "length") = 2 /\ LayerHas(ls[1], "length")
  BY <1>1, <1>2 DEF FieldAt, LayerHas, IsProtocol
<1>4. PICK v : v = IF net = "ipv4" THEN Len(d) ELSE Len(d) - HeaderSize(net)
  OBVIOUS
<1>5. Len(d) \in Nat /\ DOMAIN d = 1 .. Len(d)
  BY ListDomain
<1>6. v \in Words
  <2>1. W \in Nat /\ Len(d) + 4 \in 0 .. W - 1
    BY ProtocolsAssumption DEF Words
  <2>2. v \in 0 .. W - 1
    BY <1>1, <1>4, <1>5, <2>1
  <2> QED
    BY <2>2 DEF Words
<1>7. e = [d EXCEPT ![2] = v]
  <2>1. net = "ipv6" => ~(Len(d) < HeaderSize("ipv6"))
    BY <1>1, <1>5
  <2> QED
    BY <1>1, <1>2, <1>3, <1>4, <2>1 DEF LayerSetLength, LayerSet
<1>8. Clean(e, net, l4) /\ IsList(e) /\ Len(e) = Len(d)
  <2>1. PICK k : k = 2
    OBVIOUS
  <2>2. k \in 1 .. HeaderSize(net) + HeaderSize(l4) /\ HeaderSize(net) \in Nat /\ HeaderSize(l4) \in Nat
    BY <1>1, <2>1
  <2>3. e = [d EXCEPT ![k] = v]
    BY <1>7, <2>1
  <2>4. Clean([d EXCEPT ![k] = v], net, l4)
    BY <1>6, <2>2, CleanExcept
  <2>5. IsList([d EXCEPT ![k] = v]) /\ Len([d EXCEPT ![k] = v]) = Len(d)
    BY ListExcept
  <2> QED
    BY ONLY <2>3, <2>4, <2>5
<1>9. e[2] = v
  BY <1>1, <1>5, <1>7
<1> QED
  BY <1>4, <1>8, <1>9

LEMMA SecondLength ==
    ASSUME NEW net \in IpNames, NEW l4 \in TransportNames, NEW s,
           NEW ls, IsLayers(ls, net, l4, s), NEW d, IsList(d), Clean(d, net, l4),
           Len(d) >= HeaderSize(net) + HeaderSize(l4), Len(d) + 4 \in Words,
           d[2] = (IF net = "ipv4" THEN Len(d) ELSE Len(d) - HeaderSize(net)),
           NEW e, e = LayerSetLength(d, ls[2], Len(d) - HeaderSize(net))
    PROVE  Sound(e, net, l4)
<1>1. HeaderSize(net) \in {6, 7} /\ HeaderSize(l4) \in {3, 4, 5}
  BY NetFields, TransportFields
<1>2. ls[2].proto = l4 /\ ls[2].at = HeaderSize(net) /\ l4 # Payload /\ l4 # "ipv6"
  BY DEF IsLayers, TransportNames, IcmpNames, Payload
<1>3. Len(d) \in Nat /\ DOMAIN d = 1 .. Len(d)
  BY ListDomain
<1>4. PICK v : v = Len(d) - HeaderSize(net)
  OBVIOUS
<1>5. v \in Words
  <2>1. W \in Nat /\ Len(d) + 4 \in 0 .. W - 1
    BY ProtocolsAssumption DEF Words
  <2>2. v \in 0 .. W - 1
    BY <1>1, <1>3, <1>4, <2>1
  <2> QED
    BY <2>2 DEF Words
<1>6. e = LayerSet(d, ls[2], "length", v)
  BY <1>2, <1>4 DEF LayerSetLength
<1>7. CASE l4 # "udp"
  <2>1. ~LayerHas(ls[2], "length")
    BY <1>2, <1>7, TransportFields DEF LayerHas
  <2>2. e = d
    BY <1>6, <2>1 DEF LayerSet
  <2> QED
    BY <1>7, <2>2 DEF Sound, Measured
<1>8. CASE l4 = "udp"
  <2>1. PICK k : k = HeaderSize(net) + 3
    OBVIOUS
  <2>2. LayerHas(ls[2], "length") /\ FieldAt(ls[2], "length") = k /\ HeaderSize(l4) = 4
    <3>1. HasField(l4, "length") /\ FieldOffset(l4, "length") = 3
      BY <1>8, TransportFields
    <3>2. HeaderSize("udp") = 4
      BY DEF HeaderSize, Protocol, Udp
    <3> QED
      BY <1>2, <1>8, <2>1, <3>1, <3>2 DEF LayerHas, FieldAt, IsProtocol
  <2>3. e = [d EXCEPT ![k] = v]
    BY <1>6, <2>2 DEF LayerSet
  <2>4. k \in 1 .. HeaderSize(net) + HeaderSize(l4) /\ HeaderSize(net) \in Nat /\ HeaderSize(l4) \in Nat
        /\ k # 2 /\ k \in 1 .. Len(d)
    BY <1>1, <1>3, <2>1, <2>2
  <2>5. Clean(e, net, l4)
    BY <1>5, <2>3, <2>4, CleanExcept
  <2>6. Len(e) = Len(d)
    BY <2>3, ListExcept
  <2>7. e[2] = d[2] /\ e[k] = v
    <3>1. 2 \in DOMAIN d /\ k \in DOMAIN d /\ k # 2
      BY <1>1, <1>3, <2>4
    <3>2. [d EXCEPT ![k] = v][2] = d[2] /\ [d EXCEPT ![k] = v][k] = v
      BY <3>1
    <3> QED
      BY ONLY <2>3, <3>2
  <2> QED
    BY <1>4, <1>8, <2>1, <2>5, <2>6, <2>7 DEF Sound, Measured
<1> QED
  BY <1>7, <1>8

LEMMA LengthsMeasured ==
    ASSUME NEW net \in IpNames, NEW l4 \in TransportNames, NEW s,
           NEW ls, IsLayers(ls, net, l4, s), NEW d, IsList(d), Clean(d, net, l4),
           Len(d) >= HeaderSize(net) + HeaderSize(l4), Len(d) + 4 \in Words,
           NEW before, before[1] = 0, before[2] = HeaderSize(net)
    PROVE  Sound(SetLengths(d, ls, before), net, l4)
<1>1. SetLengths(d, ls, before) = Step(2, ls, before, Step(2, ls, before, d, 1), 2)
  BY LengthsLoop DEF IsLayers
<1>2. PICK e : e = LayerSetLength(d, ls[1], Len(d))
  OBVIOUS
<1>3. Step(2, ls, before, d, 1) = e
  <2>1. Len(d) - before[1] = Len(d)
    BY ListDomain
  <2> QED
    BY <1>2, <2>1 DEF Step
<1>4. /\ IsList(e) /\ Len(e) = Len(d) /\ Clean(e, net, l4)
      /\ e[2] = (IF net = "ipv4" THEN Len(d) ELSE Len(d) - HeaderSize(net))
  BY <1>2, FirstLength
<1>5. PICK g : g = LayerSetLength(e, ls[2], Len(e) - HeaderSize(net))
  OBVIOUS
<1>6. Step(2, ls, before, e, 2) = g
  BY <1>5 DEF Step
<1>7. Sound(g, net, l4)
  BY <1>4, <1>5, SecondLength
<1> QED
  BY <1>1, <1>3, <1>6, <1>7

-----------------------------------------------------------------------------
(* Words that add up to a multiple of W - 1 with their checksum *)

LEMMA WordsAre ==
    /\ W \in Nat /\ W >= 256
    /\ \A v : v \in Words <=> v \in 0 .. W - 1
    /\ \A v \in Words : v \in Nat
<1>1. W \in Nat /\ W >= 256
  BY ProtocolsAssumption
<1> QED
  BY <1>1 DEF Words

(* The checksum of the first m words, taken as 0, is put in one of them,   *)
(* and nothing but zeros follow.                                           *)
LEMMA SummedAdds ==
    ASSUME NEW m \in Nat, NEW n \in Nat, m <= n, m < W,
           NEW u, DOMAIN u = 1 .. m, \A k \in 1 .. m : u[k] \in Words,
           NEW c, c \in 1 .. m, u[c] = 0,
           NEW q, q[c] = Csum(u),
           \A k \in 1 .. m : k # c => q[k] = u[k],
           \A k \in 1 .. n : k > m => q[k] = 0
    PROVE  /\ Csum(u) \in Words
           /\ \A k \in 1 .. n : q[k] \in Words
           /\ Total(q, 1 .. n) % (W - 1) = 0
           /\ Total(q, 1 .. n) > 0
<1>1. W \in Nat /\ W >= 256 /\ \A v \in Words : v \in Nat
  BY WordsAre
<1>2. Total(u, 1 .. m) \in Nat /\ Total(u, 1 .. m) <= m * (W - 1)
  <2>1. PICK b : b = W - 1
    OBVIOUS
  <2>2. b \in Nat /\ \A k \in 1 .. m : u[k] \in 0 .. b
    BY <1>1, <2>1 DEF Words
  <2>3. Total(u, 1 .. m) \in Nat /\ Total(u, 1 .. m) <= m * b
    BY <2>2, TotalBound
  <2> QED
    BY <2>1, <2>3
<1>3. PICK x : x = Total(u, 1 .. m)
  OBVIOUS
<1>4. x \in Nat /\ x < W * W
  <2>1. m * (W - 1) <= (W - 1) * (W - 1)
    <3>1. (W - 1 - m) * (W - 1) >= 0
      BY <1>1
    <3>2. (W - 1 - m) * (W - 1) = (W - 1) * (W - 1) - m * (W - 1)
      BY <1>1
    <3>3. m * (W - 1) \in Int /\ (W - 1) * (W - 1) \in Int
      BY <1>1
    <3> QED
      BY <3>1, <3>2, <3>3
  <2>2. (W - 1) * (W - 1) < W * W
    <3>1. (W - 1) * (W - 1) = W * W - 2 * W + 1
      BY <1>1
    <3>2. W * W \in Int
      BY <1>1
    <3> QED
      BY <1>1, <3>1, <3>2
  <2>3. m * (W - 1) \in Int /\ (W - 1) * (W - 1) \in Int /\ W * W \in Int
    BY <1>1
  <2> QED
    BY <1>2, <1>3, <2>1, <2>2, <2>3
<1>5. WordSum(u) = x
  <2>1. \A k \in 1 .. m : u[k] \in Nat
    BY <1>1
  <2> QED
    BY <1>3, <2>1, SumIsTotal
<1>6. Csum(u) \in Words /\ (x + Csum(u)) % (W - 1) = 0 /\ x + Csum(u) > 0
  BY <1>4, <1>5, CsumAdds
<1>7. \A k \in 1 .. m : q[k] \in Words /\ q[k] \in Nat /\ u[k] \in Nat
  BY <1>1, <1>6
<1>8. \A k \in 1 .. n : q[k] \in Words
  <2>1. 0 \in Words
    BY <1>1 DEF Words
  <2>2. \A k \in 1 .. n : k \in 1 .. m \/ k > m
    OBVIOUS
  <2> QED
    BY <1>7, <2>1, <2>2
<1>9. Total(q, 1 .. m) = x + Csum(u)
  <2>1. IsFiniteSet(1 .. m)
    BY FS_Interval
  <2>2. Total(q, 1 .. m) + u[c] = Total(u, 1 .. m) + q[c]
    <3>1. PICK S : S = 1 .. m
      OBVIOUS
    <3>2. c \in S
      BY <3>1
    <3>3. IsFiniteSet(S)
      BY <2>1, <3>1
    <3>4. \A i \in S : u[i] \in Nat /\ q[i] \in Nat
      BY <1>7, <3>1
    <3>5. \A i \in S \ {c} : u[i] = q[i]
      BY <3>1
    <3>6. Total(q, S) + u[c] = Total(u, S) + q[c]
      BY ONLY <3>2, <3>5, <3>3, <3>4, TotalChange
    <3> QED
      BY <3>1, <3>6
  <2>3. Total(q, 1 .. m) \in Nat /\ Csum(u) \in Nat
    BY <1>1, <1>6, <1>7, <2>1, TotalIsFinite
  <2> QED
    BY <1>3, <1>4, <2>2, <2>3
<1>10. Total(q, 1 .. n) = Total(q, 1 .. m)
  <2>1. 1 .. m \in SUBSET (1 .. n)
    OBVIOUS
  <2>2. \A i \in (1 .. n) \ (1 .. m) : q[i] = 0
    OBVIOUS
  <2> QED
    BY <2>1, <2>2, TotalSupport
<1> QED
  BY <1>6, <1>8, <1>9, <1>10

-----------------------------------------------------------------------------
(* What the checksums are computed of *)

(* A version of IP and a protocol that goes with it. *)
Fit(net, l4) == l4 \in IcmpNames => l4 = IcmpOf(net)

(* The pseudo-header, if the checksum counts one: four words of the header *)
(* of IP.                                                                  *)
Counted(net, l4) == IF l4 = "icmpv4" THEN 0 ELSE 4

Pseudo(d, net, k) ==
    CASE k = 1 -> d[HeaderSize(net) - 1]
      [] k = 2 -> d[HeaderSize(net)]
      [] k = 3 -> d[IF net = "ipv4" THEN 4 ELSE 2]
      [] k = 4 -> (IF net = "ipv4" THEN d[2] - 7 ELSE d[3])

(* The words counted of the layer. *)
Span(d, net, l4) == IF l4 = "udp" THEN d[HeaderSize(net) + 3]
                    ELSE IF l4 = "tcp" THEN 6 ELSE 3

(* All that is counted, the checksum as 0, and "junk" beyond the packet. *)
Summed(d, net, l4, junk) ==
    LET c == Counted(net, l4)
    IN  [k \in 1 .. c + Span(d, net, l4) |->
           IF k <= c THEN Pseudo(d, net, k)
           ELSE IF k - c = FieldOffset(l4, "checksum") THEN 0
           ELSE IF HeaderSize(net) + (k - c) > Len(d) THEN junk ELSE d[HeaderSize(net) + (k - c)]]

LEMMA Pseudos ==
    ASSUME NEW net \in IpNames, NEW l4 \in TransportNames, NEW s,
           NEW ls, IsLayers(ls, net, l4, s), NEW d,
           d[1] = (IF net = "ipv4" THEN 4 ELSE 6), Fit(net, l4), l4 # "icmpv4"
    PROVE  /\ PseudoHeader(d, ls[1]) = <<Pseudo(d, net, 1), Pseudo(d, net, 2),
                                        Pseudo(d, net, 3), Pseudo(d, net, 4)>>
           /\ l4 = "icmpv6" => Ipv6PseudoHeader(d, ls[1]) = PseudoHeader(d, ls[1])
<1>1. ls[1].proto = net /\ ls[1].at = 0
  BY DEF IsLayers
<1>2. /\ HeaderSize(net) = (IF net = "ipv4" THEN 7 ELSE 6)
      /\ FieldOffset(net, "version") = 1 /\ FieldOffset(net, "length") = 2
      /\ FieldOffset(net, "protocol") = (IF net = "ipv4" THEN 4 ELSE 3)
      /\ FieldOffset(net, "src_ip") = HeaderSize(net) - 1
      /\ FieldOffset(net, "dst_ip") = HeaderSize(net)
  <2>1. HeaderSize("ipv6") = 6
    BY DEF HeaderSize, Protocol, Ipv6
  <2> QED
    BY <2>1, NetFields DEF IpNames
<1>3. /\ FieldAt(ls[1], "version") = 1 /\ FieldAt(ls[1], "length") = 2
      /\ FieldAt(ls[1], "protocol") = (IF net = "ipv4" THEN 4 ELSE 3)
      /\ FieldAt(ls[1], "src_ip") = HeaderSize(net) - 1
      /\ FieldAt(ls[1], "dst_ip") = HeaderSize(net)
  BY <1>1, <1>2 DEF FieldAt
<1>4. HeaderSize("ipv4") = 7
  BY DEF HeaderSize, Protocol, Ipv4
<1>5. CASE net = "ipv4"
  <2>1. PseudoHeader(d, ls[1]) = Ipv4PseudoHeader(d, ls[1])
    BY <1>3, <1>5 DEF PseudoHeader
  <2>2. l4 # "icmpv6"
    BY <1>5 DEF Fit, IcmpOf, IcmpNames
  <2> QED
    BY <1>3, <1>4, <1>5, <2>1, <2>2 DEF Ipv4PseudoHeader, Pseudo
<1>6. CASE net # "ipv4"
  <2>1. PseudoHeader(d, ls[1]) = Ipv6PseudoHeader(d, ls[1])
    BY <1>3, <1>6 DEF PseudoHeader
  <2> QED
    BY <1>3, <1>6, <2>1 DEF Ipv6PseudoHeader, Pseudo
<1> QED
  BY <1>5, <1>6

(* The list b is n words behind the header of IP, the checksum as 0.       *)
IsBlanked(b, d, net, l4, n, junk) ==
    /\ DOMAIN b = 1 .. n
    /\ \A k \in 1 .. n : b[k] = IF k = FieldOffset(l4, "checksum") THEN 0
                                ELSE IF HeaderSize(net) + k > Len(d) THEN junk
                                ELSE d[HeaderSize(net) + k]
    /\ b = [k \in 1 .. n |-> b[k]]

LEMMA BlankedIs ==
    ASSUME NEW net \in IpNames, NEW l4 \in TransportNames, NEW s,
           NEW ls, IsLayers(ls, net, l4, s), NEW d, NEW n \in Nat, NEW junk,
           NEW b, b = Blanked(d, ls[2], n, junk)
    PROVE  IsBlanked(b, d, net, l4, n, junk)
<1>1. ls[2].proto = l4 /\ ls[2].at = HeaderSize(net)
  BY DEF IsLayers
<1>2. FieldAt(ls[2], "checksum") = HeaderSize(net) + FieldOffset(l4, "checksum")
  BY <1>1 DEF FieldAt
<1>3. HeaderSize(net) \in Nat /\ FieldOffset(l4, "checksum") \in Nat
  BY NetFields, TransportFields
<1>4. \A k \in 1 .. n : HeaderSize(net) + k = HeaderSize(net) + FieldOffset(l4, "checksum")
                          <=> k = FieldOffset(l4, "checksum")
  BY <1>3
<1> QED
  BY <1>1, <1>2, <1>4 DEF Blanked, IsBlanked

LEMMA SummedIs ==
    ASSUME NEW net \in IpNames, NEW l4 \in TransportNames, NEW s,
           NEW ls, IsLayers(ls, net, l4, s), NEW d,
           d[1] = (IF net = "ipv4" THEN 4 ELSE 6), Fit(net, l4),
           Span(d, net, l4) \in Nat, NEW junk
    PROVE  Summed(d, net, l4, junk) =
             IF l4 = "icmpv4" THEN Blanked(d, ls[2], Span(d, net, l4), junk)
             ELSE PseudoHeader(d, ls[1]) \o Blanked(d, ls[2], Span(d, net, l4), junk)
<1>1. PICK m \in Nat : m = Span(d, net, l4)
  OBVIOUS
<1>2. PICK b : b = Blanked(d, ls[2], m, junk)
  OBVIOUS
<1>3. /\ DOMAIN b = 1 .. m
      /\ \A k \in 1 .. m : b[k] = IF k = FieldOffset(l4, "checksum") THEN 0
                                  ELSE IF HeaderSize(net) + k > Len(d) THEN junk
                                  ELSE d[HeaderSize(net) + k]
      /\ b = [k \in 1 .. m |-> b[k]]
  <2>1. IsBlanked(b, d, net, l4, m, junk)
    BY <1>2, BlankedIs
  <2> QED
    BY <2>1 DEF IsBlanked
<1>4. CASE l4 = "icmpv4"
  <2>1. Counted(net, l4) = 0
    BY <1>4 DEF Counted
  <2>2. Summed(d, net, l4, junk) = [k \in 1 .. m |-> b[k]]
    <3>1. 0 + m = m /\ \A k \in 1 .. m : ~(k <= 0) /\ k - 0 = k
      OBVIOUS
    <3> QED
      BY <1>1, <1>3, <2>1, <3>1 DEF Summed
  <2> QED
    BY <1>1, <1>2, <1>3, <1>4, <2>2
<1>5. CASE l4 # "icmpv4"
  <2>1. Counted(net, l4) = 4
    BY <1>5 DEF Counted
  <2>2. PICK h : h = PseudoHeader(d, ls[1])
    OBVIOUS
  <2>3. h = <<Pseudo(d, net, 1), Pseudo(d, net, 2), Pseudo(d, net, 3), Pseudo(d, net, 4)>>
    BY <1>5, <2>2, Pseudos
  <2>4. IsList(h) /\ Len(h) = 4 /\ \A k \in 1 .. 4 : h[k] = Pseudo(d, net, k)
    <3>1. Len(h) = 4 /\ \A k \in 1 .. 4 : h[k] = Pseudo(d, net, k)
      BY <2>3
    <3>2. PICK S : S = {Pseudo(d, net, 1), Pseudo(d, net, 2), Pseudo(d, net, 3), Pseudo(d, net, 4)}
      OBVIOUS
    <3>3. h \in Seq(S)
      BY <2>3, <3>2
    <3> QED
      BY <3>1, <3>3 DEF IsList
  <2>5. IsList(b) /\ Len(b) = m
    <3>1. IsList(b)
      BY <1>3, ListOfFunction
    <3> QED
      BY <1>3, <3>1, ListDomain
  <2>6. PICK j : j = h \o b
    OBVIOUS
  <2>7. /\ IsList(j) /\ Len(j) = 4 + m
        /\ \A k \in 1 .. 4 : j[k] = Pseudo(d, net, k)
        /\ \A k \in 1 .. m : j[4 + k] = b[k]
    <3>1. /\ IsList(h \o b) /\ Len(h \o b) = Len(h) + Len(b)
          /\ \A k \in 1 .. Len(h) : (h \o b)[k] = h[k]
          /\ \A k \in 1 .. Len(b) : (h \o b)[Len(h) + k] = b[k]
      <4>1. IsList(h)
        BY <2>4
      <4>2. IsList(b)
        BY <2>5
      <4> QED
        BY ONLY <4>1, <4>2, ListJoin
    <3> QED
      BY ONLY <2>4, <2>5, <2>6, <3>1
  <2>8. \A k \in 1 .. 4 + m : k > 4 => k - 4 \in 1 .. m /\ 4 + (k - 4) = k
    OBVIOUS
  <2>9. \A k \in 1 .. 4 + m : k > 4 => j[k] = b[k - 4]
    BY <2>7, <2>8
  <2>10. \A k \in 1 .. 4 + m : k <= 4 => k \in 1 .. 4
    OBVIOUS
  <2>11. PICK f : f = Summed(d, net, l4, junk)
    OBVIOUS
  <2>12. f = [k \in 1 .. 4 + m |-> IF k <= 4 THEN Pseudo(d, net, k) ELSE b[k - 4]]
    <3>1. \A k \in 1 .. 4 + m : k <= 4 \/ k > 4
      OBVIOUS
    <3> QED
      BY <1>1, <1>3, <2>1, <2>8, <2>11, <3>1 DEF Summed
  <2>13. \A k \in 1 .. 4 + m : f[k] = j[k]
    BY <2>7, <2>9, <2>10, <2>12
  <2>14. DOMAIN j = 1 .. 4 + m /\ j = [k \in 1 .. 4 + m |-> j[k]]
    <3>1. PICK S : j \in Seq(S)
      BY <2>7 DEF IsList
    <3> QED
      BY <2>7, <3>1
  <2>15. f = j
    BY <2>12, <2>13, <2>14
  <2> QED
    BY <1>1, <1>2, <1>5, <2>2, <2>6, <2>11, <2>15
<1> QED
  BY <1>4, <1>5

(* The words of the header of IPv4, its checksum as 0. *)
HeaderWords(d) == [k \in 1 .. 7 |-> IF k = 5 THEN 0 ELSE d[k]]

LEMMA IpBlanked ==
    ASSUME NEW l4, NEW s, NEW ls, IsLayers(ls, "ipv4", l4, s),
           NEW d, IsList(d), Len(d) >= 7, NEW junk
    PROVE  Blanked(d, ls[1], 7, junk) = HeaderWords(d)
<1>1. ls[1].proto = "ipv4" /\ ls[1].at = 0
  BY DEF IsLayers
<1>2. FieldAt(ls[1], "checksum") = 5
  <2>1. FieldOffset("ipv4", "checksum") = 5
    BY NetFields DEF IpNames
  <2> QED
    BY <1>1, <2>1 DEF FieldAt
<1>3. Len(d) \in Nat
  BY ListDomain
<1>4. \A k \in 1 .. 7 : 0 + k = k /\ ~(0 + k > Len(d))
  BY <1>3
<1> QED
  BY <1>1, <1>2, <1>4 DEF Blanked, HeaderWords

WithChecksum(d, net, l4, junk) == [d EXCEPT ![Check(net, l4)] = Csum(Summed(d, net, l4, junk))]

Checked(e, net) == IF net = "ipv4" THEN [e EXCEPT ![5] = Csum(HeaderWords(e))] ELSE e

(* What the update of the checksums writes: that of the layer above IP     *)
(* first.                                                                  *)
LEMMA ChecksumsAre ==
    ASSUME NEW net \in IpNames, NEW l4 \in TransportNames, NEW s,
           NEW ls, IsLayers(ls, net, l4, s), NEW d, Packet(d, net, l4), Fit(net, l4),
           Span(d, net, l4) \in Nat, NEW junk
    PROVE  UpdateChecksum(d, ls, junk) = Checked(WithChecksum(d, net, l4, junk), net)
<1>1. PICK e : e = [d EXCEPT ![Check(net, l4)] = Csum(Summed(d, net, l4, junk))]
  OBVIOUS
<1>2. UpdateChecksum(d, ls, junk) = Step(3, ls, junk, Step(3, ls, junk, Step(3, ls, junk, d, 3), 2), 1)
  BY ChecksumsLoop DEF IsLayers
<1>3. ls[1].proto = net /\ ls[2].proto = l4 /\ ls[3].proto = Payload /\ ls[2].at = HeaderSize(net)
  BY DEF IsLayers
<1>4. Step(3, ls, junk, d, 3) = d
  BY <1>3 DEF Step, WriteChecksum, Payload
<1>5. Step(3, ls, junk, d, 2) = e
  <2>1. PICK v : v = Csum(Summed(d, net, l4, junk))
    OBVIOUS
  <2>2. LayerHas(ls[2], "checksum") /\ FieldAt(ls[2], "checksum") = Check(net, l4)
    <3>1. l4 # Payload
      BY DEF TransportNames, IcmpNames, Payload
    <3> QED
      BY <1>3, <3>1, TransportFields DEF LayerHas, IsProtocol, FieldAt, Check
  <2>3. LayerSet(d, ls[2], "checksum", v) = e
    BY <1>1, <2>1, <2>2 DEF LayerSet
  <2>4. d[1] = (IF net = "ipv4" THEN 4 ELSE 6)
    BY DEF Packet
  <2>5. PICK b : b = Blanked(d, ls[2], Span(d, net, l4), junk)
    OBVIOUS
  <2>6. Summed(d, net, l4, junk) = IF l4 = "icmpv4" THEN b ELSE PseudoHeader(d, ls[1]) \o b
    <3>1. Summed(d, net, l4, junk) =
             IF l4 = "icmpv4" THEN Blanked(d, ls[2], Span(d, net, l4), junk)
             ELSE PseudoHeader(d, ls[1]) \o Blanked(d, ls[2], Span(d, net, l4), junk)
      BY <2>4, SummedIs
    <3> QED
      BY <2>5, <3>1
  <2>7. Step(3, ls, junk, d, 2) = WriteChecksum(d, ls, 2, junk)
    BY DEF Step
  <2>8. CASE l4 = "icmpv4"
    <3>1. Span(d, net, l4) = 3 /\ HeaderSize("icmpv4") = 3
      BY <2>8 DEF Span, HeaderSize, Protocol, Icmpv4
    <3>2. Icmpv4Checksum(d, ls[2], ls[1], junk) = v
      BY <2>1, <2>5, <2>6, <2>8, <3>1 DEF Icmpv4Checksum
    <3>3. WriteChecksum(d, ls, 2, junk) = LayerSet(d, ls[2], "checksum", Icmpv4Checksum(d, ls[2], ls[1], junk))
      BY <1>3, <2>8 DEF WriteChecksum
    <3> QED
      BY <2>3, <2>7, <3>2, <3>3
  <2>9. CASE l4 = "icmpv6"
    <3>1. Span(d, net, l4) = 3 /\ HeaderSize("icmpv6") = 3
      BY <2>9 DEF Span, HeaderSize, Protocol, Icmpv6
    <3>2. Ipv6PseudoHeader(d, ls[1]) = PseudoHeader(d, ls[1])
      BY <2>4, <2>9, Pseudos
    <3>3. Icmpv6Checksum(d, ls[2], ls[1], junk) = v
      BY <2>1, <2>5, <2>6, <2>9, <3>1, <3>2 DEF Icmpv6Checksum
    <3>4. WriteChecksum(d, ls, 2, junk) = LayerSet(d, ls[2], "checksum", Icmpv6Checksum(d, ls[2], ls[1], junk))
      BY <1>3, <2>9 DEF WriteChecksum
    <3> QED
      BY <2>3, <2>7, <3>3, <3>4
  <2>10. CASE l4 = "udp"
    <3>1. FieldAt(ls[2], "length") = HeaderSize(net) + 3
      <4>1. FieldOffset(l4, "length") = 3
        BY <2>10, TransportFields
      <4> QED
        BY <1>3, <4>1 DEF FieldAt
    <3>2. Span(d, net, l4) = d[FieldAt(ls[2], "length")]
      BY <2>10, <3>1 DEF Span
    <3>3. UdpChecksum(d, ls[2], ls[1], junk) = v
      BY <2>1, <2>5, <2>6, <2>10, <3>2 DEF UdpChecksum
    <3>4. WriteChecksum(d, ls, 2, junk) = LayerSet(d, ls[2], "checksum", UdpChecksum(d, ls[2], ls[1], junk))
      BY <1>3, <2>10 DEF WriteChecksum
    <3> QED
      BY <2>3, <2>7, <3>3, <3>4
  <2>11. CASE l4 = "tcp"
    <3>1. Span(d, net, l4) = HeaderSize("tcp") + 1
      <4>1. HeaderSize("tcp") = 5
        BY DEF HeaderSize, Protocol, Tcp
      <4> QED
        BY <2>11, <4>1 DEF Span
    <3>2. TcpChecksum(d, ls[2], ls[1], junk) = v
      BY <2>1, <2>5, <2>6, <2>11, <3>1 DEF TcpChecksum
    <3>3. WriteChecksum(d, ls, 2, junk) = LayerSet(d, ls[2], "checksum", TcpChecksum(d, ls[2], ls[1], junk))
      BY <1>3, <2>11 DEF WriteChecksum
    <3> QED
      BY <2>3, <2>7, <3>2, <3>3
  <2> QED
    BY <2>8, <2>9, <2>10, <2>11 DEF TransportNames, IcmpNames
<1>6. Step(3, ls, junk, e, 1) = IF net = "ipv4" THEN [e EXCEPT ![5] = Csum(HeaderWords(e))] ELSE e
  <2>1. Step(3, ls, junk, e, 1) = WriteChecksum(e, ls, 1, junk)
    BY DEF Step
  <2>2. CASE net = "ipv6"
    BY <1>3, <2>1, <2>2 DEF WriteChecksum
  <2>3. CASE net = "ipv4"
    <3>1. WriteChecksum(e, ls, 1, junk) = LayerSet(e, ls[1], "checksum", Ipv4Checksum(e, ls[1], ls[1], junk))
      BY <1>3, <2>3 DEF WriteChecksum
    <3>2. LayerHas(ls[1], "checksum") /\ FieldAt(ls[1], "checksum") = 5
      <4>1. HasField(net, "checksum") /\ FieldOffset(net, "checksum") = 5
        BY <2>3, NetFields
      <4>2. ls[1].at = 0 /\ net # Payload
        BY DEF IsLayers, IpNames, Payload
      <4> QED
        BY <1>3, <4>1, <4>2 DEF LayerHas, IsProtocol, FieldAt
    <3>3. Ipv4Checksum(e, ls[1], ls[1], junk) = Csum(HeaderWords(e))
      <4>1. HeaderSize("ipv4") = 7
        BY DEF HeaderSize, Protocol, Ipv4
      <4>2. IsList(d) /\ Len(d) \in Nat /\ Len(d) >= 7
        <5>1. IsList(d)
          BY DEF Packet
        <5> QED
          BY <2>3, <4>1, <5>1, Sizes
      <4>3. IsList(e) /\ Len(e) = Len(d)
        BY <1>1, <4>2, ListExcept
      <4>4. Blanked(e, ls[1], 7, junk) = HeaderWords(e)
        <5>1. IsLayers(ls, "ipv4", l4, s)
          BY <2>3
        <5>2. IsList(e) /\ Len(e) >= 7
          BY <4>2, <4>3
        <5> QED
          BY <5>1, <5>2, IpBlanked
      <4> QED
        BY <4>1, <4>4 DEF Ipv4Checksum
    <3>4. LayerSet(e, ls[1], "checksum", Csum(HeaderWords(e))) = [e EXCEPT ![5] = Csum(HeaderWords(e))]
      BY <3>2 DEF LayerSet
    <3> QED
      BY <2>1, <2>3, <3>1, <3>3, <3>4
  <2> QED
    BY <2>2, <2>3 DEF IpNames
<1> QED
  BY <1>1, <1>2, <1>4, <1>5, <1>6 DEF Checked, WithChecksum

-----------------------------------------------------------------------------
(* Packets whose checksums can be computed *)
Summable(d, net, l4) ==
    /\ \A k \in 1 .. Len(d) : d[k] \in Words
    /\ Measured(d, net, l4)
    /\ Len(d) + 4 \in Words

LEMMA SoundIsSummable ==
    ASSUME NEW d, NEW net, NEW l4, Sound(d, net, l4)
    PROVE  Summable(d, net, l4)
  BY DEF Sound, Clean, Summable

(* What is counted is words, few enough, among which is the checksum. *)
LEMMA SummedWords ==
    ASSUME NEW net \in IpNames, NEW l4 \in TransportNames, NEW d, Packet(d, net, l4),
           Summable(d, net, l4), Fit(net, l4), NEW junk \in Words,
           NEW u, u = Summed(d, net, l4, junk),
           NEW m, m = Counted(net, l4) + Span(d, net, l4)
    PROVE  /\ Span(d, net, l4) \in Nat
           /\ m \in Nat /\ m < W /\ DOMAIN u = 1 .. m
           /\ \A k \in 1 .. m : u[k] \in Words
           /\ Counted(net, l4) + FieldOffset(l4, "checksum") \in 1 .. m
           /\ u[Counted(net, l4) + FieldOffset(l4, "checksum")] = 0
<1>1. /\ HeaderSize(net) = (IF net = "ipv4" THEN 7 ELSE 6)
      /\ HeaderSize(l4) = (IF l4 = "udp" THEN 4 ELSE IF l4 = "tcp" THEN 5 ELSE 3)
      /\ FieldOffset(l4, "checksum") = (IF l4 = "udp" THEN 4 ELSE IF l4 = "tcp" THEN 5 ELSE 2)
  <2>1. HeaderSize("ipv6") = 6 /\ HeaderSize("udp") = 4 /\ HeaderSize("tcp") = 5
    BY DEF HeaderSize, Protocol, Ipv6, Udp, Tcp
  <2> QED
    BY <2>1, NetFields, TransportFields DEF IpNames, TransportNames
<1>2. Len(d) \in Nat /\ Len(d) >= HeaderSize(net) + HeaderSize(l4) /\ Len(d) + 4 < W /\ W \in Nat /\ W >= 256
  <2>1. Len(d) + 4 \in Words
    BY DEF Summable
  <2> QED
    BY <2>1, Sizes, WordsAre
<1>3. l4 = "udp" => d[HeaderSize(net) + 3] = Len(d) - HeaderSize(net)
  BY DEF Summable, Measured
<1>4. PICK sp : sp = Span(d, net, l4)
  OBVIOUS
<1>5. sp = IF l4 = "udp" THEN Len(d) - HeaderSize(net) ELSE IF l4 = "tcp" THEN 6 ELSE 3
  BY <1>3, <1>4 DEF Span
<1>6. PICK c : c = Counted(net, l4)
  OBVIOUS
<1>7. c \in {0, 4}
  BY <1>6 DEF Counted
<1>8. sp \in Nat /\ m \in Nat /\ m = c + sp /\ m < W /\ c + FieldOffset(l4, "checksum") \in 1 .. m
  <2>1. m = c + sp
    BY <1>4, <1>6
  <2>2. PICK z, h, t, f : z = Len(d) /\ h = HeaderSize(net) /\ t = HeaderSize(l4)
                          /\ f = FieldOffset(l4, "checksum")
    OBVIOUS
  <2>3. z \in Nat /\ h \in {6, 7} /\ z >= h + t /\ z + 4 < W /\ W \in Nat /\ W >= 256
    BY ONLY <1>1, <1>2, <2>2
  <2>4. CASE l4 = "udp"
    <3>1. t = 4 /\ f = 4 /\ sp = z - h
      BY ONLY <1>1, <1>5, <2>2, <2>4
    <3>2. sp \in Nat /\ sp >= 4 /\ sp <= z - 6
      BY ONLY <2>3, <3>1
    <3>3. m \in Nat /\ m < W
      BY ONLY <1>7, <2>1, <2>3, <3>2
    <3>4. c + f \in 1 .. m
      BY ONLY <1>7, <2>1, <3>1, <3>2
    <3> QED
      BY ONLY <2>1, <2>2, <3>2, <3>3, <3>4
  <2>5. CASE l4 # "udp"
    <3>1. (f = 5 /\ sp = 6) \/ (f = 2 /\ sp = 3)
      BY ONLY <1>1, <1>5, <2>2, <2>5
    <3>2. m \in Nat /\ m < W /\ c + f \in 1 .. m
      BY ONLY <1>7, <2>1, <2>3, <3>1
    <3> QED
      BY ONLY <2>1, <2>2, <3>1, <3>2
  <2> QED
    BY ONLY <2>4, <2>5
<1>9. u = [k \in 1 .. m |->
             IF k <= c THEN Pseudo(d, net, k)
             ELSE IF k - c = FieldOffset(l4, "checksum") THEN 0
             ELSE IF HeaderSize(net) + (k - c) > Len(d) THEN junk ELSE d[HeaderSize(net) + (k - c)]]
  BY <1>4, <1>6, <1>8 DEF Summed
<1>10. \A k \in 1 .. 4 : Pseudo(d, net, k) \in Words
  <2>1. \A k \in 1 .. Len(d) : d[k] \in Words
    BY DEF Summable
  <2>2. \A k \in 1 .. 7 : k <= HeaderSize(net) => d[k] \in Words
    BY <1>1, <1>2, <2>1
  <2>3. net = "ipv4" => d[2] - 7 \in Words
    <3>1. net = "ipv4" => d[2] = Len(d)
      BY DEF Summable, Measured
    <3>2. PICK z : z = Len(d)
      OBVIOUS
    <3>3. net = "ipv4" => z \in Nat /\ z >= 7 /\ z + 4 < W /\ W \in Nat
      BY ONLY <1>1, <1>2, <3>2
    <3>4. net = "ipv4" => z - 7 \in 0 .. W - 1
      BY ONLY <3>3
    <3> QED
      BY ONLY <3>1, <3>2, <3>4, WordsAre
  <2>4. d[HeaderSize(net) - 1] \in Words /\ d[HeaderSize(net)] \in Words
        /\ d[4] \in Words /\ d[2] \in Words /\ d[3] \in Words
    BY <1>1, <2>2
  <2>5. \A k \in 1 .. 4 : k = 1 \/ k = 2 \/ k = 3 \/ k = 4
    OBVIOUS
  <2> QED
    BY <2>3, <2>4, <2>5 DEF Pseudo
<1>11. ASSUME NEW k \in 1 .. m
       PROVE  u[k] \in Words
  <2>1. CASE k <= c
    <3>1. k \in 1 .. 4
      BY <1>7, <1>8, <2>1
    <3> QED
      BY <1>9, <1>10, <2>1, <3>1
  <2>2. CASE k > c
    <3>1. 0 \in Words
      BY WordsAre
    <3>2. HeaderSize(net) + (k - c) > Len(d) \/ HeaderSize(net) + (k - c) \in 1 .. Len(d)
      BY <1>1, <1>2, <1>7, <1>8, <2>2
    <3>3. \A i \in 1 .. Len(d) : d[i] \in Words
      BY DEF Summable
    <3>4. ~(k <= c)
      BY <1>7, <1>8, <2>2
    <3>5. u[k] = IF k - c = FieldOffset(l4, "checksum") THEN 0
                 ELSE IF HeaderSize(net) + (k - c) > Len(d) THEN junk ELSE d[HeaderSize(net) + (k - c)]
      BY <1>9, <3>4
    <3> QED
      BY <3>1, <3>2, <3>3, <3>5
  <2> QED
    BY <1>7, <1>8, <2>1, <2>2
<1>12. u[c + FieldOffset(l4, "checksum")] = 0
  <2>1. PICK i : i = c + FieldOffset(l4, "checksum")
    OBVIOUS
  <2>2. i \in 1 .. m /\ ~(i <= c) /\ i - c = FieldOffset(l4, "checksum")
    BY <1>1, <1>7, <1>8, <2>1
  <2> QED
    BY <1>9, <2>1, <2>2
<1>13. DOMAIN u = 1 .. m
  BY <1>9
<1> QED
  BY <1>4, <1>6, <1>8, <1>11, <1>12, <1>13

LEMMA HeaderSum ==
    ASSUME NEW d, \A k \in 1 .. 7 : d[k] \in Words,
           NEW u, u = HeaderWords(d)
    PROVE  /\ DOMAIN u = 1 .. 7 /\ \A k \in 1 .. 7 : u[k] \in Words
           /\ u[5] = 0 /\ \A k \in 1 .. 7 : k # 5 => u[k] = d[k]
<1>1. 0 \in Words
  BY WordsAre
<1> QED
  BY <1>1 DEF HeaderWords

(* A checksum is a word. *)
LEMMA CsumIsWord ==
    ASSUME NEW m \in Nat, m < W, NEW u, DOMAIN u = 1 .. m, \A k \in 1 .. m : u[k] \in Words,
           NEW c, c \in 1 .. m, u[c] = 0
    PROVE  Csum(u) \in Words
<1> DEFINE q == [k \in 1 .. m |-> IF k = c THEN Csum(u) ELSE u[k]]
<1>1. /\ q[c] = Csum(u)
      /\ \A k \in 1 .. m : k # c => q[k] = u[k]
      /\ \A k \in 1 .. m : k > m => q[k] = 0
  OBVIOUS
<1>2. m <= m
  OBVIOUS
<1> HIDE DEF q
<1> QED
  BY <1>1, <1>2, SummedAdds

LEMMA ChecksumsSound ==
    ASSUME NEW net \in IpNames, NEW l4 \in TransportNames, NEW s,
           NEW ls, IsLayers(ls, net, l4, s), NEW d, Packet(d, net, l4), Fit(net, l4),
           Sound(d, net, l4), NEW junk \in Words
    PROVE  Sound(UpdateChecksum(d, ls, junk), net, l4)
<1>1. PICK u : u = Summed(d, net, l4, junk)
  OBVIOUS
<1>2. PICK m : m = Counted(net, l4) + Span(d, net, l4)
  OBVIOUS
<1>3. PICK c : c = Counted(net, l4) + FieldOffset(l4, "checksum")
  OBVIOUS
<1>4. Summable(d, net, l4)
  BY SoundIsSummable
<1>5. /\ Span(d, net, l4) \in Nat
      /\ m \in Nat /\ m < W /\ DOMAIN u = 1 .. m
      /\ \A k \in 1 .. m : u[k] \in Words
      /\ c \in 1 .. m /\ u[c] = 0
  BY <1>1, <1>2, <1>3, <1>4, SummedWords
<1>6. Csum(u) \in Words
  BY <1>5, CsumIsWord
<1>7. PICK k : k = Check(net, l4)
  OBVIOUS
<1>8. Free(k, net, l4)
  <2>1. k \in Nat /\ k <= HeaderSize(net) + HeaderSize(l4) /\ k > HeaderSize(net) + 1
    BY <1>7, CheckPlaces
  <2>2. HeaderSize(net) \in {6, 7} /\ HeaderSize(l4) \in {3, 4, 5}
    BY NetFields, TransportFields
  <2>3. l4 = "udp" => k = HeaderSize(net) + 4
    BY <1>7, TransportFields DEF Check
  <2> QED
    BY <2>1, <2>2, <2>3 DEF Free
<1>9. PICK e : e = [d EXCEPT ![k] = Csum(u)]
  OBVIOUS
<1>10. IsList(d) /\ IsList(e) /\ Len(e) = Len(d)
  BY <1>9, ListExcept DEF Packet
<1>11. Sound(e, net, l4)
  <2>1. Sound([d EXCEPT ![k] = Csum(u)], net, l4)
    BY <1>6, <1>8, <1>10, SoundExcept
  <2> QED
    BY ONLY <1>9, <2>1
<1>12. UpdateChecksum(d, ls, junk) = IF net = "ipv4" THEN [e EXCEPT ![5] = Csum(HeaderWords(e))] ELSE e
  <2>1. e = [d EXCEPT ![Check(net, l4)] = Csum(Summed(d, net, l4, junk))]
    BY ONLY <1>1, <1>7, <1>9
  <2>2. Span(d, net, l4) \in Nat
    BY <1>5
  <2>3. UpdateChecksum(d, ls, junk) = Checked(WithChecksum(d, net, l4, junk), net)
    BY <2>2, ChecksumsAre
  <2> QED
    BY <2>1, <2>3 DEF Checked, WithChecksum
<1>13. CASE net # "ipv4"
  BY <1>11, <1>12, <1>13
<1>14. CASE net = "ipv4"
  <2>1. HeaderSize(net) = 7 /\ HeaderSize(l4) \in {3, 4, 5} /\ Len(d) \in Nat /\ Len(d) >= 7
    BY <1>14, Sizes, NetFields
  <2>2. \A i \in 1 .. 7 : e[i] \in Words
    <3>1. \A i \in 1 .. Len(e) : e[i] \in Words
      BY <1>11 DEF Sound, Clean
    <3> QED
      BY <1>10, <2>1, <3>1
  <2>3. PICK h : h = HeaderWords(e)
    OBVIOUS
  <2>4. Csum(h) \in Words
    <3>1. DOMAIN h = 1 .. 7 /\ (\A i \in 1 .. 7 : h[i] \in Words) /\ h[5] = 0
      BY <2>2, <2>3, HeaderSum
    <3>2. PICK n, b : n = 7 /\ b = 5
      OBVIOUS
    <3>3. n \in Nat /\ n < W /\ DOMAIN h = 1 .. n /\ b \in 1 .. n /\ h[b] = 0
          /\ \A i \in 1 .. n : h[i] \in Words
      BY <3>1, <3>2, WordsAre
    <3> QED
      BY <3>3, CsumIsWord
  <2>5. PICK b : b = 5
    OBVIOUS
  <2>6. Free(b, net, l4)
    BY <2>1, <2>5 DEF Free
  <2>7. Sound([e EXCEPT ![b] = Csum(h)], net, l4)
    BY <1>10, <1>11, <2>4, <2>6, SoundExcept
  <2>8. UpdateChecksum(d, ls, junk) = [e EXCEPT ![b] = Csum(h)]
    BY <1>12, <1>14, <2>3, <2>5
  <2> QED
    BY ONLY <2>7, <2>8
<1> QED
  BY <1>13, <1>14

-----------------------------------------------------------------------------
(* The operations on probes keep them so *)

LEMMA SourceSound ==
    ASSUME NEW net \in IpNames, NEW l4 \in TransportNames, NEW s, NEW p, Made(p, net, l4, s),
           Sound(p.data, net, l4)
    PROVE  Sound(Finalize(p).data, net, l4)
<1>1. Local \in Words
  BY ProtocolsAssumption
<1>2. PICK name : name = "src_ip"
  OBVIOUS
<1>3. name # "length"
  BY <1>2
<1>4. Sound(SetFieldFrom(p, name, Local, 0).data, net, l4)
  BY <1>1, <1>3, SetFieldSound
<1> QED
  BY <1>2, <1>4 DEF Finalize

LEMMA ProtocolSound ==
    ASSUME NEW net \in IpNames, NEW l4 \in TransportNames, NEW s, NEW p, Made(p, net, l4, s),
           Sound(p.data, net, l4)
    PROVE  Sound(UpdateProtocol(p).data, net, l4)
<1>1. PICK e : e = UpdateProtocol(p).data
  OBVIOUS
<1>2. Same(p.data, e, 1 .. Len(p.data))
  BY <1>1, ProtocolsKept
<1>3. Len(e) = Len(p.data) /\ \A k \in 1 .. Len(p.data) : e[k] = p.data[k]
  BY <1>2 DEF Same
<1>4. /\ HeaderSize(net) \in {6, 7} /\ HeaderSize(l4) \in {3, 4, 5} /\ Len(p.data) \in Nat
      /\ Len(p.data) >= HeaderSize(net) + HeaderSize(l4)
  BY Sizes DEF Made
<1>5. Clean(e, net, l4)
  BY <1>3 DEF Sound, Clean
<1>6. Measured(e, net, l4)
  <2>1. e[2] = p.data[2] /\ (l4 = "udp" => e[HeaderSize(net) + 3] = p.data[HeaderSize(net) + 3])
    BY <1>3, <1>4
  <2> QED
    BY <1>3, <2>1 DEF Sound, Measured
<1>7. Sound(e, net, l4)
  BY <1>3, <1>5, <1>6 DEF Sound
<1> QED
  BY <1>1, <1>7

LEMMA LengthSound ==
    ASSUME NEW net \in IpNames, NEW l4 \in TransportNames, NEW s, NEW p, Made(p, net, l4, s),
           Clean(p.data, net, l4), Len(p.data) + 4 \in Words
    PROVE  Sound(UpdateLength(p).data, net, l4)
<1> DEFINE d == p.data
           ls == p.layers
           n == Len(ls)
           before == [i \in 1 .. n |-> WordSum([k \in 1 .. i - 1 |-> HeaderSize(ls[k].proto)])]
           e == SetLengths(d, ls, before)
<1>1. n = 3 /\ IsLayers(ls, net, l4, s) /\ Packet(d, net, l4)
  BY DEF Made, IsLayers
<1>2. UpdateLength(p).data = e
  BY DEF UpdateLength
<1>3. before[1] = 0 /\ before[2] = HeaderSize(net)
  <2> DEFINE sizes(m) == [k \in 1 .. m |-> HeaderSize(ls[k].proto)]
  <2>1. before[1] = WordSum(sizes(0)) /\ before[2] = WordSum(sizes(1))
    BY <1>1
  <2>2. ls[1].proto = net
    BY <1>1 DEF IsLayers
  <2>3. sizes(1)[1] = HeaderSize(net) /\ DOMAIN sizes(1) = 1 .. 1 /\ DOMAIN sizes(0) = 1 .. 0
    BY <2>2
  <2>4. HeaderSize(net) \in Int
    BY NetFields
  <2> HIDE DEF sizes, before
  <2>5. WordSum(sizes(0)) = 0
    <3>1. DOMAIN sizes(0) = 1 .. 0 /\ \A i \in 1 .. 0 : sizes(0)[i] \in Int
      BY <2>3
    <3> QED
      BY <3>1, WordSumIs
  <2>6. WordSum(sizes(1)) = HeaderSize(net)
    <3>1. DOMAIN sizes(1) = 1 .. 1 /\ \A i \in 1 .. 1 : sizes(1)[i] \in Int
      BY <2>3, <2>4
    <3> QED
      BY <2>3, <3>1, WordSumIs
  <2> QED
    BY <2>1, <2>5, <2>6
<1> HIDE DEF before
<1>4. IsList(d) /\ Len(d) >= HeaderSize(net) + HeaderSize(l4)
  BY <1>1 DEF Packet
<1>5. Sound(e, net, l4)
  <2> HIDE DEF d, ls, e, n
  <2>1. Clean(d, net, l4) /\ Len(d) + 4 \in Words
    BY DEF d
  <2> QED
    BY <1>1, <1>3, <1>4, <2>1, LengthsMeasured DEF e
<1> QED
  BY <1>2, <1>5

LEMMA UpdateSound ==
    ASSUME NEW net \in IpNames, NEW l4 \in TransportNames, NEW s, NEW p, Made(p, net, l4, s),
           Fit(net, l4), Sound(p.data, net, l4), NEW junk \in Words
    PROVE  /\ Sound(UpdateFields(p, junk).data, net, l4)
           /\ Len(UpdateFields(p, junk).data) = Len(p.data)
<1>1. CASE ~routed
  <2>1. UpdateFields(p, junk) = p
    BY <1>1 DEF UpdateFields
  <2> QED
    BY <2>1
<1>2. CASE routed
  <2>1. PICK f : f = Finalize(p)
    OBVIOUS
  <2>2. PICK g : g = UpdateProtocol(f)
    OBVIOUS
  <2>3. PICK h : h = UpdateLength(g)
    OBVIOUS
  <2>4. PICK e : e = UpdateChecksum(h.data, h.layers, junk)
    OBVIOUS
  <2>5. PICK q : q = UpdateFields(p, junk)
    OBVIOUS
  <2>6. q = [h EXCEPT !.data = e]
    BY <1>2, <2>1, <2>2, <2>3, <2>4, <2>5 DEF UpdateFields
  <2>7. Made(f, net, l4, s) /\ Sound(f.data, net, l4)
    <3>1. PICK name : name = "src_ip"
      OBVIOUS
    <3>2. name \in Settable /\ f = SetFieldFrom(p, name, Local, 0)
      BY <2>1, <3>1 DEF Settable, Finalize
    <3> QED
      BY <2>1, <3>2, SetFieldMade, SourceSound
  <2>8. Made(g, net, l4, s) /\ Sound(g.data, net, l4)
    BY <2>2, <2>7, ProtocolsKept, ProtocolSound
  <2>9. Made(h, net, l4, Rest(g.data, net, l4)) /\ Sound(h.data, net, l4)
    BY <2>3, <2>8, LengthKept, LengthSound DEF Sound
  <2>10. Sound(e, net, l4)
    <3>1. PICK t : t = Rest(g.data, net, l4)
      OBVIOUS
    <3>2. IsLayers(h.layers, net, l4, t) /\ Packet(h.data, net, l4)
      BY <2>9, <3>1 DEF Made
    <3> QED
      BY <2>4, <2>9, <3>2, ChecksumsSound
  <2>11. q.data = e
    <3>1. h = [data |-> h.data, layers |-> h.layers]
      BY <2>9 DEF Made
    <3> QED
      BY <2>6, <3>1
  <2>12. Len(q.data) = Len(p.data)
    BY <1>2, <2>5, UpdateKept DEF Refreshed, Same
  <2> QED
    BY <2>5, <2>10, <2>11, <2>12
<1> QED
  BY <1>1, <1>2

(* What a longer packet is padded with. *)
LEMMA ResizedPads ==
    ASSUME NEW d, IsList(d), NEW n \in Nat
    PROVE  \A k \in 1 .. n : k > Len(d) => Resized(d, n)[k] = 0
<1>1. PICK S : d \in Seq(S)
  BY DEF IsList
<1>2. Len(d) \in Nat
  BY <1>1
<1>3. CASE n <= Len(d)
  BY <1>2, <1>3
<1>4. CASE n > Len(d)
  <2> DEFINE a == SubSeq(d, 1, Len(d))
             z == [i \in 1 .. n - Len(d) |-> 0]
  <2>1. Min({n, Len(d)}) = Len(d)
    BY <1>2, <1>4, MinOfTwo
  <2>2. Resized(d, n) = a \o z
    BY <2>1 DEF Resized
  <2>3. IsList(a) /\ Len(a) = Len(d)
    BY <1>1, <1>2 DEF IsList
  <2>4. IsList(z) /\ Len(z) = n - Len(d) /\ \A i \in 1 .. n - Len(d) : z[i] = 0
    <3>1. n - Len(d) \in Nat /\ z = [i \in 1 .. n - Len(d) |-> z[i]] /\ DOMAIN z = 1 .. n - Len(d)
          /\ \A i \in 1 .. n - Len(d) : z[i] = 0
      BY <1>2, <1>4
    <3> HIDE DEF z
    <3>2. IsList(z)
      BY <3>1, ListOfFunction
    <3> QED
      BY <3>1, <3>2, ListDomain
  <2> HIDE DEF a, z
  <2>5. \A i \in 1 .. Len(z) : (a \o z)[Len(a) + i] = z[i]
    BY <2>3, <2>4, ListJoin
  <2>6. SUFFICES ASSUME NEW k \in 1 .. n, k > Len(d)
                 PROVE  Resized(d, n)[k] = 0
    OBVIOUS
  <2>7. PICK i : i = k - Len(d)
    OBVIOUS
  <2>8. i \in 1 .. n - Len(d) /\ Len(d) + i = k
    BY <1>2, <1>4, <2>6, <2>7
  <2> QED
    BY <2>2, <2>3, <2>4, <2>5, <2>8
<1> QED
  BY <1>2, <1>3, <1>4

LEMMA ResizedClean ==
    ASSUME NEW net \in IpNames, NEW l4 \in TransportNames, NEW d, IsList(d), Clean(d, net, l4),
           NEW n \in Nat
    PROVE  Clean(Resized(d, n), net, l4)
<1>1. PICK e : e = Resized(d, n)
  OBVIOUS
<1>2. Len(e) = n /\ (\A k \in 1 .. n : k <= Len(d) => e[k] = d[k])
      /\ \A k \in 1 .. n : k > Len(d) => e[k] = 0
  BY <1>1, ResizedIs, ResizedPads
<1>3. Len(d) \in Nat /\ 0 \in Words
  BY ListDomain, WordsAre
<1>4. ASSUME NEW k \in 1 .. n
      PROVE  e[k] \in Words /\ (k > HeaderSize(net) + HeaderSize(l4) => e[k] = 0)
  <2>1. CASE k <= Len(d)
    <3>1. k \in 1 .. Len(d) /\ e[k] = d[k]
      BY <1>2, <1>3, <2>1
    <3> QED
      BY <3>1 DEF Clean
  <2>2. CASE k > Len(d)
    BY <1>2, <1>3, <2>2
  <2> QED
    BY <1>3, <2>1, <2>2
<1>5. Clean(e, net, l4)
  BY <1>2, <1>4 DEF Clean
<1> QED
  BY <1>1, <1>5

LEMMA PacketResizeSound ==
    ASSUME NEW net \in IpNames, NEW l4 \in TransportNames, NEW s, NEW p, Made(p, net, l4, s),
           Sound(p.data, net, l4), NEW n \in Nat, n >= HeaderSize(net) + HeaderSize(l4),
           n + 4 \in Words
    PROVE  Sound(PacketResize(p, n).data, net, l4)
<1> DEFINE d == p.data
           ls == p.layers
           e == Resized(d, n)
           before == [i \in DOMAIN ls |-> WordSum([k \in 1 .. i - 1 |-> ls[k].size])]
           ms == [i \in DOMAIN ls |-> [ls[i] EXCEPT !.at = before[i]]]
           f == SetLengths(e, ms, before)
           H == HeaderSize(net)
<1>1. PacketResize(p, n) = [data |-> f, layers |-> ms]
  BY DEF PacketResize, Resized
<1>2. /\ IsList(d) /\ IsLayers(ls, net, l4, s) /\ DOMAIN ls = 1 .. 3
  BY ListDomain DEF Made, Packet, IsLayers
<1>3. before[1] = 0 /\ before[2] = H
  <2> DEFINE sizes(n_) == [k \in 1 .. n_ |-> ls[k].size]
  <2>1. before[1] = WordSum(sizes(0)) /\ before[2] = WordSum(sizes(1))
    BY <1>2
  <2>2. ls[1].size = H
    BY <1>2 DEF IsLayers
  <2>3. sizes(1)[1] = H /\ DOMAIN sizes(1) = 1 .. 1 /\ DOMAIN sizes(0) = 1 .. 0
    BY <2>2
  <2>4. H \in Int
    BY NetFields
  <2> HIDE DEF sizes, before, H
  <2>5. WordSum(sizes(0)) = 0
    <3>1. DOMAIN sizes(0) = 1 .. 0 /\ \A i \in 1 .. 0 : sizes(0)[i] \in Int
      BY <2>3
    <3> QED
      BY <3>1, WordSumIs
  <2>6. WordSum(sizes(1)) = H
    <3>1. DOMAIN sizes(1) = 1 .. 1 /\ \A i \in 1 .. 1 : sizes(1)[i] \in Int
      BY <2>3, <2>4
    <3> QED
      BY <2>3, <3>1, WordSumIs
  <2> QED
    BY <2>1, <2>5, <2>6
<1>4. IsLayers(ms, net, l4, s)
  <2>1. Made(PacketResize(p, n), net, l4, s)
    BY ResizeKept
  <2>2. PacketResize(p, n).layers = ms
    BY <1>1
  <2> HIDE DEF ms
  <2> QED
    BY <2>1, <2>2 DEF Made
<1>5. IsList(e) /\ Len(e) = n
  BY <1>2, ResizedIs
<1>6. Clean(e, net, l4)
  BY <1>2, ResizedClean DEF Sound
<1>7. Sound(f, net, l4)
  <2> HIDE DEF before, ms, e, f, H
  <2>1. before[1] = 0 /\ before[2] = HeaderSize(net)
    BY <1>3 DEF H
  <2>2. Len(e) >= HeaderSize(net) + HeaderSize(l4) /\ Len(e) + 4 \in Words
    BY <1>5
  <2>3. Sound(SetLengths(e, ms, before), net, l4)
    BY <1>4, <1>5, <1>6, <2>1, <2>2, LengthsMeasured
  <2> QED
    BY <2>3 DEF f
<1> QED
  BY <1>1, <1>7

(* The skeleton of a program, and how many words of payload it has. *)
Small(p, net, l4, b) == Sound(p.data, net, l4) /\ Rest(p.data, net, l4) <= b

LEMMA PayloadResizeSound ==
    ASSUME NEW net \in IpNames, NEW l4 \in TransportNames, NEW p, Skeleton(p, net, l4),
           Fit(net, l4), NEW b \in Nat, b <= 16, Small(p, net, l4, b), NEW size \in 0 .. 2
    PROVE  Small(PayloadResize(p, size), net, l4, b + 2)
<1> DEFINE s == IF routed THEN Rest(p.data, net, l4) ELSE 0
           n == Len(p.data) - s + size
           q == PacketResize(p, n)
<1>1. Made(p, net, l4, s) /\ Packet(p.data, net, l4) /\ Sound(p.data, net, l4)
      /\ Rest(p.data, net, l4) <= b
  BY DEF Skeleton, Made, Small
<1>2. PayloadLayer(p).size = s
  BY <1>1, PayloadOf
<1>3. /\ HeaderSize(net) \in {6, 7} /\ HeaderSize(l4) \in {3, 4, 5}
      /\ Rest(p.data, net, l4) \in Nat
      /\ Len(p.data) = HeaderSize(net) + HeaderSize(l4) + Rest(p.data, net, l4)
  BY <1>1, Sizes
<1>4. s \in 0 .. Rest(p.data, net, l4)
  BY <1>3
<1> HIDE DEF s
<1>5. n \in Nat /\ n >= HeaderSize(net) + HeaderSize(l4)
      /\ n - HeaderSize(net) - HeaderSize(l4) <= b + 2 /\ n <= 30
  <2>1. PICK r \in Nat : r = Rest(p.data, net, l4)
    BY <1>3
  <2>2. PICK H, T : H = HeaderSize(net) /\ T = HeaderSize(l4)
    OBVIOUS
  <2>3. H \in {6, 7} /\ T \in {3, 4, 5} /\ Len(p.data) = H + T + r /\ r <= b /\ s \in 0 .. r
    BY <1>1, <1>3, <1>4, <2>1, <2>2
  <2>4. n = Len(p.data) - s + size
    OBVIOUS
  <2> HIDE DEF n, q
  <2>5. n \in Nat /\ n >= H + T /\ n - H - T <= b + 2 /\ n <= 30
    BY <2>3, <2>4
  <2> QED
    BY <2>2, <2>5
<1>6. n + 4 \in Words
  BY <1>5, WordsAre
<1> HIDE DEF n
<1>7. CASE size = s
  <2>1. PayloadResize(p, size) = p
    BY <1>2, <1>7 DEF PayloadResize
  <2>2. Rest(p.data, net, l4) <= b + 2
    BY <1>1, <1>3
  <2> QED
    BY <1>1, <2>1, <2>2 DEF Small
<1>8. CASE size # s
  <2>1. PayloadResize(p, size) = UpdateFields(q, 0)
    BY <1>2, <1>8 DEF PayloadResize, n
  <2>2. Made(q, net, l4, s) /\ Len(q.data) = n
    BY <1>1, <1>5, ResizeKept
  <2>3. Sound(q.data, net, l4)
    BY <1>1, <1>5, <1>6, PacketResizeSound
  <2> HIDE DEF q
  <2>4. Sound(UpdateFields(q, 0).data, net, l4) /\ Len(UpdateFields(q, 0).data) = Len(q.data)
    <3>1. PICK junk : junk = 0
      OBVIOUS
    <3>2. junk \in Words
      BY <3>1, WordsAre
    <3>3. Sound(UpdateFields(q, junk).data, net, l4) /\ Len(UpdateFields(q, junk).data) = Len(q.data)
      BY <2>2, <2>3, <3>2, UpdateSound
    <3> QED
      BY <3>1, <3>3
  <2>5. Rest(UpdateFields(q, 0).data, net, l4) <= b + 2
    BY <1>5, <2>2, <2>4 DEF Rest
  <2> QED
    BY <2>1, <2>4, <2>5 DEF Small
<1> QED
  BY <1>7, <1>8

(* What a payload that fits writes. *)
Over(p, ws) ==
    [p EXCEPT !.data = [i \in DOMAIN @ |->
        IF i - PayloadLayer(p).at \in DOMAIN ws THEN ws[i - PayloadLayer(p).at] ELSE @[i]]]

(* Zeros are written in the payload. *)
LEMMA ZerosWritten ==
    ASSUME NEW net \in IpNames, NEW l4 \in TransportNames, NEW s, NEW p, Made(p, net, l4, s),
           Sound(p.data, net, l4),
           NEW n \in Nat, NEW ws, DOMAIN ws = 1 .. n, \A i \in 1 .. n : ws[i] = 0
    PROVE  Sound(Over(p, ws).data, net, l4) /\ Len(Over(p, ws).data) = Len(p.data)
<1>1. PICK q : q = Over(p, ws)
  OBVIOUS
<1> DEFINE d == p.data
           at == HeaderSize(net) + HeaderSize(l4)
           e == [i \in 1 .. Len(d) |-> IF i - at \in DOMAIN ws THEN ws[i - at] ELSE d[i]]
<1>2. p = [data |-> d, layers |-> p.layers] /\ Packet(d, net, l4) /\ IsList(d)
  BY DEF Made, Packet
<1>3. PayloadLayer(p).at = at
  BY PayloadOf
<1>4. DOMAIN d = 1 .. Len(d)
  BY <1>2, ListDomain
<1>5. q = [p EXCEPT !.data = e]
  BY <1>1, <1>3, <1>4 DEF Over
<1>6. q.data = e
  <2> HIDE DEF e
  <2> QED
    BY <1>2, <1>5
<1>7. HeaderSize(net) \in {6, 7} /\ HeaderSize(l4) \in {3, 4, 5} /\ Len(d) \in Nat /\ Len(d) >= at
  BY <1>2, Sizes
<1>8. Len(e) = Len(d) /\ \A k \in 1 .. at : e[k] = d[k]
  BY <1>7
<1>9. ASSUME NEW k \in 1 .. Len(d)
      PROVE  e[k] \in Words /\ (k > at => e[k] = 0)
  <2>1. d[k] \in Words /\ (k > at => d[k] = 0)
    BY DEF Sound, Clean
  <2>2. e[k] = d[k] \/ e[k] = 0
    BY DEF e
  <2>3. 0 \in Words
    BY WordsAre
  <2> HIDE DEF e
  <2> QED
    BY <2>1, <2>2, <2>3
<1> HIDE DEF e
<1>10. Clean(e, net, l4)
  BY <1>8, <1>9 DEF Clean
<1>11. Measured(e, net, l4)
  <2>1. 2 \in 1 .. at
    BY <1>7
  <2>2. l4 = "udp" => HeaderSize(net) + 3 \in 1 .. at
    BY <1>7
  <2>3. e[2] = d[2] /\ (l4 = "udp" => e[HeaderSize(net) + 3] = d[HeaderSize(net) + 3])
    BY <1>8, <2>1, <2>2
  <2> QED
    BY <1>8, <2>3 DEF Sound, Measured
<1>12. Sound(e, net, l4)
  BY <1>8, <1>10, <1>11 DEF Sound
<1> QED
  BY <1>1, <1>6, <1>8, <1>12

LEMMA WriteSound ==
    ASSUME NEW net \in IpNames, NEW l4 \in TransportNames, NEW p, Skeleton(p, net, l4),
           Fit(net, l4), NEW b \in Nat, b <= 16, Small(p, net, l4, b),
           NEW n \in 0 .. 2, NEW ws, DOMAIN ws = 1 .. n, Len(ws) = n, \A i \in 1 .. n : ws[i] = 0
    PROVE  Small(WritePayload(p, ws), net, l4, b + 2)
<1>1. PICK q : q = IF Len(ws) > PayloadLayer(p).size THEN PayloadResize(p, Len(ws)) ELSE p
  OBVIOUS
<1>2. Skeleton(q, net, l4) /\ Small(q, net, l4, b + 2)
  <2>1. PICK z : z = PayloadResize(p, n)
    OBVIOUS
  <2>2. Skeleton(z, net, l4)
    <3>1. n \in Nat
      OBVIOUS
    <3> QED
      BY <2>1, <3>1, ResizeSkeleton
  <2>3. Small(z, net, l4, b + 2)
    BY <2>1, PayloadResizeSound
  <2>4. Small(p, net, l4, b + 2)
    <3>1. Rest(p.data, net, l4) \in Nat
      BY Sizes DEF Skeleton, Made
    <3> QED
      BY <3>1 DEF Small
  <2> QED
    BY <1>1, <2>1, <2>2, <2>3, <2>4
<1>3. PICK r : r = Over(q, ws)
  OBVIOUS
<1>4. WritePayload(p, ws) \in {q, r}
  BY <1>1, <1>3 DEF WritePayload, Over
<1> DEFINE s == IF routed THEN Rest(q.data, net, l4) ELSE 0
<1>5. Made(q, net, l4, s)
  BY <1>2 DEF Skeleton
<1>6. Sound(r.data, net, l4) /\ Len(r.data) = Len(q.data)
  <2> HIDE DEF s
  <2>1. Sound(q.data, net, l4)
    BY <1>2 DEF Small
  <2>2. PICK m \in Nat : m = n
    OBVIOUS
  <2>3. DOMAIN ws = 1 .. m /\ \A i \in 1 .. m : ws[i] = 0
    BY <2>2
  <2> QED
    BY <1>3, <1>5, <2>1, <2>3, ZerosWritten
<1>7. Small(r, net, l4, b + 2)
  BY <1>2, <1>6 DEF Small, Rest
<1> QED
  BY <1>2, <1>4, <1>7

(* The words that a receiver adds up, of the packet d. *)
Received(d, net, l4, w) ==
    IF l4 = "icmpv4" THEN SubSeq(d, HeaderSize(net) + 1, Len(d))
    ELSE w \o SubSeq(d, HeaderSize(net) + 1, Len(d))

LEMMA ReceivedWords ==
    ASSUME NEW net \in IpNames, NEW l4 \in TransportNames, NEW d, IsList(d),
           Len(d) >= HeaderSize(net), NEW w, IsList(w), Len(w) = 4,
           NEW q, q = Received(d, net, l4, w),
           NEW c, c = Counted(net, l4),
           NEW n, n = c + (Len(d) - HeaderSize(net))
    PROVE  /\ n \in Nat /\ DOMAIN q = 1 .. n
           /\ \A k \in 1 .. n : q[k] = IF k <= c THEN w[k] ELSE d[HeaderSize(net) + (k - c)]
<1>1. PICK H \in Nat : H = HeaderSize(net)
  BY NetFields
<1>2. PICK g : g = SubSeq(d, H + 1, Len(d))
  OBVIOUS
<1>3. Len(d) \in Nat
  BY ListDomain
<1>4. IsList(g) /\ Len(g) = Len(d) - H /\ \A k \in 1 .. Len(d) - H : g[k] = d[k + H]
  <2>1. PICK i \in Nat, j \in Nat : i = H + 1 /\ j = Len(d)
    <3>1. H + 1 \in Nat
      BY ONLY <1>1
    <3> QED
      BY ONLY <1>3, <3>1
  <2>2. i >= 1 /\ j <= Len(d) /\ i <= j + 1
    BY <1>1, <1>3, <2>1
  <2>3. /\ IsList(SubSeq(d, i, j)) /\ Len(SubSeq(d, i, j)) = j - i + 1
        /\ \A k \in 1 .. j - i + 1 : SubSeq(d, i, j)[k] = d[k + (i - 1)]
    BY <2>2, ListSub
  <2>4. g = SubSeq(d, i, j) /\ j - i + 1 = Len(d) - H /\ i - 1 = H
    BY <1>2, <1>3, <2>1
  <2> QED
    BY <2>3, <2>4
<1>5. PICK z \in Nat : z = Len(d) - H
  BY <1>1, <1>3
<1>6. DOMAIN g = 1 .. z /\ \A k \in 1 .. z : g[k] = d[H + k]
  <2>1. DOMAIN g = 1 .. z
    BY <1>4, <1>5, ListDomain
  <2>2. \A k \in 1 .. z : k + H = H + k
    BY <1>1
  <2> QED
    BY <1>4, <1>5, <2>1, <2>2
<1>7. CASE l4 = "icmpv4"
  <2>1. c = 0 /\ n = z /\ q = g
    BY <1>1, <1>2, <1>5, <1>7 DEF Counted, Received
  <2>2. \A k \in 1 .. z : ~(k <= c) /\ k - c = k
    BY <2>1
  <2> QED
    BY <1>1, <1>6, <2>1, <2>2
<1>8. CASE l4 # "icmpv4"
  <2>1. c = 4 /\ n = 4 + z /\ q = w \o g
    BY <1>1, <1>2, <1>5, <1>8 DEF Counted, Received
  <2>2. /\ IsList(w \o g) /\ Len(w \o g) = Len(w) + Len(g)
        /\ \A k \in 1 .. Len(w) : (w \o g)[k] = w[k]
        /\ \A k \in 1 .. Len(g) : (w \o g)[Len(w) + k] = g[k]
    <3>1. IsList(w) /\ IsList(g)
      BY <1>4
    <3> QED
      BY ONLY <3>1, ListJoin
  <2>3. /\ IsList(q) /\ Len(q) = 4 + z
        /\ \A k \in 1 .. 4 : q[k] = w[k]
        /\ \A k \in 1 .. z : q[4 + k] = g[k]
    <3>1. Len(g) = z
      BY <1>4, <1>5
    <3> QED
      BY <2>1, <2>2, <3>1
  <2>4. DOMAIN q = 1 .. 4 + z
    BY <2>3, ListDomain
  <2>5. ASSUME NEW k \in 1 .. 4 + z
        PROVE  q[k] = IF k <= 4 THEN w[k] ELSE d[H + (k - 4)]
    <3>1. CASE k <= 4
      BY <2>3, <3>1
    <3>2. CASE k > 4
      <4>1. PICK i \in 1 .. z : i = k - 4
        BY <3>2
      <4>2. q[4 + i] = d[H + i] /\ 4 + i = k
        BY <1>6, <2>3, <4>1
      <4> QED
        BY <3>2, <4>1, <4>2
    <3> QED
      BY <3>1, <3>2
  <2>6. n \in Nat /\ DOMAIN q = 1 .. n
    BY ONLY <1>5, <2>1, <2>4
  <2>7. \A k \in 1 .. n : q[k] = IF k <= c THEN w[k] ELSE d[H + (k - c)]
    BY ONLY <2>1, <2>5
  <2> QED
    BY ONLY <1>1, <2>6, <2>7
<1> QED
  BY <1>7, <1>8

(* The pseudo-header of a receiver. *)
Presumed(d, net, l4) ==
    <<d[HeaderSize(net) - 1], d[HeaderSize(net)], Protocol[l4].id, Len(d) - HeaderSize(net)>>

(* Once the checksum and the word that makes room have been exchanged, the *)
(* receiver finds a multiple of W - 1.                                     *)
LEMMA SegmentAdds ==
    ASSUME NEW net \in IpNames, NEW l4 \in TransportNames, NEW a, Packet(a, net, l4),
           Summable(a, net, l4), Fit(net, l4),
           NEW R, R = Room(net, l4), R \in 1 .. Len(a), NEW C, C = Check(net, l4),
           \A k \in 1 .. Len(a) : k > HeaderSize(net) + HeaderSize(l4) /\ k # R => a[k] = 0,
           NEW d, IsList(d), Len(d) = Len(a),
           d[C] = a[R], d[R] = Csum(Summed(a, net, l4, 0)),
           \A k \in 1 .. Len(a) : k >= HeaderSize(net) - 1 /\ k # C /\ k # R => d[k] = a[k]
    PROVE  Adds(Received(d, net, l4, Presumed(d, net, l4)))
<1>1. /\ HeaderSize(net) = (IF net = "ipv4" THEN 7 ELSE 6)
      /\ HeaderSize(l4) = (IF l4 = "udp" THEN 4 ELSE IF l4 = "tcp" THEN 5 ELSE 3)
      /\ FieldOffset(l4, "checksum") = (IF l4 = "udp" THEN 4 ELSE IF l4 = "tcp" THEN 5 ELSE 2)
  <2>1. HeaderSize("ipv6") = 6 /\ HeaderSize("udp") = 4 /\ HeaderSize("tcp") = 5
    BY DEF HeaderSize, Protocol, Ipv6, Udp, Tcp
  <2> QED
    BY <2>1, NetFields, TransportFields DEF IpNames, TransportNames
<1>2. PICK H, T, F : H = HeaderSize(net) /\ T = HeaderSize(l4) /\ F = FieldOffset(l4, "checksum")
  OBVIOUS
<1>3. /\ H = (IF net = "ipv4" THEN 7 ELSE 6)
      /\ T = (IF l4 = "udp" THEN 4 ELSE IF l4 = "tcp" THEN 5 ELSE 3)
      /\ F = (IF l4 = "udp" THEN 4 ELSE IF l4 = "tcp" THEN 5 ELSE 2)
  BY <1>1, <1>2
<1>4. C = H + F /\ R = (IF l4 = "udp" THEN H + 5 ELSE IF l4 = "tcp" THEN H + 6 ELSE H + 3)
  BY <1>2, <1>3 DEF Check, Room, TransportNames, IcmpNames
<1>5. PICK z \in Nat : z = Len(a)
  BY ListDomain DEF Packet
<1>6. z >= H + T /\ R \in 1 .. z
  BY <1>2, <1>5 DEF Packet
<1>7. PICK u : u = Summed(a, net, l4, 0)
  OBVIOUS
<1>8. PICK c, sp : c = Counted(net, l4) /\ sp = Span(a, net, l4)
  OBVIOUS
<1>9. c = (IF l4 = "icmpv4" THEN 0 ELSE 4)
      /\ sp = (IF l4 = "udp" THEN z - H ELSE IF l4 = "tcp" THEN 6 ELSE 3)
  BY <1>2, <1>5, <1>8 DEF Counted, Span, Summable, Measured
<1>10. PICK m : m = c + sp
  OBVIOUS
<1>11. /\ m \in Nat /\ m < W /\ DOMAIN u = 1 .. m
       /\ \A k \in 1 .. m : u[k] \in Words
       /\ c + F \in 1 .. m /\ u[c + F] = 0
  <2>1. PICK junk : junk = 0
    OBVIOUS
  <2>2. junk \in Words /\ u = Summed(a, net, l4, junk)
    BY <1>7, <2>1, WordsAre
  <2>3. m = Counted(net, l4) + Span(a, net, l4)
    BY <1>8, <1>10
  <2>4. /\ m \in Nat /\ m < W /\ DOMAIN u = 1 .. m
        /\ \A k \in 1 .. m : u[k] \in Words
        /\ Counted(net, l4) + FieldOffset(l4, "checksum") \in 1 .. m
        /\ u[Counted(net, l4) + FieldOffset(l4, "checksum")] = 0
    BY <2>2, <2>3, SummedWords
  <2> QED
    BY <1>2, <1>8, <2>4
<1>12. H \in {6, 7} /\ z >= H + T /\ R \in 1 .. z
  BY <1>3, <1>6
<1>13. \/ F = 4 /\ T = 4 /\ c = 4 /\ sp = z - H /\ R = H + 5 /\ C = H + 4
       \/ F = 5 /\ T = 5 /\ c = 4 /\ sp = 6 /\ R = H + 6 /\ C = H + 5
       \/ F = 2 /\ T = 3 /\ c \in {0, 4} /\ sp = 3 /\ R = H + 3 /\ C = H + 2
  <2>1. CASE l4 = "udp"
    BY <1>3, <1>4, <1>9, <2>1
  <2>2. CASE l4 = "tcp"
    BY <1>3, <1>4, <1>9, <2>2
  <2>3. CASE l4 # "udp" /\ l4 # "tcp"
    BY <1>3, <1>4, <1>9, <2>3
  <2> QED
    BY <2>1, <2>2, <2>3
<1>14. PICK n \in Nat : n = c + (z - H)
  <2>1. c + (z - H) \in Nat
    BY ONLY <1>5, <1>12, <1>13
  <2> QED
    BY <2>1
<1>15. m <= n /\ z - H = n - c
  <2>1. H \in Int /\ T \in Int /\ c \in Int /\ sp \in Int /\ z - H >= T
    BY ONLY <1>5, <1>12, <1>13
  <2>2. sp = z - H \/ (T = 5 /\ sp = 6) \/ (T = 3 /\ sp = 3)
    BY ONLY <1>13
  <2>3. sp = 6 => z - H >= 6
    BY ONLY <1>5, <1>12, <1>13
  <2>4. sp <= z - H
    BY ONLY <1>5, <2>1, <2>2, <2>3
  <2> QED
    BY ONLY <1>5, <1>10, <1>14, <2>1, <2>4
<1>16. PICK x, r : x = c + F /\ r = c + (R - H)
  OBVIOUS
<1>17. /\ x \in c + 1 .. m /\ r \in c + 1 .. m /\ x # r
       /\ c \in {0, 4} /\ H \in {6, 7} /\ F \in 2 .. 5 /\ m >= c
       /\ sp >= T /\ m = c + sp /\ R - H = r - c /\ C = H + (x - c) /\ R = H + (r - c)
  <2>1. CASE F = 4 /\ T = 4 /\ c = 4 /\ sp = z - H /\ R = H + 5 /\ C = H + 4
    BY ONLY <1>5, <1>10, <1>16, <1>12, <2>1
  <2>2. CASE F = 5 /\ T = 5 /\ c = 4 /\ sp = 6 /\ R = H + 6 /\ C = H + 5
    BY ONLY <1>5, <1>10, <1>16, <1>12, <2>2
  <2>3. CASE F = 2 /\ T = 3 /\ c \in {0, 4} /\ sp = 3 /\ R = H + 3 /\ C = H + 2
    BY ONLY <1>5, <1>10, <1>16, <1>12, <2>3
  <2> QED
    BY ONLY <1>13, <2>1, <2>2, <2>3
<1> DEFINE t == [k \in 1 .. n |-> IF k <= m THEN (IF k = x THEN Csum(u) ELSE u[k]) ELSE 0]
           t2 == [k \in 1 .. n |-> IF k = x THEN a[R] ELSE IF k = r THEN Csum(u) ELSE t[k]]
<1>18. /\ \A k \in 1 .. n : t[k] \in Words
       /\ Total(t, 1 .. n) % (W - 1) = 0 /\ Total(t, 1 .. n) > 0
  <2>1. /\ t[x] = Csum(u)
        /\ \A k \in 1 .. m : k # x => t[k] = u[k]
        /\ \A k \in 1 .. n : k > m => t[k] = 0
    <3>1. n \in Nat /\ m \in Nat /\ m <= n /\ x \in 1 .. m
      BY ONLY <1>11, <1>14, <1>15, <1>16
    <3>2. x \in 1 .. n /\ x <= m /\ \A k \in 1 .. m : k \in 1 .. n /\ k <= m
      BY ONLY <3>1
    <3>3. \A k \in 1 .. n : k > m => ~(k <= m)
      BY ONLY <3>1
    <3> QED
      BY ONLY <3>2, <3>3
  <2>2. x \in 1 .. m /\ u[x] = 0
    BY <1>11, <1>16
  <2> HIDE DEF t
  <2>3. PICK e : e = t
    OBVIOUS
  <2>4. (\A k \in 1 .. n : e[k] \in Words) /\ Total(e, 1 .. n) % (W - 1) = 0 /\ Total(e, 1 .. n) > 0
    BY ONLY <1>11, <1>14, <1>15, <2>1, <2>2, <2>3, SummedAdds
  <2> QED
    BY ONLY <2>3, <2>4
<1>19. \A k \in 1 .. m : k > c => u[k] = IF k = x THEN 0 ELSE a[H + (k - c)]
  <2>1. SUFFICES ASSUME NEW k \in 1 .. m, k > c
                 PROVE  u[k] = IF k = x THEN 0 ELSE a[H + (k - c)]
    OBVIOUS
  <2>2. ~(k <= c) /\ (k - c = F <=> k = x)
    BY <1>11, <1>16, <1>17, <2>1
  <2>3. ~(H + (k - c) > Len(a))
    BY <1>5, <1>11, <1>14, <1>15, <1>17, <2>1
  <2>4. m = Counted(net, l4) + Span(a, net, l4)
    BY <1>8, <1>10
  <2>5. u = [i \in 1 .. m |->
           IF i <= c THEN Pseudo(a, net, i)
           ELSE IF i - c = F THEN 0
           ELSE IF H + (i - c) > Len(a) THEN 0 ELSE a[H + (i - c)]]
    BY <1>2, <1>7, <1>8, <2>4 DEF Summed
  <2> QED
    BY <2>2, <2>3, <2>5
<1>20. \A k \in 1 .. m : k <= c => u[k] = Pseudo(a, net, k)
  <2>1. m = Counted(net, l4) + Span(a, net, l4)
    BY <1>8, <1>10
  <2>2. u = [i \in 1 .. m |->
           IF i <= c THEN Pseudo(a, net, i)
           ELSE IF i - c = F THEN 0
           ELSE IF H + (i - c) > Len(a) THEN 0 ELSE a[H + (i - c)]]
    BY <1>2, <1>7, <1>8, <2>1 DEF Summed
  <2> QED
    BY <2>2
<1>21. t[x] = Csum(u) /\ t[r] = a[R] /\ x \in 1 .. n /\ r \in 1 .. n
  <2>1. x \in 1 .. n /\ r \in 1 .. n /\ x <= m /\ r <= m /\ x > c /\ r > c /\ r \in 1 .. m
    <3>1. /\ c \in {0, 4} /\ m \in Nat /\ n \in Nat /\ m <= n
          /\ x \in c + 1 .. m /\ r \in c + 1 .. m
      BY ONLY <1>11, <1>14, <1>15, <1>17
    <3> QED
      BY ONLY <3>1
  <2>2. u[r] = a[H + (r - c)]
    BY <1>17, <1>19, <2>1
  <2> QED
    BY <1>17, <2>1, <2>2
<1>22. /\ \A k \in 1 .. n : t2[k] \in Words
       /\ Total(t2, 1 .. n) = Total(t, 1 .. n)
  <2>1. /\ t2[x] = t[r] /\ t2[r] = t[x]
        /\ \A k \in 1 .. n : k # x /\ k # r => t2[k] = t[k]
    BY <1>17, <1>21
  <2> HIDE DEF t, t2
  <2>2. \A k \in 1 .. n : t2[k] \in Words
    BY <1>18, <1>21, <2>1
  <2>3. PICK S : S = 1 .. n
    OBVIOUS
  <2>4. IsFiniteSet(S)
    BY <2>3, FS_Interval
  <2>5. \A k \in S : t[k] \in Nat /\ t2[k] \in Nat
    BY <1>18, <2>2, <2>3, WordsAre
  <2>6. \A k \in S \ {x, r} : t[k] = t2[k]
    BY <2>1, <2>3
  <2>7. x \in S /\ r \in S /\ t[x] = t2[r] /\ t[r] = t2[x]
    BY <1>21, <2>1, <2>3
  <2>8. Total(t2, S) = Total(t, S)
    BY <2>4, <2>5, <2>6, <2>7, TotalSwap
  <2> QED
    BY <2>2, <2>3, <2>8
<1>23. PICK w : w = Presumed(d, net, l4)
  OBVIOUS
<1>24. /\ IsList(w) /\ Len(w) = 4
       /\ w[1] = a[H - 1] /\ w[2] = a[H] /\ w[3] = Protocol[l4].id /\ w[4] = z - H
  <2>1. w = <<d[H - 1], d[H], Protocol[l4].id, Len(d) - H>>
    BY <1>2, <1>23 DEF Presumed
  <2>2. d[H - 1] = a[H - 1] /\ d[H] = a[H]
    <3>1. H - 1 \in 1 .. z /\ H \in 1 .. z /\ H < C /\ H < R
      BY ONLY <1>5, <1>12, <1>13
    <3>2. PICK i, j : i = H - 1 /\ j = H
      OBVIOUS
    <3>3. i \in 1 .. z /\ i >= H - 1 /\ i # C /\ i # R /\ j \in 1 .. z /\ j >= H - 1 /\ j # C /\ j # R
      BY ONLY <1>5, <1>12, <1>13, <3>1, <3>2
    <3>4. \A k \in 1 .. z : k >= H - 1 /\ k # C /\ k # R => d[k] = a[k]
      BY <1>2, <1>5
    <3>5. d[i] = a[i] /\ d[j] = a[j]
      BY ONLY <3>3, <3>4
    <3> QED
      BY <3>2, <3>5
  <2>3. Len(w) = 4 /\ w[1] = d[H - 1] /\ w[2] = d[H] /\ w[3] = Protocol[l4].id /\ w[4] = Len(d) - H
    BY <2>1
  <2>4. IsList(w)
    <3>1. PICK S : S = {d[H - 1], d[H], Protocol[l4].id, Len(d) - H}
      OBVIOUS
    <3>2. w \in Seq(S)
      BY <2>1, <3>1
    <3> QED
      BY <3>2 DEF IsList
  <2> QED
    BY <1>5, <2>2, <2>3, <2>4
<1>25. PICK q : q = Received(d, net, l4, w)
  OBVIOUS
<1>26. DOMAIN q = 1 .. n /\ \A k \in 1 .. n : q[k] = IF k <= c THEN w[k] ELSE d[H + (k - c)]
  <2>1. Len(d) >= HeaderSize(net) /\ n = c + (Len(d) - HeaderSize(net))
    BY <1>2, <1>3, <1>5, <1>6, <1>14
  <2>2. DOMAIN q = 1 .. n /\ \A k \in 1 .. n : q[k] = IF k <= c THEN w[k] ELSE d[HeaderSize(net) + (k - c)]
    BY <1>8, <1>24, <1>25, <2>1, ReceivedWords
  <2> QED
    BY <1>2, <2>2
<1>27. \A k \in 1 .. n : k > c => q[k] = t2[k]
  <2>1. SUFFICES ASSUME NEW k \in 1 .. n, k > c
                 PROVE  q[k] = t2[k]
    OBVIOUS
  <2>2. PICK i : i = H + (k - c)
    OBVIOUS
  <2>3. i \in 1 .. z /\ i >= H - 1 /\ (i = C <=> k = x) /\ (i = R <=> k = r) /\ i > H
    BY <1>14, <1>15, <1>17, <1>5, <2>1, <2>2
  <2>4. q[k] = d[i]
    <3>1. ~(k <= c)
      BY <1>17, <2>1
    <3> QED
      BY <1>26, <2>2, <3>1
  <2>5. CASE k = x
    BY <1>17, <2>3, <2>4, <2>5
  <2>6. CASE k = r
    <3>1. t2[k] = Csum(u)
      BY <1>17, <2>6
    <3>2. d[i] = Csum(u)
      BY <1>7, <2>3, <2>6
    <3> QED
      BY <2>4, <3>1, <3>2
  <2>7. CASE k # x /\ k # r
    <3>1. t2[k] = t[k]
      BY <2>7
    <3>2. d[i] = a[i]
      BY <1>2, <1>5, <2>3, <2>7
    <3>3. CASE k <= m
      <4>1. k \in 1 .. m /\ t[k] = u[k]
        BY <1>11, <2>7, <3>3
      <4>2. u[k] = a[i]
        BY <1>19, <2>1, <2>2, <2>7, <4>1
      <4> QED
        BY <2>4, <3>1, <3>2, <4>1, <4>2
    <3>4. CASE k > m
      <4>1. ~(k <= m)
        BY <1>11, <3>4
      <4>2. t[k] = 0
        BY <4>1
      <4>3. i > H + T
        <5>1. H \in Int /\ T \in Int /\ sp \in Int /\ k \in Int /\ c \in Int
          BY ONLY <1>5, <1>12, <1>13, <2>1
        <5>2. k - c > sp
          BY ONLY <1>10, <3>4, <5>1
        <5>3. sp >= T
          BY ONLY <1>17
        <5> QED
          BY ONLY <2>2, <5>1, <5>2, <5>3
      <4>4. a[i] = 0
        BY <1>2, <1>5, <2>3, <2>7, <4>3
      <4> QED
        BY <2>4, <3>1, <3>2, <4>2, <4>4
    <3> QED
      BY <1>11, <3>3, <3>4
  <2> QED
    BY <2>5, <2>6, <2>7
<1>28. \A k \in 1 .. 4 : c = 4 => t2[k] = Pseudo(a, net, k) /\ k \in 1 .. n /\ q[k] = w[k]
  <2>1. SUFFICES ASSUME NEW k \in 1 .. 4, c = 4
                 PROVE  t2[k] = Pseudo(a, net, k) /\ k \in 1 .. n /\ q[k] = w[k]
    OBVIOUS
  <2>2. k # x /\ k # r /\ k <= m /\ k \in 1 .. n /\ k \in 1 .. m /\ k <= c
    BY <1>15, <1>17, <1>11, <2>1
  <2>3. t2[k] = u[k]
    BY <2>2
  <2> HIDE DEF t, t2
  <2> QED
    BY <1>20, <1>26, <2>2, <2>3
<1>29. /\ Pseudo(a, net, 1) = w[1] /\ Pseudo(a, net, 2) = w[2]
       /\ (net = "ipv4") => (Pseudo(a, net, 3) = w[3] /\ Pseudo(a, net, 4) = w[4])
       /\ (net # "ipv4") => (Pseudo(a, net, 3) = w[4] /\ Pseudo(a, net, 4) = w[3])
  <2>1. a[2] = (IF net = "ipv4" THEN z ELSE z - H)
    BY <1>2, <1>5 DEF Summable, Measured
  <2>2. a[IF net = "ipv4" THEN 4 ELSE 3] = Protocol[l4].id
    BY NetFields DEF Packet
  <2> QED
    BY <1>2, <1>3, <1>24, <2>1, <2>2 DEF Pseudo
<1>30. /\ \A k \in 1 .. n : q[k] \in Words
       /\ Total(q, 1 .. n) = Total(t2, 1 .. n)
  <2> HIDE DEF t, t2
  <2>1. CASE c = 0
    <3>1. \A k \in 1 .. n : q[k] = t2[k]
      BY <1>27, <2>1
    <3> QED
      BY <1>22, <3>1, TotalSame
  <2>2. CASE c = 4 /\ net = "ipv4"
    <3>1. \A k \in 1 .. 4 : q[k] = t2[k]
      <4>1. \A k \in 1 .. 4 : k = 1 \/ k = 2 \/ k = 3 \/ k = 4
        OBVIOUS
      <4>2. /\ Pseudo(a, net, 1) = w[1] /\ Pseudo(a, net, 2) = w[2]
            /\ Pseudo(a, net, 3) = w[3] /\ Pseudo(a, net, 4) = w[4]
        BY ONLY <1>29, <2>2
      <4>3. ASSUME NEW k \in 1 .. 4
            PROVE  Pseudo(a, net, k) = w[k]
        <5>1. k = 1 \/ k = 2 \/ k = 3 \/ k = 4
          BY <4>1
        <5> QED
          BY ONLY <4>2, <5>1
      <4> QED
        BY <1>28, <2>2, <4>3
    <3>2. \A k \in 1 .. n : k \in 1 .. 4 \/ k > c
      BY <2>2
    <3>3. \A k \in 1 .. n : q[k] = t2[k]
      BY <1>27, <3>1, <3>2
    <3> QED
      BY <1>22, <3>3, TotalSame
  <2>3. CASE c = 4 /\ net # "ipv4"
    <3>1. PICK i, j : i = 3 /\ j = 4
      OBVIOUS
    <3>2. i \in 1 .. 4 /\ j \in 1 .. 4 /\ 1 \in 1 .. 4 /\ 2 \in 1 .. 4
      BY <3>1
    <3>3. i \in 1 .. n /\ j \in 1 .. n /\ q[i] = t2[j] /\ q[j] = t2[i] /\ q[1] = t2[1] /\ q[2] = t2[2]
      <4>1. /\ Pseudo(a, net, 1) = w[1] /\ Pseudo(a, net, 2) = w[2]
            /\ Pseudo(a, net, i) = w[j] /\ Pseudo(a, net, j) = w[i]
        BY ONLY <1>29, <2>3, <3>1
      <4>2. PICK e, f : e = 1 /\ f = 2
        OBVIOUS
      <4>3. e \in 1 .. 4 /\ f \in 1 .. 4
        BY <4>2
      <4>4. \A k \in 1 .. 4 : t2[k] = Pseudo(a, net, k) /\ k \in 1 .. n /\ q[k] = w[k]
        BY <1>28, <2>3
      <4>5. /\ t2[e] = Pseudo(a, net, e) /\ t2[f] = Pseudo(a, net, f) /\ q[e] = w[e] /\ q[f] = w[f]
            /\ t2[i] = Pseudo(a, net, i) /\ t2[j] = Pseudo(a, net, j) /\ q[i] = w[i] /\ q[j] = w[j]
            /\ i \in 1 .. n /\ j \in 1 .. n
        BY ONLY <3>2, <4>3, <4>4
      <4>6. Pseudo(a, net, e) = w[e] /\ Pseudo(a, net, f) = w[f]
        BY ONLY <4>1, <4>2
      <4>7. q[e] = t2[e] /\ q[f] = t2[f]
        BY ONLY <4>5, <4>6
      <4> QED
        BY ONLY <4>1, <4>2, <4>5, <4>7
    <3>4. \A k \in 1 .. n : k # i /\ k # j => k = 1 \/ k = 2 \/ k > c
      BY <2>3, <3>1
    <3>5. \A k \in 1 .. n : k # i /\ k # j => q[k] = t2[k]
      BY <1>27, <3>3, <3>4
    <3>6. \A k \in 1 .. n : q[k] \in Words
      BY <1>22, <3>3, <3>5
    <3>7. PICK S : S = 1 .. n
      OBVIOUS
    <3>8. IsFiniteSet(S)
      BY <3>7, FS_Interval
    <3>9. \A k \in S : t2[k] \in Nat /\ q[k] \in Nat
      BY <1>22, <3>6, <3>7, WordsAre
    <3>10. \A k \in S \ {i, j} : t2[k] = q[k]
      BY <3>5, <3>7
    <3>11. i \in S /\ j \in S /\ t2[i] = q[j] /\ t2[j] = q[i]
      BY <3>3, <3>7
    <3>12. Total(q, S) = Total(t2, S)
      BY <3>8, <3>9, <3>10, <3>11, TotalSwap
    <3> QED
      BY <3>6, <3>7, <3>12
  <2> QED
    BY <1>17, <2>1, <2>2, <2>3
<1>31. WordSum(q) = Total(q, 1 .. n)
  <2>1. \A k \in 1 .. n : q[k] \in Nat
    BY <1>30, WordsAre
  <2> QED
    BY <1>26, <2>1, SumIsTotal
<1> HIDE DEF t, t2
<1>32. Adds(q)
  <2>1. WordSum(q) % (W - 1) = 0 /\ WordSum(q) > 0
    BY <1>18, <1>22, <1>30, <1>31
  <2>2. WordSum(q) # 0
    BY <2>1
  <2> QED
    BY <2>1, <2>2 DEF Adds
<1> QED
  BY <1>23, <1>25, <1>32

(* The header of IPv4 adds up when its checksum is that of its other words. *)
LEMMA HeaderAdds ==
    ASSUME NEW e, \A k \in 1 .. 7 : e[k] \in Words,
           NEW g, IsList(g), Len(g) >= 7,
           NEW x, x = Csum(HeaderWords(e)),
           \A k \in 1 .. 7 : g[k] = IF k = 5 THEN x ELSE e[k]
    PROVE  Adds(SubSeq(g, 1, 7))
<1>1. PICK u : u = HeaderWords(e)
  OBVIOUS
<1>2. /\ DOMAIN u = 1 .. 7 /\ \A k \in 1 .. 7 : u[k] \in Words
      /\ u[5] = 0 /\ \A k \in 1 .. 7 : k # 5 => u[k] = e[k]
  BY <1>1, HeaderSum
<1>3. PICK m, c, i : m = 7 /\ c = 5 /\ i = 1
  OBVIOUS
<1>4. PICK q : q = SubSeq(g, i, m)
  OBVIOUS
<1>5. /\ IsList(q) /\ Len(q) = m /\ \A k \in 1 .. m : q[k] = g[k]
  <2>1. Len(g) \in Nat
    BY ListDomain
  <2>2. i \in Nat /\ m \in Nat /\ i >= 1 /\ m <= Len(g) /\ i <= m + 1
    BY <1>3, <2>1
  <2>3. /\ IsList(SubSeq(g, i, m)) /\ Len(SubSeq(g, i, m)) = m - i + 1
        /\ \A k \in 1 .. m - i + 1 : SubSeq(g, i, m)[k] = g[k + (i - 1)]
    BY <2>2, ListSub
  <2>4. m - i + 1 = m /\ \A k \in 1 .. m : k + (i - 1) = k
    BY <1>3
  <2> QED
    BY <1>4, <2>3, <2>4
<1>6. DOMAIN q = 1 .. m
  BY <1>5, ListDomain
<1>7. /\ m \in Nat /\ m <= m /\ m < W /\ DOMAIN u = 1 .. m /\ c \in 1 .. m
      /\ u[c] = 0 /\ \A k \in 1 .. m : u[k] \in Words
  BY <1>2, <1>3, WordsAre
<1>8. /\ q[c] = Csum(u)
      /\ \A k \in 1 .. m : k # c => q[k] = u[k]
      /\ \A k \in 1 .. m : k > m => q[k] = 0
  <2>1. \A k \in 1 .. m : q[k] = IF k = c THEN Csum(u) ELSE e[k]
    BY <1>1, <1>3, <1>5
  <2>2. \A k \in 1 .. m : k # c => u[k] = e[k]
    BY <1>2, <1>3
  <2>3. m \in Nat
    BY <1>3
  <2> QED
    BY <1>7, <2>1, <2>2, <2>3
<1>9. /\ \A k \in 1 .. m : q[k] \in Words
      /\ Total(q, 1 .. m) % (W - 1) = 0 /\ Total(q, 1 .. m) > 0
  BY ONLY <1>7, <1>8, SummedAdds
<1>10. WordSum(q) = Total(q, 1 .. m)
  <2>1. \A k \in 1 .. m : q[k] \in Nat
    BY <1>9, WordsAre
  <2> QED
    BY <1>6, <1>7, <2>1, SumIsTotal
<1>11. Adds(q)
  <2>1. WordSum(q) % (W - 1) = 0 /\ WordSum(q) # 0
    BY <1>9, <1>10
  <2> QED
    BY <2>1 DEF Adds
<1> QED
  BY <1>3, <1>4, <1>11

(* What a receiver checks, in terms of the lemmas above. *)
LEMMA ValidIs ==
    ASSUME NEW net \in IpNames, NEW l4 \in TransportNames,
           program.net = net, program.l4 = l4,
           NEW d, IsList(d), Len(d) >= HeaderSize(net) + HeaderSize(l4),
           net = "ipv4" => d[4] = Protocol[l4].id /\ Adds(SubSeq(d, 1, 7)),
           net = "ipv6" => d[3] = Protocol[l4].id,
           Measured(d, net, l4),
           Adds(Received(d, net, l4, Presumed(d, net, l4)))
    PROVE  Valid(d)
<1>1. PICK H \in Nat : H = HeaderSize(net)
  BY NetFields
<1>2. /\ Len(d) \in Nat /\ HeaderSize(l4) \in {3, 4, 5}
  BY ListDomain, TransportFields
<1>3. H = (IF net = "ipv4" THEN 7 ELSE 6) /\ (net = "ipv4" \/ net = "ipv6")
  <2>1. HeaderSize("ipv6") = 6
    BY DEF HeaderSize, Protocol, Ipv6
  <2> QED
    BY <1>1, <2>1, NetFields DEF IpNames
<1>4. PICK g : g = SubSeq(d, H + 1, Len(d))
  OBVIOUS
<1>5. Len(g) = Len(d) - H /\ (l4 = "udp" => g[3] = d[H + 3])
  <2>1. PICK i \in Nat : i = H + 1
    <3>1. H + 1 \in Nat
      BY ONLY <1>1
    <3> QED
      BY <3>1
  <2>2. PICK j \in Nat : j = Len(d)
    BY <1>2
  <2>3. i >= 1 /\ j <= Len(d) /\ i <= j + 1
    <3>1. j >= H
      BY <1>1, <1>2, <2>2
    <3> QED
      BY <1>1, <2>1, <2>2, <3>1
  <2>4. /\ IsList(SubSeq(d, i, j)) /\ Len(SubSeq(d, i, j)) = j - i + 1
        /\ \A k \in 1 .. j - i + 1 : SubSeq(d, i, j)[k] = d[k + (i - 1)]
    BY <2>3, ListSub
  <2>5. g = SubSeq(d, i, j) /\ j - i + 1 = j - H /\ i - 1 = H
    BY <1>4, <2>1, <2>2
  <2>6. \A k \in 1 .. j - H : g[k] = d[k + H]
    BY <2>4, <2>5
  <2>7. l4 = "udp" => 3 \in 1 .. j - H
    <3>1. j >= H + 3
      BY <1>1, <1>2, <2>2
    <3> QED
      BY <2>2, <3>1
  <2>8. l4 = "udp" => g[3] = d[3 + H]
    BY <2>6, <2>7
  <2>9. 3 + H = H + 3
    BY <1>1
  <2> QED
    BY <2>2, <2>4, <2>5, <2>8, <2>9
<1>6. PICK w : w = Presumed(d, net, l4)
  OBVIOUS
<1>7. w = (IF net = "ipv4" THEN <<d[6], d[7], Protocol[l4].id, Len(g)>>
                           ELSE <<d[5], d[6], Protocol[l4].id, Len(g)>>)
  <2>1. w = <<d[H - 1], d[H], Protocol[l4].id, Len(g)>>
    BY <1>1, <1>5, <1>6 DEF Presumed
  <2>2. net = "ipv4" => H - 1 = 6 /\ H = 7
    BY <1>3
  <2>3. net # "ipv4" => H - 1 = 5 /\ H = 6
    BY <1>3
  <2> QED
    BY <2>1, <2>2, <2>3
<1>8. Adds(IF l4 = "icmpv4" THEN g ELSE w \o g)
  BY <1>1, <1>4, <1>6 DEF Received
<1>9. net = "ipv4" => d[2] = Len(d) /\ d[4] = Protocol[l4].id /\ Adds(SubSeq(d, 1, H))
  BY <1>3 DEF Measured
<1>10. net = "ipv6" => d[2] = Len(g) /\ d[3] = Protocol[l4].id
  BY <1>1, <1>5 DEF Measured
<1>11. l4 = "udp" => g[3] = Len(g)
  BY <1>1, <1>5 DEF Measured
<1> QED
  BY <1>1, <1>4, <1>7, <1>8, <1>9, <1>10, <1>11 DEF Valid

(* A sound packet that is tagged is one that its receiver accepts. *)
LEMMA TagIsValid ==
    ASSUME NEW net \in IpNames, NEW l4 \in TransportNames,
           program.net = net, program.l4 = l4, Fit(net, l4),
           NEW p, Whole(p, net, l4), HasRoom(p), Sound(p.data, net, l4), NEW tag \in Words
    PROVE  Valid(TagProbe(p, tag).data)
<1>1. PICK s : s = Rest(p.data, net, l4)
  OBVIOUS
<1>2. Made(p, net, l4, s) /\ s \in Int /\ Roomy(l4, s)
  <2>1. Made(p, net, l4, s)
    BY <1>1 DEF Whole
  <2>2. Packet(p.data, net, l4)
    BY <2>1 DEF Made
  <2> QED
    BY <1>1, <2>1, <2>2, Sizes, RoomOf
<1>3. PICK a : a = WriteRoom(p, tag)
  OBVIOUS
<1>4. Made(a, net, l4, s)
  BY <1>2, <1>3, RoomKept DEF Roomy
<1>5. PICK b : b = Resum(a)
  OBVIOUS
<1>6. Made(b, net, l4, s)
  BY <1>4, <1>5, ResumKept
<1>7. PICK C, R : C = Check(net, l4) /\ R = Room(net, l4)
  OBVIOUS
<1>8. PICK d, x, y, e, H, T : /\ d = p.data /\ x = a.data /\ y = b.data
                              /\ e = WithChecksum(x, net, l4, 0)
                              /\ H = HeaderSize(net) /\ T = HeaderSize(l4)
  OBVIOUS
<1>9. PICK z : z = TagProbe(p, tag).data
  OBVIOUS
<1>10. x = [d EXCEPT ![R] = tag]
  <2>1. a = [data |-> [d EXCEPT ![R] = tag], layers |-> p.layers]
    BY <1>2, <1>3, <1>7, <1>8, RoomWrites
  <2> QED
    BY <1>8, <2>1
<1>11. z = [[y EXCEPT ![C] = tag] EXCEPT ![R] = y[C]]
  <2>1. Swap(b, tag) = [data |-> [[y EXCEPT ![C] = tag] EXCEPT ![R] = y[C]], layers |-> b.layers]
    BY <1>2, <1>6, <1>7, <1>8, SwapWrites
  <2> QED
    BY <1>3, <1>5, <1>9, <2>1 DEF TagProbe
<1>12. IsList(d) /\ IsList(x) /\ Len(x) = Len(d)
       /\ Packet(d, net, l4) /\ Packet(x, net, l4) /\ IsLayers(a.layers, net, l4, s)
  <2>1. Packet(d, net, l4) /\ Packet(x, net, l4) /\ IsLayers(a.layers, net, l4, s)
    BY <1>2, <1>4, <1>8 DEF Made
  <2>2. IsList(d)
    BY <2>1 DEF Packet
  <2> QED
    BY <1>10, <2>1, <2>2, ListExcept
<1>13. PICK n \in Nat : n = Len(d)
  BY <1>12, ListDomain
<1>14. H \in {6, 7} /\ T \in {3, 4, 5} /\ n >= H + T /\ H = (IF net = "ipv4" THEN 7 ELSE 6)
  <2>1. HeaderSize("ipv6") = 6
    BY DEF HeaderSize, Protocol, Ipv6
  <2> QED
    BY <1>8, <1>12, <1>13, <2>1, NetFields, TransportFields DEF Packet, IpNames
<1>15. R \in 1 .. n /\ R > H + 2
  <2>1. Rest(d, net, l4) = s /\ n = H + T + s
    BY <1>1, <1>8, <1>12, <1>13, Sizes
  <2>2. CASE l4 \in IcmpNames
    <3>1. R = H + 3
      BY <1>7, <1>8, <2>2 DEF Room
    <3> QED
      BY <1>13, <1>14, <3>1
  <2>3. CASE l4 \notin IcmpNames
    <3>1. R = H + T + 1 /\ s >= 1
      BY <1>2, <1>7, <1>8, <2>3 DEF Room, Roomy
    <3> QED
      BY <1>2, <1>13, <1>14, <2>1, <3>1
  <2> QED
    BY <2>2, <2>3
<1>16. C \in 1 .. n /\ C > H + 1 /\ C # R
  <2>1. C \in Nat /\ C <= H + T /\ C > H + 1 /\ C # R
    BY <1>7, <1>8, CheckPlaces
  <2> QED
    BY <1>13, <1>14, <2>1
<1>17. DOMAIN d = 1 .. n /\ DOMAIN x = 1 .. n /\ Len(x) = n
  BY <1>10, <1>12, <1>13, ListDomain
<1>18. x[R] = tag /\ \A k \in 1 .. n : k # R => x[k] = d[k]
  BY <1>10, <1>15, <1>17
<1>19. /\ \A k \in 1 .. n : d[k] \in Words /\ (k > H + T => d[k] = 0)
       /\ Measured(d, net, l4) /\ n + 4 \in Words
  BY <1>8, <1>13 DEF Sound, Clean
<1>20. Summable(x, net, l4)
  <2>1. \A k \in 1 .. n : x[k] \in Words
    BY <1>18, <1>19
  <2>2. Measured(x, net, l4)
    <3>1. x[2] = d[2]
      <4>1. PICK k : k = 2
        OBVIOUS
      <4>2. k \in 1 .. n /\ k # R
        BY <1>13, <1>14, <1>15, <4>1
      <4>3. x[k] = d[k]
        BY <1>18, <4>2
      <4> QED
        BY <4>1, <4>3
    <3>2. l4 = "udp" => x[H + 3] = d[H + 3]
      <4>1. HAVE l4 = "udp"
      <4>2. T = 4
        BY <1>8, <4>1 DEF HeaderSize, Protocol, Udp
      <4>3. R = H + 5
        <5>1. l4 \notin IcmpNames
          BY <4>1 DEF IcmpNames
        <5>2. R = H + T + 1
          BY <1>7, <1>8, <5>1 DEF Room
        <5> QED
          BY <1>14, <4>2, <5>2
      <4>4. PICK k : k = H + 3
        OBVIOUS
      <4>5. k \in 1 .. n /\ k # R
        BY <1>13, <1>14, <4>2, <4>3, <4>4
      <4>6. x[k] = d[k]
        BY <1>18, <4>5
      <4> QED
        BY <4>4, <4>6
    <3>3. Len(x) = Len(d)
      BY <1>12
    <3> QED
      BY <1>8, <1>19, <3>1, <3>2, <3>3 DEF Measured
  <2> QED
    BY <1>17, <1>19, <2>1, <2>2 DEF Summable
<1>21. Span(x, net, l4) \in Nat /\ Csum(Summed(x, net, l4, 0)) \in Words
  <2>1. PICK junk : junk = 0
    OBVIOUS
  <2>2. PICK u : u = Summed(x, net, l4, junk)
    OBVIOUS
  <2>3. PICK m : m = Counted(net, l4) + Span(x, net, l4)
    OBVIOUS
  <2>4. PICK c : c = Counted(net, l4) + FieldOffset(l4, "checksum")
    OBVIOUS
  <2>5. junk \in Words
    BY <2>1, WordsAre
  <2>6. /\ Span(x, net, l4) \in Nat
        /\ m \in Nat /\ m < W /\ DOMAIN u = 1 .. m
        /\ \A k \in 1 .. m : u[k] \in Words
        /\ c \in 1 .. m /\ u[c] = 0
    BY <1>12, <1>20, <2>2, <2>3, <2>4, <2>5, SummedWords
  <2>7. Csum(u) \in Words
    BY <2>6, CsumIsWord
  <2> QED
    BY <2>1, <2>2, <2>6, <2>7
<1>22. y = Checked(e, net)
  <2>1. PICK junk : junk = 0
    OBVIOUS
  <2>2. b = [a EXCEPT !.data = UpdateChecksum(x, a.layers, junk)]
    BY <1>5, <1>8, <2>1 DEF Resum
  <2>3. a = [data |-> a.data, layers |-> a.layers]
    BY <1>4 DEF Made
  <2>4. y = UpdateChecksum(x, a.layers, junk)
    BY <1>8, <2>2, <2>3
  <2>5. UpdateChecksum(x, a.layers, junk) = Checked(WithChecksum(x, net, l4, junk), net)
    BY <1>12, <1>21, ChecksumsAre
  <2> QED
    BY <1>8, <2>1, <2>4, <2>5
<1>23. PICK v : v = Csum(Summed(x, net, l4, 0))
  OBVIOUS
<1>24. /\ DOMAIN e = 1 .. n /\ e[C] = v /\ \A k \in 1 .. n : k # C => e[k] = x[k]
  <2>1. e = [x EXCEPT ![C] = v]
    BY <1>7, <1>8, <1>23 DEF WithChecksum
  <2> QED
    BY <1>16, <1>17, <2>1
<1>25. PICK h : h = Csum(HeaderWords(e))
  OBVIOUS
<1>26. /\ DOMAIN y = 1 .. n
       /\ \A k \in 1 .. n : y[k] = IF net = "ipv4" /\ k = 5 THEN h ELSE e[k]
  <2>1. y = IF net = "ipv4" THEN [e EXCEPT ![5] = h] ELSE e
    BY <1>22, <1>25 DEF Checked
  <2> QED
    BY <1>24, <2>1
<1>27. /\ DOMAIN z = 1 .. n /\ z[C] = tag /\ z[R] = y[C]
       /\ \A k \in 1 .. n : k # C /\ k # R => z[k] = y[k]
  BY <1>11, <1>15, <1>16, <1>26
<1>28. IsList(z) /\ Len(z) = n
  <2>1. Whole(TagProbe(p, tag), net, l4) /\ Same(p.data, TagProbe(p, tag).data, Core(net, l4))
    BY TagKept
  <2> QED
    BY <1>8, <1>9, <1>13, <2>1 DEF Same
<1>29. y[C] = v
  <2>1. ~(net = "ipv4" /\ C = 5)
    BY <1>14, <1>16
  <2> QED
    BY <1>16, <1>24, <1>26, <2>1
<1>30. \A k \in 1 .. n : k >= H - 1 /\ k # C /\ k # R => z[k] = x[k]
  <2>1. SUFFICES ASSUME NEW k \in 1 .. n, k >= H - 1, k # C, k # R
                 PROVE  z[k] = x[k]
    OBVIOUS
  <2>2. ~(net = "ipv4" /\ k = 5)
    BY <1>14, <2>1
  <2> QED
    BY <1>24, <1>26, <1>27, <2>1, <2>2
<1>31. Adds(Received(z, net, l4, Presumed(z, net, l4)))
  <2>1. \A k \in 1 .. Len(x) : k > HeaderSize(net) + HeaderSize(l4) /\ k # R => x[k] = 0
    BY <1>8, <1>17, <1>18, <1>19
  <2>2. \A k \in 1 .. Len(x) : k >= HeaderSize(net) - 1 /\ k # C /\ k # R => z[k] = x[k]
    BY <1>8, <1>17, <1>30
  <2>3. IsList(z) /\ Len(z) = Len(x) /\ R \in 1 .. Len(x)
    BY <1>15, <1>17, <1>28
  <2>4. z[C] = x[R] /\ z[R] = Csum(Summed(x, net, l4, 0))
    BY <1>18, <1>23, <1>27, <1>29
  <2>5. Packet(x, net, l4) /\ R = Room(net, l4) /\ C = Check(net, l4)
    BY <1>7, <1>12
  <2> HIDE DEF Check, Room
  <2> QED
    BY <1>20, <2>1, <2>2, <2>3, <2>4, <2>5, SegmentAdds
<1>32. \A k \in 1 .. H : z[k] = IF net = "ipv4" /\ k = 5 THEN h ELSE x[k]
  <2>1. SUFFICES ASSUME NEW k \in 1 .. H
                 PROVE  z[k] = IF net = "ipv4" /\ k = 5 THEN h ELSE x[k]
    OBVIOUS
  <2>2. k \in 1 .. n /\ k # C /\ k # R
    BY <1>13, <1>14, <1>15, <1>16
  <2> QED
    BY <1>24, <1>26, <1>27, <2>2
<1>33. net = "ipv4" => z[4] = Protocol[l4].id /\ Adds(SubSeq(z, 1, 7))
  <2>1. HAVE net = "ipv4"
  <2>2. H = 7
    BY <1>14, <2>1
  <2>3. z[4] = Protocol[l4].id
    <3>1. PICK k : k = 4
      OBVIOUS
    <3>2. k \in 1 .. H /\ ~(k = 5)
      BY <2>2, <3>1
    <3>3. z[k] = x[k]
      BY <1>32, <3>2
    <3>4. x[4] = Protocol[l4].id
      BY <1>12, <2>1, NetFields DEF Packet
    <3> QED
      BY <3>1, <3>3, <3>4
  <2>4. \A k \in 1 .. 7 : k \in 1 .. n /\ k # C
    BY <1>13, <1>14, <1>16, <2>2
  <2>5. \A k \in 1 .. 7 : e[k] \in Words /\ e[k] = x[k]
    BY <1>17, <1>20, <1>24, <2>4 DEF Summable
  <2>6. \A k \in 1 .. 7 : z[k] = IF k = 5 THEN h ELSE e[k]
    BY <1>32, <2>1, <2>2, <2>5
  <2>7. Len(z) >= 7
    BY <1>13, <1>14, <1>28, <2>2
  <2>8. Adds(SubSeq(z, 1, 7))
    BY <1>25, <1>28, <2>5, <2>6, <2>7, HeaderAdds
  <2> QED
    BY <2>3, <2>8
<1>34. net = "ipv6" => z[3] = Protocol[l4].id
  <2>1. HAVE net = "ipv6"
  <2>2. net # "ipv4" /\ H = 6
    BY <1>14, <2>1
  <2>3. PICK k : k = 3
    OBVIOUS
  <2>4. z[k] = x[k]
    BY <1>32, <2>2, <2>3
  <2>5. x[3] = Protocol[l4].id
    BY <1>12, <2>2, NetFields DEF Packet
  <2> QED
    BY <2>3, <2>4, <2>5
<1>35. Measured(z, net, l4)
  <2>1. z[2] = x[2]
    <3>1. PICK k : k = 2
      OBVIOUS
    <3>2. k \in 1 .. H /\ k # 5
      BY <1>14, <3>1
    <3>3. z[k] = x[k]
      BY <1>32, <3>2
    <3> QED
      BY <3>1, <3>3
  <2>2. l4 = "udp" => z[H + 3] = x[H + 3]
    <3>1. HAVE l4 = "udp"
    <3>2. T = 4 /\ l4 \notin IcmpNames /\ FieldOffset(l4, "checksum") = 4
      BY <1>8, <3>1, TransportFields DEF HeaderSize, Protocol, Udp, IcmpNames
    <3>3. R = H + 5 /\ C = H + 4
      BY <1>7, <1>8, <1>14, <3>2 DEF Room, Check
    <3>4. PICK k : k = H + 3
      OBVIOUS
    <3>5. k \in 1 .. n /\ k >= H - 1 /\ k # R /\ k # C
      BY <1>13, <1>14, <3>2, <3>3, <3>4
    <3>6. z[k] = x[k]
      BY <1>30, <3>5
    <3> QED
      BY <3>4, <3>6
  <2>3. Len(z) = Len(x)
    BY <1>17, <1>28
  <2> QED
    BY <1>8, <1>20, <2>1, <2>2, <2>3 DEF Summable, Measured
<1>36. Len(z) >= HeaderSize(net) + HeaderSize(l4)
  BY <1>8, <1>14, <1>28
<1> QED
  BY <1>9, <1>28, <1>31, <1>33, <1>34, <1>35, <1>36, ValidIs

(* Default headers are words. *)
LEMMA DefaultWords ==
    ASSUME NEW net \in IpNames, NEW l4 \in TransportNames, NEW d, d = Headers(net, l4)
    PROVE  \A k \in 1 .. Len(d) : d[k] \in Words
<1> DEFINE a == Protocol[net].default
           b == Protocol[l4].default
<1>1. /\ UdpPort \in Words /\ TcpPorts[1] \in Words /\ TcpPorts[2] \in Words
      /\ \A v \in 0 .. 255 : v \in Words
      /\ W - 1 \in Words
  BY WordsAre, ProtocolsAssumption
<1>2. a \in Seq(Words)
  <2>1. CASE net = "ipv4"
    <3>1. a = <<4, 0, W - 1, 4, 0, 0, 0>>
      BY <2>1 DEF Protocol, Ipv4
    <3> HIDE DEF a
    <3> QED
      BY <1>1, <3>1
  <2>2. CASE net = "ipv6"
    <3>1. a = <<6, 0, 17, 64, 0, 0>>
      BY <2>2 DEF Protocol, Ipv6
    <3> HIDE DEF a
    <3> QED
      BY <1>1, <3>1
  <2> QED
    BY <2>1, <2>2 DEF IpNames
<1>3. b \in Seq(Words)
  <2>1. CASE l4 = "udp"
    <3>1. b = <<UdpPort, UdpPort, 0, 0>>
      BY <2>1 DEF Protocol, Udp
    <3> HIDE DEF b
    <3> QED
      BY <1>1, <3>1
  <2>2. CASE l4 = "tcp"
    <3>1. b = <<TcpPorts[1], TcpPorts[2], 0, 0, 0>>
      BY <2>2 DEF Protocol, Tcp
    <3> HIDE DEF b
    <3> QED
      BY <1>1, <3>1
  <2>3. CASE l4 = "icmpv4"
    <3>1. b = <<8, 0, 0>>
      BY <2>3 DEF Protocol, Icmpv4
    <3> HIDE DEF b
    <3> QED
      BY <1>1, <3>1
  <2>4. CASE l4 = "icmpv6"
    <3>1. b = <<128, 0, 0>>
      BY <2>4 DEF Protocol, Icmpv6
    <3> HIDE DEF b
    <3> QED
      BY <1>1, <3>1
  <2> QED
    BY <2>1, <2>2, <2>3, <2>4 DEF TransportNames, IcmpNames
<1> HIDE DEF a, b
<1>4. d = a \o b
  BY DEF Headers, a, b
<1>5. d \in Seq(Words)
  BY <1>2, <1>3, <1>4
<1> QED
  BY <1>5

(* What SetProtocols makes is sound: its lengths are set and it has no     *)
(* payload.                                                                *)
LEMMA NewSound ==
    ASSUME NEW net \in IpNames, NEW l4 \in TransportNames,
           NEW d, d = Headers(net, l4),
           NEW ls, ls = <<LayerFrom(d, net, 0), LayerFrom(d, l4, LayerFrom(d, net, 0).size),
                          [proto |-> Payload, at |-> Len(d), size |-> 0]>>,
           NEW g, g = LayerSetLength(LayerSet(LayerSetLength(d, ls[1], Len(d)),
                                              ls[1], "protocol", Protocol[l4].id),
                                     ls[2], Len(d) - ls[2].at)
    PROVE  Sound(g, net, l4) /\ Rest(g, net, l4) = 0
<1>1. PICK H, T : H = HeaderSize(net) /\ T = HeaderSize(l4)
  OBVIOUS
<1>2. H \in {6, 7} /\ T \in {3, 4, 5}
  BY <1>1, NetFields, TransportFields
<1>3. IsList(d) /\ Len(d) = H + T
  BY <1>1, DefaultHeaders
<1>4. LayerFrom(d, net, 0) = [proto |-> net, at |-> 0, size |-> H]
  <2>1. H \in Nat /\ Len(d) \in Nat /\ Len(d) >= 0 + H
    BY <1>2, <1>3
  <2> QED
    BY <1>1, <2>1, HeaderLayer
<1>5. LayerFrom(d, l4, H) = [proto |-> l4, at |-> H, size |-> T]
  <2>1. H \in Nat /\ T \in Nat /\ Len(d) \in Nat /\ Len(d) >= H + T
    BY <1>2, <1>3
  <2> QED
    BY <1>1, <2>1, HeaderLayer
<1>6. PICK s : s = 0
  OBVIOUS
<1>7. IsLayers(ls, net, l4, s)
  <2>1. ls[1] = [proto |-> net, at |-> 0, size |-> H]
        /\ ls[2] = [proto |-> l4, at |-> H, size |-> T]
        /\ ls[3] = [proto |-> Payload, at |-> H + T, size |-> s]
    BY <1>3, <1>4, <1>5, <1>6
  <2>2. ls = [i \in 1 .. 3 |-> ls[i]] /\ Len(ls) = 3
    OBVIOUS
  <2>3. IsList(ls)
    BY <2>2, ListOfFunction
  <2> QED
    BY <1>1, <2>1, <2>2, <2>3 DEF IsLayers
<1>8. PICK e, f, id, K : /\ e = LayerSetLength(d, ls[1], Len(d))
                         /\ f = LayerSet(e, ls[1], "protocol", id)
                         /\ id = Protocol[l4].id
                         /\ K = {2}
  OBVIOUS
<1>9. Len(d) >= H + T /\ Len(d) + 4 \in Words
  BY <1>2, <1>3, WordsAre
<1>10. Clean(d, net, l4)
  <2>1. \A k \in 1 .. Len(d) : d[k] \in Words
    BY DefaultWords
  <2>2. \A k \in 1 .. Len(d) : ~(k > H + T)
    BY <1>2, <1>3
  <2> QED
    BY <1>1, <2>1, <2>2 DEF Clean
<1>11. /\ IsList(e) /\ Len(e) = Len(d) /\ Clean(e, net, l4)
       /\ e[2] = (IF net = "ipv4" THEN Len(d) ELSE Len(d) - H)
  BY <1>1, <1>3, <1>7, <1>8, <1>9, <1>10, FirstLength
<1>12. PICK place : place = FieldAt(ls[1], "protocol")
  OBVIOUS
<1>13. LayerHas(ls[1], "protocol") /\ place \in {3, 4}
  <2>1. ls[1].proto = net /\ ls[1].at = 0 /\ net # Payload
    BY <1>7 DEF IsLayers, IpNames, Payload
  <2>2. HasField(net, "protocol") /\ FieldOffset(net, "protocol") \in {3, 4}
    BY NetFields
  <2>3. PICK o \in Int : o = FieldOffset(net, "protocol")
    BY <2>2
  <2>4. place = 0 + o
    BY <1>12, <2>1, <2>3 DEF FieldAt
  <2> QED
    BY <2>1, <2>2, <2>3, <2>4 DEF LayerHas, IsProtocol
<1>14. f = [e EXCEPT ![place] = id]
  BY <1>8, <1>12, <1>13 DEF LayerSet
<1>15. id \in Words
  <2>1. id \in {17, 6, 1, 58}
    BY <1>8 DEF Protocol, TransportNames, IcmpNames, Udp, Tcp, Icmpv4, Icmpv6
  <2> QED
    BY <2>1, WordsAre
<1>16. IsList(f) /\ Len(f) = Len(d) /\ Clean(f, net, l4)
  <2>1. IsList(f) /\ Len(f) = Len(d)
    BY <1>11, <1>14, ListExcept
  <2>2. place \in 1 .. HeaderSize(net) + HeaderSize(l4)
    BY <1>1, <1>2, <1>13
  <2>3. HeaderSize(net) \in Nat /\ HeaderSize(l4) \in Nat
    BY <1>1, <1>2
  <2>4. Clean([e EXCEPT ![place] = id], net, l4)
    BY <1>11, <1>15, <2>2, <2>3, CleanExcept
  <2> QED
    BY <1>14, <2>1, <2>4
<1>17. f[2] = (IF net = "ipv4" THEN Len(f) ELSE Len(f) - H)
  <2>1. f[2] = e[2]
    BY <1>13, <1>14
  <2> QED
    BY <1>11, <1>16, <2>1
<1>18. g = LayerSetLength(f, ls[2], Len(f) - H)
  <2>1. ls[2].at = H
    BY <1>1, <1>7 DEF IsLayers
  <2>2. g = LayerSetLength(f, ls[2], Len(d) - ls[2].at)
    BY <1>8
  <2> QED
    BY <1>16, <2>1, <2>2
<1>19. Sound(g, net, l4)
  <2>1. Len(f) >= HeaderSize(net) + HeaderSize(l4) /\ Len(f) + 4 \in Words
    BY <1>1, <1>9, <1>16
  <2>2. f[2] = (IF net = "ipv4" THEN Len(f) ELSE Len(f) - HeaderSize(net))
    BY <1>1, <1>17
  <2>3. g = LayerSetLength(f, ls[2], Len(f) - HeaderSize(net))
    BY <1>1, <1>18
  <2>4. IsList(f) /\ Clean(f, net, l4)
    BY <1>16
  <2> QED
    BY ONLY net \in IpNames, l4 \in TransportNames, <1>7, <2>1, <2>2, <2>3, <2>4, SecondLength
<1>20. Len(g) = H + T
  <2>1. PICK i, v : i = 2 /\ v = Len(f) - H
    OBVIOUS
  <2>2. i \in 1 .. 3
    BY <2>1
  <2>3. Same(f, LayerSetLength(f, ls[i], v), Core(net, l4))
    BY <1>7, <1>16, <2>2, LengthSame
  <2> QED
    BY <1>3, <1>16, <1>18, <2>1, <2>3 DEF Same
<1>21. Rest(g, net, l4) = 0
  BY <1>1, <1>2, <1>20 DEF Rest
<1> QED
  BY <1>19, <1>21

(* Setting any field but a length, by its name or as the flow. *)
LEMMA SetSound ==
    ASSUME NEW net \in IpNames, NEW l4 \in TransportNames, NEW s, NEW p, Made(p, net, l4, s),
           Sound(p.data, net, l4), NEW name, name # "length", NEW v,
           name = "flow_id" => FlowBase + v \in Words,
           name # "flow_id" => v \in Words
    PROVE  Sound(SetField(p, name, v).data, net, l4)
<1>1. CASE name = "flow_id"
  <2>1. Position(p, "flow_id", 0) = 0
    BY FieldPlaces DEF Made
  <2>2. PICK w, field : w = FlowBase + v /\ field = "src_port"
    OBVIOUS
  <2>3. SetField(p, name, v) = SetFieldFrom(p, field, w, 0)
    BY <1>1, <2>1, <2>2 DEF SetField
  <2>4. w \in Words /\ field # "length"
    BY <1>1, <2>2
  <2>5. Sound(SetFieldFrom(p, field, w, 0).data, net, l4)
    BY <2>4, SetFieldSound
  <2> QED
    BY <2>3, <2>5
<1>2. CASE name # "flow_id"
  <2>1. SetField(p, name, v) = SetFieldFrom(p, name, v, 0) \/ SetField(p, name, v) = p
    BY <1>2 DEF SetField
  <2>2. v \in Words
    BY <1>2
  <2>3. Sound(SetFieldFrom(p, name, v, 0).data, net, l4)
    BY <2>2, SetFieldSound
  <2> QED
    BY <2>1, <2>3
<1> QED
  BY <1>1, <1>2

-----------------------------------------------------------------------------
(* The life of the probes of a program, as far as checksums go *)

(* What the main of a program makes of its options are words. *)
Typed ==
    /\ Fit(program.net, program.l4)
    /\ program.target \in Words /\ program.source \in Words /\ program.ttl \in Words
    /\ program.ports[1] \in Words /\ program.ports[2] \in Words
    /\ program.payload \in 0 .. 2
    /\ program.ttls \subseteq Words \cup {NoTtl}
    /\ \A f \in program.flows : f = NoFlow \/ FlowBase + f \in Words
    /\ IsList(program.steps) /\ Len(program.steps) <= 8

(* A step adds two words of payload at most, so that no length overflows.  *)
Budget(n) == 16 - 2 * n

(* The skeleton and the queued probes have words small enough for their    *)
(* sums, and the packets on the wire add up.                               *)
SoundProbes ==
    /\ Small(skel, program.net, program.l4, Budget(Len(todo)))
    /\ \A i \in DOMAIN sendq : Sound(sendq[i].probe.data, program.net, program.l4)
    /\ WellFormed

(* The invariant, for a program of any age. *)
SoundInv ==
    /\ lastTag \in Words
    /\ \/ Unknown
       \/ /\ Typed /\ IsList(todo) /\ Len(todo) <= 8
          /\ Ready \/ SoundProbes

LEMMA SoundInit ==
    ASSUME ProbeInit
    PROVE  SoundInv
<1>1. lastTag \in Words
  BY ProbeAssumption DEF ProbeInit
<1>2. Unknown
  BY DEF ProbeInit, Unknown, NoSkeleton, NoProbe
<1> QED
  BY <1>1, <1>2 DEF SoundInv

(* Typed speaks of the program alone. *)
LEMMA TypedStays ==
    ASSUME Typed, program' = program
    PROVE  Typed'
  BY DEF Typed, Fit

(* A step that builds the skeleton. *)
LEMMA BuiltSound ==
    ASSUME PacketInv, SoundInv, todo # << >>, Head(todo) # "options", todo' = Tail(todo),
           NEW p, Built(p), Small(p, program.net, program.l4, Budget(Len(todo)) + 2)
    PROVE  SoundInv'
<1>1. /\ Typed /\ IsList(todo) /\ Len(todo) <= 8 /\ lastTag \in Words /\ NoProbe
  BY DEF SoundInv, PacketInv, Unknown, Ready, Running
<1>2. /\ skel' = p /\ program' = program /\ lastTag' = lastTag
      /\ sendq' = sendq /\ wire' = wire
  BY DEF Built
<1>3. IsList(todo') /\ Len(todo) \in Nat /\ Len(todo') = Len(todo) - 1
  BY <1>1, ListTail
<1>4. Budget(Len(todo')) = Budget(Len(todo)) + 2
  <2>1. PICK n \in Nat : n = Len(todo)
    BY <1>3
  <2>2. Len(todo') = n - 1
    BY <1>3, <2>1
  <2>3. 16 - 2 * (n - 1) = 16 - 2 * n + 2
    OBVIOUS
  <2> QED
    BY <2>1, <2>2, <2>3 DEF Budget
<1>5. Small(p, program.net, program.l4, Budget(Len(todo')))
  BY <1>4
<1>6. Small(skel, program.net, program.l4, Budget(Len(todo)))'
  BY <1>2, <1>5 DEF Small, Sound, Clean, Measured, Rest, Budget
<1>7. sendq' = << >> /\ wire' = << >>
  BY <1>1, <1>2 DEF NoProbe
<1>8. SoundProbes'
  <2>1. PICK e : e = << >>
    OBVIOUS
  <2>2. DOMAIN e = {} /\ sendq' = e /\ wire' = e
    BY <1>7, <2>1
  <2> QED
    BY <1>6, <2>2 DEF SoundProbes, WellFormed
<1>9. Typed'
  BY <1>1, <1>2, TypedStays
<1>10. Len(todo') <= 8
  BY <1>1, <1>3
<1>11. lastTag' \in Words
  BY <1>1, <1>2
<1> QED
  BY <1>3, <1>8, <1>9, <1>10, <1>11 DEF SoundInv

(* The first step. *)
LEMMA SetProtocolsSound ==
    ASSUME PacketInv, SoundInv, SetProtocols
    PROVE  SoundInv'
<1>1. todo # << >> /\ Head(todo) = "protocols" /\ todo' = Tail(todo)
  BY DEF SetProtocols, AtStep
<1>2. GoodProgram /\ NoProbe
  BY <1>1 DEF PacketInv, Unknown, Ready, Running
<1>3. IsList(todo) /\ Len(todo) <= 8
  BY <1>1 DEF SoundInv, Unknown
<1> DEFINE net == program.net
           l4 == program.l4
<1>4. PICK d : d = Headers(net, l4)
  OBVIOUS
<1>5. PICK ls : ls = <<LayerFrom(d, net, 0), LayerFrom(d, l4, LayerFrom(d, net, 0).size),
                       [proto |-> Payload, at |-> Len(d), size |-> 0]>>
  OBVIOUS
<1>6. PICK g : g = LayerSetLength(LayerSet(LayerSetLength(d, ls[1], Len(d)),
                                           ls[1], "protocol", Protocol[l4].id),
                                  ls[2], Len(d) - ls[2].at)
  OBVIOUS
<1>7. PICK p : p = [data |-> LayerSetLength(LayerSet(LayerSetLength(d, ls[1], Len(d)),
                                                     ls[1], "protocol", Protocol[l4].id),
                                            ls[2], Len(d) - ls[2].at),
                    layers |-> ls]
  OBVIOUS
<1>8. Built(p)
  BY <1>4, <1>5, <1>7, SetProtocolsBuilds
<1>9. Sound(g, net, l4) /\ Rest(g, net, l4) = 0
  <2>1. net \in IpNames /\ l4 \in TransportNames
    BY <1>2 DEF GoodProgram
  <2> QED
    BY <1>4, <1>5, <1>6, <2>1, NewSound
<1>10. Small(p, net, l4, Budget(Len(todo)) + 2)
  <2>1. PICK n \in Nat : n = Len(todo)
    BY <1>3, ListDomain
  <2>2. n <= 8
    BY <1>3, <2>1
  <2>3. 0 <= 16 - 2 * n + 2
    BY <2>2
  <2>4. Rest(g, net, l4) <= Budget(Len(todo)) + 2
    BY <1>9, <2>1, <2>3 DEF Budget
  <2> QED
    BY <1>6, <1>7, <1>9, <2>4 DEF Small
<1> QED
  BY <1>1, <1>8, <1>10, BuiltSound

(* A skeleton that was small enough for a step still is after it. *)
LEMMA SmallGrows ==
    ASSUME NEW p, NEW q, NEW net, NEW l4, NEW b \in Nat, Small(p, net, l4, b),
           Sound(q.data, net, l4), Len(q.data) = Len(p.data), Rest(p.data, net, l4) \in Nat
    PROVE  Small(q, net, l4, b + 2)
<1>1. Rest(q.data, net, l4) = Rest(p.data, net, l4)
  BY DEF Rest
<1>2. PICK r \in Nat : r = Rest(p.data, net, l4)
  OBVIOUS
<1>3. r <= b + 2
  BY <1>2 DEF Small
<1> QED
  BY <1>1, <1>2, <1>3 DEF Small

(* The other steps that build the skeleton. *)
LEMMA OtherBuildSound ==
    ASSUME PacketInv, SoundInv,
           SetAddress \/ SetTtl \/ SetPorts \/ ResizePayload \/ WriteFirst \/ SetTarget
    PROVE  SoundInv'
<1>1. /\ todo # << >> /\ todo' = Tail(todo)
      /\ Head(todo) \in {"address", "ttl", "ports", "resize", "write", "target"}
  BY DEF SetAddress, SetTtl, SetPorts, ResizePayload, WriteFirst, SetTarget, AtStep
<1>2. Running /\ Typed /\ SoundProbes /\ IsList(todo) /\ Len(todo) <= 8
  BY <1>1 DEF PacketInv, SoundInv, Unknown, Ready
<1>3. PICK net, l4, b : /\ net = program.net /\ l4 = program.l4 /\ b = Budget(Len(todo))
  OBVIOUS
<1>4. /\ net \in IpNames /\ l4 \in TransportNames /\ Skeleton(skel, net, l4)
      /\ Small(skel, net, l4, b) /\ Fit(net, l4)
  BY <1>2, <1>3 DEF Running, GoodProgram, SoundProbes, Typed
<1>5. b \in Nat /\ b <= 16
  <2>1. PICK n \in Nat : n = Len(todo)
    BY <1>2, ListDomain
  <2>2. n <= 8
    BY <1>2, <2>1
  <2>3. 16 - 2 * n \in Nat /\ 16 - 2 * n <= 16
    BY <2>2
  <2> QED
    BY <1>3, <2>1, <2>3 DEF Budget
<1>6. ASSUME NEW p, Built(p), Small(p, net, l4, b + 2)
      PROVE  SoundInv'
  <2>1. Head(todo) # "options"
    BY <1>1
  <2>2. Small(p, program.net, program.l4, Budget(Len(todo)) + 2)
    BY <1>3, <1>6
  <2> QED
    BY <1>1, <1>6, <2>1, <2>2, BuiltSound
<1>7. PICK s : s = IF routed THEN Rest(skel.data, net, l4) ELSE 0
  OBVIOUS
<1>8. /\ Made(skel, net, l4, s) /\ Sound(skel.data, net, l4) /\ Rest(skel.data, net, l4) \in Nat
  <2>1. Made(skel, net, l4, s)
    BY <1>4, <1>7 DEF Skeleton
  <2>2. Packet(skel.data, net, l4)
    BY <2>1 DEF Made
  <2> QED
    BY <1>4, <2>1, <2>2, Sizes DEF Small
(* A probe made of the skeleton, as long as it. *)
<1> DEFINE Like(p) == Made(p, net, l4, s) /\ Sound(p.data, net, l4) /\ Len(p.data) = Len(skel.data)
<1>9. Like(skel)
  BY <1>8
<1>10. ASSUME NEW p, Like(p)
       PROVE  Small(p, net, l4, b + 2)
  BY <1>4, <1>5, <1>8, <1>10, SmallGrows
<1>11. ASSUME NEW p, Like(p), NEW name \in Settable, name # "flow_id", NEW v \in Words
       PROVE  Like(SetFieldFrom(p, name, v, 0)) /\ Like(SetField(p, name, v))
  <2>1. name # "length"
    BY DEF Settable
  <2>2. Made(p, net, l4, s) /\ Sound(p.data, net, l4) /\ Len(p.data) = Len(skel.data)
    BY <1>11
  <2>3. Made(SetFieldFrom(p, name, v, 0), net, l4, s)
        /\ Len(SetFieldFrom(p, name, v, 0).data) = Len(p.data)
    BY <1>4, <2>2, SetFieldMade
  <2>4. Sound(SetFieldFrom(p, name, v, 0).data, net, l4)
    BY <1>4, <2>1, <2>2, SetFieldSound
  <2>5. Like(SetFieldFrom(p, name, v, 0))
    BY <2>2, <2>3, <2>4
  <2>6. SetField(p, name, v) = SetFieldFrom(p, name, v, 0) \/ SetField(p, name, v) = p
    BY <1>11 DEF SetField
  <2> HIDE DEF Like
  <2> QED
    BY <1>11, <2>5, <2>6
<1>12. ASSUME NEW p, Like(p), NEW junk \in Words
       PROVE  Small(UpdateFields(p, junk), net, l4, b + 2)
  <2>1. Made(p, net, l4, s) /\ Sound(p.data, net, l4) /\ Len(p.data) = Len(skel.data)
    BY <1>12
  <2>2. /\ Sound(UpdateFields(p, junk).data, net, l4)
        /\ Len(UpdateFields(p, junk).data) = Len(p.data)
    BY <1>4, <2>1, UpdateSound
  <2>3. PICK q : q = UpdateFields(p, junk)
    OBVIOUS
  <2>4. Sound(q.data, net, l4) /\ Len(q.data) = Len(skel.data)
    BY <2>1, <2>2, <2>3
  <2>5. Small(q, net, l4, b + 2)
    BY <1>4, <1>5, <1>8, <2>4, SmallGrows
  <2> QED
    BY <2>3, <2>5
<1> HIDE DEF Like
<1>13. /\ program.target \in Words /\ program.source \in Words /\ program.ttl \in Words
       /\ program.ports[1] \in Words /\ program.ports[2] \in Words /\ program.payload \in 0 .. 2
  BY <1>2 DEF Typed
<1>14. /\ {"dst_ip", "src_ip", "ttl", "src_port", "dst_port"} \subseteq Settable
       /\ 0 \in Words /\ W - 1 \in Words
  BY WordsAre DEF Settable
<1>15. CASE SetAddress
  <2>1. PICK p : p = SetFieldFrom(skel, "dst_ip", program.target, 0)
    OBVIOUS
  <2>2. PICK q : q = IF program.source = 0 THEN p ELSE SetFieldFrom(p, "src_ip", program.source, 0)
    OBVIOUS
  <2>3. Built(q)
    BY <1>15, <2>1, <2>2 DEF SetAddress
  <2>4. Like(p)
    BY <1>9, <1>11, <1>13, <1>14, <2>1
  <2>5. Like(q)
    BY <1>11, <1>13, <1>14, <2>2, <2>4
  <2> QED
    BY <1>6, <1>10, <2>3, <2>5
<1>16. CASE SetTtl
  <2>1. PICK p : p = SetFieldFrom(skel, "ttl", program.ttl, 0)
    OBVIOUS
  <2>2. Built(p)
    BY <1>16, <2>1 DEF SetTtl
  <2>3. Like(p)
    BY <1>9, <1>11, <1>13, <1>14, <2>1
  <2> QED
    BY <1>6, <1>10, <2>2, <2>3
<1>17. CASE SetPorts
  <2>1. PICK p : p = SetField(skel, "src_port", program.ports[1])
    OBVIOUS
  <2>2. PICK q : q = SetField(p, "dst_port", program.ports[2])
    OBVIOUS
  <2>3. PICK junk \in {0, W - 1} : Built(UpdateFields(q, junk))
    BY <1>17, <2>1, <2>2 DEF SetPorts
  <2>4. Like(p)
    BY <1>9, <1>11, <1>13, <1>14, <2>1
  <2>5. Like(q)
    BY <1>11, <1>13, <1>14, <2>2, <2>4
  <2>6. Small(UpdateFields(q, junk), net, l4, b + 2)
    <3>1. junk \in Words
      BY <1>14, <2>3
    <3> QED
      BY <1>12, <2>5, <3>1
  <2> QED
    BY <1>6, <2>3, <2>6
<1>18. CASE ResizePayload
  <2>1. PICK q : q = PayloadResize(skel, program.payload)
    OBVIOUS
  <2>2. Built(q)
    BY <1>18, <2>1 DEF ResizePayload
  <2>3. PICK size : size = program.payload
    OBVIOUS
  <2>4. size \in 0 .. 2
    BY <1>13, <2>3
  <2>5. Small(PayloadResize(skel, size), net, l4, b + 2)
    BY <1>4, <1>5, <2>4, PayloadResizeSound
  <2> QED
    BY <1>6, <2>1, <2>2, <2>3, <2>5
<1>19. CASE WriteFirst
  <2>1. PICK n : n = program.payload
    OBVIOUS
  <2>2. n \in 0 .. 2
    BY <1>13, <2>1
  <2>3. PICK ws : ws = [i \in 1 .. n |-> 0]
    OBVIOUS
  <2>4. DOMAIN ws = 1 .. n /\ Len(ws) = n /\ \A i \in 1 .. n : ws[i] = 0
    BY <2>2, <2>3
  <2>5. PICK q : q = WritePayload(skel, ws)
    OBVIOUS
  <2>6. Built(q)
    BY <1>19, <2>1, <2>3, <2>5 DEF WriteFirst
  <2>7. Small(WritePayload(skel, ws), net, l4, b + 2)
    BY <1>4, <1>5, <2>2, <2>4, WriteSound
  <2> QED
    BY <1>6, <2>5, <2>6, <2>7
<1>20. CASE SetTarget
  <2>1. PICK p : p = SetField(skel, "dst_ip", program.target)
    OBVIOUS
  <2>2. PICK q : q = SetField(p, "dst_port", program.ports[2])
    OBVIOUS
  <2>3. PICK junk : junk = 0
    OBVIOUS
  <2>4. Built(UpdateFields(q, junk))
    BY <1>20, <2>1, <2>2, <2>3 DEF SetTarget
  <2>5. Like(p)
    BY <1>9, <1>11, <1>13, <1>14, <2>1
  <2>6. Like(q)
    BY <1>11, <1>13, <1>14, <2>2, <2>5
  <2>7. Small(UpdateFields(q, junk), net, l4, b + 2)
    <3>1. junk \in Words
      BY <1>14, <2>3
    <3> QED
      BY <1>12, <2>6, <3>1
  <2> QED
    BY <1>6, <2>4, <2>7
<1> QED
  BY <1>15, <1>16, <1>17, <1>18, <1>19, <1>20

(* Steps that leave the skeleton alone. *)
LEMMA StillSound ==
    ASSUME PacketInv, SoundInv, program' = program, skel' = skel, todo' = todo, todo = << >>,
           lastTag' \in Words,
           \A i \in DOMAIN sendq' : Sound(sendq'[i].probe.data, program.net, program.l4),
           \A i \in DOMAIN wire' : Valid(wire'[i].data)
    PROVE  SoundInv'
<1>1. Typed /\ IsList(todo) /\ Len(todo) <= 8 /\ SoundProbes
  BY DEF SoundInv, Unknown, Ready
<1>2. Typed'
  BY <1>1, TypedStays
<1>3. Small(skel, program.net, program.l4, Budget(Len(todo)))'
  BY <1>1 DEF SoundProbes, Small, Sound, Clean, Measured, Rest, Budget
<1>4. \A i \in DOMAIN sendq' : Sound(sendq[i].probe.data, program.net, program.l4)'
  BY DEF Sound, Clean, Measured
<1>5. WellFormed'
  BY DEF WellFormed, Valid
<1> QED
  BY <1>1, <1>2, <1>3, <1>4, <1>5 DEF SoundInv, SoundProbes

(* What SendProbe puts in the queue. *)
LEMMA SentIsSound ==
    ASSUME NEW net \in IpNames, NEW l4 \in TransportNames, NEW sk, Skeleton(sk, net, l4),
           Sound(sk.data, net, l4), Fit(net, l4),
           NEW ttl, ttl = NoTtl \/ ttl \in Words,
           NEW flow, flow = NoFlow \/ FlowBase + flow \in Words,
           NEW p, p = IF ttl = NoTtl THEN Dup(sk) ELSE SetField(Dup(sk), "ttl", ttl),
           NEW q, q = IF flow = NoFlow THEN p ELSE SetField(p, "flow_id", flow)
    PROVE  Sound(UpdateFields(q, 0).data, net, l4)
<1>1. Packet(sk.data, net, l4)
  BY DEF Skeleton, Made
<1>2. PICK s : s = Rest(sk.data, net, l4)
  OBVIOUS
<1>3. PICK c : c = Dup(sk)
  OBVIOUS
<1>4. c.data = sk.data /\ Made(c, net, l4, s)
  <2>1. c = WrapPacket(sk.data)
    BY <1>3 DEF Dup
  <2>2. WrapPacket(sk.data).data = sk.data /\ Whole(WrapPacket(sk.data), net, l4)
    BY <1>1, WrapWhole
  <2> QED
    BY <1>2, <2>1, <2>2 DEF Whole
<1>5. Made(p, net, l4, s) /\ Sound(p.data, net, l4)
  <2>1. CASE ttl = NoTtl
    BY <1>3, <1>4, <2>1
  <2>2. CASE ttl # NoTtl
    <3>1. PICK name : name = "ttl"
      OBVIOUS
    <3>2. name # "length" /\ name # "flow_id" /\ ttl \in Words /\ name \in Settable
      BY <2>2, <3>1 DEF Settable
    <3>3. Sound(SetField(c, name, ttl).data, net, l4)
      <4>1. Sound(c.data, net, l4)
        BY <1>4
      <4> QED
        BY <1>4, <3>2, <4>1, SetSound
    <3>4. Made(SetField(c, name, ttl), net, l4, s)
      <4>1. Made(SetFieldFrom(c, name, ttl, 0), net, l4, s)
        BY <1>4, <3>2, SetFieldMade
      <4>2. SetField(c, name, ttl) \in {SetFieldFrom(c, name, ttl, 0), c}
        BY <3>2 DEF SetField
      <4> QED
        BY <1>4, <4>1, <4>2
    <3> QED
      BY <1>3, <2>2, <3>1, <3>3, <3>4
  <2> QED
    BY <2>1, <2>2
<1>6. Made(q, net, l4, s) /\ Sound(q.data, net, l4)
  <2>1. CASE flow = NoFlow
    BY <1>5, <2>1
  <2>2. CASE flow # NoFlow
    <3>1. PICK name, field, w : name = "flow_id" /\ field = "src_port" /\ w = FlowBase + flow
      OBVIOUS
    <3>2. name # "length" /\ FlowBase + flow \in Words /\ name \in Settable /\ field \in Settable
      BY <2>2, <3>1 DEF Settable
    <3>3. Sound(SetField(p, name, flow).data, net, l4)
      BY <1>5, <3>1, <3>2, SetSound
    <3>4. Made(SetField(p, name, flow), net, l4, s)
      <4>1. Made(SetFieldFrom(p, name, flow, 0), net, l4, s) /\ Made(SetFieldFrom(p, field, w, 0), net, l4, s)
        BY <1>5, <3>2, SetFieldMade
      <4>2. SetField(p, name, flow) \in {SetFieldFrom(p, name, flow, 0), SetFieldFrom(p, field, w, 0), p}
        BY <3>1 DEF SetField
      <4> QED
        BY <1>5, <4>1, <4>2
    <3> QED
      BY <2>2, <3>1, <3>3, <3>4
  <2> QED
    BY <2>1, <2>2
<1>7. PICK junk : junk = 0
  OBVIOUS
<1>8. junk \in Words
  BY <1>7, WordsAre
<1>9. Sound(UpdateFields(q, junk).data, net, l4)
  BY <1>6, <1>8, UpdateSound
<1> QED
  BY <1>7, <1>9

LEMMA SendProbeSound ==
    ASSUME PacketInv, SoundInv, SendProbe
    PROVE  SoundInv'
<1>1. todo = << >> /\ Running /\ Typed /\ SoundProbes /\ lastTag \in Words
  BY DEF SendProbe, PacketInv, SoundInv, Unknown, Ready
<1>2. PICK net, l4 : net = program.net /\ l4 = program.l4
  OBVIOUS
<1>3. /\ net \in IpNames /\ l4 \in TransportNames /\ Skeleton(skel, net, l4) /\ Fit(net, l4)
      /\ Sound(skel.data, net, l4)
  BY <1>1, <1>2 DEF Running, GoodProgram, Typed, SoundProbes, Small
<1>4. PICK ttl, flow, p, q :
           /\ ttl \in program.ttls
           /\ flow \in program.flows
           /\ p = (IF ttl = NoTtl THEN Dup(skel) ELSE SetField(Dup(skel), "ttl", ttl))
           /\ q = (IF flow = NoFlow THEN p ELSE SetField(p, "flow_id", flow))
           /\ sendq' = Append(sendq, [probe |-> UpdateFields(q, 0), ttl |-> ttl, flow |-> flow])
  BY DEF SendProbe
<1>5. PICK u, x : u = UpdateFields(q, 0) /\ x = [probe |-> u, ttl |-> ttl, flow |-> flow]
  OBVIOUS
<1>6. Sound(u.data, net, l4)
  <2>1. (ttl = NoTtl \/ ttl \in Words) /\ (flow = NoFlow \/ FlowBase + flow \in Words)
    BY <1>1, <1>4 DEF Typed
  <2>2. Sound(UpdateFields(q, 0).data, net, l4)
    BY <1>3, <1>4, <2>1, SentIsSound
  <2> QED
    BY <1>5, <2>2
<1>7. \A i \in DOMAIN sendq' : Sound(sendq'[i].probe.data, program.net, program.l4)
  <2>1. IsList(sendq)
    BY <1>1 DEF Running, GoodQueue
  <2>2. sendq' = Append(sendq, x)
    BY <1>4, <1>5
  <2>3. /\ IsList(Append(sendq, x)) /\ Len(Append(sendq, x)) = Len(sendq) + 1
        /\ \A i \in 1 .. Len(sendq) : Append(sendq, x)[i] = sendq[i]
        /\ Append(sendq, x)[Len(sendq) + 1] = x
    BY <2>1, ListAppend
  <2>4. /\ IsList(sendq') /\ Len(sendq') = Len(sendq) + 1
        /\ \A i \in 1 .. Len(sendq) : sendq'[i] = sendq[i]
        /\ sendq'[Len(sendq) + 1] = x
    BY <2>2, <2>3
  <2>5. PICK n \in Nat : n = Len(sendq)
    BY <2>1, ListDomain
  <2>6. DOMAIN sendq = 1 .. n /\ DOMAIN sendq' = 1 .. n + 1
    BY <2>1, <2>4, <2>5, ListDomain
  <2>7. \A i \in 1 .. n : sendq'[i] = sendq[i]
    BY <2>4, <2>5
  <2>8. sendq'[n + 1] = x
    BY <2>4, <2>5
  <2>9. \A i \in 1 .. n : Sound(sendq[i].probe.data, program.net, program.l4)
    BY <1>1, <2>6 DEF SoundProbes
  <2>10. Sound(x.probe.data, program.net, program.l4)
    BY <1>2, <1>5, <1>6
  <2>11. \A i \in 1 .. n + 1 : i \in 1 .. n \/ i = n + 1
    OBVIOUS
  <2> QED
    BY <2>6, <2>7, <2>8, <2>9, <2>10, <2>11
<1>8. program' = program /\ skel' = skel /\ todo' = todo /\ lastTag' = lastTag /\ wire' = wire
  BY DEF SendProbe
<1>9. \A i \in DOMAIN wire' : Valid(wire'[i].data)
  BY <1>1, <1>8 DEF SoundProbes, WellFormed
<1> QED
  BY <1>1, <1>7, <1>8, <1>9, StillSound

LEMMA ProcessSendqSound ==
    ASSUME PacketInv, SoundInv, ProcessSendq
    PROVE  SoundInv'
<1>1. sendq # << >> /\ sendq' = Tail(sendq) /\ lastTag' = (lastTag + 1) % W
      /\ program' = program /\ skel' = skel /\ todo' = todo
  BY DEF ProcessSendq
<1>2. todo = << >> /\ Running
  BY <1>1 DEF PacketInv, Unknown, Ready, Running, NoProbe
<1>3. Typed /\ SoundProbes /\ lastTag \in Words
  BY <1>2 DEF SoundInv, Unknown, Ready
<1>4. lastTag' \in Words
  BY <1>1, <1>3, NextTag
<1>5. PICK net, l4 : net = program.net /\ l4 = program.l4
  OBVIOUS
<1>6. net \in IpNames /\ l4 \in TransportNames /\ Fit(net, l4) /\ GoodQueue(sendq) /\ IsList(wire)
  BY <1>2, <1>3, <1>5 DEF Running, GoodProgram, GoodWire, Typed
<1>7. Among(sendq', sendq) /\ 1 \in DOMAIN sendq /\ Head(sendq) = sendq[1]
  BY <1>1, <1>6, TailAmong DEF GoodQueue
<1>8. \A i \in DOMAIN sendq' : Sound(sendq'[i].probe.data, program.net, program.l4)
  BY <1>3, <1>7 DEF Among, SoundProbes
<1>9. PICK s : s = Head(sendq)
  OBVIOUS
<1>10. GoodProbe(s) /\ Sound(s.probe.data, net, l4)
  BY <1>3, <1>5, <1>6, <1>7, <1>9 DEF GoodQueue, SoundProbes
<1>11. \A i \in DOMAIN wire : Valid(wire[i].data)
  BY <1>3 DEF SoundProbes, WellFormed
<1>12. CASE wire' = wire
  BY <1>2, <1>1, <1>4, <1>8, <1>11, <1>12, StillSound
<1>13. CASE wire' # wire
  <2>1. PICK sent, p, x :
          /\ HasRoom(s.probe)
          /\ p = TagProbe(s.probe, lastTag')
          /\ x = [data |-> p.data, ttl |-> s.ttl, flow |-> s.flow, sent |-> sent]
          /\ wire' = Append(wire, x)
    BY <1>9, <1>13 DEF ProcessSendq
  <2>2. Valid(x.data)
    <3>1. PICK tag : tag = lastTag'
      OBVIOUS
    <3>2. Whole(s.probe, net, l4) /\ HasRoom(s.probe) /\ tag \in Words
      BY <1>4, <1>5, <1>10, <2>1, <3>1 DEF GoodProbe
    <3>3. program.net = net /\ program.l4 = l4
      BY <1>5
    <3>4. Valid(TagProbe(s.probe, tag).data)
      BY <1>6, <1>10, <3>2, <3>3, TagIsValid
    <3> QED
      BY <2>1, <3>1, <3>4
  <2>3. /\ IsList(Append(wire, x)) /\ Len(Append(wire, x)) = Len(wire) + 1
        /\ \A i \in 1 .. Len(wire) : Append(wire, x)[i] = wire[i]
        /\ Append(wire, x)[Len(wire) + 1] = x
    BY <1>6, ListAppend
  <2>4. /\ IsList(wire') /\ Len(wire') = Len(wire) + 1
        /\ \A i \in 1 .. Len(wire) : wire'[i] = wire[i]
        /\ wire'[Len(wire) + 1] = x
    BY <2>1, <2>3
  <2>5. PICK n \in Nat : n = Len(wire)
    BY <1>6, ListDomain
  <2>6. DOMAIN wire = 1 .. n /\ DOMAIN wire' = 1 .. n + 1
    BY <1>6, <2>4, <2>5, ListDomain
  <2>7. (\A i \in 1 .. n : wire'[i] = wire[i]) /\ wire'[n + 1] = x
    BY <2>4, <2>5
  <2>8. \A i \in 1 .. n + 1 : i \in 1 .. n \/ i = n + 1
    OBVIOUS
  <2>9. \A i \in DOMAIN wire' : Valid(wire'[i].data)
    <3>1. SUFFICES ASSUME NEW i \in 1 .. n + 1
                   PROVE  Valid(wire'[i].data)
      BY <2>6
    <3>2. CASE i \in 1 .. n
      <4>1. wire'[i] = wire[i] /\ Valid(wire[i].data)
        BY <1>11, <2>6, <2>7, <3>2
      <4> QED
        BY <4>1
    <3>3. CASE i = n + 1
      <4>1. wire'[i] = x
        BY <2>7, <3>3
      <4> QED
        BY <2>2, <4>1
    <3> QED
      BY <2>8, <3>2, <3>3
  <2> QED
    BY <1>1, <1>2, <1>4, <1>8, <2>9, StillSound
<1> QED
  BY <1>12, <1>13

(* Answers change no probe of the queue and no packet. *)
LEMMA AnswersSound ==
    ASSUME PacketInv, SoundInv, ProcessRecvq \/ DropOldest \/ RouterAnswers \/ TargetAnswers
    PROVE  SoundInv'
<1>1. /\ program' = program /\ routed' = routed /\ skel' = skel /\ todo' = todo
      /\ lastTag' = lastTag /\ sendq' = sendq /\ wire' = wire
  BY DEF ProcessRecvq, DropOldest, RouterAnswers, TargetAnswers
<1>2. CASE todo = << >>
  <2>1. SoundProbes /\ lastTag \in Words
    BY <1>2 DEF SoundInv, Unknown, Ready
  <2> QED
    BY <1>1, <1>2, <2>1, StillSound DEF SoundProbes, WellFormed
<1>3. CASE todo # << >>
  <2>1. NoProbe
    BY <1>3 DEF PacketInv, Unknown, Ready, Running
  <2>2. flying' = flying
    <3>1. flying = << >>
      BY <2>1 DEF NoProbe
    <3>2. ~DropOldest
      BY <3>1 DEF DropOldest
    <3>3. ASSUME ProcessRecvq
          PROVE  flying' = flying
      <4>1. DOMAIN flying = {}
        BY <3>1
      <4>2. \A tag : MatchingProbe(tag) = 0
        BY <4>1 DEF MatchingProbe
      <4> QED
        BY <3>3, <4>2 DEF ProcessRecvq
    <3> QED
      BY <3>2, <3>3 DEF RouterAnswers, TargetAnswers
  <2>3. Unknown => Unknown'
    BY <1>1, <2>2 DEF Unknown, NoSkeleton, NoProbe
  <2>4. Typed => Typed'
    BY <1>1, TypedStays
  <2>5. Ready => Ready'
    BY <1>1, <2>2 DEF Ready, GoodProgram, NoSkeleton, NoProbe
  <2>6. SoundProbes => SoundProbes'
    BY <1>1 DEF SoundProbes, Small, Sound, Clean, Measured, Rest, Budget, WellFormed, Valid
  <2> QED
    BY <1>1, <2>3, <2>4, <2>5, <2>6 DEF SoundInv
<1> QED
  BY <1>2, <1>3

LEMMA ProbeNextSound ==
    ASSUME PacketInv, SoundInv, ProbeNext
    PROVE  SoundInv'
  BY SetProtocolsSound, OtherBuildSound, SendProbeSound, ProcessSendqSound, AnswersSound
     DEF ProbeNext, Build

-----------------------------------------------------------------------------
(* What the main has asked for *)

(* Where a packet says whom it goes to: the destination and the ports. *)
Marks(net, l4) ==
    {HeaderSize(net)} \cup {k \in {HeaderSize(net) + 1, HeaderSize(net) + 2} : l4 \notin IcmpNames}

Alike(d, e, net, l4) == \A k \in Marks(net, l4) : e[k] = d[k]

LEMMA MarksInCore ==
    ASSUME NEW net \in IpNames, NEW l4
    PROVE  Marks(net, l4) \subseteq Core(net, l4) \ {HeaderSize(net) - 1}
<1>1. HeaderSize(net) \in {6, 7}
  BY NetFields
<1> QED
  BY <1>1 DEF Marks, Core

LEMMA UpdateAlike ==
    ASSUME NEW net \in IpNames, NEW l4 \in TransportNames, NEW s, NEW p, Made(p, net, l4, s),
           NEW junk
    PROVE  Alike(p.data, UpdateFields(p, junk).data, net, l4)
<1>1. CASE routed
  BY <1>1, UpdateKept, MarksInCore DEF Refreshed, Same, Alike
<1>2. CASE ~routed
  BY <1>2 DEF UpdateFields, Alike
<1> QED
  BY <1>1, <1>2

LEMMA ResizeAlike ==
    ASSUME NEW net \in IpNames, NEW l4 \in TransportNames, NEW p, Skeleton(p, net, l4),
           NEW size \in Nat
    PROVE  Alike(p.data, PayloadResize(p, size).data, net, l4)
<1> DEFINE s == IF routed THEN Rest(p.data, net, l4) ELSE 0
           n == Len(p.data) - s + size
           q == PacketResize(p, n)
<1>1. Made(p, net, l4, s) /\ Packet(p.data, net, l4)
  BY DEF Skeleton, Made
<1>2. PayloadLayer(p).size = s
  BY <1>1, PayloadOf
<1>3. n \in Nat /\ n >= HeaderSize(net) + HeaderSize(l4)
  <2>1. /\ HeaderSize(net) \in Nat /\ HeaderSize(l4) \in Nat
        /\ Rest(p.data, net, l4) \in Nat
        /\ Len(p.data) = HeaderSize(net) + HeaderSize(l4) + Rest(p.data, net, l4)
    BY <1>1, Sizes
  <2> HIDE DEF q
  <2>2. CASE routed
    BY <2>1, <2>2
  <2>3. CASE ~routed
    BY <2>1, <2>3
  <2> QED
    BY <2>2, <2>3
<1>4. PayloadResize(p, size) \in {p, UpdateFields(q, 0)}
  BY <1>2 DEF PayloadResize
<1> HIDE DEF n
<1>5. Made(q, net, l4, s) /\ \A k \in Core(net, l4) : q.data[k] = p.data[k]
  BY <1>1, <1>3, ResizeKept
<1> HIDE DEF q, s
<1>6. Alike(q.data, UpdateFields(q, 0).data, net, l4)
  BY <1>5, UpdateAlike
<1>7. Alike(p.data, q.data, net, l4)
  BY <1>5, MarksInCore DEF Alike
<1> QED
  BY <1>4, <1>6, <1>7 DEF Alike

(* A field that is set, and the marks that it leaves alone. *)
LEMMA SetAlike ==
    ASSUME NEW net \in IpNames, NEW l4 \in TransportNames, NEW p, Skeleton(p, net, l4), NEW v
    PROVE  /\ \A name \in {"ttl", "src_ip", "flags"} :
                Alike(p.data, SetFieldFrom(p, name, v, 0).data, net, l4)
           /\ SetFieldFrom(p, "dst_ip", v, 0).data[HeaderSize(net)] = v
           /\ \A k \in Marks(net, l4) \ {HeaderSize(net)} :
                SetFieldFrom(p, "dst_ip", v, 0).data[k] = p.data[k]
<1>1. PICK s : Made(p, net, l4, s)
  BY DEF Skeleton
<1>2. /\ Position(p, "src_ip", 0) = HeaderSize(net) - 1
      /\ Position(p, "dst_ip", 0) = HeaderSize(net)
      /\ Position(p, "ttl", 0) = FieldOffset(net, "ttl")
      /\ Position(p, "flags", 0) = IF l4 = "tcp" THEN HeaderSize(net) + 4 ELSE 0
  BY <1>1, FieldPlaces DEF Made
<1>3. HeaderSize(net) \in {6, 7} /\ FieldOffset(net, "ttl") \in {3, 4}
  BY NetFields
<1>4. Packet(p.data, net, l4) /\ HeaderSize(l4) \in Nat /\ Len(p.data) \in Nat
      /\ Len(p.data) >= HeaderSize(net) + HeaderSize(l4)
  BY <1>1, Sizes DEF Made
<1>5. p = [data |-> p.data, layers |-> p.layers]
  BY <1>1 DEF Made
<1>6. DOMAIN p.data = 1 .. Len(p.data)
  BY <1>4, ListDomain DEF Packet
<1>7. ASSUME NEW name, NEW k \in Marks(net, l4), Position(p, name, 0) # k
      PROVE  SetFieldFrom(p, name, v, 0).data[k] = p.data[k]
  BY <1>5, <1>7 DEF SetFieldFrom
<1>8. HeaderSize(net) \in DOMAIN p.data
  BY <1>3, <1>4, <1>6
<1>9. SetFieldFrom(p, "dst_ip", v, 0).data[HeaderSize(net)] = v
  <2>1. PICK pos : pos = HeaderSize(net) /\ pos # 0 /\ pos \in DOMAIN p.data
    BY <1>3, <1>8
  <2>2. SetFieldFrom(p, "dst_ip", v, 0) = [p EXCEPT !.data[pos] = v]
    BY <1>2, <2>1 DEF SetFieldFrom
  <2>3. [p EXCEPT !.data[pos] = v] = [data |-> [p.data EXCEPT ![pos] = v], layers |-> p.layers]
    BY <1>5
  <2> QED
    BY <2>1, <2>2, <2>3
<1>10. \A k \in Marks(net, l4) : /\ k \in {HeaderSize(net), HeaderSize(net) + 1, HeaderSize(net) + 2}
                                 /\ k # Position(p, "src_ip", 0) /\ k # Position(p, "ttl", 0)
                                 /\ k # Position(p, "flags", 0)
  BY <1>2, <1>3 DEF Marks
<1>11. ASSUME NEW name \in {"ttl", "src_ip", "flags"}
       PROVE  Alike(p.data, SetFieldFrom(p, name, v, 0).data, net, l4)
  BY <1>7, <1>10 DEF Alike
<1>12. ASSUME NEW k \in Marks(net, l4) \ {HeaderSize(net)}
       PROVE  SetFieldFrom(p, "dst_ip", v, 0).data[k] = p.data[k]
  BY <1>2, <1>7
<1> QED
  BY <1>9, <1>11, <1>12

(* Both ports are set, if the protocol has any. *)
LEMMA PortsAlike ==
    ASSUME NEW net \in IpNames, NEW l4 \in TransportNames, NEW p, Skeleton(p, net, l4),
           NEW a, NEW b, NEW q, q = SetField(p, "src_port", a),
           NEW r, r = SetField(q, "dst_port", b)
    PROVE  /\ r.data[HeaderSize(net)] = p.data[HeaderSize(net)]
           /\ l4 \notin IcmpNames => /\ r.data[HeaderSize(net) + 1] = a
                                     /\ r.data[HeaderSize(net) + 2] = b
<1>1. PICK s : Made(p, net, l4, s)
  BY DEF Skeleton
<1>2. /\ Position(p, "src_port", 0) = IF l4 \in IcmpNames THEN 0 ELSE HeaderSize(net) + 1
      /\ Position(p, "dst_port", 0) = IF l4 \in IcmpNames THEN 0 ELSE HeaderSize(net) + 2
  BY <1>1, FieldPlaces DEF Made
<1>3. HeaderSize(net) \in {6, 7} /\ HeaderSize(l4) \in {3, 4, 5}
  BY NetFields, TransportFields
<1>4. Packet(p.data, net, l4) /\ Len(p.data) \in Nat
      /\ Len(p.data) >= HeaderSize(net) + HeaderSize(l4)
  BY <1>1, Sizes DEF Made
<1>5. p = [data |-> p.data, layers |-> p.layers]
  BY <1>1 DEF Made
<1>6. DOMAIN p.data = 1 .. Len(p.data)
  BY <1>4, ListDomain DEF Packet
<1>7. PICK i, j : i = HeaderSize(net) + 1 /\ j = HeaderSize(net) + 2
  OBVIOUS
<1>8. i # 0 /\ j # 0 /\ i # j /\ HeaderSize(net) # i /\ HeaderSize(net) # j
  BY <1>3, <1>7
<1>9. CASE l4 \in IcmpNames
  <2>1. q = p
    BY <1>2, <1>9 DEF SetField
  <2>2. r = p
    BY <1>2, <1>9, <2>1 DEF SetField
  <2> QED
    BY <1>9, <2>2
<1>10. CASE l4 \notin IcmpNames
  <2>1. i \in DOMAIN p.data /\ j \in DOMAIN p.data
    <3>1. HeaderSize(l4) \in {4, 5}
      BY <1>10, TransportFields
    <3> QED
      BY <1>3, <1>4, <1>6, <1>7, <3>1
  <2>2. q = [data |-> [p.data EXCEPT ![i] = a], layers |-> p.layers]
    <3>1. q = [p EXCEPT !.data[i] = a]
      BY <1>2, <1>7, <1>8, <1>10 DEF SetField, SetFieldFrom
    <3> QED
      BY <1>5, <3>1
  <2>3. Position(q, "dst_port", 0) = Position(p, "dst_port", 0)
    <3>1. q.layers = p.layers
      BY ONLY <2>2
    <3> QED
      BY ONLY <3>1 DEF Position
  <2>4. r = [data |-> [q.data EXCEPT ![j] = b], layers |-> q.layers]
    <3>1. r = [q EXCEPT !.data[j] = b]
      BY <1>2, <1>7, <1>8, <1>10, <2>3 DEF SetField, SetFieldFrom
    <3> QED
      BY <2>2, <3>1
  <2>5. r.data = [[p.data EXCEPT ![i] = a] EXCEPT ![j] = b]
    BY <2>2, <2>4
  <2>6. r.data[i] = a /\ r.data[j] = b /\ r.data[HeaderSize(net)] = p.data[HeaderSize(net)]
    <3>1. PICK d, e : d = p.data /\ e = [d EXCEPT ![i] = a]
      OBVIOUS
    <3>2. DOMAIN e = DOMAIN d /\ e[i] = a /\ e[HeaderSize(net)] = d[HeaderSize(net)]
      BY ONLY <1>8, <2>1, <3>1
    <3>3. PICK x, n : x = [e EXCEPT ![j] = b] /\ n = HeaderSize(net)
      OBVIOUS
    <3>4. r.data = x
      BY ONLY <2>5, <3>1, <3>3
    <3>5. j \in DOMAIN e /\ i # j /\ n # j
      BY ONLY <1>8, <2>1, <3>1, <3>2, <3>3
    <3>6. x[j] = b /\ x[i] = e[i] /\ x[n] = e[n]
      BY ONLY <3>3, <3>5
    <3> QED
      BY ONLY <3>1, <3>2, <3>3, <3>4, <3>6
  <2> QED
    BY <1>7, <2>6
<1> QED
  BY <1>9, <1>10

(* A step that is still to come. *)
Left(step) == \E i \in DOMAIN todo : todo[i] = step

(* The words that the main has asked for, once it is past the step that     *)
(* writes them.                                                             *)
Drawn ==
    /\ IsList(todo)
    /\ \A i \in DOMAIN todo :
         /\ todo[i] \in {"protocols", "address", "ttl", "ports", "resize", "flag"}
         /\ todo[i] = "protocols" =>
              i = 1 /\ Left("address") /\ (program.l4 \notin IcmpNames => Left("ports"))
    /\ Left("address") \/ skel.data[HeaderSize(program.net)] = program.target
    /\ program.l4 \notin IcmpNames =>
         \/ Left("ports")
         \/ /\ skel.data[HeaderSize(program.net) + 1] = program.ports[1]
            /\ skel.data[HeaderSize(program.net) + 2] = program.ports[2]

LEMMA LeftTail ==
    ASSUME IsList(todo), todo # << >>, todo' = Tail(todo)
    PROVE  /\ IsList(todo')
           /\ \A i \in DOMAIN todo' : i + 1 \in DOMAIN todo /\ todo'[i] = todo[i + 1] /\ i \in Nat
           /\ \A step : step # Head(todo) /\ Left(step) => Left(step)'
<1>1. PICK S : todo \in Seq(S)
  BY DEF IsList
<1>2. /\ Len(todo) \in Nat /\ Len(todo') = Len(todo) - 1 /\ todo' \in Seq(S)
      /\ \A i \in 1 .. Len(todo') : todo'[i] = todo[i + 1]
      /\ DOMAIN todo = 1 .. Len(todo) /\ DOMAIN todo' = 1 .. Len(todo') /\ Head(todo) = todo[1]
  BY <1>1
<1>3. PICK m \in Nat : m = Len(todo)
  BY <1>2
<1>4. ASSUME NEW i \in DOMAIN todo'
      PROVE  i + 1 \in DOMAIN todo /\ todo'[i] = todo[i + 1] /\ i \in Nat
  <2>1. i \in 1 .. m - 1
    BY <1>2, <1>3, <1>4
  <2> QED
    BY <1>2, <1>3, <2>1
<1>5. ASSUME NEW step, step # Head(todo), Left(step)
      PROVE  Left(step)'
  <2>1. PICK i \in 1 .. m : todo[i] = step
    BY <1>2, <1>3, <1>5 DEF Left
  <2>2. i # 1
    BY <1>2, <1>5, <2>1
  <2>3. i - 1 \in 1 .. m - 1 /\ (i - 1) + 1 = i
    BY <2>1, <2>2
  <2>4. i - 1 \in DOMAIN todo' /\ todo'[i - 1] = todo[i]
    BY <1>2, <1>3, <2>3
  <2> QED
    BY <2>1, <2>4 DEF Left
<1>6. IsList(todo')
  BY <1>2 DEF IsList
<1> QED
  BY <1>4, <1>5, <1>6

LEMMA DrawnTail ==
    ASSUME Drawn, todo # << >>, todo' = Tail(todo), program' = program,
           Left("address")' \/ skel'.data[HeaderSize(program.net)] = program.target,
           program.l4 \notin IcmpNames =>
              \/ Left("ports")'
              \/ /\ skel'.data[HeaderSize(program.net) + 1] = program.ports[1]
                 /\ skel'.data[HeaderSize(program.net) + 2] = program.ports[2]
    PROVE  Drawn'
<1>1. /\ IsList(todo')
      /\ \A i \in DOMAIN todo' : i + 1 \in DOMAIN todo /\ todo'[i] = todo[i + 1] /\ i \in Nat
  BY LeftTail DEF Drawn
<1>2. ASSUME NEW i \in DOMAIN todo'
      PROVE  /\ todo'[i] \in {"protocols", "address", "ttl", "ports", "resize", "flag"}
             /\ todo'[i] # "protocols"
  <2>1. i + 1 \in DOMAIN todo /\ todo'[i] = todo[i + 1] /\ i + 1 # 1
    <3>1. \A j \in DOMAIN todo' : j \in Nat /\ j >= 1
      BY <1>1, ListDomain
    <3> QED
      BY <1>1, <1>2, <3>1
  <2> QED
    BY <2>1 DEF Drawn
<1> QED
  BY <1>1, <1>2 DEF Drawn

(* A step that leaves the marks alone. *)
LEMMA DrawnAlike ==
    ASSUME Drawn, todo # << >>, Head(todo) \notin {"protocols", "address", "ports"},
           todo' = Tail(todo), program' = program,
           Alike(skel.data, skel'.data, program.net, program.l4)
    PROVE  Drawn'
<1>1. Left("address") => Left("address")'
  BY LeftTail DEF Drawn
<1>2. Left("ports") => Left("ports")'
  BY LeftTail DEF Drawn
<1>3. skel'.data[HeaderSize(program.net)] = skel.data[HeaderSize(program.net)]
  BY DEF Alike, Marks
<1>4. program.l4 \notin IcmpNames =>
        /\ skel'.data[HeaderSize(program.net) + 1] = skel.data[HeaderSize(program.net) + 1]
        /\ skel'.data[HeaderSize(program.net) + 2] = skel.data[HeaderSize(program.net) + 2]
  BY DEF Alike, Marks
<1> QED
  BY <1>1, <1>2, <1>3, <1>4, DrawnTail DEF Drawn

LEMMA BuildDraws ==
    ASSUME PacketInv, Drawn, Build
    PROVE  Drawn'
<1>1. todo # << >> /\ todo' = Tail(todo) /\ Head(todo) \in {"protocols", "address", "ttl", "ports",
                                                          "resize", "write", "target"}
      /\ program' = program
  BY Zenon DEF Build, SetProtocols, SetAddress, SetTtl, SetPorts, ResizePayload, WriteFirst, SetTarget,
               AtStep, Built
<1>2. 1 \in DOMAIN todo /\ Head(todo) = todo[1]
  BY <1>1, TailAmong DEF Drawn
<1>3. Head(todo) \in {"protocols", "address", "ttl", "ports", "resize"}
  BY <1>1, <1>2 DEF Drawn
<1>4. (Left("address") /\ Head(todo) # "address") => Left("address")'
  BY <1>1, LeftTail DEF Drawn
<1>5. (Left("ports") /\ Head(todo) # "ports") => Left("ports")'
  BY <1>1, LeftTail DEF Drawn
<1>6. CASE Head(todo) = "protocols"
  <2>1. Left("address") /\ (program.l4 \notin IcmpNames => Left("ports"))
    BY <1>2, <1>6 DEF Drawn
  <2> QED
    BY <1>1, <1>4, <1>5, <1>6, <2>1, DrawnTail
<1> DEFINE net == program.net
           l4 == program.l4
           H == HeaderSize(net)
<1>7. CASE Head(todo) # "protocols"
  <2>1. /\ Running
    BY <1>1, <1>3, <1>7 DEF PacketInv, Unknown, Ready
  <2>2. /\ net \in IpNames /\ l4 \in TransportNames /\ program.payload \in Nat
        /\ Skeleton(skel, net, l4)
    BY <2>1 DEF Running, GoodProgram
  <2>3. PICK s : Made(skel, net, l4, s)
    BY <2>2 DEF Skeleton
  <2>4. SetAddress \/ SetTtl \/ SetPorts \/ ResizePayload
    BY <1>3, <1>7 DEF Build, SetProtocols, WriteFirst, SetTarget, AtStep
  <2>5. CASE SetAddress
    <3>1. PICK p : p = SetFieldFrom(skel, "dst_ip", program.target, 0)
      OBVIOUS
    <3>2. PICK q : q = IF program.source = 0 THEN p ELSE SetFieldFrom(p, "src_ip", program.source, 0)
      OBVIOUS
    <3>3. skel' = q /\ Head(todo) = "address"
      BY <2>5, <3>1, <3>2 DEF SetAddress, Built, AtStep
    <3>4. Skeleton(p, net, l4)
      <4>1. "dst_ip" \in Settable
        BY DEF Settable
      <4> QED
        BY <2>2, <3>1, <4>1, SetFieldSkeleton
    <3>5. p.data[H] = program.target /\ \A k \in Marks(net, l4) \ {H} : p.data[k] = skel.data[k]
      BY <2>2, <3>1, SetAlike
    <3>6. Alike(p.data, q.data, net, l4)
      <4>1. Alike(p.data, SetFieldFrom(p, "src_ip", program.source, 0).data, net, l4)
        BY <2>2, <3>4, SetAlike
      <4> QED
        BY <3>2, <4>1 DEF Alike
    <3>7. q.data[H] = program.target
      BY <3>5, <3>6 DEF Alike, Marks
    <3>8. l4 \notin IcmpNames => q.data[H + 1] = skel.data[H + 1] /\ q.data[H + 2] = skel.data[H + 2]
      <4>1. H \in {6, 7}
        BY <2>2, NetFields
      <4> QED
        BY <3>5, <3>6, <4>1 DEF Alike, Marks
    <3> QED
      BY <1>1, <1>5, <3>3, <3>7, <3>8, DrawnTail DEF Drawn
  <2>6. CASE SetTtl
    <3>1. skel' = SetFieldFrom(skel, "ttl", program.ttl, 0) /\ Head(todo) = "ttl"
      BY <2>6 DEF SetTtl, Built, AtStep
    <3>2. Alike(skel.data, skel'.data, net, l4)
      BY <2>2, <3>1, SetAlike
    <3> QED
      BY <1>1, <3>1, <3>2, DrawnAlike
  <2>7. CASE SetPorts
    <3>1. PICK p : p = SetField(skel, "src_port", program.ports[1])
      OBVIOUS
    <3>2. PICK q : q = SetField(p, "dst_port", program.ports[2])
      OBVIOUS
    <3>3. PICK junk : skel' = UpdateFields(q, junk)
      BY <2>7, <3>1, <3>2 DEF SetPorts, Built
    <3>4. Head(todo) = "ports"
      BY <2>7 DEF SetPorts, AtStep
    <3>5. Skeleton(q, net, l4)
      <4>1. "src_port" \in Settable /\ "dst_port" \in Settable
        BY DEF Settable
      <4>2. Skeleton(p, net, l4)
        BY <2>2, <3>1, <4>1, SetFieldSkeleton
      <4> QED
        BY <2>2, <3>2, <4>1, <4>2, SetFieldSkeleton
    <3>6. Alike(q.data, skel'.data, net, l4)
      BY <2>2, <3>3, <3>5, UpdateAlike DEF Skeleton
    <3>7. /\ q.data[H] = skel.data[H]
          /\ l4 \notin IcmpNames => q.data[H + 1] = program.ports[1] /\ q.data[H + 2] = program.ports[2]
      BY <2>2, <3>1, <3>2, PortsAlike
    <3>8. /\ skel'.data[H] = skel.data[H]
          /\ l4 \notin IcmpNames => /\ skel'.data[H + 1] = program.ports[1]
                                    /\ skel'.data[H + 2] = program.ports[2]
      BY <3>6, <3>7 DEF Alike, Marks
    <3> QED
      BY <1>1, <1>4, <3>4, <3>8, DrawnTail DEF Drawn
  <2>8. CASE ResizePayload
    <3>1. skel' = PayloadResize(skel, program.payload) /\ Head(todo) = "resize"
      BY <2>8 DEF ResizePayload, Built, AtStep
    <3>2. Alike(skel.data, skel'.data, net, l4)
      BY <2>2, <3>1, ResizeAlike
    <3> QED
      BY <1>1, <3>1, <3>2, DrawnAlike
  <2> QED
    BY <2>4, <2>5, <2>6, <2>7, <2>8
<1> QED
  BY <1>6, <1>7

LEMMA ProbeNextDraws ==
    ASSUME PacketInv, Drawn, ProbeNext
    PROVE  Drawn'
<1>1. CASE Build
  BY <1>1, BuildDraws
<1>2. CASE ~Build
  <2>1. todo' = todo /\ skel' = skel /\ program' = program
    BY <1>2 DEF ProbeNext, SendProbe, ProcessSendq, RouterAnswers, TargetAnswers, ProcessRecvq, DropOldest
  <2> QED
    BY <2>1 DEF Drawn, Left
<1> QED
  BY <1>1, <1>2

(* A packet that leaves has them too, but for the source port of a flow.    *)
LEMMA SentAsDrawn ==
    ASSUME PacketInv, Drawn, NEW i \in DOMAIN wire
    PROVE  LET p == WrapPacket(wire[i].data)
           IN  /\ p.layers[1].proto = program.net
               /\ p.layers[2].proto = program.l4
               /\ p.data[Position(p, "dst_ip", 0)] = program.target
               /\ program.l4 \notin IcmpNames =>
                    /\ p.data[Position(p, "dst_port", 0)] = program.ports[2]
                    /\ wire[i].flow = NoFlow => p.data[Position(p, "src_port", 0)] = program.ports[1]
<1> DEFINE net == program.net
           l4 == program.l4
           d == wire[i].data
           p == WrapPacket(d)
           H == HeaderSize(net)
<1>1. Running /\ todo = << >>
  BY DEF PacketInv, Unknown, Ready, Running, NoProbe
<1>2. net \in IpNames /\ l4 \in TransportNames
  BY <1>1 DEF Running, GoodProgram
<1>3. Packet(d, net, l4) /\ Own(d, skel.data, net, l4, wire[i].ttl, wire[i].flow)
  BY <1>1 DEF Running, GoodWire, GoodPacket
<1>4. p.data = d /\ Whole(p, net, l4)
  BY <1>2, <1>3, WrapWhole
<1>5. PICK s : IsLayers(p.layers, net, l4, s)
  BY <1>4 DEF Whole, Made
<1>6. p.layers[1].proto = net /\ p.layers[2].proto = l4
  BY <1>5 DEF IsLayers
<1>7. /\ Position(p, "dst_ip", 0) = H
      /\ l4 \notin IcmpNames => Position(p, "src_port", 0) = H + 1 /\ Position(p, "dst_port", 0) = H + 2
  <2>1. PICK e, v, x : e = p /\ v = net /\ x = l4
    OBVIOUS
  <2>2. v \in IpNames /\ x \in TransportNames /\ IsLayers(e.layers, v, x, s)
    BY ONLY <1>2, <1>5, <2>1
  <2>3. /\ Position(e, "dst_ip", 0) = HeaderSize(v)
        /\ Position(e, "src_port", 0) = IF x \in IcmpNames THEN 0 ELSE HeaderSize(v) + 1
        /\ Position(e, "dst_port", 0) = IF x \in IcmpNames THEN 0 ELSE HeaderSize(v) + 2
    BY ONLY <2>2, FieldPlaces
  <2> HIDE DEF p
  <2> QED
    BY ONLY <2>1, <2>3
<1>8. ~Left("address") /\ ~Left("ports")
  BY <1>1 DEF Left
<1>9. /\ d[H] = program.target
      /\ l4 \notin IcmpNames => /\ d[H + 2] = program.ports[2]
                                /\ wire[i].flow = NoFlow => d[H + 1] = program.ports[1]
  BY <1>3, <1>8 DEF Own, Drawn
<1> HIDE DEF p, d
<1>10. /\ p.layers[1].proto = program.net
       /\ p.layers[2].proto = program.l4
       /\ p.data[Position(p, "dst_ip", 0)] = program.target
       /\ program.l4 \notin IcmpNames =>
            /\ p.data[Position(p, "dst_port", 0)] = program.ports[2]
            /\ wire[i].flow = NoFlow => p.data[Position(p, "src_port", 0)] = program.ports[1]
  BY <1>4, <1>6, <1>7, <1>9
<1> QED
  BY <1>10 DEF p, d

=============================================================================
