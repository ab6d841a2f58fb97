----------------------------- MODULE PingReplies -----------------------------
(***************************************************************************)
(* What ping makes of one reply, and of all of them in the end             *)
(* (algorithms/ping.c): the event it raises for an ICMP message, and the   *)
(* statistics it prints.  Ping counts the replies and the losses; here is  *)
(* what it says of them.                                                   *)
(***************************************************************************)
EXTENDS Integers, Sequences, FiniteSets, FiniteSetsExt, SequencesExt, Functions

(* The messages as <<type, code>>, of ICMP and ICMPv6. *)
Codes == 0 .. 255

All(type) == {type} \X Codes

(* The messages that pass each test, by version, and the event raised. *)
Unreachables == <<
    [event |-> "DST_NET_UNREACHABLE",  ipv4 |-> {<<3, 1>>}, ipv6 |-> {<<1, 3>>}],
    [event |-> "DST_HOST_UNREACHABLE", ipv4 |-> {<<3, 0>>}, ipv6 |-> {<<1, 0>>}],
    [event |-> "DST_PROT_UNREACHABLE", ipv4 |-> {<<3, 2>>}, ipv6 |-> {<<4, 1>>}],
    [event |-> "DST_PORT_UNREACHABLE", ipv4 |-> {<<3, 3>>}, ipv6 |-> {<<1, 4>>}]>>

OtherErrors == <<
    [event |-> "TTL_EXCEEDED_TRANSIT", ipv4 |-> {<<11, 0>>}, ipv6 |-> {<<3, 0>>}],
    [event |-> "TIME_EXCEEDED_REASSEMBLY", ipv4 |-> {<<11, 1>>}, ipv6 |-> {<<3, 1>>}],
    [event |-> "REDIRECT",             ipv4 |-> {<<5, 0>>},  ipv6 |-> All(137)],
    [event |-> "PARAMETER_PROBLEM",    ipv4 |-> All(12),     ipv6 |-> {<<4, 0>>, <<4, 2>>}]>>

(* The chain in ping_loop_handler: the first test that a message passes    *)
(* names the event.                                                        *)
Chain == Unreachables \o OtherErrors

Passed(version, message) == {i \in DOMAIN Chain : message \in Chain[i][version]}

(* The destination has replied if the message comes from it, whatever it   *)
(* says.                                                                   *)
Verdict(version, message, fromDestination) ==
    IF fromDestination THEN "PROBE_REPLY"
    ELSE LET passed == Passed(version, message)
         IN  IF passed = {} THEN "GEN_ERROR" ELSE Chain[Min(passed)].event

-----------------------------------------------------------------------------
(* Statistics over the round-trip times.  A mean is a sum and what it has  *)
(* to be divided by.                                                       *)

Sum(rtts) == FoldFunction(+, 0, rtts)
Abs(x)    == IF x < 0 THEN -x ELSE x

ComputeMinimum(rtts) == IF rtts = <<>> THEN 0 ELSE Min(Range(rtts))
ComputeMaximum(rtts) == IF rtts = <<>> THEN 0 ELSE Max(Range(rtts))

ComputeMean(rtts) == IF rtts = <<>> THEN <<0, 1>> ELSE <<Sum(rtts), Len(rtts)>>

ComputeMeanDeviation(rtts) ==
    IF rtts = <<>> THEN <<0, 1>>
    ELSE <<Sum([i \in DOMAIN rtts |-> Abs(rtts[i] * Len(rtts) - Sum(rtts))]),
           Len(rtts) * Len(rtts)>>

(* ping_data_t, with the round-trip times; ping_data_dup and               *)
(* ping_dump_statistics: what is printed is computed from a copy when TERM *)
(* has ended the ping.                                                     *)
DataDup(data) ==
    [rtt_results |-> [i \in DOMAIN data.rtt_results |-> data.rtt_results[i]],
     num_replies |-> data.num_replies, num_sent |-> data.num_sent,
     num_losses |-> data.num_losses, num_probes_in_flight |-> data.num_probes_in_flight,
     start_time |-> data.start_time, last_time |-> data.last_time]

DumpStatistics(data) ==
    [transmitted |-> data.num_replies, received |-> data.num_replies - data.num_losses,
     loss |-> IF data.num_replies = 0 THEN 0 ELSE (100 * data.num_losses) \div data.num_replies,
     time |-> data.last_time - data.start_time,
     max |-> ComputeMaximum(data.rtt_results), min |-> ComputeMinimum(data.rtt_results),
     avg |-> ComputeMean(data.rtt_results), mdev |-> ComputeMeanDeviation(data.rtt_results)]

-----------------------------------------------------------------------------
(* What the tests must tell apart (RFC 792, RFC 4443), but for "network"   *)
(* and "host", which the code has the wrong way round: network unreachable *)
(* is code 0 of ICMP, and no route to destination is code 0 of ICMPv6.     *)
Meaning == [
    ipv4 |-> [DST_PROT_UNREACHABLE |-> <<3, 2>>, DST_PORT_UNREACHABLE |-> <<3, 3>>,
              TTL_EXCEEDED_TRANSIT |-> <<11, 0>>, TIME_EXCEEDED_REASSEMBLY |-> <<11, 1>>],
    ipv6 |-> [DST_PROT_UNREACHABLE |-> <<4, 1>>, DST_PORT_UNREACHABLE |-> <<1, 4>>,
              TTL_EXCEEDED_TRANSIT |-> <<3, 0>>, TIME_EXCEEDED_REASSEMBLY |-> <<3, 1>>]]

(* The order of the tests does not matter, and each failure has its event. *)
VerdictsRight ==
    \A version \in {"ipv4", "ipv6"} :
        /\ \A i, j \in DOMAIN Chain : i # j => Chain[i][version] \cap Chain[j][version] = {}
        /\ \A event \in DOMAIN Meaning[version] :
               Verdict(version, Meaning[version][event], FALSE) = event

(* "network unreachable" is said of an unreachable host and conversely. *)
Swapped ==
    /\ Verdict("ipv4", <<3, 0>>, FALSE) = "DST_HOST_UNREACHABLE"
    /\ Verdict("ipv4", <<3, 1>>, FALSE) = "DST_NET_UNREACHABLE"
    /\ Verdict("ipv6", <<1, 0>>, FALSE) = "DST_HOST_UNREACHABLE"
    /\ Verdict("ipv6", <<1, 3>>, FALSE) = "DST_NET_UNREACHABLE"

(* The statistics agree with each other, whatever the times. *)
MeansRight(rtts) ==
    LET mean == ComputeMean(rtts)
        mdev == ComputeMeanDeviation(rtts)
        min  == ComputeMinimum(rtts)
        max  == ComputeMaximum(rtts)
    IN  /\ min * mean[2] <= mean[1] /\ mean[1] <= max * mean[2]
        /\ mdev[1] <= (max - min) * mdev[2]
        /\ (mdev[1] = 0) = (min = max)

=============================================================================
