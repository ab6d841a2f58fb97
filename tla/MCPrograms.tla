----------------------------- MODULE MCPrograms -----------------------------
(* Small instances of Programs for TLC. *)
EXTENDS Programs

(* The containers do what the modules take for granted. *)
ASSUME ContainersAreRight == ArraysRight /\ ListsRight /\ MapsRight

(* Command lines of paris-traceroute that start it: every protocol, version*)
(* and algorithm, the forms of an option, and options that disagree.       *)
TracerouteLines == {
    <<"h4">>, <<"-6", "both">>, <<"both">>, <<"-I", "h4">>, <<"-I4", "both">>, <<"--icmp", "h6">>,
    <<"-T", "h4">>, <<"-T", "--protocol=tcp", "h6">>, <<"-P", "tcp", "-p80", "h4">>,
    <<"-U", "-p", "9", "h6">>, <<"-a", "mda", "h4">>, <<"-a", "mda", "-P", "tcp", "h6">>,
    <<"--algo=mda", "-I", "h6">>, <<"-TP", "icmp", "h4">>, <<"-P", "tcp", "-U", "h4">>,
    <<"-s7", "-p", "8", "--", "h4">>, <<"-f", "5", "-m", "5", "h4">>,
    <<"-B", "95,5,0", "-a", "mda", "-s", "7", "h4">>}

(* Those it refuses, or that ask for help. *)
TracerouteRefuses == {
    <<>>, <<"h4", "h6">>, <<"h4", "-T">>, <<"--p", "tcp", "h4">>, <<"--tcp=1", "h4">>, <<"-p">>,
    <<"-p", "x", "h4">>, <<"-p", "-T", "h4">>, <<"-46", "both">>, <<"-IT", "h4">>, <<"-p", "9">>,
    <<"-I", "-p", "9", "h4">>, <<"-B", "95,5,0", "h4">>, <<"-4", "h6">>, <<"nowhere">>, <<"-h">>,
    <<"--version">>, <<"", "-T">>, <<"-", "h4">>, <<"--none", "h4">>, <<"-x", "h4">>,
    <<"-P", "sctp", "h4">>, <<"-n", "--", "h4", "h6">>, <<"--wait">>}

(* Short forms of the same options mean something else in paris-ping. *)
PingLines == {
    <<"h4">>, <<"h6">>, <<"-T", "h4">>, <<"-Tk", "h4">>, <<"-T", "-s", "62", "h6">>,
    <<"-U", "-s", "99", "both">>, <<"--protocol", "tcp", "-s", "40", "h4">>,
    <<"--protocol", "udp", "h6">>, <<"-I", "both", "h4">>, <<"-i", "2", "-F", "5", "-6", "both">>,
    <<"-i", "2", "-s", "62", "h4">>, <<"-t", "7", "-nq", "h4">>, <<"--timeout", "9", "h4">>,
    <<"-F", "5", "-6", "both">>, <<"-P", "9", "-S", "8", "-U", "h4">>}

PingRefuses == {
    <<"-T", "h6">>, <<"-U", "-s", "29", "h4">>, <<"-I", "h6", "h4">>, <<"-F", "5", "h6">>,
    <<"-k", "h4">>, <<"-v">>, <<"-s", "1", "h4">>}

MCLines ==
    ({TracerouteTool} \X (TracerouteLines \cup TracerouteRefuses))
    \cup ({PingTool} \X (PingLines \cup PingRefuses))
    \cup {<<ExampleTool, <<>>>>}

FlagLines == {PingTool} \X {<<"-T", "h4">>, <<"-T", "-k", "h4">>, <<"--protocol", "tcp", "-s", "40", "h4">>}

MCNumbers ==
    ("1" :> 1) @@ ("2" :> 2) @@ ("5" :> 5) @@ ("7" :> 7) @@ ("8" :> 8) @@ ("9" :> 9)
    @@ ("29" :> 29) @@ ("40" :> 40) @@ ("62" :> 62) @@ ("80" :> 80) @@ ("99" :> 99)

MCTriples == "95,5,0" :> <<95, 5, 0>>

MCHosts ==
    ("h4" :> <<[family |-> "ipv4", address |-> 90]>>) @@
    ("h6" :> <<[family |-> "ipv6", address |-> 92]>>) @@
    ("both" :> <<[family |-> "ipv6", address |-> 93], [family |-> "ipv4", address |-> 94]>>) @@
    ("8.8.8.8" :> <<[family |-> "ipv4", address |-> 95]>>)

MCPorts == [udp |-> [src |-> 157, dst |-> 156, named |-> 53],
            tcp |-> [src |-> 149, dst |-> 163, named |-> 80]]

MCTcpPorts == <<22, 33>>

=============================================================================
