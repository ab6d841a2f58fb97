---------------------------- MODULE MCTraceroute ----------------------------
(* Small instances of Traceroute for TLC. *)
EXTENDS Traceroute

OptionsUpTo(maxTtl, maxProbes, maxUndiscovered) ==
    [min_ttl : 1 .. maxTtl, max_ttl : 1 .. maxTtl,
     num_probes : 1 .. maxProbes, max_undiscovered : 1 .. maxUndiscovered]

(* Any options, rejected ones (min_ttl > max_ttl) included. *)
ManyOptions == OptionsUpTo(4, 2, 3) \cup OptionsUpTo(2, 3, 2)

=============================================================================
