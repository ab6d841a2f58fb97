----------------------------- MODULE MCNetwork -----------------------------
(* Small instances of Network for TLC. *)
EXTENDS Network

CONSTANTS p1, p2, p3

TwoProbes   == {p1, p2}
ThreeProbes == {p1, p2, p3}

(* Probes are handed over by the environment and only told apart. *)
ProbeSymmetry == Permutations(Probes)

=============================================================================
