-------------------------------- MODULE MCMda --------------------------------
(* Small instances of Mda for TLC. *)
EXTENDS Mda, Bound

CONSTANTS a, b, c, d, e

(* The stopping points of an mda that may fail 10 times out of 11, so that a few
   probes are enough (TablesRight computes them). *)
Points == <<0, 2, 3, 4>>

(* The stopping points of the model are those bound.c computes, and they, and
   some of a more demanding mda (1/20 gives the 6 and 11 of the publications
   the file names), keep the failures within what is allowed, no later than
   needed, whatever the number of next hops. *)
TablesRight == /\ Points = BoundBuild(<<10, 11>>, 4)
               /\ TableRight(<<10, 11>>, 4) /\ TableRight(<<1, 2>>, 3)
               /\ TableRight(<<1, 3>>, 4) /\ TableRight(<<1, 20>>, 3)

(* An interface that counts as enumerated after as many probes as bound.c says
   misses a next hop no more often than mda was asked for. *)
StoppingPointsRight ==
    (\E u \in Elements(lattice) : Enumerated(lattice, interfaces, u)) => TablesRight

Network(losses, routes) == [routes |-> routes, losses |-> losses]

(* One route, with lost answers: with a silent hop, and with a destination that
   cannot be reached. *)
Straight == {Network(2, << <<a, b, Dst>> >>),
             Network(1, << <<a, None, b, Dst>> >>),
             Network(1, << <<a, None>> >>)}

(* Load balancers: a diamond, two chains that meet at the destination, branches
   of unequal length (c and e have two ttls, one in common; in the second such
   network flows are still under test when the algorithm ends), three branches,
   and flows that are spread unevenly. *)
Balanced == {Network(0, << <<a, c, Dst>>, <<b, c, Dst>> >>),
             Network(0, << <<a, c, Dst>>, <<b, d, Dst>> >>),
             Network(0, << <<a, c, e, Dst>>, <<b, d, c, e, Dst>> >>),
             Network(0, << <<c, e, Dst>>, <<b, c, e, Dst>> >>),
             Network(0, << <<a, Dst>>, <<b, Dst>>, <<c, Dst>> >>),
             Network(0, << <<a, Dst>>, <<a, Dst>>, <<b, Dst>> >>)}

SomeNetworks == Straight \cup Balanced

(* A load balancer with a branch that does not answer. *)
SilentBranch == {Network(0, << <<a, None, Dst>>, <<b, c, Dst>> >>)}

=============================================================================
