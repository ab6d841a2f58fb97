------------------------------ MODULE HopByHop ------------------------------
(***************************************************************************)
(* What traceroute.h promises of the algorithm: hops are explored one      *)
(* after the other, from min_ttl on and no further than max_ttl.  A hop is *)
(* sent num_probes probes; the next one is explored when all of them are   *)
(* answered or timed out, unless there is a reason to stop.                *)
(*                                                                         *)
(* An exploration may be aborted at any time (it is told to terminate, or  *)
(* a probe cannot be sent): then no further hop is explored.               *)
(***************************************************************************)
EXTENDS Naturals

VARIABLES
    options,   (* [min_ttl, max_ttl, num_probes, max_undiscovered]         *)
    hop,       (* the TTL being explored, 0 at first                       *)
    waiting,   (* its probes that are still to be answered                 *)
    outcome    (* "exploring", "aborted" or why the exploration has ended  *)

vars == <<options, hop, waiting, outcome>>

Reasons == {"DESTINATION_REACHED", "MAX_TTL_REACHED", "TOO_MANY_STARS"}

Init ==
    /\ hop = 0
    /\ waiting = 0
    /\ outcome = "exploring"

(* The next hop, once nothing is left to wait for but the answer that makes
   the step. *)
ExploreHop ==
    /\ outcome = "exploring"
    /\ waiting <= 1
    /\ hop' = IF hop = 0 THEN options.min_ttl ELSE hop + 1
    /\ hop' <= options.max_ttl
    /\ waiting' = options.num_probes
    /\ UNCHANGED <<options, outcome>>

Answer ==
    /\ waiting > 0
    /\ outcome = "exploring" => waiting > 1
    /\ waiting' = waiting - 1
    /\ UNCHANGED <<options, hop, outcome>>

Stop ==
    /\ outcome = "exploring"
    /\ waiting = 1
    /\ waiting' = 0
    /\ outcome' \in Reasons
    /\ outcome' = "MAX_TTL_REACHED" => hop = options.max_ttl
    /\ UNCHANGED <<options, hop>>

(* The last hop may have been begun. *)
Abort ==
    /\ outcome = "exploring"
    /\ outcome' = "aborted"
    /\ \/ UNCHANGED <<hop, waiting>>
       \/ /\ waiting <= 1
          /\ \/ hop' = hop
             \/ hop' = IF hop = 0 THEN options.min_ttl ELSE hop + 1
          /\ waiting' < options.num_probes
          /\ waiting' \in Nat
    /\ UNCHANGED options

Next == ExploreHop \/ Answer \/ Stop \/ Abort

Spec == Init /\ [][Next]_vars

=============================================================================
