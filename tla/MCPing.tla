------------------------------- MODULE MCPing -------------------------------
(* Small instances of Ping for TLC. *)
EXTENDS Ping, SequencesExt

R == INSTANCE PingReplies

(* Up to three round-trip times. *)
ASSUME RepliesAreRight ==
    /\ R!VerdictsRight /\ R!Swapped
    /\ \A rtts \in BoundedSeq({0, 1, 2, 5}, 3) : R!MeansRight(rtts)

(* Whole seconds, from no probe at all to more than a window. *)
WholeSeconds == [count : {0, 1, 3, 5}, interval : {2}] \cup [count : 2 .. 3, interval : {4}]

DelaysOf == {2, 4, 6, 8}

=============================================================================
