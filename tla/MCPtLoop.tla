------------------------------ MODULE MCPtLoop ------------------------------
(* Small instances of PtLoop for TLC. *)
EXTENDS PtLoop

CONSTANTS i1, i2

OneInstance  == {i1}
TwoInstances == {i1, i2}

(* One instance waits for several answers at a time, the other for one. *)
TwoAndOne == [i \in Instances |-> IF i = i1 THEN 2 ELSE 1]

OneEach == [i \in Instances |-> 1]

(* Before the loop runs it is created, and after that released. *)
C == INSTANCE Creation

ASSUME CreationIsRight ==
    /\ C!NothingReleasedTwice
    /\ C!PartsFailCleanly
    /\ C!NetworkFailsCleanly
    /\ C!LoopLeaves
    /\ C!FreedLeaves

=============================================================================
