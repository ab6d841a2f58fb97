-------------------------------- MODULE Bound --------------------------------
(***************************************************************************)
(* The stopping points of mda (algorithms/mda/bound.c): how many probes    *)
(* must find no more than k - 1 next hops before mda gives up looking for  *)
(* a k-th.  bound_build assumes h next hops taken uniformly, and follows   *)
(* how many of them are found probe after probe, a diagonal at a time.     *)
(*                                                                         *)
(* A probability after n probes is a number of sequences of n next hops    *)
(* among the h^n possible ones: what the code does with long doubles is    *)
(* exact here.  "failure" is the failure allowed at one interface (what    *)
(* node_confidence returns), as a fraction <<num, den>>.                   *)
(***************************************************************************)
EXTENDS Integers, Sequences, SequencesExt, FiniteSetsExt

(* State (i, j): j next hops found after so many probes. *)
NumProbes(i, j) == i + j - 1

(* Ways to reach (i, j): from (i - 1, j), by one of the j next hops that   *)
(* are known, or from (i, j - 1), by one of the others.                    *)
Calculate(s, h, j) == s.first[j] * j + s.second[j - 1] * (h - j + 1)

(* The vectors are those of the diagonals i - 1 and i; (1, 1) is reached   *)
(* by all h sequences of one probe.                                        *)
InitState(h, pk) ==
    [first |-> [j \in 0 .. h |-> 0], second |-> [j \in 0 .. h |-> IF j = 1 THEN h ELSE 0],
     i |-> 1, jstart |-> 2, cur |-> h, last |-> 1, pk |-> pk]

(* Mutant: the walk goes through the stopping points. *)
MutStep(s, h, nk, j) ==
    LET cur == Calculate(s, h, j)
    IN  IF NumProbes(s.i, j) = nk[j + 1]
        THEN [s EXCEPT !.jstart = j + 1, !.second[j] = cur, !.pk[j + 1] = cur, !.cur = cur]
        ELSE [s EXCEPT !.second[j] = cur, !.cur = cur]

(* One state of the diagonal: at the stopping point found for j + 1 next   *)
(* hops the algorithm stops, one too few, and the walk goes no further.    *)
Step(s, h, nk, j) ==
    LET cur == Calculate(s, h, j)
    IN  IF NumProbes(s.i, j) = nk[j + 1]
        THEN [s EXCEPT !.jstart = j + 1, !.second[j] = 0, !.first[j] = 0,
                       !.pk[j + 1] = cur, !.cur = cur]
        ELSE [s EXCEPT !.second[j] = cur, !.cur = cur]

(* A diagonal, then the vectors are swapped.  "last" is the number of      *)
(* probes "cur" stands for.                                                *)
Diagonal(s, h, nk) ==
    LET x == FoldLeft(LAMBDA y, j : Step(y, h, nk, j), s,
                      [n \in 1 .. h - s.jstart |-> s.jstart + n - 1])
    IN  [x EXCEPT !.first = x.second, !.second = x.first, !.i = @ + 1,
                  !.jstart = IF s.i = 1 THEN 1 ELSE @,
                  !.last = IF s.jstart < h THEN NumProbes(s.i, h - 1) ELSE @]

(* continue_condition: the walk goes on until all the stopping points      *)
(* before h are passed and the failures, with the state reached, are       *)
(* within what is allowed; they are not at the start, where (1, 1) is      *)
(* certain.                                                                *)
Continues(s, h, nk, failure) ==
    \/ s.jstart # h - 1 \/ s.i = 1
    \/ LET sum == MapThenSumSet(LAMBDA k : s.pk[k] * h ^ (s.last - nk[k]), 2 .. s.jstart)
       IN  failure[2] * (sum + s.cur) > failure[1] * h ^ s.last

RECURSIVE AcrossStates(_, _, _, _)
AcrossStates(s, h, nk, failure) ==
    IF Continues(s, h, nk, failure) THEN AcrossStates(Diagonal(s, h, nk), h, nk, failure) ELSE s

(* The entries of bound->nk_table for the hypotheses up to maxN; the first *)
(* two are impossible.                                                     *)
RECURSIVE BuildFrom(_, _, _, _)
BuildFrom(h, maxN, nk, failure) ==
    IF h > maxN THEN nk
    ELSE LET s == AcrossStates(InitState(h, [k \in 2 .. h |-> 0]), h, nk, failure)
         IN  BuildFrom(h + 1, maxN, [nk EXCEPT ![h] = NumProbes(s.i, h) - 2], failure)

BoundBuild(failure, maxN) == BuildFrom(2, maxN, [k \in 1 .. maxN |-> 0], failure)

-----------------------------------------------------------------------------
(* What the stopping points are for, by counting sequences: if there are h *)
(* next hops, mda stops too early when after nk[k] probes, for a k up to   *)
(* h, it has found less than k.                                            *)
StopsEarly(w, h, nk) ==
    \E k \in 2 .. h : Cardinality({w[n] : n \in 1 .. nk[k]}) < k

FailureWithin(h, nk, failure) ==
    LET early == {w \in [1 .. nk[h] -> 1 .. h] : StopsEarly(w, h, nk)}
    IN  failure[2] * Cardinality(early) <= failure[1] * h ^ nk[h]

(* The table promises no more failures than allowed whatever the number of *)
(* next hops, and asks for no probe in vain: with one less, more.          *)
TableRight(failure, maxN) ==
    LET nk == BoundBuild(failure, maxN)
    IN  \A h \in 2 .. maxN :
            /\ nk[h] > nk[h - 1]
            /\ FailureWithin(h, nk, failure)
            /\ nk[h] - 1 > nk[h - 1] => ~FailureWithin(h, [nk EXCEPT ![h] = @ - 1], failure)

=============================================================================
