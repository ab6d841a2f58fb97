------------------------------ MODULE Counting ------------------------------
(* Sums and occurrences, stated as the sizes of finite sets: what a counter  *)
(* of the code should amount to.                                             *)
EXTENDS Integers, Sequences, FiniteSets

(* The sum of n[i] over the elements i of S. *)
Total(n, S) == Cardinality(UNION {{i} \X (1 .. n[i]) : i \in S})

(* How many elements of the sequence s are in V, from position m on. *)
CountFrom(s, m, V) == Cardinality({k \in m .. Len(s) : s[k] \in V})

Count(s, V) == CountFrom(s, 1, V)

=============================================================================
