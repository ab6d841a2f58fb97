------------------------------- MODULE Lattice -------------------------------
(***************************************************************************)
(* The lattice of lattice.c: elements with their successors and siblings.  *)
(* An element is the index at which it was created, and what it carries is *)
(* kept by the module that uses the lattice.  Element 1 is the only root.  *)
(***************************************************************************)
EXTENDS Integers, Sequences, SequencesExt

Elements(l) == 1 .. Len(l.next)

EmptyLattice == [next |-> << >>, siblings |-> << >>]

(* lattice_elt_create: a new element is its own sibling. *)
Create(l) ==
    [next |-> Append(l.next, << >>), siblings |-> Append(l.siblings, <<Len(l.next) + 1>>)]

(* Two elements become siblings of each other; an element that meets itself is
   pushed twice. *)
Meet(siblings, c, v) ==
    LET known == [siblings EXCEPT ![c] = Append(@, v)]
    IN  [known EXCEPT ![v] = Append(@, c)]

(* The successors of the siblings of u, u included. *)
Nephews(l, u) ==
    FlattenSeq([i \in DOMAIN l.siblings[u] |-> l.next[l.siblings[u][i]]])

MutConnect(l, u, v) ==
    IF Contains(l.next[u], v) THEN l
    ELSE [next |-> [l.next EXCEPT ![u] = Append(@, v)], siblings |-> l.siblings]

(* lattice_connect *)
Connect(l, u, v) ==
    IF Contains(l.next[u], v) THEN l
    ELSE [next     |-> [l.next EXCEPT ![u] = Append(@, v)],
          siblings |-> FoldLeft(LAMBDA s, c : Meet(s, c, v), l.siblings, Nephews(l, u))]

(* lattice_add_element, for a predecessor u that is not NULL. *)
AddElement(l, u) == Connect(Create(l), u, Len(l.next) + 1)

(* lattice_walk_dfs: the elements in the order of the visits, with those that
   several paths reach several times.  The visitor lets the walk go on below
   the elements of the set below.  No path has more elements than there are,
   unless one leads from an element back to it: the recursion of the code would
   not end then, and this one stops. *)
Walk(l, below) ==
    LET from[n \in 0 .. Len(l.next)] ==
            [u \in Elements(l) |->
                IF n > 0 /\ u \in below
                THEN <<u>> \o FlattenSeq([i \in DOMAIN l.next[u] |-> from[n - 1][l.next[u][i]]])
                ELSE <<u>>]
    IN  from[Len(l.next)][1]

(* A walk whose visitor stops it (LATTICE_INTERRUPT_ALL) at the first element
   of the set hits: that element, or none. *)
Found(l, below, hits) ==
    LET walk == Walk(l, below)
        i    == SelectInSeq(walk, LAMBDA u : u \in hits)
    IN  IF i = 0 THEN << >> ELSE <<walk[i]>>

=============================================================================
