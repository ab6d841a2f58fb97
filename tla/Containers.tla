----------------------------- MODULE Containers -----------------------------
(***************************************************************************)
(* The containers of libparistraceroute (vector.c, dynarray.c, list.c,     *)
(* set.c, map.c) as operators over what they keep in memory, and what they *)
(* promise: sequences, queues and functions.  The other modules use        *)
(* sequences and functions where the code uses a container: ArraysRight,   *)
(* ListsRight and MapsRight are why they may.                              *)
(***************************************************************************)
EXTENDS Integers, Sequences, SequencesExt, FiniteSetsExt, TLC

-----------------------------------------------------------------------------
(* Vectors and dynamic arrays: [cells, num, max].  The block has room for  *)
(* "max" cells; "cells" are those written since they were last zeroed, the *)
(* cells beyond are zero, and the first "num" are the contents.            *)

SizeInit == 5    \* VECTOR_SIZE_INIT, DYNARRAY_SIZE_INIT
SizeInc  == 5    \* VECTOR_SIZE_INC, DYNARRAY_SIZE_INC

VectorCreate == [cells |-> <<>>, num |-> 0, max |-> SizeInit]

(* vector_push_element: a full block grows first. *)
VectorPush(v, e) ==
    [cells |-> SubSeq(v.cells, 1, v.num) \o <<e>> \o SubSeq(v.cells, v.num + 2, Len(v.cells)),
     num   |-> v.num + 1,
     max   |-> IF v.num = v.max THEN v.max + SizeInc ELSE v.max]

VectorContents(v) == SubSeq(v.cells, 1, v.num)

(* Whether a zero cell follows the contents, as the reader of an array     *)
(* that ends with a zero cell expects.                                     *)
ZeroEnded(v) == v.num < v.max

DynarrayCreate == VectorCreate

DynarrayPush(d, e) == VectorPush(d, e)

(* dynarray_del_n_elements: the cells moved leave a copy behind. *)
DynarrayDel(d, i, n) ==
    IF i + n > d.num THEN d
    ELSE [d EXCEPT !.cells = [k \in DOMAIN @ |-> IF k \in i + 1 .. d.num - n THEN @[k + n]
                                                 ELSE @[k]],
                   !.num = @ - n]

DynarrayClear(d) == DynarrayCreate

(* dynarray_dup *)
DynarrayDup(d) == FoldLeft(DynarrayPush, DynarrayCreate, VectorContents(d))

-----------------------------------------------------------------------------
(* Lists: [heap, head, tail], where the heap maps addresses to cells.      *)

Null == 0

ListCreate == [heap |-> <<>>, head |-> Null, tail |-> Null]

(* list_cell_create takes an address that is free, be it freed before. *)
ListPush(l, e) ==
    LET a     == CHOOSE x \in 1 .. Cardinality(DOMAIN l.heap) + 1 : x \notin DOMAIN l.heap
        chain == IF l.head = Null THEN l.heap ELSE [l.heap EXCEPT ![l.tail].next = a]
    IN  [heap |-> a :> [element |-> e, next |-> Null] @@ chain,
         head |-> IF l.head = Null THEN a ELSE l.head,
         tail |-> a]

ListPop(l) ==
    IF l.head = Null THEN l
    ELSE LET next == l.heap[l.head].next
         IN  [heap |-> [a \in DOMAIN l.heap \ {l.head} |-> l.heap[a]],
              head |-> next,
              tail |-> IF next = Null THEN Null ELSE l.tail]

(* The elements from the head, as list_fprintf and list_free visit them. *)
ListContents(l) ==
    LET walk[n \in 0 .. Cardinality(DOMAIN l.heap)] ==
          IF n = 0 THEN [at |-> l.head, seen |-> <<>>]
          ELSE LET w == walk[n - 1]
               IN  IF w.at = Null THEN w
                   ELSE [at |-> l.heap[w.at].next, seen |-> Append(w.seen, l.heap[w.at].element)]
    IN  walk[Cardinality(DOMAIN l.heap)].seen

-----------------------------------------------------------------------------
(* Maps are sets, kept in a tree, of pairs compared by their first element.*)
(* Nothing else is kept in a set.                                          *)

SetFind(s, pair) == {p \in s : p.first = pair.first}

SetInsert(s, pair) == IF SetFind(s, pair) # {} THEN s ELSE s \cup {pair}

(* map_update_impl: when the key is there, the data are exchanged. *)
MapUpdate(m, key, data) ==
    LET pair  == [first |-> key, second |-> data]
        found == SetFind(m, pair)
    IN  IF found = {} THEN SetInsert(m, pair) ELSE (m \ found) \cup {pair}

(* map_find_impl: the data, if any. *)
MapFind(m, key) == {p.second : p \in SetFind(m, [first |-> key])}

-----------------------------------------------------------------------------
(* What they promise, after any of the short histories below. *)

Histories(ops, n) == UNION {[1 .. k -> ops] : k \in 0 .. n}

(* Up to two growths of the block, then deletions, clearing and more. *)
DynarrayHistories ==
    {[i \in 1 .. n |-> <<"push", i>>] \o h :
        n \in 0 .. 2 * SizeInc + 1,
        h \in Histories({<<"push", 99>>, <<"del", 0, 1>>, <<"del", 1, 2>>,
                         <<"del", 4, 1>>, <<"clear">>, <<"dup">>}, 3)}

DynarrayApply(d, op) ==
    CASE op[1] = "push"  -> DynarrayPush(d, op[2])
      [] op[1] = "del"   -> DynarrayDel(d, op[2], op[3])
      [] op[1] = "clear" -> DynarrayClear(d)
      [] op[1] = "dup"   -> DynarrayDup(d)

SequenceApply(s, op) ==
    CASE op[1] = "push"  -> Append(s, op[2])
      [] op[1] = "del"   -> IF op[2] + op[3] > Len(s) THEN s
                            ELSE SubSeq(s, 1, op[2]) \o SubSeq(s, op[2] + op[3] + 1, Len(s))
      [] op[1] = "clear" -> <<>>
      [] op[1] = "dup"   -> s

ArraysRight ==
    \A h \in DynarrayHistories :
        LET d == FoldLeft(DynarrayApply, DynarrayCreate, h)
        IN  /\ VectorContents(d) = FoldLeft(SequenceApply, <<>>, h)
            /\ d.num <= Len(d.cells) /\ Len(d.cells) <= d.max

ListApply(l, op) == IF op = 0 THEN ListPop(l) ELSE ListPush(l, op)

QueueApply(s, op) ==
    IF op # 0 THEN Append(s, op) ELSE IF s = <<>> THEN s ELSE Tail(s)

(* The cells of the list are those of its elements: none is lost. *)
ListsRight ==
    \A h \in Histories({0, 1, 2}, 7) :
        LET l == FoldLeft(ListApply, ListCreate, h)
        IN  /\ ListContents(l) = FoldLeft(QueueApply, <<>>, h)
            /\ Cardinality(DOMAIN l.heap) = Len(ListContents(l))

MapsRight ==
    \A h \in Histories({1, 2, 3} \X {"a", "b"}, 4) :
        LET m == FoldLeft(LAMBDA x, op : MapUpdate(x, op[1], op[2]), {}, h)
            f == FoldLeft(LAMBDA x, op : op[1] :> op[2] @@ x, <<>>, h)
        IN  \A key \in {1, 2, 3} :
                MapFind(m, key) = IF key \in DOMAIN f THEN {f[key]} ELSE {}

=============================================================================
