----------------------------- MODULE DenseList ------------------------------
(***************************************************************************)
(* The doubly linked list of insertion order that runs through the slots   *)
(* of a DenseMapObj of ffi/include/ffi/container/map.h.  An operator takes *)
(* a table and returns what the function leaves behind.                    *)
(***************************************************************************)
EXTENDS Integers, Sequences

None == -1  \* kInvalidIndex

\* An item, in the place of the mark of an empty or protected slot.
HasLinks(T, i) == i \in DOMAIN T.slot /\ {"prev", "next"} \subseteq DOMAIN T.slot[i]

\* The slots passed from i on by one who goes from each to the one after it, in at most n steps.
Walk(after, n, i) ==
    LET from[m \in 0 .. n] == [j \in DOMAIN after |->
          IF m = 0 \/ after[j] = None THEN <<j>> ELSE <<j>> \o from[m - 1][after[j]]]
    IN  from[n][i]

\* What comes before p is joined to what comes after n.
Joined(T, p, n) ==
    LET U == IF p = None THEN [T EXCEPT !.head = n] ELSE [T EXCEPT !.slot[p].next = n]
    IN  IF n = None THEN [U EXCEPT !.tail = p] ELSE [U EXCEPT !.slot[n].prev = p]

IterListUnlink(T, i) == Joined(T, T.slot[i].prev, T.slot[i].next)

IterListPushBack(T, i) ==
    LET U == [T EXCEPT !.slot[i].prev = T.tail, !.slot[i].next = None]
    IN  Joined(Joined(U, T.tail, i), i, None)

\* Mutant: the neighbours in the list keep pointing to the slot left behind.
IterListReplaceNodeByOneSided(T, src, dst) ==
    LET U == [T EXCEPT !.slot[dst].prev = T.slot[src].prev, !.slot[dst].next = T.slot[src].next]
    IN  Joined(U, T.slot[src].prev, dst)

\* Mutant: an item that moves to another slot goes to the end of the list.
IterListReplaceNodeByAtEnd(T, src, dst) == IterListPushBack(IterListUnlink(T, src), dst)

IterListReplaceNodeBy(T, src, dst) ==
    LET U == [T EXCEPT !.slot[dst].prev = T.slot[src].prev, !.slot[dst].next = T.slot[src].next]
    IN  Joined(Joined(U, T.slot[src].prev, dst), dst, T.slot[src].next)

\* IncItr: what comes after each slot in the list.
NextInList(T) == [i \in DOMAIN T.slot |-> IF HasLinks(T, i) THEN T.slot[i].next ELSE None]

\* The slots that a caller's iterator visits.
IterList(T) == IF T.head = None THEN <<>> ELSE Walk(NextInList(T), T.slots, T.head)

-----------------------------------------------------------------------------
\* What stands at place n of a list, and None before and after it.
At(l, n) == IF n \in DOMAIN l THEN l[n] ELSE None

\* The links of the table, from either end and in both directions, are those of the list l.
ListedAs(T, l) ==
    /\ l \in Seq(DOMAIN T.slot) /\ \A n \in DOMAIN l : HasLinks(T, l[n])
    /\ \A m, n \in DOMAIN l : l[m] = l[n] => m = n
    /\ T.head = At(l, 1) /\ T.tail = At(l, Len(l))
    /\ \A n \in DOMAIN l : T.slot[l[n]].prev = At(l, n - 1) /\ T.slot[l[n]].next = At(l, n + 1)
=============================================================================
