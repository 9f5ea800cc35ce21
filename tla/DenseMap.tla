------------------------------ MODULE DenseMap ------------------------------
(***************************************************************************)
(* DenseMapObj of ffi/include/ffi/container/map.h: a table of slots.  Keys *)
(* with one home slot form a chain that starts there; a slot's jump is the *)
(* index of the distance to the next slot of its chain, 0 at the end.      *)
(* Through the same slots runs the list of DenseList.                      *)
(* An operator takes a table and returns what the function leaves behind.  *)
(***************************************************************************)
EXTENDS DenseList, SequencesExt, FiniteSetsExt

CONSTANTS
    Code,      \* the leading bits of the scrambled hash of a key ...
    CodeSpan,  \* ... and the number of their values
    JumpDists  \* the distances a jump can stand for, kNextProbeLocation[1 ..]

ASSUME CodeAssumption ==
    /\ CodeSpan \in Nat \ {0} /\ \A k \in DOMAIN Code : Code[k] \in 0 .. CodeSpan - 1
    /\ JumpDists \in Seq(Nat \ {0})

EmptySlot == [kind |-> "empty", jump |-> 0]
ProtectedSlot == [kind |-> "protected", jump |-> 0]
Item(kind, kv) == [kind |-> kind, jump |-> 0, key |-> kv[1], val |-> kv[2], prev |-> None, next |-> None]

DenseEmpty(slots) ==
    [layout |-> "dense", slots |-> slots, size |-> 0, head |-> None, tail |-> None,
     slot |-> [i \in 0 .. slots - 1 |-> EmptySlot]]

\* FibHash keeps more leading bits the larger the table is.
IndexFromHash(T, k) == (Code[k] * T.slots) \div CodeSpan
IsEmpty(T, i) == T.slot[i].kind = "empty"
IsHead(T, i) == T.slot[i].kind = "head"
IsItem(T, i) == T.slot[i].kind \in {"head", "body"}
Jumped(T, i, jump) == (i + JumpDists[jump]) % T.slots
PairAt(T, i) == <<T.slot[i].key, T.slot[i].val>>
SetJump(T, i, jump) == [T EXCEPT !.slot[i].jump = jump]

\* What begin() .. end() lists.
Pairs(T) == LET l == IterList(T) IN [n \in DOMAIN l |-> PairAt(T, l[n])]

\* The load factor 0.99, in integers.
IsFull(T) == (T.size + 1) * 100 > T.slots * 99

\* MoveToNext: what comes after each slot on its chain.
NextInChain(T) == [i \in DOMAIN T.slot |-> IF T.slot[i].jump = 0 THEN None ELSE Jumped(T, i, T.slot[i].jump)]

\* The slots that MoveToNext visits from i on.
Chain(T, i) == Walk(NextInChain(T), T.slots, i)

\* The jump to the next empty slot after i, or 0.
GetNextEmpty(T, i) ==
    LET free == {j \in DOMAIN JumpDists : IsEmpty(T, Jumped(T, i, j))}
    IN  IF free = {} THEN 0 ELSE Min(free)

Search(T, k) ==
    LET h == IndexFromHash(T, k)
        c == Chain(T, h)
        hits == {n \in DOMAIN c : T.slot[c[n]].key = k}
    IN  IF T.size = 0 \/ ~IsHead(T, h) \/ hits = {} THEN None ELSE c[Min(hits)]

\* The slot before i on the chain of the key that i holds.
FindPrev(T, i) ==
    LET c == Chain(T, IndexFromHash(T, T.slot[i].key))
    IN  c[SelectInSeq(c, LAMBDA j : j = i) - 1]

-----------------------------------------------------------------------------
(* Insertion.  A result says whether a place was found, and where.         *)

Fail(T) == [ok |-> FALSE, table |-> T, at |-> None]
Done(T, i) == [ok |-> TRUE, table |-> T, at |-> i]
Grown(T, i, item) == Done([T EXCEPT !.slot[i] = item, !.size = @ + 1], i)

\* Mutant: the first slot that becomes free may be written by a later turn.
SpareItemUnprotected(s, r, target) ==
    LET jump == GetNextEmpty(s.table, s.at)
        e == Jumped(s.table, s.at, jump)
        item == s.table.slot[r]
        moved == IterListReplaceNodeBy(
                     [s.table EXCEPT !.slot[e] = Item("body", <<item.key, item.val>>)], r, e)
    IN  IF ~s.ok \/ jump = 0 THEN [s EXCEPT !.ok = FALSE]
        ELSE Done(SetJump([moved EXCEPT !.slot[r] = EmptySlot], s.at, jump), e)

\* One turn of the loop of TrySpareListHead: the item in r goes behind w.  The first
\* slot that becomes free stays protected, so that no later item moves into it.
SpareItem(s, r, target) ==
    LET jump == GetNextEmpty(s.table, s.at)
        e == Jumped(s.table, s.at, jump)
        item == s.table.slot[r]
        moved == IterListReplaceNodeBy(
                     [s.table EXCEPT !.slot[e] = Item("body", <<item.key, item.val>>)], r, e)
        left == [moved EXCEPT !.slot[r] = IF r = target THEN ProtectedSlot ELSE EmptySlot]
    IN  IF ~s.ok \/ jump = 0 THEN [s EXCEPT !.ok = FALSE] ELSE Done(SetJump(left, s.at, jump), e)

\* The loop, for each slot of the chain that starts at target.
SpareChain(T, target) ==
    LET r == Chain(T, target)
        s[n \in 0 .. Len(r)] ==
            IF n = 0 THEN Done(T, FindPrev(T, target)) ELSE SpareItem(s[n - 1], r[n], target)
    IN  s[Len(r)]

\* Mutant: the new item is constructed as the tail of a chain.
TrySpareListHeadAsTail(T, target, k) ==
    LET s == SpareChain(T, target)
    IN  IF s.ok THEN Grown(s.table, target, Item("body", <<k, None>>)) ELSE s

\* The chain through target belongs to another home: its rest is moved away.
TrySpareListHead(T, target, k) ==
    LET s == SpareChain(T, target)
    IN  IF s.ok THEN Grown(s.table, target, Item("head", <<k, None>>)) ELSE s

TryInsert(T, k) ==
    LET h == IndexFromHash(T, k)
        found == Search(T, k)
        end == Last(Chain(T, h))
        jump == GetNextEmpty(T, end)
    IN  IF IsEmpty(T, h) THEN Grown(T, h, Item("head", <<k, None>>))
        ELSE IF ~IsHead(T, h) THEN IF IsFull(T) THEN Fail(T) ELSE TrySpareListHead(T, h, k)
        ELSE IF found # None THEN Done(IterListUnlink(T, found), found)
        ELSE IF IsFull(T) \/ jump = 0 THEN Fail(T)
        ELSE Grown(SetJump(T, end, jump), Jumped(T, end, jump), Item("body", <<k, None>>))

\* A map, and the pairs that are still to be inserted into it before the call is over.
Inserted(m, kvs) == [map |-> m, todo |-> kvs]

\* Inserts the first of the pairs kvs.  A table without a place for it gives way to one of
\* twice the size, into which its items are then inserted in list order before the pairs; what
\* TryInsert left half done is copied as it is.
DenseInsertMaybeReHash(T, kvs) ==
    LET r == TryInsert(T, Head(kvs)[1])
    IN  IF r.ok THEN Inserted(IterListPushBack([r.table EXCEPT !.slot[r.at].val = Head(kvs)[2]], r.at), Tail(kvs))
        ELSE Inserted(DenseEmpty(2 * T.slots), Pairs(r.table) \o kvs)

-----------------------------------------------------------------------------
(* Removal.                                                                *)

\* The last item of a chain is taken out; one before it is replaced by the last.
DenseErase(T, k) ==
    LET i == Search(T, k)
        rest == Chain(T, i)
        U == IterListUnlink([T EXCEPT !.size = @ - 1], i)
        last == Last(rest)
        filled == IterListReplaceNodeBy([U EXCEPT !.slot[i].key = T.slot[last].key,
                                                  !.slot[i].val = T.slot[last].val], last, i)
        cut == IF IsHead(T, i) THEN U ELSE SetJump(U, FindPrev(T, i), 0)
    IN  IF i = None THEN T
        ELSE IF Len(rest) = 1 THEN [cut EXCEPT !.slot[i] = EmptySlot]
        ELSE SetJump([filled EXCEPT !.slot[last] = EmptySlot], rest[Len(rest) - 1], 0)
=============================================================================
