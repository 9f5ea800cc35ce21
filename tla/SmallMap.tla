------------------------------ MODULE SmallMap ------------------------------
(***************************************************************************)
(* SmallMapObj of ffi/include/ffi/container/map.h: an array of pairs in    *)
(* the order of insertion, searched from its start.  An operator takes a   *)
(* map and returns what the function leaves behind.                        *)
(***************************************************************************)
EXTENDS Naturals, Sequences, SequencesExt

CONSTANTS kInitSize, kMaxSize

ASSUME SmallSizeAssumption == kInitSize \in Nat \ {0} /\ kMaxSize \in Nat /\ kMaxSize > kInitSize

Small(slots, items) == [layout |-> "small", slots |-> slots, items |-> items]
SmallEmpty == Small(kInitSize, <<>>)

\* The copy has no room to spare.
SmallCopyFrom(m) == Small(Len(m.items), m.items)

SmallFind(m, k) == SelectInSeq(m.items, LAMBDA kv : kv[1] = k)

SmallErase(m, k) ==
    LET i == SmallFind(m, k)
    IN  IF i = 0 THEN m ELSE [m EXCEPT !.items = RemoveAt(@, i)]

\* Grows when there is no room; the callers see to it that it may.
SmallInsertMaybeReHash(m, kv) ==
    LET i == SmallFind(m, kv[1])
        twice == IF 2 * m.slots > kInitSize THEN 2 * m.slots ELSE kInitSize
        next == IF twice < kMaxSize THEN twice ELSE kMaxSize
    IN  IF i # 0 THEN [m EXCEPT !.items[i] = <<@[1], kv[2]>>]
        ELSE IF Len(m.items) < m.slots THEN [m EXCEPT !.items = Append(@, kv)]
        ELSE Small(next, Append(m.items, kv))
=============================================================================
