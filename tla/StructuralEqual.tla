--------------------------- MODULE StructuralEqual --------------------------
(***************************************************************************)
(* ffi/src/ffi/extra/structural_equal.cpp.  A comparison takes the pairs   *)
(* that were matched so far and returns its verdict and the pairs matched  *)
(* then; free says whether variables may be matched, map_free_vars_.       *)
(***************************************************************************)
EXTENDS ObjectGraph

Verdict(ok, matched) == [ok |-> ok, matched |-> matched]

\* equal_map_lhs_ and equal_map_rhs_.
LhsMapped(matched, v) == \E p \in matched : p[1] = v
RhsMapped(matched, v) == \E p \in matched : p[2] = v
MapLhsToRhs(matched, v) == IF LhsMapped(matched, v) THEN (CHOOSE p \in matched : p[1] = v)[2] ELSE v

Lookup(pairs, k) == SelectInSeq(pairs, LAMBDA kv : kv[1] = k)

\* What an earlier match says: a node or a variable has one partner.
Matched(matched, l, r) ==
    IF LhsMapped(matched, l) THEN IF MapLhsToRhs(matched, l) = r THEN "equal" ELSE "different"
    ELSE IF RhsMapped(matched, r) THEN "different" ELSE "open"

RECURSIVE CompareAny(_, _, _, _, _), CompareEach(_, _, _, _, _, _, _), CompareEntries(_, _, _, _, _, _)

\* The i-th and later of two lists; flags[i] says whether the i-th defines variables or
\* does not count.
CompareEach(heap, ls, rs, flags, i, matched, free) ==
    IF i > Len(ls) THEN Verdict(TRUE, matched)
    ELSE LET first == IF flags[i] = "ignore" THEN Verdict(TRUE, matched)
                      ELSE CompareAny(heap, ls[i], rs[i], matched, free \/ flags[i] = "def")
         IN  IF first.ok THEN CompareEach(heap, ls, rs, flags, i + 1, first.matched, free) ELSE first

CompareArray(heap, l, r, matched, free) ==
    IF Len(l.parts) # Len(r.parts) THEN Verdict(FALSE, matched)
    ELSE CompareEach(heap, l.parts, r.parts, [i \in DOMAIN l.parts |-> "use"], 1, matched, free)

\* The i-th and later of the left pairs are looked up on the right.
CompareEntries(heap, ls, rs, i, matched, free) ==
    IF i > Len(ls) THEN Verdict(TRUE, matched)
    ELSE LET at == Lookup(rs, MapLhsToRhs(matched, ls[i][1]))
         IN  IF at = 0 THEN Verdict(FALSE, matched)
             ELSE LET first == CompareAny(heap, ls[i][2], rs[at][2], matched, free)
                  IN  IF first.ok THEN CompareEntries(heap, ls, rs, i + 1, first.matched, free) ELSE first

CompareMap(heap, l, r, matched, free) ==
    IF Len(l.parts) # Len(r.parts) THEN Verdict(FALSE, matched)
    ELSE CompareEntries(heap, l.parts, r.parts, 1, matched, free)

\* The contents of two objects of one type; of nodes and variables the match is recorded.
CompareContent(heap, l, r, matched, free) ==
    LET t == heap[l].type
        fields == CompareEach(heap, heap[l].parts, heap[r].parts, Fields[t], 1, matched, free)
        recorded == Verdict(TRUE, fields.matched \cup {<<l, r>>})
    IN  IF ~fields.ok THEN fields
        ELSE CASE Kind[t] = "var" -> IF l = r \/ free THEN recorded ELSE Verdict(FALSE, fields.matched)
               [] Kind[t] = "dag" -> recorded
               [] OTHER -> fields

CompareObject(heap, l, r, matched, free) ==
    LET kind == Kind[heap[l].type]
        earlier == IF kind \in {"dag", "var"} THEN Matched(matched, l, r) ELSE "open"
    IN  CASE kind = "unique" -> Verdict(l = r, matched)
          [] kind = "const" /\ l = r -> Verdict(TRUE, matched)
          [] earlier # "open" -> Verdict(earlier = "equal", matched)
          [] OTHER -> CompareContent(heap, l, r, matched, free)

CompareAny(heap, l, r, matched, free) ==
    CASE ~IsObject(l) \/ ~IsObject(r) -> Verdict(l = r, matched)
      [] heap[l].type # heap[r].type -> Verdict(FALSE, matched)
      [] heap[l].type = Array -> CompareArray(heap, heap[l], heap[r], matched, free)
      [] heap[l].type = Map -> CompareMap(heap, heap[l], heap[r], matched, free)
      [] OTHER -> CompareObject(heap, l, r, matched, free)

Equal(heap, l, r, mapFreeVars) == CompareAny(heap, l, r, {}, mapFreeVars).ok
=============================================================================
