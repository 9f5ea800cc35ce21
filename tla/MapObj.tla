------------------------------- MODULE MapObj -------------------------------
(***************************************************************************)
(* ffi::Map of ffi/include/ffi/container/map.h as its user sees it: one    *)
(* handle, an object behind it that is small or dense, and perhaps other   *)
(* handles of the same object, which make the next change copy it first.   *)
(***************************************************************************)
EXTENDS SmallMap, DenseMap

CONSTANTS Key, Value, Lists

ASSUME KeyAssumption == DOMAIN Code = Key /\ Lists \subseteq Seq(Key \X Value)

VARIABLES
    map,  \* the object behind the handle, or the null handle a move leaves
    todo  \* the pairs that the call in progress still has to insert; none between calls

vars == <<map, todo>>

NullMap == [layout |-> "null"]
IsSmallMap == map.layout = "small"

\* What begin() .. end() lists.
Entries(m) == CASE m.layout = "null" -> <<>> [] m.layout = "small" -> m.items [] m.layout = "dense" -> Pairs(m)

\* The power of two above cap, and twice that if it leaves less than half empty.
CalcTableSize(cap) ==
    LET slots[c \in 0 .. cap] == IF c = 0 THEN 1 ELSE 2 * slots[c \div 2]
    IN  IF slots[cap] < 2 * cap THEN 2 * slots[cap] ELSE slots[cap]

\* A small map is made at once, a dense one pair by pair.
CreateFromRange(list) ==
    LET m[n \in 0 .. Len(list)] ==
          IF n = 0 THEN Small(Len(list), <<>>) ELSE SmallInsertMaybeReHash(m[n - 1], list[n])
    IN  IF Len(list) < kMaxSize THEN Inserted(m[Len(list)], <<>>)
        ELSE Inserted(DenseEmpty(CalcTableSize(Len(list))), list)

\* A full small map of the largest size becomes dense, even when the key is there already.
InsertMaybeReHash(m, kv) ==
    IF m.layout = "dense" THEN DenseInsertMaybeReHash(m, <<kv>>)
    ELSE IF m.slots < kMaxSize \/ Len(m.items) < m.slots THEN Inserted(SmallInsertMaybeReHash(m, kv), <<>>)
    ELSE LET c == CreateFromRange(m.items) IN Inserted(c.map, Append(c.todo, kv))

\* The check that no slot of the copied table is protected is the invariant TableSound.
CopyOnWrite(m, unique) ==
    IF m.layout = "null" THEN SmallEmpty
    ELSE IF m.layout = "small" /\ ~unique THEN SmallCopyFrom(m)
    ELSE m

-----------------------------------------------------------------------------
Init == map = SmallEmpty /\ todo = <<>>

Becomes(r) == map' = r.map /\ todo' = r.todo

Set(k, v, unique) ==
    /\ todo = <<>>
    /\ Becomes(InsertMaybeReHash(CopyOnWrite(map, unique), <<k, v>>))

\* The next insertion of a call that makes a map dense or lets it grow.
GoOn ==
    /\ todo # <<>>
    /\ Becomes(DenseInsertMaybeReHash(map, todo))

Erase(k, unique) ==
    LET m == CopyOnWrite(map, unique)
    IN  /\ todo = <<>>
        /\ map' = IF m.layout = "small" THEN SmallErase(m, k) ELSE DenseErase(m, k)
        /\ UNCHANGED todo

Clear ==
    /\ todo = <<>> /\ map # NullMap
    /\ map' = SmallEmpty /\ UNCHANGED todo

MoveAway ==
    /\ todo = <<>>
    /\ map' = NullMap /\ UNCHANGED todo

Construct(list) ==
    /\ todo = <<>>
    /\ Becomes(CreateFromRange(list))

\* It makes no difference to a table whether it is a copy.
Unique == IF IsSmallMap THEN BOOLEAN ELSE {TRUE}

Next ==
    \/ \E k \in Key, v \in Value, unique \in Unique : Set(k, v, unique)
    \/ GoOn
    \/ \E k \in Key, unique \in Unique : Erase(k, unique)
    \/ Clear
    \/ MoveAway
    \/ \E list \in Lists : Construct(list)

Spec == Init /\ [][Next]_vars

-----------------------------------------------------------------------------
\* In a dense map, find() from the home of a key and iteration agree: each listed entry is
\* found in the slot where it is listed, and a key that is not listed is not found.
FindAgreesWithIteration ==
    map.layout = "dense" =>
        \A k \in Key :
            LET found == Search(map, k)
            IN  IF k \in {kv[1] : kv \in ToSet(Pairs(map))}
                THEN found \in ToSet(IterList(map)) /\ map.slot[found].key = k
                ELSE found = None

\* The list of a dense map passes each occupied slot once, in both directions,
\* size_ is its length, and no slot is left protected by an insertion that gave up half way.
TableSound ==
    map.layout = "dense" =>
        LET l == IterList(map)
        IN  /\ ListedAs(map, l)
            /\ {i \in DOMAIN map.slot : IsItem(map, i)} = ToSet(l)
            /\ \A i \in DOMAIN map.slot : map.slot[i].kind # "protected"
            /\ Len(l) = map.size

\* Every occupied slot is on the chain that starts at the home of its own key, and on no other.
ChainsSound ==
    map.layout = "dense" =>
        \A i \in DOMAIN map.slot : IsItem(map, i) =>
            {h \in DOMAIN map.slot : IsHead(map, h) /\ i \in ToSet(Chain(map, h))}
                = {IndexFromHash(map, map.slot[i].key)}

\* The entries once the pairs of the list are set one by one, each becoming the last.
SetLast(s, kv) ==
    LET i == SelectInSeq(s, LAMBDA e : e[1] = kv[1])
    IN  Append(IF i = 0 THEN s ELSE RemoveAt(s, i), kv)
Settled(s, list) ==
    LET settled[n \in 0 .. Len(list)] == [e \in Seq(Key \X Value) |->
          IF n = 0 THEN e ELSE settled[n - 1][SetLast(e, list[Len(list) - n + 1])]]
    IN  settled[Len(list)][s]

\* Whatever the layout, the map is a dictionary in the order of insertion.  A call takes effect
\* when it starts; what it inserts later on changes nothing of what the map will list.
Dict == INSTANCE InsertionDict WITH entries <- Settled(Entries(map), todo)
DictSpec == Dict!Spec
=============================================================================
