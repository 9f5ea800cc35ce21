--------------------------- MODULE StructuralHash ---------------------------
(***************************************************************************)
(* ffi/src/ffi/extra/structural_hash.cpp, with a hash function that        *)
(* collides only on plain values, where PlainCode says so: a hash is a     *)
(* sequence of numbers, and combining appends with the length in front.    *)
(* Hashing goes through a state: the memo, and the counters of free        *)
(* variables and of graph nodes.  The state also notes which keys and      *)
(* values of maps were left out of the hash; the code keeps no such note   *)
(* and nothing here depends on it.                                         *)
(***************************************************************************)
EXTENDS ObjectGraph

CONSTANTS
    TypeKeyHash,  \* by type, a number of its own
    PlainCode     \* by plain value, a number

ASSUME TypeKeyHashAssumption ==
    /\ PlainCode \in [Plain -> Int]
    /\ DOMAIN TypeKeyHash = DOMAIN Kind \cup {Array, Map}
    /\ \A s, t \in DOMAIN TypeKeyHash : TypeKeyHash[s] \in Nat \ {0} /\ (TypeKeyHash[s] = TypeKeyHash[t] => s = t)

StableHashCombine(hash, other) == hash \o <<Len(other)>> \o other
PlainHash(v) == <<0, PlainCode[v]>>
PointerHash(v) == <<-1, v>>

\* Some order of the hash values.
RECURSIVE Before(_, _)
Before(s, t) ==
    t # <<>> /\ (s = <<>> \/ s[1] < t[1] \/ (s[1] = t[1] /\ Before(Tail(s), Tail(t))))

Hashed(hash, st) == [hash |-> hash, st |-> st]
Fresh == [memo |-> {}, free_var_counter_ |-> 0, graph_node_counter_ |-> 0, left_out |-> {}]
LeaveOut(st, vs) == [st EXCEPT !.left_out = @ \cup vs]
Memo(st, v) == {p[2] : p \in {q \in st.memo : q[1] = v}}

\* The hash of a key that does not depend on when it is asked for, if there is one.
FindOrderIndependentHash(st, v) == IF IsObject(v) THEN Memo(st, v) ELSE {PlainHash(v)}

RECURSIVE HashAny(_, _, _, _), HashEach(_, _, _, _, _, _), HashItems(_, _, _, _, _)

\* Combines hash with the i-th and later of vs.
HashEach(heap, vs, flags, i, acc, free) ==
    IF i > Len(vs) THEN acc
    ELSE LET next == HashAny(heap, vs[i], acc.st, free \/ flags[i] = "def")
         IN  HashEach(heap, vs, flags, i + 1,
                      IF flags[i] = "ignore" THEN acc
                      ELSE Hashed(StableHashCombine(acc.hash, next.hash), next.st),
                      free)

HashArray(heap, o, st, free) ==
    HashEach(heap, o.parts, [i \in DOMAIN o.parts |-> "use"], 1,
             Hashed(<<TypeKeyHash[Array], Len(o.parts)>>, st), free)

\* The sorted items from the i-th on, pairs of the hash of a key and a value.  The values
\* of keys that are alike to the hash are left out.
HashItems(heap, items, i, acc, free) ==
    IF i > Len(items) THEN acc
    ELSE LET alike == {j \in DOMAIN items : items[j][1] = items[i][1]}
             keyed == StableHashCombine(acc.hash, items[i][1])
             value == HashAny(heap, items[i][2], acc.st, free)
         IN  HashItems(heap, items, i + Cardinality(alike),
                       IF Cardinality(alike) = 1 THEN Hashed(StableHashCombine(keyed, value.hash), value.st)
                       ELSE Hashed(keyed, LeaveOut(acc.st, {items[j][2] : j \in alike})),
                       free)

HasHash(st, kv) == FindOrderIndependentHash(st, kv[1]) # {}
Item(st, kv) == <<CHOOSE x \in FindOrderIndependentHash(st, kv[1]) : TRUE, kv[2]>>

\* The items of a map whose key has a hash of its own, and the state without the others.
Items(st, o) == LET known == SelectSeq(o.parts, LAMBDA kv : HasHash(st, kv))
                IN  [i \in DOMAIN known |-> Item(st, known[i])]
SkipOthers(st, o) == LeaveOut(st, UNION {ToSet(kv) : kv \in {e \in ToSet(o.parts) : ~HasHash(st, e)}})


\* The items in the order of the hash of their keys.
HashMap(heap, o, st, free) ==
    LET sorted == SortSeq(Items(st, o), LAMBDA a, b : Before(a[1], b[1]))
    IN  HashItems(heap, sorted, 1, Hashed(<<TypeKeyHash[Map], Len(o.parts)>>, SkipOthers(st, o)), free)

\* A free variable counts up where variables are defined, and is its pointer elsewhere; a
\* node of a graph always counts up.
Counted(v, kind, content, free) ==
    CASE kind = "var" /\ free ->
           Hashed(StableHashCombine(content.hash, <<content.st.free_var_counter_>>),
                  [content.st EXCEPT !.free_var_counter_ = @ + 1])
      [] kind = "var" /\ ~free -> Hashed(PointerHash(v), content.st)
      [] kind = "dag" ->
           Hashed(StableHashCombine(content.hash, <<content.st.graph_node_counter_>>),
                  [content.st EXCEPT !.graph_node_counter_ = @ + 1])
      [] OTHER -> content

HashObject(heap, v, st, free) ==
    LET o == heap[v]
        content == HashEach(heap, o.parts, Fields[o.type], 1, Hashed(<<TypeKeyHash[o.type]>>, st), free)
        result == Counted(v, Kind[o.type], content, free)
    IN  IF Memo(st, v) # {} THEN Hashed(CHOOSE x \in Memo(st, v) : TRUE, st)
        ELSE Hashed(result.hash, [result.st EXCEPT !.memo = @ \cup {<<v, result.hash>>}])

HashAny(heap, v, st, free) ==
    CASE ~IsObject(v) -> Hashed(PlainHash(v), st)
      [] IsObject(v) /\ heap[v].type = Array -> HashArray(heap, heap[v], st, free)
      [] IsObject(v) /\ heap[v].type = Map -> HashMap(heap, heap[v], st, free)
      [] OTHER -> HashObject(heap, v, st, free)

\* The hash, with the state in which it ends.
Hash(heap, v, mapFreeVars) == HashAny(heap, v, Fresh, mapFreeVars)
=============================================================================
