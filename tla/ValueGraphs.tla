----------------------------- MODULE ValueGraphs ----------------------------
(***************************************************************************)
(* A program creates objects, containers among them, and compares, hashes  *)
(* and serializes what it has.                                             *)
(***************************************************************************)
EXTENDS StructuralEqual, StructuralHash, GraphSerialization

CONSTANTS
    Creatable(_),  \* bound: the objects that may be created next in a heap ...
    Compared(_),   \* ... the pairs of those that are compared and hashed ...
    Written(_),    \* ... and those that are serialized
    MaxObjects     \* bound on the heap

VARIABLE heap

Init == heap = <<>>

Create(o) == Len(heap) < MaxObjects /\ heap' = Append(heap, o)
CreateObject(o) == o.type \in DOMAIN Kind /\ Create(o)
CreateArray(o) == o.type = Array /\ Create(o)
CreateMap(o) == o.type = Map /\ Create(o)

Next == \E o \in Creatable(heap) : CreateObject(o) \/ CreateArray(o) \/ CreateMap(o)

Spec == Init /\ [][Next]_heap

-----------------------------------------------------------------------------
EqualNext(l, r, free) == Equal(heap \o <<l, r>>, Len(heap) + 1, Len(heap) + 2, free)
EqualBothWays(l, r, free) == EqualNext(l, r, free) /\ EqualNext(r, l, free)
HashNext(o, free) == Hash(Append(heap, o), Len(heap) + 1, free)

\* The hash of a map may leave items out, that of a unique instance is by its contents, and
\* plain values may collide.
Loose(v) ==
    IF IsObject(v) THEN heap[v].type = Map \/ (heap[v].type \in DOMAIN Kind /\ Kind[heap[v].type] = "unique")
    ELSE \E w \in Plain \ {v} : PlainHash(w) = PlainHash(v)
LeadsToLoose(o) ==
    LET R[v \in Values(heap)] == Loose(v) \/ (IsObject(v) /\ \E w \in ToSet(Refs(heap[v])) : R[w])
    IN  \E v \in ToSet(Refs(o)) : R[v]

\* Variables and nodes of a graph, which are matched one to one.
IsName(v) == IsObject(v) /\ heap[v].type \in DOMAIN Kind /\ Kind[heap[v].type] \in {"var", "dag"}
\* What one of two hashes leaves out of a map leads to a name that the other, or it itself,
\* meets elsewhere.
Entangled(h, k) ==
    LET met == {p[1] : p \in h.st.memo \cup k.st.memo}
        R[v \in Values(heap)] ==
          (IsName(v) /\ v \in met) \/ (IsObject(v) /\ \E w \in ToSet(Refs(heap[v])) : R[w])
    IN  \E v \in h.st.left_out \cup k.st.left_out : R[v]


\* "Order independent hash value means the hash value will remain stable independent of the
\* order we hash the content at the current context" (structural_hash.cpp:170): keys that
\* have no such hash are skipped, so what is equal both ways has one hash, whatever is left
\* out of it.
EqualBothWaysMeansSameHash ==
    \A free \in BOOLEAN : \A c \in Compared(heap) :
        EqualBothWays(c[1], c[2], free) => HashNext(c[1], free).hash = HashNext(c[2], free).hash

\* Read back, a graph has the shape it had: there is a pairing of its values with those of
\* the copy, one to one, that keeps types, plain values and what each object refers to, in
\* order; so what was shared is shared, and what was not is not.
CopyHasShape ==
    \A o \in Written(heap) :
        LET old == Append(heap, o)
            s == ToJSONGraph(old, Len(old))
            d == FromJSONGraph(old, s.nodes)
            pairing == {<<s.values[p[1]], p[2]>> : p \in d.decoded}
        IN  /\ \E p \in pairing : p[1] = Len(old)
            /\ \A p, q \in pairing : (p[1] = q[1]) = (p[2] = q[2])
            /\ \A p \in pairing :
                 IF ~IsObject(p[1]) THEN p[1] = p[2]
                 ELSE /\ p[2] > Len(old) /\ d.heap[p[2]].type = old[p[1]].type
                      /\ LET from == Refs(old[p[1]])  to == Refs(d.heap[p[2]])
                         IN  Len(from) = Len(to) /\ \A i \in DOMAIN from : <<from[i], to[i]>> \in pairing

\* "if rhs is mapped but lhs is not, it means lhs is a free var, return false"
\* (structural_equal.cpp:145): a variable that is free on one side equals no variable that is
\* defined on the other, wherever they stand, and so what is equal has one hash.
EqualMeansSameHash ==
    \A free \in BOOLEAN : \A c \in Compared(heap) :
        EqualNext(c[1], c[2], free) \/ EqualNext(c[2], c[1], free)
            => HashNext(c[1], free).hash = HashNext(c[2], free).hash
=============================================================================
