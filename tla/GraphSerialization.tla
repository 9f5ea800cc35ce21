------------------------- MODULE GraphSerialization -------------------------
(***************************************************************************)
(* ffi/src/ffi/extra/serialization.cpp: a graph becomes a list of nodes    *)
(* that refer to one another by index, each value once, and a new graph is *)
(* made from it.  Indices count from 1 here.                               *)
(***************************************************************************)
EXTENDS ObjectGraph

RECURSIVE GetOrCreateNodeIndex(_, _, _), CreateEach(_, _, _, _)

\* The state of the serializer: the values that have an index, in order, and their nodes.
Node(t, data) == [type |-> t, data |-> data]
PlainNode(v) == Node("plain", <<v>>)
Indexed(s, v) == SelectInSeq(s.values, LAMBDA w : w = v)

CreateEach(heap, vs, i, s) ==
    IF i > Len(vs) THEN s ELSE CreateEach(heap, vs, i + 1, GetOrCreateNodeIndex(heap, vs[i], s))

\* What v refers to comes first, then v.
GetOrCreateNodeIndex(heap, v, s) ==
    LET refs == IF IsObject(v) THEN Refs(heap[v]) ELSE <<>>
        below == CreateEach(heap, refs, 1, s)
        node == IF IsObject(v) THEN Node(heap[v].type, [i \in DOMAIN refs |-> Indexed(below, refs[i])])
                ELSE PlainNode(v)
    IN  IF Indexed(s, v) # 0 THEN s
        ELSE [values |-> Append(below.values, v), nodes |-> Append(below.nodes, node)]

\* What ToJSONGraph makes: the nodes, and the index of the root, which is the last one.
ToJSONGraph(heap, v) == GetOrCreateNodeIndex(heap, v, [values |-> <<>>, nodes |-> <<>>])

-----------------------------------------------------------------------------
\* The state of the deserializer: the new heap, and pairs of an index and its value.
RECURSIVE GetOrDecodeNode(_, _, _), DecodeEach(_, _, _, _)

Decoded(d, n) == {p[2] : p \in {q \in d.decoded : q[1] = n}}
ValueOf(d, n) == CHOOSE v \in Decoded(d, n) : TRUE

DecodeEach(nodes, data, i, d) ==
    IF i > Len(data) THEN d ELSE DecodeEach(nodes, data, i + 1, GetOrDecodeNode(nodes, data[i], d))

\* The keys have an index each, so every Map::Set adds a pair at the end.
PairsOf(vs) == [i \in 1..(Len(vs) \div 2) |-> <<vs[2 * i - 1], vs[2 * i]>>]

DecodedObject(node, vs) == Object(node.type, IF node.type = Map THEN PairsOf(vs) ELSE vs)

\* A plain value is as it was written; an object is made after what it refers to.
DecodeNode(nodes, n, d) ==
    LET node == nodes[n]
        below == DecodeEach(nodes, node.data, 1, d)
        vs == [i \in DOMAIN node.data |-> ValueOf(below, node.data[i])]
    IN  IF node.type = "plain" THEN [d EXCEPT !.decoded = @ \cup {<<n, node.data[1]>>}]
        ELSE [heap |-> Append(below.heap, DecodedObject(node, vs)),
              decoded |-> below.decoded \cup {<<n, Len(below.heap) + 1>>}]

\* Mutant: a node is decoded each time it is met.
GetOrDecodeNodeAnew(nodes, n, d) ==
    DecodeNode(nodes, n, [d EXCEPT !.decoded = {p \in @ : p[1] # n}])

GetOrDecodeNode(nodes, n, d) == IF Decoded(d, n) # {} THEN d ELSE DecodeNode(nodes, n, d)

\* The new graph is made in a heap where the old one may still be.
FromJSONGraph(heap, nodes) == GetOrDecodeNode(nodes, Len(nodes), [heap |-> heap, decoded |-> {}])
=============================================================================
