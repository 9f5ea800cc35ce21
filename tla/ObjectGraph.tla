----------------------------- MODULE ObjectGraph ----------------------------
(***************************************************************************)
(* Object graphs as reflection shows them: a heap of objects that are      *)
(* created after what they refer to and do not change.  A value is a plain *)
(* one, 0 or below, or an object, its place in the heap.                   *)
(***************************************************************************)
EXTENDS Integers, Sequences, SequencesExt

CONSTANTS
    Plain,   \* plain values
    Kind,    \* by object type, its structural_eq_hash_kind
    Fields,  \* by object type, its fields: "use", "def" where variables are defined, or "ignore"
    Array, Map  \* the types of the containers

ASSUME ObjectGraphAssumption ==
    /\ \A v \in Plain : v \in Int /\ v <= 0
    /\ DOMAIN Fields = DOMAIN Kind
    /\ \A t \in DOMAIN Kind : /\ t \notin {Array, Map} /\ Fields[t] \in Seq({"def", "use", "ignore"})
                              /\ Kind[t] \in {"tree", "var", "dag", "const", "unique"}

IsObject(v) == v > 0
Values(heap) == Plain \cup DOMAIN heap

\* An object: its type and its fields, its items, or its pairs of key and value.
Object(t, parts) == [type |-> t, parts |-> parts]

\* What an object refers to, in order; a map a key and a value in turn.
Refs(o) == IF o.type = Map THEN FlattenSeq(o.parts) ELSE o.parts
=============================================================================
