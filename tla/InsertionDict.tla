--------------------------- MODULE InsertionDict ----------------------------
(***************************************************************************)
(* What ffi::Map promises: a dictionary whose entries are listed in the    *)
(* order of insertion.  Setting a key that is present changes its value;   *)
(* the entry then stays where it is or becomes the last one: the layouts   *)
(* of the code differ in this.                                             *)
(***************************************************************************)
EXTENDS Naturals, FiniteSets, Sequences, SequencesExt, FiniteSetsExt

CONSTANTS Key, Value,
          Lists  \* sequences of pairs that a dictionary may be made from

VARIABLE entries  \* the pairs of key and value, in the order a caller iterates

Keys(s) == {s[i][1] : i \in DOMAIN s}
Place(s, k) == CHOOSE i \in DOMAIN s : s[i][1] = k
Without(s, k) == RemoveAt(s, Place(s, k))

\* What s may become when k is set to v.
AfterSet(s, k, v) ==
    IF k \in Keys(s) THEN {[s EXCEPT ![Place(s, k)] = <<k, v>>], Append(Without(s, k), <<k, v>>)}
    ELSE {Append(s, <<k, v>>)}

Init == entries = <<>>
Set == entries' \in UNION {AfterSet(entries, k, v) : k \in Key, v \in Value}
Erase == entries' \in {Without(entries, k) : k \in Keys(entries)}
Clear == entries' = <<>>

\* Each key of the list once, with the value it has last, and no key before one that the
\* list is through with when it first comes.
Construct(list) ==
    LET Places(k) == {n \in DOMAIN list : list[n][1] = k}
    IN  /\ Len(entries') = Cardinality(Keys(list)) /\ Keys(entries') = Keys(list)
        /\ \A e \in ToSet(entries') : e = list[Max(Places(e[1]))]
        /\ \A i, j \in DOMAIN entries' :
             i < j => Min(Places(entries'[i][1])) < Max(Places(entries'[j][1]))

Next ==
    \/ Set
    \/ Erase
    \/ Clear
    \/ \E list \in Lists : Construct(list)

Spec == Init /\ [][Next]_entries
=============================================================================
