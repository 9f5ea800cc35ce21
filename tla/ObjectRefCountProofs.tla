------------------------ MODULE ObjectRefCountProofs ------------------------
(***************************************************************************)
(* Proofs about ObjectRefCount, for every finite set of threads and of     *)
(* handles.  IInv is inductive; the safety properties and the refinement   *)
(* of ObjectLifetime follow from it.                                       *)
(***************************************************************************)
EXTENDS ObjectRefCount, FiniteSetTheorems, TLAPS

\* The two sets of handles are finite, so that their sizes are numbers.
LEMMA RefsFinite ==
    /\ IsFiniteSet(StrongRefs) /\ Cardinality(StrongRefs) \in Nat
    /\ IsFiniteSet(WeakRefs) /\ Cardinality(WeakRefs) \in Nat
    /\ Cardinality(StrongRefs) = 0 <=> StrongRefs = {}
    /\ Cardinality(WeakRefs) = 0 <=> WeakRefs = {}
<1>1. StrongRefs \in SUBSET Handle /\ WeakRefs \in SUBSET Handle
    BY DEF StrongRefs, WeakRefs
<1>2. IsFiniteSet(StrongRefs) /\ IsFiniteSet(WeakRefs)
    BY <1>1, HandleAssumption, FS_Subset
<1> QED
    BY <1>2, FS_CardinalityType, FS_EmptySet

\* An empty handle that becomes strong adds one to the strong handles.
LEMMA GainStrong ==
    ASSUME TypeOK, NEW d \in Handle, ref[d] = "null",
           ref' = [ref EXCEPT ![d] = "strong"]
    PROVE  /\ StrongRefs' = StrongRefs \cup {d}
           /\ WeakRefs' = WeakRefs
           /\ Cardinality(StrongRefs') = Cardinality(StrongRefs) + 1
<1>1. StrongRefs' = StrongRefs \cup {d} /\ WeakRefs' = WeakRefs /\ d \notin StrongRefs
    BY DEF TypeOK, StrongRefs, WeakRefs
<1> QED
    BY <1>1, RefsFinite, FS_AddElement

\* An empty handle that becomes weak adds one to the weak handles.
LEMMA GainWeak ==
    ASSUME TypeOK, NEW d \in Handle, ref[d] = "null",
           ref' = [ref EXCEPT ![d] = "weak"]
    PROVE  /\ WeakRefs' = WeakRefs \cup {d}
           /\ StrongRefs' = StrongRefs
           /\ Cardinality(WeakRefs') = Cardinality(WeakRefs) + 1
<1>1. WeakRefs' = WeakRefs \cup {d} /\ StrongRefs' = StrongRefs /\ d \notin WeakRefs
    BY DEF TypeOK, StrongRefs, WeakRefs
<1> QED
    BY <1>1, RefsFinite, FS_AddElement

\* A strong handle that is emptied takes one from the strong handles.
LEMMA LoseStrong ==
    ASSUME TypeOK, NEW h \in Handle, ref[h] = "strong",
           ref' = [ref EXCEPT ![h] = "null"]
    PROVE  /\ StrongRefs' = StrongRefs \ {h}
           /\ WeakRefs' = WeakRefs
           /\ Cardinality(StrongRefs') = Cardinality(StrongRefs) - 1
<1>1. StrongRefs' = StrongRefs \ {h} /\ WeakRefs' = WeakRefs /\ h \in StrongRefs
    BY DEF TypeOK, StrongRefs, WeakRefs
<1> QED
    BY <1>1, RefsFinite, FS_RemoveElement

\* A weak handle that is emptied takes one from the weak handles.
LEMMA LoseWeak ==
    ASSUME TypeOK, NEW h \in Handle, ref[h] = "weak",
           ref' = [ref EXCEPT ![h] = "null"]
    PROVE  /\ WeakRefs' = WeakRefs \ {h}
           /\ StrongRefs' = StrongRefs
           /\ Cardinality(WeakRefs') = Cardinality(WeakRefs) - 1
<1>1. WeakRefs' = WeakRefs \ {h} /\ StrongRefs' = StrongRefs /\ h \in WeakRefs
    BY DEF TypeOK, StrongRefs, WeakRefs
<1> QED
    BY <1>1, RefsFinite, FS_RemoveElement

\* Moving a handle keeps both numbers.
LEMMA MoveKeepsCounts ==
    ASSUME TypeOK, NEW s \in Handle, NEW d \in Handle, ref[s] # "null", ref[d] = "null",
           ref' = [ref EXCEPT ![d] = ref[s], ![s] = "null"]
    PROVE  /\ \/ StrongRefs' = (StrongRefs \ {s}) \cup {d} /\ WeakRefs' = WeakRefs /\ s \in StrongRefs
              \/ WeakRefs' = (WeakRefs \ {s}) \cup {d} /\ StrongRefs' = StrongRefs /\ s \in WeakRefs
           /\ Cardinality(StrongRefs') = Cardinality(StrongRefs)
           /\ Cardinality(WeakRefs') = Cardinality(WeakRefs)
<1>1. d \notin StrongRefs /\ d \notin WeakRefs /\ s # d
    BY DEF TypeOK, StrongRefs, WeakRefs
<1>2. CASE ref[s] = "strong"
    <2>1. StrongRefs' = (StrongRefs \ {s}) \cup {d} /\ WeakRefs' = WeakRefs /\ s \in StrongRefs
        BY <1>1, <1>2 DEF TypeOK, StrongRefs, WeakRefs
    <2>2. /\ IsFiniteSet(StrongRefs \ {s})
          /\ Cardinality(StrongRefs \ {s}) = Cardinality(StrongRefs) - 1
        BY <2>1, RefsFinite, FS_RemoveElement
    <2>3. Cardinality((StrongRefs \ {s}) \cup {d}) = Cardinality(StrongRefs \ {s}) + 1
        BY <1>1, <2>2, FS_AddElement
    <2>4. Cardinality(StrongRefs') = Cardinality(StrongRefs)
        BY <2>1, <2>2, <2>3, RefsFinite
    <2> QED
        BY <2>1, <2>4
<1>3. CASE ref[s] = "weak"
    <2>1. WeakRefs' = (WeakRefs \ {s}) \cup {d} /\ StrongRefs' = StrongRefs /\ s \in WeakRefs
        BY <1>1, <1>3 DEF TypeOK, StrongRefs, WeakRefs
    <2>2. /\ IsFiniteSet(WeakRefs \ {s})
          /\ Cardinality(WeakRefs \ {s}) = Cardinality(WeakRefs) - 1
        BY <2>1, RefsFinite, FS_RemoveElement
    <2>3. Cardinality((WeakRefs \ {s}) \cup {d}) = Cardinality(WeakRefs \ {s}) + 1
        BY <1>1, <2>2, FS_AddElement
    <2>4. Cardinality(WeakRefs') = Cardinality(WeakRefs)
        BY <2>1, <2>2, <2>3, RefsFinite
    <2> QED
        BY <2>1, <2>4
<1> QED
    BY <1>2, <1>3 DEF TypeOK

\* The object is made with IInv.
LEMMA InitIInv == Init => IInv
<1> SUFFICES ASSUME Init PROVE IInv
    OBVIOUS
<1>1. PICK h \in Handle : ref = [g \in Handle |-> IF g = h THEN "strong" ELSE "null"]
    BY DEF Init
<1>2. StrongRefs = {h} /\ WeakRefs = {}
    BY <1>1 DEF StrongRefs, WeakRefs
<1>3. Cardinality(StrongRefs) = 1 /\ Cardinality(WeakRefs) = 0
    BY <1>2, FS_Singleton, FS_EmptySet
<1>4. TypeOK
    BY <1>1 DEF Init, TypeOK, Labels
<1>5. StrongCountExact /\ WeakCountExact
    BY <1>3 DEF Init, StrongCountExact, WeakCountExact, SharedWeak
<1>6. OneCloser /\ LockingHolds /\ Deleting
    BY DEF Init, OneCloser, LockingHolds, Deleting
<1> QED
    BY <1>4, <1>5, <1>6 DEF IInv

\* While some handle is strong, nobody is deleting and the strong handles together
\* hold one weak reference.
LEMMA StrongHandle ==
    ASSUME IInv, NEW h \in Handle, ref[h] = "strong"
    PROVE  /\ strong > 0 /\ destroyed = 0 /\ freed = 0
           /\ \A t \in Thread : pc[t] \in {"idle", "cas"}
           /\ weak = Cardinality(WeakRefs) + 1
<1>1. strong > 0
    <2>1. h \in StrongRefs
        BY DEF StrongRefs
    <2> QED
        BY <2>1, RefsFinite DEF IInv, StrongCountExact
<1>2. destroyed = 0 /\ freed = 0 /\ \A t \in Thread : pc[t] \in {"idle", "cas"}
    BY <1>1 DEF IInv, TypeOK, Deleting
<1> QED
    BY <1>1, <1>2 DEF IInv, WeakCountExact, SharedWeak

\* While some handle is weak, the memory is there and the weak count is exact.
LEMMA WeakHandle ==
    ASSUME IInv, NEW h \in Handle, ref[h] = "weak"
    PROVE  /\ freed = 0
           /\ \A t \in Thread : pc[t] \notin {"delBoth", "delMem"}
           /\ Cardinality(WeakRefs) > 0
           /\ weak = Cardinality(WeakRefs) + SharedWeak
           /\ SharedWeak \in {0, 1}
<1>1. h \in WeakRefs
    BY DEF WeakRefs
<1>2. freed = 0 /\ \A t \in Thread : pc[t] \notin {"delBoth", "delMem"}
    BY <1>1 DEF IInv, TypeOK, Deleting
<1>3. Cardinality(WeakRefs) > 0
    BY <1>1, RefsFinite
<1> QED
    BY <1>2, <1>3 DEF IInv, WeakCountExact, SharedWeak

\* IncRef for a new strong handle keeps IInv.
LEMMA CopyStrongStep ==
    ASSUME IInv, NEW s \in Handle, NEW d \in Handle, CopyStrong(s, d)
    PROVE  IInv'
<1>0. strong > 0 /\ weak = Cardinality(WeakRefs) + 1
    BY StrongHandle DEF CopyStrong
<1>1. StrongRefs' = StrongRefs \cup {d} /\ WeakRefs' = WeakRefs
       /\ Cardinality(StrongRefs') = Cardinality(StrongRefs) + 1
    BY GainStrong DEF IInv, CopyStrong, Free
<1>2. TypeOK'
    BY RefsFinite DEF IInv, TypeOK, Labels, StrongCountExact, WeakCountExact, SharedWeak, Deleting, Closing, StrongRefs, CopyStrong, Free, Reserved, Locking, locals
<1>3. StrongCountExact'
    BY <1>1, RefsFinite DEF IInv, TypeOK, StrongCountExact, LockingHolds, CopyStrong, Free, Reserved, Locking, locals
<1>4. OneCloser'
    BY RefsFinite DEF IInv, TypeOK, OneCloser, Deleting, StrongCountExact, WeakCountExact, SharedWeak, Closing, StrongRefs, CopyStrong, Free, Reserved, Locking, locals
<1>5. LockingHolds'
    BY DEF IInv, TypeOK, LockingHolds, CopyStrong, Free, Reserved, Locking, locals
<1>6. Deleting'
    BY <1>1, RefsFinite DEF IInv, TypeOK, Deleting, OneCloser, LockingHolds, StrongCountExact, WeakCountExact, SharedWeak, Closing, StrongRefs, WeakRefs, CopyStrong, Free, Reserved, Locking, locals
<1>7. WeakCountExact'
    BY <1>0, <1>1, RefsFinite DEF IInv, TypeOK, WeakCountExact, SharedWeak, Closing, OneCloser, LockingHolds, Deleting, CopyStrong, Free, Reserved, Locking, locals
<1> QED
    BY <1>2, <1>3, <1>4, <1>5, <1>6, <1>7 DEF IInv

\* IncWeakRef for a new weak handle keeps IInv.
LEMMA CopyWeakStep ==
    ASSUME IInv, NEW s \in Handle, NEW d \in Handle, CopyWeak(s, d)
    PROVE  IInv'
<1>1. WeakRefs' = WeakRefs \cup {d} /\ StrongRefs' = StrongRefs
       /\ Cardinality(WeakRefs') = Cardinality(WeakRefs) + 1
    BY GainWeak DEF IInv, CopyWeak, Free
<1>2. TypeOK'
    BY RefsFinite DEF IInv, TypeOK, Labels, StrongCountExact, WeakCountExact, SharedWeak, Deleting, Closing, StrongRefs, CopyWeak, Free, Reserved, Locking, locals
<1>3. StrongCountExact'
    BY <1>1, RefsFinite DEF IInv, TypeOK, StrongCountExact, LockingHolds, CopyWeak, Free, Reserved, Locking, locals
<1>4. OneCloser'
    BY RefsFinite DEF IInv, TypeOK, OneCloser, Deleting, StrongCountExact, WeakCountExact, SharedWeak, Closing, StrongRefs, CopyWeak, Free, Reserved, Locking, locals
<1>5. LockingHolds'
    BY DEF IInv, TypeOK, LockingHolds, CopyWeak, Free, Reserved, Locking, locals
<1>6. Deleting'
    BY <1>1, RefsFinite DEF IInv, TypeOK, Deleting, OneCloser, LockingHolds, StrongCountExact, WeakCountExact, SharedWeak, Closing, StrongRefs, WeakRefs, CopyWeak, Free, Reserved, Locking, locals
<1>7. WeakCountExact'
    BY <1>1, RefsFinite DEF IInv, TypeOK, WeakCountExact, SharedWeak, Closing, OneCloser, LockingHolds, Deleting, CopyWeak, Free, Reserved, Locking, locals
<1> QED
    BY <1>2, <1>3, <1>4, <1>5, <1>6, <1>7 DEF IInv

\* Moving a handle keeps IInv.
LEMMA MoveStep ==
    ASSUME IInv, NEW s \in Handle, NEW d \in Handle, Move(s, d)
    PROVE  IInv'
<1>1. (WeakRefs = {} => WeakRefs' = {})
       /\ Cardinality(StrongRefs') = Cardinality(StrongRefs)
       /\ Cardinality(WeakRefs') = Cardinality(WeakRefs)
    BY MoveKeepsCounts DEF IInv, Move, Free
<1>2. TypeOK'
    BY RefsFinite DEF IInv, TypeOK, Labels, StrongCountExact, WeakCountExact, SharedWeak, Deleting, Closing, StrongRefs, Move, Free, Reserved, Read, Locking, header, locals
<1>3. StrongCountExact'
    BY <1>1, RefsFinite DEF IInv, TypeOK, StrongCountExact, LockingHolds, Move, Free, Reserved, Read, Locking, header, locals
<1>4. OneCloser'
    BY RefsFinite DEF IInv, TypeOK, OneCloser, Deleting, StrongCountExact, WeakCountExact, SharedWeak, Closing, StrongRefs, Move, Free, Reserved, Read, Locking, header, locals
<1>5. LockingHolds'
    BY DEF IInv, TypeOK, LockingHolds, Move, Free, Reserved, Read, Locking, header, locals
<1>6. Deleting'
    BY <1>1, RefsFinite DEF IInv, TypeOK, Deleting, OneCloser, LockingHolds, StrongCountExact, WeakCountExact, SharedWeak, Closing, StrongRefs, WeakRefs, Move, Free, Reserved, Read, Locking, header, locals
<1>7. WeakCountExact'
    BY <1>1, RefsFinite DEF IInv, TypeOK, WeakCountExact, SharedWeak, Closing, OneCloser, LockingHolds, Deleting, Move, Free, Reserved, Read, Locking, header, locals
<1> QED
    BY <1>2, <1>3, <1>4, <1>5, <1>6, <1>7 DEF IInv

\* The strong decrement of DecRef keeps IInv.
LEMMA DecRefStep ==
    ASSUME IInv, NEW t \in Thread, NEW h \in Handle, DecRef(t, h)
    PROVE  IInv'
<1>0. /\ strong > 0 /\ destroyed = 0 /\ freed = 0
      /\ \A u \in Thread : pc[u] \in {"idle", "cas"}
      /\ weak = Cardinality(WeakRefs) + 1
    BY StrongHandle DEF DecRef
<1>1. StrongRefs' = StrongRefs \ {h} /\ WeakRefs' = WeakRefs
       /\ Cardinality(StrongRefs') = Cardinality(StrongRefs) - 1
    BY LoseStrong DEF IInv, DecRef
<1>2. TypeOK'
    BY RefsFinite DEF IInv, TypeOK, Labels, StrongCountExact, WeakCountExact, SharedWeak, Deleting, Closing, StrongRefs, DecRef, Goto, locals
<1>3. StrongCountExact'
    BY <1>1, RefsFinite DEF IInv, TypeOK, StrongCountExact, LockingHolds, DecRef, Goto, locals
<1>4. OneCloser'
    BY RefsFinite DEF IInv, TypeOK, OneCloser, Deleting, StrongCountExact, WeakCountExact, SharedWeak, Closing, StrongRefs, DecRef, Goto, locals
<1>5. LockingHolds'
    BY DEF IInv, TypeOK, LockingHolds, DecRef, Goto, locals
<1>6. Deleting'
    <2>1. CASE strong = 1
        <3>1. strong' = 0 /\ pc' = [pc EXCEPT ![t] = "loadWeak"]
            BY <2>1 DEF DecRef, Goto
        <3>2. \E u \in Thread : Closing(u)'
            BY <3>1 DEF IInv, TypeOK, Closing
        <3>3. \A u \in Thread : pc'[u] \in {"idle", "cas", "loadWeak"}
            BY <1>0, <3>1 DEF IInv, TypeOK
        <3>4. destroyed' = 0 /\ freed' = 0
            BY <1>0 DEF DecRef
        <3> QED
            BY <3>1, <3>2, <3>3, <3>4 DEF Deleting
    <2>2. CASE strong # 1
        <3>1. strong' > 0 /\ pc' = [pc EXCEPT ![t] = "idle"]
            BY <1>0, <2>2 DEF IInv, TypeOK, DecRef, Goto
        <3>2. \A u \in Thread : pc'[u] \in {"idle", "cas"}
            BY <1>0, <3>1 DEF IInv, TypeOK
        <3>3. destroyed' = 0 /\ freed' = 0
            BY <1>0 DEF DecRef
        <3> QED
            BY <3>1, <3>2, <3>3 DEF Deleting
    <2> QED
        BY <2>1, <2>2
<1>7. WeakCountExact'
    BY <1>1, RefsFinite DEF IInv, TypeOK, WeakCountExact, SharedWeak, Closing, OneCloser, LockingHolds, Deleting, DecRef, Goto, locals
<1> QED
    BY <1>2, <1>3, <1>4, <1>5, <1>6, <1>7 DEF IInv

\* DecWeakRef keeps IInv.
LEMMA DecWeakRefStep ==
    ASSUME IInv, NEW t \in Thread, NEW h \in Handle, DecWeakRef(t, h)
    PROVE  IInv'
<1>1. /\ WeakRefs' = WeakRefs \ {h} /\ StrongRefs' = StrongRefs
      /\ Cardinality(WeakRefs') = Cardinality(WeakRefs) - 1
    BY LoseWeak DEF IInv, DecWeakRef
<1>2. /\ freed = 0
      /\ \A u \in Thread : pc[u] \notin {"delBoth", "delMem"}
      /\ Cardinality(WeakRefs) > 0
      /\ weak = Cardinality(WeakRefs) + SharedWeak
      /\ SharedWeak \in {0, 1}
    BY WeakHandle DEF DecWeakRef
<1>3. CASE weak = 1
    \* It was the last weak handle and no strong handle is left: t deletes the memory.
    <2>1. Cardinality(WeakRefs) = 1 /\ SharedWeak = 0
        BY <1>2, <1>3, RefsFinite
    <2>2. strong = 0 /\ destroyed = 1 /\ \A u \in Thread : pc[u] \in {"idle", "cas"}
        BY <1>2, <2>1 DEF IInv, TypeOK, Labels, SharedWeak, Closing, Deleting
    <2>3. WeakRefs' = {}
        <3>1. Cardinality(WeakRefs') = 0
            BY <1>1, <2>1
        <3>2. IsFiniteSet(WeakRefs')
            BY <1>1, RefsFinite, FS_RemoveElement
        <3> QED
            BY <3>1, <3>2, FS_EmptySet
    <2>4. pc' = [pc EXCEPT ![t] = "delMem"] /\ weak' = 0
        BY <1>3 DEF DecWeakRef, Goto
    <2>5. TypeOK'
        BY <2>4 DEF IInv, TypeOK, Labels, DecWeakRef, locals
    <2>6. StrongCountExact'
        BY <1>1 DEF IInv, StrongCountExact, DecWeakRef
    <2>7. OneCloser'
        BY <2>2, <2>4 DEF IInv, TypeOK, OneCloser
    <2>8. LockingHolds'
        BY <2>4 DEF IInv, TypeOK, LockingHolds, DecWeakRef, Read, Locking, locals
    <2>9. Deleting'
        BY <1>2, <2>2, <2>3, <2>4 DEF IInv, TypeOK, Deleting, Closing, DecWeakRef
    <2>10. WeakCountExact'
        BY <2>4 DEF IInv, TypeOK, WeakCountExact
    <2> QED
        BY <2>5, <2>6, <2>7, <2>8, <2>9, <2>10 DEF IInv
<1>4. CASE weak # 1
    <2>1. pc' = pc /\ weak > 1
        BY <1>2, <1>4, RefsFinite DEF IInv, TypeOK, DecWeakRef, Goto
    <2>2. TypeOK'
        BY <2>1 DEF IInv, TypeOK, DecWeakRef, locals
    <2>3. StrongCountExact'
        BY <1>1 DEF IInv, StrongCountExact, DecWeakRef
    <2>4. OneCloser'
        BY <2>1 DEF IInv, OneCloser
    <2>5. LockingHolds'
        BY <2>1 DEF IInv, TypeOK, LockingHolds, DecWeakRef, Read, Locking, locals
    <2>6. Deleting'
        BY <1>1, <1>2, <2>1 DEF IInv, Deleting, Closing, DecWeakRef
    <2>7. WeakCountExact'
        BY <1>1, <1>2, <2>1, RefsFinite DEF IInv, WeakCountExact, SharedWeak, Closing, DecWeakRef
    <2> QED
        BY <2>2, <2>3, <2>4, <2>5, <2>6, <2>7 DEF IInv
<1> QED
    BY <1>3, <1>4

\* The first load of TryPromoteWeakPtr keeps IInv.
LEMMA LoadStrongStep ==
    ASSUME IInv, NEW t \in Thread, NEW w \in Handle, NEW d \in Handle, LoadStrong(t, w, d)
    PROVE  IInv'
<1>1. StrongRefs' = StrongRefs /\ WeakRefs' = WeakRefs
    BY DEF LoadStrong, StrongRefs, WeakRefs
<1>2. TypeOK'
    BY RefsFinite DEF IInv, TypeOK, Labels, StrongCountExact, WeakCountExact, SharedWeak, Deleting, Closing, StrongRefs, LoadStrong, Goto, Free, Reserved, Locking, header
<1>3. StrongCountExact'
    BY <1>1, RefsFinite DEF IInv, TypeOK, StrongCountExact, LockingHolds, LoadStrong, Goto, Free, Reserved, Locking, header
<1>4. OneCloser'
    BY RefsFinite DEF IInv, TypeOK, OneCloser, Deleting, StrongCountExact, WeakCountExact, SharedWeak, Closing, StrongRefs, LoadStrong, Goto, Free, Reserved, Locking, header
<1>5. LockingHolds'
    BY DEF IInv, TypeOK, LockingHolds, LoadStrong, Goto, Free, Reserved, Locking, header
<1>6. Deleting'
    BY <1>1, RefsFinite DEF IInv, TypeOK, Deleting, OneCloser, LockingHolds, StrongCountExact, WeakCountExact, SharedWeak, Closing, StrongRefs, WeakRefs, LoadStrong, Goto, Free, Reserved, Locking, header
<1>7. WeakCountExact'
    BY <1>1, RefsFinite DEF IInv, TypeOK, WeakCountExact, SharedWeak, Closing, OneCloser, LockingHolds, Deleting, LoadStrong, Goto, Free, Reserved, Locking, header
<1> QED
    BY <1>2, <1>3, <1>4, <1>5, <1>6, <1>7 DEF IInv

\* A successful compare-exchange keeps IInv.
LEMMA PromoteStep ==
    ASSUME IInv, NEW t \in Thread, Promote(t)
    PROVE  IInv'
<1>1. StrongRefs' = StrongRefs \cup {dst[t]} /\ WeakRefs' = WeakRefs
       /\ Cardinality(StrongRefs') = Cardinality(StrongRefs) + 1
    BY GainStrong DEF IInv, Promote, LockingHolds, TypeOK
<1>2. TypeOK'
    BY RefsFinite DEF IInv, TypeOK, Labels, StrongCountExact, WeakCountExact, SharedWeak, Deleting, Closing, StrongRefs, Promote, Goto, locals
<1>3. StrongCountExact'
    BY <1>1, RefsFinite DEF IInv, TypeOK, StrongCountExact, LockingHolds, Promote, Goto, locals
<1>4. OneCloser'
    BY RefsFinite DEF IInv, TypeOK, OneCloser, Deleting, StrongCountExact, WeakCountExact, SharedWeak, Closing, StrongRefs, Promote, Goto, locals
<1>5. LockingHolds'
    BY DEF IInv, TypeOK, LockingHolds, Promote, Goto, locals
<1>6. Deleting'
    BY <1>1, RefsFinite DEF IInv, TypeOK, Deleting, OneCloser, LockingHolds, StrongCountExact, WeakCountExact, SharedWeak, Closing, StrongRefs, WeakRefs, Promote, Goto, locals
<1>7. WeakCountExact'
    BY <1>1, RefsFinite DEF IInv, TypeOK, WeakCountExact, SharedWeak, Closing, OneCloser, LockingHolds, Deleting, Promote, Goto, locals
<1> QED
    BY <1>2, <1>3, <1>4, <1>5, <1>6, <1>7 DEF IInv

\* A failed compare-exchange keeps IInv.
LEMMA RetryPromoteStep ==
    ASSUME IInv, NEW t \in Thread, RetryPromote(t)
    PROVE  IInv'
<1>1. StrongRefs' = StrongRefs /\ WeakRefs' = WeakRefs
    BY DEF RetryPromote, StrongRefs, WeakRefs
<1>2. TypeOK'
    BY RefsFinite DEF IInv, TypeOK, Labels, StrongCountExact, WeakCountExact, SharedWeak, Deleting, Closing, StrongRefs, RetryPromote, Goto, header
<1>3. StrongCountExact'
    BY <1>1, RefsFinite DEF IInv, TypeOK, StrongCountExact, LockingHolds, RetryPromote, Goto, header
<1>4. OneCloser'
    BY RefsFinite DEF IInv, TypeOK, OneCloser, Deleting, StrongCountExact, WeakCountExact, SharedWeak, Closing, StrongRefs, RetryPromote, Goto, header
<1>5. LockingHolds'
    BY DEF IInv, TypeOK, LockingHolds, RetryPromote, Goto, header
<1>6. Deleting'
    BY <1>1, RefsFinite DEF IInv, TypeOK, Deleting, OneCloser, LockingHolds, StrongCountExact, WeakCountExact, SharedWeak, Closing, StrongRefs, WeakRefs, RetryPromote, Goto, header
<1>7. WeakCountExact'
    BY <1>1, RefsFinite DEF IInv, TypeOK, WeakCountExact, SharedWeak, Closing, OneCloser, LockingHolds, Deleting, RetryPromote, Goto, header
<1> QED
    BY <1>2, <1>3, <1>4, <1>5, <1>6, <1>7 DEF IInv

\* Reading the weak count after the last strong decrement keeps IInv.
LEMMA LoadWeakStep ==
    ASSUME IInv, NEW t \in Thread, LoadWeak(t)
    PROVE  IInv'
<1>1. StrongRefs' = StrongRefs /\ WeakRefs' = WeakRefs
    BY DEF LoadWeak, StrongRefs, WeakRefs
<1>2. TypeOK'
    BY RefsFinite DEF IInv, TypeOK, Labels, StrongCountExact, WeakCountExact, SharedWeak, Deleting, Closing, StrongRefs, LoadWeak, Goto, header, locals
<1>3. StrongCountExact'
    BY <1>1, RefsFinite DEF IInv, TypeOK, StrongCountExact, LockingHolds, LoadWeak, Goto, header, locals
<1>4. OneCloser'
    BY RefsFinite DEF IInv, TypeOK, OneCloser, Deleting, StrongCountExact, WeakCountExact, SharedWeak, Closing, StrongRefs, LoadWeak, Goto, header, locals
<1>5. LockingHolds'
    BY DEF IInv, TypeOK, LockingHolds, LoadWeak, Goto, header, locals
<1>6. Deleting'
    BY <1>1, RefsFinite DEF IInv, TypeOK, Deleting, OneCloser, LockingHolds, StrongCountExact, WeakCountExact, SharedWeak, Closing, StrongRefs, WeakRefs, LoadWeak, Goto, header, locals
<1>7. WeakCountExact'
    BY <1>1, RefsFinite DEF IInv, TypeOK, WeakCountExact, SharedWeak, Closing, OneCloser, LockingHolds, Deleting, LoadWeak, Goto, header, locals
<1> QED
    BY <1>2, <1>3, <1>4, <1>5, <1>6, <1>7 DEF IInv

\* Running the destructor keeps IInv.
LEMMA DestructStep ==
    ASSUME IInv, NEW t \in Thread, Destruct(t)
    PROVE  IInv'
<1>1. StrongRefs' = StrongRefs /\ WeakRefs' = WeakRefs
    BY DEF Destruct, StrongRefs, WeakRefs
<1>2. TypeOK'
    BY RefsFinite DEF IInv, TypeOK, Labels, StrongCountExact, WeakCountExact, SharedWeak, Deleting, Closing, StrongRefs, Destruct, Goto, header, locals
<1>3. StrongCountExact'
    BY <1>1, RefsFinite DEF IInv, TypeOK, StrongCountExact, LockingHolds, Destruct, Goto, header, locals
<1>4. OneCloser'
    BY RefsFinite DEF IInv, TypeOK, OneCloser, Deleting, StrongCountExact, WeakCountExact, SharedWeak, Closing, StrongRefs, Destruct, Goto, header, locals
<1>5. LockingHolds'
    BY DEF IInv, TypeOK, LockingHolds, Destruct, Goto, header, locals
<1>6. Deleting'
    BY <1>1, RefsFinite DEF IInv, TypeOK, Deleting, OneCloser, LockingHolds, StrongCountExact, WeakCountExact, SharedWeak, Closing, StrongRefs, WeakRefs, Destruct, Goto, header, locals
<1>7. WeakCountExact'
    BY <1>1, RefsFinite DEF IInv, TypeOK, WeakCountExact, SharedWeak, Closing, OneCloser, LockingHolds, Deleting, Destruct, Goto, header, locals
<1> QED
    BY <1>2, <1>3, <1>4, <1>5, <1>6, <1>7 DEF IInv

\* Giving up the shared weak reference keeps IInv.
LEMMA SubWeakStep ==
    ASSUME IInv, NEW t \in Thread, SubWeak(t)
    PROVE  IInv'
<1>1. StrongRefs' = StrongRefs /\ WeakRefs' = WeakRefs
    BY DEF SubWeak, StrongRefs, WeakRefs
<1>0. weak = Cardinality(WeakRefs) + 1
    BY DEF IInv, WeakCountExact, SharedWeak, Closing, Deleting, OneCloser, SubWeak, TypeOK
<1>2. TypeOK'
    BY <1>0, RefsFinite DEF IInv, TypeOK, Labels, SubWeak, Goto, locals
<1>3. StrongCountExact'
    BY <1>1, RefsFinite DEF IInv, TypeOK, StrongCountExact, LockingHolds, SubWeak, Goto, locals
<1>4. OneCloser'
    BY RefsFinite DEF IInv, TypeOK, OneCloser, Deleting, StrongCountExact, WeakCountExact, SharedWeak, Closing, StrongRefs, SubWeak, Goto, locals
<1>5. LockingHolds'
    BY DEF IInv, TypeOK, LockingHolds, SubWeak, Goto, locals
<1>6. Deleting'
    BY <1>1, RefsFinite DEF IInv, TypeOK, Deleting, OneCloser, LockingHolds, StrongCountExact, WeakCountExact, SharedWeak, Closing, StrongRefs, WeakRefs, SubWeak, Goto, locals
<1>7. WeakCountExact'
    BY <1>1, RefsFinite DEF IInv, TypeOK, WeakCountExact, SharedWeak, Closing, OneCloser, LockingHolds, Deleting, SubWeak, Goto, locals
<1> QED
    BY <1>2, <1>3, <1>4, <1>5, <1>6, <1>7 DEF IInv

\* Returning the memory block keeps IInv.
LEMMA FreeMemoryStep ==
    ASSUME IInv, NEW t \in Thread, FreeMemory(t)
    PROVE  IInv'
<1>1. StrongRefs' = StrongRefs /\ WeakRefs' = WeakRefs
    BY DEF FreeMemory, StrongRefs, WeakRefs
<1>2. TypeOK'
    BY RefsFinite DEF IInv, TypeOK, Labels, StrongCountExact, WeakCountExact, SharedWeak, Deleting, Closing, StrongRefs, FreeMemory, Goto, header, locals
<1>3. StrongCountExact'
    BY <1>1, RefsFinite DEF IInv, TypeOK, StrongCountExact, LockingHolds, FreeMemory, Goto, header, locals
<1>4. OneCloser'
    BY RefsFinite DEF IInv, TypeOK, OneCloser, Deleting, StrongCountExact, WeakCountExact, SharedWeak, Closing, StrongRefs, FreeMemory, Goto, header, locals
<1>5. LockingHolds'
    BY DEF IInv, TypeOK, LockingHolds, FreeMemory, Goto, header, locals
<1>6. Deleting'
    BY <1>1, RefsFinite DEF IInv, TypeOK, Deleting, OneCloser, LockingHolds, StrongCountExact, WeakCountExact, SharedWeak, Closing, StrongRefs, WeakRefs, FreeMemory, Goto, header, locals
<1>7. WeakCountExact'
    BY <1>1, RefsFinite DEF IInv, TypeOK, WeakCountExact, SharedWeak, Closing, OneCloser, LockingHolds, Deleting, FreeMemory, Goto, header, locals
<1> QED
    BY <1>2, <1>3, <1>4, <1>5, <1>6, <1>7 DEF IInv

-----------------------------------------------------------------------------

\* IInv holds in every reachable state, for every finite set of threads and handles.
THEOREM Inductive == Spec => []IInv
<1>1. IInv /\ [Next]_vars => IInv'
    <2> SUFFICES ASSUME IInv, [Next]_vars PROVE IInv'
        OBVIOUS
    <2>1. CASE \E s, d \in Handle : CopyStrong(s, d) \/ CopyWeak(s, d) \/ Move(s, d)
        BY <2>1, CopyStrongStep, CopyWeakStep, MoveStep
    <2>2. CASE \E t \in Thread : ThreadNext(t)
        BY <2>2, DecRefStep, DecWeakRefStep, LoadStrongStep, PromoteStep, RetryPromoteStep,
           LoadWeakStep, DestructStep, SubWeakStep, FreeMemoryStep DEF ThreadNext, Finish
    <2>3. CASE UNCHANGED vars
        BY <2>3 DEF vars, IInv, TypeOK, StrongCountExact, WeakCountExact, SharedWeak, Closing,
           OneCloser, LockingHolds, Deleting, StrongRefs, WeakRefs
    <2> QED
        BY <2>1, <2>2, <2>3 DEF Next
<1> QED
    BY InitIInv, <1>1, PTL DEF Spec

\* The types are kept.
THEOREM TypeCorrect == Spec => []TypeOK
<1>1. IInv => TypeOK
    BY DEF IInv
<1> QED
    BY <1>1, Inductive, PTL

\* The strong count is the number of strong handles.
THEOREM StrongCounted == Spec => []StrongCountExact
<1>1. IInv => StrongCountExact
    BY DEF IInv
<1> QED
    BY <1>1, Inductive, PTL

\* An object with a strong handle has not been destroyed.
THEOREM StrongIsAlive == Spec => []StrongKeepsAlive
<1>1. IInv => StrongKeepsAlive
    BY StrongHandle DEF StrongKeepsAlive, StrongRefs
<1> QED
    BY <1>1, Inductive, PTL

\* Nothing that can still touch the header outlives the memory block.
THEOREM NoUseAfterFree == Spec => []NoTouchAfterFree
<1>1. IInv => NoTouchAfterFree
    <2> SUFFICES ASSUME IInv, freed > 0
                 PROVE  StrongRefs = {} /\ WeakRefs = {} /\ \A t \in Thread : pc[t] = "idle"
        BY DEF NoTouchAfterFree
    <2>1. freed = 1
        BY DEF IInv, TypeOK, Deleting
    <2>2. StrongRefs = {}
        BY <2>1, StrongHandle DEF StrongRefs
    <2> QED
        BY <2>1, <2>2 DEF IInv, Deleting
<1> QED
    BY <1>1, Inductive, PTL

\* The destructor and the deallocation run at most once, in this order.
THEOREM DeletesOnce == Spec => []DeletedOnce
<1>1. IInv => DeletedOnce
    BY DEF IInv, TypeOK, Deleting, DeletedOnce
<1> QED
    BY <1>1, Inductive, PTL

\* A strong count of zero stays zero: lock() cannot bring a dying object back.
THEOREM NeverResurrected == Spec => NoResurrection
<1>1. IInv /\ [Next]_vars => [strong = 0 => strong' = 0]_vars
    <2> SUFFICES ASSUME IInv, Next, strong = 0 PROVE strong' = 0
        BY DEF vars
    <2>1. \A h \in Handle : ref[h] # "strong"
        BY StrongHandle
    <2>2. \A t \in Thread : pc[t] = "cas" => old[t] > 0
        BY DEF IInv, LockingHolds
    <2> QED
        BY <2>1, <2>2 DEF IInv, TypeOK, Next, ThreadNext, Finish, CopyStrong, CopyWeak, Move, DecRef,
           DecWeakRef, LoadStrong, Promote, RetryPromote, LoadWeak, Destruct, SubWeak, FreeMemory, header
<1> QED
    BY <1>1, Inductive, PTL DEF Spec, NoResurrection

-----------------------------------------------------------------------------
\* Making, moving and dropping handles are steps of ObjectLifetime.
LEMMA HandleStepsRefine ==
    ASSUME IInv,
           \/ \E s, d \in Handle : CopyStrong(s, d) \/ CopyWeak(s, d) \/ Move(s, d)
           \/ \E t \in Thread : \E h \in Handle : DecRef(t, h) \/ DecWeakRef(t, h)
           \/ \E t \in Thread : Promote(t)
    PROVE  Lifetime!Next
<1>1. ASSUME NEW s \in Handle, NEW d \in Handle, CopyStrong(s, d)
      PROVE  Lifetime!Share(d)
    <2>1. StrongRefs' = StrongRefs \cup {d} /\ WeakRefs' = WeakRefs
        BY <1>1, GainStrong DEF IInv, CopyStrong, Free
    <2> QED
        BY <1>1, <2>1 DEF CopyStrong, Free, StrongRefs, WeakRefs, Lifetime!Share, Lifetime!Null
<1>2. ASSUME NEW s \in Handle, NEW d \in Handle, CopyWeak(s, d)
      PROVE  Lifetime!Watch(d)
    <2>1. WeakRefs' = WeakRefs \cup {d} /\ StrongRefs' = StrongRefs
        BY <1>2, GainWeak DEF IInv, CopyWeak, Free
    <2>2. s \in StrongRefs \cup WeakRefs
        BY <1>2 DEF IInv, TypeOK, CopyWeak, StrongRefs, WeakRefs
    <2> QED
        BY <1>2, <2>1, <2>2 DEF CopyWeak, Free, StrongRefs, WeakRefs, Lifetime!Watch, Lifetime!Null
<1>3. ASSUME NEW s \in Handle, NEW d \in Handle, Move(s, d)
      PROVE  Lifetime!Move(s, d)
    <2>1. \/ StrongRefs' = (StrongRefs \ {s}) \cup {d} /\ WeakRefs' = WeakRefs /\ s \in StrongRefs
          \/ WeakRefs' = (WeakRefs \ {s}) \cup {d} /\ StrongRefs' = StrongRefs /\ s \in WeakRefs
        BY <1>3, MoveKeepsCounts DEF IInv, Move, Free
    <2> QED
        BY <1>3, <2>1 DEF Move, Free, StrongRefs, WeakRefs, Lifetime!Move, Lifetime!Null
<1>4. ASSUME NEW t \in Thread, NEW h \in Handle, DecRef(t, h)
      PROVE  Lifetime!Drop(h)
    <2>1. StrongRefs' = StrongRefs \ {h} /\ WeakRefs' = WeakRefs
        BY <1>4, LoseStrong DEF IInv, DecRef
    <2> QED
        BY <1>4, <2>1 DEF DecRef, StrongRefs, WeakRefs, Lifetime!Drop
<1>5. ASSUME NEW t \in Thread, NEW h \in Handle, DecWeakRef(t, h)
      PROVE  Lifetime!Drop(h)
    <2>1. WeakRefs' = WeakRefs \ {h} /\ StrongRefs' = StrongRefs
        BY <1>5, LoseWeak DEF IInv, DecWeakRef
    <2> QED
        BY <1>5, <2>1 DEF DecWeakRef, StrongRefs, WeakRefs, Lifetime!Drop
<1>6. ASSUME NEW t \in Thread, Promote(t)
      PROVE  Lifetime!Share(dst[t]) /\ dst[t] \in Handle
    \* The compare-exchange saw a count above zero, so some handle is strong.
    <2>1. ref[dst[t]] = "null" /\ dst[t] \in Handle /\ strong > 0
        BY <1>6 DEF IInv, TypeOK, LockingHolds, Promote
    <2>2. StrongRefs' = StrongRefs \cup {dst[t]} /\ WeakRefs' = WeakRefs
        BY <1>6, <2>1, GainStrong DEF IInv, Promote
    <2>3. StrongRefs # {}
        BY <2>1, RefsFinite DEF IInv, TypeOK, StrongCountExact
    <2> QED
        BY <1>6, <2>1, <2>2, <2>3 DEF Promote, StrongRefs, WeakRefs, Lifetime!Share, Lifetime!Null
<1> QED
    BY <1>1, <1>2, <1>3, <1>4, <1>5, <1>6 DEF Lifetime!Next

\* Running the destructor and returning the memory are steps of ObjectLifetime:
\* Destroy waits for the last strong handle, Free for the last weak one as well.
LEMMA DeleterStepsRefine ==
    ASSUME IInv, NEW t \in Thread
    PROVE  /\ Destruct(t) => Lifetime!Destroy
           /\ FreeMemory(t) => Lifetime!Free
<1>1. ASSUME Destruct(t) PROVE Lifetime!Destroy
    <2>1. strong = 0 /\ destroyed = 0 /\ freed = 0
        BY <1>1 DEF IInv, TypeOK, Deleting, Destruct
    <2>2. StrongRefs = {}
        BY <2>1, RefsFinite DEF IInv, StrongCountExact
    <2> QED
        BY <1>1, <2>1, <2>2 DEF Destruct, StrongRefs, WeakRefs, Lifetime!Destroy
<1>2. ASSUME FreeMemory(t) PROVE Lifetime!Free
    <2>1. destroyed = 1 /\ freed = 0 /\ WeakRefs = {}
        BY <1>2 DEF IInv, Deleting, FreeMemory
    <2> QED
        BY <1>2, <2>1 DEF FreeMemory, StrongRefs, WeakRefs, Lifetime!Free
<1> QED
    BY <1>1, <1>2

\* The counters implement ObjectLifetime: the object is destroyed once, after its
\* last strong handle, and freed once, after that and after its last weak handle.
THEOREM ImplementsLifetime == Spec => LifetimeSafety
<1>1. Init => Lifetime!Init
    <2> SUFFICES ASSUME Init PROVE Lifetime!Init
        OBVIOUS
    <2>1. PICK h \in Handle : ref = [g \in Handle |-> IF g = h THEN "strong" ELSE "null"]
        BY DEF Init
    <2>2. StrongRefs = {h} /\ WeakRefs = {}
        BY <2>1 DEF StrongRefs, WeakRefs
    <2> QED
        BY <2>2 DEF Init, Lifetime!Init
<1>2. IInv /\ [Next]_vars => [Lifetime!Next]_(Lifetime!vars)
    <2> SUFFICES ASSUME IInv, [Next]_vars PROVE [Lifetime!Next]_(Lifetime!vars)
        OBVIOUS
    <2>1. CASE \E s, d \in Handle : CopyStrong(s, d) \/ CopyWeak(s, d) \/ Move(s, d)
        BY <2>1, HandleStepsRefine
    <2>2. ASSUME NEW t \in Thread, ThreadNext(t) PROVE [Lifetime!Next]_(Lifetime!vars)
        <3>1. CASE (\E h \in Handle : DecRef(t, h) \/ DecWeakRef(t, h)) \/ Promote(t)
            BY <3>1, HandleStepsRefine
        <3>2. CASE Destruct(t) \/ FreeMemory(t)
            BY <3>2, DeleterStepsRefine DEF Lifetime!Next
        <3>3. CASE \/ \E w, d \in Handle : LoadStrong(t, w, d)
                   \/ RetryPromote(t) \/ LoadWeak(t) \/ SubWeak(t)
            BY <3>3 DEF LoadStrong, RetryPromote, LoadWeak, SubWeak, header, StrongRefs, WeakRefs,
               Lifetime!vars
        <3> QED
            BY <2>2, <3>1, <3>2, <3>3 DEF ThreadNext, Finish
    <2>3. CASE UNCHANGED vars
        BY <2>3 DEF vars, StrongRefs, WeakRefs, Lifetime!vars
    <2> QED
        BY <2>1, <2>2, <2>3 DEF Next
<1> QED
    BY <1>1, <1>2, Inductive, PTL DEF Spec, LifetimeSafety
=============================================================================
