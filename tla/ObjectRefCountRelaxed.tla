----------------------- MODULE ObjectRefCountRelaxed ------------------------
(***************************************************************************)
(* The reference counts of ffi/include/ffi/object.h under the C++ memory   *)
(* model: which values the plain load of the weak count may return, and    *)
(* which accesses happen before the destructor and the deallocation.       *)
(*                                                                         *)
(* All writes to the counts are read-modify-writes: they act on the latest *)
(* value and continue every release sequence.  Two loads decide something  *)
(* without a compare-exchange.  That of the weak count in DecRef may       *)
(* return any value from the last write its thread knows of on.  For that  *)
(* of the strong count in unique() the latest value is enough: an older    *)
(* one allows nothing that the same load made earlier would not.           *)
(*                                                                         *)
(* A view is what a thread knows, or what one learns by acquiring a count: *)
(* pos is the last known write of the weak count; known holds the pairs    *)
(* <<kind, u>> such that all accesses of the kind by thread u so far       *)
(* happened before.  A new access makes its pair unknown to everyone else. *)
(***************************************************************************)
EXTENDS Naturals, FiniteSets, Sequences, SequencesExt

CONSTANTS
    Thread, Handle,
    Builds,      \* "gcc" for the __atomic path, "msvc" for the _Interlocked path, or both
    MaxWeakIncs  \* bound on the weak handles made in a behaviour

ASSUME BuildAssumption == Builds \subseteq {"gcc", "msvc"} /\ MaxWeakIncs \in Nat

\* A process has finitely many pointers to the object at a time.
ASSUME HandleAssumption == IsFiniteSet(Handle)

VARIABLES
    build,       \* the path that was compiled
    ref, owner,  \* what a handle holds, and the thread whose handle it is
    strong,      \* strong_ref_count
    hist,        \* the values of weak_ref_count in modification order
    view,        \* views of the threads and of the two counts
    destroyed, freed, pc

vars == <<build, ref, owner, strong, hist, view, destroyed, freed, pc>>

Kind == {"use", "header"}  \* of the object's contents, of its two counts
Event == Kind \X Thread
Place == Thread \cup {"strong", "weak"}
View == [pos : Nat \ {0}, known : SUBSET Event]

Join(v, w) == [pos |-> IF v.pos > w.pos THEN v.pos ELSE w.pos, known |-> v.known \cup w.known]
Acquire(V, t, place) == [V EXCEPT ![t] = Join(@, V[place])]
Release(V, t, place) == [V EXCEPT ![place] = Join(@, V[t])]
Access(V, t, kind) ==
    [p \in Place |-> [V[p] EXCEPT !.known = IF p = t THEN @ \cup {<<kind, t>>} ELSE @ \ {<<kind, t>>}]]

Weak == Last(hist)
Increments == Cardinality({i \in 2 .. Len(hist) : hist[i] > hist[i - 1]})

\* A read-modify-write of the weak count by t, with the views after it but its release.
AfterWeakWrite(t) == [Access(view, t, "header") EXCEPT ![t].pos = Len(hist) + 1]

Held(kind) == {h \in Handle : ref[h] = kind}
Owned(t, h, kind) == owner[h] = t /\ ref[h] = kind
Idle(t) == pc[t] = "idle"
Goto(t, label) == pc' = [pc EXCEPT ![t] = label]

TypeOK ==
    /\ ref \in [Handle -> {"null", "strong", "weak"}] /\ owner \in [Handle -> Thread]
    /\ build \in Builds /\ strong \in Nat /\ hist \in Seq(Nat) /\ view \in [Place -> View]
    /\ destroyed \in BOOLEAN /\ freed \in BOOLEAN
    /\ pc \in [Thread -> {"idle", "change", "loadWeak", "delBoth", "delStrong", "subWeak", "delMem"}]

Init ==
    /\ build \in Builds
    /\ \E h \in Handle : ref = [g \in Handle |-> IF g = h THEN "strong" ELSE "null"]
    /\ owner \in [Handle -> Thread]
    /\ strong = 1
    /\ hist = <<1>>
    /\ view = [p \in Place |-> [pos |-> 1, known |-> IF p \in Thread THEN Event ELSE {}]]
    /\ destroyed = FALSE
    /\ freed = FALSE
    /\ pc = [t \in Thread |-> "idle"]

-----------------------------------------------------------------------------
(* Threads use, copy, watch, lock and hand over handles.                   *)

Use(t, s) ==
    /\ Idle(t) /\ Owned(t, s, "strong")
    /\ view' = Access(view, t, "use")
    /\ UNCHANGED <<build, ref, owner, strong, hist, destroyed, freed, pc>>

\* Mutant: a load that acquires on neither path.
UniqueRelaxed(t, s) ==
    /\ Idle(t) /\ Owned(t, s, "strong") /\ strong = 1
    /\ view' = Access(view, t, "header")
    /\ Goto(t, "change")
    /\ UNCHANGED <<build, ref, owner, strong, hist, destroyed, freed>>

\* unique(), when it returns true: a relaxed load, or a volatile one, which MSVC makes an
\* acquire.  CopyOnWrite of a container then changes the object in place; in a handle that
\* is not the only one it reads the object for a copy and drops it: Use and DecRef.
Unique(t, s) ==
    /\ Idle(t) /\ Owned(t, s, "strong") /\ strong = 1
    /\ LET V == Access(view, t, "header")
       IN  view' = IF build = "msvc" THEN Acquire(V, t, "strong") ELSE V
    /\ Goto(t, "change")
    /\ UNCHANGED <<build, ref, owner, strong, hist, destroyed, freed>>

ChangeInPlace(t) ==
    /\ pc[t] = "change"
    /\ view' = Access(view, t, "use")
    /\ Goto(t, "idle")
    /\ UNCHANGED <<build, ref, owner, strong, hist, destroyed, freed>>

IncRef(t, s, d) ==
    /\ Idle(t) /\ Owned(t, s, "strong") /\ Owned(t, d, "null")
    /\ strong' = strong + 1
    /\ view' = Access(view, t, "header")
    /\ ref' = [ref EXCEPT ![d] = "strong"]
    /\ UNCHANGED <<build, owner, hist, destroyed, freed, pc>>

IncWeakRef(t, s, d) ==
    /\ Idle(t) /\ owner[s] = t /\ ref[s] # "null" /\ Owned(t, d, "null")
    /\ Increments < MaxWeakIncs
    /\ hist' = Append(hist, Weak + 1)
    /\ view' = AfterWeakWrite(t)
    /\ ref' = [ref EXCEPT ![d] = "weak"]
    /\ UNCHANGED <<build, owner, strong, destroyed, freed, pc>>

\* The compare-exchange of TryPromoteWeakPtr acquires and releases.
Lock(t, w, d) ==
    /\ Idle(t) /\ Owned(t, w, "weak") /\ Owned(t, d, "null") /\ strong > 0
    /\ strong' = strong + 1
    /\ view' = Release(Acquire(Access(view, t, "header"), t, "strong"), t, "strong")
    /\ ref' = [ref EXCEPT ![d] = "strong"]
    /\ UNCHANGED <<build, owner, hist, destroyed, freed, pc>>

\* A handle reaches another thread by something that synchronises the two threads.
HandOver(t, u, h) ==
    /\ Idle(t) /\ t # u /\ owner[h] = t
    /\ owner' = [owner EXCEPT ![h] = u]
    /\ view' = Release(view, t, u)
    /\ UNCHANGED <<build, ref, strong, hist, destroyed, freed, pc>>

-----------------------------------------------------------------------------
(* DecRef and DecWeakRef, one memory operation at a time.                  *)

\* Mutant: a decrement of the strong count that does not release.
DecRefRelaxed(t, h) ==
    /\ Idle(t) /\ Owned(t, h, "strong")
    /\ strong' = strong - 1
    /\ view' = Access(view, t, "header")
    /\ ref' = [ref EXCEPT ![h] = "null"]
    /\ Goto(t, IF strong > 1 THEN "idle" ELSE IF build = "gcc" THEN "loadWeak" ELSE "delStrong")
    /\ UNCHANGED <<build, owner, hist, destroyed, freed>>

\* fetch_sub(strong, RELEASE), or _InterlockedDecrement64, which is a full barrier.
DecRef(t, h) ==
    /\ Idle(t) /\ Owned(t, h, "strong")
    /\ strong' = strong - 1
    /\ LET V == IF build = "msvc" THEN Acquire(Access(view, t, "header"), t, "strong")
                ELSE Access(view, t, "header")
       IN  view' = Release(V, t, "strong")
    /\ ref' = [ref EXCEPT ![h] = "null"]
    /\ Goto(t, IF strong > 1 THEN "idle" ELSE IF build = "gcc" THEN "loadWeak" ELSE "delStrong")
    /\ UNCHANGED <<build, owner, hist, destroyed, freed>>

\* load(weak, RELAXED), then the acquire fence for what both reads saw.  A stale
\* value of the weak count brings no view with it.
LoadWeak(t) ==
    /\ pc[t] = "loadWeak"
    /\ \E i \in view[t].pos .. Len(hist) :
         /\ Goto(t, IF hist[i] = 1 THEN "delBoth" ELSE "delStrong")
         /\ LET V == Acquire(view, t, "strong")
            IN  view' = IF i = Len(hist) THEN Acquire(V, t, "weak") ELSE V
    /\ UNCHANGED <<build, ref, owner, strong, hist, destroyed, freed>>

Destruct(t) ==
    /\ pc[t] \in {"delBoth", "delStrong"}
    /\ destroyed' = TRUE
    /\ view' = Access(view, t, "use")
    /\ Goto(t, IF pc[t] = "delBoth" THEN "delMem" ELSE "subWeak")
    /\ UNCHANGED <<build, ref, owner, strong, hist, freed>>

\* Mutant: a decrement of the weak count that does not release.
WeakDecrementRelaxed(t) ==
    /\ hist' = Append(hist, Weak - 1)
    /\ view' = IF Weak = 1 THEN Acquire(AfterWeakWrite(t), t, "weak") ELSE AfterWeakWrite(t)
    /\ Goto(t, IF Weak = 1 THEN "delMem" ELSE "idle")

\* fetch_sub(weak, RELEASE), and an acquire fence when it was the last one.
WeakDecrement(t) ==
    LET V == Release(AfterWeakWrite(t), t, "weak")
    IN  /\ hist' = Append(hist, Weak - 1)
        /\ view' = IF Weak = 1 THEN Acquire(V, t, "weak") ELSE V
        /\ Goto(t, IF Weak = 1 THEN "delMem" ELSE "idle")

SubWeak(t) ==
    /\ pc[t] = "subWeak"
    /\ WeakDecrement(t)
    /\ UNCHANGED <<build, ref, owner, strong, destroyed, freed>>

\* Mutant: the strong count is looked at in the place of the weak count.
DecWeakRefWrongCount(t, h) ==
    /\ Idle(t) /\ Owned(t, h, "weak")
    /\ hist' = Append(hist, Weak - 1)
    /\ view' = Acquire(Release(AfterWeakWrite(t), t, "weak"), t, "weak")
    /\ Goto(t, IF strong = 0 THEN "delMem" ELSE "idle")
    /\ ref' = [ref EXCEPT ![h] = "null"]
    /\ UNCHANGED <<build, owner, strong, destroyed, freed>>

DecWeakRef(t, h) ==
    /\ Idle(t) /\ Owned(t, h, "weak")
    /\ WeakDecrement(t)
    /\ ref' = [ref EXCEPT ![h] = "null"]
    /\ UNCHANGED <<build, owner, strong, destroyed, freed>>

FreeMemory(t) ==
    /\ pc[t] = "delMem"
    /\ freed' = TRUE
    /\ Goto(t, "idle")
    /\ UNCHANGED <<build, ref, owner, strong, hist, view, destroyed>>

-----------------------------------------------------------------------------
Next ==
    \E t \in Thread :
        \/ \E h \in Handle : Use(t, h) \/ Unique(t, h) \/ DecRef(t, h) \/ DecWeakRef(t, h)
        \/ \E s, d \in Handle : IncRef(t, s, d) \/ IncWeakRef(t, s, d) \/ Lock(t, s, d)
        \/ \E u \in Thread, h \in Handle : HandOver(t, u, h)
        \/ ChangeInPlace(t)
        \/ LoadWeak(t) \/ Destruct(t) \/ SubWeak(t) \/ FreeMemory(t)

Spec == Init /\ [][Next]_vars

-----------------------------------------------------------------------------
\* Everything any thread did with the object through a strong handle happens before
\* its destructor, although the increments are relaxed and no decrement acquires.
UsesHappenBeforeDestructor ==
    \A t \in Thread : pc[t] \in {"delBoth", "delStrong"} => {"use"} \X Thread \subseteq view[t].known

\* The destructor, and everyone's last look at the counts, happen before the memory is returned
\* (where the load of the weak count cannot be stale).
AllHappensBeforeFree ==
    build = "msvc" => \A t \in Thread : pc[t] = "delMem" => Event \subseteq view[t].known

\* "deleter action when both strong and weak reference counts become zero"
\* (ffi/include/ffi/c_api.h:169): the block is deleted only when no weak handle is left.
WeakKeepsMemory == freed => Held("weak") = {}

\* The same, for the path that has no load that may be stale.
WeakKeepsMemoryWithoutLoad == build = "msvc" => WeakKeepsMemory

\* "only need relaxed load of counters" (object.h:185): whoever finds its handle to be the only
\* one changes the object after everything that others did with it through handles that are
\* gone.  (A weak handle could be locked after the load on any path.)
ChangesInOrder ==
    Len(hist) = 1 =>
        \A t \in Thread : pc[t] = "change" => {"use"} \X Thread \subseteq view[t].known

\* The same, for the path whose load acquires.
ChangesInOrderAcquired == build = "msvc" => ChangesInOrder
=============================================================================
