--------------------------- MODULE ObjectRefCount ---------------------------
(***************************************************************************)
(* The intrusive strong/weak reference counts of ffi::Object               *)
(* (ffi/include/ffi/object.h) and the deleter that make_object installs    *)
(* (ffi/include/ffi/memory.h), for one object, any number of threads and   *)
(* any number of ObjectPtr / WeakObjectPtr variables ("handles").          *)
(*                                                                         *)
(* One action is one atomic memory operation, or one call of the deleter.  *)
(* Interleaving is sequentially consistent.                                *)
(* A handle belongs to whoever operates on it: the program never operates  *)
(* on one handle from two threads at once, except to read it.              *)
(***************************************************************************)
EXTENDS Naturals, FiniteSets

CONSTANTS Thread, Handle

ASSUME ThreadAssumption == IsFiniteSet(Thread)
ASSUME HandleAssumption == IsFiniteSet(Handle)

VARIABLES
    ref,        \* ref[h]: what the handle h holds, "null", "strong" or "weak"
    strong,     \* header_.strong_ref_count
    weak,       \* header_.weak_ref_count: weak handles, plus one for all strong ones
    destroyed,  \* how many times the destructor has run
    freed,      \* how many times the memory block has been returned
    pc,         \* pc[t]: where t is inside DecRef, DecWeakRef or TryPromoteWeakPtr
    old,        \* old[t]: local variable old_count of TryPromoteWeakPtr
    src,        \* src[t]: the weak handle t is locking
    dst         \* dst[t]: the strong handle lock() is going to fill

header == <<strong, weak>>
locals == <<old, src, dst>>
vars == <<ref, strong, weak, destroyed, freed, pc, old, src, dst>>

StrongRefs == {h \in Handle : ref[h] = "strong"}
WeakRefs == {h \in Handle : ref[h] = "weak"}

\* Handles in the hands of a lock() that is still running.
Locking == {t \in Thread : pc[t] = "cas"}
Read(h) == \E t \in Locking : src[t] = h
Reserved(h) == \E t \in Locking : dst[t] = h
Free(h) == ref[h] = "null" /\ ~Reserved(h)

\* Threads in the part of DecRef that follows the last strong decrement.
Labels == {"idle", "cas", "loadWeak", "delBoth", "delStrong", "subWeak", "delMem"}
Closing(t) == pc[t] \in {"loadWeak", "delBoth", "delStrong", "subWeak"}

TypeOK ==
    /\ ref \in [Handle -> {"null", "strong", "weak"}]
    /\ strong \in Nat
    /\ weak \in Nat
    /\ destroyed \in Nat
    /\ freed \in Nat
    /\ pc \in [Thread -> Labels]
    /\ old \in [Thread -> Nat]
    /\ src \in [Thread -> Handle]
    /\ dst \in [Thread -> Handle]

\* make_object: both counts start at one and the caller gets the only handle.
Init ==
    /\ \E h \in Handle : ref = [g \in Handle |-> IF g = h THEN "strong" ELSE "null"]
    /\ strong = 1
    /\ weak = 1
    /\ destroyed = 0
    /\ freed = 0
    /\ pc = [t \in Thread |-> "idle"]
    /\ old = [t \in Thread |-> 0]
    /\ src \in {f \in [Thread -> Handle] : \A t, u \in Thread : f[t] = f[u]}
    /\ dst = src

-----------------------------------------------------------------------------
(* ObjectPtr and WeakObjectPtr: operations of one atomic step.             *)

\* ObjectPtr(const ObjectPtr&): IncRef on behalf of d while s is held.
CopyStrong(s, d) ==
    /\ ref[s] = "strong" /\ Free(d)
    /\ strong' = strong + 1
    /\ ref' = [ref EXCEPT ![d] = "strong"]
    /\ UNCHANGED <<weak, destroyed, freed, pc, locals>>

\* WeakObjectPtr(const ObjectPtr&), WeakObjectPtr(const WeakObjectPtr&): IncWeakRef.
CopyWeak(s, d) ==
    /\ ref[s] # "null" /\ Free(d)
    /\ weak' = weak + 1
    /\ ref' = [ref EXCEPT ![d] = "weak"]
    /\ UNCHANGED <<strong, destroyed, freed, pc, locals>>

\* The move constructors, and swap with an empty handle: no count changes.
Move(s, d) ==
    /\ ref[s] # "null" /\ ~Read(s) /\ Free(d)
    /\ ref' = [ref EXCEPT ![d] = ref[s], ![s] = "null"]
    /\ UNCHANGED <<header, destroyed, freed, pc, locals>>

-----------------------------------------------------------------------------
(* ObjectPtr::reset and DecRef.                                            *)

Goto(t, label) == pc' = [pc EXCEPT ![t] = label]

DecRef(t, h) ==
    /\ pc[t] = "idle"
    /\ ref[h] = "strong"
    /\ strong' = strong - 1
    /\ ref' = [ref EXCEPT ![h] = "null"]
    /\ Goto(t, IF strong = 1 THEN "loadWeak" ELSE "idle")
    /\ UNCHANGED <<weak, destroyed, freed, locals>>

\* Mutant: the weak count is not looked at before the block is deleted.
LoadWeakIgnored(t) ==
    /\ pc[t] = "loadWeak"
    /\ Goto(t, "delBoth")
    /\ UNCHANGED <<ref, header, destroyed, freed, locals>>

\* Is the last strong reference also the last reference of any kind?
LoadWeak(t) ==
    /\ pc[t] = "loadWeak"
    /\ Goto(t, IF weak = 1 THEN "delBoth" ELSE "delStrong")
    /\ UNCHANGED <<ref, header, destroyed, freed, locals>>

\* Mutant: deleter(kBoth) runs the destructor only.
DestructOnly(t) ==
    /\ pc[t] \in {"delBoth", "delStrong"}
    /\ destroyed' = destroyed + 1
    /\ Goto(t, IF pc[t] = "delBoth" THEN "idle" ELSE "subWeak")
    /\ UNCHANGED <<ref, header, freed, locals>>

\* deleter(kStrong) and the first half of deleter(kBoth): run ~T().
Destruct(t) ==
    /\ pc[t] \in {"delBoth", "delStrong"}
    /\ destroyed' = destroyed + 1
    /\ Goto(t, IF pc[t] = "delBoth" THEN "delMem" ELSE "subWeak")
    /\ UNCHANGED <<ref, header, freed, locals>>

\* The slow path gives up the weak reference that all strong ones share.
SubWeak(t) ==
    /\ pc[t] = "subWeak"
    /\ weak' = weak - 1
    /\ Goto(t, IF weak = 1 THEN "delMem" ELSE "idle")
    /\ UNCHANGED <<ref, strong, destroyed, freed, locals>>

\* deleter(kWeak) and the second half of deleter(kBoth): delete the storage.
FreeMemory(t) ==
    /\ pc[t] = "delMem"
    /\ freed' = freed + 1
    /\ Goto(t, "idle")
    /\ UNCHANGED <<ref, header, destroyed, locals>>

-----------------------------------------------------------------------------
(* WeakObjectPtr::reset and lock.                                          *)

DecWeakRef(t, h) ==
    /\ pc[t] = "idle"
    /\ ref[h] = "weak" /\ ~Read(h)
    /\ weak' = weak - 1
    /\ ref' = [ref EXCEPT ![h] = "null"]
    /\ Goto(t, IF weak = 1 THEN "delMem" ELSE "idle")
    /\ UNCHANGED <<strong, destroyed, freed, locals>>

\* TryPromoteWeakPtr: the first load, and the loop's test on it.
LoadStrong(t, w, d) ==
    /\ pc[t] = "idle"
    /\ ref[w] = "weak" /\ Free(d)
    /\ old' = [old EXCEPT ![t] = strong]
    /\ src' = [src EXCEPT ![t] = w]
    /\ dst' = [dst EXCEPT ![t] = d]
    /\ Goto(t, IF strong > 0 THEN "cas" ELSE "idle")
    /\ UNCHANGED <<ref, header, destroyed, freed>>

\* Mutant: a plain store in the place of the compare-exchange.
PromoteByStore(t) ==
    /\ pc[t] = "cas"
    /\ strong' = old[t] + 1
    /\ ref' = [ref EXCEPT ![dst[t]] = "strong"]
    /\ Goto(t, "idle")
    /\ UNCHANGED <<weak, destroyed, freed, locals>>

\* The compare-exchange succeeds: lock() returns a strong handle.
Promote(t) ==
    /\ pc[t] = "cas"
    /\ strong = old[t]
    /\ strong' = old[t] + 1
    /\ ref' = [ref EXCEPT ![dst[t]] = "strong"]
    /\ Goto(t, "idle")
    /\ UNCHANGED <<weak, destroyed, freed, locals>>

\* Mutant: the loop tries again whatever was reloaded.
RetryPromoteUntested(t) ==
    /\ pc[t] = "cas"
    /\ old' = [old EXCEPT ![t] = strong]
    /\ UNCHANGED <<ref, header, destroyed, freed, pc, src, dst>>

\* It fails, possibly spuriously, and reloads; a zero count ends the loop with nullptr.
RetryPromote(t) ==
    /\ pc[t] = "cas"
    /\ old' = [old EXCEPT ![t] = strong]
    /\ Goto(t, IF strong > 0 THEN "cas" ELSE "idle")
    /\ UNCHANGED <<ref, header, destroyed, freed, src, dst>>

-----------------------------------------------------------------------------
Finish(t) == LoadWeak(t) \/ Destruct(t) \/ SubWeak(t) \/ FreeMemory(t)

ThreadNext(t) ==
    \/ \E h \in Handle : DecRef(t, h) \/ DecWeakRef(t, h)
    \/ \E w, d \in Handle : LoadStrong(t, w, d)
    \/ Promote(t)
    \/ RetryPromote(t)
    \/ Finish(t)

Next ==
    \/ \E s, d \in Handle : CopyStrong(s, d) \/ CopyWeak(s, d) \/ Move(s, d)
    \/ \E t \in Thread : ThreadNext(t)

\* A thread inside DecRef or DecWeakRef keeps running; nobody has to drop a handle.
Fairness == \A t \in Thread : WF_vars(Finish(t))

Spec == Init /\ [][Next]_vars /\ Fairness

-----------------------------------------------------------------------------
(* Safety.                                                                 *)

\* The strong count is the number of strong handles, whatever is in flight
\* (IncRef, DecRef and TryPromoteWeakPtr of object.h).
StrongCountExact == strong = Cardinality(StrongRefs)

\* A strong handle can be dereferenced: the object has not been destroyed.
StrongKeepsAlive == StrongRefs # {} => destroyed = 0

\* Whoever is about to touch the header finds it: no handle and no running DecRef,
\* DecWeakRef or TryPromoteWeakPtr outlives the memory block.
NoTouchAfterFree ==
    freed > 0 => StrongRefs = {} /\ WeakRefs = {} /\ \A t \in Thread : pc[t] = "idle"

\* The deleter runs the destructor at most once, returns the memory at most once,
\* and never returns the memory of an object it has not destroyed.
DeletedOnce == destroyed \in {0, 1} /\ freed \in {0, 1} /\ freed <= destroyed

\* Once the strong count has reached zero no lock() brings the object back:
\* the compare-exchange of TryPromoteWeakPtr loses to a DecRef it raced with.
NoResurrection == [][strong = 0 => strong' = 0]_vars

-----------------------------------------------------------------------------
(* The strengthening that is inductive.                                    *)

SharedWeak == IF strong > 0 \/ (\E t \in Thread : Closing(t)) THEN 1 ELSE 0

\* At most one thread is past the last strong decrement or about to free.
OneCloser ==
    \A t, u \in Thread : pc[t] \notin {"idle", "cas"} /\ pc[u] \notin {"idle", "cas"} => t = u

LockingHolds ==
    /\ \A t \in Thread : pc[t] = "cas" =>
         ref[src[t]] = "weak" /\ ref[dst[t]] = "null" /\ old[t] > 0
    /\ \A t, u \in Thread : pc[t] = "cas" /\ pc[u] = "cas" /\ dst[t] = dst[u] => t = u

\* What each position of DecRef knows about the counts and the deleter.
Deleting ==
    /\ strong > 0 => /\ destroyed = 0
                     /\ \A t \in Thread : pc[t] \in {"idle", "cas"}
    /\ strong = 0 => destroyed = 1 \/ \E t \in Thread : Closing(t)
    /\ \A t \in Thread :
         /\ pc[t] \in {"loadWeak", "delBoth", "delStrong"} => destroyed = 0
         /\ pc[t] = "subWeak" => destroyed = 1
         /\ pc[t] = "delBoth" => WeakRefs = {}
         /\ pc[t] = "delMem" => destroyed = 1 /\ freed = 0 /\ WeakRefs = {}
    /\ destroyed <= 1
    /\ freed <= destroyed
    /\ freed = 1 => WeakRefs = {} /\ \A t \in Thread : pc[t] = "idle"

WeakCountExact ==
    freed = 0 /\ (\A t \in Thread : pc[t] # "delMem") => weak = Cardinality(WeakRefs) + SharedWeak

IInv ==
    /\ TypeOK
    /\ StrongCountExact
    /\ WeakCountExact
    /\ OneCloser
    /\ LockingHolds
    /\ Deleting

-----------------------------------------------------------------------------
(* The counters implement the lifetime they promise.                       *)

Lifetime == INSTANCE ObjectLifetime WITH
    strongRefs <- StrongRefs,
    weakRefs <- WeakRefs,
    stage <- IF freed > 0 THEN "freed" ELSE IF destroyed > 0 THEN "destroyed" ELSE "alive"

\* Its safety part: the initial states and the steps of ObjectLifetime, no others.
LifetimeSafety == Lifetime!Init /\ [][Lifetime!Next]_(Lifetime!vars)

\* The counted object behaves as ObjectLifetime allows and, with it, is
\* destroyed and returned once nothing refers to it.
LifetimeSpec == Lifetime!Spec
=============================================================================
