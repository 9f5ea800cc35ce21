------------------------ MODULE SpscTaskQueueProofs -------------------------
(***************************************************************************)
(* Proofs about SpscTaskQueue, for every ring size and number of tasks:    *)
(* IInv is inductive, so that the CHECK in Pop cannot fail, no slot is     *)
(* raced on, pending_ is exact, and no wake-up is lost; and the queue      *)
(* implements TaskChannel.                                                 *)
(***************************************************************************)
EXTENDS SpscTaskQueue, SequenceTheorems, TLAPS

\* The remainder of a number less than one turn below zero.
LEMMA NegativeRemainder ==
    ASSUME NEW R \in Nat, R > 0, NEW x \in Int, x < 0, x >= -R
    PROVE  x % R = x + R
OBVIOUS

\* The remainder of a number less than one turn away from the divisor.
LEMMA SmallRemainder ==
    ASSUME NEW R \in Nat, R > 0
    PROVE  /\ \A x \in 0 .. R - 1 : x % R = x
           /\ R % R = 0
           /\ \A x \in Int : x < 0 /\ x >= -R => x % R = x + R
<1>1. ASSUME NEW x \in 0 .. R - 1 PROVE x % R = x
    OBVIOUS
<1>2. R % R = 0
    OBVIOUS
<1> QED
    BY <1>1, <1>2, NegativeRemainder

\* The next slot of the ring.
LEMMA AfterSlot ==
    \A i \in Slot : /\ After(i) \in Slot
                    /\ After(i) = IF i = kRingSize - 1 THEN 0 ELSE i + 1
<1>1. /\ \A x \in 0 .. kRingSize - 1 : x % kRingSize = x
      /\ kRingSize % kRingSize = 0
    BY RingAssumption, SmallRemainder
<1> QED
    BY <1>1, RingAssumption DEF Slot, After

\* How many slots lie between two positions, without the remainder.
LEMMA DistanceSlots ==
    \A h, t \in Slot : /\ Distance(h, t) \in 0 .. kRingSize - 1
                       /\ Distance(h, t) = IF t >= h THEN t - h ELSE t - h + kRingSize
<1> SUFFICES ASSUME NEW h \in Slot, NEW t \in Slot
             PROVE  /\ Distance(h, t) \in 0 .. kRingSize - 1
                    /\ Distance(h, t) = IF t >= h THEN t - h ELSE t - h + kRingSize
    OBVIOUS
<1>1. \A x \in 0 .. kRingSize - 1 : x % kRingSize = x
    BY RingAssumption, SmallRemainder
<1>2. \A x \in Int : x < 0 /\ x >= -kRingSize => x % kRingSize = x + kRingSize
    BY RingAssumption, SmallRemainder
<1>3. CASE t >= h
    <2>1. t - h \in 0 .. kRingSize - 1
        BY <1>3, RingAssumption DEF Slot
    <2> QED
        BY <1>1, <1>3, <2>1 DEF Distance
<1>4. CASE t < h
    <2>1. t - h \in Int /\ t - h < 0 /\ t - h >= -kRingSize
        BY <1>4, RingAssumption DEF Slot
    <2>2. Distance(h, t) = t - h + kRingSize
        BY <1>2, <2>1 DEF Distance
    <2> QED
        BY <1>4, <2>1, <2>2, RingAssumption DEF Slot
<1> QED
    BY <1>3, <1>4, RingAssumption DEF Slot

\* Publishing into a ring that is not full adds one, releasing from one that is not
\* empty takes one, and the ring is empty exactly when the positions meet.
LEMMA DistanceSteps ==
    \A h, t \in Slot : /\ After(t) # h => Distance(h, After(t)) = Distance(h, t) + 1
                       /\ h # t => Distance(After(h), t) = Distance(h, t) - 1
                       /\ Distance(h, t) = 0 <=> h = t
<1> SUFFICES ASSUME NEW h \in Slot, NEW t \in Slot
             PROVE  /\ After(t) # h => Distance(h, After(t)) = Distance(h, t) + 1
                    /\ h # t => Distance(After(h), t) = Distance(h, t) - 1
                    /\ Distance(h, t) = 0 <=> h = t
    OBVIOUS
<1>1. /\ h \in Nat /\ h < kRingSize /\ t \in Nat /\ t < kRingSize
      /\ kRingSize \in Nat /\ kRingSize >= 2
    BY RingAssumption DEF Slot
<1>2. Distance(h, t) = IF t >= h THEN t - h ELSE t - h + kRingSize
    BY DistanceSlots
<1>3. After(t) # h => Distance(h, After(t)) = Distance(h, t) + 1
    <2>1. Distance(h, After(t)) = IF After(t) >= h THEN After(t) - h ELSE After(t) - h + kRingSize
        BY AfterSlot, DistanceSlots
    <2>2. After(t) = IF t = kRingSize - 1 THEN 0 ELSE t + 1
        BY AfterSlot
    <2> QED
        BY <1>1, <1>2, <2>1, <2>2
<1>4. h # t => Distance(After(h), t) = Distance(h, t) - 1
    <2>1. Distance(After(h), t) = IF t >= After(h) THEN t - After(h) ELSE t - After(h) + kRingSize
        BY AfterSlot, DistanceSlots
    <2>2. After(h) = IF h = kRingSize - 1 THEN 0 ELSE h + 1
        BY AfterSlot
    <2> QED
        BY <1>1, <1>2, <2>1, <2>2
<1>5. Distance(h, t) = 0 <=> h = t
    BY <1>1, <1>2
<1> QED
    BY <1>3, <1>4, <1>5

\* A new queue satisfies IInv.
LEMMA InitIInv == Init => IInv
<1> SUFFICES ASSUME Init PROVE IInv
    OBVIOUS
<1>1. Published = 0
    BY DistanceSteps, RingAssumption DEF Init, Published, Slot
<1>2. TypeOK
    <2>1. 0 \in Slot /\ 0 \in 0 .. NumTasks /\ 0 \in -1 .. kRingSize - 1
        BY RingAssumption, TasksAssumption DEF Slot
    <2> QED
        BY <2>1 DEF Init, TypeOK
<1>3. PopFindsTask /\ NoLostWakeup
    BY DEF Init, PopFindsTask, NoLostWakeup
<1>4. Uncounted = 0 /\ Claimed = 0 /\ Announced = 0 /\ pending = 0
    BY DEF Init, Uncounted, Claimed, Announced
<1>5. pending = Published - Uncounted - Claimed - Announced
    BY <1>1, <1>4
<1>6. /\ owner = "idle" /\ worker = "claim" /\ mutex = "none" /\ ~exitNow
    BY DEF Init
<1>7. exitNow <=> owner = "killed"
    BY <1>6
<1> QED
    <2>1. owner \in {"write", "publish"} => After(tail) # head
        BY <1>6
    <2>2. owner \in {"enqueue", "write"} => pushed < NumTasks
        BY <1>6
    <2>3. mutex = "owner" <=> owner \in {"notify", "kill"}
        BY <1>6
    <2>4. mutex = "worker" <=> worker \in {"testPending", "testExit"}
        BY <1>6
    <2>5. pending >= 0
        BY <1>4
    <2>6. worker # "testExit" /\ worker # "done"
        BY <1>6
    <2> QED
        BY <1>2, <1>3, <1>5, <1>7, <2>1, <2>2, <2>3, <2>4, <2>5, <2>6, Zenon DEF IInv

\* Calling Push keeps IInv.
LEMMA StartPushStep == IInv /\ StartPush => IInv'
BY AfterSlot, DistanceSteps, DistanceSlots, RingAssumption, TasksAssumption
   DEF IInv, StartPush, TypeOK, PopFindsTask, NoLostWakeup, Leaving, Published, Uncounted, Claimed, Announced, ring, sync

\* Finding a free slot keeps IInv.
LEMMA FindSlotStep == IInv /\ FindSlot => IInv'
BY AfterSlot, DistanceSteps, DistanceSlots, RingAssumption, TasksAssumption
   DEF IInv, FindSlot, TypeOK, PopFindsTask, NoLostWakeup, Leaving, Published, Uncounted, Claimed, Announced, ring, sync

\* Writing the slot keeps IInv.
LEMMA WriteSlotStep == IInv /\ WriteSlot => IInv'
BY AfterSlot, DistanceSteps, DistanceSlots, RingAssumption, TasksAssumption
   DEF IInv, WriteSlot, TypeOK, PopFindsTask, NoLostWakeup, Leaving, Published, Uncounted, Claimed, Announced, ring, sync

\* Publishing a task adds one to the ring and keeps IInv.
LEMMA PublishStep == IInv /\ Publish => IInv'
BY AfterSlot, DistanceSteps, DistanceSlots, RingAssumption, TasksAssumption
   DEF IInv, Publish, TypeOK, PopFindsTask, NoLostWakeup, Leaving, Published, Uncounted, Claimed, Announced, ring, sync

\* The increment of pending_ keeps IInv.
LEMMA CountTaskStep == IInv /\ CountTask => IInv'
BY AfterSlot, DistanceSteps, DistanceSlots, RingAssumption, TasksAssumption
   DEF IInv, CountTask, TypeOK, PopFindsTask, NoLostWakeup, Leaving, Published, Uncounted, Claimed, Announced, ring, sync

\* Taking the mutex to notify keeps IInv.
LEMMA LockToNotifyStep == IInv /\ LockToNotify => IInv'
BY AfterSlot, DistanceSteps, DistanceSlots, RingAssumption, TasksAssumption
   DEF IInv, LockToNotify, TypeOK, PopFindsTask, NoLostWakeup, Leaving, Published, Uncounted, Claimed, Announced, ring, sync

\* Notifying keeps IInv.
LEMMA NotifyStep == IInv /\ Notify => IInv'
BY AfterSlot, DistanceSteps, DistanceSlots, RingAssumption, TasksAssumption
   DEF IInv, Notify, TypeOK, PopFindsTask, NoLostWakeup, Leaving, Published, Uncounted, Claimed, Announced, ring, sync

\* Taking the mutex to kill keeps IInv.
LEMMA LockToKillStep == IInv /\ LockToKill => IInv'
BY AfterSlot, DistanceSteps, DistanceSlots, RingAssumption, TasksAssumption
   DEF IInv, LockToKill, TypeOK, PopFindsTask, NoLostWakeup, Leaving, Published, Uncounted, Claimed, Announced, ring, sync

\* Killing keeps IInv.
LEMMA KillStep == IInv /\ Kill => IInv'
BY AfterSlot, DistanceSteps, DistanceSlots, RingAssumption, TasksAssumption
   DEF IInv, Kill, TypeOK, PopFindsTask, NoLostWakeup, Leaving, Published, Uncounted, Claimed, Announced, ring, sync

\* The decrement of pending_ claims a published task or announces the sleep.
LEMMA ClaimStep == IInv /\ Claim => IInv'
BY AfterSlot, DistanceSteps, DistanceSlots, RingAssumption, TasksAssumption
   DEF IInv, Claim, TypeOK, PopFindsTask, NoLostWakeup, Leaving, Published, Uncounted, Claimed, Announced, ring, sync

\* Taking the mutex to sleep keeps IInv.
LEMMA LockToSleepStep == IInv /\ LockToSleep => IInv'
BY AfterSlot, DistanceSteps, DistanceSlots, RingAssumption, TasksAssumption
   DEF IInv, LockToSleep, TypeOK, PopFindsTask, NoLostWakeup, Leaving, Published, Uncounted, Claimed, Announced, ring, sync

\* The first half of the predicate keeps IInv.
LEMMA TestPendingStep == IInv /\ TestPending => IInv'
BY AfterSlot, DistanceSteps, DistanceSlots, RingAssumption, TasksAssumption
   DEF IInv, TestPending, TypeOK, PopFindsTask, NoLostWakeup, Leaving, Published, Uncounted, Claimed, Announced, ring, sync

\* Going to sleep keeps IInv: pending_ can only have risen if the owner waits for the mutex.
LEMMA TestExitStep == IInv /\ TestExit => IInv'
BY AfterSlot, DistanceSteps, DistanceSlots, RingAssumption, TasksAssumption
   DEF IInv, TestExit, TypeOK, PopFindsTask, NoLostWakeup, Leaving, Published, Uncounted, Claimed, Announced, ring, sync

\* Waking up keeps IInv.
LEMMA WakeUpStep == IInv /\ WakeUp => IInv'
BY AfterSlot, DistanceSteps, DistanceSlots, RingAssumption, TasksAssumption
   DEF IInv, WakeUp, TypeOK, PopFindsTask, NoLostWakeup, Leaving, Published, Uncounted, Claimed, Announced, ring, sync

\* The test of exit_now_ keeps IInv.
LEMMA CheckExitStep == IInv /\ CheckExit => IInv'
BY AfterSlot, DistanceSteps, DistanceSlots, RingAssumption, TasksAssumption
   DEF IInv, CheckExit, TypeOK, PopFindsTask, NoLostWakeup, Leaving, Published, Uncounted, Claimed, Announced, ring, sync

\* The CHECK passes: the claimed task is published.
LEMMA CheckEmptyStep == IInv /\ CheckEmpty => IInv'
BY AfterSlot, DistanceSteps, DistanceSlots, RingAssumption, TasksAssumption
   DEF IInv, CheckEmpty, TypeOK, PopFindsTask, NoLostWakeup, Leaving, Published, Uncounted, Claimed, Announced, ring, sync

\* Copying the task out keeps IInv.
LEMMA CopySlotStep == IInv /\ CopySlot => IInv'
BY AfterSlot, DistanceSteps, DistanceSlots, RingAssumption, TasksAssumption
   DEF IInv, CopySlot, TypeOK, PopFindsTask, NoLostWakeup, Leaving, Published, Uncounted, Claimed, Announced, ring, sync

\* Releasing the slot takes one from the ring and keeps IInv.
LEMMA ReleaseSlotStep == IInv /\ ReleaseSlot => IInv'
BY AfterSlot, DistanceSteps, DistanceSlots, RingAssumption, TasksAssumption
   DEF IInv, ReleaseSlot, TypeOK, PopFindsTask, NoLostWakeup, Leaving, Published, Uncounted, Claimed, Announced, ring, sync

\* Running the task keeps IInv.
LEMMA RunTaskStep == IInv /\ RunTask => IInv'
BY AfterSlot, DistanceSteps, DistanceSlots, RingAssumption, TasksAssumption
   DEF IInv, RunTask, TypeOK, PopFindsTask, NoLostWakeup, Leaving, Published, Uncounted, Claimed, Announced, ring, sync

-----------------------------------------------------------------------------
\* IInv holds in every reachable state, for every ring size and number of tasks.
THEOREM Inductive == Spec => []IInv
<1>1. IInv /\ Next => IInv'
    BY StartPushStep, FindSlotStep, WriteSlotStep, PublishStep, CountTaskStep, LockToNotifyStep,
       NotifyStep, LockToKillStep, KillStep, ClaimStep, LockToSleepStep, TestPendingStep,
       TestExitStep, WakeUpStep, CheckExitStep, CheckEmptyStep, CopySlotStep, ReleaseSlotStep,
       RunTaskStep DEF Next, OwnerStep, WorkerStep
<1>2. IInv /\ UNCHANGED vars => IInv'
    BY DEF vars, IInv, TypeOK, PopFindsTask, NoLostWakeup, Leaving, Published, Uncounted, Claimed,
       Announced
<1> QED
    BY InitIInv, <1>1, <1>2, PTL DEF Spec

\* The types are kept: in particular pending_ stays far inside an int8_t for the ring of the code.
THEOREM TypeCorrect == Spec => []TypeOK
<1>1. IInv => TypeOK
    BY DEF IInv
<1> QED
    BY <1>1, Inductive, PTL

\* The CHECK in Pop cannot fail.
THEOREM CheckCannotFail == Spec => []PopFindsTask
<1>1. IInv => PopFindsTask
    BY DEF IInv
<1> QED
    BY <1>1, Inductive, PTL

\* Owner and worker never access one slot at the same time.
THEOREM SlotsNotRaced == Spec => []NoSlotRace
<1>1. IInv => NoSlotRace
    BY DEF IInv, PopFindsTask, NoSlotRace
<1> QED
    BY <1>1, Inductive, PTL

\* pending_ counts what it should.
THEOREM PendingIsExact == Spec => []PendingExact
<1>1. IInv => PendingExact
    BY DEF IInv, Leaving, PendingExact
<1> QED
    BY <1>1, Inductive, PTL

\* No wake-up is lost.
THEOREM WakeupsNotLost == Spec => []NoLostWakeup
<1>1. IInv => NoLostWakeup
    BY DEF IInv
<1> QED
    BY <1>1, Inductive, PTL

-----------------------------------------------------------------------------
(* The ring is a channel: the tasks between head and tail are a first-in   *)
(* first-out channel, to which Publish sends and from which ReleaseSlot    *)
(* receives.  All other steps leave the channel as it is, but for Kill and *)
(* the last CheckExit, which close it and stop its consumer.               *)

\* What the two threads know of the slot between two accesses: a written slot holds the
\* last task until it is published, and a copied task is in its slot until it is released.
SlotsKnown ==
    /\ owner = "publish" => buffer[tail] = pushed
    /\ worker = "release" => taken = buffer[head]

\* SlotsKnown holds in every reachable state.
THEOREM SlotsAreKnown == Spec => []SlotsKnown
<1>1. Init => SlotsKnown
    BY DEF Init, SlotsKnown
<1>2. ASSUME IInv, SlotsKnown, [Next]_vars PROVE SlotsKnown'
    <2>1. tail \in Slot /\ head \in Slot /\ buffer \in [Slot -> 0 .. NumTasks]
        BY <1>2 DEF IInv, TypeOK
    <2>2. CASE WriteSlot
        <3>1. worker = "release" => head # tail
            BY <1>2 DEF IInv, PopFindsTask
        <3> QED
            BY <1>2, <2>1, <2>2, <3>1 DEF SlotsKnown, WriteSlot
    <2>3. CASE Publish \/ CopySlot \/ ReleaseSlot
        <3>1. CASE Publish
            BY <1>2, <3>1 DEF SlotsKnown, Publish
        <3>2. CASE CopySlot
            BY <1>2, <3>2 DEF SlotsKnown, CopySlot, ring
        <3>3. CASE ReleaseSlot
            BY <1>2, <3>3 DEF SlotsKnown, ReleaseSlot
        <3> QED
            BY <2>3, <3>1, <3>2, <3>3
    <2>4. CASE /\ UNCHANGED <<buffer, head, tail, pushed, taken>>
               /\ owner' = "publish" => owner = "publish"
               /\ worker' = "release" => worker = "release"
        BY <1>2, <2>4 DEF SlotsKnown
    <2>5. CASE StartPush \/ LockToKill \/ FindSlot \/ CountTask \/ LockToNotify \/ Notify \/ Kill
        BY <2>4, <2>5 DEF ring, StartPush, LockToKill, FindSlot, CountTask, LockToNotify, Notify, Kill
    <2>6. CASE \/ Claim \/ LockToSleep \/ TestPending \/ TestExit \/ WakeUp
               \/ CheckExit \/ CheckEmpty \/ RunTask
        BY <2>4, <2>6 DEF ring, Claim, LockToSleep, TestPending, TestExit, WakeUp, CheckExit, CheckEmpty, RunTask
    <2>7. CASE UNCHANGED vars
        BY <2>4, <2>7 DEF vars
    <2> QED
        BY <1>2, <2>2, <2>3, <2>5, <2>6, <2>7 DEF Next, OwnerStep, WorkerStep
<1> QED
    BY <1>1, <1>2, Inductive, PTL DEF Spec

-----------------------------------------------------------------------------
\* The slot of the i-th task behind position h.
Place(h, i) == (h + i - 1) % kRingSize

\* The places of one turn, without the remainder.
LEMMA PlaceIs ==
    ASSUME NEW h \in Slot, NEW i \in 1 .. kRingSize
    PROVE  /\ Place(h, i) \in Slot
           /\ Place(h, i) = IF h + i - 1 < kRingSize THEN h + i - 1 ELSE h + i - 1 - kRingSize
<1> DEFINE x == h + i - 1
<1>1. x \in Nat /\ x < 2 * kRingSize /\ kRingSize \in Nat /\ kRingSize > 0
    BY RingAssumption DEF Slot
<1>2. CASE x < kRingSize
    <2>1. x % kRingSize = x
        BY <1>1, <1>2, SmallRemainder
    <2> QED
        BY <1>1, <1>2, <2>1 DEF Place, Slot
<1>3. CASE x >= kRingSize
    <2>1. x - kRingSize \in 0 .. kRingSize - 1
        BY <1>1, <1>3
    <2>2. x % kRingSize = x - kRingSize
        BY <1>1, <2>1
    <2> QED
        BY <1>1, <1>3, <2>1, <2>2 DEF Place, Slot
<1> QED
    BY <1>1, <1>2, <1>3

\* The tasks in the ring are at the places behind head; the next one goes to tail.
LEMMA Places ==
    ASSUME NEW h \in Slot, NEW t \in Slot
    PROVE  /\ Place(h, Distance(h, t) + 1) = t
           /\ \A i \in 1 .. Distance(h, t) : Place(h, i) \in Slot \ {t}
           /\ Distance(h, t) > 0 => Place(h, 1) = h
           /\ \A i \in 1 .. Distance(h, t) : Place(After(h), i) = Place(h, i + 1)
<1> DEFINE d == Distance(h, t)
<1>1. d \in 0 .. kRingSize - 1 /\ d = IF t >= h THEN t - h ELSE t - h + kRingSize
    BY DistanceSlots
<1>2. /\ h \in Nat /\ h < kRingSize /\ t \in Nat /\ t < kRingSize /\ kRingSize \in Nat /\ kRingSize >= 2
    BY RingAssumption DEF Slot
<1>3. \A i \in 1 .. d + 1 : Place(h, i) = IF h + i - 1 < kRingSize THEN h + i - 1 ELSE h + i - 1 - kRingSize
    BY <1>1, <1>2, PlaceIs
<1>4. After(h) \in Slot /\ After(h) = IF h = kRingSize - 1 THEN 0 ELSE h + 1
    BY AfterSlot
<1>5. \A i \in 1 .. d :
         Place(After(h), i) = IF After(h) + i - 1 < kRingSize THEN After(h) + i - 1 ELSE After(h) + i - 1 - kRingSize
    BY <1>1, <1>2, <1>4, PlaceIs
<1> HIDE DEF d
<1>6. Place(h, d + 1) = t
    BY <1>1, <1>2, <1>3
<1>7. ASSUME NEW i \in 1 .. d PROVE Place(h, i) \in Slot \ {t}
    <2>1. Place(h, i) \in Slot
        BY <1>1, <1>2, PlaceIs
    <2> QED
        BY <1>1, <1>2, <1>3, <2>1
<1>8. d > 0 => Place(h, 1) = h
    BY <1>1, <1>2, <1>3
<1>9. ASSUME NEW i \in 1 .. d PROVE Place(After(h), i) = Place(h, i + 1)
    <2>1. Place(h, i + 1) = IF h + i < kRingSize THEN h + i ELSE h + i - kRingSize
        BY <1>1, <1>2, <1>3
    <2>2. Place(After(h), i) = IF After(h) + i - 1 < kRingSize THEN After(h) + i - 1 ELSE After(h) + i - 1 - kRingSize
        BY <1>5
    <2> QED
        BY <1>1, <1>2, <1>4, <2>1, <2>2
<1> QED
    BY <1>6, <1>7, <1>8, <1>9 DEF d

\* Sequences as functions.
LEMMA AppendIs ==
    ASSUME NEW S, NEW s \in Seq(S), NEW e \in S
    PROVE  Append(s, e) = [i \in 1 .. Len(s) + 1 |-> IF i = Len(s) + 1 THEN e ELSE s[i]]
<1>1. /\ Append(s, e) \in Seq(S) /\ Len(Append(s, e)) = Len(s) + 1
      /\ \A i \in 1 .. Len(s) : Append(s, e)[i] = s[i]
      /\ Append(s, e)[Len(s) + 1] = e
    BY AppendProperties
<1>2. Len(s) \in Nat /\ Append(s, e) = [i \in 1 .. Len(Append(s, e)) |-> Append(s, e)[i]]
    BY <1>1, LenProperties
<1> QED
    BY <1>1, <1>2

LEMMA TailIs ==
    ASSUME NEW S, NEW s \in Seq(S), s # << >>
    PROVE  Tail(s) = [i \in 1 .. Len(s) - 1 |-> s[i + 1]]
<1>1. /\ Tail(s) \in Seq(S) /\ Len(Tail(s)) = Len(s) - 1
      /\ \A i \in 1 .. Len(Tail(s)) : Tail(s)[i] = s[i + 1]
    BY HeadTailProperties
<1>2. /\ Len(s) \in Nat
      /\ Tail(s) = [i \in 1 .. Len(Tail(s)) |-> Tail(s)[i]]
    BY <1>1, LenProperties
<1> QED
    BY <1>1, <1>2

-----------------------------------------------------------------------------
\* Steps that touch neither ring nor counts leave the channel alone.
LEMMA RingKept ==
    ASSUME UNCHANGED ring
    PROVE  InRing' = InRing /\ Published' = Published
BY DEF ring, InRing, Published

\* Writing a slot that is not published leaves the channel as it is.
LEMMA WriteSlotRefines ==
    ASSUME IInv, WriteSlot
    PROVE  UNCHANGED Channel!vars
<1>1. head \in Slot /\ tail \in Slot /\ buffer \in [Slot -> 0 .. NumTasks] /\ pushed \in 0 .. NumTasks
    BY DEF IInv, TypeOK
<1>2. Published' = Published /\ Published \in 0 .. kRingSize - 1
    BY <1>1, DistanceSlots DEF WriteSlot, Published
<1>3. ASSUME NEW i \in 1 .. Published
      PROVE  buffer'[(head' + i - 1) % kRingSize] = buffer[(head + i - 1) % kRingSize]
    <2>1. Place(head, i) \in Slot /\ Place(head, i) # tail
        BY <1>1, <1>2, Places DEF Published
    <2> QED
        BY <1>1, <2>1 DEF WriteSlot, Place
<1>4. InRing' = InRing
    BY <1>2, <1>3 DEF InRing
<1>5. (IF owner = "publish" THEN pushed - 1 ELSE pushed)' = (IF owner = "publish" THEN pushed - 1 ELSE pushed)
    BY <1>1, TasksAssumption DEF WriteSlot
<1>6. UNCHANGED <<popped, exitNow, worker>>
    BY DEF WriteSlot, sync
<1> QED
    BY <1>4, <1>5, <1>6 DEF Channel!vars

\* Publishing a task sends it.
LEMMA PublishRefines ==
    ASSUME IInv, SlotsKnown, Publish
    PROVE  Channel!Send
<1>1. head \in Slot /\ tail \in Slot /\ buffer \in [Slot -> 0 .. NumTasks] /\ pushed \in 0 .. NumTasks
    BY DEF IInv, TypeOK
<1>2. After(tail) # head /\ ~exitNow /\ buffer[tail] = pushed
    BY DEF IInv, SlotsKnown, Publish
<1>3. Published \in 0 .. kRingSize - 1 /\ Published' = Published + 1 /\ Published' \in 0 .. kRingSize - 1
    BY <1>1, <1>2, AfterSlot, DistanceSlots, DistanceSteps DEF Publish, Published
<1>4. InRing \in Seq(0 .. NumTasks) /\ Len(InRing) = Published
    <2>1. \A i \in 1 .. Published : (head + i - 1) % kRingSize \in Slot
        BY <1>1, Places DEF Place, Published
    <2> QED
        BY <1>1, <1>3, <2>1 DEF InRing
<1>5. InRing' = Append(InRing, pushed)
    <2>1. Place(head, Published + 1) = tail
        BY <1>1, Places DEF Published
    <2>2. InRing' = [i \in 1 .. Published + 1 |-> buffer[(head + i - 1) % kRingSize]]
        BY <1>3 DEF Publish, InRing
    <2>3. Append(InRing, pushed) = [i \in 1 .. Published + 1 |-> IF i = Published + 1 THEN pushed ELSE InRing[i]]
        BY <1>1, <1>3, <1>4, TasksAssumption, AppendIs
    <2>4. ASSUME NEW i \in 1 .. Published + 1
          PROVE  buffer[(head + i - 1) % kRingSize] = IF i = Published + 1 THEN pushed ELSE InRing[i]
        BY <1>2, <1>3, <2>1 DEF InRing, Place
    <2> QED
        BY <2>2, <2>3, <2>4
<1>6. Len(InRing) < kRingSize - 1
    BY <1>3, <1>4, RingAssumption
<1>7. owner = "publish" /\ owner' = "count" /\ UNCHANGED <<pushed, popped, exitNow, worker>>
    BY DEF Publish, sync
<1> QED
    BY <1>1, <1>2, <1>5, <1>6, <1>7, TasksAssumption DEF Channel!Send

\* Releasing a slot receives its task.
LEMMA ReleaseSlotRefines ==
    ASSUME IInv, SlotsKnown, ReleaseSlot
    PROVE  Channel!Receive
<1>1. head \in Slot /\ tail \in Slot /\ buffer \in [Slot -> 0 .. NumTasks]
    BY DEF IInv, TypeOK
<1>2. tail # head /\ taken = buffer[head]
    BY DEF IInv, PopFindsTask, SlotsKnown, ReleaseSlot
<1>3. Published \in 1 .. kRingSize - 1 /\ Published' = Published - 1
    BY <1>1, <1>2, DistanceSlots, DistanceSteps DEF ReleaseSlot, Published
<1>4. InRing \in Seq(0 .. NumTasks) /\ Len(InRing) = Published
    <2>1. \A i \in 1 .. Published : (head + i - 1) % kRingSize \in Slot
        BY <1>1, Places DEF Place, Published
    <2> QED
        BY <1>1, <1>3, <2>1 DEF InRing
<1>5. InRing # << >> /\ Head(InRing) = taken
    <2>1. Place(head, 1) = head
        BY <1>1, <1>3, Places DEF Published
    <2>2. InRing[1] = buffer[head]
        BY <1>3, <2>1 DEF InRing, Place
    <2> QED
        BY <1>2, <1>3, <1>4, <2>2
<1>6. InRing' = Tail(InRing)
    <2>1. InRing' = [i \in 1 .. Published - 1 |-> buffer[(After(head) + i - 1) % kRingSize]]
        BY <1>3 DEF ReleaseSlot, InRing
    <2>2. Tail(InRing) = [i \in 1 .. Published - 1 |-> InRing[i + 1]]
        BY <1>4, <1>5, TailIs
    <2>3. ASSUME NEW i \in 1 .. Published - 1
          PROVE  buffer[(After(head) + i - 1) % kRingSize] = InRing[i + 1]
        <3>1. Place(After(head), i) = Place(head, i + 1)
            BY <1>1, <1>3, Places DEF Published
        <3> QED
            BY <1>3, <3>1 DEF InRing, Place
    <2> QED
        BY <2>1, <2>2, <2>3
<1>7. worker = "release" /\ worker' = "run" /\ popped' = taken /\ UNCHANGED <<owner, pushed, exitNow>>
    BY DEF ReleaseSlot, sync
<1> QED
    BY <1>5, <1>6, <1>7 DEF Channel!Receive

\* Killing closes the channel.
LEMMA KillRefines ==
    ASSUME IInv, Kill
    PROVE  Channel!Close
BY RingKept DEF IInv, Kill, Channel!Close, ring

\* A worker that is told to exit stops; other steps of the worker leave the channel alone.
LEMMA WorkerStepsRefine ==
    ASSUME IInv, \/ Claim \/ LockToSleep \/ TestPending \/ TestExit \/ WakeUp
                 \/ CheckExit \/ CheckEmpty \/ CopySlot \/ RunTask
    PROVE  [Channel!Stop]_(Channel!vars)
<1>1. InRing' = InRing /\ UNCHANGED <<owner, pushed, popped, exitNow>>
    BY RingKept DEF Claim, LockToSleep, TestPending, TestExit, WakeUp, CheckExit, CheckEmpty, CopySlot,
       RunTask, ring, sync
<1>2. worker' # worker /\ worker # "done" /\ (worker' = "done" => exitNow)
    BY DEF IInv, Claim, LockToSleep, TestPending, TestExit, WakeUp, CheckExit, CheckEmpty, CopySlot, RunTask
<1> QED
    BY <1>1, <1>2 DEF Channel!Stop, Channel!vars

\* Steps of the owner outside the ring leave the channel alone.
LEMMA OwnerStepsRefine ==
    ASSUME IInv, StartPush \/ LockToKill \/ FindSlot \/ CountTask \/ LockToNotify \/ Notify
    PROVE  UNCHANGED Channel!vars
<1>1. InRing' = InRing /\ UNCHANGED <<pushed, popped, exitNow>>
    BY RingKept DEF StartPush, LockToKill, FindSlot, CountTask, LockToNotify, Notify, ring, sync
<1>2. owner # "publish" /\ owner' # "publish" /\ (worker' = "done" <=> worker = "done")
    BY DEF StartPush, LockToKill, FindSlot, CountTask, LockToNotify, Notify
<1> QED
    BY <1>1, <1>2 DEF Channel!vars

\* The ring is a first-in first-out channel: no task is lost, repeated or reordered, for
\* every ring size and number of tasks.
THEOREM ImplementsChannel == Spec => ChannelSpec
<1>1. Init => Channel!Init
    <2> SUFFICES ASSUME Init PROVE Channel!Init
        OBVIOUS
    <2>1. Published = 0
        BY DistanceSteps, RingAssumption DEF Init, Published, Slot
    <2>2. InRing = << >>
        BY <2>1 DEF InRing
    <2> QED
        BY <2>2 DEF Init, Channel!Init
<1>2. IInv /\ SlotsKnown /\ [Next]_vars => [Channel!Next]_(Channel!vars)
    <2> SUFFICES ASSUME IInv, SlotsKnown, [Next]_vars PROVE [Channel!Next]_(Channel!vars)
        OBVIOUS
    <2>1. CASE WriteSlot
        BY <2>1, WriteSlotRefines
    <2>2. CASE Publish
        BY <2>2, PublishRefines DEF Channel!Next
    <2>3. CASE ReleaseSlot
        BY <2>3, ReleaseSlotRefines DEF Channel!Next
    <2>4. CASE Kill
        BY <2>4, KillRefines DEF Channel!Next
    <2>5. CASE \/ Claim \/ LockToSleep \/ TestPending \/ TestExit \/ WakeUp
               \/ CheckExit \/ CheckEmpty \/ CopySlot \/ RunTask
        BY <2>5, WorkerStepsRefine DEF Channel!Next
    <2>6. CASE StartPush \/ LockToKill \/ FindSlot \/ CountTask \/ LockToNotify \/ Notify
        BY <2>6, OwnerStepsRefine
    <2>7. CASE UNCHANGED vars
        BY <2>7, RingKept DEF vars, ring, Channel!vars
    <2> QED
        BY <2>1, <2>2, <2>3, <2>4, <2>5, <2>6, <2>7 DEF Next, OwnerStep, WorkerStep
<1> QED
    BY <1>1, <1>2, Inductive, SlotsAreKnown, PTL DEF Spec, ChannelSpec, Channel!Spec
=============================================================================
