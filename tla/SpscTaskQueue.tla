--------------------------- MODULE SpscTaskQueue ----------------------------
(***************************************************************************)
(* SpscTaskQueue of src/runtime/thread_pool.cpp: the single-producer,      *)
(* single-consumer ring through which the thread that owns a pool hands    *)
(* tasks to one worker, and the condition variable on which the worker     *)
(* sleeps.  The owner calls Push and, when it is done, SignalForKill; the  *)
(* worker calls Pop in a loop.                                             *)
(*                                                                         *)
(* One action is one atomic operation of the source, one access to a ring  *)
(* slot, or one critical section.  Tasks are numbered in pushing order.    *)
(* Spinning is the freedom of the worker to take its next step late: it    *)
(* may leave the loop of Pop after any number of turns.                    *)
(***************************************************************************)
EXTENDS Integers, Sequences

CONSTANTS
    kRingSize,  \* slots of the ring, one of which stays empty
    NumTasks    \* bound: how many tasks the owner pushes

ASSUME RingAssumption == kRingSize \in Nat /\ kRingSize >= 2
ASSUME TasksAssumption == NumTasks \in Nat

VARIABLES
    buffer, head, tail,   \* the ring; 0 is a slot never written
    pending,              \* pending_: pushed tasks, -1 when the worker (nearly) sleeps
    exitNow,              \* exit_now_
    mutex,                \* who holds mutex_, or "none"
    owner, worker,        \* program counters; a worker asleep in the condition variable is
                          \* "asleep" until it is notified, "notified" until it runs
    pushed,               \* tasks enqueued by the owner
    taken,                \* the task the worker has copied out of the ring
    popped                \* the last task Pop returned

ring == <<buffer, head, tail>>
sync == <<pending, exitNow, mutex>>
vars == <<buffer, head, tail, pending, exitNow, mutex, owner, worker, pushed, taken, popped>>

Slot == 0 .. kRingSize - 1
After(i) == (i + 1) % kRingSize

Distance(from, to) == (to - from) % kRingSize
Published == Distance(head, tail)

TypeOK ==
    /\ buffer \in [Slot -> 0 .. NumTasks]
    /\ head \in Slot /\ tail \in Slot
    /\ pending \in -1 .. kRingSize - 1
    /\ exitNow \in BOOLEAN
    /\ mutex \in {"none", "owner", "worker"}
    /\ owner \in {"idle", "enqueue", "write", "publish", "count", "lock", "notify", "kill", "killed"}
    /\ worker \in {"claim", "lock", "testPending", "testExit", "asleep", "notified", "checkExit",
                   "checkEmpty", "copy", "release", "run", "done", "failed"}
    /\ pushed \in 0 .. NumTasks /\ taken \in 0 .. NumTasks /\ popped \in 0 .. NumTasks

Init ==
    /\ buffer = [i \in Slot |-> 0]
    /\ head = 0
    /\ tail = 0
    /\ pending = 0
    /\ exitNow = FALSE
    /\ mutex = "none"
    /\ owner = "idle"
    /\ worker = "claim"
    /\ pushed = 0
    /\ taken = 0
    /\ popped = 0

-----------------------------------------------------------------------------
(* Push, and the Enqueue it repeats.                                       *)

\* Push is called: the bound NumTasks is on the calls.
StartPush ==
    /\ owner = "idle"
    /\ pushed < NumTasks
    /\ owner' = "enqueue"
    /\ UNCHANGED <<ring, sync, worker, pushed, taken, popped>>

\* Mutant: Enqueue does not look at head_.
FindAnySlot ==
    /\ owner = "enqueue"
    /\ ~exitNow
    /\ owner' = "write"
    /\ UNCHANGED <<ring, sync, worker, pushed, taken, popped>>

\* Enqueue finds a free slot; when it does not, Push yields and tries again.
FindSlot ==
    /\ owner = "enqueue"
    /\ ~exitNow
    /\ After(tail) # head
    /\ owner' = "write"
    /\ UNCHANGED <<ring, sync, worker, pushed, taken, popped>>

\* Mutant: the task is written one slot further.
WriteNextSlot ==
    /\ owner = "write"
    /\ buffer' = [buffer EXCEPT ![After(tail)] = pushed + 1]
    /\ pushed' = pushed + 1
    /\ owner' = "publish"
    /\ UNCHANGED <<head, tail, sync, worker, taken, popped>>

WriteSlot ==
    /\ owner = "write"
    /\ buffer' = [buffer EXCEPT ![tail] = pushed + 1]
    /\ pushed' = pushed + 1
    /\ owner' = "publish"
    /\ UNCHANGED <<head, tail, sync, worker, taken, popped>>

Publish ==
    /\ owner = "publish"
    /\ tail' = After(tail)
    /\ owner' = "count"
    /\ UNCHANGED <<buffer, head, sync, worker, pushed, taken, popped>>

\* Mutant: the counter is touched only to cancel the worker's announcement.
CountTaskToWake ==
    /\ owner = "count"
    /\ pending' = IF pending = -1 THEN 0 ELSE pending
    /\ owner' = IF pending = -1 THEN "lock" ELSE "idle"
    /\ UNCHANGED <<ring, exitNow, mutex, worker, pushed, taken, popped>>

\* pending_.fetch_add(1) tells whether the worker has announced its sleep.
CountTask ==
    /\ owner = "count"
    /\ pending' = pending + 1
    /\ owner' = IF pending = -1 THEN "lock" ELSE "idle"
    /\ UNCHANGED <<ring, exitNow, mutex, worker, pushed, taken, popped>>

LockToNotify ==
    /\ owner = "lock"
    /\ mutex = "none"
    /\ mutex' = "owner"
    /\ owner' = "notify"
    /\ UNCHANGED <<ring, pending, exitNow, worker, pushed, taken, popped>>

\* Mutant: notify_one is forgotten.
NotifyNobody ==
    /\ owner = "notify"
    /\ mutex' = "none"
    /\ owner' = "idle"
    /\ UNCHANGED <<ring, pending, exitNow, worker, pushed, taken, popped>>

\* notify_one wakes the worker if it is asleep and is lost otherwise.
Notify ==
    /\ owner = "notify"
    /\ worker' = IF worker = "asleep" THEN "notified" ELSE worker
    /\ mutex' = "none"
    /\ owner' = "idle"
    /\ UNCHANGED <<ring, pending, exitNow, pushed, taken, popped>>

-----------------------------------------------------------------------------
(* SignalForKill, called by the owner between two calls of Push.           *)

LockToKill ==
    /\ owner = "idle"
    /\ mutex = "none"
    /\ mutex' = "owner"
    /\ owner' = "kill"
    /\ UNCHANGED <<ring, pending, exitNow, worker, pushed, taken, popped>>

\* Mutant: notify_all is forgotten.
KillSilently ==
    /\ owner = "kill"
    /\ exitNow' = TRUE
    /\ mutex' = "none"
    /\ owner' = "killed"
    /\ UNCHANGED <<ring, pending, worker, pushed, taken, popped>>

Kill ==
    /\ owner = "kill"
    /\ exitNow' = TRUE
    /\ worker' = IF worker = "asleep" THEN "notified" ELSE worker
    /\ mutex' = "none"
    /\ owner' = "killed"
    /\ UNCHANGED <<ring, pending, pushed, taken, popped>>

-----------------------------------------------------------------------------
(* Pop.                                                                    *)

\* Mutant: Pop goes on to the ring whatever fetch_sub returned.
ClaimBlindly ==
    /\ worker = "claim"
    /\ pending' = pending - 1
    /\ worker' = "checkExit"
    /\ UNCHANGED <<ring, exitNow, mutex, owner, pushed, taken, popped>>

\* After spinning: pending_.fetch_sub(1) claims a task or announces the sleep.
Claim ==
    /\ worker = "claim"
    /\ pending' = pending - 1
    /\ worker' = IF pending = 0 THEN "lock" ELSE "checkExit"
    /\ UNCHANGED <<ring, exitNow, mutex, owner, pushed, taken, popped>>

\* Mutant: the predicate is tested without the mutex.
SleepUnlocked ==
    /\ worker = "lock"
    /\ worker' = "testPending"
    /\ UNCHANGED <<ring, sync, owner, pushed, taken, popped>>

LockToSleep ==
    /\ worker = "lock"
    /\ mutex = "none"
    /\ mutex' = "worker"
    /\ worker' = "testPending"
    /\ UNCHANGED <<ring, pending, exitNow, owner, pushed, taken, popped>>

\* The predicate of cv_.wait: pending_ first, then exit_now_; leaving unlocks.
TestPending ==
    /\ worker = "testPending"
    /\ \/ /\ pending >= 0
          /\ mutex' = "none"
          /\ worker' = "checkExit"
       \/ /\ pending < 0
          /\ worker' = "testExit"
          /\ UNCHANGED mutex
    /\ UNCHANGED <<ring, pending, exitNow, owner, pushed, taken, popped>>

\* Neither holds: the worker unlocks and sleeps in one step.
TestExit ==
    /\ worker = "testExit"
    /\ mutex' = "none"
    /\ worker' = IF exitNow THEN "checkExit" ELSE "asleep"
    /\ UNCHANGED <<ring, pending, exitNow, owner, pushed, taken, popped>>

\* A notification, or nothing at all, wakes the worker.
WakeUp ==
    /\ worker \in {"asleep", "notified"}
    /\ mutex = "none"
    /\ mutex' = "worker"
    /\ worker' = "testPending"
    /\ UNCHANGED <<ring, pending, exitNow, owner, pushed, taken, popped>>

CheckExit ==
    /\ worker = "checkExit"
    /\ worker' = IF exitNow THEN "done" ELSE "checkEmpty"
    /\ UNCHANGED <<ring, sync, owner, pushed, taken, popped>>

\* CHECK(tail_ != head): a failure throws out of the worker and ends the process.
CheckEmpty ==
    /\ worker = "checkEmpty"
    /\ worker' = IF tail # head THEN "copy" ELSE "failed"
    /\ UNCHANGED <<ring, sync, owner, pushed, taken, popped>>

CopySlot ==
    /\ worker = "copy"
    /\ taken' = buffer[head]
    /\ worker' = "release"
    /\ UNCHANGED <<ring, sync, owner, pushed, popped>>

ReleaseSlot ==
    /\ worker = "release"
    /\ head' = After(head)
    /\ popped' = taken
    /\ worker' = "run"
    /\ UNCHANGED <<buffer, tail, sync, owner, pushed, taken>>

\* The worker runs the task and calls Pop again.
RunTask ==
    /\ worker = "run"
    /\ worker' = "claim"
    /\ UNCHANGED <<ring, sync, owner, pushed, taken, popped>>

-----------------------------------------------------------------------------
OwnerStep == FindSlot \/ WriteSlot \/ Publish \/ CountTask \/ LockToNotify \/ Notify \/ Kill

WorkerStep ==
    \/ Claim \/ LockToSleep \/ TestPending \/ TestExit
    \/ CheckExit \/ CheckEmpty \/ CopySlot \/ ReleaseSlot \/ RunTask
    \/ (worker = "notified" /\ WakeUp)

Next == StartPush \/ LockToKill \/ OwnerStep \/ WorkerStep \/ WakeUp

\* Both threads run.  A sleeping worker runs again only when it is notified: the
\* spurious wake-ups the library allows are not counted on.  The owner need not
\* push again, nor kill; a thread that waits for the mutex gets it in the end.
Fairness ==
    /\ WF_vars(OwnerStep)
    /\ WF_vars(Claim \/ TestPending \/ TestExit \/ CheckExit \/ CheckEmpty
               \/ CopySlot \/ ReleaseSlot \/ RunTask)
    /\ SF_vars(LockToSleep)
    /\ SF_vars(worker = "notified" /\ WakeUp)
    /\ SF_vars(LockToNotify)

Spec == Init /\ [][Next]_vars /\ Fairness

-----------------------------------------------------------------------------
\* The CHECK in Pop cannot fail: a worker that claimed a task, or was woken, finds
\* it published, though pending_ and tail_ are separate atomics.
PopFindsTask == worker # "failed" /\ (worker \in {"checkEmpty", "copy", "release"} => tail # head)

\* The owner never writes the slot the worker is reading (both are plain accesses).
NoSlotRace == ~(owner = "write" /\ worker = "copy" /\ tail = head)

\* pending_ counts the published tasks nobody has claimed, or is -1 for an idle worker.
Claimed == IF worker \in {"checkExit", "checkEmpty", "copy", "release"} THEN 1 ELSE 0
Announced == IF worker \in {"lock", "testPending", "testExit", "asleep", "notified"} THEN 1 ELSE 0
Uncounted == IF owner = "count" THEN 1 ELSE 0
PendingExact ==
    ~exitNow => pending = Published - Uncounted - Claimed - Announced

\* No lost wake-up: if the worker sleeps though there is a task or an order to exit,
\* the owner is on its way to notify it.
NoLostWakeup ==
    worker = "asleep" /\ (pending >= 0 \/ exitNow) => owner \in {"lock", "notify"}

\* The strengthening of the four invariants above that is inductive.
Leaving == worker = "done" \/ (worker = "checkExit" /\ exitNow)

IInv ==
    /\ TypeOK
    /\ PopFindsTask
    /\ NoLostWakeup
    /\ ~Leaving => /\ pending = Published - Uncounted - Claimed - Announced
                   /\ Announced = 0 => pending >= 0
    /\ owner \in {"write", "publish"} => After(tail) # head
    /\ owner \in {"enqueue", "write"} => pushed < NumTasks
    /\ mutex = "owner" <=> owner \in {"notify", "kill"}
    /\ mutex = "worker" <=> worker \in {"testPending", "testExit"}
    /\ worker = "testExit" /\ pending >= 0 => owner = "lock"
    /\ exitNow <=> owner = "killed"
    /\ worker = "done" => exitNow

\* Every task that is pushed is popped, unless the queue is killed first.
EveryTaskPopped == \A n \in 1 .. NumTasks : (pushed = n) ~> (popped >= n \/ exitNow)

\* A killed worker leaves its loop, asleep or not, so the join of the pool returns.
KilledWorkerStops == exitNow ~> (worker = "done")

-----------------------------------------------------------------------------
\* Tasks between head and tail, oldest first.
InRing == [i \in 1 .. Published |-> buffer[(head + i - 1) % kRingSize]]

Channel == INSTANCE TaskChannel WITH
    Capacity <- kRingSize - 1,
    channel <- InRing,
    sent <- IF owner = "publish" THEN pushed - 1 ELSE pushed,
    received <- popped,
    closed <- exitNow,
    stopped <- worker = "done"

\* The ring is a first-in first-out channel: no task is lost, repeated or reordered.
ChannelSpec == Channel!Spec
=============================================================================
