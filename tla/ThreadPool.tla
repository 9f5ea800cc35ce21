----------------------------- MODULE ThreadPool -----------------------------
(***************************************************************************)
(* The thread pool of src/runtime/thread_pool.cpp with the part of         *)
(* threading_backend.cpp that sizes it: one thread, Main, owns the pool    *)
(* (it is thread local) and launches parallel jobs on it, configures it,   *)
(* resets it, and takes it down when it exits.  Worker i takes the tasks   *)
(* that Main pushes to queue i.  A task passes Phases barriers and ends    *)
(* well or with an error.                                                  *)
(*                                                                         *)
(* A queue is here what SpscTaskQueue is proved to be, a TaskChannel of    *)
(* capacity 1.  CPU affinity has no effect on this state and is left out.  *)
(***************************************************************************)
EXTENDS Integers, Sequences, FiniteSets, FiniteSetsExt

CONSTANTS
    Cores,           \* MaxConcurrency() when SetMaxConcurrency was not called
    BigCount,        \* big_count_: cores of the highest frequency
    LittleCount,     \* little_count_
    Excludes,        \* the values exclude_worker0_ may get from the environment
    Requests,        \* the num_task arguments of TVMBackendParallelLaunch
    Configs,         \* the arguments of threading::Configure
    Phases,          \* how many times a task calls TVMBackendParallelBarrier
    MayFail          \* the task ids whose lambda may return an error

ASSUME CoresAssumption == Cores \in Nat \ {0} /\ BigCount \in Nat \ {0} /\ LittleCount \in Nat
ASSUME ExcludesAssumption == Excludes \subseteq BOOLEAN
ASSUME RequestsAssumption == Requests \subseteq Nat /\ MayFail \subseteq Nat /\ Phases \in Nat
ASSUME ConfigsAssumption ==
    Configs \subseteq [mode : {"big", "little", "specify", "other"}, nthreads : Nat, cpus : Nat]

VARIABLES
    maxConcurrency,  \* threading::max_concurrency, 0 when not set
    pool,            \* numWorkers (0: the pool is not created yet); used, num_workers_used_;
                     \* exclude, exclude_worker0_: task 0 is run by Main
    queue,           \* queues_[w]
    killed,          \* queues_[w] is signalled for kill
    pc, task,        \* for each thread: where it is and the task it runs
    call,            \* the call Main is executing, until its argument is used
    i,               \* the loop variable of that call
    launcher,        \* Main's ParallelLauncher
    syncCounter,     \* sync_counter_, in strides; beyond launcher.pageSize not ours
    job              \* of the last launch: the stage of each task (see ForkJoin), the
                     \* tasks that failed, what it returned, the task ids in its message

config == <<maxConcurrency, pool>>
queues == <<queue, killed>>
control == <<pc, task, call, i>>
vars == <<maxConcurrency, pool, queue, killed, pc, task, call, i, launcher, syncCounter, job>>

Least(a, b) == IF a < b THEN a ELSE b

Largest == Max({Cores, BigCount, LittleCount} \union Requests
               \union {c.nthreads : c \in Configs} \union {c.cpus : c \in Configs})
TaskId == 0 .. Largest
Main == -1
Threads == {Main} \union TaskId
FirstTask == IF pool.exclude THEN 1 ELSE 0
Workers == FirstTask .. pool.numWorkers - 1

\* The stage of a task that has ended.
Through == 2 * Phases + 2

NoCall == [op |-> "none"]

MaxConcurrency == IF maxConcurrency = 0 THEN Cores ELSE maxConcurrency

InBody == {"body", "barrier"}
Signalling == {"finish", "error"}
Recording == {"record", "flag"}

TypeOK ==
    /\ maxConcurrency \in Nat
    /\ pool \in [numWorkers : Nat, used : Nat, exclude : BOOLEAN]
    /\ pool.used <= pool.numWorkers
    /\ queue \in [TaskId -> Seq(TaskId)]
    /\ killed \in [TaskId -> BOOLEAN]
    /\ pc \in [Threads -> {"none", "idle", "configure", "launch", "push", "start", "wait", "collect",
                           "alone", "reset", "exit", "kill", "join", "pop", "stopped", "exited"}
                           \union InBody \union Signalling \union Recording]
    /\ task \in [Threads -> TaskId]
    /\ i \in Nat
    /\ launcher \in [numTask : Nat, numPending : Int, hasError : BOOLEAN,
                     parErrors : SUBSET TaskId, errSize : Nat, pageSize : Nat]
    /\ syncCounter \in [TaskId -> Nat]
    /\ DOMAIN job.stage \subseteq TaskId
    /\ \A t \in DOMAIN job.stage : job.stage[t] \in 0 .. Through

Init ==
    /\ maxConcurrency = 0
    /\ pool = [numWorkers |-> 0, used |-> 0, exclude |-> TRUE]
    /\ queue = [w \in TaskId |-> << >>]
    /\ killed = [w \in TaskId |-> FALSE]
    /\ pc = [th \in Threads |-> IF th = Main THEN "idle" ELSE "none"]
    /\ task = [th \in Threads |-> 0]
    /\ call = NoCall
    /\ i = 0
    /\ launcher = [numTask |-> 0, numPending |-> 0, hasError |-> FALSE,
                   parErrors |-> {}, errSize |-> 0, pageSize |-> 0]
    /\ syncCounter = [t \in TaskId |-> 0]
    /\ job = [stage |-> << >>, failed |-> {}, result |-> "none", reported |-> {}]

-----------------------------------------------------------------------------
(* Creating, configuring, resetting and destroying the pool.               *)

\* ThreadGroup::Configure, and the bound UpdateWorkerConfiguration repeats.
UsedWorkers(numWorkers, c) ==
    LET count == CASE c.mode = "little"  -> LittleCount
                   [] c.mode = "big"     -> BigCount
                   [] c.mode = "specify" -> c.cpus
                   [] c.mode = "other"   -> MaxConcurrency
    IN  Least(numWorkers, IF c.nthreads # 0 THEN c.nthreads ELSE count)

\* ThreadPool::Init, with the workers at the top of their loop.
StartWorkers(numWorkers, exclude, mainGoesTo) ==
    /\ pool' = [numWorkers |-> numWorkers, exclude |-> exclude,
                used |-> UsedWorkers(numWorkers, [mode |-> "big", nthreads |-> 0, cpus |-> 0])]
    /\ queue' = [w \in TaskId |-> << >>]
    /\ killed' = [w \in TaskId |-> FALSE]
    /\ pc' = [th \in Threads |->
                IF th = Main THEN mainGoesTo
                ELSE IF th \in 0 .. numWorkers - 1 /\ (exclude => th # 0) THEN "pop" ELSE "none"]

\* Whatever Main calls first creates the pool: ThreadPool::ThreadLocal.
CreatePool ==
    /\ pc[Main] \in {"configure", "launch", "reset"}
    /\ pool.numWorkers = 0
    /\ \E exclude \in Excludes : StartWorkers(MaxConcurrency, exclude, pc[Main])
    /\ UNCHANGED <<maxConcurrency, task, call, i, launcher, syncCounter, job>>

\* threading::Configure(c): SetMaxConcurrency first.
CallConfigure(c) ==
    /\ pc[Main] = "idle"
    /\ maxConcurrency' = c.cpus
    /\ call' = [op |-> "configure", config |-> c]
    /\ pc' = [pc EXCEPT ![Main] = "configure"]
    /\ UNCHANGED <<pool, queues, task, i, launcher, syncCounter, job>>

UpdateWorkerConfiguration ==
    /\ pc[Main] = "configure"
    /\ pool.numWorkers > 0
    /\ pool' = [pool EXCEPT !.used = UsedWorkers(pool.numWorkers, call.config)]
    /\ call' = NoCall
    /\ pc' = [pc EXCEPT ![Main] = "idle"]
    /\ UNCHANGED <<maxConcurrency, queues, task, i, launcher, syncCounter, job>>

\* Reset of the pool, or the exit of the thread that owns it.
CallReset(how) ==
    /\ pc[Main] = "idle"
    /\ how = "exit" => pool.numWorkers > 0
    /\ call' = [op |-> how]
    /\ pc' = [pc EXCEPT ![Main] = "reset"]
    /\ UNCHANGED <<config, queues, task, i, launcher, syncCounter, job>>

StartKilling ==
    /\ pc[Main] = "reset"
    /\ pool.numWorkers > 0
    /\ i' = 0
    /\ pc' = [pc EXCEPT ![Main] = "kill"]
    /\ UNCHANGED <<config, queues, task, call, launcher, syncCounter, job>>

\* Mutant: the last queue is not signalled.
KillAllButLast ==
    /\ pc[Main] = "kill"
    /\ i' = i + 1
    /\ killed' = [killed EXCEPT ![i] = i # pool.numWorkers - 1]
    /\ pc' = [pc EXCEPT ![Main] = IF i + 1 = pool.numWorkers THEN "join" ELSE "kill"]
    /\ UNCHANGED <<config, queue, task, call, launcher, syncCounter, job>>

\* SignalForKill for every queue, the abandoned one included.
KillQueue ==
    /\ pc[Main] = "kill"
    /\ i' = i + 1
    /\ killed' = [killed EXCEPT ![i] = TRUE]
    /\ pc' = [pc EXCEPT ![Main] = IF i + 1 = pool.numWorkers THEN "join" ELSE "kill"]
    /\ UNCHANGED <<config, queue, task, call, launcher, syncCounter, job>>

\* threads_.reset() joins every worker; Reset then starts anew.
JoinWorkers ==
    /\ pc[Main] = "join"
    /\ \A w \in Workers : pc[w] = "stopped"
    /\ \/ /\ call.op = "reset"
          /\ StartWorkers(pool.numWorkers, pool.exclude, "idle")
       \/ /\ call.op = "exit"
          /\ pc' = [pc EXCEPT ![Main] = "exited"]
          /\ UNCHANGED <<pool, queues>>
    /\ call' = NoCall
    /\ UNCHANGED <<maxConcurrency, task, i, launcher, syncCounter, job>>

-----------------------------------------------------------------------------
(* TVMBackendParallelLaunch, ParallelLauncher::Init and ThreadPool::Launch. *)

CallLaunch(n) ==
    /\ pc[Main] = "idle"
    /\ MaxConcurrency # 1
    /\ call' = [op |-> "launch", numTask |-> n]
    /\ pc' = [pc EXCEPT ![Main] = "launch"]
    /\ UNCHANGED <<config, queues, task, i, launcher, syncCounter, job>>

\* With one core Main calls the lambda at once ...
LaunchAlone(n) ==
    /\ pc[Main] = "idle"
    /\ MaxConcurrency = 1
    /\ job' = [stage |-> [t \in {0} |-> 0], failed |-> {}, result |-> "none", reported |-> {}]
    /\ pc' = [pc EXCEPT ![Main] = "alone"]
    /\ UNCHANGED <<config, queues, task, call, i, launcher, syncCounter>>

\* ... on a counter of its own, which no barrier waits for, and drops what it returns.
RunAlone ==
    /\ pc[Main] = "alone"
    /\ IF job.stage[0] < Through
       THEN /\ \E failed \in IF job.stage[0] = Through - 1 THEN SUBSET ({0} \intersect MayFail) ELSE {{}} :
                  job' = [job EXCEPT !.stage[0] = @ + 1, !.failed = failed]
            /\ UNCHANGED pc
       ELSE /\ job' = [job EXCEPT !.result = "ok"]
            /\ pc' = [pc EXCEPT ![Main] = "idle"]
    /\ UNCHANGED <<config, queues, task, call, i, launcher, syncCounter>>

NumTask == IF call.numTask = 0 THEN pool.used ELSE call.numTask

\* The CHECK_LE of Launch throws before anything is changed.
RejectLaunch ==
    /\ pc[Main] = "launch"
    /\ pool.numWorkers > 0
    /\ NumTask > pool.used
    /\ job' = [job EXCEPT !.result = "thrown", !.failed = {}, !.reported = {}]
    /\ call' = NoCall
    /\ pc' = [pc EXCEPT ![Main] = "idle"]
    /\ UNCHANGED <<config, queues, task, i, launcher, syncCounter>>

\* ParallelLauncher::Init: the counter page is reallocated only when par_errors_ grows.
PreparedLauncher ==
    LET grows == NumTask > launcher.errSize
    IN  [launcher EXCEPT !.numTask = NumTask, !.numPending = NumTask, !.hasError = FALSE,
                         !.errSize = IF grows THEN NumTask + 1 ELSE @,
                         !.pageSize = IF grows THEN NumTask ELSE @]

\* Main runs task 0 even when there is none.
BeginJob == job' = [stage |-> [t \in 0 .. Max({NumTask, FirstTask}) - 1 |-> 0], failed |-> {},
                    result |-> "none", reported |-> {}]

\* Mutant: the barrier counters keep the values of the launch before.
InitLauncherKeepingCounters ==
    /\ pc[Main] = "launch"
    /\ pool.numWorkers > 0
    /\ NumTask <= pool.used
    /\ launcher' = PreparedLauncher
    /\ BeginJob
    /\ i' = FirstTask
    /\ call' = NoCall
    /\ pc' = [pc EXCEPT ![Main] = "push"]
    /\ UNCHANGED <<config, queues, task, syncCounter>>

InitLauncher ==
    /\ pc[Main] = "launch"
    /\ pool.numWorkers > 0
    /\ NumTask <= pool.used
    /\ launcher' = PreparedLauncher
    /\ syncCounter' = [t \in TaskId |-> IF t < NumTask THEN 0 ELSE syncCounter[t]]
    /\ BeginJob
    /\ i' = FirstTask
    /\ call' = NoCall
    /\ pc' = [pc EXCEPT ![Main] = "push"]
    /\ UNCHANGED <<config, queues, task>>

\* Mutant: task i goes to the last queue, whichever i is.
PushTaskToLast ==
    /\ pc[Main] = "push"
    /\ i < launcher.numTask
    /\ queue' = [queue EXCEPT ![pool.used - 1] = Append(@, i)]
    /\ i' = i + 1
    /\ UNCHANGED <<config, killed, pc, task, call, launcher, syncCounter, job>>

\* SpscTaskQueue::Push waits until the queue is empty.
PushTask ==
    /\ pc[Main] = "push"
    /\ i < launcher.numTask
    /\ queue[i] = << >>
    /\ queue' = [queue EXCEPT ![i] = Append(@, i)]
    /\ i' = i + 1
    /\ UNCHANGED <<config, killed, pc, task, call, launcher, syncCounter, job>>

EndPush ==
    /\ pc[Main] = "push"
    /\ i >= launcher.numTask
    /\ pc' = [pc EXCEPT ![Main] = IF pool.exclude THEN "start" ELSE "wait"]
    /\ UNCHANGED <<config, queues, task, call, i, launcher, syncCounter, job>>

\* Mutant: WaitForJobs does not wait.
WaitForNothing ==
    /\ pc[Main] = "wait"
    /\ pc' = [pc EXCEPT ![Main] = "collect"]
    /\ UNCHANGED <<config, queues, task, call, i, launcher, syncCounter, job>>

\* WaitForJobs, first the spinning on num_pending_.
WaitForJobs ==
    /\ pc[Main] = "wait"
    /\ launcher.numPending = 0
    /\ pc' = [pc EXCEPT ![Main] = "collect"]
    /\ UNCHANGED <<config, queues, task, call, i, launcher, syncCounter, job>>

\* Then has_error_ and the messages.
CollectErrors ==
    /\ pc[Main] = "collect"
    /\ IF launcher.hasError
       THEN /\ job' = [job EXCEPT !.result = "error", !.reported = launcher.parErrors]
            /\ launcher' = [launcher EXCEPT !.parErrors = {}]
       ELSE /\ job' = [job EXCEPT !.result = "ok"]
            /\ UNCHANGED launcher
    /\ pc' = [pc EXCEPT ![Main] = "idle"]
    /\ UNCHANGED <<config, queues, task, call, i, syncCounter>>

-----------------------------------------------------------------------------
(* Running a task: the workers (RunWorker), and Main for task 0.           *)

Advance(t) == job' = [job EXCEPT !.stage[t] = @ + 1]

PopTask(w) ==
    /\ pc[w] = "pop"
    /\ queue[w] # << >>
    /\ task' = [task EXCEPT ![w] = Head(queue[w])]
    /\ queue' = [queue EXCEPT ![w] = Tail(@)]
    /\ pc' = [pc EXCEPT ![w] = "body"]
    /\ Advance(Head(queue[w]))
    /\ UNCHANGED <<config, killed, call, i, launcher, syncCounter>>

\* Pop returns false.
StopWorker(w) ==
    /\ pc[w] = "pop"
    /\ killed[w]
    /\ pc' = [pc EXCEPT ![w] = "stopped"]
    /\ UNCHANGED <<config, queues, task, call, i, launcher, syncCounter, job>>

StartTask0 ==
    /\ pc[Main] = "start"
    /\ task' = [task EXCEPT ![Main] = 0]
    /\ pc' = [pc EXCEPT ![Main] = "body"]
    /\ Advance(0)
    /\ UNCHANGED <<config, queues, call, i, launcher, syncCounter>>

\* TVMBackendParallelBarrier: fetch_add on the task's own counter ...
Arrive(th) ==
    /\ pc[th] = "body"
    /\ job.stage[task[th]] < Through - 1
    /\ syncCounter' = [syncCounter EXCEPT ![task[th]] = @ + 1]
    /\ pc' = [pc EXCEPT ![th] = "barrier"]
    /\ Advance(task[th])
    /\ UNCHANGED <<config, queues, task, call, i, launcher>>

\* ... then the spinning until every other task has arrived as often.  A counter
\* only grows during a launch, so one look at all of them is as good as a look at
\* each in turn.  A counter outside the page is not ours: it may read anything.
LeaveBarrier(th) ==
    /\ pc[th] = "barrier"
    /\ \A s \in 0 .. launcher.numTask - 1 :
          \/ syncCounter[s] >= syncCounter[task[th]]
          \/ s >= launcher.pageSize \/ task[th] >= launcher.pageSize
    /\ pc' = [pc EXCEPT ![th] = "body"]
    /\ Advance(task[th])
    /\ UNCHANGED <<config, queues, task, call, i, launcher, syncCounter>>

\* The lambda returns 0, or -1 if it may fail.
ReturnFromTask(th) ==
    /\ pc[th] = "body"
    /\ job.stage[task[th]] = Through - 1
    /\ \/ /\ job' = [job EXCEPT !.stage[task[th]] = @ + 1]
          /\ pc' = [pc EXCEPT ![th] = "finish"]
       \/ /\ task[th] \in MayFail
          /\ job' = [job EXCEPT !.stage[task[th]] = @ + 1,
                                !.failed = @ \union {task[th]}]
          /\ pc' = [pc EXCEPT ![th] = "error"]
    /\ UNCHANGED <<config, queues, task, call, i, launcher, syncCounter>>

AfterTask(th) == IF th = Main THEN "wait" ELSE "pop"

SignalJobFinish(th) ==
    /\ pc[th] = "finish"
    /\ launcher' = [launcher EXCEPT !.numPending = @ - 1]
    /\ pc' = [pc EXCEPT ![th] = AfterTask(th)]
    /\ UNCHANGED <<config, queues, task, call, i, syncCounter, job>>

\* Mutant: a task that fails is not taken off num_pending_.
SignalErrorOnly(th) ==
    /\ pc[th] = "error"
    /\ pc' = [pc EXCEPT ![th] = "record"]
    /\ UNCHANGED <<config, queues, task, call, i, launcher, syncCounter, job>>

\* SignalJobError gives up the task, then records the message, then raises the flag.
SignalJobError(th) ==
    /\ pc[th] = "error"
    /\ launcher' = [launcher EXCEPT !.numPending = @ - 1]
    /\ pc' = [pc EXCEPT ![th] = "record"]
    /\ UNCHANGED <<config, queues, task, call, i, syncCounter, job>>

\* Main passes tsk.task_id, the id it pushed last; when it pushed none this is not
\* initialized: the message lands in any slot, or in none.
RecordedAs(th) ==
    IF th # Main THEN {{task[th]}}
    ELSE IF launcher.numTask > 1 THEN {{launcher.numTask - 1}}
    ELSE {{}} \union {{t} : t \in 0 .. launcher.errSize - 1}

RecordError(th) ==
    /\ pc[th] = "record"
    /\ \E ids \in RecordedAs(th) :
          launcher' = [launcher EXCEPT !.parErrors = @ \union ids]
    /\ pc' = [pc EXCEPT ![th] = "flag"]
    /\ UNCHANGED <<config, queues, task, call, i, syncCounter, job>>

\* Mutant: the flag is raised for the tasks of the workers only.
RaiseFlagOfWorkers(th) ==
    /\ pc[th] = "flag"
    /\ launcher' = [launcher EXCEPT !.hasError = @ \/ th # Main]
    /\ pc' = [pc EXCEPT ![th] = AfterTask(th)]
    /\ UNCHANGED <<config, queues, task, call, i, syncCounter, job>>

RaiseFlag(th) ==
    /\ pc[th] = "flag"
    /\ launcher' = [launcher EXCEPT !.hasError = TRUE]
    /\ pc' = [pc EXCEPT ![th] = AfterTask(th)]
    /\ UNCHANGED <<config, queues, task, call, i, syncCounter, job>>

-----------------------------------------------------------------------------
RunStep(th) ==
    \/ Arrive(th) \/ LeaveBarrier(th) \/ ReturnFromTask(th)
    \/ SignalJobFinish(th) \/ SignalJobError(th) \/ RecordError(th) \/ RaiseFlag(th)

WorkerStep(w) == PopTask(w) \/ StopWorker(w) \/ RunStep(w)

MainStep ==
    \/ CreatePool \/ UpdateWorkerConfiguration \/ StartKilling \/ KillQueue \/ JoinWorkers
    \/ RejectLaunch \/ InitLauncher \/ PushTask \/ EndPush \/ StartTask0 \/ WaitForJobs
    \/ CollectErrors \/ RunAlone \/ RunStep(Main)

CallStep ==
    \/ \E c \in Configs : CallConfigure(c)
    \/ \E n \in Requests : CallLaunch(n) \/ LaunchAlone(n)
    \/ CallReset("reset") \/ CallReset("exit")

Next == CallStep \/ MainStep \/ \E w \in TaskId : WorkerStep(w)

\* Every thread that can take a step takes one in the end: they spin and yield, and
\* what they wait for stays true.  Main need not call again.
Fairness == WF_vars(MainStep) /\ \A w \in TaskId : WF_vars(WorkerStep(w))

Spec == Init /\ [][Next]_vars /\ Fairness

-----------------------------------------------------------------------------
\* A launch on the pool is in progress once the launcher is set up.
Launching == pc[Main] \in {"push", "start", "wait", "collect"}
                          \union InBody \union Signalling \union Recording

\* num_pending_ counts the tasks still to be pushed, popped, run or signalled.
Running == {task[th] : th \in {x \in Threads : pc[x] \in InBody \union Signalling}}
Waiting == {t \in DOMAIN job.stage : job.stage[t] = 0}
PendingCountsTasks ==
    Launching => launcher.numPending = Cardinality(Waiting \union Running)

\* No barrier is left before every task has arrived at it, whatever ran before on the
\* same counters.
BarrierSeparates ==
    \A s, t \in DOMAIN job.stage : 2 * ((job.stage[t] - 1) \div 2) <= job.stage[s]

\* When the pool is taken down nobody is in a task and no queue holds one, so the
\* exit of the workers drops nothing.
NothingDropped ==
    pc[Main] \in {"kill", "join"} =>
        /\ \A w \in TaskId : queue[w] = << >>
        /\ Running = {}

\* An error of the task Main runs itself is always in what Launch returns.
OwnFailureReported ==
    pool.exclude /\ pc[Main] \in {"wait", "collect"} /\ 0 \in job.failed => launcher.hasError

\* TVMBackendParallelLaunch returns -1 when a task has failed.
FailureReported == job.result # "none" /\ job.failed # {} => job.result = "error"

\* The message names tasks that have failed.
ErrorNamesTask == job.reported \subseteq job.failed

\* TVMBackendParallelLaunch returns.
LaunchReturns == pc[Main] \in {"launch", "alone"} ~> pc[Main] = "idle"

\* Reset and the destructor of the pool return.
ResetReturns == pc[Main] = "reset" ~> pc[Main] \in {"idle", "exited"}

Abstract == INSTANCE ForkJoin WITH
    MaxTasks <- Largest,
    busy <- Launching \/ pc[Main] = "alone",
    stage <- job.stage

\* The pool is a fork-join executor with barriers.
ForkJoinSpec == Abstract!Spec
=============================================================================
