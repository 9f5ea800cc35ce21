-------------------------- MODULE ThreadPoolProofs --------------------------
(***************************************************************************)
(* Proofs about ThreadPool, for any number of cores, barriers and tasks    *)
(* and any calls: num_pending_ is exact, nothing is dropped when the pool  *)
(* is taken down, and as long as there is a counter for each task the      *)
(* barriers separate the supersteps and the pool is a ForkJoin executor.   *)
(*                                                                         *)
(* A task is run by one thread only, its executor.  The invariant says     *)
(* where the executor is when the task is in a given stage.                *)
(*                                                                         *)
(* The last part is about the ranges that parallel_for gives to the tasks  *)
(* of a launch.                                                            *)
(***************************************************************************)
EXTENDS ThreadPool, ParallelFor, FiniteSetTheorems, WellFoundedInduction, TLAPS

-----------------------------------------------------------------------------
(* What is assumed of the arguments of calls.                              *)

\* They have a largest value, as they are of type int ...
Sized ==
    \E b \in Nat : /\ \A r \in Requests : r <= b
                   /\ \A c \in Configs : c.nthreads <= b /\ c.cpus <= b

\* ... and no configuration leaves the pool without a worker (see UsedWorkers).
LeavesAWorker ==
    \A c \in Configs :
        \/ c.nthreads > 0
        \/ c.mode \in {"big", "other"}
        \/ c.mode = "little" /\ LittleCount > 0
        \/ c.mode = "specify" /\ c.cpus > 0

Setting == Sized /\ LeavesAWorker

-----------------------------------------------------------------------------
(* The inductive invariant.                                                *)

Active == InBody \union Signalling
Tasks == DOMAIN job.stage

\* The thread that runs task t.
Ex(t) == IF t = 0 /\ pool.exclude THEN Main ELSE t

\* The tasks that num_pending_ counts.
Open == {t \in Tasks : job.stage[t] = 0 \/ pc[Ex(t)] \in Active}

Stages == UNION {[0 .. n - 1 -> 0 .. Through] : n \in 0 .. Largest + 1}
Results == {"none", "ok", "error", "thrown"}
JobSet == [stage : Stages, failed : SUBSET Nat, result : Results, reported : SUBSET Nat]
LauncherSet == [numTask : Nat, numPending : Int, hasError : BOOLEAN, parErrors : SUBSET Nat,
                errSize : Nat, pageSize : Nat]

PcSet == {"none", "idle", "configure", "launch", "push", "start", "wait", "collect", "alone", "reset",
          "kill", "join", "pop", "stopped", "exited"}
         \union InBody \union Signalling \union Recording

Typed ==
    /\ maxConcurrency \in 0 .. Largest
    /\ pool \in [numWorkers : 0 .. Largest, used : Nat, exclude : BOOLEAN]
    /\ pool.numWorkers > 0 => pool.used \in 1 .. pool.numWorkers
    /\ queue \in [TaskId -> Seq(TaskId)]
    /\ pc \in [Threads -> PcSet]
    /\ task \in [Threads -> TaskId]
    /\ i \in Nat
    /\ launcher \in LauncherSet
    /\ syncCounter \in [TaskId -> Nat]
    /\ job \in JobSet

\* The arguments of the call in progress, and what was there when it began.
Called ==
    /\ pc[Main] = "launch" => call.numTask \in Requests
    /\ pc[Main] = "configure" => call.config \in Configs
    /\ pc[Main] = "alone" => Tasks = {0}
    /\ pc[Main] \in {"kill", "join"} => pool.numWorkers > 0

\* A queue holds at most the task of its worker, pushed and not yet begun.
Queued ==
    \A w \in TaskId : queue[w] # << >> =>
        /\ Launching
        /\ queue[w] = <<w>> /\ w \in Tasks /\ Ex(w) = w /\ job.stage[w] = 0
        /\ pc[Main] = "push" => w < i

\* Who is in a task is the executor of a task of the launch in progress.
Manned ==
    \A th \in Threads : pc[th] \in Active => Launching /\ task[th] \in Tasks /\ th = Ex(task[th])

\* Where the executor is, and how often the task arrived at a barrier.
Placed(t) ==
    /\ pc[Ex(t)] = "body" <=> job.stage[t] % 2 = 1
    /\ pc[Ex(t)] = "barrier" <=> job.stage[t] % 2 = 0 /\ 0 < job.stage[t] /\ job.stage[t] < Through
    /\ pc[Ex(t)] \in Signalling => job.stage[t] = Through
    /\ syncCounter[t] = IF job.stage[t] = Through THEN Phases ELSE job.stage[t] \div 2

Launched ==
    /\ pool.numWorkers > 0
    /\ launcher.numTask \in 1 .. pool.used
    /\ Tasks = 0 .. launcher.numTask - 1
    /\ \A t \in Tasks : Placed(t)
    /\ pc[Main] = "push" => i >= FirstTask /\ \A t \in Tasks : t >= i => job.stage[t] = 0
    /\ pc[Main] = "start" => pool.exclude
    /\ pc[Main] \in {"push", "start"} /\ pool.exclude => job.stage[0] = 0
    /\ pc[Main] = "collect" => Open = {}
    /\ launcher.numPending = Cardinality(Open)
    /\ pool.exclude /\ 0 \in job.failed => launcher.hasError \/ pc[Main] \in {"error", "record", "flag"}

IInv == Typed /\ Called /\ Queued /\ Manned /\ (Launching => Launched)

-----------------------------------------------------------------------------
(* Arguments and numbers of workers.                                       *)

\* A set of numbers with a bound has a largest element.
LEMMA BoundedMax ==
  ASSUME NEW B \in Nat, NEW S \in SUBSET (0 .. B), S # {}
  PROVE  Max(S) \in S /\ \A x \in S : Max(S) >= x
<1> DEFINE T == {B - x : x \in S}
           R == OpToRel(<, Nat)
<1>1. T \subseteq Nat /\ T # {}
  <2>1. \A x \in S : B - x \in Nat
    OBVIOUS
  <2>2. T \subseteq Nat
    BY <2>1
  <2>3. PICK x \in S : TRUE
    OBVIOUS
  <2>4. B - x \in T
    BY <2>3
  <2> QED
    BY <2>2, <2>4
<1>2. PICK y \in T : \A z \in T : ~ (<<z, y>> \in R)
  BY <1>1, NatLessThanWellFounded, WFMin
<1>3. \A z \in T : ~ (z < y)
  BY <1>1, <1>2 DEF OpToRel
<1>4. PICK m \in S : y = B - m
  BY <1>2
<1>5. \A x \in S : m >= x
  <2> TAKE x \in S
  <2>1. B - x \in T
    OBVIOUS
  <2>2. ~ (B - x < B - m)
    BY <1>3, <1>4, <2>1
  <2> QED
    BY <2>2
<1> QED
  BY <1>4, <1>5 DEF Max

\* The larger one of two numbers.
LEMMA MaxOfTwo ==
  ASSUME NEW a \in Nat, NEW b \in Nat
  PROVE  Max({a, b}) = IF a >= b THEN a ELSE b
<1> DEFINE m == IF a >= b THEN a ELSE b
<1>1. m \in {a, b} /\ \A y \in {a, b} : m >= y
  OBVIOUS
<1>2. \A x \in {a, b} : (\A y \in {a, b} : x >= y) => x = m
  OBVIOUS
<1> HIDE DEF m
<1>3. Max({a, b}) = m
  BY <1>1, <1>2 DEF Max
<1> QED
  BY <1>3 DEF m

\* Largest is what its name says.
LEMMA LargestBounds ==
  ASSUME Setting
  PROVE  /\ Largest \in Nat /\ Largest >= 1 /\ Cores <= Largest
         /\ \A r \in Requests : r \in 0 .. Largest
         /\ \A c \in Configs : c.nthreads \in 0 .. Largest /\ c.cpus \in 0 .. Largest
<1> DEFINE S == {Cores, BigCount, LittleCount} \union Requests
                \union {c.nthreads : c \in Configs} \union {c.cpus : c \in Configs}
<1>1. PICK b \in Nat : /\ \A r \in Requests : r <= b
                       /\ \A c \in Configs : c.nthreads <= b /\ c.cpus <= b
  BY DEF Setting, Sized
<1>2. \A c \in Configs : c.nthreads \in Nat /\ c.cpus \in Nat
  BY ConfigsAssumption
<1>3. /\ Cores \in Nat /\ Cores >= 1 /\ BigCount \in Nat /\ LittleCount \in Nat
      /\ \A r \in Requests : r \in Nat
  BY CoresAssumption, RequestsAssumption
<1> DEFINE B == b + Cores + BigCount + LittleCount
<1>4. B \in Nat /\ S \in SUBSET (0 .. B) /\ S # {}
  <2>1. Cores \in 0 .. B /\ BigCount \in 0 .. B /\ LittleCount \in 0 .. B
    BY <1>3
  <2>2. ASSUME NEW r \in Requests PROVE r \in 0 .. B
    BY <1>1, <1>3
  <2>3. ASSUME NEW c \in Configs PROVE c.nthreads \in 0 .. B /\ c.cpus \in 0 .. B
    BY <1>1, <1>2, <1>3
  <2>4. B \in Nat
    BY <1>3
  <2> HIDE DEF B
  <2> QED
    BY <2>1, <2>2, <2>3, <2>4
<1> HIDE DEF B, S
<1>5. Max(S) \in S /\ (\A x \in S : Max(S) >= x) /\ Max(S) \in Nat
  <2>1. Max(S) \in S /\ \A x \in S : Max(S) >= x
    BY <1>4, BoundedMax
  <2>2. Max(S) \in 0 .. B
    BY <1>4, <2>1
  <2> QED
    BY <2>1, <2>2
<1>6. Largest = Max(S)
  BY DEF Largest, S
<1>7. Cores \in S /\ (\A r \in Requests : r \in S) /\ \A c \in Configs : c.nthreads \in S /\ c.cpus \in S
  BY DEF S
<1>8. ASSUME NEW x \in S, x \in Nat PROVE x <= Largest
  BY <1>5, <1>6
<1> QED
  BY <1>2, <1>3, <1>5, <1>6, <1>7, <1>8

\* No configuration leaves the pool without a worker or gives it more than it has.
LEMMA UsedWorkersBounds ==
  ASSUME Setting, maxConcurrency \in Nat, NEW n \in Nat \ {0},
         NEW c, c \in Configs \/ c = [mode |-> "big", nthreads |-> 0, cpus |-> 0]
  PROVE  UsedWorkers(n, c) \in 1 .. n
<1> DEFINE count == CASE c.mode = "little"  -> LittleCount
                      [] c.mode = "big"     -> BigCount
                      [] c.mode = "specify" -> c.cpus
                      [] c.mode = "other"   -> MaxConcurrency
           m == IF c.nthreads # 0 THEN c.nthreads ELSE count
<1>1. /\ c.mode \in {"big", "little", "specify", "other"} /\ c.nthreads \in Nat /\ c.cpus \in Nat
  BY ConfigsAssumption
<1>2. MaxConcurrency \in Nat /\ MaxConcurrency > 0
  BY CoresAssumption DEF MaxConcurrency
<1>3. \/ c.nthreads > 0
      \/ c.mode \in {"big", "other"}
      \/ c.mode = "little" /\ LittleCount > 0
      \/ c.mode = "specify" /\ c.cpus > 0
  BY DEF Setting, LeavesAWorker
<1>4. count \in Nat /\ (c.nthreads > 0 \/ count > 0)
  <2>1. CASE c.mode = "big"
    BY <2>1, CoresAssumption
  <2>2. CASE c.mode = "little"
    BY <1>3, <2>2, CoresAssumption
  <2>3. CASE c.mode = "specify"
    BY <1>1, <1>3, <2>3
  <2>4. CASE c.mode = "other"
    BY <1>2, <2>4
  <2> QED
    BY <1>1, <2>1, <2>2, <2>3, <2>4
<1> HIDE DEF count
<1>5. m \in Nat /\ m > 0
  BY <1>1, <1>4
<1>6. UsedWorkers(n, c) = IF n < m THEN n ELSE m
  BY DEF UsedWorkers, Least, m, count
<1> HIDE DEF m
<1> QED
  BY <1>5, <1>6

-----------------------------------------------------------------------------
(* Threads and tasks.                                                      *)

\* Two tasks have two executors.
LEMMA Executors ==
  ASSUME Setting, IInv
  PROVE  /\ \A t \in TaskId : Ex(t) \in Threads
         /\ \A s, t \in TaskId : Ex(s) = Ex(t) => s = t
         /\ \A t \in TaskId : Ex(t) # Main => Ex(t) = t
         /\ \A t \in TaskId : Ex(t) = Main <=> t = 0 /\ pool.exclude
<1>1. Largest \in Nat
  BY LargestBounds
<1>2. \A t \in TaskId : t \in Nat /\ t # Main /\ t \in Threads
  BY <1>1 DEF TaskId, Main, Threads
<1> QED
  BY <1>2 DEF Ex, Threads

\* What the invariant says while a launch is in progress.
LEMMA InLaunch ==
  ASSUME Setting, IInv, Launching
  PROVE  /\ Launched /\ Tasks \subseteq TaskId /\ Through \in Nat /\ Through > 1 /\ Phases \in Nat
         /\ 0 \in Tasks
         /\ \A t \in Tasks : job.stage[t] \in 0 .. Through
         /\ pool.used <= Largest
<1>1. Launched /\ Typed
  BY DEF IInv
<1>2. Largest \in Nat
  BY LargestBounds
<1>3. pool.numWorkers \in 0 .. Largest /\ pool.used \in 1 .. pool.numWorkers
  BY <1>1 DEF Launched, Typed
<1>4. launcher.numTask \in 1 .. pool.used /\ Tasks = 0 .. launcher.numTask - 1
  BY <1>1 DEF Launched
<1>5. Tasks \subseteq TaskId /\ 0 \in Tasks /\ pool.used <= Largest
  BY <1>2, <1>3, <1>4 DEF TaskId
<1>6. PICK n \in 0 .. Largest + 1 : job.stage \in [0 .. n - 1 -> 0 .. Through]
  BY <1>1 DEF Typed, JobSet, Stages
<1>7. \A t \in Tasks : job.stage[t] \in 0 .. Through
  BY <1>6 DEF Tasks
<1> QED
  BY <1>1, <1>5, <1>7, RequestsAssumption DEF Through

\* Stages are changed one by one.
LEMMA StagesChange ==
  ASSUME NEW f \in Stages, NEW t \in DOMAIN f, NEW s \in 0 .. Through
  PROVE  [f EXCEPT ![t] = s] \in Stages /\ DOMAIN [f EXCEPT ![t] = s] = DOMAIN f
BY DEF Stages

\* The tasks that are open have a number.
LEMMA OpenFinite ==
  ASSUME Setting, IInv, Launching
  PROVE  IsFiniteSet(Open) /\ Cardinality(Open) \in Nat /\ (Cardinality(Open) = 0 <=> Open = {})
<1>1. Launched
  BY InLaunch
<1>2. IsFiniteSet(Tasks)
  <2>1. Tasks = 0 .. launcher.numTask - 1 /\ launcher.numTask \in Int
    BY <1>1 DEF Launched, IInv, Typed, LauncherSet
  <2> QED
    BY <2>1, FS_Interval
<1>3. Open \in SUBSET Tasks
  BY DEF Open
<1> QED
  BY <1>2, <1>3, FS_Subset, FS_CardinalityType, FS_EmptySet

-----------------------------------------------------------------------------
(* Steps outside of launches.                                              *)

\* When no launch is in progress nobody is in a task and no queue holds one.
LEMMA OutsideFacts ==
  ASSUME IInv, ~Launching
  PROVE  (\A th \in Threads : pc[th] \notin Active) /\ \A w \in TaskId : queue[w] = << >>
BY DEF IInv, Manned, Queued

LEMMA Outside ==
  ASSUME ~Launching', Typed', Called',
         \A w \in TaskId : queue'[w] = << >>,
         \A th \in Threads : pc'[th] \notin Active
  PROVE  IInv'
<1>1. Queued'
  BY DEF Queued
<1>2. Manned'
  BY DEF Manned
<1> QED
  BY <1>1, <1>2 DEF IInv

LEMMA Positions ==
  /\ "pop" \notin Active /\ "none" \notin Active /\ "stopped" \notin Active /\ "idle" \notin Active
  /\ "configure" \notin Active /\ "launch" \notin Active /\ "reset" \notin Active /\ "kill" \notin Active
  /\ "join" \notin Active /\ "exited" \notin Active /\ "alone" \notin Active /\ "push" \notin Active
  /\ "start" \notin Active /\ "wait" \notin Active /\ "collect" \notin Active
  /\ "record" \notin Active /\ "flag" \notin Active
BY DEF Active, InBody, Signalling

\* Main goes from one call, or part of a call, to another and changes nothing a launch needs.
LEMMA MainGoes ==
  ASSUME Setting, IInv, ~Launching, NEW p \in {"idle", "configure", "launch", "reset", "kill", "join", "exited", "alone"},
         pc' = [pc EXCEPT ![Main] = p], queue' = queue, task' = task, i' \in Nat,
         maxConcurrency' \in 0 .. Largest, pool' \in [numWorkers : 0 .. Largest, used : Nat, exclude : BOOLEAN],
         pool'.numWorkers > 0 => pool'.used \in 1 .. pool'.numWorkers,
         launcher' = launcher, syncCounter' = syncCounter, job' \in JobSet, Called'
  PROVE  IInv'
<1>1. pc \in [Threads -> PcSet] /\ Main \in Threads
  BY DEF IInv, Typed, Threads
<1>2. pc'[Main] = p /\ \A th \in Threads : th # Main => pc'[th] = pc[th]
  BY <1>1
<1>3. ~Launching'
  BY <1>2 DEF Launching, InBody, Signalling, Recording
<1>4. \A th \in Threads : pc'[th] \notin Active
  BY <1>2, OutsideFacts, Positions
<1>5. Typed'
  <2>1. p \in PcSet
    BY DEF PcSet
  <2>2. pc' \in [Threads -> PcSet]
    BY <1>1, <2>1
  <2> QED
    BY <2>2 DEF IInv, Typed
<1>6. \A w \in TaskId : queue'[w] = << >>
  BY OutsideFacts
<1> QED
  BY <1>3, <1>4, <1>5, <1>6, Outside

\* The pool is created or started anew.
LEMMA WorkersStart ==
  ASSUME Setting, IInv, ~Launching, NEW n \in 0 .. Largest, n > 0, NEW exclude \in BOOLEAN,
         NEW p \in {"idle", "configure", "launch", "reset"},
         StartWorkers(n, exclude, p), task' = task, i' = i, maxConcurrency' = maxConcurrency,
         launcher' = launcher, syncCounter' = syncCounter, job' = job, Called'
  PROVE  IInv'
<1>1. Largest \in Nat /\ Main \in Threads /\ maxConcurrency \in Nat /\ n \in Nat \ {0}
  BY LargestBounds DEF Threads, IInv, Typed
<1>2. /\ pc' \in [Threads -> PcSet] /\ pc'[Main] = p
      /\ \A th \in Threads : th # Main => pc'[th] \in {"pop", "none"}
  <2>1. p \in PcSet /\ "pop" \in PcSet /\ "none" \in PcSet
    BY DEF PcSet
  <2> QED
    BY <1>1, <2>1 DEF StartWorkers
<1>3. ~Launching'
  BY <1>2 DEF Launching, InBody, Signalling, Recording
<1>4. \A th \in Threads : pc'[th] \notin Active
  BY <1>2, Positions
<1>5. queue' \in [TaskId -> Seq(TaskId)] /\ \A w \in TaskId : queue'[w] = << >>
  BY DEF StartWorkers
<1>6. /\ pool' \in [numWorkers : 0 .. Largest, used : Nat, exclude : BOOLEAN]
      /\ pool'.used \in 1 .. pool'.numWorkers
  <2> DEFINE u == UsedWorkers(n, [mode |-> "big", nthreads |-> 0, cpus |-> 0])
  <2>1. u \in 1 .. n
    BY <1>1, UsedWorkersBounds
  <2>2. pool' = [numWorkers |-> n, exclude |-> exclude, used |-> u]
    BY DEF StartWorkers
  <2> HIDE DEF u
  <2> QED
    BY <1>1, <2>1, <2>2
<1>7. Typed'
  BY <1>2, <1>5, <1>6 DEF IInv, Typed
<1> QED
  BY <1>3, <1>4, <1>5, <1>7, Outside

\* The calls that are no launches, and the launches that never reach the pool.
LEMMA OutsideSteps ==
  ASSUME Setting, IInv,
         \/ CreatePool \/ UpdateWorkerConfiguration \/ StartKilling \/ KillQueue \/ JoinWorkers
         \/ RejectLaunch \/ RunAlone \/ CallStep
  PROVE  IInv' /\ ~Launching /\ ~Launching'
<1>1. /\ Typed /\ Called /\ Main \in Threads /\ pc \in [Threads -> PcSet] /\ Largest \in Nat
      /\ Main \notin TaskId
  BY LargestBounds DEF IInv, Typed, Threads, Main, TaskId
<1>2. CASE CreatePool
  <2>1. PICK exclude \in Excludes : StartWorkers(MaxConcurrency, exclude, pc[Main])
    BY <1>2 DEF CreatePool
  <2>2. exclude \in BOOLEAN /\ MaxConcurrency \in 0 .. Largest /\ MaxConcurrency > 0
    BY <1>1, ExcludesAssumption, CoresAssumption, LargestBounds DEF MaxConcurrency, Typed
  <2>3. /\ pc[Main] \in {"idle", "configure", "launch", "reset"} /\ task' = task /\ i' = i
        /\ maxConcurrency' = maxConcurrency /\ launcher' = launcher /\ syncCounter' = syncCounter
        /\ job' = job /\ call' = call
    BY <1>2 DEF CreatePool
  <2>4. ~Launching
    BY <2>3 DEF Launching, InBody, Signalling, Recording
  <2>5. pc'[Main] = pc[Main]
    BY <1>1, <2>1 DEF StartWorkers
  <2>6. Called'
    BY <1>1, <2>3, <2>5 DEF Called, Tasks
  <2>7. IInv'
    BY <2>1, <2>2, <2>3, <2>4, <2>6, WorkersStart
  <2>8. ~Launching'
    BY <2>4, <2>5 DEF Launching
  <2> QED
    BY <2>4, <2>7, <2>8
<1>3. CASE JoinWorkers
  <2>1. pc[Main] = "join" /\ ~Launching /\ task' = task /\ i' = i
        /\ maxConcurrency' = maxConcurrency /\ launcher' = launcher /\ syncCounter' = syncCounter /\ job' = job
    BY <1>3 DEF JoinWorkers, Launching, InBody, Signalling, Recording
  <2>2. ASSUME StartWorkers(pool.numWorkers, pool.exclude, "idle"), pool.numWorkers > 0
        PROVE  IInv' /\ ~Launching'
    <3>1. pc'[Main] = "idle"
      BY <1>1, <2>2 DEF StartWorkers
    <3>2. Called'
      BY <3>1 DEF Called
    <3>3. pool.numWorkers \in 0 .. Largest /\ pool.exclude \in BOOLEAN
      BY <1>1 DEF Typed
    <3>4. IInv'
      BY <2>1, <2>2, <3>2, <3>3, WorkersStart
    <3> QED
      BY <3>1, <3>4 DEF Launching, InBody, Signalling, Recording
  <2>3. ASSUME pc' = [pc EXCEPT ![Main] = "exited"], pool' = pool, queue' = queue
        PROVE  IInv' /\ ~Launching'
    <3>1. pc'[Main] = "exited"
      BY <1>1, <2>3
    <3>2. Called'
      BY <3>1 DEF Called
    <3>3. IInv'
      BY <1>1, <2>1, <2>3, <3>2, MainGoes DEF Typed
    <3> QED
      BY <3>1, <3>3 DEF Launching, InBody, Signalling, Recording
  <2>4. pool.numWorkers > 0
    BY <1>1, <2>1 DEF Called
  <2> QED
    BY <1>3, <2>1, <2>2, <2>3, <2>4 DEF JoinWorkers, queues
<1>4. ASSUME NEW p \in {"idle", "configure", "launch", "reset", "kill", "join", "exited", "alone"},
             pc[Main] \in {"idle", "configure", "launch", "reset", "kill", "alone"},
             pc' = [pc EXCEPT ![Main] = p], queue' = queue, task' = task, i' \in Nat,
             maxConcurrency' \in 0 .. Largest, pool' \in [numWorkers : 0 .. Largest, used : Nat, exclude : BOOLEAN],
             pool'.numWorkers > 0 => pool'.used \in 1 .. pool'.numWorkers,
             launcher' = launcher, syncCounter' = syncCounter, job' \in JobSet,
             p = "launch" => call'.numTask \in Requests,
             p = "configure" => call'.config \in Configs,
             p = "alone" => DOMAIN job'.stage = {0},
             p \in {"kill", "join"} => pool'.numWorkers > 0
      PROVE  IInv' /\ ~Launching /\ ~Launching'
  <2>1. pc'[Main] = p
    BY <1>1, <1>4
  <2>2. Called'
    BY <1>4, <2>1 DEF Called, Tasks
  <2>3. ~Launching /\ ~Launching'
    BY <1>4, <2>1 DEF Launching, InBody, Signalling, Recording
  <2>4. IInv'
    BY <1>4, <2>2, <2>3, MainGoes
  <2> QED
    BY <2>3, <2>4
<1>5. /\ maxConcurrency \in 0 .. Largest /\ pool \in [numWorkers : 0 .. Largest, used : Nat, exclude : BOOLEAN]
      /\ (pool.numWorkers > 0 => pool.used \in 1 .. pool.numWorkers) /\ i \in Nat /\ job \in JobSet
  BY <1>1 DEF Typed
<1>6. CASE UpdateWorkerConfiguration
  <2> DEFINE u == UsedWorkers(pool.numWorkers, call.config)
  <2>1. call.config \in Configs /\ pool.numWorkers \in Nat \ {0} /\ maxConcurrency \in Nat
    BY <1>1, <1>5, <1>6 DEF UpdateWorkerConfiguration, Called
  <2>2. u \in 1 .. pool.numWorkers
    BY <2>1, UsedWorkersBounds
  <2>3. pool' = [pool EXCEPT !.used = u]
    BY <1>6 DEF UpdateWorkerConfiguration
  <2> HIDE DEF u
  <2>4. /\ pool' \in [numWorkers : 0 .. Largest, used : Nat, exclude : BOOLEAN]
        /\ pool'.used \in 1 .. pool'.numWorkers
    BY <1>5, <2>1, <2>2, <2>3
  <2>5. /\ pc[Main] = "configure" /\ pc' = [pc EXCEPT ![Main] = "idle"]
        /\ queue' = queue /\ task' = task /\ i' = i /\ maxConcurrency' = maxConcurrency
        /\ launcher' = launcher /\ syncCounter' = syncCounter /\ job' = job
    BY <1>6 DEF UpdateWorkerConfiguration, queues
  <2> QED
    BY <1>4, <1>5, <2>4, <2>5
<1>7. CASE StartKilling
  BY <1>4, <1>5, <1>7 DEF StartKilling, queues, config
<1>8. CASE KillQueue
  <2>1. pool.numWorkers > 0 /\ i + 1 \in Nat
    BY <1>1, <1>5, <1>8 DEF KillQueue, Called
  <2> QED
    BY <1>4, <1>5, <1>8, <2>1 DEF KillQueue, config
<1>9. CASE RejectLaunch
  <2>1. job' \in JobSet
    BY <1>5, <1>9 DEF RejectLaunch, JobSet, Results
  <2> QED
    BY <1>4, <1>5, <1>9, <2>1 DEF RejectLaunch, queues, config
<1>10. CASE RunAlone
  <2>1. pc[Main] = "alone" /\ Tasks = {0} /\ job.stage \in Stages
    BY <1>1, <1>10 DEF RunAlone, Called, Typed, JobSet
  <2>2. /\ queue' = queue /\ task' = task /\ i' = i /\ maxConcurrency' = maxConcurrency /\ pool' = pool
        /\ launcher' = launcher /\ syncCounter' = syncCounter
    BY <1>10 DEF RunAlone, queues, config
  <2>3. CASE job.stage[0] < Through
    <3>1. PICK failed \in IF job.stage[0] = Through - 1 THEN SUBSET ({0} \intersect MayFail) ELSE {{}} :
              job' = [job EXCEPT !.stage[0] = @ + 1, !.failed = failed]
      BY <1>10, <2>3 DEF RunAlone
    <3>2. failed \in SUBSET Nat
      OBVIOUS
    <3>3. job.stage[0] \in 0 .. Through /\ Through \in Nat
      BY <2>1, RequestsAssumption DEF Stages, Tasks, Through
    <3>4. job.stage[0] + 1 \in 0 .. Through
      BY <2>3, <3>3
    <3> DEFINE f == [job.stage EXCEPT ![0] = job.stage[0] + 1]
    <3>5. f \in Stages /\ DOMAIN f = {0}
      BY <2>1, <3>4, StagesChange DEF Tasks
    <3>6. job' = [job EXCEPT !.stage = f, !.failed = failed]
      BY <3>1
    <3> HIDE DEF f
    <3>7. job' \in JobSet /\ DOMAIN job'.stage = {0}
      BY <1>5, <3>2, <3>5, <3>6 DEF JobSet
    <3>8. pc' = pc /\ pc = [pc EXCEPT ![Main] = "alone"]
      BY <1>1, <1>10, <2>1, <2>3 DEF RunAlone
    <3> QED
      BY <1>4, <1>5, <2>1, <2>2, <3>7, <3>8
  <2>4. CASE ~ (job.stage[0] < Through)
    <3>1. job' = [job EXCEPT !.result = "ok"] /\ pc' = [pc EXCEPT ![Main] = "idle"]
      BY <1>10, <2>4 DEF RunAlone
    <3>2. job' \in JobSet
      BY <1>5, <3>1 DEF JobSet, Results
    <3> QED
      BY <1>4, <1>5, <2>1, <2>2, <3>1, <3>2
  <2> QED
    BY <2>3, <2>4
<1>11. ASSUME NEW c \in Configs, CallConfigure(c) PROVE IInv' /\ ~Launching /\ ~Launching'
  <2>1. c.cpus \in 0 .. Largest
    BY LargestBounds
  <2>2. call'.config = c
    BY <1>11 DEF CallConfigure
  <2> QED
    BY <1>4, <1>5, <1>11, <2>1, <2>2 DEF CallConfigure, queues
<1>12. ASSUME NEW n \in Requests, CallLaunch(n) PROVE IInv' /\ ~Launching /\ ~Launching'
  <2>1. call'.numTask = n
    BY <1>12 DEF CallLaunch
  <2> QED
    BY <1>4, <1>5, <1>12, <2>1 DEF CallLaunch, queues, config
<1>13. ASSUME NEW n \in Requests, LaunchAlone(n) PROVE IInv' /\ ~Launching /\ ~Launching'
  <2>1. /\ job' = [stage |-> [t \in {0} |-> 0], failed |-> {}, result |-> "none", reported |-> {}]
        /\ queue' = queue /\ task' = task /\ i' = i /\ maxConcurrency' = maxConcurrency /\ pool' = pool
        /\ launcher' = launcher /\ syncCounter' = syncCounter
        /\ pc[Main] = "idle" /\ pc' = [pc EXCEPT ![Main] = "alone"]
    BY <1>13 DEF LaunchAlone, queues, config
  <2>2. [t \in {0} |-> 0] \in [0 .. 1 - 1 -> 0 .. Through]
    BY RequestsAssumption DEF Through
  <2>3. 1 \in 0 .. Largest + 1
    BY <1>1
  <2>4. [t \in {0} |-> 0] \in Stages
    BY <2>2, <2>3 DEF Stages
  <2>5. job' \in JobSet /\ DOMAIN job'.stage = {0}
    BY <2>1, <2>4 DEF JobSet, Results
  <2> QED
    BY <1>4, <1>5, <2>1, <2>5
<1>14. ASSUME NEW how, CallReset(how) PROVE IInv' /\ ~Launching /\ ~Launching'
  BY <1>4, <1>5, <1>14 DEF CallReset, queues, config
<1> QED
  BY <1>2, <1>3, <1>6, <1>7, <1>8, <1>9, <1>10, <1>11, <1>12, <1>13, <1>14 DEF CallStep

-----------------------------------------------------------------------------
(* Steps of a launch.                                                      *)

\* The executor of an open task goes on with it.
LEMMA TaskMoves ==
  ASSUME Setting, IInv, Launching, NEW t \in Tasks, t \in Open, NEW p \in PcSet, NEW s \in 1 .. Through,
         pc[Ex(t)] \in Active \union {"start", "pop"},
         p \in Active \union {"record", IF Ex(t) = Main THEN "wait" ELSE "pop"},
         pc' = [pc EXCEPT ![Ex(t)] = p],
         job' \in JobSet, job'.stage = [job.stage EXCEPT ![t] = s],
         job'.failed = job.failed \/ (p = "error" /\ job'.failed = job.failed \union {t}),
         task' \in [Threads -> TaskId], task'[Ex(t)] = t,
         \A th \in Threads \ {Ex(t)} : task'[th] = task[th],
         queue' \in [TaskId -> Seq(TaskId)], queue'[t] = << >>,
         \A w \in TaskId : queue'[w] \in {queue[w], << >>},
         syncCounter' \in [TaskId -> Nat], \A u \in Tasks \ {t} : syncCounter'[u] = syncCounter[u],
         launcher' \in LauncherSet, launcher'.numTask = launcher.numTask,
         launcher'.hasError = launcher.hasError,
         launcher'.numPending = IF p \in Active THEN launcher.numPending ELSE launcher.numPending - 1,
         pool' = pool, maxConcurrency' = maxConcurrency, i' = i,
         pc[Main] = "push" => t < i,
         pc[Ex(t)] = "error" => p = "record",
         Placed(t)'
  PROVE  IInv' /\ Launching'
<1>1. Typed /\ Called /\ Queued /\ Manned /\ Launched /\ Tasks \subseteq TaskId
  BY InLaunch DEF IInv
<1>2. /\ Ex(t) \in Threads /\ Main \in Threads
      /\ \A u \in Tasks : u # t => Ex(u) # Ex(t) /\ Ex(u) \in Threads
      /\ \A w \in TaskId : Ex(w) # Main => Ex(w) = w
      /\ \A w \in TaskId : Ex(w) = Main <=> w = 0 /\ pool.exclude
  BY <1>1, Executors DEF Threads
<1>3. \A u : Ex(u)' = Ex(u)
  BY DEF Ex
<1>4. pc'[Ex(t)] = p /\ (\A th \in Threads : th # Ex(t) => pc'[th] = pc[th]) /\ pc' \in [Threads -> PcSet]
  BY <1>1, <1>2 DEF Typed
<1>5. Launching'
  <2>1. CASE Ex(t) = Main
    BY <1>4, <2>1 DEF Launching, Active, Recording
  <2>2. CASE Ex(t) # Main
    BY <1>2, <1>4, <2>2 DEF Launching
  <2> QED
    BY <2>1, <2>2
<1>6. /\ Tasks' = Tasks /\ job'.stage[t] = s
      /\ \A u \in Tasks : u # t => job'.stage[u] = job.stage[u]
  BY DEF Tasks
<1>7. \/ Ex(t) = Main /\ pc'[Main] = p
      \/ Ex(t) # Main /\ pc'[Main] = pc[Main]
  BY <1>2, <1>4
<1>8. pc'[Main] \in {"push", "start"} => pc'[Main] = pc[Main] /\ Ex(t) # Main
  BY <1>7, Positions
<1>9. pc'[Main] # "collect"
  BY <1>1, <1>7, Positions DEF Launched
<1>10. Typed'
  BY <1>1, <1>4 DEF Typed
<1>11. Called'
  BY <1>5 DEF Called, Launching, InBody, Signalling, Recording
<1>12. Queued'
  <2> SUFFICES ASSUME NEW w \in TaskId, queue'[w] # << >>
               PROVE  /\ queue'[w] = <<w>> /\ w \in Tasks /\ Ex(w) = w /\ job'.stage[w] = 0
                      /\ pc'[Main] = "push" => w < i
    BY <1>3, <1>5, <1>6 DEF Queued
  <2>1. queue'[w] = queue[w] /\ w # t
    OBVIOUS
  <2>2. /\ queue[w] = <<w>> /\ w \in Tasks /\ Ex(w) = w /\ job.stage[w] = 0
        /\ pc[Main] = "push" => w < i
    BY <1>1, <2>1 DEF Queued
  <2> QED
    BY <1>6, <1>8, <2>1, <2>2
<1>13. Manned'
  <2> SUFFICES ASSUME NEW th \in Threads, pc'[th] \in Active
               PROVE  task'[th] \in Tasks /\ th = Ex(task'[th])
    BY <1>3, <1>5, <1>6 DEF Manned
  <2>1. CASE th = Ex(t)
    BY <2>1
  <2>2. CASE th # Ex(t)
    BY <1>1, <1>4, <2>2 DEF Manned
  <2> QED
    BY <2>1, <2>2
<1>14. \A u \in Tasks : Placed(u)'
  <2> SUFFICES ASSUME NEW u \in Tasks, u # t PROVE Placed(u)'
    OBVIOUS
  <2>1. /\ Placed(u) /\ job'.stage[u] = job.stage[u] /\ pc'[Ex(u)] = pc[Ex(u)] /\ Ex(u)' = Ex(u)
        /\ syncCounter'[u] = syncCounter[u]
    BY <1>1, <1>2, <1>3, <1>4, <1>6 DEF Launched
  <2> QED
    BY <2>1 DEF Placed
<1>15. /\ \A u \in Tasks : u # t => (u \in Open <=> job'.stage[u] = 0 \/ pc'[Ex(u)] \in Active)
       /\ Open' = {u \in Tasks : job'.stage[u] = 0 \/ pc'[Ex(u)] \in Active}
  BY <1>2, <1>3, <1>4, <1>6 DEF Open
<1>16. Open' = IF p \in Active THEN Open ELSE Open \ {t}
  <2>1. t \in Open' <=> p \in Active
    BY <1>4, <1>6, <1>15
  <2> QED
    BY <1>15, <2>1 DEF Open
<1>17. launcher'.numPending = Cardinality(Open')
  <2>1. launcher.numPending = Cardinality(Open) /\ IsFiniteSet(Open)
    BY <1>1, OpenFinite DEF Launched
  <2>2. Cardinality(Open \ {t}) = Cardinality(Open) - 1
    BY <2>1, FS_RemoveElement
  <2> QED
    BY <1>16, <2>1, <2>2
<1>18. pool.exclude /\ 0 \in job'.failed => launcher'.hasError \/ pc'[Main] \in {"error", "record", "flag"}
  <2> SUFFICES ASSUME pool.exclude, 0 \in job'.failed, ~launcher'.hasError
               PROVE  pc'[Main] \in {"error", "record", "flag"}
    OBVIOUS
  <2>1. 0 \in TaskId
    BY <1>1, InLaunch
  <2>2. CASE Ex(t) = Main
    <3>1. CASE 0 \in job.failed
      BY <1>1, <1>7, <2>2, <3>1, Positions DEF Launched
    <3>2. CASE 0 \notin job.failed
      BY <1>7, <2>2, <3>2
    <3> QED
      BY <3>1, <3>2
  <2>3. CASE Ex(t) # Main
    <3>1. t # 0
      BY <1>1, <1>2, <2>3
    <3> QED
      BY <1>1, <1>7, <2>3, <3>1 DEF Launched
  <2> QED
    BY <2>2, <2>3
<1>19. /\ pool.numWorkers > 0 /\ launcher'.numTask \in 1 .. pool.used
       /\ Tasks' = 0 .. launcher'.numTask - 1 /\ FirstTask' = FirstTask
  BY <1>1, <1>6 DEF Launched, FirstTask
<1>20. /\ pc'[Main] = "push" => i >= FirstTask /\ \A u \in Tasks : u >= i => job'.stage[u] = 0
       /\ pc'[Main] = "start" => pool.exclude
       /\ pc'[Main] \in {"push", "start"} /\ pool.exclude => job'.stage[0] = 0
  <2>1. ASSUME pc'[Main] = "push" PROVE i >= FirstTask /\ \A u \in Tasks : u >= i => job'.stage[u] = 0
    <3>1. pc[Main] = "push" /\ t < i /\ i \in Nat /\ t \in Nat
      <4>1. pc[Main] = "push"
        BY <1>8, <2>1
      <4>2. t < i
        BY <4>1
      <4>3. i \in Nat
        BY <1>1 DEF Typed
      <4>4. t \in 0 .. Largest /\ Largest \in Nat
        BY <1>1, LargestBounds DEF TaskId
      <4> QED
        BY <4>1, <4>2, <4>3, <4>4
    <3>2. \A u \in Tasks : u >= i => u # t
      BY <3>1
    <3> QED
      BY <1>1, <1>6, <3>1, <3>2 DEF Launched
  <2>2. ASSUME pc'[Main] \in {"push", "start"}, pool.exclude PROVE job'.stage[0] = 0
    <3>1. t # 0 /\ 0 \in Tasks
      BY <1>1, <1>2, <1>8, <2>2, InLaunch
    <3> QED
      BY <1>1, <1>6, <1>8, <2>2, <3>1 DEF Launched
  <2> QED
    BY <1>1, <1>8, <2>1, <2>2 DEF Launched
<1>21. Launched'
  BY <1>6, <1>9, <1>14, <1>17, <1>18, <1>19, <1>20 DEF Launched
<1> QED
  BY <1>5, <1>10, <1>11, <1>12, <1>13, <1>21 DEF IInv

\* A thread that is in no task goes on, with the launch as it was.
LEMMA Idles ==
  ASSUME Setting, IInv, NEW th \in Threads, NEW p \in PcSet \ (Active \union {"push"}),
         pc[th] \in {"record", "flag", "pop", "push", "wait"},
         th = Main => pc[th] # "pop" /\ p \in {"start", "wait", "collect", "flag"},
         p = "start" => pc[th] = "push" /\ pool.exclude,
         p = "collect" => Open = {},
         pc[th] = "record" => p = "flag",
         pc[th] = "flag" => launcher'.hasError,
         launcher.hasError => launcher'.hasError,
         launcher' \in LauncherSet, launcher'.numTask = launcher.numTask,
         launcher'.numPending = launcher.numPending,
         pc' = [pc EXCEPT ![th] = p],
         UNCHANGED <<config, queues, task, call, i, syncCounter, job>>
  PROVE  IInv' /\ (Launching' <=> Launching)
<1>1. Typed /\ Called /\ Queued /\ Manned /\ (Launching => Launched) /\ Main \in Threads
  BY DEF IInv, Threads
<1>2. pc'[th] = p /\ (\A x \in Threads : x # th => pc'[x] = pc[x]) /\ pc' \in [Threads -> PcSet]
  BY <1>1 DEF Typed
<1>3. /\ queue' = queue /\ task' = task /\ call' = call /\ i' = i /\ syncCounter' = syncCounter /\ job' = job
      /\ pool' = pool /\ maxConcurrency' = maxConcurrency
  BY DEF config, queues
<1>4. Launching' <=> Launching
  BY <1>1, <1>2 DEF Launching, InBody, Signalling, Recording
<1>5. \A x \in Threads : \A q \in Active : pc'[x] = q <=> pc[x] = q
  BY <1>2, Positions
<1>6. Typed'
  BY <1>1, <1>2, <1>3 DEF Typed
<1>7. Called'
  <2>1. Tasks' = Tasks
    BY <1>3 DEF Tasks
  <2> QED
    BY <1>1, <1>2, <1>3, <2>1 DEF Called
<1>8. \A u : Ex(u)' = Ex(u)
  BY <1>3 DEF Ex
<1>9. pc'[Main] = "push" => pc[Main] = "push"
  BY <1>1, <1>2
<1>10. Queued'
  BY <1>1, <1>3, <1>4, <1>8, <1>9 DEF Queued, Tasks
<1>11. Manned'
  BY <1>1, <1>3, <1>4, <1>5, <1>8 DEF Manned, Tasks
<1>12. ASSUME Launching PROVE Launched'
  <2>1. Launched /\ Tasks \subseteq TaskId /\ Tasks' = Tasks
    BY <1>3, <1>12, InLaunch DEF Tasks
  <2>2. \A u \in Tasks : Ex(u) \in Threads
    BY <2>1, Executors
  <2>3. Open' = Open
    BY <1>3, <1>5, <1>8, <2>1, <2>2 DEF Open
  <2>4. ASSUME NEW u \in Tasks PROVE Placed(u)'
    <3>1. Placed(u)
      BY <2>1 DEF Launched
    <3>2. \A q \in Active : pc'[Ex(u)] = q <=> pc[Ex(u)] = q
      BY <1>5, <2>2
    <3> QED
      BY <1>3, <1>8, <3>1, <3>2 DEF Placed, Active, InBody, Signalling
  <2>5. pc'[Main] = "start" => pc[Main] \in {"push", "start"} /\ pool.exclude
    BY <1>1, <1>2, <2>1 DEF Launched
  <2>6. pc'[Main] = "collect" => Open = {}
    BY <1>1, <1>2, <2>1 DEF Launched
  <2>7. pool.exclude /\ 0 \in job.failed => launcher'.hasError \/ pc'[Main] \in {"error", "record", "flag"}
    BY <1>1, <1>2, <2>1 DEF Launched
  <2>8. /\ pc'[Main] \in {"push", "start"} /\ pool.exclude => job.stage[0] = 0
    BY <1>9, <2>1, <2>5 DEF Launched
  <2>9. pc'[Main] = "push" => i >= FirstTask /\ \A t \in Tasks : t >= i => job.stage[t] = 0
    BY <1>9, <2>1 DEF Launched
  <2>10. FirstTask' = FirstTask
    BY <1>3 DEF FirstTask
  <2> QED
    BY <1>3, <2>1, <2>3, <2>4, <2>5, <2>6, <2>7, <2>8, <2>9, <2>10 DEF Launched
<1> QED
  BY <1>4, <1>6, <1>7, <1>10, <1>11, <1>12 DEF IInv

\* The launcher is set up: every task is open and nobody has begun one.
LEMMA InitLauncherKeeps ==
  ASSUME Setting, IInv, InitLauncher
  PROVE  IInv' /\ ~Launching /\ Launching' /\ job'.stage = [t \in 0 .. NumTask - 1 |-> 0]
<1>1. Typed /\ Called /\ Main \in Threads /\ Largest \in Nat /\ pc[Main] = "launch" /\ pool.numWorkers > 0
  BY LargestBounds DEF IInv, Threads, InitLauncher
<1>2. ~Launching
  BY <1>1 DEF Launching, InBody, Signalling, Recording
<1>3. pool.used \in 1 .. pool.numWorkers /\ pool.numWorkers \in 0 .. Largest
  BY <1>1 DEF Typed
<1>4. NumTask \in 1 .. pool.used
  <2>1. call.numTask \in Nat
    BY <1>1, RequestsAssumption DEF Called
  <2> QED
    BY <1>3, <2>1 DEF InitLauncher, NumTask
<1>5. FirstTask \in {0, 1}
  BY DEF FirstTask
<1>6. Max({NumTask, FirstTask}) = NumTask
  <2>1. NumTask \in Nat /\ FirstTask \in Nat /\ NumTask >= FirstTask
    BY <1>3, <1>4, <1>5
  <2> QED
    BY <2>1, MaxOfTwo
<1> DEFINE n == NumTask
<1>7. n \in 1 .. pool.used /\ n \in Nat /\ n <= Largest /\ n >= 1
  <2>1. pool.used \in Nat /\ pool.used <= Largest
    BY <1>1, <1>3
  <2> QED
    BY <1>1, <1>4, <2>1
<1>8. /\ job' = [stage |-> [t \in 0 .. n - 1 |-> 0], failed |-> {}, result |-> "none", reported |-> {}]
      /\ launcher' = PreparedLauncher
      /\ syncCounter' = [t \in TaskId |-> IF t < n THEN 0 ELSE syncCounter[t]]
      /\ i' = FirstTask /\ pc' = [pc EXCEPT ![Main] = "push"]
      /\ queue' = queue /\ task' = task /\ pool' = pool /\ maxConcurrency' = maxConcurrency
  BY <1>6 DEF InitLauncher, BeginJob, queues, config
<1>9. launcher' \in LauncherSet /\ launcher'.numTask = n /\ launcher'.numPending = n
  <2>1. launcher \in LauncherSet
    BY <1>1 DEF Typed
  <2> DEFINE e == IF n > launcher.errSize THEN n + 1 ELSE launcher.errSize
             g == IF n > launcher.errSize THEN n ELSE launcher.pageSize
  <2>2. launcher' = [launcher EXCEPT !.numTask = n, !.numPending = n, !.hasError = FALSE,
                                     !.errSize = e, !.pageSize = g]
    BY <1>8 DEF PreparedLauncher
  <2> HIDE DEF n
  <2>3. e \in Nat /\ g \in Nat
    BY <1>7, <2>1 DEF LauncherSet
  <2> HIDE DEF e, g
  <2>4. n \in Nat /\ n \in Int
    BY <1>7
  <2>5. launcher' \in LauncherSet
    BY <2>1, <2>2, <2>3, <2>4 DEF LauncherSet
  <2>6. launcher'.numTask = n /\ launcher'.numPending = n
    BY <2>1, <2>2 DEF LauncherSet
  <2> QED
    BY <2>5, <2>6
<1> HIDE DEF n
<1>10. /\ pc' \in [Threads -> PcSet] /\ pc'[Main] = "push"
       /\ \A th \in Threads : pc'[th] \notin Active
  <2>1. "push" \in PcSet
    BY DEF PcSet
  <2>2. pc' \in [Threads -> PcSet] /\ pc'[Main] = "push" /\ \A th \in Threads : th # Main => pc'[th] = pc[th]
    BY <1>1, <1>8, <2>1 DEF Typed
  <2> QED
    BY <1>2, <2>2, OutsideFacts, Positions
<1>11. Launching'
  BY <1>10 DEF Launching
<1>12. Tasks' = 0 .. n - 1 /\ \A t \in 0 .. n - 1 : job'.stage[t] = 0
  BY <1>8 DEF Tasks
<1>13. job' \in JobSet
  <2>1. [t \in 0 .. n - 1 |-> 0] \in [0 .. n - 1 -> 0 .. Through]
    BY RequestsAssumption DEF Through
  <2>2. n \in 0 .. Largest + 1
    BY <1>1, <1>7
  <2>3. [t \in 0 .. n - 1 |-> 0] \in Stages
    BY <2>1, <2>2 DEF Stages
  <2> QED
    BY <1>8, <2>3 DEF JobSet, Results
<1>14. syncCounter' \in [TaskId -> Nat]
  BY <1>1, <1>8 DEF Typed
<1>15. Typed'
  BY <1>1, <1>5, <1>8, <1>9, <1>10, <1>13, <1>14 DEF Typed
<1>16. Called' /\ Queued' /\ Manned'
  <2>1. \A w \in TaskId : queue'[w] = << >>
    BY <1>2, <1>8, OutsideFacts
  <2> QED
    BY <1>10, <2>1 DEF Called, Queued, Manned
<1>17. Launched'
  <2>1. ASSUME NEW t \in 0 .. n - 1 PROVE Placed(t)'
    <3>1. t \in TaskId /\ t < n
      BY <1>1, <1>7 DEF TaskId
    <3>2. syncCounter'[t] = 0 /\ job'.stage[t] = 0
      BY <1>8, <1>12, <3>1
    <3>3. pc'[Ex(t)'] \notin Active
      <4>1. Ex(t)' \in Threads
        BY <1>1, <1>8, <3>1 DEF Ex, Threads
      <4> QED
        BY <1>10, <4>1
    <3>4. Through \in Nat /\ Through > 0
      BY RequestsAssumption DEF Through
    <3> QED
      BY <3>2, <3>3, <3>4 DEF Placed, Active, InBody, Signalling
  <2>2. Open' = 0 .. n - 1
    BY <1>12 DEF Open
  <2>3. Cardinality(0 .. n - 1) = n
    BY <1>7, FS_Interval
  <2>4. FirstTask' = FirstTask /\ FirstTask \in Int
    BY <1>5, <1>8 DEF FirstTask
  <2>5. job'.failed = {} /\ pool' = pool /\ i' = FirstTask
    BY <1>8
  <2>6. n >= 1 /\ 0 \in 0 .. n - 1 /\ job'.stage[0] = 0
    BY <1>7, <1>12
  <2> QED
    BY <1>1, <1>7, <1>9, <1>10, <1>12, <2>1, <2>2, <2>3, <2>4, <2>5, <2>6 DEF Launched
<1> QED
  BY <1>2, <1>8, <1>11, <1>15, <1>16, <1>17 DEF IInv, n

\* Main pushes a task to the queue of its worker, or has pushed the last one.
LEMMA PushKeeps ==
  ASSUME Setting, IInv, PushTask
  PROVE  IInv' /\ Launching /\ Launching' /\ job' = job
<1>1. pc[Main] = "push" /\ Launching /\ Main \in Threads
  BY DEF PushTask, Launching, Threads
<1>2. /\ Typed /\ Called /\ Queued /\ Manned /\ Launched /\ Tasks \subseteq TaskId
      /\ pool.used <= Largest /\ Largest \in Nat
  BY <1>1, InLaunch, LargestBounds DEF IInv
<1>3. /\ i < launcher.numTask /\ queue[i] = << >> /\ i' = i + 1
      /\ queue' = [queue EXCEPT ![i] = Append(@, i)]
      /\ pc' = pc /\ task' = task /\ call' = call /\ pool' = pool /\ maxConcurrency' = maxConcurrency
      /\ launcher' = launcher /\ syncCounter' = syncCounter /\ job' = job
  BY DEF PushTask, config
<1>4. Launching' /\ Tasks' = Tasks /\ (\A u : Ex(u)' = Ex(u)) /\ FirstTask' = FirstTask /\ Open' = Open
  BY <1>1, <1>3 DEF Launching, Tasks, Ex, FirstTask, Open
<1>5. i \in Nat /\ i >= FirstTask /\ \A t \in Tasks : t >= i => job.stage[t] = 0
  BY <1>1, <1>2 DEF Launched, Typed
<1>6. i \in Tasks /\ i \in TaskId /\ job.stage[i] = 0
  <2>1. Tasks = 0 .. launcher.numTask - 1 /\ launcher.numTask \in Nat
    BY <1>2 DEF Launched, Typed, LauncherSet
  <2>2. i \in Tasks
    BY <1>3, <1>5, <2>1
  <2> QED
    BY <1>2, <1>5, <2>2
<1>7. Ex(i) = i
  BY <1>5 DEF Ex, FirstTask
<1>8. /\ queue' \in [TaskId -> Seq(TaskId)] /\ queue'[i] = <<i>>
      /\ \A w \in TaskId : w # i => queue'[w] = queue[w]
  <2>1. queue \in [TaskId -> Seq(TaskId)] /\ Append(queue[i], i) = <<i>> /\ <<i>> \in Seq(TaskId)
    BY <1>2, <1>3, <1>6 DEF Typed
  <2> QED
    BY <1>3, <1>6, <2>1
<1>9. Typed'
  BY <1>2, <1>3, <1>5, <1>8 DEF Typed
<1>10. Called'
  BY <1>2, <1>3, <1>4 DEF Called
<1>11. Queued'
  <2> SUFFICES ASSUME NEW w \in TaskId, queue'[w] # << >>
               PROVE  queue'[w] = <<w>> /\ w \in Tasks /\ Ex(w) = w /\ job.stage[w] = 0 /\ w < i + 1
    BY <1>3, <1>4 DEF Queued
  <2>1. CASE w = i
    BY <1>5, <1>6, <1>7, <1>8, <2>1
  <2>2. CASE w # i
    <3>1. queue[w] = <<w>> /\ w \in Tasks /\ Ex(w) = w /\ job.stage[w] = 0 /\ w < i
      BY <1>1, <1>2, <1>8, <2>2 DEF Queued
    <3>2. w \in Int
      BY <1>2 DEF TaskId
    <3> QED
      BY <1>5, <1>8, <2>2, <3>1, <3>2
  <2> QED
    BY <2>1, <2>2
<1>12. Manned'
  BY <1>2, <1>3, <1>4 DEF Manned
<1>13. Launched'
  <2>1. \A t \in Tasks : Placed(t)'
    BY <1>2, <1>3, <1>4 DEF Launched, Placed
  <2>2. i + 1 >= FirstTask /\ \A t \in Tasks : t >= i + 1 => job.stage[t] = 0
    <3>1. \A t \in Tasks : t \in Int
      BY <1>2 DEF TaskId
    <3>2. FirstTask \in Int
      BY DEF FirstTask
    <3> QED
      BY <1>5, <3>1, <3>2
  <2> QED
    BY <1>1, <1>2, <1>3, <1>4, <2>1, <2>2 DEF Launched
<1> QED
  BY <1>1, <1>3, <1>4, <1>9, <1>10, <1>11, <1>12, <1>13 DEF IInv

\* When the number of open tasks is 0 everything of the launch is over.
LEMMA CollectKeeps ==
  ASSUME Setting, IInv, CollectErrors
  PROVE  IInv' /\ Launching /\ ~Launching' /\ job'.stage = job.stage /\ Open = {}
<1>1. pc[Main] = "collect" /\ Launching /\ Main \in Threads
  BY DEF CollectErrors, Launching, Threads
<1>2. Typed /\ Called /\ Queued /\ Manned /\ Launched /\ Open = {}
  BY <1>1, InLaunch DEF IInv, Launched
<1>3. /\ pc' = [pc EXCEPT ![Main] = "idle"] /\ queue' = queue /\ task' = task /\ pool' = pool
      /\ maxConcurrency' = maxConcurrency /\ i' = i /\ syncCounter' = syncCounter
  BY DEF CollectErrors, config, queues
<1>4. launcher \in LauncherSet /\ job \in JobSet
  BY <1>2 DEF Typed
<1>5. launcher' \in LauncherSet /\ job' \in JobSet /\ job'.stage = job.stage
  <2>1. CASE launcher.hasError
    <3>1. /\ job' = [job EXCEPT !.result = "error", !.reported = launcher.parErrors]
          /\ launcher' = [launcher EXCEPT !.parErrors = {}]
      BY <2>1 DEF CollectErrors
    <3>2. launcher' \in LauncherSet
      BY <1>4, <3>1 DEF LauncherSet
    <3>3. launcher.parErrors \in SUBSET Nat
      BY <1>4 DEF LauncherSet
    <3>4. job' \in JobSet /\ job'.stage = job.stage
      BY <1>4, <3>1, <3>3 DEF JobSet, Results
    <3> QED
      BY <3>2, <3>4
  <2>2. CASE ~launcher.hasError
    <3>1. job' = [job EXCEPT !.result = "ok"] /\ launcher' = launcher
      BY <2>2 DEF CollectErrors
    <3> QED
      BY <1>4, <3>1 DEF JobSet, Results
  <2> QED
    BY <2>1, <2>2
<1>6. /\ pc' \in [Threads -> PcSet] /\ pc'[Main] = "idle"
      /\ \A th \in Threads : th # Main => pc'[th] = pc[th]
  <2>1. "idle" \in PcSet
    BY DEF PcSet
  <2> QED
    BY <1>1, <1>2, <1>3, <2>1 DEF Typed
<1>7. Typed'
  BY <1>2, <1>3, <1>5, <1>6 DEF Typed
<1>8. Called' /\ ~Launching'
  BY <1>6 DEF Called, Launching, InBody, Signalling, Recording
<1>9. \A th \in Threads : pc'[th] \notin Active
  <2>1. ASSUME NEW th \in Threads, pc[th] \in Active PROVE FALSE
    BY <1>2, <2>1 DEF Manned, Open
  <2> QED
    BY <1>6, <2>1, Positions
<1>10. \A w \in TaskId : queue'[w] = << >>
  BY <1>2, <1>3 DEF Queued, Open
<1> QED
  BY <1>1, <1>2, <1>5, <1>7, <1>8, <1>9, <1>10, Outside

\* A worker takes its task, and Main takes task 0.
LEMMA BeginKeeps ==
  ASSUME Setting, IInv, NEW th \in Threads, (PopTask(th) /\ th \in TaskId) \/ (StartTask0 /\ th = Main)
  PROVE  /\ IInv' /\ Launching /\ Launching' /\ task'[th] \in Tasks /\ job.stage[task'[th]] = 0
         /\ job'.stage = [job.stage EXCEPT ![task'[th]] = 1]
<1>1. Main \in Threads /\ Main \notin TaskId
  BY LargestBounds DEF Threads, Main, TaskId
<1> DEFINE t == IF th = Main THEN 0 ELSE th
<1>2. /\ Launching /\ t \in Tasks /\ t \in TaskId /\ th = Ex(t) /\ job.stage[t] = 0
      /\ pc[Main] = "push" => t < i
      /\ task' = [task EXCEPT ![th] = t]
      /\ queue' = IF th = Main THEN queue ELSE [queue EXCEPT ![t] = << >>]
      /\ pc[th] \in {"start", "pop"}
  <2>1. CASE PopTask(th) /\ th \in TaskId
    <3>1. th # Main /\ queue[th] # << >>
      BY <1>1, <2>1 DEF PopTask
    <3>2. /\ Launching /\ queue[th] = <<th>> /\ th \in Tasks /\ Ex(th) = th /\ job.stage[th] = 0
          /\ pc[Main] = "push" => th < i
      BY <2>1, <3>1 DEF IInv, Queued
    <3>3. Head(queue[th]) = th /\ Tail(queue[th]) = << >>
      BY <3>2
    <3> QED
      BY <2>1, <3>1, <3>2, <3>3 DEF PopTask
  <2>2. CASE StartTask0 /\ th = Main
    <3>1. pc[Main] = "start" /\ Launching /\ task' = [task EXCEPT ![Main] = 0] /\ queue' = queue
      BY <2>2 DEF StartTask0, Launching, queues
    <3>2. pool.exclude /\ 0 \in Tasks /\ job.stage[0] = 0 /\ Tasks \subseteq TaskId
      BY <3>1, InLaunch DEF Launched
    <3> QED
      BY <2>2, <3>1, <3>2 DEF Ex
  <2> QED
    BY <2>1, <2>2
<1>3. /\ pc' = [pc EXCEPT ![th] = "body"] /\ job' = [job EXCEPT !.stage[t] = job.stage[t] + 1]
      /\ launcher' = launcher /\ syncCounter' = syncCounter /\ pool' = pool
      /\ maxConcurrency' = maxConcurrency /\ i' = i
  <2>1. CASE PopTask(th) /\ th \in TaskId
    <3>1. th # Main /\ queue[th] # << >>
      BY <1>1, <2>1 DEF PopTask
    <3>2. Head(queue[th]) = th
      BY <2>1, <3>1 DEF IInv, Queued
    <3> QED
      BY <2>1, <3>1, <3>2 DEF PopTask, Advance, config
  <2>2. CASE StartTask0 /\ th = Main
    BY <2>2 DEF StartTask0, Advance, config
  <2> QED
    BY <2>1, <2>2
<1> HIDE DEF t
<1>4. Typed /\ Launched /\ Placed(t) /\ Through \in Nat /\ Through > 1 /\ Queued
  BY <1>2, InLaunch DEF Launched, IInv
<1>5. pc[Ex(t)] \notin Active
  BY <1>2, Positions
<1>6. t \in Open
  BY <1>2 DEF Open
<1>7. task' \in [Threads -> TaskId] /\ task'[th] = t /\ \A x \in Threads \ {th} : task'[x] = task[x]
  BY <1>2, <1>4 DEF Typed
<1>8. /\ queue' \in [TaskId -> Seq(TaskId)] /\ queue'[t] = << >>
      /\ \A w \in TaskId : queue'[w] \in {queue[w], << >>}
  <2>1. CASE th = Main
    <3>1. Ex(t) # t
      BY <1>1, <1>2, <2>1
    <3>2. queue[t] = << >>
      BY <1>2, <1>4, <3>1 DEF Queued
    <3> QED
      BY <1>2, <1>4, <2>1, <3>2 DEF Typed
  <2>2. CASE th # Main
    <3>1. queue \in [TaskId -> Seq(TaskId)] /\ << >> \in Seq(TaskId)
      BY <1>4 DEF Typed
    <3> QED
      BY <1>2, <2>2, <3>1
  <2> QED
    BY <2>1, <2>2
<1>9. job \in JobSet /\ launcher \in LauncherSet /\ syncCounter \in [TaskId -> Nat]
  BY <1>4 DEF Typed
<1> DEFINE f == [job.stage EXCEPT ![t] = 1]
<1>10. f \in Stages /\ f[t] = 1
  BY <1>2, <1>4, <1>9, StagesChange DEF JobSet, Tasks
<1>11. job' = [job EXCEPT !.stage = f]
  BY <1>2, <1>3
<1>12. job' \in JobSet /\ job'.stage = f /\ job'.failed = job.failed
  <2> HIDE DEF f
  <2> QED
    BY <1>9, <1>10, <1>11 DEF JobSet
<1>13. Placed(t)'
  <2>1. pc'[Ex(t)'] = "body"
    <3>1. Ex(t)' = th
      BY <1>2, <1>3 DEF Ex
    <3> QED
      BY <1>3, <1>4, <3>1 DEF Typed
  <2>2. job'.stage[t] = 1
    BY <1>10, <1>12
  <2>3. syncCounter[t] = 0
    <3>1. syncCounter[t] = 0 \div 2
      BY <1>2, <1>4 DEF Placed
    <3> QED
      BY <3>1
  <2>4. 1 % 2 = 1 /\ 1 \div 2 = 0
    OBVIOUS
  <2> QED
    BY <1>3, <1>4, <2>1, <2>2, <2>3, <2>4 DEF Placed, Signalling
<1>14. "body" \in Active /\ "body" \in PcSet /\ 1 \in 1 .. Through
  BY <1>4 DEF Active, InBody, PcSet
<1>15. pc[Ex(t)] \in Active \union {"start", "pop"} /\ pc[Ex(t)] # "error"
  BY <1>2
<1>16. IInv' /\ Launching'
  BY <1>2, <1>3, <1>6, <1>7, <1>8, <1>9, <1>12, <1>13, <1>14, <1>15, TaskMoves
<1> QED
  BY <1>2, <1>7, <1>12, <1>16

\* What is known of a thread that is in a task.
LEMMA InTask ==
  ASSUME Setting, IInv, NEW th \in Threads, pc[th] \in Active
  PROVE  /\ Launching /\ Launched /\ task[th] \in Tasks /\ task[th] \in TaskId /\ th = Ex(task[th])
         /\ task[th] \in Open /\ Placed(task[th]) /\ job.stage[task[th]] \in 1 .. Through
         /\ queue[task[th]] = << >> /\ (pc[Main] = "push" => task[th] < i)
<1>1. Launching /\ task[th] \in Tasks /\ th = Ex(task[th])
  BY DEF IInv, Manned
<1>2. /\ Launched /\ Queued /\ Typed /\ Placed(task[th]) /\ task[th] \in TaskId
      /\ job.stage[task[th]] \in 0 .. Through /\ Through \in Nat /\ Through > 1
  BY <1>1, InLaunch DEF Launched, IInv
<1>3. job.stage[task[th]] # 0
  <2>1. 0 % 2 = 0
    OBVIOUS
  <2> QED
    BY <1>1, <1>2, <2>1 DEF Placed, Active, InBody, Signalling
<1>4. task[th] \in Open
  BY <1>1 DEF Open
<1>5. queue[task[th]] = << >>
  BY <1>2, <1>3 DEF Queued
<1>6. pc[Main] = "push" => task[th] < i
  <2>1. task[th] \in Int /\ i \in Nat
    BY <1>2, LargestBounds DEF TaskId, Typed
  <2> QED
    BY <1>1, <1>2, <1>3, <2>1 DEF Launched
<1>7. job.stage[task[th]] \in 1 .. Through
  BY <1>2, <1>3
<1> QED
  BY <1>1, <1>2, <1>4, <1>5, <1>6, <1>7

\* A thread that is in a task goes on with it.
LEMMA RunMoves ==
  ASSUME Setting, IInv, NEW th \in Threads, pc[th] \in Active, NEW t, t = task[th], NEW s \in 1 .. Through,
         NEW p \in Active \union {"record", AfterTask(th)}, NEW failed,
         failed = job.failed \/ (p = "error" /\ failed = job.failed \union {t}),
         pc[th] = "error" => p = "record",
         pc' = [pc EXCEPT ![th] = p],
         job' = [job EXCEPT !.stage[t] = s, !.failed = failed],
         syncCounter' \in [TaskId -> Nat],
         \A u \in TaskId : u # t => syncCounter'[u] = syncCounter[u],
         launcher' = [launcher EXCEPT !.numPending = IF p \in Active THEN @ ELSE @ - 1],
         UNCHANGED <<config, queues, task, i>>,
         (p = "body") <=> s % 2 = 1,
         (p = "barrier") <=> s % 2 = 0 /\ s < Through,
         syncCounter'[t] = IF s = Through THEN Phases ELSE s \div 2
  PROVE  IInv' /\ Launching' /\ job'.stage = [job.stage EXCEPT ![t] = s]
<1>1. /\ Launching /\ Launched /\ t \in Tasks /\ t \in TaskId /\ th = Ex(t) /\ t \in Open
      /\ queue[t] = << >> /\ (pc[Main] = "push" => t < i) /\ Typed /\ Tasks \subseteq TaskId
  BY InTask, InLaunch DEF IInv
<1>2. /\ queue' = queue /\ task' = task /\ pool' = pool /\ maxConcurrency' = maxConcurrency /\ i' = i
  BY DEF config, queues
<1>3. /\ job \in JobSet /\ launcher \in LauncherSet /\ queue \in [TaskId -> Seq(TaskId)]
      /\ task \in [Threads -> TaskId] /\ pc \in [Threads -> PcSet]
  BY <1>1 DEF Typed
<1> DEFINE f == [job.stage EXCEPT ![t] = s]
<1>4. f \in Stages /\ f[t] = s
  <2>1. job.stage \in Stages
    BY <1>3 DEF JobSet
  <2> QED
    BY <1>1, <2>1, StagesChange DEF Tasks
<1>5. failed \in SUBSET Nat
  <2>1. job.failed \in SUBSET Nat
    BY <1>3 DEF JobSet
  <2>2. t \in Nat
    BY <1>1, LargestBounds DEF TaskId
  <2> QED
    BY <2>1, <2>2
<1>6. job' = [job EXCEPT !.stage = f, !.failed = failed]
  OBVIOUS
<1>7. job' \in JobSet /\ job'.stage = f /\ job'.failed = failed
  <2> HIDE DEF f
  <2> QED
    BY <1>3, <1>4, <1>5, <1>6 DEF JobSet
<1> DEFINE q == IF p \in Active THEN launcher.numPending ELSE launcher.numPending - 1
<1>8. /\ launcher' \in LauncherSet /\ launcher'.numTask = launcher.numTask
      /\ launcher'.hasError = launcher.hasError /\ launcher'.numPending = q
  <2>1. q \in Int
    BY <1>3 DEF LauncherSet
  <2>2. launcher' = [launcher EXCEPT !.numPending = q]
    OBVIOUS
  <2> HIDE DEF q
  <2> QED
    BY <1>3, <2>1, <2>2 DEF LauncherSet
<1>9. p \in PcSet /\ p \in Active \union {"record", IF Ex(t) = Main THEN "wait" ELSE "pop"}
  <2>1. AfterTask(th) = (IF Ex(t) = Main THEN "wait" ELSE "pop") /\ AfterTask(th) \in {"wait", "pop"}
    BY <1>1 DEF AfterTask
  <2>2. Active \subseteq PcSet /\ {"record", "wait", "pop"} \subseteq PcSet
    BY DEF PcSet, Active, Recording
  <2> QED
    BY <2>1, <2>2
<1>10. Placed(t)'
  <2>1. Ex(t)' = th
    BY <1>1, <1>2 DEF Ex
  <2>2. pc'[Ex(t)'] = p /\ job'.stage[t] = s
    BY <1>3, <1>4, <1>7, <2>1
  <2>3. s > 0 /\ s \in Nat /\ s <= Through /\ Through \in Nat
    BY RequestsAssumption DEF Through
  <2>4. Through % 2 = 0
    BY RequestsAssumption DEF Through
  <2>5. p \in Signalling => s = Through
    <3>1. p \in Signalling => p # "body" /\ p # "barrier"
      BY DEF Signalling
    <3>2. s % 2 = 1 \/ s % 2 = 0
      BY <2>3
    <3> QED
      BY <2>3, <3>1, <3>2
  <2> QED
    BY <1>2, <2>2, <2>3, <2>5 DEF Placed
<1>11. \A w \in TaskId : queue'[w] \in {queue[w], << >>}
  BY <1>2
<1>12. \A u \in Tasks \ {t} : syncCounter'[u] = syncCounter[u]
  BY <1>1
<1>13. pc[Ex(t)] \in Active \union {"start", "pop"} /\ (pc[Ex(t)] = "error" => p = "record")
       /\ pc' = [pc EXCEPT ![Ex(t)] = p]
  BY <1>1
<1>14. /\ job'.failed = job.failed \/ (p = "error" /\ job'.failed = job.failed \union {t})
       /\ task'[Ex(t)] = t /\ (\A x \in Threads \ {Ex(t)} : task'[x] = task[x])
       /\ task' \in [Threads -> TaskId] /\ queue' \in [TaskId -> Seq(TaskId)] /\ queue'[t] = << >>
  BY <1>1, <1>2, <1>3, <1>7
<1>15. job'.stage = [job.stage EXCEPT ![t] = s]
  BY <1>7
<1>16. launcher'.numPending = IF p \in Active THEN launcher.numPending ELSE launcher.numPending - 1
  BY <1>8
<1> HIDE DEF f, q
<1>17. syncCounter' \in [TaskId -> Nat]
  OBVIOUS
<1>18. IInv' /\ Launching'
  <2>1. /\ t \in Tasks /\ t \in Open /\ Launching /\ p \in PcSet /\ s \in 1 .. Through
        /\ pc[Ex(t)] \in Active \union {"start", "pop"}
        /\ p \in Active \union {"record", IF Ex(t) = Main THEN "wait" ELSE "pop"}
        /\ pc' = [pc EXCEPT ![Ex(t)] = p]
    BY <1>1, <1>9, <1>13
  <2>2. /\ job' \in JobSet /\ job'.stage = [job.stage EXCEPT ![t] = s]
        /\ job'.failed = job.failed \/ (p = "error" /\ job'.failed = job.failed \union {t})
    BY <1>7, <1>14, <1>15
  <2>3. /\ task' \in [Threads -> TaskId] /\ task'[Ex(t)] = t
        /\ \A x \in Threads \ {Ex(t)} : task'[x] = task[x]
        /\ queue' \in [TaskId -> Seq(TaskId)] /\ queue'[t] = << >>
        /\ \A w \in TaskId : queue'[w] \in {queue[w], << >>}
    BY <1>11, <1>14
  <2>4. /\ syncCounter' \in [TaskId -> Nat] /\ \A u \in Tasks \ {t} : syncCounter'[u] = syncCounter[u]
    BY <1>12, <1>17
  <2>5. /\ launcher' \in LauncherSet /\ launcher'.numTask = launcher.numTask
        /\ launcher'.hasError = launcher.hasError
        /\ launcher'.numPending = IF p \in Active THEN launcher.numPending ELSE launcher.numPending - 1
    BY <1>8, <1>16
  <2>6. /\ pool' = pool /\ maxConcurrency' = maxConcurrency /\ i' = i
        /\ (pc[Main] = "push" => t < i) /\ (pc[Ex(t)] = "error" => p = "record") /\ Placed(t)'
    BY <1>1, <1>2, <1>10, <1>13
  <2> QED
    BY <2>1, <2>2, <2>3, <2>4, <2>5, <2>6, TaskMoves
<1> QED
  BY <1>15, <1>18

\* The seven steps of a thread that is in a task or reports an error.
LEMMA RunStepKeeps ==
  ASSUME Setting, IInv, NEW th \in Threads, RunStep(th)
  PROVE  IInv' /\ (Launching' <=> Launching)
<1>0. PICK t : t = task[th]
  OBVIOUS
<1> DEFINE e == job.stage[t]
<1>1. ASSUME pc[th] \in Active
      PROVE  /\ Launching /\ t \in TaskId /\ t \in Tasks /\ e \in 1 .. Through /\ Placed(t) /\ th = Ex(t)
             /\ job \in JobSet /\ launcher \in LauncherSet /\ syncCounter \in [TaskId -> Nat]
             /\ syncCounter[t] \in Nat
             /\ (pc[th] = "body" <=> e % 2 = 1) /\ (pc[th] = "barrier" <=> e % 2 = 0 /\ 0 < e /\ e < Through)
             /\ (pc[th] \in Signalling => e = Through)
             /\ syncCounter[t] = IF e = Through THEN Phases ELSE e \div 2
  <2>1. /\ Launching /\ t \in TaskId /\ t \in Tasks /\ e \in 1 .. Through /\ Placed(t) /\ th = Ex(t)
    BY <1>0, <1>1, InTask
  <2>2. job \in JobSet /\ launcher \in LauncherSet /\ syncCounter \in [TaskId -> Nat]
    BY DEF IInv, Typed
  <2>3. /\ (pc[th] = "body" <=> e % 2 = 1) /\ (pc[th] = "barrier" <=> e % 2 = 0 /\ 0 < e /\ e < Through)
        /\ (pc[th] \in Signalling => e = Through)
        /\ syncCounter[t] = IF e = Through THEN Phases ELSE e \div 2
    BY <2>1 DEF Placed
  <2> QED
    BY <2>1, <2>2, <2>3
<1>2. Through = 2 * Phases + 2 /\ Phases \in Nat /\ Through \in Nat
  BY RequestsAssumption DEF Through
<1>3. ASSUME pc[th] \in Active, NEW s \in 1 .. Through,
             NEW p \in Active \union {"record", AfterTask(th)}, NEW failed,
             failed = job.failed \/ (p = "error" /\ failed = job.failed \union {t}),
             pc[th] = "error" => p = "record",
             pc' = [pc EXCEPT ![th] = p], job'.failed = failed,
             job' = [job EXCEPT !.stage[t] = s, !.failed = failed],
             syncCounter' = [syncCounter EXCEPT ![t] = IF s = Through THEN Phases ELSE s \div 2],
             launcher' = [launcher EXCEPT !.numPending = IF p \in Active THEN @ ELSE @ - 1],
             UNCHANGED <<config, queues, task, i>>,
             (p = "body") <=> s % 2 = 1,
             (p = "barrier") <=> s % 2 = 0 /\ s < Through
      PROVE  IInv' /\ (Launching' <=> Launching)
  <2>1. Launching /\ t \in TaskId /\ syncCounter \in [TaskId -> Nat]
    BY <1>1, <1>3
  <2> DEFINE c == IF s = Through THEN Phases ELSE s \div 2
  <2>2. c \in Nat
    <3>1. s \in Nat
      BY <1>2
    <3>2. s \div 2 \in Nat
      BY <3>1
    <3> QED
      BY <1>2, <3>2
  <2>3. syncCounter' = [syncCounter EXCEPT ![t] = c]
    BY <1>3
  <2> HIDE DEF c
  <2>4. /\ syncCounter' \in [TaskId -> Nat] /\ syncCounter'[t] = c
        /\ \A u \in TaskId : u # t => syncCounter'[u] = syncCounter[u]
    BY <2>1, <2>2, <2>3
  <2>5. syncCounter'[t] = IF s = Through THEN Phases ELSE s \div 2
    BY <2>4 DEF c
  <2>6. IInv' /\ Launching'
    <3>1. /\ pc[th] \in Active /\ t = task[th] /\ s \in 1 .. Through
          /\ p \in Active \union {"record", AfterTask(th)}
          /\ (failed = job.failed \/ (p = "error" /\ failed = job.failed \union {t}))
          /\ (pc[th] = "error" => p = "record")
          /\ ((p = "body") <=> s % 2 = 1) /\ ((p = "barrier") <=> s % 2 = 0 /\ s < Through)
      BY <1>0, <1>3
    <3>2. /\ pc' = [pc EXCEPT ![th] = p] /\ job' = [job EXCEPT !.stage[t] = s, !.failed = failed]
          /\ launcher' = [launcher EXCEPT !.numPending = IF p \in Active THEN @ ELSE @ - 1]
          /\ UNCHANGED <<config, queues, task, i>>
      BY <1>3
    <3> QED
      BY <2>4, <2>5, <3>1, <3>2, RunMoves
  <2> QED
    BY <2>1, <2>6
<1>4. "body" \in Active /\ "barrier" \in Active /\ "finish" \in Active /\ "error" \in Active
  BY DEF Active, InBody, Signalling
<1>5. CASE Arrive(th)
  <2>1. pc[th] = "body" /\ e < Through - 1 /\ pc[th] \in Active
    BY <1>0, <1>4, <1>5 DEF Arrive
  <2>2. /\ e \in 1 .. Through /\ job \in JobSet /\ launcher \in LauncherSet /\ syncCounter \in [TaskId -> Nat]
        /\ t \in TaskId /\ e % 2 = 1 /\ syncCounter[t] = (IF e = Through THEN Phases ELSE e \div 2)
    BY <1>1, <2>1
  <2>3. e + 1 \in 1 .. Through /\ e + 1 < Through /\ (e + 1) % 2 = 0 /\ (e + 1) \div 2 = syncCounter[t] + 1
    BY <1>2, <2>1, <2>2
  <2>4. /\ pc' = [pc EXCEPT ![th] = "barrier"] /\ UNCHANGED <<config, queues, task, i>> /\ launcher' = launcher
        /\ syncCounter' = [syncCounter EXCEPT ![t] = syncCounter[t] + 1]
        /\ job' = [job EXCEPT !.stage[t] = e + 1]
    BY <1>0, <1>5 DEF Arrive, Advance
  <2>5. job' = [job EXCEPT !.stage[t] = e + 1, !.failed = job.failed] /\ job'.failed = job.failed
    BY <2>2, <2>4 DEF JobSet
  <2>6. launcher' = [launcher EXCEPT !.numPending = @]
    BY <2>2, <2>4 DEF LauncherSet
  <2> DEFINE s == e + 1
  <2>7. s \in 1 .. Through /\ s < Through /\ s # Through /\ s % 2 = 0 /\ s % 2 # 1 /\ s \div 2 = syncCounter[t] + 1
    BY <2>3, <1>2
  <2> HIDE DEF e, s
  <2> QED
    BY <1>3, <1>4, <2>1, <2>4, <2>5, <2>6, <2>7 DEF s
<1>6. CASE LeaveBarrier(th)
  <2>1. pc[th] = "barrier" /\ pc[th] \in Active
    BY <1>4, <1>6 DEF LeaveBarrier
  <2>2. /\ e \in 1 .. Through /\ job \in JobSet /\ launcher \in LauncherSet /\ syncCounter \in [TaskId -> Nat]
        /\ t \in TaskId /\ e % 2 = 0 /\ e < Through
        /\ syncCounter[t] = (IF e = Through THEN Phases ELSE e \div 2)
    BY <1>1, <2>1
  <2> DEFINE s == e + 1
  <2>3. s \in 1 .. Through /\ s < Through /\ s # Through /\ s % 2 = 1 /\ s % 2 # 0 /\ s \div 2 = syncCounter[t]
    BY <1>2, <2>2
  <2>4. /\ pc' = [pc EXCEPT ![th] = "body"] /\ UNCHANGED <<config, queues, task, i>> /\ launcher' = launcher
        /\ syncCounter' = syncCounter /\ job' = [job EXCEPT !.stage[t] = e + 1]
    BY <1>0, <1>6 DEF LeaveBarrier, Advance
  <2>5. job' = [job EXCEPT !.stage[t] = e + 1, !.failed = job.failed] /\ job'.failed = job.failed
    BY <2>2, <2>4 DEF JobSet
  <2>6. launcher' = [launcher EXCEPT !.numPending = @]
    BY <2>2, <2>4 DEF LauncherSet
  <2>7. syncCounter' = [syncCounter EXCEPT ![t] = s \div 2]
    BY <2>2, <2>3, <2>4
  <2> HIDE DEF e, s
  <2> QED
    BY <1>3, <1>4, <2>1, <2>3, <2>4, <2>5, <2>6, <2>7 DEF s
<1>7. CASE ReturnFromTask(th)
  <2>1. pc[th] = "body" /\ pc[th] \in Active /\ e = Through - 1
    BY <1>0, <1>4, <1>7 DEF ReturnFromTask
  <2>2. /\ e \in 1 .. Through /\ job \in JobSet /\ launcher \in LauncherSet /\ syncCounter \in [TaskId -> Nat]
        /\ t \in TaskId /\ syncCounter[t] = (IF e = Through THEN Phases ELSE e \div 2)
    BY <1>1, <2>1
  <2> DEFINE s == Through
  <2>3. s \in 1 .. Through /\ s % 2 # 1 /\ syncCounter[t] = Phases /\ e + 1 = s
    BY <1>2, <2>1, <2>2
  <2>4. UNCHANGED <<config, queues, task, i>> /\ launcher' = launcher /\ syncCounter' = syncCounter
    BY <1>7 DEF ReturnFromTask
  <2>5. launcher' = [launcher EXCEPT !.numPending = @]
    BY <2>2, <2>4 DEF LauncherSet
  <2>6. syncCounter' = [syncCounter EXCEPT ![t] = IF s = Through THEN Phases ELSE s \div 2]
    BY <2>2, <2>3, <2>4
  <2>7. ASSUME job' = [job EXCEPT !.stage[t] = e + 1], pc' = [pc EXCEPT ![th] = "finish"]
        PROVE  IInv' /\ (Launching' <=> Launching)
    <3>1. job' = [job EXCEPT !.stage[t] = s, !.failed = job.failed] /\ job'.failed = job.failed
      BY <2>2, <2>3, <2>7 DEF JobSet
    <3> HIDE DEF e, s
    <3>2. s < Through <=> FALSE
      BY <1>2 DEF s
    <3> QED
      BY <1>3, <1>4, <2>1, <2>3, <2>4, <2>5, <2>6, <2>7, <3>1, <3>2
  <2>8. ASSUME job' = [job EXCEPT !.stage[t] = e + 1, !.failed = job.failed \union {t}],
               pc' = [pc EXCEPT ![th] = "error"]
        PROVE  IInv' /\ (Launching' <=> Launching)
    <3> DEFINE failed == job.failed \union {t}
    <3>1. job' = [job EXCEPT !.stage[t] = s, !.failed = failed] /\ job'.failed = failed
      BY <2>2, <2>3, <2>8 DEF JobSet
    <3>2. s < Through <=> FALSE
      BY <1>2
    <3>3. failed = job.failed \union {t}
      OBVIOUS
    <3> HIDE DEF e, s, failed
    <3> QED
      BY <1>3, <1>4, <2>1, <2>3, <2>4, <2>5, <2>6, <2>8, <3>1, <3>2, <3>3
  <2> QED
    BY <1>0, <1>7, <2>7, <2>8 DEF ReturnFromTask
<1>8. ASSUME NEW p, (pc[th] = "finish" /\ p = AfterTask(th)) \/ (pc[th] = "error" /\ p = "record"),
             pc' = [pc EXCEPT ![th] = p], launcher' = [launcher EXCEPT !.numPending = @ - 1],
             UNCHANGED <<config, queues, task, i, syncCounter, job>>
      PROVE  IInv' /\ (Launching' <=> Launching)
  <2>1. pc[th] \in Signalling /\ pc[th] \in Active
    BY <1>8, <1>4 DEF Signalling
  <2>2. /\ e = Through /\ job \in JobSet /\ syncCounter \in [TaskId -> Nat]
        /\ t \in Tasks /\ syncCounter[t] = (IF e = Through THEN Phases ELSE e \div 2)
    BY <1>1, <2>1
  <2> DEFINE s == Through
  <2>3. s \in 1 .. Through /\ s % 2 # 1 /\ (s < Through <=> FALSE)
    BY <1>2
  <2>4. syncCounter' = [syncCounter EXCEPT ![t] = IF s = Through THEN Phases ELSE s \div 2]
    BY <1>8, <2>2
  <2>5. job' = [job EXCEPT !.stage[t] = s, !.failed = job.failed] /\ job'.failed = job.failed
    <3>1. [job.stage EXCEPT ![t] = s] = job.stage
      <4>1. job.stage \in Stages
        BY <2>2 DEF JobSet
      <4> QED
        BY <2>2, <4>1 DEF Stages, Tasks
    <3> QED
      BY <1>8, <2>2, <3>1 DEF JobSet
  <2>6. p \in {"record", AfterTask(th)} /\ p \notin Active /\ p # "error" /\ (pc[th] = "error" => p = "record")
    BY <1>8, Positions DEF AfterTask
  <2>7. p # "body" /\ p # "barrier"
    BY <1>4, <2>6
  <2>8. launcher' = [launcher EXCEPT !.numPending = IF p \in Active THEN @ ELSE @ - 1]
    BY <1>8, <2>6
  <2> HIDE DEF e, s
  <2> QED
    BY <1>3, <1>8, <2>1, <2>3, <2>4, <2>5, <2>6, <2>7, <2>8
<1>9. CASE SignalJobFinish(th)
  <2>1. pc[th] = "finish" /\ pc' = [pc EXCEPT ![th] = AfterTask(th)]
        /\ launcher' = [launcher EXCEPT !.numPending = @ - 1]
        /\ UNCHANGED <<config, queues, task, i, syncCounter, job>>
    BY <1>9 DEF SignalJobFinish
  <2>2. PICK p : p = AfterTask(th)
    OBVIOUS
  <2>3. pc' = [pc EXCEPT ![th] = p]
    BY <2>1, <2>2
  <2> QED
    BY <1>8, <2>1, <2>2, <2>3
<1>10. CASE SignalJobError(th)
  BY <1>8, <1>10 DEF SignalJobError
<1>11. launcher \in LauncherSet /\ task[th] \in TaskId /\ Largest \in Nat
  BY LargestBounds DEF IInv, Typed
<1>12. "flag" \notin Active /\ "wait" \notin Active /\ "pop" \notin Active /\ {"flag", "wait", "pop"} \subseteq PcSet
  BY Positions DEF PcSet, Recording
<1>13. CASE RecordError(th)
  <2>1. PICK ids \in RecordedAs(th) : launcher' = [launcher EXCEPT !.parErrors = @ \union ids]
    BY <1>13 DEF RecordError
  <2>2. ids \in SUBSET Nat
    <3>1. task[th] \in Nat /\ launcher.numTask \in Nat /\ launcher.errSize \in Nat
      BY <1>11 DEF TaskId, LauncherSet
    <3> QED
      BY <2>1, <3>1 DEF RecordedAs
  <2>3. /\ launcher' \in LauncherSet /\ launcher'.numTask = launcher.numTask
        /\ launcher'.numPending = launcher.numPending /\ launcher'.hasError = launcher.hasError
    <3>1. launcher.parErrors \union ids \in SUBSET Nat
      BY <1>11, <2>2 DEF LauncherSet
    <3> QED
      BY <1>11, <2>1, <3>1 DEF LauncherSet
  <2>4. pc[th] = "record" /\ pc' = [pc EXCEPT ![th] = "flag"]
        /\ UNCHANGED <<config, queues, task, call, i, syncCounter, job>>
    BY <1>13 DEF RecordError
  <2> QED
    BY <1>12, <2>3, <2>4, Idles
<1>14. CASE RaiseFlag(th)
  <2>1. PICK p : p = AfterTask(th)
    OBVIOUS
  <2>2. p \in {"wait", "pop"} /\ (th = Main => p = "wait")
    BY <2>1 DEF AfterTask
  <2>3. pc[th] = "flag" /\ pc' = [pc EXCEPT ![th] = p] /\ launcher' = [launcher EXCEPT !.hasError = TRUE]
        /\ UNCHANGED <<config, queues, task, call, i, syncCounter, job>>
    BY <1>14, <2>1 DEF RaiseFlag
  <2>4. /\ launcher' \in LauncherSet /\ launcher'.numTask = launcher.numTask
        /\ launcher'.numPending = launcher.numPending /\ launcher'.hasError
    BY <1>11, <2>3 DEF LauncherSet
  <2>5. p \in PcSet \ (Active \union {"push"})
    BY <1>12, <2>2
  <2> QED
    BY <2>2, <2>3, <2>4, <2>5, Idles
<1> QED
  BY <1>5, <1>6, <1>7, <1>9, <1>10, <1>13, <1>14 DEF RunStep

-----------------------------------------------------------------------------
(* The invariant holds always.                                             *)

\* Initially there is no pool and no job.
LEMMA InitKeeps ==
  ASSUME Setting, Init
  PROVE  IInv
<1>1. Largest \in Nat /\ Largest >= 1 /\ Main \in Threads /\ TaskId = 0 .. Largest
  BY LargestBounds DEF Threads, TaskId
<1>2. pc \in [Threads -> PcSet] /\ pc[Main] = "idle" /\ \A th \in Threads : pc[th] \in {"idle", "none"}
  <2>1. {"idle", "none"} \subseteq PcSet
    BY DEF PcSet
  <2>2. pc = [th \in Threads |-> IF th = Main THEN "idle" ELSE "none"]
    BY DEF Init
  <2> QED
    BY <1>1, <2>1, <2>2
<1>3. ~Launching
  BY <1>2 DEF Launching, InBody, Signalling, Recording
<1>4. job \in JobSet
  <2>1. 0 \in 0 .. Largest + 1 /\ 0 .. 0 - 1 = {}
    BY <1>1
  <2>2. << >> \in [{} -> 0 .. Through]
    OBVIOUS
  <2>3. << >> \in Stages
    BY <2>1, <2>2 DEF Stages
  <2>4. job = [stage |-> << >>, failed |-> {}, result |-> "none", reported |-> {}]
    BY DEF Init
  <2> QED
    BY <2>3, <2>4 DEF JobSet, Results
<1>5. queue \in [TaskId -> Seq(TaskId)] /\ \A w \in TaskId : queue[w] = << >>
  BY DEF Init
<1>6. launcher \in LauncherSet
  BY DEF Init, LauncherSet
<1>7. task \in [Threads -> TaskId] /\ syncCounter \in [TaskId -> Nat]
  BY <1>1 DEF Init
<1>8. Typed
  BY <1>1, <1>2, <1>4, <1>5, <1>6, <1>7 DEF Init, Typed
<1>9. Called /\ Queued
  BY <1>2, <1>5 DEF Called, Queued
<1>10. Manned
  BY <1>2, Positions DEF Manned
<1> QED
  BY <1>3, <1>8, <1>9, <1>10 DEF IInv

\* Every step keeps the invariant, whoever takes it.
LEMMA NextKeeps ==
  ASSUME Setting, IInv, [Next]_vars
  PROVE  IInv'
<1>1. CASE CallStep
  BY <1>1, OutsideSteps
<1>2. CASE \/ CreatePool \/ UpdateWorkerConfiguration \/ StartKilling \/ KillQueue \/ JoinWorkers
           \/ RejectLaunch \/ RunAlone
  BY <1>2, OutsideSteps
<1>3. CASE InitLauncher
  BY <1>3, InitLauncherKeeps
<1>4. CASE PushTask
  BY <1>4, PushKeeps
<1>5. Main \in Threads /\ Typed /\ launcher \in LauncherSet
  BY DEF Threads, IInv, Typed
<1>6. {"start", "wait", "collect", "stopped"} \subseteq PcSet \ (Active \union {"push"})
  BY Positions DEF PcSet
<1>7. CASE EndPush
  <2>1. PICK p : p = IF pool.exclude THEN "start" ELSE "wait"
    OBVIOUS
  <2>2. pc[Main] = "push" /\ pc' = [pc EXCEPT ![Main] = p] /\ launcher' = launcher
        /\ UNCHANGED <<config, queues, task, call, i, syncCounter, job>>
    BY <1>7, <2>1 DEF EndPush
  <2>3. p \in PcSet \ (Active \union {"push"}) /\ p \in {"start", "wait"} /\ (p = "start" => pool.exclude)
    BY <1>6, <2>1
  <2> QED
    BY <1>5, <2>2, <2>3, Idles
<1>8. CASE WaitForJobs
  <2>1. pc[Main] = "wait" /\ Launching /\ launcher.numPending = 0
    BY <1>8 DEF WaitForJobs, Launching
  <2>2. Open = {}
    BY <2>1, InLaunch, OpenFinite DEF Launched
  <2>3. pc' = [pc EXCEPT ![Main] = "collect"] /\ launcher' = launcher
        /\ UNCHANGED <<config, queues, task, call, i, syncCounter, job>>
    BY <1>8 DEF WaitForJobs
  <2> QED
    BY <1>5, <1>6, <2>1, <2>2, <2>3, Idles
<1>9. CASE StartTask0
  BY <1>5, <1>9, BeginKeeps
<1>10. CASE CollectErrors
  BY <1>10, CollectKeeps
<1>11. ASSUME NEW th \in Threads, RunStep(th) PROVE IInv'
  BY <1>11, RunStepKeeps
<1>12. ASSUME NEW w \in TaskId, WorkerStep(w) PROVE IInv'
  <2>1. w \in Threads /\ w # Main
    BY LargestBounds DEF Threads, TaskId, Main
  <2>2. CASE PopTask(w)
    BY <2>1, <2>2, BeginKeeps
  <2>3. CASE StopWorker(w)
    <3>1. pc[w] = "pop" /\ pc' = [pc EXCEPT ![w] = "stopped"] /\ launcher' = launcher
          /\ UNCHANGED <<config, queues, task, call, i, syncCounter, job>>
      BY <2>3 DEF StopWorker
    <3> QED
      BY <1>5, <1>6, <2>1, <3>1, Idles
  <2> QED
    BY <1>11, <1>12, <2>1, <2>2, <2>3 DEF WorkerStep
<1>13. CASE UNCHANGED vars
  BY <1>13 DEF vars, IInv, Typed, Called, Queued, Manned, Launched, Launching, Placed, Open, Ex, Tasks, FirstTask
<1> QED
  BY <1>1, <1>2, <1>3, <1>4, <1>5, <1>7, <1>8, <1>9, <1>10, <1>11, <1>12, <1>13 DEF Next, MainStep

\* The invariant: between them num_pending_, the queues, the stages of the tasks, the counters of
\* the barrier and the positions of the threads always fit together, for any number of workers,
\* tasks and barriers and any sequence of launches, configurations and resets.
THEOREM Invariance ==
  ASSUME Setting
  PROVE  Spec => []IInv
<1>1. Init => IInv
  BY InitKeeps
<1>2. IInv /\ [Next]_vars => IInv'
  BY NextKeeps
<1> QED
  BY <1>1, <1>2, PTL DEF Spec

-----------------------------------------------------------------------------
(* What it says of the properties of ThreadPool.                           *)

\* num_pending_ counts the tasks that are not begun or not signalled: WaitForJobs neither returns
\* early nor waits for a task that is over.
THEOREM PendingIsExact ==
  ASSUME Setting
  PROVE  Spec => []PendingCountsTasks
<1>1. IInv => PendingCountsTasks
  <2> SUFFICES ASSUME IInv, Launching PROVE launcher.numPending = Cardinality(Waiting \union Running)
    BY DEF PendingCountsTasks
  <2>1. Launched /\ Tasks \subseteq TaskId
    BY InLaunch
  <2>2. ASSUME NEW th \in Threads, pc[th] \in Active PROVE task[th] \in Open
    BY <2>2, InTask
  <2>3. ASSUME NEW t \in Open PROVE t \in Waiting \union Running
    <3>1. t \in Tasks /\ t \in TaskId /\ Ex(t) \in Threads
      BY <2>1, Executors DEF Open
    <3>2. CASE job.stage[t] = 0
      BY <3>1, <3>2 DEF Waiting, Tasks
    <3>3. CASE pc[Ex(t)] \in Active
      <4>1. task[Ex(t)] \in TaskId /\ Ex(t) = Ex(task[Ex(t)])
        BY <3>1, <3>3, InTask
      <4>2. task[Ex(t)] = t
        BY <3>1, <4>1, Executors
      <4> QED
        BY <3>1, <3>3, <4>2 DEF Running, Active
    <3> QED
      BY <3>2, <3>3 DEF Open
  <2>4. Waiting \subseteq Open
    BY DEF Waiting, Open, Tasks
  <2>5. Running \subseteq Open
    BY <2>2 DEF Running, Active
  <2>6. Waiting \union Running = Open
    BY <2>3, <2>4, <2>5
  <2> QED
    BY <2>1, <2>6 DEF Launched
<1> QED
  BY <1>1, Invariance, PTL

\* Reset and the exit of the owner kill the queues only when no task is left in one or is run.
THEOREM NothingIsDropped ==
  ASSUME Setting
  PROVE  Spec => []NothingDropped
<1>1. IInv => NothingDropped
  <2> SUFFICES ASSUME IInv, pc[Main] \in {"kill", "join"}
               PROVE  (\A w \in TaskId : queue[w] = << >>) /\ Running = {}
    BY DEF NothingDropped
  <2>1. ~Launching
    BY DEF Launching, InBody, Signalling, Recording
  <2> QED
    BY <2>1, OutsideFacts DEF Running, Active
<1> QED
  BY <1>1, Invariance, PTL

\* The owner of the pool sees the error of the task it ran itself: no other thread is between that
\* error and the test of has_error_.
THEOREM OwnFailureIsReported ==
  ASSUME Setting
  PROVE  Spec => []OwnFailureReported
<1>1. IInv => OwnFailureReported
  <2> SUFFICES ASSUME IInv, pool.exclude, pc[Main] \in {"wait", "collect"}, 0 \in job.failed
               PROVE  launcher.hasError
    BY DEF OwnFailureReported
  <2>1. Launching
    BY DEF Launching
  <2>2. Launched
    BY <2>1, InLaunch
  <2> QED
    BY <2>2 DEF Launched
<1> QED
  BY <1>1, Invariance, PTL

-----------------------------------------------------------------------------
(* The pool is a fork-join executor.                                       *)

Busy == Launching \/ pc[Main] = "alone"

\* There is a counter for each task of a launch (see PreparedLauncher, which may leave the page too
\* small by one).
PageCovers == launcher.numTask <= launcher.pageSize

\* Steps that begin, end or change no launch.
LEMMA SilentSteps ==
  ASSUME Setting, IInv,
         \/ CreatePool \/ UpdateWorkerConfiguration \/ StartKilling \/ KillQueue \/ JoinWorkers
         \/ RejectLaunch \/ PushTask \/ EndPush \/ WaitForJobs
         \/ (\E c \in Configs : CallConfigure(c)) \/ (\E n \in Requests : CallLaunch(n))
         \/ CallReset("reset") \/ CallReset("exit") \/ (\E w \in TaskId : StopWorker(w))
         \/ (\E th \in Threads : \/ SignalJobFinish(th) \/ SignalJobError(th)
                                 \/ RecordError(th) \/ RaiseFlag(th))
  PROVE  (Busy' <=> Busy) /\ job'.stage = job.stage
<1>1. Main \in Threads /\ pc \in [Threads -> PcSet] /\ job \in JobSet
  BY DEF IInv, Typed, Threads
<1>2. ASSUME NEW th \in Threads, NEW p,
             pc' = [pc EXCEPT ![th] = p], job'.stage = job.stage, th # Main
      PROVE  (Busy' <=> Busy) /\ job'.stage = job.stage
  BY <1>1, <1>2 DEF Busy, Launching
<1>3. ASSUME NEW p, pc'[Main] = p, job'.stage = job.stage,
             LET idle == {"idle", "configure", "launch", "reset", "kill", "join", "exited"}
             IN  pc[Main] \in idle <=> p \in idle,
             pc[Main] # "alone", p # "alone", pc[Main] # "pop", pc[Main] # "none", pc[Main] # "stopped",
             p \in PcSet \ {"pop", "none", "stopped"}
      PROVE  (Busy' <=> Busy) /\ job'.stage = job.stage
  BY <1>1, <1>3 DEF Busy, Launching, PcSet, InBody, Signalling, Recording
<1>4. CASE CreatePool
  BY <1>1, <1>3, <1>4 DEF CreatePool, StartWorkers, PcSet
<1>5. CASE JoinWorkers
  BY <1>1, <1>3, <1>5 DEF JoinWorkers, StartWorkers, PcSet
<1>6. CASE UpdateWorkerConfiguration \/ StartKilling \/ KillQueue
  BY <1>1, <1>3, <1>6 DEF UpdateWorkerConfiguration, StartKilling, KillQueue, PcSet
<1>7. CASE RejectLaunch
  <2>1. job'.stage = job.stage
    BY <1>1, <1>7 DEF RejectLaunch, JobSet
  <2> QED
    BY <1>1, <1>3, <1>7, <2>1 DEF RejectLaunch, PcSet
<1>8. CASE PushTask \/ EndPush \/ WaitForJobs
  BY <1>1, <1>3, <1>8 DEF PushTask, EndPush, WaitForJobs, PcSet
<1>9. CASE (\E c \in Configs : CallConfigure(c)) \/ (\E n \in Requests : CallLaunch(n))
           \/ CallReset("reset") \/ CallReset("exit")
  BY <1>1, <1>3, <1>9 DEF CallConfigure, CallLaunch, CallReset, PcSet
<1>10. CASE \E w \in TaskId : StopWorker(w)
  <2>1. PICK w \in TaskId : StopWorker(w)
    BY <1>10
  <2>2. w \in Threads /\ w # Main
    BY LargestBounds DEF Threads, TaskId, Main
  <2> QED
    BY <1>2, <2>1, <2>2 DEF StopWorker
<1>11. ASSUME NEW th \in Threads,
              SignalJobFinish(th) \/ SignalJobError(th) \/ RecordError(th) \/ RaiseFlag(th)
       PROVE  (Busy' <=> Busy) /\ job'.stage = job.stage
  <2>1. PICK p : pc' = [pc EXCEPT ![th] = p] /\ p \in {AfterTask(th), "record", "flag"}
    BY <1>11 DEF SignalJobFinish, SignalJobError, RecordError, RaiseFlag
  <2>2. job' = job /\ pc[th] \in Signalling \union Recording
    BY <1>11 DEF SignalJobFinish, SignalJobError, RecordError, RaiseFlag, Signalling, Recording
  <2>3. CASE th = Main
    <3>1. p \in {"wait", "record", "flag"} /\ pc'[Main] = p
      BY <1>1, <2>1, <2>3 DEF AfterTask
    <3> QED
      BY <1>3, <2>2, <2>3, <3>1 DEF PcSet, Signalling, Recording
  <2>4. CASE th # Main
    BY <1>2, <2>1, <2>2, <2>4
  <2> QED
    BY <2>3, <2>4
<1> QED
  BY <1>4, <1>5, <1>6, <1>7, <1>8, <1>9, <1>10, <1>11

\* Where all tasks are when the number of open tasks is 0.
LEMMA ThroughWhenClosed ==
  ASSUME Setting, IInv, Launching, Open = {}, NEW t \in Tasks
  PROVE  job.stage[t] = Through
<1>1. Launched /\ Placed(t) /\ job.stage[t] \in 0 .. Through /\ Through \in Nat
  BY InLaunch DEF Launched
<1>2. job.stage[t] # 0 /\ pc[Ex(t)] \notin Active
  BY DEF Open
<1>3. pc[Ex(t)] # "body" /\ pc[Ex(t)] # "barrier"
  BY <1>2 DEF Active, InBody
<1>4. job.stage[t] % 2 # 1 /\ ~ (job.stage[t] % 2 = 0 /\ 0 < job.stage[t] /\ job.stage[t] < Through)
  BY <1>1, <1>3 DEF Placed
<1>5. job.stage[t] % 2 = 0 \/ job.stage[t] % 2 = 1
  BY <1>1
<1> QED
  BY <1>1, <1>2, <1>4, <1>5

\* A barrier is left when all tasks are there or beyond.
LEMMA ArrivedAtBarrier ==
  ASSUME Setting, IInv, PageCovers, NEW th \in Threads, LeaveBarrier(th)
  PROVE  /\ Launching /\ Launching' /\ job' = [job EXCEPT !.stage[task[th]] = job.stage[task[th]] + 1]
         /\ task[th] \in Tasks /\ job.stage[task[th]] \in {2 * k : k \in 1 .. Phases}
         /\ \A s \in Tasks : job.stage[s] >= job.stage[task[th]]
<1>1. pc[th] = "barrier" /\ pc[th] \in Active
  BY DEF LeaveBarrier, Active, InBody
<1>2. PICK t : t = task[th]
  OBVIOUS
<1>3. Launching /\ Launched /\ t \in Tasks /\ th = Ex(t) /\ Placed(t) /\ Typed
  BY <1>1, <1>2, InTask DEF IInv
<1>4. Through = 2 * Phases + 2 /\ Phases \in Nat /\ \A s \in Tasks : job.stage[s] \in 0 .. Through
  BY <1>3, InLaunch DEF Through
<1> DEFINE e == job.stage[t]
<1>5. e \in Nat /\ e % 2 = 0 /\ 0 < e /\ e < Through /\ syncCounter[t] = e \div 2
  <2>1. e % 2 = 0 /\ 0 < e /\ e < Through
    BY <1>1, <1>3 DEF Placed
  <2>2. e # Through /\ e \in Nat
    BY <1>3, <1>4, <2>1
  <2>3. syncCounter[t] = e \div 2
    BY <1>3, <2>2 DEF Placed
  <2> QED
    BY <2>1, <2>2, <2>3
<1>6. e \in {2 * k : k \in 1 .. Phases}
  <2>1. e \div 2 \in 1 .. Phases /\ e = 2 * (e \div 2)
    BY <1>4, <1>5
  <2> QED
    BY <2>1
<1>7. ASSUME NEW s \in Tasks PROVE job.stage[s] >= e
  <2>1. /\ launcher.numTask \in Nat /\ launcher.pageSize \in Nat /\ launcher.numTask <= launcher.pageSize
        /\ s \in 0 .. launcher.numTask - 1 /\ t \in 0 .. launcher.numTask - 1
    BY <1>3 DEF PageCovers, Launched, Typed, LauncherSet
  <2>2. ~ (s >= launcher.pageSize) /\ ~ (t >= launcher.pageSize)
    BY <2>1
  <2>3. syncCounter[s] >= syncCounter[t]
    BY <1>2, <2>1, <2>2 DEF LeaveBarrier
  <2>4. syncCounter[s] = IF job.stage[s] = Through THEN Phases ELSE job.stage[s] \div 2
    BY <1>3 DEF Launched, Placed
  <2>5. job.stage[s] \in Nat
    BY <1>4
  <2> HIDE DEF e
  <2>6. CASE job.stage[s] = Through
    BY <1>4, <1>5, <2>6
  <2>7. CASE job.stage[s] # Through
    <3>1. job.stage[s] \div 2 >= e \div 2
      BY <1>5, <2>3, <2>4, <2>7
    <3> QED
      BY <1>5, <2>5, <3>1
  <2> QED
    BY <2>6, <2>7
<1>8. Launching'
  BY <1>3, RunStepKeeps DEF RunStep
<1> QED
  BY <1>2, <1>3, <1>6, <1>7, <1>8 DEF LeaveBarrier, Advance

\* Every step is a step of ForkJoin or changes neither the launch nor its stages.
LEMMA StepIsForkJoin ==
  ASSUME Setting, IInv, PageCovers, [Next]_vars
  PROVE  [Abstract!Next]_(Abstract!vars)
<1>1. /\ Main \in Threads /\ pc \in [Threads -> PcSet] /\ job \in JobSet /\ Typed /\ Called
      /\ Largest \in Nat /\ Largest >= 1
  BY LargestBounds DEF IInv, Typed, Threads
<1>2. Through = 2 * Phases + 2 /\ Phases \in Nat /\ Through \in Nat /\ Abstract!Through = Through
  BY RequestsAssumption DEF Through, Abstract!Through
<1>3. ASSUME Busy' <=> Busy, job'.stage = job.stage
      PROVE  [Abstract!Next]_(Abstract!vars)
  BY <1>3 DEF Abstract!vars, Busy
<1>4. ASSUME ~Busy, Busy', NEW n \in 1 .. Largest, job'.stage = [t \in 0 .. n - 1 |-> 0]
      PROVE  [Abstract!Next]_(Abstract!vars)
  BY <1>4 DEF Abstract!Next, Abstract!Fork, Busy
<1>5. ASSUME Busy, Busy', NEW t \in Tasks, job.stage[t] = 0 \/ job.stage[t] % 2 = 1,
             job'.stage = [job.stage EXCEPT ![t] = job.stage[t] + 1]
      PROVE  [Abstract!Next]_(Abstract!vars)
  BY <1>5 DEF Abstract!Next, Abstract!Advance, Busy, Tasks
<1>6. ASSUME Busy, Busy', NEW t \in Tasks, job.stage[t] \in {2 * k : k \in 1 .. Phases},
             \A s \in Tasks : job.stage[s] >= job.stage[t],
             job'.stage = [job.stage EXCEPT ![t] = job.stage[t] + 1]
      PROVE  [Abstract!Next]_(Abstract!vars)
  BY <1>6 DEF Abstract!Next, Abstract!Leave, Busy, Tasks
<1>7. ASSUME Busy, ~Busy', \A t \in Tasks : job.stage[t] = Through, job'.stage = job.stage
      PROVE  [Abstract!Next]_(Abstract!vars)
  BY <1>2, <1>7 DEF Abstract!Next, Abstract!Join, Busy, Tasks
<1>8. CASE \/ CreatePool \/ UpdateWorkerConfiguration \/ StartKilling \/ KillQueue \/ JoinWorkers
           \/ RejectLaunch \/ PushTask \/ EndPush \/ WaitForJobs
           \/ (\E c \in Configs : CallConfigure(c)) \/ (\E n \in Requests : CallLaunch(n))
           \/ CallReset("reset") \/ CallReset("exit") \/ (\E w \in TaskId : StopWorker(w))
  <2>1. (Busy' <=> Busy) /\ job'.stage = job.stage
    BY <1>8, SilentSteps
  <2> QED
    BY <1>3, <2>1
<1>9. ASSUME NEW n \in Requests, LaunchAlone(n) PROVE [Abstract!Next]_(Abstract!vars)
  <2>1. ~Busy
    BY <1>9 DEF LaunchAlone, Busy, Launching, InBody, Signalling, Recording
  <2>2. Busy'
    BY <1>1, <1>9 DEF LaunchAlone, Busy
  <2>3. job'.stage = [t \in {0} |-> 0] /\ {0} = 0 .. 1 - 1 /\ 1 \in 1 .. Largest
    BY <1>1, <1>9 DEF LaunchAlone
  <2>4. job'.stage = [t \in 0 .. 1 - 1 |-> 0]
    BY <2>3
  <2> QED
    BY <1>4, <2>1, <2>2, <2>3, <2>4
<1>10. CASE RunAlone
  <2>1. pc[Main] = "alone" /\ Tasks = {0} /\ Busy /\ job.stage \in Stages
    BY <1>1, <1>10 DEF RunAlone, Called, Busy, JobSet
  <2>2. job.stage[0] \in 0 .. Through
    BY <2>1 DEF Stages, Tasks
  <2>3. CASE job.stage[0] < Through
    <3>1. PICK failed : job' = [job EXCEPT !.stage[0] = @ + 1, !.failed = failed]
      BY <1>10, <2>3 DEF RunAlone
    <3>2. job'.stage = [job.stage EXCEPT ![0] = job.stage[0] + 1]
      BY <1>1, <3>1 DEF JobSet
    <3>3. Busy'
      BY <1>10, <2>1, <2>3 DEF RunAlone, Busy
    <3>4. CASE job.stage[0] = 0 \/ job.stage[0] % 2 = 1
      BY <1>5, <2>1, <3>2, <3>3, <3>4
    <3>5. CASE ~ (job.stage[0] = 0 \/ job.stage[0] % 2 = 1)
      <4>1. job.stage[0] % 2 = 0 /\ 0 < job.stage[0]
        BY <1>2, <2>2, <3>5
      <4>2. job.stage[0] \div 2 \in 1 .. Phases /\ job.stage[0] = 2 * (job.stage[0] \div 2)
        BY <1>2, <2>2, <2>3, <4>1
      <4>3. job.stage[0] \in {2 * k : k \in 1 .. Phases}
        BY <4>2
      <4>4. \A s \in Tasks : job.stage[s] >= job.stage[0]
        BY <1>2, <2>1, <2>2
      <4> QED
        BY <1>6, <2>1, <3>2, <3>3, <4>3, <4>4
    <3> QED
      BY <3>4, <3>5
  <2>4. CASE ~ (job.stage[0] < Through)
    <3>1. job' = [job EXCEPT !.result = "ok"] /\ pc' = [pc EXCEPT ![Main] = "idle"]
      BY <1>10, <2>4 DEF RunAlone
    <3>2. job'.stage = job.stage /\ job.stage[0] = Through
      BY <1>1, <1>2, <2>2, <2>4, <3>1 DEF JobSet
    <3>3. ~Busy'
      BY <1>1, <3>1 DEF Busy, Launching, InBody, Signalling, Recording
    <3> QED
      BY <1>7, <2>1, <3>2, <3>3
  <2> QED
    BY <2>3, <2>4
<1>11. CASE InitLauncher
  <2>1. IInv' /\ ~Launching /\ Launching' /\ job'.stage = [t \in 0 .. NumTask - 1 |-> 0]
    BY <1>11, InitLauncherKeeps
  <2>2. pc[Main] # "alone"
    BY <1>11 DEF InitLauncher
  <2>3. NumTask \in 1 .. Largest
    <3>1. call.numTask \in Nat /\ NumTask <= pool.used
      BY <1>1, <1>11, RequestsAssumption DEF InitLauncher, Called
    <3>2. pool.used \in 1 .. pool.numWorkers /\ pool.numWorkers \in 0 .. Largest
      BY <1>1, <1>11 DEF InitLauncher, Typed
    <3> QED
      BY <1>1, <3>1, <3>2 DEF NumTask
  <2>4. PICK n \in 1 .. Largest : n = NumTask
    BY <2>3
  <2> QED
    BY <1>4, <2>1, <2>2, <2>4 DEF Busy
<1>12. ASSUME NEW th \in Threads, (PopTask(th) /\ th \in TaskId) \/ (StartTask0 /\ th = Main)
       PROVE  [Abstract!Next]_(Abstract!vars)
  <2>1. PICK t : t = task'[th]
    OBVIOUS
  <2>2. /\ Launching /\ Launching' /\ t \in Tasks /\ job.stage[t] = 0
        /\ job'.stage = [job.stage EXCEPT ![t] = 1]
    BY <1>12, <2>1, BeginKeeps
  <2>3. job.stage[t] + 1 = 1
    BY <2>2
  <2>4. job'.stage = [job.stage EXCEPT ![t] = job.stage[t] + 1]
    BY <2>2, <2>3
  <2> QED
    BY <1>5, <2>2, <2>4 DEF Busy
<1>13. ASSUME NEW th \in Threads, Arrive(th) \/ ReturnFromTask(th)
       PROVE  [Abstract!Next]_(Abstract!vars)
  <2>1. pc[th] = "body" /\ pc[th] \in Active
    BY <1>13 DEF Arrive, ReturnFromTask, Active, InBody
  <2>2. PICK t : t = task[th]
    OBVIOUS
  <2>3. Launching /\ t \in Tasks /\ th = Ex(t) /\ Placed(t)
    BY <2>1, <2>2, InTask
  <2>4. job.stage[t] % 2 = 1
    BY <2>1, <2>3 DEF Placed
  <2>5. Launching'
    BY <1>13, <2>3, RunStepKeeps DEF RunStep
  <2>6. job'.stage = [job.stage EXCEPT ![t] = job.stage[t] + 1]
    BY <1>1, <1>13, <2>2 DEF Arrive, ReturnFromTask, Advance, JobSet
  <2> QED
    BY <1>5, <2>3, <2>4, <2>5, <2>6 DEF Busy
<1>14. ASSUME NEW th \in Threads, LeaveBarrier(th) PROVE [Abstract!Next]_(Abstract!vars)
  <2>1. PICK t : t = task[th]
    OBVIOUS
  <2>2. /\ Launching /\ Launching' /\ job' = [job EXCEPT !.stage[t] = job.stage[t] + 1]
        /\ t \in Tasks /\ job.stage[t] \in {2 * k : k \in 1 .. Phases}
        /\ \A s \in Tasks : job.stage[s] >= job.stage[t]
    BY <1>14, <2>1, ArrivedAtBarrier
  <2>3. job'.stage = [job.stage EXCEPT ![t] = job.stage[t] + 1]
    BY <1>1, <2>2 DEF JobSet
  <2> QED
    BY <1>6, <2>2, <2>3 DEF Busy
<1>15. CASE CollectErrors
  <2>1. Launching /\ ~Launching' /\ job'.stage = job.stage /\ Open = {}
    BY <1>15, CollectKeeps
  <2>2. pc'[Main] # "alone"
    BY <1>1, <1>15 DEF CollectErrors
  <2>3. \A t \in Tasks : job.stage[t] = Through
    BY <2>1, ThroughWhenClosed
  <2> QED
    BY <1>7, <2>1, <2>2, <2>3 DEF Busy
<1>16. ASSUME NEW th \in Threads, RunStep(th) PROVE [Abstract!Next]_(Abstract!vars)
  <2>1. CASE SignalJobFinish(th) \/ SignalJobError(th) \/ RecordError(th) \/ RaiseFlag(th)
    <3>1. (Busy' <=> Busy) /\ job'.stage = job.stage
      BY <2>1, SilentSteps
    <3> QED
      BY <1>3, <3>1
  <2> QED
    BY <1>13, <1>14, <1>16, <2>1 DEF RunStep
<1>17. CASE UNCHANGED vars
  <2>1. (Busy' <=> Busy) /\ job'.stage = job.stage
    BY <1>17 DEF vars, Busy, Launching
  <2> QED
    BY <1>3, <2>1
<1>18. ASSUME NEW w \in TaskId, WorkerStep(w) PROVE [Abstract!Next]_(Abstract!vars)
  <2>1. w \in Threads
    BY DEF Threads
  <2> QED
    BY <1>8, <1>12, <1>16, <1>18, <2>1 DEF WorkerStep
<1>19. CASE CallStep
  BY <1>8, <1>9, <1>19 DEF CallStep
<1>20. CASE MainStep
  BY <1>1, <1>8, <1>10, <1>11, <1>12, <1>15, <1>16, <1>20 DEF MainStep
<1> QED
  BY <1>17, <1>18, <1>19, <1>20 DEF Next

\* As long as there is a counter for each task the pool is a fork-join executor with barriers:
\* tasks of a launch are begun once, go through all their supersteps side by side and are all
\* through when the call returns, whatever the workers, the configurations and the errors.
THEOREM ImplementsForkJoin ==
  ASSUME Setting
  PROVE  Spec /\ []PageCovers => ForkJoinSpec
<1>1. Init => Abstract!Init
  <2> SUFFICES ASSUME Init PROVE Abstract!Init
    OBVIOUS
  <2>1. pc[Main] = "idle" /\ job.stage = << >>
    BY DEF Init, Threads
  <2>2. ~(Launching \/ pc[Main] = "alone")
    BY <2>1 DEF Launching, InBody, Signalling, Recording
  <2> QED
    BY <2>1, <2>2 DEF Abstract!Init
<1>2. IInv /\ PageCovers /\ [Next]_vars => [Abstract!Next]_(Abstract!vars)
  BY StepIsForkJoin
<1> QED
  BY <1>1, <1>2, Invariance, PTL DEF Spec, ForkJoinSpec, Abstract!Spec

-----------------------------------------------------------------------------
(* Barriers separate the supersteps of any fork-join executor.             *)

\* With a counter for each task no task is in a superstep while another one has not left the
\* superstep before, also when the counters were used by the launch before.
THEOREM BarriersSeparate ==
  ASSUME Setting
  PROVE  Spec /\ []PageCovers => []BarrierSeparates
<1>1. Init => BarrierSeparates
  BY DEF Init, BarrierSeparates
<1>2. ASSUME IInv, PageCovers, [Next]_vars, BarrierSeparates PROVE BarrierSeparates'
  <2>1. [Abstract!Next]_(Abstract!vars)
    BY <1>2, StepIsForkJoin
  <2>2. job.stage \in Stages /\ Through \in Nat /\ Phases \in Nat
    BY <1>2, RequestsAssumption DEF IInv, Typed, JobSet, Through
  <2> DEFINE f == job.stage
             g == job'.stage
  <2>3. \A t \in DOMAIN f : f[t] \in Nat
    BY <2>2 DEF Stages
  <2>4. \A s, t \in DOMAIN f : 2 * ((f[t] - 1) \div 2) <= f[s]
    BY <1>2 DEF BarrierSeparates
  <2>5. ASSUME NEW r \in DOMAIN f, g = [f EXCEPT ![r] = f[r] + 1],
               \/ f[r] = 0 \/ f[r] % 2 = 1
               \/ f[r] % 2 = 0 /\ \A s \in DOMAIN f : f[s] >= f[r]
        PROVE  \A s, t \in DOMAIN g : 2 * ((g[t] - 1) \div 2) <= g[s]
    <3> SUFFICES ASSUME NEW s \in DOMAIN f, NEW t \in DOMAIN f
                 PROVE  2 * ((g[t] - 1) \div 2) <= g[s]
      BY <2>5
    <3>1. f[s] \in Nat /\ f[t] \in Nat /\ f[r] \in Nat /\ 2 * ((f[t] - 1) \div 2) <= f[s]
      BY <2>3, <2>4
    <3>2. g[s] >= f[s] /\ g[s] \in Nat /\ g[t] = IF t = r THEN f[r] + 1 ELSE f[t]
      BY <2>5, <3>1
    <3> HIDE DEF f, g
    <3>3. CASE t # r
      BY <3>1, <3>2, <3>3
    <3>4. CASE t = r /\ f[r] = 0
      BY <3>1, <3>2, <3>4
    <3>5. CASE t = r /\ f[r] % 2 = 1
      <4>1. f[r] \div 2 = (f[r] - 1) \div 2
        BY <3>1, <3>5
      <4> QED
        BY <3>1, <3>2, <3>5, <4>1
    <3>6. CASE t = r /\ f[r] % 2 = 0 /\ \A u \in DOMAIN f : f[u] >= f[r]
      <4>1. 2 * (f[r] \div 2) = f[r] /\ f[s] >= f[r]
        BY <3>1, <3>6
      <4> QED
        BY <3>1, <3>2, <3>6, <4>1
    <3> QED
      BY <2>5, <3>3, <3>4, <3>5, <3>6
  <2>6. CASE g = f
    BY <1>2, <2>6 DEF BarrierSeparates
  <2>7. CASE Abstract!Fork
    <3>1. PICK n \in 1 .. Largest : g = [t \in 0 .. n - 1 |-> 0]
      BY <2>7 DEF Abstract!Fork
    <3>2. \A s, t \in DOMAIN g : g[s] = 0 /\ g[t] = 0
      BY <3>1
    <3>3. 2 * ((0 - 1) \div 2) <= 0
      OBVIOUS
    <3> QED
      BY <3>2, <3>3 DEF BarrierSeparates
  <2>8. ASSUME NEW r \in DOMAIN f, Abstract!Advance(r) PROVE BarrierSeparates'
    BY <2>5, <2>8 DEF Abstract!Advance, BarrierSeparates
  <2>9. ASSUME NEW r \in DOMAIN f, Abstract!Leave(r) PROVE BarrierSeparates'
    <3>1. PICK k \in 1 .. Phases : f[r] = 2 * k
      BY <2>9 DEF Abstract!Leave
    <3>2. f[r] % 2 = 0
      BY <2>2, <3>1
    <3> QED
      BY <2>5, <2>9, <3>2 DEF Abstract!Leave, BarrierSeparates
  <2> QED
    BY <2>1, <2>6, <2>7, <2>8, <2>9 DEF Abstract!Next, Abstract!Join, Abstract!vars
<1>3. IInv /\ PageCovers /\ [Next]_vars /\ BarrierSeparates => BarrierSeparates'
  BY <1>2
<1> QED
  BY <1>1, <1>3, Invariance, PTL DEF Spec

-----------------------------------------------------------------------------
(* The ranges of parallel_for.                                             *)

LEMMA DivisionBounds ==
  ASSUME NEW a \in Nat, NEW n \in Nat \ {0}
  PROVE  a \div n \in Nat /\ n * (a \div n) <= a /\ a < n * (a \div n) + n
OBVIOUS

\* No more than rounded up, and enough for all tasks together.
LEMMA StepBounds ==
  ASSUME NEW begin \in Int, NEW end \in Int, NEW n \in Nat \ {0}
  PROVE  /\ Step(begin, end, n) \in Int
         /\ end <= begin => Step(begin, end, n) <= 0
         /\ begin < end => /\ Step(begin, end, n) > 0
                           /\ n * Step(begin, end, n) >= end - begin
                           /\ n * Step(begin, end, n) <= end - begin + n - 1
<1> DEFINE a == (end - begin) + n - 1
<1>1. CASE a >= 0
  <2> DEFINE q == a \div n
  <2>1. q \in Nat /\ n * q <= a /\ a < n * q + n
    BY <1>1, DivisionBounds
  <2>2. Step(begin, end, n) = q
    BY <1>1 DEF Step, Quotient
  <2>3. ASSUME end <= begin PROVE q <= 0
    <3>1. a < n
      BY <2>3
    <3>2. SUFFICES ASSUME q >= 1 PROVE FALSE
      BY <2>1
    <3>3. n * q >= n
      BY <2>1, <3>2
    <3> QED
      BY <2>1, <3>1, <3>3
  <2>4. ASSUME begin < end PROVE q > 0
    <3>1. a >= n
      BY <2>4
    <3>2. q # 0
      BY <2>1, <3>1
    <3> QED
      BY <2>1, <3>2
  <2> QED
    BY <2>1, <2>2, <2>3, <2>4
<1>2. CASE a < 0
  <2>1. (-a) \div n \in Nat
    BY <1>2, DivisionBounds
  <2>2. Step(begin, end, n) = -((-a) \div n)
    BY <1>2 DEF Step, Quotient
  <2>3. end <= begin
    BY <1>2
  <2> QED
    BY <2>1, <2>2, <2>3
<1> QED
  BY <1>1, <1>2

\* With a step, the range of a task is what lies between its multiples of the step.
LEMMA RangeOfTask ==
  ASSUME NEW begin \in Int, NEW end \in Int, NEW n \in Nat \ {0}, NEW t \in 0 .. n - 1, NEW x \in Int,
         begin < end
  PROVE  x \in Visited(begin, end, n, t) <=>
            /\ x < end
            /\ begin + Step(begin, end, n) * t <= x
            /\ x < begin + Step(begin, end, n) * (t + 1)
<1> DEFINE s == Step(begin, end, n)
           p == s * t
<1>1. s \in Int /\ s > 0 /\ p \in Int /\ s * (t + 1) = p + s
  <2>1. s \in Int /\ s > 0
    BY StepBounds
  <2> HIDE DEF s
  <2> QED
    BY <2>1
<1>2. \/ begin + p <= end /\ LocalBegin(begin, end, n, t) = begin + p
      \/ begin + p > end /\ LocalBegin(begin, end, n, t) = end
  BY <1>1 DEF LocalBegin, Smaller
<1>3. LocalEnd(begin, end, n, t) = Smaller(LocalBegin(begin, end, n, t) + s, end)
  BY DEF LocalEnd
<1> HIDE DEF s, p
<1>4. x \in Visited(begin, end, n, t) <=> x < end /\ begin + p <= x /\ x < begin + p + s
  BY <1>1, <1>2, <1>3 DEF Visited, Smaller
<1> QED
  BY <1>1, <1>4 DEF s, p

\* parallel_for calls flambda once for each index of the range and for no other, whatever
\* the range and the number of tasks; an empty or reversed range calls it for none.
THEOREM EachIndexOnce ==
  ASSUME NEW begin \in Int, NEW end \in Int, NEW n \in Nat \ {0}
  PROVE  /\ \A x \in begin .. end - 1 : \E t \in 0 .. n - 1 : x \in Visited(begin, end, n, t)
         /\ \A t \in 0 .. n - 1 : Visited(begin, end, n, t) \subseteq begin .. end - 1
         /\ \A t, u \in 0 .. n - 1 : t # u => Visited(begin, end, n, t) \cap Visited(begin, end, n, u) = {}
<1> DEFINE s == Step(begin, end, n)
<1>1. s \in Int
  BY StepBounds
<1>2. CASE end <= begin
  <2>1. s <= 0
    BY <1>2, StepBounds
  <2>2. ASSUME NEW t \in 0 .. n - 1 PROVE Visited(begin, end, n, t) = {}
    <3>1. LocalBegin(begin, end, n, t) \in Int
      BY <1>1 DEF LocalBegin, Smaller
    <3>2. LocalEnd(begin, end, n, t) <= LocalBegin(begin, end, n, t)
      BY <1>1, <2>1, <3>1 DEF LocalEnd, Smaller
    <3>3. LocalEnd(begin, end, n, t) \in Int
      BY <1>1, <3>1 DEF LocalEnd, Smaller
    <3> QED
      BY <3>1, <3>2, <3>3 DEF Visited
  <2> QED
    BY <1>2, <2>2
<1>3. CASE begin < end
  <2>1. s > 0 /\ n * s >= end - begin
    BY <1>3, StepBounds
  <2> HIDE DEF s
  <2>2. ASSUME NEW x \in begin .. end - 1 PROVE \E t \in 0 .. n - 1 : x \in Visited(begin, end, n, t)
    <3> DEFINE t == (x - begin) \div s
    <3>1. t \in Nat /\ s * t <= x - begin /\ x - begin < s * t + s
      <4>1. x - begin \in Nat /\ s \in Nat \ {0}
        BY <1>1, <2>1
      <4> QED
        BY <4>1, DivisionBounds
    <3> HIDE DEF t
    <3>2. t < n
      <4> SUFFICES ASSUME t >= n PROVE FALSE
        BY <3>1
      <4>1. s * t >= s * n
        BY <1>1, <2>1, <3>1
      <4> QED
        BY <1>1, <2>1, <3>1, <4>1
    <3>3. s * (t + 1) = s * t + s
      BY <1>1, <3>1
    <3>4. t \in 0 .. n - 1
      BY <3>1, <3>2
    <3>5. /\ x \in Int /\ x < end /\ begin + s * t <= x /\ x < begin + s * (t + 1)
      BY <1>1, <3>1, <3>3
    <3>6. x \in Visited(begin, end, n, t)
      BY <1>3, <3>4, <3>5, RangeOfTask DEF s
    <3> QED
      BY <3>4, <3>6
  <2>3. ASSUME NEW t \in 0 .. n - 1, NEW x \in Visited(begin, end, n, t) PROVE x \in begin .. end - 1
    <3>1. x \in Int
      BY DEF Visited
    <3>2. x < end /\ begin + s * t <= x
      BY <1>3, <3>1, RangeOfTask DEF s
    <3>3. s * t >= 0
      BY <1>1, <2>1
    <3> QED
      BY <1>1, <3>1, <3>2, <3>3
  <2>4. ASSUME NEW t \in 0 .. n - 1, NEW u \in 0 .. n - 1, t < u,
               NEW x \in Visited(begin, end, n, t), x \in Visited(begin, end, n, u)
        PROVE  FALSE
    <3>1. x \in Int
      BY DEF Visited
    <3>2. x < begin + s * (t + 1) /\ begin + s * u <= x
      BY <1>3, <2>4, <3>1, RangeOfTask DEF s
    <3>3. s * (t + 1) <= s * u
      BY <1>1, <2>1, <2>4
    <3> QED
      BY <1>1, <3>1, <3>2, <3>3
  <2>5. ASSUME NEW t \in 0 .. n - 1, NEW u \in 0 .. n - 1, t # u
        PROVE  Visited(begin, end, n, t) \cap Visited(begin, end, n, u) = {}
    <3>1. t < u \/ u < t
      BY <2>5
    <3> QED
      BY <2>4, <3>1
  <2> QED
    BY <2>2, <2>3, <2>5
<1> QED
  BY <1>2, <1>3

\* In words that hold -Limit to Limit - 1 nothing of this overflows, as long as a range of
\* this length put after the end would still fit, with a place for each task.
THEOREM NothingOverflows ==
  ASSUME NEW Limit \in Nat, NEW begin \in Int, NEW end \in Int, NEW n \in Nat \ {0}, NEW t \in 0 .. n - 1,
         -Limit <= begin, begin < end, end + (end - begin) + n <= Limit, (end - begin) + n < Limit
  PROVE  \A x \in {end - begin, (end - begin) + n, (end - begin) + n - 1, Step(begin, end, n),
                   Step(begin, end, n) * t, begin + Step(begin, end, n) * t,
                   LocalBegin(begin, end, n, t), LocalBegin(begin, end, n, t) + Step(begin, end, n),
                   LocalEnd(begin, end, n, t)} : -Limit <= x /\ x < Limit
<1> DEFINE s == Step(begin, end, n)
           p == s * t
           b == LocalBegin(begin, end, n, t)
<1>1. s \in Int /\ s > 0 /\ n * s <= end - begin + n - 1
  BY StepBounds
<1>2. p \in Int /\ 0 <= p /\ p <= n * s
  BY <1>1
<1>3. s <= end - begin
  <2> SUFFICES ASSUME s >= end - begin + 1 PROVE FALSE
    BY <1>1
  <2>1. n * s >= n * (end - begin + 1)
    BY <1>1
  <2>2. n * (end - begin + 1) >= end - begin + n
    BY <1>1
  <2> QED
    BY <1>1, <2>1, <2>2
<1>4. b = Smaller(begin + p, end)
  BY DEF LocalBegin
<1>5. LocalEnd(begin, end, n, t) = Smaller(b + s, end)
  BY DEF LocalEnd
<1> HIDE DEF s, p, b
<1>6. b \in Int /\ begin <= b /\ b <= end
  BY <1>1, <1>2, <1>4 DEF Smaller
<1>7. /\ begin <= LocalEnd(begin, end, n, t) /\ LocalEnd(begin, end, n, t) <= end
      /\ LocalEnd(begin, end, n, t) \in Int
  BY <1>1, <1>5, <1>6 DEF Smaller
<1>8. /\ p <= end - begin + n - 1 /\ b + s <= end + (end - begin)
  BY <1>1, <1>2, <1>3, <1>6
<1> QED
  BY <1>1, <1>2, <1>3, <1>6, <1>7, <1>8 DEF s, p, b
=============================================================================
