------------------------------ MODULE ForkJoin ------------------------------
(***************************************************************************)
(* What the thread pool promises a caller of TVMBackendParallelLaunch: the *)
(* tasks of a launch go through the same number of supersteps, each task   *)
(* once, no task enters a superstep before every task has left the one     *)
(* before, and the call returns when all tasks are through.                *)
(***************************************************************************)
EXTENDS Naturals

CONSTANTS
    MaxTasks,  \* the tasks of a launch are numbered from 0 and are at most that many
    Phases     \* barriers in a task, which therefore has Phases + 1 supersteps

VARIABLES
    busy,   \* a launch is in progress
    stage   \* for each task: 0 before it starts, 2k+1 in superstep k, 2k when it
            \* waits at the k-th barrier, Through when it has ended

vars == <<busy, stage>>

Through == 2 * Phases + 2

Init ==
    /\ busy = FALSE
    /\ stage = << >>

Fork ==
    /\ ~busy
    /\ busy' = TRUE
    /\ \E n \in 1 .. MaxTasks : stage' = [t \in 0 .. n - 1 |-> 0]

\* A task starts, arrives at its next barrier, or ends.
Advance(t) ==
    /\ busy
    /\ stage[t] = 0 \/ stage[t] % 2 = 1
    /\ stage' = [stage EXCEPT ![t] = @ + 1]
    /\ UNCHANGED busy

\* A task leaves a barrier when every task has arrived there.
Leave(t) ==
    /\ busy
    /\ stage[t] \in {2 * k : k \in 1 .. Phases}
    /\ \A s \in DOMAIN stage : stage[s] >= stage[t]
    /\ stage' = [stage EXCEPT ![t] = @ + 1]
    /\ UNCHANGED busy

Join ==
    /\ busy
    /\ \A t \in DOMAIN stage : stage[t] = Through
    /\ busy' = FALSE
    /\ UNCHANGED stage

Next == Fork \/ (\E t \in DOMAIN stage : Advance(t) \/ Leave(t)) \/ Join

Spec == Init /\ [][Next]_vars
=============================================================================
