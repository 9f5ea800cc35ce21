---------------------------- MODULE ParallelFor -----------------------------
(***************************************************************************)
(* parallel_for_with_threading_backend of threading_backend.h: the indices *)
(* begin to end - 1 are divided among the tasks of one launch, which the   *)
(* thread pool runs once each.                                             *)
(***************************************************************************)
EXTENDS Integers

\* The division of C++ by a positive number.
Quotient(a, n) == IF a >= 0 THEN a \div n ELSE -((-a) \div n)

Smaller(a, b) == IF a <= b THEN a ELSE b

\* The length of all ranges but the last ones, total_len / num_task rounded up.
Step(begin, end, num_task) == Quotient((end - begin) + num_task - 1, num_task)

LocalBegin(begin, end, num_task, task_id) ==
    Smaller(begin + Step(begin, end, num_task) * task_id, end)

LocalEnd(begin, end, num_task, task_id) ==
    Smaller(LocalBegin(begin, end, num_task, task_id) + Step(begin, end, num_task), end)

\* The indices flaunch visits; a range of one index is visited without a launch, as by
\* a single task.
Visited(begin, end, num_task, task_id) ==
    {i \in Int : /\ LocalBegin(begin, end, num_task, task_id) <= i
                 /\ i < LocalEnd(begin, end, num_task, task_id)}
=============================================================================
