---------------------------- MODULE MCThreadPool ----------------------------
(* Model-checking instances of ThreadPool.                                 *)
EXTENDS ThreadPool

Config(m, n, c) == [mode |-> m, nthreads |-> n, cpus |-> c]

\* All the workers, or one of them, or one core, and what was set before undone.
ResizeConfigs == {Config("big", 0, 0), Config("big", 1, 0), Config("specify", 0, 1)}
NoConfigs == {}
LittleConfigs == {Config("little", 0, 0)}
=============================================================================
