-------------------------- MODULE MCWorkspacePool ---------------------------
(* Model-checking instance of WorkspacePool.                              *)
EXTENDS WorkspacePool, TLC

CONSTANTS b1, b2, b3, b4

BlockSet == {b1, b2, b3, b4}

\* The addresses a device returns are alike.
Symmetry == Permutations(BlockSet)
=============================================================================
