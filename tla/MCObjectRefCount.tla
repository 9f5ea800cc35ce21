-------------------------- MODULE MCObjectRefCount --------------------------
(* Model-checking instance of ObjectRefCount.                              *)
EXTENDS ObjectRefCount
=============================================================================
