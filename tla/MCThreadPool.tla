---------------------------- MODULE MCThreadPool ----------------------------
(* The pool with its inductive invariant and its refinement, for TLC.       *)
EXTENDS ThreadPoolInv, ThreadPoolImpl
=============================================================================
