---------------------------- MODULE MCRunLock ----------------------------
(***************************************************************************)
(* RunLock for TLC: two runs of one project scope, in every interleaving   *)
(* and with liveness.  RunLockProofs proves the safety for any number.     *)
(***************************************************************************)
EXTENDS RunLock, TLC, FiniteSets

CONSTANTS r1, r2

\* Runs are interchangeable: no definition names one of them.
RunSymmetry == Permutations(Runs)
=============================================================================
