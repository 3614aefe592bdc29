-------------------------- MODULE MCDaemonStartup --------------------------
(***************************************************************************)
(* DaemonStartup for TLC: two clients of a project, started with the same  *)
(* configuration or with two.                                              *)
(***************************************************************************)
EXTENDS DaemonStartup

CONSTANTS c1, c2, f1, f2

\* No definition names a fingerprint: the first client's is f1.
MCInit == Init /\ config[c1] = f1
MCSpec == MCInit /\ [][Next]_vars /\ Fairness
=============================================================================
