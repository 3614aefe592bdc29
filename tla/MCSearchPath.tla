---------------------------- MODULE MCSearchPath ----------------------------
(***************************************************************************)
(* SearchPath for TLC: an index run, and a search of the same daemon or of *)
(* another one, which shares only the directory of models with the run: it *)
(* is checked beside a run that begins with an empty store.                *)
(***************************************************************************)
EXTENDS SearchPath
MCHomes == {h \in [Callers -> Processes] : h[Runner] = 1}
MCInit == Init /\ (table \/ status.error => \A c \in Searchers : Local(c))
MCSpec == MCInit /\ [][Next]_vars /\ Fairness
=============================================================================
