----------------------------- MODULE ScopeLock -----------------------------
(***************************************************************************)
(* What the run lock promises to the index runs of one project scope       *)
(* (IndexStatePort.acquireRunLock / releaseRunLock): at any time at most   *)
(* one run holds it, only its holder gives it back, and the lock of a run  *)
(* whose process died is free again once its lease has ended.              *)
(***************************************************************************)
CONSTANTS
  Runs,       \* the index runs of the scope
  Free,       \* nobody holds the lock
  Orphaned    \* the run that holds the lock has died

VARIABLE holder

ScopeInit == holder = Free

Grant(r) == holder = Free /\ holder' = r

GiveBack(r) == holder = r /\ holder' = Free

\* A run that dies while it writes owner.json leaves no valid lock.
Abandon(r) == holder = r /\ holder' \in {Orphaned, Free}

LeaseEnds == holder = Orphaned /\ holder' = Free

ScopeNext ==
  \/ \E r \in Runs : Grant(r) \/ GiveBack(r) \/ Abandon(r)
  \/ LeaseEnds

ScopeLockSpec == ScopeInit /\ [][ScopeNext]_holder
=============================================================================
