---------------------------- MODULE RunLockProofs ----------------------------
(***************************************************************************)
(* Theorems about RunLock, for every set of runs and every lease that      *)
(* outlasts a call: the invariant LockInv is inductive, and from it follow *)
(* the exclusion properties and the implementation of ScopeLock.           *)
(***************************************************************************)
EXTENDS RunLock, TLAPS

\* Every step keeps the types.
LEMMA TypeStep == LockTypeOK /\ [LockNext]_lockVars => LockTypeOK'
<1> SUFFICES ASSUME LockTypeOK, [LockNext]_lockVars PROVE LockTypeOK'
  OBVIOUS
<1> USE NoRunAssumption, LeaseAssumption DEF PcStates, Acquiring, WindowKinds
<1>1. ASSUME NEW r \in Runs, AcquireBegin(r) PROVE LockTypeOK'
  BY <1>1 DEF AcquireBegin, LockTypeOK
<1>2. ASSUME NEW r \in Runs, Mkdir(r) PROVE LockTypeOK'
  BY <1>2 DEF Mkdir, Hit, LockTypeOK
<1>3. ASSUME NEW r \in Runs, OpenOwner(r) PROVE LockTypeOK'
  BY <1>3 DEF OpenOwner, LockTypeOK
<1>4. ASSUME NEW r \in Runs, WriteOwner(r) PROVE LockTypeOK'
  <2>1. owner' \in Runs \cup {NoRun} /\ ttl' \in Int /\ ttl' <= Lease
    BY <1>4 DEF WriteOwner, FlushOwner, LockTypeOK
  <2>2. /\ pc' \in [Runs -> PcStates]
        /\ fd' \in [Runs -> {"none", "live", "dead"}]
        /\ lag' \in [Runs -> Nat]
    BY <1>4 DEF WriteOwner, FlushOwner, LockTypeOK
  <2> QED
    BY <1>4, <2>1, <2>2 DEF WriteOwner, LockTypeOK
<1>5. ASSUME NEW r \in Runs, Judge(r) PROVE LockTypeOK'
  <2>1. pc' \in [Runs -> PcStates]
    <3>1. pc \in [Runs -> PcStates]
      BY DEF LockTypeOK
    <3>2. \/ pc' = [pc EXCEPT ![r] = "refused"]
          \/ pc' = [pc EXCEPT ![r] = "rm"]
      BY <1>5 DEF Judge
    <3> QED
      BY <3>1, <3>2
  <2>2. lag' \in [Runs -> Nat]
    <3>1. lag \in [Runs -> Nat] /\ 0 \in Nat
      BY DEF LockTypeOK
    <3>2. lag' = lag \/ lag' = [lag EXCEPT ![r] = 0]
      BY <1>5, Zenon DEF Judge
    <3> QED
      BY <3>1, <3>2
  <2>3. windows' \subseteq WindowKinds
    BY <1>5 DEF Judge, Hit, LockTypeOK
  <2> QED
    BY <1>5, <2>1, <2>2, <2>3 DEF Judge, LockTypeOK
<1>6. ASSUME NEW r \in Runs, Reclaim(r) PROVE LockTypeOK'
  BY <1>6 DEF Reclaim, RemoveDir, LockTypeOK
<1>7. ASSUME NEW r \in Runs, TimerStart(r) PROVE LockTypeOK'
  BY <1>7 DEF TimerStart, LockTypeOK
<1>8. ASSUME NEW r \in Runs, TimerStop(r) PROVE LockTypeOK'
  BY <1>8 DEF TimerStop, LockTypeOK
<1>9. ASSUME NEW r \in Runs, RenewRead(r) PROVE LockTypeOK'
  <2>1. CASE owner = r
    BY <1>9, <2>1 DEF RenewRead, LockTypeOK
  <2>2. CASE owner # r
    <3>1. lost' \in [Runs -> BOOLEAN]
      BY <1>9, <2>2 DEF RenewRead, LockTypeOK
    <3> QED
      BY <1>9, <2>2, <3>1 DEF RenewRead, LockTypeOK
  <2> QED
    BY <2>1, <2>2
<1>10. ASSUME NEW r \in Runs, RenewOpen(r) PROVE LockTypeOK'
  BY <1>10 DEF RenewOpen, LockTypeOK
<1>11. ASSUME NEW r \in Runs, RenewWrite(r) PROVE LockTypeOK'
  BY <1>11 DEF RenewWrite, FlushOwner, LockTypeOK
<1>12. ASSUME NEW r \in Runs, ReleaseRead(r) PROVE LockTypeOK'
  BY <1>12 DEF ReleaseRead, Hit, LockTypeOK
<1>13. ASSUME NEW r \in Runs, ReleaseRm(r) PROVE LockTypeOK'
  BY <1>13 DEF ReleaseRm, RemoveDir, LockTypeOK
<1>14. ASSUME NEW r \in Runs, CrashRun(r) PROVE LockTypeOK'
  BY <1>14 DEF CrashRun, LockTypeOK
<1>15. ASSUME Tick PROVE LockTypeOK'
  BY <1>15 DEF Tick, Timing, Hit, LockTypeOK
<1>16. ASSUME UNCHANGED lockVars PROVE LockTypeOK'
  BY <1>16 DEF lockVars, LockTypeOK
<1> QED
  BY <1>1, <1>2, <1>3, <1>4, <1>5, <1>6, <1>7, <1>8, <1>9, <1>10, <1>11, <1>12,
     <1>13, <1>14, <1>15, <1>16
  DEF LockNext, LockStep

\* Every step keeps what is known of the files.
LEMMA FileStep ==
  LockTypeOK /\ FileInv /\ TimerInv /\ [LockNext]_lockVars
    => FileInv'
<1> SUFFICES ASSUME LockTypeOK, FileInv, TimerInv, [LockNext]_lockVars
             PROVE FileInv'
  OBVIOUS
<1> USE NoRunAssumption, LeaseAssumption
<1>1. ASSUME NEW r \in Runs, AcquireBegin(r) PROVE FileInv'
  BY <1>1 DEF AcquireBegin, LockTypeOK, FileInv, TimerInv
<1>2. ASSUME NEW r \in Runs, Mkdir(r) PROVE FileInv'
  BY <1>2 DEF Mkdir, Hit, LockTypeOK, FileInv, TimerInv
<1>3. ASSUME NEW r \in Runs, OpenOwner(r) PROVE FileInv'
  BY <1>3 DEF OpenOwner, LockTypeOK, FileInv, TimerInv
<1>4. ASSUME NEW r \in Runs, WriteOwner(r) PROVE FileInv'
  BY <1>4 DEF WriteOwner, FlushOwner, LockTypeOK, FileInv, TimerInv
<1>5. ASSUME NEW r \in Runs, Judge(r) PROVE FileInv'
  BY <1>5 DEF Judge, Hit, LockTypeOK, FileInv, TimerInv
<1>6. ASSUME NEW r \in Runs, Reclaim(r) PROVE FileInv'
  BY <1>6 DEF Reclaim, RemoveDir, LockTypeOK, FileInv, TimerInv
<1>7. ASSUME NEW r \in Runs, TimerStart(r) PROVE FileInv'
  BY <1>7 DEF TimerStart, LockTypeOK, FileInv, TimerInv
<1>8. ASSUME NEW r \in Runs, TimerStop(r) PROVE FileInv'
  BY <1>8 DEF TimerStop, LockTypeOK, FileInv, TimerInv
<1>9. ASSUME NEW r \in Runs, RenewRead(r) PROVE FileInv'
  BY <1>9 DEF RenewRead, LockTypeOK, FileInv, TimerInv
<1>10. ASSUME NEW r \in Runs, RenewOpen(r) PROVE FileInv'
  BY <1>10 DEF RenewOpen, LockTypeOK, FileInv, TimerInv
<1>11. ASSUME NEW r \in Runs, RenewWrite(r) PROVE FileInv'
  BY <1>11 DEF RenewWrite, FlushOwner, LockTypeOK, FileInv, TimerInv
<1>12. ASSUME NEW r \in Runs, ReleaseRead(r) PROVE FileInv'
  BY <1>12 DEF ReleaseRead, Hit, LockTypeOK, FileInv, TimerInv
<1>13. ASSUME NEW r \in Runs, ReleaseRm(r) PROVE FileInv'
  BY <1>13 DEF ReleaseRm, RemoveDir, LockTypeOK, FileInv, TimerInv
<1>14. ASSUME NEW r \in Runs, CrashRun(r) PROVE FileInv'
  BY <1>14 DEF CrashRun, LockTypeOK, FileInv, TimerInv
<1>15. ASSUME Tick PROVE FileInv'
  BY <1>15 DEF Tick, Timing, Hit, LockTypeOK, FileInv, TimerInv
<1>16. ASSUME UNCHANGED lockVars PROVE FileInv'
  BY <1>16 DEF lockVars, LockTypeOK, FileInv, TimerInv
<1> QED
  BY <1>1, <1>2, <1>3, <1>4, <1>5, <1>6, <1>7, <1>8, <1>9, <1>10, <1>11, <1>12,
     <1>13, <1>14, <1>15, <1>16
  DEF LockNext, LockStep

\* Every step keeps what is known of the renewals.
LEMMA TimerStep == LockTypeOK /\ TimerInv /\ [LockNext]_lockVars => TimerInv'
<1> SUFFICES ASSUME LockTypeOK, TimerInv, [LockNext]_lockVars PROVE TimerInv'
  OBVIOUS
<1> USE NoRunAssumption, LeaseAssumption DEF Acquiring
<1>1. ASSUME NEW r \in Runs, AcquireBegin(r) PROVE TimerInv'
  BY <1>1 DEF AcquireBegin, LockTypeOK, TimerInv
<1>2. ASSUME NEW r \in Runs, Mkdir(r) PROVE TimerInv'
  BY <1>2 DEF Mkdir, Hit, LockTypeOK, TimerInv
<1>3. ASSUME NEW r \in Runs, OpenOwner(r) PROVE TimerInv'
  BY <1>3 DEF OpenOwner, LockTypeOK, TimerInv
<1>4. ASSUME NEW r \in Runs, WriteOwner(r) PROVE TimerInv'
  BY <1>4 DEF WriteOwner, FlushOwner, LockTypeOK, TimerInv
<1>5. ASSUME NEW r \in Runs, Judge(r) PROVE TimerInv'
  BY <1>5 DEF Judge, Hit, LockTypeOK, TimerInv
<1>6. ASSUME NEW r \in Runs, Reclaim(r) PROVE TimerInv'
  BY <1>6 DEF Reclaim, RemoveDir, LockTypeOK, TimerInv
<1>7. ASSUME NEW r \in Runs, TimerStart(r) PROVE TimerInv'
  BY <1>7 DEF TimerStart, LockTypeOK, TimerInv
<1>8. ASSUME NEW r \in Runs, TimerStop(r) PROVE TimerInv'
  BY <1>8 DEF TimerStop, LockTypeOK, TimerInv
<1>9. ASSUME NEW r \in Runs, RenewRead(r) PROVE TimerInv'
  BY <1>9 DEF RenewRead, LockTypeOK, TimerInv
<1>10. ASSUME NEW r \in Runs, RenewOpen(r) PROVE TimerInv'
  BY <1>10 DEF RenewOpen, LockTypeOK, TimerInv
<1>11. ASSUME NEW r \in Runs, RenewWrite(r) PROVE TimerInv'
  BY <1>11 DEF RenewWrite, FlushOwner, LockTypeOK, TimerInv
<1>12. ASSUME NEW r \in Runs, ReleaseRead(r) PROVE TimerInv'
  BY <1>12 DEF ReleaseRead, Hit, LockTypeOK, TimerInv
<1>13. ASSUME NEW r \in Runs, ReleaseRm(r) PROVE TimerInv'
  BY <1>13 DEF ReleaseRm, RemoveDir, LockTypeOK, TimerInv
<1>14. ASSUME NEW r \in Runs, CrashRun(r) PROVE TimerInv'
  BY <1>14 DEF CrashRun, LockTypeOK, TimerInv
<1>15. ASSUME Tick PROVE TimerInv'
  BY <1>15 DEF Tick, Timing, Hit, LockTypeOK, TimerInv
<1>16. ASSUME UNCHANGED lockVars PROVE TimerInv'
  BY <1>16 DEF lockVars, LockTypeOK, TimerInv
<1> QED
  BY <1>1, <1>2, <1>3, <1>4, <1>5, <1>6, <1>7, <1>8, <1>9, <1>10, <1>11, <1>12,
     <1>13, <1>14, <1>15, <1>16
  DEF LockNext, LockStep

\* Every step keeps the loss of a lock final.
LEMMA LostStep ==
  LockTypeOK /\ FileInv /\ TimerInv /\ LostInv /\ [LockNext]_lockVars
    => LostInv'
<1> SUFFICES ASSUME LockTypeOK, FileInv, TimerInv, LostInv, [LockNext]_lockVars
             PROVE LostInv'
  OBVIOUS
<1> USE NoRunAssumption, LeaseAssumption DEF Acquiring
<1>1. ASSUME NEW r \in Runs, AcquireBegin(r) PROVE LostInv'
  BY <1>1 DEF AcquireBegin, LockTypeOK, FileInv, TimerInv, LostInv
<1>2. ASSUME NEW r \in Runs, Mkdir(r) PROVE LostInv'
  BY <1>2 DEF Mkdir, Hit, LockTypeOK, FileInv, TimerInv, LostInv
<1>3. ASSUME NEW r \in Runs, OpenOwner(r) PROVE LostInv'
  BY <1>3 DEF OpenOwner, LockTypeOK, FileInv, TimerInv, LostInv
<1>4. ASSUME NEW r \in Runs, WriteOwner(r) PROVE LostInv'
  BY <1>4 DEF WriteOwner, FlushOwner, LockTypeOK, FileInv, TimerInv, LostInv
<1>5. ASSUME NEW r \in Runs, Judge(r) PROVE LostInv'
  BY <1>5 DEF Judge, Hit, LockTypeOK, FileInv, TimerInv, LostInv
<1>6. ASSUME NEW r \in Runs, Reclaim(r) PROVE LostInv'
  BY <1>6 DEF Reclaim, RemoveDir, LockTypeOK, FileInv, TimerInv, LostInv
<1>7. ASSUME NEW r \in Runs, TimerStart(r) PROVE LostInv'
  BY <1>7 DEF TimerStart, LockTypeOK, FileInv, TimerInv, LostInv
<1>8. ASSUME NEW r \in Runs, TimerStop(r) PROVE LostInv'
  BY <1>8 DEF TimerStop, LockTypeOK, FileInv, TimerInv, LostInv
<1>9. ASSUME NEW r \in Runs, RenewRead(r) PROVE LostInv'
  BY <1>9 DEF RenewRead, LockTypeOK, FileInv, TimerInv, LostInv
<1>10. ASSUME NEW r \in Runs, RenewOpen(r) PROVE LostInv'
  BY <1>10 DEF RenewOpen, LockTypeOK, FileInv, TimerInv, LostInv
<1>11. ASSUME NEW r \in Runs, RenewWrite(r) PROVE LostInv'
  BY <1>11 DEF RenewWrite, FlushOwner, LockTypeOK, FileInv, TimerInv, LostInv
<1>12. ASSUME NEW r \in Runs, ReleaseRead(r) PROVE LostInv'
  BY <1>12 DEF ReleaseRead, Hit, LockTypeOK, FileInv, TimerInv, LostInv
<1>13. ASSUME NEW r \in Runs, ReleaseRm(r) PROVE LostInv'
  BY <1>13 DEF ReleaseRm, RemoveDir, LockTypeOK, FileInv, TimerInv, LostInv
<1>14. ASSUME NEW r \in Runs, CrashRun(r) PROVE LostInv'
  BY <1>14 DEF CrashRun, LockTypeOK, FileInv, TimerInv, LostInv
<1>15. ASSUME Tick PROVE LostInv'
  BY <1>15 DEF Tick, Timing, Hit, LockTypeOK, FileInv, TimerInv, LostInv
<1>16. ASSUME UNCHANGED lockVars PROVE LostInv'
  BY <1>16 DEF lockVars, LockTypeOK, FileInv, TimerInv, LostInv
<1> QED
  BY <1>1, <1>2, <1>3, <1>4, <1>5, <1>6, <1>7, <1>8, <1>9, <1>10, <1>11, <1>12,
     <1>13, <1>14, <1>15, <1>16
  DEF LockNext, LockStep

\* A step that hits no unsafe window keeps the lock exclusive.
LEMMA CalmStep ==
  LockTypeOK /\ FileInv /\ TimerInv /\ CalmInv /\ Calm' /\ [LockNext]_lockVars
    => CalmInv'
<1> SUFFICES ASSUME LockTypeOK, FileInv, TimerInv, CalmInv, Calm',
                    [LockNext]_lockVars
             PROVE CalmInv'
  OBVIOUS
<1> USE NoRunAssumption, LeaseAssumption DEF Acquiring
<1>1. ASSUME NEW r \in Runs, AcquireBegin(r) PROVE CalmInv'
  BY <1>1
  DEF AcquireBegin, LockTypeOK, FileInv, TimerInv, CalmInv, Calm, Engaged,
      Holding
<1>2. ASSUME NEW r \in Runs, Mkdir(r) PROVE CalmInv'
  <2>1. \A p, q \in Runs : (Engaged(p) /\ Engaged(q))' => p = q
    BY <1>2
    DEF Mkdir, Hit, LockTypeOK, FileInv, TimerInv, CalmInv, Calm, Engaged,
        Holding
  <2>2. \A p, q \in Runs : (pc[q] = "rm")' => ~Engaged(p)'
    BY <1>2
    DEF Mkdir, Hit, LockTypeOK, FileInv, TimerInv, CalmInv, Calm, Engaged,
        Holding
  <2>3. ASSUME NEW p \in Runs
        PROVE  /\ Engaged(p)' => dir'
               /\ (Holding(p) /\ renewal[p] # "write")' => (owner = p /\ ttl > 0)'
               /\ (renewal[p] # "rest")' => (pc[p] = "held")'
               /\ (pc[p] = "write" \/ renewal[p] = "write")' => (fd[p] = "live")'
               /\ (pc[p] = "done")' => (owner # p)'
    BY <1>2
    DEF Mkdir, Hit, LockTypeOK, FileInv, TimerInv, CalmInv, Calm, Engaged,
        Holding
  <2> QED
    BY <2>1, <2>2, <2>3 DEF CalmInv
<1>3. ASSUME NEW r \in Runs, OpenOwner(r) PROVE CalmInv'
  BY <1>3
  DEF OpenOwner, LockTypeOK, FileInv, TimerInv, CalmInv, Calm, Engaged, Holding
<1>4. ASSUME NEW r \in Runs, WriteOwner(r) PROVE CalmInv'
  BY <1>4
  DEF WriteOwner, FlushOwner, LockTypeOK, FileInv, TimerInv, CalmInv, Calm,
      Engaged, Holding
<1>5. ASSUME NEW r \in Runs, Judge(r) PROVE CalmInv'
  <2>1. \A p, q \in Runs : (Engaged(p) /\ Engaged(q))' => p = q
    BY <1>5
    DEF Judge, Hit, Critical, Expired, LockTypeOK, FileInv, TimerInv,
        CalmInv, Calm, Engaged, Holding
  <2>2. \A p, q \in Runs : (pc[q] = "rm")' => ~Engaged(p)'
    BY <1>5
    DEF Judge, Hit, Critical, Expired, LockTypeOK, FileInv, TimerInv,
        CalmInv, Calm, Engaged, Holding
  <2>3. ASSUME NEW p \in Runs
        PROVE  /\ Engaged(p)' => dir'
               /\ (Holding(p) /\ renewal[p] # "write")' => (owner = p /\ ttl > 0)'
               /\ (renewal[p] # "rest")' => (pc[p] = "held")'
               /\ (pc[p] = "write" \/ renewal[p] = "write")' => (fd[p] = "live")'
               /\ (pc[p] = "done")' => (owner # p)'
    BY <1>5
    DEF Judge, Hit, Critical, Expired, LockTypeOK, FileInv, TimerInv,
        CalmInv, Calm, Engaged, Holding
  <2> QED
    BY <2>1, <2>2, <2>3 DEF CalmInv
<1>6. ASSUME NEW r \in Runs, Reclaim(r) PROVE CalmInv'
  BY <1>6
  DEF Reclaim, RemoveDir, LockTypeOK, FileInv, TimerInv, CalmInv, Calm,
      Engaged, Holding
<1>7. ASSUME NEW r \in Runs, TimerStart(r) PROVE CalmInv'
  BY <1>7
  DEF TimerStart, LockTypeOK, FileInv, TimerInv, CalmInv, Calm, Engaged,
      Holding
<1>8. ASSUME NEW r \in Runs, TimerStop(r) PROVE CalmInv'
  BY <1>8
  DEF TimerStop, LockTypeOK, FileInv, TimerInv, CalmInv, Calm, Engaged, Holding
<1>9. ASSUME NEW r \in Runs, RenewRead(r) PROVE CalmInv'
  BY <1>9
  DEF RenewRead, LockTypeOK, FileInv, TimerInv, CalmInv, Calm, Engaged, Holding
<1>10. ASSUME NEW r \in Runs, RenewOpen(r) PROVE CalmInv'
  BY <1>10
  DEF RenewOpen, LockTypeOK, FileInv, TimerInv, CalmInv, Calm, Engaged, Holding
<1>11. ASSUME NEW r \in Runs, RenewWrite(r) PROVE CalmInv'
  BY <1>11
  DEF RenewWrite, FlushOwner, LockTypeOK, FileInv, TimerInv, CalmInv, Calm,
      Engaged, Holding
<1>12. ASSUME NEW r \in Runs, ReleaseRead(r) PROVE CalmInv'
  BY <1>12
  DEF ReleaseRead, Hit, LockTypeOK, FileInv, TimerInv, CalmInv, Calm, Engaged,
      Holding
<1>13. ASSUME NEW r \in Runs, ReleaseRm(r) PROVE CalmInv'
  BY <1>13
  DEF ReleaseRm, RemoveDir, LockTypeOK, FileInv, TimerInv, CalmInv, Calm,
      Engaged, Holding
<1>14. ASSUME NEW r \in Runs, CrashRun(r) PROVE CalmInv'
  BY <1>14
  DEF CrashRun, LockTypeOK, FileInv, TimerInv, CalmInv, Calm, Engaged, Holding
<1>15. ASSUME Tick PROVE CalmInv'
  <2>1. UNCHANGED <<dir, owner, pc, fd, renewal>>
    BY <1>15 DEF Tick
  <2>2. ttl' \in Int
    BY <1>15 DEF Tick, LockTypeOK
  <2>3. ~ \E r \in Runs : Holding(r) /\ ttl' <= 0
    BY <1>15 DEF Tick, Hit, Calm
  <2> QED
    BY <2>1, <2>2, <2>3 DEF CalmInv, Engaged, Holding
<1>16. ASSUME UNCHANGED lockVars PROVE CalmInv'
  BY <1>16
  DEF lockVars, LockTypeOK, FileInv, TimerInv, CalmInv, Calm, Engaged, Holding
<1> QED
  BY <1>1, <1>2, <1>3, <1>4, <1>5, <1>6, <1>7, <1>8, <1>9, <1>10, <1>11, <1>12,
     <1>13, <1>14, <1>15, <1>16
  DEF LockNext, LockStep

-----------------------------------------------------------------------------

\* The initial state satisfies the inductive invariant.
LEMMA LockInvInit == LockInit => LockInv
<1> SUFFICES ASSUME LockInit PROVE LockInv
  OBVIOUS
<1> USE NoRunAssumption, LeaseAssumption DEF LockInit
<1>1. LockTypeOK
  <2>1. lost \in [Runs -> BOOLEAN] /\ dir \in BOOLEAN
    OBVIOUS
  <2> QED
    BY <2>1 DEF LockTypeOK, PcStates, WindowKinds
<1>2. FileInv /\ TimerInv
  BY DEF FileInv, TimerInv
<1>4. LostInv
  <2>1. \A r \in Runs : ~lost[r]
    OBVIOUS
  <2> QED
    BY <2>1 DEF LostInv
<1>3. CalmInv
  BY DEF CalmInv, Engaged, Holding
<1> QED
  BY <1>1, <1>2, <1>3, <1>4 DEF LockInv

\* Windows are recorded for good: a step into a calm state starts in one.
LEMMA WindowsGrow ==
  LockInv /\ [LockNext]_lockVars
    => windows \subseteq windows'
<1> SUFFICES ASSUME [LockNext]_lockVars PROVE windows \subseteq windows'
  OBVIOUS
<1>1. CASE Tick
  BY <1>1 DEF Tick, Hit
<1>2. CASE UNCHANGED lockVars
  BY <1>2 DEF lockVars
<1>3. ASSUME NEW r \in Runs,
             \/ AcquireBegin(r) \/ LockStep(r)
             \/ TimerStart(r) \/ TimerStop(r) \/ ReleaseRead(r)
             \/ CrashRun(r)
      PROVE windows \subseteq windows'
  BY <1>3 DEF AcquireBegin, LockStep, Mkdir, OpenOwner, WriteOwner, Judge,
              Reclaim, TimerStart, TimerStop, RenewRead, RenewOpen, RenewWrite,
              ReleaseRead, ReleaseRm, CrashRun, Hit
<1> QED
  BY <1>1, <1>2, <1>3 DEF LockNext

\* The invariant is inductive.
LEMMA LockInvStep == LockInv /\ [LockNext]_lockVars => LockInv'
<1> SUFFICES ASSUME LockInv, [LockNext]_lockVars PROVE LockInv'
  OBVIOUS
<1>1. LockTypeOK' /\ FileInv' /\ TimerInv' /\ LostInv'
  BY TypeStep, FileStep, TimerStep, LostStep DEF LockInv
<1>2. ASSUME Calm' PROVE CalmInv'
  <2>1. CalmInv
    BY <1>2, WindowsGrow DEF LockInv, Calm
  <2> QED
    BY <1>2, <2>1, CalmStep DEF LockInv
<1> QED
  BY <1>1, <1>2 DEF LockInv

\* Every reachable state of the lock satisfies the inductive invariant.
THEOREM LockInvariant == LockSpec => []LockInv
<1>1. LockInit => LockInv
  BY LockInvInit
<1>2. LockInv /\ [LockNext]_lockVars => LockInv'
  BY LockInvStep
<1> QED
  BY <1>1, <1>2, PTL DEF LockSpec

\* Type correctness of the lock, for any set of runs and any lease.
THEOREM LockTypeCorrect == LockSpec => []LockTypeOK
<1>1. LockInv => LockTypeOK
  BY DEF LockInv
<1> QED
  BY <1>1, LockInvariant, PTL

\* For any number of runs and any lease longer than a call, two runs are past
\* their mkdir together only after an unsafe window was hit.
THEOREM Exclusion == LockSpec => []CalmExclusion
<1>1. LockInv => CalmExclusion
  BY DEF LockInv, CalmInv, CalmExclusion
<1> QED
  BY <1>1, LockInvariant, PTL

\* For any number of runs, a calm holder is named by an unexpired owner.json.
THEOREM HolderNamed == LockSpec => []CalmHolderNamed
<1>1. LockInv => CalmHolderNamed
  BY DEF LockInv, CalmInv, CalmHolderNamed, Engaged
<1> QED
  BY <1>1, LockInvariant, PTL

\* For any number of runs, a calm release leaves nothing of the run behind.
THEOREM Released == LockSpec => []CalmReleased
<1>1. LockInv => CalmReleased
  BY DEF LockInv, FileInv, CalmInv, CalmReleased
<1> QED
  BY <1>1, LockInvariant, PTL

\* A lost lock never comes back, in every window: assertOwned may look at the
\* latest renewal only.
THEOREM LossFinal == LockSpec => LostIsFinal
<1>1. LockInv /\ [LockNext]_lockVars
        => [\A r \in Runs : lost[r] => lost'[r]]_lockVars
  <2> SUFFICES ASSUME LockInv, LockNext, NEW q \in Runs, lost[q] PROVE lost'[q]
    BY DEF lockVars
  <2>1. /\ renewal[q] = "rest"
        /\ lost \in [Runs -> BOOLEAN]
    BY DEF LockInv, LostInv, LockTypeOK
  <2>2. ASSUME NEW r \in Runs, RenewWrite(r) PROVE lost'[q]
    <3>1. r # q
      BY <2>1, <2>2 DEF RenewWrite
    <3> QED
      BY <2>1, <2>2, <3>1 DEF RenewWrite
  <2>3. ASSUME NEW r \in Runs, RenewRead(r) \/ RenewOpen(r) PROVE lost'[q]
    BY <2>1, <2>3 DEF RenewRead, RenewOpen
  <2>4. ASSUME NEW r \in Runs,
               \/ AcquireBegin(r) \/ Mkdir(r) \/ OpenOwner(r) \/ WriteOwner(r)
               \/ Judge(r) \/ Reclaim(r) \/ TimerStart(r) \/ TimerStop(r)
               \/ ReleaseRead(r) \/ ReleaseRm(r) \/ CrashRun(r)
        PROVE lost'[q]
    BY <2>4 DEF AcquireBegin, Mkdir, OpenOwner, WriteOwner, Judge, Reclaim,
                TimerStart, TimerStop, ReleaseRead, ReleaseRm, CrashRun
  <2>5. CASE Tick
    BY <2>5 DEF Tick
  <2> QED
    BY <2>2, <2>3, <2>4, <2>5 DEF LockNext, LockStep
<1> QED
  BY <1>1, LockInvariant, PTL DEF LockSpec, LostIsFinal

-----------------------------------------------------------------------------
(* RunLock implements ScopeLock *)

Uncontested == IF owner = NoRun THEN NoRun ELSE Orphaned

HolderFact ==
  /\ \A q \in Runs : Engaged(q) => AbstractHolder = q
  /\ (\A q \in Runs : ~Engaged(q)) => AbstractHolder = Uncontested

\* The abstract holder is the engaged run, if there is one.
LEMMA HolderDefined == LockInv /\ Calm => HolderFact
<1> SUFFICES ASSUME LockInv, Calm PROVE HolderFact
  OBVIOUS
<1>0. AbstractHolder = CalmHolder
  BY DEF AbstractHolder
<1>1. \A r, q \in Runs : Engaged(r) /\ Engaged(q) => r = q
  BY DEF LockInv, CalmInv
<1>2. ASSUME NEW q \in Runs, Engaged(q) PROVE AbstractHolder = q
  BY <1>0, <1>1, <1>2, Zenon DEF CalmHolder
<1>3. ASSUME \A q \in Runs : ~Engaged(q) PROVE AbstractHolder = Uncontested
  BY <1>0, <1>3 DEF CalmHolder, Uncontested
<1> QED
  BY <1>2, <1>3 DEF HolderFact

\* The same of the state after a step.
LEMMA HolderDefinedAfter == LockInv' /\ Calm' => HolderFact'
BY HolderDefined, PTL

\* A calm step of the files is a step of the abstract lock, or none.
LEMMA CalmStepRefines ==
  LockInv /\ LockInv' /\ Calm /\ Calm' /\ [LockNext]_lockVars
    => [Scope!ScopeNext]_AbstractHolder
<1> SUFFICES ASSUME LockInv, LockInv', Calm, Calm', [LockNext]_lockVars
             PROVE Scope!ScopeNext \/ AbstractHolder' = AbstractHolder
  OBVIOUS
<1> USE NoRunAssumption
<1>1. /\ LockTypeOK /\ FileInv /\ CalmInv
      /\ LockTypeOK' /\ FileInv' /\ CalmInv'
  BY DEF LockInv
<1>2. ASSUME NEW q \in Runs, Engaged(q), Engaged(q)'
      PROVE AbstractHolder' = AbstractHolder
  BY <1>2, HolderDefined, HolderDefinedAfter DEF HolderFact
<1>3. ASSUME \A q \in Runs : ~Engaged(q) /\ ~Engaged(q)', owner' = owner
      PROVE AbstractHolder' = AbstractHolder
  BY <1>3, HolderDefined, HolderDefinedAfter DEF HolderFact, Uncontested
<1>4. ASSUME UNCHANGED <<owner, pc>> PROVE AbstractHolder' = AbstractHolder
  BY <1>2, <1>3, <1>4 DEF Engaged, Holding
<1>5. ASSUME NEW r \in Runs, ~Engaged(r),
             AcquireBegin(r) \/ Judge(r) \/ CrashRun(r)
      PROVE AbstractHolder' = AbstractHolder
  <2>1. PICK v \in {"mkdir", "refused", "rm", "dead"} :
              pc' = [pc EXCEPT ![r] = v] /\ owner' = owner
    BY <1>5 DEF AcquireBegin, Judge, CrashRun
  <2>2. ~Engaged(r)' /\ \A q \in Runs \ {r} : Engaged(q)' <=> Engaged(q)
    BY <1>1, <2>1 DEF LockTypeOK, Engaged, Holding
  <2> QED
    BY <1>2, <1>3, <1>5, <2>1, <2>2
<1>6. ASSUME NEW r \in Runs, Mkdir(r)
      PROVE Scope!ScopeNext \/ AbstractHolder' = AbstractHolder
  <2>1. CASE dir
    <3>1. /\ owner' = owner
          /\ \A q \in Runs : Engaged(q)' <=> Engaged(q)
      BY <1>1, <1>6, <2>1 DEF Mkdir, LockTypeOK, Engaged, Holding
    <3> QED
      BY <1>2, <1>3, <3>1
  <2>2. CASE ~dir
    <3>1. /\ \A q \in Runs : ~Engaged(q)
          /\ owner = NoRun
      BY <1>1, <2>2 DEF CalmInv, FileInv
    <3>2. AbstractHolder = NoRun
      BY <3>1, HolderDefined DEF HolderFact, Uncontested
    <3>3. Engaged(r)'
      BY <1>1, <1>6, <2>2 DEF Mkdir, LockTypeOK, Engaged
    <3>4. AbstractHolder' = r
      BY <3>3, HolderDefinedAfter DEF HolderFact
    <3> QED
      BY <3>2, <3>4 DEF Scope!ScopeNext, Scope!Grant
  <2> QED
    BY <2>1, <2>2
<1>7. ASSUME NEW r \in Runs,
             OpenOwner(r) \/ WriteOwner(r) \/ RenewOpen(r) \/ RenewWrite(r)
      PROVE AbstractHolder' = AbstractHolder
  <2>1. Engaged(r) /\ Engaged(r)'
    BY <1>1, <1>7 DEF OpenOwner, WriteOwner, RenewOpen, RenewWrite, FlushOwner,
                      LockTypeOK, CalmInv, Engaged, Holding
  <2> QED
    BY <1>2, <2>1
<1>8. ASSUME NEW r \in Runs, Reclaim(r)
      PROVE Scope!ScopeNext \/ AbstractHolder' = AbstractHolder
  <2>1. /\ \A q \in Runs : ~Engaged(q)
        /\ \A q \in Runs : ~Engaged(q)'
        /\ owner' = NoRun
    BY <1>1, <1>8 DEF Reclaim, RemoveDir, LockTypeOK, CalmInv, Engaged, Holding
  <2>2. AbstractHolder \in {NoRun, Orphaned} /\ AbstractHolder' = NoRun
    BY <2>1, HolderDefined, HolderDefinedAfter DEF HolderFact, Uncontested
  <2> QED
    BY <2>2 DEF Scope!ScopeNext, Scope!LeaseEnds
<1>9. ASSUME NEW r \in Runs, ReleaseRead(r)
      PROVE AbstractHolder' = AbstractHolder
  <2>1. renewal[r] = "rest"
    BY <1>9 DEF ReleaseRead, Hit, Calm
  <2>2. Engaged(r) /\ Engaged(r)'
    BY <1>1, <1>9, <2>1 DEF ReleaseRead, LockTypeOK, CalmInv, Engaged, Holding
  <2> QED
    BY <1>2, <2>2
<1>10. ASSUME NEW r \in Runs, ReleaseRm(r) PROVE Scope!ScopeNext
  <2>1. /\ Engaged(r)
        /\ \A q \in Runs : ~Engaged(q)'
        /\ owner' = NoRun
    BY <1>1, <1>10
    DEF ReleaseRm, RemoveDir, LockTypeOK, CalmInv, Engaged, Holding
  <2>2. AbstractHolder = r /\ AbstractHolder' = NoRun
    BY <2>1, HolderDefined, HolderDefinedAfter DEF HolderFact, Uncontested
  <2> QED
    BY <2>2 DEF Scope!ScopeNext, Scope!GiveBack
<1>11. ASSUME NEW r \in Runs, CrashRun(r), Engaged(r) PROVE Scope!ScopeNext
  <2>1. \A q \in Runs : ~Engaged(q)'
    BY <1>1, <1>11 DEF CrashRun, LockTypeOK, CalmInv, Engaged, Holding
  <2>2. AbstractHolder = r /\ AbstractHolder' \in {NoRun, Orphaned}
    BY <1>11, <2>1, HolderDefined, HolderDefinedAfter
    DEF HolderFact, Uncontested
  <2> QED
    BY <2>2 DEF Scope!ScopeNext, Scope!Abandon
<1>12. ASSUME NEW r \in Runs, TimerStart(r) \/ TimerStop(r) \/ RenewRead(r)
       PROVE AbstractHolder' = AbstractHolder
  BY <1>4, <1>12 DEF TimerStart, TimerStop, RenewRead
<1>13. ASSUME NEW r \in Runs, AcquireBegin(r) \/ Judge(r) PROVE ~Engaged(r)
  BY <1>13 DEF AcquireBegin, Judge, Engaged, Holding
<1>14. ASSUME Tick \/ UNCHANGED lockVars PROVE AbstractHolder' = AbstractHolder
  BY <1>4, <1>14 DEF Tick, lockVars
<1> QED
  BY <1>5, <1>6, <1>7, <1>8, <1>9, <1>10, <1>11, <1>12, <1>13, <1>14
  DEF LockNext, LockStep

\* The step into an unsafe window gives the abstract holder up, if there is
\* one: it returns the lock, or its lease ends.
LEMMA WindowStepRefines ==
  LockInv /\ Calm /\ ~Calm' => [Scope!ScopeNext]_AbstractHolder
<1> SUFFICES ASSUME LockInv, Calm, ~Calm'
             PROVE Scope!ScopeNext \/ AbstractHolder' = AbstractHolder
  OBVIOUS
<1>1. AbstractHolder' = NoRun
  BY DEF AbstractHolder
<1>2. CASE \E q \in Runs : Engaged(q)
  <2>1. PICK q \in Runs : AbstractHolder = q
    BY <1>2, HolderDefined DEF HolderFact
  <2> QED
    BY <1>1, <2>1 DEF Scope!ScopeNext, Scope!GiveBack
<1>3. CASE \A q \in Runs : ~Engaged(q)
  <2>1. AbstractHolder \in {NoRun, Orphaned}
    BY <1>3, HolderDefined DEF HolderFact, Uncontested
  <2> QED
    BY <1>1, <2>1 DEF Scope!ScopeNext, Scope!LeaseEnds
<1> QED
  BY <1>2, <1>3

\* Every step of the files is a step of the abstract lock, or none.
LEMMA StepRefines ==
  LockInv /\ LockInv' /\ [LockNext]_lockVars
    => [Scope!ScopeNext]_AbstractHolder
<1> SUFFICES ASSUME LockInv, LockInv', [LockNext]_lockVars
             PROVE [Scope!ScopeNext]_AbstractHolder
  OBVIOUS
<1>1. CASE ~Calm
  <2>1. ~Calm'
    BY <1>1, WindowsGrow DEF Calm
  <2> QED
    BY <1>1, <2>1 DEF AbstractHolder
<1>2. CASE Calm /\ ~Calm'
  BY <1>2, WindowStepRefines
<1>3. CASE Calm /\ Calm'
  BY <1>3, CalmStepRefines
<1> QED
  BY <1>1, <1>2, <1>3

\* For any number of runs, the interleaved reads and writes of the lock files
\* implement the atomic lock ScopeLock as long as no unsafe window is hit.
THEOREM RefinesScopeLock == LockSpec => ImplementsScopeLock
<1>1. LockInit => Scope!ScopeInit
  BY DEF LockInit, Scope!ScopeInit, AbstractHolder, CalmHolder, Engaged,
         Holding, Calm
<1>2. LockInv /\ LockInv' /\ [LockNext]_lockVars
        => [Scope!ScopeNext]_AbstractHolder
  BY StepRefines
<1> QED
  BY <1>1, <1>2, LockInvariant, PTL
  DEF LockSpec, ImplementsScopeLock, Scope!ScopeLockSpec
=============================================================================
