------------------------------ MODULE RunLock ------------------------------
(***************************************************************************)
(* The run lock of one project scope: a directory created with mkdir, and  *)
(* in it owner.json, which names the run that holds the lock and when its  *)
(* lease ends (FileIndexStateRepository).  Every `await` of the code is a  *)
(* boundary between two steps here, so that acquisitions, renewals and     *)
(* releases of several runs interleave as they do in one Node process or   *)
(* in several.                                                             *)
(*                                                                         *)
(* writeFile opens the file with truncation and writes afterwards: between *)
(* the two, and before the first of them, a reader finds no parsable       *)
(* owner.json.  A write to a file that was removed after it was opened     *)
(* succeeds and has no effect.  `rm -r` is one step.                       *)
(*                                                                         *)
(* Time is the lease that is left (ttl), counted in ticks.  `now` is read  *)
(* once per call; lag is the number of ticks since the call read it.       *)
(***************************************************************************)
EXTENDS Integers

CONSTANTS
  Runs,         \* identifiers of index runs; each is used by one execute()
  NoRun,        \* "owner.json is missing or cannot be parsed"
  Orphaned,     \* abstract holder: a run that died
  Lease,        \* INDEX_RUN_LOCK_LEASE_MS, in ticks
  RenewEvery,   \* INDEX_RUN_LOCK_RENEW_INTERVAL_MS, in ticks
  MaxLag        \* bound: no call takes longer than this many ticks

ASSUME NoRunAssumption ==
  NoRun \notin Runs /\ Orphaned \notin Runs /\ NoRun # Orphaned
ASSUME LeaseAssumption ==
  /\ Lease \in Nat /\ RenewEvery \in Nat /\ MaxLag \in Nat
  /\ MaxLag < Lease

VARIABLES
  dir,      \* does the lock directory exist
  owner,    \* the run a parsable owner.json names, or NoRun
  ttl,      \* ticks until the lease in owner.json expires (<= 0: expired)
  pc,       \* pc[r]: where run r is in acquire / hold / release
  fd,       \* fd[r]: the owner.json run r has opened for writing
  lag,      \* lag[r]: ticks since the call of r under way read the clock
  timer,    \* timer[r]: the renewal interval of r
  since,    \* since[r]: ticks since the interval of r last fired
  renewal,  \* renewal[r]: where the renewal of r in flight is
  lost,     \* lost[r]: the latest renewal of r was rejected
  windows   \* history: the unsafe windows that some run has hit

lockVars ==
  <<dir, owner, ttl, pc, fd, lag, timer, since, renewal, lost, windows>>

Acquiring == {"mkdir", "open", "write", "judge", "rm"}
PcStates == {"idle", "held", "rmOwn", "done", "refused", "threw", "dead"}
              \cup Acquiring
WindowKinds == {"reclaim", "create", "straggler", "lapse"}

\* From a successful mkdir until the lock is given back.
Holding(r) == pc[r] \in {"held", "rmOwn"}
Engaged(r) == pc[r] \in {"open", "write"} \/ Holding(r)

\* Run q is between two steps that belong together.
Critical(q) == pc[q] \in {"open", "write", "rm"} \/ renewal[q] = "write"

Hit(kind, condition) ==
  windows' = IF condition THEN windows \cup {kind} ELSE windows

\* Removing the directory unlinks any owner.json that is open.
RemoveDir ==
  /\ dir' = FALSE
  /\ owner' = NoRun
  /\ fd' = [q \in Runs |-> IF fd[q] = "live" THEN "dead" ELSE fd[q]]
  /\ UNCHANGED ttl

\* Variant: the boundary of isRunLockExpired is off by one tick.
ExpiredEarly(r) == ttl + lag[r] <= 1

\* isRunLockExpired(existing, now), with the `now` the call of r captured.
Expired(r) == ttl + lag[r] <= 0

LockInit ==
  /\ dir = FALSE /\ owner = NoRun /\ ttl = 0
  /\ pc = [r \in Runs |-> "idle"]
  /\ fd = [r \in Runs |-> "none"]
  /\ lag = [r \in Runs |-> 0]
  /\ timer = [r \in Runs |-> "off"]
  /\ since = [r \in Runs |-> 0]
  /\ renewal = [r \in Runs |-> "rest"]
  /\ lost = [r \in Runs |-> FALSE]
  /\ windows = {}

-----------------------------------------------------------------------------
(* acquireRunLock *)

\* The call reads the clock; a refused run may call a second time.
AcquireBegin(r) ==
  /\ pc[r] \in {"idle", "refused"}
  /\ pc' = [pc EXCEPT ![r] = "mkdir"]
  /\ lag' = [lag EXCEPT ![r] = 0]
  /\ UNCHANGED <<dir, owner, ttl, fd, timer, since, renewal, lost, windows>>

\* Variant: mkdir with recursive: true, which succeeds on an existing lock.
MkdirRecursive(r) ==
  /\ pc[r] = "mkdir"
  /\ dir' = TRUE
  /\ pc' = [pc EXCEPT ![r] = "open"]
  /\ Hit("create", \E q \in Runs : pc[q] = "rm")
  /\ UNCHANGED <<owner, ttl, fd, lag, timer, since, renewal, lost>>

Mkdir(r) ==
  /\ pc[r] = "mkdir"
  /\ \/ /\ ~dir
        /\ dir' = TRUE
        /\ pc' = [pc EXCEPT ![r] = "open"]
        /\ Hit("create", \E q \in Runs : pc[q] = "rm")
     \/ /\ dir                                              \* EEXIST
        /\ pc' = [pc EXCEPT ![r] = "judge"]
        /\ UNCHANGED <<dir, windows>>
  /\ UNCHANGED <<owner, ttl, fd, lag, timer, since, renewal, lost>>

OpenOwner(r) ==
  /\ pc[r] = "open"
  /\ \/ /\ dir
        /\ owner' = NoRun                                   \* truncated
        /\ fd' = [fd EXCEPT ![r] = "live"]
        /\ pc' = [pc EXCEPT ![r] = "write"]
     \/ /\ ~dir                                         \* ENOENT is rethrown
        /\ pc' = [pc EXCEPT ![r] = "threw"]
        /\ UNCHANGED <<owner, fd>>
  /\ UNCHANGED <<dir, ttl, lag, timer, since, renewal, lost, windows>>

\* Variant: the old lease is spread over the new one.
FlushOwnerKeepsLease(r) ==
  /\ fd' = [fd EXCEPT ![r] = "none"]
  /\ owner' = IF fd[r] = "live" THEN r ELSE owner
  /\ UNCHANGED ttl

\* The content of a writeFile reaches owner.json if the file is still linked.
FlushOwner(r) ==
  /\ fd' = [fd EXCEPT ![r] = "none"]
  /\ owner' = IF fd[r] = "live" THEN r ELSE owner
  /\ ttl' = IF fd[r] = "live" THEN Lease - lag[r] ELSE ttl

WriteOwner(r) ==
  /\ pc[r] = "write"
  /\ FlushOwner(r)
  /\ pc' = [pc EXCEPT ![r] = "held"]
  /\ lag' = [lag EXCEPT ![r] = 0]
  /\ UNCHANGED <<dir, timer, since, renewal, lost, windows>>

\* Variant: a valid lock is waited for instead of refused.
JudgeSpins(r) ==
  /\ pc[r] = "judge"
  /\ \/ /\ owner # NoRun /\ ~Expired(r)
        /\ pc' = [pc EXCEPT ![r] = "mkdir"]
        /\ UNCHANGED windows
     \/ /\ owner = NoRun \/ Expired(r)
        /\ pc' = [pc EXCEPT ![r] = "rm"]
        /\ Hit("reclaim", \E q \in Runs \ {r} : Critical(q))
  /\ UNCHANGED <<dir, owner, ttl, fd, lag, timer, since, renewal, lost>>

\* readRunLock after EEXIST, and the verdict on what it returned.
Judge(r) ==
  /\ pc[r] = "judge"
  /\ \/ /\ owner # NoRun /\ ~Expired(r)
        /\ pc' = [pc EXCEPT ![r] = "refused"]
        /\ lag' = [lag EXCEPT ![r] = 0]
        /\ UNCHANGED windows
     \/ /\ owner = NoRun \/ Expired(r)
        /\ pc' = [pc EXCEPT ![r] = "rm"]
        /\ Hit("reclaim", \E q \in Runs \ {r} : Critical(q))
        /\ UNCHANGED lag
  /\ UNCHANGED <<dir, owner, ttl, fd, timer, since, renewal, lost>>

Reclaim(r) ==
  /\ pc[r] = "rm"
  /\ RemoveDir
  /\ pc' = [pc EXCEPT ![r] = "mkdir"]
  /\ UNCHANGED <<lag, timer, since, renewal, lost, windows>>

-----------------------------------------------------------------------------
(* createLockRenewal and renewRunLock *)

TimerStart(r) ==
  /\ pc[r] = "held" /\ timer[r] = "off"
  /\ timer' = [timer EXCEPT ![r] = "armed"]
  /\ since' = [since EXCEPT ![r] = 0]
  /\ UNCHANGED <<dir, owner, ttl, pc, fd, lag, renewal, lost, windows>>

\* Clearing the interval does not cancel a renewal that is in flight.
TimerStop(r) ==
  /\ timer[r] = "armed"
  /\ timer' = [timer EXCEPT ![r] = "stopped"]
  /\ since' = [since EXCEPT ![r] = 0]
  /\ UNCHANGED <<dir, owner, ttl, pc, fd, lag, renewal, lost, windows>>

\* Variant: any parsable owner.json is renewed, whomever it names.
RenewReadAnyOwner(r) ==
  /\ timer[r] = "armed" /\ since[r] >= RenewEvery /\ renewal[r] = "rest"
  /\ since' = [since EXCEPT ![r] = 0]
  /\ \/ /\ owner # NoRun
        /\ renewal' = [renewal EXCEPT ![r] = "open"]
        /\ lag' = [lag EXCEPT ![r] = 0]
        /\ UNCHANGED lost
     \/ /\ owner = NoRun
        /\ lost' = [lost EXCEPT ![r] = TRUE]
        /\ UNCHANGED <<renewal, lag>>
  /\ UNCHANGED <<dir, owner, ttl, pc, fd, timer, windows>>

\* The interval fires; renewRunLock reads the clock and then owner.json.
RenewRead(r) ==
  /\ timer[r] = "armed" /\ since[r] >= RenewEvery /\ renewal[r] = "rest"
  /\ since' = [since EXCEPT ![r] = 0]
  /\ \/ /\ owner = r
        /\ renewal' = [renewal EXCEPT ![r] = "open"]
        /\ lag' = [lag EXCEPT ![r] = 0]
        /\ UNCHANGED lost
     \/ /\ owner # r
        /\ lost' = [lost EXCEPT ![r] = TRUE]
        /\ UNCHANGED <<renewal, lag>>
  /\ UNCHANGED <<dir, owner, ttl, pc, fd, timer, windows>>

RenewOpen(r) ==
  /\ renewal[r] = "open"
  /\ \/ /\ dir
        /\ owner' = NoRun
        /\ fd' = [fd EXCEPT ![r] = "live"]
        /\ renewal' = [renewal EXCEPT ![r] = "write"]
        /\ UNCHANGED lost
     \/ /\ ~dir                                         \* rejects with ENOENT
        /\ lost' = [lost EXCEPT ![r] = TRUE]
        /\ renewal' = [renewal EXCEPT ![r] = "rest"]
        /\ UNCHANGED <<owner, fd>>
  /\ UNCHANGED <<dir, ttl, pc, lag, timer, since, windows>>

\* Variant: the lease is added to what is left of the old one, so that leases
\* renewed early pile up.
RenewWriteExtends(r) ==
  /\ renewal[r] = "write"
  /\ fd' = [fd EXCEPT ![r] = "none"]
  /\ owner' = IF fd[r] = "live" THEN r ELSE owner
  /\ ttl' = IF fd[r] = "live" THEN ttl + Lease ELSE ttl
  /\ renewal' = [renewal EXCEPT ![r] = "rest"]
  /\ lost' = [lost EXCEPT ![r] = FALSE]
  /\ lag' = [lag EXCEPT ![r] = 0]
  /\ UNCHANGED <<dir, pc, timer, since, windows>>

RenewWrite(r) ==
  /\ renewal[r] = "write"
  /\ FlushOwner(r)
  /\ renewal' = [renewal EXCEPT ![r] = "rest"]
  /\ lost' = [lost EXCEPT ![r] = FALSE]
  /\ lag' = [lag EXCEPT ![r] = 0]
  /\ UNCHANGED <<dir, pc, timer, since, windows>>

-----------------------------------------------------------------------------
(* releaseRunLock, in the outer `finally` of execute() *)

\* Variant: the release ends without removing the lock it owns.
ReleaseReadForgetsLock(r) ==
  /\ pc[r] = "held" /\ timer[r] # "armed"
  /\ pc' = [pc EXCEPT ![r] = "done"]
  /\ Hit("straggler", renewal[r] # "rest")
  /\ UNCHANGED <<dir, owner, ttl, fd, lag, timer, since, renewal, lost>>

ReleaseRead(r) ==
  /\ pc[r] = "held" /\ timer[r] # "armed"
  /\ pc' = [pc EXCEPT ![r] = IF owner = r THEN "rmOwn" ELSE "done"]
  /\ Hit("straggler", renewal[r] # "rest")
  /\ UNCHANGED <<dir, owner, ttl, fd, lag, timer, since, renewal, lost>>

ReleaseRm(r) ==
  /\ pc[r] = "rmOwn"
  /\ RemoveDir
  /\ pc' = [pc EXCEPT ![r] = "done"]
  /\ UNCHANGED <<lag, timer, since, renewal, lost, windows>>

-----------------------------------------------------------------------------
(* The environment *)

\* The process of run r dies; what it left on disk stays there.
CrashRun(r) ==
  /\ pc[r] \in Acquiring \cup {"held", "rmOwn"} \/ renewal[r] # "rest"
  /\ pc' = [pc EXCEPT ![r] = "dead"]
  /\ fd' = [fd EXCEPT ![r] = "none"]
  /\ timer' = [timer EXCEPT ![r] = "off"]
  /\ renewal' = [renewal EXCEPT ![r] = "rest"]
  /\ lag' = [lag EXCEPT ![r] = 0]
  /\ since' = [since EXCEPT ![r] = 0]
  /\ UNCHANGED <<dir, owner, ttl, lost, windows>>

\* A call that compares or writes a lease is in progress.
Timing(r) == pc[r] \in Acquiring \/ renewal[r] # "rest"

\* One tick passes, for every run at once.
Tick ==
  /\ \A r \in Runs : Timing(r) => lag[r] < MaxLag
  /\ ttl' = IF ttl > -MaxLag THEN ttl - 1 ELSE ttl
  /\ lag' = [r \in Runs |-> IF Timing(r) THEN lag[r] + 1 ELSE lag[r]]
  /\ since' = [r \in Runs |-> IF timer[r] = "armed" /\ since[r] < RenewEvery
                              THEN since[r] + 1 ELSE since[r]]
  /\ Hit("lapse", \E r \in Runs : Holding(r) /\ ttl' <= 0)
  /\ UNCHANGED <<dir, owner, pc, fd, timer, renewal, lost>>

\* The steps a run is not stuck before: everything that a call has begun.
LockStep(r) ==
  \/ Mkdir(r) \/ OpenOwner(r) \/ WriteOwner(r) \/ Judge(r) \/ Reclaim(r)
  \/ RenewRead(r) \/ RenewOpen(r) \/ RenewWrite(r)
  \/ ReleaseRm(r)

LockNext ==
  \/ \E r \in Runs :
       \/ AcquireBegin(r) \/ LockStep(r)
       \/ TimerStart(r) \/ TimerStop(r) \/ ReleaseRead(r)
       \/ CrashRun(r)
  \/ Tick

LockSpec == LockInit /\ [][LockNext]_lockVars

\* Calls that have begun go on (libuv completes every file operation).
FairLockSpec == LockSpec /\ \A r \in Runs : WF_lockVars(LockStep(r))

-----------------------------------------------------------------------------
(* Properties *)

\* Every variable keeps the type the code gives it; and however often a run
\* renews, no lease on disk ends later than INDEX_RUN_LOCK_LEASE_MS from now,
\* so that a lock whose owner has died is not refused for longer than that.
LockTypeOK ==
  /\ dir \in BOOLEAN
  /\ owner \in Runs \cup {NoRun}
  /\ ttl \in Int /\ ttl <= Lease
  /\ pc \in [Runs -> PcStates]
  /\ fd \in [Runs -> {"none", "live", "dead"}]
  /\ lag \in [Runs -> Nat]
  /\ timer \in [Runs -> {"off", "armed", "stopped"}]
  /\ since \in [Runs -> Nat]
  /\ renewal \in [Runs -> {"rest", "open", "write"}]
  /\ lost \in [Runs -> BOOLEAN]
  /\ windows \subseteq WindowKinds

Calm == windows = {}

\* The lock is exclusive outside the four unsafe windows: however
\* acquisitions, renewals, releases, expiries and crashes interleave, two runs
\* are past a successful mkdir at the same time only after some run judged a
\* half-written lock (reclaim), created one under another run's pending rm
\* (create), released it with a renewal in flight (straggler) or let its
\* lease end (lapse).
CalmExclusion ==
  Calm => \A r, q \in Runs : Engaged(r) /\ Engaged(q) => r = q

\* Outside those windows a run that holds the lock, and is not rewriting
\* owner.json, is the one the file names, with a lease that has not ended: so
\* an acquirer that reads the file refuses, the next renewal succeeds and the
\* release removes this run's own lock and no other.
CalmHolderNamed ==
  Calm => \A r \in Runs :
            Holding(r) /\ renewal[r] # "write" => dir /\ owner = r /\ ttl > 0

\* Outside those windows nothing of a run is left once it has released: no
\* lock names it and no renewal of it can still write one.
CalmReleased ==
  Calm => \A r \in Runs :
            pc[r] = "done" =>
              owner # r /\ fd[r] = "none" /\ renewal[r] = "rest"

\* assertOwned awaits only the latest renewal, and each interval replaces the
\* promise it awaits.  A loss that one renewal has seen is not masked by a
\* later renewal that succeeds: the lock never comes back to a run.  This
\* holds in every window.
LostIsFinal == [][\A r \in Runs : lost[r] => lost'[r]]_lockVars

\* The retry loop of acquireRunLock ends: it removes a lock and tries again
\* only as often as other runs create one in between.
AcquireReturns ==
  \A r \in Runs : pc[r] \in Acquiring ~> pc[r] \notin Acquiring

\* The promise of the repository's test "allows exactly one concurrent lock
\* holder per project scope": two concurrent acquisitions, no crash and no
\* lease that ends.
OneConcurrentHolder ==
  "lapse" \notin windows /\ (\A r \in Runs : pc[r] # "dead")
    => \A r, q \in Runs : Holding(r) /\ Holding(q) => r = q

-----------------------------------------------------------------------------
(* The inductive invariant *)

\* Only a linked owner.json can be read, and only begun writes have it open.
FileInv ==
  /\ ~dir => owner = NoRun /\ \A r \in Runs : fd[r] # "live"
  /\ \A r \in Runs : fd[r] # "none" => pc[r] = "write" \/ renewal[r] = "write"

\* Renewals belong to runs that have acquired, and timers to those that hold.
TimerInv ==
  \A r \in Runs :
    /\ lag[r] <= MaxLag
    /\ timer[r] = "armed" => pc[r] = "held"
    /\ renewal[r] # "rest" => pc[r] \in {"held", "rmOwn", "done"}

\* A run that has seen the loss has no way left to write owner.json.
LostInv ==
  \A r \in Runs : lost[r] =>
    /\ owner # r /\ fd[r] = "none" /\ renewal[r] = "rest"
    /\ pc[r] \in {"held", "rmOwn", "done", "dead"}

\* What the absence of unsafe windows maintains.
CalmInv ==
  /\ \A r, q \in Runs : Engaged(r) /\ Engaged(q) => r = q
  /\ \A r, q \in Runs : pc[q] = "rm" => ~Engaged(r)
  /\ \A r \in Runs :
       /\ Engaged(r) => dir
       /\ Holding(r) /\ renewal[r] # "write" => owner = r /\ ttl > 0
       /\ renewal[r] # "rest" => pc[r] = "held"
       /\ pc[r] = "write" \/ renewal[r] = "write" => fd[r] = "live"
       /\ pc[r] = "done" => owner # r

LockInv == LockTypeOK /\ FileInv /\ TimerInv /\ LostInv /\ (Calm => CalmInv)

-----------------------------------------------------------------------------
(* RunLock implements ScopeLock outside the unsafe windows *)

\* The abstract holder: the run past its mkdir, or the owner that died.
CalmHolder ==
  IF \E r \in Runs : Engaged(r) THEN CHOOSE r \in Runs : Engaged(r)
  ELSE IF owner = NoRun THEN NoRun ELSE Orphaned

\* After an unsafe window the files promise nothing: the holder is given up.
AbstractHolder == IF Calm THEN CalmHolder ELSE NoRun

Scope == INSTANCE ScopeLock WITH Free <- NoRun, holder <- AbstractHolder

\* As long as no unsafe window is hit, the files and their interleaved reads
\* and writes behave as the atomic lock that the index runs rely on.
ImplementsScopeLock == Scope!ScopeLockSpec
=============================================================================
