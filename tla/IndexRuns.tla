----------------------------- MODULE IndexRuns -----------------------------
(***************************************************************************)
(* The daemon of one project scope: index runs (RunIndexUseCase.execute)   *)
(* started by lkg.index callers and by the file watcher, the watcher       *)
(* itself (IncrementalWatcherRuntime), the startup recovery, and the       *)
(* status record they all read, change and write back without a lock       *)
(* (FileIndexStateRepository).                                             *)
(*                                                                         *)
(* The run lock appears as the atomic lock of ScopeLock, which RunLock     *)
(* implements.  A change of the record is three steps, one per `await`:    *)
(* read it, open the file (which truncates it), write it.  A reader of a   *)
(* truncated or garbled file gets null, and null becomes the default       *)
(* record.                                                                 *)
(*                                                                         *)
(* The sources are one number, the version of the project: an ingestion    *)
(* reads a version and, when it comes to its end without a failed file,    *)
(* the index covers that version.  A file that fails is only counted: the  *)
(* run goes on and is recorded as completed, with the errors in its        *)
(* counters.  A rebuild begins by clearing the index.  What the stores     *)
(* hold after a run, and the rebuild stopped between its clears after      *)
(* which runs skip what is gone, are the matter of Ingestion.              *)
(***************************************************************************)
EXTENDS Integers, FiniteSets

CONSTANTS
  Callers,      \* concurrent callers of execute()
  Watch,        \* the caller that is the watcher; the others call lkg.index
  Handlers,     \* watcher callbacks that can be in progress at once
  Boot,         \* the startup recovery
  Free, Orphaned,  \* the run lock: held by nobody, or by a run that died
  Null,         \* no parsable status record on disk
  MaxVersion,   \* bound: versions of the sources, of which the first is 1
  MaxCrashes,   \* bound: ends of the daemon process
  MaxFaults     \* bound: failed files, ingestions and writes, watcher errors

Actors == Callers \cup Handlers \cup {Boot}

ASSUME IndexAssumption ==
  /\ Watch \in Callers
  /\ Free \notin Callers /\ Orphaned \notin Callers /\ Free # Orphaned
  /\ Callers \cap Handlers = {} /\ Boot \notin Callers \cup Handlers
  /\ MaxVersion \in Nat \ {0} /\ MaxCrashes \in Nat /\ MaxFaults \in Nat

\* RunIndexRecord: `state`, with "lost" for the error that the recovery
\* writes; `needsReindex`; `pendingChanges`; `lastIndexedAt # null`;
\* `counters.errors > 0`.
Record == [state : {"idle", "running", "failed", "lost"},
           needs : BOOLEAN, pending : BOOLEAN, indexed : BOOLEAN,
           errors : BOOLEAN]
DefaultRecord ==
  [state |-> "idle", needs |-> TRUE, pending |-> FALSE, indexed |-> FALSE,
   errors |-> FALSE]

ASSUME NullAssumption == Null \notin Record

VARIABLES
  rec,      \* the status record on disk, or Null
  holder,   \* the run lock
  ver,      \* version of the sources
  idx,      \* last version all of which was indexed and not cleared, or 0
  up,       \* is the daemon process running
  pc,       \* pc[a]: what actor a is doing
  io,       \* io[a]: where its change of the record is
  val,      \* val[a]: the record it has read, or is going to write
  mixed,    \* mixed[a]: another write happened since a truncated the file
  attempt,  \* attempt[c]: which attempt of caller c to acquire the lock, or 0
  seen,     \* seen[c]: version the ingestion of c under way has read, or 0
  short,    \* short[c]: the last ingestion of c has counted a failed file
  watcher,  \* debounceTimer, running and followUpRequested
  events,   \* a change that the watcher has not been told of yet
  crashes, faults,  \* bounded counters
  owed,     \* history: last version edited while this process was up, or 0
  cut       \* history: a process end cut an ingestion short; none done since

disk == <<rec, holder, ver, idx>>
history == <<crashes, faults, owed, cut>>
vars == <<rec, holder, ver, idx, up, pc, io, val, mixed, attempt, seen, short,
          watcher, events, crashes, faults, owed, cut>>

\* The record operations, by the value of pc during them.
Updates == {"markRunning", "progress", "markCompleted", "finalProgress",
            "markFailed", "watcherFailed", "watcherPending"}
Saves == {"saveExisting", "saveRunning", "saveRecovered"}
Waits == {"idle", "acquire", "recover", "recoverLock", "getStatus", "ingest",
          "ingested", "release", "releaseFailed"}

\* readOrCreateDefault
Existing == IF rec = Null THEN DefaultRecord ELSE rec

\* Variant: markRunning leaves the state of the last run.
UpdatedKeepsState(op, r, e) ==
  CASE op = "markRunning" -> [r EXCEPT !.needs = FALSE, !.pending = FALSE]
    [] op = "markCompleted" ->
         [r EXCEPT !.state = "idle", !.needs = FALSE, !.pending = FALSE,
                   !.indexed = TRUE, !.errors = e]
    [] op = "markFailed" ->
         [r EXCEPT !.state = "failed", !.needs = TRUE, !.pending = FALSE,
                   !.errors = TRUE]
    [] op \in {"watcherFailed", "watcherPending"} ->
         [r EXCEPT !.needs = TRUE, !.pending = TRUE]
    [] op \in {"progress", "finalProgress"} -> [r EXCEPT !.errors = e]

\* Variant: the counters are those of the files indexed, without the failed.
UpdatedForgetsErrors(op, r, e) ==
  IF op \in {"markCompleted", "progress", "finalProgress"}
  THEN UpdatedKeepsState(op, r, FALSE)
  ELSE IF op = "markRunning"
  THEN [r EXCEPT !.state = "running", !.needs = FALSE, !.pending = FALSE]
  ELSE UpdatedKeepsState(op, r, e)

\* What an update makes of record r; e: the run has counted a failed file.
Updated(op, r, e) ==
  CASE op = "markRunning" ->
         [r EXCEPT !.state = "running", !.needs = FALSE, !.pending = FALSE]
    [] op = "markCompleted" ->
         [r EXCEPT !.state = "idle", !.needs = FALSE, !.pending = FALSE,
                   !.indexed = TRUE, !.errors = e]
    [] op = "markFailed" ->
         [r EXCEPT !.state = "failed", !.needs = TRUE, !.pending = FALSE,
                   !.errors = TRUE]
    [] op \in {"watcherFailed", "watcherPending"} ->
         [r EXCEPT !.needs = TRUE, !.pending = TRUE]
    [] op \in {"progress", "finalProgress"} -> [r EXCEPT !.errors = e]

Recovered(r) == [r EXCEPT !.state = "lost", !.needs = TRUE]

\* The pipeline of the run is at work, or has been told to start.
Ingesting == {"ingest", "ingested", "progress"}

NoWatcher == [debounce |-> FALSE, running |-> FALSE, followUp |-> FALSE]

\* Actor a goes on to operation p: an update starts by reading the record.
Goto(a, p) ==
  /\ pc' = [pc EXCEPT ![a] = p]
  /\ io' = [io EXCEPT ![a] = CASE p \in Updates -> "read"
                               [] p \in Saves -> "open"
                               [] OTHER -> "rest"]

Init ==
  /\ rec = Null /\ holder = Free /\ ver = 1 /\ idx = 0
  /\ up = FALSE
  /\ pc = [a \in Actors |-> "idle"]
  /\ io = [a \in Actors |-> "rest"]
  /\ val = [a \in Actors |-> Null]
  /\ mixed = [a \in Actors |-> FALSE]
  /\ attempt = [c \in Callers |-> 0]
  /\ seen = [c \in Callers |-> 0]
  /\ short = [c \in Callers |-> FALSE]
  /\ watcher = NoWatcher
  /\ events = FALSE
  /\ crashes = 0 /\ faults = 0
  /\ owed = 0 /\ cut = FALSE

-----------------------------------------------------------------------------
(* IncrementalWatcherRuntime *)

\* Variant: a change that no run overlaps with is not scheduled.
ScheduledOnlyFollowUp(w) ==
  IF w.running THEN [w EXCEPT !.followUp = TRUE] ELSE w

\* scheduleRun, as a value of the watcher's fields
Scheduled(w) ==
  IF w.running THEN [w EXCEPT !.followUp = TRUE]
               ELSE [w EXCEPT !.debounce = TRUE]

\* The end of runIncrementalIndex: `finally`, then the follow-up.
Settled(w) ==
  LET s == [w EXCEPT !.running = FALSE]
  IN  IF s.followUp THEN Scheduled([s EXCEPT !.followUp = FALSE]) ELSE s

\* The subscription callback delivers the changes: handleChanges starts.
Deliver(h) ==
  /\ up /\ events /\ pc[h] = "idle"
  /\ events' = FALSE
  /\ Goto(h, "watcherPending")
  /\ UNCHANGED <<disk, up, val, mixed, attempt, seen, short, watcher, history>>

\* The subscription callback delivers an error.
WatchError(h) ==
  /\ up /\ pc[h] = "idle" /\ faults < MaxFaults
  /\ faults' = faults + 1
  /\ Goto(h, "watcherFailed")
  /\ UNCHANGED <<disk, up, val, mixed, attempt, seen, short, watcher, events,
                 crashes, owed, cut>>

\* The debounce timer fires: runIncrementalIndex calls execute().
DebounceFires ==
  /\ up /\ watcher.debounce
  /\ IF watcher.running
     THEN /\ watcher' = [watcher EXCEPT !.debounce = FALSE]
          /\ UNCHANGED <<pc, io, attempt>>
     ELSE /\ watcher' = [watcher EXCEPT !.debounce = FALSE, !.running = TRUE]
          /\ attempt' = [attempt EXCEPT ![Watch] = 1]
          /\ Goto(Watch, "acquire")
  /\ UNCHANGED <<disk, up, val, mixed, seen, short, events, history>>

-----------------------------------------------------------------------------
(* RunIndexUseCase.execute: the lock *)

\* lkg.index: a caller that is not the watcher starts a run.
CallIndex(c) ==
  /\ up /\ c # Watch /\ pc[c] = "idle"
  /\ attempt' = [attempt EXCEPT ![c] = 1]
  /\ Goto(c, "acquire")
  /\ UNCHANGED <<disk, up, val, mixed, seen, short, watcher, events, history>>

\* Variant: the lock of a run that is alive is taken over.
AcquireAnyway(c) ==
  /\ pc[c] = "acquire"
  /\ \/ /\ holder # Orphaned
        /\ holder' = c
        /\ attempt' = [attempt EXCEPT ![c] = 0]
        /\ Goto(c, "getStatus")
     \/ /\ holder = Orphaned
        /\ Goto(c, "recover")
        /\ UNCHANGED <<holder, attempt>>
  /\ UNCHANGED <<rec, ver, idx, up, val, mixed, seen, short, watcher, events,
                 history>>

\* Both attempts of acquireRunLock; after a refusal, recoverStaleRunState.
Acquire(c) ==
  /\ pc[c] = "acquire"
  /\ \/ /\ holder = Free
        /\ holder' = c
        /\ attempt' = [attempt EXCEPT ![c] = 0]
        /\ Goto(c, "getStatus")
     \/ /\ holder # Free
        /\ Goto(c, "recover")
        /\ UNCHANGED <<holder, attempt>>
  /\ UNCHANGED <<rec, ver, idx, up, val, mixed, seen, short, watcher, events,
                 history>>

\* Variant: attempts go on and are counted.
AfterRecoveryRetries(a) ==
  \/ /\ a = Boot
     /\ Goto(a, "idle")
     /\ UNCHANGED <<attempt, watcher>>
  \/ /\ a \in Callers
     /\ attempt' = [attempt EXCEPT ![a] = @ + 1]
     /\ Goto(a, "acquire")
     /\ UNCHANGED watcher

\* Variant: ALREADY_RUNNING is dropped by the watcher.
AfterRecoveryNoFollowUp(a) ==
  \/ /\ a = Boot
     /\ Goto(a, "idle")
     /\ UNCHANGED <<attempt, watcher>>
  \/ /\ a \in Callers /\ attempt[a] = 1
     /\ attempt' = [attempt EXCEPT ![a] = 2]
     /\ Goto(a, "acquire")
     /\ UNCHANGED watcher
  \/ /\ a \in Callers /\ attempt[a] = 2
     /\ attempt' = [attempt EXCEPT ![a] = 0]
     /\ Goto(a, "idle")
     /\ watcher' = IF a = Watch THEN Settled(watcher) ELSE watcher

\* After the recovery: the second attempt, or ALREADY_RUNNING, which the
\* watcher turns into a follow-up.
AfterRecovery(a) ==
  \/ /\ a = Boot
     /\ Goto(a, "idle")
     /\ UNCHANGED <<attempt, watcher>>
  \/ /\ a \in Callers /\ attempt[a] = 1
     /\ attempt' = [attempt EXCEPT ![a] = 2]
     /\ Goto(a, "acquire")
     /\ UNCHANGED watcher
  \/ /\ a \in Callers /\ attempt[a] = 2
     /\ attempt' = [attempt EXCEPT ![a] = 0]
     /\ Goto(a, "idle")
     /\ watcher' = IF a = Watch
                   THEN Settled([watcher EXCEPT !.followUp = TRUE])
                   ELSE watcher

\* recoverStaleRunState reads the record, and the lock if it says "running".
RecoverRead(a) ==
  /\ pc[a] = "recover"
  /\ IF rec # Null /\ rec.state = "running"
     THEN /\ val' = [val EXCEPT ![a] = rec]
          /\ Goto(a, "recoverLock")
          /\ UNCHANGED <<attempt, watcher>>
     ELSE AfterRecovery(a) /\ UNCHANGED val
  /\ UNCHANGED <<disk, up, mixed, seen, short, events, history>>

RecoverLock(a) ==
  /\ pc[a] = "recoverLock"
  /\ IF holder = Free
     THEN /\ val' = [val EXCEPT ![a] = Recovered(val[a])]
          /\ Goto(a, "saveRecovered")
          /\ UNCHANGED <<attempt, watcher>>
     ELSE AfterRecovery(a) /\ val' = [val EXCEPT ![a] = Null]
  /\ UNCHANGED <<disk, up, mixed, seen, short, events, history>>

\* getStatus while the run holds the lock: a "running" record is kept as is.
GetStatus(c) ==
  /\ pc[c] = "getStatus"
  /\ val' = [val EXCEPT ![c] = Existing]
  /\ Goto(c, "saveExisting")
  /\ UNCHANGED <<disk, up, mixed, attempt, seen, short, watcher, events,
                 history>>

\* Variant: the watcher does not record that its run failed.
ReleaseSilently(c) ==
  /\ pc[c] \in {"release", "releaseFailed"}
  /\ holder' = IF holder = c THEN Free ELSE holder
  /\ Goto(c, "idle")
  /\ watcher' = IF c = Watch THEN Settled(watcher) ELSE watcher
  /\ UNCHANGED <<rec, ver, idx, up, val, mixed, attempt, seen, short, events,
                 history>>

\* The outer `finally`: releaseRunLock, and what the caller does next.
Release(c) ==
  /\ pc[c] \in {"release", "releaseFailed"}
  /\ holder' = IF holder = c THEN Free ELSE holder
  /\ IF c = Watch /\ pc[c] = "releaseFailed"
     THEN Goto(c, "watcherFailed") /\ UNCHANGED watcher
     ELSE /\ Goto(c, "idle")
          /\ watcher' = IF c = Watch THEN Settled(watcher) ELSE watcher
  /\ UNCHANGED <<rec, ver, idx, up, val, mixed, attempt, seen, short, events,
                 history>>

-----------------------------------------------------------------------------
(* RunIndexUseCase.execute: the ingestion *)

\* mode "rebuild": the stores are cleared before the sources are read.  The
\* watcher's runs are incremental.
RebuildClears(c) ==
  /\ pc[c] = "ingest" /\ c # Watch
  /\ idx' = 0
  /\ UNCHANGED <<rec, holder, ver, up, pc, io, val, mixed, attempt, seen,
                 short, watcher, events, history>>

\* The pipeline reads the sources; edits after this are not in its result.
IngestRead(c) ==
  /\ pc[c] = "ingest"
  /\ seen' = [seen EXCEPT ![c] = ver]
  /\ short' = [short EXCEPT ![c] = FALSE]
  /\ Goto(c, "ingested")
  /\ UNCHANGED <<disk, up, val, mixed, attempt, watcher, events, history>>

\* A file fails: the pipeline counts it and goes on with the next one.
FileFails(c) ==
  /\ pc[c] = "ingested" /\ faults < MaxFaults
  /\ faults' = faults + 1
  /\ short' = [short EXCEPT ![c] = TRUE]
  /\ UNCHANGED <<disk, up, pc, io, val, mixed, attempt, seen, watcher,
                 events, crashes, owed, cut>>

\* A checkpoint: the pipeline awaits onProgress and goes on.
Checkpoint(c) ==
  /\ pc[c] = "ingested"
  /\ Goto(c, "progress")
  /\ UNCHANGED <<disk, up, val, mixed, attempt, seen, short, watcher, events,
                 history>>

\* run() resolves, whether files have failed or not.
IngestResolves(c) ==
  /\ pc[c] = "ingested"
  /\ idx' = IF short[c] THEN idx ELSE seen[c]
  /\ seen' = [seen EXCEPT ![c] = 0]
  /\ cut' = FALSE
  /\ Goto(c, "markCompleted")
  /\ UNCHANGED <<rec, holder, ver, up, val, mixed, attempt, short, watcher,
                 events, crashes, faults, owed>>

\* run() throws, or the lock turns out to be lost after it.
IngestFails(c) ==
  /\ pc[c] \in {"ingest", "ingested"} /\ faults < MaxFaults
  /\ faults' = faults + 1
  /\ seen' = [seen EXCEPT ![c] = 0]
  /\ Goto(c, "markFailed")
  /\ UNCHANGED <<disk, up, val, mixed, attempt, short, watcher, events,
                 crashes, owed, cut>>

-----------------------------------------------------------------------------
(* FileIndexStateRepository: changes of the record *)

\* The read half of an update.
ReadRecord(a) ==
  /\ io[a] = "read"
  /\ val' = [val EXCEPT ![a] =
              Updated(pc[a], Existing, a \in Callers /\ short[a])]
  /\ io' = [io EXCEPT ![a] = "open"]
  /\ UNCHANGED <<disk, up, pc, mixed, attempt, seen, short, watcher, events,
                 history>>

\* writeFile opens the file and truncates it.
OpenRecord(a) ==
  /\ io[a] = "open"
  /\ rec' = Null
  /\ io' = [io EXCEPT ![a] = "write"]
  /\ mixed' = [mixed EXCEPT ![a] = FALSE]
  /\ UNCHANGED <<holder, ver, idx, up, pc, val, attempt, seen, short,
                 watcher, events, history>>

\* What a does once its record is written.
AfterWrite(a) ==
  \/ /\ pc[a] = "saveExisting" /\ Goto(a, "markRunning")
     /\ UNCHANGED <<attempt, watcher>>
  \/ /\ pc[a] = "markRunning" /\ Goto(a, "saveRunning")
     /\ UNCHANGED <<attempt, watcher>>
  \/ /\ pc[a] = "saveRunning" /\ Goto(a, "ingest")
     /\ UNCHANGED <<attempt, watcher>>
  \/ /\ pc[a] = "progress" /\ Goto(a, "ingested")
     /\ UNCHANGED <<attempt, watcher>>
  \/ /\ pc[a] = "markCompleted" /\ Goto(a, "finalProgress")
     /\ UNCHANGED <<attempt, watcher>>
  \/ /\ pc[a] = "finalProgress" /\ Goto(a, "release")
     /\ UNCHANGED <<attempt, watcher>>
  \/ /\ pc[a] = "markFailed" /\ Goto(a, "releaseFailed")
     /\ UNCHANGED <<attempt, watcher>>
  \/ /\ pc[a] = "watcherPending" /\ Goto(a, "idle")
     /\ watcher' = Scheduled(watcher)
     /\ UNCHANGED attempt
  \/ /\ pc[a] = "watcherFailed" /\ Goto(a, "idle")
     /\ watcher' = IF a = Watch THEN Settled(watcher) ELSE watcher
     /\ UNCHANGED attempt
  \/ pc[a] = "saveRecovered" /\ AfterRecovery(a)

\* The content reaches the file; two writers that have both truncated it can
\* leave a longer text under a shorter one, which does not parse.
WriteRecord(a) ==
  /\ io[a] = "write"
  /\ rec' \in {val[a]} \cup (IF mixed[a] THEN {Null} ELSE {})
  /\ mixed' = [b \in Actors |-> b # a /\ (mixed[b] \/ io[b] = "write")]
  /\ AfterWrite(a)
  /\ val' = IF pc[a] = "markRunning" THEN val ELSE [val EXCEPT ![a] = Null]
  /\ UNCHANGED <<holder, ver, idx, up, seen, short, events, history>>

\* The process ends; a holder leaves its lock, or a lock that is not valid.
ProcessEnds ==
  /\ up' = FALSE
  /\ holder' \in IF holder \in Callers THEN {Orphaned, Free} ELSE {holder}
  /\ pc' = [a \in Actors |-> "idle"]
  /\ io' = [a \in Actors |-> "rest"]
  /\ val' = [a \in Actors |-> Null]
  /\ mixed' = [a \in Actors |-> FALSE]
  /\ attempt' = [c \in Callers |-> 0]
  /\ seen' = [c \in Callers |-> 0]
  /\ short' = [c \in Callers |-> FALSE]
  /\ watcher' = NoWatcher
  /\ events' = FALSE
  /\ owed' = 0
  /\ cut' = (cut \/ \E c \in Callers : pc[c] \in Ingesting)

\* A write of the record fails.  Within execute() the run fails or ends; in a
\* watcher callback the promise is rejected with nobody to catch it, which
\* ends the daemon, as does a failure of the startup recovery.
WriteFails(a) ==
  /\ io[a] = "open" /\ faults < MaxFaults
  /\ faults' = faults + 1
  /\ \/ /\ pc[a] \in {"progress", "markCompleted", "finalProgress"}
        /\ seen' = [seen EXCEPT ![a] = 0]
        /\ Goto(a, "markFailed")
        /\ UNCHANGED <<holder, up, val, mixed, attempt, short, watcher,
                       events, owed, cut>>
     \/ /\ pc[a] \in {"saveExisting", "markRunning", "saveRunning",
                      "markFailed"}
        /\ Goto(a, "releaseFailed")
        /\ UNCHANGED <<holder, up, val, mixed, attempt, seen, short, watcher,
                       events, owed, cut>>
     \/ /\ pc[a] = "saveRecovered" /\ a \in Callers
        /\ attempt' = [attempt EXCEPT ![a] = 0]
        /\ Goto(a, IF a = Watch THEN "watcherFailed" ELSE "idle")
        /\ UNCHANGED <<holder, up, val, mixed, seen, short, watcher, events,
                       owed, cut>>
     \/ /\ pc[a] \in {"watcherPending", "watcherFailed"}
        /\ ProcessEnds
     \/ a = Boot /\ ProcessEnds
  /\ UNCHANGED <<rec, ver, idx, crashes>>

-----------------------------------------------------------------------------
(* The environment *)

\* A file changes.  The watcher hears of it only while it is subscribed.
Edit ==
  /\ ver < MaxVersion
  /\ ver' = ver + 1
  /\ events' = up
  /\ owed' = IF up THEN ver + 1 ELSE 0
  /\ UNCHANGED <<rec, holder, idx, up, pc, io, val, mixed, attempt, seen,
                 short, watcher, crashes, faults, cut>>

Crash ==
  /\ up /\ crashes < MaxCrashes
  /\ crashes' = crashes + 1
  /\ ProcessEnds
  /\ UNCHANGED <<rec, ver, idx, faults>>

\* startDaemonServer: getStatus recovers the state; the watcher is subscribed.
Start ==
  /\ ~up
  /\ up' = TRUE
  /\ Goto(Boot, "recover")
  /\ UNCHANGED <<disk, val, mixed, attempt, seen, short, watcher, events,
                 history>>

LeaseEnds ==
  /\ holder = Orphaned
  /\ holder' = Free
  /\ UNCHANGED <<rec, ver, idx, up, pc, io, val, mixed, attempt, seen, short,
                 watcher, events, history>>

-----------------------------------------------------------------------------

\* What an actor that has begun does next.
Proceed(a) ==
  \/ ReadRecord(a) \/ OpenRecord(a) \/ WriteRecord(a)
  \/ RecoverRead(a) \/ RecoverLock(a)
  \/ a \in Callers /\ (\/ Acquire(a) \/ GetStatus(a) \/ Release(a)
                       \/ IngestRead(a) \/ IngestResolves(a))

Next ==
  \/ \E a \in Actors : Proceed(a) \/ WriteFails(a)
  \/ \E c \in Callers :
       \/ CallIndex(c) \/ RebuildClears(c) \/ FileFails(c) \/ Checkpoint(c)
       \/ IngestFails(c)
  \/ \E h \in Handlers : Deliver(h) \/ WatchError(h)
  \/ DebounceFires \/ Edit \/ Crash \/ Start \/ LeaseEnds

Spec == Init /\ [][Next]_vars

\* File operations complete, timers fire and the event queue is drained.  An
\* ingestion may save progress any number of times but ends: that needs strong
\* fairness, since every checkpoint disables the end for a while.
Fairness ==
  /\ \A a \in Actors : WF_vars(Proceed(a))
  /\ \A c \in Callers : SF_vars(IngestResolves(c))
  /\ WF_vars(\E h \in Handlers : Deliver(h))
  /\ WF_vars(DebounceFires)

FairSpec == Spec /\ Fairness

-----------------------------------------------------------------------------
(* Properties *)

TypeOK ==
  /\ rec \in Record \cup {Null}
  /\ holder \in Callers \cup {Free, Orphaned}
  /\ ver \in 0..MaxVersion /\ idx \in 0..ver
  /\ up \in BOOLEAN
  /\ pc \in [Actors -> Updates \cup Saves \cup Waits]
  /\ io \in [Actors -> {"rest", "read", "open", "write"}]
  /\ val \in [Actors -> Record \cup {Null}]
  /\ mixed \in [Actors -> BOOLEAN]
  /\ attempt \in [Callers -> 0..2]
  /\ seen \in [Callers -> 0..MaxVersion] /\ short \in [Callers -> BOOLEAN]
  /\ watcher \in [debounce : BOOLEAN, running : BOOLEAN, followUp : BOOLEAN]
  /\ events \in BOOLEAN
  /\ crashes \in 0..MaxCrashes /\ faults \in 0..MaxFaults
  /\ owed \in 0..MaxVersion /\ cut \in BOOLEAN

\* A run that has not read the sources yet, or comes back if it is refused.
Reading(c) ==
  \/ pc[c] \in {"getStatus", "saveExisting", "markRunning", "saveRunning",
                "ingest"}
  \/ /\ c = Watch
     /\ pc[c] \in {"acquire", "recover", "recoverLock", "saveRecovered"}

\* Some run will read the sources, or has read their latest version and has
\* failed on no file so far.
RunIsDue ==
  \/ events \/ watcher.debounce \/ watcher.followUp
  \/ \E h \in Handlers : pc[h] = "watcherPending"
  \/ \E c \in Callers :
       \/ Reading(c)
       \/ pc[c] \in {"ingested", "progress"} /\ seen[c] = ver /\ ~short[c]

\* lkg.status tells its reader that the index may be stale.
ReportsStale == rec = Null \/ rec.state # "idle" \/ rec.needs \/ rec.pending

\* lkg.status shows failed files in its counters.
ShowsErrors == rec # Null /\ rec.errors

\* A failure, a failed file or a change is about to be written to the record.
AboutToReport ==
  \/ \E a \in Actors :
       pc[a] \in {"markFailed", "watcherFailed", "watcherPending"}
  \/ pc[Watch] = "releaseFailed"
  \/ \E c \in Callers :
       pc[c] \in {"ingested", "progress", "markCompleted"} /\ short[c]

\* The guard of lkg.search and of the other query tools.
SearchAdmitted ==
  /\ rec # Null /\ rec.indexed /\ ~rec.needs
  /\ rec.state \notin {"failed", "lost"}

\* The debounce, the follow-up and the deferred retry of the watcher lose no
\* change: as long as nothing fails, a change the daemon lives through is
\* covered by the index, or by a run that is under way or scheduled, whichever
\* runs, callbacks and lkg.index calls overlap with it.
EditScheduled == up /\ idx < owed /\ faults = 0 => RunIsDue

\* One failure does not hide a change: the daemon has a run due for it, or the
\* record says that the index is stale or counts a failed file, or is about to,
\* although its writers read, truncate and write it in any order.  A failed
\* file shows in the counters alone: its run is recorded as completed, with
\* needsReindex and pendingChanges cleared.
EditReported ==
  up /\ idx < owed => RunIsDue \/ ReportsStale \/ ShowsErrors \/ AboutToReport

\* An ingestion that the end of the process cut short is never reported as a
\* fresh index, whatever the recovery, later runs and watcher callbacks write,
\* until an ingestion has been completed.
InterruptionShows == cut => ReportsStale

\* While no run is recorded as active, a query that the guard admits over a
\* record without errors finds an index: neither a record read long before and
\* written back, nor a rebuild that cleared the stores and then failed, was cut
\* short or failed on files, passes for one.  lastIndexedAt alone promises
\* less: it stays when the stores are cleared, and is set by a run all of whose
\* files failed.
AdmittedIsReal ==
  SearchAdmitted /\ rec.state = "idle" /\ ~rec.errors => idx > 0

Lock == INSTANCE ScopeLock WITH Runs <- Callers

\* Runs, recoveries and process ends use the run lock as it promises.
UsesScopeLock == Lock!ScopeLockSpec

\* As long as nothing fails, a change gets into the index, unless the daemon
\* ends before: what it has not lived through it does not look for when it
\* starts again.
EventuallyFresh == (up /\ idx < owed) ~> (idx >= owed \/ crashes > 0)

StaleRunning == rec # Null /\ rec.state = "running" /\ holder = Free

\* A callback that writes back a "running" record it read before the run ended
\* makes the finished run look active; the run it schedules puts that right.
StaleRunningHeals == StaleRunning ~> (~StaleRunning \/ crashes > 0)
=============================================================================
