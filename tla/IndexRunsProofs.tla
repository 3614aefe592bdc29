-------------------------- MODULE IndexRunsProofs --------------------------
(***************************************************************************)
(* Theorems about IndexRuns, for any number of callers, watcher callbacks, *)
(* versions, failures and process ends.                                    *)
(*                                                                         *)
(* The invariants first relate who holds the run lock, which operation each*)
(* actor is at, the versions read and indexed, the watcher's fields and the*)
(* status record.  An action is abstracted by what it does to the program  *)
(* counters: Goto moves one actor, and each invariant says which moves keep*)
(* it.                                                                     *)
(*                                                                         *)
(* Changes are not forgotten because the watcher itself sees to each of    *)
(* them (WatchInv), whatever manual runs do, but for what a rebuild has    *)
(* cleared and makes whole again; a run that read the sources too early    *)
(* has a run coming that its lock holds back (BehindInv).  A record that   *)
(* counts no error is written after a run without failed files (CleanInv). *)
(***************************************************************************)
EXTENDS IndexRuns, TLAPS

-----------------------------------------------------------------------------
(* Actors, locks, versions and the status record *)

\* The values of pc and of io, and of the fields of the watcher.
Pcs == Updates \cup Saves \cup Waits
Ios == {"rest", "read", "open", "write"}
Watchers == [debounce : BOOLEAN, running : BOOLEAN, followUp : BOOLEAN]

\* Where each actor can be: an actor has a file operation under way only within
\* an operation on the record, has something to write then, and each kind of
\* actor goes through the operations of its own code only.
ControlInv ==
  /\ \A a \in Actors :
       /\ io[a] = "rest" <=> pc[a] \in Waits
       /\ io[a] = "read" => pc[a] \in Updates
       /\ io[a] \in {"open", "write"} => val[a] \in Record
       /\ pc[a] = "recoverLock" => val[a] \in Record
  /\ \A h \in Handlers : pc[h] \in {"idle", "watcherPending", "watcherFailed"}
  /\ pc[Boot] \in {"idle", "recover", "recoverLock", "saveRecovered"}
  /\ \A c \in Callers :
       /\ pc[c] # "watcherPending"
       /\ pc[c] = "watcherFailed" => c = Watch

\* The operations of execute() between acquireRunLock and releaseRunLock.
Holding == {"getStatus", "saveExisting", "markRunning", "saveRunning",
            "ingest", "ingested", "progress", "markCompleted",
            "finalProgress", "markFailed", "release", "releaseFailed"}

\* The run lock is held exactly by the caller that is within execute().
LockInv == \A c \in Callers : holder = c <=> pc[c] \in Holding

\* An ingestion reads no version that is not there, and none older than the one
\* the index holds; a process that has just started has lived through no edit.
VersionInv ==
  /\ ver > 0 /\ owed <= ver /\ (~up => owed = 0)
  /\ \A c \in Callers :
       /\ seen[c] <= ver
       /\ pc[c] \in {"ingested", "progress"} => seen[c] > 0 /\ idx <= seen[c]

\* The flag `running` and the timer of the watcher follow its own run.
WatcherInv ==
  /\ watcher.running <=> pc[Watch] # "idle"
  /\ watcher.debounce => ~watcher.running

\* A record that tells the reader of lkg.status that the index is fresh, and
\* one that counts no failed file either.
Fresh(r) == r.state = "idle" /\ ~r.needs
Clean(r) == Fresh(r) /\ ~r.errors

\* A fresh record is on disk only while no ingestion is at work or cut short;
\* it is written only by the run that holds the lock, which writes back what it
\* read before its own ingestion or what it says after it.
FreshInv ==
  /\ rec # Null /\ Fresh(rec) =>
       ~cut /\ \A c \in Callers : pc[c] \notin Ingesting
  /\ \A a \in Actors :
       /\ io[a] \in {"open", "write"} /\ Fresh(val[a]) =>
            /\ pc[a] \in {"saveExisting", "markCompleted", "finalProgress"}
            /\ ~cut
       /\ pc[a] = "recoverLock" => ~Fresh(val[a])
       /\ pc[a] \in {"markCompleted", "finalProgress"} => ~cut

\* A clean record is on disk, or on its way there, only while the index holds
\* something; a run that has counted a failed file writes no clean record.
CleanInv ==
  /\ rec # Null /\ Clean(rec) => idx > 0
  /\ \A a \in Actors : io[a] \in {"open", "write"} /\ Clean(val[a]) => idx > 0
  /\ \A c \in Callers : pc[c] \in {"markCompleted", "finalProgress"} =>
       /\ ~short[c] => idx > 0
       /\ io[c] \in {"open", "write"} /\ Clean(val[c]) => ~short[c]
-----------------------------------------------------------------------------
(* What the operators return *)

\* What the updates of FileIndexStateRepository make of a record.
LEMMA UpdatedReturns ==
  ASSUME NEW r \in Record, NEW op \in Updates, NEW e \in BOOLEAN
  PROVE  /\ Updated(op, r, e) \in Record
         /\ op \in {"markCompleted", "finalProgress"} =>
              Updated(op, r, e).errors = e
         /\ Fresh(Updated(op, r, e)) =>
              \/ op = "markCompleted"
              \/ op \in {"progress", "finalProgress"} /\ Fresh(r)
BY DEF Updated, Updates, Record, Fresh

\* What recoverStaleRunState makes of a record: it is never fresh.
LEMMA RecoveredReturns ==
  ASSUME NEW r \in Record
  PROVE  Recovered(r) \in Record /\ ~Fresh(Recovered(r))
BY DEF Recovered, Record, Fresh

\* readOrCreateDefault invents no freshness.
LEMMA ExistingReturns ==
  ASSUME rec \in Record \cup {Null}
  PROVE  /\ Existing \in Record
         /\ Fresh(Existing) => rec # Null /\ Existing = rec
BY NullAssumption DEF Existing, DefaultRecord, Record, Fresh

\* scheduleRun loses no request.
LEMMA ScheduledReturns ==
  ASSUME NEW w \in Watchers
  PROVE  /\ Scheduled(w) \in Watchers
         /\ Scheduled(w).running = w.running
         /\ Scheduled(w).debounce \/ Scheduled(w).followUp
         /\ Scheduled(w).debounce => w.debounce \/ ~w.running
         /\ w.followUp => Scheduled(w).followUp
BY DEF Scheduled, Watchers

\* The end of runIncrementalIndex loses no request.
LEMMA SettledReturns ==
  ASSUME NEW w \in Watchers
  PROVE  /\ Settled(w) \in Watchers
         /\ ~Settled(w).running
         /\ w.debounce \/ w.followUp => Settled(w).debounce
BY DEF Settled, Scheduled, Watchers

\* Goto moves one actor, to the first file operation of what it does next.
LEMMA GotoMoves ==
  ASSUME TypeOK, NEW a \in Actors, NEW p \in Pcs, Goto(a, p)
  PROVE  /\ pc' \in [Actors -> Pcs] /\ io' \in [Actors -> Ios]
         /\ pc'[a] = p
         /\ p \in Updates => io'[a] = "read"
         /\ p \in Saves => io'[a] = "open"
         /\ p \in Waits => io'[a] = "rest"
         /\ \A b \in Actors : b # a => pc'[b] = pc[b] /\ io'[b] = io[b]
BY DEF Goto, TypeOK, Pcs, Ios, Updates, Saves, Waits

\* After recoverStaleRunState an actor stops, or asks for the lock again; a
\* watcher that is refused for the second time has its timer set.
LEMMA RecoveryGoesOn ==
  ASSUME TypeOK, NEW a \in Actors, AfterRecovery(a)
  PROVE  /\ attempt' \in [Callers -> 0..2]
         /\ \/ Goto(a, "acquire") /\ a \in Callers /\ watcher' = watcher
            \/ Goto(a, "idle") /\ a # Watch /\ watcher' = watcher
            \/ /\ Goto(a, "idle") /\ a = Watch
               /\ watcher' \in Watchers /\ ~watcher'.running
               /\ watcher'.debounce
<1>1. /\ watcher \in Watchers
      /\ [watcher EXCEPT !.followUp = TRUE] \in Watchers
      /\ [watcher EXCEPT !.followUp = TRUE].followUp
  BY DEF TypeOK, Watchers
<1>2. attempt' \in [Callers -> 0..2]
  BY DEF AfterRecovery, TypeOK
<1> QED
  BY <1>1, <1>2, SettledReturns, IndexAssumption DEF AfterRecovery

\* What the end of the process leaves.
LEMMA ProcessEnding ==
  ASSUME TypeOK, ProcessEnds
  PROVE  /\ ~up' /\ owed' = 0 /\ up' \in BOOLEAN
         /\ holder' \in {Free, Orphaned}
         /\ holder \notin Callers => holder' = holder
         /\ pc' = [a \in Actors |-> "idle"]
         /\ io' = [a \in Actors |-> "rest"]
         /\ val' = [a \in Actors |-> Null]
         /\ mixed' = [a \in Actors |-> FALSE]
         /\ seen' = [c \in Callers |-> 0]
         /\ short' = [c \in Callers |-> FALSE]
         /\ attempt' = [c \in Callers |-> 0]
         /\ watcher' \in Watchers
         /\ watcher'.running = FALSE /\ watcher'.debounce = FALSE
         /\ events' = FALSE
         /\ cut' \in BOOLEAN
         /\ cut' => cut \/ \E c \in Callers : pc[c] \in Ingesting
<1>1. /\ holder' \in {Free, Orphaned}
      /\ holder \notin Callers => holder' = holder
  BY DEF ProcessEnds, TypeOK
<1>2. /\ watcher' \in Watchers
      /\ watcher'.running = FALSE /\ watcher'.debounce = FALSE
  BY DEF ProcessEnds, NoWatcher, Watchers
<1>3. /\ cut' \in BOOLEAN
      /\ cut' => cut \/ \E c \in Callers : pc[c] \in Ingesting
  BY Zenon DEF ProcessEnds, TypeOK
<1> QED
  BY <1>1, <1>2, <1>3, Zenon DEF ProcessEnds

\* What a rebuild clears and what a failed file changes.
LEMMA StoreMoves ==
  ASSUME NEW c \in Callers, RebuildClears(c) \/ FileFails(c)
  PROVE  /\ UNCHANGED <<rec, holder, ver, up, pc, io, val, mixed, attempt,
                        seen, watcher, events, crashes, owed, cut>>
         /\ \/ /\ RebuildClears(c) /\ pc[c] = "ingest" /\ idx' = 0
               /\ UNCHANGED <<short, faults>>
            \/ /\ FileFails(c) /\ pc[c] = "ingested" /\ idx' = idx
               /\ faults' = faults + 1 /\ short' = [short EXCEPT ![c] = TRUE]
BY DEF RebuildClears, FileFails, disk, history

-----------------------------------------------------------------------------
(* Types *)

\* TypeOK, in the parts that the actions change together.
ControlTypes == pc \in [Actors -> Pcs] /\ io \in [Actors -> Ios]
DiskTypes == /\ rec \in Record \cup {Null}
             /\ holder \in Callers \cup {Free, Orphaned}
             /\ ver \in 0..MaxVersion /\ idx \in 0..ver
CellTypes == /\ val \in [Actors -> Record \cup {Null}]
             /\ mixed \in [Actors -> BOOLEAN]
RunTypes == /\ attempt \in [Callers -> 0..2]
            /\ seen \in [Callers -> 0..MaxVersion]
            /\ short \in [Callers -> BOOLEAN]
            /\ watcher \in Watchers
FlagTypes == /\ up \in BOOLEAN /\ events \in BOOLEAN /\ cut \in BOOLEAN
             /\ crashes \in 0..MaxCrashes /\ faults \in 0..MaxFaults
             /\ owed \in 0..MaxVersion

\* TypeOK is its parts.
LEMMA TypeParts ==
  TypeOK <=> ControlTypes /\ DiskTypes /\ CellTypes /\ RunTypes /\ FlagTypes
BY DEF TypeOK, ControlTypes, DiskTypes, CellTypes, RunTypes, FlagTypes, Pcs,
       Ios, Watchers

\* What a step does to the program counters: one actor goes on, or one actor
\* goes on within a change of the record, or all of them stop.
LEMMA ControlMoves ==
  ASSUME TypeOK, [Next]_vars
  PROVE  \/ UNCHANGED <<pc, io>>
         \/ \E a \in Actors, p \in Pcs : Goto(a, p)
         \/ \E a \in Actors : ReadRecord(a) \/ OpenRecord(a)
         \/ ProcessEnds
<1> USE DEF Pcs, Updates, Saves, Waits
<1>1. ASSUME NEW c \in Callers,
             \/ Acquire(c) \/ GetStatus(c) \/ Release(c) \/ IngestRead(c)
             \/ IngestResolves(c) \/ CallIndex(c) \/ Checkpoint(c)
             \/ IngestFails(c)
      PROVE \E p \in Pcs : Goto(c, p)
  BY <1>1 DEF Acquire, GetStatus, Release, IngestRead, IngestResolves,
     CallIndex,
              Checkpoint, IngestFails
<1>2. ASSUME NEW a \in Actors, AfterRecovery(a) PROVE \E p \in Pcs : Goto(a, p)
  BY <1>2 DEF AfterRecovery
<1>3. ASSUME NEW a \in Actors, RecoverRead(a) \/ RecoverLock(a)
      PROVE \E p \in Pcs : Goto(a, p)
  BY <1>2, <1>3 DEF RecoverRead, RecoverLock
<1>4. ASSUME NEW a \in Actors, WriteRecord(a)
      PROVE \E p \in Pcs : Goto(a, p)
  BY <1>2, <1>4 DEF WriteRecord, AfterWrite
<1>5. ASSUME NEW a \in Actors, WriteFails(a)
      PROVE ProcessEnds \/ \E p \in Pcs : Goto(a, p)
  BY <1>5 DEF WriteFails
<1>6. ASSUME NEW h \in Handlers, Deliver(h) \/ WatchError(h)
      PROVE \E p \in Pcs : Goto(h, p)
  BY <1>6 DEF Deliver, WatchError
<1>7. ASSUME DebounceFires
      PROVE UNCHANGED <<pc, io>> \/ \E p \in Pcs : Goto(Watch, p)
  BY <1>7 DEF DebounceFires
<1>8. ASSUME Start PROVE \E p \in Pcs : Goto(Boot, p)
  BY <1>8 DEF Start
<1>9. ASSUME Edit \/ LeaseEnds \/ UNCHANGED vars PROVE UNCHANGED <<pc, io>>
  BY <1>9 DEF Edit, LeaseEnds, vars
<1>10. Crash => ProcessEnds
  BY DEF Crash
<1>11. /\ \A c \in Callers : c \in Actors
       /\ \A h \in Handlers : h \in Actors
       /\ Watch \in Actors /\ Boot \in Actors
  BY IndexAssumption DEF Actors
<1>30. ASSUME NEW c \in Callers, RebuildClears(c) \/ FileFails(c)
       PROVE UNCHANGED <<pc, io>>
  BY <1>30, StoreMoves
<1> HIDE DEF Pcs, Updates, Saves, Waits
<1> QED
  BY <1>30, <1>1, <1>3, <1>4, <1>5, <1>6, <1>7, <1>8, <1>9, <1>10, <1>11
  DEF Next, Proceed

\* Every step keeps the types of the program counters,
LEMMA ControlTypesStep ==
  ASSUME TypeOK, [Next]_vars PROVE ControlTypes'
<1>1. ControlTypes
  BY TypeParts
<1>2. ASSUME NEW a \in Actors, ReadRecord(a) \/ OpenRecord(a)
      PROVE ControlTypes'
  BY <1>1, <1>2 DEF ReadRecord, OpenRecord, ControlTypes, Ios
<1>3. ASSUME ProcessEnds PROVE ControlTypes'
  BY <1>3, ProcessEnding DEF ControlTypes, Pcs, Waits, Ios
<1>4. ASSUME NEW a \in Actors, NEW p \in Pcs, Goto(a, p) PROVE ControlTypes'
  BY <1>4, GotoMoves DEF ControlTypes
<1>5. ASSUME UNCHANGED <<pc, io>> PROVE ControlTypes'
  BY <1>1, <1>5 DEF ControlTypes
<1> QED
  BY <1>2, <1>3, <1>4, <1>5, ControlMoves

\* The same of what is on disk.
LEMMA DiskTypesStep ==
  ASSUME TypeOK, ControlInv, VersionInv, [Next]_vars PROVE DiskTypes'
<1>1. DiskTypes /\ CellTypes /\ RunTypes
  BY TypeParts
<1>2. ASSUME NEW a \in Actors, OpenRecord(a) PROVE DiskTypes'
  BY <1>1, <1>2 DEF OpenRecord, DiskTypes
<1>3. ASSUME NEW a \in Actors, WriteRecord(a) PROVE DiskTypes'
  BY <1>1, <1>3 DEF WriteRecord, DiskTypes, CellTypes
<1>4. ASSUME NEW c \in Callers, Acquire(c) \/ Release(c) PROVE DiskTypes'
  BY <1>1, <1>4 DEF Acquire, Release, DiskTypes
<1>5. ASSUME NEW c \in Callers, IngestResolves(c) PROVE DiskTypes'
  BY <1>1, <1>5 DEF IngestResolves, DiskTypes, RunTypes, VersionInv
<1>6. ASSUME NEW a \in Actors, WriteFails(a) PROVE DiskTypes'
  <2>1. holder' \in Callers \cup {Free, Orphaned}
    BY <1>1, <1>6, ProcessEnding DEF WriteFails, DiskTypes
  <2> QED
    BY <1>1, <1>6, <2>1 DEF WriteFails, DiskTypes
<1>7. ASSUME Crash PROVE DiskTypes'
  BY <1>1, <1>7, ProcessEnding DEF Crash, DiskTypes
<1>8. ASSUME Edit \/ LeaseEnds PROVE DiskTypes'
  BY <1>1, <1>8, IndexAssumption DEF Edit, LeaseEnds, DiskTypes
<1>9. ASSUME UNCHANGED disk PROVE DiskTypes'
  BY <1>1, <1>9 DEF disk, DiskTypes
<1>10. ASSUME NEW a \in Actors,
              ReadRecord(a) \/ RecoverRead(a) \/ RecoverLock(a)
       PROVE UNCHANGED disk
  BY <1>10 DEF ReadRecord, RecoverRead, RecoverLock
<1>11. ASSUME NEW c \in Callers,
              \/ GetStatus(c) \/ IngestRead(c) \/ CallIndex(c) \/ Checkpoint(c)
              \/ IngestFails(c)
       PROVE UNCHANGED disk
  BY <1>11 DEF GetStatus, IngestRead, CallIndex, Checkpoint, IngestFails
<1>12. ASSUME NEW h \in Handlers, Deliver(h) \/ WatchError(h)
       PROVE UNCHANGED disk
  BY <1>12 DEF Deliver, WatchError
<1>13. ASSUME DebounceFires \/ Start \/ UNCHANGED vars PROVE UNCHANGED disk
  BY <1>13 DEF DebounceFires, Start, vars, disk
<1>30. ASSUME NEW c \in Callers, RebuildClears(c) \/ FileFails(c)
       PROVE DiskTypes'
  BY <1>1, <1>30, StoreMoves DEF DiskTypes
<1> QED
  BY <1>30, <1>2, <1>3, <1>4, <1>5, <1>6, <1>7, <1>8, <1>9, <1>10, <1>11,
     <1>12, <1>13
  DEF Next, Proceed

\* What the read half of an update leaves to be written: a record of a run has
\* the errors the run has counted, and only the end of a run turns one fresh.
LEMMA ReadReturns ==
  ASSUME TypeOK, ControlInv, NEW a \in Actors, ReadRecord(a)
  PROVE  /\ val'[a] \in Record
         /\ \A b \in Actors : b # a => val'[b] = val[b]
         /\ pc[a] \in {"markCompleted", "finalProgress"} =>
              a \in Callers /\ val'[a].errors = short[a]
         /\ Fresh(val'[a]) =>
              \/ pc[a] = "markCompleted"
              \/ /\ pc[a] \in {"progress", "finalProgress"}
                 /\ rec # Null /\ Fresh(rec)
<1> DEFINE e == a \in Callers /\ short[a]
<1>1. /\ pc[a] \in Updates /\ Existing \in Record /\ e \in BOOLEAN
      /\ Fresh(Existing) => rec # Null /\ Existing = rec
  BY ExistingReturns, Zenon DEF ReadRecord, ControlInv, TypeOK
<1>2. /\ val'[a] = Updated(pc[a], Existing, e)
      /\ \A b \in Actors : b # a => val'[b] = val[b]
  BY DEF ReadRecord, TypeOK
<1>3. pc[a] \in {"markCompleted", "finalProgress"} =>
        a \in Callers /\ (e <=> short[a]) /\ short[a] \in BOOLEAN
  BY IndexAssumption DEF ControlInv, Actors, TypeOK
<1>4. PICK r : r = Existing
  OBVIOUS
<1>5. /\ r \in Record /\ val'[a] = Updated(pc[a], r, e)
      /\ Fresh(r) => rec # Null /\ Fresh(rec)
  BY <1>1, <1>2, <1>4
<1> HIDE DEF e
<1>6. /\ Updated(pc[a], r, e) \in Record
      /\ pc[a] \in {"markCompleted", "finalProgress"} =>
           Updated(pc[a], r, e).errors = e
      /\ Fresh(Updated(pc[a], r, e)) =>
           \/ pc[a] = "markCompleted"
           \/ pc[a] \in {"progress", "finalProgress"} /\ Fresh(r)
  BY <1>1, <1>5, UpdatedReturns
<1>7. pc[a] \in {"markCompleted", "finalProgress"} =>
        a \in Callers /\ val'[a].errors = short[a]
  BY <1>1, <1>3, <1>5, <1>6
<1> QED
  BY <1>2, <1>5, <1>6, <1>7

\* of what the actors hold,
LEMMA CellTypesStep ==
  ASSUME TypeOK, ControlInv, [Next]_vars PROVE CellTypes'
<1>1. DiskTypes /\ CellTypes /\ ControlTypes
  BY TypeParts
<1>2. /\ Null \in Record \cup {Null}
      /\ \A a \in Actors : val[a] \in Record \cup {Null}
  BY <1>1 DEF CellTypes
<1>3. ASSUME NEW a \in Actors, ReadRecord(a) PROVE CellTypes'
  <2>1. val'[a] \in Record
    BY <1>3, ReadReturns
  <2>2. /\ val' = [val EXCEPT ![a] = val'[a]] /\ mixed' = mixed
    BY <1>1, <1>3, ReadReturns DEF ReadRecord, CellTypes
  <2> QED
    BY <1>1, <2>1, <2>2 DEF CellTypes
<1>4. ASSUME NEW a \in Actors, OpenRecord(a) PROVE CellTypes'
  BY <1>1, <1>4 DEF OpenRecord, CellTypes
<1>5. ASSUME NEW a \in Actors, WriteRecord(a) PROVE CellTypes'
  <2>1. val' \in [Actors -> Record \cup {Null}]
    BY <1>1, <1>5 DEF WriteRecord, CellTypes
  <2>2. mixed' \in [Actors -> BOOLEAN]
    BY <1>5, Zenon DEF WriteRecord
  <2> QED
    BY <2>1, <2>2 DEF CellTypes
<1>6. ASSUME NEW a \in Actors, RecoverRead(a) \/ RecoverLock(a)
      PROVE CellTypes'
  <2>1. mixed' = mixed
    BY <1>6 DEF RecoverRead, RecoverLock
  <2>2. val' \in [Actors -> Record \cup {Null}]
    BY <1>1, <1>6, RecoveredReturns
    DEF RecoverRead, RecoverLock, CellTypes, DiskTypes, ControlInv
  <2> QED
    BY <1>1, <2>1, <2>2 DEF CellTypes
<1>7. ASSUME NEW c \in Callers, GetStatus(c) PROVE CellTypes'
  BY <1>1, <1>7, ExistingReturns DEF GetStatus, CellTypes, DiskTypes
<1>8. ASSUME ProcessEnds PROVE CellTypes'
  BY <1>8, ProcessEnding, Zenon DEF CellTypes
<1>9. ASSUME UNCHANGED <<val, mixed>> PROVE CellTypes'
  BY <1>1, <1>9 DEF CellTypes
<1>10. ASSUME NEW c \in Callers,
              \/ Acquire(c) \/ Release(c) \/ IngestRead(c) \/ IngestResolves(c)
              \/ CallIndex(c) \/ Checkpoint(c) \/ IngestFails(c)
       PROVE UNCHANGED <<val, mixed>>
  BY <1>10 DEF Acquire, Release, IngestRead, IngestResolves, CallIndex,
     Checkpoint,
               IngestFails
<1>11. ASSUME NEW a \in Actors, WriteFails(a)
       PROVE ProcessEnds \/ UNCHANGED <<val, mixed>>
  BY <1>11 DEF WriteFails
<1>12. ASSUME NEW h \in Handlers, Deliver(h) \/ WatchError(h)
       PROVE UNCHANGED <<val, mixed>>
  BY <1>12 DEF Deliver, WatchError
<1>13. ASSUME DebounceFires \/ Edit \/ Start \/ LeaseEnds \/ UNCHANGED vars
       PROVE UNCHANGED <<val, mixed>>
  BY <1>13 DEF DebounceFires, Edit, Start, LeaseEnds, vars
<1>14. Crash => ProcessEnds
  BY DEF Crash
<1>30. ASSUME NEW c \in Callers, RebuildClears(c) \/ FileFails(c)
       PROVE UNCHANGED <<val, mixed>>
  BY <1>30, StoreMoves
<1> QED
  BY <1>30, <1>3, <1>4, <1>5, <1>6, <1>7, <1>8, <1>9, <1>10, <1>11, <1>12,
     <1>13, <1>14
  DEF Next, Proceed

\* of what the runs and the watcher keep,
LEMMA RunTypesStep ==
  ASSUME TypeOK, [Next]_vars PROVE RunTypes'
<1>1. DiskTypes /\ RunTypes
  BY TypeParts
<1>2. ASSUME NEW c \in Callers, CallIndex(c) \/ Acquire(c) PROVE RunTypes'
  BY <1>1, <1>2 DEF CallIndex, Acquire, RunTypes
<1>3. ASSUME DebounceFires PROVE RunTypes'
  <2>1. watcher' \in Watchers
    BY <1>1, <1>3 DEF DebounceFires, RunTypes, Watchers
  <2> QED
    BY <1>1, <1>3, <2>1 DEF DebounceFires, RunTypes
<1>4. ASSUME NEW a \in Actors, AfterRecovery(a), UNCHANGED <<seen, short>>
      PROVE RunTypes'
  BY <1>1, <1>4, RecoveryGoesOn DEF RunTypes
<1>5. ASSUME NEW a \in Actors, RecoverRead(a) \/ RecoverLock(a) PROVE RunTypes'
  BY <1>1, <1>4, <1>5 DEF RecoverRead, RecoverLock, RunTypes
<1>6. ASSUME NEW a \in Actors, WriteRecord(a) PROVE RunTypes'
  <2>1. UNCHANGED <<seen, short>>
    BY <1>6 DEF WriteRecord
  <2>2. ASSUME ~AfterRecovery(a)
        PROVE attempt' = attempt /\ watcher' \in Watchers
    BY <1>1, <1>6, <2>2, ScheduledReturns, SettledReturns
    DEF WriteRecord, AfterWrite, RunTypes
  <2> QED
    BY <1>1, <1>4, <2>1, <2>2 DEF RunTypes
<1>7. ASSUME NEW c \in Callers, Release(c) PROVE RunTypes'
  BY <1>1, <1>7, SettledReturns DEF Release, RunTypes
<1>8. ASSUME NEW c \in Callers,
             IngestRead(c) \/ IngestResolves(c) \/ IngestFails(c)
      PROVE RunTypes'
  <2>1. UNCHANGED <<attempt, watcher>>
    BY <1>8 DEF IngestRead, IngestResolves, IngestFails
  <2>2. seen' \in [Callers -> 0..MaxVersion]
    BY <1>1, <1>8, IndexAssumption
    DEF IngestRead, IngestResolves, IngestFails, RunTypes, DiskTypes
  <2>3. short' \in [Callers -> BOOLEAN]
    BY <1>1, <1>8 DEF IngestRead, IngestResolves, IngestFails, RunTypes
  <2> QED
    BY <1>1, <2>1, <2>2, <2>3 DEF RunTypes
<1>9. ASSUME NEW a \in Actors, WriteFails(a), ~ProcessEnds PROVE RunTypes'
  <2>1. UNCHANGED <<short, watcher>> /\ attempt' \in [Callers -> 0..2]
    BY <1>1, <1>9 DEF WriteFails, RunTypes
  <2>2. seen' \in [Callers -> 0..MaxVersion]
    BY <1>1, <1>9, IndexAssumption DEF WriteFails, RunTypes
  <2> QED
    BY <1>1, <2>1, <2>2 DEF RunTypes
<1>10. ASSUME ProcessEnds PROVE RunTypes'
  <2>1. /\ attempt' = [c \in Callers |-> 0] /\ seen' = [c \in Callers |-> 0]
        /\ short' = [c \in Callers |-> FALSE] /\ watcher' \in Watchers
    BY <1>10, ProcessEnding
  <2>2. [c \in Callers |-> FALSE] \in [Callers -> BOOLEAN]
    BY Zenon
  <2>3. /\ [c \in Callers |-> 0] \in [Callers -> 0..2]
        /\ [c \in Callers |-> 0] \in [Callers -> 0..MaxVersion]
    BY IndexAssumption
  <2> QED
    BY <2>1, <2>2, <2>3, Zenon DEF RunTypes
<1>11. ASSUME UNCHANGED <<attempt, seen, short, watcher>> PROVE RunTypes'
  BY <1>1, <1>11 DEF RunTypes
<1>12. ASSUME NEW a \in Actors, ReadRecord(a) \/ OpenRecord(a)
       PROVE UNCHANGED <<attempt, seen, short, watcher>>
  BY <1>12 DEF ReadRecord, OpenRecord
<1>13. ASSUME NEW c \in Callers, GetStatus(c) \/ Checkpoint(c)
       PROVE UNCHANGED <<attempt, seen, short, watcher>>
  BY <1>13 DEF GetStatus, Checkpoint
<1>14. ASSUME NEW h \in Handlers, Deliver(h) \/ WatchError(h)
       PROVE UNCHANGED <<attempt, seen, short, watcher>>
  BY <1>14 DEF Deliver, WatchError
<1>15. ASSUME Edit \/ Start \/ LeaseEnds \/ UNCHANGED vars
       PROVE UNCHANGED <<attempt, seen, short, watcher>>
  BY <1>15 DEF Edit, Start, LeaseEnds, vars
<1>16. Crash => ProcessEnds
  BY DEF Crash
<1>30. ASSUME NEW c \in Callers, RebuildClears(c) \/ FileFails(c)
       PROVE RunTypes'
  BY <1>1, <1>30, StoreMoves DEF RunTypes
<1> QED
  BY <1>30, <1>2, <1>3, <1>5, <1>6, <1>7, <1>8, <1>9, <1>10, <1>11, <1>12,
     <1>13,
     <1>14, <1>15, <1>16
  DEF Next, Proceed

\* and of the flags and counters,
LEMMA FlagTypesStep ==
  ASSUME TypeOK, [Next]_vars PROVE FlagTypes'
<1>1. FlagTypes /\ DiskTypes
  BY TypeParts
<1>2. ASSUME NEW a \in Actors, WriteFails(a) PROVE FlagTypes'
  <2>1. crashes' = crashes /\ faults' \in 0..MaxFaults
    BY <1>1, <1>2, IndexAssumption DEF WriteFails, FlagTypes
  <2>2. CASE ProcessEnds
    BY <1>1, <2>1, <2>2, ProcessEnding, IndexAssumption DEF FlagTypes
  <2>3. CASE ~ProcessEnds
    <3>1. UNCHANGED <<up, events, owed, cut>>
      BY <1>2, <2>3 DEF WriteFails
    <3> QED
      BY <1>1, <2>1, <3>1 DEF FlagTypes
  <2> QED
    BY <2>2, <2>3
<1>3. ASSUME Crash PROVE FlagTypes'
  <2>1. crashes' \in 0..MaxCrashes /\ faults' = faults
    BY <1>1, <1>3, IndexAssumption DEF Crash, FlagTypes
  <2> QED
    BY <1>1, <1>3, <2>1, ProcessEnding, IndexAssumption DEF Crash, FlagTypes
<1>4. ASSUME NEW c \in Callers, IngestFails(c) \/ IngestResolves(c)
      PROVE FlagTypes'
  <2>1. CASE IngestFails(c)
    BY <1>1, <2>1, IndexAssumption DEF IngestFails, FlagTypes
  <2>2. CASE IngestResolves(c)
    BY <1>1, <2>2 DEF IngestResolves, FlagTypes
  <2> QED
    BY <1>4, <2>1, <2>2
<1>5. ASSUME NEW h \in Handlers, Deliver(h) \/ WatchError(h) PROVE FlagTypes'
  <2>1. CASE Deliver(h)
    BY <1>1, <2>1, Zenon DEF Deliver, FlagTypes, history
  <2>2. CASE WatchError(h)
    BY <1>1, <2>2, IndexAssumption DEF WatchError, FlagTypes
  <2> QED
    BY <1>5, <2>1, <2>2
<1>6. ASSUME Edit PROVE FlagTypes'
  <2>1. owed' \in 0..MaxVersion
    BY <1>1, <1>6, IndexAssumption DEF Edit, DiskTypes
  <2> QED
    BY <1>1, <1>6, <2>1 DEF Edit, FlagTypes
<1>7. ASSUME Start PROVE FlagTypes'
  BY <1>1, <1>7 DEF Start, FlagTypes, history
<1>8. ASSUME UNCHANGED <<up, events, history>> PROVE FlagTypes'
  BY <1>1, <1>8 DEF FlagTypes, history
<1>9. ASSUME NEW a \in Actors,
             \/ ReadRecord(a) \/ OpenRecord(a) \/ WriteRecord(a)
             \/ RecoverRead(a) \/ RecoverLock(a)
      PROVE UNCHANGED <<up, events, history>>
  BY <1>9 DEF ReadRecord, OpenRecord, WriteRecord, RecoverRead, RecoverLock
<1>10. ASSUME NEW c \in Callers,
              \/ Acquire(c) \/ GetStatus(c) \/ Release(c) \/ IngestRead(c)
              \/ CallIndex(c) \/ Checkpoint(c)
       PROVE UNCHANGED <<up, events, history>>
  BY <1>10 DEF Acquire, GetStatus, Release, IngestRead, CallIndex, Checkpoint
<1>11. ASSUME DebounceFires \/ LeaseEnds \/ UNCHANGED vars
       PROVE UNCHANGED <<up, events, history>>
  BY <1>11 DEF DebounceFires, LeaseEnds, vars, history
<1>30. ASSUME NEW c \in Callers, RebuildClears(c) \/ FileFails(c)
       PROVE FlagTypes'
  <2>1. faults' \in 0..MaxFaults
    BY <1>1, <1>30, StoreMoves, IndexAssumption DEF FlagTypes, FileFails
  <2> QED
    BY <1>1, <1>30, <2>1, StoreMoves DEF FlagTypes
<1> QED
  BY <1>30, <1>2, <1>3, <1>4, <1>5, <1>6, <1>7, <1>8, <1>9, <1>10, <1>11
  DEF Next, Proceed

\* and so TypeOK.
LEMMA TypeStep ==
  ASSUME TypeOK, ControlInv, VersionInv, [Next]_vars PROVE TypeOK'
<1>1. /\ ControlTypes' /\ DiskTypes' /\ CellTypes' /\ RunTypes' /\ FlagTypes'
  BY ControlTypesStep, DiskTypesStep, CellTypesStep, RunTypesStep,
     FlagTypesStep
<1> QED
  BY <1>1, TypeParts, PTL

-----------------------------------------------------------------------------
(* The run lock, the versions and the watcher *)

\* What a failed write does when the process survives it: the run has failed,
\* or ends as failed, or never began.
LEMMA WriteFailing ==
  ASSUME NEW a \in Actors, WriteFails(a), ~ProcessEnds
  PROVE  /\ io[a] = "open"
         /\ UNCHANGED <<rec, holder, ver, idx, up, val, short, watcher, events,
                        owed, cut>>
         /\ faults' = faults + 1
         /\ \/ /\ pc[a] \in {"progress", "markCompleted", "finalProgress"}
               /\ Goto(a, "markFailed") /\ seen' = [seen EXCEPT ![a] = 0]
            \/ /\ pc[a] \in {"saveExisting", "markRunning", "saveRunning",
                             "markFailed"}
               /\ Goto(a, "releaseFailed") /\ seen' = seen
            \/ /\ pc[a] = "saveRecovered" /\ a \in Callers /\ seen' = seen
               /\ \/ a = Watch /\ Goto(a, "watcherFailed")
                  \/ a # Watch /\ Goto(a, "idle")
BY DEF WriteFails

\* Every step keeps the control invariant.
LEMMA ControlStep ==
  ASSUME TypeOK, ControlInv, [Next]_vars PROVE ControlInv'
<1> USE IndexAssumption DEF Actors
<1>1. ASSUME ProcessEnds PROVE ControlInv'
  <2>1. /\ pc' = [a \in Actors |-> "idle"]
        /\ io' = [a \in Actors |-> "rest"]
    BY <1>1 DEF ProcessEnds
  <2> QED
    BY <2>1 DEF ControlInv, Waits
<1>2. ASSUME NEW a \in Actors, NEW p \in Pcs, Goto(a, p),
             \A b \in Actors : b # a => val'[b] = val[b],
             p \in Saves \cup {"recoverLock"} => val'[a] \in Record,
             a \in Handlers =>
               p \in {"idle", "watcherPending", "watcherFailed"},
             a = Boot =>
               p \in {"idle", "recover", "recoverLock", "saveRecovered"},
             a \in Callers => /\ p # "watcherPending"
                              /\ p = "watcherFailed" => a = Watch
      PROVE ControlInv'
  BY <1>2, GotoMoves DEF ControlInv, Pcs, Updates, Saves, Waits
<1> USE DEF Pcs, Updates, Saves, Waits
<1>3. ASSUME NEW c \in Callers,
             \/ Acquire(c) \/ Release(c) \/ IngestRead(c) \/ IngestResolves(c)
             \/ CallIndex(c) \/ Checkpoint(c) \/ IngestFails(c)
      PROVE ControlInv'
  <2>1. val' = val
    BY <1>3 DEF Acquire, Release, IngestRead, IngestResolves, CallIndex,
       Checkpoint,
                IngestFails
  <2>2. \/ \E p \in {"getStatus", "recover", "idle", "ingested",
                     "markCompleted", "acquire", "progress", "markFailed"} :
             Goto(c, p)
        \/ c = Watch /\ Goto(c, "watcherFailed")
    BY <1>3 DEF Acquire, Release, IngestRead, IngestResolves, CallIndex,
       Checkpoint,
                IngestFails
  <2> QED
    BY <1>2, <2>1, <2>2
<1>4. ASSUME NEW c \in Callers, GetStatus(c) PROVE ControlInv'
  <2>1. val' = [val EXCEPT ![c] = Existing] /\ Existing \in Record
    BY <1>4, ExistingReturns DEF GetStatus, TypeOK
  <2> QED
    BY <1>2, <1>4, <2>1 DEF GetStatus, TypeOK
<1>5. ASSUME NEW a \in Actors, AfterRecovery(a),
             pc[a] \in {"recover", "recoverLock", "saveRecovered"},
             \A b \in Actors : b # a => val'[b] = val[b]
      PROVE ControlInv'
  BY <1>2, <1>5, RecoveryGoesOn DEF ControlInv
<1>6. ASSUME NEW a \in Actors, RecoverRead(a) PROVE ControlInv'
  BY <1>2, <1>5, <1>6 DEF RecoverRead, TypeOK, ControlInv
<1>7. ASSUME NEW a \in Actors, RecoverLock(a) PROVE ControlInv'
  BY <1>2, <1>5, <1>7, RecoveredReturns DEF RecoverLock, TypeOK, ControlInv
<1>8. ASSUME NEW a \in Actors, ReadRecord(a) PROVE ControlInv'
  <2> QED
    BY <1>8, ReadReturns DEF ReadRecord, ControlInv, TypeOK
<1>9. ASSUME NEW a \in Actors, OpenRecord(a) PROVE ControlInv'
  BY <1>9 DEF OpenRecord, ControlInv, TypeOK
<1>10. ASSUME NEW a \in Actors, WriteRecord(a) PROVE ControlInv'
  <2>1. \A b \in Actors : b # a => val'[b] = val[b]
    BY <1>10 DEF WriteRecord, TypeOK
  <2>2. pc[a] = "markRunning" => val'[a] \in Record
    BY <1>10 DEF WriteRecord, ControlInv
  <2> QED
    BY <1>2, <1>5, <1>10, <2>1, <2>2 DEF WriteRecord, AfterWrite, ControlInv
<1>11. ASSUME NEW a \in Actors, WriteFails(a), ~ProcessEnds PROVE ControlInv'
  BY <1>2, <1>11, WriteFailing DEF ControlInv
<1>12. ASSUME NEW h \in Handlers, Deliver(h) \/ WatchError(h) PROVE ControlInv'
  BY <1>2, <1>12 DEF Deliver, WatchError
<1>13. ASSUME DebounceFires PROVE ControlInv'
  <2>1. val' = val
    BY <1>13 DEF DebounceFires
  <2>2. UNCHANGED <<pc, io>> \/ Goto(Watch, "acquire")
    BY <1>13 DEF DebounceFires
  <2> QED
    BY <1>2, <2>1, <2>2 DEF ControlInv
<1>14. ASSUME Start PROVE ControlInv'
  BY <1>2, <1>14 DEF Start
<1>15. ASSUME Edit \/ LeaseEnds \/ UNCHANGED vars PROVE ControlInv'
  BY <1>15 DEF Edit, LeaseEnds, vars, ControlInv
<1>16. Crash => ProcessEnds
  BY DEF Crash
<1>30. ASSUME NEW c \in Callers, RebuildClears(c) \/ FileFails(c)
       PROVE ControlInv'
  BY <1>30, StoreMoves DEF ControlInv
<1> HIDE DEF Pcs, Updates, Saves, Waits
<1> QED
  BY <1>30, <1>1, <1>3, <1>4, <1>6, <1>7, <1>8, <1>9, <1>10, <1>11, <1>12,
     <1>13,
     <1>14, <1>15, <1>16
  DEF Next, Proceed

\* Every step keeps the lock with the caller that is within execute().
LEMMA LockStep ==
  ASSUME TypeOK, ControlInv, WatcherInv, LockInv, [Next]_vars PROVE LockInv'
<1> USE IndexAssumption DEF Actors
<1>1. ASSUME ProcessEnds PROVE LockInv'
  <2>1. holder' \in {Free, Orphaned}
    BY <1>1 DEF ProcessEnds, TypeOK
  <2>2. pc' = [a \in Actors |-> "idle"]
    BY <1>1 DEF ProcessEnds
  <2> QED
    BY <2>1, <2>2 DEF LockInv, Holding
<1>2. ASSUME NEW a \in Actors, NEW p \in Pcs, Goto(a, p), holder' = holder,
             a \in Callers => (p \in Holding <=> pc[a] \in Holding)
      PROVE LockInv'
  BY <1>2, GotoMoves DEF LockInv
<1> USE DEF Pcs, Updates, Saves, Waits, Holding
<1>3. ASSUME NEW c \in Callers, Acquire(c) PROVE LockInv'
  <2>1. CASE holder # Free
    BY <1>2, <1>3, <2>1 DEF Acquire
  <2>2. CASE holder = Free
    BY <1>3, <2>2, GotoMoves DEF Acquire, LockInv
  <2> QED
    BY <2>1, <2>2
<1>4. ASSUME NEW c \in Callers, Release(c) PROVE LockInv'
  BY <1>4, GotoMoves DEF Release, LockInv
<1>5. ASSUME NEW c \in Callers,
             \/ GetStatus(c) \/ IngestRead(c) \/ IngestResolves(c)
             \/ CallIndex(c) \/ Checkpoint(c) \/ IngestFails(c)
      PROVE LockInv'
  BY <1>2, <1>5 DEF GetStatus, IngestRead, IngestResolves, CallIndex,
     Checkpoint,
                    IngestFails, disk
<1>6. ASSUME NEW a \in Actors, AfterRecovery(a), holder' = holder,
             pc[a] \in {"recover", "recoverLock", "saveRecovered"}
      PROVE LockInv'
  BY <1>2, <1>6, RecoveryGoesOn
<1>7. ASSUME NEW a \in Actors, RecoverRead(a) \/ RecoverLock(a) PROVE LockInv'
  BY <1>2, <1>6, <1>7 DEF RecoverRead, RecoverLock, disk
<1>8. ASSUME NEW a \in Actors, WriteRecord(a) PROVE LockInv'
  BY <1>2, <1>6, <1>8 DEF WriteRecord, AfterWrite
<1>9. ASSUME NEW a \in Actors, WriteFails(a), ~ProcessEnds PROVE LockInv'
  BY <1>2, <1>9, WriteFailing
<1>10. ASSUME NEW h \in Handlers, Deliver(h) \/ WatchError(h) PROVE LockInv'
  BY <1>2, <1>10 DEF Deliver, WatchError, disk
<1>11. ASSUME DebounceFires PROVE LockInv'
  <2>1. CASE watcher.running
    BY <1>11, <2>1 DEF DebounceFires, LockInv, disk
  <2>2. CASE ~watcher.running
    BY <1>2, <1>11, <2>2 DEF DebounceFires, WatcherInv, disk
  <2> QED
    BY <2>1, <2>2
<1>12. ASSUME Start PROVE LockInv'
  BY <1>2, <1>12 DEF Start, disk
<1>13. ASSUME LeaseEnds PROVE LockInv'
  BY <1>13 DEF LeaseEnds, LockInv
<1>14. ASSUME UNCHANGED <<holder, pc>> PROVE LockInv'
  BY <1>14 DEF LockInv
<1>15. ASSUME NEW a \in Actors, ReadRecord(a) \/ OpenRecord(a)
       PROVE UNCHANGED <<holder, pc>>
  BY <1>15 DEF ReadRecord, OpenRecord, disk
<1>16. ASSUME Edit \/ UNCHANGED vars PROVE UNCHANGED <<holder, pc>>
  BY <1>16 DEF Edit, vars
<1>17. Crash => ProcessEnds
  BY DEF Crash
<1>30. ASSUME NEW c \in Callers, RebuildClears(c) \/ FileFails(c)
       PROVE LockInv'
  BY <1>30, StoreMoves DEF LockInv
<1> HIDE DEF Pcs, Updates, Saves, Waits, Holding
<1> QED
  BY <1>30, <1>1, <1>3, <1>4, <1>5, <1>7, <1>8, <1>9, <1>10, <1>11, <1>12,
     <1>13,
     <1>14, <1>15, <1>16, <1>17
  DEF Next, Proceed

\* Every step keeps the version invariant: the holder of the lock is the only
\* one to change the index, so what it has read is not older than the index.
LEMMA VersionStep ==
  ASSUME TypeOK, ControlInv, LockInv, VersionInv, [Next]_vars
  PROVE  VersionInv'
<1> USE IndexAssumption DEF Actors
<1>1. ASSUME ProcessEnds, UNCHANGED <<ver, idx>> PROVE VersionInv'
  <2>1. /\ pc' = [a \in Actors |-> "idle"] /\ seen' = [c \in Callers |-> 0]
        /\ owed' = 0
    BY <1>1 DEF ProcessEnds
  <2> QED
    BY <1>1, <2>1 DEF VersionInv, TypeOK
<1>2. ASSUME NEW a \in Actors, NEW p \in Pcs, Goto(a, p),
             UNCHANGED <<ver, idx, owed>>, up' = up \/ up',
             \A c \in Callers : seen'[c] = seen[c] \/ (c = a /\ seen'[c] = 0),
             a \in Callers /\ p \in {"ingested", "progress"} =>
               pc[a] \in {"ingested", "progress"} /\ seen' = seen
      PROVE VersionInv'
  BY <1>2, GotoMoves DEF VersionInv, TypeOK
<1> USE DEF Pcs, Updates, Saves, Waits
<1>3. ASSUME NEW c \in Callers, IngestRead(c) PROVE VersionInv'
  BY <1>3, GotoMoves DEF IngestRead, VersionInv, TypeOK, disk, history
<1>4. ASSUME NEW c \in Callers, IngestResolves(c) PROVE VersionInv'
  <2>1. \A d \in Callers : d # c => pc[d] \notin {"ingested", "progress"}
    BY <1>4 DEF IngestResolves, LockInv, Holding
  <2> QED
    BY <1>4, <2>1, GotoMoves DEF IngestResolves, VersionInv, TypeOK
<1>5. ASSUME NEW c \in Callers, IngestFails(c) PROVE VersionInv'
  BY <1>2, <1>5 DEF IngestFails, TypeOK, disk
<1>6. ASSUME NEW a \in Actors, WriteFails(a), ~ProcessEnds PROVE VersionInv'
  BY <1>2, <1>6, WriteFailing DEF TypeOK
<1>7. ASSUME NEW a \in Actors, WriteFails(a), ProcessEnds PROVE VersionInv'
  BY <1>1, <1>7 DEF WriteFails
<1>8. ASSUME NEW c \in Callers,
             \/ Acquire(c) \/ GetStatus(c) \/ Release(c) \/ CallIndex(c)
             \/ Checkpoint(c)
      PROVE VersionInv'
  BY <1>2, <1>8 DEF Acquire, GetStatus, Release, CallIndex, Checkpoint, disk,
                    history
<1>9. ASSUME NEW a \in Actors, AfterRecovery(a),
             UNCHANGED <<ver, idx, owed, up, seen>>
      PROVE VersionInv'
  BY <1>2, <1>9, RecoveryGoesOn
<1>10. ASSUME NEW a \in Actors, RecoverRead(a) \/ RecoverLock(a)
       PROVE VersionInv'
  BY <1>2, <1>9, <1>10 DEF RecoverRead, RecoverLock, disk, history
<1>11. ASSUME NEW a \in Actors, WriteRecord(a) PROVE VersionInv'
  BY <1>2, <1>9, <1>11 DEF WriteRecord, AfterWrite, history
<1>12. ASSUME NEW h \in Handlers, Deliver(h) \/ WatchError(h) PROVE VersionInv'
  BY <1>2, <1>12 DEF Deliver, WatchError, disk, history
<1>13. ASSUME DebounceFires PROVE VersionInv'
  <2>1. UNCHANGED <<ver, idx, owed, up, seen>>
    BY <1>13 DEF DebounceFires, disk, history
  <2>2. UNCHANGED pc \/ Goto(Watch, "acquire")
    BY <1>13 DEF DebounceFires
  <2> QED
    BY <1>2, <2>1, <2>2 DEF VersionInv
<1>14. ASSUME Start PROVE VersionInv'
  BY <1>2, <1>14 DEF Start, disk, history
<1>15. ASSUME Edit PROVE VersionInv'
  BY <1>15 DEF Edit, VersionInv, TypeOK
<1>16. ASSUME UNCHANGED <<ver, idx, owed, up, seen, pc>> PROVE VersionInv'
  BY <1>16 DEF VersionInv
<1>17. ASSUME NEW a \in Actors, ReadRecord(a) \/ OpenRecord(a)
       PROVE UNCHANGED <<ver, idx, owed, up, seen, pc>>
  BY <1>17 DEF ReadRecord, OpenRecord, disk, history
<1>18. ASSUME LeaseEnds \/ UNCHANGED vars
       PROVE UNCHANGED <<ver, idx, owed, up, seen, pc>>
  BY <1>18 DEF LeaseEnds, vars, history
<1>19. ASSUME Crash PROVE VersionInv'
  BY <1>1, <1>19 DEF Crash
<1>30. ASSUME NEW c \in Callers, RebuildClears(c) \/ FileFails(c)
       PROVE VersionInv'
  BY <1>30, StoreMoves DEF VersionInv, TypeOK
<1> HIDE DEF Pcs, Updates, Saves, Waits
<1> QED
  BY <1>30, <1>3, <1>4, <1>5, <1>6, <1>7, <1>8, <1>10, <1>11, <1>12, <1>13,
     <1>14,
     <1>15, <1>16, <1>17, <1>18, <1>19
  DEF Next, Proceed

\* Every step keeps the fields of the watcher in line with its run.
LEMMA WatcherStep ==
  ASSUME TypeOK, ControlInv, WatcherInv, [Next]_vars PROVE WatcherInv'
<1> USE IndexAssumption DEF Actors
<1>0. watcher \in Watchers
  BY DEF TypeOK, Watchers
<1>1. ASSUME ProcessEnds PROVE WatcherInv'
  BY <1>1, ProcessEnding DEF WatcherInv
<1>2. ASSUME NEW a \in Actors, NEW p \in Pcs, Goto(a, p), watcher' = watcher,
             a = Watch => p # "idle" /\ pc[Watch] # "idle"
      PROVE WatcherInv'
  BY <1>2, GotoMoves DEF WatcherInv
<1>3. ASSUME Goto(Watch, "idle"), watcher' = Settled(watcher) PROVE WatcherInv'
  BY <1>0, <1>3, GotoMoves, SettledReturns DEF WatcherInv, Pcs, Waits
<1> USE DEF Pcs, Updates, Saves, Waits
<1>4. ASSUME NEW a \in Actors, AfterRecovery(a), pc[a] # "idle"
      PROVE WatcherInv'
  <2>1. CASE Goto(a, "idle") /\ a = Watch /\ ~watcher'.running
    BY <2>1, GotoMoves DEF WatcherInv
  <2> QED
    BY <1>2, <1>4, <2>1, RecoveryGoesOn
<1>5. ASSUME NEW a \in Actors, RecoverRead(a) \/ RecoverLock(a)
      PROVE WatcherInv'
  BY <1>2, <1>4, <1>5 DEF RecoverRead, RecoverLock
<1>6. ASSUME NEW a \in Actors, WriteRecord(a) PROVE WatcherInv'
  <2>1. CASE AfterRecovery(a) /\ pc[a] = "saveRecovered"
    BY <1>4, <2>1
  <2>2. CASE pc[a] = "watcherPending"
    <3>1. a # Watch /\ Goto(a, "idle") /\ watcher' = Scheduled(watcher)
      BY <1>6, <2>2 DEF WriteRecord, AfterWrite, ControlInv
    <3> QED
      BY <1>0, <3>1, GotoMoves, ScheduledReturns DEF WatcherInv
  <2>3. CASE pc[a] = "watcherFailed"
    BY <1>2, <1>3, <1>6, <2>3 DEF WriteRecord, AfterWrite
  <2>4. CASE /\ pc[a] \notin {"watcherPending", "watcherFailed",
                              "saveRecovered"}
    BY <1>2, <1>6, <2>4 DEF WriteRecord, AfterWrite
  <2> QED
    BY <1>6, <2>1, <2>2, <2>3, <2>4 DEF WriteRecord, AfterWrite
<1>7. ASSUME NEW a \in Actors, WriteFails(a), ~ProcessEnds PROVE WatcherInv'
  BY <1>2, <1>7, WriteFailing
<1>8. ASSUME NEW c \in Callers, Release(c) PROVE WatcherInv'
  BY <1>2, <1>3, <1>8 DEF Release
<1>9. ASSUME NEW c \in Callers,
             \/ Acquire(c) \/ GetStatus(c) \/ IngestRead(c)
             \/ IngestResolves(c)
             \/ CallIndex(c) \/ Checkpoint(c) \/ IngestFails(c)
      PROVE WatcherInv'
  BY <1>2, <1>9 DEF Acquire, GetStatus, IngestRead, IngestResolves, CallIndex,
                    Checkpoint, IngestFails
<1>10. ASSUME NEW h \in Handlers, Deliver(h) \/ WatchError(h) PROVE WatcherInv'
  BY <1>2, <1>10 DEF Deliver, WatchError
<1>11. ASSUME DebounceFires PROVE WatcherInv'
  <2>1. CASE watcher.running
    BY <1>0, <1>11, <2>1 DEF DebounceFires, WatcherInv, Watchers
  <2>2. CASE ~watcher.running
    <3>1. ~watcher'.debounce /\ watcher'.running
      BY <1>0, <1>11, <2>2 DEF DebounceFires, Watchers
    <3>2. pc'[Watch] = "acquire"
      BY <1>11, <2>2, GotoMoves DEF DebounceFires
    <3> QED
      BY <3>1, <3>2 DEF WatcherInv
  <2> QED
    BY <2>1, <2>2
<1>12. ASSUME Start PROVE WatcherInv'
  BY <1>2, <1>12 DEF Start
<1>13. ASSUME UNCHANGED <<watcher, pc>> PROVE WatcherInv'
  BY <1>13 DEF WatcherInv
<1>14. ASSUME NEW a \in Actors, ReadRecord(a) \/ OpenRecord(a)
       PROVE UNCHANGED <<watcher, pc>>
  BY <1>14 DEF ReadRecord, OpenRecord
<1>15. ASSUME Edit \/ LeaseEnds \/ UNCHANGED vars
       PROVE UNCHANGED <<watcher, pc>>
  BY <1>15 DEF Edit, LeaseEnds, vars
<1>16. Crash => ProcessEnds
  BY DEF Crash
<1>30. ASSUME NEW c \in Callers, RebuildClears(c) \/ FileFails(c)
       PROVE WatcherInv'
  BY <1>30, StoreMoves DEF WatcherInv
<1> HIDE DEF Pcs, Updates, Saves, Waits
<1> QED
  BY <1>30, <1>1, <1>5, <1>6, <1>7, <1>8, <1>9, <1>10, <1>11, <1>12, <1>13,
     <1>14,
     <1>15, <1>16
  DEF Next, Proceed

-----------------------------------------------------------------------------
(* The status record *)

\* Every step keeps freshness honest: markRunning is written before the run
\* begins to ingest, and nobody else turns a record fresh.
LEMMA FreshStep ==
  ASSUME TypeOK, ControlInv, LockInv, FreshInv, [Next]_vars
  PROVE  FreshInv'
<1> USE IndexAssumption DEF Actors
<1>1. \A a \in Actors :
        pc[a] \in Ingesting \cup {"saveExisting", "markRunning", "saveRunning",
                                  "markCompleted", "finalProgress"} =>
          a \in Callers /\ \A c \in Callers : c # a => pc[c] \notin Holding
  BY DEF ControlInv, LockInv, Ingesting, Holding
<1>2. ASSUME ProcessEnds, rec' = rec PROVE FreshInv'
  <2>1. /\ pc' = [a \in Actors |-> "idle"] /\ io' = [a \in Actors |-> "rest"]
        /\ cut' => cut \/ \E c \in Callers : pc[c] \in Ingesting
    BY <1>2, ProcessEnding
  <2> QED
    BY <1>2, <2>1 DEF FreshInv, Ingesting
<1>3. ASSUME NEW a \in Actors, NEW p \in Pcs, Goto(a, p),
             UNCHANGED <<rec, cut>>,
             \A b \in Actors : b # a => val'[b] = val[b],
             p \in Saves \cup {"recoverLock"} => ~Fresh(val'[a]),
             a \in Callers /\ p \in Ingesting => pc[a] \in Ingesting,
             p \notin {"markCompleted", "finalProgress"}
      PROVE FreshInv'
  BY <1>3, GotoMoves DEF FreshInv, Pcs, Updates, Saves, Waits
<1> USE DEF Pcs, Updates, Saves, Waits
<1>4. ASSUME NEW c \in Callers,
             \/ Acquire(c) \/ Release(c) \/ CallIndex(c) \/ IngestRead(c)
             \/ Checkpoint(c) \/ IngestFails(c)
      PROVE FreshInv'
  <2>1. UNCHANGED <<rec, cut, val>>
    BY <1>4 DEF Acquire, Release, CallIndex, IngestRead, Checkpoint,
                IngestFails, disk, history
  <2>2. \/ \E p \in {"getStatus", "recover", "idle", "watcherFailed",
                     "acquire", "markFailed"} : Goto(c, p)
        \/ \E p \in Ingesting : Goto(c, p) /\ pc[c] \in Ingesting
    BY <1>4 DEF Acquire, Release, CallIndex, IngestRead, Checkpoint,
                IngestFails, Ingesting
  <2> QED
    BY <1>3, <2>1, <2>2 DEF Ingesting
<1>5. ASSUME NEW c \in Callers, GetStatus(c) PROVE FreshInv'
  <2>1. Fresh(Existing) => ~cut
    BY ExistingReturns DEF FreshInv, TypeOK
  <2>2. val'[c] = Existing /\ \A b \in Actors : b # c => val'[b] = val[b]
    BY <1>5 DEF GetStatus, TypeOK
  <2> QED
    BY <1>5, <2>1, <2>2, GotoMoves
    DEF GetStatus, FreshInv, Ingesting, disk, history
<1>6. ASSUME NEW c \in Callers, IngestResolves(c) PROVE FreshInv'
  <2>1. cut' = FALSE /\ UNCHANGED <<rec, val>> /\ Goto(c, "markCompleted")
    BY <1>6 DEF IngestResolves
  <2>2. \A d \in Callers : pc'[d] \notin Ingesting
    BY <1>1, <1>6, <2>1, GotoMoves DEF IngestResolves, Ingesting, Holding
  <2> QED
    BY <2>1, <2>2, GotoMoves DEF FreshInv
<1>7. ASSUME NEW a \in Actors, AfterRecovery(a), UNCHANGED <<rec, cut>>,
             \A b \in Actors : b # a => val'[b] = val[b]
      PROVE FreshInv'
  BY <1>3, <1>7, RecoveryGoesOn DEF Ingesting
<1>8. ASSUME NEW a \in Actors, RecoverRead(a) PROVE FreshInv'
  <2>1. CASE AfterRecovery(a) /\ UNCHANGED val
    BY <1>7, <1>8, <2>1 DEF RecoverRead, disk, history
  <2>2. CASE /\ rec.state = "running"
             /\ val' = [val EXCEPT ![a] = rec] /\ Goto(a, "recoverLock")
    BY <1>3, <1>8, <2>2 DEF RecoverRead, TypeOK, Fresh, Ingesting, disk,
       history
  <2> QED
    BY <1>8, <2>1, <2>2 DEF RecoverRead
<1>9. ASSUME NEW a \in Actors, RecoverLock(a) PROVE FreshInv'
  <2>1. \A b \in Actors : b # a => val'[b] = val[b]
    BY <1>9 DEF RecoverLock, TypeOK
  <2>2. CASE AfterRecovery(a)
    BY <1>7, <1>9, <2>1, <2>2 DEF RecoverLock, disk, history
  <2>3. CASE /\ val' = [val EXCEPT ![a] = Recovered(val[a])]
             /\ Goto(a, "saveRecovered")
    <3>1. ~Fresh(val'[a])
      BY <1>9, <2>3, RecoveredReturns DEF RecoverLock, ControlInv, TypeOK
    <3> QED
      BY <1>3, <1>9, <2>1, <2>3, <3>1 DEF RecoverLock, Ingesting, disk, history
  <2> QED
    BY <1>9, <2>2, <2>3 DEF RecoverLock
<1>10. ASSUME NEW a \in Actors, ReadRecord(a) PROVE FreshInv'
  <2>1. /\ \A b \in Actors : b # a => val'[b] = val[b] /\ io'[b] = io[b]
        /\ UNCHANGED <<pc, rec, cut>>
    BY <1>10, ReadReturns DEF ReadRecord, TypeOK, disk, history
  <2>2. ASSUME Fresh(val'[a])
        PROVE pc[a] \in {"markCompleted", "finalProgress"} /\ ~cut
    <3>1. pc[a] = "progress" => a \in Callers
      BY DEF ControlInv
    <3>2. pc[a] = "progress" => ~(rec # Null /\ Fresh(rec))
      BY <3>1 DEF FreshInv, Ingesting
    <3>3. pc[a] \in {"markCompleted", "finalProgress"}
      BY <1>10, <2>2, <3>2, ReadReturns
    <3> QED
      BY <3>3 DEF FreshInv
  <2>3. io[a] = "read" /\ pc[a] # "recoverLock"
    BY <1>10 DEF ReadRecord, ControlInv
  <2> QED
    BY <2>1, <2>2, <2>3 DEF FreshInv
<1>11. ASSUME NEW a \in Actors, OpenRecord(a) PROVE FreshInv'
  BY <1>11 DEF OpenRecord, FreshInv, TypeOK, history
<1>12. ASSUME NEW a \in Actors, WriteRecord(a) PROVE FreshInv'
  <2>1. /\ io[a] = "write" /\ cut' = cut
        /\ rec' = val[a] \/ rec' = Null
        /\ \A b \in Actors : b # a => val'[b] = val[b]
        /\ pc[a] = "markRunning" => val' = val
    BY <1>12 DEF WriteRecord, TypeOK, history
  <2>2. PICK p \in Pcs :
          /\ Goto(a, p)
          /\ p \in {"finalProgress", "markCompleted"} =>
               pc[a] = "markCompleted"
          /\ p \in Saves => pc[a] = "markRunning"
          /\ p # "recoverLock"
          /\ p \in Ingesting => pc[a] \in {"saveRunning", "progress"}
    BY <1>12, RecoveryGoesOn DEF WriteRecord, AfterWrite, Ingesting
  <2>3. ASSUME rec' # Null, Fresh(rec')
        PROVE ~cut /\ \A c \in Callers : pc'[c] \notin Ingesting
    <3>1. pc[a] \in {"saveExisting", "markCompleted", "finalProgress"} /\ ~cut
      BY <2>1, <2>3 DEF FreshInv
    <3> QED
      BY <1>1, <2>2, <3>1, GotoMoves DEF Holding, Ingesting
  <2>4. pc[a] = "markRunning" => ~Fresh(val[a])
    BY <2>1 DEF FreshInv
  <2> QED
    BY <2>1, <2>2, <2>3, <2>4, GotoMoves DEF FreshInv
<1>13. ASSUME NEW a \in Actors, WriteFails(a), ~ProcessEnds PROVE FreshInv'
  BY <1>3, <1>13, WriteFailing DEF Ingesting
<1>14. ASSUME NEW a \in Actors, WriteFails(a), ProcessEnds PROVE FreshInv'
  BY <1>2, <1>14 DEF WriteFails
<1>15. ASSUME NEW h \in Handlers, Deliver(h) \/ WatchError(h) PROVE FreshInv'
  BY <1>3, <1>15 DEF Deliver, WatchError, disk, history, Ingesting
<1>16. ASSUME DebounceFires PROVE FreshInv'
  <2>1. UNCHANGED <<rec, cut, val>>
    BY <1>16 DEF DebounceFires, disk, history
  <2>2. UNCHANGED <<pc, io>> \/ Goto(Watch, "acquire")
    BY <1>16 DEF DebounceFires
  <2> QED
    BY <1>3, <2>1, <2>2 DEF FreshInv, Ingesting
<1>17. ASSUME Start PROVE FreshInv'
  BY <1>3, <1>17 DEF Start, disk, history, Ingesting
<1>18. ASSUME Edit \/ LeaseEnds \/ UNCHANGED vars PROVE FreshInv'
  BY <1>18 DEF Edit, LeaseEnds, vars, history, FreshInv
<1>19. ASSUME Crash PROVE FreshInv'
  BY <1>2, <1>19 DEF Crash
<1>30. ASSUME NEW c \in Callers, RebuildClears(c) \/ FileFails(c)
       PROVE FreshInv'
  BY <1>30, StoreMoves DEF FreshInv
<1> HIDE DEF Pcs, Updates, Saves, Waits
<1> QED
  BY <1>30, <1>4, <1>5, <1>6, <1>8, <1>9, <1>10, <1>11, <1>12, <1>13, <1>14,
     <1>15,
     <1>16, <1>17, <1>18, <1>19
  DEF Next, Proceed

\* Every step keeps clean records true to the index: a clean record is copied
\* from a clean one, or made by a run that has counted no failed file, and none
\* is on disk or on its way there while a rebuild can clear the index.
LEMMA CleanStep ==
  ASSUME TypeOK, ControlInv, LockInv, VersionInv, FreshInv, CleanInv,
         [Next]_vars
  PROVE  CleanInv'
<1> USE IndexAssumption DEF Actors
<1>1. Null \notin Record /\ \A r \in Record : Clean(r) => Fresh(r)
  BY NullAssumption DEF Clean
<1>2. ASSUME ProcessEnds, UNCHANGED <<rec, idx>> PROVE CleanInv'
  <2>1. pc' = [a \in Actors |-> "idle"] /\ io' = [a \in Actors |-> "rest"]
    BY <1>2, ProcessEnding
  <2> QED
    BY <1>2, <2>1 DEF CleanInv
<1>3. ASSUME NEW a \in Actors, NEW p \in Pcs, Goto(a, p),
             UNCHANGED <<rec, idx>>,
             \A c \in Callers : c # a => short'[c] = short[c],
             \A b \in Actors : b # a => val'[b] = val[b],
             p \in Saves /\ Clean(val'[a]) => rec # Null /\ Clean(rec),
             p = "finalProgress" => pc[a] = "markCompleted",
             p \in {"markCompleted", "finalProgress"} /\ a \in Callers =>
               idx > 0 \/ short'[a]
      PROVE CleanInv'
  <2>1. /\ pc'[a] = p
        /\ p \in Updates => io'[a] = "read"
        /\ p \in Saves => io'[a] = "open"
        /\ p \in Waits => io'[a] = "rest"
        /\ \A b \in Actors : b # a => pc'[b] = pc[b] /\ io'[b] = io[b]
    BY <1>3, GotoMoves
  <2> QED
    BY <1>3, <2>1 DEF CleanInv, Pcs, Updates, Saves, Waits
<1>4. ASSUME NEW a \in Actors, NEW p \in Pcs, Goto(a, p),
             UNCHANGED <<rec, idx, short>>,
             \A b \in Actors : b # a => val'[b] = val[b],
             p \notin Saves \cup {"markCompleted", "finalProgress"}
      PROVE CleanInv'
  BY <1>3, <1>4
<1> USE DEF Pcs, Updates, Saves, Waits
<1>5. ASSUME NEW c \in Callers,
             \/ Acquire(c) \/ Release(c) \/ CallIndex(c) \/ Checkpoint(c)
             \/ IngestFails(c)
      PROVE CleanInv'
  <2>1. UNCHANGED <<rec, idx, short, val>>
    BY <1>5 DEF Acquire, Release, CallIndex, Checkpoint, IngestFails, disk
  <2>2. \E p \in {"getStatus", "recover", "idle", "watcherFailed", "acquire",
                  "progress", "markFailed"} : Goto(c, p)
    BY <1>5 DEF Acquire, Release, CallIndex, Checkpoint, IngestFails
  <2> QED
    BY <1>4, <2>1, <2>2
<1>6. ASSUME NEW c \in Callers, GetStatus(c) PROVE CleanInv'
  <2>1. Clean(Existing) => rec # Null /\ Clean(rec)
    BY ExistingReturns DEF Clean, TypeOK
  <2>2. val'[c] = Existing /\ \A b \in Actors : b # c => val'[b] = val[b]
    BY <1>6 DEF GetStatus, TypeOK
  <2>3. UNCHANGED <<rec, idx, short>> /\ Goto(c, "saveExisting")
    BY <1>6 DEF GetStatus, disk
  <2> QED
    BY <1>3, <2>1, <2>2, <2>3
<1>7. ASSUME NEW c \in Callers, IngestRead(c) PROVE CleanInv'
  <2>1. /\ UNCHANGED <<rec, idx, val>> /\ Goto(c, "ingested")
        /\ \A d \in Callers : d # c => short'[d] = short[d]
    BY <1>7 DEF IngestRead, TypeOK, disk
  <2> QED
    BY <1>3, <2>1
<1>8. ASSUME NEW c \in Callers, IngestResolves(c) PROVE CleanInv'
  <2>1. /\ UNCHANGED <<rec, val, short>> /\ Goto(c, "markCompleted")
        /\ pc[c] = "ingested" /\ idx' = IF short[c] THEN idx ELSE seen[c]
    BY <1>8 DEF IngestResolves
  <2>2. /\ pc'[c] = "markCompleted" /\ io'[c] = "read"
        /\ \A b \in Actors : b # c => pc'[b] = pc[b] /\ io'[b] = io[b]
    BY <2>1, GotoMoves
  <2>3. seen[c] > 0
    BY <2>1 DEF VersionInv
  <2> QED
    BY <2>1, <2>2, <2>3 DEF CleanInv
<1>9. ASSUME NEW a \in Actors, AfterRecovery(a), UNCHANGED <<rec, idx, short>>,
             \A b \in Actors : b # a => val'[b] = val[b]
      PROVE CleanInv'
  BY <1>4, <1>9, RecoveryGoesOn
<1>10. ASSUME NEW a \in Actors, RecoverRead(a) PROVE CleanInv'
  <2>1. UNCHANGED <<rec, idx, short>>
        /\ \A b \in Actors : b # a => val'[b] = val[b]
    BY <1>10 DEF RecoverRead, TypeOK, disk
  <2> QED
    BY <1>4, <1>9, <1>10, <2>1 DEF RecoverRead
<1>11. ASSUME NEW a \in Actors, RecoverLock(a) PROVE CleanInv'
  <2>1. UNCHANGED <<rec, idx, short>>
        /\ \A b \in Actors : b # a => val'[b] = val[b]
    BY <1>11 DEF RecoverLock, TypeOK, disk
  <2>2. CASE AfterRecovery(a)
    BY <1>9, <2>1, <2>2
  <2>3. CASE /\ val' = [val EXCEPT ![a] = Recovered(val[a])]
             /\ Goto(a, "saveRecovered")
    <3>1. ~Clean(val'[a])
      BY <1>1, <1>11, <2>3, RecoveredReturns
      DEF RecoverLock, ControlInv, TypeOK
    <3> QED
      BY <1>3, <2>1, <2>3, <3>1
  <2> QED
    BY <1>11, <2>2, <2>3 DEF RecoverLock
<1>12. ASSUME NEW a \in Actors, ReadRecord(a) PROVE CleanInv'
  <2>1. /\ UNCHANGED <<pc, rec, idx, short>>
        /\ \A b \in Actors : b # a => val'[b] = val[b] /\ io'[b] = io[b]
    BY <1>12, ReadReturns DEF ReadRecord, TypeOK, disk
  <2>2. /\ val'[a] \in Record
        /\ pc[a] \in {"markCompleted", "finalProgress"} =>
             a \in Callers /\ val'[a].errors = short[a]
        /\ Fresh(val'[a]) =>
             \/ pc[a] = "markCompleted"
             \/ /\ pc[a] \in {"progress", "finalProgress"}
                /\ rec # Null /\ Fresh(rec)
    BY <1>12, ReadReturns
  <2>3. ASSUME Clean(val'[a])
        PROVE  /\ a \in Callers /\ ~short[a]
               /\ pc[a] \in {"markCompleted", "finalProgress"}
    <3>1. Fresh(val'[a]) /\ ~val'[a].errors
      BY <2>3 DEF Clean
    <3>2. pc[a] = "progress" => a \in Callers
      BY DEF ControlInv
    <3>3. pc[a] = "progress" => ~(rec # Null /\ Fresh(rec))
      BY <3>2 DEF FreshInv, Ingesting
    <3>4. pc[a] \in {"markCompleted", "finalProgress"}
      BY <2>2, <3>1, <3>3
    <3> QED
      BY <2>2, <3>1, <3>4
  <2> QED
    BY <2>1, <2>3 DEF CleanInv
<1>13. ASSUME NEW a \in Actors, OpenRecord(a) PROVE CleanInv'
  <2>1. /\ rec' = Null /\ UNCHANGED <<pc, val, idx, short>> /\ io[a] = "open"
        /\ \A b \in Actors : b # a => io'[b] = io[b]
    BY <1>13 DEF OpenRecord, TypeOK
  <2> QED
    BY <2>1 DEF CleanInv
<1>14. ASSUME NEW a \in Actors, WriteRecord(a) PROVE CleanInv'
  <2>1. /\ io[a] = "write" /\ UNCHANGED <<idx, short>>
        /\ rec' = val[a] \/ rec' = Null
        /\ \A b \in Actors : b # a => val'[b] = val[b]
        /\ pc[a] = "markRunning" => val' = val
    BY <1>14 DEF WriteRecord, TypeOK
  <2>2. PICK p \in Pcs :
          /\ Goto(a, p)
          /\ p # "markCompleted"
          /\ p = "finalProgress" => pc[a] = "markCompleted"
          /\ p \in Saves => pc[a] = "markRunning"
    BY <1>14, RecoveryGoesOn DEF WriteRecord, AfterWrite
  <2>3. /\ pc'[a] = p
        /\ p \in Updates => io'[a] = "read"
        /\ p \in Waits => io'[a] = "rest"
        /\ \A b \in Actors : b # a => pc'[b] = pc[b] /\ io'[b] = io[b]
    BY <2>2, GotoMoves
  <2>4. pc[a] = "markRunning" => ~Clean(val[a])
    BY <2>1 DEF FreshInv, Clean
  <2>5. Clean(val[a]) => idx > 0
    BY <2>1 DEF CleanInv
  <2> QED
    BY <2>1, <2>2, <2>3, <2>4, <2>5 DEF CleanInv
<1>15. ASSUME NEW a \in Actors, WriteFails(a), ~ProcessEnds PROVE CleanInv'
  BY <1>4, <1>15, WriteFailing
<1>16. ASSUME NEW a \in Actors, WriteFails(a), ProcessEnds PROVE CleanInv'
  BY <1>2, <1>16 DEF WriteFails
<1>17. ASSUME NEW h \in Handlers, Deliver(h) \/ WatchError(h) PROVE CleanInv'
  BY <1>4, <1>17 DEF Deliver, WatchError, disk
<1>18. ASSUME DebounceFires PROVE CleanInv'
  <2>1. UNCHANGED <<rec, idx, val, short>>
    BY <1>18 DEF DebounceFires, disk
  <2>2. UNCHANGED <<pc, io>> \/ Goto(Watch, "acquire")
    BY <1>18 DEF DebounceFires
  <2> QED
    BY <1>4, <2>1, <2>2 DEF CleanInv
<1>19. ASSUME Start PROVE CleanInv'
  BY <1>4, <1>19 DEF Start, disk
<1>20. ASSUME Edit \/ LeaseEnds \/ UNCHANGED vars PROVE CleanInv'
  BY <1>20 DEF Edit, LeaseEnds, vars, CleanInv
<1>21. ASSUME Crash PROVE CleanInv'
  BY <1>2, <1>21 DEF Crash
<1>22. ASSUME NEW c \in Callers, RebuildClears(c) PROVE CleanInv'
  <2>1. UNCHANGED <<rec, pc, io, val, short>> /\ pc[c] = "ingest"
    BY <1>22 DEF RebuildClears
  <2>2. ~(rec # Null /\ Fresh(rec))
    BY <2>1 DEF FreshInv, Ingesting
  <2>3. \A d \in Callers :
          pc[d] \notin {"saveExisting", "markCompleted", "finalProgress"}
    BY <2>1 DEF LockInv, Holding
  <2>4. ASSUME NEW a \in Actors, io[a] \in {"open", "write"}, Fresh(val[a])
        PROVE  FALSE
    <3>1. pc[a] \in {"saveExisting", "markCompleted", "finalProgress"}
      BY <2>4 DEF FreshInv
    <3> QED
      BY <2>3, <3>1 DEF ControlInv
  <2> QED
    BY <2>1, <2>2, <2>3, <2>4 DEF CleanInv, Clean
<1>23. ASSUME NEW c \in Callers, FileFails(c) PROVE CleanInv'
  <2>1. /\ UNCHANGED <<rec, pc, io, val>> /\ pc[c] = "ingested" /\ idx' = idx
        /\ \A d \in Callers : d # c => short'[d] = short[d]
    BY <1>23 DEF FileFails, TypeOK, disk
  <2> QED
    BY <2>1 DEF CleanInv
<1> HIDE DEF Pcs, Updates, Saves, Waits
<1> QED
  BY <1>5, <1>6, <1>7, <1>8, <1>10, <1>11, <1>12, <1>13, <1>14, <1>15, <1>16,
     <1>17, <1>18, <1>19, <1>20, <1>21, <1>22, <1>23
  DEF Next, Proceed

-----------------------------------------------------------------------------
(* Changes and the runs to come *)

\* The watcher has been told of a change, or is about to ask for the run lock.
Coming ==
  \/ events \/ watcher.debounce \/ watcher.followUp
  \/ \E h \in Handlers : pc[h] = "watcherPending"
  \/ pc[Watch] \in {"acquire", "recover", "recoverLock"}

\* A run whose ingestion has read the sources before the last edit, and has
\* failed on no file when it ends, has the next run of the watcher coming: the
\* lock it holds keeps the watcher from starting to read in the meantime, and a
\* refused watcher run comes back.
BehindInv ==
  \A c \in Callers :
    \/ pc[c] \in {"ingested", "progress"} /\ seen[c] < owed
    \/ pc[c] \in {"markCompleted", "finalProgress"} /\ ~short[c] /\ idx < owed
    => Coming

\* Caller c will read the sources, or has read their latest version and failed
\* on no file.
DueBy(c) ==
  \/ Reading(c)
  \/ pc[c] \in {"ingested", "progress"} /\ seen[c] = ver /\ ~short[c]

\* The watcher has a run coming, or one that will read or has read all.
WatchIsDue == Coming \/ DueBy(Watch)

\* A run that may have cleared the index makes it whole again.
Rebuilding(c) == pc[c] \in Ingesting /\ DueBy(c)

\* As long as nothing fails, the watcher itself sees to every edit, but for
\* what a rebuild under way has cleared.
WatchInv ==
  up /\ idx < owed /\ faults = 0 =>
    WatchIsDue \/ \E c \in Callers : Rebuilding(c)

\* The ways to have a run due, by what keeps each of them.
LEMMA DueParts == RunIsDue <=> Coming \/ \E c \in Callers : DueBy(c)
BY IndexAssumption DEF RunIsDue, Coming, DueBy, Reading

\* A run that is coming keeps coming, until the watcher gets a free lock: no
\* step of a callback, of another run or of a recovery forgets it.
LEMMA ComingStays ==
  ASSUME TypeOK, ControlInv, WatcherInv, [Next]_vars, Coming, up'
  PROVE  \/ Coming'
         \/ holder = Free /\ pc'[Watch] \in {"getStatus", "saveRecovered"}
<1> USE IndexAssumption DEF Actors
<1>0. watcher \in Watchers
  BY TypeParts DEF RunTypes
<1>1. ASSUME NEW a \in Actors, NEW p \in Pcs, Goto(a, p),
             UNCHANGED <<events, watcher>>, pc[a] # "watcherPending",
             a = Watch /\ pc[a] \in {"acquire", "recover", "recoverLock"} =>
               p \in {"acquire", "recover", "recoverLock"}
      PROVE Coming'
  BY <1>1, GotoMoves DEF Coming
<1>2. ~ProcessEnds
  BY DEF ProcessEnds
<1> USE DEF Pcs, Updates, Saves, Waits
<1>3. ASSUME NEW c \in Callers, Acquire(c)
      PROVE Coming' \/ (holder = Free /\ pc'[Watch] = "getStatus")
  <2>1. CASE c # Watch \/ holder # Free
    BY <1>1, <1>3, <2>1 DEF Acquire
  <2>2. CASE c = Watch /\ holder = Free
    BY <1>3, <2>2, GotoMoves DEF Acquire
  <2> QED
    BY <2>1, <2>2
<1>4. ASSUME watcher' \in {Settled(watcher), Scheduled(watcher)},
             events' = events,
             NEW a \in Actors, Goto(a, "idle"),
             pc[a] \notin {"acquire", "recover", "recoverLock"},
             pc[a] = "watcherPending" => watcher' = Scheduled(watcher)
      PROVE Coming'
  <2>1. watcher.debounce \/ watcher.followUp
          => watcher'.debounce \/ watcher'.followUp
    BY <1>0, <1>4, SettledReturns, ScheduledReturns DEF Scheduled, Watchers
  <2>2. pc[a] = "watcherPending" => watcher'.debounce \/ watcher'.followUp
    BY <1>0, <1>4, ScheduledReturns
  <2> QED
    BY <1>4, <2>1, <2>2, GotoMoves DEF Coming
<1>5. ASSUME NEW c \in Callers, Release(c) PROVE Coming'
  BY <1>1, <1>4, <1>5 DEF Release
<1>6. ASSUME NEW c \in Callers,
             \/ GetStatus(c) \/ IngestRead(c) \/ IngestResolves(c)
             \/ CallIndex(c) \/ Checkpoint(c) \/ IngestFails(c)
      PROVE Coming'
  BY <1>1, <1>6 DEF GetStatus, IngestRead, IngestResolves, CallIndex,
     Checkpoint,
                    IngestFails
<1>7. ASSUME NEW a \in Actors, AfterRecovery(a), events' = events,
             pc[a] # "watcherPending"
      PROVE Coming'
  <2>1. CASE watcher'.debounce
    BY <2>1 DEF Coming
  <2>2. CASE /\ watcher' = watcher
             /\ (a # Watch /\ Goto(a, "idle")) \/ Goto(a, "acquire")
    BY <1>1, <1>7, <2>2
  <2> QED
    BY <1>7, <2>1, <2>2, RecoveryGoesOn
<1>8. ASSUME NEW a \in Actors, RecoverRead(a) PROVE Coming'
  BY <1>1, <1>7, <1>8 DEF RecoverRead
<1>9. ASSUME NEW a \in Actors, RecoverLock(a)
      PROVE Coming' \/ (holder = Free /\ pc'[Watch] = "saveRecovered")
  <2>1. CASE AfterRecovery(a)
    BY <1>7, <1>9, <2>1 DEF RecoverLock
  <2>2. CASE holder = Free /\ Goto(a, "saveRecovered") /\ a # Watch
    BY <1>1, <1>9, <2>2 DEF RecoverLock
  <2>3. CASE holder = Free /\ Goto(a, "saveRecovered") /\ a = Watch
    BY <2>3, GotoMoves
  <2> QED
    BY <1>9, <2>1, <2>2, <2>3 DEF RecoverLock
<1>10. ASSUME NEW a \in Actors, WriteRecord(a) PROVE Coming'
  <2>1. CASE pc[a] = "saveRecovered"
    BY <1>7, <1>10, <2>1 DEF WriteRecord, AfterWrite
  <2>2. CASE pc[a] \in {"watcherPending", "watcherFailed"}
    BY <1>1, <1>4, <1>10, <2>2 DEF WriteRecord, AfterWrite
  <2>3. CASE pc[a] \notin {"watcherPending", "watcherFailed", "saveRecovered"}
    BY <1>1, <1>10, <2>3 DEF WriteRecord, AfterWrite
  <2> QED
    BY <2>1, <2>2, <2>3
<1>11. ASSUME NEW a \in Actors, WriteFails(a) PROVE Coming'
  <2>1. pc[a] \notin {"watcherPending", "acquire", "recover", "recoverLock"}
    BY <1>2, <1>11, WriteFailing
  <2> QED
    BY <1>1, <1>2, <1>11, <2>1, WriteFailing
<1>12. ASSUME NEW h \in Handlers, Deliver(h) PROVE Coming'
  BY <1>12, GotoMoves DEF Deliver, Coming
<1>13. ASSUME NEW h \in Handlers, WatchError(h) PROVE Coming'
  BY <1>1, <1>13 DEF WatchError
<1>14. ASSUME DebounceFires PROVE Coming'
  BY <1>14, GotoMoves DEF DebounceFires, WatcherInv, Coming
<1>15. ASSUME Start PROVE Coming'
  BY <1>1, <1>15 DEF Start, ControlInv
<1>16. ASSUME Edit PROVE Coming'
  BY <1>16 DEF Edit, Coming
<1>17. ASSUME UNCHANGED <<events, watcher, pc>> PROVE Coming'
  BY <1>17 DEF Coming
<1>18. ASSUME NEW a \in Actors, ReadRecord(a) \/ OpenRecord(a)
       PROVE UNCHANGED <<events, watcher, pc>>
  BY <1>18 DEF ReadRecord, OpenRecord
<1>19. ASSUME LeaseEnds \/ UNCHANGED vars
       PROVE UNCHANGED <<events, watcher, pc>>
  BY <1>19 DEF LeaseEnds, vars
<1>20. ~Crash
  BY <1>2 DEF Crash
<1>30. ASSUME NEW c \in Callers, RebuildClears(c) \/ FileFails(c)
       PROVE Coming'
  BY <1>30, StoreMoves DEF Coming
<1> HIDE DEF Pcs, Updates, Saves, Waits
<1> QED
  BY <1>30, <1>3, <1>5, <1>6, <1>8, <1>9, <1>10, <1>11, <1>12, <1>13, <1>14,
     <1>15,
     <1>16, <1>17, <1>18, <1>19, <1>20
  DEF Next, Proceed

\* Who runs once its run is due, as the sources it reads are the latest.
LEMMA DueStays ==
  ASSUME TypeOK, ControlInv, WatcherInv, LockInv, [Next]_vars, up',
         faults' = faults, NEW c \in Callers, DueBy(c)
  PROVE  \/ DueBy(c)' /\ (pc[c] \in Ingesting => pc'[c] \in Ingesting)
         \/ Coming' \/ idx' = ver'
<1> USE IndexAssumption DEF Actors
<1> DEFINE Due == DueBy(c)' /\ (pc[c] \in Ingesting => pc'[c] \in Ingesting)
<1>1. ASSUME NEW a \in Actors, NEW p \in Pcs, Goto(a, p), ver' = ver,
             \A d \in Callers : d # a =>
               seen'[d] = seen[d] /\ short'[d] = short[d],
             a = c /\ pc[c] \in Ingesting => p \in Ingesting,
             a = c => \/ p \in {"getStatus", "saveExisting", "markRunning",
                                "saveRunning", "ingest"}
                      \/ c = Watch /\ p \in {"acquire", "recover",
                                             "recoverLock", "saveRecovered"}
                      \/ /\ p \in {"ingested", "progress"}
                         /\ seen'[c] = ver /\ ~short'[c]
      PROVE Due
  BY <1>1, GotoMoves DEF DueBy, Reading, Ingesting
<1>2. ~ProcessEnds
  BY DEF ProcessEnds
<1> USE DEF Pcs, Updates, Saves, Waits
<1>3. ASSUME NEW d \in Callers,
             Acquire(d) \/ GetStatus(d) \/ CallIndex(d) \/ Release(d)
      PROVE Due
  BY <1>1, <1>3
  DEF Acquire, GetStatus, CallIndex, Release, DueBy, Reading, Ingesting, disk
<1>4. ASSUME NEW d \in Callers, Checkpoint(d) PROVE Due
  BY <1>1, <1>4 DEF Checkpoint, DueBy, Reading, Ingesting, disk
<1>5. ASSUME NEW d \in Callers, IngestRead(d) PROVE Due
  <2>1. /\ seen'[d] = ver /\ ~short'[d]
        /\ \A e \in Callers : e # d =>
             seen'[e] = seen[e] /\ short'[e] = short[e]
    BY <1>5 DEF IngestRead, TypeOK
  <2> QED
    BY <1>1, <1>5, <2>1 DEF IngestRead, DueBy, Reading, Ingesting, disk
<1>6. ASSUME NEW d \in Callers, IngestResolves(d) PROVE Due \/ idx' = ver'
  <2>1. CASE d = c
    BY <1>6, <2>1 DEF IngestResolves, DueBy, Reading
  <2>2. CASE d # c
    <3>1. \A e \in Callers : e # d => seen'[e] = seen[e]
      BY <1>6 DEF IngestResolves, TypeOK
    <3> QED
      BY <1>1, <1>6, <2>2, <3>1 DEF IngestResolves
  <2> QED
    BY <2>1, <2>2
<1>7. ASSUME NEW a \in Actors, AfterRecovery(a),
             UNCHANGED <<ver, seen, short>>,
             pc[a] \in {"recover", "recoverLock", "saveRecovered"}
      PROVE Due \/ Coming'
  <2>1. CASE watcher'.debounce
    BY <2>1 DEF Coming
  <2>2. CASE (a # Watch /\ Goto(a, "idle")) \/ Goto(a, "acquire")
    BY <1>1, <1>7, <2>2 DEF DueBy, Reading, Ingesting
  <2> QED
    BY <1>7, <2>1, <2>2, RecoveryGoesOn
<1>8. ASSUME NEW a \in Actors, RecoverRead(a) PROVE Due \/ Coming'
  BY <1>1, <1>7, <1>8 DEF RecoverRead, disk, DueBy, Reading, Ingesting
<1>9. ASSUME NEW a \in Actors, RecoverLock(a) PROVE Due \/ Coming'
  BY <1>1, <1>7, <1>9 DEF RecoverLock, disk, DueBy, Reading, Ingesting
<1>10. ASSUME NEW a \in Actors, WriteRecord(a) PROVE Due \/ Coming'
  <2>1. CASE pc[a] = "saveRecovered"
    BY <1>7, <1>10, <2>1 DEF WriteRecord, AfterWrite
  <2>2. CASE pc[a] # "saveRecovered"
    BY <1>1, <1>10, <2>2
    DEF WriteRecord, AfterWrite, DueBy, Reading, Ingesting
  <2> QED
    BY <2>1, <2>2
<1>11. ASSUME NEW h \in Handlers, Deliver(h) PROVE Due
  BY <1>1, <1>11 DEF Deliver, disk
<1>12. ASSUME NEW a \in Actors, WriteFails(a) PROVE FALSE
  BY <1>12 DEF WriteFails, TypeOK
<1>13. ASSUME NEW d \in Callers, IngestFails(d) PROVE FALSE
  BY <1>13 DEF IngestFails, TypeOK
<1>14. ASSUME NEW h \in Handlers, WatchError(h) PROVE FALSE
  BY <1>14 DEF WatchError, TypeOK
<1>15. ASSUME DebounceFires PROVE Due
  <2>1. CASE UNCHANGED pc
    <3>1. UNCHANGED <<ver, seen, short, pc>>
      BY <1>15, <2>1 DEF DebounceFires, disk
    <3> QED
      BY <3>1 DEF DueBy, Reading
  <2>2. CASE Goto(Watch, "acquire")
    <3>1. pc[Watch] = "idle"
      BY <1>15 DEF DebounceFires, WatcherInv
    <3> QED
      BY <1>1, <1>15, <2>2, <3>1 DEF DebounceFires, disk, Ingesting
  <2> QED
    BY <1>15, <2>1, <2>2 DEF DebounceFires
<1>16. ASSUME Start PROVE Due
  BY <1>1, <1>16 DEF Start, disk
<1>17. ASSUME Edit PROVE Coming'
  BY <1>17 DEF Edit, Coming
<1>18. ASSUME UNCHANGED <<ver, seen, short, pc>> PROVE Due
  BY <1>18 DEF DueBy, Reading
<1>19. ASSUME NEW a \in Actors, ReadRecord(a) \/ OpenRecord(a)
       PROVE UNCHANGED <<ver, seen, short, pc>>
  BY <1>19 DEF ReadRecord, OpenRecord, disk
<1>20. ASSUME LeaseEnds \/ UNCHANGED vars
       PROVE UNCHANGED <<ver, seen, short, pc>>
  BY <1>20 DEF LeaseEnds, vars
<1>30. ASSUME NEW d \in Callers, RebuildClears(d)
       PROVE UNCHANGED <<ver, seen, short, pc>>
  BY <1>30 DEF RebuildClears
<1>31. ASSUME NEW d \in Callers, FileFails(d) PROVE FALSE
  BY <1>31 DEF FileFails, TypeOK
<1>21. ~Crash
  BY <1>2 DEF Crash
<1> HIDE DEF Pcs, Updates, Saves, Waits, Due
<1>40. Due => DueBy(c)' /\ (pc[c] \in Ingesting => pc'[c] \in Ingesting)
  BY DEF Due
<1> QED
  BY <1>30, <1>31, <1>40, <1>3, <1>4, <1>5, <1>6, <1>8, <1>9, <1>10, <1>11,
     <1>12, <1>13, <1>14,
     <1>15, <1>16, <1>17, <1>18, <1>19, <1>20, <1>21
  DEF Next, Proceed

\* What counts as a failure.
LEMMA FailureIs ==
  ASSUME TypeOK, [Next]_vars, faults' # faults
  PROVE  \/ \E a \in Actors : WriteFails(a)
         \/ \E c \in Callers : IngestFails(c) \/ FileFails(c)
         \/ \E h \in Handlers : WatchError(h)
<1>1. ASSUME NEW a \in Actors,
             \/ ReadRecord(a) \/ OpenRecord(a) \/ WriteRecord(a)
             \/ RecoverRead(a) \/ RecoverLock(a)
      PROVE faults' = faults
  BY <1>1 DEF ReadRecord, OpenRecord, WriteRecord, RecoverRead, RecoverLock,
              history
<1>2. ASSUME NEW c \in Callers,
             \/ Acquire(c) \/ GetStatus(c) \/ Release(c) \/ IngestRead(c)
             \/ IngestResolves(c) \/ CallIndex(c) \/ Checkpoint(c)
             \/ RebuildClears(c)
      PROVE faults' = faults
  BY <1>2 DEF Acquire, GetStatus, Release, IngestRead, IngestResolves,
              CallIndex, Checkpoint, RebuildClears, history
<1>3. ASSUME NEW h \in Handlers, Deliver(h) PROVE faults' = faults
  BY <1>3 DEF Deliver, history
<1>4. ASSUME \/ DebounceFires \/ Edit \/ Crash \/ Start \/ LeaseEnds
             \/ UNCHANGED vars
      PROVE faults' = faults
  BY <1>4 DEF DebounceFires, Edit, Crash, Start, LeaseEnds, vars, history
<1> QED
  BY <1>1, <1>2, <1>3, <1>4 DEF Next, Proceed

\* The counter of failures only grows.
LEMMA FaultsGrow ==
  ASSUME TypeOK, [Next]_vars
  PROVE  faults' = faults \/ faults' = faults + 1
<1>1. ASSUME NEW a \in Actors, WriteFails(a) PROVE faults' = faults + 1
  BY <1>1 DEF WriteFails
<1>2. ASSUME NEW c \in Callers, IngestFails(c) \/ FileFails(c)
      PROVE faults' = faults + 1
  BY <1>2 DEF IngestFails, FileFails
<1>3. ASSUME NEW h \in Handlers, WatchError(h) PROVE faults' = faults + 1
  BY <1>3 DEF WatchError
<1> QED
  BY <1>1, <1>2, <1>3, FailureIs

\* A step of the daemon that leaves the index behind the last edit it lives
\* through did so before, or it is the edit, or it begins a rebuild.
LEMMA StillBehind ==
  ASSUME TypeOK, ControlInv, VersionInv, [Next]_vars, up', idx' < owed'
  PROVE  \/ Coming' \/ (up /\ idx < owed)
         \/ \E c \in Callers : RebuildClears(c)
<1> USE IndexAssumption DEF Actors
<1>1. ~ProcessEnds
  BY DEF ProcessEnds
<1>2. ASSUME NEW a \in Actors,
             \/ ReadRecord(a) \/ OpenRecord(a) \/ WriteRecord(a)
             \/ RecoverRead(a) \/ RecoverLock(a)
      PROVE UNCHANGED <<up, idx, owed>>
  BY <1>2 DEF ReadRecord, OpenRecord, WriteRecord, RecoverRead, RecoverLock,
              history, disk
<1>3. ASSUME NEW c \in Callers,
             \/ Acquire(c) \/ GetStatus(c) \/ Release(c) \/ IngestRead(c)
             \/ CallIndex(c) \/ Checkpoint(c) \/ IngestFails(c)
      PROVE UNCHANGED <<up, idx, owed>>
  BY <1>3 DEF Acquire, GetStatus, Release, IngestRead, CallIndex, Checkpoint,
              IngestFails, history, disk
<1>4. ASSUME NEW h \in Handlers, Deliver(h) \/ WatchError(h)
      PROVE UNCHANGED <<up, idx, owed>>
  BY <1>4 DEF Deliver, WatchError, history, disk
<1>5. ASSUME DebounceFires \/ LeaseEnds \/ UNCHANGED vars
      PROVE UNCHANGED <<up, idx, owed>>
  BY <1>5 DEF DebounceFires, LeaseEnds, vars, history, disk
<1>6. ASSUME NEW a \in Actors, WriteFails(a) PROVE UNCHANGED <<up, idx, owed>>
  BY <1>1, <1>6, WriteFailing
<1>7. ASSUME UNCHANGED <<up, idx, owed>> PROVE up /\ idx < owed
  BY <1>7
<1>8. ASSUME NEW c \in Callers, IngestResolves(c) PROVE up /\ idx < owed
  <2>1. /\ idx' = idx \/ idx' = seen[c]
        /\ up' = up /\ owed' = owed /\ idx <= seen[c]
    BY <1>8 DEF IngestResolves, VersionInv
  <2> QED
    BY <2>1 DEF TypeOK
<1>9. ASSUME Edit PROVE Coming'
  BY <1>9 DEF Edit, Coming
<1>10. ~Start
  BY DEF Start, VersionInv, TypeOK, history, disk
<1>12. ASSUME NEW c \in Callers, FileFails(c) PROVE UNCHANGED <<up, idx, owed>>
  BY <1>12 DEF FileFails, disk
<1>11. ~Crash
  BY <1>1 DEF Crash
<1> QED
  BY <1>2, <1>3, <1>4, <1>5, <1>6, <1>7, <1>8, <1>9, <1>10, <1>11, <1>12
  DEF Next, Proceed

\* A rebuild that clears the index is still to read the sources.
LEMMA ClearingIsDue ==
  ASSUME NEW c \in Callers, RebuildClears(c) PROVE Rebuilding(c)'
BY DEF RebuildClears, Rebuilding, DueBy, Reading, Ingesting

-----------------------------------------------------------------------------
(* The watcher sees to every edit *)

\* Every step without a failure keeps the watcher in charge of every edit.
LEMMA WatchStep ==
  ASSUME TypeOK, ControlInv, WatcherInv, LockInv, VersionInv, WatchInv,
         TypeOK', VersionInv', [Next]_vars
  PROVE  WatchInv'
<1> SUFFICES ASSUME up', idx' < owed', faults' = 0
             PROVE WatchIsDue' \/ \E c \in Callers : Rebuilding(c)'
  BY DEF WatchInv
<1>1. faults' = faults
  BY FaultsGrow DEF TypeOK
<1>2. Watch \in Callers
  BY IndexAssumption
<1>3. WatchIsDue' <=> Coming' \/ DueBy(Watch)'
  BY DEF WatchIsDue
<1>4. idx' # ver'
  BY DEF TypeOK, VersionInv
<1>5. CASE Coming'
  BY <1>3, <1>5
<1>6. CASE up /\ idx < owed
  <2>1. \/ Coming \/ DueBy(Watch)
        \/ \E c \in Callers : Rebuilding(c)
    BY <1>1, <1>6 DEF WatchInv, WatchIsDue
  <2>2. pc'[Watch] \in {"getStatus", "saveRecovered"} => DueBy(Watch)'
    BY DEF DueBy, Reading
  <2>3. CASE Coming
    BY <1>3, <2>2, <2>3, ComingStays
  <2>4. CASE DueBy(Watch)
    BY <1>1, <1>2, <1>3, <1>4, <2>4, DueStays
  <2>5. ASSUME NEW c \in Callers, Rebuilding(c)
        PROVE  Coming' \/ Rebuilding(c)'
    <3>1. DueBy(c) /\ pc[c] \in Ingesting
      BY <2>5 DEF Rebuilding
    <3>2. Coming' \/ (DueBy(c)' /\ pc'[c] \in Ingesting)
      BY <1>1, <1>4, <3>1, DueStays
    <3> QED
      BY <3>2 DEF Rebuilding, Ingesting
  <2> QED
    BY <1>3, <2>1, <2>3, <2>4, <2>5
<1>7. ASSUME NEW c \in Callers, RebuildClears(c) PROVE Rebuilding(c)'
  BY <1>7, ClearingIsDue
<1> QED
  BY <1>5, <1>6, <1>7, StillBehind

\* Every step keeps a run coming after one that is behind: only its own steps
\* make a run behind, and until it ends the lock is not free.
LEMMA BehindStep ==
  ASSUME TypeOK, ControlInv, WatcherInv, LockInv, VersionInv, BehindInv,
         TypeOK', VersionInv', [Next]_vars
  PROVE  BehindInv'
<1> USE IndexAssumption DEF Actors
<1> DEFINE Old(c) ==
             \/ pc[c] \in {"ingested", "progress"} /\ seen[c] < owed
             \/ /\ pc[c] \in {"markCompleted", "finalProgress"}
                /\ ~short[c] /\ idx < owed
<1> SUFFICES ASSUME NEW c \in Callers, Old(c)' PROVE Coming'
  BY DEF BehindInv
<1>1. up'
  BY DEF VersionInv, TypeOK
<1>2. ~ProcessEnds
  BY <1>1 DEF ProcessEnds
<1>3. ASSUME Old(c) PROVE Coming'
  <2>1. Coming /\ holder = c
    BY <1>3 DEF BehindInv, LockInv, Holding
  <2> QED
    BY <1>1, <2>1, ComingStays
<1>4. ASSUME NEW a \in Actors, NEW p \in Pcs, Goto(a, p),
             UNCHANGED <<idx, owed>>,
             \A d \in Callers : d # a =>
               seen'[d] = seen[d] /\ short'[d] = short[d],
             a = c /\ p \in {"ingested", "progress"} =>
               pc[c] \in {"ingested", "progress"} /\ seen'[c] = seen[c],
             a = c /\ p \in {"markCompleted", "finalProgress"} =>
               pc[c] = "markCompleted" /\ short'[c] = short[c]
      PROVE Old(c)
  BY <1>4, GotoMoves
<1> USE DEF Pcs, Updates, Saves, Waits
<1>5. ASSUME NEW d \in Callers,
             \/ Acquire(d) \/ GetStatus(d) \/ CallIndex(d) \/ Release(d)
             \/ Checkpoint(d)
      PROVE Old(c)
  BY <1>4, <1>5 DEF Acquire, GetStatus, CallIndex, Release, Checkpoint, disk,
                    history
<1>6. ASSUME NEW d \in Callers, IngestRead(d) PROVE Old(c)
  <2>1. /\ seen'[d] = ver
        /\ \A e \in Callers : e # d =>
             seen'[e] = seen[e] /\ short'[e] = short[e]
        /\ UNCHANGED <<idx, owed>> /\ Goto(d, "ingested")
    BY <1>6 DEF IngestRead, TypeOK, disk, history
  <2>2. d # c
    BY <2>1, GotoMoves DEF VersionInv, TypeOK
  <2> QED
    BY <1>4, <2>1, <2>2
<1>7. ASSUME NEW d \in Callers, IngestResolves(d) PROVE Old(c)
  <2>1. /\ idx' = (IF short[d] THEN idx ELSE seen[d]) /\ short' = short
        /\ owed' = owed /\ Goto(d, "markCompleted")
        /\ \A e \in Callers : e # d => seen'[e] = seen[e]
        /\ pc[d] = "ingested"
    BY <1>7 DEF IngestResolves, TypeOK
  <2>2. c = d
    BY <2>1, GotoMoves DEF LockInv, Holding
  <2> QED
    BY <2>1, <2>2, GotoMoves
<1>8. ASSUME NEW a \in Actors, AfterRecovery(a),
             UNCHANGED <<idx, owed, seen, short>>
      PROVE Old(c)
  BY <1>4, <1>8, RecoveryGoesOn
<1>9. ASSUME NEW a \in Actors, RecoverRead(a) \/ RecoverLock(a) PROVE Old(c)
  BY <1>4, <1>8, <1>9 DEF RecoverRead, RecoverLock, disk, history
<1>10. ASSUME NEW a \in Actors, WriteRecord(a) PROVE Old(c)
  BY <1>4, <1>8, <1>10 DEF WriteRecord, AfterWrite, history
<1>11. ASSUME NEW a \in Actors, WriteFails(a) PROVE Old(c)
  BY <1>2, <1>4, <1>11, WriteFailing DEF TypeOK
<1>12. ASSUME NEW d \in Callers, IngestFails(d) PROVE Old(c)
  BY <1>4, <1>12 DEF IngestFails, TypeOK, disk
<1>13. ASSUME NEW h \in Handlers, Deliver(h) \/ WatchError(h) PROVE Old(c)
  BY <1>4, <1>13 DEF Deliver, WatchError, disk, history
<1>14. ASSUME DebounceFires PROVE Old(c)
  <2>1. CASE UNCHANGED pc
    BY <1>14, <2>1 DEF DebounceFires, disk, history
  <2>2. CASE Goto(Watch, "acquire")
    BY <1>4, <1>14, <2>2 DEF DebounceFires, disk, history
  <2> QED
    BY <1>14, <2>1, <2>2 DEF DebounceFires
<1>15. ASSUME Start PROVE Old(c)
  BY <1>4, <1>15 DEF Start, disk, history
<1>16. ASSUME Edit PROVE Coming'
  BY <1>1, <1>16 DEF Edit, Coming
<1>17. ASSUME UNCHANGED <<idx, owed, seen, short, pc>> PROVE Old(c)
  BY <1>17
<1>18. ASSUME NEW a \in Actors, ReadRecord(a) \/ OpenRecord(a)
       PROVE UNCHANGED <<idx, owed, seen, short, pc>>
  BY <1>18 DEF ReadRecord, OpenRecord, disk, history
<1>19. ASSUME LeaseEnds \/ UNCHANGED vars
       PROVE UNCHANGED <<idx, owed, seen, short, pc>>
  BY <1>19 DEF LeaseEnds, vars, history
<1>30. ASSUME NEW d \in Callers, RebuildClears(d) PROVE Old(c)
  <2>1. pc[d] = "ingest" /\ UNCHANGED <<owed, seen, short, pc>>
    BY <1>30, StoreMoves DEF RebuildClears
  <2>2. pc[c] \notin {"markCompleted", "finalProgress"}
    BY <2>1 DEF LockInv, Holding
  <2> QED
    BY <2>1, <2>2
<1>31. ASSUME NEW d \in Callers, FileFails(d) PROVE Old(c)
  <2>1. /\ pc[d] = "ingested" /\ UNCHANGED <<idx, owed, seen, pc>>
        /\ \A e \in Callers : e # d => short'[e] = short[e]
    BY <1>31 DEF FileFails, TypeOK, disk
  <2> QED
    BY <2>1
<1>20. ~Crash
  BY <1>2 DEF Crash
<1> HIDE DEF Pcs, Updates, Saves, Waits, Old
<1> QED
  BY <1>30, <1>31, <1>3, <1>5, <1>6, <1>7, <1>9, <1>10, <1>11, <1>12, <1>13,
     <1>14, <1>15,
     <1>16, <1>17, <1>18, <1>19, <1>20
  DEF Next, Proceed

-----------------------------------------------------------------------------
(* One failure is reported *)

\* The property EditReported, while at most one thing has failed.
ReportInv == faults <= 1 => EditReported

\* What lkg.status shows of a stale index.
ShowsStale == ReportsStale \/ ShowsErrors

\* lkg.status reports a stale index unless the record is fresh, and shows it
\* unless the record is clean.
LEMMA StaleOrFresh ==
  TypeOK => /\ rec = Null \/ ~Fresh(rec) => ReportsStale
            /\ rec = Null \/ ~Clean(rec) => ShowsStale
BY DEF TypeOK, ShowsStale, ReportsStale, ShowsErrors, Fresh, Clean, Record

\* The record only becomes clean by a write of a run that is due, or of one
\* that is behind without a failed file and so has a run coming.
LEMMA StaleStays ==
  ASSUME TypeOK, TypeOK', ControlInv, FreshInv, CleanInv, BehindInv,
         [Next]_vars, idx < owed, ShowsStale, ~RunIsDue
  PROVE  ShowsStale'
<1> USE IndexAssumption DEF Actors
<1>1. rec' = Null \/ ~Clean(rec') => ShowsStale'
  <2>1. (TypeOK => /\ rec = Null \/ ~Fresh(rec) => ReportsStale
                   /\ rec = Null \/ ~Clean(rec) => ShowsStale)'
    BY StaleOrFresh, PTL
  <2> QED
    BY <2>1 DEF Clean, Fresh
<1>2. ASSUME NEW a \in Actors, WriteRecord(a) PROVE ShowsStale'
  <2>1. rec' = Null \/ (rec' = val[a] /\ io[a] = "write")
    BY <1>2 DEF WriteRecord
  <2>2. ASSUME io[a] = "write", Clean(val[a]) PROVE FALSE
    <3>1. /\ pc[a] \in {"saveExisting", "markCompleted", "finalProgress"}
          /\ a \in Callers
      BY <2>2 DEF FreshInv, ControlInv, Clean
    <3>2. ~DueBy(a) /\ ~Coming
      BY <3>1, DueParts
    <3>3. pc[a] \in {"markCompleted", "finalProgress"} => ~short[a]
      BY <2>2, <3>1 DEF CleanInv
    <3> QED
      BY <3>1, <3>2, <3>3 DEF BehindInv, DueBy, Reading
  <2> QED
    BY <1>1, <2>1, <2>2
<1>3. ASSUME NEW a \in Actors, OpenRecord(a) PROVE ShowsStale'
  BY <1>1, <1>3 DEF OpenRecord
<1>4. ASSUME rec' = rec PROVE ShowsStale'
  BY <1>4 DEF ShowsStale, ReportsStale, ShowsErrors
<1>5. ASSUME NEW a \in Actors,
             ReadRecord(a) \/ RecoverRead(a) \/ RecoverLock(a)
      PROVE rec' = rec
  BY <1>5 DEF ReadRecord, RecoverRead, RecoverLock, disk
<1>6. ASSUME NEW c \in Callers,
             \/ Acquire(c) \/ GetStatus(c) \/ Release(c) \/ IngestRead(c)
             \/ IngestResolves(c) \/ CallIndex(c) \/ Checkpoint(c)
             \/ IngestFails(c)
      PROVE rec' = rec
  BY <1>6 DEF Acquire, GetStatus, Release, IngestRead, IngestResolves,
     CallIndex,
              Checkpoint, IngestFails, disk
<1>7. ASSUME NEW h \in Handlers, Deliver(h) \/ WatchError(h) PROVE rec' = rec
  BY <1>7 DEF Deliver, WatchError, disk
<1>8. ASSUME \/ DebounceFires \/ Edit \/ Crash \/ Start \/ LeaseEnds
             \/ UNCHANGED vars
      PROVE rec' = rec
  BY <1>8 DEF DebounceFires, Edit, Crash, Start, LeaseEnds, vars, disk
<1>9. ASSUME NEW a \in Actors, WriteFails(a) PROVE rec' = rec
  BY <1>9 DEF WriteFails
<1>10. ASSUME NEW c \in Callers, RebuildClears(c) \/ FileFails(c)
       PROVE rec' = rec
  BY <1>10, StoreMoves
<1> QED
  BY <1>2, <1>3, <1>4, <1>5, <1>6, <1>7, <1>8, <1>9, <1>10 DEF Next, Proceed

\* A report that is coming is made: the record it writes is not clean.
LEMMA ReportComes ==
  ASSUME TypeOK, TypeOK', ControlInv, WatcherInv, FreshInv, CleanInv,
         [Next]_vars, up', faults' = faults, AboutToReport
  PROVE  AboutToReport' \/ ShowsStale'
<1> USE IndexAssumption DEF Actors
<1>1. ~ProcessEnds
  BY DEF ProcessEnds
<1>2. ASSUME NEW a \in Actors, NEW p \in Pcs, Goto(a, p),
             \/ pc[a] \notin {"markFailed", "watcherFailed", "watcherPending",
                              "releaseFailed"}
             \/ a # Watch /\ pc[a] = "releaseFailed"
             \/ p \in {"watcherFailed", "watcherPending"},
             \A c \in Callers : c # a => short'[c] = short[c],
             /\ a \in Callers /\ short[a]
             /\ pc[a] \in {"ingested", "progress", "markCompleted"}
             => p \in {"ingested", "progress", "markCompleted"} /\ short'[a]
      PROVE AboutToReport'
  BY <1>2, GotoMoves DEF AboutToReport
<1> USE DEF Pcs, Updates, Saves, Waits
<1>3. ASSUME NEW c \in Callers,
             \/ Acquire(c) \/ GetStatus(c) \/ Release(c)
             \/ IngestResolves(c) \/ CallIndex(c) \/ Checkpoint(c)
      PROVE AboutToReport'
  BY <1>2, <1>3 DEF Acquire, GetStatus, Release, IngestResolves, CallIndex,
                    Checkpoint
<1>17. ASSUME NEW c \in Callers, IngestRead(c) PROVE AboutToReport'
  <2>1. /\ pc[c] = "ingest" /\ Goto(c, "ingested")
        /\ \A d \in Callers : d # c => short'[d] = short[d]
    BY <1>17 DEF IngestRead, TypeOK
  <2> QED
    BY <1>2, <2>1
<1>4. ASSUME NEW a \in Actors, AfterRecovery(a), short' = short,
             pc[a] \in {"recover", "recoverLock", "saveRecovered"}
      PROVE AboutToReport'
  BY <1>2, <1>4, RecoveryGoesOn
<1>5. ASSUME NEW a \in Actors, RecoverRead(a) \/ RecoverLock(a)
      PROVE AboutToReport'
  BY <1>2, <1>4, <1>5 DEF RecoverRead, RecoverLock
<1>6. ASSUME NEW a \in Actors, WriteRecord(a)
      PROVE AboutToReport' \/ ShowsStale'
  <2>0. ASSUME rec' = Null \/ (rec' \in Record /\ ~Clean(rec'))
        PROVE  ShowsStale'
    BY <2>0 DEF ShowsStale, ReportsStale, ShowsErrors, Clean, Fresh, Record
  <2>1. CASE pc[a] \in {"markFailed", "watcherFailed", "watcherPending"}
    <3>1. rec' = Null \/ (rec' \in Record /\ ~Clean(rec'))
      BY <1>6, <2>1 DEF WriteRecord, FreshInv, ControlInv, Clean
    <3> QED
      BY <2>0, <3>1
  <2>4. CASE a \in Callers /\ pc[a] = "markCompleted" /\ short[a]
    <3>1. rec' = Null \/ (rec' \in Record /\ ~Clean(rec'))
      BY <1>6, <2>4 DEF WriteRecord, CleanInv, ControlInv
    <3> QED
      BY <2>0, <3>1
  <2>2. CASE pc[a] = "saveRecovered"
    BY <1>4, <1>6, <2>2 DEF WriteRecord, AfterWrite
  <2>3. CASE /\ pc[a] \notin {"markFailed", "watcherFailed", "watcherPending",
                              "saveRecovered"}
             /\ ~(a \in Callers /\ pc[a] = "markCompleted" /\ short[a])
    BY <1>2, <1>6, <2>3 DEF WriteRecord, AfterWrite
  <2> QED
    BY <2>1, <2>2, <2>3, <2>4
<1>7. ASSUME NEW h \in Handlers, Deliver(h) PROVE AboutToReport'
  BY <1>2, <1>7 DEF Deliver
<1>8. ASSUME NEW a \in Actors, WriteFails(a) PROVE FALSE
  BY <1>8 DEF WriteFails, TypeOK
<1>9. ASSUME NEW d \in Callers, IngestFails(d) \/ FileFails(d) PROVE FALSE
  <2>1. faults' = faults + 1
    BY <1>9 DEF IngestFails, FileFails
  <2> QED
    BY <2>1 DEF TypeOK
<1>10. ASSUME NEW h \in Handlers, WatchError(h) PROVE FALSE
  BY <1>10 DEF WatchError, TypeOK
<1>11. ASSUME UNCHANGED <<pc, short>> PROVE AboutToReport'
  BY <1>11 DEF AboutToReport
<1>12. ASSUME DebounceFires PROVE AboutToReport'
  <2>1. short' = short
    BY <1>12 DEF DebounceFires
  <2>2. CASE UNCHANGED pc
    BY <1>11, <2>1, <2>2
  <2>3. CASE Goto(Watch, "acquire") /\ pc[Watch] = "idle"
    BY <1>2, <2>1, <2>3
  <2> QED
    BY <1>12, <2>2, <2>3 DEF DebounceFires, WatcherInv
<1>13. ASSUME Start PROVE AboutToReport'
  BY <1>2, <1>13 DEF Start, ControlInv
<1>14. ASSUME NEW a \in Actors, ReadRecord(a) \/ OpenRecord(a)
       PROVE UNCHANGED <<pc, short>>
  BY <1>14 DEF ReadRecord, OpenRecord
<1>15. ASSUME Edit \/ LeaseEnds \/ UNCHANGED vars PROVE UNCHANGED <<pc, short>>
  BY <1>15 DEF Edit, LeaseEnds, vars
<1>30. ASSUME NEW c \in Callers, RebuildClears(c)
       PROVE UNCHANGED <<pc, short>>
  BY <1>30 DEF RebuildClears
<1>16. ~Crash
  BY <1>1 DEF Crash
<1> HIDE DEF Pcs, Updates, Saves, Waits
<1> QED
  BY <1>3, <1>5, <1>6, <1>7, <1>8, <1>9, <1>10, <1>11, <1>12, <1>13, <1>14,
     <1>15, <1>16, <1>17, <1>30
  DEF Next, Proceed

\* A failure leaves a run of the watcher due, or it is about to be reported.
LEMMA FailureShows ==
  ASSUME TypeOK, ControlInv, [Next]_vars, up', faults' # faults,
         WatchIsDue \/ \E c \in Callers : Rebuilding(c)
  PROVE  /\ UNCHANGED <<idx, owed, up>>
         /\ Coming' \/ (\E c \in Callers : DueBy(c)') \/ AboutToReport'
<1> USE IndexAssumption DEF Actors
<1> DEFINE Due == Coming' \/ \E c \in Callers : DueBy(c)'
<1>1. ~ProcessEnds
  BY DEF ProcessEnds
<1>2. ASSUME NEW a \in Actors, NEW p \in Pcs, Goto(a, p), a # Watch,
             pc[a] # "watcherPending", pc[a] \notin Ingesting,
             UNCHANGED <<ver, watcher, events, short>>,
             \A d \in Callers : d # a => seen'[d] = seen[d]
      PROVE Due
  <2>1. \A b \in Actors : b # a => pc'[b] = pc[b]
    BY <1>2, GotoMoves
  <2>2. CASE Coming
    BY <1>2, <2>1, <2>2 DEF Coming
  <2>3. ASSUME NEW c \in Callers, DueBy(c), c # a PROVE DueBy(c)'
    BY <1>2, <2>1, <2>3 DEF DueBy, Reading
  <2>4. CASE DueBy(Watch)
    BY <1>2, <2>3, <2>4
  <2>5. ASSUME NEW c \in Callers, Rebuilding(c) PROVE DueBy(c)'
    BY <1>2, <2>3, <2>5 DEF Rebuilding
  <2> QED
    BY <2>2, <2>4, <2>5 DEF WatchIsDue
<1>3. ASSUME NEW a \in Actors, NEW p \in Pcs, Goto(a, p),
             \/ p \in {"markFailed", "watcherFailed"}
             \/ a = Watch /\ p = "releaseFailed"
      PROVE AboutToReport'
  BY <1>3, GotoMoves DEF AboutToReport
<1> USE DEF Pcs, Updates, Saves, Waits
<1>4. ASSUME NEW a \in Actors, WriteFails(a)
      PROVE UNCHANGED <<idx, owed, up>> /\ (Due \/ AboutToReport')
  <2>1. UNCHANGED <<idx, owed, up, ver, watcher, events, short>>
    BY <1>1, <1>4, WriteFailing
  <2>2. CASE pc[a] = "saveRecovered" \/ seen' = seen
    <3>1. pc[a] \in Ingesting => Goto(a, "markFailed")
      BY <1>1, <1>4, WriteFailing DEF Ingesting
    <3> QED
      BY <1>1, <1>2, <1>3, <1>4, <2>1, <2>2, <3>1, WriteFailing
  <2>3. CASE Goto(a, "markFailed")
    BY <1>3, <2>1, <2>3
  <2> QED
    BY <1>1, <1>4, <2>2, <2>3, WriteFailing
<1>5. ASSUME NEW c \in Callers, IngestFails(c)
      PROVE UNCHANGED <<idx, owed, up>> /\ AboutToReport'
  BY <1>3, <1>5 DEF IngestFails, disk
<1>6. ASSUME NEW h \in Handlers, WatchError(h)
      PROVE UNCHANGED <<idx, owed, up>> /\ AboutToReport'
  BY <1>3, <1>6 DEF WatchError, disk
<1>7. ASSUME NEW c \in Callers, FileFails(c)
      PROVE UNCHANGED <<idx, owed, up>> /\ AboutToReport'
  <2>1. UNCHANGED <<idx, owed, up, pc>> /\ pc[c] = "ingested" /\ short'[c]
    BY <1>7, StoreMoves DEF FileFails, TypeOK
  <2> QED
    BY <2>1 DEF AboutToReport
<1> HIDE DEF Pcs, Updates, Saves, Waits
<1> QED
  BY <1>4, <1>5, <1>6, <1>7, FailureIs

\* Every step keeps changes reported: before the first failure the watcher has
\* a run due, the failure itself is reported or leaves that run due, and after
\* it a due run stays due, a stale record stale, and a report comes.
LEMMA ReportStep ==
  ASSUME TypeOK, ControlInv, WatcherInv, LockInv, VersionInv, FreshInv,
         CleanInv, BehindInv, WatchInv, ReportInv, TypeOK', VersionInv',
         [Next]_vars
  PROVE  ReportInv'
<1> SUFFICES ASSUME up', idx' < owed', faults' <= 1
             PROVE (RunIsDue \/ ShowsStale \/ AboutToReport)'
  BY DEF ReportInv, EditReported, ShowsStale
<1>1. RunIsDue' <=> Coming' \/ \E c \in Callers : DueBy(c)'
  <2>1. (RunIsDue <=> Coming \/ \E c \in Callers : DueBy(c))'
    BY DueParts, PTL
  <2> QED
    BY <2>1
<1>2. ASSUME NEW c \in Callers, RebuildClears(c) PROVE RunIsDue'
  BY <1>1, <1>2, ClearingIsDue DEF Rebuilding
<1>4. idx' # ver'
  BY DEF TypeOK, VersionInv
<1>5. CASE ~(up /\ idx < owed)
  BY <1>1, <1>2, <1>5, StillBehind
<1>6. CASE up /\ idx < owed /\ faults' # faults
  <2>1. faults = 0
    BY <1>6, FaultsGrow DEF TypeOK
  <2> QED
    BY <1>1, <1>6, <2>1, FailureShows DEF WatchInv
<1>7. CASE up /\ idx < owed /\ faults' = faults
  <2>1. RunIsDue \/ ShowsStale \/ AboutToReport
    BY <1>7 DEF ReportInv, EditReported, ShowsStale
  <2>2. CASE RunIsDue
    <3>1. pc'[Watch] \in {"getStatus", "saveRecovered"} => DueBy(Watch)'
      BY DEF DueBy, Reading
    <3> QED
      BY <1>1, <1>4, <1>7, <2>2, <3>1, ComingStays, DueStays, DueParts,
         IndexAssumption
  <2>3. CASE ShowsStale /\ ~RunIsDue
    BY <1>7, <2>3, StaleStays
  <2>4. CASE AboutToReport
    BY <1>7, <2>4, ReportComes
  <2> QED
    BY <2>1, <2>2, <2>3, <2>4
<1> QED
  BY <1>5, <1>6, <1>7

-----------------------------------------------------------------------------
(* The theorems *)

\* The inductive invariant.
RunsInv ==
  /\ TypeOK /\ ControlInv /\ WatcherInv /\ LockInv /\ VersionInv
  /\ CleanInv /\ FreshInv /\ BehindInv /\ WatchInv /\ ReportInv

\* The inductive invariant holds at first,
LEMMA RunsInvInit == Init => RunsInv
<1> SUFFICES ASSUME Init PROVE RunsInv
  OBVIOUS
<1> USE IndexAssumption DEF Actors
<1>1. TypeOK
  <2>1. ControlTypes /\ CellTypes
    BY DEF Init, ControlTypes, CellTypes, Pcs, Ios, Waits
  <2>2. DiskTypes
    BY DEF Init, DiskTypes
  <2>3. NoWatcher \in Watchers
    BY DEF NoWatcher, Watchers
  <2>4. RunTypes
    BY <2>3 DEF Init, RunTypes
  <2>5. up \in BOOLEAN /\ events \in BOOLEAN /\ cut \in BOOLEAN
    BY Zenon DEF Init
  <2>6. /\ crashes \in 0..MaxCrashes /\ faults \in 0..MaxFaults
        /\ owed \in 0..MaxVersion
    BY DEF Init
  <2> QED
    BY <2>1, <2>2, <2>4, <2>5, <2>6, TypeParts DEF FlagTypes
<1>2. ControlInv
  BY DEF Init, ControlInv, Waits
<1>3. WatcherInv
  BY DEF Init, WatcherInv, NoWatcher
<1>4. LockInv
  BY DEF Init, LockInv, Holding
<1>5. VersionInv
  BY DEF Init, VersionInv
<1>6. CleanInv
  BY DEF Init, CleanInv
<1>7. FreshInv
  BY DEF Init, FreshInv
<1>8. BehindInv /\ WatchInv /\ ReportInv
  BY DEF Init, BehindInv, WatchInv, ReportInv, EditReported
<1> QED
  BY <1>1, <1>2, <1>3, <1>4, <1>5, <1>6, <1>7, <1>8 DEF RunsInv

\* and every step keeps it.
LEMMA RunsInvStep == RunsInv /\ [Next]_vars => RunsInv'
<1> SUFFICES ASSUME RunsInv, [Next]_vars PROVE RunsInv'
  OBVIOUS
<1>1. /\ TypeOK /\ ControlInv /\ WatcherInv /\ LockInv /\ VersionInv
      /\ CleanInv /\ FreshInv /\ BehindInv /\ WatchInv /\ ReportInv
  BY DEF RunsInv
<1>2. TypeOK' /\ ControlInv' /\ WatcherInv' /\ LockInv' /\ VersionInv'
  BY <1>1, TypeStep, ControlStep, WatcherStep, LockStep, VersionStep
<1>3. CleanInv' /\ FreshInv'
  BY <1>1, CleanStep, FreshStep
<1>4. BehindInv' /\ WatchInv' /\ ReportInv'
  BY <1>1, <1>2, BehindStep, WatchStep, ReportStep
<1> QED
  BY <1>2, <1>3, <1>4 DEF RunsInv

\* Every reachable state satisfies the inductive invariant.
THEOREM RunsInvariant == Spec => []RunsInv
BY RunsInvInit, RunsInvStep, PTL DEF Spec

\* Type correctness, for any number of callers and callbacks.
THEOREM RunsTypeCorrect == Spec => []TypeOK
<1>1. RunsInv => TypeOK
  BY DEF RunsInv
<1> QED
  BY <1>1, RunsInvariant, PTL

\* For any number of callers, callbacks, rebuilds, failures, failed files and
\* process ends, a query that is admitted over an idle record without errors
\* finds an index.
THEOREM AdmissionIsReal == Spec => []AdmittedIsReal
<1>1. RunsInv => AdmittedIsReal
  BY DEF RunsInv, CleanInv, Clean, Fresh, AdmittedIsReal, SearchAdmitted
<1> QED
  BY <1>1, RunsInvariant, PTL

\* For any number of callers, callbacks, failures and process ends, an index
\* that was cut short is never reported as fresh.
THEOREM InterruptionReported == Spec => []InterruptionShows
<1>1. RunsInv => InterruptionShows
  BY StaleOrFresh DEF RunsInv, FreshInv, InterruptionShows
<1> QED
  BY <1>1, RunsInvariant, PTL

\* For any number of callers, callbacks and process ends, as long as nothing
\* fails no change that the daemon lives through is forgotten.
THEOREM NoChangeLost == Spec => []EditScheduled
<1>1. WatchIsDue \/ (\E c \in Callers : Rebuilding(c)) => RunIsDue
  BY DueParts, IndexAssumption DEF WatchIsDue, Rebuilding
<1>2. RunsInv => EditScheduled
  BY <1>1 DEF RunsInv, WatchInv, EditScheduled
<1> QED
  BY <1>2, RunsInvariant, PTL

\* For any number of callers, callbacks and process ends, the first failure
\* hides no change.  A second one can: TLC finds it when MaxFaults is 2.
THEOREM OneFailureShows == Spec => [](faults <= 1 => EditReported)
<1>1. RunsInv => (faults <= 1 => EditReported)
  BY DEF RunsInv, ReportInv
<1> QED
  BY <1>1, RunsInvariant, PTL

\* Every step is one of the atomic lock, or leaves the lock alone.
LEMMA LockMoves ==
  ASSUME TypeOK, LockInv, [Next]_vars PROVE [Lock!ScopeNext]_holder
<1>1. ASSUME NEW c \in Callers, Acquire(c)
      PROVE Lock!Grant(c) \/ holder' = holder
  BY <1>1 DEF Acquire, Lock!Grant
<1>2. ASSUME NEW c \in Callers, Release(c)
      PROVE Lock!GiveBack(c)
  BY <1>2 DEF Release, Lock!GiveBack, LockInv, Holding
<1>3. ASSUME ProcessEnds
      PROVE (\E c \in Callers : Lock!Abandon(c)) \/ holder' = holder
  BY <1>3 DEF ProcessEnds, Lock!Abandon, TypeOK
<1>4. ASSUME LeaseEnds PROVE Lock!LeaseEnds
  BY <1>4 DEF LeaseEnds, Lock!LeaseEnds
<1>5. ASSUME NEW a \in Actors, WriteFails(a)
      PROVE ProcessEnds \/ holder' = holder
  BY <1>5 DEF WriteFails
<1>6. ASSUME NEW a \in Actors,
             \/ ReadRecord(a) \/ OpenRecord(a) \/ WriteRecord(a)
             \/ RecoverRead(a) \/ RecoverLock(a)
      PROVE holder' = holder
  BY <1>6 DEF ReadRecord, OpenRecord, WriteRecord, RecoverRead, RecoverLock,
              disk
<1>7. ASSUME NEW c \in Callers,
             \/ GetStatus(c) \/ IngestRead(c) \/ IngestResolves(c)
             \/ CallIndex(c)
             \/ Checkpoint(c) \/ IngestFails(c)
      PROVE holder' = holder
  BY <1>7 DEF GetStatus, IngestRead, IngestResolves, CallIndex, Checkpoint,
              IngestFails, disk
<1>8. ASSUME NEW h \in Handlers, Deliver(h) \/ WatchError(h)
      PROVE holder' = holder
  BY <1>8 DEF Deliver, WatchError, disk
<1>9. ASSUME DebounceFires \/ Edit \/ Start \/ UNCHANGED vars
      PROVE holder' = holder
  BY <1>9 DEF DebounceFires, Edit, Start, vars, disk
<1>10. Crash => ProcessEnds
  BY DEF Crash
<1>30. ASSUME NEW c \in Callers, RebuildClears(c) \/ FileFails(c)
       PROVE holder' = holder
  BY <1>30, StoreMoves
<1> QED
  BY <1>30, <1>1, <1>2, <1>3, <1>4, <1>5, <1>6, <1>7, <1>8, <1>9, <1>10
  DEF Next, Proceed, Lock!ScopeNext

\* For any number of callers, the runs, the recoveries and the ends of the
\* process use the run lock as ScopeLock allows.
THEOREM RunsUseScopeLock == Spec => UsesScopeLock
<1>1. Init => Lock!ScopeInit
  BY DEF Init, Lock!ScopeInit
<1>2. RunsInv /\ [Next]_vars => [Lock!ScopeNext]_holder
  BY LockMoves DEF RunsInv
<1> QED
  BY <1>1, <1>2, RunsInvariant, PTL DEF Spec, UsesScopeLock, Lock!ScopeLockSpec
=============================================================================
