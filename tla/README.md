# LLM-Knowledge-Graph: TLA+ models

The daemon of LLM-Knowledge-Graph keeps an index of a project up to date while files change,
clients ask for index runs, and processes fail. This directory models that core: the run
lock on disk, the index runs and the file watcher with the status record they share, the
ingestion of files into the eight stores, how clients find or start the daemon of a project,
and the way of a text to its answers: how it is cut into chunks, which facts and relations
are derived from it, how searches and queries read all that beside a run. TLC checks each
module on small instances; the safety of the run lock, of the index runs, of the ingestion,
of the startup of daemons, of the model download, of the searches and the queries beside a
run, and of the cutting and the batches of chunks is also proved with TLAPS for every
instance.

Paths below are relative to the repository; `PROJECT.json` maps each definition to the lines
it stands for.

## The system

| Component | State | Operations | Interacts with |
|---|---|---|---|
| Run lock (`file-index-state-repository.ts`, `index-state-port.ts`) | a lock directory, `owner.json` in it | acquire, renew (interval), release | index runs of any process of the scope |
| Status record (same file) | one JSON file: state, needsReindex, pendingChanges, lastIndexedAt, progress | `mark*`, `saveProgress`, `saveStatusSnapshot`, `getStatus`, `recoverStaleRunState` | runs, watcher, startup, every query |
| Index run (`run-index-use-case.ts`) | the run in progress, its lock renewal | `execute` | lock, record, ingestion |
| Watcher (`incremental-watcher-runtime.ts`) | debounce timer, `running`, `followUpRequested` | callbacks, debounced run, follow-up, retry on ALREADY_RUNNING, `close` | record, index run |
| Ingestion (`default-ingestion-pipeline.ts`) | nothing of its own: eight stores | `run` (full, incremental, rebuild) | scanner, parser, embedding, stores |
| Stores (`infrastructure/state/*`, `lance-db-vector-store.ts`) | manifest, symbols, observations, canonical and derived facts, graph, overlays (JSON files); chunks (LanceDB) | `clear`, `upsert`/`replace`, `deleteByPath`, reads | ingestion, queries |
| Daemon (`start-daemon.ts`) | socket, registration, heartbeat | start, recovery at startup, requests, shutdown | all of the above |
| Startup (`ensure-daemon-running.ts`, `file-daemon-registry.ts`) | startup lock, registration file | reuse, recover, spawn, wait, lease renewal | daemon processes, clients |
| Socket protocol (`socket-daemon-client.ts`) | one connection per request | request, response, error, end | MCP server, daemon |
| Vector store (`lance-db-vector-store.ts`) | promises of the connection and the table, per process; the table on disk | `clear`, `deleteByPath`, `upsert`, search | ingestion, searches |
| Model download (`download-model.ts`, `llama-cpp-embedding-adapter.ts`) | model file, `.part` file; the model context, per process | `ensureContext`, `ensureModelFile` | embedding in every process |
| Chunker, parser, analyzers, projector | none | text and syntax trees to records | ingestion |
| Search (`search-knowledge-use-case.ts`, `hybrid-retriever.ts`) | none | readiness, embedding, vector search | record, model, vector store |
| Queries (symbols, flow, impact, slice, entry points, status) | none | reads | record, stores |
| MCP server, configuration, logging | none that changes | | |

What is hard in it:

- **Interleaving.** Everything is `async`: between two awaits of one operation any other
  callback, request or process of the same scope can act. Neither the record nor the lock is
  changed atomically: `writeFile` truncates, then writes, and every read-modify-write has an
  await in the middle.
- **Crashes.** No record and no store is written through a temporary file. A process that
  ends leaves a lock, a record that says `running`, a truncated file, or stores of which
  some have been written and others not.
- **Time.** The lease of the lock, its renewal interval, the debounce and the retry of the
  watcher race with each other and with the runs; so do the lease of a daemon, its
  heartbeat, the startup timeout (20 s) and the patience of a client at the startup lock (5
  s).
- **Partial failure.** A file is written to seven stores and the manifest, one after the
  other; any of the calls can fail, and the failure of some is swallowed on purpose.
- **Sharing.** Run and searches of a daemon use one store object and one model context,
  through promises that are cached before they have settled; daemons share the directory of
  models.
- **Limits.** Window, overlap and depth of the chunker, batches, and the depth, node, file
  and result budgets of the queries: each cuts something, and has to say so.

What makes each part correct: *lock*: one holder, named by the file, and acquirers that
return. *Record*: what a change, a failure or a process end leaves undone shows in it, as
stale or as counted errors. *Runs and watcher*: no change of the sources is lost; one run at
a time. *Ingestion*: the stores hold of every file what its manifest entry promises, and
what went wrong is repaired by a later run or by a rebuild. *Startup*: one daemon per
project. *Search*: it neither disturbs the run nor misses a row that has been acknowledged
and is still there. *Chunks*: no text is lost, and each row is small enough to be embedded
and says where it comes from (one kind of row a search refuses: see Findings). *Queries*:
answers follow existing relations within the budgets, end, and what was cut is reported.

`PROJECT.json` lists under "hazards" where these bite, line by line, with the properties
that would catch it.

## Modules

| Module | Models |
|---|---|
| `ScopeLock` | what the run lock promises: an atomic lock whose dead holder is released by its lease |
| `RunLock` | the lock as it is: mkdir, open, write, read, rm, per await; renewals; leases; process ends. Implements `ScopeLock` while no unsafe window is hit |
| `IndexRuns` | runs, watcher, startup recovery and status record of one daemon; uses the lock as `ScopeLock` (checked by `UsesScopeLock`) |
| `Ingestion` | one ingestion at a time over the eight stores |
| `DaemonStartup` | the clients and daemons of a project: startup lock, registration, socket path, heartbeat, shutdown |
| `StructuredFacts` | what one file leaves: symbol candidates, observations, canonical and derived facts |
| `GraphProjection` | the graph and the overlays projected from these |
| `AnalysisAnchors` | how a query resolves an anchor or a symbol, and which end of a relation it meets |
| `RelationQueries` | impact, slice, entry points, relations of a symbol |
| `GraphQueries` | queries of all kinds, traces hop by hop, beside a run that rewrites the stores; uses the four above |
| `ModelDownload` | model context and download of several callers and processes |
| `VectorStore` | the store object of one process with its cached promises, over the external database |
| `SearchPath` | an index run and searches; composes the two above |
| `ChunkWindows` | a text through partitions, splits, windows, batches and rows |
| `RunLockProofs`, `IndexRunsProofs`, `IngestionProofs`, `DaemonStartupProofs`, `GraphQueriesProofs`, `SearchPathProofs`, `ChunkWindowsProofs` | the theorems about these modules, with their lemmas, proved with TLAPS |
| `MCRunLock`, `MCIndexRuns`, `MCIngestion`, `MCDaemonStartup`, `MCGraphQueries`, `MCSearchPath`, `MCChunkWindows` | instances for TLC |

In each module, a definition that starts with "Variant:" in its comment is the definition
that follows it with a plausible mistake; the specification does not use it. `PROJECT.json`
lists under "mutants" which property finds which mistake.

### RunLock

`pc[r]` is where run `r` is in `acquireRunLock`, in its holding phase, or in
`releaseRunLock`. `mkdir` → `open` → `write` is lines 37-54 of the repository, `judge` →
`rm` the EEXIST branch (55-71): read the lock, refuse if it is alive, else remove it and
start over. A renewal is a second thread of the run (`renewal[r]`: open, write), started by
the interval (`TimerStart`, `since`) and **not** stopped by `TimerStop`. `fd[r]` is the file
a run has open: `"dead"` once it has been unlinked, so that writing to it has no effect.
Reading a truncated or missing `owner.json` gives `NoRun`.

Time is `ttl`, the ticks left of the lease; a call reads the clock once, so `lag[r]` counts
the ticks since. `MaxLag < Lease` bounds how long one file operation takes, and at most one
renewal of a run is in flight. `windows` is a history variable: which of the four windows in
which the lock is *not* safe has been hit.

- `reclaim`: a half-written lock (create or renew) is judged malformed and is going to be
  removed.
- `create`: a lock is created while another run is about to remove the one it judged before.
- `straggler`: the lock is released with a renewal in flight.
- `lapse`: a lease ends under its holder.

Outside the windows the lock is exclusive (`CalmExclusion`), its holder is named by a live
lease (`CalmHolderNamed`), and a release leaves nothing behind (`CalmReleased`). In every
window, a run that has seen the loss of its lock never sees a renewal succeed again
(`LostIsFinal`).

### IndexRuns

`rec` is the record on disk. A change of it by actor `a` goes through `ReadRecord`,
`OpenRecord` (truncation: `rec = Null`) and `WriteRecord`; `val[a]` is what it has read and
is going to write, and a write that overlapped another one leaves a garbled file or the
writer's record (`mixed`). `Updated` is what each `mark*` method makes of the record.
`AfterWrite` is the rest of the code after each of these awaits. Callers run `execute`:
`Acquire`, `RecoverRead`/`RecoverLock`, `GetStatus`, `RebuildClears`, `IngestRead`,
`FileFails`, `Checkpoint`, `IngestResolves`/`IngestFails`, `Release`. Handlers are the
callbacks of the watcher. The sources are one number `ver`; `idx` is the last version *all*
of which was indexed.

A file that fails is only counted by the pipeline: `run()` resolves, and `markCompleted`
makes the record idle, with needsReindex and pendingChanges cleared and lastIndexedAt set,
even if nothing was indexed. `short[c]` is that a file of the run has failed; `idx` stays
then, and what the record has of it is `errors`, its counters. A rebuild clears the stores
(`idx = 0`) while lastIndexedAt stays. So lastIndexedAt promises little, and the properties
say what is left: a missed change shows as stale *or as a counted error* (`EditReported`),
and an index is only sure to be there behind an idle record *without errors*
(`AdmittedIsReal`).

`close()` and the exit of a shutdown are one step with a crash (`ProcessEnds`): the exit
does not wait for the run, and the process is gone in both cases. The lock of a run that
ended so is `Orphaned` until its lease ends.

### Ingestion

A store maps a path to the *pieces* it holds; `Yield(s, c)` is what content `c` leaves in
store `s`. A run has an *agenda*, the sequence of store calls ahead of it: clears for a
rebuild, the purge and rewrite of a file, or the purge of a stale path. `Call` takes its
head; `CallFails` fails it, with the store unchanged or, for a JSON file, torn (read as
empty); `Stop` ends the process or rejects the run in the middle of it; `Edit` changes the
sources at any time. The vector table may come from an older schema (`old`): the first
upsert then recreates it from its own rows. A failed `Promise.all` of the graph and overlay
snapshots is two writes in that order, of which either fails alone; the reads before them
see no other writer.

Two ingestions at once, which a lost lock allows, are not in this module: each store's calls
read, filter and rewrite a file, and what two of them leave is bounded by nothing.

### DaemonStartup

A client spawns at most one daemon, so both have one name. `cpc[c]` goes through
`ensureDaemonRunning`: `lock` (mkdir in a loop; `BreakLock` is the removal after 5 s),
`read`, `decide` and `probe` (is the registered daemon mine, and does it answer), `disown` →
`delete` → `unlink` (`removeStaleDaemonState`; `Recover` is the SIGTERM before it), `spawn`,
`open` → `write` (the registration), `wait`, and `unlock` or `throw`. `wait` and `pause` are
a poll and the interval after it: the deadline of the startup ends the loop after an
interval, without another poll (`PollTimeout`), so that the client may end a daemon of its
own that has just come up. It recovers from it with the same three steps. `dpc[d]` goes
through `prepareSocketPathForBind`, `listening`, `ready`, and by way of a signal, from a
client, from its own heartbeat or from outside (`Signal`), through the cleanup: `closing`
and `owner` read the registration, `erase` and `rmOwn` remove it and the socket file if it
was its own; `hb[d]` is its lease renewal in flight. `sock` is the daemon that bound the
file at the path: a listener behind it if that daemon still answers, a leftover if not, and
`None` if there is no file, though a daemon whose file was removed goes on listening.

`calm` is a history variable: none of eight unsafe windows has been hit. Leaving any of them
out makes one of the invariants fail.

- the startup lock is broken while its holder is at work (`BreakLock`);
- the registration is read while a write has truncated it (`ReadsTorn`);
- a renewal overwrites a registration that is no longer its own (`RenewOpen`);
- the lease of a daemon that is alive lapses (`Lapse`);
- a daemon that is still starting is replaced without being ended (`Recover`);
- a client dies between the spawn and the registration (`ClientCrash`);
- the cleanup of a daemon that was signalled from outside, or was given up when it had just
  come up, removes the registration or the socket of a successor that a client started
  between its look and its removal (`CleanupErase`, `CleanupRm`);
- the server of a replaced daemon closes and unlinks its successor's socket (`Close`).

The last one needs nothing unusual: it follows a change of the configuration (see Findings).
Timing enters as one guard, `Settled`: the first heartbeat of a daemon, 10 s after it is
ready, finds the registration written or its writer dead.

### StructuredFacts, GraphProjection, GraphQueries

A parsed document is a record of what the parser and the analyzers report (`Document`).
`Symbols`, `CanonicalFacts` and `DerivedFacts` are what the pipeline makes of it, with the
ids that decide which records replace each other; `Project` and `Overlay` are the graph of
one file. Hashes are tuples, that is, injective. `ResolveAnalysisAnchor`, `AnalyzeImpact`,
`ComputeSlice`, `DetectEntrypoints` and `GetSymbol` are functions of what the stores list,
in an order no query controls (`Enumerated`).

`GraphQueries` runs one update of a file over the stores (`StoreCall`, in the order of the
purge and the rewrite) and one query at a time. `Ask` is a query that is admitted; its reads
return in the order the code awaits them, in any order where it awaits several, and a read
of a file that is being rewritten may be empty (`ReadsOf`). A call of the update may fail, a
JSON store torn or not, and the process may end (`CallFails`, `Stop`): a failure of the
structured stores is swallowed and the file is marked as indexed all the same. `failed` is a
history variable: the stores and files whose last call was not carried out. `Hop` is one
node of a trace's queue with its budgets, `TimeOut` its time budget, `EndTrace` the end of
the traversal. What the run purges and writes while a query reads shows in
`query.disturbed`; the properties about whole answers are about the undisturbed ones.

`keyed` is the form of node ids in the graph. `"hashed"` is what the program stores; a trace
over it finds nothing, which is a finding (`flow_finds_nothing`). `"ends"`, the ids of the
ends, is the form of the graphs that the tests of trace-flow give it: no state of the
composed program, but the input under which the loop of the trace runs at all. Nothing is
claimed of what a trace finds over it; it is kept so that `NothingDropped` and `QueryEnds`
speak of queues that fill.

### ModelDownload, VectorStore, SearchPath

A file of the model is an inode with a number of blocks, so that a rename takes the
incomplete file of a writer along. `dl` steps are the awaits of `ensureContext`,
`ensureModelFile` and the callbacks of the download: redirect, answer, each block, the end,
a failure or a time-out.

The table has one bit and the paths whose rows it holds; a `promise` is opening, creating, a
handle, a stale handle (of a table that has been dropped or overwritten) or rejected. Each
`op[u]` goes through the names of the tables, the cached promise and its await, as the code
does; in between any other caller acts. The database is external and answers each call at
one point in time.

`SearchPath` gives a run its calls (`RunCalls`, `FileCalls`: clear, embed, delete and
upsert) and a search its own (`SearchCalls`), either in one daemon (`home`) or in two. The
`manifest` has an entry of each file's last or of an older version: a run *skips* a file
whose entry is current, purges one with an older entry, and writes the others. A run that
begins takes back the error of the one before it (`markRunning`), so searches are let in
beside it. A search throws when one of its best rows has both kinds of location
(`SearchThrows`; `Odd` are the files that have such rows, see `ChunkWindows`).

History variables: `kept` are the files whose rows have been acknowledged and that no call
has meant to remove since; `lost` those of them that went when a table of an old schema was
created anew from the batch of another file. `due[c]` is what `c` is owed: kept and not lost
when it was let in, nor removed or lost since. `calm[c]` says that nothing has disturbed `c`
since it began: no fault, no download that redirects have ended, and for a search no run
that drops the table.

Left out are files that are gone (`Ingestion` has them), failures of the other stores of the
run, an edit that is taken back, and that a process end leaves the status as "running".

### ChunkWindows

A text is a sequence of four classes of characters (`"x"` for a letter, `"s"` for a space,
`"n"` for a line break, `"h"` for a hash). A segment is a span of the text with its
location; spans make "no character is lost" a statement about positions. `doc` of a segment
is the doc location that a window of characters of *code* gets beside its lines, from the
second one on (`SplitByTokens`): a row that has one is `Refused` by the search. The sizes of
windows and overlaps count halves of characters, since the code takes a token for 2.5.
`Chunk` is the whole cutting of a document; then the batches of the pipeline go one by one
(`EmbedBatch`, `UpsertBatch`), until the next file. A batch is the next so many positions of
the chunks (`Batch`), as the code's slices are.

## Runs

| Run | Bounds | Shows |
|---|---|---|
| `lock_safety` | 2 runs, lease 2, renewal 1, lag 1, fair | type, exclusion, naming, release, finality of loss; the acquisition returns; `RunLock` implements `ScopeLock` |
| `lock_two_holders` | 2 runs, lease 3 | *violation*: two concurrent acquisitions both succeed |
| `runs_faults` | watcher, 1 client, 1 callback, 1 edit, 1 fault, rebuilds, checkpoints after a failed file | no change goes without a run, or is reported, while runs are refused and come back; an idle record without errors has an index behind it |
| `runs_crash` | watcher, 1 client, 1 callback, 1 edit, 1 process end, rebuilds, fair | an interrupted ingestion never looks fresh; lock discipline; changes are indexed; a stale `running` heals |
| `ingest_stores` | 2 files, 2 contents, 2 vector parts, 2 edits, 2 failures | manifest and stores agree; retries and rebuilds repair |
| `ingest_interrupted_rebuild` | 1 stop | *violation*: the next run skips everything |
| `daemon_startup` | 2 clients, 2 configurations, 1 fault, fair | up to the first unsafe window: one daemon, reachable, and calls succeed; through all of them: calls end, and so do daemons that lost the registration |
| `daemon_socket_lost` | 2 clients, 2 configurations, no fault | *violation*: a registered daemon loses its socket |
| `graph_queries` | 3 files, two of them in 2 versions, 1 update, 1 fault beside one of the queries, 22 queries, fair | graph and overlays hold the facts unless a write of them failed; lookups agree; cuts are reported; no anchor is dropped; queries end |
| `flow_finds_nothing` | the same files, no update | *violation*: a trace answers with nothing beside facts that lead on |
| `search_path` | 1 run, 1 search, 1 or 2 daemons, 2 files, one of them odd, tables of both schemas, 2 blocks, 1 redirect, 1 fault, fair | the model is whole; run and search do not disturb each other; calls end |
| `chunks` | texts of 5 characters of 4 classes and of 8 of 2, 4 settings | no character is lost; rows fit; every chunk is stored with its own vector |

Why the bounds are enough to mean something: two runs are what it takes for one to remove
the lock of another, and with a lease of two ticks and a lag of one a lease ends in
mid-call. (A third run, a contender that reclaims what the second has judged, multiplies the
states; the proofs are for any number.) The sources start at version 1, not indexed, so that
a run can be under way before the first edit; a callback and the watcher's own run are what
it takes to change the record twice at once, and the client is what the watcher is refused
for. Beside a fault, a checkpoint is only checked where it has a failed file to count
(`FaultSpec`); `runs_crash` has them all. In `Ingestion` two files are what distinguishes a
file from the others, one of the contents yields no records (as a document does), two parts
make a vector upsert that fails half-way, and index – edit – fail – retry takes one edit and
one failure. In `DaemonStartup` two clients are one that starts a daemon and one that reuses
it, replaces it or comes after its end, and one fault is a crash, a signal, a lapsed lease
or an impatient timeout; what a third client or a second fault adds is left to the proofs,
which are for any number of both. The first client's configuration is fixed, since no
definition tells fingerprints apart. In `GraphQueries` two functions and a class make a call
and references, scripts that run each other a cycle, the second version of the file has two
definitions of one name, and that of the workflow runs nothing; the budgets are below, at
and above what a trace needs. What a failed call leaves does not depend on the query, so
faults are checked beside one of them (`MCSpec`). In `SearchPath` two blocks make a half
file, one fault is a failed call, a failed connection or a process end, and one run clears,
fills and drops a table under a search, or skips any of the files. A daemon of another
project shares only the models, so it is checked beside an empty store only (`MCSpec`). The
longer texts of `chunks` take several partitions, and a partition several windows under all
settings but the largest.

`EditReported` is checked for one fault, and a failed file is one. With two it does not
hold: a second failure can keep the first from being recorded (under *Proofs*).
`EditScheduled` and `EventuallyFresh` speak of runs whose files all succeed: a failed file
is not tried again before something changes.

**Fairness.** `FairLockSpec`: a file operation that has begun completes, which libuv does.
`Fairness` of `IndexRuns`: file operations complete, timers fire and queued events are
delivered. An ingestion may save progress, and clear the stores, any number of times but
ends (strong fairness of `IngestResolves`, since each checkpoint disables the end for a
while). Nothing is assumed of clients' calls, failures, edits, process ends or starts.
`Fairness` of `DaemonStartup`: clients inside a call and daemons take their steps, and again
and again no renewal is in flight: a renewal takes milliseconds of every ten seconds.
Without the latter two daemons whose renewals always overlap could take turns for ever.
`Fairness` of `GraphQueries`: the reads of a query in progress return, and its loop goes on.
`Fairness` of `SearchPath`: callers go on, and the database, the network and the file system
answer or fail; a download has a time-out.

**Deadlock** is checked except where `CHECK_DEADLOCK FALSE` stands: in the runs of
`DaemonStartup` the system rests once every client has made its call and no daemon is left.

## Findings

The four violation runs are disagreements with the repository's own words, quoted in
`PROJECT.json`: the lock can be taken twice (a test says exactly one holder); an interrupted
rebuild leaves a manifest that hides the missing chunks; a daemon that was replaced after a
change of the configuration unlinks, within one heartbeat, the socket of the daemon that
replaced it (a test says that the socket of another unexpired daemon is not removed); and a
flow trace finds no segment in a graph that this program has stored, since it asks for the
edges of a raw id where the projector has hashed the ids of nodes (the tool promises
"bounded evidence-backed flow segments from an anchor"; its unit test,
trace-flow-use-case.unit.test.ts:94, uses a graph without hashes).

The models show more of the kind, which no run is spent on:

- The recovery can report a completed run as lost: it writes back the record it read before
  it awaited the lock (`RecoverRead`, `RecoverLock`). No property forbids it, since it
  happens; the next run puts it right, so neither `EventuallyFresh` nor `StaleRunningHeals`
  sees it.
- A run whose every file fails is recorded as completed, with lastIndexedAt set, and queries
  are admitted over an empty index; a rebuild that fails leaves lastIndexedAt over cleared
  stores. Only the counters tell (`FileFails`, `IngestResolves`, `RebuildClears`).
- A file whose first ingestion fails after its vector upsert has chunks and no manifest
  entry; if it is edited, the next run adds the new chunks beside them (`RetryHeals` excepts
  it).
- Two clients that start together while the daemon takes longer than 5 s to start: the
  second breaks the startup lock, finds no socket and ends the first one's daemon
  (`BreakLock`, `Decide`).
- A client whose startup times out removes the socket file whoever has bound it (`Unlink`),
  and may end its own daemon after it has come up: the deadline is not preceded by a poll
  (`PollTimeout`).
- A daemon that is told to end from outside looks whether the registration is its own, and
  then removes it and the socket file without looking again: a client that finds the socket
  gone in between starts a successor, which loses both, and the next client starts another
  (`CleanupErase`, `CleanupRm`).
- Nothing removes the overlays of a deleted file: the purge leaves that store out, and
  `Truthful` excepts it.
- When the vector table has an older schema, the first changed file recreates it from its
  own batch; the unchanged files are skipped and are not searchable until a rebuild, and
  nothing tells (`Applied`; `lost` in `SearchPath`).
- A failed write of the record in a watcher callback is an unhandled rejection, which ends
  the daemon (`WriteFails`); docs/vision.md:52 says watcher failures must not.
- A restart does not catch up: README.md:122 says that it does and that interrupted runs
  resume, but the startup (start-daemon.ts:147) only corrects the record. Changes made while
  the daemon was down, and an interrupted ingestion, wait for the next change or call
  (`Start`).
- `markRunning` clears needsReindex, so queries are admitted while the run rewrites what
  they read (`StartUpdate`), and a JSON store read between truncation and write is empty
  (`ReadsOf`).

About queries:

- A failed write of a file's graph or facts is swallowed and the file is marked as indexed:
  impact and slice then tell of relations that the graph lacks, until the file changes
  (`CallFails`; `GraphHoldsFacts` excepts it).
- The relations of one symbol share kind and evidence, by which trace-flow finds the fact of
  an edge: every call of a function is described as its last one (`RelationOf`).
- An edge whose id a trace has met on another path is dropped, not joined (`Taken`).
- The depth budget is compared with the number of segments found, not with the depth
  (`Spent`); a limit that is just reached counts as truncated, for traces and impacts alike.
- A slice that left out files, or entry points beyond the limit, says nothing of it
  (`FilesKept`, `DetectEntrypoints`); `CutReported` is about the others. Entry points of one
  kind, path and name are one (`DedupeEntrypoints`).
- `GetSymbol`'s callers are the relations *from* the symbol (get-symbol-use-case.ts:85-86);
  those of impact are the ones *to* it (analyze-impact-use-case.ts:246-254), as its unit
  test has it. `SymbolsAgree` states exactly that: the callers of one are the callees of the
  other.
- A relation of a symbol with itself matches as its `from` only
  (`DetectRelationEndpointMatch`).
- Anchors of files and the like resolve to `kind:path`, an id that no stored relation has,
  and the capitalised kinds of relations are none that are recognised, so that every end
  reads as a symbol (`ReadAnchorKind`, `ResolveNonSymbolAnchor`).

About search and text:

- Two processes that download one model share its `.part` file: one can rename the other's
  half file to the name of the model, which is then taken for complete. If its writer gives
  up, for ever (`Complete`, `DownloadFails`). `ModelWhole` is about all other cases. An
  answer whose body is shorter than announced fails the download in the model; one without a
  content-length that breaks off is outside of it.
- A rejected promise of the connection is kept until the process ends, and with it every
  call fails (`ConnectFails`).
- An upsert that finds a table on its second look returns it and adds no rows. That takes
  two writers, which the run lock excludes (`Created`).
- An accepted socket has no error handler: a client that ends before its answer is written
  ends the daemon (start-daemon.ts:94).
- A line of code that is longer than a window is cut by characters, and each window but the
  first gets a doc location beside its lines (default-chunker.ts:165-173, 462-475). The rows
  are embedded and stored, and a search that has one among its best results fails as a whole
  with INTERNAL_ERROR (search-knowledge-use-case.ts:93-100). With a maxSplitDepth of two or
  more, which the default of 4 is, it takes one single line that long (`SplitByTokens`,
  `Refused`, `SearchThrows`).
- When a file has any declaration, its code outside of declarations is not chunked
  (`CodeSegments`); `TextFound` is about the declarations then.
- The parser counts the lines of a declaration from the first line of its partition but in
  the trimmed text: after leading blank lines all are too low (fallback-parser.ts:243-251,
  526-531; `ParseStructuralBlocks`). `RowsFit` excepts them (`Shifted`).
- The location of a piece of a document is that of the first partition at or before its
  number, which is not an offset (`ResolvePartition`).
- Sizes from fractions of tokens are not rounded: a window may exceed its limit by less than
  a character (`WindowEnd`).

## Proofs

TLC finds out on small instances whether a formula holds; the theorems below hold for every
value of the constants. Each module has one inductive invariant, the conjunction of named
parts (in `SearchPathProofs` one of the download and one of the store on top of it, in
`GraphQueriesProofs` one for each of what a theorem needs), with one lemma per action (or
per part and action); every other theorem about states follows from it. Before it was
proved, each invariant was checked with TLC on the instance of its module's run. (The types
of `Ingestion` are left to the theorem `IngestionTypeCorrect`.)

| Module | For any | Theorems |
|---|---|---|
| `RunLockProofs` | runs, lease, renewal interval, lag (`NoRunAssumption`, `LeaseAssumption`) | `LockInvariant`, `LockTypeCorrect`, `Exclusion`, `HolderNamed`, `Released`, `LossFinal`, `RefinesScopeLock` |
| `IndexRunsProofs` | callers, callbacks, versions, failures and ends of the process | `RunsInvariant`, `RunsTypeCorrect`, `AdmissionIsReal` (`AdmittedIsReal`), `InterruptionReported` (`InterruptionShows`), `NoChangeLost` (`EditScheduled`), `OneFailureShows` (`EditReported`), `RunsUseScopeLock` (`UsesScopeLock`) |
| `IngestionProofs` | files, contents, batches, edits, failures and stops | `IngestionInvariant`, `IngestionTypeCorrect`, `StoresAreTruthful` (`Truthful`), `TextOutlivesStructure` (`TextSurvives`), `ManifestMirrorsDisk` (`MirrorsDisk`), `RebuildHealsEverything` (`RebuildHeals`), `RetryHealsWhatFailed` (`RetryHeals`), `EntryFollowsText` (`ManifestAfterText`) |
| `DaemonStartupProofs` | clients, configurations and faults | `StartupInvariant`, `StartupTypeCorrect`, `OneDaemonServes` (`OneDaemon`), `RegisteredIsReachable` (`NamedIsReachable`), `CallsSucceed` (`CalmCallsSucceed`) |
| `SearchPathProofs` | finite number of callers, processes, files, blocks, redirects and faults, any number of runs | `DownloadInvariant`, `ModelIsWhole` (`ModelWhole`), `StoreInvariant`, `RunsAreUndisturbed` (`RunUndisturbed`), `SearchesAreUndisturbed` (`SearchUndisturbed`) |
| `GraphQueriesProofs` | files, versions, what the parser reports of them, commands and budgets, updates (`QueriesAssumption`, `CommandsAssumption`) | `GraphTellsTheFacts` (`GraphHoldsFacts`), `LookupsAgree` (`SymbolsAgree`), `NothingIsDropped` (`NothingDropped`), `CutsAreReported` (`CutReported`) |

| `ChunkWindowsProofs` | documents, settings, limits and sizes of batches (`ChunkAssumption`, `SettingsAssumption`) | `EveryChunkIsStored` (`ChunksStored`), `NoTextIsLost` (`TextFound`), `RowsAlwaysFit` (`RowsFit`) |

### The run lock

None of the four invariants of `lock_safety` is inductive. `CalmExclusion` alone says
nothing of a run that is about to remove a lock it judged: `CalmInv` adds that while the
lock is calm nobody is about to remove a lock while another has one, that an engaged run's
directory exists, that a holder outside a rewrite is named with a lease left, and that
renewals in flight belong to holders only. `FileInv` adds what can be open or read at all,
`TimerInv` which runs have timers and renewals, and `LostInv` that a run that has seen the
loss has no way left to write `owner.json`; from the last one `LossFinal` follows, in every
window. For the refinement, the abstract holder is the engaged run if there is one (by
`CalmInv` it is unique), and nobody once an unsafe window has been hit: from then on the
files promise nothing, and the abstract lock has been given up. Each step maps to a grant, a
give-back, an abandonment, the end of a lease, or a stutter.

### The index runs

What makes `AdmittedIsReal` and `InterruptionShows` hard is that each change of the record
is a read, a truncation and a write, with anything in between: a record that was read long
ago is written back over a newer one. `CleanInv` and `FreshInv` therefore speak of the
record on disk *and* of the copies in the hands of every actor. A copy that calls the index
fresh is only ever written by the run that holds the lock, either before its own ingestion
begins or after it was complete; one that counts no error either (`Clean`) exists only while
the index holds something, since a run that has failed on a file writes its errors with it,
and a rebuild that clears the index begins when no fresh record is left in any hand. That
only one caller is there is `LockInv`, from `ScopeLock`'s exclusion and the program counters
(`ControlInv`).

`NoChangeLost` rests on `WatchInv` and `BehindInv`: while nothing has failed, a version the
index does not have is still with a callback, with the timer, with the follow-up flag, or
with a run that has yet to read the sources or has read all of them and failed on none; what
a rebuild under way has cleared is with that rebuild (`Rebuilding`). `OneFailureShows` says
that a first failure does not hide a change either: what is then owed shows in the record,
or is on its way to it (`ReportInv`). A failed file is such a failure: its run is recorded
as completed, and the errors in its counters are all that shows (`ShowsErrors`). A second
failure can hide one, and the theorem says `faults <= 1` for that reason: with `MaxFaults =
2` TLC has the watcher's failed run note its failure between the read and the write of a
manual run, which writes the older, fresh record back over the note, and whose own
`markRunning` then fails to be written.

### The ingestion

`IngestInv` has eleven parts. `ControlInv` and `PathsInv` say what an agenda can look like:
a suffix of a rebuild's clears, of a purge or of a rewrite, in an order that puts the purge
before the writes, the text stores before the structured ones and the manifest last, and
which paths are ahead, in progress, stale or behind. `ClearInv`, `WrittenInv` and `ExactInv`
say of the calls no longer on the agenda what they have left: after a purge a store holds of
the path exactly what has been put since. `PreviousInv` is the fact the purge relies on,
that the entries read at the start are still true of the paths ahead. From these `TruthInv`
(`Truthful` and `TextSurvives`, by the kind of harm done so far), `MirrorInv`
(`MirrorsDisk`), `RebuildInv` and `RetryInv` follow step by step; the last two are about
runs beside which nothing fails but *after* anything may have failed, so they assume nothing
of the stores the run began with. `EntryFollowsText` is about steps: `ControlInv` gives that
a manifest entry is the last call of a rewrite, `WrittenInv` that the text is there by then.

Agendas are sequences: the first lemmas of `IngestionProofs` are what the others need of
`Head`, `Tail` and `\o`; the invariant itself speaks of the set of calls ahead only.

### The startup of daemons

`OneDaemon` says nothing of clients, and is kept only because of what each client inside the
startup lock knows. `StartupInv` has a part for every window (`ProgressInv`: which steps of
a client and its daemon go together) and one that holds while the history is calm:

- `ExclusionInv`: the startup lock excludes; `FileInv`: the registration has one writer at a
  time, and names no living daemon without a lease;
- `ServesInv`: a daemon that nobody has recovered from and that has not begun to end
  (`Current`) is registered, or its client is about to register it; one that is up has the
  socket path unless it has been replaced. A daemon signalled from outside has begun to end
  once its server is closed, and may be followed by another while it cleans up;
- `ReadsInv`, `KnowsInv`: what the client inside the lock has read of is the only registered
  and the only current daemon; after its recovery there is none, after its spawn only its
  own.

`CallsSucceed` needs `QuietInv` on top, which holds without faults: a daemon that is spawned
comes up (`ComesUp`), one that shuts down has been replaced and is registered no more, so
that its cleanup removes nobody's registration (`Leaves`), and a socket file in its way
belongs to a registered daemon or is about to be removed. All of the unsafe windows are
needed: they are the disjuncts of `calm`, and TLC finds `OneDaemon`, `NamedIsReachable` or
`CalmCallsSucceed` violated when one of them is left out.

### The model download

`ModelWhole` is about the inode under one name, but a rename carries an inode from one name
to the other while its writer goes on. `FileInv` says of both names that the inode is whole,
has been given up, or is being filled by a writer *that nobody has emptied the file under*;
`AloneInv` says what holds as long as no two downloads have met. That the model of the file
system has an unused inode for every request is `InodeIsFree`, by counting.

### The store

`RunUndisturbed` and `SearchUndisturbed` are about a cache that every caller fills and only
the run empties, between awaits of all of them. `StoreInv` relates the cache, the promises
that calls await, the table, and what the run has still to do:

- `TableInv`: while there is a table, what is cached of it is not stale or rejected; and a
  promise that creates a table is awaited by the run, which is therefore the only one to
  change the table.
- `WriterInv`: what the run has been told of the table is still true when it acts on it
  (`Follows`), how far a creation is (`Creates`) or a removal (`Drops`), and that rows whose
  upsert has ended are there (`Done`). Without a rejected connection and without a fault it
  meets no rejected promise, so it does not fail (`NoneFails`).
- `SearchInv`: the same `Follows` for a search beside which no run drops the table. Others
  may hold any promise, also that of a table that is gone.
- `DueInv`: what a search is due is in the table, so one that is told that there is no table
  is due nothing, and one that reads a table reads all of it. It needs no calm: what keeps a
  search from missing rows silently is that a stale or rejected promise makes it fail.
- `EvidenceInv`: only a search ends for a row with both locations, and only if there is one.
- `OwedInv`: for each file that it does not skip, an undisturbed run has its rows stored, or
  has the upsert ahead of it; and no call that removes them comes later, nor a schema that
  makes it create the table again. `kept \ lost` is in the table (`TableInv`), and what is
  lost is of skipped files, since a file that is written is taken off the loss. That a new
  agenda is of this kind is `RunStoresAll`, about the order of `SetToSeq` and the
  concatenation of `FlattenSeq`, which goes by the least number of files for which it fails
  (`LeastNumber`).
- `EmbedInv`: no embedding fails by itself. It rests on `DownloadInv`: a download alone
  renames a file that is whole. What is left is a chain of redirects, which `calm` excepts.

`OpsInv` says that the calls a caller has in progress are the first on its agenda, `RunInv`
that a run clears first if at all, and `FreeIdIsFree`, by counting, that there is an unused
promise whenever one is made.

### The queries

`GraphHoldsFacts` compares three stores that an update rewrites one call after the other.
`StoresAgree` says for each file that there is one version that its facts, its graph and its
overlays come to: a store holds it already and no call for it is ahead, or the last call
ahead that is for it writes it, or its last call is one that was not carried out (`Settles`,
`FailSettles`): `failed` is what the swallowed failures and the ends of the process leave to
except. The overlays of a file that is gone are excepted, since nothing purges them. Once no
call is ahead, the theorem is about one version of each file, and what is left is about the
projector: each edge is one of a fact and each fact has its edge.

`SymbolsAgree` needs no more than that the files stored are files: a list of symbols and the
two lookups in it are functions of the versions, in whatever order they are enumerated
(`InOrder`, `Selected`). Its second half is about the ends of relations: those from the
symbol are both the callers of `GetSymbol` and the callees of `AnalyzeImpact`, and those to
it the other way round. `CutReported` and `NothingDropped` are about answers, whatever the
query read beside the run: `QueryOK` says that what it saw are versions of files, and of a
trace that each node in the queue waits at a depth below the budget with as many segments
behind it (`TraceOK`, `Waits`), so that a trace which stops early says so. For impacts and
slices the cuts of a list are lemmas about positions; for traces the loop over the edges of
one node (`Expand`) is a fold, for which each of its steps is proved to keep `TraceOK`.

### The batches of chunks

`ChunksStored` does not depend on how the text is cut, so the theorem is about any sequence
of chunks: `BatchesInv` says which chunks the batches have reached, that a vector which has
come is the one of the text in its evidence id (`VectorsOwn`), that records have the vector
of their text (there is one for each: the embedding batches reach all), that a chunk which
the upserts have reached has a row with its place and text, and that each row is one of the
chunks. The last two are what makes `mergeInsert` harmless: a row is replaced only by one of
the same place and text, so that what it quoted is quoted still.

### The cutting of text

`TextFound` and `RowsFit` depend on every cut. `CutInv` says that while a file is stored its
chunks are what `GoodChunks` says of the chunker's answer: each is tight (no blank at its
ends), fits a window, is in the lines of its place and names the partition that
`resolvePartition` finds; and each character that was to be cut is in one. `ChunksAre`
proves that for any text and options, from one lemma per function of the code: `TrimmedIs`,
`CutIs`, `PartsAre` (sections, paragraphs), `LinesAre`, `LineWindowsAre`,
`CharacterWindowsAre`, `SplitOnceIs`, `SplitSegmentsIs`, `PartitionsAre`, `BlocksAre`,
`FirstAre`. `RowsFit` needs two more. Which rows the search refuses is about rounds: the
windows of characters come after `maxSplitDepth` of them, and `SplitOnceLevels` says what a
round leaves of code: after the first, what is too long is within one paragraph
(`ParagraphsAreOne`), after the second within one line (`OneIsNotDivided`,
`WindowsAreShort`), so that a row with two locations is of a single line (`Leveled`,
`Explained`). And `ResolvedHolds`: the lines of a row are what a partition is chosen by, and
`BetweenLines` makes lines into positions.

Loops are recursive functions here, and a recursive function is what solves its equation, if
anything does. For each one there is a lemma that a solution exists and one of what every
solution holds, both proved by the least number at which they would fail (`LeastNumber`,
from `WellFoundedInduction`), which needs no induction theorem that takes an operator. The
two loops over windows are one `Chains`: at each number it adds something and stops or goes
on from a greater number. `ChainCollects` is the heart of both: up to each `x` there is a
window that stops, or after which the loop goes on behind `x`; with the next window never
beginning behind the end of this one, `x` is in it. That is where the overlap and the
`max(start + 1, ...)` of the code matter. The rounds of cutting are `Rounds`, and
`FlattenSeq` of the community modules is `Flattens`.

### Changes that proofs asked for

A `CASE` with overlapping guards means, in TLC, its first true branch, and in the logic any
of them; what the code does is the first, so those definitions are now chains of `IF`
(`Yield`, `ParseFile`, the anchors, the reads of queries). `NoneAssumption` of
`DaemonStartup` says that `None` is no registration either, `MaxVersion` of `IndexRuns` is
positive, and a free inode is any, not the least. `MaxRedirects` is positive, as
`MAX_REDIRECTS` is: the models tell a download that redirects have ended by its `hops`, and
with none allowed a first redirect would look like no redirect, and `SearchUndisturbed`
would be false. `CallFailed` of `SearchPath` drops the calls for the failed file by their
number, since they come together, and the files (`Paths`) are finitely many.

In the modules of queries, lists are selected from and sorted by their positions (`InOrder`,
`Selected`, `ByConfidence`) where the community modules have recursive operators; a sort
takes positions by confidence, and equal ones in the order of the list, as a stable sort
does. Batches of `ChunkWindows` are sets of positions for the same reason.
`QueriesAssumption` says what the proofs use of documents (finitely many records, each of
its file; at most one name in a block), and `CommandsAssumption` that the limits of a
command are positive, as the schemas of the tools have them. `RowsFit` once spoke of vectors
too; that is now `ChunksStored`, which says more.

The cuts of `ChunkWindows` are records in the order of their positions too (`Cut`, `Parts`),
and the classes of characters are letters, since the provers cannot read the strings for a
blank and a hash. `ChunkAssumption` says that declarations are spans of their text, and
`SettingsAssumption` that options are numbers and the default context is not 0, as
load-config.ts:400-418 has them.

### Only model-checked

- Liveness (`AcquireReturns`, `EventuallyFresh`, `StaleRunningHeals`, `CallsReturn`,
  `OthersEnd`, `CallsEnd`, `QueryEnds`): beyond the prover.
- The properties of the four runs that expect a violation, which do not hold.
- What holds of one operator only, such as how an anchor resolves, beyond what the theorems
  about answers need of it.

## Not modelled

- The analyzers and the rules they load, and the grammars of the parser: pattern matching
  over syntax trees, without state. `StructuredFacts` starts from what they report,
  `ChunkWindows` from the declarations they find. The degraded results of a failing parse
  are left out with them.
- Embedding is native code: a vector for a text, or a failure.
- Configuration, logging, the schemas and the formatting of the MCP tools, presets and file
  names of models, globs and ignore rules: string matching, once per process or per call,
  with no state a property is about.
- The framing of requests by newline: a connection carries one line each way and leaves no
  state. A daemon process that is suspended blocks its clients, since requests have no
  time-out; the models have no such state.
- Two ingestions at once. `CalmExclusion` says when the lock excludes them.
- Wording, precision tiers and the order of equal results in the answers of queries.

## What is left

Every safety invariant and action property of the passing runs is a theorem. Hazards without
a property are two ingestions at once, which needs a model of what two writers leave in one
file; the recovery that reports a completed run as lost, which happens and is put right by
the next run; the promises that the callbacks of the watcher discard, since the models end
with the process (`WriteFails`); and a daemon that accepts and never answers, which they
leave out.
