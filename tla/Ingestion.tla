----------------------------- MODULE Ingestion -----------------------------
(***************************************************************************)
(* One ingestion at a time (DefaultIngestionPipeline.run) over the eight   *)
(* stores of a project scope, one store call per step, while the sources   *)
(* change, calls fail, files are torn and the process ends.  The run lock  *)
(* (RunLock, IndexRuns) is what keeps ingestions one at a time.            *)
(*                                                                         *)
(* A store maps a path to the pieces it holds of that path: a piece        *)
(* <<c, i>> is the i-th part of what content c leaves there.  The vector   *)
(* store receives a content in `Batches` parts, the others in one.         *)
(* Modes `full` and `incremental` take the same path through the code.     *)
(***************************************************************************)
EXTENDS Integers, Sequences, FiniteSets

CONSTANTS
  PathCount,   \* the paths, numbered in the order the scanner sorts them
  Contents,    \* contents a file can have, by fingerprint
  Barren,      \* contents no symbol, observation or fact is extracted from
  None,        \* the content of a file that is not there
  Batches,     \* vector upserts per file
  MayBeOld,    \* may the vector table come from before a schema change
  MaxEdits,    \* bound: changes of the sources
  MaxFaults    \* bound: failed calls and process ends

ASSUME IngestionAssumption ==
  /\ PathCount \in Nat /\ Batches \in Nat \ {0} /\ MayBeOld \in BOOLEAN
  /\ Barren \subseteq Contents /\ None \notin Contents
  /\ MaxEdits \in Nat /\ MaxFaults \in Nat

Paths == 1..PathCount
Structured == {"canonical", "derived", "graph", "overlay"}
Stores == {"vector", "manifest", "symbols", "observations"} \cup Structured

VARIABLES
  disk,     \* disk[p]: content of the file, or None
  store,    \* store[s][p]: the pieces store s holds of path p
  old,      \* does the vector table still have an old schema
  run,      \* the ingestion: see Runs
  edits, faults,  \* how much of the bounds is used up
  harm      \* history: what has gone wrong so far, see Harms
vars == <<disk, store, old, run, edits, faults, harm>>

Harms == {"text", "structured", "schema"}
Pieces == Contents \X (1..Batches)
Op == [do : {"clear", "erase", "embed", "put"},
       in : Stores, part : 1..Batches]

\* pc: "clear" (a rebuild empties the stores), "scan", "file" (one file after
\* the other), "purge" (one stale path after the other), "done" (resolved) or
\* "idle" (rejected, or never started).  left: files to come.  stale: paths of
\* the previous manifest that the scan has not seen.  path, content: what is in
\* progress, and agenda the calls it still takes.  calm (history): no failure
\* so far, and no change of the sources since the scan.
Runs == [pc : {"idle", "clear", "scan", "file", "purge", "done"},
         rebuild : BOOLEAN, calm : BOOLEAN,
         previous : [Paths -> SUBSET Pieces],
         left : SUBSET Paths, stale : SUBSET Paths,
         path : Paths \cup {0}, content : Contents \cup {None},
         agenda : Seq(Op)]

Nothing == [p \in Paths |-> {}]
Idle == [pc |-> "idle", rebuild |-> FALSE, calm |-> TRUE,
         previous |-> Nothing, left |-> {}, stale |-> {}, path |-> 0,
         content |-> None, agenda |-> <<>>]

\* What content c leaves in store s.
Yield(s, c) ==
  IF c = None THEN {}
  ELSE CASE s = "vector"   -> {c} \X (1..Batches)
         [] s = "manifest" -> {<<c, 1>>}
         [] OTHER          -> IF c \in Barren THEN {} ELSE {<<c, 1>>}

------------------------------------------------------------------------------
\* The store calls.

\* upsert of a part of the vector store adds chunks by key; the repositories
\* of symbols, observations and facts do nothing for an empty list and replace
\* a path's records otherwise; the snapshot stores and the manifest replace.
Upserted(s, held, c, i) ==
  CASE s = "vector" -> held \cup {<<c, i>>}
    [] s \in {"symbols", "observations", "canonical", "derived"} ->
         IF c \in Barren THEN held ELSE Yield(s, c)
    [] OTHER -> Yield(s, c)

\* The vector upsert that meets an old schema recreates the whole table from
\* the rows at hand.
Applied(op, p, c) ==
  CASE op.do = "embed" -> store
    [] op.do = "clear" -> [store EXCEPT ![op.in] = Nothing]
    [] op.do = "erase" -> [store EXCEPT ![op.in][p] = {}]
    [] op.do = "put" /\ op.in = "vector" /\ old ->
         [store EXCEPT !.vector = [Nothing EXCEPT ![p] = {<<c, op.part>>}]]
    [] OTHER ->
         [store EXCEPT ![op.in][p] = Upserted(op.in, @, c, op.part)]

\* A failed or interrupted call changes nothing, or leaves the JSON file torn:
\* every reader takes an unreadable file for an empty store.
AfterFailure(op) ==
  {store} \cup
  IF op.do \in {"erase", "put"} /\ op.in # "vector"
  THEN {[store EXCEPT ![op.in] = Nothing]} ELSE {}

------------------------------------------------------------------------------
\* The order of the calls.

Calls(do, names) ==
  [i \in DOMAIN names |-> [do |-> do, in |-> names[i], part |-> 1]]

\* Variant: a rebuild forgets the overlay store.
ClearOrderNoOverlay == <<"vector", "manifest", "symbols", "observations",
                         "canonical", "derived", "graph">>

\* A rebuild empties every store.
ClearOrder == <<"vector", "manifest", "symbols", "observations",
                "canonical", "derived", "graph", "overlay">>

\* Variant: the symbols of an updated file are not purged.
DeleteOrderNoSymbols == <<"vector", "observations", "canonical", "derived",
                          "graph">>

\* What is purged of a file before it is rewritten.
DeleteOrder == <<"vector", "symbols", "observations", "canonical", "derived",
                 "graph">>

\* What is purged of a file that is gone: the manifest entry comes second.
PurgeOrder == <<"vector", "manifest", "symbols", "observations", "canonical",
                "derived", "graph">>

\* upsertInBatches.
VectorPuts ==
  [i \in 1..Batches |-> [do |-> "put", in |-> "vector", part |-> i]]

\* embedInBatches: it changes no store, and can fail.
Embed == <<[do |-> "embed", in |-> "vector", part |-> 1]>>

\* Variant: an existing file is not purged before it is rewritten.
RewriteKeepsOld(known) ==
  Embed \o VectorPuts
  \o Calls("put", <<"symbols", "observations", "canonical", "derived",
                    "graph", "overlay", "manifest">>)

\* Variant: the manifest entry is written before the chunks.
RewriteManifestFirst(known) ==
  (IF known THEN Calls("erase", DeleteOrder) ELSE <<>>)
  \o Calls("put", <<"manifest">>) \o Embed \o VectorPuts
  \o Calls("put", <<"symbols", "observations", "canonical", "derived",
                    "graph", "overlay">>)

\* The calls that index a new or changed file; `known` says whether the
\* manifest had an entry for it when the run began.
Rewrite(known) ==
  (IF known THEN Calls("erase", DeleteOrder) ELSE <<>>)
  \o Embed \o VectorPuts
  \o Calls("put", <<"symbols", "observations", "canonical", "derived",
                    "graph", "overlay", "manifest">>)

\* Variant: the failure goes to the handler of the file.
SwallowedNever(op) == FALSE

\* persistStructuredData catches what its own writes throw.
Swallowed(op) == op.do = "put" /\ op.in \in Structured

\* After a swallowed failure: a fact store that fails skips the rest of
\* persistStructuredData; graph and overlay are written by one Promise.all.
Resume(op) ==
  IF op.in \in {"canonical", "derived"} THEN Calls("put", <<"manifest">>)
  ELSE Tail(run.agenda)

------------------------------------------------------------------------------
\* A first start on an empty home, or an upgrade over a complete index.
Init ==
  /\ disk \in [Paths -> Contents \cup {None}]
  /\ old \in {FALSE, MayBeOld}
  /\ store = [s \in Stores |->
                IF old THEN [p \in Paths |-> Yield(s, disk[p])] ELSE Nothing]
  /\ run = Idle /\ edits = 0 /\ faults = 0 /\ harm = {}

\* run() is called; a rebuild first clears every store.
StartRun ==
  /\ run.pc \in {"idle", "done"}
  /\ run' \in {[Idle EXCEPT !.pc = "scan"],
               [Idle EXCEPT !.pc = "clear", !.rebuild = TRUE,
                            !.agenda = Calls("clear", ClearOrder)]}
  /\ UNCHANGED <<disk, store, old, edits, faults, harm>>

\* The manifest is read, then the sources are scanned.
Scan ==
  /\ run.pc = "scan"
  /\ run' = [run EXCEPT !.pc = "file", !.previous = store["manifest"],
                        !.left = {p \in Paths : disk[p] # None},
                        !.stale = {p \in Paths : /\ disk[p] = None
                                                 /\ store["manifest"][p] # {}}]
  /\ UNCHANGED <<disk, store, old, edits, faults, harm>>

\* Files and stale paths are handled in sorted order.
First(set) == CHOOSE p \in set : \A q \in set : p <= q

\* Variant: any file the manifest lists is taken for unchanged.
UnchangedByPath(p, c) == run.previous[p] # {}

\* The manifest entry read at the start has the fingerprint of the content.
Unchanged(p, c) == run.previous[p] = Yield("manifest", c)

\* The next file is parsed.  One that is gone since the scan fails, one with
\* the fingerprint of its manifest entry is left alone, any other is rewritten.
ParseFile ==
  /\ run.pc = "file" /\ run.agenda = <<>> /\ run.left # {}
  /\ LET p == First(run.left)
         c == disk[p]
         on == [run EXCEPT !.left = @ \ {p}]
     IN run' = IF c = None THEN [on EXCEPT !.calm = FALSE]
               ELSE IF Unchanged(p, c) THEN on
               ELSE [on EXCEPT !.path = p, !.content = c,
                               !.agenda = Rewrite(run.previous[p] # {})]
  /\ UNCHANGED <<disk, store, old, edits, faults, harm>>

\* What a run does once its agenda is used up.
Onward(r) ==
  IF r.agenda # <<>> THEN r
  ELSE [r EXCEPT !.pc = IF @ = "clear" THEN "scan" ELSE @,
                 !.path = 0, !.content = None]

\* The next call on the agenda succeeds.
Call ==
  /\ run.agenda # <<>>
  /\ LET op == Head(run.agenda)
         recreates == op.do = "put" /\ op.in = "vector" /\ old
         drops == op.do = "clear" /\ op.in = "vector"
     IN /\ store' = Applied(op, run.path, run.content)
        /\ old' = (old /\ ~recreates /\ ~drops)
        /\ harm' = harm \cup IF recreates THEN {"schema"} ELSE {}
        /\ run' = Onward([run EXCEPT !.agenda = Tail(@)])
  /\ UNCHANGED <<disk, edits, faults>>

\* The next call on the agenda fails.  In a file that is one error and the run
\* goes on; outside it the run rejects.
CallFails ==
  /\ run.agenda # <<>> /\ faults < MaxFaults
  /\ LET op == Head(run.agenda)
     IN /\ store' \in AfterFailure(op)
        /\ run' = IF run.pc # "file" THEN Idle
                  ELSE Onward([run EXCEPT !.calm = FALSE,
                                 !.agenda = IF Swallowed(op) THEN Resume(op)
                                            ELSE <<>>])
        /\ harm' = harm \cup
                   IF run.pc = "file" /\ op.do = "put" /\ op.in \in Structured
                   THEN {"structured"} ELSE {"text"}
  /\ faults' = faults + 1
  /\ UNCHANGED <<disk, old, edits>>

\* The scan, or the onProgress callback between two files, throws: run()
\* rejects.  Or the process ends, in the middle of a call or between two.
Stop ==
  /\ run.pc \notin {"idle", "done"} /\ faults < MaxFaults
  /\ store' \in IF run.agenda = <<>> THEN {store}
                ELSE AfterFailure(Head(run.agenda))
  /\ run' = Idle
  /\ faults' = faults + 1 /\ harm' = harm \cup {"text"}
  /\ UNCHANGED <<disk, old, edits>>

\* All files are done: the next stale path is removed from the stores, except
\* from the overlay store.
PurgeStale ==
  /\ run.pc \in {"file", "purge"} /\ run.agenda = <<>>
  /\ run.left = {} /\ run.stale # {}
  /\ LET p == First(run.stale)
     IN run' = [run EXCEPT !.pc = "purge", !.stale = @ \ {p}, !.path = p,
                           !.agenda = Calls("erase", PurgeOrder)]
  /\ UNCHANGED <<disk, store, old, edits, faults, harm>>

\* run() resolves.
Finish ==
  /\ run.pc \in {"file", "purge"} /\ run.agenda = <<>>
  /\ run.left = {} /\ run.stale = {}
  /\ run' = [run EXCEPT !.pc = "done"]
  /\ UNCHANGED <<disk, store, old, edits, faults, harm>>

\* Somebody creates, changes or removes a file.
Edit ==
  /\ edits < MaxEdits
  /\ \E p \in Paths, c \in Contents \cup {None} :
       c # disk[p] /\ disk' = [disk EXCEPT ![p] = c]
  /\ edits' = edits + 1
  /\ run' = IF run.pc \in {"file", "purge", "done"}
            THEN [run EXCEPT !.calm = FALSE] ELSE run
  /\ UNCHANGED <<store, old, faults, harm>>

Next ==
  \/ StartRun \/ Scan \/ ParseFile \/ Call \/ CallFails \/ Stop
  \/ PurgeStale \/ Finish \/ Edit

Spec == Init /\ [][Next]_vars

------------------------------------------------------------------------------
\* Properties.

TypeOK ==
  /\ disk \in [Paths -> Contents \cup {None}]
  /\ store \in [Stores -> [Paths -> SUBSET Pieces]]
  /\ old \in BOOLEAN /\ run \in Runs /\ harm \subseteq Harms
  /\ edits \in 0..MaxEdits /\ faults \in 0..MaxFaults

\* The run has resolved, nothing failed in it and nothing changed since its
\* scan.
CleanEnd == run.pc = "done" /\ run.calm

\* What store s should hold of path p by the manifest entry of p.
ByManifest(s, p) == UNION {Yield(s, piece[1]) : piece \in store["manifest"][p]}

\* Paths no call is in progress for.
Settled ==
  IF run.pc = "clear" THEN {}
  ELSE IF run.agenda # <<>> THEN Paths \ {run.path} ELSE Paths

\* As long as no call has failed, however the sources change meanwhile, every
\* store holds of every path exactly what its manifest entry promises, and
\* nothing of a path without one.  Overlays of a path without entry are
\* excepted: nothing purges those.
Truthful ==
  harm = {} =>
    \A p \in Settled, s \in Stores :
      (s = "overlay" /\ store["manifest"][p] = {})
      \/ store[s][p] = ByManifest(s, p)

\* Whatever went wrong before, a run that ends cleanly leaves a manifest that
\* lists the sources, with the contents they have.
MirrorsDisk ==
  CleanEnd =>
    \A p \in Paths : store["manifest"][p] = Yield("manifest", disk[p])

\* Whatever went wrong before, a rebuild that ends cleanly leaves every store
\* as if the sources had been indexed for the first time.
RebuildHeals ==
  CleanEnd /\ run.rebuild =>
    \A p \in Paths, s \in Stores : store[s][p] = Yield(s, disk[p])

\* Whatever went wrong before, a clean run repairs every path whose manifest
\* entry differs from the sources: a file whose rewrite failed half-way is
\* complete and alone after the next run that gets through.
RetryHeals ==
  CleanEnd =>
    \A p \in Paths :
      run.previous[p] \notin {{}, Yield("manifest", disk[p])} =>
        \A s \in Stores :
          (s = "overlay" /\ disk[p] = None) \/ store[s][p] = Yield(s, disk[p])

\* Failures of the structured stores never cost text: "Structured persistence
\* failed; continuing text
\* indexing" (the run logs that and goes on)".
TextSurvives ==
  harm \subseteq {"structured"} =>
    \A p \in Settled, s \in Stores \ Structured :
      store[s][p] = ByManifest(s, p)

\* A path gets a manifest entry only once all its parts are in the vector
\* store and its symbols and observations are written, even if calls failed
\* before: what the manifest lets later runs skip has been indexed.
ManifestAfterText ==
  [][\A p \in Paths :
       store'["manifest"][p] \notin {{}, store["manifest"][p]} =>
         \A s \in {"vector", "symbols", "observations"} :
           Yield(s, run.content) \subseteq store[s][p]]_vars

\* What the README calls "Resumable indexing and watcher-driven incremental
\* updates keep project knowledge fresh across restarts": after a clean run
\* every file of the sources is in the vector store, whatever happened before.
EverythingSearchable ==
  CleanEnd =>
    \A p \in Paths : Yield("vector", disk[p]) \subseteq store["vector"][p]

==============================================================================
