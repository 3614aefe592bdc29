----------------------------- MODULE SearchPath -----------------------------
(***************************************************************************)
(* Searches beside an index run, from the status check over the embedding  *)
(* to the vector store (search-knowledge-use-case.ts, hybrid-retriever.ts, *)
(* and the calls of the ingestion pipeline to both).  Runs and searches of *)
(* one daemon share its model context and its store; another daemon, of    *)
(* another project, shares only the directory of models.                   *)
(***************************************************************************)
EXTENDS ModelDownload, VectorStore, Sequences, SequencesExt

CONSTANTS
  Runner,     \* the caller that is the index run; one, for the run lock
  Odd,        \* files with a row that has both kinds of location
  MaxRuns     \* bound: index runs
ASSUME SearchPathAssumption ==
  /\ Users = Callers /\ Runner \in Callers /\ MaxRuns \in Nat
  /\ IsFiniteSet(Paths) /\ Odd \subseteq Paths

VARIABLES
  agenda,   \* agenda[c]: the calls that c has still to make
  status,   \* the status record: has a run completed, has the last one failed
  manifest, \* manifest[p]: no entry, or one of an older or this version of p
  runs,     \* how much of the bound is used up
  skipped,  \* history: the files that the last run took for unchanged
  calm,     \* calm[c] (history): see Begun
  failed,   \* failed[c] (history): has c failed since it began, and in what
  due       \* due[c] (history): what has been acknowledged since c began
histVars == <<runs, skipped, calm, failed>>
pathVars == <<agenda, status, manifest, histVars, due>>
vars == <<downloadVars, tableVars, pathVars>>

Searchers == Callers \ {Runner}
\* The callers in the daemon of the run.
Local(c) == home[c] = home[Runner]
Call(do, path) == [do |-> do, path |-> path]

Entries == {"none", "outdated", "current"}

\* A file whose entry is current is skipped, one with another entry is purged
\* first, and then it is embedded and stored, in the order of the files.
FileCalls(p, entry) ==
  IF entry = "current" THEN <<>>
  ELSE (IF entry = "outdated" THEN <<Call("delete", {p})>> ELSE <<>>)
         \o <<Call("embed", {p}), Call("upsert", {p})>>
FilesCalls(entries) ==
  LET files == SetToSeq(Paths)
  IN FlattenSeq(
       [i \in DOMAIN files |-> FileCalls(files[i], entries[files[i]])])

\* A rebuild clears the table, and the manifest once that has been done.
RunCalls(rebuild, entries) ==
  IF rebuild
  THEN <<Call("clear", {})>> \o FilesCalls([p \in Paths |-> "none"])
  ELSE FilesCalls(entries)

\* The query is embedded, then the store is searched: for the other daemon,
\* that is somewhere else.
SearchCalls(c) ==
  <<Call("embed", {})>>
    \o IF Local(c) THEN <<Call("search", {})>> ELSE <<>>

Init ==
  /\ DownloadInit /\ TableInit
  /\ agenda = [c \in Callers |-> <<>>]
  /\ \E error \in BOOLEAN : status = [indexed |-> table, error |-> error]
  /\ manifest = [p \in Paths |-> IF table THEN "current" ELSE "none"]
  /\ runs = 0 /\ skipped = {}
  /\ calm = [c \in Callers |-> TRUE] /\ failed = [c \in Callers |-> "no"]
  /\ due = [c \in Callers |-> {}]

Running == agenda[Runner] # <<>>

\* c goes on with these calls: the first of them is made at once.
Calls(c, calls) ==
  LET first == IF calls = <<>> THEN Call("none", {}) ELSE Head(calls)
  IN /\ agenda' = [agenda EXCEPT ![c] = calls]
     /\ Goes(c, IF first.do = "embed" THEN "want" ELSE "idle")
     /\ op' = [op EXCEPT ![c] = IF first.do \in {"embed", "none"} THEN NoCall
                                ELSE Called(first.do, first.path)]
     /\ promise' = Reachable(op')
     /\ UNCHANGED <<home, file, data, loaded, faults, overlapped, spoiled,
                    table, rows, old, connection, cached, kept, lost>>

\* calm[c]: nothing has disturbed c since it began: no fault, no download that
\* redirects have ended, and for a search no run that drops the table.
Begun(c, calls) ==
  /\ agenda[c] = <<>>
  /\ Calls(c, calls)
  /\ failed' = [failed EXCEPT ![c] = "no"]

\* Some files have been edited since their entries were made.
Edited(changed) ==
  [p \in Paths |-> IF p \in changed /\ manifest[p] = "current" THEN "outdated"
                   ELSE manifest[p]]

\* markRunning takes back the error of the run before.
StartRun ==
  /\ runs < MaxRuns /\ runs' = runs + 1
  /\ \E changed \in SUBSET Paths : manifest' = Edited(changed)
  /\ \E rebuild \in BOOLEAN :
       LET calls == RunCalls(rebuild, manifest')
       IN /\ Begun(Runner, calls)
          /\ skipped' = IF rebuild THEN {}
                        ELSE {p \in Paths : manifest'[p] = "current"}
          /\ status' = [indexed |-> status.indexed \/ calls = <<>>,
                        error |-> FALSE]
          /\ calm' = [c \in Callers |->
                        c = Runner \/ (calm[c] /\ ~rebuild /\ ~old)]
  /\ UNCHANGED due

\* A search is refused when no run has completed, or the last has failed.
Ready(c) == Local(c) => status.indexed /\ ~status.error
Dropping == Running /\ (Head(agenda[Runner]).do = "clear" \/ old)
Ask(c) ==
  /\ c # Runner /\ agenda[c] = <<>>
  /\ IF Ready(c)
     THEN /\ Begun(c, SearchCalls(c))
          /\ calm' = [calm EXCEPT ![c] = ~Dropping]
          /\ due' = [due EXCEPT ![c] = kept \ lost]
          /\ UNCHANGED <<status, manifest, runs, skipped>>
     ELSE UNCHANGED vars

\* How the call of c has ended.
Ended(c) == IF agenda[c] # <<>> /\ Head(agenda[c]).do = "embed"
            THEN get[c].pc ELSE op[c].pc

\* The manifest is cleared after the table, and has a file once it is stored.
Recorded(call) ==
  [p \in Paths |-> CASE call.do = "clear" -> "none"
                     [] call.do = "upsert" /\ p \in call.path -> "current"
                     [] OTHER -> manifest[p]]
CallReturns(c) ==
  /\ Ended(c) \in {"have", "done"}
  /\ Calls(c, Tail(agenda[c]))
  /\ status' = IF c = Runner /\ Len(agenda[c]) = 1
               THEN [indexed |-> TRUE, error |-> FALSE] ELSE status
  /\ manifest' = Recorded(Head(agenda[c]))
  /\ UNCHANGED <<histVars, due>>

\* toSearchEvidence throws for a row that has both kinds of location, if it is
\* among the best.
SearchThrows(c) ==
  /\ agenda[c] # <<>> /\ Head(agenda[c]).do = "search" /\ Ended(c) = "done"
  /\ op[c].found \cap Odd # {}
  /\ Calls(c, <<>>)
  /\ failed' = [failed EXCEPT ![c] = "evidence"]
  /\ UNCHANGED <<status, manifest, runs, skipped, calm, due>>

\* A search fails with its call.  A run counts an error for the file and goes
\* on to the next one, after the calls for the same file, which come together;
\* a clear that fails is the end of it.
CallFailed(c) ==
  /\ Ended(c) = "failed"
  /\ LET call == Head(agenda[c])
         same == {i \in DOMAIN agenda[c] : agenda[c][i].path = call.path}
         left == IF c = Runner /\ call.do # "clear"
                 THEN SubSeq(agenda[c], Cardinality(same) + 1, Len(agenda[c]))
                 ELSE <<>>
     IN /\ Calls(c, left)
        /\ status' = IF c # Runner \/ left # <<>> THEN status
                     ELSE [indexed |-> status.indexed \/ call.do # "clear",
                           error |-> call.do = "clear"]
  /\ failed' = [failed EXCEPT ![c] = "call"]
  /\ calm' = [calm EXCEPT ![c] = @ /\ get[c].hops = 0]
  /\ UNCHANGED <<manifest, runs, skipped, due>>

\* Faults: nothing that is in progress is calm any more.
Disturbs ==
  /\ calm' = [c \in Callers |-> FALSE]
  /\ UNCHANGED <<manifest, runs, skipped, failed, due>>
StoreFails ==
  /\ faults < MaxFaults /\ faults' = faults + 1
  /\ TableFault /\ Disturbs
  /\ UNCHANGED <<home, file, data, get, loaded, overlapped, spoiled, agenda,
                 status>>
NetworkFails ==
  /\ \E c \in Callers : DownloadFails(c)
  /\ Disturbs
  /\ UNCHANGED <<tableVars, agenda, status>>

\* A daemon ends and is started again.
ProcessEnds(p) ==
  /\ faults < MaxFaults /\ faults' = faults + 1
  /\ EndDownloads(p)
  /\ IF home[Runner] = p THEN EndCalls ELSE UNCHANGED tableVars
  /\ agenda' = [c \in Callers |-> IF home[c] = p THEN <<>> ELSE agenda[c]]
  /\ Disturbs /\ UNCHANGED status

Embeds(c) == DownloadStep(c) /\ UNCHANGED <<tableVars, pathVars>>
Stores(u) ==
  /\ TableStep(u)
  /\ due' = [c \in Callers |-> due[c] \cap (kept' \ lost')]
  /\ UNCHANGED <<downloadVars, agenda, status, manifest, histVars>>
Answers(i) == DatabaseStep(i) /\ UNCHANGED <<downloadVars, pathVars>>
GoesOn(c) ==
  \/ CallReturns(c) \/ CallFailed(c) \/ Embeds(c)
  \/ SearchThrows(c) \/ Stores(c)

Next ==
  \/ StartRun
  \/ \E c \in Callers : Ask(c) \/ GoesOn(c)
  \/ \E i \in Ids : Answers(i)
  \/ StoreFails \/ NetworkFails \/ \E p \in Processes : ProcessEnds(p)

Spec == Init /\ [][Next]_vars

\* Promises are settled and callers are called back; requests time out.
Fairness ==
  /\ \A c \in Callers : WF_vars(GoesOn(c))
  /\ WF_vars(\E i \in Ids : Answers(i))
FairSpec == Spec /\ Fairness

------------------------------------------------------------------------------
\* No half model file is in the way, and the connection is not lost for good.
Sound == /\ file.model = NoFile \/ data[file.model] = Whole
         /\ ~overlapped /\ connection # "rejected"

\* The searches of a daemon never make its index run fail: whatever they leave
\* in the caches of the store while the run drops and creates the table, a run
\* beside which nothing fails has no error, stores the rows of every file that
\* it does not skip, and loses no acknowledged rows but those of files that it
\* skips, which go when the table's old schema makes it create the table anew.
RunUndisturbed ==
  (calm[Runner] /\ Sound) =>
    /\ failed[Runner] = "no"
    /\ runs > 0 /\ ~Running =>
         /\ Paths \ skipped \subseteq rows /\ kept \ lost \subseteq rows
         /\ lost \subseteq skipped

\* A search finds every row that had been acknowledged when it was let in and
\* that no run has removed or lost since, beside any run and after failures:
\* no rejected or stale promise shows it an empty table.  One beside which
\* nothing fails and no run drops the table ends without an error, unless it
\* meets a row that has both kinds of location.
SearchUndisturbed ==
  \A c \in Searchers : Local(c) =>
    /\ op[c].pc = "done" /\ agenda[c] # <<>> => due[c] \subseteq op[c].found
    /\ (calm[c] /\ Sound) =>
         failed[c] = "no" \/ (failed[c] = "evidence" /\ Odd # {})

\* Every call ends: no search or run waits for ever for a download or for the
\* promise of another.
CallsEnd == \A c \in Callers : agenda[c] # <<>> ~> agenda[c] = <<>>
=============================================================================
