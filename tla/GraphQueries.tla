---------------------------- MODULE GraphQueries ----------------------------
(***************************************************************************)
(* A query beside an index run: the records that the run writes store by   *)
(* store, and the reads of the query in between.  The queries that answer  *)
(* from facts are RelationQueries; flow tracing (trace-flow-use-case.ts)   *)
(* reads the graph again at every hop and is modelled here.                *)
(*                                                                         *)
(* What a store holds of a path is the version of the document whose       *)
(* records these are, 0 for none.                                          *)
(***************************************************************************)
EXTENDS GraphProjection, RelationQueries

CONSTANTS
  Paths,      \* the files
  Docs,       \* Docs[p]: the documents that p may be, in a sequence
  Records,    \* what is stored of each: see AllRecords
  Commands,   \* the queries that may be asked
  MaxUpdates, \* bound: files that are indexed again
  MaxFaults   \* bound: failed calls, and ends of the process

Versions(p) == 0..Len(Docs[p])

\* What is stored of each version of each document; nothing of none.  Records
\* is this as a constant, from which the queries and their properties start.
AllRecords ==
  LET NoGraph == [nodes |-> {}, edges |-> {}]
      Of(doc) ==
        [symbols |-> Symbols(doc), canonical |-> CanonicalFacts(doc),
         derived |-> DerivedFacts(doc), graph |-> Project(doc),
         overlays |-> [k \in DOMAIN OverlayKinds |-> Overlay(doc, k)]]
      Nothing ==
        [symbols |-> {}, canonical |-> {}, derived |-> {}, graph |-> NoGraph,
         overlays |-> [k \in DOMAIN OverlayKinds |-> NoGraph]]
  IN [p \in Paths |-> [v \in Versions(p) |->
        IF v = 0 THEN Nothing ELSE Of(Docs[p][v])]]

\* A file has a path, which "" is not, and something to index; the name of a
\* block is one text, if it has one; what is stored is finite, derived facts
\* have the path of their file and canonical ones a confidence.
ASSUME QueriesAssumption ==
  /\ IsFiniteSet(Paths) /\ "" \notin Paths
  /\ \A p \in Paths : /\ Docs[p] \in Seq(ToSet(Docs[p])) \ {<<>>}
                      /\ \A v \in DOMAIN Docs[p] : Docs[p][v].path = p
  /\ \A p \in Paths : \A v \in DOMAIN Docs[p] :
       \A b \in ToSet(Docs[p][v].blocks) :
         b.name \in Seq(ToSet(b.name)) /\ Len(b.name) <= 1
  /\ Records = AllRecords
  /\ \A p \in Paths : \A v \in Versions(p) :
       /\ IsFiniteSet(Records[p][v].derived)
       /\ IsFiniteSet(Records[p][v].canonical)
       /\ IsFiniteSet(Records[p][v].graph.edges)
       /\ \A f \in Records[p][v].derived : f.path = p
       /\ \A f \in Records[p][v].canonical : f.confidence \in Nat
  /\ MaxUpdates \in Nat /\ MaxFaults \in Nat

\* What a query is admitted with: budgets are positive; no limit of files is 0;
\* what it is about is an anchor.
ASSUME CommandsAssumption ==
  \A c \in Commands :
    /\ {c.maxDepth, c.maxNodes, c.maxItems, c.maxResults, c.limit}
         \subseteq Nat \ {0}
    /\ {c.maxFiles, c.confidenceMin} \subseteq Nat
    /\ c.direction \in {"forward", "backward", "both"}
    /\ \A a \in {c.from, c.to} : a = Anchor(a.kind, a.name, a.id, a.path)

VARIABLES
  stored,   \* stored[s][p]: the version that store s holds of p
  agenda,   \* the calls that the update in progress still makes
  failed,   \* history, <<s, p>>: the last call of s for p was not carried out
  ready,    \* does the status record admit queries
  keyed,    \* the ids of the graph's nodes: see Graph
  query,    \* the query in progress: see Asked
  updates, faults  \* how much of the bounds is used up
vars == <<stored, agenda, failed, ready, keyed, query, updates, faults>>
index == <<stored, agenda, failed, ready, keyed, updates, faults>>

Stores == {"symbols", "canonical", "derived", "graph", "overlays", "manifest"}
Nowhere == [p \in Paths |-> 0]

\* No query is in progress; see Asked.
NoTrace == [queue |-> <<>>, nodes |-> {}, edges |-> {}, segments |-> {},
            stop |-> "no"]
NoQuery == [pc |-> "idle", command |-> [kind |-> "none"], trace |-> NoTrace,
            disturbed |-> FALSE]

\* TLC evaluates a definition of a constant value once, and a constant each time.
Table == Records

\* What a read of a store returns that finds these versions.
Stored(store, versions) ==
  UNION {Table[p][versions[p]][store] : p \in Paths}
Listed(store, versions) == Enumerated(Stored(store, versions))

\* The projector keys nodes by the hash of kind and id ("hashed").  The tests
\* of the trace give it a graph keyed by the ids of the ends ("ends").
Keyed(edge, form) ==
  IF form = "hashed" THEN edge
  ELSE [edge EXCEPT !.fromNodeId = edge.ends[1].id,
                    !.toNodeId = edge.ends[2].id,
                    !.id = EdgeId(edge.ends[1].id, edge.kind, edge.ends[2].id)]

\* The edges a trace can follow.
IncludedKinds ==
  [calls |-> Calls, imports |-> Imports,
   exports |-> {"symbol-exported-from-file"}, workflow |-> Workflows,
   config |-> Entrances \cup Gates \cup {"task-runs-command"}]
Included(include) ==
  UNION {IncludedKinds[i] :
           i \in IF include \cap DOMAIN IncludedKinds = {}
                 THEN DOMAIN IncludedKinds
                 ELSE include \cap DOMAIN IncludedKinds}
FlowEdges(versions, form, include) ==
  {Keyed(e, form) : e \in {e \in UNION {Table[p][versions[p]].graph.edges :
                                          p \in Paths} :
                             e.kind \in Included(include)}}

------------------------------------------------------------------------------
\* The index run.

PurgedStores == <<"symbols", "canonical", "derived", "graph">>
WrittenStores == <<"symbols", "canonical", "derived", "graph", "overlays",
                   "manifest">>
StoreCalls(names, p, v) ==
  [i \in DOMAIN names |-> [path |-> p, store |-> names[i], version |-> v]]

\* A file that the manifest lists is purged before it is written; one that is
\* gone loses its entry first.
UpdateCalls(p, v, known) ==
  IF v = 0 THEN StoreCalls(<<"manifest">> \o PurgedStores, p, 0)
  ELSE (IF known THEN StoreCalls(PurgedStores, p, 0) ELSE <<>>)
         \o StoreCalls(WrittenStores, p, v)

\* A source changes: the record asks for a run and queries are refused.
SourceChanges ==
  /\ agenda = <<>> /\ updates < MaxUpdates /\ ready
  /\ ready' = FALSE
  /\ UNCHANGED <<stored, agenda, failed, keyed, query, updates, faults>>

\* The run starts on a file that differs from its manifest entry, or is gone;
\* the record it writes when it starts admits queries again.
StartUpdate(p, v) ==
  /\ ~ready /\ agenda = <<>> /\ v # stored.manifest[p]
  /\ agenda' = UpdateCalls(p, v, stored.manifest[p] # 0)
  /\ ready' = TRUE
  /\ updates' = updates + 1
  /\ query' = [query EXCEPT !.disturbed = query.pc # "idle"]
  /\ UNCHANGED <<stored, failed, keyed, faults>>

\* What a call leaves of its file: an upsert of no records changes nothing.
Left(call) ==
  IF /\ call.version # 0 /\ call.store \in {"symbols", "canonical", "derived"}
     /\ Table[call.path][call.version][call.store] = {}
  THEN stored[call.store][call.path] ELSE call.version

\* One call of a store.
StoreCall ==
  /\ agenda # <<>>
  /\ LET call == Head(agenda)
         pair == <<call.store, call.path>>
     IN /\ stored' = [stored EXCEPT ![call.store][call.path] = Left(call)]
        /\ failed' = (failed \ {pair})
                      \cup IF Left(call) = call.version THEN {} ELSE {pair}
  /\ agenda' = Tail(agenda)
  /\ UNCHANGED <<ready, keyed, query, updates, faults>>

\* What is left to do after a failed call.  persistStructuredData swallows what
\* its writes throw: facts that fail skip the graph and the overlays, which are
\* written by one Promise.all, and the file gets its manifest entry.  Any other
\* failure ends the file.
AgendaAfter ==
  LET call == Head(agenda)
  IN CASE call.version # 0 /\ call.store \in {"canonical", "derived"} ->
            StoreCalls(<<"manifest">>, call.path, call.version)
       [] call.version # 0 /\ call.store \in {"graph", "overlays"} ->
            Tail(agenda)
       [] OTHER -> <<>>

\* The next call is not carried out, and neither are those that it skips: its
\* store stays as it is, or is cut short in the writing and reads as empty.
Fails(rest) ==
  /\ agenda # <<>> /\ faults < MaxFaults
  /\ LET call == Head(agenda)
     IN \E torn \in BOOLEAN :
          /\ stored' = IF torn THEN [stored EXCEPT ![call.store] = Nowhere]
                       ELSE stored
          /\ failed' = failed
               \cup {<<c.store, c.path>> : c \in ToSet(agenda) \ ToSet(rest)}
               \cup IF torn THEN {call.store} \X Paths ELSE {}
  /\ agenda' = rest
  /\ faults' = faults + 1
  /\ UNCHANGED <<keyed, updates>>

\* A call fails.  The purge of a file that is gone is not guarded: its failure
\* fails the run, and the record refuses queries.
CallFails ==
  /\ Fails(AgendaAfter)
  /\ ready' = (ready /\ \E c \in ToSet(agenda) : c.version # 0)
  /\ UNCHANGED query

\* The process ends in the middle of an update, and with it the query.  The
\* record refuses queries until another run starts.
Stop ==
  /\ Fails(<<>>)
  /\ ready' = FALSE /\ query' = NoQuery

\* A reader that meets a file between truncation and write sees an empty
\* store.
ReadsOf(store) ==
  {stored[store]}
    \cup IF agenda # <<>> /\ Head(agenda).store = store THEN {Nowhere} ELSE {}

------------------------------------------------------------------------------
\* A query.  reads: the reads ahead of it, set after set, those of one set in
\* any order (Promise.all).  saw: the versions each read found.  disturbed
\* (history): an update was in progress at some time since the query began.

ReadStore == [start |-> "symbols", end |-> "symbols", symbols |-> "symbols",
              facts |-> "derived", canonical |-> "canonical"]
ReadsAhead(command) ==
  CASE command.kind = "trace" ->
         <<{"facts", "start"} \cup IF command.to = NoAnchor THEN {}
                                   ELSE {"end"}>>
    [] command.kind = "entrypoints" -> <<{"canonical", "symbols"}>>
    [] OTHER -> <<{"start"}, {"facts"}>>

Asked(command) ==
  [pc |-> "read", command |-> command, reads |-> ReadsAhead(command),
   saw |-> [r \in DOMAIN ReadStore |-> Nowhere], trace |-> NoTrace,
   disturbed |-> agenda # <<>>]

\* The check of the status record, which every query begins with.
Ask(command) ==
  /\ query.pc = "idle" /\ ready
  /\ query' = Asked(command)
  /\ UNCHANGED index

\* What the reads so far stand for.
Facts(q) == Listed("derived", q.saw.facts)
FoundBy(q, anchor, read) ==
  ResolveAnalysisAnchor(anchor, Stored("symbols", q.saw[read]))
Start(q) == IF q.command.kind = "symbol"
            THEN LookupSymbol(Stored("symbols", q.saw.start),
                              q.command.from.path, q.command.from.name)
            ELSE FoundBy(q, q.command.from, "start")
StartAnchor(q) == Resolved(q.command.from, Start(q))
EndAnchor(q) == IF q.command.to = NoAnchor THEN NoAnchor
                ELSE Resolved(q.command.to, FoundBy(q, q.command.to, "end"))

\* Where the query goes when a read has been made: an anchor that is not found,
\* or is ambiguous, fails it.
Lookups(q, read) ==
  CASE read = "start" -> Start(q).outcome
    [] read = "end" -> FoundBy(q, q.command.to, "end").outcome
    [] OTHER -> "found"
AfterRead(q, read) ==
  IF Lookups(q, read) # "found" THEN [q EXCEPT !.pc = "failed"]
  ELSE IF q.reads # <<>> THEN q
  ELSE IF q.command.kind = "trace"
  THEN [q EXCEPT !.pc = "trace",
                 !.trace.queue = <<[anchor |-> StartAnchor(q), depth |-> 0]>>]
  ELSE [q EXCEPT !.pc = "answered"]

Read(read) ==
  /\ query.pc = "read" /\ read \in Head(query.reads)
  /\ \E versions \in ReadsOf(ReadStore[read]) :
       LET left == Head(query.reads) \ {read}
           q == [query EXCEPT !.saw[read] = versions,
                   !.reads = IF left = {} THEN Tail(@)
                             ELSE <<left>> \o Tail(@)]
       IN query' = AfterRead(q, read)
  /\ UNCHANGED index

------------------------------------------------------------------------------
\* Tracing.

InferAnchorKind(edgeKind) ==
  CASE edgeKind = "file-imports-file" -> "file"
    [] edgeKind = "file-imports-package" -> "package"
    [] edgeKind \in {"workflow-runs-package-script-candidate",
                     "workflow-contains-job"} -> "workflow"
    [] edgeKind = "job-runs-step" -> "task"
    [] edgeKind \in Gates -> "quality_gate"
    [] edgeKind = "config-selects-entrypoint-candidate" -> "config_artifact"
    [] OTHER -> "symbol"

\* The fact of an edge: one with its kind and evidence, the last in the order
\* of the store; an edge without one stands for itself.
RelationOf(q, edge) ==
  LET facts == {f \in Stored("derived", q.saw.facts) :
                  f.kind = edge.kind /\ f.evidenceId = edge.evidenceId}
  IN IF facts # {} THEN CHOOSE f \in facts : TRUE
     ELSE [path |-> edge.path, from |-> edge.ends[1], to |-> edge.ends[2]]

\* toResolvedAnchor: the end opposite to the one with the id of the node; if
\* no end has that id, the one the edge leads to.
NextAnchor(q, edge, id) ==
  LET relation == RelationOf(q, edge)
      matched == DetectRelationEndpointMatch(relation,
                                             Anchor("symbol", id, id, ""))
      ahead == IF edge.fromNodeId = id THEN relation.to ELSE relation.from
      kind == IF ahead.kind \in AnchorKinds THEN ahead.kind
              ELSE InferAnchorKind(edge.kind)
  IN IF matched # "none" THEN MapOppositeRelationAnchor(relation, matched)
     ELSE Anchor(kind, ahead.label, ahead.id, relation.path)

MatchesDirection(edge, id, direction) ==
  \/ direction # "backward" /\ edge.fromNodeId = id
  \/ direction # "forward" /\ edge.toNodeId = id

\* The steps from an anchor over the edges that a read of the graph found.
\* Their order, by what they lead to and then by hash, is left open.
TraversalSteps(q, anchor, versions) ==
  LET edges == {e \in FlowEdges(versions, keyed, q.command.include) :
                  MatchesDirection(e, anchor.id, q.command.direction)}
      Of(e) == [edge |-> e.id, from |-> anchor.id,
                next |-> NextAnchor(q, e, anchor.id)]
  IN {Of(e) : e \in edges}

\* Variant: the depth budget admits one segment too many.
SpentLate(t, command) ==
  \/ Cardinality(t.segments) > command.maxDepth
  \/ Cardinality(t.nodes) >= command.maxNodes

\* The budgets that a new segment may use up: the depth budget is one of
\* segments here.
Spent(t, command) ==
  \/ Cardinality(t.segments) >= command.maxDepth
  \/ Cardinality(t.nodes) >= command.maxNodes

\* What one step does to the trace t: an edge is taken once, the target ends
\* the trace, and so does a budget that is used up; else the trace goes on
\* from the next anchor, if it has not been there.
Taken(t, step, depth, command, end) ==
  LET u == [t EXCEPT !.edges = @ \cup {step.edge},
                     !.segments = @ \cup {[edge |-> step.edge,
                       from |-> step.from, to |-> step.next.id]}]
  IN IF t.stop # "no" \/ step.edge \in t.edges THEN t
     ELSE IF end # NoAnchor /\ AnchorsEquivalent(step.next, end)
     THEN [u EXCEPT !.stop = "reached"]
     ELSE IF Spent(u, command) THEN [u EXCEPT !.stop = "truncated"]
     ELSE IF step.next.id \in u.nodes THEN u
     ELSE [u EXCEPT !.queue =
             Append(@, [anchor |-> step.next, depth |-> depth + 1])]

\* One round of the loop: the head of the queue is dropped beyond the depth,
\* and expanded if the nodes are within the budget.  These are the traces that
\* it may lead to: After takes some of the steps, in any order.
Expanded(q, versions) ==
  LET current == Head(q.trace.queue)
      t == [q.trace EXCEPT !.queue = Tail(@)]
      from == [t EXCEPT !.nodes = @ \cup {current.anchor.id}]
      After[some \in SUBSET TraversalSteps(q, current.anchor, versions)] ==
        IF some = {} THEN {from}
        ELSE UNION {{Taken(u, last, current.depth, q.command, EndAnchor(q))
                       : u \in After[some \ {last}]} : last \in some}
  IN IF current.depth >= q.command.maxDepth THEN {t}
     ELSE IF Cardinality(t.nodes) >= q.command.maxNodes
     THEN {[t EXCEPT !.stop = "truncated"]}
     ELSE After[TraversalSteps(q, current.anchor, versions)]

Tracing == query.pc = "trace" /\ query.trace.stop = "no"
              /\ query.trace.queue # <<>>

\* Variant: the head of the queue is looked at and not taken off.
HopPeeks ==
  /\ Tracing
  /\ \E versions \in ReadsOf("graph") : \E t \in Expanded(query, versions) :
       query' = [query EXCEPT !.trace = [t EXCEPT !.queue = query.trace.queue]]
  /\ UNCHANGED index

Hop ==
  /\ Tracing
  /\ \E versions \in ReadsOf("graph") : \E t \in Expanded(query, versions) :
       query' = [query EXCEPT !.trace = t]
  /\ UNCHANGED index

\* The time budget is looked at before each round.
TimeOut ==
  /\ Tracing
  /\ query' = [query EXCEPT !.trace.stop = "truncated"]
  /\ UNCHANGED index

\* The trace ends with its queue, at its target, or by a budget.
EndTrace ==
  /\ query.pc = "trace" /\ ~Tracing
  /\ query' = [query EXCEPT !.pc = "answered"]
  /\ UNCHANGED index

\* The answer, or the failure, is returned; another query may come.
Return ==
  /\ query.pc \in {"answered", "failed"}
  /\ query' = NoQuery
  /\ UNCHANGED index

\* determineCompleteness
Completeness(q) ==
  CASE q.trace.stop = "truncated" -> "truncated"
    [] q.trace.stop = "reached" -> "complete"
    [] OTHER -> IF q.command.to # NoAnchor /\ q.trace.segments # {}
                THEN "ambiguous" ELSE "partial"

------------------------------------------------------------------------------
\* Queries come when an index has been built.
Init ==
  /\ stored = [s \in Stores |-> [p \in Paths |-> 1]]
  /\ agenda = <<>> /\ failed = {}
  /\ ready = TRUE
  /\ keyed \in {"hashed", "ends"}
  /\ query = NoQuery
  /\ updates = 0 /\ faults = 0

Next ==
  \/ SourceChanges \/ StoreCall \/ CallFails \/ Stop
  \/ \E p \in Paths : \E v \in Versions(p) : StartUpdate(p, v)
  \/ \E command \in Commands : Ask(command)
  \/ \E read \in DOMAIN ReadStore : Read(read)
  \/ Hop \/ TimeOut \/ EndTrace \/ Return

Spec == Init /\ [][Next]_vars

\* A query that has begun goes on: its reads return.
Fairness == WF_vars((\E read \in DOMAIN ReadStore : Read(read))
                      \/ Hop \/ EndTrace)
FairSpec == Spec /\ Fairness

------------------------------------------------------------------------------
\* What an index run stores.

\* A graph has the nodes its edges name.
Closed(graph) ==
  \A e \in graph.edges :
    {e.fromNodeId, e.toNodeId} \subseteq {n.id : n \in graph.nodes}

\* The fact f is an edge between the nodes of its two ends.
InGraph(f, graph) ==
  \E e \in graph.edges :
    /\ e.kind = f.kind
    /\ \E n \in graph.nodes : n.id = e.fromNodeId /\ f.from.id \in n.values
    /\ \E m \in graph.nodes : m.id = e.toNodeId /\ f.to.id \in m.values

InOverlay(f, overlay) ==
  /\ {f.from.id, f.to.id} \subseteq overlay.nodes
  /\ \E e \in overlay.edges : <<e.fromId, e.toId>> = <<f.from.id, f.to.id>>

\* No call for the file is under way, and the last ones of the facts and of
\* store s were carried out.
Whole(s, p) == /\ \A c \in ToSet(agenda) : c.path # p
               /\ {<<"derived", p>>, <<s, p>>} \cap failed = {}

\* Flow is traced over the graph, impact and slices over the facts: both tell
\* of the same relations.  The graph stored of a file is whole at any time, and
\* when no update of the file is in progress it, and the overlays, hold every
\* derived fact, under ids that keep different relations apart; unless one of
\* the last writes failed, which the run swallows, or the process ended before
\* it.  A later update of the file makes up for that.
GraphHoldsFacts ==
  \A p \in Paths :
    LET graph == Table[p][stored.graph[p]].graph
        facts == Table[p][stored.derived[p]].derived
        overlays == Table[p][stored.overlays[p]].overlays
    IN /\ Closed(graph)
       /\ Whole("graph", p) => \A f \in facts : InGraph(f, graph)
       /\ Whole("overlays", p) =>
            \A f \in facts : \A k \in DOMAIN OverlayKinds :
              f.kind \in OverlayKinds[k] => InOverlay(f, overlays[k])

\* Two use cases look symbols up by name, each with a ranking of its own: for a
\* name in a file they find the same one, or none, or agree that there are
\* several.  And both tell of the same calls, under opposite names: get_symbol
\* lists as callers the relations from the symbol, which analyze_impact has as
\* its callees, and as callees those to it.
SymbolsAgree ==
  \A s \in Stored("symbols", stored.symbols) :
    LET symbols == Stored("symbols", stored.symbols)
        facts == Listed("derived", stored.derived)
        lookup == LookupSymbol(symbols, s.path, s.name)
        anchor == Anchor("symbol", s.name, None, s.path)
        found == ResolveAnalysisAnchor(anchor, symbols)
        Impact(mode) ==
          ImpactMatches(facts, Resolved(anchor, found),
                        [mode |-> mode, confidenceMin |-> 0])
        told == GetSymbol(facts, lookup.id)
    IN /\ lookup.id = found.id
       /\ lookup.outcome = "found" =>
            /\ ToSet(told.callers) = ToSet(Impact("callees"))
            /\ ToSet(told.callees) = ToSet(Impact("callers"))

------------------------------------------------------------------------------
\* What queries answer.

Answered(kind) == query.pc = "answered" /\ query.command.kind = kind

\* The facts that touch the anchor in the direction, by the ids and labels of
\* their ends.
Ends(facts, anchor, direction) ==
  LET Is(e) == AnchorsEquivalent(anchor, RelationAnchor(e))
  IN {f \in ToSet(facts) :
        \/ direction # "backward" /\ Is(f.from)
        \/ direction # "forward" /\ Is(f.to) /\ ~Is(f.from)}

\* An answer that leaves something out says so: impacts and slices are marked
\* as truncated, a slice within a limit of files has that many, and a list of
\* entry points is as long as its limit.
CutReported ==
  LET c == query.command
      Relevant(direction, kinds) ==
        {f \in Ends(Facts(query), StartAnchor(query), direction) :
           f.kind \in kinds}
  IN /\ Answered("impact") =>
          LET answer == AnalyzeImpact(Facts(query), StartAnchor(query), c)
              all == {f \in Relevant(ModeToDirection(c.mode),
                                     ModeRelationKinds[c.mode]) :
                        f.confidence >= c.confidenceMin}
          IN all # ToSet(answer.facts) => answer.truncated
     /\ Answered("slice") =>
          LET answer == ComputeSlice(Facts(query), StartAnchor(query), c)
              all == {f \in Ends(Facts(query), StartAnchor(query), c.direction) :
                        RelationUsesInclude(f.kind, c.include)}
          IN all # ToSet(answer.facts) =>
               \/ answer.truncated
               \/ Cardinality({f.path : f \in ToSet(answer.facts)}) = c.maxFiles
     /\ Answered("entrypoints") =>
          LET entries == Entrypoints(Listed("canonical", query.saw.canonical),
                           Stored("symbols", query.saw.symbols), c)
              answer == DetectEntrypoints(
                          Listed("canonical", query.saw.canonical),
                          Stored("symbols", query.saw.symbols), c)
          IN \/ Len(answer) = c.limit
             \/ \A e \in ToSet(entries) : \E a \in ToSet(answer) :
                  <<a.kind, a.path, a.name>> = <<e.kind, e.path, e.name>>

\* The budgets of a trace are hit with a report of it: anchors waiting in its
\* queue are within the depth, so that none is dropped without a word.
NothingDropped ==
  \A i \in DOMAIN query.trace.queue :
    query.trace.queue[i].depth < query.command.maxDepth

\* What lkg.flow promises, "Trace bounded evidence-backed flow segments from an
\* anchor": a trace that no update disturbs, no budget cuts and that finds no
\* segment starts where no fact of the kinds asked for leads on.
TraceFindsRelations ==
  LET c == query.command
      LeadsOn(f) == \/ c.direction # "backward" /\ f.from.id = StartAnchor(query).id
                    \/ c.direction # "forward" /\ f.to.id = StartAnchor(query).id
  IN (/\ Answered("trace") /\ ~query.disturbed
      /\ query.trace.segments = {} /\ Completeness(query) = "partial") =>
       \A f \in Stored("derived", stored.derived) :
         f.kind \in Included(c.include) => ~LeadsOn(f)

\* A query that has begun is answered or fails, unless the process ends: the
\* loop of the trace ends.
QueryEnds == (query.pc \in {"read", "trace"})
               ~> (query.pc \notin {"read", "trace"})
=============================================================================
