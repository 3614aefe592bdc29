-------------------------- MODULE RelationQueries --------------------------
(***************************************************************************)
(* The queries that answer from the stored facts in one pass: impact,      *)
(* slice, entry points and the relations of a symbol.  Facts come as the   *)
(* stores list them: sequences in an order no query controls.              *)
(***************************************************************************)
EXTENDS AnalysisAnchors

\* analyze-impact-use-case.ts

Workflows == {"workflow-runs-package-script-candidate",
              "workflow-contains-job", "job-runs-step"}
Entrances == {"file-declares-entrypoint-candidate",
              "config-selects-entrypoint-candidate"}
Gates == {"quality-gate-runs-command", "quality-gate-runs-script-candidate"}
Imports == {"file-imports-file", "file-imports-package"}
Calls == {"caller-callee-candidate"}
References == {"symbol-references-symbol-candidate"}

ModeRelationKinds ==
  [callers |-> Calls, callees |-> Calls, tests |-> Gates,
   dependents |-> References \cup Imports,
   runtime |-> Workflows \cup {"task-runs-command"} \cup Entrances,
   all |-> Calls \cup References \cup Imports \cup Workflows \cup Gates
             \cup {"task-runs-command"} \cup Entrances]

ModeToDirection(mode) ==
  CASE mode = "callers" -> "backward"
    [] mode = "all" -> "both"
    [] OTHER -> "forward"

\* The records at these positions, in their order.
InOrder(records, positions) ==
  [n \in 1..Cardinality(positions) |->
     records[CHOOSE i \in positions :
               Cardinality({j \in positions : j <= i}) = n]]

\* filter(Test)
Selected(records, Test(_)) ==
  InOrder(records, {i \in DOMAIN records : Test(records[i])})

\* slice(0, n)
Cut(records, n) == SubSeq(records, 1, IF Len(records) < n THEN Len(records)
                                                          ELSE n)

\* The facts an anchor is an end of, in one of the directions asked for.
Touching(facts, anchor, direction) ==
  Selected(facts, LAMBDA f :
    LET matched == DetectRelationEndpointMatch(f, anchor)
    IN matched # "none" /\ RelationMatchesDirection(matched, direction))

ImpactMatches(facts, anchor, command) ==
  Selected(Touching(facts, anchor, ModeToDirection(command.mode)),
            LAMBDA f : /\ f.kind \in ModeRelationKinds[command.mode]
                       /\ f.confidence >= command.confidenceMin)

\* The other ends of the facts, as found.
Opposites(facts, anchor) ==
  [i \in DOMAIN facts |->
     MapOppositeRelationAnchor(facts[i],
       DetectRelationEndpointMatch(facts[i], anchor))]

\* Variant: truncation is only seen once there are more results than fit.
AnalyzeImpactLate(facts, anchor, command) ==
  LET kept == Cut(ImpactMatches(facts, anchor, command), command.maxResults)
  IN [facts |-> kept, anchors |-> Opposites(kept, anchor),
      truncated |-> Len(kept) > command.maxResults]

AnalyzeImpact(facts, anchor, command) ==
  LET kept == Cut(ImpactMatches(facts, anchor, command), command.maxResults)
  IN [facts |-> kept, anchors |-> Opposites(kept, anchor),
      truncated |-> Len(kept) >= command.maxResults]

------------------------------------------------------------------------------
\* compute-slice-use-case.ts

SliceMatches(facts, anchor, command) ==
  Selected(Touching(facts, anchor, command.direction),
            LAMBDA f : RelationUsesInclude(f.kind, command.include))

\* The paths of the first maxFiles files, in the order of the facts; 0 is no
\* limit.  A fact of a file beyond them is dropped.
FilesKept(facts, maxFiles) ==
  {facts[i].path : i \in {i \in DOMAIN facts :
     Cardinality({facts[j].path : j \in 1..i}) <= maxFiles}}
WithinFiles(facts, maxFiles) ==
  IF maxFiles = 0 THEN facts
  ELSE Selected(facts, LAMBDA f : f.path \in FilesKept(facts, maxFiles))

ComputeSlice(facts, anchor, command) ==
  LET kept == Cut(WithinFiles(SliceMatches(facts, anchor, command),
                              command.maxFiles), command.maxItems)
  IN [facts |-> kept, anchors |-> Opposites(kept, anchor),
      truncated |-> Len(kept) >= command.maxItems]

------------------------------------------------------------------------------
\* detect-entrypoints-use-case.ts

MapCanonicalEntrypointKind(kind) ==
  CASE kind = "workflow" -> "workflow"
    [] kind = "package_script" -> "script"
    [] kind = "workspace_task" -> "worker"
    [] kind = "quality_gate" -> "test"
    [] kind \in {"config_artifact", "entrypoint_candidate"} -> "entrypoint"
    [] OTHER -> "none"

\* workflowName, scriptName, taskName, artifactName, tool: the first there is.
EntrypointName(f) ==
  IF f.kind = "quality_gate" /\ f.payload.scriptName # None
  THEN f.payload.scriptName ELSE f.payload.name

\* No ingestion derives file-declares-entrypoint-candidate, the relation of
\* the second loop, so the entry points are those of canonical facts.
Entrypoints(canonical, symbols, command) ==
  LET wanted == Selected(canonical, LAMBDA f :
        LET kind == MapCanonicalEntrypointKind(f.kind)
        IN /\ kind # "none"
           /\ command.path \in {"", f.path}
           /\ f.confidence >= command.confidenceMin
           /\ command.entryKind \in {"", kind})
      Of(f) == [kind |-> MapCanonicalEntrypointKind(f.kind), path |-> f.path,
                name |-> EntrypointName(f), confidence |-> f.confidence,
                evidenceId |-> f.evidenceId,
                hasSymbol |-> \E s \in symbols : s.path = f.path]
  IN [i \in DOMAIN wanted |-> Of(wanted[i])]

\* Of the entry points with one kind, path and name the first stays.
DedupeEntrypoints(entries) ==
  LET Key(e) == <<e.kind, e.path, e.name>>
  IN InOrder(entries, {i \in DOMAIN entries : \A j \in DOMAIN entries :
                         Key(entries[j]) = Key(entries[i]) => i <= j})

\* The surest first.  Those that are equally sure stay as they are: their order
\* by path and name, which no property tells apart, is left out.
ByConfidence(entries) ==
  LET Before(i) == {j \in DOMAIN entries :
        \/ entries[j].confidence > entries[i].confidence
        \/ entries[j].confidence = entries[i].confidence /\ j <= i}
  IN [n \in DOMAIN entries |->
        entries[CHOOSE i \in DOMAIN entries : Cardinality(Before(i)) = n]]

DetectEntrypoints(canonical, symbols, command) ==
  Cut(ByConfidence(DedupeEntrypoints(Entrypoints(canonical, symbols, command))),
      command.limit)

------------------------------------------------------------------------------
\* get-symbol-use-case.ts: what is told of the symbol that the lookup found.

\* callers are the facts with the symbol as fromId, callees as toId.
ToRelations(facts, id, end) ==
  Selected(facts, LAMBDA f :
    f.kind = "caller-callee-candidate"
      /\ (IF end = "fromId" THEN f.from.id ELSE f.to.id) = id)

GetSymbol(facts, id) ==
  [callers |-> ToRelations(facts, id, "fromId"),
   callees |-> ToRelations(facts, id, "toId")]
=============================================================================
