-------------------------- MODULE StructuredFacts --------------------------
(***************************************************************************)
(* What an ingestion extracts from one parsed document: the symbol         *)
(* candidates, the canonical facts, the facts derived from them, the graph *)
(* they project to and the overlays (default-ingestion-pipeline.ts,        *)
(* internal-graph-projector.ts, derived-fact-overlay-builder.ts).          *)
(*                                                                         *)
(* Texts and ids are tuples, so that all of them can be compared: the text *)
(* "f" is <<"f">>, a hashed id is the tuple of what is hashed, and an      *)
(* absent value is <<>>.  Records are sorted by hash in the code, which is *)
(* no order a property could rely on: they are sets here.  Content hashes, *)
(* run ids, extractors and source types travel along unread and are left   *)
(* out; confidences are percentages.                                       *)
(***************************************************************************)
EXTENDS Naturals, Sequences, FiniteSets, SequencesExt

None == <<>>

\* The elements of a set in some fixed order.
Enumerated(S) ==
  LET List[rest \in SUBSET S] ==
        IF rest = {} THEN <<>>
        ELSE LET x == CHOOSE x \in rest : TRUE
             IN <<x>> \o List[rest \ {x}]
  IN List[S]

\* A parsed document.  observed is what its analyzers report, each record with
\* the analyzer it comes from; failed names the analyzers that throw.
Document(path, sourceType) ==
  [path |-> path, sourceType |-> sourceType, blocks |-> <<>>,
   observed |-> <<>>, failed |-> {}, imports |-> <<>>, dependencies |-> <<>>,
   packageName |-> None, scripts |-> <<>>, steps |-> <<>>, gates |-> <<>>]

\* new Map(records.map(r => [key(r), r])): of the records with one key the
\* last stays.
LastPerKey(records, Key(_)) ==
  {records[i] : i \in {i \in DOMAIN records :
     \A j \in DOMAIN records : Key(records[j]) = Key(records[i]) => j <= i}}

\* The same for records in hash order: any one of them stays.
OnePerKey(records, Key(_)) ==
  {CHOOSE r \in records : Key(r) = k : k \in {Key(r) : r \in records}}

------------------------------------------------------------------------------
\* Symbols and observations.

\* One candidate per block whose identity can be inferred; the id holds the
\* lines of the block, so overloads have ids of their own.
Symbols(doc) ==
  IF doc.sourceType # "code" THEN {}
  ELSE {[evidenceId |-> <<doc.path, b.kind>> \o b.name \o <<b.line>>,
         path |-> doc.path, kind |-> b.kind, name |-> b.name, line |-> b.line]
        : b \in {b \in ToSet(doc.blocks) : b.name # None}}

\* A failing analyzer is left out, whatever else is reported stays.
Observations(doc) ==
  LastPerKey(SelectSeq(doc.observed, LAMBDA o : o.analyzer \notin doc.failed),
             LAMBDA o : o.evidenceId)

------------------------------------------------------------------------------
\* Canonical facts.

\* name is the payload field the kind is named by (workflowName, tool, ...),
\* runs the script that the command of a package script calls by `npm run`.
NoPayload == [name |-> None, symbolId |-> None, symbolKind |-> None,
              command |-> None, scriptName |-> None, packageName |-> None,
              isPackage |-> FALSE, runs |-> None]

\* A fact about `key` of the document; factId names what it is about and not
\* where, so that later records replace earlier ones.
Fact(doc, kind, key, evidenceId, confidence, payload) ==
  [factId |-> <<doc.path, kind>> \o key, kind |-> kind, path |-> doc.path,
   evidenceId |-> evidenceId, confidence |-> confidence, payload |-> payload]

\* A fact read off the document itself: its evidence is its own id.
OwnFact(doc, kind, key, confidence, payload) ==
  Fact(doc, kind, key, <<doc.path, kind>> \o key, confidence, payload)

ObservedKinds == {"symbol_export", "workflow", "workflow_step",
                  "quality_gate", "config_artifact", "task"}

\* The facts of symbols, in the order of their lines; two definitions of one
\* kind and name make one fact, which is about the last of them.
DefinitionFacts(doc) ==
  LET inOrder == SortSeq(Enumerated(Symbols(doc)), LAMBDA a, b : a.line < b.line)
      Of(s) == Fact(doc, "symbol_definition", <<s.kind>> \o s.name,
                    s.evidenceId, 100,
                    [NoPayload EXCEPT !.name = s.name,
                       !.symbolId = s.evidenceId, !.symbolKind = <<s.kind>>])
  IN [i \in DOMAIN inOrder |-> Of(inOrder[i])]

\* The facts of observations: a task becomes a workspace_task, a kind the
\* normalizer does not know, or an observation without a name, nothing.
ObservedFacts(doc) ==
  LET known == Enumerated({o \in Observations(doc) :
                             o.kind \in ObservedKinds /\ o.name # None})
      Kind(o) == IF o.kind = "task" THEN "workspace_task" ELSE o.kind
      Has(o, field, kinds) == IF o.kind \in kinds THEN o[field] ELSE None
      Of(o) == Fact(doc, Kind(o), o.name, o.evidenceId, o.confidence,
                 [NoPayload EXCEPT !.name = o.name,
                    !.symbolKind = Has(o, "symbolKind",
                      {"symbol_export", "config_artifact", "task"}),
                    !.command = Has(o, "command",
                      {"workflow_step", "quality_gate", "task"}),
                    !.scriptName = Has(o, "scriptName",
                      {"workflow_step", "quality_gate"})])
  IN [i \in DOMAIN known |-> Of(known[i])]

\* The facts of the document's own lists: imports, dependencies, scripts,
\* steps and gates.  A gate is identified by its command and named by its tool.
ListedFacts(doc) ==
  LET Import(i) == OwnFact(doc, "file_import", i.specifier,
                     IF i.isPackage THEN 95 ELSE 90,
                     [NoPayload EXCEPT !.name = i.specifier,
                                       !.isPackage = i.isPackage])
      Dependency(d) == OwnFact(doc, "package_dependency", d, 100,
                         [NoPayload EXCEPT !.name = d,
                                           !.packageName = doc.packageName])
      Script(s) == OwnFact(doc, "package_script", s.name, 100,
                     [NoPayload EXCEPT !.name = s.name, !.command = s.command,
                       !.packageName = doc.packageName, !.scriptName = s.name,
                       !.runs = s.runs])
      Step(s) == OwnFact(doc, "workflow_step", s.name, 95,
                   [NoPayload EXCEPT !.name = s.name, !.command = s.command,
                                     !.scriptName = s.scriptName])
      Gate(g) == OwnFact(doc, "quality_gate", g.command, 95,
                   [NoPayload EXCEPT !.name = g.tool, !.command = g.command,
                                     !.scriptName = g.scriptName])
      Map(Op(_), list) == [i \in DOMAIN list |-> Op(list[i])]
  IN Map(Import, doc.imports) \o Map(Dependency, doc.dependencies)
       \o Map(Script, doc.scripts) \o Map(Step, doc.steps)
       \o Map(Gate, doc.gates)

CanonicalFacts(doc) ==
  LastPerKey(DefinitionFacts(doc) \o ObservedFacts(doc) \o ListedFacts(doc),
             LAMBDA f : f.factId)

------------------------------------------------------------------------------
\* Derived facts: relations between two ends.

End(kind, id, label) == [kind |-> kind, id |-> id, label |-> label]
Named(kind, id) == End(kind, id, id)
SymbolEnd(s) == End("SymbolCandidate", s.evidenceId, s.name)

Relation(path, kind, evidenceId, confidence, from, to) ==
  [id |-> <<path, kind, from, to>>, kind |-> kind, path |-> path,
   evidenceId |-> evidenceId, confidence |-> confidence,
   from |-> from, to |-> to]

\* createDerivedFact: confidence and evidence are those of the fact.
DerivedFrom(f, kind, from, to) ==
  Relation(f.path, kind, f.evidenceId, f.confidence, from, to)

\* Every two symbols of a file are taken to refer to each other, and two
\* functions to call each other.  The evidence is that of the first: the
\* relations of one symbol share it.
SymbolRelations(doc) ==
  LET pairs == {pair \in Symbols(doc) \X Symbols(doc) :
                  pair[1].evidenceId # pair[2].evidenceId}
      Of(pair, kind, confidence) ==
        Relation(doc.path, kind, pair[1].evidenceId, confidence,
                 SymbolEnd(pair[1]), SymbolEnd(pair[2]))
  IN {Of(pair, "symbol-references-symbol-candidate", 60) : pair \in pairs}
       \cup {Of(pair, "caller-callee-candidate", 55) :
              pair \in {pair \in pairs : \A i \in 1..2 :
                          pair[i].kind = "function"}}

\* What the facts of one file say of symbols, files and packages.
FileRelations(doc, facts) ==
  LET Of(kind) == {f \in facts : f.kind = kind}
      File == Named("File", <<doc.path>>)
      Package(f) == IF f.payload.packageName # None
                    THEN f.payload.packageName ELSE <<doc.path>>
  IN {DerivedFrom(f, "symbol-defined-in-file",
        End("SymbolCandidate", f.payload.symbolId, f.payload.name), File)
        : f \in Of("symbol_definition")}
     \cup {DerivedFrom(f, "symbol-exported-from-file",
             Named("Symbol", f.payload.name), File)
             : f \in Of("symbol_export")}
     \cup {IF f.payload.isPackage
           THEN DerivedFrom(f, "file-imports-package", File,
                            Named("Package", f.payload.name))
           ELSE DerivedFrom(f, "file-imports-file", File,
                            Named("File", f.payload.name))
             : f \in Of("file_import")}
     \cup {DerivedFrom(f, "package-depends-on-package",
             Named("Package", Package(f)), Named("Package", f.payload.name))
             : f \in Of("package_dependency")}

\* Workflows: the job of a step bears the step's name, and the workflow of its
\* file the file's path; a workflow none of these names gets a job of its name.
WorkflowRelations(doc, facts) ==
  LET Of(kind) == {f \in facts : f.kind = kind}
      contained == {DerivedFrom(s, "workflow-contains-job",
                      Named("Workflow", <<doc.path>>),
                      Named("WorkflowJob", s.payload.name))
                      : s \in Of("workflow_step")}
  IN contained
     \cup {DerivedFrom(s, "job-runs-step", Named("WorkflowJob", s.payload.name),
                       Named("WorkflowStep", s.payload.name))
             : s \in Of("workflow_step")}
     \cup {DerivedFrom(s, "workflow-runs-package-script-candidate",
                       Named("WorkflowStep", s.payload.name),
                       Named("PackageScript", s.payload.scriptName))
             : s \in {s \in Of("workflow_step") :
                        s.payload.scriptName # None}}
     \cup {DerivedFrom(w, "workflow-contains-job",
                       Named("Workflow", w.payload.name),
                       Named("WorkflowJob", w.payload.name))
             : w \in {w \in Of("workflow") :
                        \A c \in contained : c.from.id # w.payload.name}}

\* Tasks, quality gates, and scripts that call `npm run`.
CommandRelations(facts) ==
  LET Of(kind) == {f \in facts : f.kind = kind}
      \* String(undefined)
      Command(f) == IF f.payload.command = None THEN <<"undefined">>
                    ELSE f.payload.command
      Runs(f, kind, fromKind, toKind, target) ==
        DerivedFrom(f, kind, Named(fromKind, f.payload.name),
                    Named(toKind, target))
  IN {Runs(f, "task-runs-command", "Task", "Command", f.payload.command)
        : f \in {f \in Of("workspace_task") : f.payload.command # None}}
     \cup {Runs(f, "quality-gate-runs-command", "QualityGate", "Command",
                Command(f)) : f \in Of("quality_gate")}
     \cup {Runs(f, "quality-gate-runs-script-candidate", "QualityGate",
                "PackageScript", f.payload.scriptName)
             : f \in {f \in Of("quality_gate") :
                        f.payload.scriptName # None}}
     \cup {Runs(f, "quality-gate-runs-script-candidate", "PackageScript",
                "PackageScript", f.payload.runs)
             : f \in {f \in Of("package_script") : f.payload.runs # None}}

DerivedFacts(doc) ==
  LET facts == CanonicalFacts(doc)
  IN OnePerKey(SymbolRelations(doc) \cup FileRelations(doc, facts)
                 \cup WorkflowRelations(doc, facts) \cup CommandRelations(facts),
               LAMBDA f : f.id)
=============================================================================
