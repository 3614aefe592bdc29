-------------------------- MODULE GraphProjection --------------------------
(***************************************************************************)
(* The graph and the overlays that the structured facts of one document    *)
(* project to.  Both are written with the path of the document and merged  *)
(* into the stores by path, so a node or an edge of the same id exists     *)
(* once per path.                                                          *)
(***************************************************************************)
EXTENDS StructuredFacts

\* The ids of nodes and edges are hashes of kind and value.
NodeId(kind, id) == <<"node", kind, id>>

\* Variant: edges are told apart by what they connect.
EdgeIdOfEnds(from, kind, to) == <<from, to>>

EdgeId(from, kind, to) == <<from, kind, to>>

Node(id, kind, path, values) ==
  [id |-> id, kind |-> kind, path |-> path, values |-> values]

\* from and to are the ends that the properties of a relation's edge repeat.
Edge(from, kind, to, path, evidenceId, ends) ==
  [id |-> EdgeId(from, kind, to), kind |-> kind, path |-> path,
   evidenceId |-> evidenceId, fromNodeId |-> from, toNodeId |-> to,
   ends |-> ends]

\* The kind of the domain node that a canonical fact represents.
DescriptorKind(f) ==
  CASE f.kind \in {"symbol_definition", "symbol_export"} -> "Symbol"
    [] f.kind = "file_import" ->
         IF f.payload.isPackage THEN "Package" ELSE "File"
    [] f.kind = "package_dependency" -> "Package"
    [] f.kind = "package_script" -> "PackageScript"
    [] f.kind = "workspace_task" -> "Task"
    [] f.kind = "config_artifact" -> "ConfigArtifact"
    [] f.kind = "workflow" -> "Workflow"
    [] f.kind = "workflow_step" -> "WorkflowStep"
    [] f.kind = "quality_gate" -> "QualityGate"

PayloadValues(f) ==
  {f.payload[field] : field \in {"name", "symbolId", "symbolKind", "command",
                                 "scriptName", "packageName"}} \ {None}

\* Symbols: their file defines them.
SymbolNodes(symbols) ==
  {Node(NodeId("File", <<s.path>>), "File", s.path, {<<s.path>>})
     : s \in symbols}
  \cup {Node(NodeId("SymbolCandidate", s.evidenceId), "SymbolCandidate",
             s.path, {s.name, <<s.kind>>}) : s \in symbols}
SymbolEdges(symbols) ==
  {Edge(NodeId("File", <<s.path>>), "DEFINES_CANDIDATE",
        NodeId("SymbolCandidate", s.evidenceId), s.path, s.evidenceId, None)
     : s \in symbols}

\* Canonical facts: each is a node that represents one of the domain.
FactNode(f) == NodeId("CanonicalFact", f.factId)
DomainNode(f) == NodeId(DescriptorKind(f), f.payload.name)
FactNodes(facts) ==
  {Node(FactNode(f), "CanonicalFact", f.path, PayloadValues(f)) : f \in facts}
  \cup {Node(DomainNode(f), DescriptorKind(f), f.path, PayloadValues(f))
          : f \in facts}
FactEdges(facts) ==
  {Edge(FactNode(f), "REPRESENTS", DomainNode(f), f.path, f.evidenceId, None)
     : f \in facts}

\* Derived facts: an edge between the nodes of their ends.
EndNode(e) == NodeId(e.kind, e.id)
RelationNodes(facts) ==
  UNION {{Node(EndNode(e), e.kind, f.path, {e.id, e.label})
            : e \in {f.from, f.to}} : f \in facts}
RelationEdges(facts) ==
  {Edge(EndNode(f.from), f.kind, EndNode(f.to), f.path, f.evidenceId,
        <<f.from, f.to>>) : f \in facts}

\* upsertNode, upsertEdge: derived facts come last, canonical facts before.
Later(earlier, later) ==
  later \cup {r \in earlier : \A l \in later : l.id # r.id}
Project(doc) ==
  LET symbols == Symbols(doc)
      canonical == CanonicalFacts(doc)
      derived == DerivedFacts(doc)
      One(records) == OnePerKey(records, LAMBDA r : r.id)
  IN [nodes |-> Later(Later(One(SymbolNodes(symbols)),
                            One(FactNodes(canonical))),
                      One(RelationNodes(derived))),
      edges |-> Later(Later(SymbolEdges(symbols), One(FactEdges(canonical))),
                      One(RelationEdges(derived)))]

------------------------------------------------------------------------------
\* Overlays: control flow, data flow and dependences, by the kind of relation.
OverlayKinds ==
  [cfg       |-> {"caller-callee-candidate"},
   data_flow |-> {"symbol-references-symbol-candidate"},
   pdg_lite  |-> {"file-imports-file", "file-imports-package",
                  "workflow-runs-package-script-candidate",
                  "quality-gate-runs-script-candidate",
                  "config-selects-entrypoint-candidate"}]

\* An overlay has the nodes its edges name, under raw ids.
Overlay(doc, overlay) ==
  LET facts == {f \in DerivedFacts(doc) : f.kind \in OverlayKinds[overlay]}
  IN [edges |-> {[fromId |-> f.from.id, toId |-> f.to.id, fact |-> f.id]
                   : f \in facts},
      nodes |-> UNION {{f.from.id, f.to.id} : f \in facts}]
=============================================================================
