-------------------------- MODULE AnalysisAnchors --------------------------
(***************************************************************************)
(* How a query names what it is about, and how the stored relations are    *)
(* matched with it (analysis-anchor-resolution.ts, list-symbols-use-case.ts *)
(* and the first half of get-symbol-use-case.ts).  An anchor has a kind, a *)
(* name, and possibly an id and a path; `None` and "" are absent ones.     *)
(***************************************************************************)
EXTENDS StructuredFacts

AnchorKinds == {"symbol", "file", "module", "package", "entrypoint",
                "workflow", "task", "quality_gate", "config_artifact"}
Anchor(kind, name, id, path) ==
  [kind |-> kind, name |-> name, id |-> id, path |-> path]
NoAnchor == Anchor("symbol", None, None, "")

\* The kinds that facts and edges carry ("File", "SymbolCandidate", ...) are
\* not anchor kinds: every end of a relation reads as a symbol.
ReadAnchorKind(kind) == IF kind \in AnchorKinds THEN kind ELSE "symbol"
RelationAnchor(e) == Anchor(ReadAnchorKind(e.kind), e.label, e.id, "")

AnchorsEquivalent(a, b) ==
  a.id = b.id \/ <<a.kind, a.name, a.path>> = <<b.kind, b.name, b.path>>

\* Which end of the relation is the anchor: "from" comes first.
DetectRelationEndpointMatch(relation, anchor) ==
  IF AnchorsEquivalent(anchor, RelationAnchor(relation.from)) THEN "from"
  ELSE IF AnchorsEquivalent(anchor, RelationAnchor(relation.to)) THEN "to"
  ELSE "none"

\* The other end, at the path of the relation.
MapOppositeRelationAnchor(relation, matched) ==
  [RelationAnchor(IF matched = "from" THEN relation.to ELSE relation.from)
     EXCEPT !.path = relation.path]

RelationMatchesDirection(matched, direction) ==
  direction = "both" \/ matched = (IF direction = "forward" THEN "from" ELSE "to")

\* Control and data are accepted and add nothing.
RelationUsesInclude(kind, include) ==
  \/ "calls" \in include /\ kind \in {"caller-callee-candidate",
                                     "symbol-references-symbol-candidate"}
  \/ "imports" \in include /\ kind \in {"file-imports-file",
                                       "file-imports-package"}
  \/ "config" \in include /\ kind \in {"config-selects-entrypoint-candidate",
       "file-declares-entrypoint-candidate", "quality-gate-runs-command",
       "quality-gate-runs-script-candidate", "task-runs-command"}

------------------------------------------------------------------------------
\* Which symbol a name stands for.

\* No candidate that an ingestion stores has a signature or a confidence.
InferConfidence(candidate) == 75

\* Outcomes of a lookup: an id, or why there is none.
Found(id, path) == [outcome |-> "found", id |-> id, path |-> path]
Failed(why) == [outcome |-> why, id |-> None, path |-> ""]

\* ranked: candidates with their scores; the first of them, unless a second
\* has the same score.
TopRanked(candidates, Score(_), notFound, ambiguous) ==
  LET best == {c \in candidates : \A d \in candidates : Score(d) <= Score(c)}
  IN CASE candidates = {} -> Failed(notFound)
       [] Cardinality(best) > 1 -> Failed(ambiguous)
       [] OTHER -> LET c == CHOOSE c \in best : TRUE
                   IN Found(c.evidenceId, c.path)

\* toCandidateResult and the ranking of an anchor's candidates.
AnchorScore(candidate, path) ==
  1000 + (IF path = candidate.path THEN 100 ELSE 0) + InferConfidence(candidate)

\* Variant: equal ranks are settled by taking the first candidate.
ResolveNameFirst(anchor, symbols) ==
  LET candidates == {c \in symbols : /\ anchor.path \in {"", c.path}
                                     /\ c.name = anchor.name}
  IN IF candidates = {} THEN Failed("ANCHOR_NOT_FOUND")
     ELSE LET c == CHOOSE c \in candidates : TRUE
          IN Found(c.evidenceId, c.path)

\* A symbol without an id: the store is asked for the path, if there is one.
ResolveName(anchor, symbols) ==
  LET candidates == {c \in symbols : /\ anchor.path \in {"", c.path}
                                     /\ c.name = anchor.name}
  IN TopRanked(candidates, LAMBDA c : AnchorScore(c, anchor.path),
               "ANCHOR_NOT_FOUND", "AMBIGUOUS_ANCHOR")

\* An anchor of another kind, or one with an id, is taken as it is.
ResolveNonSymbolAnchor(anchor) ==
  IF anchor.id # None THEN Found(anchor.id, anchor.path)
  ELSE IF anchor.path # ""
  THEN Found(<<anchor.kind, anchor.path>>, anchor.path)
  ELSE IF anchor.name # None THEN Found(<<anchor.kind>> \o anchor.name, "")
  ELSE Failed("ANCHOR_NOT_FOUND")

ResolveAnalysisAnchor(anchor, symbols) ==
  IF anchor.kind # "symbol" \/ anchor.id # None
  THEN ResolveNonSymbolAnchor(anchor)
  ELSE ResolveName(anchor, symbols)

\* The anchor with what the lookup found.
Resolved(anchor, found) == [anchor EXCEPT !.id = found.id, !.path = found.path]

------------------------------------------------------------------------------
\* ListSymbolsUseCase and the lookup of GetSymbolUseCase.

\* A query matches a name it is part of: of the texts only equality is
\* modelled, and the name or the kind may be it.
MatchesQuery(candidate, query) ==
  query = None \/ query \in {candidate.name, <<candidate.kind>>}

SymbolScore(candidate, path, query) ==
  (IF query = candidate.name THEN 1000 ELSE 0)
    + (IF path = candidate.path THEN 100 ELSE 0) + InferConfidence(candidate)

\* The store filters by path; the results are ranked by their scores.
ListSymbols(symbols, path, query) ==
  {c \in symbols : path \in {"", c.path} /\ MatchesQuery(c, query)}

LookupSymbol(symbols, path, name) ==
  LET exact == {c \in ListSymbols(symbols, path, name) : c.name = name}
  IN TopRanked(exact, LAMBDA c : SymbolScore(c, path, name),
               "SYMBOL_NOT_FOUND", "AMBIGUOUS_SYMBOL")
=============================================================================
