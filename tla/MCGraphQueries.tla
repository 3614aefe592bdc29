--------------------------- MODULE MCGraphQueries ---------------------------
(***************************************************************************)
(* GraphQueries for TLC: a source file with two functions and a class,     *)
(* whose second version has two definitions of one name; a package whose   *)
(* scripts call each other; and a workflow that runs one of them, and whose *)
(* second version runs nothing.                                            *)
(***************************************************************************)
EXTENDS GraphQueries

Block(kind, name, line) == [kind |-> kind, name |-> name, line |-> line]
Code ==
  [Document("a", "code") EXCEPT
     !.blocks = <<Block("function", <<"f">>, 1), Block("function", <<"g">>, 4),
                  Block("class", <<"C">>, 7)>>,
     !.observed = <<[analyzer |-> "ast", evidenceId |-> <<"ast", "f">>,
                     kind |-> "symbol_export", name |-> <<"f">>,
                     symbolKind |-> <<"function">>, command |-> None,
                     scriptName |-> None, confidence |-> 80]>>,
     !.imports = <<[specifier |-> <<"./b">>, isPackage |-> FALSE]>>]
Overloaded ==
  [Code EXCEPT !.blocks = <<Block("function", <<"f">>, 1),
                            Block("function", <<"f">>, 2)>>,
               !.failed = {"ast"}]
Script(name, command, runs) ==
  [name |-> <<name>>, command |-> <<command>>, runs |-> runs]
Package ==
  [Document("package", "config") EXCEPT
     !.packageName = <<"app">>, !.dependencies = <<<<"lib">>>>,
     !.scripts = <<Script("build", "npm run lint", <<"lint">>),
                   Script("lint", "npm run build", <<"build">>)>>,
     !.gates = <<[tool |-> <<"eslint">>, command |-> <<"eslint .">>,
                  scriptName |-> <<"lint">>]>>]
Workflow ==
  [Document("workflow", "config") EXCEPT
     !.steps = <<[name |-> <<"s">>, command |-> <<"npm run build">>,
                  scriptName |-> <<"build">>]>>]

MCDocs == [p \in Paths |->
  CASE p = "a" -> <<Code, Overloaded>>
    [] p = "package" -> <<Package>>
    [] OTHER -> <<Workflow, Document("workflow", "config")>>]

Query(kind, from) ==
  [kind |-> kind, from |-> from, to |-> NoAnchor, direction |-> "forward",
   include |-> {}, maxDepth |-> 2, maxNodes |-> 2, maxFiles |-> 0,
   maxItems |-> 2, mode |-> "all", maxResults |-> 2, confidenceMin |-> 0,
   path |-> "", entryKind |-> "", limit |-> 2]
F == Anchor("symbol", <<"f">>, None, "a")
At(kind, id) == Anchor(kind, id, id, "")
Lint == At("symbol", <<"lint">>)
Started == At("workflow", <<"workflow">>)
Trace(include, from, to, direction, depth, nodes) ==
  [Query("trace", from) EXCEPT !.include = include, !.to = to,
                               !.direction = direction, !.maxDepth = depth,
                               !.maxNodes = nodes]
Traces ==
  {Trace({}, F, NoAnchor, "forward", 1, 9),
   Trace({"calls"}, F, NoAnchor, "backward", 9, 9),
   Trace({}, F, Lint, "both", 9, 3),
   Trace({}, Started, NoAnchor, "forward", 9, 9),
   Trace({}, Started, NoAnchor, "both", 9, 3),
   Trace({}, Started, Lint, "forward", 9, 9),
   Trace({"exports"}, At("file", <<"a">>), F, "forward", 1, 9)}
Impacts ==
  {[Query("impact", F) EXCEPT !.mode = m, !.maxResults = n]
     : m \in {"callers", "all"}, n \in {1, 3}}
Slices ==
  {[Query("slice", from) EXCEPT !.include = {"calls", "config"},
                                !.direction = "both", !.maxFiles = m,
                                !.maxItems = n]
     : from \in {F, Lint}, m \in 0..1, n \in {1, 3}}
Others ==
  {[Query("entrypoints", F) EXCEPT !.limit = n] : n \in {1, 9}}
    \cup {Query("symbol", F)}
MCCommands == Traces \cup Impacts \cup Slices \cup Others

\* Next, with faults beside none or one of the queries.
Few == {NoQuery.command, Query("symbol", F)}
MCNext ==
  \/ SourceChanges \/ StoreCall
  \/ query.command \in Few /\ (CallFails \/ Stop)
  \/ \E p \in Paths : \E v \in Versions(p) : StartUpdate(p, v)
  \/ \E command \in Commands :
       (faults = 0 \/ command \in Few) /\ Ask(command)
  \/ \E read \in DOMAIN ReadStore : Read(read)
  \/ Hop \/ TimeOut \/ EndTrace \/ Return
MCSpec == Init /\ [][MCNext]_vars /\ Fairness
=============================================================================
