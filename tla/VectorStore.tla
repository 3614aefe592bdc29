---------------------------- MODULE VectorStore ----------------------------
(***************************************************************************)
(* LanceDbVectorStore (lance-db-vector-store.ts): one instance per process *)
(* for its index run and its searches.  The instance caches promises of    *)
(* the connection and of the table; every await lets the other callers in. *)
(*                                                                         *)
(* The database is external: names of tables, open, create and drop are    *)
(* answered at one point in time each.  A handle of a table that has been  *)
(* dropped or overwritten is stale, and its calls fail.                    *)
(***************************************************************************)
EXTENDS Naturals, FiniteSets

CONSTANTS
  Users,  \* whoever may call the store: index runs and searches
  Paths   \* files, each with its rows

VARIABLES
  table,       \* is there a table
  rows,        \* the paths whose rows it has
  old,         \* does it have an old schema
  connection,  \* connectionPromise: "none", "open" or "rejected"
  cached,      \* tablePromise: the promise, or NoPromise
  promise,     \* promise[i]: see Promise
  op,          \* op[u]: the call of user u: see NoCall
  kept,        \* history: the paths whose rows have been acknowledged
  lost         \* history: those of them that went with a table of old schema
tableVars == <<table, rows, old, connection, cached, promise, op, kept, lost>>

NoPromise == 0
Ids == 1..(Cardinality(Users) + 2)
\* is: "opening", "creating" (from the rows of the paths), or how that ended:
\* "handle", "stale" or "rejected".
Promise(is, of) == [is |-> is, of |-> of]
Rejected == Promise("rejected", {})

\* do: "clear", "delete", "upsert", "search".  pc: "names" (the names of the
\* tables are asked for), "named" (the answer is has), "await" the promise on,
\* "drop", "dropped", and "done" or "failed".  again: which of its calls of
\* getExistingTable an upsert has reached.  found: what a search found.
NoCall == [pc |-> "idle", do |-> "none", path |-> {}, has |-> FALSE,
           on |-> NoPromise, again |-> "no", found |-> {}]
Called(do, path) == [NoCall EXCEPT !.pc = "names", !.do = do, !.path = path]

TableInit ==
  /\ \/ table = FALSE /\ rows = {} /\ old = FALSE
     \/ table = TRUE /\ rows = Paths /\ old \in BOOLEAN
  /\ connection = "none" /\ cached = NoPromise /\ kept = rows /\ lost = {}
  /\ promise = [i \in Ids |-> Rejected]
  /\ op = [u \in Users |-> NoCall]

Steps(u, pc) == op' = [op EXCEPT ![u].pc = pc]

\* An id that nothing refers to; the promises that calls still refer to.
FreeId ==
  CHOOSE i \in Ids : i # cached /\ \A u \in Users : op[u].on # i
Reachable(calls) ==
  [i \in Ids |-> IF i = cached \/ (\E u \in Users : calls[u].on = i)
                 THEN promise[i] ELSE Rejected]

\* getConnection; then the names are answered.
TableNames(u) ==
  /\ op[u].pc = "names"
  /\ connection' = IF connection = "none" THEN "open" ELSE connection
  /\ op' = [op EXCEPT ![u].pc = IF connection = "rejected" THEN "failed"
                                ELSE "named",
                      ![u].has = table]
  /\ UNCHANGED <<table, rows, old, cached, promise, kept, lost>>

\* tablePromise = ..., a new promise, which u awaits.
Promised(u, new, onward) ==
  /\ promise' = [promise EXCEPT ![FreeId] = new]
  /\ cached' = FreeId
  /\ op' = [op EXCEPT ![u] = [onward EXCEPT !.pc = "await", !.on = FreeId]]

\* The rows of the paths have been deleted.
Removed(paths) == kept' = kept \ paths /\ lost' = lost \ paths

\* getExistingTable goes on: without a table a search or delete has nothing to
\* do, an upsert looks once more and creates one.
NoTable(u) ==
  /\ op[u].pc = "named" /\ ~op[u].has /\ op[u].do # "clear"
  /\ CASE op[u].do = "upsert" /\ op[u].again = "no" ->
            /\ op' = [op EXCEPT ![u].pc = "names", ![u].again = "create"]
            /\ UNCHANGED <<cached, promise, kept, lost>>
       [] op[u].do = "upsert" /\ op[u].again = "create" ->
            /\ Promised(u, Promise("creating", op[u].path), op[u])
            /\ UNCHANGED <<kept, lost>>
       [] op[u].do = "upsert" /\ op[u].again = "recreate" ->
            Steps(u, "failed") /\ UNCHANGED <<cached, promise, kept, lost>>
       [] OTHER ->
            /\ Steps(u, "done")
            /\ IF op[u].do = "delete" THEN Removed(op[u].path)
               ELSE UNCHANGED <<kept, lost>>
            /\ UNCHANGED <<cached, promise>>
  /\ UNCHANGED <<table, rows, old, connection>>

\* Variant: the cache is asked before the names of the tables.
CacheFirst(u) ==
  /\ op[u].pc = "named" /\ op[u].do # "clear"
  /\ op[u].has \/ cached # NoPromise
  /\ IF cached = NoPromise THEN Promised(u, Promise("opening", {}), op[u])
     ELSE /\ op' = [op EXCEPT ![u].pc = "await", ![u].on = cached]
          /\ UNCHANGED <<cached, promise>>
  /\ UNCHANGED <<table, rows, old, connection, kept, lost>>

\* tablePromise ??= openTable(...)
HasTable(u) ==
  /\ op[u].pc = "named" /\ op[u].has /\ op[u].do # "clear"
  /\ IF cached = NoPromise THEN Promised(u, Promise("opening", {}), op[u])
     ELSE /\ op' = [op EXCEPT ![u].pc = "await", ![u].on = cached]
          /\ UNCHANGED <<cached, promise>>
  /\ UNCHANGED <<table, rows, old, connection, kept, lost>>

Settled(u, as) == op[u].pc = "await" /\ promise[op[u].on].is \in as
\* The await ends for another kind of call than a search.
Acknowledged(u) ==
  /\ Steps(u, "done")
  /\ IF op[u].do = "delete" THEN Removed(op[u].path)
     ELSE kept' = kept \cup op[u].path /\ lost' = lost \ op[u].path

\* The promise is rejected or of a table that is gone: the call fails, also
\* that of an upsert, whose error does not name the schema.
AwaitFails(u) ==
  /\ Settled(u, {"rejected", "stale"})
  /\ Steps(u, "failed")
  /\ UNCHANGED <<table, rows, old, connection, cached, promise, kept, lost>>

\* The table is created, or was when the upsert looked again.
Created(u) ==
  /\ Settled(u, {"handle"}) /\ op[u].again = "create"
  /\ Acknowledged(u)
  /\ UNCHANGED <<table, rows, old, connection, cached, promise>>

\* The call reaches the database.
UseTable(u) ==
  /\ Settled(u, {"handle"}) /\ op[u].again = "no"
  /\ ~(old /\ op[u].do = "upsert")
  /\ IF op[u].do = "search"
     THEN /\ op' = [op EXCEPT ![u].pc = "done", ![u].found = rows]
          /\ UNCHANGED <<rows, kept, lost>>
     ELSE /\ rows' = IF op[u].do = "delete" THEN rows \ op[u].path
                     ELSE rows \cup op[u].path
          /\ Acknowledged(u)
  /\ UNCHANGED <<table, old, connection, cached, promise>>

\* shouldRecreateTable: the merge of an upsert fails for the schema, and the
\* table is looked up once more.
SchemaDrift(u) ==
  /\ Settled(u, {"handle"}) /\ op[u].again = "no"
  /\ old /\ op[u].do = "upsert"
  /\ op' = [op EXCEPT ![u].pc = "names", ![u].again = "recreate"]
  /\ UNCHANGED <<table, rows, old, connection, cached, promise, kept, lost>>

\* clear with a table, or recreateTable: the table is to be dropped.
StartDrop(u) ==
  /\ \/ op[u].pc = "named" /\ op[u].has /\ op[u].do = "clear"
     \/ Settled(u, {"handle"}) /\ op[u].again = "recreate"
  /\ Steps(u, "drop")
  /\ UNCHANGED <<table, rows, old, connection, cached, promise, kept, lost>>

Stale == [i \in Ids |-> IF promise[i].is = "handle" THEN Promise("stale", {})
                         ELSE promise[i]]
\* A clear means to remove the rows; recreateTable loses them.
DropTable(u) ==
  /\ op[u].pc = "drop"
  /\ table' = FALSE /\ rows' = {} /\ old' = FALSE
  /\ IF op[u].do = "clear" THEN kept' = {} /\ lost' = {}
     ELSE kept' = kept /\ lost' = kept
  /\ promise' = Stale
  /\ Steps(u, "dropped")
  /\ UNCHANGED <<connection, cached>>

\* clear forgets the promise, also when there was nothing to drop.
Forget(u) ==
  /\ op[u].do = "clear"
  /\ \/ op[u].pc = "dropped"
     \/ op[u].pc = "named" /\ ~op[u].has
  /\ cached' = NoPromise
  /\ Steps(u, "done")
  /\ UNCHANGED <<table, rows, old, connection, promise, kept, lost>>

\* Variant: the promise of the new table is not kept.
RecreateUncached(u) ==
  /\ op[u].pc = "dropped" /\ op[u].do = "upsert"
  /\ promise' = [promise EXCEPT ![FreeId] = Promise("creating", op[u].path)]
  /\ op' = [op EXCEPT ![u].pc = "await", ![u].on = FreeId, ![u].again = "create"]
  /\ UNCHANGED <<table, rows, old, connection, cached, kept, lost>>

\* recreateTable creates the table from the rows at hand.
Recreate(u) ==
  /\ op[u].pc = "dropped" /\ op[u].do = "upsert"
  /\ Promised(u, Promise("creating", op[u].path),
              [op[u] EXCEPT !.again = "create"])
  /\ UNCHANGED <<table, rows, old, connection, kept, lost>>

\* The database answers an open or a create (mode overwrite).
OpenTable(i) ==
  /\ promise[i].is = "opening"
  /\ promise' = [promise EXCEPT ![i] = IF table THEN Promise("handle", {})
                                       ELSE Rejected]
  /\ UNCHANGED <<table, rows, old, connection, cached, op, kept, lost>>
CreateTable(i) ==
  /\ promise[i].is = "creating"
  /\ promise' = [Stale EXCEPT ![i] = Promise("handle", {})]
  /\ table' = TRUE /\ old' = FALSE /\ rows' = promise[i].of
  /\ UNCHANGED <<connection, cached, op, kept, lost>>

\* A call of the database fails: the connection, whose promise stays rejected,
\* or the call of one user, or a create.
ConnectFails(u) ==
  /\ op[u].pc = "names" /\ connection = "none"
  /\ connection' = "rejected" /\ Steps(u, "failed")
  /\ UNCHANGED <<table, rows, old, cached, promise, kept, lost>>
CallFails(u) ==
  /\ \/ op[u].pc \in {"names", "drop"}
     \/ Settled(u, {"handle"}) /\ op[u].again = "no"
  /\ Steps(u, "failed")
  /\ UNCHANGED <<table, rows, old, connection, cached, promise, kept, lost>>
CreateFails(i) ==
  /\ promise[i].is = "creating"
  /\ promise' = [promise EXCEPT ![i] = Rejected]
  /\ UNCHANGED <<table, rows, old, connection, cached, op, kept, lost>>

TableStep(u) ==
  \/ TableNames(u) \/ NoTable(u) \/ HasTable(u) \/ AwaitFails(u) \/ Created(u)
  \/ UseTable(u) \/ SchemaDrift(u) \/ StartDrop(u) \/ DropTable(u)
  \/ Forget(u) \/ Recreate(u)
DatabaseStep(i) == OpenTable(i) \/ CreateTable(i)
TableFault == (\E u \in Users : ConnectFails(u) \/ CallFails(u))
                \/ \E i \in Ids : CreateFails(i)

\* The process ends with the calls of all its users.
EndCalls ==
  /\ connection' = "none" /\ cached' = NoPromise
  /\ promise' = [i \in Ids |-> Rejected]
  /\ op' = [u \in Users |-> NoCall]
  /\ UNCHANGED <<table, rows, old, kept, lost>>
=============================================================================
