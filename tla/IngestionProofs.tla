-------------------------- MODULE IngestionProofs --------------------------
(***************************************************************************)
(* Theorems about Ingestion, for any number of paths, contents, batches,   *)
(* edits and failures.  The properties say what the stores hold of settled *)
(* paths; the invariants below say what they hold of the file in progress, *)
(* call by call: what is no longer ahead has been written (WrittenInv), and*)
(* nothing else is there if the rewrite began from nothing (ExactInv).     *)
(*                                                                         *)
(* They are proved from one lemma for each operator and action: the agendas*)
(* that a rebuild, a purge and a rewrite begin with and what is left of    *)
(* them, the effect of a call on the stores, and the effect of an action on*)
(* the fields of the run.  Records and sequences are left to these.        *)
(***************************************************************************)
EXTENDS Ingestion, SequenceTheorems, WellFoundedInduction, TLAPS

-----------------------------------------------------------------------------
(* What the operators and the actions do *)

\* The calls of an agenda, by store and part.
Clear(s) == [do |-> "clear", in |-> s, part |-> 1]
Erase(s) == [do |-> "erase", in |-> s, part |-> 1]
Put(s, k) == [do |-> "put", in |-> s, part |-> k]

\* The stores that a failed structured write leaves alone; the stores that
\* are purged of a file before it is rewritten.
Text == {"vector", "symbols", "observations"}
Purged == Text \cup {"canonical", "derived", "graph"}
\* The parts that a store receives a content in.
Parts(s) == IF s = "vector" THEN 1..Batches ELSE {1}

\* The calls that a rewrite consists of.
Puts == {o \in Op : o.do = "put" /\ o.part \in Parts(o.in)}
FileOps == {Erase(s) : s \in Purged} \cup Range(Embed) \cup Puts

\* Of two calls of a rewrite, x comes before y.
After(x, y) ==
  /\ x # y /\ x # Put("manifest", 1)
  /\ x.do # "erase" => y.do # "erase"
  /\ x.do = "put" /\ x.in \in Structured =>
       y.do = "put" /\ y.in \in Structured \cup {"manifest"}
\* An agenda in an order that a rewrite can have.
Ordered(a) == \A i, j \in 1..Len(a) : i < j => After(a[i], a[j])

\* The calls ahead of the run.
Busy == run.agenda # <<>>
Todo == Range(run.agenda)

\* A file is being rewritten; a stale path is being purged; the sources have
\* been scanned.
Rewriting == run.pc = "file" /\ Busy
Purging == run.pc = "purge" /\ Busy
Scanned == run.pc \in {"file", "purge", "done"}

\* The agenda is the rest of a rebuild's clears, of a purge or of a rewrite.
ControlInv ==
  /\ run.pc \in {"idle", "scan", "done"} => ~Busy
  /\ run.pc = "clear" =>
       Busy /\ run.path = 0 /\ Todo \subseteq {Clear(s) : s \in Stores}
  /\ ~Busy => run.path = 0 /\ run.content = None
  /\ Purging =>
       /\ run.path \in Paths /\ run.content = None
       /\ Todo \subseteq {Erase(s) : s \in Stores \ {"overlay"}}
  /\ Rewriting =>
       /\ run.path \in Paths /\ run.content \in Contents
       /\ Todo \subseteq FileOps /\ Put("manifest", 1) \in Todo
       /\ \A s \in Stores : Erase(s) \in Todo =>
             \A k \in Parts(s) : Put(s, k) \in Todo
       /\ Ordered(run.agenda)
       /\ old => \A k \in 1..Batches : Put("vector", k) \in Todo
-----------------------------------------------------------------------------
(* Agendas *)

\* First picks a path of the set.
LEMMA FirstIsOne ==
  ASSUME NEW S \in SUBSET Paths, S # {}
  PROVE  First(S) \in S
<1>1. S \subseteq Nat
  BY IngestionAssumption DEF Paths
<1> DEFINE R == OpToRel(<, Nat)
<1>2. \E p \in S : \A q \in S : ~ (<<q, p>> \in R)
  <2>1. IsWellFoundedOn(R, Nat)
    BY NatLessThanWellFounded
  <2> QED
    BY <1>1, <2>1, WFMin
<1>3. \A p, q \in S : <<q, p>> \notin R => p <= q
  BY <1>1 DEF OpToRel
<1>4. \E p \in S : \A q \in S : p <= q
  BY <1>2, <1>3
<1> QED
  BY <1>4 DEF First

\* An empty agenda has no calls.
LEMMA EmptyAgenda == Range(<<>>) = {} /\ Ordered(<<>>)
BY DEF Range, Ordered

\* What is left of an agenda after its first call.
LEMMA HeadAndTail ==
  ASSUME NEW a \in Seq(Op), a # <<>>
  PROVE  /\ Head(a) \in Op /\ Tail(a) \in Seq(Op)
         /\ Head(a) \in Range(a)
         /\ Range(a) = {Head(a)} \cup Range(Tail(a))
         /\ Ordered(a) => /\ Ordered(Tail(a))
                          /\ \A y \in Range(Tail(a)) : After(Head(a), y)
<1> DEFINE t == Tail(a)
<1>1. /\ Head(a) = a[1] /\ Head(a) \in Op /\ t \in Seq(Op)
      /\ Len(a) \in Nat /\ Len(a) > 0 /\ Len(t) = Len(a) - 1
      /\ \A i \in 1..Len(t) : t[i] = a[i + 1]
  BY HeadTailProperties
<1>2. Range(a) = {a[i] : i \in 1..Len(a)} /\ Range(t) = {t[i] : i \in 1..Len(t)}
  BY <1>1, RangeEquality
<1> HIDE DEF t
<1>3. Range(a) = {Head(a)} \cup Range(t)
  <2>1. \A i \in 1..Len(a) : i = 1 \/ (i - 1 \in 1..Len(t) /\ a[i] = t[i - 1])
    BY <1>1
  <2>2. \A i \in 1..Len(t) : i + 1 \in 1..Len(a) /\ t[i] = a[i + 1]
    BY <1>1
  <2>3. 1 \in 1..Len(a)
    BY <1>1
  <2> QED
    BY <1>1, <1>2, <2>1, <2>2, <2>3
<1>4. ASSUME Ordered(a)
      PROVE  Ordered(t) /\ \A y \in Range(t) : After(Head(a), y)
  <2>1. Ordered(t)
    BY <1>1, <1>4 DEF Ordered
  <2>2. \A i \in 1..Len(t) : After(a[1], a[i + 1])
    BY <1>1, <1>4 DEF Ordered
  <2> QED
    BY <1>1, <1>2, <2>1, <2>2
<1> QED
  BY <1>1, <1>3, <1>4 DEF t

\* Two agendas, one after the other.
LEMMA Concatenated ==
  ASSUME NEW a \in Seq(Op), NEW b \in Seq(Op)
  PROVE  /\ a \o b \in Seq(Op)
         /\ Range(a \o b) = Range(a) \cup Range(b)
         /\ /\ Ordered(a) /\ Ordered(b)
            /\ \A x \in Range(a), y \in Range(b) : After(x, y)
            => Ordered(a \o b)
<1>1. a \o b \in Seq(Op) /\ Range(a \o b) = Range(a) \cup Range(b)
  BY ConcatProperties, RangeConcatenation
<1>2. ASSUME Ordered(a), Ordered(b),
             \A x \in Range(a), y \in Range(b) : After(x, y)
      PROVE Ordered(a \o b)
  <2>1. /\ Len(a) \in Nat /\ Len(b) \in Nat
        /\ Len(a \o b) = Len(a) + Len(b)
        /\ \A i \in 1..Len(a) : a[i] \in Range(a)
        /\ \A i \in 1..Len(b) : b[i] \in Range(b)
    BY ConcatProperties, LenProperties, RangeEquality
  <2>2. \A i \in 1..Len(a \o b) :
          (a \o b)[i] = IF i <= Len(a) THEN a[i] ELSE b[i - Len(a)]
    OBVIOUS
  <2> SUFFICES ASSUME NEW i \in 1..Len(a \o b), NEW j \in 1..Len(a \o b), i < j
               PROVE After((a \o b)[i], (a \o b)[j])
    BY DEF Ordered
  <2>3. CASE j <= Len(a)
    BY <1>2, <2>1, <2>2, <2>3 DEF Ordered
  <2>4. CASE i > Len(a)
    <3>1. /\ i - Len(a) \in 1..Len(b) /\ j - Len(a) \in 1..Len(b)
          /\ i - Len(a) < j - Len(a)
      BY <2>1, <2>4
    <3> QED
      BY <1>2, <2>1, <2>2, <2>4, <3>1 DEF Ordered
  <2>5. CASE i <= Len(a) /\ j > Len(a)
    <3>1. i \in 1..Len(a) /\ j - Len(a) \in 1..Len(b)
      BY <2>1, <2>5
    <3> QED
      BY <1>2, <2>1, <2>2, <2>5, <3>1
  <2> QED
    BY <2>1, <2>3, <2>4, <2>5
<1> QED
  BY <1>1, <1>2

\* Calls makes one call for each of the stores named.
LEMMA CallsAre ==
  ASSUME NEW names \in Seq(Stores),
         NEW do \in {"clear", "erase", "embed", "put"}
  PROVE  /\ Calls(do, names) \in Seq(Op)
         /\ Len(Calls(do, names)) = Len(names)
         /\ Range(Calls(do, names)) =
              {[do |-> do, in |-> names[i], part |-> 1] : i \in 1..Len(names)}
<1>1. 1 \in 1..Batches
  BY IngestionAssumption
<1>2. Len(names) \in Nat /\ DOMAIN names = 1..Len(names)
      /\ \A i \in 1..Len(names) : names[i] \in Stores
  BY LenProperties, ElementOfSeq
<1>3. \A i \in 1..Len(names) : [do |-> do, in |-> names[i], part |-> 1] \in Op
  BY <1>1, <1>2 DEF Op
<1>4. Calls(do, names) =
        [i \in 1..Len(names) |-> [do |-> do, in |-> names[i], part |-> 1]]
  BY <1>2 DEF Calls
<1> QED
  BY <1>2, <1>3, <1>4 DEF Range

\* A rebuild clears every store.
LEMMA ClearCalls ==
  /\ Calls("clear", ClearOrder) \in Seq(Op)
  /\ Calls("clear", ClearOrder) # <<>>
  /\ Range(Calls("clear", ClearOrder)) = {Clear(s) : s \in Stores}
<1>1. ClearOrder \in Seq(Stores) /\ Len(ClearOrder) = 8
  BY DEF ClearOrder, Stores, Structured
<1>2. Range(Calls("clear", ClearOrder)) = {Clear(s) : s \in Stores}
  <2>1. \A s \in Stores : \E i \in 1..8 : ClearOrder[i] = s
    BY DEF ClearOrder, Stores, Structured
  <2>2. \A i \in 1..8 : ClearOrder[i] \in Stores
    BY <1>1, ElementOfSeq
  <2>3. Range(Calls("clear", ClearOrder)) = {Clear(ClearOrder[i]) : i \in 1..8}
    BY <1>1, CallsAre DEF Clear
  <2> QED
    BY <2>1, <2>2, <2>3
<1> QED
  BY <1>1, <1>2, CallsAre

\* A path that is gone is erased from every store but the overlay store.
LEMMA PurgeCalls ==
  /\ Calls("erase", PurgeOrder) \in Seq(Op)
  /\ Calls("erase", PurgeOrder) # <<>>
  /\ Range(Calls("erase", PurgeOrder)) = {Erase(s) : s \in Stores \ {"overlay"}}
<1>1. PurgeOrder \in Seq(Stores) /\ Len(PurgeOrder) = 7
  BY DEF PurgeOrder, Stores, Structured
<1>2. Range(Calls("erase", PurgeOrder)) =
        {Erase(s) : s \in Stores \ {"overlay"}}
  <2>1. \A s \in Stores \ {"overlay"} : \E i \in 1..7 : PurgeOrder[i] = s
    BY DEF PurgeOrder, Stores, Structured
  <2>2. \A i \in 1..7 : PurgeOrder[i] \in Stores \ {"overlay"}
    BY DEF PurgeOrder, Stores, Structured
  <2>3. Range(Calls("erase", PurgeOrder)) = {Erase(PurgeOrder[i]) : i \in 1..7}
    BY <1>1, CallsAre DEF Erase
  <2> QED
    BY <2>1, <2>2, <2>3
<1> QED
  BY <1>1, <1>2, CallsAre

\* A file that is known is first erased from the stores to be purged.
LEMMA DeleteCalls ==
  /\ Calls("erase", DeleteOrder) \in Seq(Op)
  /\ Range(Calls("erase", DeleteOrder)) = {Erase(s) : s \in Purged}
  /\ Ordered(Calls("erase", DeleteOrder))
<1>1. DeleteOrder \in Seq(Stores) /\ Len(DeleteOrder) = 6
  BY DEF DeleteOrder, Stores, Structured
<1>2. Range(Calls("erase", DeleteOrder)) = {Erase(s) : s \in Purged}
  <2>1. \A s \in Purged : \E i \in 1..6 : DeleteOrder[i] = s
    BY DEF DeleteOrder, Purged, Text
  <2>2. \A i \in 1..6 : DeleteOrder[i] \in Purged
    BY DEF DeleteOrder, Purged, Text
  <2>3. Range(Calls("erase", DeleteOrder)) =
          {Erase(DeleteOrder[i]) : i \in 1..6}
    BY <1>1, CallsAre DEF Erase
  <2> QED
    BY <2>1, <2>2, <2>3
<1>3. Ordered(Calls("erase", DeleteOrder))
  <2>1. \A i, j \in 1..6 : i < j => DeleteOrder[i] # DeleteOrder[j]
    BY DEF DeleteOrder
  <2>2. \A i \in 1..6 : Calls("erase", DeleteOrder)[i] = Erase(DeleteOrder[i])
    BY <1>1 DEF Calls, Erase
  <2>3. \A s, t : s # t => After(Erase(s), Erase(t))
    BY DEF After, Erase, Put
  <2>4. Len(Calls("erase", DeleteOrder)) = 6
    BY <1>1, CallsAre
  <2> QED
    BY <2>1, <2>2, <2>3, <2>4 DEF Ordered
<1> QED
  BY <1>1, <1>2, <1>3, CallsAre

\* Embedding is one call, which is neither an erase nor a put.
LEMMA EmbedCalls ==
  /\ Embed \in Seq(Op) /\ Range(Embed) = {Embed[1]}
  /\ Embed[1].do = "embed"
  /\ Ordered(Embed)
<1>1. 1 \in 1..Batches
  BY IngestionAssumption
<1> QED
  BY <1>1 DEF Embed, Op, Stores, Range, Ordered

\* The vector store receives a file in all its batches.
LEMMA VectorCalls ==
  /\ VectorPuts \in Seq(Op)
  /\ Range(VectorPuts) = {Put("vector", k) : k \in 1..Batches}
  /\ Ordered(VectorPuts)
<1>1. Batches \in Nat
  BY IngestionAssumption
<1>2. \A k \in 1..Batches : Put("vector", k) \in Op
  BY DEF Put, Op, Stores
<1>3. VectorPuts = [k \in 1..Batches |-> Put("vector", k)]
  BY DEF VectorPuts, Put
<1>4. VectorPuts \in Seq(Op) /\ Len(VectorPuts) = Batches
  BY <1>1, <1>2, <1>3
<1>5. \A i, j \in 1..Batches :
        i < j => After(Put("vector", i), Put("vector", j))
  BY <1>1 DEF After, Put, Structured
<1> QED
  BY <1>3, <1>4, <1>5 DEF Range, Ordered

\* The stores, in the order a file is written to them after its chunks.
PutOrder == <<"symbols", "observations", "canonical", "derived", "graph",
              "overlay", "manifest">>

\* Every other store receives a file in one call, the manifest last.
LEMMA PutCalls ==
  /\ Calls("put", PutOrder) \in Seq(Op)
  /\ Range(Calls("put", PutOrder)) = {Put(s, 1) : s \in Stores \ {"vector"}}
  /\ Ordered(Calls("put", PutOrder))
<1>1. PutOrder \in Seq(Stores) /\ Len(PutOrder) = 7
  BY DEF PutOrder, Stores, Structured
<1>2. Range(Calls("put", PutOrder)) = {Put(s, 1) : s \in Stores \ {"vector"}}
  <2>1. \A s \in Stores \ {"vector"} : \E i \in 1..7 : PutOrder[i] = s
    BY DEF PutOrder, Stores, Structured
  <2>2. \A i \in 1..7 : PutOrder[i] \in Stores \ {"vector"}
    BY DEF PutOrder, Stores, Structured
  <2>3. Range(Calls("put", PutOrder)) = {Put(PutOrder[i], 1) : i \in 1..7}
    BY <1>1, CallsAre DEF Put
  <2> QED
    BY <2>1, <2>2, <2>3
<1>3. Ordered(Calls("put", PutOrder))
  <2>1. \A i, j \in 1..7 : i < j =>
          /\ PutOrder[i] # PutOrder[j] /\ PutOrder[i] # "manifest"
          /\ PutOrder[i] \in Structured =>
               PutOrder[j] \in Structured \cup {"manifest"}
    BY DEF PutOrder, Structured
  <2>2. \A i \in 1..7 : Calls("put", PutOrder)[i] = Put(PutOrder[i], 1)
    BY <1>1 DEF Calls, Put
  <2>3. ASSUME NEW s, NEW t, s # t, s # "manifest",
               s \in Structured => t \in Structured \cup {"manifest"}
        PROVE After(Put(s, 1), Put(t, 1))
    BY <2>3 DEF After, Put
  <2>4. Len(Calls("put", PutOrder)) = 7
    BY <1>1, CallsAre
  <2> QED
    BY <2>1, <2>2, <2>3, <2>4 DEF Ordered
<1> QED
  BY <1>1, <1>2, <1>3, CallsAre

\* A rewrite puts every part of the file in every store, and erases a known file
\* before, in an order where text comes before structure and the manifest last.
LEMMA RewriteCalls ==
  ASSUME NEW known \in BOOLEAN
  PROVE  /\ Rewrite(known) \in Seq(Op)
         /\ Rewrite(known) # <<>>
         /\ Range(Rewrite(known)) \subseteq FileOps
         /\ \A s \in Stores : \A k \in Parts(s) :
              Put(s, k) \in Range(Rewrite(known))
         /\ \A s : Erase(s) \in Range(Rewrite(known)) => s \in Purged
         /\ known => \A s \in Purged : Erase(s) \in Range(Rewrite(known))
         /\ Ordered(Rewrite(known))
<1> DEFINE erases == IF known THEN Calls("erase", DeleteOrder) ELSE <<>>
           puts == Calls("put", PutOrder)
           ea == erases \o Embed
           eav == ea \o VectorPuts
<1>1. Rewrite(known) = eav \o puts
  BY DEF Rewrite, PutOrder
<1>2. /\ erases \in Seq(Op) /\ Ordered(erases)
      /\ Range(erases) = IF known THEN {Erase(s) : s \in Purged} ELSE {}
  BY DeleteCalls, EmptyAgenda, EmptySeq
<1> HIDE DEF erases
<1>3. ea \in Seq(Op) /\ Range(ea) = Range(erases) \cup {Embed[1]} /\ Ordered(ea)
  <2>1. \A x \in Range(erases), y \in Range(Embed) : After(x, y)
    BY <1>2, EmbedCalls DEF After, Erase, Put
  <2> QED
    BY <1>2, <2>1, EmbedCalls, Concatenated
<1> HIDE DEF ea
<1>4. /\ eav \in Seq(Op) /\ Ordered(eav)
      /\ Range(eav) = Range(ea) \cup {Put("vector", k) : k \in 1..Batches}
  <2>1. \A x \in Range(ea), y \in Range(VectorPuts) : After(x, y)
    BY <1>2, <1>3, EmbedCalls, VectorCalls DEF After, Erase, Put
  <2> QED
    BY <1>3, <2>1, VectorCalls, Concatenated
<1> HIDE DEF eav
<1>5. /\ Rewrite(known) \in Seq(Op) /\ Ordered(Rewrite(known))
      /\ Range(Rewrite(known)) =
           Range(eav) \cup {Put(s, 1) : s \in Stores \ {"vector"}}
  <2>1. \A x \in Range(eav), y \in Range(puts) : After(x, y)
    <3>1. ASSUME NEW x \in Range(eav), NEW s \in Stores \ {"vector"}
          PROVE After(x, Put(s, 1))
      BY <1>2, <1>3, <1>4, EmbedCalls DEF After, Erase, Put, Structured
    <3> QED
      BY <3>1, PutCalls
  <2> QED
    BY <1>1, <1>4, <2>1, PutCalls, Concatenated
<1>6. Range(Rewrite(known)) =
        Range(erases) \cup {Embed[1]} \cup {Put("vector", k) : k \in 1..Batches}
        \cup {Put(s, 1) : s \in Stores \ {"vector"}}
  BY <1>3, <1>4, <1>5
<1>7. \A s \in Stores : \A k \in Parts(s) : Put(s, k) \in Range(Rewrite(known))
  BY <1>6 DEF Parts
<1>8. ASSUME NEW s, Erase(s) \in Range(Rewrite(known))
      PROVE s \in Purged
  <2>1. Erase(s) \in Range(erases)
    <3>1. Erase(s).do = "erase" /\ \A t, k : Put(t, k).do = "put"
      BY DEF Erase, Put
    <3> QED
      BY <1>6, <1>8, <3>1, EmbedCalls
  <2>2. \A t : Erase(s) = Erase(t) => s = t
    BY DEF Erase
  <2> QED
    BY <1>2, <2>1, <2>2
<1>9. Range(Rewrite(known)) \subseteq FileOps
  <2>1. \A s \in Stores \ {"vector"} : Put(s, 1) \in Puts
    BY IngestionAssumption DEF Puts, Put, Op, Parts
  <2>2. \A k \in 1..Batches : Put("vector", k) \in Puts
    BY DEF Puts, Put, Op, Parts, Stores
  <2> QED
    BY <1>2, <1>6, <2>1, <2>2, EmbedCalls DEF FileOps
<1>10. Rewrite(known) # <<>>
  BY <1>7, EmptyAgenda DEF Stores, Parts
<1> QED
  BY <1>2, <1>5, <1>6, <1>7, <1>8, <1>9, <1>10
-----------------------------------------------------------------------------
(* What a step does *)

\* What a content leaves in a store: at most one piece for each part.
LEMMA YieldIs ==
  ASSUME NEW s \in Stores, NEW c \in Contents \cup {None}
  PROVE  /\ Yield(s, c) \subseteq Pieces
         /\ c = None => Yield(s, c) = {}
         /\ \A x \in Yield(s, c) : x[1] = c /\ x[2] \in Parts(s)
         /\ s # "vector" => Yield(s, c) \subseteq {<<c, 1>>}
<1>1. 1 \in 1..Batches
  BY IngestionAssumption
<1>2. c \in Contents =>
        {c} \X (1..Batches) \subseteq Pieces /\ <<c, 1>> \in Pieces
  BY <1>1 DEF Pieces
<1>3. c \in Contents => c # None
  BY IngestionAssumption
<1>4. CASE c = None
  <2>1. Yield(s, c) = {}
    BY <1>4 DEF Yield
  <2> QED
    BY <1>4, <2>1
<1>5. CASE c # None /\ s = "vector"
  <2>1. Yield(s, c) = {c} \X (1..Batches) /\ Parts(s) = 1..Batches
    BY <1>5 DEF Yield, Parts
  <2> QED
    BY <1>2, <1>5, <2>1
<1>6. CASE c # None /\ s # "vector"
  <2>1. Yield(s, c) \subseteq {<<c, 1>>} /\ Parts(s) = {1}
    BY <1>6 DEF Yield, Parts
  <2> QED
    BY <1>2, <1>6, <2>1
<1> QED
  BY <1>4, <1>5, <1>6

\* What a call of a file or of a purge does: it changes one path of one store,
\* unless the vector table is recreated.
LEMMA Effects ==
  ASSUME TypeOK, NEW op \in Op, NEW p \in Paths, NEW c,
         op.do \in {"embed", "erase", "put"}
  PROVE  /\ DOMAIN Applied(op, p, c) = Stores
         /\ \A s \in Stores : DOMAIN Applied(op, p, c)[s] = Paths
         /\ \A s \in Stores, q \in Paths :
              \/ op.do = "embed" \/ s # op.in
              \/ q # p /\ ~(op.do = "put" /\ op.in = "vector" /\ old)
              => Applied(op, p, c)[s][q] = store[s][q]
         /\ op.do = "erase" => Applied(op, p, c)[op.in][p] = {}
         /\ op.do = "put" /\ ~(op.in = "vector" /\ old) =>
              Applied(op, p, c)[op.in][p] =
                Upserted(op.in, store[op.in][p], c, op.part)
         /\ op.do = "put" /\ op.in = "vector" /\ old =>
              /\ Applied(op, p, c)["vector"][p] = {<<c, op.part>>}
              /\ \A q \in Paths : q # p => Applied(op, p, c)["vector"][q] = {}
<1>1. /\ op.in \in Stores /\ op.part \in 1..Batches /\ "vector" \in Stores
  BY DEF Op, Stores
<1>2. /\ DOMAIN store = Stores
      /\ \A s \in Stores : DOMAIN store[s] = Paths
  BY DEF TypeOK
<1>3. CASE op.do = "embed"
  BY <1>2, <1>3 DEF Applied
<1>4. CASE op.do = "erase"
  BY <1>1, <1>2, <1>4 DEF Applied
<1>5. CASE op.do = "put" /\ op.in = "vector" /\ old
  BY <1>1, <1>2, <1>5 DEF Applied, Nothing
<1>6. CASE op.do = "put" /\ ~(op.in = "vector" /\ old)
  BY <1>1, <1>2, <1>6 DEF Applied
<1> QED
  BY <1>3, <1>4, <1>5, <1>6

\* What a call of a rebuild does.
LEMMA Clears ==
  ASSUME TypeOK, NEW s \in Stores, NEW p, NEW c
  PROVE  Applied(Clear(s), p, c) = [store EXCEPT ![s] = Nothing]
BY DEF Applied, Clear

\* A put leaves pieces in the store.
LEMMA UpsertTypes ==
  ASSUME NEW s \in Stores, NEW held \in SUBSET Pieces, NEW c \in Contents,
         NEW k \in Parts(s)
  PROVE  Upserted(s, held, c, k) \in SUBSET Pieces
<1>1. s = "vector" => <<c, k>> \in Pieces
  BY DEF Parts, Pieces
<1>2. Yield(s, c) \subseteq Pieces
  BY YieldIs
<1> QED
  BY <1>1, <1>2 DEF Upserted

\* A put adds to the vector store,
LEMMA VectorUpsert ==
  ASSUME NEW held, NEW c \in Contents, NEW k
  PROVE  Upserted("vector", held, c, k) = held \cup {<<c, k>>}
BY DEF Upserted

\* replaces what another store holds or has nothing to add,
LEMMA RecordUpsert ==
  ASSUME NEW s \in Stores, s # "vector", NEW held, NEW c \in Contents, NEW k
  PROVE  \/ Upserted(s, held, c, k) = Yield(s, c)
         \/ Yield(s, c) = {} /\ Upserted(s, held, c, k) = held
<1>1. c # None
  BY IngestionAssumption
<1>2. s # "manifest" => Yield(s, c) = IF c \in Barren THEN {} ELSE {<<c, 1>>}
  BY <1>1 DEF Yield
<1> QED
  BY <1>2 DEF Upserted

\* and replaces what the manifest and the overlay store hold.
LEMMA WholeUpsert ==
  ASSUME NEW s \in {"manifest", "overlay"}, NEW held, NEW c, NEW k
  PROVE  Upserted(s, held, c, k) = Yield(s, c)
BY DEF Upserted

\* What a successful call does to the run and to the stores.
LEMMA CallMoves ==
  ASSUME TypeOK, Call
  PROVE  \E op \in Op, t \in Seq(Op) :
           /\ Busy /\ Todo = {op} \cup Range(t)
           /\ Ordered(run.agenda) =>
                Ordered(t) /\ \A y \in Range(t) : After(op, y)
           /\ run'.agenda = t /\ run' \in Runs
           /\ run'.rebuild = run.rebuild /\ run'.calm = run.calm
           /\ run'.previous = run.previous
           /\ run'.left = run.left /\ run'.stale = run.stale
           /\ t = <<>> => /\ run'.path = 0 /\ run'.content = None
                          /\ run'.pc = IF run.pc = "clear" THEN "scan"
                                       ELSE run.pc
           /\ t # <<>> => /\ run'.path = run.path /\ run'.content = run.content
                          /\ run'.pc = run.pc
           /\ store' = Applied(op, run.path, run.content)
           /\ old' = (old /\ ~(op.do \in {"put", "clear"} /\ op.in = "vector"))
           /\ harm \subseteq harm' /\ harm' \subseteq harm \cup {"schema"}
           /\ op.do = "put" /\ op.in = "vector" /\ old => "schema" \in harm'
           /\ disk' = disk /\ edits' = edits /\ faults' = faults
<1> DEFINE op == Head(run.agenda)
           t == Tail(run.agenda)
<1>1. run \in Runs /\ run.agenda \in Seq(Op) /\ Busy
  BY DEF TypeOK, Runs, Call, Busy
<1>2. /\ op \in Op /\ t \in Seq(Op)
      /\ Todo = {op} \cup Range(t)
      /\ Ordered(run.agenda) =>
           Ordered(t) /\ \A y \in Range(t) : After(op, y)
  BY <1>1, HeadAndTail DEF Busy, Todo
<1>3. /\ run' = Onward([run EXCEPT !.agenda = t])
      /\ store' = Applied(op, run.path, run.content)
      /\ old' = (old /\ ~(op.do = "put" /\ op.in = "vector" /\ old)
                     /\ ~(op.do = "clear" /\ op.in = "vector"))
      /\ harm' = harm \cup IF op.do = "put" /\ op.in = "vector" /\ old
                           THEN {"schema"} ELSE {}
      /\ UNCHANGED <<disk, edits, faults>>
  BY DEF Call
<1> HIDE DEF op, t
<1>4. /\ run'.agenda = t /\ run' \in Runs
      /\ run'.rebuild = run.rebuild /\ run'.calm = run.calm
      /\ run'.previous = run.previous
      /\ run'.left = run.left /\ run'.stale = run.stale
      /\ t = <<>> => /\ run'.path = 0 /\ run'.content = None
                     /\ run'.pc = IF run.pc = "clear" THEN "scan" ELSE run.pc
      /\ t # <<>> => /\ run'.path = run.path /\ run'.content = run.content
                     /\ run'.pc = run.pc
  <2>1. CASE t = <<>>
    BY <1>1, <1>2, <1>3, <2>1 DEF Onward, Runs
  <2>2. CASE t # <<>>
    BY <1>1, <1>2, <1>3, <2>2 DEF Onward, Runs
  <2> QED
    BY <2>1, <2>2
<1>5. old' = (old /\ ~(op.do \in {"put", "clear"} /\ op.in = "vector"))
  BY <1>3
<1> QED
  BY <1>1, <1>2, <1>3, <1>4, <1>5

\* A run that is over holds nothing.
LEMMA IdleIs ==
  /\ Idle \in Runs /\ Idle.pc = "idle" /\ ~Idle.rebuild /\ Idle.calm
  /\ Idle.agenda = <<>> /\ Idle.path = 0 /\ Idle.content = None
<1>1. Nothing \in [Paths -> SUBSET Pieces]
  BY DEF Nothing
<1> QED
  BY <1>1 DEF Idle, Runs

\* What StartRun does, field by field; and the other actions likewise.
LEMMA StartMoves ==
  ASSUME StartRun
  PROVE  /\ run.pc \in {"idle", "done"} /\ run' \in Runs
         /\ \/ run'.pc = "scan" /\ ~run'.rebuild /\ run'.agenda = <<>>
            \/ run'.pc = "clear" /\ run'.rebuild
               /\ run'.agenda = Calls("clear", ClearOrder)
         /\ run'.path = 0 /\ run'.content = None
         /\ UNCHANGED <<disk, store, old, edits, faults, harm>>
<1>1. CASE run' = [Idle EXCEPT !.pc = "scan"]
  BY <1>1, IdleIs DEF StartRun, Idle, Runs
<1>2. CASE run' = [Idle EXCEPT !.pc = "clear", !.rebuild = TRUE,
                               !.agenda = Calls("clear", ClearOrder)]
  BY <1>2, IdleIs, ClearCalls DEF StartRun, Idle, Runs
<1> QED
  BY <1>1, <1>2 DEF StartRun

\* What Scan does.
LEMMA ScanMoves ==
  ASSUME TypeOK, Scan
  PROVE  /\ run.pc = "scan" /\ run' \in Runs /\ run'.pc = "file"
         /\ run'.rebuild = run.rebuild /\ run'.calm = run.calm
         /\ run'.previous = store["manifest"]
         /\ run'.left = {p \in Paths : disk[p] # None}
         /\ run'.stale = {p \in Paths : /\ disk[p] = None
                                        /\ store["manifest"][p] # {}}
         /\ run'.path = run.path /\ run'.content = run.content
         /\ run'.agenda = run.agenda
         /\ UNCHANGED <<disk, store, old, edits, faults, harm>>
<1>1. store["manifest"] \in [Paths -> SUBSET Pieces]
  BY DEF TypeOK, Stores
<1> QED
  BY <1>1 DEF TypeOK, Runs, Scan

\* What ParseFile does with the next file.
LEMMA ParseMoves ==
  ASSUME TypeOK, ParseFile
  PROVE  \E p \in run.left :
           /\ run.pc = "file" /\ ~Busy
           /\ run' \in Runs /\ run'.pc = "file"
           /\ run'.rebuild = run.rebuild /\ run'.previous = run.previous
           /\ run'.left = run.left \ {p} /\ run'.stale = run.stale
           /\ \/ disk[p] = None /\ run'.calm = FALSE /\ run'.agenda = <<>>
                 /\ run'.path = run.path /\ run'.content = run.content
              \/ disk[p] # None /\ Unchanged(p, disk[p])
                 /\ run'.calm = run.calm /\ run'.agenda = <<>>
                 /\ run'.path = run.path /\ run'.content = run.content
              \/ disk[p] # None /\ run'.calm = run.calm
                 /\ run'.path = p /\ run'.content = disk[p]
                 /\ run'.agenda = Rewrite(run.previous[p] # {})
           /\ UNCHANGED <<disk, store, old, edits, faults, harm>>
<1> DEFINE p == First(run.left)
           on == [run EXCEPT !.left = @ \ {p}]
<1>1. run \in Runs /\ run.left \subseteq Paths /\ run.left # {}
  BY DEF TypeOK, Runs, ParseFile
<1>2. p \in run.left /\ p \in Paths
  BY <1>1, FirstIsOne
<1>3. /\ run.pc = "file" /\ run.agenda = <<>>
      /\ run' = IF disk[p] = None THEN [on EXCEPT !.calm = FALSE]
                ELSE IF Unchanged(p, disk[p]) THEN on
                ELSE [on EXCEPT !.path = p, !.content = disk[p],
                                !.agenda = Rewrite(run.previous[p] # {})]
      /\ UNCHANGED <<disk, store, old, edits, faults, harm>>
  BY DEF ParseFile
<1> HIDE DEF p
<1>4. /\ disk[p] \in Contents \cup {None}
      /\ Rewrite(run.previous[p] # {}) \in Seq(Op)
  BY <1>2, RewriteCalls DEF TypeOK
<1>5. CASE disk[p] = None
  <2>1. run' = [on EXCEPT !.calm = FALSE]
    BY <1>3, <1>5
  <2> QED
    BY <1>1, <1>2, <1>3, <1>5, <2>1 DEF Runs, Busy
<1>6. CASE disk[p] # None /\ Unchanged(p, disk[p])
  <2>1. run' = on
    BY <1>3, <1>6
  <2> QED
    BY <1>1, <1>2, <1>3, <1>6, <2>1 DEF Runs, Busy
<1>7. CASE disk[p] # None /\ ~Unchanged(p, disk[p])
  <2>1. run' = [on EXCEPT !.path = p, !.content = disk[p],
                          !.agenda = Rewrite(run.previous[p] # {})]
    BY <1>3, <1>7
  <2> DEFINE a == Rewrite(run.previous[p] # {})
  <2>4. a \in Seq(Op)
    BY <1>4
  <2> HIDE DEF a
  <2>2. run' = [on EXCEPT !.path = p, !.content = disk[p], !.agenda = a]
    BY <2>1 DEF a
  <2>3. /\ run' \in Runs /\ run'.pc = "file"
        /\ run'.rebuild = run.rebuild /\ run'.previous = run.previous
        /\ run'.left = run.left \ {p} /\ run'.stale = run.stale
        /\ run'.calm = run.calm
        /\ run'.path = p /\ run'.content = disk[p] /\ run'.agenda = a
    <3>1. disk[p] \in Contents \cup {None} /\ run.pc = "file"
      BY <1>3, <1>4
    <3>2. run.left \ {p} \subseteq Paths
      BY <1>1
    <3> QED
      BY <1>1, <1>2, <2>2, <2>4, <3>1, <3>2 DEF Runs
  <2> QED
    BY <1>2, <1>3, <1>7, <2>3 DEF Busy, a
<1> QED
  BY <1>5, <1>6, <1>7

\* What PurgeStale does with the next stale path.
LEMMA PurgeMoves ==
  ASSUME TypeOK, PurgeStale
  PROVE  \E p \in run.stale :
           /\ run.pc \in {"file", "purge"} /\ ~Busy /\ run.left = {}
           /\ run' \in Runs /\ run'.pc = "purge" /\ run'.path = p
           /\ run'.agenda = Calls("erase", PurgeOrder)
           /\ run'.rebuild = run.rebuild /\ run'.calm = run.calm
           /\ run'.previous = run.previous /\ run'.content = run.content
           /\ run'.left = run.left /\ run'.stale = run.stale \ {p}
           /\ UNCHANGED <<disk, store, old, edits, faults, harm>>
<1> DEFINE p == First(run.stale)
<1>1. run \in Runs /\ run.stale \subseteq Paths /\ run.stale # {}
  BY DEF TypeOK, Runs, PurgeStale
<1>2. p \in run.stale /\ p \in Paths
  BY <1>1, FirstIsOne
<1>3. /\ run.pc \in {"file", "purge"} /\ run.agenda = <<>> /\ run.left = {}
      /\ run' = [run EXCEPT !.pc = "purge", !.stale = @ \ {p}, !.path = p,
                            !.agenda = Calls("erase", PurgeOrder)]
      /\ UNCHANGED <<disk, store, old, edits, faults, harm>>
  BY DEF PurgeStale
<1> HIDE DEF p
<1> QED
  BY <1>1, <1>2, <1>3, PurgeCalls DEF Runs, Busy

\* What Finish does.
LEMMA FinishMoves ==
  ASSUME TypeOK, Finish
  PROVE  /\ run.pc \in {"file", "purge"} /\ ~Busy
         /\ run.left = {} /\ run.stale = {}
         /\ run' \in Runs /\ run'.pc = "done" /\ run'.path = run.path
         /\ run'.agenda = run.agenda /\ run'.content = run.content
         /\ run'.rebuild = run.rebuild /\ run'.calm = run.calm
         /\ run'.previous = run.previous
         /\ run'.left = run.left /\ run'.stale = run.stale
         /\ UNCHANGED <<disk, store, old, edits, faults, harm>>
BY DEF TypeOK, Runs, Finish, Busy

\* What Edit does: a scanned run is no longer calm.
LEMMA EditMoves ==
  ASSUME TypeOK, Edit
  PROVE  /\ run' \in Runs /\ run'.pc = run.pc /\ run'.path = run.path
         /\ run'.agenda = run.agenda /\ run'.content = run.content
         /\ run'.rebuild = run.rebuild /\ run'.previous = run.previous
         /\ run'.left = run.left /\ run'.stale = run.stale
         /\ Scanned => ~run'.calm
         /\ ~Scanned => run'.calm = run.calm
         /\ disk' \in [Paths -> Contents \cup {None}]
         /\ edits' \in 0..MaxEdits
         /\ UNCHANGED <<store, old, faults, harm>>
<1>1. disk' \in [Paths -> Contents \cup {None}]
  BY DEF TypeOK, Edit
<1>2. edits' \in 0..MaxEdits
  BY IngestionAssumption DEF TypeOK, Edit
<1> QED
  BY <1>1, <1>2 DEF TypeOK, Runs, Edit, Scanned

\* A failed call touches no store but its own.
LEMMA FailureIs ==
  ASSUME TypeOK, NEW op \in Op, NEW after \in AfterFailure(op)
  PROVE  /\ after \in [Stores -> [Paths -> SUBSET Pieces]]
         /\ \A s \in Stores : s # op.in => after[s] = store[s]
<1>1. Nothing \in [Paths -> SUBSET Pieces] /\ op.in \in Stores
  BY DEF Nothing, Op
<1> QED
  BY <1>1 DEF AfterFailure, TypeOK

\* What Stop does.
LEMMA StopMoves ==
  ASSUME TypeOK, Stop
  PROVE  /\ run' = Idle /\ faults' \in 0..MaxFaults /\ "text" \in harm'
         /\ harm' = harm \cup {"text"}
         /\ store' \in [Stores -> [Paths -> SUBSET Pieces]]
         /\ UNCHANGED <<disk, old, edits>>
<1>1. faults' \in 0..MaxFaults
  BY IngestionAssumption DEF TypeOK, Stop
<1>2. store' \in [Stores -> [Paths -> SUBSET Pieces]]
  <2>1. CASE run.agenda = <<>>
    BY <2>1 DEF Stop, TypeOK
  <2>2. CASE run.agenda # <<>>
    <3>1. Head(run.agenda) \in Op
      BY <2>2, HeadAndTail DEF TypeOK, Runs
    <3> QED
      BY <2>2, <3>1, FailureIs DEF Stop
  <2> QED
    BY <2>1, <2>2
<1> QED
  BY <1>1, <1>2 DEF Stop

\* What CallFails does.
LEMMA FailureMoves ==
  ASSUME TypeOK, CallFails
  PROVE  \E op \in Op :
           /\ Busy /\ op = Head(run.agenda) /\ store' \in AfterFailure(op)
           /\ run.pc # "file" => run' = Idle
           /\ run.pc = "file" =>
                run' = Onward([run EXCEPT !.calm = FALSE,
                                 !.agenda = IF Swallowed(op) THEN Resume(op)
                                            ELSE <<>>])
           /\ harm' = harm \cup IF run.pc = "file" /\ Swallowed(op)
                                THEN {"structured"} ELSE {"text"}
           /\ faults' \in 0..MaxFaults
           /\ UNCHANGED <<disk, old, edits>>
<1>1. run.agenda # <<>> /\ Head(run.agenda) \in Op
  BY HeadAndTail DEF TypeOK, Runs, CallFails
<1>2. faults' \in 0..MaxFaults
  BY IngestionAssumption DEF TypeOK, CallFails
<1> QED
  BY <1>1, <1>2 DEF CallFails, Swallowed, Busy

\* A failure inside a file: what is left of its agenda.
LEMMA SwallowMoves ==
  ASSUME TypeOK, ControlInv, CallFails, run.pc = "file"
  PROVE  /\ run' \in Runs /\ run'.pc = "file" /\ ~run'.calm
         /\ run'.rebuild = run.rebuild /\ run'.previous = run.previous
         /\ run'.left = run.left /\ run'.stale = run.stale
         /\ \/ /\ run'.agenda = <<>> /\ run'.path = 0 /\ run'.content = None
               /\ "text" \in harm'
            \/ /\ run'.agenda # <<>> /\ run'.path = run.path
               /\ run'.content = run.content
               /\ harm' = harm \cup {"structured"}
               /\ \A s \in Stores \ Structured : store'[s] = store[s]
               /\ Put("manifest", 1) \in Todo' /\ Todo' \subseteq Todo
               /\ Ordered(run'.agenda)
               /\ \A y \in Todo :
                    y.do = "put" /\ y.in \in Structured \cup {"manifest"}
<1>1. PICK op \in Op :
        /\ Busy /\ op = Head(run.agenda) /\ store' \in AfterFailure(op)
        /\ run' = Onward([run EXCEPT !.calm = FALSE,
                            !.agenda = IF Swallowed(op) THEN Resume(op)
                                       ELSE <<>>])
        /\ harm' = harm \cup IF Swallowed(op)
                             THEN {"structured"} ELSE {"text"}
  BY FailureMoves
<1>2. /\ run \in Runs /\ run.agenda \in Seq(Op) /\ Rewriting
      /\ Ordered(run.agenda) /\ Put("manifest", 1) \in Todo
  BY <1>1 DEF TypeOK, Runs, ControlInv, Rewriting
<1>3. /\ Tail(run.agenda) \in Seq(Op)
      /\ Todo = {op} \cup Range(Tail(run.agenda))
      /\ Ordered(Tail(run.agenda))
      /\ \A y \in Range(Tail(run.agenda)) : After(op, y)
  BY <1>1, <1>2, HeadAndTail DEF Busy, Todo
<1>4. CASE ~Swallowed(op)
  <2>1. run' = Onward([run EXCEPT !.calm = FALSE, !.agenda = <<>>])
    BY <1>1, <1>4
  <2>2. <<>> \in Seq(Op)
    BY EmptySeq
  <2>3. run' = [run EXCEPT !.calm = FALSE, !.agenda = <<>>, !.pc = "file",
                           !.path = 0, !.content = None]
    BY <1>2, <2>1 DEF Onward, Runs, Rewriting
  <2>4. "text" \in harm'
    BY <1>1, <1>4
  <2> QED
    BY <1>2, <2>2, <2>3, <2>4 DEF Runs
<1>5. CASE Swallowed(op)
  <2> DEFINE t == Resume(op)
  <2>1. /\ op # Put("manifest", 1)
        /\ Put("manifest", 1) \in Range(Tail(run.agenda))
    BY <1>2, <1>3, <1>5 DEF Swallowed, Put, Structured
  <2>2. /\ t \in Seq(Op) /\ Ordered(t) /\ Put("manifest", 1) \in Range(t)
        /\ Range(t) \subseteq Range(Tail(run.agenda))
    <3>1. CASE op.in \in {"canonical", "derived"}
      <4>1. t = Calls("put", <<"manifest">>)
        BY <3>1 DEF Resume
      <4>2. <<"manifest">> \in Seq(Stores) /\ Len(<<"manifest">>) = 1
        BY DEF Stores
      <4>3. t \in Seq(Op) /\ Len(t) = 1 /\ Range(t) = {Put("manifest", 1)}
        <5> DEFINE names == <<"manifest">>
        <5>1. \A i \in 1..1 : names[i] = "manifest"
          OBVIOUS
        <5>2. names \in Seq(Stores) /\ Len(names) = 1 /\ t = Calls("put", names)
          BY <4>1, <4>2
        <5> HIDE DEF names, t
        <5>3. /\ t \in Seq(Op) /\ Len(t) = 1
              /\ Range(t) = {[do |-> "put", in |-> names[i], part |-> 1]
                               : i \in 1..1}
          BY <5>2, CallsAre
        <5> QED
          BY <5>1, <5>3 DEF Put
      <4>4. Ordered(t)
        BY <4>3 DEF Ordered
      <4> QED
        BY <2>1, <4>3, <4>4
    <3>2. CASE op.in \notin {"canonical", "derived"}
      BY <1>3, <2>1, <3>2 DEF Resume
    <3> QED
      BY <3>1, <3>2
  <2>3. t # <<>>
    BY <2>2, EmptyAgenda
  <2>4. run' = Onward([run EXCEPT !.calm = FALSE, !.agenda = t])
    BY <1>1, <1>5
  <2> HIDE DEF t
  <2>5. run' = [run EXCEPT !.calm = FALSE, !.agenda = t]
    BY <1>2, <2>2, <2>3, <2>4 DEF Onward, Runs
  <2>6. /\ run' \in Runs /\ run'.pc = "file" /\ ~run'.calm
        /\ run'.rebuild = run.rebuild /\ run'.previous = run.previous
        /\ run'.left = run.left /\ run'.stale = run.stale
        /\ run'.agenda = t /\ run'.path = run.path
        /\ run'.content = run.content
    BY <1>2, <2>2, <2>5 DEF Runs
  <2>7. Todo' = Range(t)
    BY <2>6 DEF Todo
  <2>8. \A s \in Stores \ Structured : store'[s] = store[s]
    BY <1>1, <1>5, FailureIs DEF Swallowed
  <2>9. \A y \in Todo : y.do = "put" /\ y.in \in Structured \cup {"manifest"}
    BY <1>3, <1>5 DEF After, Swallowed
  <2> QED
    BY <1>1, <1>3, <1>5, <2>2, <2>3, <2>6, <2>7, <2>8, <2>9
<1> QED
  BY <1>4, <1>5

\* A run with calls ahead of it clears, purges or rewrites.
LEMMA BusyIs ==
  ASSUME TypeOK, ControlInv, Busy
  PROVE  run.pc = "clear" \/ Purging \/ Rewriting
BY DEF TypeOK, Runs, ControlInv, Purging, Rewriting

\* A call of a rebuild empties one more store.
LEMMA ClearCall ==
  ASSUME TypeOK, ControlInv, run.pc = "clear", Call
  PROVE  \E s \in Stores :
           /\ Todo = {Clear(s)} \cup Todo'
           /\ store' = [store EXCEPT ![s] = Nothing]
           /\ old' = (old /\ s # "vector")
           /\ run' \in Runs /\ run'.path = 0
           /\ run'.content \in {run.content, None}
           /\ run'.rebuild = run.rebuild
           /\ Busy' => run'.pc = "clear"
           /\ ~Busy' => /\ run'.pc = "scan" /\ run'.content = None
                        /\ Todo' = {}
           /\ UNCHANGED <<disk, edits, faults>>
           /\ harm \subseteq harm' /\ harm' \subseteq harm \cup {"schema"}
<1>1. PICK op \in Op, t \in Seq(Op) :
        /\ Todo = {op} \cup Range(t)
        /\ run'.agenda = t /\ run' \in Runs
        /\ run'.rebuild = run.rebuild
        /\ t = <<>> => /\ run'.path = 0 /\ run'.content = None
                       /\ run'.pc = IF run.pc = "clear" THEN "scan" ELSE run.pc
        /\ t # <<>> => /\ run'.path = run.path /\ run'.content = run.content
                       /\ run'.pc = run.pc
        /\ store' = Applied(op, run.path, run.content)
        /\ old' = (old /\ ~(op.do \in {"put", "clear"} /\ op.in = "vector"))
        /\ harm \subseteq harm' /\ harm' \subseteq harm \cup {"schema"}
        /\ disk' = disk /\ edits' = edits /\ faults' = faults
  BY CallMoves
<1>2. run.path = 0 /\ Todo \subseteq {Clear(s) : s \in Stores}
  BY DEF ControlInv
<1>3. PICK s \in Stores : op = Clear(s)
  BY <1>1, <1>2
<1>4. store' = [store EXCEPT ![s] = Nothing]
  BY <1>1, <1>3, Clears
<1>5. old' = (old /\ s # "vector")
  BY <1>1, <1>3 DEF Clear
<1>6. Todo' = Range(t) /\ (Busy' <=> t # <<>>)
  BY <1>1 DEF Todo, Busy
<1>7. t = <<>> => Todo' = {}
  BY <1>6, EmptyAgenda
<1> QED
  BY <1>1, <1>2, <1>3, <1>4, <1>5, <1>6, <1>7

\* A call of a purge erases the path from one more store.
LEMMA PurgeCall ==
  ASSUME TypeOK, ControlInv, Purging, Call
  PROVE  \E s \in Stores \ {"overlay"} :
           /\ Todo = {Erase(s)} \cup Todo'
           /\ store' = [store EXCEPT ![s][run.path] = {}]
           /\ store'[s][run.path] = {}
           /\ \A t \in Stores, q \in Paths :
                t # s \/ q # run.path => store'[t][q] = store[t][q]
           /\ old' = old
           /\ run' \in Runs /\ run'.pc = "purge"
           /\ run'.rebuild = run.rebuild /\ run'.calm = run.calm
           /\ run'.previous = run.previous
           /\ run'.left = run.left /\ run'.stale = run.stale
           /\ Busy' => run'.path = run.path /\ run'.content = run.content
           /\ ~Busy' => /\ run'.path = 0 /\ run'.content = None
                        /\ Todo' = {}
           /\ UNCHANGED <<disk, edits, faults>>
           /\ harm \subseteq harm' /\ harm' \subseteq harm \cup {"schema"}
<1>1. PICK op \in Op, t \in Seq(Op) :
        /\ Todo = {op} \cup Range(t)
        /\ run'.agenda = t /\ run' \in Runs
        /\ run'.rebuild = run.rebuild /\ run'.calm = run.calm
        /\ run'.previous = run.previous
        /\ run'.left = run.left /\ run'.stale = run.stale
        /\ t = <<>> => /\ run'.path = 0 /\ run'.content = None
                       /\ run'.pc = IF run.pc = "clear" THEN "scan" ELSE run.pc
        /\ t # <<>> => /\ run'.path = run.path /\ run'.content = run.content
                       /\ run'.pc = run.pc
        /\ store' = Applied(op, run.path, run.content)
        /\ old' = (old /\ ~(op.do \in {"put", "clear"} /\ op.in = "vector"))
        /\ harm \subseteq harm' /\ harm' \subseteq harm \cup {"schema"}
        /\ disk' = disk /\ edits' = edits /\ faults' = faults
  BY CallMoves
<1>2. /\ run.path \in Paths
      /\ Todo \subseteq {Erase(s) : s \in Stores \ {"overlay"}}
  BY DEF ControlInv
<1>3. PICK s \in Stores \ {"overlay"} : op = Erase(s)
  BY <1>1, <1>2
<1>4. op.do = "erase" /\ op.in = s
  BY <1>3 DEF Erase
<1>9. store' = [store EXCEPT ![s][run.path] = {}]
  BY <1>1, <1>4 DEF Applied
<1>5. /\ store'[s][run.path] = {}
      /\ \A t1 \in Stores, q \in Paths :
           t1 # s \/ q # run.path => store'[t1][q] = store[t1][q]
  BY <1>2, <1>9 DEF TypeOK
<1>6. old' = old
  BY <1>1, <1>4 DEF TypeOK
<1>7. Todo' = Range(t) /\ (Busy' <=> t # <<>>) /\ run.pc = "purge"
  BY <1>1 DEF Todo, Busy, Purging
<1>8. t = <<>> => Todo' = {}
  BY <1>7, EmptyAgenda
<1> QED
  BY <1>1, <1>2, <1>3, <1>5, <1>6, <1>7, <1>8, <1>9

\* A call of a rewrite embeds, erases or puts.
LEMMA FileOpIs ==
  ASSUME NEW op \in FileOps
  PROVE  /\ op.do \in {"embed", "erase", "put"}
         /\ op.do = "erase" => op.in \in Purged /\ op = Erase(op.in)
         /\ op.do = "put" => /\ op = Put(op.in, op.part)
                             /\ op.in \in Stores /\ op.part \in Parts(op.in)
<1>1. CASE op \in {Erase(s) : s \in Purged}
  BY <1>1 DEF Erase
<1>2. CASE op \in Range(Embed)
  BY <1>2, EmbedCalls
<1>3. CASE op \in Puts
  BY <1>3 DEF Puts, Put, Op
<1> QED
  BY <1>1, <1>2, <1>3 DEF FileOps

\* A call of a rewrite; the last one writes the manifest.
LEMMA RewriteCall ==
  ASSUME TypeOK, ControlInv, Rewriting, Call
  PROVE  \E op \in FileOps :
           /\ op \in Op
           /\ Todo = {op} \cup Todo' /\ op \notin Todo'
           /\ \A y \in Todo' : After(op, y)
           /\ DOMAIN store' = Stores
           /\ \A s \in Stores : DOMAIN store'[s] = Paths
           /\ \A s \in Stores :
                op.do = "embed" \/ s # op.in =>
                  store'[s][run.path] = store[s][run.path]
           /\ op.do = "erase" => store'[op.in][run.path] = {}
           /\ op.do = "put" /\ ~(op.in = "vector" /\ old) =>
                store'[op.in][run.path] =
                  Upserted(op.in, store[op.in][run.path], run.content, op.part)
           /\ op.do = "put" /\ op.in = "vector" /\ old =>
                /\ "schema" \in harm'
                /\ store'["vector"][run.path] = {<<run.content, op.part>>}
                /\ \A q \in Paths \ {run.path} : store'["vector"][q] = {}
           /\ \A s \in Stores, q \in Paths \ {run.path} :
                s # "vector" \/ ~old \/ "schema" \notin harm' =>
                  store'[s][q] = store[s][q]
           /\ old' = (old /\ ~(op.do = "put" /\ op.in = "vector"))
           /\ run' \in Runs /\ run'.pc = "file"
           /\ run'.rebuild = run.rebuild /\ run'.calm = run.calm
           /\ run'.previous = run.previous
           /\ run'.left = run.left /\ run'.stale = run.stale
           /\ Busy' <=> op # Put("manifest", 1)
           /\ Busy' => /\ run'.path = run.path /\ run'.content = run.content
                       /\ Ordered(run'.agenda)
           /\ ~Busy' => /\ run'.path = 0 /\ run'.content = None
                        /\ Todo' = {}
           /\ UNCHANGED <<disk, edits, faults>>
           /\ harm \subseteq harm' /\ harm' \subseteq harm \cup {"schema"}
<1>1. PICK op \in Op, t \in Seq(Op) :
        /\ Todo = {op} \cup Range(t)
        /\ Ordered(run.agenda) =>
             Ordered(t) /\ \A y \in Range(t) : After(op, y)
        /\ run'.agenda = t /\ run' \in Runs
        /\ run'.rebuild = run.rebuild /\ run'.calm = run.calm
        /\ run'.previous = run.previous
        /\ run'.left = run.left /\ run'.stale = run.stale
        /\ t = <<>> => /\ run'.path = 0 /\ run'.content = None
                       /\ run'.pc = IF run.pc = "clear" THEN "scan" ELSE run.pc
        /\ t # <<>> => /\ run'.path = run.path /\ run'.content = run.content
                       /\ run'.pc = run.pc
        /\ store' = Applied(op, run.path, run.content)
        /\ old' = (old /\ ~(op.do \in {"put", "clear"} /\ op.in = "vector"))
        /\ harm \subseteq harm' /\ harm' \subseteq harm \cup {"schema"}
        /\ op.do = "put" /\ op.in = "vector" /\ old => "schema" \in harm'
        /\ disk' = disk /\ edits' = edits /\ faults' = faults
  BY CallMoves
<1>2. /\ run.path \in Paths /\ Todo \subseteq FileOps
      /\ Put("manifest", 1) \in Todo /\ Ordered(run.agenda)
  BY DEF ControlInv
<1>3. op \in FileOps /\ op.do \in {"embed", "erase", "put"}
  BY <1>1, <1>2, FileOpIs
<1>4. Todo' = Range(t) /\ (Busy' <=> t # <<>>) /\ run.pc = "file"
  BY <1>1 DEF Todo, Busy, Rewriting
<1>5. Ordered(t) /\ \A y \in Range(t) : After(op, y)
  BY <1>1, <1>2
<1>6. t = <<>> => Todo' = {}
  BY <1>4, EmptyAgenda
<1>7. Busy' <=> op # Put("manifest", 1)
  <2>1. t # <<>> => Head(t) \in Range(t)
    BY <1>1, HeadAndTail
  <2>2. op = Put("manifest", 1) => Range(t) = {}
    BY <1>5 DEF After
  <2> QED
    BY <1>1, <1>2, <1>4, <1>6, <2>1, <2>2
<1>8. op \notin Todo'
  BY <1>4, <1>5 DEF After
<1>9. old' = (old /\ ~(op.do = "put" /\ op.in = "vector"))
  BY <1>1, <1>3
<1>10. /\ DOMAIN store' = Stores
       /\ \A s \in Stores : DOMAIN store'[s] = Paths
       /\ \A s \in Stores, q \in Paths :
            \/ op.do = "embed" \/ s # op.in
            \/ q # run.path /\ ~(op.do = "put" /\ op.in = "vector" /\ old)
            => store'[s][q] = store[s][q]
       /\ op.do = "erase" => store'[op.in][run.path] = {}
       /\ op.do = "put" /\ ~(op.in = "vector" /\ old) =>
            store'[op.in][run.path] =
              Upserted(op.in, store[op.in][run.path], run.content, op.part)
       /\ op.do = "put" /\ op.in = "vector" /\ old =>
            /\ store'["vector"][run.path] = {<<run.content, op.part>>}
            /\ \A q \in Paths : q # run.path => store'["vector"][q] = {}
  <2> DEFINE next == Applied(op, run.path, run.content)
  <2>1. /\ DOMAIN next = Stores
        /\ \A s \in Stores : DOMAIN next[s] = Paths
        /\ \A s \in Stores, q \in Paths :
             \/ op.do = "embed" \/ s # op.in
             \/ q # run.path /\ ~(op.do = "put" /\ op.in = "vector" /\ old)
             => next[s][q] = store[s][q]
    BY <1>2, <1>3, Effects
  <2>2. op.do = "erase" => next[op.in][run.path] = {}
    <3>1. op.in \in DOMAIN store /\ run.path \in DOMAIN store[op.in]
      BY <1>2 DEF TypeOK, Op
    <3> QED
      BY <3>1 DEF Applied
  <2>4. op.do = "put" /\ ~(op.in = "vector" /\ old) =>
          next[op.in][run.path] =
            Upserted(op.in, store[op.in][run.path], run.content, op.part)
    BY <1>2, <1>3, Effects
  <2>5. op.do = "put" /\ op.in = "vector" /\ old =>
          /\ next["vector"][run.path] = {<<run.content, op.part>>}
          /\ \A q \in Paths : q # run.path => next["vector"][q] = {}
    BY <1>2, <1>3, Effects
  <2>3. store' = next
    BY <1>1
  <2> HIDE DEF next
  <2> QED
    BY <2>1, <2>2, <2>3, <2>4, <2>5
<1>11. \A s \in Stores, q \in Paths \ {run.path} :
         s # "vector" \/ ~old \/ "schema" \notin harm' =>
           store'[s][q] = store[s][q]
  BY <1>1, <1>10
<1>12. \A s \in Stores :
         op.do = "embed" \/ s # op.in =>
           store'[s][run.path] = store[s][run.path]
  BY <1>2, <1>10
<1> HIDE DEF Rewriting
<1> QED
  BY <1>1, <1>3, <1>4, <1>5, <1>6, <1>7, <1>8, <1>9, <1>10, <1>11, <1>12
-----------------------------------------------------------------------------
(* The types *)

\* A call of a rewrite leaves pieces in the stores.
LEMMA RewriteTypes ==
  ASSUME TypeOK, ControlInv, Rewriting, Call
  PROVE  store' \in [Stores -> [Paths -> SUBSET Pieces]]
<1>1. PICK op \in FileOps :
        /\ op \in Op
        /\ store' = Applied(op, run.path, run.content)
  <2>1. PICK op \in Op, t \in Seq(Op) :
          /\ Todo = {op} \cup Range(t)
          /\ store' = Applied(op, run.path, run.content)
    BY CallMoves
  <2> QED
    BY <2>1 DEF ControlInv
<1>2. run.path \in Paths /\ run.content \in Contents
  BY DEF ControlInv
<1>3. op.do \in {"embed", "erase", "put"}
  BY FileOpIs
<1>4. CASE op.do = "embed"
  BY <1>1, <1>4 DEF Applied, TypeOK
<1>5. CASE op.do = "erase"
  BY <1>1, <1>2, <1>5 DEF Applied, TypeOK, Op
<1>6. CASE op.do = "put" /\ op.in = "vector" /\ old
  <2>1. Nothing \in [Paths -> SUBSET Pieces]
    BY DEF Nothing
  <2>2. {<<run.content, op.part>>} \in SUBSET Pieces
    BY <1>1, <1>2 DEF Pieces, Op
  <2>3. [Nothing EXCEPT ![run.path] = {<<run.content, op.part>>}]
          \in [Paths -> SUBSET Pieces]
    BY <2>1, <2>2
  <2>4. store' = [store EXCEPT !.vector =
                    [Nothing EXCEPT ![run.path] = {<<run.content, op.part>>}]]
    BY <1>1, <1>6 DEF Applied
  <2> QED
    BY <2>3, <2>4 DEF TypeOK
<1>7. CASE op.do = "put" /\ ~(op.in = "vector" /\ old)
  <2>1. op.in \in Stores /\ op.part \in Parts(op.in)
    BY <1>7, FileOpIs
  <2>2. store[op.in] \in [Paths -> SUBSET Pieces]
    BY <2>1 DEF TypeOK
  <2> DEFINE u == Upserted(op.in, store[op.in][run.path], run.content, op.part)
  <2>3. u \in SUBSET Pieces
    BY <1>2, <2>1, <2>2, UpsertTypes
  <2>4. store' = [store EXCEPT ![op.in][run.path] = u]
    BY <1>1, <1>2, <1>7, <2>1, <2>2 DEF Applied, TypeOK
  <2> HIDE DEF u
  <2> QED
    BY <1>2, <2>1, <2>2, <2>3, <2>4 DEF TypeOK
<1> QED
  BY <1>3, <1>4, <1>5, <1>6, <1>7

\* Every step keeps the types.
LEMMA TypeStep ==
  ASSUME TypeOK, ControlInv, [Next]_vars
  PROVE  TypeOK'
<1>1. SUFFICES /\ store' \in [Stores -> [Paths -> SUBSET Pieces]]
               /\ disk' \in [Paths -> Contents \cup {None}]
               /\ old' \in BOOLEAN /\ run' \in Runs /\ harm' \subseteq Harms
               /\ edits' \in 0..MaxEdits /\ faults' \in 0..MaxFaults
  BY DEF TypeOK
<1>2. harm \subseteq Harms /\ {"text", "structured", "schema"} = Harms
  BY DEF TypeOK, Harms
<1>3. CASE StartRun
  BY <1>3, StartMoves DEF TypeOK
<1>4. CASE Scan
  BY <1>4, ScanMoves DEF TypeOK
<1>5. CASE ParseFile
  BY <1>5, ParseMoves DEF TypeOK
<1>6. CASE PurgeStale
  BY <1>6, PurgeMoves DEF TypeOK
<1>7. CASE Finish
  BY <1>7, FinishMoves DEF TypeOK
<1>8. CASE Edit
  BY <1>8, EditMoves DEF TypeOK
<1>9. CASE Stop
  BY <1>2, <1>9, StopMoves, IdleIs DEF TypeOK
<1>10. CASE CallFails
  <2>1. PICK op \in Op :
          /\ store' \in AfterFailure(op)
          /\ run.pc # "file" => run' = Idle
          /\ harm' = harm \cup IF run.pc = "file" /\ Swallowed(op)
                               THEN {"structured"} ELSE {"text"}
          /\ faults' \in 0..MaxFaults
          /\ UNCHANGED <<disk, old, edits>>
    BY <1>10, FailureMoves
  <2>2. run' \in Runs
    BY <1>10, <2>1, SwallowMoves, IdleIs
  <2>3. harm' \subseteq Harms
    BY <1>2, <2>1
  <2> QED
    BY <2>1, <2>2, <2>3, FailureIs DEF TypeOK
<1>11. CASE Call
  <2>1. Busy
    BY <1>11 DEF Call, Busy
  <2>2. CASE run.pc = "clear"
    <3>1. Nothing \in [Paths -> SUBSET Pieces]
      BY DEF Nothing
    <3> QED
      BY <1>2, <1>11, <2>2, <3>1, ClearCall DEF TypeOK
  <2>3. CASE Purging
    <3>1. PICK s \in Stores \ {"overlay"} :
            /\ store' = [store EXCEPT ![s][run.path] = {}]
            /\ old' = old /\ run' \in Runs
            /\ UNCHANGED <<disk, edits, faults>>
            /\ harm' \subseteq harm \cup {"schema"}
      BY <1>11, <2>3, PurgeCall
    <3>3. run.path \in Paths
      BY <2>3 DEF ControlInv
    <3>4. store' \in [Stores -> [Paths -> SUBSET Pieces]]
      BY <3>1, <3>3 DEF TypeOK
    <3> QED
      BY <1>2, <3>1, <3>4 DEF TypeOK
  <2>4. CASE Rewriting
    <3>1. /\ old' \in BOOLEAN /\ run' \in Runs
          /\ UNCHANGED <<disk, edits, faults>>
          /\ harm' \subseteq harm \cup {"schema"}
      BY <1>11, <2>4, RewriteCall
    <3> QED
      BY <1>2, <1>11, <2>4, <3>1, RewriteTypes DEF TypeOK
  <2> QED
    BY <2>1, <2>2, <2>3, <2>4, BusyIs
<1>12. CASE UNCHANGED vars
  BY <1>12 DEF vars, TypeOK
<1> QED
  BY <1>3, <1>4, <1>5, <1>6, <1>7, <1>8, <1>9, <1>10, <1>11, <1>12 DEF Next


-----------------------------------------------------------------------------
(* The agenda of a run *)

\* A path is ahead, stale or in progress, one at a time.
PathsInv ==
  /\ Scanned => /\ run.left \cap run.stale = {}
                /\ run.path \notin run.left \cup run.stale
  /\ run.pc \in {"purge", "done"} => run.left = {}
  /\ run.pc = "done" => run.stale = {}

\* An idle run keeps the invariant of the agenda.
LEMMA IdleControls ==
  ASSUME run' = Idle
  PROVE  ControlInv'
<1>1. run'.pc = "idle" /\ ~Busy' /\ run'.path = 0 /\ run'.content = None
  BY IdleIs DEF Busy
<1> QED
  BY <1>1 DEF ControlInv, Purging, Rewriting

\* Every step keeps the agenda one that the code can have.
LEMMA ControlStep ==
  ASSUME TypeOK, ControlInv, PathsInv, [Next]_vars
  PROVE  ControlInv'
<1>1. CASE StartRun
  <2>1. CASE run'.pc = "scan" /\ run'.agenda = <<>>
    BY <1>1, <2>1, StartMoves DEF ControlInv, Purging, Rewriting, Busy
  <2>2. CASE run'.pc = "clear" /\ run'.agenda = Calls("clear", ClearOrder)
    <3>1. Busy' /\ Todo' = {Clear(s) : s \in Stores} /\ run'.path = 0
      BY <1>1, <2>2, StartMoves, ClearCalls DEF Busy, Todo
    <3> QED
      BY <2>2, <3>1 DEF ControlInv, Purging, Rewriting
  <2> QED
    BY <1>1, <2>1, <2>2, StartMoves
<1>2. CASE Scan
  <2>1. ~Busy /\ ~Busy' /\ run.path = 0 /\ run.content = None
    BY <1>2, ScanMoves DEF ControlInv, Busy
  <2> QED
    BY <1>2, <2>1, ScanMoves DEF ControlInv, Purging, Rewriting
<1>3. CASE ParseFile
  <2>1. PICK p \in run.left :
          /\ run.pc = "file" /\ ~Busy /\ run' \in Runs /\ run'.pc = "file"
          /\ \/ run'.agenda = <<>>
                /\ run'.path = run.path /\ run'.content = run.content
             \/ disk[p] # None /\ run'.path = p /\ run'.content = disk[p]
                /\ run'.agenda = Rewrite(run.previous[p] # {})
          /\ old' = old
    BY <1>3, ParseMoves
  <2>2. p \in Paths /\ disk[p] \in Contents \cup {None}
    BY <2>1 DEF TypeOK, Runs
  <2>3. CASE run'.agenda = <<>> /\ run'.path = run.path
             /\ run'.content = run.content
    BY <2>1, <2>3 DEF ControlInv, Purging, Rewriting, Busy
  <2>4. CASE disk[p] # None /\ run'.path = p /\ run'.content = disk[p]
             /\ run'.agenda = Rewrite(run.previous[p] # {})
    <3> DEFINE a == Rewrite(run.previous[p] # {})
    <3>1. /\ a # <<>> /\ Range(a) \subseteq FileOps /\ Ordered(a)
          /\ \A s \in Stores : \A k \in Parts(s) : Put(s, k) \in Range(a)
      BY RewriteCalls
    <3>2. run'.agenda = a /\ Todo' = Range(a) /\ Busy'
      BY <2>4, <3>1 DEF Todo, Busy
    <3> HIDE DEF a
    <3>3. \A k \in 1..Batches : Put("vector", k) \in Todo'
      BY <3>1, <3>2 DEF Stores, Parts
    <3>4. Put("manifest", 1) \in Todo'
      BY <3>1, <3>2 DEF Stores, Parts
    <3> QED
      BY <2>1, <2>2, <2>4, <3>1, <3>2, <3>3, <3>4
         DEF ControlInv, Purging, Rewriting
  <2> QED
    BY <2>1, <2>3, <2>4
<1>4. CASE PurgeStale
  <2>1. PICK p \in run.stale :
          /\ ~Busy /\ run' \in Runs /\ run'.pc = "purge" /\ run'.path = p
          /\ run'.agenda = Calls("erase", PurgeOrder)
          /\ run'.content = run.content
    BY <1>4, PurgeMoves
  <2>2. p \in Paths /\ run'.content = None
    BY <2>1 DEF TypeOK, Runs, ControlInv
  <2>3. Busy' /\ Todo' = {Erase(s) : s \in Stores \ {"overlay"}}
    BY <2>1, PurgeCalls DEF Busy, Todo
  <2> QED
    BY <2>1, <2>2, <2>3 DEF ControlInv, Purging, Rewriting
<1>5. CASE Finish
  <2>1. ~Busy /\ ~Busy'
    BY <1>5, FinishMoves DEF Busy
  <2> QED
    BY <1>5, <2>1, FinishMoves DEF ControlInv, Purging, Rewriting
<1>6. CASE Edit
  <2>1. /\ run'.pc = run.pc /\ run'.path = run.path
        /\ run'.agenda = run.agenda /\ run'.content = run.content
        /\ old' = old
    BY <1>6, EditMoves
  <2>2. Busy' = Busy /\ Todo' = Todo
    BY <2>1 DEF Busy, Todo
  <2> QED
    BY <2>1, <2>2 DEF ControlInv, Purging, Rewriting
<1>7. CASE Stop
  BY <1>7, StopMoves, IdleControls
<1>8. CASE CallFails
  <2>1. CASE run.pc # "file"
    BY <1>8, <2>1, FailureMoves, IdleControls
  <2>2. CASE run.pc = "file" /\ run'.agenda = <<>>
    BY <1>8, <2>2, SwallowMoves, EmptyAgenda
       DEF ControlInv, Purging, Rewriting, Busy
  <2>3. CASE run.pc = "file" /\ run'.agenda # <<>>
    <3>1. /\ run'.pc = "file" /\ run'.path = run.path
          /\ run'.content = run.content
          /\ Put("manifest", 1) \in Todo' /\ Todo' \subseteq Todo
          /\ Ordered(run'.agenda)
          /\ \A y \in Todo :
               y.do = "put" /\ y.in \in Structured \cup {"manifest"}
      BY <1>8, <2>3, SwallowMoves
    <3>2. Busy' /\ Rewriting
      BY <1>8, <2>3, FailureMoves DEF Busy, Rewriting
    <3>3. \A s : Erase(s) \notin Todo'
      BY <3>1 DEF Erase
    <3>4. ~old /\ ~old'
      <4>1. Put("vector", 1) \notin Todo
        BY <3>1 DEF Put, Structured
      <4>2. 1 \in 1..Batches
        BY IngestionAssumption
      <4> QED
        BY <1>8, <3>2, <4>1, <4>2 DEF ControlInv, CallFails
    <3> QED
      BY <3>1, <3>2, <3>3, <3>4 DEF ControlInv, Purging, Rewriting
  <2> QED
    BY <2>1, <2>2, <2>3
<1>9. CASE Call
  <2>1. CASE run.pc = "clear"
    <3>1. PICK s \in Stores :
            /\ Todo = {Clear(s)} \cup Todo' /\ run'.path = 0
            /\ Busy' => run'.pc = "clear"
            /\ ~Busy' => run'.pc = "scan" /\ run'.content = None
      BY <1>9, <2>1, ClearCall
    <3> QED
      BY <2>1, <3>1 DEF ControlInv, Purging, Rewriting
  <2>2. CASE Purging
    <3>1. PICK s \in Stores \ {"overlay"} :
            /\ Todo = {Erase(s)} \cup Todo' /\ run'.pc = "purge"
            /\ Busy' => run'.path = run.path /\ run'.content = run.content
            /\ ~Busy' => run'.path = 0 /\ run'.content = None
      BY <1>9, <2>2, PurgeCall
    <3> QED
      BY <2>2, <3>1 DEF ControlInv, Purging, Rewriting
  <2>3. CASE Rewriting
    <3>1. PICK op \in FileOps :
            /\ Todo = {op} \cup Todo' /\ op \notin Todo'
            /\ \A y \in Todo' : After(op, y)
            /\ old' = (old /\ ~(op.do = "put" /\ op.in = "vector"))
            /\ run'.pc = "file"
            /\ Busy' <=> op # Put("manifest", 1)
            /\ Busy' => /\ run'.path = run.path /\ run'.content = run.content
                        /\ Ordered(run'.agenda)
            /\ ~Busy' => run'.path = 0 /\ run'.content = None
      BY <1>9, <2>3, RewriteCall
    <3>2. Busy' => Put("manifest", 1) \in Todo'
      BY <2>3, <3>1 DEF ControlInv
    <3>3. \A s \in Stores : Erase(s) \in Todo' =>
            \A k \in Parts(s) : Put(s, k) \in Todo'
      <4> SUFFICES ASSUME NEW s \in Stores, Erase(s) \in Todo',
                          NEW k \in Parts(s)
                   PROVE  Put(s, k) \in Todo'
        OBVIOUS
      <4>1. Put(s, k) \in Todo
        BY <2>3, <3>1 DEF ControlInv
      <4>2. op.do = "erase"
        BY <3>1 DEF After, Erase
      <4> QED
        BY <3>1, <4>1, <4>2 DEF Put
    <3>4. old' => \A k \in 1..Batches : Put("vector", k) \in Todo'
      <4>1. \A k : Put("vector", k).do = "put" /\ Put("vector", k).in = "vector"
        BY DEF Put
      <4>2. old => \A k \in 1..Batches : Put("vector", k) \in Todo
        BY <2>3 DEF ControlInv
      <4> QED
        BY <3>1, <4>1, <4>2
    <3> QED
      BY <2>3, <3>1, <3>2, <3>3, <3>4 DEF ControlInv, Purging, Rewriting
  <2> QED
    BY <1>9, <2>1, <2>2, <2>3, BusyIs DEF Call, Busy
<1>10. CASE UNCHANGED vars
  BY <1>10 DEF vars, ControlInv, Purging, Rewriting, Busy, Todo
<1> QED
  BY <1>1, <1>2, <1>3, <1>4, <1>5, <1>6, <1>7, <1>8, <1>9, <1>10 DEF Next

\* Every step keeps the paths apart.
LEMMA PathsStep ==
  ASSUME TypeOK, ControlInv, PathsInv, [Next]_vars
  PROVE  PathsInv'
<1>1. CASE StartRun
  BY <1>1, StartMoves DEF PathsInv, Scanned
<1>2. CASE Scan
  <2>1. run.path = 0 /\ 0 \notin Paths
    BY <1>2, ScanMoves DEF ControlInv, Paths
  <2> QED
    BY <1>2, <2>1, ScanMoves DEF PathsInv, Scanned
<1>3. CASE ParseFile
  BY <1>3, ParseMoves DEF PathsInv, Scanned
<1>4. CASE PurgeStale
  BY <1>4, PurgeMoves DEF PathsInv, Scanned
<1>5. CASE Finish
  BY <1>5, FinishMoves DEF PathsInv, Scanned
<1>6. CASE Edit
  BY <1>6, EditMoves DEF PathsInv, Scanned
<1>7. CASE Stop
  BY <1>7, StopMoves, IdleIs DEF PathsInv, Scanned
<1>8. 0 \notin run.left \cup run.stale
  BY DEF TypeOK, Runs, Paths
<1>9. CASE CallFails
  <2>1. CASE run.pc # "file"
    BY <1>9, <2>1, FailureMoves, IdleIs DEF PathsInv, Scanned
  <2>2. CASE run.pc = "file"
    BY <1>8, <1>9, <2>2, SwallowMoves DEF PathsInv, Scanned
  <2> QED
    BY <2>1, <2>2
<1>10. CASE Call
  <2>1. CASE run.pc = "clear"
    BY <1>10, <2>1, ClearCall DEF PathsInv, Scanned
  <2>2. CASE Purging
    <3>1. /\ run'.pc = "purge" /\ run.pc = "purge"
          /\ run'.left = run.left /\ run'.stale = run.stale
          /\ run'.path \in {run.path, 0}
      BY <1>10, <2>2, PurgeCall DEF Purging
    <3> QED
      BY <1>8, <3>1 DEF PathsInv, Scanned
  <2>3. CASE Rewriting
    <3>1. /\ run'.pc = "file" /\ run.pc = "file"
          /\ run'.left = run.left /\ run'.stale = run.stale
          /\ run'.path \in {run.path, 0}
      BY <1>10, <2>3, RewriteCall DEF Rewriting
    <3> QED
      BY <1>8, <3>1 DEF PathsInv, Scanned
  <2> QED
    BY <1>10, <2>1, <2>2, <2>3, BusyIs DEF Call, Busy
<1>11. CASE UNCHANGED vars
  BY <1>11 DEF vars, PathsInv, Scanned
<1> QED
  BY <1>1, <1>2, <1>3, <1>4, <1>5, <1>6, <1>7, <1>9, <1>10, <1>11 DEF Next
-----------------------------------------------------------------------------
(* What a rebuild has emptied, and what a rewrite has written *)

\* What a rebuild has cleared is empty, and stays so until the sources are read.
ClearInv ==
  /\ run.pc = "clear" =>
       /\ run.rebuild
       /\ \A s \in Stores : Clear(s) \notin Todo => store[s] = Nothing
       /\ Clear("vector") \notin Todo => ~old
  /\ run.pc = "scan" /\ run.rebuild =>
       ~old /\ \A s \in Stores : store[s] = Nothing

\* The pieces of the content in progress that store s has received.
Done(s) == {x \in Yield(s, run.content) : Put(s, x[2]) \notin Todo}

\* A put that is no longer ahead of a rewrite has left its part in the store,
\* whatever failed before.
WrittenInv ==
  Rewriting => \A s \in Text : Done(s) \subseteq store[s][run.path]

\* Every step keeps what a rebuild has cleared empty.
LEMMA ClearStep ==
  ASSUME TypeOK, ControlInv, ClearInv, [Next]_vars
  PROVE  ClearInv'
<1>1. CASE StartRun
  <2>1. CASE run'.pc = "scan" /\ ~run'.rebuild
    BY <2>1 DEF ClearInv
  <2>2. CASE run'.pc = "clear" /\ run'.rebuild
             /\ run'.agenda = Calls("clear", ClearOrder)
    <3>1. Todo' = {Clear(s) : s \in Stores}
      BY <2>2, ClearCalls DEF Todo
    <3>2. "vector" \in Stores
      BY DEF Stores
    <3> QED
      BY <2>2, <3>1, <3>2 DEF ClearInv
  <2> QED
    BY <1>1, <2>1, <2>2, StartMoves
<1>2. CASE Scan \/ ParseFile \/ PurgeStale \/ Finish
  <2>1. run'.pc \in {"file", "purge", "done"}
    BY <1>2, ScanMoves, ParseMoves, PurgeMoves, FinishMoves
  <2> QED
    BY <2>1 DEF ClearInv
<1>3. CASE Edit
  BY <1>3, EditMoves DEF ClearInv, Todo
<1>4. CASE Stop
  BY <1>4, StopMoves, IdleIs DEF ClearInv
<1>5. CASE CallFails
  <2>1. run'.pc \in {"idle", "file"}
    BY <1>5, FailureMoves, SwallowMoves, IdleIs
  <2> QED
    BY <2>1 DEF ClearInv
<1>6. CASE Call
  <2>1. CASE run.pc = "clear"
    <3>1. PICK s \in Stores :
            /\ Todo = {Clear(s)} \cup Todo'
            /\ store' = [store EXCEPT ![s] = Nothing]
            /\ old' = (old /\ s # "vector")
            /\ run'.rebuild = run.rebuild
            /\ Busy' => run'.pc = "clear"
            /\ ~Busy' => run'.pc = "scan" /\ Todo' = {}
      BY <1>6, <2>1, ClearCall
    <3>2. \A t \in Stores : Clear(t) \notin Todo' => store'[t] = Nothing
      BY <2>1, <3>1 DEF ClearInv, TypeOK, Clear
    <3>3. Clear("vector") \notin Todo' => ~old'
      BY <2>1, <3>1 DEF ClearInv, Clear
    <3> QED
      BY <2>1, <3>1, <3>2, <3>3 DEF ClearInv
  <2>2. CASE run.pc # "clear"
    <3>1. run'.pc \in {"file", "purge"}
      BY <1>6, <2>2, BusyIs, PurgeCall, RewriteCall DEF Call, Busy
    <3> QED
      BY <3>1 DEF ClearInv
  <2> QED
    BY <2>1, <2>2
<1>7. CASE UNCHANGED vars
  BY <1>7 DEF vars, ClearInv, Todo
<1> QED
  BY <1>1, <1>2, <1>3, <1>4, <1>5, <1>6, <1>7 DEF Next

\* When the last call of a rewrite is due, all parts have been written.
LEMMA AllDone ==
  ASSUME NEW s \in Stores, s # "manifest", run.content \in Contents,
         Todo \subseteq {Put("manifest", 1)}
  PROVE  Done(s) = Yield(s, run.content)
<1>1. \A k : Put(s, k) \notin Todo
  BY DEF Put
<1> QED
  BY <1>1 DEF Done

\* At the start of a rewrite nothing has been written.
LEMMA NoneDone ==
  ASSUME NEW s \in Stores, run.content \in Contents,
         \A k \in Parts(s) : Put(s, k) \in Todo
  PROVE  Done(s) = {}
<1>1. \A x \in Yield(s, run.content) : x[2] \in Parts(s)
  BY YieldIs
<1> QED
  BY <1>1 DEF Done

\* How a call of a rewrite changes what is written of the file.
LEMMA DoneStep ==
  ASSUME TypeOK, ControlInv, Rewriting, Call, Busy', NEW s \in Stores
  PROVE  /\ \/ store'[s][run.path] = {} /\ Done(s)' = {}
            \/ store'[s][run.path] = store[s][run.path] /\ Done(s)' = Done(s)
            \/ /\ Done(s) \subseteq store[s][run.path] =>
                    Done(s)' \subseteq store'[s][run.path]
               /\ Done(s) = store[s][run.path] =>
                    Done(s)' = store'[s][run.path]
         /\ Erase(s) \notin Todo' =>
              Erase(s) \notin Todo \/ Done(s)' = store'[s][run.path]
<1>1. PICK op \in FileOps :
        /\ op \in Op
        /\ Todo = {op} \cup Todo' /\ op \notin Todo'
        /\ \A y \in Todo' : After(op, y)
        /\ op.do = "embed" \/ s # op.in =>
             store'[s][run.path] = store[s][run.path]
        /\ op.do = "erase" => store'[op.in][run.path] = {}
        /\ op.do = "put" /\ ~(op.in = "vector" /\ old) =>
             store'[op.in][run.path] =
               Upserted(op.in, store[op.in][run.path], run.content, op.part)
        /\ op.do = "put" /\ op.in = "vector" /\ old =>
             store'["vector"][run.path] = {<<run.content, op.part>>}
        /\ run'.path = run.path /\ run'.content = run.content
  BY RewriteCall
<1>2. /\ run.path \in Paths /\ run.content \in Contents
      /\ Erase(s) \in Todo => \A k \in Parts(s) : Put(s, k) \in Todo
      /\ old => \A k \in 1..Batches : Put("vector", k) \in Todo
  BY DEF ControlInv
<1>3. /\ Done(s)' = {x \in Yield(s, run.content) : Put(s, x[2]) \notin Todo'}
      /\ Done(s) = {x \in Yield(s, run.content) : Put(s, x[2]) \notin Todo}
  BY <1>1 DEF Done
<1>4. /\ op.do \in {"embed", "erase", "put"}
      /\ op.do = "erase" => op = Erase(op.in)
      /\ op.do = "put" => /\ op = Put(op.in, op.part)
                          /\ op.in \in Stores /\ op.part \in Parts(op.in)
  BY FileOpIs
<1>5. /\ \A x \in Yield(s, run.content) :
           x[1] = run.content /\ x[2] \in Parts(s)
      /\ s # "vector" => Yield(s, run.content) \subseteq {<<run.content, 1>>}
  BY <1>2, YieldIs
<1>6. CASE op.do = "embed" \/ s # op.in
  <2>1. \A k : op # Put(s, k)
    BY <1>4, <1>6 DEF Put
  <2>2. Done(s)' = Done(s)
    BY <1>1, <1>3, <2>1
  <2>3. op # Erase(s)
    BY <1>4, <1>6 DEF Erase
  <2> QED
    BY <1>1, <1>6, <2>2, <2>3
<1>7. CASE op.do = "erase" /\ s = op.in
  <2>1. \A k \in Parts(s) : Put(s, k) \in Todo'
    BY <1>1, <1>2, <1>4, <1>7 DEF Put
  <2>2. Done(s)' = {}
    BY <1>3, <1>5, <2>1
  <2> QED
    BY <1>1, <1>7, <2>2
<1>8. CASE op.do = "put" /\ s = op.in /\ s = "vector"
  <2> DEFINE x == <<run.content, op.part>>
  <2>1. Yield(s, run.content) = {run.content} \X (1..Batches)
    BY <1>2, <1>8, IngestionAssumption DEF Yield
  <2>2. op.part \in 1..Batches /\ x \in Yield(s, run.content)
    BY <1>4, <1>8, <2>1 DEF Parts
  <2>3. \A y \in Yield(s, run.content) :
          Put(s, y[2]) = op <=> y = x
    BY <1>4, <1>8, <2>1, <2>2 DEF Put
  <2>4. Done(s)' = Done(s) \cup {x}
    BY <1>1, <1>3, <2>2, <2>3
  <2>5. op # Erase(s)
    BY <1>8 DEF Erase
  <2>6. CASE old
    <3>1. \A y \in Yield(s, run.content) : Put(s, y[2]) \in Todo
      BY <1>2, <1>5, <1>8, <2>6 DEF Parts
    <3>2. Done(s) = {}
      BY <1>3, <3>1
    <3> QED
      BY <1>1, <1>8, <2>4, <2>5, <2>6, <3>2
  <2>7. CASE ~old
    <3>1. store'[s][run.path] = store[s][run.path] \cup {x}
      <4> DEFINE held == store[s][run.path]
      <4>1. held \in SUBSET Pieces /\ op.part \in Parts(s)
        BY <1>2, <1>4, <1>8 DEF TypeOK
      <4>2. store'[s][run.path] = Upserted(s, held, run.content, op.part)
        BY <1>1, <1>8, <2>7
      <4> HIDE DEF held
      <4>3. Upserted(s, held, run.content, op.part) = held \cup {x}
        BY <1>2, <1>8, VectorUpsert
      <4> QED
        BY <4>2, <4>3 DEF held
    <3> QED
      BY <1>1, <2>4, <2>5, <3>1
  <2> QED
    BY <2>6, <2>7
<1>9. CASE op.do = "put" /\ s = op.in /\ s # "vector"
  <2>1. op = Put(s, 1) /\ op.part = 1
    BY <1>4, <1>9 DEF Parts
  <2>2. Done(s)' = Yield(s, run.content) /\ Done(s) = {}
    <3>1. \A x \in Yield(s, run.content) : x[2] = 1
      BY <1>5, <1>9 DEF Parts
    <3> QED
      BY <1>1, <1>3, <2>1, <3>1
  <2>3. store[s][run.path] \in SUBSET Pieces
    BY <1>2 DEF TypeOK
  <2>4. \/ store'[s][run.path] = Yield(s, run.content)
        \/ /\ Yield(s, run.content) = {}
           /\ store'[s][run.path] = store[s][run.path]
    <3> DEFINE held == store[s][run.path]
    <3>1. op.part \in Parts(s) /\ held \in SUBSET Pieces
      BY <1>4, <1>9, <2>3
    <3>2. store'[s][run.path] = Upserted(s, held, run.content, op.part)
      BY <1>1, <1>9
    <3> HIDE DEF held
    <3>3. \/ Upserted(s, held, run.content, op.part) = Yield(s, run.content)
          \/ /\ Yield(s, run.content) = {}
             /\ Upserted(s, held, run.content, op.part) = held
      BY <1>2, <1>9, RecordUpsert
    <3> QED
      BY <3>2, <3>3 DEF held
  <2>5. op # Erase(s)
    BY <1>9 DEF Erase
  <2> QED
    BY <1>1, <2>2, <2>4, <2>5
<1> QED
  BY <1>4, <1>6, <1>7, <1>8, <1>9

\* Every step keeps what a rewrite has written of the text.
LEMMA WrittenStep ==
  ASSUME TypeOK, ControlInv, WrittenInv, [Next]_vars
  PROVE  WrittenInv'
<1> SUFFICES ASSUME Rewriting', NEW s \in Text
             PROVE  Done(s)' \subseteq store'[s][run'.path]
  BY DEF WrittenInv
<1>1. /\ run'.pc = "file" /\ run'.agenda # <<>>
      /\ s \in Stores /\ s \notin Structured /\ s # "manifest"
  BY DEF Rewriting, Busy, Text, Stores, Structured
<1>2. CASE StartRun \/ Scan \/ PurgeStale \/ Finish \/ Stop
  <2>1. run'.pc # "file" \/ (run'.agenda = run.agenda /\ run.pc = "scan")
    BY <1>2, StartMoves, ScanMoves, PurgeMoves, FinishMoves, StopMoves, IdleIs
  <2>2. run.pc = "scan" => run.agenda = <<>>
    BY DEF ControlInv, Busy
  <2> QED
    BY <1>1, <2>1, <2>2
<1>3. CASE ParseFile
  <2>1. PICK p \in run.left :
          /\ disk[p] # None /\ run'.content = disk[p]
          /\ run'.agenda = Rewrite(run.previous[p] # {})
    BY <1>1, <1>3, ParseMoves
  <2>2. run'.content \in Contents
    BY <2>1 DEF TypeOK, Runs
  <2>3. \A k \in Parts(s) : Put(s, k) \in Todo'
    BY <1>1, <2>1, RewriteCalls DEF Todo
  <2>4. \A x \in Yield(s, run'.content) : x[2] \in Parts(s)
    BY <1>1, <2>2, YieldIs
  <2> QED
    BY <2>3, <2>4 DEF Done
<1>4. CASE Call
  <2>1. CASE Rewriting
    <3>1. Busy' /\ run'.path = run.path
      BY <1>1, <1>4, <2>1, RewriteCall DEF Busy
    <3>2. Done(s) \subseteq store[s][run.path]
      BY <2>1 DEF WrittenInv
    <3> QED
      BY <1>1, <1>4, <2>1, <3>1, <3>2, DoneStep
  <2>2. CASE ~Rewriting
    <3>1. run'.pc # "file"
      BY <1>4, <2>2, BusyIs, ClearCall, PurgeCall DEF Call, Busy
    <3> QED
      BY <1>1, <3>1
  <2> QED
    BY <2>1, <2>2
<1>5. CASE CallFails
  <2>1. run.pc = "file" /\ Busy
    BY <1>1, <1>5, FailureMoves, IdleIs
  <2>2. /\ run'.path = run.path /\ run'.content = run.content
        /\ store'[s] = store[s]
        /\ \A y \in Todo : y.in \in Structured \cup {"manifest"}
    BY <1>1, <1>5, <2>1, SwallowMoves
  <2>3. \A k : Put(s, k) \notin Todo
    BY <1>1, <2>2 DEF Put
  <2>4. Done(s)' \subseteq Done(s)
    BY <2>2, <2>3 DEF Done
  <2> QED
    BY <2>1, <2>2, <2>4 DEF WrittenInv, Rewriting
<1>6. CASE Edit
  <2>1. /\ run'.path = run.path /\ run'.content = run.content
        /\ run'.agenda = run.agenda /\ store' = store /\ Rewriting
    BY <1>1, <1>6, EditMoves DEF Rewriting, Busy
  <2> QED
    BY <2>1 DEF WrittenInv, Done, Todo
<1>7. CASE UNCHANGED vars
  BY <1>7 DEF vars, WrittenInv, Rewriting, Busy, Done, Todo
<1> QED
  BY <1>2, <1>3, <1>4, <1>5, <1>6, <1>7 DEF Next
-----------------------------------------------------------------------------
(* What the stores hold of the file in progress *)

\* As long as nothing has gone wrong with store s, it can be relied on.
Covered(s) ==
  harm = {} \/ (harm \subseteq {"structured"} /\ s \notin Structured)

\* The rewrite in progress begins with nothing of the file in store s, or
\* with what it is about to purge.
Known(p) == run.previous[p] # {}
FromEmpty(s) ==
  \/ Covered(s)
  \/ s \in Text /\ Known(run.path)
  \/ run.calm /\ (Known(run.path) \/ run.rebuild)

\* A store that began empty holds of the file in progress exactly what has been
\* written of it, once it has been purged; a purge leaves nothing behind.
ExactInv ==
  /\ Rewriting =>
       /\ \A s \in Stores \ {"manifest", "overlay"} :
            FromEmpty(s) /\ Erase(s) \notin Todo =>
              store[s][run.path] = Done(s)
       /\ (harm = {} \/ run.calm) /\ Put("overlay", 1) \notin Todo =>
            store["overlay"][run.path] = Yield("overlay", run.content)
  /\ Purging =>
       \A s \in Stores \ {"overlay"} :
         Erase(s) \notin Todo => store[s][run.path] = {}

\* The manifest still has the entries that the run read at its start, for the
\* files it has not come to.
PreviousInv ==
  Scanned /\ ("text" \notin harm \/ run.calm) =>
    \A p \in run.left \cup run.stale :
      store["manifest"][p] = run.previous[p]

\* Store s holds of path p what the manifest entry of p says.
Agrees(s, p) ==
  \/ s = "overlay" /\ store["manifest"][p] = {}
  \/ store[s][p] = ByManifest(s, p)
TruthInv ==
  \A p \in Settled, s \in Stores : Covered(s) => Agrees(s, p)

\* A calm rebuild fills empty stores, one file after the other.
RebuildInv ==
  Scanned /\ run.calm /\ run.rebuild =>
    /\ run.stale = {} /\ ~old /\ run.pc # "purge"
    /\ \A p \in run.left, s \in Stores : store[s][p] = {}
    /\ \A p \in Paths : run.previous[p] = {}
    /\ \A p \in Paths \ (run.left \cup {run.path}), s \in Stores :
         store[s][p] = Yield(s, disk[p])

\* What the stores hold of a file after the last call of its rewrite.
LEMMA RewriteEnds ==
  ASSUME TypeOK, ControlInv, ExactInv, Rewriting, Call, ~Busy'
  PROVE  /\ run.path \in Paths /\ run.content \in Contents
         /\ \A s \in Stores, q \in Paths \ {run.path} :
              store'[s][q] = store[s][q]
         /\ store'["manifest"][run.path] = Yield("manifest", run.content)
         /\ \A s \in Stores \ {"manifest", "overlay"} :
              FromEmpty(s) => store'[s][run.path] = Yield(s, run.content)
         /\ harm = {} \/ run.calm =>
              store'["overlay"][run.path] = Yield("overlay", run.content)
         /\ ~old /\ ~old'
<1> DEFINE last == Put("manifest", 1)
<1>1. /\ Todo = {last}
      /\ \A s \in Stores : s # "manifest" =>
           store'[s][run.path] = store[s][run.path]
      /\ store'["manifest"][run.path] =
           Upserted("manifest", store["manifest"][run.path], run.content, 1)
      /\ \A s \in Stores, q \in Paths \ {run.path} :
           s # "vector" \/ ~old => store'[s][q] = store[s][q]
      /\ old' = old
  <2>1. last.do = "put" /\ last.in = "manifest" /\ last.part = 1
    BY DEF Put
  <2> HIDE DEF last
  <2>2. PICK op \in FileOps :
           /\ op = last /\ Todo = {op} \cup Todo' /\ Todo' = {}
           /\ \A s \in Stores :
                op.do = "embed" \/ s # op.in =>
                  store'[s][run.path] = store[s][run.path]
           /\ op.do = "put" /\ ~(op.in = "vector" /\ old) =>
                store'[op.in][run.path] =
                  Upserted(op.in, store[op.in][run.path], run.content, op.part)
           /\ \A s \in Stores, q \in Paths \ {run.path} :
                s # "vector" \/ ~old \/ "schema" \notin harm' =>
                  store'[s][q] = store[s][q]
           /\ old' = (old /\ ~(op.do = "put" /\ op.in = "vector"))
    BY RewriteCall DEF last
  <2>3. old' = old
    BY <2>1, <2>2 DEF TypeOK
  <2> QED
    BY <2>1, <2>2, <2>3
<1>2. /\ run.path \in Paths /\ run.content \in Contents
      /\ old => \A k \in 1..Batches : Put("vector", k) \in Todo
  BY DEF ControlInv
<1>3. ~old
  <2>1. 1 \in 1..Batches /\ Put("vector", 1) # last
    BY IngestionAssumption DEF Put
  <2> QED
    BY <1>1, <1>2, <2>1
<1>4. store'["manifest"][run.path] = Yield("manifest", run.content)
  BY <1>1, WholeUpsert
<1>5. ASSUME NEW s \in Stores \ {"manifest", "overlay"}, FromEmpty(s)
      PROVE  store'[s][run.path] = Yield(s, run.content)
  <2>1. Erase(s) \notin Todo
    BY <1>1 DEF Erase, Put
  <2>2. Done(s) = Yield(s, run.content)
    BY <1>1, <1>2, AllDone
  <2> QED
    BY <1>1, <1>5, <2>1, <2>2 DEF ExactInv
<1>6. ASSUME harm = {} \/ run.calm
      PROVE  store'["overlay"][run.path] = Yield("overlay", run.content)
  <2>1. Put("overlay", 1) \notin Todo /\ "overlay" \in Stores
    BY <1>1 DEF Put, Stores, Structured
  <2> QED
    BY <1>1, <1>6, <2>1 DEF ExactInv
<1> QED
  BY <1>1, <1>2, <1>3, <1>4, <1>5, <1>6

\* What they hold of a path after the last call of its purge.
LEMMA PurgeEnds ==
  ASSUME TypeOK, ControlInv, ExactInv, Purging, Call, ~Busy'
  PROVE  \A s \in Stores \ {"overlay"} : store'[s][run.path] = {}
<1>1. PICK z \in Stores \ {"overlay"} :
        /\ Todo = {Erase(z)} \cup Todo' /\ Todo' = {}
        /\ store'[z][run.path] = {}
        /\ \A t \in Stores, q \in Paths :
             t # z \/ q # run.path => store'[t][q] = store[t][q]
  BY PurgeCall
<1>2. run.path \in Paths
  BY DEF ControlInv
<1>3. \A s : s # z => Erase(s) \notin Todo
  BY <1>1 DEF Erase
<1> QED
  BY <1>1, <1>2, <1>3 DEF ExactInv

\* Every step keeps the entries of the files ahead.
LEMMA PreviousStep ==
  ASSUME TypeOK, ControlInv, PathsInv, PreviousInv, [Next]_vars
  PROVE  PreviousInv'
<1>1. CASE StartRun \/ Stop
  <2>1. ~Scanned'
    BY <1>1, StartMoves, StopMoves, IdleIs DEF Scanned
  <2> QED
    BY <2>1 DEF PreviousInv
<1>2. CASE Scan
  BY <1>2, ScanMoves DEF PreviousInv
<1>3. CASE ParseFile \/ PurgeStale \/ Finish
  <2>1. /\ Scanned /\ (run'.calm => run.calm)
        /\ run'.previous = run.previous
        /\ run'.left \subseteq run.left /\ run'.stale \subseteq run.stale
        /\ store' = store /\ harm' = harm
    <3>1. CASE ParseFile
      BY <3>1, ParseMoves DEF Scanned
    <3>2. CASE PurgeStale
      BY <3>2, PurgeMoves DEF Scanned
    <3>3. CASE Finish
      BY <3>3, FinishMoves DEF Scanned
    <3> QED
      BY <1>3, <3>1, <3>2, <3>3
  <2> QED
    BY <2>1 DEF PreviousInv
<1>4. CASE Edit
  BY <1>4, EditMoves DEF PreviousInv, Scanned
<1>5. CASE CallFails
  <2>1. CASE run.pc # "file"
    BY <1>5, <2>1, FailureMoves, IdleIs DEF PreviousInv, Scanned
  <2>2. CASE run.pc = "file" /\ "text" \in harm'
    BY <1>5, <2>2, SwallowMoves DEF PreviousInv
  <2>3. CASE run.pc = "file" /\ "text" \notin harm'
    <3>1. /\ run'.left = run.left /\ run'.stale = run.stale
          /\ run'.previous = run.previous /\ "text" \notin harm
          /\ store'["manifest"] = store["manifest"]
      BY <1>5, <2>3, SwallowMoves DEF Stores, Structured
    <3> QED
      BY <2>3, <3>1 DEF PreviousInv, Scanned
  <2> QED
    BY <2>1, <2>2, <2>3
<1>6. CASE Call
  <2>1. CASE run.pc = "clear"
    <3>1. ~Scanned'
      BY <1>6, <2>1, ClearCall DEF Scanned
    <3> QED
      BY <3>1 DEF PreviousInv
  <2>2. CASE Purging \/ Rewriting
    <3>1. /\ Scanned /\ run'.calm = run.calm /\ harm \subseteq harm'
          /\ run'.previous = run.previous
          /\ run'.left = run.left /\ run'.stale = run.stale
          /\ \A q \in Paths \ {run.path} :
               store'["manifest"][q] = store["manifest"][q]
      <4>1. "manifest" \in Stores
        BY DEF Stores
      <4>2. CASE Purging
        BY <1>6, <4>1, <4>2, PurgeCall DEF Scanned, Purging
      <4>3. CASE Rewriting
        BY <1>6, <4>1, <4>3, RewriteCall DEF Scanned, Rewriting
      <4> QED
        BY <2>2, <4>2, <4>3
    <3>2. run.left \cup run.stale \subseteq Paths \ {run.path}
      BY <3>1 DEF PathsInv, TypeOK, Runs
    <3> QED
      BY <3>1, <3>2 DEF PreviousInv
  <2> QED
    BY <1>6, <2>1, <2>2, BusyIs DEF Call, Busy
<1>7. CASE UNCHANGED vars
  BY <1>7 DEF vars, PreviousInv, Scanned
<1> QED
  BY <1>1, <1>2, <1>3, <1>4, <1>5, <1>6, <1>7 DEF Next

\* What can be relied on after a step could be before.
LEMMA CoveredBefore ==
  ASSUME harm \subseteq harm', NEW s, Covered(s)'
  PROVE  Covered(s)
BY DEF Covered

\* A rewrite that began with nothing in a store had before this step.
LEMMA FromEmptyBefore ==
  ASSUME harm \subseteq harm', run'.calm => run.calm,
         run'.previous = run.previous, run'.path = run.path,
         run'.rebuild = run.rebuild, NEW s, FromEmpty(s)'
  PROVE  FromEmpty(s)
BY CoveredBefore DEF FromEmpty, Known

\* Nothing in store s of a file that the manifest did not list.
LEMMA StartsEmpty ==
  ASSUME TypeOK, ControlInv, PreviousInv, TruthInv, RebuildInv,
         run.pc = "file", ~Busy, NEW p \in run.left,
         run.previous[p] = {}, NEW s \in Stores \ {"manifest", "overlay"},
         Covered(s) \/ (run.calm /\ run.rebuild)
  PROVE  store[s][p] = {}
<1>1. p \in Paths /\ Scanned
  BY DEF TypeOK, Runs, Scanned
<1>2. CASE Covered(s)
  <2>1. "text" \notin harm
    BY <1>2 DEF Covered
  <2>2. store["manifest"][p] = {}
    BY <1>1, <2>1 DEF PreviousInv
  <2>3. p \in Settled
    BY <1>1 DEF Settled, Busy
  <2>4. Agrees(s, p)
    BY <1>2, <2>3 DEF TruthInv
  <2> QED
    BY <2>2, <2>4 DEF Agrees, ByManifest
<1>3. CASE run.calm /\ run.rebuild
  BY <1>1, <1>3 DEF RebuildInv
<1> QED
  BY <1>2, <1>3

\* Every step keeps what a store holds of the file in progress exact.
LEMMA ExactStep ==
  ASSUME TypeOK, ControlInv, PathsInv, ExactInv, PreviousInv, TruthInv,
         RebuildInv, [Next]_vars
  PROVE  ExactInv'
<1>1. SUFFICES
        /\ Rewriting' => \A s \in Stores \ {"manifest", "overlay"} :
             FromEmpty(s)' /\ Erase(s) \notin Todo' =>
               store'[s][run'.path] = Done(s)'
        /\ Rewriting' /\ (harm' = {} \/ run'.calm)
             /\ Put("overlay", 1) \notin Todo' =>
               store'["overlay"][run'.path] = Yield("overlay", run'.content)
        /\ Purging' => \A s \in Stores \ {"overlay"} :
             Erase(s) \notin Todo' => store'[s][run'.path] = {}
  BY DEF ExactInv
<1>2. CASE StartRun \/ Scan \/ Finish \/ Stop
  <2>1. ~(Rewriting' \/ Purging')
    <3>1. CASE Scan
      BY <3>1, ScanMoves DEF ControlInv, Rewriting, Purging, Busy
    <3>2. CASE StartRun \/ Finish \/ Stop
      BY <3>2, StartMoves, FinishMoves, StopMoves, IdleIs
         DEF Rewriting, Purging
    <3> QED
      BY <1>2, <3>1, <3>2
  <2> QED
    BY <2>1
<1>3. CASE PurgeStale
  <2>1. ~Rewriting' /\ Todo' = {Erase(s) : s \in Stores \ {"overlay"}}
    BY <1>3, PurgeMoves, PurgeCalls DEF Rewriting, Todo
  <2> QED
    BY <2>1
<1>4. CASE Edit
  <2>1. /\ Todo' = Todo /\ store' = store /\ harm' = harm
        /\ run'.path = run.path /\ run'.content = run.content
        /\ (Rewriting' <=> Rewriting) /\ (Purging' <=> Purging)
        /\ run'.previous = run.previous /\ run'.rebuild = run.rebuild
    BY <1>4, EditMoves DEF Todo, Rewriting, Purging, Busy
  <2>2. Rewriting' => ~run'.calm
    BY <1>4, EditMoves DEF Rewriting, Scanned
  <2>3. \A s : Done(s)' = Done(s)
    BY <2>1 DEF Done
  <2>4. ASSUME Rewriting', NEW s \in Stores \ {"manifest", "overlay"},
               FromEmpty(s)', Erase(s) \notin Todo'
        PROVE  store'[s][run'.path] = Done(s)'
    <3>1. FromEmpty(s)
      BY <2>1, <2>2, <2>4, FromEmptyBefore
    <3> QED
      BY <2>1, <2>3, <2>4, <3>1 DEF ExactInv
  <2> QED
    BY <2>1, <2>2, <2>4 DEF ExactInv
<1>5. CASE ParseFile
  <2>1. SUFFICES ASSUME Rewriting'
                 PROVE  /\ \A s \in Stores \ {"manifest", "overlay"} :
                             FromEmpty(s)' /\ Erase(s) \notin Todo' =>
                               store'[s][run'.path] = Done(s)'
                        /\ Put("overlay", 1) \in Todo'
    BY <1>5, ParseMoves DEF Purging
  <2>2. PICK p \in run.left :
          /\ run.pc = "file" /\ ~Busy
          /\ run'.rebuild = run.rebuild /\ run'.previous = run.previous
          /\ disk[p] # None /\ run'.calm = run.calm
          /\ run'.path = p /\ run'.content = disk[p]
          /\ run'.agenda = Rewrite(run.previous[p] # {})
          /\ store' = store /\ harm' = harm
    BY <1>5, <2>1, ParseMoves DEF Rewriting, Busy
  <2>3. run'.content \in Contents
    BY <2>2 DEF TypeOK, Runs
  <2>4. \A s \in Stores : \A k \in Parts(s) : Put(s, k) \in Todo'
    BY <2>2, RewriteCalls DEF Todo
  <2>5. Put("overlay", 1) \in Todo'
    BY <2>4 DEF Stores, Structured, Parts
  <2>6. ASSUME NEW s \in Stores \ {"manifest", "overlay"}, FromEmpty(s)',
               Erase(s) \notin Todo'
        PROVE  store'[s][run'.path] = Done(s)'
    <3>1. Done(s)' = {}
      <4>1. \A x \in Yield(s, run'.content) : x[2] \in Parts(s)
        BY <2>3, YieldIs
      <4> QED
        BY <2>4, <4>1 DEF Done
    <3>2. s \in Purged
      BY DEF Purged, Text, Stores, Structured
    <3>3. run.previous[p] = {}
      <4>1. run.previous[p] # {} => Erase(s) \in Range(Rewrite(TRUE))
        BY <3>2, RewriteCalls
      <4> QED
        BY <2>2, <2>6, <4>1 DEF Todo
    <3>4. Covered(s) \/ (run.calm /\ run.rebuild)
      <4>1. run'.previous[run'.path] = {} /\ run'.rebuild = run.rebuild
            /\ run'.calm = run.calm
        BY <2>2, <3>3
      <4>2. Covered(s)' \/ (run'.calm /\ run'.rebuild)
        <5>1. ~Known(run.path)'
          BY <4>1 DEF Known
        <5> QED
          BY <2>6, <5>1, Zenon DEF FromEmpty
      <4> QED
        BY <2>2, <4>1, <4>2, CoveredBefore
    <3> QED
      BY <2>2, <3>1, <3>3, <3>4, StartsEmpty
  <2> QED
    BY <2>5, <2>6
<1>6. CASE CallFails
  <2>1. SUFFICES ASSUME Rewriting', NEW s \in Stores \ {"manifest", "overlay"},
                        FromEmpty(s)', Erase(s) \notin Todo'
                 PROVE  store'[s][run'.path] = Done(s)'
    <3>1. ~Purging'
      BY <1>6, FailureMoves, SwallowMoves, IdleIs DEF Purging
    <3>2. Rewriting' => ~run'.calm /\ harm' # {}
      BY <1>6, FailureMoves, SwallowMoves, IdleIs DEF Rewriting
    <3> QED
      BY <3>1, <3>2
  <2>2. run.pc = "file" /\ Busy
    BY <1>6, <2>1, FailureMoves, IdleIs DEF Rewriting
  <2>3. /\ ~run'.calm /\ run'.path = run.path /\ run'.content = run.content
        /\ run'.rebuild = run.rebuild /\ run'.previous = run.previous
        /\ harm' = harm \cup {"structured"}
        /\ \A t \in Stores \ Structured : store'[t] = store[t]
        /\ Todo' \subseteq Todo
        /\ \A y \in Todo : y.do = "put" /\ y.in \in Structured \cup {"manifest"}
    BY <1>6, <2>1, <2>2, SwallowMoves DEF Rewriting, Busy
  <2>4. s \in Text /\ FromEmpty(s)
    <3>1. FromEmpty(s)
      BY <2>1, <2>3, FromEmptyBefore
    <3>2. ~Covered(s)' => s \in Text
      BY <2>1, <2>3 DEF FromEmpty
    <3>3. Covered(s)' => s \notin Structured
      BY <2>3 DEF Covered
    <3> QED
      BY <3>1, <3>2, <3>3 DEF Text, Stores
  <2>5. Erase(s) \notin Todo /\ \A k : Put(s, k) \notin Todo
    BY <2>3, <2>4 DEF Erase, Put, Text, Structured
  <2>6. Done(s)' = Done(s)
    BY <2>3, <2>5 DEF Done
  <2>7. store'[s] = store[s]
    BY <2>3, <2>4 DEF Text, Structured
  <2> QED
    BY <2>2, <2>3, <2>4, <2>5, <2>6, <2>7 DEF ExactInv, Rewriting
<1>7. CASE Call
  <2>1. CASE run.pc = "clear"
    <3>1. ~(Rewriting' \/ Purging')
      BY <1>7, <2>1, ClearCall DEF Rewriting, Purging
    <3> QED
      BY <3>1
  <2>2. CASE Purging
    <3>1. PICK z \in Stores \ {"overlay"} :
            /\ Todo = {Erase(z)} \cup Todo'
            /\ store'[z][run.path] = {}
            /\ \A t \in Stores, q \in Paths :
                 t # z \/ q # run.path => store'[t][q] = store[t][q]
            /\ run'.pc = "purge" /\ (Busy' => run'.path = run.path)
      BY <1>7, <2>2, PurgeCall
    <3>2. ~Rewriting' /\ (Purging' => run'.path = run.path)
          /\ run.path \in Paths
      BY <2>2, <3>1 DEF Rewriting, Purging, ControlInv
    <3>3. \A s : s # z => Erase(s) # Erase(z)
      BY DEF Erase
    <3> QED
      BY <2>2, <3>1, <3>2, <3>3 DEF ExactInv
  <2>3. CASE Rewriting /\ ~Busy'
    BY <2>3 DEF Rewriting, Purging
  <2>4. CASE Rewriting /\ Busy'
    <3>1. PICK op \in FileOps :
            /\ Todo = {op} \cup Todo'
            /\ \A s \in Stores :
                 op.do = "embed" \/ s # op.in =>
                   store'[s][run.path] = store[s][run.path]
            /\ op.do = "put" /\ ~(op.in = "vector" /\ old) =>
                 store'[op.in][run.path] =
                   Upserted(op.in, store[op.in][run.path], run.content, op.part)
            /\ run'.pc = "file"
            /\ run'.rebuild = run.rebuild /\ run'.calm = run.calm
            /\ run'.previous = run.previous
            /\ run'.path = run.path /\ run'.content = run.content
            /\ harm \subseteq harm'
      BY <1>7, <2>4, RewriteCall
    <3>2. ~Purging'
      BY <3>1 DEF Purging
    <3>3. ASSUME NEW s \in Stores \ {"manifest", "overlay"},
                 FromEmpty(s)', Erase(s) \notin Todo'
          PROVE  store'[s][run'.path] = Done(s)'
      <4>1. FromEmpty(s)
        BY <3>1, <3>3, FromEmptyBefore
      <4>2. CASE Erase(s) \notin Todo
        <5>1. store[s][run.path] = Done(s)
          BY <2>4, <4>1, <4>2 DEF ExactInv
        <5> QED
          BY <1>7, <2>4, <3>1, <5>1, DoneStep
      <4>3. CASE Erase(s) \in Todo
        BY <1>7, <2>4, <3>1, <3>3, <4>3, DoneStep
      <4> QED
        BY <4>2, <4>3
    <3>4. ASSUME harm' = {} \/ run'.calm, Put("overlay", 1) \notin Todo'
          PROVE  store'["overlay"][run'.path] = Yield("overlay", run'.content)
      <4>1. "overlay" \in Stores
        BY DEF Stores, Structured
      <4>2. CASE op = Put("overlay", 1)
        <5>1. op.do = "put" /\ op.in = "overlay" /\ op.part = 1
          BY <4>2 DEF Put
        <5> QED
          BY <3>1, <5>1, WholeUpsert
      <4>3. CASE op # Put("overlay", 1)
        <5>1. op.do = "embed" \/ op.in # "overlay"
          BY <4>3, FileOpIs DEF Purged, Text, Parts
        <5>2. store'["overlay"][run.path] = store["overlay"][run.path]
          BY <3>1, <4>1, <5>1
        <5>3. Put("overlay", 1) \notin Todo /\ (harm = {} \/ run.calm)
          BY <3>1, <3>4, <4>3
        <5> QED
          BY <2>4, <3>1, <5>2, <5>3 DEF ExactInv
      <4> QED
        BY <4>2, <4>3
    <3> QED
      BY <3>2, <3>3, <3>4
  <2> QED
    BY <1>7, <2>1, <2>2, <2>3, <2>4, BusyIs DEF Call, Busy
<1>8. CASE UNCHANGED vars
  <2>1. run' = run /\ store' = store /\ harm' = harm
    BY <1>8 DEF vars
  <2>2. /\ Todo' = Todo /\ (Rewriting' <=> Rewriting)
        /\ (Purging' <=> Purging)
        /\ \A s : Done(s)' = Done(s) /\ (FromEmpty(s)' <=> FromEmpty(s))
    BY <2>1 DEF Todo, Rewriting, Purging, Busy, Done, FromEmpty, Covered, Known
  <2> QED
    BY <2>1, <2>2 DEF ExactInv
<1> QED
  BY <1>2, <1>3, <1>4, <1>5, <1>6, <1>7, <1>8 DEF Next

\* What a manifest entry for content c promises of store s.
LEMMA Promised ==
  ASSUME NEW s \in Stores, NEW c \in Contents
  PROVE  UNION {Yield(s, piece[1]) : piece \in Yield("manifest", c)}
           = Yield(s, c)
<1>1. Yield("manifest", c) = {<<c, 1>>}
  BY IngestionAssumption DEF Yield
<1>2. {Yield(s, piece[1]) : piece \in {<<c, 1>>}} = {Yield(s, c)}
  OBVIOUS
<1>3. UNION {Yield(s, c)} = Yield(s, c)
  OBVIOUS
<1> QED
  BY <1>1, <1>2, <1>3

\* Every step keeps the stores in agreement with the manifest.
LEMMA TruthStep ==
  ASSUME TypeOK, ControlInv, ClearInv, ClearInv', ExactInv, TruthInv,
         [Next]_vars
  PROVE  TruthInv'
<1> SUFFICES ASSUME NEW p \in Settled', NEW s \in Stores, Covered(s)'
             PROVE  Agrees(s, p)'
  BY DEF TruthInv
<1>1. p \in Paths /\ "manifest" \in Stores
  BY DEF Settled, Stores
<1>2. ASSUME store' = store, harm' = harm, p \in Settled
      PROVE  Agrees(s, p)'
  BY <1>2 DEF TruthInv, Agrees, ByManifest, Covered
<1>3. ASSUME ~Busy PROVE p \in Settled
  BY <1>1, <1>3 DEF Settled, ControlInv, Busy
<1>4. CASE StartRun \/ Scan \/ ParseFile \/ PurgeStale \/ Finish
  <2>1. ~Busy
    BY <1>4, ParseMoves, PurgeMoves, FinishMoves
       DEF StartRun, Scan, ControlInv
  <2>2. store' = store /\ harm' = harm
    BY <1>4 DEF StartRun, Scan, ParseFile, PurgeStale, Finish
  <2> QED
    BY <1>2, <1>3, <2>1, <2>2
<1>5. CASE Edit
  <2>1. Settled' = Settled
    BY <1>5, EditMoves DEF Settled
  <2> QED
    BY <1>2, <1>5, <2>1, EditMoves
<1>6. CASE Stop
  BY <1>6, StopMoves DEF Covered
<1>7. CASE CallFails
  <2>1. CASE run.pc # "file"
    <3>1. "text" \in harm'
      BY <1>7, <2>1, FailureMoves
    <3> QED
      BY <3>1 DEF Covered
  <2>2. CASE run.pc = "file" /\ "text" \in harm'
    BY <2>2 DEF Covered
  <2>3. CASE run.pc = "file" /\ "text" \notin harm'
    <3>1. /\ run'.pc = "file" /\ run'.agenda # <<>> /\ run'.path = run.path
          /\ harm' = harm \cup {"structured"}
          /\ \A t \in Stores \ Structured : store'[t] = store[t]
      BY <1>7, <2>3, SwallowMoves
    <3>2. Settled' = Settled
      BY <1>7, <2>3, <3>1, FailureMoves DEF Settled, Busy
    <3>3. Covered(s) /\ s \notin Structured
      BY <3>1 DEF Covered
    <3>4. store'[s] = store[s] /\ store'["manifest"] = store["manifest"]
      BY <1>1, <3>1, <3>3 DEF Structured
    <3> QED
      BY <3>2, <3>3, <3>4 DEF TruthInv, Agrees, ByManifest
  <2> QED
    BY <2>1, <2>2, <2>3
<1>8. CASE Call
  <2>1. CASE run.pc = "clear"
    <3>1. run'.pc = "scan" /\ run'.rebuild
      BY <1>8, <2>1, ClearCall DEF Settled, ClearInv
    <3>2. \A t \in Stores : store'[t] = Nothing
      BY <3>1 DEF ClearInv
    <3>3. store'[s][p] = {} /\ store'["manifest"][p] = {}
      BY <1>1, <3>2 DEF Nothing
    <3> QED
      BY <3>3 DEF Agrees, ByManifest
  <2>2. ASSUME Purging \/ Rewriting, p # run.path
        PROVE  Agrees(s, p)'
    <3>1. p \in Settled
      BY <1>1, <2>2 DEF Settled, Purging, Rewriting, Busy
    <3>2. Covered(s)
      <4>1. harm \subseteq harm'
        BY <1>8, <2>2, PurgeCall, RewriteCall
      <4> QED
        BY <4>1, CoveredBefore
    <3>3. /\ store'[s][p] = store[s][p]
          /\ store'["manifest"][p] = store["manifest"][p]
      <4>1. CASE Purging
        BY <1>1, <1>8, <2>2, <4>1, PurgeCall
      <4>2. CASE Rewriting
        <5>1. "schema" \notin harm'
          BY DEF Covered
        <5> QED
          BY <1>1, <1>8, <2>2, <4>2, <5>1, RewriteCall
      <4> QED
        BY <2>2, <4>1, <4>2
    <3> QED
      BY <3>1, <3>2, <3>3 DEF TruthInv, Agrees, ByManifest
  <2>3. CASE Purging /\ p = run.path
    <3>1. ~Busy'
      BY <1>8, <2>3, PurgeCall DEF Settled, Busy
    <3>2. \A t \in Stores \ {"overlay"} : store'[t][p] = {}
      BY <1>8, <2>3, <3>1, PurgeEnds
    <3> QED
      BY <1>1, <3>2 DEF Agrees, ByManifest
  <2>4. CASE Rewriting /\ p = run.path
    <3>1. ~Busy'
      BY <1>8, <2>4, RewriteCall DEF Settled, Busy
    <3>2. /\ run.content \in Contents
          /\ store'["manifest"][p] = Yield("manifest", run.content)
          /\ \A t \in Stores \ {"manifest", "overlay"} :
               FromEmpty(t) => store'[t][p] = Yield(t, run.content)
          /\ harm = {} \/ run.calm =>
               store'["overlay"][p] = Yield("overlay", run.content)
      BY <1>8, <2>4, <3>1, RewriteEnds
    <3>3. harm \subseteq harm'
      BY <1>8, <2>4, RewriteCall
    <3>4. Covered(s)
      BY <3>3, CoveredBefore
    <3>5. store'[s][p] = Yield(s, run.content)
      BY <3>2, <3>4 DEF FromEmpty, Covered, Structured
    <3>6. ByManifest(s, p)' = Yield(s, run.content)
      <4>1. UNION {Yield(s, piece[1]) :
                     piece \in Yield("manifest", run.content)}
              = Yield(s, run.content)
        BY <3>2, Promised
      <4> QED
        BY <3>2, <4>1 DEF ByManifest
    <3> QED
      BY <3>5, <3>6 DEF Agrees
  <2> QED
    BY <1>8, <2>1, <2>2, <2>3, <2>4, BusyIs DEF Call, Busy
<1>9. CASE UNCHANGED vars
  BY <1>2, <1>9 DEF vars, Settled
<1> QED
  BY <1>4, <1>5, <1>6, <1>7, <1>8, <1>9 DEF Next

-----------------------------------------------------------------------------
(* What a calm run achieves *)

\* The paths that this run has dealt with.
Handled == Paths \ (run.left \cup run.stale \cup {run.path})

\* What a calm run has dealt with is in the manifest as it is in the sources.
MirrorInv ==
  Scanned /\ run.calm =>
    /\ \A p \in run.stale : disk[p] = None
    /\ Busy => run.content = disk[run.path]
    /\ \A p \in Handled : store["manifest"][p] = Yield("manifest", disk[p])

\* Every step keeps the manifest of a calm run true to the sources.
LEMMA MirrorStep ==
  ASSUME TypeOK, ControlInv, PathsInv, ExactInv, PreviousInv, MirrorInv,
         [Next]_vars
  PROVE  MirrorInv'
<1> SUFFICES ASSUME Scanned', run'.calm
             PROVE  /\ \A p \in run'.stale : disk'[p] = None
                    /\ Busy' => run'.content = disk'[run'.path]
                    /\ \A p \in Handled' :
                         store'["manifest"][p] = Yield("manifest", disk'[p])
  BY DEF MirrorInv
<1>1. CASE StartRun \/ Stop \/ CallFails
  BY <1>1, StartMoves, StopMoves, FailureMoves, SwallowMoves, IdleIs
     DEF Scanned
<1>2. CASE Scan
  <2>1. ~Busy /\ run.path = 0
    BY <1>2, ScanMoves DEF ControlInv
  <2>2. Yield("manifest", None) = {}
    BY DEF Yield
  <2>3. ASSUME NEW p \in Handled'
        PROVE  store'["manifest"][p] = Yield("manifest", disk'[p])
    <3>1. /\ p \in Paths /\ p \notin run'.left /\ p \notin run'.stale
      BY DEF Handled
    <3> QED
      BY <1>2, <2>2, <3>1, ScanMoves
  <2> QED
    BY <1>2, <2>1, <2>3, ScanMoves DEF Busy
<1>3. CASE ParseFile
  <2>1. PICK p \in run.left :
           /\ run.pc = "file" /\ ~Busy
           /\ run'.previous = run.previous
           /\ run'.left = run.left \ {p} /\ run'.stale = run.stale
           /\ \/ Unchanged(p, disk[p])
                 /\ run'.calm = run.calm /\ run'.agenda = <<>>
                 /\ run'.path = run.path /\ run'.content = run.content
              \/ run'.calm = run.calm
                 /\ run'.path = p /\ run'.content = disk[p]
           /\ disk' = disk /\ store' = store
    BY <1>3, ParseMoves
  <2>2. Scanned /\ run.calm
    BY <2>1 DEF Scanned
  <2>3. /\ \A q \in run.stale : disk[q] = None
        /\ \A q \in Handled :
             store["manifest"][q] = Yield("manifest", disk[q])
    BY <2>2 DEF MirrorInv
  <2>4. CASE run'.path = p /\ run'.content = disk[p]
    <3>1. Handled' \subseteq Handled
      <4>1. run.path = 0 /\ 0 \notin Paths
        BY <2>1 DEF ControlInv, Paths
      <4> QED
        BY <2>1, <2>4, <4>1 DEF Handled
    <3> QED
      BY <2>1, <2>3, <2>4, <3>1
  <2>5. CASE Unchanged(p, disk[p]) /\ run'.agenda = <<>>
             /\ run'.path = run.path
    <3>1. Handled' \subseteq Handled \cup {p}
      BY <2>1, <2>5 DEF Handled
    <3>2. store["manifest"][p] = Yield("manifest", disk[p])
      BY <2>1, <2>2, <2>5 DEF PreviousInv, Unchanged
    <3> QED
      BY <2>1, <2>3, <2>5, <3>1, <3>2 DEF Busy
  <2> QED
    BY <2>1, <2>4, <2>5
<1>4. CASE PurgeStale
  <2>1. PICK p \in run.stale :
           /\ run.pc \in {"file", "purge"} /\ ~Busy
           /\ run'.path = p /\ run'.calm = run.calm
           /\ run'.content = run.content
           /\ run'.left = run.left /\ run'.stale = run.stale \ {p}
           /\ disk' = disk /\ store' = store
    BY <1>4, PurgeMoves
  <2>2. Scanned /\ run.calm /\ run.path = 0 /\ run.content = None
    BY <2>1 DEF Scanned, ControlInv
  <2>3. Handled' \subseteq Handled
    <3>1. 0 \notin Paths
      BY DEF Paths
    <3> QED
      BY <2>1, <2>2, <3>1 DEF Handled
  <2> QED
    BY <2>1, <2>2, <2>3 DEF MirrorInv
<1>5. CASE Finish
  <2>1. /\ Scanned /\ run.calm /\ ~Busy /\ ~Busy'
        /\ Handled' = Handled /\ run'.stale = run.stale
        /\ disk' = disk /\ store' = store
    BY <1>5, FinishMoves DEF Scanned, Handled, Busy
  <2> QED
    BY <2>1 DEF MirrorInv
<1>6. CASE Edit
  BY <1>6, EditMoves DEF Scanned
<1>7. CASE Call
  <2>1. CASE run.pc = "clear"
    BY <1>7, <2>1, ClearCall DEF Scanned
  <2>2. CASE Purging \/ Rewriting
    <3>1. /\ Scanned /\ run.calm /\ disk' = disk
          /\ run'.left = run.left /\ run'.stale = run.stale
          /\ \A q \in Paths \ {run.path} :
               store'["manifest"][q] = store["manifest"][q]
          /\ Busy' => run'.path = run.path /\ run'.content = run.content
          /\ run.path \in Paths /\ Busy
      <4>1. "manifest" \in Stores
        BY DEF Stores
      <4>2. CASE Purging
        BY <1>7, <4>1, <4>2, PurgeCall DEF Scanned, Purging, ControlInv
      <4>3. CASE Rewriting
        BY <1>7, <4>1, <4>3, RewriteCall DEF Scanned, Rewriting, ControlInv
      <4> QED
        BY <2>2, <4>2, <4>3
    <3>2. /\ \A q \in run.stale : disk[q] = None
          /\ run.content = disk[run.path]
          /\ \A q \in Handled :
               store["manifest"][q] = Yield("manifest", disk[q])
      BY <3>1 DEF MirrorInv
    <3>3. CASE Busy'
      <4>1. Handled' = Handled /\ Handled \subseteq Paths \ {run.path}
        BY <3>1, <3>3 DEF Handled
      <4> QED
        BY <3>1, <3>2, <3>3, <4>1
    <3>4. CASE ~Busy'
      <4>1. Handled' \subseteq Handled \cup {run.path}
            /\ Handled \subseteq Paths \ {run.path}
        BY <3>1 DEF Handled
      <4>2. store'["manifest"][run.path] = Yield("manifest", disk[run.path])
        <5>1. CASE Purging
          <6>1. run.content = None /\ "manifest" \in Stores \ {"overlay"}
            BY <5>1 DEF ControlInv, Stores
          <6> QED
            BY <1>7, <3>2, <3>4, <5>1, <6>1, PurgeEnds DEF Yield
        <5>2. CASE Rewriting
          BY <1>7, <3>2, <3>4, <5>2, RewriteEnds
        <5> QED
          BY <2>2, <5>1, <5>2
      <4> QED
        BY <3>1, <3>2, <3>4, <4>1, <4>2
    <3> QED
      BY <3>3, <3>4
  <2> QED
    BY <1>7, <2>1, <2>2, BusyIs DEF Call, Busy
<1>8. CASE UNCHANGED vars
  BY <1>8 DEF vars, MirrorInv, Scanned, Handled, Busy
<1> QED
  BY <1>1, <1>2, <1>3, <1>4, <1>5, <1>6, <1>7, <1>8 DEF Next

\* Every step keeps what a calm rebuild has filled complete.
LEMMA RebuildStep ==
  ASSUME TypeOK, ControlInv, PathsInv, ClearInv, ExactInv, MirrorInv,
         RebuildInv, [Next]_vars
  PROVE  RebuildInv'
<1> SUFFICES ASSUME Scanned', run'.calm, run'.rebuild
             PROVE  /\ run'.stale = {} /\ ~old' /\ run'.pc # "purge"
                    /\ \A p \in run'.left, s \in Stores : store'[s][p] = {}
                    /\ \A p \in Paths : run'.previous[p] = {}
                    /\ \A p \in Paths \ (run'.left \cup {run'.path}),
                          s \in Stores : store'[s][p] = Yield(s, disk'[p])
  BY DEF RebuildInv
<1>1. CASE StartRun \/ Stop \/ CallFails
  BY <1>1, StartMoves, StopMoves, FailureMoves, SwallowMoves, IdleIs
     DEF Scanned
<1>2. CASE Scan
  <2>1. /\ ~old /\ \A s \in Stores : store[s] = Nothing
        /\ "manifest" \in Stores
    BY <1>2, ScanMoves DEF ClearInv, Stores
  <2>2. \A s \in Stores, p \in Paths : store[s][p] = {}
    BY <2>1 DEF Nothing
  <2>3. \A s : Yield(s, None) = {}
    BY DEF Yield
  <2>4. run'.left \subseteq Paths /\ \A p \in Paths \ run'.left : disk[p] = None
    BY <1>2, ScanMoves
  <2>5. /\ store' = store /\ disk' = disk /\ old' = old /\ run'.pc = "file"
        /\ run'.previous = store["manifest"]
        /\ run'.stale = {p \in Paths : /\ disk[p] = None
                                       /\ store["manifest"][p] # {}}
    BY <1>2, ScanMoves
  <2>6. run'.stale = {} /\ \A p \in Paths : run'.previous[p] = {}
    BY <2>1, <2>2, <2>5
  <2>7. \A p \in Paths \ (run'.left \cup {run'.path}), s \in Stores :
          store'[s][p] = Yield(s, disk'[p])
    BY <2>2, <2>3, <2>4, <2>5
  <2> QED
    BY <2>1, <2>2, <2>4, <2>5, <2>6, <2>7
<1>3. CASE ParseFile
  <2>1. PICK p \in run.left :
           /\ run.pc = "file" /\ ~Busy /\ run'.pc = "file"
           /\ run'.rebuild = run.rebuild /\ run'.previous = run.previous
           /\ run'.left = run.left \ {p} /\ run'.stale = run.stale
           /\ \/ disk[p] # None /\ Unchanged(p, disk[p])
                 /\ run'.calm = run.calm
              \/ run'.calm = run.calm /\ run'.path = p
           /\ disk' = disk /\ store' = store /\ old' = old
    BY <1>3, ParseMoves
  <2>2. Scanned /\ run.calm /\ run.rebuild
    BY <2>1 DEF Scanned
  <2>3. p \in Paths /\ run.left \subseteq Paths
    BY DEF TypeOK, Runs
  <2>4. run.previous[p] = {}
    BY <2>2, <2>3 DEF RebuildInv
  <2>5. ~(disk[p] # None /\ Unchanged(p, disk[p]))
    BY <2>4 DEF Unchanged, Yield
  <2>6. run'.path = p /\ run.path = 0 /\ 0 \notin Paths
    <3>1. run'.path = p
      BY <2>1, <2>5
    <3>2. run.path = 0 /\ 0 \notin Paths
      BY <2>1 DEF ControlInv, Paths
    <3> QED
      BY <3>1, <3>2
  <2>7. Paths \ (run'.left \cup {run'.path})
          \subseteq Paths \ (run.left \cup {run.path})
    BY <2>1, <2>6
  <2> QED
    BY <2>1, <2>2, <2>7 DEF RebuildInv
<1>4. CASE PurgeStale
  <2>1. Scanned /\ run.calm /\ run.rebuild /\ run.stale # {}
    BY <1>4, PurgeMoves DEF Scanned
  <2> QED
    BY <2>1 DEF RebuildInv
<1>5. CASE Finish
  <2>1. /\ Scanned /\ run.calm /\ run.rebuild
        /\ run'.pc = "done" /\ run'.path = run.path
        /\ run'.left = run.left /\ run'.stale = run.stale
        /\ run'.previous = run.previous
        /\ disk' = disk /\ store' = store /\ old' = old
    BY <1>5, FinishMoves DEF Scanned
  <2> QED
    BY <2>1 DEF RebuildInv
<1>6. CASE Edit
  BY <1>6, EditMoves DEF Scanned
<1>7. CASE Call
  <2>1. CASE run.pc = "clear"
    BY <1>7, <2>1, ClearCall DEF Scanned
  <2>2. CASE Purging
    <3>1. Scanned /\ run.calm /\ run.rebuild /\ run.pc = "purge"
      BY <1>7, <2>2, PurgeCall DEF Scanned, Purging
    <3> QED
      BY <3>1 DEF RebuildInv
  <2>3. CASE Rewriting
    <3>1. /\ Scanned /\ run.calm /\ run.rebuild /\ disk' = disk
          /\ run'.pc = "file" /\ run'.previous = run.previous
          /\ run'.left = run.left /\ run'.stale = run.stale
          /\ Busy' => run'.path = run.path
          /\ run.path \in Paths /\ Busy
          /\ ~old => ~old'
          /\ \A s \in Stores, q \in Paths \ {run.path} :
               ~old => store'[s][q] = store[s][q]
      <4>1. /\ run.pc = "file" /\ Busy /\ run.path \in Paths
        BY <2>3 DEF Rewriting, ControlInv
      <4>2. /\ run'.rebuild = run.rebuild /\ run'.calm = run.calm
            /\ disk' = disk /\ run'.pc = "file"
            /\ run'.previous = run.previous
            /\ run'.left = run.left /\ run'.stale = run.stale
            /\ Busy' => run'.path = run.path
            /\ ~old => ~old'
        BY <1>7, <2>3, RewriteCall
      <4>3. \A s \in Stores, q \in Paths \ {run.path} :
              ~old => store'[s][q] = store[s][q]
        BY <1>7, <2>3, RewriteCall
      <4> QED
        BY <4>1, <4>2, <4>3 DEF Scanned
    <3>2. /\ run.stale = {} /\ ~old
          /\ \A p \in run.left, s \in Stores : store[s][p] = {}
          /\ \A p \in Paths : run.previous[p] = {}
          /\ \A p \in Paths \ (run.left \cup {run.path}), s \in Stores :
               store[s][p] = Yield(s, disk[p])
      BY <3>1 DEF RebuildInv
    <3>3. run.left \subseteq Paths \ {run.path}
      BY <3>1 DEF PathsInv, TypeOK, Runs
    <3>4. CASE Busy'
      BY <3>1, <3>2, <3>3, <3>4
    <3>5. CASE ~Busy'
      <4>1. \A s \in Stores : store'[s][run.path] = Yield(s, run.content)
        BY <1>7, <2>3, <3>1, <3>5, RewriteEnds DEF FromEmpty
      <4>2. run.content = disk[run.path]
        BY <3>1 DEF MirrorInv
      <4> QED
        BY <3>1, <3>2, <3>3, <4>1, <4>2
    <3> QED
      BY <3>4, <3>5
  <2> QED
    BY <1>7, <2>1, <2>2, <2>3, BusyIs DEF Call, Busy
<1>8. CASE UNCHANGED vars
  BY <1>8 DEF vars, RebuildInv, Scanned
<1> QED
  BY <1>1, <1>2, <1>3, <1>4, <1>5, <1>6, <1>7, <1>8 DEF Next

\* The manifest entry that the run began with is not that of the file.
Changed(p) == run.previous[p] \notin {{}, Yield("manifest", disk[p])}

\* Every store holds of path p what its content yields.
Healed(p) ==
  \A s \in Stores : \/ s = "overlay" /\ disk[p] = None
                    \/ store[s][p] = Yield(s, disk[p])

\* A calm run has healed the files it found changed, and recreates no vector
\* table after the first of them.
RetryInv ==
  Scanned /\ run.calm =>
    \A p \in Handled :
      Changed(p) => Healed(p) /\ (run.pc = "file" => ~old)

\* Every step keeps what a calm run has healed.
LEMMA RetryStep ==
  ASSUME TypeOK, ControlInv, PathsInv, ExactInv, MirrorInv, RetryInv,
         [Next]_vars
  PROVE  RetryInv'
<1> SUFFICES ASSUME Scanned', run'.calm, NEW p \in Handled', Changed(p)'
             PROVE  Healed(p)' /\ (run'.pc = "file" => ~old')
  BY DEF RetryInv
<1>1. p \in Paths /\ p \notin run'.left /\ p \notin run'.stale /\ p # run'.path
  BY DEF Handled
<1>2. ASSUME Scanned, run.calm, p \in Handled, run'.previous = run.previous,
             disk' = disk, store' = store, old' = old,
             run'.pc = "file" => run.pc = "file"
      PROVE  Healed(p)' /\ (run'.pc = "file" => ~old')
  <2>1. Changed(p)
    BY <1>2 DEF Changed
  <2> QED
    BY <1>2, <2>1 DEF RetryInv, Healed
<1>3. CASE StartRun \/ Stop \/ CallFails
  BY <1>3, StartMoves, StopMoves, FailureMoves, SwallowMoves, IdleIs
     DEF Scanned
<1>4. CASE Scan
  BY <1>1, <1>4, ScanMoves DEF Changed
<1>5. CASE ParseFile
  <2>1. PICK q \in run.left :
           /\ run.pc = "file" /\ ~Busy /\ run'.calm = run.calm
           /\ run'.previous = run.previous
           /\ run'.left = run.left \ {q} /\ run'.stale = run.stale
           /\ \/ Unchanged(q, disk[q]) /\ run'.path = run.path
              \/ run'.path = q
           /\ disk' = disk /\ store' = store /\ old' = old
    BY <1>5, ParseMoves
  <2>2. p # q
    BY <1>1, <2>1 DEF Changed, Unchanged
  <2>3. p \in Handled
    BY <1>1, <2>1, <2>2 DEF Handled, ControlInv, Paths
  <2> QED
    BY <1>2, <2>1, <2>3 DEF Scanned
<1>6. CASE PurgeStale \/ Finish
  <2>1. /\ ~Busy /\ run'.calm = run.calm /\ run'.previous = run.previous
        /\ run.pc \in {"file", "purge"} /\ run'.pc # "file"
        /\ disk' = disk /\ store' = store /\ old' = old
        /\ run.left = {} /\ run.stale \subseteq run'.stale \cup {run'.path}
    BY <1>6, PurgeMoves, FinishMoves
  <2>2. p \in Handled
    BY <1>1, <2>1 DEF Handled, ControlInv, Paths
  <2> QED
    BY <1>2, <2>1, <2>2 DEF Scanned
<1>7. CASE Edit
  BY <1>7, EditMoves DEF Scanned
<1>8. CASE Call
  <2>1. CASE run.pc = "clear"
    BY <1>8, <2>1, ClearCall DEF Scanned
  <2>2. ASSUME Purging \/ Rewriting
        PROVE  /\ Scanned /\ run.calm /\ disk' = disk /\ Changed(p) /\ Busy
               /\ run'.previous = run.previous /\ run.path \in Paths
               /\ run'.left = run.left /\ run'.stale = run.stale
               /\ run'.pc = run.pc /\ (old' => old)
               /\ Busy' => run'.path = run.path
               /\ \A s \in Stores : p # run.path =>
                    (s # "vector" \/ ~old \/ Purging =>
                       store'[s][p] = store[s][p])
    <3>1. CASE Purging
      <4>1. /\ disk' = disk /\ run'.previous = run.previous
            /\ run'.left = run.left /\ run'.stale = run.stale
            /\ run'.pc = run.pc /\ run'.calm = run.calm /\ (old' => old)
            /\ Busy' => run'.path = run.path
        <5>1. run.pc = "purge"
          BY <3>1 DEF Purging
        <5>2. PICK s \in Stores \ {"overlay"} :
                /\ old' = old /\ run'.pc = "purge" /\ run'.calm = run.calm
                /\ run'.previous = run.previous
                /\ run'.left = run.left /\ run'.stale = run.stale
                /\ Busy' => run'.path = run.path /\ run'.content = run.content
                /\ UNCHANGED <<disk, edits, faults>>
          BY <1>8, <3>1, PurgeCall
        <5> QED
          BY <5>1, <5>2
      <4>2. \A s \in Stores : p # run.path => store'[s][p] = store[s][p]
        BY <1>1, <1>8, <3>1, PurgeCall
      <4> QED
        BY <3>1, <4>1, <4>2 DEF Purging, Scanned, Changed, ControlInv
    <3>2. CASE Rewriting
      <4>1. /\ disk' = disk /\ run'.previous = run.previous
            /\ run'.left = run.left /\ run'.stale = run.stale
            /\ run'.pc = run.pc /\ run'.calm = run.calm /\ (old' => old)
            /\ Busy' => run'.path = run.path
        BY <1>8, <3>2, RewriteCall DEF Rewriting
      <4>2. \A s \in Stores : p # run.path =>
              (s # "vector" \/ ~old => store'[s][p] = store[s][p])
        BY <1>1, <1>8, <3>2, RewriteCall
      <4> QED
        BY <3>2, <4>1, <4>2 DEF Rewriting, Purging, Scanned, Changed, ControlInv
    <3> QED
      BY <2>2, <3>1, <3>2
  <2>3. ASSUME Purging \/ Rewriting, p # run.path
        PROVE  Healed(p)' /\ (run'.pc = "file" => ~old')
    <3>1. p \in Handled
      BY <1>1, <2>2, <2>3 DEF Handled
    <3>2. Healed(p) /\ (run.pc = "file" => ~old)
      BY <2>2, <2>3, <3>1 DEF RetryInv
    <3>3. \A s \in Stores : store'[s][p] = store[s][p]
      BY <2>2, <2>3, <3>2 DEF Rewriting
    <3> QED
      BY <2>2, <2>3, <3>2, <3>3 DEF Healed
  <2>4. ASSUME Purging \/ Rewriting, p = run.path
        PROVE  ~Busy' /\ run.content = disk[p]
    BY <1>1, <2>2, <2>4 DEF MirrorInv
  <2>5. CASE Purging /\ p = run.path
    <3>1. disk[p] = None /\ disk' = disk /\ run'.pc # "file"
      BY <2>2, <2>4, <2>5 DEF ControlInv, Purging
    <3>2. \A s \in Stores \ {"overlay"} : store'[s][p] = {}
      BY <1>8, <2>4, <2>5, PurgeEnds
    <3> QED
      BY <3>1, <3>2 DEF Healed, Yield
  <2>6. CASE Rewriting /\ p = run.path
    <3>1. Known(run.path)
      BY <2>2, <2>6 DEF Changed, Known
    <3>2. \A s : FromEmpty(s)
      BY <2>2, <2>6, <3>1 DEF FromEmpty
    <3>3. ~old' /\ \A s \in Stores : store'[s][p] = Yield(s, disk[p])
      BY <1>8, <2>2, <2>4, <2>6, <3>2, RewriteEnds
    <3> QED
      BY <2>2, <2>6, <3>3 DEF Healed
  <2> QED
    BY <1>8, <2>1, <2>3, <2>5, <2>6, BusyIs DEF Call, Busy
<1>9. CASE UNCHANGED vars
  BY <1>2, <1>9 DEF vars, Scanned, Handled
<1> QED
  BY <1>3, <1>4, <1>5, <1>6, <1>7, <1>8, <1>9 DEF Next
-----------------------------------------------------------------------------
(* The theorems *)

\* The inductive invariant.
IngestInv ==
  /\ TypeOK /\ ControlInv /\ PathsInv /\ ClearInv /\ WrittenInv /\ ExactInv
  /\ PreviousInv /\ TruthInv /\ MirrorInv /\ RebuildInv /\ RetryInv

\* It holds on an empty home and on a complete index of an old schema.
LEMMA InitHolds ==
  ASSUME Init
  PROVE  IngestInv
<1>1. /\ run = Idle /\ run.pc = "idle" /\ run.agenda = <<>> /\ run.path = 0
      /\ run.content = None /\ run \in Runs /\ harm = {} /\ old \in BOOLEAN
      /\ disk \in [Paths -> Contents \cup {None}]
  BY IdleIs, IngestionAssumption DEF Init
<1>2. ~Busy /\ ~Rewriting /\ ~Purging /\ ~Scanned /\ Settled = Paths
  BY <1>1 DEF Busy, Rewriting, Purging, Scanned, Settled
<1>3. ASSUME NEW s \in Stores, NEW p \in Paths
      PROVE  store[s][p] = IF old THEN Yield(s, disk[p]) ELSE {}
  BY DEF Init, Nothing
<1>4. TypeOK
  <2>1. /\ edits \in 0..MaxEdits /\ faults \in 0..MaxFaults
        /\ harm \subseteq Harms
    BY IngestionAssumption DEF Init
  <2>2. ASSUME NEW s \in Stores
        PROVE  [p \in Paths |-> Yield(s, disk[p])] \in [Paths -> SUBSET Pieces]
    BY <1>1, YieldIs
  <2>3. Nothing \in [Paths -> SUBSET Pieces]
    BY DEF Nothing
  <2>4. store \in [Stores -> [Paths -> SUBSET Pieces]]
    <3> DEFINE at(s) == IF old THEN [p \in Paths |-> Yield(s, disk[p])]
                        ELSE Nothing
    <3>1. \A s \in Stores : at(s) \in [Paths -> SUBSET Pieces]
      BY <2>2, <2>3
    <3>2. store = [s \in Stores |-> at(s)]
      BY DEF Init
    <3> HIDE DEF at
    <3> QED
      BY <3>1, <3>2
  <2> QED
    BY <1>1, <2>1, <2>4 DEF TypeOK
<1>5. ControlInv /\ PathsInv /\ ClearInv
  BY <1>1, <1>2 DEF ControlInv, PathsInv, ClearInv
<1>6. TruthInv
  <2> SUFFICES ASSUME NEW p \in Paths, NEW s \in Stores
               PROVE  store[s][p] = ByManifest(s, p)
    BY <1>2 DEF TruthInv, Agrees
  <2>1. /\ store[s][p] = IF old THEN Yield(s, disk[p]) ELSE {}
        /\ store["manifest"][p] =
             IF old THEN Yield("manifest", disk[p]) ELSE {}
    <3>1. "manifest" \in Stores
      BY DEF Stores
    <3> QED
      BY <1>3, <3>1
  <2>2. CASE old /\ disk[p] # None
    <3>1. disk[p] \in Contents
      BY <1>1, <2>2
    <3> QED
      BY <2>1, <2>2, <3>1, Promised DEF ByManifest
  <2>3. CASE ~old \/ disk[p] = None
    <3>1. store[s][p] = {} /\ store["manifest"][p] = {}
      BY <2>1, <2>3 DEF Yield
    <3> QED
      BY <3>1 DEF ByManifest
  <2> QED
    BY <2>2, <2>3
<1>7. /\ WrittenInv /\ ExactInv /\ PreviousInv
      /\ MirrorInv /\ RebuildInv /\ RetryInv
  BY <1>2
  DEF WrittenInv, ExactInv, PreviousInv, MirrorInv, RebuildInv, RetryInv
<1> QED
  BY <1>4, <1>5, <1>6, <1>7 DEF IngestInv

\* Every step keeps it.
LEMMA IngestStep ==
  ASSUME IngestInv, [Next]_vars
  PROVE  IngestInv'
<1>1. TypeOK' /\ ControlInv' /\ PathsInv' /\ ClearInv' /\ WrittenInv'
  BY TypeStep, ControlStep, PathsStep, ClearStep, WrittenStep DEF IngestInv
<1>2. ExactInv' /\ PreviousInv'
  BY ExactStep, PreviousStep DEF IngestInv
<1>3. TruthInv'
  BY <1>1, TruthStep DEF IngestInv
<1>4. MirrorInv' /\ RebuildInv' /\ RetryInv'
  BY MirrorStep, RebuildStep, RetryStep DEF IngestInv
<1> QED
  BY <1>1, <1>2, <1>3, <1>4 DEF IngestInv

\* The inductive invariant holds in every state of an ingestion.
THEOREM IngestionInvariant == Spec => []IngestInv
<1>1. Init => IngestInv
  BY InitHolds
<1>2. IngestInv /\ [Next]_vars => IngestInv'
  BY IngestStep
<1> QED
  BY <1>1, <1>2, PTL DEF Spec

\* The variables have their types: no call is made for a path that is not
\* there, and no store is handed anything but pieces of contents.
THEOREM IngestionTypeCorrect == Spec => []TypeOK
<1>1. IngestInv => TypeOK
  BY DEF IngestInv
<1> QED
  BY <1>1, IngestionInvariant, PTL

\* As long as no call has failed, every store holds of every path exactly what
\* its manifest entry promises (DefaultIngestionPipeline.run), for any number of
\* paths, contents and batches, and however the sources change meanwhile.
THEOREM StoresAreTruthful == Spec => []Truthful
<1>1. IngestInv => Truthful
  BY DEF IngestInv, TruthInv, Truthful, Covered, Agrees
<1> QED
  BY <1>1, IngestionInvariant, PTL

\* Failures of the structured stores, which persistStructuredData swallows,
\* never cost chunks, symbols or observations.
THEOREM TextOutlivesStructure == Spec => []TextSurvives
<1>1. ASSUME TruthInv, harm \subseteq {"structured"},
             NEW p \in Settled, NEW s \in Stores \ Structured
      PROVE  store[s][p] = ByManifest(s, p)
  <2>1. Covered(s) /\ s # "overlay"
    BY <1>1 DEF Covered, Structured
  <2> QED
    BY <1>1, <2>1 DEF TruthInv, Agrees
<1>2. IngestInv => TextSurvives
  BY <1>1 DEF IngestInv, TextSurvives
<1> QED
  BY <1>2, IngestionInvariant, PTL

\* A run that ends cleanly has dealt with every path.
LEMMA CleanEndIs ==
  ASSUME IngestInv, CleanEnd
  PROVE  /\ Scanned /\ run.calm /\ Handled = Paths
         /\ run.left = {} /\ run.stale = {} /\ run.path \notin Paths
<1>1. /\ run.pc = "done" /\ Scanned /\ run.calm
      /\ run.left = {} /\ run.stale = {} /\ run.path = 0
  BY DEF CleanEnd, Scanned, IngestInv, PathsInv, ControlInv
<1>2. 0 \notin Paths
  BY DEF Paths
<1> QED
  BY <1>1, <1>2 DEF Handled

\* Whatever went wrong before, a run that ends cleanly leaves a manifest that
\* lists the sources with the contents they have.
THEOREM ManifestMirrorsDisk == Spec => []MirrorsDisk
<1>1. IngestInv => MirrorsDisk
  BY CleanEndIs DEF MirrorsDisk, IngestInv, MirrorInv
<1> QED
  BY <1>1, IngestionInvariant, PTL

\* Whatever went wrong before, a rebuild that ends cleanly leaves every store
\* as if the sources had been indexed for the first time.
THEOREM RebuildHealsEverything == Spec => []RebuildHeals
<1>1. IngestInv => RebuildHeals
  BY CleanEndIs DEF RebuildHeals, IngestInv, RebuildInv
<1> QED
  BY <1>1, IngestionInvariant, PTL

\* Whatever went wrong before, a clean run makes complete, in every store, the
\* files whose manifest entry differs from the sources.
THEOREM RetryHealsWhatFailed == Spec => []RetryHeals
<1>1. IngestInv => RetryHeals
  BY CleanEndIs DEF RetryHeals, IngestInv, RetryInv, Changed, Healed
<1> QED
  BY <1>1, IngestionInvariant, PTL

\* A step that gives a path a manifest entry.
LEMMA EntryStep ==
  ASSUME IngestInv, [Next]_vars, NEW p \in Paths,
         store'["manifest"][p] \notin {{}, store["manifest"][p]},
         NEW s \in {"vector", "symbols", "observations"}
  PROVE  Yield(s, run.content) \subseteq store[s][p]
<1>1. TypeOK /\ ControlInv /\ WrittenInv /\ "manifest" \in Stores
  BY DEF IngestInv, Stores
<1>2. ASSUME NEW op \in Op, store' \in AfterFailure(op)
      PROVE  FALSE
  <2>1. store'["manifest"] \in {store["manifest"], Nothing}
    BY <1>1, <1>2 DEF AfterFailure, TypeOK
  <2> QED
    BY <2>1 DEF Nothing
<1>3. CASE CallFails
  BY <1>1, <1>2, <1>3, FailureMoves
<1>4. CASE Stop
  <2>1. run.agenda # <<>> => Head(run.agenda) \in Op
    BY <1>1, HeadAndTail DEF TypeOK, Runs
  <2> QED
    BY <1>2, <1>4, <2>1 DEF Stop
<1>5. CASE Call /\ run.pc = "clear"
  BY <1>1, <1>5, ClearCall DEF Nothing, TypeOK
<1>6. CASE Call /\ Purging
  BY <1>1, <1>6, PurgeCall
<1>7. CASE Call /\ Rewriting
  <2>1. PICK op \in FileOps :
           /\ Todo = {op} \cup Todo'
           /\ \A t \in Stores :
                op.do = "embed" \/ t # op.in =>
                  store'[t][run.path] = store[t][run.path]
           /\ op.do = "erase" => store'[op.in][run.path] = {}
           /\ \A t \in Stores, q \in Paths \ {run.path} :
                t # "vector" \/ ~old \/ "schema" \notin harm' =>
                  store'[t][q] = store[t][q]
           /\ Busy' <=> op # Put("manifest", 1)
           /\ ~Busy' => Todo' = {}
    BY <1>1, <1>7, RewriteCall
  <2>2. p = run.path
    BY <1>1, <2>1
  <2>3. op.do = "put" /\ op.in = "manifest"
    BY <1>1, <2>1, <2>2, FileOpIs
  <2>4. op = Put("manifest", 1) /\ Todo = {Put("manifest", 1)}
    BY <2>1, <2>3, FileOpIs DEF Parts
  <2>5. Done(s) = Yield(s, run.content)
    <3>1. s \in Stores /\ s # "manifest" /\ run.content \in Contents
      BY <1>1, <1>7 DEF Stores, ControlInv
    <3> QED
      BY <2>4, <3>1, AllDone
  <2> QED
    BY <1>1, <1>7, <2>2, <2>5 DEF WrittenInv, Text
<1>8. CASE StartRun \/ Scan \/ ParseFile \/ PurgeStale \/ Finish \/ Edit
  BY <1>8 DEF StartRun, Scan, ParseFile, PurgeStale, Finish, Edit
<1>9. CASE UNCHANGED vars
  BY <1>9 DEF vars
<1>10. CASE Call
  BY <1>1, <1>5, <1>6, <1>7, <1>10, BusyIs DEF Call, Busy
<1> QED
  BY <1>3, <1>4, <1>8, <1>9, <1>10 DEF Next

\* A path gets a manifest entry only when its chunks, symbols and observations
\* have been written, even after failed calls and torn files.
THEOREM EntryFollowsText == Spec => ManifestAfterText
<1>1. IngestInv /\ [Next]_vars =>
        [\A p \in Paths :
           store'["manifest"][p] \notin {{}, store["manifest"][p]} =>
             \A s \in {"vector", "symbols", "observations"} :
               Yield(s, run.content) \subseteq store[s][p]]_vars
  BY EntryStep
<1> QED
  BY <1>1, IngestionInvariant, PTL DEF Spec, ManifestAfterText
=============================================================================
