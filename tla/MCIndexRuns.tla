---------------------------- MODULE MCIndexRuns ----------------------------
(***************************************************************************)
(* IndexRuns for TLC: the watcher, one of its callbacks, a caller of       *)
(* lkg.index and the startup recovery, each a model value.                 *)
(***************************************************************************)
EXTENDS IndexRuns

CONSTANTS watch, manual, h1, boot

\* Next, with checkpoints only in a run that has counted a failed file.
FaultNext ==
  \/ \E a \in Actors : Proceed(a) \/ WriteFails(a)
  \/ \E c \in Callers :
       \/ CallIndex(c) \/ RebuildClears(c) \/ FileFails(c)
       \/ short[c] /\ Checkpoint(c)
       \/ IngestFails(c)
  \/ \E h \in Handlers : Deliver(h) \/ WatchError(h)
  \/ DebounceFires \/ Edit \/ Crash \/ Start \/ LeaseEnds
FaultSpec == Init /\ [][FaultNext]_vars
=============================================================================
