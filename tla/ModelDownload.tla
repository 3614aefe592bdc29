--------------------------- MODULE ModelDownload ---------------------------
(***************************************************************************)
(* The embedding model: ensureContext of the adapter and ensureModelFile,  *)
(* called by several callers of one process, and by the processes of       *)
(* several projects, which share the directory of models                   *)
(* (llama-cpp-embedding-adapter.ts, download-model.ts).                    *)
(*                                                                         *)
(* Names refer to inodes: a writer keeps its file open while others unlink *)
(* or rename the name it was opened by.  An inode holds the blocks that    *)
(* have been written to it, each writer writing them in order.             *)
(***************************************************************************)
EXTENDS Naturals, FiniteSets

CONSTANTS
  Callers,       \* whoever embeds: index runs and searches
  Processes,     \* the daemons
  Homes,         \* Homes \subseteq [Callers -> Processes]: who is where
  Blocks,        \* the length of the model file
  MaxRedirects,  \* MAX_REDIRECTS
  MaxFaults      \* bound: failed calls and ends of processes

ASSUME DownloadAssumption ==
  /\ IsFiniteSet(Callers) /\ Homes \subseteq [Callers -> Processes]
  /\ Blocks \in Nat \ {0} /\ MaxRedirects \in Nat \ {0} /\ MaxFaults \in Nat

VARIABLES
  home,     \* home[c]: the process of caller c, the same for ever
  file,     \* file.part, file.model: the inode of each name, or NoFile
  data,     \* data[i]: the blocks that inode i holds
  get,      \* get[c]: how far caller c is: see Idle
  loaded,   \* the processes whose adapter has a context
  faults,   \* how much of the bound is used up
  overlapped, spoiled  \* history: see below
downloadVars == <<home, file, data, get, loaded, faults, overlapped, spoiled>>

NoFile == 0
Inodes == 1..(Cardinality(Callers) + 2)
Whole == 1..Blocks

\* pc: "idle", "want" (ensureContext has been called), "check", "request",
\* "write" to the open file fd of which at blocks are written, "load", and
\* then "have" or "failed".
Idle == [pc |-> "idle", hops |-> 0, fd |-> NoFile, at |-> 0]

\* Two downloads have been in progress at once; inodes that a writer has left
\* before the end.
Downloading(c) == get[c].pc \in {"request", "write"}

DownloadInit ==
  /\ home \in Homes
  /\ file = [part |-> NoFile, model |-> NoFile]
  /\ data = [i \in Inodes |-> {}]
  /\ get = [c \in Callers |-> Idle]
  /\ loaded = {} /\ faults = 0
  /\ overlapped = FALSE /\ spoiled = {}

Goes(c, pc) == get' = [get EXCEPT ![c] = [Idle EXCEPT !.pc = pc]]

\* The context that is there is returned.  What is on its way for another
\* caller is not: each goes on by itself.
EnsureContext(c) ==
  /\ get[c].pc = "want"
  /\ Goes(c, IF home[c] \in loaded THEN "have" ELSE "check")
  /\ UNCHANGED <<home, file, data, loaded, faults, overlapped, spoiled>>

\* A model file that is not empty is taken for the model; else what is left of
\* a download is removed and the request is made.
CheckModel(c) ==
  /\ get[c].pc = "check"
  /\ IF file.model # NoFile /\ data[file.model] # {}
     THEN Goes(c, "load") /\ UNCHANGED <<file, overlapped>>
     ELSE /\ Goes(c, "request")
          /\ file' = [file EXCEPT !.part = NoFile]
          /\ overlapped' = (overlapped \/ \E d \in Callers : Downloading(d))
  /\ UNCHANGED <<home, data, loaded, faults, spoiled>>

\* fail(): the name of the partial file is removed, whoever writes to it.
Fail(c) ==
  /\ get' = [get EXCEPT ![c] = [Idle EXCEPT !.pc = "failed", !.hops = get[c].hops]]
  /\ file' = [file EXCEPT !.part = NoFile]
  /\ spoiled' = spoiled \cup ({get[c].fd} \ {NoFile})
  /\ UNCHANGED <<home, data, loaded, overlapped>>

\* Variant: redirects are followed without end.
RedirectForever(c) ==
  /\ get[c].pc = "request" /\ get' = get
  /\ file' = [file EXCEPT !.part = NoFile]
  /\ UNCHANGED <<home, data, loaded, faults, overlapped, spoiled>>

\* The server redirects: another request, MAX_REDIRECTS times.
Redirect(c) ==
  /\ get[c].pc = "request"
  /\ IF get[c].hops >= MaxRedirects THEN Fail(c)
     ELSE /\ get' = [get EXCEPT ![c].hops = @ + 1]
          /\ UNCHANGED <<home, file, data, loaded, overlapped, spoiled>>
  /\ UNCHANGED faults

\* The answer comes: the partial file is created, or emptied if there is one
\* under its name.
Respond(c) ==
  LET used == {file.part, file.model} \cup {get[d].fd : d \in Callers}
      fresh == CHOOSE i \in Inodes \ used : TRUE
      opened == IF file.part = NoFile THEN fresh ELSE file.part
  IN /\ get[c].pc = "request"
     /\ get' = [get EXCEPT ![c].pc = "write", ![c].fd = opened]
     /\ file' = [file EXCEPT !.part = opened]
     /\ data' = [i \in Inodes |-> IF i \in used \ {opened} THEN data[i] ELSE {}]
     /\ spoiled' = spoiled \cap (used \ {opened})
     /\ UNCHANGED <<home, loaded, faults, overlapped>>

WriteBlock(c) ==
  /\ get[c].pc = "write" /\ get[c].at < Blocks
  /\ get' = [get EXCEPT ![c].at = @ + 1]
  /\ data' = [data EXCEPT ![get[c].fd] = @ \cup {get[c].at + 1}]
  /\ UNCHANGED <<home, file, loaded, faults, overlapped, spoiled>>

\* The request is refused, times out or breaks off, or the disk is full.
DownloadFails(c) ==
  /\ Downloading(c) /\ faults < MaxFaults
  /\ Fail(c)
  /\ faults' = faults + 1

\* The name of the partial file becomes that of the model; if somebody has
\* taken it away, the call fails.
Renamed(c) ==
  /\ IF file.part = NoFile THEN Goes(c, "failed") /\ UNCHANGED file
     ELSE /\ Goes(c, "load")
          /\ file' = [part |-> NoFile, model |-> file.part]
  /\ UNCHANGED <<home, data, loaded, faults, overlapped, spoiled>>

\* Variant: the end of the answer is taken for the end of the writing.
CompleteEarly(c) ==
  get[c].pc = "write" /\ get[c].at >= Blocks - 1 /\ Renamed(c)

Complete(c) ==
  get[c].pc = "write" /\ get[c].at = Blocks /\ Renamed(c)

\* The library loads a whole file and refuses another.
LoadModel(c) ==
  /\ get[c].pc = "load"
  /\ IF data[file.model] = Whole
     THEN Goes(c, "have") /\ loaded' = loaded \cup {home[c]}
     ELSE Goes(c, "failed") /\ UNCHANGED loaded
  /\ UNCHANGED <<home, file, data, faults, overlapped, spoiled>>

\* A process ends: its files are closed as they are.
EndDownloads(p) ==
  /\ get' = [c \in Callers |-> IF home[c] = p THEN Idle ELSE get[c]]
  /\ loaded' = loaded \ {p}
  /\ spoiled' = spoiled \cup
       ({get[c].fd : c \in {c \in Callers : home[c] = p}} \ {NoFile})
  /\ UNCHANGED <<home, file, data, overlapped>>

DownloadStep(c) ==
  \/ EnsureContext(c) \/ CheckModel(c) \/ Redirect(c) \/ Respond(c)
  \/ WriteBlock(c) \/ Complete(c) \/ LoadModel(c)

------------------------------------------------------------------------------
\* The file under the model's name is taken for the model by every later call,
\* so it should be whole.  It always is unless two downloads met; then it can
\* be the file that another is still writing, and it stays incomplete only if
\* that one gives up.
ModelWhole ==
  LET m == file.model
  IN (m # NoFile /\ data[m] # Whole) =>
       /\ overlapped
       /\ m \in spoiled \/ \E c \in Callers : get[c].pc = "write" /\ get[c].fd = m
=============================================================================
