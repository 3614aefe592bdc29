------------------------- MODULE SearchPathProofs --------------------------
(***************************************************************************)
(* Theorems about SearchPath, for any finite number of callers in any      *)
(* number of processes, and of files: the file under the name of the model *)
(* is whole unless two downloads have met; and what disturbs neither a     *)
(* search nor a run in the store.                                          *)
(***************************************************************************)
EXTENDS SearchPath, FiniteSetTheorems, SequenceTheorems, WellFoundedInduction, TLAPS

-----------------------------------------------------------------------------
(* The download of the model *)

\* How far a caller is with the download.
Downloads ==
  [pc : {"idle", "want", "check", "request", "write", "load", "have", "failed"},
   hops : 0..MaxRedirects, fd : Inodes \cup {NoFile}, at : 0..Blocks]

DownloadTypeOK ==
  /\ get \in [Callers -> Downloads]
  /\ file \in [part : Inodes \cup {NoFile}, model : Inodes \cup {NoFile}]
  /\ data \in [Inodes -> SUBSET Whole]
  /\ overlapped \in BOOLEAN /\ spoiled \subseteq Inodes
  /\ DOMAIN agenda = Callers

\* A caller is in ensureContext only while the first call on its agenda embeds.
InCall(c) ==
  get[c].pc # "idle" => agenda[c] # <<>> /\ Head(agenda[c]).do = "embed"

\* Who writes has a file open, and nobody else has.
Opens(c) ==
  /\ get[c].fd # NoFile <=> get[c].pc = "write"
  /\ get[c].pc # "write" => get[c].at = 0
CallersInv == \A c \in Callers : InCall(c) /\ Opens(c)

\* Caller c is writing to inode i, and nobody has emptied it since c began.
Fills(c, i) ==
  get[c].pc = "write" /\ get[c].fd = i /\ 1..get[c].at \subseteq data[i]

\* An inode is whole, is being filled, or its writer has given up.
Filled(i) == data[i] = Whole \/ i \in spoiled \/ \E c \in Callers : Fills(c, i)

FileInv ==
  /\ file.part # NoFile => file.part # file.model /\ Filled(file.part)
  /\ file.model # NoFile => Filled(file.model)

\* As long as no two downloads have met, there is one at a time; it makes its
\* request when the name of the partial file is free, and then writes all that
\* the file under this name holds.
AloneInv ==
  /\ \A b, c \in Callers : Downloading(b) /\ Downloading(c) => b = c
  /\ \A c \in Callers : get[c].pc = "request" => file.part = NoFile
  /\ \A c \in Callers : get[c].pc = "write" =>
       file.part = get[c].fd /\ data[get[c].fd] = 1..get[c].at
  /\ file.model # NoFile => data[file.model] = Whole

DownloadInv ==
  DownloadTypeOK /\ CallersInv /\ FileInv /\ (~overlapped => AloneInv)
-----------------------------------------------------------------------------
(* An inode is free *)

\* The inodes that a name or an open file refers to.
Used == {file.part, file.model} \cup {get[d].fd : d \in Callers}

\* There are enough inodes: the callers and the two names refer to no more than
\* there are, and who makes a request refers to none.
LEMMA InodeIsFree ==
  ASSUME DownloadTypeOK, NEW c \in Callers, get[c].fd = NoFile
  PROVE  Inodes \ Used # {}
<1> DEFINE fds == {get[d].fd : d \in Callers}
           fd == [d \in Callers |-> get[d].fd]
           n == Cardinality(Callers)
           withPart == fds \cup {file.part}
<1>1. IsFiniteSet(Callers)
  BY DownloadAssumption
<1>2. n \in Nat
  BY <1>1, FS_CardinalityType
<1>3. fd \in Surjection(Callers, fds)
  BY DEF Surjection
<1>4. Inodes = 1..(n + 2)
  BY DEF Inodes
<1>5. Used = withPart \cup {file.model} /\ NoFile \in Used
  BY DEF Used
<1> HIDE DEF fd, n
<1>6. IsFiniteSet(fds) /\ Cardinality(fds) <= n
  <2> HIDE DEF fds
  <2> QED
    BY <1>1, <1>3, FS_Surjection DEF n
<1>7. Cardinality(fds) \in Nat
  BY <1>6, FS_CardinalityType
<1> HIDE DEF fds
<1>8. IsFiniteSet(withPart) /\ Cardinality(withPart) <= n + 1
  BY <1>2, <1>6, <1>7, FS_AddElement
<1>9. Cardinality(withPart) \in Nat
  BY <1>8, FS_CardinalityType
<1> HIDE DEF withPart
<1>10. IsFiniteSet(Used) /\ Cardinality(Used) <= n + 2
  <2>1. /\ IsFiniteSet(withPart \cup {file.model})
        /\ Cardinality(withPart \cup {file.model}) <= n + 2
    BY <1>2, <1>8, <1>9, FS_AddElement
  <2> QED
    BY <1>5, <2>1
<1>11. Cardinality(Used) \in Nat
  BY <1>10, FS_CardinalityType
<1>12. Cardinality(0..(n + 2)) = n + 3
  BY <1>2, FS_Interval
<1>13. SUFFICES ASSUME Inodes \subseteq Used PROVE FALSE
  OBVIOUS
<1>14. 0..(n + 2) \subseteq Used
  <2>1. \A i \in 0..(n + 2) : i = 0 \/ i \in 1..(n + 2)
    BY <1>2
  <2> QED
    BY <1>4, <1>5, <1>13, <2>1 DEF NoFile
<1>15. Cardinality(0..(n + 2)) <= Cardinality(Used)
  BY <1>10, <1>14, FS_Subset
<1> QED
  BY <1>2, <1>10, <1>11, <1>12, <1>15
-----------------------------------------------------------------------------
(* What the steps do to the downloads *)

GetAt(c, g) == get'[c] = g /\ \A b \in Callers : b # c => get'[b] = get[b]

\* A caller that is not downloading, and goes on to something that is not a
\* download, changes no file.
LEMMA GoesKeeps ==
  ASSUME DownloadInv, NEW c \in Callers, ~Downloading(c),
         NEW p \in {"idle", "want", "check", "load", "have", "failed"},
         Goes(c, p), UNCHANGED <<file, data, overlapped, spoiled>>,
         DOMAIN agenda' = Callers, \A b \in Callers : InCall(b)'
  PROVE  DownloadInv'
<1> USE DownloadAssumption
<1>1. [Idle EXCEPT !.pc = p] \in Downloads
  BY DEF Idle, Downloads
<1>2. GetAt(c, [Idle EXCEPT !.pc = p]) /\ get' \in [Callers -> Downloads]
  BY <1>1 DEF Goes, GetAt, DownloadInv, DownloadTypeOK
<1>3. /\ get'[c].pc = p /\ get'[c].fd = NoFile /\ get'[c].at = 0
      /\ \A b \in Callers : b # c => get'[b] = get[b]
  BY <1>2 DEF GetAt, Idle
<1>4. DownloadTypeOK'
  BY <1>2 DEF DownloadInv, DownloadTypeOK
<1>5. CallersInv'
  BY <1>3 DEF DownloadInv, CallersInv, Opens
<1>6. \A i \in Inodes : Filled(i) => Filled(i)'
  BY <1>3 DEF Filled, Fills, Downloading
<1>7. FileInv'
  BY <1>6 DEF DownloadInv, DownloadTypeOK, FileInv
<1>8. ASSUME ~overlapped' PROVE AloneInv'
  BY <1>3, <1>8 DEF DownloadInv, AloneInv, Downloading
<1> QED
  BY <1>4, <1>5, <1>7, <1>8 DEF DownloadInv

\* A caller that fails leaves its inode as it is and removes the name of the
\* partial file.
LEMMA FailKeeps ==
  ASSUME DownloadInv, NEW c \in Callers, Downloading(c), Fail(c),
         UNCHANGED agenda
  PROVE  DownloadInv'
<1> USE DownloadAssumption
<1> DEFINE g == [Idle EXCEPT !.pc = "failed", !.hops = get[c].hops]
<1>1. get[c] \in Downloads
  BY DEF DownloadInv, DownloadTypeOK
<1>2. g \in Downloads
  <2>1. get[c].hops \in 0..MaxRedirects
    BY <1>1 DEF Downloads
  <2>2. [Idle EXCEPT !.pc = "failed"] \in Downloads
    BY DEF Idle, Downloads
  <2> QED
    BY <2>1, <2>2 DEF Downloads
<1>3. GetAt(c, g) /\ get' \in [Callers -> Downloads]
  BY <1>2 DEF Fail, GetAt, DownloadInv, DownloadTypeOK
<1>4. /\ get'[c].pc = "failed" /\ get'[c].fd = NoFile /\ get'[c].at = 0
      /\ \A b \in Callers : b # c => get'[b] = get[b]
  BY <1>3 DEF GetAt, Idle
<1>5. /\ file' \in [part : Inodes \cup {NoFile}, model : Inodes \cup {NoFile}]
      /\ file'.part = NoFile /\ file'.model = file.model
  BY DEF Fail, DownloadInv, DownloadTypeOK
<1>6. /\ spoiled' = spoiled \cup ({get[c].fd} \ {NoFile})
      /\ UNCHANGED <<data, overlapped, agenda>>
  BY DEF Fail
<1>7. DownloadTypeOK'
  BY <1>1, <1>3, <1>5, <1>6 DEF DownloadInv, DownloadTypeOK, Downloads
<1>8. CallersInv'
  BY <1>4, <1>6 DEF DownloadInv, CallersInv, Opens, InCall, Downloading
<1>9. \A i \in Inodes : Filled(i) => Filled(i)'
  <2> SUFFICES ASSUME NEW i \in Inodes, Filled(i) PROVE Filled(i)'
    OBVIOUS
  <2>1. CASE data[i] = Whole \/ i \in spoiled
    BY <1>6, <2>1 DEF Filled
  <2>2. ASSUME NEW b \in Callers, Fills(b, i) PROVE Filled(i)'
    <3>1. CASE b = c
      BY <1>6, <2>2, <3>1 DEF Filled, Fills, Inodes, NoFile
    <3>2. CASE b # c
      BY <1>4, <1>6, <2>2, <3>2 DEF Filled, Fills
    <3> QED
      BY <3>1, <3>2
  <2> QED
    BY <2>1, <2>2 DEF Filled
<1>10. FileInv'
  BY <1>5, <1>9 DEF DownloadInv, DownloadTypeOK, FileInv
<1>11. ASSUME ~overlapped' PROVE AloneInv'
  BY <1>4, <1>5, <1>6, <1>11 DEF DownloadInv, AloneInv, Downloading
<1> QED
  BY <1>7, <1>8, <1>10, <1>11 DEF DownloadInv

\* A caller finds a model file, or begins a download: if another is in
\* progress, they have met.
LEMMA CheckModelKeeps ==
  ASSUME DownloadInv, NEW c \in Callers, CheckModel(c), UNCHANGED agenda
  PROVE  DownloadInv'
<1> USE DownloadAssumption
<1>1. get[c].pc = "check" /\ UNCHANGED <<data, spoiled>>
  BY DEF CheckModel
<1>2. CASE Goes(c, "load") /\ UNCHANGED <<file, overlapped>>
  BY <1>1, <1>2, GoesKeeps
  DEF Downloading, DownloadInv, DownloadTypeOK, CallersInv, InCall, Goes
<1>3. CASE /\ Goes(c, "request") /\ file' = [file EXCEPT !.part = NoFile]
           /\ overlapped' = (overlapped \/ \E d \in Callers : Downloading(d))
  <2>1. [Idle EXCEPT !.pc = "request"] \in Downloads
    BY DEF Idle, Downloads
  <2>2. /\ GetAt(c, [Idle EXCEPT !.pc = "request"])
        /\ get' \in [Callers -> Downloads]
    BY <1>3, <2>1 DEF Goes, GetAt, DownloadInv, DownloadTypeOK
  <2>3. /\ get'[c].pc = "request" /\ get'[c].fd = NoFile /\ get'[c].at = 0
        /\ \A b \in Callers : b # c => get'[b] = get[b]
    BY <2>2 DEF GetAt, Idle
  <2>4. /\ file' \in [part : Inodes \cup {NoFile}, model : Inodes \cup {NoFile}]
        /\ file'.part = NoFile /\ file'.model = file.model
    BY <1>3 DEF DownloadInv, DownloadTypeOK
  <2>5. overlapped' \in BOOLEAN
    BY <1>3 DEF DownloadInv, DownloadTypeOK
  <2>6. DownloadTypeOK'
    BY <1>1, <2>2, <2>4, <2>5 DEF DownloadInv, DownloadTypeOK
  <2>7. CallersInv'
    BY <1>1, <2>3 DEF DownloadInv, CallersInv, Opens, InCall
  <2>8. \A i \in Inodes : Filled(i) => Filled(i)'
    BY <1>1, <2>3 DEF Filled, Fills
  <2>9. FileInv'
    BY <2>4, <2>8 DEF DownloadInv, DownloadTypeOK, FileInv
  <2>10. ASSUME ~overlapped' PROVE AloneInv'
    <3>1. ~overlapped /\ \A d \in Callers : ~Downloading(d)
      BY <1>3, <2>10
    <3> QED
      BY <1>1, <2>3, <2>4, <3>1 DEF DownloadInv, AloneInv, Downloading
  <2> QED
    BY <2>6, <2>7, <2>9, <2>10 DEF DownloadInv
<1> QED
  BY <1>2, <1>3 DEF CheckModel

\* A redirect counts, and the last one fails.
LEMMA RedirectKeeps ==
  ASSUME DownloadInv, NEW c \in Callers, Redirect(c), UNCHANGED agenda
  PROVE  DownloadInv'
<1> USE DownloadAssumption
<1>1. get[c].pc = "request" /\ get[c] \in Downloads
  BY DEF Redirect, DownloadInv, DownloadTypeOK
<1>2. CASE get[c].hops >= MaxRedirects
  BY <1>1, <1>2, FailKeeps DEF Redirect, Downloading
<1>3. CASE get[c].hops < MaxRedirects
  <2>1. /\ get' = [get EXCEPT ![c].hops = @ + 1]
        /\ UNCHANGED <<file, data, overlapped, spoiled>>
    BY <1>1, <1>3 DEF Redirect, Downloads
  <2>2. [get[c] EXCEPT !.hops = @ + 1] \in Downloads
    BY <1>1, <1>3 DEF Downloads
  <2>3. /\ GetAt(c, [get[c] EXCEPT !.hops = @ + 1])
        /\ get' \in [Callers -> Downloads]
    BY <2>1, <2>2 DEF GetAt, DownloadInv, DownloadTypeOK
  <2>4. \A b \in Callers : /\ get'[b].pc = get[b].pc /\ get'[b].fd = get[b].fd
                           /\ get'[b].at = get[b].at
    BY <1>1, <2>3 DEF GetAt, Downloads
  <2>5. DownloadTypeOK'
    BY <2>1, <2>3 DEF DownloadInv, DownloadTypeOK
  <2>6. CallersInv'
    BY <2>4 DEF DownloadInv, CallersInv, Opens, InCall
  <2>7. \A i \in Inodes : Filled(i) => Filled(i)'
    BY <2>1, <2>4 DEF Filled, Fills
  <2>8. FileInv'
    BY <2>1, <2>7 DEF DownloadInv, DownloadTypeOK, FileInv
  <2>9. ASSUME ~overlapped' PROVE AloneInv'
    BY <2>1, <2>4, <2>9 DEF DownloadInv, AloneInv, Downloading
  <2> QED
    BY <2>5, <2>6, <2>8, <2>9 DEF DownloadInv
<1> QED
  BY <1>1, <1>2, <1>3 DEF Downloads

\* The partial file is created from a free inode, or emptied; its writer is
\* now the one that fills it.
LEMMA RespondKeeps ==
  ASSUME DownloadInv, NEW c \in Callers, Respond(c), UNCHANGED agenda
  PROVE  DownloadInv'
<1> USE DownloadAssumption
<1> DEFINE fresh == CHOOSE i \in Inodes \ Used : TRUE
           opened == IF file.part = NoFile THEN fresh ELSE file.part
<1>1. get[c].pc = "request" /\ get[c] \in Downloads /\ Opens(c)
  BY DEF Respond, DownloadInv, DownloadTypeOK, CallersInv
<1>2. get[c].fd = NoFile /\ get[c].at = 0
  BY <1>1 DEF Opens
<1>3. fresh \in Inodes \ Used
  BY <1>2, InodeIsFree DEF DownloadInv
<1>4. /\ get' = [get EXCEPT ![c].pc = "write", ![c].fd = opened]
      /\ file' = [file EXCEPT !.part = opened]
      /\ data' = [i \in Inodes |->
                    IF i \in Used \ {opened} THEN data[i] ELSE {}]
      /\ spoiled' = spoiled \cap (Used \ {opened})
      /\ UNCHANGED overlapped
  BY DEF Respond, Used
<1>5. /\ opened \in Inodes /\ opened # file.model /\ opened # NoFile
      /\ file.part # NoFile => opened = file.part
      /\ file.part = NoFile => opened \notin Used
  BY <1>3 DEF DownloadInv, DownloadTypeOK, FileInv, Used, Inodes, NoFile
<1> HIDE DEF opened, fresh
<1>6. [get[c] EXCEPT !.pc = "write", !.fd = opened] \in Downloads
  BY <1>1, <1>5 DEF Downloads
<1>7. /\ GetAt(c, [get[c] EXCEPT !.pc = "write", !.fd = opened])
      /\ get' \in [Callers -> Downloads]
  BY <1>4, <1>6 DEF GetAt, DownloadInv, DownloadTypeOK
<1>8. /\ get'[c].pc = "write" /\ get'[c].fd = opened /\ get'[c].at = 0
      /\ \A b \in Callers : b # c => get'[b] = get[b]
  BY <1>1, <1>2, <1>7 DEF GetAt, Downloads
<1>9. /\ file' \in [part : Inodes \cup {NoFile}, model : Inodes \cup {NoFile}]
      /\ file'.part = opened /\ file'.model = file.model
  BY <1>4, <1>5 DEF DownloadInv, DownloadTypeOK
<1>10. data' \in [Inodes -> SUBSET Whole] /\ data'[opened] = {}
  BY <1>4, <1>5 DEF DownloadInv, DownloadTypeOK
<1>11. DownloadTypeOK'
  BY <1>4, <1>7, <1>9, <1>10 DEF DownloadInv, DownloadTypeOK
<1>12. CallersInv'
  BY <1>1, <1>5, <1>8 DEF DownloadInv, CallersInv, Opens, InCall
<1>13. file.model # NoFile =>
         /\ data'[file.model] = data[file.model]
         /\ file.model \in spoiled => file.model \in spoiled'
  BY <1>4, <1>5 DEF DownloadInv, DownloadTypeOK, Used
<1>14. file.model # NoFile => Filled(file.model)'
  BY <1>1, <1>8, <1>9, <1>13 DEF DownloadInv, FileInv, Filled, Fills
<1>15. Filled(file.part)'
  BY <1>8, <1>9 DEF Filled, Fills
<1>16. FileInv'
  BY <1>5, <1>9, <1>14, <1>15 DEF FileInv
<1>17. ASSUME ~overlapped' PROVE AloneInv'
  <2>1. AloneInv
    BY <1>4, <1>17 DEF DownloadInv
  <2>2. \A b \in Callers : b # c => ~Downloading(b)
    BY <1>1, <2>1 DEF AloneInv, Downloading
  <2>3. \A b \in Callers : Downloading(b)' => b = c
    BY <1>8, <2>2 DEF Downloading
  <2>4. \A b \in Callers : get'[b].pc # "request"
    BY <1>8, <2>3 DEF Downloading
  <2>5. data'[get'[c].fd] = 1..get'[c].at /\ file'.part = get'[c].fd
    <3>1. 1..0 = {}
      OBVIOUS
    <3> QED
      BY <1>8, <1>9, <1>10, <3>1
  <2>6. \A b \in Callers : get'[b].pc = "write" =>
          file'.part = get'[b].fd /\ data'[get'[b].fd] = 1..get'[b].at
    BY <2>3, <2>5 DEF Downloading
  <2>7. file'.model # NoFile => data'[file'.model] = Whole
    BY <1>9, <1>13, <2>1 DEF AloneInv
  <2> QED
    BY <2>3, <2>4, <2>6, <2>7 DEF AloneInv
<1> QED
  BY <1>11, <1>12, <1>16, <1>17 DEF DownloadInv

\* A block is written.
LEMMA WriteBlockKeeps ==
  ASSUME DownloadInv, NEW c \in Callers, WriteBlock(c), UNCHANGED agenda
  PROVE  DownloadInv'
<1> USE DownloadAssumption
<1> DEFINE g == [get[c] EXCEPT !.at = @ + 1]
           next == get[c].at + 1
<1>1. /\ get[c].pc = "write" /\ get[c].at < Blocks
      /\ get[c] \in Downloads /\ Opens(c)
      /\ UNCHANGED <<file, overlapped, spoiled>>
  BY DEF WriteBlock, DownloadInv, DownloadTypeOK, CallersInv
<1>2. get[c].fd \in Inodes /\ get[c].at \in Nat /\ next \in 0..Blocks
      /\ next \in Whole
  BY <1>1 DEF Downloads, Opens, Whole
<1>3. g \in Downloads
  BY <1>1, <1>2 DEF Downloads
<1>4. GetAt(c, g) /\ get' \in [Callers -> Downloads]
  BY <1>3 DEF WriteBlock, GetAt, DownloadInv, DownloadTypeOK
<1>5. /\ get'[c].pc = "write" /\ get'[c].fd = get[c].fd
      /\ get'[c].at = next
      /\ \A b \in Callers : b # c => get'[b] = get[b]
  BY <1>1, <1>4 DEF GetAt, Downloads
<1>6. /\ data' \in [Inodes -> SUBSET Whole]
      /\ data'[get[c].fd] = data[get[c].fd] \cup {next}
      /\ \A i \in Inodes : i # get[c].fd => data'[i] = data[i]
  BY <1>2 DEF WriteBlock, DownloadInv, DownloadTypeOK
<1>7. 1..next = (1..get[c].at) \cup {next}
  BY <1>2
<1> HIDE DEF g, next
<1>8. DownloadTypeOK'
  BY <1>1, <1>4, <1>6 DEF DownloadInv, DownloadTypeOK
<1>9. CallersInv'
  BY <1>1, <1>5 DEF DownloadInv, CallersInv, Opens, InCall
<1>10. \A i \in Inodes : Filled(i) => Filled(i)'
  <2> SUFFICES ASSUME NEW i \in Inodes, Filled(i) PROVE Filled(i)'
    OBVIOUS
  <2>1. data[i] \subseteq data'[i] /\ data'[i] \subseteq Whole
    BY <1>6
  <2>2. CASE data[i] = Whole \/ i \in spoiled
    BY <1>1, <2>1, <2>2 DEF Filled
  <2>3. ASSUME NEW b \in Callers, Fills(b, i) PROVE Filled(i)'
    <3>1. CASE b = c
      BY <1>5, <1>6, <1>7, <2>3, <3>1 DEF Filled, Fills
    <3>2. CASE b # c
      BY <1>5, <2>1, <2>3, <3>2 DEF Filled, Fills
    <3> QED
      BY <3>1, <3>2
  <2> QED
    BY <2>2, <2>3 DEF Filled
<1>11. FileInv'
  BY <1>1, <1>10 DEF DownloadInv, DownloadTypeOK, FileInv
<1>12. ASSUME ~overlapped' PROVE AloneInv'
  <2>1. AloneInv /\ \A b \in Callers : b # c => ~Downloading(b)
    BY <1>1, <1>12 DEF DownloadInv, AloneInv, Downloading
  <2>2. file.model # NoFile => file.model # get[c].fd
    BY <1>1, <2>1 DEF DownloadInv, FileInv, AloneInv, Opens
  <2>3. file.model # NoFile => data'[file.model] = data[file.model]
    BY <1>6, <2>2 DEF DownloadInv, DownloadTypeOK
  <2>4. data'[get[c].fd] = 1..next /\ file.part = get[c].fd
    BY <1>1, <1>6, <1>7, <2>1 DEF AloneInv
  <2> QED
    BY <1>1, <1>5, <2>1, <2>3, <2>4 DEF AloneInv, Downloading
<1> QED
  BY <1>8, <1>9, <1>11, <1>12 DEF DownloadInv

\* The partial file becomes the model: it is whole, unless it is that of
\* another who is still writing.
LEMMA CompleteKeeps ==
  ASSUME DownloadInv, NEW c \in Callers, Complete(c), UNCHANGED agenda
  PROVE  DownloadInv'
<1> USE DownloadAssumption
<1>1. /\ get[c].pc = "write" /\ get[c].at = Blocks
      /\ UNCHANGED <<data, overlapped, spoiled>>
  BY DEF Complete, Renamed
<1>2. PICK p \in {"load", "failed"} : Goes(c, p)
  BY DEF Complete, Renamed
<1>3. [Idle EXCEPT !.pc = p] \in Downloads
  BY DEF Idle, Downloads
<1>4. GetAt(c, [Idle EXCEPT !.pc = p]) /\ get' \in [Callers -> Downloads]
  BY <1>2, <1>3 DEF Goes, GetAt, DownloadInv, DownloadTypeOK
<1>5. /\ get'[c].pc = p /\ get'[c].fd = NoFile /\ get'[c].at = 0
      /\ \A b \in Callers : b # c => get'[b] = get[b]
  BY <1>4 DEF GetAt, Idle
<1>6. /\ file' \in [part : Inodes \cup {NoFile}, model : Inodes \cup {NoFile}]
      /\ file'.part = NoFile
      /\ file'.model = IF file.part = NoFile THEN file.model ELSE file.part
  BY DEF Complete, Renamed, DownloadInv, DownloadTypeOK
<1>7. DownloadTypeOK'
  BY <1>1, <1>4, <1>6 DEF DownloadInv, DownloadTypeOK
<1>8. CallersInv'
  BY <1>1, <1>5 DEF DownloadInv, CallersInv, Opens, InCall
<1>9. \A i \in Inodes : Filled(i) => Filled(i)'
  <2> SUFFICES ASSUME NEW i \in Inodes, Filled(i) PROVE Filled(i)'
    OBVIOUS
  <2>1. CASE data[i] = Whole \/ i \in spoiled
    BY <1>1, <2>1 DEF Filled
  <2>2. ASSUME NEW b \in Callers, Fills(b, i) PROVE Filled(i)'
    <3>1. CASE b = c
      BY <1>1, <2>2, <3>1 DEF Filled, Fills, Whole, DownloadInv, DownloadTypeOK
    <3>2. CASE b # c
      BY <1>1, <1>5, <2>2, <3>2 DEF Filled, Fills
    <3> QED
      BY <3>1, <3>2
  <2> QED
    BY <2>1, <2>2 DEF Filled
<1>10. FileInv'
  BY <1>6, <1>9 DEF DownloadInv, DownloadTypeOK, FileInv
<1>11. ASSUME ~overlapped' PROVE AloneInv'
  <2>1. AloneInv /\ \A b \in Callers : b # c => ~Downloading(b)
    BY <1>1, <1>11 DEF DownloadInv, AloneInv, Downloading
  <2>2. data[file.part] = Whole
    BY <1>1, <2>1 DEF AloneInv, Whole
  <2> QED
    BY <1>1, <1>5, <1>6, <2>1, <2>2 DEF AloneInv, Downloading
<1> QED
  BY <1>7, <1>8, <1>10, <1>11 DEF DownloadInv

\* The end of a process closes the files of its callers.
LEMMA EndDownloadsKeeps ==
  ASSUME DownloadInv, NEW p \in Processes, EndDownloads(p),
         agenda' = [c \in Callers |-> IF home[c] = p THEN <<>> ELSE agenda[c]]
  PROVE  DownloadInv'
<1> USE DownloadAssumption
<1>1. Idle \in Downloads
  BY DEF Idle, Downloads
<1>2. get' \in [Callers -> Downloads]
  BY <1>1 DEF EndDownloads, DownloadInv, DownloadTypeOK
<1>3. \A c \in Callers :
        /\ home[c] = p => /\ get'[c].pc = "idle" /\ get'[c].fd = NoFile
                          /\ get'[c].at = 0
        /\ home[c] # p => get'[c] = get[c] /\ agenda'[c] = agenda[c]
  BY DEF EndDownloads, Idle
<1>4. /\ UNCHANGED <<file, data, overlapped>> /\ spoiled \subseteq spoiled'
      /\ \A c \in Callers : home[c] = p =>
           get[c].fd = NoFile \/ get[c].fd \in spoiled'
  BY DEF EndDownloads
<1>5. spoiled' \subseteq Inodes
  BY DEF EndDownloads, DownloadInv, DownloadTypeOK, Downloads
<1>6. DownloadTypeOK'
  BY <1>2, <1>4, <1>5 DEF DownloadInv, DownloadTypeOK
<1>7. CallersInv'
  BY <1>3 DEF DownloadInv, CallersInv, Opens, InCall
<1>8. \A i \in Inodes : Filled(i) => Filled(i)'
  <2> SUFFICES ASSUME NEW i \in Inodes, Filled(i) PROVE Filled(i)'
    OBVIOUS
  <2>1. CASE data[i] = Whole \/ i \in spoiled
    BY <1>4, <2>1 DEF Filled
  <2>2. ASSUME NEW b \in Callers, Fills(b, i) PROVE Filled(i)'
    BY <1>3, <1>4, <2>2 DEF Filled, Fills, Inodes, NoFile
  <2> QED
    BY <2>1, <2>2 DEF Filled
<1>9. FileInv'
  BY <1>4, <1>8 DEF DownloadInv, DownloadTypeOK, FileInv
<1>10. ASSUME ~overlapped' PROVE AloneInv'
  <2>1. AloneInv
    BY <1>4, <1>10 DEF DownloadInv
  <2>2. \A c \in Callers : get'[c].pc \in {"request", "write"} =>
          get'[c] = get[c]
    BY <1>3
  <2> QED
    BY <1>4, <2>1, <2>2 DEF AloneInv, Downloading
<1> QED
  BY <1>6, <1>7, <1>9, <1>10 DEF DownloadInv
-----------------------------------------------------------------------------
(* The theorem *)

\* At first nobody downloads, and the directory of models is empty.
LEMMA InitEstablishes == Init => DownloadInv
<1> SUFFICES ASSUME Init PROVE DownloadInv
  OBVIOUS
<1> USE DownloadAssumption DEF Init, DownloadInit
<1>1. Idle \in Downloads
  BY DEF Idle, Downloads
<1>2. DownloadTypeOK
  BY <1>1 DEF DownloadTypeOK
<1>3. \A c \in Callers : get[c] = Idle
  OBVIOUS
<1>4. CallersInv
  BY <1>3 DEF CallersInv, InCall, Opens, Idle
<1>5. FileInv
  BY DEF FileInv
<1>6. AloneInv
  BY <1>3 DEF AloneInv, Downloading, Idle
<1> QED
  BY <1>2, <1>4, <1>5, <1>6 DEF DownloadInv

\* A caller that is between two calls goes on with its agenda.
LEMMA CallsKeep ==
  ASSUME DownloadInv, NEW c \in Callers, NEW calls, Calls(c, calls),
         get[c].pc \in {"idle", "have", "failed"}
  PROVE  DownloadInv'
<1> DEFINE first == IF calls = <<>> THEN Call("none", {}) ELSE Head(calls)
<1>1. /\ agenda' = [agenda EXCEPT ![c] = calls]
      /\ Goes(c, IF first.do = "embed" THEN "want" ELSE "idle")
      /\ UNCHANGED <<file, data, overlapped, spoiled>>
  BY DEF Calls
<1>2. DOMAIN agenda' = Callers /\ agenda'[c] = calls
      /\ \A b \in Callers : b # c => agenda'[b] = agenda[b]
  BY <1>1 DEF DownloadInv, DownloadTypeOK
<1>3. PICK p \in {"want", "idle"} :
        Goes(c, p) /\ (p = "want" => first.do = "embed")
  BY <1>1
<1>4. /\ get'[c].pc = p
      /\ \A b \in Callers : b # c => get'[b] = get[b]
  BY <1>3 DEF Goes, Idle, DownloadInv, DownloadTypeOK
<1>5. first.do = "embed" => calls # <<>> /\ Head(calls).do = "embed"
  BY DEF Call
<1> HIDE DEF first
<1>6. \A b \in Callers : InCall(b)'
  BY <1>2, <1>3, <1>4, <1>5 DEF InCall, DownloadInv, CallersInv
<1> QED
  BY <1>1, <1>2, <1>3, <1>6, GoesKeeps DEF Downloading

\* The steps of the store, and what leaves the downloads alone.
LEMMA OthersKeep ==
  ASSUME DownloadInv,
         UNCHANGED <<get, file, data, overlapped, spoiled, agenda>>
  PROVE  DownloadInv'
<1>1. DownloadTypeOK' /\ CallersInv'
  BY DEF DownloadInv, DownloadTypeOK, CallersInv, InCall, Opens
<1>2. \A i \in Inodes : Filled(i) => Filled(i)'
  BY DEF Filled, Fills
<1>3. FileInv'
  BY <1>2 DEF DownloadInv, DownloadTypeOK, FileInv
<1>4. AloneInv' <=> AloneInv
  BY DEF AloneInv, Downloading
<1> QED
  BY <1>1, <1>3, <1>4 DEF DownloadInv

\* Every step keeps the invariant.
LEMMA NextKeeps == DownloadInv /\ [Next]_vars => DownloadInv'
<1> SUFFICES ASSUME DownloadInv, [Next]_vars PROVE DownloadInv'
  OBVIOUS
<1>1. ASSUME NEW c \in Callers, NEW calls, Begun(c, calls)
      PROVE  DownloadInv'
  <2>1. get[c].pc = "idle"
    BY <1>1 DEF Begun, DownloadInv, CallersInv, InCall
  <2> QED
    BY <1>1, <2>1, CallsKeep DEF Begun
<1>2. CASE UNCHANGED vars
  BY <1>2, OthersKeep DEF vars, downloadVars, pathVars
<1>3. CASE StartRun
  BY <1>1, <1>3, SearchPathAssumption DEF StartRun
<1>4. ASSUME NEW c \in Callers, Ask(c) PROVE DownloadInv'
  BY <1>1, <1>2, <1>4 DEF Ask
<1>5. ASSUME NEW c \in Callers, CallReturns(c) \/ CallFailed(c)
      PROVE  DownloadInv'
  <2>1. PICK calls : Calls(c, calls)
    BY <1>5 DEF CallReturns, CallFailed
  <2>2. Ended(c) \in {"have", "done", "failed"}
    BY <1>5 DEF CallReturns, CallFailed
  <2>3. InCall(c) /\ get[c] \in Downloads
    BY DEF DownloadInv, CallersInv, DownloadTypeOK
  <2>4. get[c].pc \in {"idle", "have", "failed"}
    BY <2>2, <2>3 DEF Ended, InCall, Downloads
  <2> QED
    BY <2>1, <2>4, CallsKeep
<1>6. ASSUME NEW c \in Callers, Embeds(c) PROVE DownloadInv'
  <2>1. DownloadStep(c) /\ UNCHANGED agenda
    BY <1>6 DEF Embeds, pathVars
  <2>2. CASE EnsureContext(c)
    <3>1. PICK p \in {"have", "check"} : Goes(c, p)
      BY <2>2 DEF EnsureContext
    <3>2. /\ get[c].pc \notin {"idle", "request", "write"}
          /\ UNCHANGED <<file, data, overlapped, spoiled>>
      BY <2>2 DEF EnsureContext
    <3>3. DOMAIN agenda' = Callers /\ \A b \in Callers : InCall(b)'
      BY <2>1, <3>1, <3>2
      DEF Goes, InCall, DownloadInv, DownloadTypeOK, CallersInv
    <3> QED
      BY <3>1, <3>2, <3>3, GoesKeeps DEF Downloading
  <2>3. CASE LoadModel(c)
    <3>1. PICK p \in {"have", "failed"} : Goes(c, p)
      BY <2>3 DEF LoadModel
    <3>2. /\ get[c].pc \notin {"idle", "request", "write"}
          /\ UNCHANGED <<file, data, overlapped, spoiled>>
      BY <2>3 DEF LoadModel
    <3>3. DOMAIN agenda' = Callers /\ \A b \in Callers : InCall(b)'
      BY <2>1, <3>1, <3>2
      DEF Goes, InCall, DownloadInv, DownloadTypeOK, CallersInv
    <3> QED
      BY <3>1, <3>2, <3>3, GoesKeeps DEF Downloading
  <2> QED
    BY <2>1, <2>2, <2>3, CheckModelKeeps, RedirectKeeps, RespondKeeps,
       WriteBlockKeeps, CompleteKeeps DEF DownloadStep
<1>7. ASSUME NEW c \in Callers, Stores(c) PROVE DownloadInv'
  BY <1>7, OthersKeep DEF Stores, downloadVars, pathVars
<1>8. ASSUME NEW i \in Ids, Answers(i) PROVE DownloadInv'
  BY <1>8, OthersKeep DEF Answers, downloadVars, pathVars
<1>9. CASE StoreFails
  BY <1>9, OthersKeep DEF StoreFails
<1>10. CASE NetworkFails
  BY <1>10, FailKeeps DEF NetworkFails, DownloadFails
<1>11. ASSUME NEW p \in Processes, ProcessEnds(p) PROVE DownloadInv'
  BY <1>11, EndDownloadsKeeps DEF ProcessEnds
<1>12. ASSUME NEW c \in Callers, SearchThrows(c) PROVE DownloadInv'
  <2>1. PICK calls : Calls(c, calls)
    BY <1>12 DEF SearchThrows
  <2>2. InCall(c)
    BY DEF DownloadInv, CallersInv
  <2>3. get[c].pc = "idle"
    BY <1>12, <2>2 DEF SearchThrows, InCall
  <2> QED
    BY <2>1, <2>3, CallsKeep
<1> QED
  BY <1>2, <1>3, <1>4, <1>5, <1>6, <1>7, <1>8, <1>9, <1>10, <1>11,
     <1>12
  DEF Next, GoesOn

\* The inductive invariant holds in every reachable state.
THEOREM DownloadInvariant == Spec => []DownloadInv
  BY InitEstablishes, NextKeeps, PTL DEF Spec

\* The file under the name of the model, which every later call takes for the
\* model, is whole unless two downloads have met; and then it is the file that
\* one of them is still writing, unless that one has given up.
THEOREM ModelIsWhole == Spec => []ModelWhole
<1>1. DownloadInv => ModelWhole
  BY DEF DownloadInv, FileInv, AloneInv, Filled, Fills, ModelWhole
<1> QED
  BY <1>1, DownloadInvariant, PTL

-----------------------------------------------------------------------------
(* The vector store *)

AgendaCalls ==
  [do : {"embed", "clear", "delete", "upsert", "search"}, path : SUBSET Paths]
Ops ==
  [pc : {"idle", "names", "named", "await", "drop", "dropped", "done", "failed"},
   do : {"none", "clear", "delete", "upsert", "search"}, path : SUBSET Paths,
   has : BOOLEAN, on : Ids \cup {NoPromise}, again : {"no", "create", "recreate"},
   found : SUBSET Paths]
Promises ==
  [is : {"opening", "creating", "handle", "stale", "rejected"},
   of : SUBSET Paths]

StoreTypeOK ==
  /\ agenda \in [Callers -> Seq(AgendaCalls)]
  /\ op \in [Callers -> Ops] /\ promise \in [Ids -> Promises]
  /\ cached \in Ids \cup {NoPromise}
  /\ table \in BOOLEAN /\ old \in BOOLEAN
  /\ rows \subseteq Paths /\ kept \subseteq Paths /\ lost \subseteq Paths
  /\ calm \in [Callers -> BOOLEAN]
  /\ failed \in [Callers -> {"no", "call", "evidence"}]
  /\ due \in [Callers -> SUBSET Paths]
  /\ runs \in Nat

\* The promise is one of the table that is there.
Live(i) == promise[i].is \in {"opening", "handle"}

\* What the store does for c is the first call on the agenda of c.
InOp(c) ==
  IF agenda[c] = <<>> \/ Head(agenda[c]).do = "embed" THEN op[c] = NoCall
  ELSE /\ op[c].pc # "idle" /\ op[c].do = Head(agenda[c]).do
       /\ op[c].path = Head(agenda[c]).path

\* Searches search only, and only the store of their own daemon.
SearchesOnly(c, calls) ==
  \A i \in 1..Len(calls) :
    calls[i].do = "embed" \/ (calls[i].do = "search" /\ Local(c))

\* A run does not search, and clears the table at its beginning.
RunsOnly(calls) ==
  \A i \in 1..Len(calls) :
    calls[i].do # "search" /\ (i # 1 => calls[i].do # "clear")
RunInv == RunsOnly(agenda[Runner])

OpsInv ==
  /\ \A c \in Callers :
       /\ InOp(c)
       /\ op[c].pc = "await" => op[c].on # NoPromise
       /\ op[c].again # "no" => op[c].do = "upsert"
       /\ op[c].pc \in {"drop", "dropped"} => op[c].do # "search"
  /\ \A c \in Searchers : SearchesOnly(c, agenda[c])

\* Without a table there are no rows.  With one, what is cached of it is good.
\* Nobody creates one but the run, which awaits that.
TableInv ==
  /\ ~table => rows = {} /\ ~old
  /\ kept \ lost \subseteq rows
  /\ table /\ cached # NoPromise => Live(cached)
  /\ \A i \in Ids : promise[i].is = "creating" =>
       /\ op[Runner].pc = "await" /\ op[Runner].again = "create"
       /\ op[Runner].on = i

\* Nobody has dropped the table since c found it, or created another one.
Follows(c) ==
  /\ op[c].pc = "named" /\ op[c].has => table
  /\ op[c].pc = "await" /\ op[c].again # "create" => table /\ Live(op[c].on)

\* What o has reached on behalf of an upsert that creates the table, or a call
\* that drops it.
Creates(o) ==
  /\ o.again = "create" /\ o.pc \in {"names", "named"} => ~table
  /\ o.again = "create" /\ o.pc = "await" =>
       /\ o.on = cached
       /\ \/ promise[o.on] = Promise("creating", o.path) /\ ~table
          \/ /\ promise[o.on].is = "handle"
             /\ table /\ ~old /\ o.path \subseteq rows
          \/ promise[o.on].is = "rejected" /\ ~calm[Runner]
Drops(o) ==
  /\ o.again = "recreate" /\ o.pc \in {"names", "named", "await", "drop"} =>
       table /\ old
  /\ o.pc \in {"drop", "dropped"} => o.do = "clear" \/ o.again = "recreate"
  /\ o.pc = "drop" => table
  /\ o.pc = "dropped" => ~table
  /\ o.do = "clear" => o.pc # "await"
Done(o) ==
  o.pc = "done" /\ o.do = "upsert" => o.path \subseteq kept \ lost /\ ~old

\* The run alone changes the table, so it always knows of it what is true.
WriterInv ==
  /\ Follows(Runner) /\ Creates(op[Runner])
  /\ Drops(op[Runner]) /\ Done(op[Runner])
  /\ op[Runner].pc = "named" => op[Runner].has = table

\* No call of the store fails that nothing disturbs.  A search that none does
\* is not beside a run that drops the table.
NoneFails ==
  \A c \in Callers : calm[c] /\ connection # "rejected" => op[c].pc # "failed"
SearchInv ==
  \A c \in Searchers : calm[c] /\ agenda[c] # <<>> => ~Dropping /\ Follows(c)

\* What is due to c has been acknowledged and is in the table; without one,
\* nothing is.
DueInv ==
  /\ \A c \in Callers : due[c] \subseteq kept \ lost
  /\ \A c \in Searchers :
       /\ op[c].pc = "named" /\ ~op[c].has => due[c] = {}
       /\ op[c].pc = "done" => due[c] \subseteq op[c].found

\* As long as no two downloads have met, none fails but by its redirects.
EmbedInv ==
  \A c \in Callers :
    /\ get[c].pc = "load" => file.model # NoFile
    /\ calm[c] /\ ~overlapped /\ get[c].pc = "failed" => get[c].hops # 0
    /\ calm[c] /\ ~overlapped /\ connection # "rejected" => failed[c] # "call"

\* No run meets a row that has both kinds of location.
EvidenceInv ==
  \A c \in Callers : failed[c] = "evidence" => c # Runner /\ Odd # {}

\* The call removes the rows of file p.
Removes(call, p) ==
  call.do = "clear" \/ (call.do = "delete" /\ p \in call.path)

\* The run is still to store the rows of p, after it has had them removed; or
\* it has, and neither its calls nor the schema will have them removed again.
\* That is so for every file that it does not skip.
Ahead(p, calls) ==
  \E i \in 1..Len(calls) :
    /\ calls[i] = Call("upsert", {p})
    /\ \A j \in 1..Len(calls) : Removes(calls[j], p) => j < i
Stored(p) ==
  /\ p \in rows /\ p \notin lost /\ ~old
  /\ \A j \in 1..Len(agenda[Runner]) : ~Removes(agenda[Runner][j], p)
OwedInv ==
  calm[Runner] /\ ~overlapped /\ connection # "rejected" /\ runs > 0 =>
    \A p \in Paths \ skipped : Ahead(p, agenda[Runner]) \/ Stored(p)

StoreInv ==
  /\ StoreTypeOK /\ OpsInv /\ RunInv /\ TableInv /\ WriterInv /\ NoneFails
  /\ SearchInv /\ DueInv /\ EmbedInv /\ EvidenceInv /\ OwedInv
-----------------------------------------------------------------------------
(* What FlattenSeq returns *)

\* A set of numbers that is not empty has a least one.
LEMMA LeastNumber ==
  ASSUME NEW T \in SUBSET Nat, T # {}
  PROVE  \E m \in T : \A n \in T : m <= n
<1> DEFINE R == OpToRel(<, Nat)
<1>1. IsWellFoundedOn(R, Nat)
  BY NatLessThanWellFounded
<1>2. \E m \in T : \A n \in T : ~ (<<n, m>> \in R)
  BY <1>1, WFMin
<1>3. \A m, n \in T : <<n, m>> \notin R => m <= n
  BY DEF OpToRel
<1> QED
  BY <1>2, <1>3

\* The equation by which FlattenSeq is defined.
Flattens(f, s, n) ==
  f = [i \in 1..n |-> IF i = 1 THEN s[i] ELSE f[i - 1] \o s[i]]

\* It has a solution.
LEMMA FlattensExists ==
  ASSUME NEW S, NEW s \in Seq(Seq(S)), NEW n \in 1..Len(s)
  PROVE  \E f \in [1..n -> Seq(S)] : Flattens(f, s, n)
<1> DEFINE Has(m) == \E f \in [1..m -> Seq(S)] : Flattens(f, s, m)
           T == {m \in 1..Len(s) : ~Has(m)}
<1>1. Len(s) \in Nat /\ \A i \in 1..Len(s) : s[i] \in Seq(S)
  OBVIOUS
<1>2. SUFFICES ASSUME T # {} PROVE FALSE
  OBVIOUS
<1>3. PICK m \in T : \A k \in T : m <= k
  <2>1. T \in SUBSET Nat
    BY <1>1
  <2> HIDE DEF T
  <2> QED
    BY <1>2, <2>1, LeastNumber
<1>4. m \in 1..Len(s) /\ ~Has(m) /\ m \in Nat
  BY <1>1, <1>3
<1>5. CASE m = 1
  <2> DEFINE f == [i \in 1..1 |-> s[1]]
  <2>1. f \in [1..1 -> Seq(S)] /\ Flattens(f, s, 1)
    BY <1>1, <1>4, <1>5 DEF Flattens
  <2> QED
    BY <1>4, <1>5, <2>1
<1>6. CASE m > 1
  <2>1. m - 1 \in 1..Len(s)
    BY <1>1, <1>4, <1>6
  <2>2. Has(m - 1)
    <3>1. m - 1 \notin T
      <4> HIDE DEF T
      <4> QED
        BY <1>3, <1>4
    <3> QED
      BY <2>1, <3>1
  <2>3. PICK g \in [1..(m - 1) -> Seq(S)] : Flattens(g, s, m - 1)
    BY <2>2
  <2> DEFINE f == [i \in 1..m |-> IF i = m THEN g[m - 1] \o s[m] ELSE g[i]]
  <2>4. g[m - 1] \o s[m] \in Seq(S)
    BY <1>1, <1>4, <1>6, ConcatProperties
  <2>5. f \in [1..m -> Seq(S)]
    BY <1>1, <1>4, <2>4
  <2> HIDE DEF Has, T
  <2>6. \A i \in 1..(m - 1) : g[i] = IF i = 1 THEN s[i] ELSE g[i - 1] \o s[i]
    BY <2>3 DEF Flattens
  <2>7. \A i \in 1..m : f[i] = IF i = 1 THEN s[i] ELSE f[i - 1] \o s[i]
    <3> SUFFICES ASSUME NEW i \in 1..m
                 PROVE  f[i] = IF i = 1 THEN s[i] ELSE f[i - 1] \o s[i]
      OBVIOUS
    <3>1. \A k \in 1..m : f[k] = IF k = m THEN g[m - 1] \o s[m] ELSE g[k]
      OBVIOUS
    <3> HIDE DEF f
    <3>2. CASE i = m
      <4>1. m - 1 \in 1..m /\ m - 1 # m /\ m # 1
        BY <1>4, <1>6
      <4> QED
        BY <3>1, <3>2, <4>1
    <3>3. CASE i # m
      <4>1. i \in 1..(m - 1) /\ (i # 1 => i - 1 \in 1..m /\ i - 1 # m)
        BY <1>4, <3>3
      <4> QED
        BY <2>6, <3>1, <3>3, <4>1
    <3> QED
      BY <3>2, <3>3
  <2> HIDE DEF f
  <2>8. Flattens(f, s, m)
    BY <2>5, <2>7 DEF Flattens
  <2> QED
    BY <1>4, <2>5, <2>8 DEF Has
<1> QED
  BY <1>1, <1>4, <1>5, <1>6

\* What FlattenSeq returns.
LEMMA FlattenSeqUnfolds ==
  ASSUME NEW S, NEW s \in Seq(Seq(S)), Len(s) > 0
  PROVE  \E f \in [1..Len(s) -> Seq(S)] :
           Flattens(f, s, Len(s)) /\ FlattenSeq(s) = f[Len(s)]
<1> DEFINE n == Len(s)
           g == CHOOSE f : Flattens(f, s, n)
<1>1. n \in Nat /\ n \in 1..n /\ \A i \in 1..n : s[i] \in Seq(S)
  OBVIOUS
<1>2. PICK f \in [1..n -> Seq(S)] : Flattens(f, s, n)
  BY <1>1, FlattensExists
<1>3. Flattens(g, s, n)
  BY <1>2
<1>4. FlattenSeq(s) = g[n]
  BY DEF FlattenSeq, Flattens
<1> HIDE DEF g
<1>5. ASSUME {i \in 1..n : g[i] # f[i]} # {} PROVE FALSE
  <2> DEFINE T == {i \in 1..n : g[i] # f[i]}
  <2>1. PICK m \in T : \A k \in T : m <= k
    <3>1. T \in SUBSET Nat
      BY <1>1
    <3>2. T # {}
      BY <1>5
    <3> HIDE DEF T
    <3> QED
      BY <3>1, <3>2, LeastNumber
  <2>2. m \in 1..n /\ g[m] # f[m]
    BY <2>1
  <2>3. /\ g[m] = IF m = 1 THEN s[m] ELSE g[m - 1] \o s[m]
        /\ f[m] = IF m = 1 THEN s[m] ELSE f[m - 1] \o s[m]
    BY <1>2, <1>3, <2>2 DEF Flattens
  <2>4. m # 1 => m - 1 \in 1..n /\ m - 1 \notin T
    BY <1>1, <2>1, <2>2
  <2> QED
    BY <2>2, <2>3, <2>4
<1> QED
  BY <1>1, <1>2, <1>4, <1>5

-----------------------------------------------------------------------------
(* The agenda of a run *)

\* The last call for a file stores its rows, unless the file is skipped.
LEMMA FileCallsEnd ==
  ASSUME NEW p \in Paths, NEW entry
  PROVE  LET calls == FileCalls(p, entry)
         IN /\ calls \in Seq(AgendaCalls) /\ Len(calls) \in Nat
            /\ entry # "current" =>
                 Len(calls) # 0 /\ calls[Len(calls)] = Call("upsert", {p})
            /\ \A i \in 1..Len(calls) :
                 /\ calls[i].do \in {"delete", "embed", "upsert"}
                 /\ calls[i].path = {p}
<1> DEFINE d == Call("delete", {p})
           e == Call("embed", {p})
           u == Call("upsert", {p})
<1>1. /\ d \in AgendaCalls /\ d.do = "delete" /\ d.path = {p}
      /\ e \in AgendaCalls /\ e.do = "embed" /\ e.path = {p}
      /\ u \in AgendaCalls /\ u.do = "upsert" /\ u.path = {p}
  BY DEF Call, AgendaCalls
<1> HIDE DEF d, e, u
<1>2. entry # "current" => FileCalls(p, entry) =
        (IF entry = "outdated" THEN <<d>> ELSE <<>>) \o <<e, u>>
  BY DEF FileCalls, d, e, u
<1>3. CASE entry = "outdated"
  <2> DEFINE s == <<d>> \o <<e, u>>
  <2>1. FileCalls(p, entry) = s
    BY <1>2, <1>3
  <2>2. /\ <<d>> \in Seq(AgendaCalls) /\ <<e, u>> \in Seq(AgendaCalls)
        /\ Len(<<d>>) = 1 /\ Len(<<e, u>>) = 2
        /\ <<d>>[1] = d /\ <<e, u>>[1] = e /\ <<e, u>>[2] = u
    BY <1>1
  <2>3. /\ s \in Seq(AgendaCalls) /\ Len(s) = 3
        /\ s[1] = d /\ s[2] = e /\ s[3] = u
    BY <2>2, ConcatProperties
  <2> HIDE DEF s
  <2>4. \A i \in 1..Len(s) : i = 1 \/ i = 2 \/ i = 3
    BY <2>3
  <2>5. \A i \in 1..Len(s) : s[i] \in {d, e, u}
    BY <2>3, <2>4
  <2>6. s[Len(s)] = Call("upsert", {p})
    BY <2>3 DEF u
  <2>7. \A x \in {d, e, u} :
          x.do \in {"delete", "embed", "upsert"} /\ x.path = {p}
    BY <1>1
  <2> QED
    BY <2>1, <2>3, <2>5, <2>6, <2>7
<1>4. CASE entry \notin {"outdated", "current"}
  <2>1. FileCalls(p, entry) = <<e, u>>
    BY <1>2, <1>4
  <2> QED
    BY <1>1, <2>1 DEF u
<1>5. CASE entry = "current"
  <2>1. FileCalls(p, entry) = <<>>
    BY <1>5 DEF FileCalls
  <2>2. /\ <<>> \in Seq(AgendaCalls) /\ Len(<<>>) = 0
        /\ \A i \in 1..0 : FALSE
    OBVIOUS
  <2> QED
    BY <1>5, <2>1, <2>2
<1> QED
  BY <1>3, <1>4, <1>5

\* The files in the order of the run.
LEMMA FilesInOrder ==
  LET files == SetToSeq(Paths)
  IN /\ files \in Seq(Paths) /\ Len(files) = Cardinality(Paths)
     /\ \A i, j \in 1..Len(files) : files[i] = files[j] => i = j
     /\ \A p \in Paths : \E i \in 1..Len(files) : files[i] = p
<1> DEFINE n == Cardinality(Paths)
           Order(f) == f \in [1..n -> Paths] /\ IsInjective(f)
           files == CHOOSE f : Order(f)
<1>1. IsFiniteSet(Paths) /\ n \in Nat
  BY SearchPathAssumption, FS_CardinalityType
<1>2. IsFiniteSet(1..n) /\ Cardinality(1..n) = n
  BY <1>1, FS_Interval
<1>3. \E f : Order(f)
  <2>1. ExistsBijection(1..n, Paths)
    BY <1>1, <1>2, FS_SameCardinalityBij
  <2> QED
    BY <2>1 DEF ExistsBijection, Bijection, Injection
<1>4. Order(files)
  BY <1>3
<1>5. SetToSeq(Paths) = files
  BY DEF SetToSeq
<1> HIDE DEF files
<1>6. files \in Surjection(1..n, Paths)
  <2>1. files \in Injection(1..n, Paths)
    BY <1>4 DEF Injection
  <2> QED
    BY <1>1, <1>2, <2>1, FS_Injection
<1>7. files \in Seq(Paths) /\ Len(files) = n
  BY <1>1, <1>4
<1> QED
  BY <1>4, <1>5, <1>6, <1>7 DEF Surjection, IsInjective

\* What the calls for the files up to the m-th, one file after the other, look
\* like: each is for one of them, and the rows of each are stored last, if the
\* entries do not tell to skip it.
CallsFor(calls, files, m, entries) ==
  /\ calls \in Seq(AgendaCalls)
  /\ \A i \in 1..Len(calls) :
       /\ calls[i].do \in {"delete", "embed", "upsert"}
       /\ \E k \in 1..m : calls[i].path = {files[k]}
  /\ \A k \in 1..m : entries[files[k]] # "current" =>
       \E i \in 1..Len(calls) :
         /\ calls[i] = Call("upsert", {files[k]})
         /\ \A j \in 1..Len(calls) : Removes(calls[j], files[k]) => j < i

\* The calls for one more file come after those for the files before it.
LEMMA CallsForGrow ==
  ASSUME NEW files \in Seq(Paths), NEW m \in 1..Len(files), NEW before,
         \A i, j \in 1..Len(files) : files[i] = files[j] => i = j,
         NEW entries, CallsFor(before, files, m - 1, entries)
  PROVE  CallsFor(before \o FileCalls(files[m], entries[files[m]]), files, m,
                  entries)
<1> DEFINE p == files[m]
           new == FileCalls(p, entries[p])
           calls == before \o new
           b == Len(before)
           n == Len(new)
<1>1. p \in Paths /\ m \in Nat /\ Len(files) \in Nat
  OBVIOUS
<1>2. /\ new \in Seq(AgendaCalls) /\ n \in Nat
      /\ entries[p] # "current" => n # 0 /\ new[n] = Call("upsert", {p})
      /\ \A i \in 1..n : /\ new[i].do \in {"delete", "embed", "upsert"}
                         /\ new[i].path = {p}
  <2> DEFINE entry == entries[p]
  <2> HIDE DEF p, entry
  <2>1. LET s == FileCalls(p, entry)
        IN /\ s \in Seq(AgendaCalls) /\ Len(s) \in Nat
           /\ entry # "current" => Len(s) # 0 /\ s[Len(s)] = Call("upsert", {p})
           /\ \A i \in 1..Len(s) :
                /\ s[i].do \in {"delete", "embed", "upsert"}
                /\ s[i].path = {p}
    BY <1>1, FileCallsEnd
  <2> QED
    BY <2>1 DEF entry
<1>3. before \in Seq(AgendaCalls) /\ b \in Nat
  BY DEF CallsFor
<1> HIDE DEF new
<1>4. /\ calls \in Seq(AgendaCalls) /\ Len(calls) = b + n
      /\ \A i \in 1..(b + n) :
           calls[i] = IF i <= b THEN before[i] ELSE new[i - b]
  BY <1>2, <1>3, ConcatProperties
<1> HIDE DEF calls, b, n, p
<1> b \in Nat /\ n \in Nat
  BY <1>2, <1>3
<1>5. ASSUME NEW i \in 1..(b + n)
      PROVE  /\ calls[i].do \in {"delete", "embed", "upsert"}
             /\ \E k \in 1..m : calls[i].path = {files[k]}
  <2>1. CASE i <= b
    <3>1. i \in 1..b /\ calls[i] = before[i]
      BY <1>2, <1>3, <1>4, <2>1
    <3>2. PICK k \in 1..(m - 1) : before[i].path = {files[k]}
      BY <3>1 DEF CallsFor, b
    <3>3. k \in 1..m
      BY <1>1
    <3> QED
      BY <3>1, <3>2, <3>3 DEF CallsFor, b
  <2>2. CASE i > b
    <3>1. i - b \in 1..n /\ calls[i] = new[i - b]
      BY <1>2, <1>3, <1>4, <2>2
    <3>2. calls[i].do \in {"delete", "embed", "upsert"} /\ calls[i].path = {p}
      BY <1>2, <3>1
    <3>3. m \in 1..m
      BY <1>1
    <3> QED
      BY <3>2, <3>3 DEF p
  <2>3. i <= b \/ i > b
    OBVIOUS
  <2> QED
    BY <2>1, <2>2, <2>3
<1>6. ASSUME NEW k \in 1..m, entries[files[k]] # "current"
      PROVE  \E i \in 1..(b + n) :
               /\ calls[i] = Call("upsert", {files[k]})
               /\ \A j \in 1..(b + n) : Removes(calls[j], files[k]) => j < i
  <2>1. CASE k = m
    <3>0. n > 0
      BY <1>2, <1>6, <2>1 DEF p
    <3>1. calls[b + n] = Call("upsert", {p}) /\ b + n \in 1..(b + n)
      <4>1. ~(b + n <= b) /\ (b + n) - b = n
        BY <1>2, <1>3, <3>0
      <4>2. b + n \in 1..(b + n)
        BY <1>2, <1>3, <3>0
      <4> QED
        BY <1>2, <1>4, <1>6, <2>1, <4>1, <4>2 DEF p
    <3>2. ~Removes(calls[b + n], p)
      BY <3>1 DEF Removes, Call
    <3>3. \A j \in 1..(b + n) : Removes(calls[j], p) => j < b + n
      BY <3>2
    <3> QED
      BY <2>1, <3>1, <3>3 DEF p
  <2>2. CASE k # m
    <3>1. k \in 1..(m - 1) /\ files[k] # p
      BY <1>1, <2>2 DEF p
    <3>2. PICK i \in 1..b :
            /\ before[i] = Call("upsert", {files[k]})
            /\ \A j \in 1..b : Removes(before[j], files[k]) => j < i
      BY <1>6, <3>1 DEF CallsFor, b
    <3>3. i \in 1..(b + n) /\ calls[i] = before[i]
      BY <1>2, <1>3, <1>4
    <3>4. ASSUME NEW j \in 1..(b + n), Removes(calls[j], files[k])
          PROVE  j < i
      <4>1. CASE j <= b
        <5>1. j \in 1..b /\ calls[j] = before[j]
          BY <1>2, <1>3, <1>4, <4>1
        <5> QED
          BY <3>2, <3>4, <5>1
      <4>2. CASE j > b
        <5>1. j - b \in 1..n /\ calls[j] = new[j - b]
          BY <1>2, <1>3, <1>4, <4>2
        <5> QED
          BY <1>2, <3>1, <3>4, <5>1 DEF Removes
      <4> QED
        BY <4>1, <4>2
    <3> QED
      BY <3>2, <3>3, <3>4
  <2> QED
    BY <2>1, <2>2
<1> QED
  BY <1>4, <1>5, <1>6 DEF CallsFor, calls, new, p

\* The calls for all files have the rows of every file that is not skipped
\* stored after they have been removed, and neither clear nor search.
LEMMA FilesStored ==
  ASSUME NEW entries
  PROVE  LET calls == FilesCalls(entries)
         IN /\ calls \in Seq(AgendaCalls) /\ Len(calls) \in Nat
            /\ \A p \in Paths : entries[p] # "current" => Ahead(p, calls)
            /\ \A i \in 1..Len(calls) : calls[i].do \notin {"clear", "search"}
<1> DEFINE files == SetToSeq(Paths)
           entry(i) == entries[files[i]]
           blocks == [i \in DOMAIN files |-> FileCalls(files[i], entry(i))]
           n == Len(files)
           flat == FlattenSeq(blocks)
<1>1. FilesCalls(entries) = flat
  BY DEF FilesCalls
<1>2. /\ files \in Seq(Paths) /\ n \in Nat
      /\ \A i, j \in 1..n : files[i] = files[j] => i = j
      /\ \A p \in Paths : \E i \in 1..n : files[i] = p
  BY FilesInOrder
<1> HIDE DEF files
<1>3. DOMAIN files = 1..n /\ \A i \in 1..n : files[i] \in Paths
  BY <1>2
<1>4. /\ blocks \in Seq(Seq(AgendaCalls)) /\ Len(blocks) = n
      /\ \A i \in 1..n : blocks[i] = FileCalls(files[i], entry(i))
  <2>1. \A i \in 1..n : FileCalls(files[i], entry(i)) \in Seq(AgendaCalls)
    BY <1>3, FileCallsEnd
  <2>2. blocks \in [1..n -> Seq(AgendaCalls)]
    BY <1>3, <2>1
  <2> QED
    BY <1>2, <1>3, <2>2
<1>5. CallsFor(flat, files, n, entries)
  <2>1. CASE n = 0
    <3>1. flat = blocks /\ blocks = <<>>
      BY <1>4, <2>1 DEF FlattenSeq
    <3>2. CallsFor(<<>>, files, 0, entries)
      BY DEF CallsFor
    <3> HIDE DEF n, flat, blocks
    <3> QED
      BY <2>1, <3>1, <3>2
  <2>2. CASE n > 0
    <3> HIDE DEF blocks
    <3>1. PICK f \in [1..n -> Seq(AgendaCalls)] :
            Flattens(f, blocks, n) /\ flat = f[n]
      BY <1>4, <2>2, FlattenSeqUnfolds
    <3> HIDE DEF flat
    <3>2. \A i \in 1..n :
            f[i] = IF i = 1 THEN blocks[i] ELSE f[i - 1] \o blocks[i]
      BY <3>1 DEF Flattens
    <3> DEFINE T == {m \in 1..n : ~CallsFor(f[m], files, m, entries)}
    <3>3. ASSUME T # {} PROVE FALSE
      <4>1. T \in SUBSET Nat
        BY <1>2
      <4>2. PICK m \in T : \A k \in T : m <= k
        <5> HIDE DEF T
        <5> QED
          BY <3>3, <4>1, LeastNumber
      <4>3. m \in 1..n /\ m \in Nat /\ ~CallsFor(f[m], files, m, entries)
        BY <1>2, <4>2
      <4> DEFINE before == IF m = 1 THEN <<>> ELSE f[m - 1]
      <4>4. CallsFor(before, files, m - 1, entries)
        <5>1. CASE m = 1
          BY <5>1 DEF CallsFor
        <5>2. CASE m # 1
          <6>1. m - 1 \in 1..n /\ ~(m <= m - 1)
            BY <1>2, <4>3, <5>2
          <6>2. m - 1 \notin T
            BY <4>2, <6>1
          <6> QED
            BY <5>2, <6>1, <6>2
        <5> QED
          BY <5>1, <5>2
      <4>5. f[m] = before \o FileCalls(files[m], entries[files[m]])
        <5>1. CASE m = 1
          <6>1. FileCalls(files[m], entry(m)) \in Seq(AgendaCalls)
            BY <1>3, <4>3, FileCallsEnd
          <6> QED
            BY <1>4, <3>2, <4>3, <5>1, <6>1, ConcatEmptySeq
        <5>2. CASE m # 1
          BY <1>4, <3>2, <4>3, <5>2
        <5> QED
          BY <5>1, <5>2
      <4> HIDE DEF before, entry
      <4>6. CallsFor(before \o FileCalls(files[m], entries[files[m]]), files, m,
                entries)
        BY <1>2, <4>3, <4>4, CallsForGrow
      <4> QED
        BY <4>3, <4>5, <4>6
    <3> QED
      BY <1>2, <2>2, <3>1, <3>3
  <2> QED
    BY <1>2, <2>1, <2>2
<1> HIDE DEF blocks, flat
<1>6. flat \in Seq(AgendaCalls) /\ Len(flat) \in Nat
  BY <1>5 DEF CallsFor
<1>7. \A p \in Paths : entries[p] # "current" => \E i \in 1..Len(flat) :
        /\ flat[i] = Call("upsert", {p})
        /\ \A j \in 1..Len(flat) : Removes(flat[j], p) => j < i
  <2> SUFFICES ASSUME NEW p \in Paths, entries[p] # "current"
               PROVE  \E i \in 1..Len(flat) :
                        /\ flat[i] = Call("upsert", {p})
                        /\ \A j \in 1..Len(flat) : Removes(flat[j], p) => j < i
    OBVIOUS
  <2>1. PICK k \in 1..n : files[k] = p
    BY <1>2
  <2> HIDE DEF n
  <2>2. \E i \in 1..Len(flat) :
          /\ flat[i] = Call("upsert", {files[k]})
          /\ \A j \in 1..Len(flat) : Removes(flat[j], files[k]) => j < i
    BY <1>5, <2>1 DEF CallsFor
  <2> QED
    BY <2>1, <2>2
<1>8. \A i \in 1..Len(flat) : flat[i].do \notin {"clear", "search"}
  BY <1>5 DEF CallsFor
<1> QED
  BY <1>1, <1>6, <1>7, <1>8 DEF Ahead

\* A run has the rows of every file that it does not skip stored after it has
\* had them removed.  It clears the table first or not at all.
LEMMA RunStoresAll ==
  ASSUME NEW rebuild \in BOOLEAN, NEW entries
  PROVE  LET calls == RunCalls(rebuild, entries)
         IN /\ calls \in Seq(AgendaCalls) /\ RunsOnly(calls)
            /\ \A p \in Paths : rebuild \/ entries[p] # "current" =>
                 Ahead(p, calls)
            /\ ~rebuild => \A i \in 1..Len(calls) : calls[i].do # "clear"
<1> DEFINE none == [p \in Paths |-> "none"]
           flat == FilesCalls(IF rebuild THEN none ELSE entries)
           first == <<Call("clear", {})>>
           calls == first \o flat
<1>1. RunCalls(rebuild, entries) = IF rebuild THEN calls ELSE flat
  BY DEF RunCalls
<1>2. \A p \in Paths : none[p] # "current"
  OBVIOUS
<1> HIDE DEF none
<1>6. flat \in Seq(AgendaCalls) /\ Len(flat) \in Nat
  BY FilesStored
<1>7. \A p \in Paths : rebuild \/ entries[p] # "current" => Ahead(p, flat)
  BY <1>2, FilesStored
<1>5. \A i \in 1..Len(flat) : flat[i].do \notin {"clear", "search"}
  BY FilesStored
<1> HIDE DEF flat
<1>8. CASE ~rebuild
  BY <1>1, <1>5, <1>6, <1>7, <1>8 DEF RunsOnly
<1>9. CASE rebuild
  <2>1. Call("clear", {}) \in AgendaCalls /\ Call("clear", {}).do = "clear"
    BY DEF Call, AgendaCalls
  <2>2. first \in Seq(AgendaCalls) /\ Len(first) = 1 /\ first[1].do = "clear"
    BY <2>1
  <2> HIDE DEF first
  <2>3. /\ calls \in Seq(AgendaCalls) /\ Len(calls) = 1 + Len(flat)
        /\ calls[1].do = "clear"
        /\ \A i \in 2..(1 + Len(flat)) : calls[i] = flat[i - 1]
    <3>1. /\ calls \in Seq(AgendaCalls) /\ Len(calls) = Len(first) + Len(flat)
          /\ \A i \in 1..(Len(first) + Len(flat)) :
               calls[i] = IF i <= Len(first) THEN first[i]
                          ELSE flat[i - Len(first)]
      BY <1>6, <2>2, ConcatProperties
    <3> HIDE DEF calls
    <3> QED
      BY <1>6, <2>2, <3>1
  <2> HIDE DEF calls
  <2>4. ASSUME NEW p \in Paths
        PROVE  \E i \in 1..Len(calls) :
                 /\ calls[i] = Call("upsert", {p})
                 /\ \A j \in 1..Len(calls) : Removes(calls[j], p) => j < i
    <3>1. PICK i \in 1..Len(flat) :
            /\ flat[i] = Call("upsert", {p})
            /\ \A j \in 1..Len(flat) : Removes(flat[j], p) => j < i
      BY <1>7, <1>9 DEF Ahead
    <3>2. i + 1 \in 1..Len(calls) /\ calls[i + 1] = flat[i]
      BY <1>6, <2>3
    <3>3. ASSUME NEW j \in 1..Len(calls), Removes(calls[j], p), j # 1
          PROVE  j < i + 1
      <4>1. j - 1 \in 1..Len(flat) /\ calls[j] = flat[j - 1]
        BY <1>6, <2>3, <3>3
      <4>2. j - 1 < i
        BY <3>1, <3>3, <4>1
      <4> QED
        BY <1>6, <2>3, <4>2
    <3> QED
      BY <1>6, <2>3, <3>1, <3>2, <3>3
  <2>5. RunsOnly(calls)
    <3>1. ASSUME NEW i \in 1..Len(calls), i # 1
          PROVE  calls[i].do \notin {"clear", "search"}
      <4>1. i - 1 \in 1..Len(flat) /\ calls[i] = flat[i - 1]
        BY <1>6, <2>3, <3>1
      <4> QED
        BY <1>5, <4>1
    <3> QED
      BY <2>3, <3>1 DEF RunsOnly
  <2> QED
    BY <1>1, <1>9, <2>3, <2>4, <2>5 DEF Ahead
<1> QED
  BY <1>8, <1>9
-----------------------------------------------------------------------------
(* Promises and calls *)

\* There are enough ids: each caller refers to one promise, and so does the
\* cache.
LEMMA FreeIdIsFree ==
  ASSUME StoreTypeOK
  PROVE  /\ FreeId \in Ids /\ FreeId # cached /\ FreeId # NoPromise
         /\ \A u \in Callers : op[u].on # FreeId
<1> DEFINE refs == {op[u].on : u \in Callers}
           on == [u \in Callers |-> op[u].on]
           n == Cardinality(Callers)
           used == refs \cup {cached}
<1>1. IsFiniteSet(Callers) /\ n \in Nat
  BY DownloadAssumption, FS_CardinalityType
<1>2. on \in Surjection(Callers, refs)
  BY DEF Surjection
<1>3. Ids = 1..(n + 2)
  BY SearchPathAssumption DEF Ids
<1> HIDE DEF on, n
<1>4. IsFiniteSet(refs) /\ Cardinality(refs) <= n
  <2> HIDE DEF refs
  <2> QED
    BY <1>1, <1>2, FS_Surjection DEF n
<1>5. Cardinality(refs) \in Nat
  BY <1>4, FS_CardinalityType
<1>6. IsFiniteSet(used) /\ Cardinality(used) <= n + 1
  <2> HIDE DEF refs
  <2>1. /\ IsFiniteSet(refs \cup {cached})
        /\ \/ Cardinality(refs \cup {cached}) = Cardinality(refs)
           \/ Cardinality(refs \cup {cached}) = Cardinality(refs) + 1
    BY <1>4, FS_AddElement
  <2> QED
    BY <1>1, <1>4, <1>5, <2>1
<1>7. ASSUME Ids \subseteq used PROVE FALSE
  <2> HIDE DEF used
  <2>1. Cardinality(used) \in Nat
    BY <1>6, FS_CardinalityType
  <2>2. Cardinality(1..(n + 2)) = n + 2
    BY <1>1, FS_Interval
  <2>3. Cardinality(1..(n + 2)) <= Cardinality(used)
    BY <1>3, <1>6, <1>7, FS_Subset
  <2> QED
    BY <1>1, <1>6, <2>1, <2>2, <2>3
<1>8. \E i \in Ids : i # cached /\ \A u \in Users : op[u].on # i
  BY <1>7, SearchPathAssumption
<1>9. FreeId \in Ids /\ FreeId # cached /\ \A u \in Users : op[u].on # FreeId
  BY <1>8 DEF FreeId
<1>10. FreeId # NoPromise
  BY <1>1, <1>3, <1>9 DEF NoPromise
<1> QED
  BY <1>9, <1>10, SearchPathAssumption

\* One call changes.
OpAt(u, o) ==
  op'[u] = o /\ \A b \in Callers : b # u => op'[b] = op[b]

\* What a step on the store leaves alone, and what it does to what is due.
Elsewhere ==
  /\ UNCHANGED <<downloadVars, agenda, histVars>>
  /\ due' \in [Callers -> SUBSET Paths]
  /\ \A c \in Callers : due'[c] \subseteq due[c] \cap (kept' \ lost')

\* Which steps of the store change one call, and what of it.
LEMMA StepsAt ==
  ASSUME StoreTypeOK, NEW u \in Callers, NEW pc, Steps(u, pc),
         pc \in {"idle", "names", "named", "await", "drop", "dropped", "done",
                 "failed"}
  PROVE  /\ op' \in [Callers -> Ops] /\ OpAt(u, [op[u] EXCEPT !.pc = pc])
         /\ op'[u].pc = pc /\ op'[u].do = op[u].do /\ op'[u].path = op[u].path
         /\ op'[u].has = op[u].has /\ op'[u].on = op[u].on
         /\ op'[u].again = op[u].again /\ op'[u].found = op[u].found
<1>1. op[u] \in Ops
  BY DEF StoreTypeOK
<1>2. [op[u] EXCEPT !.pc = pc] \in Ops
  BY <1>1 DEF Ops
<1>3. op' = [op EXCEPT ![u].pc = pc]
  BY DEF Steps
<1>4. op' \in [Callers -> Ops] /\ OpAt(u, [op[u] EXCEPT !.pc = pc])
  BY <1>2, <1>3 DEF OpAt, StoreTypeOK
<1> QED
  BY <1>1, <1>4 DEF OpAt, Ops
-----------------------------------------------------------------------------
(* The calls of searches *)

\* What c has in the store is a search.
LEMMA SearcherSearches ==
  ASSUME StoreTypeOK, OpsInv, NEW c \in Searchers, op[c].pc # "idle"
  PROVE  /\ op[c].do = "search" /\ op[c].again = "no" /\ agenda[c] # <<>>
         /\ op[c].pc \notin {"drop", "dropped"} /\ Local(c)
<1>1. InOp(c) /\ SearchesOnly(c, agenda[c]) /\ c \in Callers
  BY DEF OpsInv, Searchers
<1>2. agenda[c] # <<>> /\ Head(agenda[c]).do # "embed"
      /\ op[c].do = Head(agenda[c]).do
  BY <1>1 DEF InOp, NoCall
<1>3. agenda[c] \in Seq(AgendaCalls)
  BY <1>1 DEF StoreTypeOK
<1>4. 1 \in 1..Len(agenda[c]) /\ Head(agenda[c]) = agenda[c][1]
  BY <1>2, <1>3
<1>5. Head(agenda[c]).do = "search" /\ Local(c)
  BY <1>1, <1>2, <1>4 DEF SearchesOnly
<1> QED
  BY <1>1, <1>2, <1>5 DEF OpsInv

\* Where a step on the store leads that changes nothing but one call, and
\* perhaps what is cached of the table.
Asks(o) ==
  \/ o.pc # "await" /\ UNCHANGED <<cached, promise>>
  \/ /\ o.pc = "await" /\ UNCHANGED <<cached, promise>>
     /\ o.on = cached /\ cached # NoPromise
  \/ /\ o.pc = "await" /\ cached = NoPromise
     /\ o.on = FreeId /\ cached' = FreeId
     /\ promise' = [promise EXCEPT ![FreeId] = Promise("opening", {})]
Looks(c, o) ==
  /\ op' \in [Callers -> Ops] /\ OpAt(c, o) /\ o \in Ops
  /\ o.do = op[c].do /\ o.again = op[c].again /\ o.path = op[c].path
  /\ o.pc \in {"named", "await", "done", "failed"}
  /\ UNCHANGED <<table, rows, old, kept, lost>> /\ Asks(o)
  /\ connection = "rejected" => connection' = "rejected"

\* A call that ends here.
LEMMA StepsLooks ==
  ASSUME StoreTypeOK, NEW c \in Callers, NEW pc \in {"done", "failed"},
         Steps(c, pc),
         UNCHANGED <<table, rows, old, connection, kept, lost, cached, promise>>
  PROVE  Looks(c, op'[c]) /\ op'[c].pc = pc
<1>1. /\ op' \in [Callers -> Ops] /\ OpAt(c, [op[c] EXCEPT !.pc = pc])
      /\ op'[c].pc = pc /\ op'[c].do = op[c].do /\ op'[c].path = op[c].path
      /\ op'[c].again = op[c].again
  BY StepsAt
<1>2. OpAt(c, op'[c]) /\ op'[c] \in Ops
  BY <1>1 DEF OpAt
<1> QED
  BY <1>1, <1>2 DEF Looks, Asks

\* The answer of getConnection and of the names.
LEMMA TableNamesLooks ==
  ASSUME StoreTypeOK, NEW c \in Callers, TableNames(c)
  PROVE  \E o \in Ops : /\ Looks(c, o)
                        /\ o.pc = "named" => o.has = table
                        /\ o.pc = "failed" => connection' = "rejected"
                        /\ o.pc \in {"named", "failed"}
<1> DEFINE pc == IF connection = "rejected" THEN "failed" ELSE "named"
           o == [op[c] EXCEPT !.pc = pc, !.has = table]
<1>1. op[c] \in Ops /\ table \in BOOLEAN
  BY DEF StoreTypeOK
<1>2. pc \in {"named", "failed"}
  OBVIOUS
<1>3. /\ o \in Ops /\ o.pc = pc /\ o.has = table /\ o.do = op[c].do
      /\ o.again = op[c].again /\ o.path = op[c].path
  BY <1>1, <1>2 DEF Ops
<1>4. op' \in [Callers -> Ops] /\ OpAt(c, o)
  BY <1>3 DEF TableNames, StoreTypeOK, OpAt
<1>5. Looks(c, o)
  BY <1>2, <1>3, <1>4 DEF TableNames, Looks, Asks
<1>6. pc = "failed" => connection' = "rejected"
  BY DEF TableNames
<1> HIDE DEF o, pc
<1> QED
  BY <1>2, <1>3, <1>5, <1>6

\* tablePromise is awaited: what is cached, or a new promise.
LEMMA HasTableLooks ==
  ASSUME StoreTypeOK, NEW c \in Callers, HasTable(c)
  PROVE  \E o \in Ops : Looks(c, o) /\ o.pc = "await"
<1> DEFINE on == IF cached = NoPromise THEN FreeId ELSE cached
           o == [op[c] EXCEPT !.pc = "await", !.on = on]
<1>1. op[c] \in Ops /\ on \in Ids
  BY FreeIdIsFree DEF StoreTypeOK
<1> HIDE DEF on
<1>2. /\ o \in Ops /\ o.pc = "await" /\ o.on = on /\ o.do = op[c].do
      /\ o.again = op[c].again /\ o.path = op[c].path
  BY <1>1 DEF Ops
<1>3. op' = [op EXCEPT ![c] = o]
  <2>1. CASE cached = NoPromise
    BY <2>1 DEF HasTable, Promised, on
  <2>2. CASE cached # NoPromise
    BY <2>2 DEF HasTable, on
  <2> QED
    BY <2>1, <2>2
<1> HIDE DEF o
<1>4. op' \in [Callers -> Ops] /\ OpAt(c, o)
  BY <1>2, <1>3 DEF StoreTypeOK, OpAt
<1>5. Asks(o)
  BY <1>2 DEF HasTable, Promised, Asks, on
<1>6. UNCHANGED <<table, rows, old, connection, kept, lost>>
  BY DEF HasTable
<1> QED
  BY <1>2, <1>4, <1>5, <1>6 DEF Looks

\* A step of a search, and where it leads if nothing disturbs the search.
LEMMA SearcherLooks ==
  ASSUME StoreInv, NEW c \in Searchers, TableStep(c)
  PROVE  \E o \in Ops :
           /\ Looks(c, o) /\ op[c].pc # "idle"
           /\ o.pc = "named" => o.has = table
           /\ o.pc = "done" => due[c] \subseteq o.found
           /\ Follows(c) =>
                /\ o.pc = "failed" => connection' = "rejected"
                /\ o.pc = "await" => table
<1>1. op[c].pc # "idle" /\ c \in Callers
  BY DEF TableStep, TableNames, NoTable, HasTable, AwaitFails, Created, UseTable,
         SchemaDrift, StartDrop, DropTable, Forget, Recreate, Settled, Searchers
<1>2. StoreTypeOK /\ OpsInv /\ TableInv /\ DueInv
  BY DEF StoreInv
<1>3. /\ op[c].do = "search" /\ op[c].again = "no"
      /\ op[c].pc \notin {"drop", "dropped"}
  BY <1>1, <1>2, SearcherSearches
<1>4. op[c] \in Ops
  BY <1>1, <1>2 DEF StoreTypeOK
<1>5. CASE TableNames(c)
  BY <1>1, <1>2, <1>5, TableNamesLooks
<1>6. CASE NoTable(c)
  <2>1. /\ Steps(c, "done") /\ UNCHANGED <<table, rows, old, connection, kept, lost>>
        /\ UNCHANGED <<cached, promise>> /\ op[c].pc = "named" /\ ~op[c].has
    BY <1>3, <1>6 DEF NoTable
  <2>2. due[c] = {}
    BY <1>2, <2>1 DEF DueInv
  <2>3. Looks(c, op'[c]) /\ op'[c].pc = "done"
    BY <1>1, <1>2, <2>1, StepsLooks
  <2> QED
    BY <1>1, <2>2, <2>3 DEF Looks
<1>7. CASE HasTable(c)
  <2>1. op[c].pc = "named" /\ op[c].has
    BY <1>7 DEF HasTable
  <2>2. Follows(c) => table
    BY <2>1 DEF Follows
  <2> QED
    BY <1>1, <1>2, <1>7, <2>2, HasTableLooks
<1>8. CASE AwaitFails(c)
  <2>1. /\ Steps(c, "failed") /\ UNCHANGED <<table, rows, old, connection, kept, lost>>
        /\ UNCHANGED <<cached, promise>> /\ op[c].pc = "await"
        /\ promise[op[c].on].is \in {"rejected", "stale"}
    BY <1>8 DEF AwaitFails, Settled
  <2>2. ~Follows(c)
    BY <1>3, <2>1 DEF Follows, Live
  <2>3. Looks(c, op'[c]) /\ op'[c].pc = "failed"
    BY <1>1, <1>2, <2>1, StepsLooks
  <2> QED
    BY <1>1, <2>2, <2>3 DEF Looks
<1>9. CASE UseTable(c)
  <2> DEFINE o == [op[c] EXCEPT !.pc = "done", !.found = rows]
  <2>1. /\ op' = [op EXCEPT ![c] = o]
        /\ UNCHANGED <<table, rows, old, connection, kept, lost, cached, promise>>
    BY <1>3, <1>9 DEF UseTable
  <2>2. /\ o \in Ops /\ o.pc = "done" /\ o.found = rows /\ o.do = op[c].do
        /\ o.again = op[c].again /\ o.path = op[c].path
    BY <1>2, <1>4 DEF Ops, StoreTypeOK
  <2> HIDE DEF o
  <2>3. op' \in [Callers -> Ops] /\ OpAt(c, o)
    BY <1>1, <1>2, <2>1, <2>2 DEF StoreTypeOK, OpAt
  <2>4. Looks(c, o)
    BY <2>1, <2>2, <2>3 DEF Looks, Asks
  <2> QED
    BY <1>1, <1>2, <2>2, <2>4 DEF TableInv, DueInv
<1> QED
  BY <1>3, <1>5, <1>6, <1>7, <1>8, <1>9
  DEF TableStep, Created, SchemaDrift, StartDrop, DropTable, Forget, Recreate

\* What does not concern the promise that d awaits leaves d where it is.
LEMMA FollowsKept ==
  ASSUME NEW d, Follows(d), op'[d] = op[d], table' = table,
         op[d].pc = "await" => promise'[op[d].on] = promise[op[d].on]
  PROVE  Follows(d)'
  BY DEF Follows, Live

\* So does what does not concern the run.
LEMMA WriterKept ==
  ASSUME WriterInv, op'[Runner] = op[Runner],
         UNCHANGED <<table, rows, old, kept, lost>>,
         calm'[Runner] => calm[Runner],
         op[Runner].pc = "await" =>
           /\ promise'[op[Runner].on] = promise[op[Runner].on]
           /\ op[Runner].again = "create" => cached' = cached
  PROVE  WriterInv'
<1>1. Follows(Runner)'
  BY FollowsKept DEF WriterInv
<1>2. Creates(op[Runner])' /\ Drops(op[Runner])' /\ Done(op[Runner])'
  BY DEF WriterInv, Creates, Drops, Done
<1> QED
  BY <1>1, <1>2 DEF WriterInv

\* The rows that a run still owes.
LEMMA OwedKept ==
  ASSUME OwedInv, UNCHANGED <<rows, lost, old, runs, skipped>>,
         agenda'[Runner] = agenda[Runner], calm'[Runner] => calm[Runner],
         overlapped => overlapped',
         connection = "rejected" => connection' = "rejected"
  PROVE  OwedInv'
  BY DEF OwedInv, Ahead, Stored

\* A search beside others and beside a run disturbs none of them.
LEMMA SearcherKeeps ==
  ASSUME StoreInv, NEW c \in Searchers, TableStep(c), Elsewhere
  PROVE  StoreInv'
<1> USE SearchPathAssumption
<1>1. PICK o \in Ops :
        /\ Looks(c, o) /\ op[c].pc # "idle"
        /\ o.pc = "named" => o.has = table
        /\ o.pc = "done" => due[c] \subseteq o.found
        /\ Follows(c) =>
             /\ o.pc = "failed" => connection' = "rejected"
             /\ o.pc = "await" => table
  BY SearcherLooks
<1>2. /\ StoreTypeOK /\ OpsInv /\ RunInv /\ TableInv /\ WriterInv /\ NoneFails
      /\ SearchInv /\ DueInv /\ EmbedInv /\ EvidenceInv /\ OwedInv
      /\ c \in Callers /\ c # Runner
  BY DEF StoreInv, Searchers
<1>3. /\ UNCHANGED <<home, get, file, overlapped, agenda, calm, failed, runs>>
      /\ UNCHANGED skipped
      /\ due' \in [Callers -> SUBSET Paths]
      /\ \A b \in Callers : due'[b] \subseteq due[b] \cap (kept' \ lost')
  BY DEF Elsewhere, downloadVars, histVars
<1>4. /\ op' \in [Callers -> Ops] /\ op'[c] = o
      /\ \A b \in Callers : b # c => op'[b] = op[b]
      /\ o.do = op[c].do /\ o.again = op[c].again /\ o.path = op[c].path
      /\ o.pc \in {"named", "await", "done", "failed"}
      /\ UNCHANGED <<table, rows, old, kept, lost>>
      /\ connection = "rejected" => connection' = "rejected"
  BY <1>1 DEF Looks, OpAt
<1>5. /\ FreeId \in Ids /\ FreeId # NoPromise /\ FreeId # cached
      /\ \A b \in Callers : op[b].on # FreeId
  BY <1>2, FreeIdIsFree
<1>6. /\ promise' \in [Ids -> Promises] /\ cached' \in Ids \cup {NoPromise}
      /\ \A i \in Ids : promise'[i] = promise[i] \/ promise'[i].is = "opening"
      /\ \A b \in Callers : op[b].pc = "await" =>
           promise'[op[b].on] = promise[op[b].on]
      /\ cached # NoPromise => cached' = cached
      /\ cached' # cached => promise'[cached'].is = "opening"
      /\ o.pc = "await" => o.on = cached' /\ cached' # NoPromise
  <2>1. Asks(o)
    BY <1>1 DEF Looks
  <2>2. CASE UNCHANGED <<cached, promise>>
    BY <1>2, <1>5, <2>1, <2>2 DEF StoreTypeOK, Asks
  <2>3. CASE /\ cached = NoPromise /\ cached' = FreeId /\ o.on = FreeId
             /\ promise' = [promise EXCEPT ![FreeId] = Promise("opening", {})]
    <3>1. /\ Promise("opening", {}) \in Promises
          /\ Promise("opening", {}).is = "opening"
      BY DEF Promise, Promises
    <3>2. /\ promise' \in [Ids -> Promises]
          /\ promise'[FreeId] = Promise("opening", {})
          /\ \A i \in Ids : i # FreeId => promise'[i] = promise[i]
      BY <1>2, <1>5, <2>3, <3>1 DEF StoreTypeOK
    <3>3. \A b \in Callers : op[b].pc = "await" => op[b].on \in Ids
      BY <1>2 DEF StoreTypeOK, OpsInv, Ops
    <3> QED
      BY <1>5, <2>3, <3>1, <3>2, <3>3
  <2> QED
    BY <2>1, <2>2, <2>3 DEF Asks
<1>7. StoreTypeOK'
  BY <1>2, <1>3, <1>4, <1>6 DEF StoreTypeOK
<1>8. OpsInv'
  <2>1. ASSUME NEW b \in Callers
        PROVE  /\ InOp(b)' /\ (op'[b].pc = "await" => op'[b].on # NoPromise)
               /\ op'[b].again # "no" => op'[b].do = "upsert"
               /\ op'[b].pc \in {"drop", "dropped"} => op'[b].do # "search"
    <3>1. CASE b = c
      BY <1>1, <1>2, <1>3, <1>4, <1>6, <3>1 DEF OpsInv, InOp, NoCall
    <3>2. CASE b # c
      BY <1>2, <1>3, <1>4, <3>2 DEF OpsInv, InOp
    <3> QED
      BY <3>1, <3>2
  <2>2. \A b \in Searchers : SearchesOnly(b, agenda[b])'
    BY <1>2, <1>3 DEF OpsInv, SearchesOnly, Local
  <2> QED
    BY <2>1, <2>2 DEF OpsInv
<1>9. TableInv'
  BY <1>2, <1>4, <1>6 DEF TableInv, Live
<1>10. WriterInv'
  <2>1. op[Runner].pc = "await" /\ op[Runner].again = "create" =>
          cached' = cached
    BY <1>2, <1>6 DEF WriterInv, Creates, OpsInv
  <2> QED
    BY <1>2, <1>3, <1>4, <1>6, <2>1, WriterKept
<1>11. SearchInv'
  <2> SUFFICES ASSUME NEW d \in Searchers, calm[d], agenda[d] # <<>>
               PROVE  ~Dropping' /\ Follows(d)'
    BY <1>3 DEF SearchInv
  <2>1. ~Dropping /\ Follows(d) /\ d \in Callers
    BY <1>2 DEF SearchInv, Searchers
  <2>0. ~Dropping'
    BY <1>3, <1>4, <2>1 DEF Dropping, Running
  <2>2. CASE d # c
    <3>1. Follows(d)'
      BY <1>4, <1>6, <2>1, <2>2, FollowsKept
    <3> QED
      BY <2>0, <3>1
  <2>3. CASE d = c
    <3>1. table /\ o.pc = "await" => Live(o.on)'
      BY <1>4, <1>6, <1>9 DEF TableInv
    <3> QED
      BY <1>1, <1>4, <2>0, <2>1, <2>3, <3>1 DEF Follows
  <2> QED
    BY <2>2, <2>3
<1>12. NoneFails'
  <2> SUFFICES ASSUME NEW d \in Callers, calm[d], connection' # "rejected"
               PROVE  op'[d].pc # "failed"
    BY <1>3 DEF NoneFails
  <2>1. CASE d # c
    BY <1>2, <1>4, <2>1 DEF NoneFails
  <2>2. CASE d = c
    <3>1. agenda[c] # <<>>
      BY <1>1, <1>2, SearcherSearches
    <3> QED
      BY <1>1, <1>2, <1>4, <2>2, <3>1 DEF SearchInv
  <2> QED
    BY <2>1, <2>2
<1>13. EmbedInv'
  BY <1>2, <1>3, <1>4 DEF EmbedInv
<1>14. OwedInv'
  BY <1>2, <1>3, <1>4, OwedKept
<1>15. DueInv'
  <2>1. o.pc = "named" /\ ~o.has => due[c] = {}
    BY <1>1, <1>2 DEF DueInv, TableInv
  <2> QED
    BY <1>1, <1>2, <1>3, <1>4, <2>1 DEF DueInv, Searchers
<1>16. RunInv' /\ EvidenceInv'
  BY <1>2, <1>3 DEF RunInv, EvidenceInv
<1> QED
  BY <1>7, <1>8, <1>9, <1>10, <1>11, <1>12, <1>13, <1>14, <1>15, <1>16
  DEF StoreInv
-----------------------------------------------------------------------------
(* The calls of the run *)

\* A step of the run that does not drop the table takes no promise from the
\* searches.
SparesSearches ==
  /\ table => table'
  /\ \A b \in Searchers :
       op[b].pc = "await" => promise'[op[b].on] = promise[op[b].on]

\* A call of the run disturbs no search that is undisturbed; what it does is
\* left to show of the run itself.
LEMMA RunKeeps ==
  ASSUME StoreInv, Elsewhere, op[Runner].pc # "idle",
         op' \in [Callers -> Ops], promise' \in [Ids -> Promises],
         cached' \in Ids \cup {NoPromise},
         table' \in BOOLEAN, old' \in BOOLEAN, old' => old,
         rows' \subseteq Paths, kept' \subseteq Paths, lost' \subseteq Paths,
         \A b \in Callers : b # Runner => op'[b] = op[b],
         op'[Runner].pc # "idle", op'[Runner].do = op[Runner].do,
         op'[Runner].path = op[Runner].path,
         op'[Runner].pc = "await" => op'[Runner].on # NoPromise,
         op'[Runner].again # "no" => op[Runner].do = "upsert",
         op'[Runner].pc = "failed" =>
           connection' = "rejected" \/ ~calm[Runner],
         connection = "rejected" => connection' = "rejected",
         TableInv', WriterInv', Dropping \/ SparesSearches,
         \A p \in Paths : Stored(p) => Stored(p)'
  PROVE  StoreInv'
<1> USE SearchPathAssumption
<1>1. /\ StoreTypeOK /\ OpsInv /\ RunInv /\ NoneFails /\ SearchInv /\ DueInv
      /\ EmbedInv /\ EvidenceInv /\ OwedInv
  BY DEF StoreInv
<1>2. /\ UNCHANGED <<home, get, file, overlapped, agenda, calm, failed, runs>>
      /\ UNCHANGED skipped
      /\ due' \in [Callers -> SUBSET Paths]
      /\ \A b \in Callers : due'[b] \subseteq due[b] \cap (kept' \ lost')
  BY DEF Elsewhere, downloadVars, histVars
<1>3. StoreTypeOK'
  BY <1>1, <1>2 DEF StoreTypeOK
<1>4. OpsInv'
  <2>1. ASSUME NEW b \in Callers
        PROVE  /\ InOp(b)' /\ (op'[b].pc = "await" => op'[b].on # NoPromise)
               /\ op'[b].again # "no" => op'[b].do = "upsert"
               /\ op'[b].pc \in {"drop", "dropped"} => op'[b].do # "search"
    <3>1. CASE b = Runner
      <4>1. InOp(Runner)'
        BY <1>1, <1>2, <3>1 DEF OpsInv, InOp, NoCall
      <4>2. op'[Runner].pc \in {"drop", "dropped"} => op'[Runner].do # "search"
        BY DEF WriterInv, Drops
      <4> QED
        BY <3>1, <4>1, <4>2
    <3>2. CASE b # Runner
      BY <1>1, <1>2, <3>2 DEF OpsInv, InOp
    <3> QED
      BY <3>1, <3>2
  <2>2. \A b \in Searchers : SearchesOnly(b, agenda[b])'
    BY <1>1, <1>2 DEF OpsInv, SearchesOnly, Local
  <2> QED
    BY <2>1, <2>2 DEF OpsInv
<1>5. DueInv'
  BY <1>1, <1>2 DEF DueInv, Searchers
<1>6. SearchInv'
  <2> SUFFICES ASSUME NEW d \in Searchers, calm[d], agenda[d] # <<>>
               PROVE  ~Dropping' /\ Follows(d)'
    BY <1>2 DEF SearchInv
  <2>1. ~Dropping /\ Follows(d) /\ op'[d] = op[d]
    BY <1>1 DEF SearchInv, Searchers
  <2>2. ~Dropping'
    BY <1>2, <2>1 DEF Dropping, Running
  <2>3. Follows(d)'
    BY <2>1 DEF SparesSearches, Follows, Live
  <2> QED
    BY <2>2, <2>3
<1>10. RunInv' /\ EvidenceInv'
  BY <1>1, <1>2 DEF RunInv, EvidenceInv
<1>7. NoneFails'
  BY <1>1, <1>2 DEF NoneFails
<1>8. EmbedInv'
  BY <1>1, <1>2 DEF EmbedInv
<1>9. OwedInv'
  BY <1>1, <1>2 DEF OwedInv, Ahead
<1> QED
  BY <1>3, <1>4, <1>5, <1>6, <1>7, <1>8, <1>9, <1>10 DEF StoreInv

\* The rows stay, and so does what has been stored of them.
LEMMA StoredKept ==
  ASSUME NEW p, Stored(p), agenda'[Runner] = agenda[Runner],
         UNCHANGED <<rows, old>>, lost' \subseteq lost
  PROVE  Stored(p)'
  BY DEF Stored

\* The facts about the run that its steps start from.
RunFacts ==
  /\ StoreTypeOK /\ OpsInv /\ TableInv /\ WriterInv
  /\ op[Runner] \in Ops /\ Runner \in Callers
  /\ op[Runner].again # "no" => op[Runner].do = "upsert"
  /\ agenda'[Runner] = agenda[Runner] /\ calm' = calm

\* They hold before each of its steps.
LEMMA RunFactsHold ==
  ASSUME StoreInv, Elsewhere
  PROVE  RunFacts
  BY SearchPathAssumption
  DEF StoreInv, RunFacts, OpsInv, StoreTypeOK, Elsewhere, histVars

\* The run learns whether there is a table.
LEMMA RunTableNames ==
  ASSUME StoreInv, Elsewhere, TableNames(Runner)
  PROVE  StoreInv'
<1>1. RunFacts
  BY RunFactsHold
<1>2. PICK o \in Ops : /\ Looks(Runner, o)
                       /\ o.pc = "named" => o.has = table
                       /\ o.pc = "failed" => connection' = "rejected"
                       /\ o.pc \in {"named", "failed"}
  BY <1>1, TableNamesLooks DEF RunFacts
<1>3. /\ op[Runner].pc = "names" /\ UNCHANGED <<cached, promise>>
      /\ UNCHANGED <<table, rows, old, kept, lost>>
  BY DEF TableNames
<1>4. /\ op' \in [Callers -> Ops] /\ op'[Runner] = o
      /\ \A b \in Callers : b # Runner => op'[b] = op[b]
      /\ o.do = op[Runner].do /\ o.again = op[Runner].again
      /\ o.path = op[Runner].path
      /\ connection = "rejected" => connection' = "rejected"
  BY <1>2 DEF Looks, OpAt
<1>5. TableInv'
  BY <1>1, <1>3 DEF RunFacts, TableInv, Live
<1>6. WriterInv'
  BY <1>1, <1>2, <1>3, <1>4 DEF RunFacts, WriterInv, Follows, Creates, Drops, Done
<1>7. \A p \in Paths : Stored(p) => Stored(p)'
  BY <1>1, <1>3, StoredKept DEF RunFacts
<1>8. SparesSearches
  BY <1>3 DEF SparesSearches
<1> QED
  BY <1>1, <1>2, <1>3, <1>4, <1>5, <1>6, <1>7, <1>8, RunKeeps
  DEF RunFacts, StoreTypeOK

\* The run awaits a promise of the table that is there.
LEMMA RunHasTable ==
  ASSUME StoreInv, Elsewhere, HasTable(Runner)
  PROVE  StoreInv'
<1>1. RunFacts
  BY RunFactsHold
<1>2. PICK o \in Ops : Looks(Runner, o) /\ o.pc = "await"
  BY <1>1, HasTableLooks DEF RunFacts
<1>3. /\ op[Runner].pc = "named" /\ op[Runner].has /\ op[Runner].do # "clear"
      /\ UNCHANGED <<table, rows, old, connection, kept, lost>>
  BY DEF HasTable
<1>4. table /\ op[Runner].again # "create"
  BY <1>1, <1>3 DEF RunFacts, WriterInv, Follows, Creates
<1>5. /\ op' \in [Callers -> Ops] /\ op'[Runner] = o
      /\ \A b \in Callers : b # Runner => op'[b] = op[b]
      /\ o.do = op[Runner].do /\ o.again = op[Runner].again
      /\ o.path = op[Runner].path /\ Asks(o)
  BY <1>2 DEF Looks, OpAt
<1>6. /\ FreeId \in Ids /\ FreeId # NoPromise /\ FreeId # cached
      /\ \A b \in Callers : op[b].on # FreeId
  BY <1>1, FreeIdIsFree DEF RunFacts
<1>7. /\ promise' \in [Ids -> Promises] /\ cached' \in Ids /\ o.on = cached'
      /\ cached' # NoPromise /\ Live(cached)'
      /\ \A i \in Ids : promise'[i] = promise[i] \/ promise'[i].is = "opening"
  <2>1. CASE cached # NoPromise
    <3>1. UNCHANGED <<cached, promise>> /\ o.on = cached
      BY <1>2, <1>5, <2>1 DEF Asks
    <3> QED
      BY <1>1, <1>4, <2>1, <3>1 DEF RunFacts, StoreTypeOK, TableInv, Live
  <2>2. CASE cached = NoPromise
    <3>1. /\ o.on = FreeId /\ cached' = FreeId
          /\ promise' = [promise EXCEPT ![FreeId] = Promise("opening", {})]
      BY <1>2, <1>5, <2>2 DEF Asks
    <3>2. /\ Promise("opening", {}) \in Promises
          /\ Promise("opening", {}).is = "opening"
      BY DEF Promise, Promises
    <3> QED
      BY <1>1, <1>6, <3>1, <3>2 DEF RunFacts, StoreTypeOK, Live
  <2> QED
    BY <2>1, <2>2
<1>8. TableInv'
  BY <1>1, <1>3, <1>4, <1>7 DEF RunFacts, TableInv
<1>9. WriterInv'
  BY <1>1, <1>2, <1>3, <1>4, <1>5, <1>7
  DEF RunFacts, WriterInv, Follows, Creates, Drops, Done, Live
<1>10. \A p \in Paths : Stored(p) => Stored(p)'
  BY <1>1, <1>3, StoredKept DEF RunFacts
<1>11. SparesSearches
  BY <1>1, <1>3, <1>5, <1>6
  DEF SparesSearches, Asks, RunFacts, StoreTypeOK, OpsInv, Ops, Searchers
<1> QED
  BY <1>1, <1>2, <1>3, <1>5, <1>7, <1>8, <1>9, <1>10, <1>11, RunKeeps
  DEF RunFacts, StoreTypeOK

\* A new promise to create the table, from the rows at hand.
LEMMA RunCreates ==
  ASSUME StoreInv, Elsewhere, NEW o, o \in Ops,
         Promised(Runner, Promise("creating", op[Runner].path), o),
         op[Runner].pc \in {"named", "dropped"}, op[Runner].do = "upsert", ~table,
         o.again = "create", o.do = op[Runner].do, o.path = op[Runner].path,
         UNCHANGED <<table, rows, old, connection, kept, lost>>
  PROVE  StoreInv'
<1> DEFINE new == [o EXCEPT !.pc = "await", !.on = FreeId]
           create == Promise("creating", op[Runner].path)
<1>1. RunFacts
  BY RunFactsHold
<1>2. /\ FreeId \in Ids /\ FreeId # NoPromise /\ FreeId # cached
      /\ \A b \in Callers : op[b].on # FreeId
  BY <1>1, FreeIdIsFree DEF RunFacts
<1>3. create \in Promises /\ create.is = "creating"
  BY <1>1 DEF RunFacts, Promise, Promises, Ops
<1>4. /\ promise' \in [Ids -> Promises] /\ promise'[FreeId] = create
      /\ \A i \in Ids : i # FreeId => promise'[i] = promise[i]
      /\ cached' = FreeId
  BY <1>1, <1>2, <1>3 DEF Promised, RunFacts, StoreTypeOK
<1>5. /\ new \in Ops /\ new.pc = "await" /\ new.on = FreeId
      /\ new.again = "create" /\ new.do = op[Runner].do
      /\ new.path = op[Runner].path
  BY <1>2 DEF Ops
<1>6. op' = [op EXCEPT ![Runner] = new]
  BY DEF Promised
<1> HIDE DEF new
<1>7. /\ op' \in [Callers -> Ops] /\ op'[Runner] = new
      /\ \A b \in Callers : b # Runner => op'[b] = op[b]
  BY <1>1, <1>5, <1>6 DEF RunFacts, StoreTypeOK
<1>8. \A i \in Ids : i # FreeId => promise'[i].is # "creating"
  BY <1>1, <1>4 DEF RunFacts, TableInv
<1>9. TableInv'
  BY <1>1, <1>5, <1>7, <1>8 DEF RunFacts, TableInv
<1>10. WriterInv'
  BY <1>1, <1>4, <1>5, <1>7
  DEF RunFacts, WriterInv, Follows, Creates, Drops, Done
<1>11. \A p \in Paths : Stored(p) => Stored(p)'
  BY <1>1, StoredKept DEF RunFacts
<1>12. SparesSearches
  BY <1>1, <1>2, <1>4
  DEF SparesSearches, RunFacts, StoreTypeOK, OpsInv, Ops, Searchers
<1> QED
  BY <1>1, <1>2, <1>4, <1>5, <1>7, <1>9, <1>10, <1>11, <1>12, RunKeeps
  DEF RunFacts, StoreTypeOK

\* The run knows that there is no table.
LEMMA RunNoTable ==
  ASSUME StoreInv, Elsewhere, NoTable(Runner)
  PROVE  StoreInv'
<1>1. RunFacts
  BY RunFactsHold
<1>2. /\ op[Runner].pc = "named" /\ ~op[Runner].has /\ op[Runner].do # "clear"
      /\ UNCHANGED <<table, rows, old, connection>>
  BY DEF NoTable
<1>3. ~table /\ op[Runner].again # "recreate"
  BY <1>1, <1>2 DEF RunFacts, WriterInv, Follows, Drops
<1>4. lost' \subseteq lost => \A p \in Paths : Stored(p) => Stored(p)'
  BY <1>1, <1>2, StoredKept DEF RunFacts
<1>9. promise' = promise => SparesSearches
  BY <1>2 DEF SparesSearches
<1>5. CASE op[Runner].do = "upsert" /\ op[Runner].again = "no"
  <2> DEFINE o == [op[Runner] EXCEPT !.pc = "names", !.again = "create"]
  <2>1. op' = [op EXCEPT ![Runner] = o] /\ UNCHANGED <<cached, promise, kept, lost>>
    BY <1>5 DEF NoTable
  <2>2. /\ o \in Ops /\ o.pc = "names" /\ o.again = "create"
        /\ o.do = op[Runner].do /\ o.path = op[Runner].path
    BY <1>1 DEF RunFacts, Ops
  <2> HIDE DEF o
  <2>3. /\ op' \in [Callers -> Ops] /\ op'[Runner] = o
        /\ \A b \in Callers : b # Runner => op'[b] = op[b]
    BY <1>1, <2>1, <2>2 DEF RunFacts, StoreTypeOK
  <2>4. TableInv'
    BY <1>1, <1>2, <2>1 DEF RunFacts, TableInv, Live
  <2>5. WriterInv'
    BY <1>1, <1>2, <1>3, <1>5, <2>2, <2>3
    DEF RunFacts, WriterInv, Follows, Creates, Drops, Done
  <2> QED
    BY <1>1, <1>2, <1>4, <1>5, <1>9, <2>1, <2>2, <2>3, <2>4, <2>5, RunKeeps
    DEF RunFacts, StoreTypeOK
<1>6. CASE op[Runner].do = "upsert" /\ op[Runner].again = "create"
  <2>1. /\ Promised(Runner, Promise("creating", op[Runner].path), op[Runner])
        /\ UNCHANGED <<kept, lost>>
    BY <1>6 DEF NoTable
  <2> QED
    BY <1>1, <1>2, <1>3, <1>6, <2>1, RunCreates DEF RunFacts
<1>7. CASE op[Runner].do # "upsert"
  <2>1. /\ Steps(Runner, "done") /\ UNCHANGED <<cached, promise>>
        /\ kept' \subseteq kept /\ lost' \subseteq lost
        /\ kept' \ lost' \subseteq kept \ lost
    BY <1>7 DEF NoTable, Removed
  <2>2. /\ op' \in [Callers -> Ops] /\ op'[Runner].pc = "done"
        /\ op'[Runner].do = op[Runner].do /\ op'[Runner].path = op[Runner].path
        /\ op'[Runner].again = op[Runner].again
        /\ \A b \in Callers : b # Runner => op'[b] = op[b]
    BY <1>1, <2>1, StepsAt DEF RunFacts, OpAt
  <2>3. TableInv'
    BY <1>1, <1>2, <2>1 DEF RunFacts, TableInv, Live
  <2>4. WriterInv'
    BY <1>1, <1>7, <2>2 DEF RunFacts, WriterInv, Follows, Creates, Drops, Done
  <2> QED
    BY <1>1, <1>2, <1>4, <1>7, <1>9, <2>1, <2>2, <2>3, <2>4, RunKeeps
    DEF RunFacts, StoreTypeOK
<1>8. op[Runner].again \in {"no", "create", "recreate"}
  BY <1>1 DEF RunFacts, Ops
<1> QED
  BY <1>3, <1>5, <1>6, <1>7, <1>8

\* The steps that change how far the call is, and nothing of the table.
LEMMA RunSteps ==
  ASSUME StoreInv, Elsewhere, NEW pc \in {"drop", "failed", "done"},
         Steps(Runner, pc), op[Runner].pc # "idle",
         UNCHANGED <<table, rows, old, connection, cached, promise>>,
         kept' \ lost' \subseteq rows, kept' \subseteq Paths,
         lost' \subseteq lost,
         \A i \in Ids : promise[i].is # "creating",
         pc = "failed" => ~calm[Runner],
         pc = "drop" => table /\ (op[Runner].do = "clear" \/
                          (op[Runner].again = "recreate" /\ old)),
         pc = "done" /\ op[Runner].do = "upsert" =>
           op[Runner].path \subseteq kept' \ lost' /\ ~old
  PROVE  StoreInv'
<1>1. RunFacts
  BY RunFactsHold
<1>2. /\ op' \in [Callers -> Ops] /\ op'[Runner].pc = pc
      /\ op'[Runner].do = op[Runner].do /\ op'[Runner].path = op[Runner].path
      /\ op'[Runner].again = op[Runner].again
      /\ \A b \in Callers : b # Runner => op'[b] = op[b]
  BY <1>1, StepsAt DEF RunFacts, OpAt
<1>3. TableInv'
  BY <1>1 DEF RunFacts, TableInv, Live
<1>4. op[Runner].do = "clear" => op[Runner].again = "no"
  BY <1>1 DEF RunFacts, Ops
<1>5. WriterInv'
  BY <1>1, <1>2, <1>4 DEF RunFacts, WriterInv, Follows, Creates, Drops, Done
<1>6. \A p \in Paths : Stored(p) => Stored(p)'
  BY <1>1, StoredKept DEF RunFacts
<1>7. SparesSearches
  BY DEF SparesSearches
<1> QED
  BY <1>1, <1>2, <1>3, <1>5, <1>6, <1>7, RunKeeps DEF RunFacts, StoreTypeOK

\* Nothing the run awaits is stale; what was rejected has disturbed it.
LEMMA RunAwaitFails ==
  ASSUME StoreInv, Elsewhere, AwaitFails(Runner)
  PROVE  StoreInv'
<1>1. RunFacts
  BY RunFactsHold
<1>2. /\ Steps(Runner, "failed") /\ op[Runner].pc = "await"
      /\ promise[op[Runner].on].is \in {"rejected", "stale"}
      /\ UNCHANGED <<table, rows, old, connection, cached, promise, kept, lost>>
  BY DEF AwaitFails, Settled
<1>3. \A i \in Ids : promise[i].is # "creating"
  BY <1>1, <1>2 DEF RunFacts, TableInv
<1>4. promise[op[Runner].on] # Promise("creating", op[Runner].path)
  BY <1>2 DEF Promise
<1>5. ~calm[Runner]
  BY <1>1, <1>2, <1>4 DEF RunFacts, WriterInv, Follows, Live, Creates
<1> QED
  BY <1>1, <1>2, <1>3, <1>5, RunSteps DEF RunFacts, TableInv, StoreTypeOK

\* The table that the run has asked for holds the rows of the file.
LEMMA RunCreated ==
  ASSUME StoreInv, Elsewhere, Created(Runner)
  PROVE  StoreInv'
<1>1. RunFacts
  BY RunFactsHold
<1>2. /\ op[Runner].pc = "await" /\ promise[op[Runner].on].is = "handle"
      /\ op[Runner].again = "create" /\ Acknowledged(Runner)
      /\ UNCHANGED <<table, rows, old, connection, cached, promise>>
  BY DEF Created, Settled
<1>3. op[Runner].do = "upsert"
  BY <1>1, <1>2 DEF RunFacts
<1>4. /\ Steps(Runner, "done") /\ kept' = kept \cup op[Runner].path
      /\ lost' = lost \ op[Runner].path
  BY <1>2, <1>3 DEF Acknowledged
<1>5. \A i \in Ids : promise[i].is # "creating"
  BY <1>1, <1>2 DEF RunFacts, TableInv
<1>6. promise[op[Runner].on] # Promise("creating", op[Runner].path)
  BY <1>2 DEF Promise
<1>7. op[Runner].path \subseteq rows /\ ~old /\ rows \subseteq Paths
  BY <1>1, <1>2, <1>6 DEF RunFacts, WriterInv, Creates, StoreTypeOK
<1>8. /\ kept' \ lost' \subseteq rows /\ kept' \subseteq Paths
      /\ lost' \subseteq lost /\ op[Runner].path \subseteq kept' \ lost'
  BY <1>1, <1>4, <1>7 DEF RunFacts, TableInv, StoreTypeOK
<1> QED
  BY <1>2, <1>4, <1>5, <1>7, <1>8, RunSteps

\* The first call on the agenda is the one in the store.
LEMMA RunHead ==
  ASSUME StoreInv, op[Runner].pc # "idle"
  PROVE  /\ 1 \in 1..Len(agenda[Runner])
         /\ agenda[Runner][1].do = op[Runner].do
         /\ agenda[Runner][1].path = op[Runner].path
<1>1. InOp(Runner) /\ agenda[Runner] \in Seq(AgendaCalls)
  BY SearchPathAssumption DEF StoreInv, OpsInv, StoreTypeOK
<1>2. /\ agenda[Runner] # <<>> /\ op[Runner].do = Head(agenda[Runner]).do
      /\ op[Runner].path = Head(agenda[Runner]).path
  BY <1>1 DEF InOp, NoCall
<1> QED
  BY <1>1, <1>2

\* A call of the run changes the rows.
LEMMA RunUseTable ==
  ASSUME StoreInv, Elsewhere, UseTable(Runner)
  PROVE  StoreInv'
<1>1. RunFacts
  BY RunFactsHold
<1>2. /\ op[Runner].pc = "await" /\ promise[op[Runner].on].is = "handle"
      /\ op[Runner].again = "no" /\ ~(old /\ op[Runner].do = "upsert")
      /\ UNCHANGED <<table, old, connection, cached, promise>>
  BY DEF UseTable, Settled
<1>3. table /\ op[Runner].path \subseteq Paths
  BY <1>1, <1>2 DEF RunFacts, WriterInv, Follows, Ops
<1>4. /\ \A i \in Ids : promise[i].is # "creating"
      /\ SparesSearches
  BY <1>1, <1>2 DEF RunFacts, TableInv, SparesSearches
<1>5. CASE op[Runner].do = "search"
  <2> DEFINE o == [op[Runner] EXCEPT !.pc = "done", !.found = rows]
  <2>1. op' = [op EXCEPT ![Runner] = o] /\ UNCHANGED <<rows, kept, lost>>
    BY <1>5 DEF UseTable
  <2>2. /\ o \in Ops /\ o.pc = "done" /\ o.again = op[Runner].again
        /\ o.do = op[Runner].do /\ o.path = op[Runner].path
    BY <1>1 DEF RunFacts, StoreTypeOK, Ops
  <2> HIDE DEF o
  <2>3. /\ op' \in [Callers -> Ops] /\ op'[Runner] = o
        /\ \A b \in Callers : b # Runner => op'[b] = op[b]
    BY <1>1, <2>1, <2>2 DEF RunFacts, StoreTypeOK
  <2>4. TableInv'
    BY <1>1, <1>2, <1>4, <2>1 DEF RunFacts, TableInv, Live
  <2>5. WriterInv'
    BY <1>1, <1>2, <1>5, <2>2, <2>3
    DEF RunFacts, WriterInv, Follows, Creates, Drops, Done
  <2>6. \A p \in Paths : Stored(p) => Stored(p)'
    BY <1>1, <1>2, <2>1, StoredKept DEF RunFacts
  <2> QED
    BY <1>1, <1>2, <1>4, <2>1, <2>2, <2>3, <2>4, <2>5, <2>6, RunKeeps
    DEF RunFacts, StoreTypeOK
<1>6. CASE op[Runner].do # "search"
  <2>1. /\ Steps(Runner, "done")
        /\ rows' = IF op[Runner].do = "delete" THEN rows \ op[Runner].path
                   ELSE rows \cup op[Runner].path
        /\ kept' = IF op[Runner].do = "delete" THEN kept \ op[Runner].path
                   ELSE kept \cup op[Runner].path
        /\ lost' = lost \ op[Runner].path
    BY <1>6 DEF UseTable, Acknowledged, Removed
  <2>2. /\ op' \in [Callers -> Ops] /\ op'[Runner].pc = "done"
        /\ op'[Runner].do = op[Runner].do /\ op'[Runner].path = op[Runner].path
        /\ op'[Runner].again = op[Runner].again
        /\ \A b \in Callers : b # Runner => op'[b] = op[b]
    BY <1>1, <2>1, StepsAt DEF RunFacts, OpAt
  <2>3. /\ rows' \subseteq Paths /\ kept' \subseteq Paths /\ lost' \subseteq Paths
        /\ kept' \ lost' \subseteq rows'
    BY <1>1, <1>3, <2>1 DEF RunFacts, StoreTypeOK, TableInv
  <2>4. TableInv'
    BY <1>1, <1>2, <1>3, <1>4, <2>3 DEF RunFacts, TableInv, Live
  <2>5. op[Runner].do = "upsert" => op[Runner].path \subseteq kept' \ lost' /\ ~old
    BY <1>2, <2>1
  <2>6. WriterInv'
    BY <1>1, <1>2, <2>2, <2>5
    DEF RunFacts, WriterInv, Follows, Creates, Drops, Done
  <2>7. ASSUME NEW p \in Paths, Stored(p) PROVE Stored(p)'
    <3>1. op[Runner].do = "delete" => p \notin op[Runner].path
      BY <1>2, <2>7, RunHead DEF Stored, Removes
    <3> QED
      BY <1>1, <1>2, <2>1, <2>7, <3>1 DEF RunFacts, Stored
  <2> QED
    BY <1>1, <1>2, <1>4, <2>2, <2>3, <2>4, <2>6, <2>7, RunKeeps
    DEF RunFacts, StoreTypeOK
<1> QED
  BY <1>5, <1>6

\* The table has an old schema.
LEMMA RunSchemaDrift ==
  ASSUME StoreInv, Elsewhere, SchemaDrift(Runner)
  PROVE  StoreInv'
<1> DEFINE o == [op[Runner] EXCEPT !.pc = "names", !.again = "recreate"]
<1>1. RunFacts
  BY RunFactsHold
<1>2. /\ op[Runner].pc = "await" /\ promise[op[Runner].on].is = "handle"
      /\ op[Runner].again = "no" /\ old /\ op[Runner].do = "upsert"
      /\ op' = [op EXCEPT ![Runner] = o]
      /\ UNCHANGED <<table, rows, old, connection, cached, promise, kept, lost>>
  BY DEF SchemaDrift, Settled
<1>3. table
  BY <1>1, <1>2 DEF RunFacts, WriterInv, Follows
<1>4. /\ o \in Ops /\ o.pc = "names" /\ o.again = "recreate"
      /\ o.do = op[Runner].do /\ o.path = op[Runner].path
  BY <1>1 DEF RunFacts, Ops
<1> HIDE DEF o
<1>5. /\ op' \in [Callers -> Ops] /\ op'[Runner] = o
      /\ \A b \in Callers : b # Runner => op'[b] = op[b]
  BY <1>1, <1>2, <1>4 DEF RunFacts, StoreTypeOK
<1>6. TableInv'
  BY <1>1, <1>2 DEF RunFacts, TableInv, Live
<1>7. WriterInv'
  BY <1>1, <1>2, <1>3, <1>4, <1>5
  DEF RunFacts, WriterInv, Follows, Creates, Drops, Done
<1>8. \A p \in Paths : Stored(p) => Stored(p)'
  BY <1>1, <1>2, StoredKept DEF RunFacts
<1>9. SparesSearches
  BY <1>2 DEF SparesSearches
<1> QED
  BY <1>1, <1>2, <1>4, <1>5, <1>6, <1>7, <1>8, <1>9, RunKeeps
  DEF RunFacts, StoreTypeOK

\* The run is about to drop the table that is there.
LEMMA RunStartDrop ==
  ASSUME StoreInv, Elsewhere, StartDrop(Runner)
  PROVE  StoreInv'
<1>1. RunFacts
  BY RunFactsHold
<1>2. /\ Steps(Runner, "drop")
      /\ UNCHANGED <<table, rows, old, connection, cached, promise, kept, lost>>
  BY DEF StartDrop
<1>3. /\ op[Runner].pc \in {"named", "await"} /\ table
      /\ op[Runner].do = "clear" \/ (op[Runner].again = "recreate" /\ old)
      /\ op[Runner].pc = "await" => op[Runner].again = "recreate"
  BY <1>1 DEF StartDrop, Settled, RunFacts, WriterInv, Follows, Drops
<1>4. \A i \in Ids : promise[i].is # "creating"
  BY <1>1, <1>3 DEF RunFacts, TableInv
<1> QED
  BY <1>1, <1>2, <1>3, <1>4, RunSteps DEF RunFacts, TableInv, StoreTypeOK

\* The rows are gone: a clear means that, and with an old schema the run has not
\* stored any yet.
LEMMA RunDropTable ==
  ASSUME StoreInv, Elsewhere, DropTable(Runner)
  PROVE  StoreInv'
<1>1. RunFacts
  BY RunFactsHold
<1>2. /\ Steps(Runner, "dropped") /\ op[Runner].pc = "drop"
      /\ table' = FALSE /\ rows' = {} /\ old' = FALSE
      /\ kept' \in {{}, kept} /\ lost' = kept'
      /\ promise' = Stale /\ UNCHANGED <<connection, cached>>
  BY DEF DropTable
<1>3. /\ op' \in [Callers -> Ops] /\ op'[Runner].pc = "dropped"
      /\ op'[Runner].do = op[Runner].do /\ op'[Runner].path = op[Runner].path
      /\ op'[Runner].again = op[Runner].again
      /\ \A b \in Callers : b # Runner => op'[b] = op[b]
  BY <1>1, <1>2, StepsAt DEF RunFacts, OpAt
<1>4. /\ promise' \in [Ids -> Promises]
      /\ \A i \in Ids : promise'[i].is = "creating" =>
                          promise[i].is = "creating"
  <2>1. Promise("stale", {}) \in Promises /\ Promise("stale", {}).is = "stale"
    BY DEF Promise, Promises
  <2>2. \A i \in Ids : promise'[i] \in {promise[i], Promise("stale", {})}
    BY <1>2 DEF Stale
  <2>3. DOMAIN promise' = Ids /\ promise' = [i \in Ids |-> promise'[i]]
    BY <1>2 DEF Stale
  <2> QED
    BY <1>1, <2>1, <2>2, <2>3 DEF RunFacts, StoreTypeOK
<1>5. TableInv'
  BY <1>1, <1>2, <1>4 DEF RunFacts, TableInv
<1>6. op[Runner].do = "clear" \/ (op[Runner].again = "recreate" /\ old)
  BY <1>1, <1>2 DEF RunFacts, WriterInv, Drops
<1>7. WriterInv'
  BY <1>1, <1>2, <1>3, <1>6
  DEF RunFacts, WriterInv, Follows, Creates, Drops, Done
<1>8. \A p \in Paths : ~Stored(p)
  BY <1>2, <1>6, RunHead DEF Stored, Removes
<1>9. Dropping
  BY <1>2, <1>6, RunHead DEF Dropping, Running
<1> QED
  BY <1>1, <1>2, <1>3, <1>4, <1>5, <1>7, <1>8, <1>9, RunKeeps
  DEF RunFacts, StoreTypeOK

\* Clear has forgotten the promise, of a table that is gone.
LEMMA RunForget ==
  ASSUME StoreInv, Elsewhere, Forget(Runner)
  PROVE  StoreInv'
<1>1. RunFacts
  BY RunFactsHold
<1>2. /\ Steps(Runner, "done") /\ op[Runner].do = "clear"
      /\ op[Runner].pc \in {"named", "dropped"} /\ cached' = NoPromise
      /\ UNCHANGED <<table, rows, old, connection, promise, kept, lost>>
  BY DEF Forget
<1>3. /\ op' \in [Callers -> Ops] /\ op'[Runner].pc = "done"
      /\ op'[Runner].do = op[Runner].do /\ op'[Runner].path = op[Runner].path
      /\ op'[Runner].again = op[Runner].again
      /\ \A b \in Callers : b # Runner => op'[b] = op[b]
  BY <1>1, <1>2, StepsAt DEF RunFacts, OpAt
<1>4. TableInv'
  BY <1>1, <1>2 DEF RunFacts, TableInv, Live
<1>5. WriterInv'
  BY <1>1, <1>2, <1>3 DEF RunFacts, WriterInv, Follows, Creates, Drops, Done
<1>6. \A p \in Paths : Stored(p) => Stored(p)'
  BY <1>1, <1>2, StoredKept DEF RunFacts
<1>7. SparesSearches
  BY <1>2 DEF SparesSearches
<1> QED
  BY <1>1, <1>2, <1>3, <1>4, <1>5, <1>6, <1>7, RunKeeps DEF RunFacts, StoreTypeOK

\* The run creates the table that it has dropped.
LEMMA RunRecreate ==
  ASSUME StoreInv, Elsewhere, Recreate(Runner)
  PROVE  StoreInv'
<1> DEFINE o == [op[Runner] EXCEPT !.again = "create"]
<1>1. RunFacts
  BY RunFactsHold
<1>2. /\ op[Runner].pc = "dropped" /\ op[Runner].do = "upsert"
      /\ Promised(Runner, Promise("creating", op[Runner].path), o)
      /\ UNCHANGED <<table, rows, old, connection, kept, lost>>
  BY DEF Recreate
<1>3. ~table
  BY <1>1, <1>2 DEF RunFacts, WriterInv, Drops
<1>4. /\ o \in Ops /\ o.again = "create" /\ o.do = op[Runner].do
      /\ o.path = op[Runner].path
  BY <1>1 DEF RunFacts, Ops
<1> HIDE DEF o
<1> QED
  BY <1>2, <1>3, <1>4, RunCreates

\* Every step of the run on the store keeps the invariant.
LEMMA RunnerKeeps ==
  ASSUME StoreInv, Elsewhere, TableStep(Runner)
  PROVE  StoreInv'
  BY RunTableNames, RunNoTable, RunHasTable, RunAwaitFails, RunCreated,
     RunUseTable, RunSchemaDrift, RunStartDrop, RunDropTable, RunForget,
     RunRecreate DEF TableStep
-----------------------------------------------------------------------------
(* The answers of the database *)

\* An answer that concerns the run only, which is in progress then.
LEMMA AnswerKeeps ==
  ASSUME StoreInv, Elsewhere, UNCHANGED <<op, connection, kept, lost>>,
         promise' \in [Ids -> Promises], cached' = cached,
         table' \in BOOLEAN, old' \in BOOLEAN, rows' \subseteq Paths,
         TableInv', WriterInv', SearchInv',
         \A p \in Paths : Stored(p) => Stored(p)'
  PROVE  StoreInv'
<1>1. /\ StoreTypeOK /\ OpsInv /\ RunInv /\ NoneFails /\ DueInv /\ EmbedInv
      /\ EvidenceInv /\ OwedInv
  BY DEF StoreInv
<1>2. /\ UNCHANGED <<home, get, file, overlapped, agenda, calm, failed, runs>>
      /\ UNCHANGED skipped
      /\ due' \in [Callers -> SUBSET Paths]
      /\ \A b \in Callers : due'[b] \subseteq due[b] \cap (kept' \ lost')
  BY DEF Elsewhere, downloadVars, histVars
<1>3. StoreTypeOK' /\ NoneFails' /\ EmbedInv'
  BY <1>1, <1>2 DEF StoreTypeOK, NoneFails, EmbedInv
<1>4. OpsInv'
  BY <1>1, <1>2 DEF OpsInv, InOp, SearchesOnly, Local
<1>5. OwedInv'
  BY <1>1, <1>2 DEF OwedInv, Ahead
<1>6. DueInv' /\ RunInv' /\ EvidenceInv'
  BY <1>1, <1>2 DEF DueInv, RunInv, EvidenceInv, Searchers
<1> QED
  BY <1>3, <1>4, <1>5, <1>6 DEF StoreInv

\* A table is opened if it is there.
LEMMA OpenTableKeeps ==
  ASSUME StoreInv, Elsewhere, NEW i \in Ids, OpenTable(i)
  PROVE  StoreInv'
<1> DEFINE new == IF table THEN Promise("handle", {}) ELSE Rejected
<1>1. RunFacts
  BY RunFactsHold
<1>2. /\ promise[i].is = "opening" /\ promise' = [promise EXCEPT ![i] = new]
      /\ UNCHANGED <<table, rows, old, connection, cached, op, kept, lost>>
  BY DEF OpenTable
<1>3. /\ new \in Promises
      /\ new.is = IF table THEN "handle" ELSE "rejected"
  BY DEF Promise, Promises, Rejected
<1> HIDE DEF new
<1>4. /\ promise' \in [Ids -> Promises] /\ promise'[i] = new
      /\ \A j \in Ids : j # i => promise'[j] = promise[j]
  BY <1>1, <1>2, <1>3 DEF RunFacts, StoreTypeOK
<1>5. \A j \in Ids : table /\ Live(j) => Live(j)'
  BY <1>2, <1>3, <1>4 DEF Live
<1>6. \A b \in Callers : op[b].on \in Ids \cup {NoPromise} /\
        (op[b].pc = "await" => op[b].on \in Ids)
  BY <1>1 DEF RunFacts, StoreTypeOK, OpsInv, Ops
<1>7. TableInv'
  BY <1>1, <1>2, <1>3, <1>4, <1>5 DEF RunFacts, StoreTypeOK, TableInv
<1>8. \A b \in Callers : Follows(b) => Follows(b)'
  BY <1>2, <1>5, <1>6 DEF Follows
<1>9. WriterInv'
  <2>1. op[Runner].pc = "await" /\ op[Runner].again = "create" =>
          promise'[op[Runner].on] = promise[op[Runner].on]
    BY <1>1, <1>2, <1>4, <1>6 DEF RunFacts, WriterInv, Creates, Promise
  <2>2. Creates(op[Runner])' /\ Drops(op[Runner])' /\ Done(op[Runner])'
    BY <1>1, <1>2, <2>1 DEF RunFacts, WriterInv, Creates, Drops, Done
  <2> QED
    BY <1>1, <1>2, <1>8, <2>2 DEF RunFacts, WriterInv
<1>10. SearchInv'
  BY <1>1, <1>2, <1>8
  DEF RunFacts, StoreInv, SearchInv, Searchers, Dropping, Running, Elsewhere,
      histVars
<1>11. \A p \in Paths : Stored(p) => Stored(p)'
  BY <1>1, <1>2, StoredKept DEF RunFacts
<1> QED
  BY <1>1, <1>2, <1>4, <1>7, <1>9, <1>10, <1>11, AnswerKeeps
  DEF RunFacts, StoreTypeOK

\* The table that the run awaits is created: nobody has another.
LEMMA CreateTableKeeps ==
  ASSUME StoreInv, Elsewhere, NEW i \in Ids, CreateTable(i)
  PROVE  StoreInv'
<1>1. RunFacts
  BY RunFactsHold
<1>2. /\ promise[i].is = "creating"
      /\ promise' = [Stale EXCEPT ![i] = Promise("handle", {})]
      /\ table' = TRUE /\ old' = FALSE /\ rows' = promise[i].of
      /\ UNCHANGED <<connection, cached, op, kept, lost>>
  BY DEF CreateTable
<1>3. /\ op[Runner].pc = "await" /\ op[Runner].again = "create"
      /\ op[Runner].on = i /\ cached = i
      /\ promise[i] = Promise("creating", op[Runner].path) /\ ~table
  BY <1>1, <1>2 DEF RunFacts, TableInv, WriterInv, Creates
<1>4. rows' = op[Runner].path /\ rows' \subseteq Paths /\ rows = {}
      /\ kept \ lost = {}
  BY <1>1, <1>2, <1>3 DEF RunFacts, TableInv, Promise, Ops
<1>5. /\ promise' \in [Ids -> Promises] /\ promise'[i].is = "handle"
      /\ \A j \in Ids : promise'[j].is # "creating"
  <2>1. /\ Promise("stale", {}) \in Promises /\ Promise("stale", {}).is = "stale"
        /\ Promise("handle", {}) \in Promises
        /\ Promise("handle", {}).is = "handle"
    BY DEF Promise, Promises
  <2>2. /\ DOMAIN Stale = Ids /\ Stale \in [Ids -> Promises]
        /\ \A j \in Ids : Stale[j] \in {promise[j], Promise("stale", {})}
    BY <1>1, <2>1 DEF Stale, RunFacts, StoreTypeOK
  <2>3. /\ promise'[i] = Promise("handle", {})
        /\ \A j \in Ids : j # i => promise'[j] = Stale[j]
    BY <1>2, <2>2
  <2>4. promise' \in [Ids -> Promises]
    BY <1>2, <2>1, <2>2
  <2>5. \A j \in Ids : j # i => promise[j].is # "creating"
    BY <1>1, <1>3 DEF RunFacts, TableInv
  <2> QED
    BY <2>1, <2>2, <2>3, <2>4, <2>5
<1>6. TableInv'
  BY <1>2, <1>3, <1>4, <1>5 DEF TableInv, Live
<1>7. WriterInv'
  BY <1>1, <1>2, <1>3, <1>4, <1>5
  DEF RunFacts, WriterInv, Follows, Creates, Drops, Done
<1>8. SearchInv'
  <2> SUFFICES ASSUME NEW d \in Searchers, calm'[d], agenda'[d] # <<>>
               PROVE  ~Dropping' /\ Follows(d)'
    BY DEF SearchInv
  <2>1. /\ calm[d] /\ agenda[d] # <<>> /\ agenda'[Runner] = agenda[Runner]
        /\ op'[d] = op[d]
    BY <1>2 DEF Elsewhere, histVars
  <2>2. ~Dropping /\ Follows(d)
    BY <2>1 DEF StoreInv, SearchInv
  <2>3. op[d].again = "no" \/ op[d].pc = "idle"
    BY SearcherSearches DEF StoreInv
  <2>4. ~(op[d].pc = "named" /\ op[d].has) /\ op[d].pc # "await"
    BY <1>3, <2>2, <2>3 DEF Follows
  <2> QED
    BY <1>2, <2>1, <2>2, <2>4 DEF Dropping, Running, Follows
<1>9. old' \in BOOLEAN /\ table' \in BOOLEAN
  BY <1>2
<1>10. \A p \in Paths : ~Stored(p)
  BY <1>4 DEF Stored
<1> QED
  BY <1>1, <1>2, <1>4, <1>5, <1>6, <1>7, <1>8, <1>9, <1>10, AnswerKeeps
-----------------------------------------------------------------------------
(* What callers do between their calls *)

\* A caller goes on with an agenda: what it leaves of the promises is what is
\* still referred to.
CallsMade(c, calls) ==
  /\ agenda' \in [Callers -> Seq(AgendaCalls)] /\ op' \in [Callers -> Ops]
  /\ promise' \in [Ids -> Promises] /\ OpsInv' /\ TableInv'
  /\ agenda'[c] = calls
  /\ op'[c].pc \in {"idle", "names"} /\ op'[c].again = "no"
  /\ get'[c].pc \in {"idle", "want"}
  /\ \A b \in Callers : b # c =>
       /\ agenda'[b] = agenda[b] /\ op'[b] = op[b] /\ get'[b] = get[b]
       /\ Follows(b) => Follows(b)'
  /\ UNCHANGED <<home, file, overlapped, table, rows, old, connection, cached,
                 kept, lost>>
  /\ (c = Runner \/ (calm'[Runner] => calm[Runner])) => WriterInv'

\* It does that whenever its call has ended.
LEMMA CallsLeave ==
  ASSUME StoreInv, DownloadInv, NEW c \in Callers, NEW calls \in Seq(AgendaCalls),
         Calls(c, calls), op[c].pc \in {"idle", "done", "failed"},
         c \in Searchers => SearchesOnly(c, calls)
  PROVE  CallsMade(c, calls)
<1> DEFINE first == IF calls = <<>> THEN Call("none", {}) ELSE Head(calls)
           o == IF first.do \in {"embed", "none"} THEN NoCall
                ELSE Called(first.do, first.path)
<1>1. StoreTypeOK /\ OpsInv /\ TableInv /\ WriterInv
  BY DEF StoreInv
<1>2. /\ agenda' = [agenda EXCEPT ![c] = calls]
      /\ Goes(c, IF first.do = "embed" THEN "want" ELSE "idle")
      /\ op' = [op EXCEPT ![c] = o] /\ promise' = Reachable(op')
      /\ UNCHANGED <<home, file, overlapped, table, rows, old, connection, cached,
                     kept, lost>>
  BY DEF Calls
<1>3. calls # <<>> => Head(calls) \in AgendaCalls
  OBVIOUS
<1>4. /\ o \in Ops /\ o.again = "no" /\ o.pc \in {"idle", "names"}
      /\ IF calls = <<>> \/ Head(calls).do = "embed" THEN o = NoCall
         ELSE /\ o.pc # "idle" /\ o.do = Head(calls).do
              /\ o.path = Head(calls).path
  <2>1. NoCall \in Ops /\ NoCall.again = "no" /\ NoCall.pc = "idle"
    BY DEF NoCall, Ops
  <2>2. CASE calls = <<>>
    BY <2>1, <2>2 DEF Call
  <2>3. CASE calls # <<>> /\ Head(calls).do = "embed"
    BY <2>1, <2>3
  <2>4. CASE calls # <<>> /\ Head(calls).do # "embed"
    <3>1. first.do # "none" /\ first.do # "embed" /\ first = Head(calls)
      BY <1>3, <2>4 DEF AgendaCalls
    <3>2. o = [NoCall EXCEPT !.pc = "names", !.do = Head(calls).do,
                             !.path = Head(calls).path]
      BY <3>1 DEF Called
    <3>3. Head(calls) \in AgendaCalls
      BY <1>3, <2>4
    <3> HIDE DEF o, first
    <3> QED
      BY <2>1, <2>4, <3>2, <3>3 DEF NoCall, Ops, AgendaCalls
  <2> QED
    BY <2>2, <2>3, <2>4
<1> HIDE DEF o
<1>5. /\ agenda' \in [Callers -> Seq(AgendaCalls)] /\ agenda'[c] = calls
      /\ op' \in [Callers -> Ops] /\ op'[c] = o
      /\ \A b \in Callers : b # c => agenda'[b] = agenda[b] /\ op'[b] = op[b]
  BY <1>1, <1>2, <1>4 DEF StoreTypeOK
<1>6. /\ get'[c].pc \in {"idle", "want"}
      /\ \A b \in Callers : b # c => get'[b] = get[b]
  BY <1>2 DEF Goes, Idle, DownloadInv, DownloadTypeOK
<1>7. /\ promise' \in [Ids -> Promises]
      /\ \A i \in Ids : promise'[i] = promise[i] \/ promise'[i] = Rejected
      /\ \A i \in Ids :
           i = cached \/ (\E b \in Callers : b # c /\ op[b].on = i) =>
             promise'[i] = promise[i]
  <2>1. Rejected \in Promises
    BY DEF Rejected, Promise, Promises
  <2>2. promise' = [i \in Ids |-> IF i = cached' \/
                                     (\E u \in Callers : op'[u].on = i)
                                  THEN promise[i] ELSE Rejected]
    BY <1>2, SearchPathAssumption DEF Reachable
  <2>3. promise \in [Ids -> Promises] /\ cached' = cached
    BY <1>1, <1>2 DEF StoreTypeOK
  <2>4. \A b \in Callers : b # c => op'[b].on = op[b].on
    BY <1>5
  <2>5. \A i \in Ids : promise'[i] = IF i = cached' \/
                                        (\E u \in Callers : op'[u].on = i)
                                     THEN promise[i] ELSE Rejected
    BY <2>2
  <2>6. promise' \in [Ids -> Promises]
    BY <2>1, <2>2, <2>3
  <2>7. \A i \in Ids : promise'[i] = promise[i] \/ promise'[i] = Rejected
    BY <2>5
  <2>8. \A i \in Ids : i = cached => promise'[i] = promise[i]
    BY <2>3, <2>5
  <2>9. ASSUME NEW i \in Ids, NEW b \in Callers, b # c, op[b].on = i
        PROVE  promise'[i] = promise[i]
    BY <2>4, <2>5, <2>9
  <2> QED
    BY <2>6, <2>7, <2>8, <2>9
<1>8. Rejected.is = "rejected"
  BY DEF Rejected, Promise
<1>9. \A b \in Callers : b # c /\ op[b].pc = "await" =>
        promise'[op[b].on] = promise[op[b].on]
  BY <1>1, <1>7 DEF StoreTypeOK, OpsInv, Ops
<1>10. OpsInv'
  <2>1. ASSUME NEW b \in Callers
        PROVE  /\ InOp(b)' /\ (op'[b].pc = "await" => op'[b].on # NoPromise)
               /\ op'[b].again # "no" => op'[b].do = "upsert"
               /\ op'[b].pc \in {"drop", "dropped"} => op'[b].do # "search"
    <3>1. CASE b = c
      BY <1>4, <1>5, <3>1 DEF InOp
    <3>2. CASE b # c
      BY <1>1, <1>5, <3>2 DEF OpsInv, InOp
    <3> QED
      BY <3>1, <3>2
  <2>2. \A b \in Searchers : SearchesOnly(b, agenda[b])'
    BY <1>1, <1>2, <1>5 DEF OpsInv, SearchesOnly, Local, Searchers
  <2> QED
    BY <2>1, <2>2 DEF OpsInv
<1>11. \A i \in Ids : promise'[i].is = "creating" =>
         promise'[i] = promise[i] /\ c # Runner
  BY <1>1, <1>7, <1>8 DEF TableInv
<1>12. TableInv'
  <2>1. table /\ cached # NoPromise => Live(cached)'
    BY <1>1, <1>2, <1>7 DEF StoreTypeOK, TableInv, Live
  <2>2. ASSUME NEW i \in Ids, promise'[i].is = "creating"
        PROVE  /\ op'[Runner].pc = "await" /\ op'[Runner].again = "create"
               /\ op'[Runner].on = i
    <3>1. promise[i].is = "creating" /\ c # Runner
      BY <1>11, <2>2
    <3>2. op'[Runner] = op[Runner]
      BY <1>5, <3>1, SearchPathAssumption
    <3> QED
      BY <1>1, <3>1, <3>2 DEF TableInv
  <2> QED
    BY <1>1, <1>2, <2>1, <2>2 DEF TableInv
<1>13. \A b \in Callers : b # c /\ Follows(b) => Follows(b)'
  BY <1>2, <1>5, <1>9, FollowsKept
<1>14. ASSUME c = Runner \/ (calm'[Runner] => calm[Runner]) PROVE WriterInv'
  <2>1. CASE c = Runner
    BY <1>4, <1>5, <2>1 DEF WriterInv, Follows, Creates, Drops, Done
  <2>2. CASE c # Runner
    BY <1>1, <1>2, <1>5, <1>9, <1>14, <2>2, WriterKept, SearchPathAssumption
  <2> QED
    BY <2>1, <2>2
<1> QED
  BY <1>2, <1>4, <1>5, <1>6, <1>7, <1>10, <1>12, <1>13, <1>14 DEF CallsMade

\* When c goes on, what is left to show of its own history, and of the rows
\* that the run owes.
LEMMA GoesOnKeeps ==
  ASSUME StoreInv, DownloadInv, NEW c \in Callers, NEW calls \in Seq(AgendaCalls),
         Calls(c, calls), op[c].pc \in {"idle", "done", "failed"},
         c \in Searchers => SearchesOnly(c, calls),
         c = Runner => RunsOnly(calls),
         calm' \in [Callers -> BOOLEAN], runs' \in Nat,
         failed' \in [Callers -> {"no", "call", "evidence"}],
         \A b \in Callers : b # c =>
           (calm'[b] => calm[b]) /\ failed'[b] = failed[b],
         calm'[c] /\ ~overlapped /\ connection # "rejected" =>
           failed'[c] # "call",
         \A b \in Searchers : calm'[b] /\ agenda'[b] # <<>> => ~Dropping',
         due' \in [Callers -> SUBSET Paths],
         \A b \in Callers : due'[b] = due[b] \/ due'[b] = kept \ lost,
         \A b \in Callers : b # c => due'[b] = due[b],
         EvidenceInv', OwedInv'
  PROVE  StoreInv'
<1> USE SearchPathAssumption
<1>1. CallsMade(c, calls)
  BY CallsLeave
<1>2. /\ StoreTypeOK /\ RunInv /\ NoneFails /\ SearchInv /\ DueInv /\ EmbedInv
  BY DEF StoreInv
<1>3. /\ agenda'[c] = calls /\ op'[c].pc \in {"idle", "names"}
      /\ get'[c].pc \in {"idle", "want"}
      /\ \A b \in Callers : b # c =>
           /\ agenda'[b] = agenda[b] /\ op'[b] = op[b] /\ get'[b] = get[b]
           /\ Follows(b) => Follows(b)'
      /\ UNCHANGED <<file, overlapped, table, rows, old, connection, cached, kept>>
      /\ UNCHANGED lost
  BY <1>1 DEF CallsMade
<1>4. StoreTypeOK' /\ OpsInv' /\ TableInv'
  BY <1>1, <1>2 DEF CallsMade, StoreTypeOK
<1>5. WriterInv'
  BY <1>1 DEF CallsMade
<1>6. NoneFails'
  BY <1>2, <1>3 DEF NoneFails
<1>7. SearchInv'
  <2> SUFFICES ASSUME NEW b \in Searchers, calm'[b], agenda'[b] # <<>>
               PROVE  ~Dropping' /\ Follows(b)'
    BY DEF SearchInv
  <2>1. b \in Callers
    BY DEF Searchers
  <2>2. CASE b = c
    BY <1>3, <2>1, <2>2 DEF Follows
  <2>3. CASE b # c
    <3>1. calm[b] /\ agenda[b] # <<>>
      BY <1>3, <2>1, <2>3
    <3> QED
      BY <1>2, <1>3, <2>1, <2>3, <3>1 DEF SearchInv
  <2> QED
    BY <2>2, <2>3
<1>9. DueInv'
  <2>1. ASSUME NEW b \in Callers PROVE due'[b] \subseteq kept' \ lost'
    BY <1>2, <1>3 DEF DueInv
  <2>2. ASSUME NEW b \in Searchers
        PROVE  /\ op'[b].pc = "named" /\ ~op'[b].has => due'[b] = {}
               /\ op'[b].pc = "done" => due'[b] \subseteq op'[b].found
    <3>1. CASE b = c
      BY <1>3, <3>1
    <3>2. CASE b # c
      BY <1>2, <1>3, <3>2 DEF DueInv, Searchers
    <3> QED
      BY <3>1, <3>2
  <2> QED
    BY <2>1, <2>2 DEF DueInv
<1>10. RunInv'
  BY <1>2, <1>3 DEF RunInv
<1>8. EmbedInv'
  <2> SUFFICES ASSUME NEW b \in Callers
               PROVE  /\ get'[b].pc = "load" => file'.model # NoFile
                      /\ calm'[b] /\ ~overlapped' /\ get'[b].pc = "failed" =>
                           get'[b].hops # 0
                      /\ calm'[b] /\ ~overlapped' /\ connection' # "rejected" =>
                           failed'[b] # "call"
    BY DEF EmbedInv
  <2>1. CASE b = c
    BY <1>3, <2>1
  <2>2. CASE b # c
    BY <1>2, <1>3, <2>2 DEF EmbedInv
  <2> QED
    BY <2>1, <2>2
<1> QED
  BY <1>4, <1>5, <1>6, <1>7, <1>8, <1>9, <1>10 DEF StoreInv

\* A run begins, and has the rows of every file ahead of it that it does not
\* skip.
LEMMA StartRunKeeps ==
  ASSUME StoreInv, DownloadInv, StartRun
  PROVE  StoreInv'
<1> USE SearchPathAssumption
<1>1. PICK rebuild \in BOOLEAN :
        /\ Begun(Runner, RunCalls(rebuild, manifest'))
        /\ skipped' = IF rebuild THEN {}
                      ELSE {p \in Paths : manifest'[p] = "current"}
        /\ calm' = [c \in Callers |->
                      c = Runner \/ (calm[c] /\ ~rebuild /\ ~old)]
  BY DEF StartRun
<1> DEFINE calls == RunCalls(rebuild, manifest')
<1>2. /\ calls \in Seq(AgendaCalls) /\ RunsOnly(calls)
      /\ \A p \in Paths : rebuild \/ manifest'[p] # "current" => Ahead(p, calls)
      /\ ~rebuild => \A i \in 1..Len(calls) : calls[i].do # "clear"
  <2> DEFINE entries == manifest'
  <2> HIDE DEF entries
  <2>1. LET s == RunCalls(rebuild, entries)
        IN /\ s \in Seq(AgendaCalls) /\ RunsOnly(s)
           /\ \A p \in Paths : rebuild \/ entries[p] # "current" => Ahead(p, s)
           /\ ~rebuild => \A i \in 1..Len(s) : s[i].do # "clear"
    BY RunStoresAll
  <2> QED
    BY <2>1 DEF entries
<1> HIDE DEF calls
<1>3. StoreTypeOK /\ OpsInv /\ EvidenceInv
  BY DEF StoreInv
<1>4. /\ agenda[Runner] = <<>> /\ Calls(Runner, calls)
      /\ failed' = [failed EXCEPT ![Runner] = "no"]
      /\ runs' = runs + 1 /\ due' = due
  BY <1>1 DEF StartRun, Begun, calls
<1>5. op[Runner].pc = "idle"
  BY <1>3, <1>4 DEF OpsInv, InOp, NoCall
<1>6. /\ failed' \in [Callers -> {"no", "call", "evidence"}]
      /\ failed'[Runner] = "no" /\ runs' \in Nat
      /\ due' \in [Callers -> SUBSET Paths]
      /\ \A b \in Callers : b # Runner => failed'[b] = failed[b]
  BY <1>3, <1>4 DEF StoreTypeOK
<1>7. /\ calm' \in [Callers -> BOOLEAN]
      /\ \A b \in Callers : b # Runner /\ calm'[b] => calm[b] /\ ~rebuild /\ ~old
  <2>1. \A b \in Callers :
          (b = Runner \/ (calm[b] /\ ~rebuild /\ ~old)) \in BOOLEAN
    OBVIOUS
  <2>2. calm' \in [Callers -> BOOLEAN]
    BY <1>1, <2>1, Zenon
  <2>3. \A b \in Callers :
          calm'[b] = (b = Runner \/ (calm[b] /\ ~rebuild /\ ~old))
    BY <1>1
  <2> QED
    BY <2>2, <2>3
<1>8. agenda'[Runner] = calls /\ old' = old
  BY <1>3, <1>4 DEF Calls, StoreTypeOK
<1>9. OwedInv'
  <2>1. \A p \in Paths : p \notin skipped' => rebuild \/ manifest'[p] # "current"
    BY <1>1
  <2> QED
    BY <1>2, <1>8, <2>1 DEF OwedInv
<1>10. ASSUME NEW b \in Searchers, calm'[b] PROVE ~Dropping'
  <2>1. ~rebuild /\ ~old
    BY <1>7, <1>10 DEF Searchers
  <2>2. calls # <<>> => 1 \in 1..Len(calls) /\ Head(calls) = calls[1]
    BY <1>2
  <2>3. calls # <<>> => Head(calls).do # "clear"
    BY <1>2, <2>1, <2>2
  <2> QED
    BY <1>8, <2>1, <2>3 DEF Dropping, Running
<1>11. EvidenceInv'
  BY <1>3, <1>6 DEF EvidenceInv
<1> QED
  BY <1>2, <1>4, <1>5, <1>6, <1>7, <1>9, <1>10, <1>11, GoesOnKeeps DEF Searchers

\* A search is admitted; it is undisturbed if no run is about to drop the table.
LEMMA AskKeeps ==
  ASSUME StoreInv, DownloadInv, NEW c \in Callers, Ask(c), ~UNCHANGED vars
  PROVE  StoreInv'
<1> USE SearchPathAssumption
<1> DEFINE calls == SearchCalls(c)
<1>1. /\ c # Runner /\ agenda[c] = <<>> /\ Calls(c, calls)
      /\ failed' = [failed EXCEPT ![c] = "no"]
      /\ calm' = [calm EXCEPT ![c] = ~Dropping]
      /\ due' = [due EXCEPT ![c] = kept \ lost] /\ UNCHANGED <<runs, skipped>>
  BY DEF Ask, Begun
<1>2. StoreTypeOK /\ OpsInv /\ SearchInv /\ EvidenceInv /\ OwedInv
  BY DEF StoreInv
<1>3. calls \in Seq(AgendaCalls) /\ SearchesOnly(c, calls)
  <2> DEFINE e == Call("embed", {})
             s == Call("search", {})
  <2>1. e \in AgendaCalls /\ s \in AgendaCalls /\ e.do = "embed"
        /\ s.do = "search"
    BY DEF Call, AgendaCalls
  <2> HIDE DEF e, s
  <2>2. SearchCalls(c) = <<e>> \o IF Local(c) THEN <<s>> ELSE <<>>
    BY DEF SearchCalls, e, s
  <2>3. CASE Local(c)
    <3>1. /\ <<e>> \in Seq(AgendaCalls) /\ <<s>> \in Seq(AgendaCalls)
          /\ Len(<<e>>) = 1 /\ Len(<<s>>) = 1 /\ <<e>>[1] = e /\ <<s>>[1] = s
      BY <2>1
    <3>2. calls = <<e>> \o <<s>>
      BY <2>2, <2>3
    <3> HIDE DEF calls
    <3>3. /\ calls \in Seq(AgendaCalls) /\ Len(calls) = 2
          /\ calls[1] = e /\ calls[2] = s
      BY <3>1, <3>2, ConcatProperties
    <3>4. \A i \in 1..Len(calls) : i = 1 \/ i = 2
      BY <3>3
    <3> QED
      BY <2>1, <2>3, <3>3, <3>4 DEF SearchesOnly
  <2>4. CASE ~Local(c)
    <3>1. calls = <<e>>
      BY <2>1, <2>2, <2>4
    <3> QED
      BY <2>1, <3>1 DEF SearchesOnly
  <2> QED
    BY <2>3, <2>4
<1> HIDE DEF calls
<1>4. op[c].pc = "idle"
  BY <1>1, <1>2 DEF OpsInv, InOp, NoCall
<1>5. Dropping \in BOOLEAN
  BY <1>2 DEF Dropping, Running, StoreTypeOK
<1>6. /\ failed' \in [Callers -> {"no", "call", "evidence"}] /\ failed'[c] = "no"
      /\ \A b \in Callers : b # c => failed'[b] = failed[b]
      /\ calm' \in [Callers -> BOOLEAN] /\ runs' \in Nat
      /\ calm'[c] = ~Dropping
      /\ \A b \in Callers : b # c => calm'[b] = calm[b]
  BY <1>1, <1>2, <1>5 DEF StoreTypeOK
<1>7. /\ agenda'[Runner] = agenda[Runner]
      /\ UNCHANGED <<rows, lost, old, overlapped, connection>>
      /\ \A b \in Callers : b # c => agenda'[b] = agenda[b]
  BY <1>1, <1>2 DEF Calls, StoreTypeOK
<1>8. OwedInv'
  BY <1>1, <1>2, <1>6, <1>7, OwedKept
<1>9. ASSUME NEW b \in Searchers, calm'[b], agenda'[b] # <<>> PROVE ~Dropping'
  <2>1. ~Dropping
    BY <1>2, <1>6, <1>7, <1>9 DEF SearchInv, Searchers
  <2> QED
    BY <1>7, <2>1 DEF Dropping, Running
<1>10. EvidenceInv'
  BY <1>2, <1>6 DEF EvidenceInv
<1>11. /\ due' \in [Callers -> SUBSET Paths]
       /\ \A b \in Callers : due'[b] = due[b] \/ due'[b] = kept \ lost
       /\ \A b \in Callers : b # c => due'[b] = due[b]
  BY <1>1, <1>2 DEF StoreTypeOK
<1> QED
  BY <1>1, <1>3, <1>4, <1>6, <1>8, <1>9, <1>10, <1>11, GoesOnKeeps

\* What has ended is the first call on the agenda.
LEMMA EndedFirst ==
  ASSUME StoreInv, NEW c \in Callers,
         Ended(c) \in {"have", "done", "failed"}
  PROVE  /\ agenda[c] \in Seq(AgendaCalls) /\ agenda[c] # <<>>
         /\ IF Head(agenda[c]).do = "embed"
            THEN op[c].pc = "idle" /\ get[c].pc = Ended(c)
            ELSE /\ op[c].pc = Ended(c) /\ op[c].do = Head(agenda[c]).do
                 /\ op[c].path = Head(agenda[c]).path
         /\ op[c].pc \in {"idle", "done", "failed"}
<1>1. InOp(c) /\ op[c] \in Ops /\ agenda[c] \in Seq(AgendaCalls)
  BY DEF StoreInv, StoreTypeOK, OpsInv
<1>2. NoCall.pc = "idle"
  BY DEF NoCall
<1>3. agenda[c] # <<>>
  BY <1>1, <1>2 DEF Ended, InOp
<1>4. CASE Head(agenda[c]).do = "embed"
  BY <1>1, <1>2, <1>3, <1>4 DEF Ended, InOp
<1>5. CASE Head(agenda[c]).do # "embed"
  <2>1. op[c].pc = Ended(c) /\ op[c].pc # "have"
    BY <1>1, <1>5 DEF Ended, Ops
  <2> QED
    BY <1>1, <1>3, <1>5, <2>1 DEF InOp
<1> QED
  BY <1>4, <1>5

\* The run goes on after a call that has ended well.
LEMMA RunStillOwes ==
  ASSUME StoreInv, DownloadInv, CallReturns(Runner)
  PROVE  OwedInv'
<1> USE SearchPathAssumption
<1> DEFINE calls == agenda[Runner]
           left == Tail(calls)
<1>1. /\ Ended(Runner) \in {"have", "done"} /\ Calls(Runner, left)
      /\ UNCHANGED <<histVars, due>>
  BY DEF CallReturns
<1>2. /\ calls \in Seq(AgendaCalls) /\ calls # <<>>
      /\ Head(calls).do # "embed" =>
           /\ op[Runner].pc = "done" /\ op[Runner].do = Head(calls).do
           /\ op[Runner].path = Head(calls).path
  BY <1>1, EndedFirst DEF StoreInv, StoreTypeOK, Ops
<1>3. /\ StoreTypeOK /\ TableInv /\ WriterInv /\ OwedInv
  BY DEF StoreInv
<1>4. /\ agenda'[Runner] = left
      /\ UNCHANGED <<rows, lost, old, overlapped, connection>>
  BY <1>1, <1>3 DEF Calls, StoreTypeOK
<1>5. /\ left \in Seq(AgendaCalls) /\ Len(left) = Len(calls) - 1
      /\ Len(calls) \in Nat \ {0} /\ Head(calls) = calls[1]
      /\ \A i \in 1..Len(left) : left[i] = calls[i + 1]
  BY <1>2
<1>6. SUFFICES ASSUME NEW p \in Paths \ skipped, Ahead(p, calls) \/ Stored(p)
               PROVE  Ahead(p, left) \/ Stored(p)'
  BY <1>1, <1>3, <1>4 DEF OwedInv, histVars
<1> HIDE DEF left
<1>7. \A j \in 1..Len(left) : j + 1 \in 1..Len(calls)
  BY <1>5
<1>8. CASE Stored(p)
  <2>1. \A j \in 1..Len(left) : ~Removes(left[j], p)
    BY <1>5, <1>7, <1>8 DEF Stored
  <2> QED
    BY <1>4, <1>8, <2>1 DEF Stored
<1>9. ASSUME NEW i \in 1..Len(calls), calls[i] = Call("upsert", {p}),
             \A j \in 1..Len(calls) : Removes(calls[j], p) => j < i
      PROVE  Ahead(p, left) \/ Stored(p)'
  <2>1. \A j \in 1..Len(left) : Removes(left[j], p) => j + 1 < i
    BY <1>5, <1>7, <1>9
  <2>2. CASE i = 1
    <3>1. \A j \in 1..Len(left) : ~Removes(left[j], p)
      BY <1>5, <2>1, <2>2
    <3>2. Head(calls).do = "upsert" /\ Head(calls).path = {p}
      BY <1>5, <1>9, <2>2 DEF Call
    <3>3. p \in rows /\ p \notin lost /\ ~old
      BY <1>2, <1>3, <3>2 DEF WriterInv, Done, TableInv
    <3> QED
      BY <1>4, <3>1, <3>3 DEF Stored
  <2>3. CASE i # 1
    <3>1. i - 1 \in 1..Len(left) /\ left[i - 1] = calls[i]
      BY <1>5, <2>3
    <3>2. \A j \in 1..Len(left) : Removes(left[j], p) => j < i - 1
      BY <1>5, <2>1
    <3> QED
      BY <1>9, <3>1, <3>2 DEF Ahead
  <2> QED
    BY <2>2, <2>3
<1> QED
  BY <1>6, <1>8, <1>9 DEF Ahead

\* A call has ended well, and its caller goes on to the next one.
LEMMA CallReturnsKeeps ==
  ASSUME StoreInv, DownloadInv, NEW c \in Callers, CallReturns(c)
  PROVE  StoreInv'
<1> USE SearchPathAssumption
<1> DEFINE left == Tail(agenda[c])
<1>1. /\ Ended(c) \in {"have", "done"} /\ Calls(c, left)
      /\ UNCHANGED <<histVars, due>>
  BY DEF CallReturns
<1>2. /\ agenda[c] \in Seq(AgendaCalls) /\ agenda[c] # <<>>
      /\ op[c].pc \in {"idle", "done", "failed"}
  BY <1>1, EndedFirst
<1>3. /\ StoreTypeOK /\ OpsInv /\ RunInv /\ SearchInv /\ EmbedInv
      /\ EvidenceInv /\ OwedInv
  BY DEF StoreInv
<1>4. /\ left \in Seq(AgendaCalls) /\ Len(left) = Len(agenda[c]) - 1
      /\ \A i \in 1..Len(left) :
           i + 1 \in 1..Len(agenda[c]) /\ left[i] = agenda[c][i + 1]
  BY <1>2
<1> HIDE DEF left
<1>5. c \in Searchers => SearchesOnly(c, left)
  BY <1>3, <1>4 DEF OpsInv, SearchesOnly
<1>6. OwedInv'
  <2>1. CASE c = Runner
    BY <2>1, RunStillOwes
  <2>2. CASE c # Runner
    <3>1. /\ agenda'[Runner] = agenda[Runner]
          /\ UNCHANGED <<rows, lost, old, overlapped, connection>>
      BY <1>1, <1>3, <2>2 DEF Calls, StoreTypeOK
    <3> QED
      BY <1>1, <1>3, <3>1, OwedKept DEF histVars
  <2> QED
    BY <2>1, <2>2
<1>7. c = Runner => RunsOnly(left) /\ (left # <<>> => Head(left).do # "clear")
  <2> SUFFICES ASSUME c = Runner
               PROVE  RunsOnly(left) /\ (left # <<>> => Head(left).do # "clear")
    OBVIOUS
  <2>1. \A i \in 1..Len(left) : left[i].do \notin {"clear", "search"}
    BY <1>3, <1>4 DEF RunInv, RunsOnly
  <2>2. left # <<>> => 1 \in 1..Len(left) /\ Head(left) = left[1]
    BY <1>4
  <2> QED
    BY <2>1, <2>2 DEF RunsOnly
<1>8. calm'[c] /\ ~overlapped /\ connection # "rejected" => failed'[c] # "call"
  BY <1>1, <1>3 DEF EmbedInv, histVars
<1>9. /\ calm' \in [Callers -> BOOLEAN] /\ runs' \in Nat
      /\ failed' \in [Callers -> {"no", "call", "evidence"}]
      /\ due' \in [Callers -> SUBSET Paths]
      /\ UNCHANGED <<calm, failed, due>>
  BY <1>1, <1>3 DEF StoreTypeOK, histVars
<1>10. ASSUME NEW b \in Searchers, calm'[b], agenda'[b] # <<>>
       PROVE  ~Dropping'
  <2>1. /\ agenda' = [agenda EXCEPT ![c] = left] /\ old' = old
        /\ b \in Callers /\ b # Runner
    BY <1>1 DEF Calls, Searchers
  <2>2. calm[b] /\ agenda[b] # <<>>
    BY <1>2, <1>3, <1>9, <1>10, <2>1 DEF StoreTypeOK
  <2>3. ~Dropping
    BY <1>3, <2>2 DEF SearchInv
  <2>4. CASE c = Runner
    <3>1. agenda'[Runner] = left /\ agenda[Runner] # <<>>
      BY <1>2, <1>3, <2>1, <2>4 DEF StoreTypeOK
    <3> QED
      BY <1>7, <2>1, <2>3, <2>4, <3>1 DEF Dropping, Running
  <2>5. CASE c # Runner
    <3>1. agenda'[Runner] = agenda[Runner]
      BY <1>3, <2>1, <2>5 DEF StoreTypeOK
    <3> QED
      BY <2>1, <2>3, <3>1 DEF Dropping, Running
  <2> QED
    BY <2>4, <2>5
<1>11. EvidenceInv'
  BY <1>3, <1>9 DEF EvidenceInv
<1> QED
  BY <1>1, <1>2, <1>4, <1>5, <1>6, <1>7, <1>8, <1>9, <1>10, <1>11, GoesOnKeeps

\* A call that fails alone, when nothing has disturbed its caller, is one that
\* follows a chain of redirects.
LEMMA CallFailedKeeps ==
  ASSUME StoreInv, DownloadInv, NEW c \in Callers, CallFailed(c)
  PROVE  StoreInv'
<1> USE SearchPathAssumption
<1> DEFINE call == Head(agenda[c])
           same == {i \in DOMAIN agenda[c] : agenda[c][i].path = call.path}
           rest == SubSeq(agenda[c], Cardinality(same) + 1, Len(agenda[c]))
           left == IF c = Runner /\ call.do # "clear" THEN rest ELSE <<>>
<1>1. /\ Ended(c) = "failed" /\ Calls(c, left)
      /\ UNCHANGED <<runs, skipped, due>>
      /\ failed' = [failed EXCEPT ![c] = "call"]
      /\ calm' = [calm EXCEPT ![c] = @ /\ get[c].hops = 0]
  BY DEF CallFailed
<1>2. /\ agenda[c] \in Seq(AgendaCalls) /\ agenda[c] # <<>>
      /\ op[c].pc \in {"idle", "done", "failed"}
      /\ get[c].pc = "failed" \/ op[c].pc = "failed"
  BY <1>1, EndedFirst
<1>3. /\ StoreTypeOK /\ OpsInv /\ RunInv /\ NoneFails /\ SearchInv /\ EmbedInv
      /\ EvidenceInv /\ OwedInv
  BY DEF StoreInv
<1>4. /\ left \in Seq(AgendaCalls) /\ (c # Runner => left = <<>>)
      /\ c = Runner => RunsOnly(left) /\ (left # <<>> => Head(left).do # "clear")
  <2> DEFINE n == Len(agenda[c])
             m == Cardinality(same)
  <2>1. n \in Nat /\ DOMAIN agenda[c] = 1..n
    BY <1>2
  <2>2. IsFiniteSet(1..n) /\ Cardinality(1..n) = n
    BY <2>1, FS_Interval
  <2>3. same \in SUBSET (1..n)
    BY <2>1
  <2> HIDE DEF n, same
  <2>4. m \in Nat /\ m <= n
    BY <2>2, <2>3, FS_Subset, FS_CardinalityType
  <2> HIDE DEF m
  <2>5. rest = SubSeq(agenda[c], m + 1, n)
    BY DEF m, n
  <2>6. /\ rest \in Seq(AgendaCalls) /\ Len(rest) = n - m
        /\ \A i \in 1..(n - m) : rest[i] = agenda[c][i + m]
    <3>1. m + 1 \in 1..(n + 1) /\ n \in m..n
      BY <2>1, <2>4
    <3> HIDE DEF rest
    <3> QED
      BY <1>2, <2>1, <2>4, <2>5, <3>1, SubSeqProperties DEF n
  <2>0. m # 0
    <3>1. 1 \in same
      BY <1>2 DEF same
    <3>2. IsFiniteSet(same)
      BY <2>2, <2>3, FS_Subset
    <3> QED
      BY <3>1, <3>2, FS_EmptySet DEF m
  <2> HIDE DEF rest
  <2>7. ASSUME c = Runner, NEW i \in 1..(n - m)
        PROVE  rest[i].do \notin {"clear", "search"}
    <3>1. i + m \in 1..n /\ i + m # 1
      BY <2>0, <2>1, <2>4
    <3> QED
      BY <1>3, <2>6, <2>7, <3>1 DEF RunInv, RunsOnly, n
  <2>8. c = Runner => RunsOnly(rest) /\ (rest # <<>> => Head(rest).do # "clear")
    <3>1. rest # <<>> => 1 \in 1..Len(rest) /\ Head(rest) = rest[1]
      BY <2>6
    <3> QED
      BY <2>6, <2>7, <3>1 DEF RunsOnly
  <2>9. RunsOnly(<<>>)
    BY DEF RunsOnly
  <2> QED
    BY <2>6, <2>8, <2>9
<1> HIDE DEF left
<1>5. c \in Searchers => SearchesOnly(c, left)
  BY <1>4 DEF Searchers, SearchesOnly
<1>6. /\ failed' \in [Callers -> {"no", "call", "evidence"}]
      /\ failed'[c] = "call"
      /\ \A b \in Callers : b # c => failed'[b] = failed[b]
      /\ due' \in [Callers -> SUBSET Paths]
  BY <1>1, <1>3 DEF StoreTypeOK
<1>7. /\ calm' \in [Callers -> BOOLEAN]
      /\ calm'[c] => calm[c] /\ get[c].hops = 0
      /\ \A b \in Callers : b # c => calm'[b] = calm[b]
  <2>1. (calm[c] /\ get[c].hops = 0) \in BOOLEAN
    OBVIOUS
  <2>2. calm' = [calm EXCEPT ![c] = calm[c] /\ get[c].hops = 0]
    BY <1>1
  <2> DEFINE now == calm[c] /\ get[c].hops = 0
  <2>3. calm' = [calm EXCEPT ![c] = now] /\ now \in BOOLEAN
    BY <2>1, <2>2
  <2>4. now => calm[c] /\ get[c].hops = 0
    OBVIOUS
  <2> HIDE DEF now
  <2> QED
    BY <1>3, <2>3, <2>4 DEF StoreTypeOK
<1>8. ~(calm'[c] /\ ~overlapped /\ connection # "rejected")
  BY <1>2, <1>3, <1>7 DEF NoneFails, EmbedInv
<1>9. UNCHANGED <<rows, lost, old, overlapped, connection>>
  BY <1>1 DEF Calls
<1>10. OwedInv'
  <2>1. CASE c = Runner
    BY <1>8, <1>9, <2>1 DEF OwedInv
  <2>2. CASE c # Runner
    <3>1. agenda'[Runner] = agenda[Runner]
      BY <1>1, <1>3, <2>2 DEF Calls, StoreTypeOK
    <3>2. calm'[Runner] => calm[Runner]
      BY <1>7, <2>2
    <3> QED
      BY <1>1, <1>3, <1>9, <3>1, <3>2, OwedKept
  <2> QED
    BY <2>1, <2>2
<1>11. ASSUME NEW b \in Searchers, calm'[b], agenda'[b] # <<>>
       PROVE  ~Dropping'
  <2>1. /\ agenda' = [agenda EXCEPT ![c] = left] /\ old' = old
        /\ b \in Callers /\ b # Runner
    BY <1>1 DEF Calls, Searchers
  <2>2. calm[b] /\ agenda[b] # <<>>
    BY <1>2, <1>3, <1>7, <1>11, <2>1 DEF StoreTypeOK
  <2>3. ~Dropping
    BY <1>3, <2>2 DEF SearchInv
  <2>4. CASE c = Runner
    <3>1. agenda'[Runner] = left /\ agenda[Runner] # <<>>
      BY <1>2, <1>3, <2>1, <2>4 DEF StoreTypeOK
    <3> QED
      BY <1>4, <2>1, <2>3, <2>4, <3>1 DEF Dropping, Running
  <2>5. CASE c # Runner
    <3>1. agenda'[Runner] = agenda[Runner]
      BY <1>3, <2>1, <2>5 DEF StoreTypeOK
    <3> QED
      BY <2>1, <2>3, <3>1 DEF Dropping, Running
  <2> QED
    BY <2>4, <2>5
<1>12. runs' \in Nat
  BY <1>1, <1>3 DEF StoreTypeOK
<1>13. EvidenceInv'
  BY <1>3, <1>6 DEF EvidenceInv
<1> QED
  BY <1>1, <1>2, <1>4, <1>5, <1>6, <1>7, <1>8, <1>10, <1>11, <1>12, <1>13,
     GoesOnKeeps

\* A search that meets a row that has both kinds of location is at its end.
LEMMA SearchThrowsKeeps ==
  ASSUME StoreInv, DownloadInv, NEW c \in Callers, SearchThrows(c)
  PROVE  StoreInv'
<1> USE SearchPathAssumption
<1>1. /\ agenda[c] # <<>> /\ Head(agenda[c]).do = "search" /\ Ended(c) = "done"
      /\ op[c].found \cap Odd # {} /\ Calls(c, <<>>)
      /\ failed' = [failed EXCEPT ![c] = "evidence"]
      /\ UNCHANGED <<runs, skipped, calm, due>>
  BY DEF SearchThrows
<1>2. /\ StoreTypeOK /\ OpsInv /\ RunInv /\ SearchInv /\ EmbedInv
      /\ EvidenceInv /\ OwedInv
  BY DEF StoreInv
<1>3. /\ agenda[c] \in Seq(AgendaCalls) /\ op[c].pc \in {"idle", "done", "failed"}
  BY <1>1, EndedFirst
<1>4. c # Runner
  <2>1. 1 \in 1..Len(agenda[c]) /\ Head(agenda[c]) = agenda[c][1]
    BY <1>1, <1>3
  <2> QED
    BY <1>1, <1>2, <2>1 DEF RunInv, RunsOnly
<1>5. <<>> \in Seq(AgendaCalls) /\ SearchesOnly(c, <<>>)
  BY DEF SearchesOnly
<1>6. /\ failed' \in [Callers -> {"no", "call", "evidence"}]
      /\ failed'[c] = "evidence"
      /\ \A b \in Callers : b # c => failed'[b] = failed[b]
      /\ calm' \in [Callers -> BOOLEAN] /\ runs' \in Nat
      /\ due' \in [Callers -> SUBSET Paths]
  BY <1>1, <1>2 DEF StoreTypeOK
<1>7. /\ \A b \in Callers : b # c => agenda'[b] = agenda[b]
      /\ agenda'[c] = <<>>
      /\ UNCHANGED <<rows, lost, old, overlapped, connection>>
  BY <1>1, <1>2 DEF Calls, StoreTypeOK
<1>8. OwedInv'
  BY <1>1, <1>2, <1>4, <1>7, OwedKept
<1>9. ASSUME NEW b \in Searchers, calm'[b], agenda'[b] # <<>> PROVE ~Dropping'
  <2>1. ~Dropping
    BY <1>1, <1>2, <1>7, <1>9 DEF SearchInv, Searchers
  <2> QED
    BY <1>4, <1>7, <2>1 DEF Dropping, Running
<1>10. EvidenceInv'
  BY <1>1, <1>2, <1>4, <1>6 DEF EvidenceInv
<1> QED
  BY <1>1, <1>3, <1>4, <1>5, <1>6, <1>8, <1>9, <1>10, GoesOnKeeps

\* Beside what a caller does for its embedding.
LEMMA DownloadsKeep ==
  ASSUME StoreInv, UNCHANGED <<tableVars, pathVars, home>>, EmbedInv',
         overlapped => overlapped'
  PROVE  StoreInv'
<1>1. /\ StoreTypeOK /\ OpsInv /\ RunInv /\ TableInv /\ WriterInv /\ NoneFails
      /\ SearchInv /\ DueInv /\ EvidenceInv /\ OwedInv
  BY DEF StoreInv
<1>2. /\ UNCHANGED <<table, rows, old, connection, cached, promise, op, kept, lost>>
      /\ UNCHANGED <<agenda, runs, skipped, calm, failed, due, home>>
  BY DEF tableVars, pathVars, histVars
<1>3. StoreTypeOK' /\ TableInv' /\ NoneFails'
  BY <1>1, <1>2 DEF StoreTypeOK, TableInv, Live, NoneFails
<1>4. OpsInv'
  BY <1>1, <1>2 DEF OpsInv, InOp, SearchesOnly, Local
<1>5. \A d : Follows(d) => Follows(d)'
  BY <1>2 DEF Follows, Live
<1>6. WriterInv'
  BY <1>1, <1>2, <1>5 DEF WriterInv, Creates, Drops, Done
<1>7. SearchInv'
  BY <1>1, <1>2, <1>5 DEF SearchInv, Dropping, Running
<1>8. OwedInv'
  BY <1>1, <1>2, OwedKept
<1>9. DueInv' /\ RunInv' /\ EvidenceInv'
  BY <1>1, <1>2 DEF DueInv, RunInv, EvidenceInv
<1> QED
  BY <1>3, <1>4, <1>6, <1>7, <1>8, <1>9 DEF StoreInv

\* What a step of a download leads to.
LEMMA EmbedsLeads ==
  ASSUME StoreInv, DownloadInv, NEW c \in Callers, DownloadStep(c)
  PROVE  /\ \A b \in Callers : b # c => get'[b] = get[b]
         /\ overlapped => overlapped'
         /\ file.model # NoFile => file'.model # NoFile
         /\ get'[c].pc = "load" => file'.model # NoFile
         /\ ~overlapped' /\ get'[c].pc = "failed" => get'[c].hops # 0
<1>1. /\ EmbedInv /\ get[c] \in Downloads /\ Opens(c)
      /\ get \in [Callers -> Downloads]
      /\ file \in [part : Inodes \cup {NoFile}, model : Inodes \cup {NoFile}]
      /\ ~overlapped => AloneInv
  BY DEF StoreInv, DownloadInv, DownloadTypeOK, CallersInv
<1>2. \A p : Goes(c, p) =>
        get'[c].pc = p /\ \A b \in Callers : b # c => get'[b] = get[b]
  BY <1>1 DEF Goes, Idle
<1>3. CASE EnsureContext(c)
  <2>1. PICK p \in {"have", "check"} : Goes(c, p)
    BY <1>3 DEF EnsureContext
  <2> QED
    BY <1>2, <1>3, <2>1 DEF EnsureContext
<1>4. CASE CheckModel(c)
  <2>1. CASE file.model # NoFile /\ data[file.model] # {}
    BY <1>2, <1>4, <2>1 DEF CheckModel
  <2>2. CASE ~(file.model # NoFile /\ data[file.model] # {})
    <3>1. /\ Goes(c, "request") /\ file' = [file EXCEPT !.part = NoFile]
          /\ overlapped => overlapped'
      BY <1>4, <2>2 DEF CheckModel
    <3>2. file'.model = file.model
      BY <1>1, <3>1
    <3>3. get'[c].pc = "request" /\ \A b \in Callers : b # c => get'[b] = get[b]
      BY <1>2, <3>1
    <3> QED
      BY <3>1, <3>2, <3>3
  <2> QED
    BY <2>1, <2>2
<1>5. CASE Redirect(c)
  <2>1. CASE get[c].hops >= MaxRedirects
    <3>1. Fail(c)
      BY <1>5, <2>1 DEF Redirect
    <3>2. get[c].hops # 0
      BY <1>1, <2>1, DownloadAssumption DEF Downloads
    <3>3. /\ get'[c].pc = "failed" /\ get'[c].hops = get[c].hops
          /\ \A b \in Callers : b # c => get'[b] = get[b]
      BY <1>1, <3>1 DEF Fail, Idle
    <3>4. file'.model = file.model /\ overlapped' = overlapped
      BY <1>1, <3>1 DEF Fail
    <3> QED
      BY <3>2, <3>3, <3>4
  <2>2. CASE ~(get[c].hops >= MaxRedirects)
    <3>1. /\ get[c].pc = "request"
          /\ get' = [get EXCEPT ![c].hops = @ + 1]
          /\ UNCHANGED <<file, overlapped>>
      BY <1>5, <2>2 DEF Redirect
    <3>2. get'[c].pc = "request" /\ \A b \in Callers : b # c => get'[b] = get[b]
      BY <1>1, <3>1 DEF Downloads
    <3> QED
      BY <3>1, <3>2
  <2> QED
    BY <2>1, <2>2
<1>6. CASE Respond(c)
  <2>1. PICK i : /\ get' = [get EXCEPT ![c].pc = "write", ![c].fd = i]
                 /\ file' = [file EXCEPT !.part = i] /\ UNCHANGED overlapped
    BY <1>6 DEF Respond
  <2>2. /\ get'[c].pc = "write" /\ file'.model = file.model
        /\ \A b \in Callers : b # c => get'[b] = get[b]
    BY <1>1, <2>1 DEF Downloads
  <2> QED
    BY <2>1, <2>2
<1>7. CASE WriteBlock(c)
  <2>1. /\ get[c].pc = "write" /\ get' = [get EXCEPT ![c].at = @ + 1]
        /\ UNCHANGED <<file, overlapped>>
    BY <1>7 DEF WriteBlock
  <2>2. get'[c].pc = "write" /\ \A b \in Callers : b # c => get'[b] = get[b]
    BY <1>1, <2>1 DEF Downloads
  <2> QED
    BY <2>1, <2>2
<1>8. CASE Complete(c)
  <2>1. get[c].pc = "write" /\ UNCHANGED overlapped
    BY <1>8 DEF Complete, Renamed
  <2>2. CASE file.part = NoFile
    <3>1. Goes(c, "failed") /\ UNCHANGED file
      BY <1>8, <2>2 DEF Complete, Renamed
    <3>2. overlapped
      BY <1>1, <2>1, <2>2 DEF AloneInv, Opens
    <3> QED
      BY <1>2, <2>1, <3>1, <3>2
  <2>3. CASE file.part # NoFile
    <3>1. Goes(c, "load") /\ file' = [part |-> NoFile, model |-> file.part]
      BY <1>8, <2>3 DEF Complete, Renamed
    <3> QED
      BY <1>2, <2>1, <2>3, <3>1
  <2> QED
    BY <2>2, <2>3
<1>9. CASE LoadModel(c)
  <2>1. get[c].pc = "load" /\ UNCHANGED <<file, overlapped>>
    BY <1>9 DEF LoadModel
  <2>2. file.model # NoFile
    BY <1>1, <2>1 DEF EmbedInv
  <2>3. CASE data[file.model] = Whole
    <3>1. Goes(c, "have")
      BY <1>9, <2>3 DEF LoadModel
    <3> QED
      BY <1>2, <2>1, <3>1
  <2>4. CASE data[file.model] # Whole
    <3>1. Goes(c, "failed") /\ overlapped
      BY <1>1, <1>9, <2>2, <2>4 DEF LoadModel, AloneInv
    <3> QED
      BY <1>2, <2>1, <3>1
  <2> QED
    BY <2>3, <2>4
<1> QED
  BY <1>3, <1>4, <1>5, <1>6, <1>7, <1>8, <1>9 DEF DownloadStep

\* A step of a download concerns the store no more than its caller's end.
LEMMA EmbedsKeeps ==
  ASSUME StoreInv, DownloadInv, NEW c \in Callers, Embeds(c)
  PROVE  StoreInv'
<1>1. DownloadStep(c) /\ UNCHANGED <<tableVars, pathVars>>
  BY DEF Embeds
<1>2. UNCHANGED home
  BY <1>1 DEF DownloadStep, EnsureContext, CheckModel, Redirect, Fail, Respond,
              WriteBlock, Complete, Renamed, LoadModel
<1>3. /\ \A b \in Callers : b # c => get'[b] = get[b]
      /\ overlapped => overlapped'
      /\ file.model # NoFile => file'.model # NoFile
      /\ get'[c].pc = "load" => file'.model # NoFile
      /\ ~overlapped' /\ get'[c].pc = "failed" => get'[c].hops # 0
  BY <1>1, EmbedsLeads
<1>4. UNCHANGED <<calm, failed, connection>>
  BY <1>1 DEF tableVars, pathVars, histVars
<1>5. EmbedInv'
  <2>1. EmbedInv
    BY DEF StoreInv
  <2> SUFFICES ASSUME NEW b \in Callers
               PROVE  /\ get'[b].pc = "load" => file'.model # NoFile
                      /\ calm'[b] /\ ~overlapped' /\ get'[b].pc = "failed" =>
                           get'[b].hops # 0
                      /\ calm'[b] /\ ~overlapped' /\ connection' # "rejected" =>
                           failed'[b] # "call"
    BY DEF EmbedInv
  <2>2. CASE b = c
    BY <1>3, <1>4, <2>1, <2>2 DEF EmbedInv
  <2>3. CASE b # c
    BY <1>3, <1>4, <2>1, <2>3 DEF EmbedInv
  <2> QED
    BY <2>2, <2>3
<1> QED
  BY <1>1, <1>2, <1>3, <1>5, DownloadsKeep
-----------------------------------------------------------------------------
(* Faults *)

\* After a fault nothing that is in progress counts as undisturbed.
LEMMA DisturbsKeeps ==
  ASSUME Disturbs, StoreTypeOK', OpsInv', RunInv', TableInv', WriterInv',
         DueInv', EvidenceInv',
         \A c \in Callers : get'[c].pc = "load" => file'.model # NoFile
  PROVE  StoreInv'
<1> USE SearchPathAssumption
<1>1. \A c \in Callers : ~calm'[c]
  BY DEF Disturbs
<1>2. NoneFails' /\ SearchInv' /\ EmbedInv' /\ OwedInv'
  BY <1>1 DEF NoneFails, SearchInv, EmbedInv, OwedInv, Searchers
<1> QED
  BY <1>2 DEF StoreInv

\* What a fault does to the history.
LEMMA DisturbsHistory ==
  ASSUME StoreTypeOK, Disturbs
  PROVE  /\ calm' \in [Callers -> BOOLEAN] /\ UNCHANGED <<runs, failed, due>>
         /\ ~calm'[Runner] /\ (EvidenceInv => EvidenceInv')
  BY SearchPathAssumption DEF StoreTypeOK, Disturbs, EvidenceInv

\* The call of u on the store fails.
LEMMA CallFailsKeeps ==
  ASSUME StoreInv, Disturbs, UNCHANGED <<get, file, home, agenda>>,
         NEW u \in Callers, Steps(u, "failed"), op[u].pc # "idle",
         op[u].pc = "await" => promise[op[u].on].is = "handle",
         UNCHANGED <<table, rows, old, cached, promise, kept, lost>>
  PROVE  StoreInv'
<1> USE SearchPathAssumption
<1>1. /\ StoreTypeOK /\ OpsInv /\ RunInv /\ TableInv /\ WriterInv /\ DueInv
      /\ EmbedInv /\ EvidenceInv
  BY DEF StoreInv
<1>2. /\ op' \in [Callers -> Ops] /\ op'[u].pc = "failed"
      /\ op'[u].do = op[u].do /\ op'[u].path = op[u].path
      /\ op'[u].again = op[u].again
      /\ \A b \in Callers : b # u => op'[b] = op[b]
  BY <1>1, StepsAt DEF OpAt
<1>3. /\ calm' \in [Callers -> BOOLEAN] /\ UNCHANGED <<runs, failed, due>>
      /\ ~calm'[Runner] /\ EvidenceInv'
  BY <1>1, DisturbsHistory
<1>4. StoreTypeOK'
  BY <1>1, <1>2, <1>3 DEF StoreTypeOK
<1>5. OpsInv'
  <2>1. ASSUME NEW b \in Callers
        PROVE  /\ InOp(b)' /\ (op'[b].pc = "await" => op'[b].on # NoPromise)
               /\ op'[b].again # "no" => op'[b].do = "upsert"
               /\ op'[b].pc \in {"drop", "dropped"} => op'[b].do # "search"
    <3>1. CASE b = u
      BY <1>1, <1>2, <3>1 DEF OpsInv, InOp, NoCall
    <3>2. CASE b # u
      BY <1>1, <1>2, <3>2 DEF OpsInv, InOp
    <3> QED
      BY <3>1, <3>2
  <2>2. \A b \in Searchers : SearchesOnly(b, agenda[b])'
    BY <1>1 DEF OpsInv, SearchesOnly, Local
  <2> QED
    BY <2>1, <2>2 DEF OpsInv
<1>6. TableInv'
  <2>1. ASSUME NEW i \in Ids, promise[i].is = "creating" PROVE u # Runner
    BY <1>1, <2>1 DEF TableInv
  <2> QED
    BY <1>1, <1>2, <2>1 DEF TableInv, Live
<1>7. WriterInv'
  <2>1. CASE u = Runner
    BY <1>2, <2>1 DEF WriterInv, Follows, Creates, Drops, Done
  <2>2. CASE u # Runner
    BY <1>1, <1>2, <1>3, <2>2, WriterKept
  <2> QED
    BY <2>1, <2>2
<1>8. DueInv' /\ RunInv'
  BY <1>1, <1>2, <1>3 DEF DueInv, RunInv, Searchers
<1> QED
  BY <1>1, <1>3, <1>4, <1>5, <1>6, <1>7, <1>8, DisturbsKeeps DEF EmbedInv

\* The database fails to create a table: only the run can be waiting for that.
LEMMA CreateFailsKeeps ==
  ASSUME StoreInv, Disturbs, UNCHANGED <<get, file, home, agenda>>,
         NEW i \in Ids, CreateFails(i)
  PROVE  StoreInv'
<1> USE SearchPathAssumption
<1>1. /\ StoreTypeOK /\ OpsInv /\ RunInv /\ TableInv /\ WriterInv /\ DueInv
      /\ EmbedInv /\ EvidenceInv
  BY DEF StoreInv
<1>2. /\ promise[i].is = "creating" /\ promise' = [promise EXCEPT ![i] = Rejected]
      /\ UNCHANGED <<table, rows, old, connection, cached, op, kept, lost>>
  BY DEF CreateFails
<1>3. Rejected \in Promises /\ Rejected.is = "rejected"
  BY DEF Rejected, Promise, Promises
<1>4. /\ promise' \in [Ids -> Promises] /\ promise'[i].is = "rejected"
      /\ \A j \in Ids : j # i => promise'[j] = promise[j]
  BY <1>1, <1>2, <1>3 DEF StoreTypeOK
<1>5. /\ op[Runner].pc = "await" /\ op[Runner].again = "create"
      /\ op[Runner].on = i /\ cached = i /\ ~table
  BY <1>1, <1>2 DEF TableInv, WriterInv, Creates
<1>6. /\ calm' \in [Callers -> BOOLEAN] /\ UNCHANGED <<runs, failed, due>>
      /\ ~calm'[Runner] /\ EvidenceInv'
  BY <1>1, DisturbsHistory
<1>7. StoreTypeOK'
  BY <1>1, <1>2, <1>4, <1>6 DEF StoreTypeOK
<1>8. OpsInv'
  BY <1>1, <1>2 DEF OpsInv, InOp, SearchesOnly, Local
<1>9. TableInv'
  BY <1>1, <1>2, <1>4, <1>5 DEF TableInv
<1>10. WriterInv'
  BY <1>1, <1>2, <1>4, <1>5, <1>6
  DEF WriterInv, Follows, Creates, Drops, Done
<1>11. DueInv' /\ RunInv'
  BY <1>1, <1>2, <1>6 DEF DueInv, RunInv
<1> QED
  BY <1>1, <1>6, <1>7, <1>8, <1>9, <1>10, <1>11, DisturbsKeeps DEF EmbedInv

\* A call of the database fails.
LEMMA StoreFailsKeeps ==
  ASSUME StoreInv, StoreFails
  PROVE  StoreInv'
<1> USE SearchPathAssumption
<1>1. TableFault /\ Disturbs /\ UNCHANGED <<get, file, home, agenda>>
  BY DEF StoreFails
<1>2. ASSUME NEW u \in Callers, ConnectFails(u) \/ CallFails(u) PROVE StoreInv'
  BY <1>1, <1>2, CallFailsKeeps DEF ConnectFails, CallFails, Settled
<1>3. ASSUME NEW i \in Ids, CreateFails(i) PROVE StoreInv'
  BY <1>1, <1>3, CreateFailsKeeps
<1> QED
  BY <1>1, <1>2, <1>3 DEF TableFault

\* A download fails.
LEMMA NetworkFailsKeeps ==
  ASSUME StoreInv, DownloadInv, NetworkFails
  PROVE  StoreInv'
<1>1. PICK c \in Callers : Fail(c)
  BY DEF NetworkFails, DownloadFails
<1>2. Disturbs /\ UNCHANGED <<tableVars, agenda>>
  BY DEF NetworkFails
<1>3. /\ StoreTypeOK /\ OpsInv /\ RunInv /\ TableInv /\ WriterInv /\ DueInv
      /\ EmbedInv /\ EvidenceInv
      /\ get \in [Callers -> Downloads]
      /\ file \in [part : Inodes \cup {NoFile}, model : Inodes \cup {NoFile}]
  BY DEF StoreInv, DownloadInv, DownloadTypeOK
<1>4. /\ UNCHANGED <<table, rows, old, connection, cached, promise, op, kept, lost>>
      /\ UNCHANGED home
  BY <1>1, <1>2 DEF tableVars, Fail
<1>5. /\ calm' \in [Callers -> BOOLEAN] /\ UNCHANGED <<runs, failed, due>>
      /\ ~calm'[Runner] /\ EvidenceInv'
  BY <1>2, <1>3, DisturbsHistory
<1>6. /\ get'[c].pc = "failed" /\ file'.model = file.model
      /\ \A b \in Callers : b # c => get'[b] = get[b]
  BY <1>1, <1>3 DEF Fail, Idle
<1>7. \A b \in Callers : get'[b].pc = "load" => file'.model # NoFile
  <2> SUFFICES ASSUME NEW b \in Callers, get'[b].pc = "load"
               PROVE  file'.model # NoFile
    OBVIOUS
  <2>1. get'[b] = get[b]
    BY <1>6
  <2> QED
    BY <1>3, <1>6, <2>1 DEF EmbedInv
<1>8. StoreTypeOK' /\ TableInv'
  BY <1>2, <1>3, <1>4, <1>5 DEF StoreTypeOK, TableInv, Live
<1>9. OpsInv'
  BY <1>2, <1>3, <1>4 DEF OpsInv, InOp, SearchesOnly, Local
<1>10. WriterInv'
  BY <1>3, <1>4, <1>5, WriterKept
<1>11. DueInv' /\ RunInv'
  BY <1>2, <1>3, <1>4, <1>5 DEF DueInv, RunInv
<1> QED
  BY <1>2, <1>5, <1>7, <1>8, <1>9, <1>10, <1>11, DisturbsKeeps

\* The process of the run ends with its calls, and its promises.
LEMMA ProcessEndsKeeps ==
  ASSUME StoreInv, DownloadInv, NEW p \in Processes, ProcessEnds(p)
  PROVE  StoreInv'
<1> USE SearchPathAssumption
<1>1. /\ EndDownloads(p) /\ Disturbs
      /\ IF home[Runner] = p THEN EndCalls ELSE UNCHANGED tableVars
      /\ agenda' = [c \in Callers |-> IF home[c] = p THEN <<>> ELSE agenda[c]]
  BY DEF ProcessEnds
<1>2. /\ StoreTypeOK /\ OpsInv /\ RunInv /\ TableInv /\ WriterInv /\ DueInv
      /\ EmbedInv /\ EvidenceInv
  BY DEF StoreInv
<1>3. /\ calm' \in [Callers -> BOOLEAN] /\ UNCHANGED <<runs, failed, due>>
      /\ ~calm'[Runner] /\ EvidenceInv'
  BY <1>1, <1>2, DisturbsHistory
<1>4. UNCHANGED <<home, file>>
  BY <1>1 DEF EndDownloads
<1>5. \A b \in Callers : agenda'[b] = IF home[b] = p THEN <<>> ELSE agenda[b]
  BY <1>1
<1>6. agenda' \in [Callers -> Seq(AgendaCalls)]
  <2>1. \A b \in Callers : agenda[b] \in Seq(AgendaCalls)
    BY <1>2 DEF StoreTypeOK
  <2>2. <<>> \in Seq(AgendaCalls)
    OBVIOUS
  <2>3. \A b \in Callers :
          (IF home[b] = p THEN <<>> ELSE agenda[b]) \in Seq(AgendaCalls)
    BY <2>1, <2>2
  <2> QED
    BY <1>1, <2>3
<1>7. \A b \in Callers : get'[b].pc = "load" => file'.model # NoFile
  <2>1. \A b \in Callers : get'[b] = IF home[b] = p THEN Idle ELSE get[b]
    BY <1>1 DEF EndDownloads
  <2> QED
    BY <1>2, <1>4, <2>1 DEF EmbedInv, Idle
<1>8. \A b \in Searchers : SearchesOnly(b, agenda[b])'
  <2> SUFFICES ASSUME NEW b \in Searchers PROVE SearchesOnly(b, agenda[b])'
    OBVIOUS
  <2>1. agenda'[b] = <<>> \/ agenda'[b] = agenda[b]
    BY <1>5 DEF Searchers
  <2> QED
    BY <1>2, <1>4, <2>1 DEF OpsInv, SearchesOnly, Local
<1>9. NoCall \in Ops /\ NoCall.pc = "idle" /\ NoCall.again = "no"
  BY DEF NoCall, Ops
\* The callers of other daemons have no call of this store.
<1>10. \A b \in Searchers : home[b] # home[Runner] => op[b] = NoCall
  <2> SUFFICES ASSUME NEW b \in Searchers, home[b] # home[Runner]
               PROVE  op[b] = NoCall
    OBVIOUS
  <2>1. /\ b \in Callers /\ InOp(b) /\ SearchesOnly(b, agenda[b])
        /\ agenda[b] \in Seq(AgendaCalls)
    BY <1>2 DEF OpsInv, Searchers, StoreTypeOK
  <2>2. agenda[b] # <<>> =>
          1 \in 1..Len(agenda[b]) /\ Head(agenda[b]) = agenda[b][1]
    BY <2>1
  <2>3. agenda[b] # <<>> => Head(agenda[b]).do = "embed"
    BY <2>1, <2>2 DEF SearchesOnly, Local
  <2> QED
    BY <2>1, <2>3 DEF InOp
<1>13. RunInv'
  <2>1. agenda'[Runner] = <<>> \/ agenda'[Runner] = agenda[Runner]
    BY <1>5
  <2> QED
    BY <1>2, <2>1 DEF RunInv, RunsOnly
<1>11. CASE home[Runner] = p
  <2>1. /\ connection' = "none" /\ cached' = NoPromise
        /\ promise' = [i \in Ids |-> Rejected]
        /\ op' = [u \in Callers |-> NoCall]
        /\ UNCHANGED <<table, rows, old, kept, lost>>
    BY <1>1, <1>11 DEF EndCalls
  <2>2. Rejected \in Promises /\ Rejected.is = "rejected"
    BY DEF Rejected, Promise, Promises
  <2>3. /\ promise' \in [Ids -> Promises]
        /\ \A i \in Ids : promise'[i].is = "rejected"
    BY <2>1, <2>2
  <2>4. op' \in [Callers -> Ops] /\ \A b \in Callers : op'[b] = NoCall
    BY <1>9, <2>1
  <2>5. StoreTypeOK'
    BY <1>2, <1>3, <1>6, <2>1, <2>3, <2>4 DEF StoreTypeOK
  <2>6. \A b \in Callers : InOp(b)'
    <3> SUFFICES ASSUME NEW b \in Callers, agenda'[b] # <<>>
                 PROVE  Head(agenda'[b]).do = "embed"
      BY <2>4 DEF InOp
    <3>1. b \in Searchers /\ home[b] # home[Runner] /\ agenda'[b] = agenda[b]
      BY <1>5, <1>11 DEF Searchers
    <3>2. op[b].pc = "idle"
      BY <1>9, <1>10, <3>1
    <3> QED
      BY <1>2, <3>1, <3>2 DEF OpsInv, InOp
  <2>7. OpsInv'
    BY <1>8, <1>9, <2>4, <2>6 DEF OpsInv
  <2>8. TableInv'
    BY <1>2, <2>1, <2>3 DEF TableInv
  <2>9. WriterInv'
    BY <1>9, <2>4 DEF WriterInv, Follows, Creates, Drops, Done
  <2>10. DueInv'
    BY <1>2, <1>3, <1>9, <2>1, <2>4 DEF DueInv, Searchers
  <2> QED
    BY <1>1, <1>3, <1>7, <1>13, <2>5, <2>7, <2>8, <2>9, <2>10, DisturbsKeeps
<1>12. CASE home[Runner] # p
  <2>1. UNCHANGED <<table, rows, old, connection, cached, promise, op, kept, lost>>
    BY <1>1, <1>12 DEF tableVars
  <2>2. StoreTypeOK' /\ TableInv'
    BY <1>2, <1>3, <1>6, <2>1 DEF StoreTypeOK, TableInv, Live
  <2>3. \A b \in Callers : InOp(b)'
    <3> SUFFICES ASSUME NEW b \in Callers PROVE InOp(b)'
      OBVIOUS
    <3>1. CASE home[b] = p
      <4>1. b \in Searchers /\ home[b] # home[Runner] /\ agenda'[b] = <<>>
        BY <1>5, <1>12, <3>1 DEF Searchers
      <4> QED
        BY <1>10, <2>1, <4>1 DEF InOp
    <3>2. CASE home[b] # p
      BY <1>2, <1>5, <2>1, <3>2 DEF OpsInv, InOp
    <3> QED
      BY <3>1, <3>2
  <2>4. OpsInv'
    BY <1>2, <1>8, <2>1, <2>3 DEF OpsInv
  <2>5. WriterInv'
    BY <1>2, <1>3, <2>1, WriterKept
  <2>6. DueInv'
    BY <1>2, <1>3, <2>1 DEF DueInv
  <2> QED
    BY <1>1, <1>3, <1>7, <1>13, <2>2, <2>4, <2>5, <2>6, DisturbsKeeps
<1> QED
  BY <1>11, <1>12
-----------------------------------------------------------------------------
(* The theorems *)

\* At first nobody calls the store, and nothing is cached.
LEMMA InitStores == Init => StoreInv
<1> SUFFICES ASSUME Init PROVE StoreInv
  OBVIOUS
<1> USE SearchPathAssumption DEF Init, TableInit
<1>1. /\ NoCall \in Ops /\ NoCall.pc = "idle" /\ NoCall.again = "no"
      /\ Rejected \in Promises /\ Rejected.is = "rejected"
      /\ Idle.pc = "idle"
  BY DEF NoCall, Ops, Rejected, Promise, Promises, Idle
<1>2. /\ \A c \in Callers : op[c] = NoCall /\ agenda[c] = <<>>
      /\ \A c \in Callers : calm[c] /\ failed[c] = "no" /\ get[c] = Idle
      /\ \A c \in Callers : due[c] = {}
      /\ \A i \in Ids : promise[i] = Rejected
  BY DEF DownloadInit
<1>3. StoreTypeOK
  <2>1. op \in [Callers -> Ops] /\ promise \in [Ids -> Promises]
    BY <1>1
  <2>2. agenda \in [Callers -> Seq(AgendaCalls)]
    <3>1. <<>> \in Seq(AgendaCalls)
      OBVIOUS
    <3> QED
      BY <3>1
  <2> QED
    BY <2>1, <2>2 DEF StoreTypeOK
<1>4. OpsInv
  BY <1>1, <1>2 DEF OpsInv, InOp, SearchesOnly, Searchers
<1>5. TableInv
  BY <1>1, <1>2 DEF TableInv
<1>6. WriterInv
  BY <1>1, <1>2 DEF WriterInv, Follows, Creates, Drops, Done
<1>7. NoneFails /\ SearchInv
  BY <1>1, <1>2 DEF NoneFails, SearchInv, Searchers
<1>8. EmbedInv
  BY <1>1, <1>2 DEF EmbedInv
<1>9. OwedInv
  BY DEF OwedInv
<1>10. DueInv /\ RunInv /\ EvidenceInv
  BY <1>1, <1>2 DEF DueInv, RunInv, RunsOnly, EvidenceInv, Searchers
<1> QED
  BY <1>3, <1>4, <1>5, <1>6, <1>7, <1>8, <1>9, <1>10 DEF StoreInv

\* Every step keeps the invariant.
LEMMA StoreNextKeeps == DownloadInv /\ StoreInv /\ [Next]_vars => StoreInv'
<1> SUFFICES ASSUME DownloadInv, StoreInv, [Next]_vars PROVE StoreInv'
  OBVIOUS
<1>1. CASE UNCHANGED vars
  <2>1. /\ UNCHANGED <<tableVars, pathVars, home>>
        /\ UNCHANGED <<get, file, overlapped, calm, failed, connection>>
    BY <1>1 DEF vars, downloadVars, tableVars, pathVars, histVars
  <2>2. EmbedInv'
    BY <2>1 DEF StoreInv, EmbedInv
  <2> QED
    BY <2>1, <2>2, DownloadsKeep
<1>2. CASE StartRun
  BY <1>2, StartRunKeeps
<1>3. ASSUME NEW c \in Callers, Ask(c) PROVE StoreInv'
  BY <1>1, <1>3, AskKeeps
<1>4. ASSUME NEW c \in Callers, GoesOn(c) PROVE StoreInv'
  <2>1. CASE Stores(c)
    <3>1. TableStep(c) /\ Elsewhere
      <4>1. /\ due' = [b \in Callers |-> due[b] \cap (kept' \ lost')]
            /\ due \in [Callers -> SUBSET Paths]
        BY <2>1 DEF Stores, StoreInv, StoreTypeOK
      <4> QED
        BY <2>1, <4>1 DEF Stores, Elsewhere
    <3> QED
      BY <3>1, SearcherKeeps, RunnerKeeps DEF Searchers
  <2> QED
    BY <1>4, <2>1, CallReturnsKeeps, CallFailedKeeps, EmbedsKeeps,
       SearchThrowsKeeps DEF GoesOn
<1>5. ASSUME NEW i \in Ids, Answers(i) PROVE StoreInv'
  <2>1. /\ OpenTable(i) \/ CreateTable(i)
        /\ UNCHANGED <<downloadVars, agenda, histVars, due, kept, lost>>
    BY <1>5 DEF Answers, DatabaseStep, pathVars, OpenTable, CreateTable
  <2>2. Elsewhere
    BY <2>1 DEF Elsewhere, StoreInv, StoreTypeOK, DueInv
  <2> QED
    BY <2>1, <2>2, OpenTableKeeps, CreateTableKeeps
<1>6. CASE StoreFails
  BY <1>6, StoreFailsKeeps
<1>7. CASE NetworkFails
  BY <1>7, NetworkFailsKeeps
<1>8. ASSUME NEW p \in Processes, ProcessEnds(p) PROVE StoreInv'
  BY <1>8, ProcessEndsKeeps
<1> QED
  BY <1>1, <1>2, <1>3, <1>4, <1>5, <1>6, <1>7, <1>8 DEF Next

\* The inductive invariant of the store holds in every reachable state.
THEOREM StoreInvariant == Spec => []StoreInv
  BY InitStores, StoreNextKeeps, DownloadInvariant, PTL DEF Spec

\* A run beside which nothing fails has no error, and when it has ended, the
\* table holds the rows of every file that it has not skipped and every row that
\* has been acknowledged, but those of skipped files that went with a table of
\* old schema, whatever searches have asked of the store while the run dropped
\* and created the table.
THEOREM RunsAreUndisturbed == Spec => []RunUndisturbed
<1>1. StoreInv => RunUndisturbed
  <2> SUFFICES ASSUME StoreInv, calm[Runner], Sound
               PROVE  /\ failed[Runner] = "no"
                      /\ runs > 0 /\ ~Running =>
                           /\ Paths \ skipped \subseteq rows
                           /\ kept \ lost \subseteq rows /\ lost \subseteq skipped
    BY DEF RunUndisturbed
  <2>1. ~overlapped /\ connection # "rejected"
    BY DEF Sound
  <2>2. failed[Runner] = "no"
    BY <2>1, SearchPathAssumption
    DEF StoreInv, StoreTypeOK, EmbedInv, EvidenceInv
  <2>3. ASSUME runs > 0, ~Running
        PROVE  Paths \ skipped \subseteq rows /\ lost \subseteq skipped
    <3>1. \A p : ~Ahead(p, agenda[Runner])
      BY <2>3 DEF Running, Ahead
    <3>2. \A p \in Paths \ skipped : p \in rows /\ p \notin lost
      BY <2>1, <2>3, <3>1 DEF StoreInv, OwedInv, Stored
    <3> QED
      BY <3>2 DEF StoreInv, StoreTypeOK
  <2>4. kept \ lost \subseteq rows
    BY DEF StoreInv, TableInv
  <2> QED
    BY <2>2, <2>3, <2>4
<1> QED
  BY <1>1, StoreInvariant, PTL

\* A search finds every row that had been acknowledged when it was let in and
\* that no run has removed or lost since, beside any run and after failures: no
\* promise that runs, searches or failures have left in the cache of the store
\* is in its way.  One beside which nothing fails and no run drops the table
\* ends without an error, unless it meets a row that has both kinds of location.
THEOREM SearchesAreUndisturbed == Spec => []SearchUndisturbed
<1>1. StoreInv => SearchUndisturbed
  <2> SUFFICES ASSUME StoreInv, NEW c \in Searchers
               PROVE  /\ op[c].pc = "done" => due[c] \subseteq op[c].found
                      /\ calm[c] /\ Sound =>
                           \/ failed[c] = "no"
                           \/ failed[c] = "evidence" /\ Odd # {}
    BY DEF SearchUndisturbed
  <2>1. c \in Callers /\ failed[c] \in {"no", "call", "evidence"}
    BY DEF StoreInv, StoreTypeOK, Searchers
  <2>2. calm[c] /\ Sound => failed[c] # "call"
    BY <2>1 DEF StoreInv, EmbedInv, Sound
  <2>3. failed[c] = "evidence" => Odd # {}
    BY <2>1 DEF StoreInv, EvidenceInv
  <2>4. op[c].pc = "done" => due[c] \subseteq op[c].found
    BY DEF StoreInv, DueInv
  <2> QED
    BY <2>1, <2>2, <2>3, <2>4
<1> QED
  BY <1>1, StoreInvariant, PTL
=============================================================================
