------------------------ MODULE DaemonStartupProofs ------------------------
(***************************************************************************)
(* Theorems about DaemonStartup, for any number of clients and             *)
(* configurations: outside the unsafe windows a project has one daemon,    *)
(* the registered one is reachable, and no call fails without a fault.     *)
(***************************************************************************)
EXTENDS DaemonStartup, TLAPS

\* Where a client, a daemon and a renewal can be.
ClientStates == Inside \cup Ended \cup {"idle", "lock"}
RenewalStates == {"idle", "open", "write"}

\* Daemon d is the one that the registration names, or that a writer who has
\* truncated the file is going to name.
Registered(d) == Names(d) \/ \E k \in {"client", "daemon"} : <<d, k>> \in open

\* Daemon d lives, has not begun to end, and no client has recovered from it.
Current(d) == Alive(d) /\ dpc[d] \notin Ending /\ d \notin replaced

\* What holds in every window.  A client that has not spawned has no daemon,
\* one that decides has read a registration; a daemon binds the socket and
\* renews its lease when it is up, and who has the registration open is writing.
Progress(c) ==
  /\ cpc[c] \in {"idle", "lock", "read", "decide", "probe", "spawn"} =>
       dpc[c] = "none"
  /\ cpc[c] \in {"decide", "probe"} \cup Recovering => seen[c] # None
  /\ dpc[c] = "none" => c \notin replaced
  /\ sock = c => dpc[c] \notin Starting \cup {"none"}
  /\ dpc[c] \in Starting \cup {"none", "listening"} => hb[c] = "idle"
  /\ <<c, "client">> \in open => cpc[c] = "write"
  /\ <<c, "daemon">> \in open => hb[c] = "write"
ProgressInv == \A c \in Clients : Progress(c)

\* The startup lock excludes.
ExclusionInv ==
  /\ \A b, c \in Clients : cpc[b] \in Inside /\ cpc[c] \in Inside => b = c
  /\ \A c \in Clients : cpc[c] \in Inside => lock

\* The registration has one writer at a time, and a daemon that it names and
\* that lives is within its lease.
FileInv ==
  /\ open # {} => reg = None
  /\ \A x, y \in open : x = y
  /\ \A d \in Clients : Names(d) /\ Alive(d) => reg.fresh

\* A client that has recovered finds no registration, one that is writing has
\* the file open, and the only daemon registered meanwhile is the one that it
\* has read of, or has spawned.
Reads(c) ==
  /\ cpc[c] \in {"unlink", "spawn", "open"} => reg = None /\ open = {}
  /\ cpc[c] = "write" => <<c, "client">> \in open
  /\ cpc[c] \in {"decide", "probe", "disown"} =>
       \A d \in Clients : Registered(d) => d = seen[c].id
  /\ cpc[c] \in Waiting => \A d \in Clients : Registered(d) => d = c
ReadsInv == \A c \in Clients : Reads(c)

\* A daemon that nobody has recovered from is registered, or about to be, until
\* it ends; and one that is up has its socket unless it has been replaced.
Serves(d) ==
  /\ Current(d) => Registered(d) \/ cpc[d] = "open"
  /\ dpc[d] \in Starting => d \notin replaced
  /\ dpc[d] \in {"listening", "ready"} /\ (d \notin replaced \/ Registered(d))
       => sock = d
ServesInv == \A d \in Clients : Serves(d)

\* What the client inside the lock knows of the daemons: the one it decides on
\* is the only one that is current, after its recovery there is none, and then
\* there is only the one it has spawned.
Knows(c) ==
  /\ cpc[c] \in {"decide", "probe"} =>
       \A d \in Clients : Current(d) => d = seen[c].id
  /\ /\ cpc[c] \in {"decide", "probe"}
     /\ Alive(seen[c].id) /\ dpc[seen[c].id] \notin Ending
     => Registered(seen[c].id) /\ seen[c].fresh
  /\ cpc[c] \in Recovering \cup {"spawn"} => \A d \in Clients : ~Current(d)
  /\ cpc[c] \in {"open", "write"} \cup Waiting =>
       \A d \in Clients : Current(d) => d = c
  /\ cpc[c] \in {"open", "write"} \cup Waiting /\ Alive(c) => c \notin replaced
KnowsInv == \A c \in Clients : Knows(c)

CalmInv == ExclusionInv /\ FileInv /\ ReadsInv /\ ServesInv /\ KnowsInv

\* Without a fault, a socket file belongs to the registered daemon or is about
\* to be removed,
SocketInv ==
  sock # None =>
    \/ Registered(sock) \/ cpc[sock] = "open"
    \/ \E c \in Clients : cpc[c] = "unlink"
\* a daemon that shuts down has been replaced and is registered no more,
Leaves(d) ==
  /\ dpc[d] \in {"signalled", "closing"} =>
       d \in replaced /\ ~Registered(d) /\ cpc[d] \notin {"open", "write"}
  /\ dpc[d] \notin {"owner", "erase", "rmOwn"}
\* a client decides on a daemon that is registered still or gone, and one that
\* spawns sees its daemon come up.
ComesUp(c) ==
  /\ cpc[c] \in {"decide", "probe"} /\ Alive(seen[c].id) =>
       Registered(seen[c].id)
  /\ dpc[c] \in Starting => cpc[c] \in {"open", "write"} \cup Waiting
  /\ cpc[c] \in {"open", "write"} \cup Waiting => Alive(c)
  /\ cpc[c] \in Recovering => dpc[c] = "none"
  /\ cpc[c] \notin {"throw", "failed", "dead"}
QuietInv == SocketInv /\ \A c \in Clients : ComesUp(c) /\ Leaves(c)

StartupInv ==
  /\ TypeOK /\ ProgressInv
  /\ calm => CalmInv
  /\ calm /\ faults = 0 => QuietInv
-----------------------------------------------------------------------------
(* What a step does to a client, to a daemon and to the file it reads *)

ClientAt(c, p) ==
  cpc'[c] = p /\ \A b \in Clients : b # c => cpc'[b] = cpc[b]
DaemonAt(d, p) ==
  dpc'[d] = p /\ \A e \in Clients : e # d => dpc'[e] = dpc[e]
RenewalAt(d, p) ==
  hb'[d] = p /\ \A e \in Clients : e # d => hb'[e] = hb[e]
SeenIs(c, r) ==
  seen'[c] = r /\ \A b \in Clients : b # c => seen'[b] = seen[b]

\* Goto moves one client.
LEMMA ClientMoves ==
  ASSUME TypeOK, NEW c \in Clients, NEW p \in ClientStates, Goto(c, p)
  PROVE  ClientAt(c, p) /\ cpc' \in [Clients -> ClientStates]
BY DEF TypeOK, Goto, ClientAt, ClientStates

\* DaemonGoto moves one daemon.
LEMMA DaemonMoves ==
  ASSUME TypeOK, NEW d \in Clients, NEW p \in DaemonStates, DaemonGoto(d, p)
  PROVE  DaemonAt(d, p) /\ dpc' \in [Clients -> DaemonStates]
BY DEF TypeOK, DaemonGoto, DaemonAt

\* What a client has seen, and the renewal of a daemon, change for one only.
LEMMA SeenMoves ==
  ASSUME TypeOK, NEW c \in Clients, NEW r \in Registrations,
         seen' = [seen EXCEPT ![c] = r]
  PROVE  SeenIs(c, r) /\ seen' \in [Clients -> Registrations]
BY DEF TypeOK, SeenIs
\* The renewal of a daemon changes for that one only.
LEMMA RenewalMoves ==
  ASSUME TypeOK, NEW d \in Clients, NEW p \in RenewalStates,
         hb' = [hb EXCEPT ![d] = p]
  PROVE  RenewalAt(d, p) /\ hb' \in [Clients -> RenewalStates]
BY DEF TypeOK, RenewalAt, RenewalStates

\* SIGTERM ends a daemon that has no handlers yet.
LEMMA SignalledReturns ==
  ASSUME NEW d \in Clients, dpc[d] \in DaemonStates
  PROVE  /\ Signalled(d) \in DaemonStates
         /\ dpc[d] \in Starting \cup {"listening"} => Signalled(d) = "exited"
         /\ dpc[d] = "ready" => Signalled(d) = "signalled"
         /\ dpc[d] \notin Starting \cup {"listening", "ready"} =>
              Signalled(d) = dpc[d]
BY DEF Signalled, DaemonStates, Starting

\* It ends none that renews its lease, and starts none.
LEMMA SignalledKeeps ==
  ASSUME TypeOK, ProgressInv, NEW d \in Clients
  PROVE  /\ Signalled(d) = "exited" => hb[d] = "idle"
         /\ dpc[d] = "none" => Signalled(d) = "none"
         /\ Signalled(d) \in Starting \cup {"none", "listening"} =>
              Signalled(d) = dpc[d]
<1>1. Progress(d) /\ dpc[d] \in DaemonStates /\ (hb[d] # "idle" => Alive(d))
  BY DEF TypeOK, ProgressInv
<1> QED
  BY <1>1, SignalledReturns DEF Progress, Starting, Alive

\* What becomes of daemon d when it is sent a SIGTERM: p.
Ends(d, p) ==
  /\ DaemonAt(d, p)
  /\ \/ /\ dpc[d] \in Starting \cup {"listening"} /\ hb[d] = "idle"
        /\ p = "exited" /\ replaced' = replaced
     \/ dpc[d] = "ready" /\ p = "signalled" /\ replaced' = replaced \cup {d}
     \/ /\ dpc[d] \in {"signalled"} \cup Ending
        /\ p = dpc[d] /\ replaced' = replaced \cup {d}
     \/ dpc[d] \in {"none", "exited"} /\ p = dpc[d] /\ replaced' = replaced

\* terminateDaemonProcess ends one daemon, at once or when it handles the signal.
LEMMA TerminateMoves ==
  ASSUME TypeOK, ProgressInv, NEW d \in Clients, Terminate(d, TRUE)
  PROVE  Ends(d, Signalled(d)) /\ dpc' \in [Clients -> DaemonStates]
<1>1. Signalled(d) \in DaemonStates /\ DaemonGoto(d, Signalled(d))
  BY SignalledReturns DEF Terminate, TypeOK
<1>2. DaemonAt(d, Signalled(d)) /\ dpc' \in [Clients -> DaemonStates]
  BY <1>1, DaemonMoves
<1>3. replaced' = IF Alive(d) /\ Signalled(d) # "exited"
                   THEN replaced \cup {d} ELSE replaced
  BY DEF Terminate
<1>4. CASE dpc[d] \in Starting \cup {"listening"}
  <2>1. Signalled(d) = "exited" /\ hb[d] = "idle"
    BY <1>4, SignalledReturns, SignalledKeeps DEF TypeOK
  <2> QED
    BY <1>2, <1>3, <1>4, <2>1 DEF Ends
<1>5. CASE dpc[d] = "ready"
  <2>1. Signalled(d) = "signalled"
    BY <1>5, SignalledReturns DEF TypeOK
  <2> QED
    BY <1>2, <1>3, <1>5, <2>1 DEF Ends, Alive
<1>6. CASE dpc[d] \in {"signalled"} \cup Ending
  <2>1. Signalled(d) = dpc[d]
    BY <1>6, SignalledReturns DEF TypeOK, Starting, Ending
  <2> QED
    BY <1>2, <1>3, <1>6, <2>1 DEF Ends, Alive, Ending
<1>7. CASE dpc[d] \in {"none", "exited"}
  <2>1. Signalled(d) = dpc[d]
    BY <1>7, SignalledReturns DEF TypeOK, Starting
  <2> QED
    BY <1>2, <1>3, <1>7, <2>1 DEF Ends, Alive
<1>8. dpc[d] \in DaemonStates
  BY DEF TypeOK
<1> QED
  BY <1>4, <1>5, <1>6, <1>7, <1>8 DEF DaemonStates

\* A step that stays calm was calm before, and has hit nothing.
LEMMA CalmStays ==
  ASSUME NEW hit, Unsafe(hit), calm'
  PROVE  calm /\ ~hit
BY DEF Unsafe
\* Whether all is calm is a truth value.
LEMMA CalmTypes ==
  ASSUME NEW hit, calm \in BOOLEAN, Unsafe(hit)
  PROVE  calm' \in BOOLEAN
BY DEF Unsafe

\* A calm step has not read a truncated file.
LEMMA TornReads ==
  ASSUME ReadsTorn, calm'
  PROVE  calm /\ (open = {} \/ reg # None)
BY DEF ReadsTorn, Unsafe

\* The end of a process closes its files and stops its renewal.
LEMMA ExitMoves ==
  ASSUME TypeOK, NEW d \in Clients, Exit(d)
  PROVE  /\ DaemonAt(d, "exited") /\ dpc' \in [Clients -> DaemonStates]
         /\ RenewalAt(d, "idle") /\ hb' \in [Clients -> RenewalStates]
         /\ open' = open \ {<<d, "daemon">>}
         /\ replaced' = replaced \ {d}
<1>1. "exited" \in DaemonStates /\ "idle" \in RenewalStates
  BY DEF DaemonStates, RenewalStates
<1> QED
  BY <1>1, DaemonMoves, RenewalMoves DEF Exit

\* A fault uses up some of the bound.
LEMMA FaultsCount ==
  ASSUME TypeOK, Fault
  PROVE  faults' # 0 /\ faults' \in 0..MaxFaults
BY FaultsAssumption DEF TypeOK, Fault


\* The client inside the lock is the only one.
LEMMA OneInside ==
  ASSUME ExclusionInv, NEW b \in Clients, NEW c \in Clients,
         cpc[b] \in Inside, cpc[c] \in Inside
  PROVE  b = c
BY DEF ExclusionInv

\* One daemon is registered.
LEMMA OneRegistered ==
  ASSUME FileInv, NEW d \in Clients, NEW e \in Clients,
         Registered(d), Registered(e)
  PROVE  d = e
BY DEF FileInv, Registered, Names

\* A daemon that is current is the only one, and no other that lives is
\* registered.
LEMMA OneCurrent ==
  ASSUME ExclusionInv, FileInv, ReadsInv, ServesInv,
         NEW d \in Clients, NEW e \in Clients,
         Current(d), Current(e) \/ Registered(e)
  PROVE  d = e
<1>1. Registered(d) \/ cpc[d] = "open"
  BY DEF ServesInv, Serves
<1>2. Registered(e) \/ cpc[e] = "open"
  BY DEF ServesInv, Serves
<1>3. \A b, c \in Clients : cpc[b] = "open" => ~Registered(c)
  BY DEF ReadsInv, Reads, Registered, Names
<1>4. cpc[d] = "open" /\ cpc[e] = "open" => d = e
  BY DEF ExclusionInv, Inside
<1> QED
  BY <1>1, <1>2, <1>3, <1>4, OneRegistered

\* A call begins.
LEMMA CallStep ==
  ASSUME StartupInv, NEW c \in Clients, Call(c)
  PROVE  StartupInv'
<1> USE NoneAssumption, FaultsAssumption
     DEF files, Inside, Ended, Starting, Recovering, Waiting, Ending,
         ClientStates, DaemonStates, RenewalStates, Registrations,
         ClientAt
<1>1. /\ cpc[c] = "idle" /\ ClientAt(c, "lock")
      /\ UNCHANGED <<config, files, seen, dpc, hb, faults, calm, replaced>>
      /\ cpc' \in [Clients -> ClientStates]
  BY ClientMoves DEF Call, StartupInv, TypeOK, Goto, DaemonGoto, Settled, Alive
<1>2. TypeOK'
  BY <1>1 DEF StartupInv, TypeOK, ProgressInv, Progress, Alive
<1>3. ASSUME NEW b \in Clients PROVE Progress(b)'
  <2>1. Progress(b)
    BY DEF StartupInv, ProgressInv
  <2> QED
    BY <1>1, <2>1 DEF StartupInv, TypeOK, Progress, Alive
<1>4. ASSUME calm' PROVE calm /\ CalmInv
  BY <1>1, <1>4 DEF StartupInv
<1>5. ASSUME calm' PROVE CalmInv' /\ (faults' = 0 => QuietInv')
  <2> calm /\ ExclusionInv /\ FileInv /\ ReadsInv /\ ServesInv /\ KnowsInv
    BY <1>4, <1>5 DEF CalmInv
  <2>1. \A b \in Clients : Registered(b)' <=> Registered(b)
    BY <1>1 DEF Registered, Names, FileInv
  <2>2. \A b \in Clients : Current(b)' <=> Current(b)
    BY <1>1 DEF Current, Alive, Starting
  <2>3. ExclusionInv'
    BY <1>1 DEF ExclusionInv
  <2>4. FileInv'
    BY <1>1, <2>1, <2>2 DEF FileInv, Names, Alive
  <2>5. ASSUME NEW b \in Clients
        PROVE  Reads(b)' /\ Serves(b)' /\ Knows(b)'
    <3>1. Reads(b) /\ Serves(b) /\ Knows(b) /\ Progress(b)
      BY DEF ReadsInv, ServesInv, KnowsInv, StartupInv, ProgressInv
    <3>2. Reads(b)'
      BY <1>1, <2>1, <2>2, <3>1
      DEF Reads, StartupInv, TypeOK, Progress, ExclusionInv
    <3>3. Serves(b)'
      BY <1>1, <2>1, <2>2, <3>1
      DEF Serves, StartupInv, TypeOK, Progress, ExclusionInv, Alive, Current
    <3>4. Knows(b)'
      BY <1>1, <2>1, <2>2, <3>1
      DEF Knows, StartupInv, TypeOK, Progress, ExclusionInv, Alive
    <3> QED
      BY <3>2, <3>3, <3>4
  <2>6. ASSUME faults' = 0 PROVE QuietInv'
    <3> QuietInv
      BY <1>1, <2>6 DEF StartupInv
    <3>1. SocketInv'
      BY <1>1, <2>1, <2>2, <2>6
      DEF StartupInv, TypeOK, QuietInv, SocketInv, ReadsInv, Reads, ExclusionInv
    <3>2. ASSUME NEW b \in Clients PROVE ComesUp(b)' /\ Leaves(b)'
      <4>1. /\ ComesUp(b) /\ Leaves(b) /\ Progress(b)
            /\ Knows(b) /\ Serves(b) /\ Reads(b)
        BY DEF QuietInv, KnowsInv, ServesInv, ReadsInv, StartupInv, ProgressInv
      <4> QED
        BY <1>1, <2>1, <2>2, <2>6, <4>1
        DEF StartupInv, TypeOK, ComesUp, Leaves, Progress, Alive
    <3> QED
      BY <3>1, <3>2 DEF QuietInv
  <2> QED
    BY <2>3, <2>4, <2>5, <2>6 DEF CalmInv, ReadsInv, ServesInv, KnowsInv
<1> QED
  BY <1>2, <1>3, <1>5 DEF StartupInv, ProgressInv

\* A client acquires the startup lock.
LEMMA AcquireStep ==
  ASSUME StartupInv, NEW c \in Clients, Acquire(c)
  PROVE  StartupInv'
<1> USE NoneAssumption, FaultsAssumption
     DEF files, Inside, Ended, Starting, Recovering, Waiting, Ending,
         ClientStates, DaemonStates, RenewalStates, Registrations,
         ClientAt
<1>1. /\ cpc[c] = "lock" /\ ~lock /\ lock'
      /\ ClientAt(c, "read")
      /\ UNCHANGED <<config, reg, open, sock, seen, dpc, hb, faults, calm,
                     replaced>>
      /\ cpc' \in [Clients -> ClientStates]
  BY ClientMoves
  DEF Acquire, StartupInv, TypeOK, Goto, DaemonGoto, Settled, Alive
<1>2. TypeOK'
  BY <1>1 DEF StartupInv, TypeOK, ProgressInv, Progress, Alive
<1>3. ASSUME NEW b \in Clients PROVE Progress(b)'
  <2>1. Progress(b)
    BY DEF StartupInv, ProgressInv
  <2> QED
    BY <1>1, <2>1 DEF StartupInv, TypeOK, Progress, Alive
<1>4. ASSUME calm' PROVE calm /\ CalmInv
  BY <1>1, <1>4 DEF StartupInv
<1>5. ASSUME calm' PROVE CalmInv' /\ (faults' = 0 => QuietInv')
  <2> calm /\ ExclusionInv /\ FileInv /\ ReadsInv /\ ServesInv /\ KnowsInv
    BY <1>4, <1>5 DEF CalmInv
  <2>1. \A b \in Clients : Registered(b)' <=> Registered(b)
    BY <1>1 DEF Registered, Names, FileInv
  <2>2. \A b \in Clients : Current(b)' <=> Current(b)
    BY <1>1 DEF Current, Alive, Starting
  <2>3. ExclusionInv'
    BY <1>1 DEF ExclusionInv
  <2>4. FileInv'
    BY <1>1, <2>1, <2>2 DEF FileInv, Names, Alive
  <2>5. ASSUME NEW b \in Clients
        PROVE  Reads(b)' /\ Serves(b)' /\ Knows(b)'
    <3>1. Reads(b) /\ Serves(b) /\ Knows(b) /\ Progress(b)
      BY DEF ReadsInv, ServesInv, KnowsInv, StartupInv, ProgressInv
    <3>2. Reads(b)'
      BY <1>1, <2>1, <2>2, <3>1
      DEF Reads, StartupInv, TypeOK, Progress, ExclusionInv
    <3>3. Serves(b)'
      BY <1>1, <2>1, <2>2, <3>1
      DEF Serves, StartupInv, TypeOK, Progress, ExclusionInv, Alive, Current
    <3>4. Knows(b)'
      BY <1>1, <2>1, <2>2, <3>1
      DEF Knows, StartupInv, TypeOK, Progress, ExclusionInv, Alive
    <3> QED
      BY <3>2, <3>3, <3>4
  <2>6. ASSUME faults' = 0 PROVE QuietInv'
    <3> QuietInv
      BY <1>1, <2>6 DEF StartupInv
    <3>1. SocketInv'
      BY <1>1, <2>1, <2>2, <2>6
      DEF StartupInv, TypeOK, QuietInv, SocketInv, ReadsInv, Reads, ExclusionInv
    <3>2. ASSUME NEW b \in Clients PROVE ComesUp(b)' /\ Leaves(b)'
      <4>1. /\ ComesUp(b) /\ Leaves(b) /\ Progress(b)
            /\ Knows(b) /\ Serves(b) /\ Reads(b)
        BY DEF QuietInv, KnowsInv, ServesInv, ReadsInv, StartupInv, ProgressInv
      <4> QED
        BY <1>1, <2>1, <2>2, <2>6, <4>1
        DEF StartupInv, TypeOK, ComesUp, Leaves, Progress, Alive
    <3> QED
      BY <3>1, <3>2 DEF QuietInv
  <2> QED
    BY <2>3, <2>4, <2>5, <2>6 DEF CalmInv, ReadsInv, ServesInv, KnowsInv
<1> QED
  BY <1>2, <1>3, <1>5 DEF StartupInv, ProgressInv

\* A client that has waited breaks the startup lock: calm only if nobody is
\* inside.
LEMMA BreakLockStep ==
  ASSUME StartupInv, NEW c \in Clients, BreakLock(c)
  PROVE  StartupInv'
<1> USE NoneAssumption, FaultsAssumption
     DEF files, Inside, Ended, Starting, Recovering, Waiting, Ending,
         ClientStates, DaemonStates, RenewalStates, Registrations
<1>1. /\ UNCHANGED <<config, reg, open, sock, cpc, seen, dpc, hb, faults,
                     replaced>>
      /\ lock' = FALSE
  BY CalmStays
  DEF BreakLock, StartupInv, TypeOK, Goto, DaemonGoto, Settled, Alive
<1>2. TypeOK'
  <2>1. calm' \in BOOLEAN
    BY CalmTypes DEF BreakLock, ReadsTorn, StartupInv, TypeOK
  <2> QED
    BY <1>1, <2>1 DEF StartupInv, TypeOK, ProgressInv, Progress, Alive
<1>3. ASSUME NEW b \in Clients PROVE Progress(b)'
  <2>1. Progress(b)
    BY DEF StartupInv, ProgressInv
  <2> QED
    BY <1>1, <2>1 DEF StartupInv, TypeOK, Progress, Alive
<1>4. ASSUME calm' PROVE calm /\ CalmInv /\
                         \A b \in Clients : cpc[b] \notin Inside
  BY <1>4, CalmStays DEF BreakLock, StartupInv
<1>5. ASSUME calm' PROVE CalmInv' /\ (faults' = 0 => QuietInv')
  <2> calm /\ ExclusionInv /\ FileInv /\ ReadsInv /\ ServesInv /\ KnowsInv
      /\ (\A b \in Clients : cpc[b] \notin Inside)
    BY <1>4, <1>5 DEF CalmInv
  <2>1. \A b \in Clients : Registered(b)' <=> Registered(b)
    BY <1>1 DEF Registered, Names, FileInv
  <2>2. \A b \in Clients : Current(b)' <=> Current(b)
    BY <1>1 DEF Current, Alive, Starting
  <2>3. ExclusionInv'
    BY <1>1 DEF ExclusionInv
  <2>4. FileInv'
    BY <1>1, <2>1, <2>2 DEF FileInv, Names, Alive
  <2>5. ASSUME NEW b \in Clients
        PROVE  Reads(b)' /\ Serves(b)' /\ Knows(b)'
    <3>1. Reads(b) /\ Serves(b) /\ Knows(b) /\ Progress(b)
      BY DEF ReadsInv, ServesInv, KnowsInv, StartupInv, ProgressInv
    <3>2. Reads(b)'
      BY <1>1, <2>1, <2>2, <3>1
      DEF Reads, StartupInv, TypeOK, Progress, ExclusionInv
    <3>3. Serves(b)'
      BY <1>1, <2>1, <2>2, <3>1
      DEF Serves, StartupInv, TypeOK, Progress, ExclusionInv, Alive, Current
    <3>4. Knows(b)'
      BY <1>1, <2>1, <2>2, <3>1
      DEF Knows, StartupInv, TypeOK, Progress, ExclusionInv, Alive
    <3> QED
      BY <3>2, <3>3, <3>4
  <2>6. ASSUME faults' = 0 PROVE QuietInv'
    <3> QuietInv
      BY <1>1, <2>6 DEF StartupInv
    <3>1. SocketInv'
      BY <1>1, <2>1, <2>2, <2>6
      DEF StartupInv, TypeOK, QuietInv, SocketInv, ReadsInv, Reads, ExclusionInv
    <3>2. ASSUME NEW b \in Clients PROVE ComesUp(b)' /\ Leaves(b)'
      <4>1. /\ ComesUp(b) /\ Leaves(b) /\ Progress(b)
            /\ Knows(b) /\ Serves(b) /\ Reads(b)
        BY DEF QuietInv, KnowsInv, ServesInv, ReadsInv, StartupInv, ProgressInv
      <4> QED
        BY <1>1, <2>1, <2>2, <2>6, <4>1
        DEF StartupInv, TypeOK, ComesUp, Leaves, Progress, Alive
    <3> QED
      BY <3>1, <3>2 DEF QuietInv
  <2> QED
    BY <2>3, <2>4, <2>5, <2>6 DEF CalmInv, ReadsInv, ServesInv, KnowsInv
<1> QED
  BY <1>2, <1>3, <1>5 DEF StartupInv, ProgressInv

\* A client gives the startup lock back.
LEMMA UnlockStep ==
  ASSUME StartupInv, NEW c \in Clients, Unlock(c)
  PROVE  StartupInv'
<1> USE NoneAssumption, FaultsAssumption
     DEF files, Inside, Ended, Starting, Recovering, Waiting, Ending,
         ClientStates, DaemonStates, RenewalStates, Registrations,
         ClientAt
<1>1. /\ cpc[c] \in {"unlock", "throw"} /\ lock' = FALSE
      /\ ClientAt(c, IF cpc[c] = "unlock" THEN "done" ELSE "failed")
      /\ UNCHANGED <<config, reg, open, sock, seen, dpc, hb, faults, calm,
                     replaced>>
      /\ cpc' \in [Clients -> ClientStates]
  BY ClientMoves
  DEF Unlock, StartupInv, TypeOK, Goto, DaemonGoto, Settled, Alive
<1>2. TypeOK'
  <2>1. /\ cpc' \in [Clients -> ClientStates] /\ lock' \in BOOLEAN
        /\ UNCHANGED <<config, reg, open, sock, seen, dpc, hb, faults, calm,
                       replaced>>
    BY <1>1
  <2> QED
    BY <2>1 DEF StartupInv, TypeOK, Alive, ClientStates
<1>3. ASSUME NEW b \in Clients PROVE Progress(b)'
  <2>1. Progress(b)
    BY DEF StartupInv, ProgressInv
  <2> QED
    BY <1>1, <2>1 DEF StartupInv, TypeOK, Progress, Alive
<1>4. ASSUME calm' PROVE calm /\ CalmInv
  BY <1>1, <1>4 DEF StartupInv
<1>5. ASSUME calm' PROVE CalmInv' /\ (faults' = 0 => QuietInv')
  <2> calm /\ ExclusionInv /\ FileInv /\ ReadsInv /\ ServesInv /\ KnowsInv
    BY <1>4, <1>5 DEF CalmInv
  <2>1. \A b \in Clients : Registered(b)' <=> Registered(b)
    BY <1>1 DEF Registered, Names, FileInv
  <2>2. \A b \in Clients : Current(b)' <=> Current(b)
    BY <1>1 DEF Current, Alive, Starting
  <2>3. ExclusionInv'
    BY <1>1 DEF ExclusionInv
  <2>4. FileInv'
    BY <1>1, <2>1, <2>2 DEF FileInv, Names, Alive
  <2>5. ASSUME NEW b \in Clients
        PROVE  Reads(b)' /\ Serves(b)' /\ Knows(b)'
    <3>1. Reads(b) /\ Serves(b) /\ Knows(b) /\ Progress(b)
      BY DEF ReadsInv, ServesInv, KnowsInv, StartupInv, ProgressInv
    <3>2. Reads(b)'
      BY <1>1, <2>1, <2>2, <3>1
      DEF Reads, StartupInv, TypeOK, Progress, ExclusionInv
    <3>3. Serves(b)'
      BY <1>1, <2>1, <2>2, <3>1
      DEF Serves, StartupInv, TypeOK, Progress, ExclusionInv, Alive, Current
    <3>4. Knows(b)'
      BY <1>1, <2>1, <2>2, <3>1
      DEF Knows, StartupInv, TypeOK, Progress, ExclusionInv, Alive
    <3> QED
      BY <3>2, <3>3, <3>4
  <2>6. ASSUME faults' = 0 PROVE QuietInv'
    <3> QuietInv
      BY <1>1, <2>6 DEF StartupInv
    <3>1. SocketInv'
      BY <1>1, <2>1, <2>2, <2>6
      DEF StartupInv, TypeOK, QuietInv, SocketInv, ReadsInv, Reads, ExclusionInv
    <3>2. ASSUME NEW b \in Clients PROVE ComesUp(b)' /\ Leaves(b)'
      <4>1. /\ ComesUp(b) /\ Leaves(b) /\ Progress(b)
            /\ Knows(b) /\ Serves(b) /\ Reads(b)
        BY DEF QuietInv, KnowsInv, ServesInv, ReadsInv, StartupInv, ProgressInv
      <4> QED
        BY <1>1, <2>1, <2>2, <2>6, <4>1
        DEF StartupInv, TypeOK, ComesUp, Leaves, Progress, Alive
    <3> QED
      BY <3>1, <3>2 DEF QuietInv
  <2> QED
    BY <2>3, <2>4, <2>5, <2>6 DEF CalmInv, ReadsInv, ServesInv, KnowsInv
<1> QED
  BY <1>2, <1>3, <1>5 DEF StartupInv, ProgressInv

\* A client reads the registration.
LEMMA ReadRegistrationStep ==
  ASSUME StartupInv, NEW c \in Clients, ReadRegistration(c)
  PROVE  StartupInv'
<1> USE NoneAssumption, FaultsAssumption
     DEF files, Inside, Ended, Starting, Recovering, Waiting, Ending,
         ClientStates, DaemonStates, RenewalStates, Registrations,
         ClientAt, SeenIs
<1>1. /\ cpc[c] = "read" /\ SeenIs(c, reg)
      /\ ClientAt(c, IF reg = None THEN "spawn" ELSE "decide")
      /\ UNCHANGED <<config, files, dpc, hb, faults, replaced>>
      /\ cpc' \in [Clients -> ClientStates]
      /\ seen' \in [Clients -> Registrations]
  <2>1. cpc[c] = "read"
    BY DEF ReadRegistration
  <2>2. /\ ClientAt(c, IF reg = None THEN "spawn" ELSE "decide")
        /\ cpc' \in [Clients -> ClientStates]
    BY ClientMoves DEF ReadRegistration, StartupInv
  <2>3. SeenIs(c, reg) /\ seen' \in [Clients -> Registrations]
    BY SeenMoves DEF ReadRegistration, StartupInv, TypeOK
  <2> QED
    BY <2>1, <2>2, <2>3 DEF ReadRegistration
<1>2. TypeOK'
  <2>1. calm' \in BOOLEAN
    BY CalmTypes DEF ReadRegistration, ReadsTorn, StartupInv, TypeOK
  <2> QED
    BY <1>1, <2>1 DEF StartupInv, TypeOK, ProgressInv, Progress, Alive
<1>3. ASSUME NEW b \in Clients PROVE Progress(b)'
  <2>1. Progress(b)
    BY DEF StartupInv, ProgressInv
  <2> QED
    BY <1>1, <2>1 DEF StartupInv, TypeOK, Progress, Alive
<1>4. ASSUME calm' PROVE calm /\ CalmInv /\ (open = {} \/ reg # None)
  BY <1>4, TornReads DEF ReadRegistration, StartupInv
<1>5. ASSUME calm' PROVE CalmInv' /\ (faults' = 0 => QuietInv')
  <2> calm /\ ExclusionInv /\ FileInv /\ ReadsInv /\ ServesInv /\ KnowsInv
      /\ (open = {} \/ reg # None)
    BY <1>4, <1>5 DEF CalmInv
  <2>1. \A e \in Clients : Registered(e) => reg # None /\ e = reg.id
    BY <1>4, <1>5 DEF Registered, Names, FileInv
  <2>2. \A e \in Clients : Current(e) => Registered(e)
    BY <1>1 DEF ServesInv, Serves, ExclusionInv, Inside
  <2>3. reg # None =>
          /\ reg.id \in Clients /\ Registered(reg.id)
          /\ (Alive(reg.id) => reg.fresh)
    BY DEF StartupInv, TypeOK, Registrations, Registered, Names, FileInv
  <2>4. \A b \in Clients : Registered(b)' <=> Registered(b)
    BY <1>1, <2>1, <2>2, <2>3 DEF Registered, Names, FileInv
  <2>5. \A b \in Clients : Current(b)' <=> Current(b)
    BY <1>1, <2>1, <2>2, <2>3 DEF Current, Alive, Starting
  <2>6. ExclusionInv'
    BY <1>1 DEF ExclusionInv
  <2>7. FileInv'
    BY <1>1, <2>1, <2>2, <2>3, <2>4, <2>5 DEF FileInv, Names, Alive
  <2>8. ASSUME NEW b \in Clients
        PROVE  Reads(b)' /\ Serves(b)' /\ Knows(b)'
    <3>1. Reads(b) /\ Serves(b) /\ Knows(b) /\ Progress(b)
      BY DEF ReadsInv, ServesInv, KnowsInv, StartupInv, ProgressInv
    <3>2. Reads(b)'
      BY <1>1, <2>1, <2>2, <2>3, <2>4, <2>5, <3>1
      DEF Reads, StartupInv, TypeOK, Progress, ExclusionInv
    <3>3. Serves(b)'
      BY <1>1, <2>1, <2>2, <2>3, <2>4, <2>5, <3>1
      DEF Serves, StartupInv, TypeOK, Progress, ExclusionInv, Alive, Current
    <3>4. Knows(b)'
      BY <1>1, <2>1, <2>2, <2>3, <2>4, <2>5, <3>1
      DEF Knows, StartupInv, TypeOK, Progress, ExclusionInv, Alive
    <3> QED
      BY <3>2, <3>3, <3>4
  <2>9. ASSUME faults' = 0 PROVE QuietInv'
    <3> QuietInv
      BY <1>1, <2>9 DEF StartupInv
    <3>1. SocketInv'
      BY <1>1, <2>1, <2>2, <2>3, <2>4, <2>5, <2>9
      DEF StartupInv, TypeOK, QuietInv, SocketInv, ReadsInv, Reads, ExclusionInv
    <3>2. ASSUME NEW b \in Clients PROVE ComesUp(b)' /\ Leaves(b)'
      <4>1. /\ ComesUp(b) /\ Leaves(b) /\ Progress(b)
            /\ Knows(b) /\ Serves(b) /\ Reads(b)
        BY DEF QuietInv, KnowsInv, ServesInv, ReadsInv, StartupInv, ProgressInv
      <4> QED
        BY <1>1, <2>1, <2>2, <2>3, <2>4, <2>5, <2>9, <4>1
        DEF StartupInv, TypeOK, ComesUp, Leaves, Progress, Alive
    <3> QED
      BY <3>1, <3>2 DEF QuietInv
  <2> QED
    BY <2>6, <2>7, <2>8, <2>9 DEF CalmInv, ReadsInv, ServesInv, KnowsInv
<1> QED
  BY <1>2, <1>3, <1>5 DEF StartupInv, ProgressInv

\* A client looks whether the registration is still the one it recovers from.
LEMMA DisownStep ==
  ASSUME StartupInv, NEW c \in Clients, Disown(c)
  PROVE  StartupInv'
<1> USE NoneAssumption, FaultsAssumption
     DEF files, Inside, Ended, Starting, Recovering, Waiting, Ending,
         ClientStates, DaemonStates, RenewalStates, Registrations,
         ClientAt
<1>1. /\ cpc[c] = "disown"
      /\ ClientAt(c, IF Names(seen[c].id) THEN "delete" ELSE "unlink")
      /\ UNCHANGED <<config, files, seen, dpc, hb, faults, replaced>>
      /\ cpc' \in [Clients -> ClientStates]
  BY ClientMoves
  DEF Disown, StartupInv, TypeOK, Goto, DaemonGoto, Settled, Alive
<1>2. TypeOK'
  <2>1. calm' \in BOOLEAN
    BY CalmTypes DEF Disown, ReadsTorn, StartupInv, TypeOK
  <2> QED
    BY <1>1, <2>1 DEF StartupInv, TypeOK, ProgressInv, Progress, Alive
<1>3. ASSUME NEW b \in Clients PROVE Progress(b)'
  <2>1. Progress(b)
    BY DEF StartupInv, ProgressInv
  <2> QED
    BY <1>1, <2>1 DEF StartupInv, TypeOK, Progress, Alive
<1>4. ASSUME calm' PROVE calm /\ CalmInv /\ (open = {} \/ reg # None)
  BY <1>4, TornReads DEF Disown, StartupInv
<1>5. ASSUME calm' PROVE CalmInv' /\ (faults' = 0 => QuietInv')
  <2> calm /\ ExclusionInv /\ FileInv /\ ReadsInv /\ ServesInv /\ KnowsInv
      /\ (open = {} \/ reg # None)
    BY <1>4, <1>5 DEF CalmInv
  <2>1. \A b \in Clients : Registered(b)' <=> Registered(b)
    BY <1>1 DEF Registered, Names, FileInv
  <2>2. \A b \in Clients : Current(b)' <=> Current(b)
    BY <1>1 DEF Current, Alive, Starting
  <2>3. ExclusionInv'
    BY <1>1 DEF ExclusionInv
  <2>4. FileInv'
    BY <1>1, <2>1, <2>2 DEF FileInv, Names, Alive
  <2>5. ASSUME NEW b \in Clients
        PROVE  Reads(b)' /\ Serves(b)' /\ Knows(b)'
    <3>1. Reads(b) /\ Serves(b) /\ Knows(b) /\ Progress(b)
      BY DEF ReadsInv, ServesInv, KnowsInv, StartupInv, ProgressInv
    <3>2. Reads(b)'
      BY <1>1, <2>1, <2>2, <3>1
      DEF Reads, StartupInv, TypeOK, Progress, ExclusionInv, Registered, Names
    <3>3. Serves(b)'
      BY <1>1, <2>1, <2>2, <3>1
      DEF Serves, StartupInv, TypeOK, Progress, ExclusionInv, Alive, Current
    <3>4. Knows(b)'
      BY <1>1, <2>1, <2>2, <3>1
      DEF Knows, StartupInv, TypeOK, Progress, ExclusionInv, Alive
    <3> QED
      BY <3>2, <3>3, <3>4
  <2>6. ASSUME faults' = 0 PROVE QuietInv'
    <3> QuietInv
      BY <1>1, <2>6 DEF StartupInv
    <3>1. SocketInv'
      BY <1>1, <2>1, <2>2, <2>6
      DEF StartupInv, TypeOK, QuietInv, SocketInv, ReadsInv, Reads, ExclusionInv
    <3>2. ASSUME NEW b \in Clients PROVE ComesUp(b)' /\ Leaves(b)'
      <4>1. /\ ComesUp(b) /\ Leaves(b) /\ Progress(b)
            /\ Knows(b) /\ Serves(b) /\ Reads(b)
        BY DEF QuietInv, KnowsInv, ServesInv, ReadsInv, StartupInv, ProgressInv
      <4> QED
        BY <1>1, <2>1, <2>2, <2>6, <4>1
        DEF StartupInv, TypeOK, ComesUp, Leaves, Progress, Alive
    <3> QED
      BY <3>1, <3>2 DEF QuietInv
  <2> QED
    BY <2>3, <2>4, <2>5, <2>6 DEF CalmInv, ReadsInv, ServesInv, KnowsInv
<1> QED
  BY <1>2, <1>3, <1>5 DEF StartupInv, ProgressInv

\* A client removes the registration.
LEMMA DeleteStep ==
  ASSUME StartupInv, NEW c \in Clients, Delete(c)
  PROVE  StartupInv'
<1> USE NoneAssumption, FaultsAssumption
     DEF files, Inside, Ended, Starting, Recovering, Waiting, Ending,
         ClientStates, DaemonStates, RenewalStates, Registrations,
         ClientAt
<1>1. /\ cpc[c] = "delete" /\ ClientAt(c, "unlink")
      /\ reg' = None /\ open' = {}
      /\ UNCHANGED <<config, lock, sock, seen, dpc, hb, faults, calm, replaced>>
      /\ cpc' \in [Clients -> ClientStates]
  BY ClientMoves
  DEF Delete, StartupInv, TypeOK, Goto, DaemonGoto, Settled, Alive
<1>2. TypeOK'
  BY <1>1 DEF StartupInv, TypeOK, ProgressInv, Progress, Alive
<1>3. ASSUME NEW b \in Clients PROVE Progress(b)'
  <2>1. Progress(b)
    BY DEF StartupInv, ProgressInv
  <2> QED
    BY <1>1, <2>1 DEF StartupInv, TypeOK, Progress, Alive
<1>4. ASSUME calm' PROVE calm /\ CalmInv
  BY <1>1, <1>4 DEF StartupInv
<1>5. ASSUME calm' PROVE CalmInv' /\ (faults' = 0 => QuietInv')
  <2> calm /\ ExclusionInv /\ FileInv /\ ReadsInv /\ ServesInv /\ KnowsInv
    BY <1>4, <1>5 DEF CalmInv
  <2>1. \A e \in Clients : ~Current(e)
    BY <1>1 DEF KnowsInv, Knows, Recovering
  <2>2. \A b \in Clients : ~Registered(b)'
    BY <1>1, <2>1 DEF Registered, Names, FileInv
  <2>3. \A b \in Clients : Current(b)' <=> Current(b)
    BY <1>1, <2>1 DEF Current, Alive, Starting
  <2>4. ExclusionInv'
    BY <1>1 DEF ExclusionInv
  <2>5. FileInv'
    BY <1>1, <2>1, <2>2, <2>3 DEF FileInv, Names, Alive
  <2>6. ASSUME NEW b \in Clients
        PROVE  Reads(b)' /\ Serves(b)' /\ Knows(b)'
    <3>1. Reads(b) /\ Serves(b) /\ Knows(b) /\ Progress(b)
      BY DEF ReadsInv, ServesInv, KnowsInv, StartupInv, ProgressInv
    <3>2. Reads(b)'
      BY <1>1, <2>1, <2>2, <2>3, <3>1
      DEF Reads, StartupInv, TypeOK, Progress, ExclusionInv
    <3>3. Serves(b)'
      BY <1>1, <2>1, <2>2, <2>3, <3>1
      DEF Serves, StartupInv, TypeOK, Progress, ExclusionInv, Alive, Current
    <3>4. Knows(b)'
      BY <1>1, <2>1, <2>2, <2>3, <3>1
      DEF Knows, StartupInv, TypeOK, Progress, ExclusionInv, Alive
    <3> QED
      BY <3>2, <3>3, <3>4
  <2>7. ASSUME faults' = 0 PROVE QuietInv'
    <3> QuietInv
      BY <1>1, <2>7 DEF StartupInv
    <3>1. SocketInv'
      BY <1>1, <2>1, <2>2, <2>3, <2>7
      DEF StartupInv, TypeOK, QuietInv, SocketInv, ReadsInv, Reads, ExclusionInv
    <3>2. ASSUME NEW b \in Clients PROVE ComesUp(b)' /\ Leaves(b)'
      <4>1. /\ ComesUp(b) /\ Leaves(b) /\ Progress(b)
            /\ Knows(b) /\ Serves(b) /\ Reads(b)
        BY DEF QuietInv, KnowsInv, ServesInv, ReadsInv, StartupInv, ProgressInv
      <4> QED
        BY <1>1, <2>1, <2>2, <2>3, <2>7, <4>1
        DEF StartupInv, TypeOK, ComesUp, Leaves, Progress, Alive,
            ExclusionInv
    <3> QED
      BY <3>1, <3>2 DEF QuietInv
  <2> QED
    BY <2>4, <2>5, <2>6, <2>7 DEF CalmInv, ReadsInv, ServesInv, KnowsInv
<1> QED
  BY <1>2, <1>3, <1>5 DEF StartupInv, ProgressInv

\* A client removes the socket file.
LEMMA UnlinkStep ==
  ASSUME StartupInv, NEW c \in Clients, Unlink(c)
  PROVE  StartupInv'
<1> USE NoneAssumption, FaultsAssumption
     DEF files, Inside, Ended, Starting, Recovering, Waiting, Ending,
         ClientStates, DaemonStates, RenewalStates, Registrations,
         ClientAt, SeenIs
<1>1. /\ cpc[c] = "unlink" /\ SeenIs(c, None) /\ sock' = None
      /\ ClientAt(c, IF dpc[c] = "none" THEN "spawn" ELSE "throw")
      /\ UNCHANGED <<config, lock, reg, open, dpc, hb, faults, calm, replaced>>
      /\ cpc' \in [Clients -> ClientStates]
      /\ seen' \in [Clients -> Registrations]
  <2>1. cpc[c] = "unlink" /\ sock' = None
    BY DEF Unlink
  <2>2. /\ ClientAt(c, IF dpc[c] = "none" THEN "spawn" ELSE "throw")
        /\ cpc' \in [Clients -> ClientStates]
    BY ClientMoves DEF Unlink, StartupInv
  <2>3. SeenIs(c, None) /\ seen' \in [Clients -> Registrations]
    BY SeenMoves DEF Unlink, StartupInv
  <2> QED
    BY <2>1, <2>2, <2>3 DEF Unlink
<1>2. TypeOK'
  BY <1>1 DEF StartupInv, TypeOK, ProgressInv, Progress, Alive
<1>3. ASSUME NEW b \in Clients PROVE Progress(b)'
  <2>1. Progress(b)
    BY DEF StartupInv, ProgressInv
  <2> QED
    BY <1>1, <2>1 DEF StartupInv, TypeOK, Progress, Alive
<1>4. ASSUME calm' PROVE calm /\ CalmInv
  BY <1>1, <1>4 DEF StartupInv
<1>5. ASSUME calm' PROVE CalmInv' /\ (faults' = 0 => QuietInv')
  <2> calm /\ ExclusionInv /\ FileInv /\ ReadsInv /\ ServesInv /\ KnowsInv
    BY <1>4, <1>5 DEF CalmInv
  <2>1. \A e \in Clients : ~Current(e)
    BY <1>1 DEF KnowsInv, Knows, Recovering
  <2>2. reg = None /\ open = {}
    BY <1>1 DEF ReadsInv, Reads
  <2>3. \A e \in Clients : ~Registered(e)
    BY <2>2 DEF Registered, Names
  <2>4. \A b \in Clients : Registered(b)' <=> Registered(b)
    BY <1>1, <2>1, <2>2, <2>3 DEF Registered, Names, FileInv
  <2>5. \A b \in Clients : Current(b)' <=> Current(b)
    BY <1>1, <2>1, <2>2, <2>3 DEF Current, Alive, Starting
  <2>6. ExclusionInv'
    BY <1>1 DEF ExclusionInv
  <2>7. FileInv'
    BY <1>1, <2>1, <2>2, <2>3, <2>4, <2>5 DEF FileInv, Names, Alive
  <2>8. ASSUME NEW b \in Clients
        PROVE  Reads(b)' /\ Serves(b)' /\ Knows(b)'
    <3>1. Reads(b) /\ Serves(b) /\ Knows(b) /\ Progress(b)
      BY DEF ReadsInv, ServesInv, KnowsInv, StartupInv, ProgressInv
    <3>2. Reads(b)'
      BY <1>1, <2>1, <2>2, <2>3, <2>4, <2>5, <3>1
      DEF Reads, StartupInv, TypeOK, Progress, ExclusionInv
    <3>3. Serves(b)'
      BY <1>1, <2>1, <2>2, <2>3, <2>4, <2>5, <3>1
      DEF Serves, StartupInv, TypeOK, Progress, ExclusionInv, Alive, Current
    <3>4. Knows(b)'
      BY <1>1, <2>1, <2>2, <2>3, <2>4, <2>5, <3>1
      DEF Knows, StartupInv, TypeOK, Progress, ExclusionInv, Alive
    <3> QED
      BY <3>2, <3>3, <3>4
  <2>9. ASSUME faults' = 0 PROVE QuietInv'
    <3> QuietInv
      BY <1>1, <2>9 DEF StartupInv
    <3>1. SocketInv'
      BY <1>1, <2>1, <2>2, <2>3, <2>4, <2>5, <2>9
      DEF StartupInv, TypeOK, QuietInv, SocketInv, ReadsInv, Reads, ExclusionInv
    <3>2. ASSUME NEW b \in Clients PROVE ComesUp(b)' /\ Leaves(b)'
      <4>1. /\ ComesUp(b) /\ Leaves(b) /\ Progress(b)
            /\ Knows(b) /\ Serves(b) /\ Reads(b)
        BY DEF QuietInv, KnowsInv, ServesInv, ReadsInv, StartupInv, ProgressInv
      <4> QED
        BY <1>1, <2>1, <2>2, <2>3, <2>4, <2>5, <2>9, <4>1
        DEF StartupInv, TypeOK, ComesUp, Leaves, Progress, Alive
    <3> QED
      BY <3>1, <3>2 DEF QuietInv
  <2> QED
    BY <2>6, <2>7, <2>8, <2>9 DEF CalmInv, ReadsInv, ServesInv, KnowsInv
<1> QED
  BY <1>2, <1>3, <1>5 DEF StartupInv, ProgressInv

\* A client spawns its daemon.
LEMMA SpawnStep ==
  ASSUME StartupInv, NEW c \in Clients, Spawn(c)
  PROVE  StartupInv'
<1> USE NoneAssumption, FaultsAssumption
     DEF files, Inside, Ended, Starting, Recovering, Waiting, Ending,
         ClientStates, DaemonStates, RenewalStates, Registrations,
         ClientAt, DaemonAt
<1>1. /\ cpc[c] = "spawn" /\ ClientAt(c, "open") /\ DaemonAt(c, "prepare")
      /\ UNCHANGED <<config, files, seen, hb, faults, calm, replaced>>
      /\ cpc' \in [Clients -> ClientStates]
      /\ dpc' \in [Clients -> DaemonStates]
  <2>1. cpc[c] = "spawn" /\ Goto(c, "open") /\ DaemonGoto(c, "prepare")
    BY DEF Spawn
  <2>2. ClientAt(c, "open") /\ cpc' \in [Clients -> ClientStates]
    BY <2>1, ClientMoves DEF StartupInv
  <2>3. DaemonAt(c, "prepare") /\ dpc' \in [Clients -> DaemonStates]
    BY <2>1, DaemonMoves DEF StartupInv
  <2> QED
    BY <2>1, <2>2, <2>3 DEF Spawn
<1>2. TypeOK'
  BY <1>1 DEF StartupInv, TypeOK, ProgressInv, Progress, Alive
<1>3. ASSUME NEW b \in Clients PROVE Progress(b)'
  <2>1. Progress(b)
    BY DEF StartupInv, ProgressInv
  <2> QED
    BY <1>1, <2>1 DEF StartupInv, TypeOK, Progress, Alive
<1>4. ASSUME calm' PROVE calm /\ CalmInv
  BY <1>1, <1>4 DEF StartupInv
<1>5. ASSUME calm' PROVE CalmInv' /\ (faults' = 0 => QuietInv')
  <2> calm /\ ExclusionInv /\ FileInv /\ ReadsInv /\ ServesInv /\ KnowsInv
    BY <1>4, <1>5 DEF CalmInv
  <2>1. \A e \in Clients : ~Current(e)
    BY <1>1 DEF KnowsInv, Knows, Recovering
  <2>2. reg = None /\ open = {}
    BY <1>1 DEF ReadsInv, Reads
  <2>3. \A e \in Clients : ~Registered(e)
    BY <2>2 DEF Registered, Names
  <2>4. dpc[c] = "none" /\ c \notin replaced
    BY <1>1 DEF StartupInv, ProgressInv, Progress
  <2>5. \A b \in Clients : Registered(b)' <=> Registered(b)
    BY <1>1, <2>1, <2>2, <2>3, <2>4 DEF Registered, Names, FileInv
  <2>6. \A b \in Clients : Current(b)' <=> (b = c \/ Current(b))
    BY <1>1, <2>1, <2>2, <2>3, <2>4 DEF Current, Alive, Starting
  <2>7. ExclusionInv'
    BY <1>1 DEF ExclusionInv
  <2>8. FileInv'
    BY <1>1, <2>1, <2>2, <2>3, <2>4, <2>5, <2>6 DEF FileInv, Names, Alive
  <2>9. ASSUME NEW b \in Clients
        PROVE  Reads(b)' /\ Serves(b)' /\ Knows(b)'
    <3>1. Reads(b) /\ Serves(b) /\ Knows(b) /\ Progress(b)
      BY DEF ReadsInv, ServesInv, KnowsInv, StartupInv, ProgressInv
    <3>2. Reads(b)'
      BY <1>1, <2>1, <2>2, <2>3, <2>4, <2>5, <2>6, <3>1
      DEF Reads, StartupInv, TypeOK, Progress, ExclusionInv
    <3>3. Serves(b)'
      BY <1>1, <2>1, <2>2, <2>3, <2>4, <2>5, <2>6, <3>1
      DEF Serves, StartupInv, TypeOK, Progress, ExclusionInv, Alive, Current
    <3>4. Knows(b)'
      BY <1>1, <2>1, <2>2, <2>3, <2>4, <2>5, <2>6, <3>1
      DEF Knows, StartupInv, TypeOK, Progress, ExclusionInv, Alive
    <3> QED
      BY <3>2, <3>3, <3>4
  <2>10. ASSUME faults' = 0 PROVE QuietInv'
    <3> QuietInv
      BY <1>1, <2>10 DEF StartupInv
    <3>1. SocketInv'
      BY <1>1, <2>1, <2>2, <2>3, <2>4, <2>5, <2>6, <2>10
      DEF StartupInv, TypeOK, QuietInv, SocketInv, ReadsInv, Reads, ExclusionInv
    <3>2. ASSUME NEW b \in Clients PROVE ComesUp(b)' /\ Leaves(b)'
      <4>1. /\ ComesUp(b) /\ Leaves(b) /\ Progress(b)
            /\ Knows(b) /\ Serves(b) /\ Reads(b)
        BY DEF QuietInv, KnowsInv, ServesInv, ReadsInv, StartupInv, ProgressInv
      <4> QED
        BY <1>1, <2>1, <2>2, <2>3, <2>4, <2>5, <2>6, <2>10, <4>1
        DEF StartupInv, TypeOK, ComesUp, Leaves, Progress, Alive,
            ExclusionInv
    <3> QED
      BY <3>1, <3>2 DEF QuietInv
  <2> QED
    BY <2>7, <2>8, <2>9, <2>10 DEF CalmInv, ReadsInv, ServesInv, KnowsInv
<1> QED
  BY <1>2, <1>3, <1>5 DEF StartupInv, ProgressInv

\* A client truncates the registration.
LEMMA OpenRegistrationStep ==
  ASSUME StartupInv, NEW c \in Clients, OpenRegistration(c)
  PROVE  StartupInv'
<1> USE NoneAssumption, FaultsAssumption
     DEF files, Inside, Ended, Starting, Recovering, Waiting, Ending,
         ClientStates, DaemonStates, RenewalStates, Registrations,
         ClientAt
<1>1. /\ cpc[c] = "open" /\ ClientAt(c, "write")
      /\ reg' = None /\ open' = open \cup {<<c, "client">>}
      /\ UNCHANGED <<config, lock, sock, seen, dpc, hb, faults, calm, replaced>>
      /\ cpc' \in [Clients -> ClientStates]
  BY ClientMoves
  DEF OpenRegistration, StartupInv, TypeOK, Goto, DaemonGoto, Settled, Alive
<1>2. TypeOK'
  BY <1>1 DEF StartupInv, TypeOK, ProgressInv, Progress, Alive
<1>3. ASSUME NEW b \in Clients PROVE Progress(b)'
  <2>1. Progress(b)
    BY DEF StartupInv, ProgressInv
  <2> QED
    BY <1>1, <2>1 DEF StartupInv, TypeOK, Progress, Alive
<1>4. ASSUME calm' PROVE calm /\ CalmInv
  BY <1>1, <1>4 DEF StartupInv
<1>5. ASSUME calm' PROVE CalmInv' /\ (faults' = 0 => QuietInv')
  <2> calm /\ ExclusionInv /\ FileInv /\ ReadsInv /\ ServesInv /\ KnowsInv
    BY <1>4, <1>5 DEF CalmInv
  <2>1. reg = None /\ open = {}
    BY <1>1 DEF ReadsInv, Reads
  <2>2. \A e \in Clients : ~Registered(e)
    BY <2>1 DEF Registered, Names
  <2>3. \A b \in Clients : Registered(b)' <=> b = c
    BY <1>1, <2>1, <2>2 DEF Registered, Names, FileInv
  <2>4. \A b \in Clients : Current(b)' <=> Current(b)
    BY <1>1, <2>1, <2>2 DEF Current, Alive, Starting
  <2>5. ExclusionInv'
    BY <1>1 DEF ExclusionInv
  <2>6. FileInv'
    BY <1>1, <2>1, <2>2, <2>3, <2>4 DEF FileInv, Names, Alive
  <2>7. ASSUME NEW b \in Clients
        PROVE  Reads(b)' /\ Serves(b)' /\ Knows(b)'
    <3>1. Reads(b) /\ Serves(b) /\ Knows(b) /\ Progress(b)
      BY DEF ReadsInv, ServesInv, KnowsInv, StartupInv, ProgressInv
    <3>2. Reads(b)'
      BY <1>1, <2>1, <2>2, <2>3, <2>4, <3>1
      DEF Reads, StartupInv, TypeOK, Progress, ExclusionInv
    <3>3. Serves(b)'
      BY <1>1, <2>1, <2>2, <2>3, <2>4, <3>1
      DEF Serves, StartupInv, TypeOK, Progress, ExclusionInv, Alive, Current,
          Knows
    <3>4. Knows(b)'
      BY <1>1, <2>1, <2>2, <2>3, <2>4, <3>1
      DEF Knows, StartupInv, TypeOK, Progress, ExclusionInv, Alive
    <3> QED
      BY <3>2, <3>3, <3>4
  <2>8. ASSUME faults' = 0 PROVE QuietInv'
    <3> QuietInv
      BY <1>1, <2>8 DEF StartupInv
    <3>1. SocketInv'
      BY <1>1, <2>1, <2>2, <2>3, <2>4, <2>8
      DEF StartupInv, TypeOK, QuietInv, SocketInv, ReadsInv, Reads, ExclusionInv
    <3>2. ASSUME NEW b \in Clients PROVE ComesUp(b)' /\ Leaves(b)'
      <4>1. /\ ComesUp(b) /\ Leaves(b) /\ Progress(b)
            /\ Knows(b) /\ Serves(b) /\ Reads(b)
        BY DEF QuietInv, KnowsInv, ServesInv, ReadsInv, StartupInv, ProgressInv
      <4> QED
        BY <1>1, <2>1, <2>2, <2>3, <2>4, <2>8, <4>1
        DEF StartupInv, TypeOK, ComesUp, Leaves, Progress, Alive
    <3> QED
      BY <3>1, <3>2 DEF QuietInv
  <2> QED
    BY <2>5, <2>6, <2>7, <2>8 DEF CalmInv, ReadsInv, ServesInv, KnowsInv
<1> QED
  BY <1>2, <1>3, <1>5 DEF StartupInv, ProgressInv

\* A client writes the registration.
LEMMA WriteRegistrationStep ==
  ASSUME StartupInv, NEW c \in Clients, WriteRegistration(c)
  PROVE  StartupInv'
<1> USE NoneAssumption, FaultsAssumption
     DEF files, Inside, Ended, Starting, Recovering, Waiting, Ending,
         ClientStates, DaemonStates, RenewalStates, Registrations,
         ClientAt, Flush
<1>1. /\ cpc[c] = "write" /\ ClientAt(c, "wait")
      /\ Flush(<<c, "client">>, c)
      /\ UNCHANGED <<config, lock, sock, seen, dpc, hb, faults, calm, replaced>>
      /\ cpc' \in [Clients -> ClientStates]
  BY ClientMoves
  DEF WriteRegistration, StartupInv, TypeOK, Goto, DaemonGoto, Settled, Alive
<1>2. TypeOK'
  BY <1>1 DEF StartupInv, TypeOK, ProgressInv, Progress, Alive
<1>3. ASSUME NEW b \in Clients PROVE Progress(b)'
  <2>1. Progress(b)
    BY DEF StartupInv, ProgressInv
  <2> QED
    BY <1>1, <2>1 DEF StartupInv, TypeOK, Progress, Alive
<1>4. ASSUME calm' PROVE calm /\ CalmInv
  BY <1>1, <1>4 DEF StartupInv
<1>5. ASSUME calm' PROVE CalmInv' /\ (faults' = 0 => QuietInv')
  <2> calm /\ ExclusionInv /\ FileInv /\ ReadsInv /\ ServesInv /\ KnowsInv
    BY <1>4, <1>5 DEF CalmInv
  <2>1. <<c, "client">> \in open
    BY <1>1 DEF ReadsInv, Reads
  <2>2. reg = None /\ open = {<<c, "client">>}
    BY <2>1 DEF FileInv
  <2>3. reg' = [id |-> c, fresh |-> TRUE] /\ open' = {}
    BY <1>1, <2>2 DEF Flush
  <2>4. \A e \in Clients : Registered(e) => e = c
    BY <2>2 DEF Registered, Names
  <2>5. reg' # None /\ reg'.id = c
    <3>1. [id |-> c, fresh |-> TRUE] \in [id : Clients, fresh : BOOLEAN]
      OBVIOUS
    <3> QED
      BY <2>3, <3>1
  <2>6. Registered(c)
    BY <2>1 DEF Registered
  <2>7. \A b \in Clients : Registered(b)' <=> Registered(b)
    BY <1>1, <2>1, <2>2, <2>3, <2>4, <2>5, <2>6 DEF Registered, Names, FileInv
  <2>8. \A b \in Clients : Current(b)' <=> Current(b)
    BY <1>1, <2>1, <2>2, <2>3, <2>4, <2>5, <2>6 DEF Current, Alive, Starting
  <2>9. ExclusionInv'
    BY <1>1 DEF ExclusionInv
  <2>10. FileInv'
    BY <1>1, <2>1, <2>2, <2>3, <2>4, <2>5, <2>6, <2>7, <2>8
    DEF FileInv, Names, Alive
  <2>11. ASSUME NEW b \in Clients
        PROVE  Reads(b)' /\ Serves(b)' /\ Knows(b)'
    <3>1. Reads(b) /\ Serves(b) /\ Knows(b) /\ Progress(b)
      BY DEF ReadsInv, ServesInv, KnowsInv, StartupInv, ProgressInv
    <3>2. Reads(b)'
      BY <1>1, <2>1, <2>2, <2>3, <2>4, <2>5, <2>6, <2>7, <2>8, <3>1
      DEF Reads, StartupInv, TypeOK, Progress, ExclusionInv
    <3>3. Serves(b)'
      BY <1>1, <2>1, <2>2, <2>3, <2>4, <2>5, <2>6, <2>7, <2>8, <3>1
      DEF Serves, StartupInv, TypeOK, Progress, ExclusionInv, Alive, Current
    <3>4. Knows(b)'
      BY <1>1, <2>1, <2>2, <2>3, <2>4, <2>5, <2>6, <2>7, <2>8, <3>1
      DEF Knows, StartupInv, TypeOK, Progress, ExclusionInv, Alive
    <3> QED
      BY <3>2, <3>3, <3>4
  <2>12. ASSUME faults' = 0 PROVE QuietInv'
    <3> QuietInv
      BY <1>1, <2>12 DEF StartupInv
    <3>1. SocketInv'
      BY <1>1, <2>1, <2>2, <2>3, <2>4, <2>5, <2>6, <2>7, <2>8, <2>12
      DEF StartupInv, TypeOK, QuietInv, SocketInv, ReadsInv, Reads, ExclusionInv
    <3>2. ASSUME NEW b \in Clients PROVE ComesUp(b)' /\ Leaves(b)'
      <4>1. /\ ComesUp(b) /\ Leaves(b) /\ Progress(b)
            /\ Knows(b) /\ Serves(b) /\ Reads(b)
        BY DEF QuietInv, KnowsInv, ServesInv, ReadsInv, StartupInv, ProgressInv
      <4> QED
        BY <1>1, <2>1, <2>2, <2>3, <2>4, <2>5, <2>6, <2>7, <2>8, <2>12, <4>1
        DEF StartupInv, TypeOK, ComesUp, Leaves, Progress, Alive
    <3> QED
      BY <3>1, <3>2 DEF QuietInv
  <2> QED
    BY <2>9, <2>10, <2>11, <2>12 DEF CalmInv, ReadsInv, ServesInv, KnowsInv
<1> QED
  BY <1>2, <1>3, <1>5 DEF StartupInv, ProgressInv

\* A client finds a listener behind the socket path.
LEMMA PollHealthyStep ==
  ASSUME StartupInv, NEW c \in Clients, PollHealthy(c)
  PROVE  StartupInv'
<1> USE NoneAssumption, FaultsAssumption
     DEF files, Inside, Ended, Starting, Recovering, Waiting, Ending,
         ClientStates, DaemonStates, RenewalStates, Registrations,
         ClientAt
<1>1. /\ cpc[c] \in Waiting /\ Healthy /\ ClientAt(c, "unlock")
      /\ UNCHANGED <<config, files, seen, dpc, hb, faults, calm, replaced>>
      /\ cpc' \in [Clients -> ClientStates]
  BY ClientMoves
  DEF PollHealthy, StartupInv, TypeOK, Goto, DaemonGoto, Settled, Alive
<1>2. TypeOK'
  BY <1>1 DEF StartupInv, TypeOK, ProgressInv, Progress, Alive
<1>3. ASSUME NEW b \in Clients PROVE Progress(b)'
  <2>1. Progress(b)
    BY DEF StartupInv, ProgressInv
  <2> QED
    BY <1>1, <2>1 DEF StartupInv, TypeOK, Progress, Alive
<1>4. ASSUME calm' PROVE calm /\ CalmInv
  BY <1>1, <1>4 DEF StartupInv
<1>5. ASSUME calm' PROVE CalmInv' /\ (faults' = 0 => QuietInv')
  <2> calm /\ ExclusionInv /\ FileInv /\ ReadsInv /\ ServesInv /\ KnowsInv
    BY <1>4, <1>5 DEF CalmInv
  <2>1. \A b \in Clients : Registered(b)' <=> Registered(b)
    BY <1>1 DEF Registered, Names, FileInv
  <2>2. \A b \in Clients : Current(b)' <=> Current(b)
    BY <1>1 DEF Current, Alive, Starting
  <2>3. ExclusionInv'
    BY <1>1 DEF ExclusionInv
  <2>4. FileInv'
    BY <1>1, <2>1, <2>2 DEF FileInv, Names, Alive
  <2>5. ASSUME NEW b \in Clients
        PROVE  Reads(b)' /\ Serves(b)' /\ Knows(b)'
    <3>1. Reads(b) /\ Serves(b) /\ Knows(b) /\ Progress(b)
      BY DEF ReadsInv, ServesInv, KnowsInv, StartupInv, ProgressInv
    <3>2. Reads(b)'
      BY <1>1, <2>1, <2>2, <3>1
      DEF Reads, StartupInv, TypeOK, Progress, ExclusionInv
    <3>3. Serves(b)'
      BY <1>1, <2>1, <2>2, <3>1
      DEF Serves, StartupInv, TypeOK, Progress, ExclusionInv, Alive, Current
    <3>4. Knows(b)'
      BY <1>1, <2>1, <2>2, <3>1
      DEF Knows, StartupInv, TypeOK, Progress, ExclusionInv, Alive
    <3> QED
      BY <3>2, <3>3, <3>4
  <2>6. ASSUME faults' = 0 PROVE QuietInv'
    <3> QuietInv
      BY <1>1, <2>6 DEF StartupInv
    <3>1. SocketInv'
      BY <1>1, <2>1, <2>2, <2>6
      DEF StartupInv, TypeOK, QuietInv, SocketInv, ReadsInv, Reads, ExclusionInv
    <3>2. ASSUME NEW b \in Clients PROVE ComesUp(b)' /\ Leaves(b)'
      <4>1. /\ ComesUp(b) /\ Leaves(b) /\ Progress(b)
            /\ Knows(b) /\ Serves(b) /\ Reads(b)
        BY DEF QuietInv, KnowsInv, ServesInv, ReadsInv, StartupInv, ProgressInv
      <4> QED
        BY <1>1, <2>1, <2>2, <2>6, <4>1
        DEF StartupInv, TypeOK, ComesUp, Leaves, Progress, Alive, Healthy, Answers,
            QuietInv, SocketInv, ExclusionInv, ReadsInv, Reads
    <3> QED
      BY <3>1, <3>2 DEF QuietInv
  <2> QED
    BY <2>3, <2>4, <2>5, <2>6 DEF CalmInv, ReadsInv, ServesInv, KnowsInv
<1> QED
  BY <1>2, <1>3, <1>5 DEF StartupInv, ProgressInv

\* A client finds none, and waits for the poll interval.
LEMMA PollFailsStep ==
  ASSUME StartupInv, NEW c \in Clients, PollFails(c)
  PROVE  StartupInv'
<1> USE NoneAssumption, FaultsAssumption
     DEF files, Inside, Ended, Starting, Recovering, Waiting, Ending,
         ClientStates, DaemonStates, RenewalStates, Registrations,
         ClientAt
<1>1. /\ cpc[c] = "wait" /\ ClientAt(c, "pause")
      /\ UNCHANGED <<config, files, seen, dpc, hb, faults, calm, replaced>>
      /\ cpc' \in [Clients -> ClientStates]
  BY ClientMoves
  DEF PollFails, StartupInv, TypeOK, Goto, DaemonGoto, Settled, Alive
<1>2. TypeOK'
  BY <1>1 DEF StartupInv, TypeOK, ProgressInv, Progress, Alive
<1>3. ASSUME NEW b \in Clients PROVE Progress(b)'
  <2>1. Progress(b)
    BY DEF StartupInv, ProgressInv
  <2> QED
    BY <1>1, <2>1 DEF StartupInv, TypeOK, Progress, Alive
<1>4. ASSUME calm' PROVE calm /\ CalmInv
  BY <1>1, <1>4 DEF StartupInv
<1>5. ASSUME calm' PROVE CalmInv' /\ (faults' = 0 => QuietInv')
  <2> calm /\ ExclusionInv /\ FileInv /\ ReadsInv /\ ServesInv /\ KnowsInv
    BY <1>4, <1>5 DEF CalmInv
  <2>1. \A b \in Clients : Registered(b)' <=> Registered(b)
    BY <1>1 DEF Registered, Names, FileInv
  <2>2. \A b \in Clients : Current(b)' <=> Current(b)
    BY <1>1 DEF Current, Alive, Starting
  <2>3. ExclusionInv'
    BY <1>1 DEF ExclusionInv
  <2>4. FileInv'
    BY <1>1, <2>1, <2>2 DEF FileInv, Names, Alive
  <2>5. ASSUME NEW b \in Clients
        PROVE  Reads(b)' /\ Serves(b)' /\ Knows(b)'
    <3>1. Reads(b) /\ Serves(b) /\ Knows(b) /\ Progress(b)
      BY DEF ReadsInv, ServesInv, KnowsInv, StartupInv, ProgressInv
    <3>2. Reads(b)'
      BY <1>1, <2>1, <2>2, <3>1
      DEF Reads, StartupInv, TypeOK, Progress, ExclusionInv
    <3>3. Serves(b)'
      BY <1>1, <2>1, <2>2, <3>1
      DEF Serves, StartupInv, TypeOK, Progress, ExclusionInv, Alive, Current
    <3>4. Knows(b)'
      BY <1>1, <2>1, <2>2, <3>1
      DEF Knows, StartupInv, TypeOK, Progress, ExclusionInv, Alive
    <3> QED
      BY <3>2, <3>3, <3>4
  <2>6. ASSUME faults' = 0 PROVE QuietInv'
    <3> QuietInv
      BY <1>1, <2>6 DEF StartupInv
    <3>1. SocketInv'
      BY <1>1, <2>1, <2>2, <2>6
      DEF StartupInv, TypeOK, QuietInv, SocketInv, ReadsInv, Reads, ExclusionInv
    <3>2. ASSUME NEW b \in Clients PROVE ComesUp(b)' /\ Leaves(b)'
      <4>1. /\ ComesUp(b) /\ Leaves(b) /\ Progress(b)
            /\ Knows(b) /\ Serves(b) /\ Reads(b)
        BY DEF QuietInv, KnowsInv, ServesInv, ReadsInv, StartupInv, ProgressInv
      <4> QED
        BY <1>1, <2>1, <2>2, <2>6, <4>1
        DEF StartupInv, TypeOK, ComesUp, Leaves, Progress, Alive, Healthy, Answers,
            QuietInv, SocketInv, ExclusionInv, ReadsInv, Reads
    <3> QED
      BY <3>1, <3>2 DEF QuietInv
  <2> QED
    BY <2>3, <2>4, <2>5, <2>6 DEF CalmInv, ReadsInv, ServesInv, KnowsInv
<1> QED
  BY <1>2, <1>3, <1>5 DEF StartupInv, ProgressInv

\* A daemon looks whose socket path it is.
LEMMA PrepareStep ==
  ASSUME StartupInv, NEW d \in Clients, Prepare(d)
  PROVE  StartupInv'
<1> USE NoneAssumption, FaultsAssumption
     DEF files, Inside, Ended, Starting, Recovering, Waiting, Ending,
         ClientStates, DaemonStates, RenewalStates, Registrations,
         DaemonAt
<1>1. /\ dpc[d] = "prepare"
      /\ \/ DaemonAt(d, "bind") \/ DaemonAt(d, "rmSocket")
         \/ DaemonAt(d, "exited") /\ reg # None /\ ~Names(d)
      /\ UNCHANGED <<config, files, cpc, seen, hb, faults, replaced>>
      /\ dpc' \in [Clients -> DaemonStates]
  BY DaemonMoves
  DEF Prepare, StartupInv, TypeOK, Goto, DaemonGoto, Settled, Alive
<1>2. TypeOK'
  <2>1. calm' \in BOOLEAN
    BY CalmTypes DEF Prepare, ReadsTorn, StartupInv, TypeOK
  <2> QED
    BY <1>1, <2>1 DEF StartupInv, TypeOK, ProgressInv, Progress, Alive
<1>3. ASSUME NEW b \in Clients PROVE Progress(b)'
  <2>1. Progress(b)
    BY DEF StartupInv, ProgressInv
  <2> QED
    BY <1>1, <2>1 DEF StartupInv, TypeOK, Progress, Alive
<1>4. ASSUME calm' PROVE calm /\ CalmInv /\ (open = {} \/ reg # None)
  BY <1>4, TornReads DEF Prepare, StartupInv
<1>5. ASSUME calm' PROVE CalmInv' /\ (faults' = 0 => QuietInv')
  <2> calm /\ ExclusionInv /\ FileInv /\ ReadsInv /\ ServesInv /\ KnowsInv
      /\ (open = {} \/ reg # None)
    BY <1>4, <1>5 DEF CalmInv
  <2>1. \A b \in Clients : Registered(b)' <=> Registered(b)
    BY <1>1 DEF Registered, Names, FileInv
  <2>2. \A b \in Clients : Current(b)' => Current(b)
    BY <1>1 DEF Current, Alive, Starting
  <2>3. ExclusionInv'
    BY <1>1 DEF ExclusionInv
  <2>4. FileInv'
    BY <1>1, <2>1, <2>2 DEF FileInv, Names, Alive
  <2>5. ASSUME NEW b \in Clients
        PROVE  Reads(b)' /\ Serves(b)' /\ Knows(b)'
    <3>1. Reads(b) /\ Serves(b) /\ Knows(b) /\ Progress(b)
      BY DEF ReadsInv, ServesInv, KnowsInv, StartupInv, ProgressInv
    <3>2. Reads(b)'
      BY <1>1, <2>1, <2>2, <3>1
      DEF Reads, StartupInv, TypeOK, Progress, ExclusionInv
    <3>3. Serves(b)'
      BY <1>1, <2>1, <2>2, <3>1
      DEF Serves, StartupInv, TypeOK, Progress, ExclusionInv, Alive, Current
    <3>4. Knows(b)'
      BY <1>1, <2>1, <2>2, <3>1
      DEF Knows, StartupInv, TypeOK, Progress, ExclusionInv, Alive
    <3> QED
      BY <3>2, <3>3, <3>4
  <2>6. ASSUME faults' = 0 PROVE QuietInv'
    <3> QuietInv
      BY <1>1, <2>6 DEF StartupInv
    <3>3. ~(reg # None /\ ~Names(d))
      <4>1. cpc[d] \in {"open", "write"} \cup Waiting
        BY <1>1 DEF QuietInv, ComesUp, Starting
      <4>2. reg # None => reg.id \in Clients /\ Registered(reg.id)
        BY DEF StartupInv, TypeOK, Registrations, Registered, Names
      <4> QED
        BY <4>1, <4>2 DEF ReadsInv, Reads, FileInv, Names
    <3>1. SocketInv'
      BY <1>1, <2>1, <2>2, <3>3, <2>6
      DEF StartupInv, TypeOK, QuietInv, SocketInv, ReadsInv, Reads, ExclusionInv
    <3>2. ASSUME NEW b \in Clients PROVE ComesUp(b)' /\ Leaves(b)'
      <4>1. /\ ComesUp(b) /\ Leaves(b) /\ Progress(b)
            /\ Knows(b) /\ Serves(b) /\ Reads(b)
        BY DEF QuietInv, KnowsInv, ServesInv, ReadsInv, StartupInv, ProgressInv
      <4> QED
        BY <1>1, <2>1, <2>2, <3>3, <2>6, <4>1
        DEF StartupInv, TypeOK, ComesUp, Leaves, Progress, Alive
    <3> QED
      BY <3>1, <3>2 DEF QuietInv
  <2> QED
    BY <2>3, <2>4, <2>5, <2>6 DEF CalmInv, ReadsInv, ServesInv, KnowsInv
<1> QED
  BY <1>2, <1>3, <1>5 DEF StartupInv, ProgressInv

\* A daemon removes what is at its socket path.
LEMMA RmSocketStep ==
  ASSUME StartupInv, NEW d \in Clients, RmSocket(d)
  PROVE  StartupInv'
<1> USE NoneAssumption, FaultsAssumption
     DEF files, Inside, Ended, Starting, Recovering, Waiting, Ending,
         ClientStates, DaemonStates, RenewalStates, Registrations,
         DaemonAt
<1>1. /\ dpc[d] = "rmSocket" /\ DaemonAt(d, "bind") /\ sock' = None
      /\ UNCHANGED <<config, lock, reg, open, cpc, seen, hb, faults, calm,
                     replaced>>
      /\ dpc' \in [Clients -> DaemonStates]
  BY DaemonMoves
  DEF RmSocket, StartupInv, TypeOK, Goto, DaemonGoto, Settled, Alive
<1>2. TypeOK'
  BY <1>1 DEF StartupInv, TypeOK, ProgressInv, Progress, Alive
<1>3. ASSUME NEW b \in Clients PROVE Progress(b)'
  <2>1. Progress(b)
    BY DEF StartupInv, ProgressInv
  <2> QED
    BY <1>1, <2>1 DEF StartupInv, TypeOK, Progress, Alive
<1>4. ASSUME calm' PROVE calm /\ CalmInv
  BY <1>1, <1>4 DEF StartupInv
<1>5. ASSUME calm' PROVE CalmInv' /\ (faults' = 0 => QuietInv')
  <2> calm /\ ExclusionInv /\ FileInv /\ ReadsInv /\ ServesInv /\ KnowsInv
    BY <1>4, <1>5 DEF CalmInv
  <2>1. Current(d) /\ (Registered(d) \/ cpc[d] = "open")
    BY <1>1 DEF ServesInv, Serves, Current, Alive, Starting
  <2>2. \A e \in Clients : Current(e) => e = d
    BY <2>1, OneCurrent
  <2>3. \A e \in Clients : Registered(e) => e = d
    BY <2>1, OneCurrent
  <2>4. \A b \in Clients : Registered(b)' <=> Registered(b)
    BY <1>1, <2>1, <2>2, <2>3 DEF Registered, Names, FileInv
  <2>5. \A b \in Clients : Current(b)' <=> Current(b)
    BY <1>1, <2>1, <2>2, <2>3 DEF Current, Alive, Starting
  <2>6. ExclusionInv'
    BY <1>1 DEF ExclusionInv
  <2>7. FileInv'
    BY <1>1, <2>1, <2>2, <2>3, <2>4, <2>5 DEF FileInv, Names, Alive
  <2>8. ASSUME NEW b \in Clients
        PROVE  Reads(b)' /\ Serves(b)' /\ Knows(b)'
    <3>1. Reads(b) /\ Serves(b) /\ Knows(b) /\ Progress(b)
      BY DEF ReadsInv, ServesInv, KnowsInv, StartupInv, ProgressInv
    <3>2. Reads(b)'
      BY <1>1, <2>1, <2>2, <2>3, <2>4, <2>5, <3>1
      DEF Reads, StartupInv, TypeOK, Progress, ExclusionInv
    <3>3. Serves(b)'
      BY <1>1, <2>1, <2>2, <2>3, <2>4, <2>5, <3>1
      DEF Serves, StartupInv, TypeOK, Progress, ExclusionInv, Alive, Current
    <3>4. Knows(b)'
      BY <1>1, <2>1, <2>2, <2>3, <2>4, <2>5, <3>1
      DEF Knows, StartupInv, TypeOK, Progress, ExclusionInv, Alive
    <3> QED
      BY <3>2, <3>3, <3>4
  <2>9. ASSUME faults' = 0 PROVE QuietInv'
    <3> QuietInv
      BY <1>1, <2>9 DEF StartupInv
    <3>1. SocketInv'
      BY <1>1, <2>1, <2>2, <2>3, <2>4, <2>5, <2>9
      DEF StartupInv, TypeOK, QuietInv, SocketInv, ReadsInv, Reads, ExclusionInv
    <3>2. ASSUME NEW b \in Clients PROVE ComesUp(b)' /\ Leaves(b)'
      <4>1. /\ ComesUp(b) /\ Leaves(b) /\ Progress(b)
            /\ Knows(b) /\ Serves(b) /\ Reads(b)
        BY DEF QuietInv, KnowsInv, ServesInv, ReadsInv, StartupInv, ProgressInv
      <4> QED
        BY <1>1, <2>1, <2>2, <2>3, <2>4, <2>5, <2>9, <4>1
        DEF StartupInv, TypeOK, ComesUp, Leaves, Progress, Alive
    <3> QED
      BY <3>1, <3>2 DEF QuietInv
  <2> QED
    BY <2>6, <2>7, <2>8, <2>9 DEF CalmInv, ReadsInv, ServesInv, KnowsInv
<1> QED
  BY <1>2, <1>3, <1>5 DEF StartupInv, ProgressInv

\* A daemon binds the socket path, or ends.
LEMMA BindStep ==
  ASSUME StartupInv, NEW d \in Clients, Bind(d)
  PROVE  StartupInv'
<1> USE NoneAssumption, FaultsAssumption
     DEF files, Inside, Ended, Starting, Recovering, Waiting, Ending,
         ClientStates, DaemonStates, RenewalStates, Registrations,
         DaemonAt
<1>1. /\ dpc[d] = "bind"
      /\ \/ sock = None /\ sock' = d /\ DaemonAt(d, "listening")
         \/ sock # None /\ sock' = sock /\ DaemonAt(d, "exited")
      /\ UNCHANGED <<config, lock, reg, open, cpc, seen, hb, faults, calm,
                     replaced>>
      /\ dpc' \in [Clients -> DaemonStates]
  BY DaemonMoves DEF Bind, StartupInv
<1>2. TypeOK'
  <2>1. sock' \in Clients \cup {None}
    BY <1>1 DEF StartupInv, TypeOK
  <2>2. \A e \in Clients : hb[e] # "idle" => dpc'[e] \notin {"none", "exited"}
    BY <1>1 DEF StartupInv, TypeOK, ProgressInv, Progress, Alive
  <2> QED
    BY <1>1, <2>1, <2>2 DEF StartupInv, TypeOK, Alive
<1>3. ASSUME NEW b \in Clients PROVE Progress(b)'
  <2>1. Progress(b)
    BY DEF StartupInv, ProgressInv
  <2> QED
    BY <1>1, <2>1 DEF StartupInv, TypeOK, Progress, Alive
<1>4. ASSUME calm' PROVE calm /\ CalmInv
  BY <1>1, <1>4 DEF StartupInv
<1>5. ASSUME calm' PROVE CalmInv' /\ (faults' = 0 => QuietInv')
  <2> calm /\ ExclusionInv /\ FileInv /\ ReadsInv /\ ServesInv /\ KnowsInv
    BY <1>4, <1>5 DEF CalmInv
  <2>1. Current(d) /\ (Registered(d) \/ cpc[d] = "open")
    BY <1>1 DEF ServesInv, Serves, Current, Alive, Starting
  <2>2. \A e \in Clients : Current(e) => e = d
    BY <2>1, OneCurrent
  <2>3. \A e \in Clients : Registered(e) => e = d
    BY <2>1, OneCurrent
  <2>4. \A b \in Clients : Registered(b)' <=> Registered(b)
    BY <1>1, <2>1, <2>2, <2>3 DEF Registered, Names, FileInv
  <2>5. \A b \in Clients : Current(b)' => Current(b)
    BY <1>1, <2>1, <2>2, <2>3 DEF Current, Alive, Starting
  <2>6. ExclusionInv'
    BY <1>1 DEF ExclusionInv
  <2>7. FileInv'
    BY <1>1, <2>1, <2>2, <2>3, <2>4, <2>5 DEF FileInv, Names, Alive
  <2>8. ASSUME NEW b \in Clients
        PROVE  Reads(b)' /\ Serves(b)' /\ Knows(b)'
    <3>1. Reads(b) /\ Serves(b) /\ Knows(b) /\ Progress(b)
      BY DEF ReadsInv, ServesInv, KnowsInv, StartupInv, ProgressInv
    <3>2. Reads(b)'
      BY <1>1, <2>1, <2>2, <2>3, <2>4, <2>5, <3>1
      DEF Reads, StartupInv, TypeOK, Progress, ExclusionInv
    <3>3. Serves(b)'
      BY <1>1, <2>1, <2>2, <2>3, <2>4, <2>5, <3>1
      DEF Serves, StartupInv, TypeOK, Progress, ExclusionInv, Alive, Current
    <3>4. Knows(b)'
      BY <1>1, <2>1, <2>2, <2>3, <2>4, <2>5, <3>1
      DEF Knows, StartupInv, TypeOK, Progress, ExclusionInv, Alive
    <3> QED
      BY <3>2, <3>3, <3>4
  <2>9. ASSUME faults' = 0 PROVE QuietInv'
    <3> QuietInv
      BY <1>1, <2>9 DEF StartupInv
    <3>3. sock = None
      <4>1. cpc[d] \in {"open", "write"} \cup Waiting
        BY <1>1 DEF QuietInv, ComesUp, Starting
      <4>2. sock # d
        BY <1>1 DEF StartupInv, ProgressInv, Progress, Starting
      <4> QED
        BY <2>3, <4>1, <4>2
        DEF StartupInv, TypeOK, QuietInv, SocketInv, ExclusionInv, Inside,
            Recovering
    <3>1. SocketInv'
      BY <1>1, <2>1, <2>2, <2>3, <2>4, <2>5, <3>3, <2>9
      DEF StartupInv, TypeOK, QuietInv, SocketInv, ReadsInv, Reads, ExclusionInv
    <3>2. ASSUME NEW b \in Clients PROVE ComesUp(b)' /\ Leaves(b)'
      <4>1. /\ ComesUp(b) /\ Leaves(b) /\ Progress(b)
            /\ Knows(b) /\ Serves(b) /\ Reads(b)
        BY DEF QuietInv, KnowsInv, ServesInv, ReadsInv, StartupInv, ProgressInv
      <4> QED
        BY <1>1, <2>1, <2>2, <2>3, <2>4, <2>5, <3>3, <2>9, <4>1
        DEF StartupInv, TypeOK, ComesUp, Leaves, Progress, Alive
    <3> QED
      BY <3>1, <3>2 DEF QuietInv
  <2> QED
    BY <2>6, <2>7, <2>8, <2>9 DEF CalmInv, ReadsInv, ServesInv, KnowsInv
<1> QED
  BY <1>2, <1>3, <1>5 DEF StartupInv, ProgressInv

\* A daemon is ready.
LEMMA ReadyStep ==
  ASSUME StartupInv, NEW d \in Clients, Ready(d)
  PROVE  StartupInv'
<1> USE NoneAssumption, FaultsAssumption
     DEF files, Inside, Ended, Starting, Recovering, Waiting, Ending,
         ClientStates, DaemonStates, RenewalStates, Registrations,
         DaemonAt
<1>1. /\ dpc[d] = "listening" /\ DaemonAt(d, "ready")
      /\ UNCHANGED <<config, files, cpc, seen, hb, faults, calm, replaced>>
      /\ dpc' \in [Clients -> DaemonStates]
  BY DaemonMoves DEF Ready, StartupInv, TypeOK, Goto, DaemonGoto, Settled, Alive
<1>2. TypeOK'
  BY <1>1 DEF StartupInv, TypeOK, ProgressInv, Progress, Alive
<1>3. ASSUME NEW b \in Clients PROVE Progress(b)'
  <2>1. Progress(b)
    BY DEF StartupInv, ProgressInv
  <2> QED
    BY <1>1, <2>1 DEF StartupInv, TypeOK, Progress, Alive
<1>4. ASSUME calm' PROVE calm /\ CalmInv
  BY <1>1, <1>4 DEF StartupInv
<1>5. ASSUME calm' PROVE CalmInv' /\ (faults' = 0 => QuietInv')
  <2> calm /\ ExclusionInv /\ FileInv /\ ReadsInv /\ ServesInv /\ KnowsInv
    BY <1>4, <1>5 DEF CalmInv
  <2>1. \A b \in Clients : Registered(b)' <=> Registered(b)
    BY <1>1 DEF Registered, Names, FileInv
  <2>2. \A b \in Clients : Current(b)' <=> Current(b)
    BY <1>1 DEF Current, Alive, Starting
  <2>3. ExclusionInv'
    BY <1>1 DEF ExclusionInv
  <2>4. FileInv'
    BY <1>1, <2>1, <2>2 DEF FileInv, Names, Alive
  <2>5. ASSUME NEW b \in Clients
        PROVE  Reads(b)' /\ Serves(b)' /\ Knows(b)'
    <3>1. Reads(b) /\ Serves(b) /\ Knows(b) /\ Progress(b)
      BY DEF ReadsInv, ServesInv, KnowsInv, StartupInv, ProgressInv
    <3>2. Reads(b)'
      BY <1>1, <2>1, <2>2, <3>1
      DEF Reads, StartupInv, TypeOK, Progress, ExclusionInv
    <3>3. Serves(b)'
      BY <1>1, <2>1, <2>2, <3>1
      DEF Serves, StartupInv, TypeOK, Progress, ExclusionInv, Alive, Current
    <3>4. Knows(b)'
      BY <1>1, <2>1, <2>2, <3>1
      DEF Knows, StartupInv, TypeOK, Progress, ExclusionInv, Alive
    <3> QED
      BY <3>2, <3>3, <3>4
  <2>6. ASSUME faults' = 0 PROVE QuietInv'
    <3> QuietInv
      BY <1>1, <2>6 DEF StartupInv
    <3>1. SocketInv'
      BY <1>1, <2>1, <2>2, <2>6
      DEF StartupInv, TypeOK, QuietInv, SocketInv, ReadsInv, Reads, ExclusionInv
    <3>2. ASSUME NEW b \in Clients PROVE ComesUp(b)' /\ Leaves(b)'
      <4>1. /\ ComesUp(b) /\ Leaves(b) /\ Progress(b)
            /\ Knows(b) /\ Serves(b) /\ Reads(b)
        BY DEF QuietInv, KnowsInv, ServesInv, ReadsInv, StartupInv, ProgressInv
      <4> QED
        BY <1>1, <2>1, <2>2, <2>6, <4>1
        DEF StartupInv, TypeOK, ComesUp, Leaves, Progress, Alive
    <3> QED
      BY <3>1, <3>2 DEF QuietInv
  <2> QED
    BY <2>3, <2>4, <2>5, <2>6 DEF CalmInv, ReadsInv, ServesInv, KnowsInv
<1> QED
  BY <1>2, <1>3, <1>5 DEF StartupInv, ProgressInv

\* A daemon reads the registration to renew its lease.
LEMMA RenewReadStep ==
  ASSUME StartupInv, NEW d \in Clients, RenewRead(d)
  PROVE  StartupInv'
<1> USE NoneAssumption, FaultsAssumption
     DEF files, Inside, Ended, Starting, Recovering, Waiting, Ending,
         ClientStates, DaemonStates, RenewalStates, Registrations,
         DaemonAt, RenewalAt
<1>1. /\ dpc[d] = "ready" /\ hb[d] = "idle" /\ cpc[d] \notin {"open", "write"}
      /\ \/ Names(d) /\ RenewalAt(d, "open") /\ dpc' = dpc
         \/ ~Names(d) /\ DaemonAt(d, "signalled") /\ hb' = hb
      /\ UNCHANGED <<config, files, cpc, seen, faults, replaced>>
      /\ dpc' \in [Clients -> DaemonStates]
      /\ hb' \in [Clients -> RenewalStates]
  BY DaemonMoves, RenewalMoves
  DEF RenewRead, StartupInv, TypeOK, Goto, DaemonGoto, Settled, Alive
<1>2. TypeOK'
  <2>1. calm' \in BOOLEAN
    BY CalmTypes DEF RenewRead, ReadsTorn, StartupInv, TypeOK
  <2> QED
    BY <1>1, <2>1 DEF StartupInv, TypeOK, ProgressInv, Progress, Alive
<1>3. ASSUME NEW b \in Clients PROVE Progress(b)'
  <2>1. Progress(b)
    BY DEF StartupInv, ProgressInv
  <2> QED
    BY <1>1, <2>1 DEF StartupInv, TypeOK, Progress, Alive
<1>4. ASSUME calm' PROVE calm /\ CalmInv /\ (open = {} \/ reg # None)
  BY <1>4, TornReads DEF RenewRead, StartupInv
<1>5. ASSUME calm' PROVE CalmInv' /\ (faults' = 0 => QuietInv')
  <2> calm /\ ExclusionInv /\ FileInv /\ ReadsInv /\ ServesInv /\ KnowsInv
      /\ (open = {} \/ reg # None)
    BY <1>4, <1>5 DEF CalmInv
  <2>1. ~Names(d) => ~Registered(d)
    BY DEF FileInv, Registered
  <2>2. \A b \in Clients : Registered(b)' <=> Registered(b)
    BY <1>1, <2>1 DEF Registered, Names, FileInv
  <2>3. \A b \in Clients : Current(b)' <=> Current(b)
    BY <1>1, <2>1 DEF Current, Alive, Starting
  <2>4. ExclusionInv'
    BY <1>1 DEF ExclusionInv
  <2>5. FileInv'
    BY <1>1, <2>1, <2>2, <2>3 DEF FileInv, Names, Alive
  <2>6. ASSUME NEW b \in Clients
        PROVE  Reads(b)' /\ Serves(b)' /\ Knows(b)'
    <3>1. Reads(b) /\ Serves(b) /\ Knows(b) /\ Progress(b)
      BY DEF ReadsInv, ServesInv, KnowsInv, StartupInv, ProgressInv
    <3>2. Reads(b)'
      BY <1>1, <2>1, <2>2, <2>3, <3>1
      DEF Reads, StartupInv, TypeOK, Progress, ExclusionInv
    <3>3. Serves(b)'
      BY <1>1, <2>1, <2>2, <2>3, <3>1
      DEF Serves, StartupInv, TypeOK, Progress, ExclusionInv, Alive, Current
    <3>4. Knows(b)'
      BY <1>1, <2>1, <2>2, <2>3, <3>1
      DEF Knows, StartupInv, TypeOK, Progress, ExclusionInv, Alive
    <3> QED
      BY <3>2, <3>3, <3>4
  <2>7. ASSUME faults' = 0 PROVE QuietInv'
    <3> QuietInv
      BY <1>1, <2>7 DEF StartupInv
    <3>3. ~Names(d) => d \in replaced
      <4>1. Serves(d)
        BY DEF ServesInv
      <4> QED
        BY <1>1, <2>1, <4>1 DEF Serves, Current, Alive
    <3>1. SocketInv'
      BY <1>1, <2>1, <2>2, <2>3, <2>7
      DEF StartupInv, TypeOK, QuietInv, SocketInv, ReadsInv, Reads, ExclusionInv
    <3>2. ASSUME NEW b \in Clients PROVE ComesUp(b)' /\ Leaves(b)'
      <4>1. /\ ComesUp(b) /\ Leaves(b) /\ Progress(b)
            /\ Knows(b) /\ Serves(b) /\ Reads(b)
        BY DEF QuietInv, KnowsInv, ServesInv, ReadsInv, StartupInv, ProgressInv
      <4> QED
        BY <1>1, <2>1, <2>2, <2>3, <2>7, <3>3, <4>1
        DEF StartupInv, TypeOK, ComesUp, Leaves, Progress, Alive
    <3> QED
      BY <3>1, <3>2 DEF QuietInv
  <2> QED
    BY <2>4, <2>5, <2>6, <2>7 DEF CalmInv, ReadsInv, ServesInv, KnowsInv
<1> QED
  BY <1>2, <1>3, <1>5 DEF StartupInv, ProgressInv

\* A daemon truncates the registration to renew its lease: calm only if it is
\* its own.
LEMMA RenewOpenStep ==
  ASSUME StartupInv, NEW d \in Clients, RenewOpen(d)
  PROVE  StartupInv'
<1> USE NoneAssumption, FaultsAssumption
     DEF files, Inside, Ended, Starting, Recovering, Waiting, Ending,
         ClientStates, DaemonStates, RenewalStates, Registrations,
         RenewalAt
<1>1. /\ hb[d] = "open" /\ RenewalAt(d, "write")
      /\ reg' = None /\ open' = open \cup {<<d, "daemon">>}
      /\ UNCHANGED <<config, lock, sock, cpc, seen, dpc, faults, replaced>>
      /\ hb' \in [Clients -> RenewalStates]
  BY RenewalMoves, CalmStays
  DEF RenewOpen, StartupInv, TypeOK, Goto, DaemonGoto, Settled, Alive
<1>2. TypeOK'
  <2>1. calm' \in BOOLEAN
    BY CalmTypes DEF RenewOpen, ReadsTorn, StartupInv, TypeOK
  <2> QED
    BY <1>1, <2>1 DEF StartupInv, TypeOK, ProgressInv, Progress, Alive
<1>3. ASSUME NEW b \in Clients PROVE Progress(b)'
  <2>1. Progress(b)
    BY DEF StartupInv, ProgressInv
  <2> QED
    BY <1>1, <2>1 DEF StartupInv, TypeOK, Progress, Alive
<1>4. ASSUME calm' PROVE calm /\ CalmInv /\ (Names(d))
  BY <1>4, CalmStays DEF RenewOpen, StartupInv
<1>5. ASSUME calm' PROVE CalmInv' /\ (faults' = 0 => QuietInv')
  <2> calm /\ ExclusionInv /\ FileInv /\ ReadsInv /\ ServesInv /\ KnowsInv
      /\ (Names(d))
    BY <1>4, <1>5 DEF CalmInv
  <2>1. reg # None /\ open = {} /\ Registered(d)
    BY DEF FileInv, Registered, Names
  <2>2. \A e \in Clients : Registered(e) => e = d
    BY <2>1, OneRegistered
  <2>3. \A b \in Clients : Registered(b)' <=> Registered(b)
    BY <1>1, <2>1, <2>2 DEF Registered, Names, FileInv
  <2>4. \A b \in Clients : Current(b)' <=> Current(b)
    BY <1>1, <2>1, <2>2 DEF Current, Alive, Starting
  <2>5. ExclusionInv'
    BY <1>1 DEF ExclusionInv
  <2>6. FileInv'
    BY <1>1, <2>1, <2>2, <2>3, <2>4 DEF FileInv, Names, Alive
  <2>7. ASSUME NEW b \in Clients
        PROVE  Reads(b)' /\ Serves(b)' /\ Knows(b)'
    <3>1. Reads(b) /\ Serves(b) /\ Knows(b) /\ Progress(b)
      BY DEF ReadsInv, ServesInv, KnowsInv, StartupInv, ProgressInv
    <3>2. Reads(b)'
      BY <1>1, <2>1, <2>2, <2>3, <2>4, <3>1
      DEF Reads, StartupInv, TypeOK, Progress, ExclusionInv
    <3>3. Serves(b)'
      BY <1>1, <2>1, <2>2, <2>3, <2>4, <3>1
      DEF Serves, StartupInv, TypeOK, Progress, ExclusionInv, Alive, Current
    <3>4. Knows(b)'
      BY <1>1, <2>1, <2>2, <2>3, <2>4, <3>1
      DEF Knows, StartupInv, TypeOK, Progress, ExclusionInv, Alive
    <3> QED
      BY <3>2, <3>3, <3>4
  <2>8. ASSUME faults' = 0 PROVE QuietInv'
    <3> QuietInv
      BY <1>1, <2>8 DEF StartupInv
    <3>1. SocketInv'
      BY <1>1, <2>1, <2>2, <2>3, <2>4, <2>8
      DEF StartupInv, TypeOK, QuietInv, SocketInv, ReadsInv, Reads, ExclusionInv
    <3>2. ASSUME NEW b \in Clients PROVE ComesUp(b)' /\ Leaves(b)'
      <4>1. /\ ComesUp(b) /\ Leaves(b) /\ Progress(b)
            /\ Knows(b) /\ Serves(b) /\ Reads(b)
        BY DEF QuietInv, KnowsInv, ServesInv, ReadsInv, StartupInv, ProgressInv
      <4> QED
        BY <1>1, <2>1, <2>2, <2>3, <2>4, <2>8, <4>1
        DEF StartupInv, TypeOK, ComesUp, Leaves, Progress, Alive
    <3> QED
      BY <3>1, <3>2 DEF QuietInv
  <2> QED
    BY <2>5, <2>6, <2>7, <2>8 DEF CalmInv, ReadsInv, ServesInv, KnowsInv
<1> QED
  BY <1>2, <1>3, <1>5 DEF StartupInv, ProgressInv

\* A daemon writes the registration.
LEMMA RenewWriteStep ==
  ASSUME StartupInv, NEW d \in Clients, RenewWrite(d)
  PROVE  StartupInv'
<1> USE NoneAssumption, FaultsAssumption
     DEF files, Inside, Ended, Starting, Recovering, Waiting, Ending,
         ClientStates, DaemonStates, RenewalStates, Registrations,
         RenewalAt, Flush
<1>1. /\ hb[d] = "write" /\ RenewalAt(d, "idle")
      /\ Flush(<<d, "daemon">>, d)
      /\ UNCHANGED <<config, lock, sock, cpc, seen, dpc, faults, calm, replaced>>
      /\ hb' \in [Clients -> RenewalStates]
  BY RenewalMoves
  DEF RenewWrite, StartupInv, TypeOK, Goto, DaemonGoto, Settled, Alive
<1>2. TypeOK'
  BY <1>1 DEF StartupInv, TypeOK, ProgressInv, Progress, Alive
<1>3. ASSUME NEW b \in Clients PROVE Progress(b)'
  <2>1. Progress(b)
    BY DEF StartupInv, ProgressInv
  <2> QED
    BY <1>1, <2>1 DEF StartupInv, TypeOK, Progress, Alive
<1>4. ASSUME calm' PROVE calm /\ CalmInv
  BY <1>1, <1>4 DEF StartupInv
<1>5. ASSUME calm' PROVE CalmInv' /\ (faults' = 0 => QuietInv')
  <2> calm /\ ExclusionInv /\ FileInv /\ ReadsInv /\ ServesInv /\ KnowsInv
    BY <1>4, <1>5 DEF CalmInv
  <2>1. <<d, "daemon">> \in open => reg = None /\ open = {<<d, "daemon">>}
    BY DEF FileInv
  <2>2. <<d, "daemon">> \in open =>
          reg' # None /\ reg'.id = d /\ reg'.fresh /\ open' = {}
    <3>1. [id |-> d, fresh |-> TRUE] \in [id : Clients, fresh : BOOLEAN]
      OBVIOUS
    <3> QED
      BY <1>1, <2>1, <3>1 DEF Flush
  <2>3. <<d, "daemon">> \notin open => reg' = reg /\ open' = open
    BY <1>1 DEF Flush
  <2>4. \A b \in Clients : Registered(b)' <=> Registered(b)
    BY <1>1, <2>1, <2>2, <2>3 DEF Registered, Names, FileInv
  <2>5. \A b \in Clients : Current(b)' <=> Current(b)
    BY <1>1, <2>1, <2>2, <2>3 DEF Current, Alive, Starting
  <2>6. ExclusionInv'
    BY <1>1 DEF ExclusionInv
  <2>7. FileInv'
    BY <1>1, <2>1, <2>2, <2>3, <2>4, <2>5 DEF FileInv, Names, Alive
  <2>8. ASSUME NEW b \in Clients
        PROVE  Reads(b)' /\ Serves(b)' /\ Knows(b)'
    <3>1. Reads(b) /\ Serves(b) /\ Knows(b) /\ Progress(b)
      BY DEF ReadsInv, ServesInv, KnowsInv, StartupInv, ProgressInv
    <3>2. Reads(b)'
      BY <1>1, <2>1, <2>2, <2>3, <2>4, <2>5, <3>1
      DEF Reads, StartupInv, TypeOK, Progress, ExclusionInv
    <3>3. Serves(b)'
      BY <1>1, <2>1, <2>2, <2>3, <2>4, <2>5, <3>1
      DEF Serves, StartupInv, TypeOK, Progress, ExclusionInv, Alive, Current
    <3>4. Knows(b)'
      BY <1>1, <2>1, <2>2, <2>3, <2>4, <2>5, <3>1
      DEF Knows, StartupInv, TypeOK, Progress, ExclusionInv, Alive
    <3> QED
      BY <3>2, <3>3, <3>4
  <2>9. ASSUME faults' = 0 PROVE QuietInv'
    <3> QuietInv
      BY <1>1, <2>9 DEF StartupInv
    <3>1. SocketInv'
      BY <1>1, <2>1, <2>2, <2>3, <2>4, <2>5, <2>9
      DEF StartupInv, TypeOK, QuietInv, SocketInv, ReadsInv, Reads, ExclusionInv
    <3>2. ASSUME NEW b \in Clients PROVE ComesUp(b)' /\ Leaves(b)'
      <4>1. /\ ComesUp(b) /\ Leaves(b) /\ Progress(b)
            /\ Knows(b) /\ Serves(b) /\ Reads(b)
        BY DEF QuietInv, KnowsInv, ServesInv, ReadsInv, StartupInv, ProgressInv
      <4> QED
        BY <1>1, <2>1, <2>2, <2>3, <2>4, <2>5, <2>9, <4>1
        DEF StartupInv, TypeOK, ComesUp, Leaves, Progress, Alive
    <3> QED
      BY <3>1, <3>2 DEF QuietInv
  <2> QED
    BY <2>6, <2>7, <2>8, <2>9 DEF CalmInv, ReadsInv, ServesInv, KnowsInv
<1> QED
  BY <1>2, <1>3, <1>5 DEF StartupInv, ProgressInv

\* A daemon that shuts down closes its server: calm only if the path is nobody
\* else's.
LEMMA CloseStep ==
  ASSUME StartupInv, NEW d \in Clients, Close(d)
  PROVE  StartupInv'
<1> USE NoneAssumption, FaultsAssumption
     DEF files, Inside, Ended, Starting, Recovering, Waiting, Ending,
         ClientStates, DaemonStates, RenewalStates, Registrations,
         DaemonAt
<1>1. /\ dpc[d] = "signalled" /\ DaemonAt(d, "closing") /\ sock' = None
      /\ UNCHANGED <<config, lock, reg, open, cpc, seen, hb, faults, replaced>>
      /\ dpc' \in [Clients -> DaemonStates]
  BY DaemonMoves, CalmStays
  DEF Close, StartupInv, TypeOK, Goto, DaemonGoto, Settled, Alive
<1>2. TypeOK'
  <2>1. calm' \in BOOLEAN
    BY CalmTypes DEF Close, ReadsTorn, StartupInv, TypeOK
  <2> QED
    BY <1>1, <2>1 DEF StartupInv, TypeOK, ProgressInv, Progress, Alive
<1>3. ASSUME NEW b \in Clients PROVE Progress(b)'
  <2>1. Progress(b)
    BY DEF StartupInv, ProgressInv
  <2> QED
    BY <1>1, <2>1 DEF StartupInv, TypeOK, Progress, Alive
<1>4. ASSUME calm' PROVE calm /\ CalmInv /\
                         ~(sock \notin {None, d} /\ Alive(sock))
  BY <1>4, CalmStays DEF Close, StartupInv
<1>5. ASSUME calm' PROVE CalmInv' /\ (faults' = 0 => QuietInv')
  <2> calm /\ ExclusionInv /\ FileInv /\ ReadsInv /\ ServesInv /\ KnowsInv
      /\ (~(sock \notin {None, d} /\ Alive(sock)))
    BY <1>4, <1>5 DEF CalmInv
  <2>1. \A b \in Clients : Registered(b)' <=> Registered(b)
    BY <1>1 DEF Registered, Names, FileInv
  <2>2. \A b \in Clients : Current(b)' <=> Current(b) /\ b # d
    BY <1>1 DEF Current, Alive, Starting
  <2>3. ExclusionInv'
    BY <1>1 DEF ExclusionInv
  <2>4. FileInv'
    BY <1>1, <2>1, <2>2 DEF FileInv, Names, Alive
  <2>5. ASSUME NEW b \in Clients
        PROVE  Reads(b)' /\ Serves(b)' /\ Knows(b)'
    <3>1. Reads(b) /\ Serves(b) /\ Knows(b) /\ Progress(b)
      BY DEF ReadsInv, ServesInv, KnowsInv, StartupInv, ProgressInv
    <3>2. Reads(b)'
      BY <1>1, <2>1, <2>2, <3>1
      DEF Reads, StartupInv, TypeOK, Progress, ExclusionInv
    <3>3. Serves(b)'
      BY <1>1, <2>1, <2>2, <3>1
      DEF Serves, StartupInv, TypeOK, Progress, ExclusionInv, Alive, Current
    <3>4. Knows(b)'
      BY <1>1, <2>1, <2>2, <3>1
      DEF Knows, StartupInv, TypeOK, Progress, ExclusionInv, Alive
    <3> QED
      BY <3>2, <3>3, <3>4
  <2>6. ASSUME faults' = 0 PROVE QuietInv'
    <3> QuietInv
      BY <1>1, <2>6 DEF StartupInv
    <3>1. SocketInv'
      BY <1>1, <2>1, <2>2, <2>6
      DEF StartupInv, TypeOK, QuietInv, SocketInv, ReadsInv, Reads, ExclusionInv
    <3>2. ASSUME NEW b \in Clients PROVE ComesUp(b)' /\ Leaves(b)'
      <4>1. /\ ComesUp(b) /\ Leaves(b) /\ Progress(b)
            /\ Knows(b) /\ Serves(b) /\ Reads(b)
        BY DEF QuietInv, KnowsInv, ServesInv, ReadsInv, StartupInv, ProgressInv
      <4> QED
        BY <1>1, <2>1, <2>2, <2>6, <4>1
        DEF StartupInv, TypeOK, ComesUp, Leaves, Progress, Alive
    <3> QED
      BY <3>1, <3>2 DEF QuietInv
  <2> QED
    BY <2>3, <2>4, <2>5, <2>6 DEF CalmInv, ReadsInv, ServesInv, KnowsInv
<1> QED
  BY <1>2, <1>3, <1>5 DEF StartupInv, ProgressInv

\* A daemon that shuts down goes on to the next step of its cleanup.
LEMMA CleansUpStep ==
  ASSUME StartupInv, NEW d \in Clients, NEW p \in Ending,
         dpc[d] \in {"closing", "owner"}, DaemonGoto(d, p),
         Names(d) \/ dpc[d] = "owner", ReadsTorn,
         UNCHANGED <<config, files, cpc, seen, hb, faults, replaced>>
  PROVE  StartupInv'
<1> USE NoneAssumption, FaultsAssumption
     DEF files, Inside, Ended, Starting, Recovering, Waiting, Ending,
         ClientStates, DaemonStates, RenewalStates, Registrations,
         DaemonAt
<1>1. /\ dpc[d] \in {"closing", "owner"} /\ p \in Ending /\ DaemonAt(d, p)
      /\ Names(d) \/ dpc[d] = "owner"
      /\ UNCHANGED <<config, files, cpc, seen, hb, faults, replaced>>
      /\ dpc' \in [Clients -> DaemonStates]
  BY DaemonMoves DEF StartupInv
<1>2. TypeOK'
  <2>1. calm' \in BOOLEAN
    BY CalmTypes DEF ReadsTorn, StartupInv, TypeOK
  <2> QED
    BY <1>1, <2>1 DEF StartupInv, TypeOK, ProgressInv, Progress, Alive
<1>3. ASSUME NEW b \in Clients PROVE Progress(b)'
  <2>1. Progress(b)
    BY DEF StartupInv, ProgressInv
  <2> QED
    BY <1>1, <2>1 DEF StartupInv, TypeOK, Progress, Alive
<1>4. ASSUME calm' PROVE calm /\ CalmInv
  BY <1>4, TornReads DEF StartupInv
<1>5. ASSUME calm' PROVE CalmInv' /\ (faults' = 0 => QuietInv')
  <2> calm /\ ExclusionInv /\ FileInv /\ ReadsInv /\ ServesInv /\ KnowsInv
    BY <1>4, <1>5 DEF CalmInv
  <2>1. \A b \in Clients : Registered(b)' <=> Registered(b)
    BY <1>1 DEF Registered, Names, FileInv
  <2>2. \A b \in Clients : Current(b)' <=> Current(b)
    BY <1>1 DEF Current, Alive, Starting
  <2>3. ExclusionInv'
    BY <1>1 DEF ExclusionInv
  <2>4. FileInv'
    BY <1>1, <2>1, <2>2 DEF FileInv, Names, Alive
  <2>5. ASSUME NEW b \in Clients
        PROVE  Reads(b)' /\ Serves(b)' /\ Knows(b)'
    <3>1. Reads(b) /\ Serves(b) /\ Knows(b) /\ Progress(b)
      BY DEF ReadsInv, ServesInv, KnowsInv, StartupInv, ProgressInv
    <3>2. Reads(b)'
      BY <1>1, <2>1, <2>2, <3>1
      DEF Reads, StartupInv, TypeOK, Progress, ExclusionInv
    <3>3. Serves(b)'
      BY <1>1, <2>1, <2>2, <3>1
      DEF Serves, StartupInv, TypeOK, Progress, ExclusionInv, Alive, Current
    <3>4. Knows(b)'
      BY <1>1, <2>1, <2>2, <3>1
      DEF Knows, StartupInv, TypeOK, Progress, ExclusionInv, Alive
    <3> QED
      BY <3>2, <3>3, <3>4
  <2>6. ASSUME faults' = 0 PROVE QuietInv'
    <3> QuietInv
      BY <1>1, <2>6 DEF StartupInv
    <3>1. Leaves(d)
      BY DEF QuietInv
    <3> QED
      BY <1>1, <3>1, <2>6 DEF Leaves, Registered
  <2> QED
    BY <2>3, <2>4, <2>5, <2>6 DEF CalmInv, ReadsInv, ServesInv, KnowsInv
<1> QED
  BY <1>2, <1>3, <1>5 DEF StartupInv, ProgressInv

\* A daemon that shuts down removes the registration: calm only if it is its
\* own.
LEMMA CleanupEraseStep ==
  ASSUME StartupInv, NEW d \in Clients, CleanupErase(d)
  PROVE  StartupInv'
<1> USE NoneAssumption, FaultsAssumption
     DEF files, Inside, Ended, Starting, Recovering, Waiting, Ending,
         ClientStates, DaemonStates, RenewalStates, Registrations,
         DaemonAt
<1>1. /\ dpc[d] = "erase" /\ DaemonAt(d, "rmOwn")
      /\ reg' = None /\ open' = {}
      /\ UNCHANGED <<config, lock, sock, cpc, seen, hb, faults, replaced>>
      /\ dpc' \in [Clients -> DaemonStates]
  BY DaemonMoves DEF CleanupErase, StartupInv
<1>2. TypeOK'
  <2>1. calm' \in BOOLEAN
    BY CalmTypes DEF CleanupErase, StartupInv, TypeOK
  <2> QED
    BY <1>1, <2>1 DEF StartupInv, TypeOK, ProgressInv, Progress, Alive
<1>3. ASSUME NEW b \in Clients PROVE Progress(b)'
  <2>1. Progress(b)
    BY DEF StartupInv, ProgressInv
  <2> QED
    BY <1>1, <2>1 DEF StartupInv, TypeOK, Progress, Alive
<1>4. ASSUME calm' PROVE calm /\ CalmInv /\
                         (reg = None \/ Names(d)) /\
                         open \subseteq {<<d, "daemon">>}
  BY <1>4, CalmStays DEF CleanupErase, StartupInv
<1>5. ASSUME calm' PROVE CalmInv' /\ (faults' = 0 => QuietInv')
  <2> calm /\ ExclusionInv /\ FileInv /\ ReadsInv /\ ServesInv /\ KnowsInv
      /\
     (reg = None \/ Names(d)) /\
     open \subseteq {<<d, "daemon">>}
    BY <1>4, <1>5 DEF CalmInv
  <2>1. \A e \in Clients : Registered(e) => e = d
    BY DEF Registered, Names
  <2>2. \A e \in Clients : cpc[e] # "write"
    BY DEF ReadsInv, Reads
  <2>3. \A b \in Clients : ~Registered(b)'
    BY <1>1, <2>1, <2>2 DEF Registered, Names, FileInv
  <2>4. \A b \in Clients : Current(b)' <=> Current(b)
    BY <1>1, <2>1, <2>2 DEF Current, Alive, Starting
  <2>5. ExclusionInv'
    BY <1>1 DEF ExclusionInv
  <2>6. FileInv'
    BY <1>1, <2>1, <2>2, <2>3, <2>4 DEF FileInv, Names, Alive
  <2>7. ASSUME NEW b \in Clients
        PROVE  Reads(b)' /\ Serves(b)' /\ Knows(b)'
    <3>1. Reads(b) /\ Serves(b) /\ Knows(b) /\ Progress(b)
      BY DEF ReadsInv, ServesInv, KnowsInv, StartupInv, ProgressInv
    <3>2. Reads(b)'
      BY <1>1, <2>1, <2>2, <2>3, <2>4, <3>1
      DEF Reads, StartupInv, TypeOK, Progress, ExclusionInv
    <3>3. Serves(b)'
      BY <1>1, <2>1, <2>2, <2>3, <2>4, <3>1
      DEF Serves, StartupInv, TypeOK, Progress, ExclusionInv, Alive, Current
    <3>4. Knows(b)'
      BY <1>1, <2>1, <2>2, <2>3, <2>4, <3>1
      DEF Knows, StartupInv, TypeOK, Progress, ExclusionInv, Alive
    <3> QED
      BY <3>2, <3>3, <3>4
  <2>8. ASSUME faults' = 0 PROVE QuietInv'
    <3> QuietInv
      BY <1>1, <2>8 DEF StartupInv
    <3>1. Leaves(d)
      BY DEF QuietInv
    <3> QED
      BY <1>1, <3>1, <2>8 DEF Leaves, Registered
  <2> QED
    BY <2>5, <2>6, <2>7, <2>8 DEF CalmInv, ReadsInv, ServesInv, KnowsInv
<1> QED
  BY <1>2, <1>3, <1>5 DEF StartupInv, ProgressInv

\* A daemon that shuts down removes the socket file and ends: calm only if the
\* path is nobody else's.
LEMMA CleanupRmStep ==
  ASSUME StartupInv, NEW d \in Clients, CleanupRm(d)
  PROVE  StartupInv'
<1> USE NoneAssumption, FaultsAssumption
     DEF files, Inside, Ended, Starting, Recovering, Waiting, Ending,
         ClientStates, DaemonStates, RenewalStates, Registrations,
         DaemonAt, RenewalAt
<1>1. /\ dpc[d] = "rmOwn" /\ sock' = None
      /\ DaemonAt(d, "exited") /\ RenewalAt(d, "idle")
      /\ open' = open \ {<<d, "daemon">>} /\ replaced' = replaced \ {d}
      /\ UNCHANGED <<config, lock, reg, cpc, seen, faults>>
      /\ dpc' \in [Clients -> DaemonStates]
      /\ hb' \in [Clients -> RenewalStates]
  BY ExitMoves DEF CleanupRm, StartupInv
<1>2. TypeOK'
  <2>1. calm' \in BOOLEAN
    BY CalmTypes DEF CleanupRm, StartupInv, TypeOK
  <2> QED
    BY <1>1, <2>1 DEF StartupInv, TypeOK, ProgressInv, Progress, Alive
<1>3. ASSUME NEW b \in Clients PROVE Progress(b)'
  <2>1. Progress(b)
    BY DEF StartupInv, ProgressInv
  <2> QED
    BY <1>1, <2>1 DEF StartupInv, TypeOK, Progress, Alive
<1>4. ASSUME calm' PROVE calm /\ CalmInv /\
                         ~(sock \notin {None, d} /\ Alive(sock))
  BY <1>4, CalmStays DEF CleanupRm, StartupInv
<1>5. ASSUME calm' PROVE CalmInv' /\ (faults' = 0 => QuietInv')
  <2> calm /\ ExclusionInv /\ FileInv /\ ReadsInv /\ ServesInv /\ KnowsInv
      /\
     ~(sock \notin {None, d} /\ Alive(sock))
    BY <1>4, <1>5 DEF CalmInv
  <2>1. \A b \in Clients :
          /\ Registered(b)' => Registered(b)
          /\ b # d => (Registered(b)' <=> Registered(b))
    BY <1>1 DEF Registered, Names, FileInv
  <2>2. \A b \in Clients : Current(b)' <=> Current(b)
    BY <1>1 DEF Current, Alive, Starting
  <2>3. ExclusionInv'
    BY <1>1 DEF ExclusionInv
  <2>4. FileInv'
    BY <1>1, <2>1, <2>2 DEF FileInv, Names, Alive
  <2>5. ASSUME NEW b \in Clients
        PROVE  Reads(b)' /\ Serves(b)' /\ Knows(b)'
    <3>1. Reads(b) /\ Serves(b) /\ Knows(b) /\ Progress(b)
      BY DEF ReadsInv, ServesInv, KnowsInv, StartupInv, ProgressInv
    <3>2. Reads(b)'
      BY <1>1, <2>1, <2>2, <3>1
      DEF Reads, StartupInv, TypeOK, Progress, ExclusionInv
    <3>3. Serves(b)'
      BY <1>1, <2>1, <2>2, <3>1
      DEF Serves, StartupInv, TypeOK, Progress, ExclusionInv, Alive, Current
    <3>4. Knows(b)'
      BY <1>1, <2>1, <2>2, <3>1
      DEF Knows, StartupInv, TypeOK, Progress, ExclusionInv, Alive
    <3> QED
      BY <3>2, <3>3, <3>4
  <2>6. ASSUME faults' = 0 PROVE QuietInv'
    <3> QuietInv
      BY <1>1, <2>6 DEF StartupInv
    <3>1. Leaves(d)
      BY DEF QuietInv
    <3> QED
      BY <1>1, <3>1, <2>6 DEF Leaves, Registered
  <2> QED
    BY <2>3, <2>4, <2>5, <2>6 DEF CalmInv, ReadsInv, ServesInv, KnowsInv
<1> QED
  BY <1>2, <1>3, <1>5 DEF StartupInv, ProgressInv

\* A daemon that has lost the registration ends.
LEMMA ClosesStep ==
  ASSUME StartupInv, NEW d \in Clients, dpc[d] = "closing", Exit(d),
         ReadsTorn, UNCHANGED <<config, lock, reg, sock, cpc, seen, faults>>
  PROVE  StartupInv'
<1> USE NoneAssumption, FaultsAssumption
     DEF files, Inside, Ended, Starting, Recovering, Waiting, Ending,
         ClientStates, DaemonStates, RenewalStates, Registrations,
         DaemonAt, RenewalAt
<1>1. /\ dpc[d] = "closing"
      /\ DaemonAt(d, "exited") /\ RenewalAt(d, "idle")
      /\ open' = open \ {<<d, "daemon">>} /\ replaced' = replaced \ {d}
      /\ UNCHANGED <<config, lock, reg, sock, cpc, seen, faults>>
      /\ dpc' \in [Clients -> DaemonStates]
      /\ hb' \in [Clients -> RenewalStates]
  BY ExitMoves DEF StartupInv
<1>2. TypeOK'
  <2>1. calm' \in BOOLEAN
    BY CalmTypes DEF ReadsTorn, StartupInv, TypeOK
  <2> QED
    BY <1>1, <2>1 DEF StartupInv, TypeOK, ProgressInv, Progress, Alive
<1>3. ASSUME NEW b \in Clients PROVE Progress(b)'
  <2>1. Progress(b)
    BY DEF StartupInv, ProgressInv
  <2> QED
    BY <1>1, <2>1 DEF StartupInv, TypeOK, Progress, Alive
<1>4. ASSUME calm' PROVE calm /\ CalmInv /\ (open = {} \/ reg # None)
  BY <1>4, TornReads DEF StartupInv
<1>5. ASSUME calm' PROVE CalmInv' /\ (faults' = 0 => QuietInv')
  <2> calm /\ ExclusionInv /\ FileInv /\ ReadsInv /\ ServesInv /\ KnowsInv
      /\ (open = {} \/ reg # None)
    BY <1>4, <1>5 DEF CalmInv
  <2>1. open = {} /\ open' = open
    BY <1>1 DEF FileInv
  <2>2. \A b \in Clients : Registered(b)' <=> Registered(b)
    BY <1>1, <2>1 DEF Registered, Names, FileInv
  <2>3. \A b \in Clients : Current(b)' <=> Current(b)
    BY <1>1, <2>1 DEF Current, Alive, Starting
  <2>4. ExclusionInv'
    BY <1>1 DEF ExclusionInv
  <2>5. FileInv'
    BY <1>1, <2>1, <2>2, <2>3 DEF FileInv, Names, Alive
  <2>6. ASSUME NEW b \in Clients
        PROVE  Reads(b)' /\ Serves(b)' /\ Knows(b)'
    <3>1. Reads(b) /\ Serves(b) /\ Knows(b) /\ Progress(b)
      BY DEF ReadsInv, ServesInv, KnowsInv, StartupInv, ProgressInv
    <3>2. Reads(b)'
      BY <1>1, <2>1, <2>2, <2>3, <3>1
      DEF Reads, StartupInv, TypeOK, Progress, ExclusionInv
    <3>3. Serves(b)'
      BY <1>1, <2>1, <2>2, <2>3, <3>1
      DEF Serves, StartupInv, TypeOK, Progress, ExclusionInv, Alive, Current
    <3>4. Knows(b)'
      BY <1>1, <2>1, <2>2, <2>3, <3>1
      DEF Knows, StartupInv, TypeOK, Progress, ExclusionInv, Alive
    <3> QED
      BY <3>2, <3>3, <3>4
  <2>7. ASSUME faults' = 0 PROVE QuietInv'
    <3> QuietInv
      BY <1>1, <2>7 DEF StartupInv
    <3>3. cpc[d] \notin {"open", "write"} \cup Waiting
      <4>1. Leaves(d) /\ Knows(d)
        BY DEF QuietInv, KnowsInv
      <4> QED
        BY <1>1, <4>1 DEF Leaves, Knows, Alive
    <3>1. SocketInv'
      BY <1>1, <2>1, <2>2, <2>3, <3>3, <2>7
      DEF StartupInv, TypeOK, QuietInv, SocketInv, ReadsInv, Reads, ExclusionInv
    <3>2. ASSUME NEW b \in Clients PROVE ComesUp(b)' /\ Leaves(b)'
      <4>1. /\ ComesUp(b) /\ Leaves(b) /\ Progress(b)
            /\ Knows(b) /\ Serves(b) /\ Reads(b)
        BY DEF QuietInv, KnowsInv, ServesInv, ReadsInv, StartupInv, ProgressInv
      <4> QED
        BY <1>1, <2>1, <2>2, <2>3, <3>3, <2>7, <4>1
        DEF StartupInv, TypeOK, ComesUp, Leaves, Progress, Alive, ExclusionInv
    <3> QED
      BY <3>1, <3>2 DEF QuietInv
  <2> QED
    BY <2>4, <2>5, <2>6, <2>7 DEF CalmInv, ReadsInv, ServesInv, KnowsInv
<1> QED
  BY <1>2, <1>3, <1>5 DEF StartupInv, ProgressInv

\* Nothing changes.
LEMMA StutterKeeps ==
  ASSUME StartupInv, UNCHANGED vars
  PROVE  StartupInv'
<1> USE DEF vars, files
<1>1. TypeOK' <=> TypeOK
  BY DEF TypeOK, Alive
<1>2. ProgressInv' <=> ProgressInv
  BY DEF ProgressInv, Progress
<1>3. \A d \in Clients : Registered(d)' <=> Registered(d)
  BY DEF Registered, Names
<1>4. \A d \in Clients : Current(d)' <=> Current(d)
  BY DEF Current, Alive
<1>5. ExclusionInv' <=> ExclusionInv
  BY DEF ExclusionInv
<1>6. FileInv' <=> FileInv
  BY DEF FileInv, Names, Alive
<1>7. ReadsInv' <=> ReadsInv
  BY <1>3 DEF ReadsInv, Reads
<1>8. ServesInv' <=> ServesInv
  BY <1>3, <1>4 DEF ServesInv, Serves
<1>9. KnowsInv => KnowsInv'
  <2> SUFFICES ASSUME KnowsInv, NEW c \in Clients PROVE Knows(c)'
    BY DEF KnowsInv
  <2>1. Knows(c)
    BY DEF KnowsInv
  <2>2. /\ cpc[c] \in {"decide", "probe"}
        /\ Alive(seen[c].id) /\ dpc[seen[c].id] \notin Ending
        => Registered(seen[c].id)'
    BY <2>1 DEF Knows, Registered, Names
  <2> QED
    BY <1>4, <2>1, <2>2 DEF Knows, Alive
<1>10. QuietInv => QuietInv'
  <2>1. SocketInv => SocketInv'
    BY DEF SocketInv, Registered, Names
  <2> QED
    BY <1>3, <2>1
    DEF QuietInv, ComesUp, Leaves, Alive, Registered, Names
<1> QED
  BY <1>1, <1>2, <1>5, <1>6, <1>7, <1>8, <1>9, <1>10 DEF StartupInv, CalmInv

\* A daemon dies.
LEMMA DaemonCrashStep ==
  ASSUME StartupInv, NEW d \in Clients, DaemonCrash(d)
  PROVE  StartupInv'
<1> USE NoneAssumption, FaultsAssumption
     DEF files, Inside, Ended, Starting, Recovering, Waiting, Ending,
         ClientStates, DaemonStates, RenewalStates, Registrations,
         DaemonAt, RenewalAt
<1>1. /\ Alive(d) /\ faults' # 0 /\ faults' \in 0..MaxFaults
      /\ DaemonAt(d, "exited") /\ RenewalAt(d, "idle")
      /\ open' = open \ {<<d, "daemon">>} /\ replaced' = replaced \ {d}
      /\ UNCHANGED <<config, lock, reg, sock, cpc, seen, calm>>
      /\ dpc' \in [Clients -> DaemonStates]
      /\ hb' \in [Clients -> RenewalStates]
  BY ExitMoves, FaultsCount
  DEF DaemonCrash, StartupInv, TypeOK, Goto, DaemonGoto, Settled, Alive
<1>2. TypeOK'
  BY <1>1 DEF StartupInv, TypeOK, ProgressInv, Progress, Alive
<1>3. ASSUME NEW b \in Clients PROVE Progress(b)'
  <2>1. Progress(b)
    BY DEF StartupInv, ProgressInv
  <2> QED
    BY <1>1, <2>1 DEF StartupInv, TypeOK, Progress, Alive
<1>4. ASSUME calm' PROVE calm /\ CalmInv
  BY <1>1, <1>4 DEF StartupInv
<1>5. ASSUME calm' PROVE CalmInv' /\ (faults' = 0 => QuietInv')
  <2> calm /\ ExclusionInv /\ FileInv /\ ReadsInv /\ ServesInv /\ KnowsInv
    BY <1>4, <1>5 DEF CalmInv
  <2>1. \A b \in Clients :
          /\ Registered(b)' => Registered(b)
          /\ b # d => (Registered(b)' <=> Registered(b))
    BY <1>1 DEF Registered, Names, FileInv
  <2>2. \A b \in Clients : Current(b)' <=> Current(b) /\ b # d
    BY <1>1 DEF Current, Alive, Starting
  <2>3. ExclusionInv'
    BY <1>1 DEF ExclusionInv
  <2>4. FileInv'
    BY <1>1, <2>1, <2>2 DEF FileInv, Names, Alive
  <2>5. ASSUME NEW b \in Clients
        PROVE  Reads(b)' /\ Serves(b)' /\ Knows(b)'
    <3>1. Reads(b) /\ Serves(b) /\ Knows(b) /\ Progress(b)
      BY DEF ReadsInv, ServesInv, KnowsInv, StartupInv, ProgressInv
    <3>2. Reads(b)'
      BY <1>1, <2>1, <2>2, <3>1
      DEF Reads, StartupInv, TypeOK, Progress, ExclusionInv
    <3>3. Serves(b)'
      BY <1>1, <2>1, <2>2, <3>1
      DEF Serves, StartupInv, TypeOK, Progress, ExclusionInv, Alive, Current
    <3>4. Knows(b)'
      BY <1>1, <2>1, <2>2, <3>1
      DEF Knows, StartupInv, TypeOK, Progress, ExclusionInv, Alive
    <3> QED
      BY <3>2, <3>3, <3>4
  <2>6. ASSUME faults' = 0 PROVE QuietInv'
    <3> QuietInv
      BY <1>1, <2>6 DEF StartupInv
    <3>1. SocketInv'
      BY <1>1, <2>1, <2>2, <2>6
      DEF StartupInv, TypeOK, QuietInv, SocketInv, ReadsInv, Reads, ExclusionInv
    <3>2. ASSUME NEW b \in Clients PROVE ComesUp(b)' /\ Leaves(b)'
      <4>1. /\ ComesUp(b) /\ Leaves(b) /\ Progress(b)
            /\ Knows(b) /\ Serves(b) /\ Reads(b)
        BY DEF QuietInv, KnowsInv, ServesInv, ReadsInv, StartupInv, ProgressInv
      <4> QED
        BY <1>1, <2>1, <2>2, <2>6, <4>1
        DEF StartupInv, TypeOK, ComesUp, Leaves, Progress, Alive
    <3> QED
      BY <3>1, <3>2 DEF QuietInv
  <2> QED
    BY <2>3, <2>4, <2>5, <2>6 DEF CalmInv, ReadsInv, ServesInv, KnowsInv
<1> QED
  BY <1>2, <1>3, <1>5 DEF StartupInv, ProgressInv

\* A daemon is told from outside to shut down.
LEMMA SignalStep ==
  ASSUME StartupInv, NEW d \in Clients, Signal(d)
  PROVE  StartupInv'
<1> USE NoneAssumption, FaultsAssumption
     DEF files, Inside, Ended, Starting, Recovering, Waiting, Ending,
         ClientStates, DaemonStates, RenewalStates, Registrations,
         DaemonAt
<1>1. /\ dpc[d] = "ready" /\ DaemonAt(d, "signalled")
      /\ faults' # 0 /\ faults' \in 0..MaxFaults
      /\ UNCHANGED <<config, files, cpc, seen, hb, calm, replaced>>
      /\ dpc' \in [Clients -> DaemonStates]
  BY DaemonMoves, FaultsCount DEF Signal, StartupInv
<1>2. TypeOK'
  BY <1>1 DEF StartupInv, TypeOK, ProgressInv, Progress, Alive
<1>3. ASSUME NEW b \in Clients PROVE Progress(b)'
  <2>1. Progress(b)
    BY DEF StartupInv, ProgressInv
  <2> QED
    BY <1>1, <2>1 DEF StartupInv, TypeOK, Progress, Alive
<1>4. ASSUME calm' PROVE calm /\ CalmInv
  BY <1>1, <1>4 DEF StartupInv
<1>5. ASSUME calm' PROVE CalmInv' /\ (faults' = 0 => QuietInv')
  <2> calm /\ ExclusionInv /\ FileInv /\ ReadsInv /\ ServesInv /\ KnowsInv
    BY <1>4, <1>5 DEF CalmInv
  <2>1. \A b \in Clients : Registered(b)' <=> Registered(b)
    BY <1>1 DEF Registered, Names, FileInv
  <2>2. \A b \in Clients : Current(b)' <=> Current(b)
    BY <1>1 DEF Current, Alive, Starting
  <2>3. ExclusionInv'
    BY <1>1 DEF ExclusionInv
  <2>4. FileInv'
    BY <1>1, <2>1, <2>2 DEF FileInv, Names, Alive
  <2>5. ASSUME NEW b \in Clients
        PROVE  Reads(b)' /\ Serves(b)' /\ Knows(b)'
    <3>1. Reads(b) /\ Serves(b) /\ Knows(b) /\ Progress(b)
      BY DEF ReadsInv, ServesInv, KnowsInv, StartupInv, ProgressInv
    <3>2. Reads(b)'
      BY <1>1, <2>1, <2>2, <3>1
      DEF Reads, StartupInv, TypeOK, Progress, ExclusionInv
    <3>3. Serves(b)'
      BY <1>1, <2>1, <2>2, <3>1
      DEF Serves, StartupInv, TypeOK, Progress, ExclusionInv, Alive, Current
    <3>4. Knows(b)'
      BY <1>1, <2>1, <2>2, <3>1
      DEF Knows, StartupInv, TypeOK, Progress, ExclusionInv, Alive
    <3> QED
      BY <3>2, <3>3, <3>4
  <2>6. ASSUME faults' = 0 PROVE QuietInv'
    BY <1>1, <2>6
  <2> QED
    BY <2>3, <2>4, <2>5, <2>6 DEF CalmInv, ReadsInv, ServesInv, KnowsInv
<1> QED
  BY <1>2, <1>3, <1>5 DEF StartupInv, ProgressInv

\* A client dies inside the lock: calm only if its daemon gets registered.
LEMMA ClientCrashStep ==
  ASSUME StartupInv, NEW c \in Clients, ClientCrash(c)
  PROVE  StartupInv'
<1> USE NoneAssumption, FaultsAssumption
     DEF files, Inside, Ended, Starting, Recovering, Waiting, Ending,
         ClientStates, DaemonStates, RenewalStates, Registrations,
         ClientAt, SeenIs
<1>1. /\ cpc[c] \in Inside /\ ClientAt(c, "dead") /\ SeenIs(c, None)
      /\ open' = open \ {<<c, "client">>}
      /\ faults' # 0 /\ faults' \in 0..MaxFaults
      /\ UNCHANGED <<config, lock, reg, sock, dpc, hb, replaced>>
      /\ cpc' \in [Clients -> ClientStates]
      /\ seen' \in [Clients -> Registrations]
  <2>1. ClientAt(c, "dead") /\ cpc' \in [Clients -> ClientStates]
    BY ClientMoves DEF ClientCrash, StartupInv
  <2>2. SeenIs(c, None) /\ seen' \in [Clients -> Registrations]
    BY SeenMoves DEF ClientCrash, StartupInv
  <2>3. faults' # 0 /\ faults' \in 0..MaxFaults
    BY FaultsCount DEF ClientCrash, StartupInv
  <2> QED
    BY <2>1, <2>2, <2>3 DEF ClientCrash
<1>2. TypeOK'
  <2>1. calm' \in BOOLEAN
    BY CalmTypes DEF ClientCrash, ReadsTorn, StartupInv, TypeOK
  <2> QED
    BY <1>1, <2>1 DEF StartupInv, TypeOK, ProgressInv, Progress, Alive
<1>3. ASSUME NEW b \in Clients PROVE Progress(b)'
  <2>1. Progress(b)
    BY DEF StartupInv, ProgressInv
  <2> QED
    BY <1>1, <2>1 DEF StartupInv, TypeOK, Progress, Alive
<1>4. ASSUME calm' PROVE calm /\ CalmInv /\ (cpc[c] \notin {"open", "write"})
  BY <1>4, CalmStays DEF ClientCrash, StartupInv
<1>5. ASSUME calm' PROVE CalmInv' /\ (faults' = 0 => QuietInv')
  <2> calm /\ ExclusionInv /\ FileInv /\ ReadsInv /\ ServesInv /\ KnowsInv
      /\ (cpc[c] \notin {"open", "write"})
    BY <1>4, <1>5 DEF CalmInv
  <2>1. open' = open
    BY <1>1 DEF StartupInv, ProgressInv, Progress
  <2>2. \A b \in Clients : Registered(b)' <=> Registered(b)
    BY <1>1, <2>1 DEF Registered, Names, FileInv
  <2>3. \A b \in Clients : Current(b)' <=> Current(b)
    BY <1>1, <2>1 DEF Current, Alive, Starting
  <2>4. ExclusionInv'
    BY <1>1 DEF ExclusionInv
  <2>5. FileInv'
    BY <1>1, <2>1, <2>2, <2>3 DEF FileInv, Names, Alive
  <2>6. ASSUME NEW b \in Clients
        PROVE  Reads(b)' /\ Serves(b)' /\ Knows(b)'
    <3>1. Reads(b) /\ Serves(b) /\ Knows(b) /\ Progress(b)
      BY DEF ReadsInv, ServesInv, KnowsInv, StartupInv, ProgressInv
    <3>2. Reads(b)'
      BY <1>1, <2>1, <2>2, <2>3, <3>1
      DEF Reads, StartupInv, TypeOK, Progress, ExclusionInv
    <3>3. Serves(b)'
      BY <1>1, <2>1, <2>2, <2>3, <3>1
      DEF Serves, StartupInv, TypeOK, Progress, ExclusionInv, Alive, Current
    <3>4. Knows(b)'
      BY <1>1, <2>1, <2>2, <2>3, <3>1
      DEF Knows, StartupInv, TypeOK, Progress, ExclusionInv, Alive
    <3> QED
      BY <3>2, <3>3, <3>4
  <2>7. ASSUME faults' = 0 PROVE QuietInv'
    <3> QuietInv
      BY <1>1, <2>7 DEF StartupInv
    <3>1. SocketInv'
      BY <1>1, <2>1, <2>2, <2>3, <2>7
      DEF StartupInv, TypeOK, QuietInv, SocketInv, ReadsInv, Reads, ExclusionInv
    <3>2. ASSUME NEW b \in Clients PROVE ComesUp(b)' /\ Leaves(b)'
      <4>1. /\ ComesUp(b) /\ Leaves(b) /\ Progress(b)
            /\ Knows(b) /\ Serves(b) /\ Reads(b)
        BY DEF QuietInv, KnowsInv, ServesInv, ReadsInv, StartupInv, ProgressInv
      <4> QED
        BY <1>1, <2>1, <2>2, <2>3, <2>7, <4>1
        DEF StartupInv, TypeOK, ComesUp, Leaves, Progress, Alive
    <3> QED
      BY <3>1, <3>2 DEF QuietInv
  <2> QED
    BY <2>4, <2>5, <2>6, <2>7 DEF CalmInv, ReadsInv, ServesInv, KnowsInv
<1> QED
  BY <1>2, <1>3, <1>5 DEF StartupInv, ProgressInv

\* A client that has decided on the registered daemon goes on to probe it.
LEMMA ProbeBeginsStep ==
  ASSUME StartupInv, NEW c \in Clients, cpc[c] = "decide", Goto(c, "probe"),
         UNCHANGED <<config, files, seen, dpc, hb, faults, replaced, calm>>
  PROVE  StartupInv'
<1> USE NoneAssumption, FaultsAssumption
     DEF files, Inside, Ended, Starting, Recovering, Waiting, Ending,
         ClientStates, DaemonStates, RenewalStates, Registrations,
         ClientAt
<1>1. /\ cpc[c] = "decide" /\ ClientAt(c, "probe")
      /\ UNCHANGED <<config, files, seen, dpc, hb, faults, replaced, calm>>
      /\ cpc' \in [Clients -> ClientStates]
  BY ClientMoves DEF StartupInv, TypeOK, Goto, DaemonGoto, Settled, Alive
<1>2. TypeOK'
  BY <1>1 DEF StartupInv, TypeOK, ProgressInv, Progress, Alive
<1>3. ASSUME NEW b \in Clients PROVE Progress(b)'
  <2>1. Progress(b)
    BY DEF StartupInv, ProgressInv
  <2> QED
    BY <1>1, <2>1 DEF StartupInv, TypeOK, Progress, Alive
<1>4. ASSUME calm' PROVE calm /\ CalmInv
  BY <1>1, <1>4 DEF StartupInv
<1>5. ASSUME calm' PROVE CalmInv' /\ (faults' = 0 => QuietInv')
  <2> calm /\ ExclusionInv /\ FileInv /\ ReadsInv /\ ServesInv /\ KnowsInv
    BY <1>4, <1>5 DEF CalmInv
  <2>1. \A b \in Clients : Registered(b)' <=> Registered(b)
    BY <1>1 DEF Registered, Names, FileInv
  <2>2. \A b \in Clients : Current(b)' <=> Current(b)
    BY <1>1 DEF Current, Alive, Starting
  <2>3. ExclusionInv'
    BY <1>1 DEF ExclusionInv
  <2>4. FileInv'
    BY <1>1, <2>1, <2>2 DEF FileInv, Names, Alive
  <2>5. ASSUME NEW b \in Clients
        PROVE  Reads(b)' /\ Serves(b)' /\ Knows(b)'
    <3>1. Reads(b) /\ Serves(b) /\ Knows(b) /\ Progress(b)
      BY DEF ReadsInv, ServesInv, KnowsInv, StartupInv, ProgressInv
    <3>2. Reads(b)'
      BY <1>1, <2>1, <2>2, <3>1
      DEF Reads, StartupInv, TypeOK, Progress, ExclusionInv
    <3>3. Serves(b)'
      BY <1>1, <2>1, <2>2, <3>1
      DEF Serves, StartupInv, TypeOK, Progress, ExclusionInv, Alive, Current
    <3>4. Knows(b)'
      BY <1>1, <2>1, <2>2, <3>1
      DEF Knows, StartupInv, TypeOK, Progress, ExclusionInv, Alive
    <3> QED
      BY <3>2, <3>3, <3>4
  <2>6. ASSUME faults' = 0 PROVE QuietInv'
    <3> QuietInv
      BY <1>1, <2>6 DEF StartupInv
    <3>1. SocketInv'
      BY <1>1, <2>1, <2>2, <2>6
      DEF StartupInv, TypeOK, QuietInv, SocketInv, ReadsInv, Reads, ExclusionInv
    <3>2. ASSUME NEW b \in Clients PROVE ComesUp(b)' /\ Leaves(b)'
      <4>1. /\ ComesUp(b) /\ Leaves(b) /\ Progress(b)
            /\ Knows(b) /\ Serves(b) /\ Reads(b)
        BY DEF QuietInv, KnowsInv, ServesInv, ReadsInv, StartupInv, ProgressInv
      <4> QED
        BY <1>1, <2>1, <2>2, <2>6, <4>1
        DEF StartupInv, TypeOK, ComesUp, Leaves, Progress, Alive
    <3> QED
      BY <3>1, <3>2 DEF QuietInv
  <2> QED
    BY <2>3, <2>4, <2>5, <2>6 DEF CalmInv, ReadsInv, ServesInv, KnowsInv
<1> QED
  BY <1>2, <1>3, <1>5 DEF StartupInv, ProgressInv

\* A client that finds the registered daemon healthy is done.
LEMMA ProbeSucceedsStep ==
  ASSUME StartupInv, NEW c \in Clients, cpc[c] = "probe", Goto(c, "unlock"),
         seen' = [seen EXCEPT ![c] = None],
         UNCHANGED <<config, files, dpc, hb, faults, replaced, calm>>
  PROVE  StartupInv'
<1> USE NoneAssumption, FaultsAssumption
     DEF files, Inside, Ended, Starting, Recovering, Waiting, Ending,
         ClientStates, DaemonStates, RenewalStates, Registrations,
         ClientAt, SeenIs
<1>1. /\ cpc[c] = "probe" /\ ClientAt(c, "unlock") /\ SeenIs(c, None)
      /\ UNCHANGED <<config, files, dpc, hb, faults, replaced, calm>>
      /\ cpc' \in [Clients -> ClientStates]
      /\ seen' \in [Clients -> Registrations]
  <2>1. ClientAt(c, "unlock") /\ cpc' \in [Clients -> ClientStates]
    BY ClientMoves DEF StartupInv
  <2>2. SeenIs(c, None) /\ seen' \in [Clients -> Registrations]
    BY SeenMoves DEF StartupInv
  <2> QED
    BY <2>1, <2>2
<1>2. TypeOK'
  BY <1>1 DEF StartupInv, TypeOK, ProgressInv, Progress, Alive
<1>3. ASSUME NEW b \in Clients PROVE Progress(b)'
  <2>1. Progress(b)
    BY DEF StartupInv, ProgressInv
  <2> QED
    BY <1>1, <2>1 DEF StartupInv, TypeOK, Progress, Alive
<1>4. ASSUME calm' PROVE calm /\ CalmInv
  BY <1>1, <1>4 DEF StartupInv
<1>5. ASSUME calm' PROVE CalmInv' /\ (faults' = 0 => QuietInv')
  <2> calm /\ ExclusionInv /\ FileInv /\ ReadsInv /\ ServesInv /\ KnowsInv
    BY <1>4, <1>5 DEF CalmInv
  <2>1. \A b \in Clients : Registered(b)' <=> Registered(b)
    BY <1>1 DEF Registered, Names, FileInv
  <2>2. \A b \in Clients : Current(b)' <=> Current(b)
    BY <1>1 DEF Current, Alive, Starting
  <2>3. ExclusionInv'
    BY <1>1 DEF ExclusionInv
  <2>4. FileInv'
    BY <1>1, <2>1, <2>2 DEF FileInv, Names, Alive
  <2>5. ASSUME NEW b \in Clients
        PROVE  Reads(b)' /\ Serves(b)' /\ Knows(b)'
    <3>1. Reads(b) /\ Serves(b) /\ Knows(b) /\ Progress(b)
      BY DEF ReadsInv, ServesInv, KnowsInv, StartupInv, ProgressInv
    <3>2. Reads(b)'
      BY <1>1, <2>1, <2>2, <3>1
      DEF Reads, StartupInv, TypeOK, Progress, ExclusionInv
    <3>3. Serves(b)'
      BY <1>1, <2>1, <2>2, <3>1
      DEF Serves, StartupInv, TypeOK, Progress, ExclusionInv, Alive, Current
    <3>4. Knows(b)'
      BY <1>1, <2>1, <2>2, <3>1
      DEF Knows, StartupInv, TypeOK, Progress, ExclusionInv, Alive
    <3> QED
      BY <3>2, <3>3, <3>4
  <2>6. ASSUME faults' = 0 PROVE QuietInv'
    <3> QuietInv
      BY <1>1, <2>6 DEF StartupInv
    <3>1. SocketInv'
      BY <1>1, <2>1, <2>2, <2>6
      DEF StartupInv, TypeOK, QuietInv, SocketInv, ReadsInv, Reads, ExclusionInv
    <3>2. ASSUME NEW b \in Clients PROVE ComesUp(b)' /\ Leaves(b)'
      <4>1. /\ ComesUp(b) /\ Leaves(b) /\ Progress(b)
            /\ Knows(b) /\ Serves(b) /\ Reads(b)
        BY DEF QuietInv, KnowsInv, ServesInv, ReadsInv, StartupInv, ProgressInv
      <4> QED
        BY <1>1, <2>1, <2>2, <2>6, <4>1
        DEF StartupInv, TypeOK, ComesUp, Leaves, Progress, Alive
    <3> QED
      BY <3>1, <3>2 DEF QuietInv
  <2> QED
    BY <2>3, <2>4, <2>5, <2>6 DEF CalmInv, ReadsInv, ServesInv, KnowsInv
<1> QED
  BY <1>2, <1>3, <1>5 DEF StartupInv, ProgressInv

\* A lease ends: calm only if its daemon is gone.
LEMMA LapseStep ==
  ASSUME StartupInv, Lapse
  PROVE  StartupInv'
<1> USE NoneAssumption, FaultsAssumption
     DEF files, Inside, Ended, Starting, Recovering, Waiting, Ending,
         ClientStates, DaemonStates, RenewalStates, Registrations
<1>1. /\ reg # None /\ reg' # None /\ reg'.id = reg.id /\ reg' \in Registrations
      /\ faults' \in 0..MaxFaults /\ (faults' = 0 => faults = 0)
      /\ UNCHANGED <<config, lock, open, sock, cpc, seen, dpc, hb, replaced>>
  <2>1. reg \in [id : Clients, fresh : BOOLEAN] /\ reg # None
    BY DEF Lapse, StartupInv, TypeOK, Registrations
  <2>2. reg' = [reg EXCEPT !.fresh = FALSE]
    BY DEF Lapse
  <2>3. reg' \in [id : Clients, fresh : BOOLEAN] /\ reg'.id = reg.id
    BY <2>1, <2>2
  <2>4. faults' \in 0..MaxFaults /\ (faults' = 0 => faults = 0)
    BY FaultsCount DEF Lapse, StartupInv, TypeOK
  <2> QED
    BY <2>1, <2>3, <2>4 DEF Lapse, Registrations
<1>2. TypeOK'
  <2>1. calm' \in BOOLEAN
    BY CalmTypes DEF Lapse, ReadsTorn, StartupInv, TypeOK
  <2> QED
    BY <1>1, <2>1 DEF StartupInv, TypeOK, ProgressInv, Progress, Alive
<1>3. ASSUME NEW b \in Clients PROVE Progress(b)'
  <2>1. Progress(b)
    BY DEF StartupInv, ProgressInv
  <2> QED
    BY <1>1, <2>1 DEF StartupInv, TypeOK, Progress, Alive
<1>4. ASSUME calm' PROVE calm /\ CalmInv /\ (~Alive(reg.id))
  BY <1>4, CalmStays DEF Lapse, StartupInv
<1>5. ASSUME calm' PROVE CalmInv' /\ (faults' = 0 => QuietInv')
  <2> calm /\ ExclusionInv /\ FileInv /\ ReadsInv /\ ServesInv /\ KnowsInv
      /\ (~Alive(reg.id))
    BY <1>4, <1>5 DEF CalmInv
  <2>1. \A b \in Clients : Registered(b)' <=> Registered(b)
    BY <1>1 DEF Registered, Names, FileInv
  <2>2. \A b \in Clients : Current(b)' <=> Current(b)
    BY <1>1 DEF Current, Alive, Starting
  <2>3. ExclusionInv'
    BY <1>1 DEF ExclusionInv
  <2>4. FileInv'
    BY <1>1, <2>1, <2>2 DEF FileInv, Names, Alive
  <2>5. ASSUME NEW b \in Clients
        PROVE  Reads(b)' /\ Serves(b)' /\ Knows(b)'
    <3>1. Reads(b) /\ Serves(b) /\ Knows(b) /\ Progress(b)
      BY DEF ReadsInv, ServesInv, KnowsInv, StartupInv, ProgressInv
    <3>2. Reads(b)'
      BY <1>1, <2>1, <2>2, <3>1
      DEF Reads, StartupInv, TypeOK, Progress, ExclusionInv
    <3>3. Serves(b)'
      BY <1>1, <2>1, <2>2, <3>1
      DEF Serves, StartupInv, TypeOK, Progress, ExclusionInv, Alive, Current
    <3>4. Knows(b)'
      BY <1>1, <2>1, <2>2, <3>1
      DEF Knows, StartupInv, TypeOK, Progress, ExclusionInv, Alive
    <3> QED
      BY <3>2, <3>3, <3>4
  <2>6. ASSUME faults' = 0 PROVE QuietInv'
    <3> QuietInv
      BY <1>1, <2>6 DEF StartupInv
    <3>1. SocketInv'
      BY <1>1, <2>1, <2>2, <2>6
      DEF StartupInv, TypeOK, QuietInv, SocketInv, ReadsInv, Reads, ExclusionInv
    <3>2. ASSUME NEW b \in Clients PROVE ComesUp(b)' /\ Leaves(b)'
      <4>1. /\ ComesUp(b) /\ Leaves(b) /\ Progress(b)
            /\ Knows(b) /\ Serves(b) /\ Reads(b)
        BY DEF QuietInv, KnowsInv, ServesInv, ReadsInv, StartupInv, ProgressInv
      <4> QED
        BY <1>1, <2>1, <2>2, <2>6, <4>1
        DEF StartupInv, TypeOK, ComesUp, Leaves, Progress, Alive
    <3> QED
      BY <3>1, <3>2 DEF QuietInv
  <2> QED
    BY <2>3, <2>4, <2>5, <2>6 DEF CalmInv, ReadsInv, ServesInv, KnowsInv
<1> QED
  BY <1>2, <1>3, <1>5 DEF StartupInv, ProgressInv

\* A client whose startup has timed out signals its daemon, which may have come
\* up since: that is a fault.
LEMMA PollTimeoutStep ==
  ASSUME StartupInv, NEW c \in Clients, PollTimeout(c)
  PROVE  StartupInv'
<1> USE NoneAssumption, FaultsAssumption
     DEF files, Inside, Ended, Starting, Recovering, Waiting, Ending,
         ClientStates, DaemonStates, RenewalStates, Registrations,
         ClientAt, DaemonAt, SeenIs, Ends
<1>1. /\ cpc[c] = "pause" /\ ClientAt(c, "disown")
      /\ seen'[c] # None /\ seen'[c].id = c
      /\ SeenIs(c, seen'[c])
      /\ Ends(c, Signalled(c))
      /\ faults' \in 0..MaxFaults
      /\ faults' = 0 => faults = 0 /\ dpc[c] \notin Starting /\ ~Healthy
      /\ UNCHANGED <<config, files, hb, calm>>
      /\ cpc' \in [Clients -> ClientStates]
      /\ dpc' \in [Clients -> DaemonStates]
      /\ seen' \in [Clients -> Registrations]
  <2>1. [id |-> c, fresh |-> TRUE] \in [id : Clients, fresh : BOOLEAN]
    OBVIOUS
  <2>2. /\ SeenIs(c, [id |-> c, fresh |-> TRUE])
        /\ seen' \in [Clients -> Registrations]
    BY <2>1, SeenMoves DEF PollTimeout, StartupInv, Registrations
  <2>3. seen'[c] = [id |-> c, fresh |-> TRUE]
    BY <2>2 DEF SeenIs
  <2>4. ClientAt(c, "disown") /\ cpc' \in [Clients -> ClientStates]
    BY ClientMoves DEF PollTimeout, StartupInv, ClientStates, Inside, Recovering
  <2>5. Ends(c, Signalled(c)) /\ dpc' \in [Clients -> DaemonStates]
    <3> HIDE DEF Ends
    <3> QED
      BY TerminateMoves DEF PollTimeout, StartupInv
  <2>6. /\ faults' \in 0..MaxFaults
        /\ faults' = 0 => faults = 0 /\ dpc[c] \notin Starting /\ ~Healthy
    BY FaultsCount DEF PollTimeout, StartupInv, TypeOK
  <2>7. seen'[c].id = c
    BY ONLY <2>3
  <2>8. seen'[c] # None
    BY ONLY <2>1, <2>3, NoneAssumption
  <2>9. cpc[c] = "pause" /\ UNCHANGED <<config, files, hb, calm>>
    BY DEF PollTimeout
  <2> HIDE DEF Ends, SeenIs
  <2> QED
    BY <2>2, <2>3, <2>4, <2>5, <2>6, <2>7, <2>8, <2>9
<1>2. TypeOK'
  BY <1>1 DEF StartupInv, TypeOK, ProgressInv, Progress, Alive
<1>3. ASSUME NEW b \in Clients PROVE Progress(b)'
  <2>1. Progress(b)
    BY DEF StartupInv, ProgressInv
  <2> QED
    BY <1>1, <2>1 DEF StartupInv, TypeOK, Progress, Alive
<1>4. ASSUME calm' PROVE calm /\ CalmInv
  BY <1>1, <1>4 DEF StartupInv
<1>5. ASSUME calm' PROVE CalmInv' /\ (faults' = 0 => QuietInv')
  <2> calm /\ ExclusionInv /\ FileInv /\ ReadsInv /\ ServesInv /\ KnowsInv
    BY <1>4, <1>5 DEF CalmInv
  <2>1. \A e \in Clients : Current(e) => e = c
    BY <1>1 DEF KnowsInv, Knows
  <2>2. \A b \in Clients : Registered(b)' <=> Registered(b)
    BY <1>1, <2>1 DEF Registered, Names, FileInv
  <2>3. \A b \in Clients : ~Current(b)'
    BY <1>1, <2>1 DEF Current, Alive, Starting
  <2>4. ExclusionInv'
    BY <1>1 DEF ExclusionInv
  <2>5. FileInv'
    BY <1>1, <2>1, <2>2, <2>3 DEF FileInv, Names, Alive
  <2>6. ASSUME NEW b \in Clients
        PROVE  Reads(b)' /\ Serves(b)' /\ Knows(b)'
    <3>1. Reads(b) /\ Serves(b) /\ Knows(b) /\ Progress(b)
      BY DEF ReadsInv, ServesInv, KnowsInv, StartupInv, ProgressInv
    <3>2. Reads(b)'
      BY <1>1, <2>1, <2>2, <2>3, <3>1
      DEF Reads, StartupInv, TypeOK, Progress, ExclusionInv
    <3>3. Serves(b)'
      BY <1>1, <2>1, <2>2, <2>3, <3>1
      DEF Serves, StartupInv, TypeOK, Progress, ExclusionInv, Alive, Current
    <3>4. Knows(b)'
      BY <1>1, <2>1, <2>2, <2>3, <3>1
      DEF Knows, StartupInv, TypeOK, Progress, ExclusionInv, Alive
    <3> QED
      BY <3>2, <3>3, <3>4
  <2>7. ASSUME faults' = 0 PROVE QuietInv'
    <3> QuietInv
      BY <1>1, <2>7 DEF StartupInv
    <3>3. FALSE
      <4>1. ComesUp(c) /\ Leaves(c) /\ Knows(c) /\ Serves(c)
        BY DEF QuietInv, KnowsInv, ServesInv
      <4>2. Alive(c) /\ c \notin replaced
        BY <1>1, <4>1 DEF ComesUp, Knows
      <4>3. dpc[c] \in {"listening", "ready"}
        BY <1>1, <2>7, <4>1, <4>2 DEF Leaves, Alive, StartupInv, TypeOK
      <4>4. sock = c
        BY <4>1, <4>2, <4>3 DEF Serves
      <4> QED
        BY <1>1, <2>7, <4>3, <4>4 DEF Healthy, Answers
    <3>1. SocketInv'
      BY <1>1, <2>1, <2>2, <2>3, <3>3, <2>7
      DEF StartupInv, TypeOK, QuietInv, SocketInv, ReadsInv, Reads, ExclusionInv
    <3>2. ASSUME NEW b \in Clients PROVE ComesUp(b)' /\ Leaves(b)'
      <4>1. /\ ComesUp(b) /\ Leaves(b) /\ Progress(b)
            /\ Knows(b) /\ Serves(b) /\ Reads(b)
        BY DEF QuietInv, KnowsInv, ServesInv, ReadsInv, StartupInv, ProgressInv
      <4> QED
        BY <1>1, <2>1, <2>2, <2>3, <3>3, <2>7, <4>1
        DEF StartupInv, TypeOK, ComesUp, Leaves, Progress, Alive, ExclusionInv
    <3> QED
      BY <3>1, <3>2 DEF QuietInv
  <2> QED
    BY <2>4, <2>5, <2>6, <2>7 DEF CalmInv, ReadsInv, ServesInv, KnowsInv
<1> QED
  BY <1>2, <1>3, <1>5 DEF StartupInv, ProgressInv

\* A client ends the daemon it decides on, which in calm is none that is up.
LEMMA RecoverEndsStep ==
  ASSUME StartupInv, NEW c \in Clients,
         cpc[c] \in {"decide", "probe"}, Recover(c, TRUE),
         UNCHANGED <<config, files, seen, hb, faults>>,
         calm' => dpc[seen[c].id] \notin {"listening", "ready"}
  PROVE  StartupInv'
<1> USE NoneAssumption, FaultsAssumption
     DEF files, Inside, Ended, Starting, Recovering, Waiting, Ending,
         ClientStates, DaemonStates, RenewalStates, Registrations,
         ClientAt, DaemonAt, Ends
<1>1. /\ cpc[c] \in {"decide", "probe"} /\ ClientAt(c, "disown")
      /\ seen[c].id \in Clients
      /\ Ends(seen[c].id, Signalled(seen[c].id))
      /\ UNCHANGED <<config, files, seen, hb, faults>>
      /\ cpc' \in [Clients -> ClientStates]
      /\ dpc' \in [Clients -> DaemonStates]
  <2>1. seen[c].id \in Clients
    <3>1. Progress(c) /\ seen[c] \in Registrations
      BY DEF StartupInv, TypeOK, ProgressInv
    <3> QED
      BY <3>1 DEF Progress, Registrations
  <2>2. ClientAt(c, "disown") /\ cpc' \in [Clients -> ClientStates]
    BY ClientMoves DEF Recover, StartupInv, ClientStates, Inside, Recovering
  <2>3. /\ Ends(seen[c].id, Signalled(seen[c].id))
        /\ dpc' \in [Clients -> DaemonStates]
    <3> HIDE DEF Ends
    <3> QED
      BY <2>1, TerminateMoves DEF Recover, StartupInv
  <2> HIDE DEF Ends
  <2> QED
    BY <2>1, <2>2, <2>3
<1>2. TypeOK'
  <2>1. calm' \in BOOLEAN
    BY CalmTypes DEF Recover, StartupInv, TypeOK
  <2> QED
    BY <1>1, <2>1 DEF StartupInv, TypeOK, ProgressInv, Progress, Alive
<1>3. ASSUME NEW b \in Clients PROVE Progress(b)'
  <2>1. Progress(b)
    BY DEF StartupInv, ProgressInv
  <2> QED
    BY <1>1, <2>1 DEF StartupInv, TypeOK, Progress, Alive
<1>4. ASSUME calm' PROVE calm /\ CalmInv
  BY <1>4, CalmStays DEF StartupInv, Recover
<1>5. ASSUME calm' PROVE CalmInv' /\ (faults' = 0 => QuietInv')
  <2> calm /\ ExclusionInv /\ FileInv /\ ReadsInv /\ ServesInv /\ KnowsInv
    BY <1>4, <1>5 DEF CalmInv
  <2>1. \A e \in Clients : Current(e) => e = seen[c].id
    BY <1>1 DEF KnowsInv, Knows
  <2>2. dpc[c] = "none" /\ c \notin replaced
    BY <1>1 DEF StartupInv, ProgressInv, Progress
  <2>3. \A b \in Clients : Registered(b)' <=> Registered(b)
    BY <1>1, <2>1, <2>2 DEF Registered, Names, FileInv
  <2>4. \A b \in Clients : ~Current(b)'
    BY <1>1, <2>1, <2>2 DEF Current, Alive, Starting
  <2>5. ExclusionInv'
    BY <1>1 DEF ExclusionInv
  <2>6. FileInv'
    BY <1>1, <2>1, <2>2, <2>3, <2>4 DEF FileInv, Names, Alive
  <2>7. ASSUME NEW b \in Clients
        PROVE  Reads(b)' /\ Serves(b)' /\ Knows(b)'
    <3>1. Reads(b) /\ Serves(b) /\ Knows(b) /\ Progress(b)
      BY DEF ReadsInv, ServesInv, KnowsInv, StartupInv, ProgressInv
    <3>2. Reads(b)'
      BY <1>1, <2>1, <2>2, <2>3, <2>4, <3>1
      DEF Reads, StartupInv, TypeOK, Progress, ExclusionInv
    <3>3. Serves(b)'
      BY <1>1, <2>1, <2>2, <2>3, <2>4, <3>1
      DEF Serves, StartupInv, TypeOK, Progress, ExclusionInv, Alive, Current
    <3>4. Knows(b)'
      BY <1>1, <2>1, <2>2, <2>3, <2>4, <3>1
      DEF Knows, StartupInv, TypeOK, Progress, ExclusionInv, Alive
    <3> QED
      BY <3>2, <3>3, <3>4
  <2>8. ASSUME faults' = 0 PROVE QuietInv'
    <3> QuietInv
      BY <1>1, <2>8 DEF StartupInv
    <3>3. ~Alive(seen[c].id) /\ dpc' = dpc /\ replaced' = replaced
      <4>1. ComesUp(seen[c].id) /\ Leaves(seen[c].id) /\ Knows(c)
        BY <1>1 DEF QuietInv, KnowsInv
      <4>2. dpc[seen[c].id] \notin Starting
        BY <1>1, <2>2, <4>1 DEF ComesUp, ExclusionInv
      <4>3. Alive(seen[c].id) => Registered(seen[c].id)
        BY <1>1, <4>1, <2>8 DEF QuietInv, ComesUp
      <4>4. dpc[seen[c].id] \notin {"listening", "ready"}
        BY <1>1, <1>5
      <4>5. dpc[seen[c].id] \in DaemonStates
        BY <1>1 DEF StartupInv, TypeOK
      <4>6. ~Alive(seen[c].id)
        BY <4>1, <4>2, <4>3, <4>4, <4>5 DEF Leaves, Alive
      <4> QED
        BY <1>1, <4>6 DEF Alive, StartupInv, TypeOK
    <3>1. SocketInv'
      BY <1>1, <2>1, <2>2, <2>3, <2>4, <3>3, <2>8
      DEF StartupInv, TypeOK, QuietInv, SocketInv, ReadsInv, Reads, ExclusionInv
    <3>2. ASSUME NEW b \in Clients PROVE ComesUp(b)' /\ Leaves(b)'
      <4>1. /\ ComesUp(b) /\ Leaves(b) /\ Progress(b)
            /\ Knows(b) /\ Serves(b) /\ Reads(b)
        BY DEF QuietInv, KnowsInv, ServesInv, ReadsInv, StartupInv, ProgressInv
      <4> QED
        BY <1>1, <2>1, <2>2, <2>3, <2>4, <3>3, <2>8, <4>1
        DEF StartupInv, TypeOK, ComesUp, Leaves, Progress, Alive, ExclusionInv
    <3> QED
      BY <3>1, <3>2 DEF QuietInv
  <2> QED
    BY <2>5, <2>6, <2>7, <2>8 DEF CalmInv, ReadsInv, ServesInv, KnowsInv
<1> QED
  BY <1>2, <1>3, <1>5 DEF StartupInv, ProgressInv

\* A client leaves the daemon of another configuration alone: calm only if
\* that is up.
LEMMA RecoverLeavesStep ==
  ASSUME StartupInv, NEW c \in Clients,
         cpc[c] \in {"decide", "probe"}, Recover(c, FALSE),
         UNCHANGED <<config, files, seen, hb, faults>>
  PROVE  StartupInv'
<1> USE NoneAssumption, FaultsAssumption
     DEF files, Inside, Ended, Starting, Recovering, Waiting, Ending,
         ClientStates, DaemonStates, RenewalStates, Registrations,
         ClientAt
<1>1. /\ cpc[c] \in {"decide", "probe"} /\ ClientAt(c, "disown")
      /\ seen[c].id \in Clients
      /\ replaced' = IF Alive(seen[c].id)
                    THEN replaced \cup {seen[c].id} ELSE replaced
      /\ UNCHANGED <<config, files, seen, hb, faults, dpc>>
      /\ cpc' \in [Clients -> ClientStates]
  <2>1. seen[c].id \in Clients
    <3>1. Progress(c) /\ seen[c] \in Registrations
      BY DEF StartupInv, TypeOK, ProgressInv
    <3> QED
      BY <3>1 DEF Progress, Registrations
  <2>2. ClientAt(c, "disown") /\ cpc' \in [Clients -> ClientStates]
    BY ClientMoves DEF Recover, StartupInv, ClientStates, Inside, Recovering
  <2>3. /\ dpc' = dpc
        /\ replaced' = IF Alive(seen[c].id) THEN replaced \cup {seen[c].id}
                       ELSE replaced
    BY DEF Recover, Terminate
  <2> QED
    BY <2>1, <2>2, <2>3
<1>2. TypeOK'
  <2>1. calm' \in BOOLEAN
    BY CalmTypes DEF Recover, StartupInv, TypeOK
  <2> QED
    BY <1>1, <2>1 DEF StartupInv, TypeOK, ProgressInv, Progress, Alive
<1>3. ASSUME NEW b \in Clients PROVE Progress(b)'
  <2>1. Progress(b)
    BY DEF StartupInv, ProgressInv
  <2> QED
    BY <1>1, <2>1 DEF StartupInv, TypeOK, Progress, Alive
<1>4. ASSUME calm' PROVE calm /\ CalmInv /\ (dpc[seen[c].id] \notin Starting)
  BY <1>4, CalmStays DEF StartupInv, Recover
<1>5. ASSUME calm' PROVE CalmInv' /\ (faults' = 0 => QuietInv')
  <2> calm /\ ExclusionInv /\ FileInv /\ ReadsInv /\ ServesInv /\ KnowsInv
      /\ (dpc[seen[c].id] \notin Starting)
    BY <1>4, <1>5 DEF CalmInv
  <2>1. \A e \in Clients : Current(e) => e = seen[c].id
    BY <1>1 DEF KnowsInv, Knows
  <2>2. dpc[c] = "none"
    BY <1>1 DEF StartupInv, ProgressInv, Progress
  <2>3. \A b \in Clients : Registered(b)' <=> Registered(b)
    BY <1>1, <2>1, <2>2 DEF Registered, Names, FileInv
  <2>4. \A b \in Clients : ~Current(b)'
    BY <1>1, <2>1, <2>2 DEF Current, Alive, Starting
  <2>5. ExclusionInv'
    BY <1>1 DEF ExclusionInv
  <2>6. FileInv'
    BY <1>1, <2>1, <2>2, <2>3, <2>4 DEF FileInv, Names, Alive
  <2>7. ASSUME NEW b \in Clients
        PROVE  Reads(b)' /\ Serves(b)' /\ Knows(b)'
    <3>1. Reads(b) /\ Serves(b) /\ Knows(b) /\ Progress(b)
      BY DEF ReadsInv, ServesInv, KnowsInv, StartupInv, ProgressInv
    <3>2. Reads(b)'
      BY <1>1, <2>1, <2>2, <2>3, <2>4, <3>1
      DEF Reads, StartupInv, TypeOK, Progress, ExclusionInv
    <3>3. Serves(b)'
      BY <1>1, <2>1, <2>2, <2>3, <2>4, <3>1
      DEF Serves, StartupInv, TypeOK, Progress, ExclusionInv, Alive, Current
    <3>4. Knows(b)'
      BY <1>1, <2>1, <2>2, <2>3, <2>4, <3>1
      DEF Knows, StartupInv, TypeOK, Progress, ExclusionInv, Alive
    <3> QED
      BY <3>2, <3>3, <3>4
  <2>8. ASSUME faults' = 0 PROVE QuietInv'
    <3> QuietInv
      BY <1>1, <2>8 DEF StartupInv
    <3>1. SocketInv'
      BY <1>1, <2>1, <2>2, <2>3, <2>4, <2>8
      DEF StartupInv, TypeOK, QuietInv, SocketInv, ReadsInv, Reads, ExclusionInv
    <3>2. ASSUME NEW b \in Clients PROVE ComesUp(b)' /\ Leaves(b)'
      <4>1. /\ ComesUp(b) /\ Leaves(b) /\ Progress(b)
            /\ Knows(b) /\ Serves(b) /\ Reads(b)
        BY DEF QuietInv, KnowsInv, ServesInv, ReadsInv, StartupInv, ProgressInv
      <4> QED
        BY <1>1, <2>1, <2>2, <2>3, <2>4, <2>8, <4>1
        DEF StartupInv, TypeOK, ComesUp, Leaves, Progress, Alive
    <3> QED
      BY <3>1, <3>2 DEF QuietInv
  <2> QED
    BY <2>5, <2>6, <2>7, <2>8 DEF CalmInv, ReadsInv, ServesInv, KnowsInv
<1> QED
  BY <1>2, <1>3, <1>5 DEF StartupInv, ProgressInv

\* A client decides what to do about the registration it has read: probe its
\* daemon, end it, or leave it to another configuration.
LEMMA DecideStep ==
  ASSUME StartupInv, NEW c \in Clients, Decide(c)
  PROVE  StartupInv'
<1> DEFINE d == seen[c].id
           same == config[d] = config[c]
           mayEnd == ~seen[c].fresh \/ (same /\ sock = None)
<1> USE NoneAssumption
<1>1. CASE same /\ seen[c].fresh /\ sock # None
  <2>1. /\ cpc[c] = "decide" /\ Goto(c, "probe")
        /\ UNCHANGED <<config, files, seen, dpc, hb, faults, replaced, calm>>
    BY <1>1 DEF Decide
  <2> QED
    BY <2>1, ProbeBeginsStep
<1>2. CASE ~(same /\ seen[c].fresh /\ sock # None) /\ mayEnd
  <2>1. /\ cpc[c] = "decide" /\ Recover(c, TRUE)
        /\ UNCHANGED <<config, files, seen, hb, faults>>
    BY <1>2 DEF Decide, Recover
  <2>2. ASSUME calm', dpc[d] \in {"listening", "ready"} PROVE FALSE
    <3>1. CalmInv
      BY <2>1, <2>2, CalmStays DEF Recover, StartupInv
    <3>2. Registered(d) /\ seen[c].fresh
      BY <2>1, <2>2, <3>1 DEF CalmInv, KnowsInv, Knows, Alive, Ending
    <3>3. sock = None
      BY <1>2, <3>2
    <3>4. d \in Clients
      <4>1. Progress(c) /\ seen[c] \in Registrations
        BY DEF StartupInv, TypeOK, ProgressInv
      <4> QED
        BY <2>1, <4>1 DEF Progress, Registrations
    <3>5. Serves(d)
      BY <3>1, <3>4 DEF CalmInv, ServesInv
    <3> QED
      BY <2>2, <3>2, <3>3, <3>4, <3>5 DEF Serves
  <2> QED
    BY <2>1, <2>2, RecoverEndsStep
<1>3. CASE ~(same /\ seen[c].fresh /\ sock # None) /\ ~mayEnd
  <2>1. /\ cpc[c] = "decide" /\ Recover(c, FALSE)
        /\ UNCHANGED <<config, files, seen, hb, faults>>
    BY <1>3 DEF Decide, Recover
  <2> QED
    BY <2>1, RecoverLeavesStep
<1> QED
  BY <1>1, <1>2, <1>3

\* A client probes the daemon that it has decided on.
LEMMA ProbeStep ==
  ASSUME StartupInv, NEW c \in Clients, Probe(c)
  PROVE  StartupInv'
<1> DEFINE d == seen[c].id
<1> USE NoneAssumption
<1>1. CASE Healthy
  <2>1. /\ cpc[c] = "probe" /\ Goto(c, "unlock")
        /\ seen' = [seen EXCEPT ![c] = None]
        /\ UNCHANGED <<config, files, dpc, hb, faults, replaced, calm>>
    BY <1>1 DEF Probe
  <2> QED
    BY <2>1, ProbeSucceedsStep
<1>2. CASE ~Healthy
  <2>1. /\ cpc[c] = "probe" /\ Recover(c, TRUE)
        /\ UNCHANGED <<config, files, seen, hb, faults>>
    BY <1>2 DEF Probe
  <2>2. ASSUME calm', dpc[d] \in {"listening", "ready"} PROVE FALSE
    <3>1. CalmInv
      BY <2>1, <2>2, CalmStays DEF Recover, StartupInv
    <3>2. Registered(d)
      BY <2>1, <2>2, <3>1 DEF CalmInv, KnowsInv, Knows, Alive, Ending
    <3>3. d \in Clients
      <4>1. Progress(c) /\ seen[c] \in Registrations
        BY DEF StartupInv, TypeOK, ProgressInv
      <4> QED
        BY <2>1, <4>1 DEF Progress, Registrations
    <3>4. Serves(d)
      BY <3>1, <3>3 DEF CalmInv, ServesInv
    <3> QED
      BY <1>2, <2>2, <3>2, <3>3, <3>4 DEF Serves, Healthy, Answers
  <2> QED
    BY <2>1, <2>2, RecoverEndsStep
<1> QED
  BY <1>1, <1>2

\* A daemon that shuts down reads whether the registration is still its own, and
\* ends at once or cleans up.
LEMMA CleanupReadStep ==
  ASSUME StartupInv, NEW d \in Clients, CleanupRead(d)
  PROVE  StartupInv'
<1>1. /\ dpc[d] \in {"closing", "owner"} /\ ReadsTorn
      /\ UNCHANGED <<config, lock, reg, sock, cpc, seen, faults>>
  BY DEF CleanupRead
<1>2. CASE ~Names(d) /\ dpc[d] = "closing"
  <2> QED
    BY <1>1, <1>2, ClosesStep DEF CleanupRead
<1>3. CASE Names(d) \/ dpc[d] = "owner"
  <2>1. \E p \in Ending : DaemonGoto(d, p)
    BY <1>3 DEF CleanupRead, Ending
  <2>2. UNCHANGED <<hb, open, replaced>>
    BY <1>1, <1>3 DEF CleanupRead
  <2> QED
    BY <1>1, <1>3, <2>1, <2>2, CleansUpStep DEF files
<1> QED
  BY <1>1, <1>2, <1>3
-----------------------------------------------------------------------------
(* The theorems *)

\* Before the first call nothing is there.
LEMMA InitEstablishes == Init => StartupInv
<1> SUFFICES ASSUME Init PROVE StartupInv
  OBVIOUS
<1> USE NoneAssumption, FaultsAssumption
<1>1. TypeOK
  <2>1. cpc \in [Clients -> Inside \cup Ended \cup {"idle", "lock"}]
    BY DEF Init
  <2>2. seen \in [Clients -> Registrations] /\ reg \in Registrations
    BY DEF Init, Registrations
  <2>3. dpc \in [Clients -> DaemonStates]
    BY DEF Init, DaemonStates
  <2>4. /\ hb \in [Clients -> {"idle", "open", "write"}]
        /\ \A d \in Clients : hb[d] # "idle" => Alive(d)
    BY DEF Init
  <2>5. /\ config \in [Clients -> Configs] /\ lock \in BOOLEAN
        /\ open \subseteq Clients \X {"client", "daemon"}
        /\ sock \in Clients \cup {None}
    BY DEF Init
  <2>6. faults \in 0..MaxFaults
    BY DEF Init
  <2>7. replaced \subseteq Clients /\ calm \in BOOLEAN
    BY Zenon DEF Init
  <2> QED
    BY <2>1, <2>2, <2>3, <2>4, <2>5, <2>6, <2>7 DEF TypeOK
<1>2. ProgressInv
  BY DEF Init, ProgressInv, Progress, Recovering, Starting
<1>3. CalmInv
  BY DEF Init, CalmInv, ExclusionInv, FileInv, ReadsInv, Reads, ServesInv,
         Serves,
         KnowsInv, Knows, Current, Alive, Registered, Names, Inside, Recovering,
         Starting, Waiting, Ending
<1>4. QuietInv
  BY DEF Init, QuietInv, SocketInv, ComesUp, Leaves, Recovering, Starting,
         Waiting
<1> QED
  BY <1>1, <1>2, <1>3, <1>4 DEF StartupInv

\* Every step keeps the invariant.
LEMMA NextKeeps == StartupInv /\ [Next]_vars => StartupInv'
<1> SUFFICES ASSUME StartupInv, [Next]_vars PROVE StartupInv'
  OBVIOUS
<1>1. ASSUME NEW c \in Clients, Call(c) \/ ClientStep(c) \/ ClientCrash(c)
      PROVE  StartupInv'
  BY <1>1, CallStep, AcquireStep, BreakLockStep, UnlockStep,
     ReadRegistrationStep, DecideStep, ProbeStep, DisownStep, DeleteStep,
     UnlinkStep, SpawnStep, OpenRegistrationStep, WriteRegistrationStep,
     PollHealthyStep, PollFailsStep, PollTimeoutStep, ClientCrashStep
  DEF ClientStep
<1>2. ASSUME NEW d \in Clients,
             \/ DaemonStep(d) \/ RenewalStep(d)
             \/ DaemonCrash(d) \/ Signal(d)
      PROVE  StartupInv'
  BY <1>2, PrepareStep, RmSocketStep, BindStep, ReadyStep, RenewReadStep,
     CloseStep, CleanupReadStep, CleanupEraseStep, CleanupRmStep,
     RenewOpenStep, RenewWriteStep, DaemonCrashStep, SignalStep
  DEF DaemonStep, RenewalStep
<1>3. CASE Lapse
  BY <1>3, LapseStep
<1>4. CASE UNCHANGED vars
  BY <1>4, StutterKeeps
<1> QED
  BY <1>1, <1>2, <1>3, <1>4 DEF Next

\* The inductive invariant holds in every reachable state.
THEOREM StartupInvariant == Spec => []StartupInv
  BY InitEstablishes, NextKeeps, PTL DEF Spec

\* Types of the three files, of clients, daemons and renewals; a renewal is in
\* flight only of a daemon that lives.
THEOREM StartupTypeCorrect == Spec => []TypeOK
<1>1. StartupInv => TypeOK
  BY DEF StartupInv
<1> QED
  BY <1>1, StartupInvariant, PTL

\* Outside the unsafe windows one daemon can serve, but for those that a client
\* has recovered from.
THEOREM OneDaemonServes == Spec => []OneDaemon
<1>1. StartupInv => OneDaemon
  <2> SUFFICES ASSUME StartupInv, calm,
                      NEW d \in Clients \ replaced,
                      NEW e \in Clients \ replaced,
                      Answers(d), Answers(e)
               PROVE  d = e
    BY DEF OneDaemon
  <2>1. Current(d) /\ Current(e)
    BY DEF Current, Answers, Alive, Ending
  <2>2. ExclusionInv /\ FileInv /\ ReadsInv /\ ServesInv
    BY DEF StartupInv, CalmInv
  <2> QED
    BY <2>1, <2>2, OneCurrent
<1> QED
  BY <1>1, StartupInvariant, PTL

\* Outside the unsafe windows a client reaches the registered daemon at the
\* socket path once that is ready.
THEOREM RegisteredIsReachable == Spec => []NamedIsReachable
<1>1. StartupInv => NamedIsReachable
  BY DEF StartupInv, CalmInv, ServesInv, Serves, Registered, NamedIsReachable
<1> QED
  BY <1>1, StartupInvariant, PTL

\* Outside the unsafe windows, and without a fault, no call of
\* ensureDaemonRunning fails, however many clients call at once.
THEOREM CallsSucceed == Spec => []CalmCallsSucceed
<1>1. StartupInv => CalmCallsSucceed
  BY DEF StartupInv, QuietInv, ComesUp, CalmCallsSucceed
<1> QED
  BY <1>1, StartupInvariant, PTL
====
