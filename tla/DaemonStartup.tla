--------------------------- MODULE DaemonStartup ---------------------------
(***************************************************************************)
(* How the clients of one project get a daemon (ensureDaemonRunning,       *)
(* FileDaemonRegistry) and how daemons start, stay and end                 *)
(* (startDaemonServer).  They share three files: the startup lock, the     *)
(* registration and the socket path, which is the same for all of them.    *)
(* Every `await` is a boundary between two steps.                          *)
(*                                                                         *)
(* A client spawns at most one daemon, so a daemon bears the name of the   *)
(* client that spawned it.  A write of the registration truncates the file *)
(* first; until it is written a reader finds nothing it can parse.  A      *)
(* second SIGTERM to a daemon that is shutting down is absorbed.           *)
(***************************************************************************)
EXTENDS FiniteSets, Integers

CONSTANTS
  Clients,    \* processes that call ensureDaemonRunning, once each
  Configs,    \* config fingerprints
  None,       \* no registration, or no file at the socket path
  MaxFaults   \* bound: crashes, signals from outside, leases that lapse,
              \* startups given up early

ASSUME NoneAssumption ==
  None \notin Clients \cup [id : Clients, fresh : BOOLEAN]
ASSUME FaultsAssumption == MaxFaults \in Nat

VARIABLES
  config,  \* config[c]: the configuration of client c and of its daemon
  lock,    \* does the startup lock directory exist
  reg,     \* the registration that can be read: [id, fresh], or None
  open,    \* writers that have truncated the registration file
  sock,    \* the daemon that bound the file at the socket path, or None
  cpc,     \* cpc[c]: where client c is
  seen,    \* seen[c]: the registration client c acts upon, or None
  dpc,     \* dpc[d]: where daemon d is
  hb,      \* hb[d]: where the lease renewal of d in flight is
  faults,  \* crashes, signals, lapses and impatient timeouts so far
  replaced, \* daemons that were alive after a client had recovered from them
  calm      \* history: no unsafe window has been hit

files == <<lock, reg, open, sock>>
vars == <<config, files, cpc, seen, dpc, hb, faults, replaced, calm>>

Starting == {"prepare", "rmSocket", "bind"}
Recovering == {"disown", "delete", "unlink"}
Waiting == {"wait", "pause"}
Inside == {"read", "decide", "probe", "spawn", "open", "write", "unlock",
           "throw"} \cup Waiting \cup Recovering
Ended == {"done", "failed", "dead"}
Ending == {"closing", "owner", "erase", "rmOwn"}
DaemonStates == {"none", "listening", "ready", "signalled", "exited"}
                  \cup Starting \cup Ending

Registrations == [id : Clients, fresh : BOOLEAN] \cup {None}

Alive(d) == dpc[d] \notin {"none", "exited"}
Answers(d) == dpc[d] \in {"listening", "ready", "signalled"}
\* SocketDaemonClient.isHealthy: there is a listener behind the socket path.
Healthy == sock # None /\ Answers(sock)
Names(d) == reg # None /\ reg.id = d

TypeOK ==
  /\ config \in [Clients -> Configs]
  /\ lock \in BOOLEAN
  /\ reg \in Registrations
  /\ open \subseteq Clients \X {"client", "daemon"}
  /\ sock \in Clients \cup {None}
  /\ cpc \in [Clients -> Inside \cup Ended \cup {"idle", "lock"}]
  /\ seen \in [Clients -> Registrations]
  /\ dpc \in [Clients -> DaemonStates]
  /\ hb \in [Clients -> {"idle", "open", "write"}]
  /\ \A d \in Clients : hb[d] # "idle" => Alive(d)
  /\ faults \in 0..MaxFaults
  /\ replaced \subseteq Clients /\ calm \in BOOLEAN

Init ==
  /\ config \in [Clients -> Configs]
  /\ lock = FALSE /\ reg = None /\ open = {} /\ sock = None
  /\ cpc = [c \in Clients |-> "idle"]
  /\ seen = [c \in Clients |-> None]
  /\ dpc = [d \in Clients |-> "none"]
  /\ hb = [d \in Clients |-> "idle"]
  /\ faults = 0 /\ replaced = {} /\ calm = TRUE

Goto(c, p) == cpc' = [cpc EXCEPT ![c] = p]
DaemonGoto(d, p) == dpc' = [dpc EXCEPT ![d] = p]
Unsafe(hit) == calm' = (calm /\ ~hit)
Fault == faults < MaxFaults /\ faults' = faults + 1

\* A reader that finds the file truncated takes it for a missing one.
ReadsTorn == Unsafe(open # {} /\ reg = None)

-----------------------------------------------------------------------------
(* The startup lock *)

Call(c) ==
  /\ cpc[c] = "idle"
  /\ Goto(c, "lock")
  /\ UNCHANGED <<config, files, seen, dpc, hb, faults, calm, replaced>>

\* Variant: mkdir with `recursive`, which does not mind an existing directory.
AcquireAnyway(c) ==
  /\ cpc[c] = "lock"
  /\ lock' = TRUE
  /\ Goto(c, "read")
  /\ UNCHANGED <<config, reg, open, sock, seen, dpc, hb, faults, calm,
                 replaced>>

Acquire(c) ==
  /\ cpc[c] = "lock" /\ ~lock
  /\ lock' = TRUE
  /\ Goto(c, "read")
  /\ UNCHANGED <<config, reg, open, sock, seen, dpc, hb, faults, calm,
                 replaced>>

\* Variant: a caller that has waited 5 s waits on.
NeverBreakLock(c) == FALSE /\ cpc[c] = "lock" /\ UNCHANGED vars

\* A caller that has waited 5 s removes the lock, whoever holds it.
BreakLock(c) ==
  /\ cpc[c] = "lock" /\ lock
  /\ lock' = FALSE
  /\ Unsafe(\E b \in Clients : cpc[b] \in Inside)
  /\ UNCHANGED <<config, reg, open, sock, cpc, seen, dpc, hb, faults, replaced>>

\* The `finally`: rmdir removes the lock even if it is another caller's by now.
Unlock(c) ==
  /\ cpc[c] \in {"unlock", "throw"}
  /\ lock' = FALSE
  /\ Goto(c, IF cpc[c] = "unlock" THEN "done" ELSE "failed")
  /\ UNCHANGED <<config, reg, open, sock, seen, dpc, hb, faults, calm,
                 replaced>>

-----------------------------------------------------------------------------
(* SIGTERM, and what is left of a daemon that ends *)

\* The default action ends a daemon that has no handlers yet; its socket file
\* stays.  A ready one runs its handler when its event loop gets to it.
Signalled(d) ==
  CASE dpc[d] \in Starting \cup {"listening"} -> "exited"
    [] dpc[d] = "ready" -> "signalled"
    [] OTHER -> dpc[d]

\* Variant: the renewal in flight outlives the process.
ExitKeepsRenewal(d) ==
  /\ DaemonGoto(d, "exited")
  /\ replaced' = replaced \ {d}
  /\ UNCHANGED <<hb, open>>

\* Of a process that is gone, a renewal in flight and its open file are gone.
Exit(d) ==
  /\ DaemonGoto(d, "exited")
  /\ hb' = [hb EXCEPT ![d] = "idle"]
  /\ open' = open \ {<<d, "daemon">>}
  /\ replaced' = replaced \ {d}


-----------------------------------------------------------------------------
(* A client inside the lock *)

ReadRegistration(c) ==
  /\ cpc[c] = "read"
  /\ seen' = [seen EXCEPT ![c] = reg]
  /\ Goto(c, IF reg = None THEN "spawn" ELSE "decide")
  /\ ReadsTorn
  /\ UNCHANGED <<config, files, dpc, hb, faults, replaced>>

\* terminateDaemonProcess: end the process, or leave it alone if its
\* configuration is another one.
Terminate(d, mayEnd) ==
  /\ IF mayEnd THEN DaemonGoto(d, Signalled(d)) ELSE UNCHANGED dpc
  /\ replaced' = IF Alive(d) /\ (mayEnd => Signalled(d) # "exited")
                   THEN replaced \cup {d} ELSE replaced

\* recoverStaleDaemon up to its first await.
Recover(c, mayEnd) ==
  /\ Terminate(seen[c].id, mayEnd)
  /\ Unsafe(~mayEnd /\ dpc[seen[c].id] \in Starting)
  /\ Goto(c, "disown")

Decide(c) ==
  LET same == config[seen[c].id] = config[c]
      fresh == seen[c].fresh
  IN
  /\ cpc[c] = "decide"
  /\ IF same /\ fresh /\ sock # None
       THEN Goto(c, "probe") /\ UNCHANGED <<dpc, replaced, calm>>
       ELSE Recover(c, ~fresh \/ (same /\ sock = None))
  /\ UNCHANGED <<config, files, seen, hb, faults>>

Probe(c) ==
  /\ cpc[c] = "probe"
  /\ IF Healthy
       THEN /\ Goto(c, "unlock") /\ seen' = [seen EXCEPT ![c] = None]
            /\ UNCHANGED <<dpc, replaced, calm>>
       ELSE Recover(c, TRUE) /\ UNCHANGED seen
  /\ UNCHANGED <<config, files, hb, faults>>

\* Variant: deleteIfOwned is given the caller's daemon and not the stale one.
DisownOwn(c) ==
  /\ cpc[c] = "disown"
  /\ Goto(c, IF Names(c) THEN "delete" ELSE "unlink")
  /\ ReadsTorn
  /\ UNCHANGED <<config, files, seen, dpc, hb, faults, replaced>>

\* deleteIfOwned reads the registration, and rm removes what is there by then.
Disown(c) ==
  /\ cpc[c] = "disown"
  /\ Goto(c, IF Names(seen[c].id) THEN "delete" ELSE "unlink")
  /\ ReadsTorn
  /\ UNCHANGED <<config, files, seen, dpc, hb, faults, replaced>>

Delete(c) ==
  /\ cpc[c] = "delete"
  /\ reg' = None /\ open' = {}
  /\ Goto(c, "unlink")
  /\ UNCHANGED <<config, lock, sock, seen, dpc, hb, faults, calm, replaced>>

\* safeRm(socketPath) asks nobody.  A client that has spawned its daemon
\* before it recovers is one whose startup has timed out.
Unlink(c) ==
  /\ cpc[c] = "unlink"
  /\ sock' = None
  /\ Goto(c, IF dpc[c] = "none" THEN "spawn" ELSE "throw")
  /\ seen' = [seen EXCEPT ![c] = None]
  /\ UNCHANGED <<config, lock, reg, open, dpc, hb, faults, calm, replaced>>

Spawn(c) ==
  /\ cpc[c] = "spawn"
  /\ DaemonGoto(c, "prepare")
  /\ Goto(c, "open")
  /\ UNCHANGED <<config, files, seen, hb, faults, calm, replaced>>

OpenRegistration(c) ==
  /\ cpc[c] = "open"
  /\ reg' = None /\ open' = open \cup {<<c, "client">>}
  /\ Goto(c, "write")
  /\ UNCHANGED <<config, lock, sock, seen, dpc, hb, faults, calm, replaced>>

\* What writer a has opened is written, unless the file was removed meanwhile.
Flush(a, d) ==
  /\ reg' = IF a \in open THEN [id |-> d, fresh |-> TRUE] ELSE reg
  /\ open' = open \ {a}

WriteRegistration(c) ==
  /\ cpc[c] = "write"
  /\ Flush(<<c, "client">>, c)
  /\ Goto(c, "wait")
  /\ UNCHANGED <<config, lock, sock, seen, dpc, hb, faults, calm, replaced>>

\* Any listener at the path will do; the registration read after that decides
\* only what is logged.
PollHealthy(c) ==
  /\ cpc[c] \in Waiting /\ Healthy
  /\ Goto(c, "unlock")
  /\ UNCHANGED <<config, files, seen, dpc, hb, faults, calm, replaced>>

\* The poll interval begins.  Polls that fail after the first change nothing.
PollFails(c) ==
  /\ cpc[c] = "wait" /\ ~Healthy
  /\ Goto(c, "pause")
  /\ UNCHANGED <<config, files, seen, dpc, hb, faults, calm, replaced>>

\* The startup timeout ends the loop after an interval, without another poll.
\* It is a fault if there is a daemon that comes up or has come up since, and
\* no more than time passing if none can answer any more.
PollTimeout(c) ==
  /\ cpc[c] = "pause"
  /\ IF dpc[c] \in Starting \/ Healthy
       THEN Fault
       ELSE UNCHANGED faults
  /\ Terminate(c, TRUE)
  /\ seen' = [seen EXCEPT ![c] = [id |-> c, fresh |-> TRUE]]
  /\ Goto(c, "disown")
  /\ UNCHANGED <<config, files, hb, calm>>

-----------------------------------------------------------------------------
(* A daemon *)

\* prepareSocketPathForBind.
\* Variant: the registration of the daemon itself counts as another one's.
PrepareUnnamed(d) ==
  /\ dpc[d] = "prepare"
  /\ DaemonGoto(d, IF reg = None THEN "bind"
                   ELSE IF ~reg.fresh THEN "rmSocket" ELSE "exited")
  /\ ReadsTorn
  /\ UNCHANGED <<config, files, cpc, seen, hb, faults, replaced>>

Prepare(d) ==
  /\ dpc[d] = "prepare"
  /\ DaemonGoto(d, IF reg = None THEN "bind"
                   ELSE IF Names(d) \/ ~reg.fresh THEN "rmSocket" ELSE "exited")
  /\ ReadsTorn
  /\ UNCHANGED <<config, files, cpc, seen, hb, faults, replaced>>

RmSocket(d) ==
  /\ dpc[d] = "rmSocket"
  /\ sock' = None
  /\ DaemonGoto(d, "bind")
  /\ UNCHANGED <<config, lock, reg, open, cpc, seen, hb, faults, calm,
                 replaced>>

\* listen fails on any file at the path, and the daemon ends.
Bind(d) ==
  /\ dpc[d] = "bind"
  /\ sock' = IF sock = None THEN d ELSE sock
  /\ DaemonGoto(d, IF sock = None THEN "listening" ELSE "exited")
  /\ UNCHANGED <<config, lock, reg, open, cpc, seen, hb, faults, calm,
                 replaced>>

\* Startup recovery is over; the heartbeat and the handlers are in place.
Ready(d) ==
  /\ dpc[d] = "listening"
  /\ DaemonGoto(d, "ready")
  /\ UNCHANGED <<config, files, cpc, seen, hb, faults, calm, replaced>>

\* The first heartbeat comes 10 s after the daemon is ready: the client that
\* spawned it has written the registration by then, or has died.
Settled(d) == cpc[d] \notin {"open", "write"}

\* Variant: a daemon that has lost the registration lives on.
RenewOrIgnore(d) ==
  /\ dpc[d] = "ready" /\ hb[d] = "idle" /\ Settled(d)
  /\ hb' = [hb EXCEPT ![d] = IF Names(d) THEN "open" ELSE "idle"]
  /\ ReadsTorn
  /\ UNCHANGED <<config, files, cpc, seen, dpc, faults, replaced>>

\* renewLease: a daemon that the registration does not name ends itself.
RenewRead(d) ==
  /\ dpc[d] = "ready" /\ hb[d] = "idle" /\ Settled(d)
  /\ IF Names(d)
       THEN hb' = [hb EXCEPT ![d] = "open"] /\ UNCHANGED dpc
       ELSE DaemonGoto(d, "signalled") /\ UNCHANGED hb
  /\ ReadsTorn
  /\ UNCHANGED <<config, files, cpc, seen, faults, replaced>>

\* The renewal goes on after heartbeat.stop(), until the process exits.
RenewOpen(d) ==
  /\ hb[d] = "open"
  /\ reg' = None /\ open' = open \cup {<<d, "daemon">>}
  /\ Unsafe(~Names(d))
  /\ hb' = [hb EXCEPT ![d] = "write"]
  /\ UNCHANGED <<config, lock, sock, cpc, seen, dpc, faults, replaced>>

RenewWrite(d) ==
  /\ hb[d] = "write"
  /\ Flush(<<d, "daemon">>, d)
  /\ hb' = [hb EXCEPT ![d] = "idle"]
  /\ UNCHANGED <<config, lock, sock, cpc, seen, dpc, faults, calm, replaced>>

\* shutdown: closing the server unlinks the path it was bound to, whichever
\* daemon has bound a file there since.
Close(d) ==
  /\ dpc[d] = "signalled"
  /\ sock' = None
  /\ Unsafe(sock \notin {None, d} /\ Alive(sock))
  /\ DaemonGoto(d, "closing")
  /\ UNCHANGED <<config, lock, reg, open, cpc, seen, hb, faults, replaced>>

\* cleanupRuntimeArtifacts: if it is still the owner, deleteIfOwned and rm.
CleanupRead(d) ==
  /\ dpc[d] \in {"closing", "owner"}
  /\ ReadsTorn
  /\ CASE Names(d) ->
            /\ DaemonGoto(d, IF dpc[d] = "closing" THEN "owner" ELSE "erase")
            /\ UNCHANGED <<hb, open, replaced>>
       [] dpc[d] = "owner" /\ ~Names(d) ->
            DaemonGoto(d, "rmOwn") /\ UNCHANGED <<hb, open, replaced>>
       [] OTHER -> Exit(d)
  /\ UNCHANGED <<config, lock, reg, sock, cpc, seen, faults>>

\* Both steps remove what they find: a client that has found the socket gone
\* may have put a successor there since.
CleanupErase(d) ==
  /\ dpc[d] = "erase"
  /\ reg' = None /\ open' = {}
  /\ Unsafe((reg # None /\ ~Names(d)) \/ open \ {<<d, "daemon">>} # {})
  /\ DaemonGoto(d, "rmOwn")
  /\ UNCHANGED <<config, lock, sock, cpc, seen, hb, faults, replaced>>

CleanupRm(d) ==
  /\ dpc[d] = "rmOwn"
  /\ sock' = None
  /\ Unsafe(sock \notin {None, d} /\ Alive(sock))
  /\ Exit(d)
  /\ UNCHANGED <<config, lock, reg, cpc, seen, faults>>

-----------------------------------------------------------------------------
(* Faults *)

\* No heartbeat for the length of the lease.  Of a daemon that is gone that is
\* the course of things.
Lapse ==
  /\ reg # None /\ reg.fresh
  /\ reg' = [reg EXCEPT !.fresh = FALSE]
  /\ IF Alive(reg.id) THEN Fault ELSE UNCHANGED faults
  /\ Unsafe(Alive(reg.id))
  /\ UNCHANGED <<config, lock, open, sock, cpc, seen, dpc, hb, replaced>>

\* A daemon dies, or its startup fails: its files stay.
DaemonCrash(d) ==
  /\ Alive(d) /\ Fault
  /\ Exit(d)
  /\ UNCHANGED <<config, lock, reg, sock, cpc, seen, calm>>

\* SIGINT or SIGTERM from outside, to a daemon that handles it.  One that has no
\* handlers yet dies of it, as in DaemonCrash.
Signal(d) ==
  /\ dpc[d] = "ready" /\ Fault
  /\ DaemonGoto(d, "signalled")
  /\ UNCHANGED <<config, files, cpc, seen, hb, calm, replaced>>

\* The MCP server is ended by its host; a daemon it has spawned is detached.
ClientCrash(c) ==
  /\ cpc[c] \in Inside /\ Fault
  /\ Goto(c, "dead")
  /\ seen' = [seen EXCEPT ![c] = None]
  /\ open' = open \ {<<c, "client">>}
  /\ Unsafe(cpc[c] \in {"open", "write"})
  /\ UNCHANGED <<config, lock, reg, sock, dpc, hb, replaced>>

ClientStep(c) ==
  \/ Acquire(c) \/ BreakLock(c) \/ Unlock(c)
  \/ ReadRegistration(c) \/ Decide(c) \/ Probe(c)
  \/ Disown(c) \/ Delete(c) \/ Unlink(c)
  \/ Spawn(c) \/ OpenRegistration(c) \/ WriteRegistration(c)
  \/ PollHealthy(c) \/ PollFails(c) \/ PollTimeout(c)

RenewalStep(d) == RenewOpen(d) \/ RenewWrite(d)
DaemonStep(d) ==
  \/ Prepare(d) \/ RmSocket(d) \/ Bind(d) \/ Ready(d) \/ RenewRead(d)
  \/ Close(d) \/ CleanupRead(d) \/ CleanupErase(d) \/ CleanupRm(d)

Next ==
  \/ \E c \in Clients : Call(c) \/ ClientStep(c) \/ ClientCrash(c)
  \/ \E d \in Clients : DaemonStep(d) \/ RenewalStep(d)
                          \/ DaemonCrash(d) \/ Signal(d)
  \/ Lapse

Spec == Init /\ [][Next]_vars

\* Files and event loops make progress, and renewals, of some milliseconds in
\* ten seconds, do not overlap in an unbroken chain.  Nothing is assumed of
\* calls and faults.
Fairness ==
  /\ []<>(\A d \in Clients : hb[d] = "idle")
  /\ \A c \in Clients : WF_vars(ClientStep(c))
  /\ \A d \in Clients : WF_vars(DaemonStep(d)) /\ WF_vars(RenewalStep(d))
FairSpec == Spec /\ Fairness

-----------------------------------------------------------------------------
(* Properties *)

\* Outside the unsafe windows a project has one daemon that can serve, however
\* many clients ask at once and however earlier daemons and clients ended.  Only
\* one that a client has recovered from (of another configuration, as a rule, or
\* up only when its own client gave it up) may still be there beside it.
OneDaemon ==
  calm => \A d, e \in Clients \ replaced : Answers(d) /\ Answers(e) => d = e

\* Outside the unsafe windows the daemon that the registration names, once it
\* is ready, is the one a client reaches at the socket path.
NamedIsReachable ==
  calm => \A d \in Clients : Names(d) /\ dpc[d] = "ready" => sock = d

\* A call that meets neither a fault nor an unsafe window gets a daemon: no
\* other client or daemon makes its startup time out.
CalmCallsSucceed ==
  calm /\ faults = 0 => \A c \in Clients : cpc[c] # "failed"

\* ensureDaemonRunning returns or throws, also after the caller that held the
\* startup lock has died with it.  (A client calls once, so no call is under way
\* for ever if again and again there is none.)
CallsReturn == []<>(\A c \in Clients : cpc[c] \in Ended \cup {"idle"})

\* Whatever went wrong, again and again no daemon lives but the registered one:
\* one that was replaced, or whose registration was lost, does not stay.
OthersEnd == []<>(\A d \in Clients : Alive(d) => Names(d))

\* A daemon that is ready, registered and within its lease keeps its socket:
\* no other process removes it, as long as the startup lock excludes and the
\* registration is read whole.
OwnerKeepsSocket ==
  [][\A d \in Clients :
       /\ sock = d /\ dpc[d] = "ready" /\ reg = [id |-> d, fresh |-> TRUE]
       /\ calm /\ dpc'[d] = "ready"
       => sock' = d]_vars
=============================================================================
