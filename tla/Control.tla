------------------------------ MODULE Control ------------------------------
(***************************************************************************)
(* What the server knows of one client id.  The record of the client is in *)
(* the registry's memory and, whole, in a row of its table; heartbeats,    *)
(* registrations, tunnels, the background checker and the web UI change it *)
(* in the server, each operation under the registry's lock, and every run  *)
(* of the command line on the server's host opens a registry of its own on *)
(* the same table.                                                         *)
(*                                                                         *)
(* The id is used by the daemons of some machines, and by backups started  *)
(* on their command lines, which send heartbeats of their own.  Records of *)
(* different ids have nothing in common but the lock and the connection,   *)
(* so there is one.  Times are abstracted to whether the client was last   *)
(* heard of within the offline threshold.                                  *)
(***************************************************************************)
EXTENDS Naturals, FiniteSets

CONSTANTS
  Machine,
  Source,    \* senders of heartbeats
  Host,      \* the machine of each
  Cli,       \* those that are a backup on the command line, not a daemon
  Tunneled,  \* machines behind NAT: the server reaches them by a tunnel
  Family,    \* the operating system family of each machine
  MaxMoves,  \* how often something happens that nobody has to do
  MaxFailed, \* how often a save fails
  None

ASSUME ControlAssumption ==
  /\ Host \in [Source -> Machine]
  /\ Cli \subseteq Source /\ Tunneled \subseteq Machine
  /\ MaxMoves \in Nat /\ MaxFailed \in Nat /\ None \notin Machine

VARIABLES
  up,         \* the server runs
  reg,        \* the record in memory, or None
  row,        \* its row, or None
  checker,    \* the background goroutine: between two steps of its ticks, or past the
              \* query of refreshDisabledFlags, when it has the registry's only
              \* connection and still needs the lock
  flag,       \* the flag it has read, or None
  stuck,      \* an operation has the lock and waits for that connection, while the
              \* background goroutine waits for the lock
  tool,       \* a command line on the server's host
  on,         \* sources that run
  ping,       \* what each source's heartbeat, or its handler, is at
  load,       \* the state of the client it carries
  joined,     \* sources whose loop has registered
  tunnel,     \* what the server's handler of a machine's tunnel is at
  watching,   \* machines whose daemon's watcher runs
  backing,    \* machines whose daemon's backup engine runs
  signal,     \* machines with a file "backing_up" left by a command line
  heard,      \* machines that have reached the server within the threshold
  wanted,     \* whether an administrator last asked for the client to be disabled
  clobbered,  \* a flag was overwritten by one that was read before or whose save had failed
  outdated,   \* the row of an active client is one from when it was not: a command line
              \* wrote it back, or the save that was to replace it failed
  failed,     \* saves that failed
  killed,     \* a backup on a command line was killed
  moves

serverVars == <<up, reg, row, checker, flag, stuck>>
clientVars == <<on, watching, backing, signal, killed>>
heartVars == <<ping, load, joined>>
marks == <<clobbered, outdated, failed>>
adminVars == <<tool, wanted, marks>>
vars == <<serverVars, clientVars, heartVars, adminVars, tunnel, heard, moves>>

Status == {"online", "offline", "backing_up"}
Address == Machine \cup {"tunnel"}
AddressOf(m) == IF m \in Tunneled THEN "tunnel" ELSE m

Row == [status : Status, fresh : BOOLEAN, watcher : BOOLEAN, disabled : BOOLEAN,
        machine : Machine \cup {None}, address : Address]
Record == [status : Status, fresh : BOOLEAN, watcher : BOOLEAN, disabled : BOOLEAN,
           machine : Machine \cup {None}, address : Address, backup : BOOLEAN]
Load == [watcher : BOOLEAN, backup : BOOLEAN]

ASSUME NoneAssumption == None \notin Row \cup Record

\* What a command line is at: it has read the row, or written it back, and will
\* set the flag to "asks" unless that is None.
Tool == [copy : Row, written : BOOLEAN, asks : BOOLEAN \cup {None}]

Steps == {"idle", "join", "heart", "watch", "backup", "register"}

TypeOK ==
  /\ up \in BOOLEAN /\ stuck \in BOOLEAN
  /\ checker \in {"tick", "apply"}
  /\ reg \in Record \cup {None} /\ row \in Row \cup {None}
  /\ flag \in BOOLEAN \cup {None}
  /\ tool \in Tool \cup {None}
  /\ on \in SUBSET Source /\ joined \in SUBSET Source
  /\ ping \in [Source -> Steps] /\ load \in [Source -> Load]
  /\ tunnel \in [Machine -> {"none", "new", "open"}]
  /\ watching \in SUBSET Machine /\ backing \in SUBSET Machine
  /\ signal \in SUBSET Machine /\ heard \in SUBSET Machine
  /\ wanted \in BOOLEAN /\ clobbered \in BOOLEAN /\ outdated \in BOOLEAN /\ killed \in BOOLEAN
  /\ moves \in 0..MaxMoves /\ failed \in 0..MaxFailed

Nothing == [watcher |-> FALSE, backup |-> FALSE]

\* The server starts on a new table, or on one with the row of a client it has not
\* heard of for long.
OldRow(m) ==
  [status |-> "offline", fresh |-> FALSE, watcher |-> FALSE, disabled |-> FALSE,
   machine |-> m, address |-> IF m = None THEN "tunnel" ELSE AddressOf(m)]

Init ==
  /\ up = FALSE /\ reg = None
  /\ row \in {None} \cup {OldRow(m) : m \in Machine \cup {None}}
  /\ checker = "tick" /\ flag = None /\ stuck = FALSE
  /\ tool = None
  /\ on = {} /\ joined = {}
  /\ tunnel = [m \in Machine |-> "none"]
  /\ ping = [s \in Source |-> "idle"]
  /\ load = [s \in Source |-> Nothing]
  /\ watching = {} /\ backing = {} /\ signal = {} /\ heard = {}
  /\ wanted = FALSE /\ clobbered = FALSE /\ outdated = FALSE /\ killed = FALSE
  /\ moves = 0 /\ failed = 0

\* Something that may happen or not, at most MaxMoves times.
Move == moves < MaxMoves /\ moves' = moves + 1

-----------------------------------------------------------------------------
(* The registry. *)

\* persistClientLocked: every column but the backup flag, which has none.
Saved(r) == [status |-> r.status, fresh |-> r.fresh, watcher |-> r.watcher,
             disabled |-> r.disabled, machine |-> r.machine, address |-> r.address]

Alive(r) == r.status # "offline" /\ r.fresh

\* A client without a row is one that is enabled.
Overwrites(r) == r.disabled # (row # None /\ row.disabled)

\* An active client's row gives way to one of when it was not, or stays such a one.
Outdates(r) == Alive(row) /\ ~Alive(r)
StaysOutdated(r) == Alive(r) /\ row # None /\ ~Alive(row)

Fails == failed < MaxFailed /\ failed' = failed + 1

\* An operation that changes the record to r and saves it, all under the lock; "own"
\* says that it is about the disabled flag.  The save waits for the connection, and if
\* the refresh has that, for ever.  It may fail, which leaves the change in memory.
Persist(r, own) ==
  /\ up /\ ~stuck
  /\ \/ /\ checker = "apply"
        /\ stuck' = TRUE
        /\ UNCHANGED <<reg, row, marks>>
     \/ /\ checker # "apply"
        /\ reg' = r
        /\ \/ /\ row' = Saved(r)
              /\ clobbered' = (clobbered \/ (~own /\ Overwrites(r)))
              /\ outdated' = (outdated /\ ~Alive(r))
              /\ UNCHANGED failed
           \/ /\ Fails
              /\ outdated' = (outdated \/ StaysOutdated(r))
              /\ UNCHANGED <<row, clobbered>>
        /\ UNCHANGED stuck
  /\ UNCHANGED <<up, flag>>

\* The caller of an operation is told that it succeeded.
Succeeded == ~stuck' /\ failed' = failed

Known == reg # None
Active == Known /\ Alive(reg)

\* Heartbeat.
Heartbeat ==
  Persist([reg EXCEPT !.fresh = TRUE, !.status = IF @ = "backing_up" THEN @ ELSE "online"], FALSE)

SetWatcherActive(b) == Persist([reg EXCEPT !.watcher = b], FALSE)

\* mutant: the end of a backup is not shown
SetBackupSticky(b) ==
  Persist([reg EXCEPT !.backup = b, !.status = IF b THEN "backing_up" ELSE @], FALSE)

SetBackupActive(b) ==
  Persist([reg EXCEPT !.backup = b,
             !.status = IF b THEN "backing_up" ELSE IF @ = "backing_up" THEN "online" ELSE @], FALSE)

SetDisabled(b) == Persist([reg EXCEPT !.disabled = b], TRUE)

\* checkOfflineClients.
Overdue == Known /\ reg.status # "offline" /\ ~reg.fresh

-----------------------------------------------------------------------------
(* The background goroutine.  A tick does checkOfflineClients and then            *)
(* refreshDisabledFlags; that they alternate is left open.                        *)

clientSide == <<clientVars, heartVars, tool, wanted, tunnel, heard, moves>>

CheckOffline ==
  /\ checker = "tick" /\ Overdue
  /\ Persist([reg EXCEPT !.status = "offline", !.backup = FALSE, !.watcher = FALSE], FALSE)
  /\ UNCHANGED <<checker, clientSide>>

\* refreshDisabledFlags: the query takes the connection and does not give it back
\* before the flags are in memory, for which it needs the lock.
QueryFlags ==
  /\ up /\ checker = "tick"
  /\ checker' = "apply"
  /\ flag' = IF row = None THEN None ELSE row.disabled
  /\ UNCHANGED <<up, reg, row, stuck, marks, clientSide>>

\* mutant: the flags are read and forgotten
ForgetFlags ==
  /\ checker = "apply" /\ ~stuck
  /\ checker' = "tick" /\ flag' = None
  /\ UNCHANGED <<up, reg, row, stuck, marks, clientSide>>

ApplyFlags ==
  /\ checker = "apply" /\ ~stuck
  /\ checker' = "tick" /\ flag' = None
  /\ reg' = IF Known /\ flag # None THEN [reg EXCEPT !.disabled = flag] ELSE reg
  /\ UNCHANGED <<up, row, stuck, marks, clientSide>>

-----------------------------------------------------------------------------
(* The server and its administrators. *)

\* loadClients: only "online" is corrected, and what it read is written back.
Loaded(r) == [r EXCEPT !.status = IF @ = "online" /\ ~r.fresh THEN "offline" ELSE @]

Restored(r) ==
  [status |-> r.status, fresh |-> r.fresh, watcher |-> r.watcher, disabled |-> r.disabled,
   machine |-> r.machine, address |-> r.address, backup |-> FALSE]

\* The handlers and the tunnels go with the process.
ServerStops ==
  /\ up /\ Move
  /\ up' = FALSE /\ reg' = None /\ stuck' = FALSE /\ checker' = "tick" /\ flag' = None
  /\ ping' = [s \in Source |-> IF ping[s] = "join" THEN "join" ELSE "idle"]
  /\ load' = [s \in Source |-> Nothing]
  /\ tunnel' = [m \in Machine |-> "none"]
  /\ UNCHANGED <<row, clientVars, joined, adminVars, heard>>

ServerStarts ==
  /\ ~up
  /\ up' = TRUE
  /\ reg' = IF row = None THEN None ELSE Restored(Loaded(row))
  /\ \/ row' = (IF row = None THEN None ELSE Loaded(row)) /\ UNCHANGED failed
     \/ row # None /\ Fails /\ UNCHANGED row
  /\ UNCHANGED <<checker, flag, stuck, clobbered, outdated, clientSide>>

\* In the web UI.
WebSetDisabled(b) ==
  /\ Known /\ Move
  /\ SetDisabled(b)
  /\ wanted' = IF Succeeded THEN b ELSE wanted
  /\ UNCHANGED <<checker, clientVars, heartVars, tool, tunnel, heard>>

handleAPIClientDisable == WebSetDisabled(TRUE)
handleAPIClientEnable == WebSetDisabled(FALSE)

\* A command line opens the registry, which reads the row ...
ToolOpens(b) ==
  /\ tool = None /\ row # None /\ Move
  /\ tool' = [copy |-> Loaded(row), written |-> FALSE, asks |-> b]
  /\ UNCHANGED <<serverVars, clientVars, heartVars, wanted, marks, tunnel, heard>>

\* ... and writes it back, or fails to, of which nobody is told.
ToolWrites ==
  /\ tool # None /\ ~tool.written
  /\ tool' = [tool EXCEPT !.written = TRUE]
  /\ \/ /\ row' = tool.copy
        /\ clobbered' = (clobbered \/ row.disabled # tool.copy.disabled)
        /\ outdated' = (outdated \/ Outdates(tool.copy))
        /\ UNCHANGED failed
     \/ Fails /\ UNCHANGED <<row, clobbered, outdated>>
  /\ UNCHANGED <<up, reg, checker, flag, stuck, clientVars, heartVars, wanted, tunnel, heard,
                 moves>>

\* runClientSetDisabled writes the whole row once more; other commands only read.
ToolEnds ==
  /\ tool # None /\ tool.written
  /\ tool' = None
  /\ \/ /\ tool.asks = None
        /\ UNCHANGED <<row, outdated, wanted, failed>>
     \/ /\ tool.asks # None
        /\ row' = [tool.copy EXCEPT !.disabled = tool.asks]
        /\ outdated' = (outdated \/ Outdates(tool.copy))
        /\ wanted' = tool.asks
        /\ UNCHANGED failed
     \/ /\ tool.asks # None
        /\ Fails /\ UNCHANGED <<row, outdated, wanted>>
  /\ UNCHANGED <<up, reg, checker, flag, stuck, clientVars, heartVars, clobbered, tunnel, heard,
                 moves>>

\* What a recovering machine is told of the client's status.
ListRecoverableClients == IF Known THEN reg.status ELSE "offline"

\* RebindClient: without force not while the client is active, and never to another
\* family.
RebindClient(m, force) ==
  /\ Known
  /\ force \/ ~Active
  /\ reg.machine # None => Family[reg.machine] = Family[m]
  /\ Persist([reg EXCEPT !.machine = m, !.address = m, !.status = "online", !.fresh = TRUE], FALSE)

\* "tergum recover" on machine m, which wants to be forced if the client is online.
Recover(m, force) ==
  /\ Move
  /\ force \/ ListRecoverableClients # "online"
  /\ RebindClient(m, force)
  /\ heard' = IF stuck' THEN heard ELSE heard \cup {m}
  /\ UNCHANGED <<checker, clientVars, heartVars, tool, wanted, tunnel>>

-----------------------------------------------------------------------------
(* The machines. *)

Daemon(m) == \E s \in on \ Cli : Host[s] = m /\ ping[s] # "join"

clientQuiet == <<serverVars, adminVars, load, tunnel, heard>>

\* startClient registers with the machine's identity before its loop starts.
StartDaemon(s) ==
  /\ s \notin on \cup Cli /\ ping[s] = "idle" /\ Move
  /\ on' = on \cup {s}
  /\ ping' = [ping EXCEPT ![s] = "join"]
  /\ watching' = watching \cup {Host[s]}
  /\ UNCHANGED <<clientQuiet, joined, backing, signal, killed>>

StopDaemon(s) ==
  /\ s \in on \ Cli /\ Move
  /\ on' = on \ {s}
  /\ joined' = joined \ {s}
  /\ ping' = [ping EXCEPT ![s] = IF @ = "join" THEN "idle" ELSE @]
  /\ watching' = watching \ {Host[s]} /\ backing' = backing \ {Host[s]}
  /\ UNCHANGED <<clientQuiet, signal, killed>>

\* "tergum backup": the file, and a heartbeat of its own.
StartBackup(s) ==
  /\ s \in Cli \ on /\ ping[s] = "idle" /\ Move
  /\ on' = on \cup {s}
  /\ signal' = signal \cup {Host[s]}
  /\ UNCHANGED <<clientQuiet, joined, ping, watching, backing, killed>>

EndBackup(s) ==
  /\ s \in Cli \cap on
  /\ on' = on \ {s}
  /\ joined' = joined \ {s}
  /\ signal' = signal \ {Host[s]}
  /\ UNCHANGED <<clientQuiet, ping, watching, backing, killed, moves>>

KillBackup(s) ==
  /\ s \in Cli \cap on /\ Move
  /\ on' = on \ {s}
  /\ joined' = joined \ {s}
  /\ killed' = TRUE
  /\ UNCHANGED <<clientQuiet, ping, watching, backing, signal>>

\* The daemon's watcher and engine, whoever starts and stops them.
ToggleWatcher(m) ==
  /\ Daemon(m) /\ Move
  /\ watching' = IF m \in watching THEN watching \ {m} ELSE watching \cup {m}
  /\ UNCHANGED <<clientQuiet, ping, joined, on, backing, signal, killed>>

EngineStarts(m) ==
  /\ Daemon(m) /\ m \notin backing /\ Move
  /\ backing' = backing \cup {m}
  /\ UNCHANGED <<clientQuiet, ping, joined, on, watching, signal, killed>>

EngineEnds(m) ==
  /\ m \in backing
  /\ backing' = backing \ {m}
  /\ UNCHANGED <<clientQuiet, ping, joined, on, watching, signal, killed, moves>>

\* The offline threshold passes without a word from anybody: by itself if nobody
\* is there, otherwise because the network is down that long.
TimePasses ==
  /\ heard # {} \/ (reg # None /\ reg.fresh) \/ (row # None /\ row.fresh)
  /\ \A s \in Source : ping[s] = "idle"
  /\ (on = {} /\ UNCHANGED moves) \/ (on # {} /\ Move)
  /\ heard' = {}
  /\ reg' = IF reg = None THEN None ELSE [reg EXCEPT !.fresh = FALSE]
  /\ row' = IF row = None THEN None ELSE [row EXCEPT !.fresh = FALSE]
  /\ tool' = IF tool = None THEN None ELSE [tool EXCEPT !.copy.fresh = FALSE]
  /\ UNCHANGED <<up, checker, flag, stuck, clientVars, heartVars, wanted, marks, tunnel>>

-----------------------------------------------------------------------------
(* Registration, heartbeats and tunnels. *)

At(s, p) == ping' = [ping EXCEPT ![s] = p]

\* Every locked operation of a handler: it goes on to p unless it is stuck; on a
\* client that is not known it fails, which the handlers ignore.
Handle(s, op, p) ==
  /\ (Known /\ op) \/ (~Known /\ up /\ UNCHANGED <<serverVars, marks>>)
  /\ At(s, IF stuck' THEN ping[s] ELSE p)

\* mutant: the guard is missing
RefusedNever(m) == FALSE

\* The guard of RegisterWithIdentity: the id is not given to another machine while
\* the client is active.
Refused(m) == Active /\ reg.machine \notin {None, m}

RegisterAs(m, a) ==
  Persist(IF Known
          THEN [reg EXCEPT !.address = a, !.status = "online", !.fresh = TRUE,
                           !.machine = IF m = None THEN @ ELSE m]
          ELSE [status |-> "online", fresh |-> TRUE, watcher |-> FALSE, disabled |-> FALSE,
                machine |-> m, address |-> a, backup |-> FALSE], FALSE)

\* The daemon's first registration; nothing comes of a refusal or a failure but a
\* line in the log.
Join(s) ==
  LET m == Host[s]
  IN  /\ ping[s] = "join"
      /\ \/ /\ ~up \/ Refused(m)
            /\ At(s, "idle")
            /\ UNCHANGED <<serverVars, marks, heard>>
         \/ /\ up /\ ~Refused(m)
            /\ RegisterAs(m, AddressOf(m))
            /\ At(s, IF stuck' THEN "join" ELSE "idle")
            /\ heard' = IF stuck' THEN heard ELSE heard \cup {m}
      /\ UNCHANGED <<checker, clientVars, load, joined, tool, wanted, tunnel, moves>>

LoadOf(s) ==
  [watcher |-> s \notin Cli /\ Host[s] \in watching,
   backup |-> s \in Cli \/ Host[s] \in backing \cup signal]

\* The source reads its state and calls Ping, which looks whether the client is
\* disabled.
Ping(s) ==
  /\ s \in on /\ ping[s] = "idle" /\ up /\ ~stuck
  /\ \/ /\ Known /\ reg.disabled
        /\ At(s, IF s \in joined THEN "idle" ELSE "register")
        /\ UNCHANGED load
     \/ /\ ~(Known /\ reg.disabled)
        /\ At(s, "heart")
        /\ load' = [load EXCEPT ![s] = LoadOf(s)]
  /\ UNCHANGED <<serverVars, clientVars, joined, adminVars, tunnel, heard, moves>>

\* Then one locked operation after the other.
Beat(s) ==
  /\ ping[s] = "heart"
  /\ Handle(s, Heartbeat, "watch")
  /\ heard' = IF Known /\ ~stuck' THEN heard \cup {Host[s]} ELSE heard
  /\ UNCHANGED <<checker, clientVars, load, joined, tool, wanted, tunnel, moves>>

BeatWatcher(s) ==
  /\ ping[s] = "watch"
  /\ Handle(s, SetWatcherActive(load[s].watcher), "backup")
  /\ UNCHANGED <<checker, clientVars, load, joined, tool, wanted, tunnel, heard, moves>>

BeatBackup(s) ==
  /\ ping[s] = "backup"
  /\ Handle(s, SetBackupActive(load[s].backup), IF s \in joined \/ s \notin on THEN "idle" ELSE "register")
  /\ load' = IF stuck' THEN load ELSE [load EXCEPT ![s] = Nothing]
  /\ UNCHANGED <<checker, clientVars, joined, tool, wanted, tunnel, heard, moves>>

\* After its first ping the loop registers, without the machine's identity, and after
\* the next one again if that fails.
BeatRegister(s) ==
  /\ ping[s] = "register" /\ up
  /\ \/ /\ s \in on
        /\ RegisterAs(None, IF s \in Cli THEN Host[s] ELSE AddressOf(Host[s]))
        /\ joined' = IF Succeeded THEN joined \cup {s} ELSE joined
        /\ At(s, IF stuck' THEN "register" ELSE "idle")
     \/ /\ s \notin on
        /\ At(s, "idle")
        /\ UNCHANGED <<serverVars, marks, joined>>
  /\ UNCHANGED <<checker, clientVars, load, tool, wanted, tunnel, heard, moves>>

\* CommandTunnel registers the client, asks it for its state after a while, and
\* when the stream has ended takes the watcher for stopped.
TunnelOpens(m) ==
  /\ m \in Tunneled /\ Daemon(m) /\ tunnel[m] = "none"
  /\ RegisterAs(None, "tunnel")
  /\ tunnel' = IF stuck' THEN tunnel ELSE [tunnel EXCEPT ![m] = "new"]
  /\ UNCHANGED <<checker, clientVars, heartVars, tool, wanted, heard, moves>>

TunnelSyncs(m) ==
  /\ tunnel[m] = "new" /\ Known /\ Daemon(m)
  /\ SetWatcherActive(m \in watching)
  /\ tunnel' = IF stuck' THEN tunnel ELSE [tunnel EXCEPT ![m] = "open"]
  /\ UNCHANGED <<checker, clientVars, heartVars, tool, wanted, heard, moves>>

TunnelEnds(m) ==
  /\ tunnel[m] # "none" /\ Known
  /\ (~Daemon(m) /\ UNCHANGED moves) \/ (Daemon(m) /\ Move)
  /\ SetWatcherActive(FALSE)
  /\ tunnel' = IF stuck' THEN tunnel ELSE [tunnel EXCEPT ![m] = "none"]
  /\ UNCHANGED <<checker, clientVars, heartVars, tool, wanted, heard>>

-----------------------------------------------------------------------------
Tick == CheckOffline \/ QueryFlags \/ ApplyFlags

Admin ==
  \/ ToolWrites \/ ToolEnds
  \/ handleAPIClientDisable \/ handleAPIClientEnable
  \/ \E b \in BOOLEAN \cup {None} : ToolOpens(b)
  \/ \E m \in Machine, force \in BOOLEAN : Recover(m, force)

Handler(s) == Join(s) \/ Beat(s) \/ BeatWatcher(s) \/ BeatBackup(s) \/ BeatRegister(s)

Client(s) == StartDaemon(s) \/ StopDaemon(s) \/ StartBackup(s) \/ EndBackup(s) \/ KillBackup(s)

OnMachine(m) ==
  \/ ToggleWatcher(m) \/ EngineStarts(m) \/ EngineEnds(m)
  \/ TunnelOpens(m) \/ TunnelSyncs(m) \/ TunnelEnds(m)

\* A server that is stuck can only be stopped; what the machines do until then it
\* does not see.
Next ==
  \/ ServerStops \/ ServerStarts
  \/ /\ ~stuck
     /\ \/ Tick \/ Admin \/ TimePasses
        \/ \E s \in Source : Handler(s) \/ Ping(s) \/ Client(s)
        \/ \E m \in Machine : OnMachine(m)

\* The server's ticker ticks and its handlers go on; heartbeat loops ping for as
\* long as they run; time passes; a stopped server is started again; backups and
\* command lines end.  Tunnels of daemons that are gone end.
Fairness ==
  /\ SF_vars(CheckOffline) /\ WF_vars(QueryFlags) /\ WF_vars(ApplyFlags) /\ WF_vars(ServerStarts) /\ WF_vars(~stuck /\ TimePasses)
  /\ WF_vars(~stuck /\ (ToolWrites \/ ToolEnds))
  /\ \A s \in Source : /\ WF_vars(~stuck /\ Handler(s)) /\ WF_vars(Ping(s))
                       /\ WF_vars(~stuck /\ EndBackup(s))
  /\ \A m \in Machine : /\ WF_vars(~stuck /\ EngineEnds(m)) /\ WF_vars(TunnelSyncs(m))
                        /\ WF_vars(~Daemon(m) /\ TunnelEnds(m))

Spec == Init /\ [][Next]_vars /\ Fairness

-----------------------------------------------------------------------------
(* Properties. *)

\* A machine that has the id in a running server keeps it as long as somebody was heard
\* of within the threshold, unless it is forced out or the client's row is one from when
\* it was not active, which a command line wrote back or a failed save left: whatever
\* heartbeats, registrations and failures there are, and restarts in between.
OwnerKeepsId ==
  [][ /\ reg # None /\ reg' # None /\ heard # {} /\ reg.machine # None /\ reg'.machine # reg.machine
      => outdated \/ \E m \in Machine : Recover(m, TRUE) ]_vars

\* When nothing is done any more, the registry comes to show what is the case: if
\* a single daemon is left, its watcher and whether a backup runs; if nobody is,
\* that the client is offline.  (A backup killed on the command line leaves a file
\* that is taken for a running backup.)
ShowsTruth ==
  up /\ ~stuck /\ Known /\ ~reg.disabled =>
    /\ on = {} => reg.status = "offline" /\ ~reg.backup
    /\ \A s \in Source \ Cli : on = {s} =>
         /\ reg.watcher = (Host[s] \in watching)
         /\ killed \/ reg.status = IF Host[s] \in backing THEN "backing_up" ELSE "online"

StatusSettles == <>[]ShowsTruth

\* What an administrator last asked for is what the server comes to do, from the
\* web UI or by way of the table, unless a flag that was read earlier, or that a failed
\* request left in memory, was written over it.  (A client no save succeeded for has no
\* row to go by.)
DisableSettles ==
  <>[](up /\ ~stuck /\ Known /\ row # None /\ ~clobbered => reg.disabled = wanted)

\* A client nobody hears of is marked offline.  It does not hold: the background
\* goroutine and a handler may wait for each other for ever.
SilentGoesOffline ==
  on = {} ~> (on # {} \/ ~up \/ ~Known \/ reg.status = "offline")

=============================================================================
