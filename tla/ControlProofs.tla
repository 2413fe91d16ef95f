---------------------------- MODULE ControlProofs ----------------------------
(***************************************************************************)
(* Proofs about Control, for any machines, sources of heartbeats and       *)
(* number of moves.                                                        *)
(***************************************************************************)
EXTENDS Control, TLAPS

Types ==
  /\ reg \in Record \cup {None} /\ row \in Row \cup {None}
  /\ flag \in BOOLEAN \cup {None} /\ tool \in Tool \cup {None}
  /\ load \in [Source -> Load] /\ failed \in 0..MaxFailed

\* As long as the client was heard of, it counts as active in memory and in the
\* table, unless a command line has put an older row in its place or the save of the
\* one in memory failed.
Lively ==
  heard # {} /\ ~outdated => /\ row # None => Alive(row)
                             /\ reg # None => Alive(reg)

\* A command line has a row to work on.
HasRow == tool # None => row # None

\* A server that is down has no records in memory.
Empty == ~up => reg = None

Inv == Types /\ Lively /\ HasRow /\ Empty

-----------------------------------------------------------------------------
(* The registry's operations. *)

\* The record a client first gets, and the row a record is saved as, are of their kind.
LEMMA SavedType ==
  ASSUME NEW r \in Record
  PROVE  Saved(r) \in Row /\ Saved(r) # None /\ (Alive(Saved(r)) <=> Alive(r))
  BY NoneAssumption DEF Saved, Row, Record, Alive

\* Reading a row makes the same of it, in memory and for a command line, and an
\* active client stays one.
LEMMA LoadedType ==
  ASSUME NEW r \in Row
  PROVE  /\ Loaded(r) \in Row /\ (Alive(r) => Alive(Loaded(r)))
         /\ Restored(r) \in Record /\ (Alive(r) => Alive(Restored(r)))
<1>1. Loaded(r) \in Row
  BY DEF Loaded, Row, Status
<1>2. Alive(r) => Alive(Loaded(r))
  BY DEF Loaded, Row, Alive
<1>3. Restored(r) \in Record /\ (Alive(r) => Alive(Restored(r)))
  BY DEF Restored, Row, Record, Alive
<1> QED
  BY <1>1, <1>2, <1>3

\* The records that the operations on a known client make of one.
Beaten(r) == [r EXCEPT !.fresh = TRUE, !.status = IF @ = "backing_up" THEN @ ELSE "online"]
Watched(r, b) == [r EXCEPT !.watcher = b]
Disabled(r, b) == [r EXCEPT !.disabled = b]
BackedUp(r, b) ==
  [r EXCEPT !.backup = b,
     !.status = IF b THEN "backing_up" ELSE IF @ = "backing_up" THEN "online" ELSE @]
Silent(r) == [r EXCEPT !.status = "offline", !.backup = FALSE, !.watcher = FALSE]
Rebound(r, m) == [r EXCEPT !.machine = m, !.address = m, !.status = "online", !.fresh = TRUE]

\* They are records; none but the checker's ends a client's activity, and none but
\* the rebind gives its id away.
LEMMA BeatenType ==
  ASSUME NEW r \in Record
  PROVE  Beaten(r) \in Record /\ Alive(Beaten(r)) /\ Beaten(r).machine = r.machine
  BY DEF Beaten, Record, Status, Alive

\* The watcher flag.
LEMMA WatchedType ==
  ASSUME NEW r \in Record, NEW b \in BOOLEAN
  PROVE  Watched(r, b) \in Record /\ (Alive(r) => Alive(Watched(r, b))) /\ Watched(r, b).machine = r.machine
  BY DEF Watched, Record, Alive

\* The disabled flag.
LEMMA DisabledType ==
  ASSUME NEW r \in Record, NEW b \in BOOLEAN
  PROVE  Disabled(r, b) \in Record /\ (Alive(r) => Alive(Disabled(r, b))) /\ Disabled(r, b).machine = r.machine
  BY DEF Disabled, Record, Alive

\* The backup flag.
LEMMA BackedUpType ==
  ASSUME NEW r \in Record, NEW b \in BOOLEAN
  PROVE  BackedUp(r, b) \in Record /\ (Alive(r) => Alive(BackedUp(r, b))) /\ BackedUp(r, b).machine = r.machine
  BY DEF BackedUp, Record, Status, Alive

\* The offline check.
LEMMA SilentType ==
  ASSUME NEW r \in Record
  PROVE  Silent(r) \in Record /\ Silent(r).machine = r.machine
  BY DEF Silent, Record, Status

\* The rebind.
LEMMA ReboundType ==
  ASSUME NEW r \in Record, NEW m \in Machine
  PROVE  Rebound(r, m) \in Record /\ Alive(Rebound(r, m))
  BY DEF Rebound, Record, Status, Address, Alive

\* What a registration makes of the record.
LEMMA RegisteredType ==
  ASSUME Types, NEW m \in Machine \cup {None}, NEW a \in Address
  PROVE  LET n == IF Known
                  THEN [reg EXCEPT !.address = a, !.status = "online", !.fresh = TRUE,
                                   !.machine = IF m = None THEN @ ELSE m]
                  ELSE [status |-> "online", fresh |-> TRUE, watcher |-> FALSE, disabled |-> FALSE,
                        machine |-> m, address |-> a, backup |-> FALSE]
         IN  n \in Record /\ Alive(n) /\ (Known => n.machine = IF m = None THEN reg.machine ELSE m)
<1>1. CASE Known
  <2>1. reg \in Record
    BY <1>1 DEF Known, Types
  <2> QED
    BY <1>1, <2>1 DEF Record, Status, Alive
<1>2. CASE ~Known
  BY <1>2 DEF Record, Status, Alive
<1> QED
  BY <1>1, <1>2

\* Failures are counted.
LEMMA FailsCounts == Types /\ Fails => failed' \in 0..MaxFailed /\ failed' # failed
  BY ControlAssumption DEF Types, Fails

\* Saving a record keeps the invariant if the record is that of an active client
\* where the client was heard of.
LEMMA PersistInv ==
  ASSUME Inv, NEW r \in Record, NEW own, Persist(r, own), UNCHANGED tool, load' \in [Source -> Load],
         stuck' => heard' = heard,
         heard' # {} /\ ~outdated => Alive(r) \/ (heard' = heard /\ Known /\ (Alive(reg) => Alive(r)))
  PROVE  Inv'
<1>1. CASE UNCHANGED <<reg, row, flag, outdated, failed>> /\ stuck'
  BY <1>1 DEF Persist, Inv, Types, Lively, HasRow, Empty
<1>2. heard' # {} /\ ~outdated => Alive(r)
  BY DEF Inv, Lively, Known
<1>3. CASE reg' = r /\ row' = Saved(r) /\ outdated' = (outdated /\ ~Alive(r)) /\ UNCHANGED <<flag, failed>>
  <2>1. row' \in Row /\ row' # None /\ (Alive(row') <=> Alive(r))
    BY <1>3, SavedType
  <2>2. Lively'
    BY <1>2, <1>3, <2>1 DEF Lively
  <2>3. Types' /\ HasRow' /\ Empty'
    BY <1>3, <2>1 DEF Inv, Types, HasRow, Empty, Persist
  <2> QED
    BY <2>2, <2>3 DEF Inv
<1>4. CASE reg' = r /\ outdated' = (outdated \/ StaysOutdated(r)) /\ Fails /\ UNCHANGED <<row, flag>>
  <2>1. Lively'
    BY <1>2, <1>4 DEF Lively, StaysOutdated
  <2>2. Types' /\ HasRow' /\ Empty'
    BY <1>4, FailsCounts DEF Inv, Types, HasRow, Empty, Persist
  <2> QED
    BY <2>1, <2>2 DEF Inv
<1> QED
  BY <1>1, <1>3, <1>4 DEF Persist, marks

\* What becomes of a record that is saved.
LEMMA PersistRecord ==
  ASSUME NEW r, NEW own, Persist(r, own)
  PROVE  reg' = reg \/ reg' = r
  BY DEF Persist

\* Nothing of it changes.
LEMMA QuietInv ==
  ASSUME Inv, UNCHANGED <<up, reg, row, flag, tool, heard, marks>>, load' \in [Source -> Load]
  PROVE  Inv'
  BY DEF Inv, Types, Lively, HasRow, Empty, marks

-----------------------------------------------------------------------------
\* The invariant holds initially.
LEMMA InitInv == Init => Inv
<1> SUFFICES ASSUME Init PROVE Inv
  OBVIOUS
<1>1. \A m \in Machine \cup {None} : OldRow(m) \in Row
  BY DEF OldRow, Row, Status, Address, AddressOf
<1>2. row \in Row \cup {None}
  BY <1>1 DEF Init
<1> QED
  BY <1>2, ControlAssumption DEF Init, Inv, Types, Lively, HasRow, Empty, Nothing, Load

\* The background goroutine, the server and its administrators.
LEMMA ServerInv ==
  ASSUME Inv, Tick \/ ServerStops \/ ServerStarts \/ Admin \/ TimePasses
  PROVE  Inv'
<1> USE DEF Inv
<1>1. CASE CheckOffline
  <2>1. Known /\ reg \in Record /\ ~Alive(reg) /\ UNCHANGED <<tool, load, heard>>
    BY <1>1 DEF CheckOffline, Overdue, Known, Types, Alive, clientSide, marks, heartVars, Persist
  <2> QED
    BY <1>1, <2>1, SilentType, PersistInv DEF CheckOffline, Silent, Types
<1>2. CASE QueryFlags
  BY <1>2 DEF QueryFlags, Types, Lively, HasRow, Empty, Row, clientSide, heartVars, marks
<1>3. CASE ApplyFlags
  <2>1. reg # None /\ flag # None =>
          Disabled(reg, flag) \in Record /\ (Alive(reg) => Alive(Disabled(reg, flag)))
    BY DisabledType DEF Types
  <2> QED
    BY <1>3, <2>1 DEF ApplyFlags, Disabled, Types, Lively, HasRow, Empty, Known, clientSide, heartVars, marks
<1>4. CASE ServerStops
  BY <1>4 DEF ServerStops, Types, Lively, HasRow, Empty, Nothing, Load, adminVars, marks
<1>5. CASE ServerStarts
  <2>1. CASE row = None
    BY <1>5, <2>1 DEF ServerStarts, Types, Lively, HasRow, Empty, clientSide, heartVars, marks
  <2>2. CASE row # None
    <3>1. row \in Row /\ (row' = Loaded(row) \/ row' = row) /\ reg' = Restored(Loaded(row))
      BY <1>5, <2>2 DEF ServerStarts, Types
    <3>2. row' \in Row /\ (Alive(row) => Alive(row')) /\ row' # None
      BY <3>1, LoadedType, NoneAssumption
    <3>3. reg' \in Record /\ (Alive(row) => Alive(reg'))
      BY <3>1, LoadedType
    <3> QED
      BY <1>5, <2>2, <3>2, <3>3, FailsCounts DEF ServerStarts, Types, Lively, HasRow, Empty, clientSide, heartVars, marks
  <2> QED
    BY <2>1, <2>2
<1>6. ASSUME NEW b \in BOOLEAN, WebSetDisabled(b) PROVE Inv'
  <2>1. reg \in Record /\ Known /\ UNCHANGED <<tool, load, heard>>
    BY <1>6 DEF WebSetDisabled, Known, Types, heartVars
  <2>2. Disabled(reg, b) \in Record /\ (Alive(reg) => Alive(Disabled(reg, b))) /\ Persist(Disabled(reg, b), TRUE)
    BY <1>6, <2>1, DisabledType DEF WebSetDisabled, SetDisabled, Disabled
  <2> QED
    BY <2>1, <2>2, PersistInv DEF Types
<1>7. ASSUME NEW b \in BOOLEAN \cup {None}, ToolOpens(b) PROVE Inv'
  <2>1. Loaded(row) \in Row /\ row # None
    BY <1>7, LoadedType DEF ToolOpens, Types
  <2> QED
    BY <1>7, <2>1 DEF ToolOpens, Types, Lively, HasRow, Empty, Tool, serverVars, heartVars, marks
<1>8. CASE ToolWrites
  <2>1. tool \in Tool /\ row # None /\ row' \in {row, tool.copy} /\ tool' = [tool EXCEPT !.written = TRUE]
    BY <1>8 DEF ToolWrites, Types, HasRow
  <2>2. tool' \in Tool /\ row' \in Row /\ row' # None
    BY <2>1, NoneAssumption DEF Tool, Types
  <2>3. ~outdated' => ~outdated /\ (Alive(row) => Alive(row'))
    BY <1>8, <2>1 DEF ToolWrites, Outdates
  <2> QED
    BY <1>8, <2>1, <2>2, <2>3, FailsCounts DEF ToolWrites, Types, Lively, HasRow, Empty, heartVars
<1>9. CASE ToolEnds
  <2>1. tool' = None /\ failed' \in 0..MaxFailed /\ UNCHANGED <<up, reg, flag, load, heard>>
    BY <1>9, FailsCounts DEF ToolEnds, Types, heartVars
  <2>2. CASE UNCHANGED <<row, outdated>>
    BY <2>1, <2>2 DEF Types, Lively, HasRow, Empty
  <2>3. CASE /\ tool.asks # None /\ row' = [tool.copy EXCEPT !.disabled = tool.asks]
             /\ outdated' = (outdated \/ Outdates(tool.copy))
    <3>1. tool \in Tool /\ row # None
      BY <1>9 DEF ToolEnds, Types, HasRow
    <3>2. tool.copy \in Row /\ tool.asks \in BOOLEAN
      BY <2>3, <3>1 DEF Tool
    <3>3. row' \in Row /\ (Alive(tool.copy) => Alive(row'))
      BY <2>3, <3>2 DEF Row, Alive
    <3>4. ~outdated' => ~outdated /\ (Alive(row) => Alive(row'))
      BY <2>3, <3>3 DEF Outdates
    <3>5. row' # None
      BY <3>3, NoneAssumption
    <3> QED
      BY <2>1, <3>1, <3>3, <3>4, <3>5 DEF Types, Lively, HasRow, Empty
  <2> QED
    BY <1>9, <2>2, <2>3 DEF ToolEnds
<1>10. ASSUME NEW m \in Machine, NEW force \in BOOLEAN, Recover(m, force) PROVE Inv'
  <2>1. /\ Known /\ reg \in Record /\ UNCHANGED <<tool, load>> /\ (stuck' => heard' = heard)
        /\ Persist([reg EXCEPT !.machine = m, !.address = m, !.status = "online", !.fresh = TRUE], FALSE)
    BY <1>10 DEF Recover, RebindClient, Known, Types, heartVars
  <2>2. Rebound(reg, m) \in Record /\ Alive(Rebound(reg, m)) /\ Persist(Rebound(reg, m), FALSE)
    BY <2>1, ReboundType DEF Rebound
  <2> QED
    BY <2>1, <2>2, PersistInv DEF Types
<1>11. CASE TimePasses
  <2>1. reg # None => [reg EXCEPT !.fresh = FALSE] \in Record
    BY DEF Types, Record
  <2>2. row # None => [row EXCEPT !.fresh = FALSE] \in Row
    BY DEF Types, Row
  <2>3. tool # None => [tool EXCEPT !.copy.fresh = FALSE] \in Tool
    BY DEF Types, Tool, Row
  <2>4. row # None => row' # None
    BY <1>11, <2>2, NoneAssumption DEF TimePasses
  <2> QED
    BY <1>11, <2>1, <2>2, <2>3, <2>4 DEF TimePasses, Types, Lively, HasRow, Empty, heartVars, marks
<1> QED
  BY <1>1, <1>2, <1>3, <1>4, <1>5, <1>6, <1>7, <1>8, <1>9, <1>10, <1>11
     DEF Tick, Admin, handleAPIClientDisable, handleAPIClientEnable

\* Registrations, heartbeats and tunnels.
LEMMA HandlerInv ==
  ASSUME Inv, NEW s \in Source, Handler(s) \/ Ping(s) \/ Client(s)
  PROVE  Inv'
<1> USE DEF Inv
<1>1. Host[s] \in Machine /\ AddressOf(Host[s]) \in Address /\ Host[s] \in Address
  BY ControlAssumption DEF AddressOf, Address
<1>2. ASSUME NEW m \in Machine \cup {None}, NEW a \in Address, RegisterAs(m, a),
             UNCHANGED <<tool, load>>, stuck' => heard' = heard
      PROVE  Inv'
  BY <1>2, RegisteredType, PersistInv DEF RegisterAs, Types
<1>3. CASE Join(s)
  <2>1. UNCHANGED <<tool, load>>
    BY <1>3 DEF Join
  <2>2. CASE UNCHANGED <<serverVars, marks, heard>>
    BY <2>1, <2>2, QuietInv DEF serverVars, marks, Types
  <2>3. CASE RegisterAs(Host[s], AddressOf(Host[s])) /\ heard' = IF stuck' THEN heard ELSE heard \cup {Host[s]}
    BY <1>1, <1>2, <2>1, <2>3
  <2> QED
    BY <1>3, <2>2, <2>3 DEF Join
<1>4. CASE Beat(s)
  <2>1. UNCHANGED <<tool, load>> /\ heard' = IF Known /\ ~stuck' THEN heard \cup {Host[s]} ELSE heard
    BY <1>4 DEF Beat
  <2>2. CASE UNCHANGED <<serverVars, marks>> /\ ~Known
    BY <2>1, <2>2, QuietInv DEF serverVars, marks, Types
  <2>3. CASE Known /\ Heartbeat
    <3>1. reg \in Record
      BY <2>3 DEF Known, Types
    <3>2. Beaten(reg) \in Record /\ Alive(Beaten(reg)) /\ Persist(Beaten(reg), FALSE)
      BY <2>3, <3>1, BeatenType DEF Heartbeat, Beaten
    <3> QED
      BY <2>1, <3>2, PersistInv DEF Types
  <2> QED
    BY <1>4, <2>2, <2>3 DEF Beat, Handle
<1>5. CASE BeatWatcher(s)
  <2>1. UNCHANGED <<tool, load, heard>> /\ load[s].watcher \in BOOLEAN
    BY <1>5 DEF BeatWatcher, Types, Load
  <2>2. CASE UNCHANGED <<serverVars, marks>>
    BY <2>1, <2>2, QuietInv DEF serverVars, marks, Types
  <2>3. CASE Known /\ SetWatcherActive(load[s].watcher)
    <3>1. reg \in Record
      BY <2>3 DEF Known, Types
    <3> DEFINE r == Watched(reg, load[s].watcher)
    <3>2. r \in Record /\ (Alive(reg) => Alive(r)) /\ Persist(r, FALSE)
      BY <2>1, <2>3, <3>1, WatchedType DEF SetWatcherActive, Watched
    <3> QED
      BY <2>1, <2>3, <3>2, PersistInv DEF Types
  <2> QED
    BY <1>5, <2>2, <2>3 DEF BeatWatcher, Handle
<1>6. CASE BeatBackup(s)
  <2>1. UNCHANGED <<tool, heard>> /\ load[s].backup \in BOOLEAN /\ load' \in [Source -> Load]
    BY <1>6 DEF BeatBackup, Types, Load, Nothing
  <2>2. CASE UNCHANGED <<serverVars, marks>>
    BY <2>1, <2>2, QuietInv DEF serverVars, marks
  <2>3. CASE Known /\ SetBackupActive(load[s].backup)
    <3>1. reg \in Record
      BY <2>3 DEF Known, Types
    <3> DEFINE r == BackedUp(reg, load[s].backup)
    <3>2. r \in Record /\ (Alive(reg) => Alive(r)) /\ Persist(r, FALSE)
      BY <2>1, <2>3, <3>1, BackedUpType DEF SetBackupActive, BackedUp
    <3> QED
      BY <2>1, <2>3, <3>2, PersistInv
  <2> QED
    BY <1>6, <2>2, <2>3 DEF BeatBackup, Handle
<1>7. CASE BeatRegister(s)
  <2>1. UNCHANGED <<tool, load, heard>>
    BY <1>7 DEF BeatRegister
  <2>2. CASE UNCHANGED <<serverVars, marks>>
    BY <2>1, <2>2, QuietInv DEF serverVars, marks, Types
  <2>3. ASSUME NEW a \in Address, RegisterAs(None, a) PROVE Inv'
    BY <1>2, <2>1, <2>3
  <2> QED
    BY <1>1, <1>7, <2>2, <2>3 DEF BeatRegister
<1>8. CASE Ping(s)
  <2>1. LoadOf(s) \in Load
    BY DEF LoadOf, Load
  <2>2. UNCHANGED <<serverVars, marks, tool, heard>> /\ load' \in [Source -> Load]
    BY <1>8, <2>1 DEF Ping, Types, adminVars
  <2> QED
    BY <2>2, QuietInv DEF serverVars, marks
<1>9. CASE Client(s)
  <2>1. UNCHANGED <<serverVars, marks, tool, heard, load>>
    BY <1>9 DEF Client, StartDaemon, StopDaemon, StartBackup, EndBackup, KillBackup, clientQuiet, adminVars
  <2> QED
    BY <2>1, QuietInv DEF serverVars, marks, Types
<1> QED
  BY <1>3, <1>4, <1>5, <1>6, <1>7, <1>8, <1>9 DEF Handler

\* What a machine does by itself, and its tunnel.
LEMMA MachineInv ==
  ASSUME Inv, NEW m \in Machine, OnMachine(m)
  PROVE  Inv'
<1> USE DEF Inv
<1>1. CASE ToggleWatcher(m) \/ EngineStarts(m) \/ EngineEnds(m)
  <2>1. UNCHANGED <<serverVars, marks, tool, heard, load>>
    BY <1>1 DEF ToggleWatcher, EngineStarts, EngineEnds, clientQuiet, adminVars
  <2> QED
    BY <2>1, QuietInv DEF serverVars, marks, Types
<1>2. CASE TunnelOpens(m)
  <2>1. UNCHANGED <<tool, load, heard>> /\ "tunnel" \in Address
    BY <1>2 DEF TunnelOpens, heartVars, Address
  <2> QED
    BY <1>2, <2>1, RegisteredType, PersistInv DEF TunnelOpens, RegisterAs, Types
<1>3. ASSUME NEW b \in BOOLEAN, SetWatcherActive(b), Known, UNCHANGED <<tool, load, heard>>
      PROVE  Inv'
  <2>1. reg \in Record
    BY <1>3 DEF Known, Types
  <2>2. Watched(reg, b) \in Record /\ (Alive(reg) => Alive(Watched(reg, b))) /\ Persist(Watched(reg, b), FALSE)
    BY <1>3, <2>1, WatchedType DEF SetWatcherActive, Watched
  <2> QED
    BY <1>3, <2>2, PersistInv DEF Types
<1>4. CASE TunnelSyncs(m)
  <2> DEFINE b == m \in watching
  <2>1. b \in BOOLEAN /\ SetWatcherActive(b) /\ Known /\ UNCHANGED <<tool, load, heard>>
    BY <1>4 DEF TunnelSyncs, heartVars
  <2> HIDE DEF b
  <2> QED
    BY <1>3, <2>1
<1>5. CASE TunnelEnds(m)
  BY <1>3, <1>5 DEF TunnelEnds, heartVars
<1> QED
  BY <1>1, <1>2, <1>4, <1>5 DEF OnMachine

\* Every step keeps it.
LEMMA NextInv == Inv /\ [Next]_vars => Inv'
<1> SUFFICES ASSUME Inv, [Next]_vars PROVE Inv'
  OBVIOUS
<1>1. CASE UNCHANGED vars
  BY <1>1, QuietInv DEF vars, serverVars, heartVars, adminVars, marks, Inv, Types
<1>2. CASE Next
  BY <1>2, ServerInv, HandlerInv, MachineInv DEF Next
<1> QED
  BY <1>1, <1>2

\* It holds always.
LEMMA Invariant == Spec => []Inv
  BY InitInv, NextInv, PTL DEF Spec

-----------------------------------------------------------------------------
(* The id. *)

\* Who gets the id of an active client: its owner, the one it is given to by force,
\* or, if it has none, anybody.
LEMMA OwnerStep ==
  ASSUME Inv, Next, reg # None, reg' # None, heard # {}, reg.machine # None, ~outdated
  PROVE  reg'.machine = reg.machine \/ \E m \in Machine : Recover(m, TRUE)
<1> DEFINE Goal == reg'.machine = reg.machine \/ \E m \in Machine : Recover(m, TRUE)
<1> SUFFICES Goal
  OBVIOUS
<1>1. reg \in Record /\ Known /\ Active /\ up
  BY DEF Inv, Types, Lively, Empty, Known, Active
<1>2. CASE reg' = reg
  BY <1>2
<1>3. ASSUME NEW r, NEW own, Persist(r, own), r.machine = reg.machine PROVE Goal
  BY <1>2, <1>3, PersistRecord
<1>4. ASSUME NEW m \in Machine \cup {None}, NEW a, RegisterAs(m, a), m \in {None, reg.machine} PROVE Goal
  <2> DEFINE n == [reg EXCEPT !.address = a, !.status = "online", !.fresh = TRUE,
                              !.machine = IF m = None THEN @ ELSE m]
  <2>1. n.machine = reg.machine
    BY <1>1, <1>4 DEF Record
  <2>2. Persist(n, FALSE)
    BY <1>1, <1>4 DEF RegisterAs
  <2> HIDE DEF n
  <2> QED
    BY <1>3, <2>1, <2>2
<1>5. ASSUME NEW b \in BOOLEAN, SetWatcherActive(b) \/ SetBackupActive(b) \/ SetDisabled(b)
      PROVE  Goal
  <2>1. CASE SetWatcherActive(b)
    BY <1>1, <1>3, <2>1, WatchedType DEF SetWatcherActive, Watched
  <2>2. CASE SetBackupActive(b)
    BY <1>1, <1>3, <2>2, BackedUpType DEF SetBackupActive, BackedUp
  <2>3. CASE SetDisabled(b)
    BY <1>1, <1>3, <2>3, DisabledType DEF SetDisabled, Disabled
  <2> QED
    BY <1>5, <2>1, <2>2, <2>3
<1>6. CASE Heartbeat
  BY <1>1, <1>3, <1>6, BeatenType DEF Heartbeat, Beaten
<1>7. CASE Tick
  <2>1. CASE CheckOffline
    BY <1>1, <1>3, <2>1, SilentType DEF CheckOffline, Silent
  <2>2. CASE QueryFlags
    BY <1>2, <2>2 DEF QueryFlags
  <2>3. CASE ApplyFlags
    <3>1. flag # None => flag \in BOOLEAN
      BY DEF Inv, Types
    <3>2. reg' = reg \/ (flag # None /\ reg' = Disabled(reg, flag))
      BY <2>3 DEF ApplyFlags, Disabled
    <3> QED
      BY <1>1, <3>1, <3>2, DisabledType
  <2> QED
    BY <1>7, <2>1, <2>2, <2>3 DEF Tick
<1>8. CASE ServerStops \/ ServerStarts
  BY <1>1, <1>8 DEF ServerStops, ServerStarts
<1>9. CASE TimePasses
  <2>1. reg' = [reg EXCEPT !.fresh = FALSE]
    BY <1>9 DEF TimePasses
  <2> QED
    BY <1>1, <2>1 DEF Record
<1>10. CASE Admin
  <2>1. ASSUME NEW b \in BOOLEAN, WebSetDisabled(b) PROVE Goal
    BY <1>5, <2>1 DEF WebSetDisabled
  <2>2. CASE ToolWrites \/ ToolEnds \/ \E b \in BOOLEAN \cup {None} : ToolOpens(b)
    BY <1>2, <2>2 DEF ToolWrites, ToolEnds, ToolOpens, serverVars
  <2>3. ASSUME NEW m \in Machine, Recover(m, FALSE) PROVE Goal
    BY <1>1, <2>3 DEF Recover, RebindClient
  <2> HIDE DEF Goal
  <2>4. ASSUME NEW m \in Machine, Recover(m, TRUE) PROVE Goal
    BY <2>4 DEF Goal
  <2> QED
    BY <1>10, <2>1, <2>2, <2>3, <2>4 DEF Admin, handleAPIClientDisable, handleAPIClientEnable
<1> HIDE DEF Goal
<1>11. ASSUME NEW s \in Source, Handler(s) \/ Ping(s) \/ Client(s) PROVE Goal
  <2>1. Host[s] \in Machine
    BY ControlAssumption
  <2>2. CASE UNCHANGED serverVars
    BY <1>2, <2>2 DEF serverVars
  <2>3. CASE Join(s)
    <3>1. ~Refused(Host[s]) => Host[s] = reg.machine
      BY <1>1 DEF Refused
    <3> QED
      BY <1>4, <2>1, <2>2, <2>3, <3>1 DEF Join, serverVars
  <2>4. CASE Beat(s)
    BY <1>6, <2>2, <2>4 DEF Beat, Handle
  <2>5. CASE BeatWatcher(s) \/ BeatBackup(s)
    <3>1. load[s].watcher \in BOOLEAN /\ load[s].backup \in BOOLEAN
      BY DEF Inv, Types, Load
    <3> QED
      BY <1>5, <2>2, <2>5, <3>1 DEF BeatWatcher, BeatBackup, Handle
  <2>6. CASE BeatRegister(s)
    BY <1>4, <2>2, <2>6 DEF BeatRegister
  <2>7. CASE Ping(s) \/ Client(s)
    BY <2>2, <2>7 DEF Ping, Client, StartDaemon, StopDaemon, StartBackup, EndBackup, KillBackup, clientQuiet
  <2> QED
    BY <1>11, <2>3, <2>4, <2>5, <2>6, <2>7 DEF Handler
<1>12. ASSUME NEW m \in Machine, OnMachine(m) PROVE Goal
  <2>1. CASE ToggleWatcher(m) \/ EngineStarts(m) \/ EngineEnds(m)
    BY <1>2, <2>1 DEF ToggleWatcher, EngineStarts, EngineEnds, clientQuiet, serverVars
  <2>2. CASE TunnelOpens(m)
    BY <1>4, <2>2 DEF TunnelOpens
  <2>3. CASE TunnelEnds(m)
    BY <1>5, <2>3 DEF TunnelEnds
  <2>4. CASE TunnelSyncs(m)
    <3> DEFINE b == m \in watching
    <3>1. b \in BOOLEAN /\ SetWatcherActive(b)
      BY <2>4 DEF TunnelSyncs
    <3> HIDE DEF b
    <3> QED
      BY <1>5, <3>1
  <2> QED
    BY <1>12, <2>1, <2>2, <2>3, <2>4 DEF OnMachine
<1> QED
  BY <1>7, <1>8, <1>9, <1>10, <1>11, <1>12 DEF Next

\* An id does not change hands while its client is active, except by force or where the
\* client's row is one from when it was not: whoever's saves fail.
THEOREM OwnersKeep == Spec => OwnerKeepsId
<1>1. Inv /\ [Next]_vars =>
        [ /\ reg # None /\ reg' # None /\ heard # {} /\ reg.machine # None /\ reg'.machine # reg.machine
          => outdated \/ \E m \in Machine : Recover(m, TRUE) ]_vars
  BY OwnerStep
<1> QED
  BY <1>1, Invariant, PTL DEF Spec, OwnerKeepsId

-----------------------------------------------------------------------------
(* The disabled flag. *)

\* What an administrator last asked for is what the client's row says, unless a flag
\* that was read earlier, or that a failed request left in memory, was written over it:
\* so the next refresh, or the next start of the server, brings it to memory.  This is
\* the part of DisableSettles that needs no fairness.
LastWordStored == row # None /\ ~clobbered => row.disabled = wanted

\* A row has its record while the server runs; nobody can have disabled a client that
\* has no row.
Told ==
  /\ wanted \in BOOLEAN
  /\ up /\ reg = None => row = None
  /\ row = None => ~wanted
  /\ LastWordStored

\* An operation that is not about the flag saves it as it is in memory, or fails.  Where
\* that is not what the row says, a flag is written over.
LEMMA PersistTold ==
  ASSUME Inv, Told, NEW r \in Record, Persist(r, FALSE), UNCHANGED wanted
  PROVE  Told'
<1>1. CASE UNCHANGED <<up, reg, row, clobbered>>
  BY <1>1 DEF Told, LastWordStored
<1>2. r # None
  BY NoneAssumption
<1>3. CASE reg' = r /\ row' = Saved(r) /\ up /\ clobbered' = (clobbered \/ Overwrites(r))
  <2>1. row' # None /\ row'.disabled = r.disabled /\ r.disabled \in BOOLEAN
    BY <1>3, SavedType DEF Saved, Record
  <2>2. ~clobbered' => ~clobbered /\ r.disabled = (row # None /\ row.disabled)
    BY <1>3 DEF Overwrites
  <2>3. ~clobbered' => row'.disabled = wanted'
    <3>1. CASE row = None
      BY <2>1, <2>2, <3>1 DEF Told
    <3>2. CASE row # None
      BY <2>1, <2>2, <3>2 DEF Told, LastWordStored
    <3> QED
      BY <3>1, <3>2
  <2> QED
    BY <1>2, <1>3, <2>1, <2>3 DEF Told, LastWordStored
<1>4. CASE reg' = r /\ UNCHANGED <<row, clobbered>>
  BY <1>2, <1>4 DEF Told, LastWordStored
<1> QED
  BY <1>1, <1>3, <1>4 DEF Persist, marks

\* Nothing of it changes.
LEMMA QuietTold ==
  ASSUME Told, UNCHANGED <<up, reg, row, wanted, clobbered>>
  PROVE  Told'
  BY DEF Told, LastWordStored

\* The background goroutine, the server and its administrators.
LEMMA ServerTold ==
  ASSUME Inv, Told, Tick \/ ServerStops \/ ServerStarts \/ Admin \/ TimePasses
  PROVE  Told'
<1>1. CASE CheckOffline
  <2>1. Known /\ reg \in Record /\ UNCHANGED wanted
    BY <1>1 DEF CheckOffline, Overdue, Known, Inv, Types, clientSide
  <2>2. Silent(reg) \in Record /\ Silent(reg).disabled = reg.disabled /\ Persist(Silent(reg), FALSE)
    BY <1>1, <2>1, SilentType DEF CheckOffline, Silent, Record
  <2> QED
    BY <2>1, <2>2, PersistTold
<1>2. CASE QueryFlags
  BY <1>2, QuietTold DEF QueryFlags, clientSide, marks
<1>3. CASE ApplyFlags
  <2>1. UNCHANGED <<up, row, wanted, clobbered>>
    BY <1>3 DEF ApplyFlags, clientSide, marks
  <2>2. reg' = None <=> reg = None
    BY <1>3, DisabledType, NoneAssumption DEF ApplyFlags, Disabled, Known, Inv, Types
  <2> QED
    BY <2>1, <2>2 DEF Told, LastWordStored
<1>4. CASE ServerStops
  BY <1>4 DEF ServerStops, Told, LastWordStored, adminVars, marks
<1>5. CASE ServerStarts
  <2>1. CASE row = None
    BY <1>5, <2>1 DEF ServerStarts, Told, LastWordStored, clientSide
  <2>2. CASE row # None
    <3>1. /\ row \in Row /\ (row' = Loaded(row) \/ row' = row) /\ reg' = Restored(Loaded(row))
          /\ UNCHANGED <<wanted, clobbered>>
      BY <1>5, <2>2 DEF ServerStarts, Inv, Types, clientSide
    <3>2. row' # None /\ reg' # None /\ row'.disabled = row.disabled
      BY <3>1, LoadedType, NoneAssumption DEF Loaded, Row
    <3> QED
      BY <2>2, <3>1, <3>2 DEF Told, LastWordStored
  <2> QED
    BY <2>1, <2>2
<1>6. ASSUME NEW b \in BOOLEAN, WebSetDisabled(b) PROVE Told'
  <2>1. Known /\ reg \in Record /\ Persist(Disabled(reg, b), TRUE) /\ wanted' = IF Succeeded THEN b ELSE wanted
    BY <1>6 DEF WebSetDisabled, SetDisabled, Disabled, Known, Inv, Types
  <2>2. Disabled(reg, b) \in Record /\ Disabled(reg, b).disabled = b /\ Disabled(reg, b) # None
    BY <2>1, DisabledType, NoneAssumption DEF Disabled, Record
  <2>3. CASE stuck' /\ UNCHANGED <<reg, row, clobbered>>
    BY <2>1, <2>3, QuietTold DEF Persist, Succeeded
  <2>4. CASE Succeeded /\ reg' = Disabled(reg, b) /\ row' = Saved(Disabled(reg, b))
    <3>1. row' # None /\ row'.disabled = b
      BY <2>2, <2>4, SavedType DEF Saved
    <3> QED
      BY <2>1, <2>2, <2>4, <3>1 DEF Told, LastWordStored
  <2>5. CASE Fails /\ reg' = Disabled(reg, b) /\ UNCHANGED <<row, clobbered>>
    <3>1. wanted' = wanted
      BY <2>1, <2>5, FailsCounts DEF Succeeded, Inv
    <3> QED
      BY <2>1, <2>2, <2>5, <3>1 DEF Told, LastWordStored
  <2> QED
    BY <2>1, <2>3, <2>4, <2>5 DEF Persist, Succeeded, marks
<1>7. ASSUME NEW b \in BOOLEAN \cup {None}, ToolOpens(b) PROVE Told'
  BY <1>7, QuietTold DEF ToolOpens, serverVars, marks
<1>8. CASE ToolWrites
  <2>1. tool \in Tool /\ row # None /\ row' \in {row, tool.copy} /\ UNCHANGED <<up, reg, wanted>>
    BY <1>8 DEF ToolWrites, Inv, Types, HasRow
  <2>2. tool.copy # None
    BY <2>1, NoneAssumption DEF Tool
  <2>3. row' # None /\ (~clobbered' => ~clobbered /\ row.disabled = row'.disabled)
    <3>1. CASE row' = tool.copy /\ clobbered' = (clobbered \/ row.disabled # tool.copy.disabled)
      BY <2>2, <3>1
    <3>2. CASE UNCHANGED <<row, clobbered>>
      BY <2>1, <3>2
    <3> QED
      BY <1>8, <3>1, <3>2 DEF ToolWrites
  <2> QED
    BY <2>1, <2>3 DEF Told, LastWordStored
<1>9. CASE ToolEnds
  <2>1. UNCHANGED <<up, reg, clobbered>>
    BY <1>9 DEF ToolEnds
  <2>2. CASE UNCHANGED <<row, wanted>>
    BY <2>1, <2>2, QuietTold
  <2>3. CASE tool.asks # None /\ row' = [tool.copy EXCEPT !.disabled = tool.asks] /\ wanted' = tool.asks
    <3>1. tool \in Tool /\ row # None
      BY <1>9 DEF ToolEnds, Inv, Types, HasRow
    <3>2. tool.copy \in Row /\ tool.asks \in BOOLEAN
      BY <2>3, <3>1 DEF Tool
    <3>3. row' \in Row /\ row'.disabled = tool.asks
      BY <2>3, <3>2 DEF Row
    <3>4. row' # None
      BY <3>3, NoneAssumption
    <3> QED
      BY <2>1, <2>3, <3>1, <3>2, <3>3, <3>4 DEF Told, LastWordStored
  <2> QED
    BY <1>9, <2>2, <2>3 DEF ToolEnds
<1>10. ASSUME NEW m \in Machine, NEW force \in BOOLEAN, Recover(m, force) PROVE Told'
  <2>1. Known /\ reg \in Record /\ UNCHANGED wanted
    BY <1>10 DEF Recover, RebindClient, Known, Inv, Types
  <2>2. Rebound(reg, m) \in Record /\ Rebound(reg, m).disabled = reg.disabled /\ Persist(Rebound(reg, m), FALSE)
    BY <1>10, <2>1, ReboundType DEF Recover, RebindClient, Rebound, Record
  <2> QED
    BY <2>1, <2>2, PersistTold
<1>11. CASE TimePasses
  <2>1. UNCHANGED <<up, wanted, clobbered>>
    BY <1>11 DEF TimePasses, marks
  <2>2. reg' = None <=> reg = None
    <3>1. reg # None => [reg EXCEPT !.fresh = FALSE] \in Record
      BY DEF Inv, Types, Record
    <3> QED
      BY <1>11, <3>1, NoneAssumption DEF TimePasses
  <2>3. (row' = None <=> row = None) /\ (row # None => row'.disabled = row.disabled)
    <3>1. row # None => LET r == [row EXCEPT !.fresh = FALSE] IN r \in Row /\ r.disabled = row.disabled
      BY DEF Inv, Types, Row
    <3> QED
      BY <1>11, <3>1, NoneAssumption DEF TimePasses
  <2> QED
    BY <2>1, <2>2, <2>3 DEF Told, LastWordStored
<1> QED
  BY <1>1, <1>2, <1>3, <1>4, <1>5, <1>6, <1>7, <1>8, <1>9, <1>10, <1>11
     DEF Tick, Admin, handleAPIClientDisable, handleAPIClientEnable

\* A registration keeps the flag, and a new client is not disabled.
LEMMA RegisterTold ==
  ASSUME Inv, Told, NEW m \in Machine \cup {None}, NEW a \in Address, RegisterAs(m, a), UNCHANGED wanted
  PROVE  Told'
<1> DEFINE r == IF Known
                THEN [reg EXCEPT !.address = a, !.status = "online", !.fresh = TRUE,
                                 !.machine = IF m = None THEN @ ELSE m]
                ELSE [status |-> "online", fresh |-> TRUE, watcher |-> FALSE, disabled |-> FALSE,
                      machine |-> m, address |-> a, backup |-> FALSE]
<1>1. r \in Record
  BY RegisteredType DEF Inv
<1>2. r.disabled = IF Known THEN reg.disabled ELSE FALSE
  <2>1. Known => reg \in Record
    BY DEF Known, Inv, Types
  <2> QED
    BY <2>1 DEF Record
<1>3. Persist(r, FALSE)
  BY DEF RegisterAs
<1> HIDE DEF r
<1> QED
  BY <1>1, <1>2, <1>3, PersistTold

\* Registrations, heartbeats and tunnels.
LEMMA MachinesTold ==
  ASSUME Inv, Told,
         \/ \E s \in Source : Handler(s) \/ Ping(s) \/ Client(s)
         \/ \E m \in Machine : OnMachine(m)
  PROVE  Told'
<1>1. \A m \in Machine : AddressOf(m) \in Address /\ m \in Address /\ "tunnel" \in Address
  BY DEF AddressOf, Address
<1>2. \A s \in Source : Host[s] \in Machine
  BY ControlAssumption
<1>3. ASSUME NEW b \in BOOLEAN, Known, SetWatcherActive(b), UNCHANGED wanted PROVE Told'
  <2>1. reg \in Record
    BY <1>3 DEF Known, Inv, Types
  <2>2. Watched(reg, b) \in Record /\ Watched(reg, b).disabled = reg.disabled /\ Persist(Watched(reg, b), FALSE)
    BY <1>3, <2>1, WatchedType DEF SetWatcherActive, Watched, Record
  <2> QED
    BY <1>3, <2>2, PersistTold
<1>4. ASSUME NEW s \in Source, Join(s) PROVE Told'
  <2>1. CASE UNCHANGED <<serverVars, marks>>
    BY <1>4, <2>1, QuietTold DEF Join, serverVars, marks
  <2>2. CASE RegisterAs(Host[s], AddressOf(Host[s]))
    BY <1>1, <1>2, <1>4, <2>2, RegisterTold DEF Join
  <2> QED
    BY <1>4, <2>1, <2>2 DEF Join
<1>5. ASSUME NEW s \in Source, Beat(s) PROVE Told'
  <2>1. CASE UNCHANGED <<serverVars, marks>>
    BY <1>5, <2>1, QuietTold DEF Beat, serverVars, marks
  <2>2. CASE Known /\ Heartbeat
    <3>1. reg \in Record
      BY <2>2 DEF Known, Inv, Types
    <3>2. Beaten(reg) \in Record /\ Beaten(reg).disabled = reg.disabled /\ Persist(Beaten(reg), FALSE)
      BY <2>2, <3>1, BeatenType DEF Heartbeat, Beaten, Record
    <3> QED
      BY <1>5, <2>2, <3>2, PersistTold DEF Beat
  <2> QED
    BY <1>5, <2>1, <2>2 DEF Beat, Handle
<1>6. ASSUME NEW s \in Source, BeatWatcher(s) PROVE Told'
  <2>1. CASE UNCHANGED <<serverVars, marks>>
    BY <1>6, <2>1, QuietTold DEF BeatWatcher, serverVars, marks
  <2>2. load[s].watcher \in BOOLEAN
    BY DEF Inv, Types, Load
  <2> QED
    BY <1>3, <1>6, <2>1, <2>2 DEF BeatWatcher, Handle
<1>7. ASSUME NEW s \in Source, BeatBackup(s) PROVE Told'
  <2>1. CASE UNCHANGED <<serverVars, marks>>
    BY <1>7, <2>1, QuietTold DEF BeatBackup, serverVars, marks
  <2>2. CASE Known /\ SetBackupActive(load[s].backup)
    <3> DEFINE r == BackedUp(reg, load[s].backup)
    <3>1. reg \in Record /\ load[s].backup \in BOOLEAN
      BY <2>2 DEF Known, Inv, Types, Load
    <3>2. r \in Record /\ r.disabled = reg.disabled /\ Persist(r, FALSE)
      BY <2>2, <3>1, BackedUpType DEF SetBackupActive, BackedUp, Record
    <3> HIDE DEF r
    <3> QED
      BY <1>7, <2>2, <3>2, PersistTold DEF BeatBackup
  <2> QED
    BY <1>7, <2>1, <2>2 DEF BeatBackup, Handle
<1>8. ASSUME NEW s \in Source, BeatRegister(s) PROVE Told'
  <2>1. CASE UNCHANGED <<serverVars, marks>>
    BY <1>8, <2>1, QuietTold DEF BeatRegister, serverVars, marks
  <2>2. ASSUME NEW a \in Address, RegisterAs(None, a) PROVE Told'
    BY <1>8, <2>2, RegisterTold DEF BeatRegister
  <2> QED
    BY <1>1, <1>2, <1>8, <2>1, <2>2 DEF BeatRegister
<1>9. ASSUME NEW s \in Source, Ping(s) \/ Client(s) PROVE Told'
  BY <1>9, QuietTold DEF Ping, Client, StartDaemon, StopDaemon, StartBackup, EndBackup, KillBackup,
     clientQuiet, adminVars, marks, serverVars
<1>10. ASSUME NEW m \in Machine, OnMachine(m) PROVE Told'
  <2>1. CASE ToggleWatcher(m) \/ EngineStarts(m) \/ EngineEnds(m)
    BY <2>1, QuietTold DEF ToggleWatcher, EngineStarts, EngineEnds, clientQuiet, adminVars, marks, serverVars
  <2>2. CASE TunnelOpens(m)
    BY <1>1, <2>2, RegisterTold DEF TunnelOpens
  <2>3. CASE TunnelSyncs(m)
    <3> DEFINE b == m \in watching
    <3>1. b \in BOOLEAN /\ SetWatcherActive(b) /\ Known /\ UNCHANGED wanted
      BY <2>3 DEF TunnelSyncs
    <3> HIDE DEF b
    <3> QED
      BY <1>3, <3>1
  <2>4. CASE TunnelEnds(m)
    BY <1>3, <2>4 DEF TunnelEnds
  <2> QED
    BY <1>10, <2>1, <2>2, <2>3, <2>4 DEF OnMachine
<1> QED
  BY <1>4, <1>5, <1>6, <1>7, <1>8, <1>9, <1>10 DEF Handler

\* It holds always.
LEMMA ToldInvariant == Spec => []Told
<1>1. Init => Told
  <2> SUFFICES ASSUME Init PROVE Told
    OBVIOUS
  <2>1. \A m \in Machine \cup {None} : OldRow(m).disabled = FALSE
    BY DEF OldRow
  <2> QED
    BY <2>1 DEF Init, Told, LastWordStored
<1>2. Inv /\ Told /\ [Next]_vars => Told'
  <2>1. UNCHANGED vars /\ Told => Told'
    BY QuietTold DEF vars, serverVars, adminVars, marks
  <2> QED
    BY <2>1, ServerTold, MachinesTold DEF Next
<1> QED
  BY <1>1, <1>2, Invariant, PTL DEF Spec

\* What an administrator last asked for is in the table, whatever heartbeats,
\* refreshes, registrations, command lines and restarts come between, unless the model
\* has it on record that a flag was written over.
THEOREM LastWordIsStored == Spec => []LastWordStored
<1>1. Told => LastWordStored
  BY DEF Told
<1> QED
  BY <1>1, ToldInvariant, PTL

-----------------------------------------------------------------------------
(* Types. *)

\* What of TypeOK is not in Types: the processes, and the sets and marks.
ProcessTypes ==
  /\ up \in BOOLEAN /\ stuck \in BOOLEAN /\ checker \in {"tick", "apply"}
  /\ ping \in [Source -> Steps] /\ tunnel \in [Machine -> {"none", "new", "open"}]

SetTypes ==
  /\ on \in SUBSET Source /\ joined \in SUBSET Source
  /\ watching \in SUBSET Machine /\ backing \in SUBSET Machine
  /\ signal \in SUBSET Machine /\ heard \in SUBSET Machine
  /\ clobbered \in BOOLEAN /\ outdated \in BOOLEAN /\ killed \in BOOLEAN
  /\ moves \in 0..MaxMoves

\* A registry operation, whatever it saves, leaves the server up and may get stuck.
LEMMA PersistProcess ==
  ASSUME ProcessTypes, NEW r, NEW own, Persist(r, own)
  PROVE  up' \in BOOLEAN /\ stuck' \in BOOLEAN
  BY DEF Persist, ProcessTypes

\* It keeps the types of the marks.
LEMMA PersistMarks ==
  ASSUME SetTypes, NEW r, NEW own, Persist(r, own)
  PROVE  clobbered' \in BOOLEAN /\ outdated' \in BOOLEAN
  BY DEF Persist, SetTypes, marks

\* The processes.
LEMMA NextProcess ==
  ASSUME Inv, ProcessTypes, Next
  PROVE  ProcessTypes'
<1> USE DEF ProcessTypes
<1>1. CASE Tick \/ ServerStops \/ ServerStarts \/ TimePasses
  <2>1. CASE CheckOffline
    BY <2>1, PersistProcess DEF CheckOffline, clientSide, heartVars
  <2>2. CASE QueryFlags \/ ApplyFlags
    BY <2>2 DEF QueryFlags, ApplyFlags, clientSide, heartVars
  <2>3. CASE ServerStops
    BY <2>3 DEF ServerStops, Steps
  <2>4. CASE ServerStarts \/ TimePasses
    BY <2>4 DEF ServerStarts, TimePasses, clientSide, heartVars
  <2> QED
    BY <1>1, <2>1, <2>2, <2>3, <2>4 DEF Tick
<1>2. CASE Admin
  <2>1. UNCHANGED <<checker, ping, tunnel>>
    BY <1>2 DEF Admin, handleAPIClientDisable, handleAPIClientEnable, WebSetDisabled, ToolOpens, ToolWrites,
       ToolEnds, Recover, serverVars, heartVars
  <2>2. UNCHANGED <<up, stuck>> \/ \E r, own : Persist(r, own)
    BY <1>2 DEF Admin, handleAPIClientDisable, handleAPIClientEnable, WebSetDisabled, SetDisabled, ToolOpens, ToolWrites,
       ToolEnds, Recover, RebindClient, serverVars
  <2> QED
    BY <2>1, <2>2, PersistProcess
<1>3. ASSUME NEW s \in Source, Handler(s) \/ Ping(s) \/ Client(s) PROVE ProcessTypes'
  <2>1. UNCHANGED <<checker, tunnel>>
    BY <1>3 DEF Handler, Join, Beat, BeatWatcher, BeatBackup, BeatRegister, Ping, Client, StartDaemon,
       StopDaemon, StartBackup, EndBackup, KillBackup, clientQuiet, serverVars
  <2>2. UNCHANGED <<up, stuck>> \/ \E r, own : Persist(r, own)
    BY <1>3 DEF Handler, Join, Beat, BeatWatcher, BeatBackup, BeatRegister, Ping, Client, StartDaemon,
       StopDaemon, StartBackup, EndBackup, KillBackup, clientQuiet, serverVars, Handle, Heartbeat,
       SetWatcherActive, SetBackupActive, RegisterAs
  <2>3. ping' \in [Source -> Steps]
    <3>1. UNCHANGED ping \/ \E p \in Steps : At(s, p)
      BY <1>3 DEF Handler, Join, Beat, BeatWatcher, BeatBackup, BeatRegister, Ping, Client, StartDaemon,
         StopDaemon, StartBackup, EndBackup, KillBackup, clientQuiet, Handle, At, Steps
    <3> QED
      BY <3>1 DEF At
  <2> QED
    BY <2>1, <2>2, <2>3, PersistProcess
<1>4. ASSUME NEW m \in Machine, OnMachine(m) PROVE ProcessTypes'
  <2>1. UNCHANGED <<checker, ping>> /\ tunnel' \in [Machine -> {"none", "new", "open"}]
    BY <1>4 DEF OnMachine, ToggleWatcher, EngineStarts, EngineEnds, TunnelOpens, TunnelSyncs, TunnelEnds,
       clientQuiet, serverVars, heartVars
  <2>2. UNCHANGED <<up, stuck>> \/ \E r, own : Persist(r, own)
    BY <1>4 DEF OnMachine, ToggleWatcher, EngineStarts, EngineEnds, TunnelOpens, TunnelSyncs, TunnelEnds,
       clientQuiet, serverVars, RegisterAs, SetWatcherActive
  <2> QED
    BY <2>1, <2>2, PersistProcess
<1> QED
  BY <1>1, <1>2, <1>3, <1>4 DEF Next

\* Sets and marks.
LEMMA NextSets ==
  ASSUME Inv, SetTypes, Next
  PROVE  SetTypes'
<1> USE DEF SetTypes
<1>1. Move => moves' \in 0..MaxMoves
  BY ControlAssumption DEF Move
<1>2. \A s \in Source : Host[s] \in Machine
  BY ControlAssumption
<1>3. CASE Tick \/ ServerStops \/ ServerStarts \/ TimePasses
  <2>1. CASE CheckOffline
    BY <2>1, PersistMarks DEF CheckOffline, clientSide, clientVars, heartVars, marks
  <2>2. CASE QueryFlags \/ ApplyFlags \/ ServerStarts
    BY <2>2 DEF QueryFlags, ApplyFlags, ServerStarts, clientSide, clientVars, heartVars, marks
  <2>3. CASE ServerStops
    BY <1>1, <2>3 DEF ServerStops, clientVars, adminVars, marks
  <2>4. CASE TimePasses
    BY <1>1, <2>4 DEF TimePasses, clientVars, heartVars, marks
  <2> QED
    BY <1>3, <2>1, <2>2, <2>3, <2>4 DEF Tick
<1>4. CASE Admin
  <2>1. CASE ToolWrites \/ ToolEnds
    <3>1. UNCHANGED <<on, joined, watching, backing, signal, killed, heard, moves>>
      BY <2>1 DEF ToolWrites, ToolEnds, clientVars, heartVars
    <3>2. clobbered' \in BOOLEAN /\ outdated' \in BOOLEAN
      BY <2>1 DEF ToolWrites, ToolEnds
    <3> QED
      BY <3>1, <3>2
  <2>2. ASSUME NEW b \in BOOLEAN, WebSetDisabled(b) PROVE SetTypes'
    BY <1>1, <2>2, PersistMarks DEF WebSetDisabled, SetDisabled, clientVars, heartVars, marks
  <2>3. ASSUME NEW b \in BOOLEAN \cup {None}, ToolOpens(b) PROVE SetTypes'
    BY <1>1, <2>3 DEF ToolOpens, clientVars, heartVars, marks
  <2>4. ASSUME NEW m \in Machine, NEW force \in BOOLEAN, Recover(m, force) PROVE SetTypes'
    <3>1. heard' \in SUBSET Machine /\ \E r, own : Persist(r, own)
      BY <2>4 DEF Recover, RebindClient
    <3> QED
      BY <1>1, <2>4, <3>1, PersistMarks DEF Recover, clientVars, heartVars, marks
  <2> QED
    BY <1>4, <2>1, <2>2, <2>3, <2>4 DEF Admin, handleAPIClientDisable, handleAPIClientEnable
<1>5. ASSUME NEW s \in Source, Handler(s) PROVE SetTypes'
  <2>1. UNCHANGED <<on, watching, backing, signal, killed, moves>>
    BY <1>5 DEF Handler, Join, Beat, BeatWatcher, BeatBackup, BeatRegister, clientVars, marks
  <2>2. UNCHANGED marks \/ \E r, own : Persist(r, own)
    BY <1>5 DEF Handler, Join, Beat, BeatWatcher, BeatBackup, BeatRegister, Handle, Heartbeat,
       SetWatcherActive, SetBackupActive, RegisterAs
  <2>3. joined' \in SUBSET Source /\ heard' \in SUBSET Machine
    BY <1>2, <1>5 DEF Handler, Join, Beat, BeatWatcher, BeatBackup, BeatRegister
  <2> QED
    BY <2>1, <2>2, <2>3, PersistMarks DEF marks
<1>6. ASSUME NEW s \in Source, Ping(s) PROVE SetTypes'
  BY <1>6 DEF Ping, clientVars, adminVars, marks
<1>7. ASSUME NEW s \in Source, Client(s) PROVE SetTypes'
  <2>1. UNCHANGED <<clobbered, outdated, heard>> /\ moves' \in 0..MaxMoves
    BY <1>1, <1>7 DEF Client, StartDaemon, StopDaemon, StartBackup, EndBackup, KillBackup, clientQuiet,
       adminVars, marks
  <2>2. on' \in SUBSET Source /\ joined' \in SUBSET Source /\ killed' \in BOOLEAN
    BY <1>7 DEF Client, StartDaemon, StopDaemon, StartBackup, EndBackup, KillBackup
  <2>3. watching' \in SUBSET Machine /\ backing' \in SUBSET Machine /\ signal' \in SUBSET Machine
    BY <1>2, <1>7 DEF Client, StartDaemon, StopDaemon, StartBackup, EndBackup, KillBackup
  <2> QED
    BY <2>1, <2>2, <2>3
<1>8. ASSUME NEW m \in Machine, OnMachine(m) PROVE SetTypes'
  <2>1. CASE ToggleWatcher(m) \/ EngineStarts(m) \/ EngineEnds(m)
    BY <1>1, <2>1 DEF ToggleWatcher, EngineStarts, EngineEnds, clientQuiet, adminVars, marks
  <2>2. CASE TunnelOpens(m) \/ TunnelSyncs(m) \/ TunnelEnds(m)
    <3>1. UNCHANGED <<clientVars, joined, heard>> /\ moves' \in 0..MaxMoves
      BY <1>1, <2>2 DEF TunnelOpens, TunnelSyncs, TunnelEnds, heartVars, marks
    <3>2. \E r, own : Persist(r, own)
      BY <2>2 DEF TunnelOpens, TunnelSyncs, TunnelEnds, RegisterAs, SetWatcherActive
    <3> QED
      BY <3>1, <3>2, PersistMarks DEF clientVars
  <2> QED
    BY <1>8, <2>1, <2>2 DEF OnMachine
<1> QED
  BY <1>3, <1>4, <1>5, <1>6, <1>7, <1>8 DEF Next

\* Everything the registry, its handlers and the machines keep has its type.
THEOREM ControlTypes == Spec => []TypeOK
<1>1. Init => ProcessTypes /\ SetTypes
  <2>1. Init => ProcessTypes
    BY DEF Init, ProcessTypes, Steps
  <2>2. Init => SetTypes
    <3>1. 0 \in 0..MaxMoves
      BY ControlAssumption
    <3> QED
      BY <3>1 DEF Init, SetTypes
  <2> QED
    BY <2>1, <2>2
<1>2. Inv /\ ProcessTypes /\ SetTypes /\ [Next]_vars => ProcessTypes' /\ SetTypes'
  <2>1. UNCHANGED vars /\ ProcessTypes /\ SetTypes => ProcessTypes' /\ SetTypes'
    BY DEF vars, serverVars, clientVars, heartVars, adminVars, marks, ProcessTypes, SetTypes
  <2> QED
    BY <2>1, NextProcess, NextSets
<1>3. Inv /\ Told /\ ProcessTypes /\ SetTypes => TypeOK
  BY DEF Inv, Types, Told, ProcessTypes, SetTypes, TypeOK
<1> QED
  BY <1>1, <1>2, <1>3, Invariant, ToldInvariant, PTL DEF Spec

=============================================================================
