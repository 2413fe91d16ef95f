----------------------------- MODULE ConfigFile -----------------------------
(***************************************************************************)
(* tergum.toml and those who change it: commands, each a process of its    *)
(* own, the handlers of the web UI, and a client's daemon that records     *)
(* whether its watcher was started.  Each reads the whole file, or has it  *)
(* in memory, changes a value, truncates the file and writes the whole     *)
(* text.  Nothing keeps them apart.                                        *)
(*                                                                         *)
(* The server's admin policy reads the list of admin clients from the file *)
(* every five seconds, and at once when the web UI changed it.             *)
(*                                                                         *)
(* The paths to back up are in a table too, which the commands change, and *)
(* the web UI, which then copies the table to the file.                    *)
(*                                                                         *)
(* Of the settings there are the admin clients, by their fingerprints, the *)
(* watcher's switch, whether a path is listed, and one value for all       *)
(* others.                                                                 *)
(***************************************************************************)
EXTENDS Naturals, FiniteSets

CONSTANTS
  Client,      \* clients that may be made admin
  Command, Handler,   \* commands, and requests to the web UI
  MaxEdits,    \* bound on changes
  MaxTrouble,  \* bound on deaths and failing calls
  Truncated, Garbled, None

Editor == Command \cup Handler \cup {"daemon"}
Reader == Handler \cup {"ticker"}

\* "unfit" stands for all that Validate refuses, as a client without a server's address.
Other == {"fit", "unfit"}
Config == [admins : SUBSET Client, watcher : BOOLEAN, path : BOOLEAN, other : Other]

ASSUME ConfigFileAssumption ==
  /\ MaxEdits \in Nat /\ MaxTrouble \in Nat
  /\ Client \cap {"watcher", "path", "other"} = {}
  /\ Command \cap Handler = {} /\ "daemon" \notin Command \cup Handler /\ "ticker" \notin Handler
  /\ Truncated # Garbled /\ \A c \in Config : c \notin {Truncated, Garbled, None}

VARIABLES
  role,     \* server or client
  file,     \* the text of the file
  table,    \* whether the path is in the table
  mem,      \* the configuration in the daemon's memory, or None when it does not run
  clients,  \* the admin policy's list
  edit,     \* the change each editor is at
  cfg,      \* the configuration it is going to write
  at,       \* how far it is
  held,     \* what each reload of the policy has read and not yet stored
  want,     \* the configuration the reports so far add up to
  lost,     \* settings whose reported value an accident, or an overlap, took from the file
  stale,    \* ... that others have written since an editor read the file
  old,      \* ... since the daemon of a client did
  revoked,  \* clients whose removal the web UI has reported, and neither added nor lost since
  late,     \* reloads that read before the last change
  slipped,  \* a list is in force that was read before the last change
  apart,    \* the table was changed without the file, or a copy of it failed or came late
  edits, trouble

policy == <<clients, held, late, slipped>>
editors == <<edit, cfg, at, edits>>
paths == <<table, apart>>
reports == <<want, lost, stale, old>>
vars == <<role, file, paths, mem, policy, editors, reports, revoked, trouble>>

-----------------------------------------------------------------------------
(* package config. *)

\* applyDefaults: what an empty file says.
Default == [admins |-> {}, watcher |-> FALSE, path |-> FALSE, other |-> "unfit"]

\* Load: a truncated file is read without an error.
Loads == file # Garbled
Load == IF file = Truncated THEN Default ELSE file

Validate(c) == c.other # "unfit"

AddAdminClient(c, fp) == [c EXCEPT !.admins = @ \cup {fp}]
RemoveAdminClient(c, fp) == [c EXCEPT !.admins = @ \ {fp}]

Apply(e, c) ==
  CASE e.kind = "add" -> AddAdminClient(c, e.val)
    [] e.kind = "remove" -> RemoveAdminClient(c, e.val)
    [] e.kind = "watcher" -> [c EXCEPT !.watcher = e.val]
    [] e.kind = "paths" -> [c EXCEPT !.path = e.val]
    [] e.kind = "other" -> [c EXCEPT !.other = e.val]
    [] e.kind \in {"new", "recover"} -> e.val

\* The settings there are, each client's being admin one of them, those that a change
\* sets, and whether two configurations agree on one.
Setting == Client \cup {"watcher", "path", "other"}

Sets(e) ==
  CASE e.kind \in {"add", "remove"} -> {e.val}
    [] e.kind = "watcher" -> {"watcher"}
    [] e.kind = "paths" -> {"path"}
    [] e.kind = "other" -> {"other"}
    [] e.kind \in {"new", "recover"} -> Setting

Same(c, d, s) ==
  CASE s = "watcher" -> c.watcher = d.watcher
    [] s = "path" -> c.path = d.path
    [] s = "other" -> c.other = d.other
    [] OTHER -> s \in c.admins <=> s \in d.admins

\* Encode to a file that was truncated on opening.  If another text was written
\* meanwhile, what it is longer by is left behind the new one, and the whole may or
\* may not be read.  The list of admins comes last.
Save(c) ==
  CASE file = Truncated -> {c}
    [] file = Garbled -> {c, Garbled}
    [] OTHER -> {c, Garbled} \cup
                (IF c.admins \subseteq file.admins THEN {[c EXCEPT !.admins = file.admins]} ELSE {})

-----------------------------------------------------------------------------
(* Who changes what. *)

Fit == {"fit"}

\* buildConfig: a file that has nothing to do with the one there was.
New(b, p) == [admins |-> {}, watcher |-> b, path |-> p, other |-> "fit"]

runAdminClientAdd == [kind : {"add"}, val : Client]
runAdminClientRemove == [kind : {"remove"}, val : Client]
NodeRoleSet == [kind : {"other"}, val : Fit]
NodeHostnameSet == [kind : {"other"}, val : Fit]
updateWatcherEnabled == [kind : {"watcher"}, val : BOOLEAN]
runInteractiveSetup == [kind : {"new"}, val : {New(b, p) : b \in BOOLEAN, p \in BOOLEAN}]

handleAdminClientsAdd == [kind : {"add"}, val : Client]
handleAdminClientsRemove == [kind : {"remove"}, val : Client]
handleAPIConfigSettings == [kind : {"other"}, val : Other]
handleAPINodeRole == [kind : {"other"}, val : Fit]
handleAPINodeHostname == [kind : {"other"}, val : Fit]
handleAPIWatcherAutostart == [kind : {"watcher"}, val : BOOLEAN]

\* The commands on admin clients need a server.
Edits(x) ==
  CASE x \in Handler ->
         handleAdminClientsAdd \cup handleAdminClientsRemove \cup handleAPIConfigSettings
           \cup handleAPINodeRole \cup handleAPINodeHostname \cup handleAPIWatcherAutostart
    [] x \in Command ->
         NodeRoleSet \cup NodeHostnameSet \cup updateWatcherEnabled
           \cup runInteractiveSetup
           \cup (IF role = "server" THEN runAdminClientAdd \cup runAdminClientRemove ELSE {})
    [] OTHER -> updateWatcherEnabled

\* Nothing is written to remove who is not there, and by a command to add who is.
Unchanged(x, e) ==
  \/ e.kind = "remove" /\ e.val \notin Load.admins
  \/ e.kind = "add" /\ e.val \in Load.admins /\ x \in Command

TypeOK ==
  /\ role \in {"server", "client"}
  /\ file \in Config \cup {Truncated, Garbled} /\ table \in BOOLEAN /\ apart \in BOOLEAN
  /\ mem \in Config \cup {None} /\ cfg \in [Editor -> Config \cup {None}]
  /\ clients \in SUBSET Client /\ held \in [Reader -> (SUBSET Client) \cup {None}]
  /\ at \in [Editor -> {"idle", "pending", "loaded", "open", "written", "synced"}]
  /\ \A x \in Editor : at[x] = "idle" => edit[x] = None
  /\ want \in Config /\ revoked \in SUBSET Client /\ late \in SUBSET Reader
  /\ lost \in SUBSET Setting /\ stale \in [Editor -> SUBSET Setting] /\ old \in SUBSET Setting
  /\ slipped \in BOOLEAN
  /\ edits \in 0..MaxEdits /\ trouble \in 0..MaxTrouble

Init ==
  /\ role \in {"server", "client"}
  /\ file \in {[New(FALSE, FALSE) EXCEPT !.admins = A] : A \in SUBSET Client}
  /\ (role = "client" => file.admins = {}) /\ table = FALSE /\ apart = FALSE
  /\ mem = file /\ want = file /\ clients = file.admins
  /\ edit = [x \in Editor |-> None] /\ cfg = [x \in Editor |-> None]
  /\ at = [x \in Editor |-> "idle"]
  /\ held = [r \in Reader |-> None]
  /\ lost = {} /\ stale = [x \in Editor |-> {}] /\ old = {}
  /\ revoked = {} /\ late = {} /\ slipped = FALSE
  /\ edits = 0 /\ trouble = 0

Up == mem # None

-----------------------------------------------------------------------------
(* An edit. *)

Trouble == trouble < MaxTrouble /\ trouble' = trouble + 1

Busy(x) == at[x] \in {"loaded", "open", "written"}

Count == edits < MaxEdits /\ edits' = edits + 1

\* The copy it works on lacks all that was reported if the file was truncated then, and
\* the daemon's what was written since it started.
Begin(x, e, c) ==
  /\ edit' = [edit EXCEPT ![x] = e]
  /\ cfg' = [cfg EXCEPT ![x] = Apply(e, c)]
  /\ at' = [at EXCEPT ![x] = "loaded"]
  /\ stale' = [stale EXCEPT ![x] = IF x = "daemon" THEN old
                                   ELSE IF file = Truncated THEN Setting ELSE {}]
  /\ UNCHANGED <<want, lost, old>>

\* X are done, or no more.
Gone(X) ==
  /\ edit' = [x \in Editor |-> IF x \in X THEN None ELSE edit[x]]
  /\ cfg' = [x \in Editor |-> IF x \in X THEN None ELSE cfg[x]]
  /\ at' = [x \in Editor |-> IF x \in X THEN "idle" ELSE at[x]]

Answer(x) == Gone({x})

Forget(X) == stale' = [x \in Editor |-> IF x \in X THEN {} ELSE stale[x]]

\* Those of X that were to make the file and the table agree do not.
Unfinished(X) ==
  \E x \in X : \/ at[x] # "idle" /\ edit[x].kind = "paths"
               \/ at[x] = "written" /\ edit[x].kind = "new"

\* mutant: a handler works on the daemon's copy
LoadMemory(x, e) ==
  /\ x \in Handler => Up /\ role = "server"
  /\ at[x] = "idle" /\ Count
  /\ e.kind = "new" \/ (Loads /\ ~Unchanged(x, e))
  /\ Begin(x, e, IF x \in Handler THEN mem ELSE Load)
  /\ UNCHANGED <<role, file, paths, mem, policy, revoked, trouble>>

\* A command, or a handler of the web UI, which only the server has.
LoadConfig(x, e) ==
  /\ x \in Handler => Up /\ role = "server"
  /\ at[x] = "idle" /\ Count
  /\ e.kind = "new" \/ (Loads /\ ~Unchanged(x, e))
  /\ Begin(x, e, Load)
  /\ UNCHANGED <<role, file, paths, mem, policy, revoked, trouble>>

\* persistWatcherEnabled: the daemon of a client saves what it has in memory, which it
\* changes first.
persistWatcherEnabled(e) ==
  /\ Up /\ role = "client"
  /\ at["daemon"] = "idle" /\ Count
  /\ Begin("daemon", e, mem)
  /\ mem' = Apply(e, mem)
  /\ UNCHANGED <<role, file, paths, policy, revoked, trouble>>

\* handlePathsIncludeAdd, handlePathsIncludeRemove and their like: the table, and a
\* goroutine that will copy it.
handlePaths(x, b) ==
  /\ Up /\ role = "server" /\ at[x] = "idle" /\ Count
  /\ table' = b
  /\ at' = [at EXCEPT ![x] = "pending"]
  /\ edit' = [edit EXCEPT ![x] = [kind |-> "paths", val |-> b]]
  /\ UNCHANGED <<role, file, apart, mem, policy, cfg, reports, revoked, trouble>>

\* mutant: the path is copied to the file as the request had it
SyncAsked(x) ==
  /\ at[x] = "pending" /\ Loads
  /\ Begin(x, edit[x], Load)
  /\ apart' = FALSE
  /\ UNCHANGED <<role, file, table, mem, policy, edits, revoked, trouble>>

\* syncPathsToConfig: the file, and the table as it is by now.
syncPathsToConfig(x) ==
  /\ at[x] = "pending" /\ Loads
  /\ Begin(x, [kind |-> "paths", val |-> table], Load)
  /\ apart' = FALSE
  /\ UNCHANGED <<role, file, table, mem, policy, edits, revoked, trouble>>

\* The goroutine gives up, with a line in the log, on a file that cannot be read and
\* when the table cannot be listed.
SyncFails(x) ==
  /\ at[x] = "pending"
  /\ Trouble \/ (~Loads /\ UNCHANGED trouble)
  /\ Answer(x)
  /\ apart' = TRUE
  /\ UNCHANGED <<role, file, table, mem, policy, edits, reports, revoked>>

\* "tergum paths": the table only.
PathsCommand(b) ==
  /\ Count
  /\ table' = b /\ apart' = TRUE
  /\ UNCHANGED <<role, file, mem, policy, edit, cfg, at, reports, revoked, trouble>>

\* runRecoverInteractive first replaces the database of a client by the server's copy,
\* with its table, and lists that; a failing list is an empty one.
DownloadDatabase(x, b) ==
  /\ role = "client" /\ at[x] = "idle" /\ Count
  /\ table' = b /\ apart' = TRUE
  /\ at' = [at EXCEPT ![x] = "pending"]
  /\ \/ edit' = [edit EXCEPT ![x] = [kind |-> "recover", val |-> New(FALSE, b)]] /\ UNCHANGED trouble
     \/ edit' = [edit EXCEPT ![x] = [kind |-> "recover", val |-> New(FALSE, FALSE)]] /\ Trouble
  /\ UNCHANGED <<role, file, mem, policy, cfg, reports, revoked>>

\* It asks for the passphrase then, goes on to the file with the right one, and ends
\* without it.
runRecoverInteractive(x) ==
  /\ at[x] = "pending"
  /\ \/ Begin(x, edit[x], Load)
     \/ Answer(x) /\ UNCHANGED reports
  /\ UNCHANGED <<role, file, paths, mem, policy, edits, revoked, trouble>>

\* A file that is not opened stays as it is.
OpenFails(x) ==
  /\ at[x] = "loaded" /\ Trouble
  /\ apart' = (apart \/ Unfinished({x}))
  /\ Answer(x) /\ Forget({x})
  /\ UNCHANGED <<role, file, table, mem, policy, edits, want, lost, old, revoked>>

OpenFile(x) ==
  /\ at[x] = "loaded"
  /\ file' = Truncated
  /\ at' = [at EXCEPT ![x] = "open"]
  /\ UNCHANGED <<role, paths, mem, policy, edit, cfg, edits, reports, revoked, trouble>>

\* What of X's texts, which were being written, is in the file: nothing, a part that is
\* no configuration, or all but its last table.
Left(X) ==
  {file} \cup UNION {{Garbled, [cfg[x] EXCEPT !.admins = {}]} : x \in {x \in X : at[x] = "open"}}

\* Encode fails after the file was truncated: the disk is full.
WriteFails(x) ==
  /\ at[x] = "open" /\ Trouble
  /\ file' \in Left({x})
  /\ lost' = Setting /\ revoked' = {}
  /\ apart' = (apart \/ Unfinished({x}))
  /\ Answer(x) /\ Forget({x})
  /\ UNCHANGED <<role, table, mem, policy, edits, want, old>>

\* Handlers go on with the memory, setup with the table.
GoesOn(x) == (x \in Handler /\ edit[x].kind # "paths") \/ edit[x].kind = "new"

\* What the others have not read, and the file has no more.
Overlap(x) ==
  LET own == Sets(edit[x])
  IN  /\ stale' = [y \in Editor |-> IF y # x /\ Busy(y) THEN stale[y] \cup own ELSE {}]
      /\ old' = IF x # "daemon" /\ Up /\ role = "client" THEN old \cup own ELSE old
      /\ lost' = IF file = Truncated THEN (lost \cup stale[x]) \ own ELSE Setting

\* writeConfigTOML, writeAdminConfig, config.Save and the handlers' own: the rest of
\* it, and for a command and the daemon the report.  A copy of the table may be older
\* than one that was written since it was made.
Write(x) ==
  /\ at[x] = "open"
  /\ file' \in Save(cfg[x])
  /\ want' = Apply(edit[x], want)
  /\ Overlap(x)
  /\ IF GoesOn(x) THEN at' = [at EXCEPT ![x] = "written"] /\ UNCHANGED <<edit, cfg>>
                  ELSE Answer(x)
  /\ apart' = CASE edit[x].kind = "paths" -> apart \/ ("path" \in stale[x] /\ edit[x].val # table)
                [] edit[x].kind = "recover" -> edit[x].val.path # table
                [] OTHER -> apart
  /\ late' = {r \in Reader : held[r] # None}
  /\ revoked' = (IF edit[x].kind = "add" THEN revoked \ {edit[x].val} ELSE revoked) \ lost'
  /\ UNCHANGED <<role, table, mem, clients, held, slipped, edits, trouble>>

-----------------------------------------------------------------------------
(* What follows when the file is written. *)

\* The wizard replaces the table; a database that does not open, and every failing
\* call, are at most warned about.
SetPaths(x) ==
  /\ at[x] = "written" /\ x \in Command
  /\ \/ /\ table' = cfg[x].path
        /\ apart' = ("path" \in stale[x] \/ \E y \in Handler : Busy(y) /\ edit[y].kind = "paths")
        /\ UNCHANGED trouble
     \/ Trouble /\ table' \in {table, FALSE} /\ apart' = TRUE
  /\ Answer(x) /\ Forget({x})
  /\ UNCHANGED <<role, file, mem, policy, edits, want, lost, old, revoked>>

\* syncInMemoryConfig, writeAdminConfig: the field that was changed, or the whole list.
syncInMemoryConfig(e, m, c) ==
  IF e.kind \in {"add", "remove"} THEN [m EXCEPT !.admins = c.admins] ELSE Apply(e, m)

\* The change is made in memory; for admin clients the policy is next.
Sync(x) ==
  /\ at[x] = "written" /\ x \in Handler
  /\ mem' = syncInMemoryConfig(edit[x], mem, cfg[x])
  /\ IF edit[x].kind \in {"add", "remove"}
     THEN at' = [at EXCEPT ![x] = "synced"] /\ UNCHANGED <<edit, cfg>>
     ELSE Answer(x)
  /\ Forget({x})
  /\ UNCHANGED <<role, file, paths, policy, edits, want, lost, old, revoked, trouble>>

\* A removal is reported, unless the client was added again, or the removal lost.
Reported(x) ==
  revoked' = IF edit[x].kind = "remove" THEN revoked \cup ({edit[x].val} \ (want.admins \cup lost))
             ELSE revoked

-----------------------------------------------------------------------------
(* configAdminPolicy. *)

\* Reload reads the file,
Read(r) ==
  /\ held[r] = None /\ Loads
  /\ held' = [held EXCEPT ![r] = Load.admins]
  /\ UNCHANGED <<role, file, paths, mem, clients, late, slipped, editors, reports, revoked, trouble>>

\* mutant: a list that is empty is taken for one that could not be read
StoreSome(r) ==
  /\ held[r] # None
  /\ clients' = IF held[r] = {} THEN clients ELSE held[r]
  /\ held' = [held EXCEPT ![r] = None]
  /\ slipped' = (r \in late)
  /\ late' = late \ {r}

\* ... and takes the lock to store the list.
Store(r) ==
  /\ held[r] # None
  /\ clients' = held[r]
  /\ held' = [held EXCEPT ![r] = None]
  /\ slipped' = (r \in late)
  /\ late' = late \ {r}

\* Whether the server obeys a client as an admin.
IsAdmin(fp) == fp \in clients

refreshLoop ==
  \/ Up /\ role = "server" /\ Read("ticker")
  \/ /\ Store("ticker")
     /\ UNCHANGED <<role, file, paths, mem, editors, reports, revoked, trouble>>

\* mutant: the policy is left to its ticker
NotReloaded(x) ==
  /\ at[x] = "synced" /\ Answer(x) /\ Reported(x)
  /\ UNCHANGED <<role, file, paths, mem, policy, edits, reports, trouble>>

\* A reload that fails leaves the list that there is, and is at most warned about.
ReloadFails(r) ==
  /\ held[r] = None
  /\ Trouble \/ (~Loads /\ UNCHANGED trouble)
  /\ slipped' = TRUE
  /\ UNCHANGED <<clients, held, late>>

\* The handler's reload, and its answer when that is done or has failed.
reloadAdminPolicy(x) ==
  /\ at[x] = "synced"
  /\ \/ Read(x)
     \/ /\ (Store(x) /\ UNCHANGED trouble) \/ ReloadFails(x)
        /\ Answer(x) /\ Reported(x)
        /\ UNCHANGED <<role, file, paths, mem, edits, reports>>

-----------------------------------------------------------------------------
(* Deaths. *)

\* What editors that die leave behind.
Deaths(X) ==
  /\ Trouble
  /\ file' \in Left(X)
  /\ lost' = IF \E x \in X : at[x] = "open" THEN Setting ELSE lost
  /\ apart' = (apart \/ Unfinished(X))
  /\ Gone(X) /\ Forget(X)

\* A command is interrupted.
Kill(x) ==
  /\ x \in Command /\ Busy(x)
  /\ Deaths({x})
  /\ revoked' = revoked \ lost'
  /\ UNCHANGED <<role, table, mem, policy, edits, want, old>>

\* The daemon dies, and its handlers with it.
Die ==
  /\ Up
  /\ Deaths(Handler \cup {"daemon"})
  /\ mem' = None /\ clients' = {} /\ old' = {}
  /\ held' = [r \in Reader |-> None] /\ late' = {} /\ slipped' = FALSE /\ revoked' = {}
  /\ UNCHANGED <<role, table, edits, want>>

\* With its first Reload.
NewConfigAdminPolicy == clients' = Load.admins

\* tergum server: Load and Validate; a server makes its policy.
Start ==
  /\ ~Up /\ Loads /\ Validate(Load)
  /\ mem' = Load
  /\ IF role = "server" THEN NewConfigAdminPolicy ELSE clients' = {}
  /\ UNCHANGED <<role, file, paths, held, late, slipped, editors, reports, revoked, trouble>>

Next ==
  \/ \E x \in Command \cup Handler : \E e \in Edits(x) : LoadConfig(x, e)
  \/ \E e \in Edits("daemon") : persistWatcherEnabled(e)
  \/ \E x \in Editor : OpenFile(x) \/ OpenFails(x) \/ Write(x) \/ WriteFails(x)
  \/ \E x \in Command : SetPaths(x) \/ runRecoverInteractive(x)
  \/ \E b \in BOOLEAN : \/ PathsCommand(b)
                        \/ \E x \in Handler : handlePaths(x, b)
                        \/ \E x \in Command : DownloadDatabase(x, b)
  \/ \E x \in Handler : syncPathsToConfig(x) \/ SyncFails(x) \/ Sync(x) \/ reloadAdminPolicy(x)
  \/ refreshLoop \/ Die \/ Start
  \/ \E x \in Command : Kill(x)

\* The ticker goes on as long as the server runs.
Spec == Init /\ [][Next]_vars /\ WF_vars(refreshLoop)

-----------------------------------------------------------------------------
(* Properties. *)

Idle == \A x \in Editor : at[x] = "idle"

\* Whoever edits the file behind whose back, an edit that was reported lasts, setting by
\* setting: when no text is half written, the file has the value that was last reported
\* of a setting, unless an editor that read the file before that report wrote it after
\* it, or found the file truncated, two texts were written into one another, or a write
\* failed or was cut off; and then until the setting is edited again.
EditsLast ==
  (\A x \in Editor : at[x] # "open") =>
    \A s \in Setting \ lost : file \in Config /\ Same(file, want, s)

\* A client whose removal the web UI has reported is refused from then on until it is
\* added again, or the removal is lost, except while a list is in force that was read
\* before the last change, by a slow reload or because a later one has failed.
RevokedIsRefused == ~slipped => \A fp \in revoked : ~IsAdmin(fp)

\* When all goroutines have copied the table of paths, whatever the order they came
\* in, the file lists the paths of the table, unless that was changed without the file,
\* a copy failed, or one was written after a newer one.
PathsInSync == Idle /\ ~apart /\ "path" \notin lost => file.path = table

\* Whatever the editors do to the file and to each other, the policy comes to follow it
\* for as long as it can be read.
PolicyFollowsFile == <>[](Up /\ role = "server" /\ Loads => clients = Load.admins)
=============================================================================
