--------------------------- MODULE ClientDaemon ---------------------------
(***************************************************************************)
(* The daemon of a client and the commands it gets from the server: a      *)
(* backup triggered and stopped, the file watcher started and stopped.     *)
(* Commands come from the web UI, from an admin client by way of the       *)
(* server, or from a command line on the server's host, each with its own  *)
(* guards, through the client's tunnel or by a call that is repeated when  *)
(* it fails.  The daemon is stopped, killed and started again.             *)
(*                                                                         *)
(* A watcher is an object with its fsnotify instance, its context and the  *)
(* ongoing backup that reads from it; a life of the daemon has at most two *)
(* of them.  What they do with files is the module Watcher.  A backup is  *)
(* only when it runs and what its job's row says; see BackupStore.         *)
(***************************************************************************)
EXTENDS Naturals, FiniteSets

Kind == {"web", "admin", "cli"}

CONSTANTS
  Caller,      \* callers, each with one request at a time
  MaxRetries,  \* how often a direct call is repeated: 2 times for the web UI's and
               \* the admin clients', 3 for the command line's
  MaxCalls,    \* how many requests there are
  MaxLives,    \* how often the daemon starts
  MaxTrouble,  \* how many calls get lost, watchers and writes fail and clients are disabled
  None

ASSUME ClientDaemonAssumption ==
  /\ MaxRetries \in [Kind -> Nat]
  /\ MaxCalls \in Nat /\ MaxLives \in Nat /\ MaxTrouble \in Nat
  /\ None \notin {"boot", "made"}

Obj == {"boot", "made"}      \* the watcher startClient makes, and the factory's
Op == {"trigger", "stopBackup", "startWatcher", "stopWatcher"}

VARIABLES
  life,      \* what startClient is at
  fsn,       \* the fsnotify instance of each watcher
  running,   \* watchers whose flag says so
  cut,       \* watchers whose context is cancelled
  ongoing,   \* watchers whose ongoing backup runs
  watcher,   \* the handler's watcher,
  batcher,   \* ... the one whose ongoing backup it knows,
  cancels,   \* ... and the one whose context it can cancel
  enabled,   \* watcher.enabled in the daemon's memory
  file,      \* ... and in the configuration file
  engine,    \* the handler's backup engine
  halt,      \* the engine's stop flag
  job,       \* the row of its job
  unended,   \* whether the statement that should have ended that row has failed
  call,      \* the request of each caller
  status,    \* the registry's record of the client: its status
  disabled,  \* ... and whether it is disabled
  nat,       \* the client is reached through a tunnel
  told,      \* whether the last command to the watcher was to start it
  excuse,    \* what has happened that may keep the watcher from doing as told
  calls, lives, trouble

watcherVars == <<fsn, running, cut, ongoing, watcher, batcher, cancels>>
configVars == <<enabled, file, told, excuse>>
backupVars == <<engine, halt, job, unended>>
registryVars == <<status, disabled, nat>>
bounds == <<calls, lives, trouble>>
vars == <<life, watcherVars, configVars, backupVars, call, registryVars, bounds>>

Call == [op : Op \cup {None}, kind : Kind, at : {"idle", "sent", "handled", "broken"},
         answer : {"ok", "exists", "failed"}, tries : Nat,
         begun : Nat, lost : BOOLEAN]

TypeOK ==
  /\ life \in {"down", "serving", "starting", "up", "stopping"}
  /\ fsn \in [Obj -> {"none", "open", "closed"}]
  /\ running \in SUBSET Obj /\ cut \in SUBSET Obj /\ ongoing \in SUBSET Obj
  /\ watcher \in Obj \cup {None} /\ batcher \in Obj \cup {None}
  /\ cancels \in Obj \cup {None}
  /\ enabled \in BOOLEAN /\ file \in BOOLEAN
  /\ engine \in {"none", "set", "run"} /\ halt \in BOOLEAN
  /\ job \in {"running", "ended", "stopped"} /\ unended \in BOOLEAN
  /\ call \in [Caller -> Call] /\ \A c \in Caller : call[c].tries <= MaxRetries[call[c].kind]
  /\ status \in {"online", "backing_up", "offline"}
  /\ disabled \in BOOLEAN /\ nat \in BOOLEAN
  /\ told \in BOOLEAN /\ excuse \in SUBSET {"early", "failed", "reused", "unsaved", "forgotten"}
  /\ calls \in 0..MaxCalls /\ lives \in 0..MaxLives /\ trouble \in 0..MaxTrouble

NoCall == [op |-> None, kind |-> "web", at |-> "idle", answer |-> "ok", tries |-> 0, begun |-> 0, lost |-> FALSE]

NoWatchers ==
  /\ fsn' = [w \in Obj |-> "none"] /\ running' = {} /\ cut' = {} /\ ongoing' = {}
  /\ watcher' = None /\ batcher' = None /\ cancels' = None

Init ==
  /\ life = "down"
  /\ fsn = [w \in Obj |-> "none"] /\ running = {} /\ cut = {} /\ ongoing = {}
  /\ watcher = None /\ batcher = None /\ cancels = None
  /\ file \in BOOLEAN /\ enabled = file /\ told = file /\ excuse = {}
  /\ engine = "none" /\ halt = FALSE /\ job = "ended" /\ unended = FALSE
  /\ call = [c \in Caller |-> NoCall]
  /\ status = "offline" /\ disabled = FALSE /\ nat \in BOOLEAN
  /\ calls = 0 /\ lives = 0 /\ trouble = 0

Trouble == trouble < MaxTrouble /\ trouble' = trouble + 1

Runs(w) == w # None /\ w \in running

\* Files are seen and backed up.
Works(w) == fsn[w] = "open" /\ w \in running \ cut /\ w \in ongoing

Serves == life \in {"serving", "starting", "up", "stopping"}

-----------------------------------------------------------------------------
(* The handlers of the client's command server; what they answer to caller c *)
(* is put in its request.                                                     *)

Answers(c, a, begun) ==
  call' = [call EXCEPT ![c].at = "handled", ![c].answer = a, ![c].begun = @ + begun]

\* mutant: the new engine is started before the old one is looked for
TriggerFirst(c) ==
  /\ IF engine # "none" THEN Answers(c, "exists", 1) ELSE Answers(c, "ok", 1)
  /\ engine' = IF engine # "none" THEN engine ELSE "set"
  /\ UNCHANGED <<halt, job, unended>>

\* TriggerBackup: the engine is made under the lock, the backup left to a goroutine.
TriggerBackup(c) ==
  /\ IF engine # "none" THEN Answers(c, "exists", 0) /\ UNCHANGED engine
     ELSE Answers(c, "ok", 1) /\ engine' = "set"
  /\ UNCHANGED <<halt, job, unended>>

\* StopBackup: success also when there is nothing to stop.
StopBackup(c) ==
  /\ Answers(c, "ok", 0)
  /\ halt' = IF engine = "none" THEN halt ELSE TRUE
  /\ UNCHANGED <<engine, job, unended>>

\* mutant: the state is kept in memory only
PersistNothing(b, e) == enabled' = b /\ excuse' = e /\ UNCHANGED <<file, trouble>>

\* A save that fails, of which the caller is not told, leaves the file as it was or cut
\* short; e is what else may keep the watcher from doing as told.
persistWatcherEnabled(b, e) ==
  /\ enabled' = b
  /\ \/ file' = b /\ excuse' = e \ {"unsaved"} /\ UNCHANGED trouble
     \/ Trouble /\ file' \in BOOLEAN /\ excuse' = e \cup {"unsaved"}

Early == IF life = "up" THEN {} ELSE {"early"}

AlreadyRunning(c) ==
  /\ Runs(watcher)
  /\ Answers(c, "ok", 0)
  /\ told' = TRUE /\ excuse' = excuse \cup Early
  /\ UNCHANGED <<watcherVars, enabled, file>>

\* A watcher that was stopped has closed its fsnotify instance and lost its ongoing
\* backup; started again it runs, and sees nothing.
Restart(c) ==
  /\ watcher # None /\ ~Runs(watcher)
  /\ running' = running \cup {watcher}
  /\ \/ /\ Answers(c, "ok", 0)
        /\ cut' = cut \ {watcher} /\ cancels' = watcher
        /\ persistWatcherEnabled(TRUE, excuse \cup Early \cup {"reused"})
        /\ told' = TRUE
     \/ /\ Trouble                   \* the include paths cannot be listed
        /\ Answers(c, "failed", 0)
        /\ cut' = cut \cup {watcher} /\ cancels' = None
        /\ excuse' = excuse \cup {"failed"}
        /\ UNCHANGED <<enabled, file, told>>
  /\ UNCHANGED <<fsn, ongoing, watcher, batcher>>

\* The factory makes a watcher and an ongoing backup and starts both.
Make(c) ==
  /\ watcher = None
  /\ \/ /\ Answers(c, "ok", 0)
        /\ fsn' = [fsn EXCEPT !["made"] = "open"]
        /\ running' = running \cup {"made"} /\ ongoing' = ongoing \cup {"made"}
        /\ watcher' = "made" /\ batcher' = "made" /\ cancels' = "made"
        /\ persistWatcherEnabled(TRUE, (excuse \ {"failed", "forgotten"}) \cup Early)
        /\ told' = TRUE
        /\ UNCHANGED cut
     \/ /\ Trouble
        /\ Answers(c, "failed", 0)
        /\ excuse' = excuse \cup {"failed"}
        /\ UNCHANGED <<watcherVars, enabled, file, told>>

StartWatcher(c) ==
  \/ AlreadyRunning(c) /\ UNCHANGED trouble
  \/ Restart(c)
  \/ Make(c)

\* StopWatcher: the ongoing backup if the handler knows it, the context if it has
\* it, and the watcher, whose fsnotify instance may report an error.  Nothing is saved
\* then, nor when there is nothing to stop.
StopWatcher(c) ==
  \/ /\ ~Runs(watcher)
     /\ Answers(c, "ok", 0)
     /\ told' = FALSE /\ excuse' = excuse \cup Early
     /\ UNCHANGED <<watcherVars, enabled, file, trouble>>
  \/ /\ Runs(watcher)
     /\ ongoing' = ongoing \ {batcher} /\ batcher' = None
     /\ cut' = cut \cup {watcher} \cup ({cancels} \ {None}) /\ cancels' = None
     /\ running' = running \ {watcher}
     /\ fsn' = [fsn EXCEPT ![watcher] = "closed"]
     /\ \/ /\ Answers(c, "ok", 0)
           /\ persistWatcherEnabled(FALSE, IF life = "up" THEN {} ELSE excuse \cup Early)
           /\ told' = FALSE
        \/ /\ Trouble
           /\ Answers(c, "failed", 0)
           /\ excuse' = excuse \cup {"failed"}
           /\ UNCHANGED <<enabled, file, told>>
     /\ UNCHANGED watcher

-----------------------------------------------------------------------------
(* startClient. *)

\* mutant: jobs left running are not looked at
BootBlind ==
  /\ life = "down" /\ lives < MaxLives
  /\ life' = "serving" /\ lives' = lives + 1
  /\ enabled' = file
  /\ excuse' = IF file = told \/ excuse = {} THEN {} ELSE {"forgotten"}
  /\ UNCHANGED <<watcherVars, file, told, backupVars, call, registryVars, calls, trouble>>

\* Stale jobs are failed, unless the statement fails, then the command server answers,
\* the client registers and its heartbeat begins.  What the file does not say of the
\* last command is forgotten.
Boot ==
  /\ life = "down" /\ lives < MaxLives
  /\ life' = "serving" /\ lives' = lives + 1
  /\ enabled' = file
  /\ \/ /\ job' = IF job = "running" THEN "ended" ELSE job
        /\ unended' = FALSE
        /\ UNCHANGED trouble
     \/ /\ Trouble
        /\ unended' = TRUE
        /\ UNCHANGED job
  /\ excuse' = IF file = told \/ excuse = {} THEN {} ELSE {"forgotten"}
  /\ UNCHANGED <<watcherVars, file, told, engine, halt, call, registryVars, calls>>

\* The watcher, if it is enabled by now, is made and started ...
BootWatcher ==
  /\ life = "serving"
  /\ \/ /\ ~enabled
        /\ life' = "up"
        /\ UNCHANGED <<fsn, running, ongoing, excuse, trouble>>
     \/ /\ enabled
        /\ life' = "starting"
        /\ fsn' = [fsn EXCEPT !["boot"] = "open"]
        /\ running' = running \cup {"boot"}
        /\ UNCHANGED <<ongoing, excuse, trouble>>
     \/ /\ enabled /\ Trouble        \* no include paths, or too many watches
        /\ life' = "up"
        /\ excuse' = excuse \cup {"failed"}
        /\ UNCHANGED <<fsn, running, ongoing>>
  /\ UNCHANGED <<cut, watcher, batcher, cancels, enabled, file, told, backupVars, call,
                 registryVars, calls, lives>>

\* ... and given to the handler, which may have one by now; its ongoing backup is
\* not.
SetWatcher ==
  /\ life = "starting"
  /\ life' = "up"
  /\ watcher' = "boot"
  /\ ongoing' = ongoing \cup {"boot"}
  /\ UNCHANGED <<fsn, running, cut, batcher, cancels, configVars, backupVars, call, registryVars,
                 bounds>>

\* The daemon's shutdown stops the watcher it has started itself.
Shutdown ==
  /\ life = "up"
  /\ life' = "stopping"
  /\ ongoing' = ongoing \ {"boot"}
  /\ running' = running \ {"boot"}
  /\ cut' = cut \cup {"boot"}
  /\ fsn' = [fsn EXCEPT !["boot"] = IF @ = "none" THEN "none" ELSE "closed"]
  /\ UNCHANGED <<watcher, batcher, cancels, configVars, backupVars, call, registryVars, bounds>>

\* After GracefulStop the database is closed and the process ends, or it is killed
\* before: a backup in work is not waited for, and its row stays.
Exit ==
  /\ Serves
  /\ life' = "down"
  /\ NoWatchers
  /\ enabled' = file
  /\ engine' = "none" /\ halt' = FALSE
  /\ UNCHANGED <<file, told, excuse, job, unended, call, registryVars, bounds>>

\* The goroutine of TriggerBackup: RunBackup makes the job's row, clears the flag, and
\* looks at it later; without a row it gives up.
RunBackup ==
  /\ engine = "set"
  /\ \/ /\ engine' = "run" /\ job' = "running" /\ unended' = FALSE
        /\ UNCHANGED trouble
     \/ /\ Trouble
        /\ engine' = "none"
        /\ UNCHANGED <<job, unended>>
  /\ halt' = FALSE
  /\ UNCHANGED <<life, watcherVars, configVars, call, registryVars, calls, lives>>

\* finishJob's update may fail, which nobody is told.
BackupEnds ==
  /\ engine = "run"
  /\ engine' = "none"
  /\ \/ /\ job' \in {"ended"} \cup (IF halt THEN {"stopped"} ELSE {})
        /\ UNCHANGED <<unended, trouble>>
     \/ /\ Trouble
        /\ unended' = TRUE
        /\ UNCHANGED job
  /\ halt' = FALSE                 \* the flag goes with the engine
  /\ UNCHANGED <<life, watcherVars, configVars, call, registryVars, calls, lives>>

-----------------------------------------------------------------------------
(* The server. *)

\* What the client's heartbeat makes of the record; a disabled client is refused.
Heartbeat ==
  /\ life \in {"serving", "starting", "up"} /\ ~disabled
  /\ status' = IF engine # "none" THEN "backing_up" ELSE "online"
  /\ UNCHANGED <<disabled, nat, life, watcherVars, configVars, backupVars, call, bounds>>

Silence ==
  /\ life = "down" \/ disabled
  /\ status' = "offline"
  /\ UNCHANGED <<disabled, nat, life, watcherVars, configVars, backupVars, call, bounds>>

SetDisabled ==
  /\ Trouble
  /\ disabled' = ~disabled
  /\ UNCHANGED <<status, nat, life, watcherVars, configVars, backupVars, call, calls, lives>>

\* connectToClient: by the address on record, while the client is online.
connectToClient == status = "online" /\ ~nat

HasTunnel == nat /\ Serves

Reachable == HasTunnel \/ connectToClient

checkNotDisabled == ~disabled

TriggerClientBackup == checkNotDisabled /\ Reachable
StartClientWatcher == checkNotDisabled /\ Reachable
StopClientWatcher == checkNotDisabled /\ Reachable
StopClientBackup == Reachable

\* The web UI's handlers want the client online, whatever the connector wants.
handleAPIClientBackup == status = "online" /\ TriggerClientBackup
handleAPIClientBackupStop == status = "online" /\ StopClientBackup
handleAPIClientWatcherStart == status = "online" /\ StartClientWatcher
handleAPIClientWatcherStop == status = "online" /\ StopClientWatcher

\* An admin client's request is made by the server's command server.
ControlClientWatcher(op) ==
  ~disabled /\ IF op = "startWatcher" THEN StartClientWatcher ELSE StopClientWatcher

\* A command line dials the address on record itself and looks at no flag.
runRemoteClientBackup == status \in {"online", "backing_up"} /\ ~nat
runRemoteClientWatcherControl == status = "online" /\ ~nat

Allows(kind, op) ==
  CASE kind = "web" /\ op = "trigger" -> handleAPIClientBackup
    [] kind = "web" /\ op = "stopBackup" -> handleAPIClientBackupStop
    [] kind = "web" /\ op = "startWatcher" -> handleAPIClientWatcherStart
    [] kind = "web" /\ op = "stopWatcher" -> handleAPIClientWatcherStop
    [] kind = "admin" /\ op \in {"startWatcher", "stopWatcher"} -> ControlClientWatcher(op)
    [] kind = "cli" /\ op = "trigger" -> runRemoteClientBackup
    [] kind = "cli" /\ op \in {"startWatcher", "stopWatcher"} -> runRemoteClientWatcherControl
    [] OTHER -> FALSE

quiet == <<life, watcherVars, configVars, backupVars, registryVars>>

Request(c, kind, op) ==
  /\ call[c].at = "idle" /\ calls < MaxCalls
  /\ Allows(kind, op)
  /\ call' = [call EXCEPT ![c] = [NoCall EXCEPT !.op = op, !.kind = kind, !.at = "sent"]]
  /\ calls' = calls + 1
  /\ UNCHANGED <<quiet, lives, trouble>>

\* The command reaches the daemon, over the tunnel or directly.
Handle(c) ==
  /\ call[c].at = "sent" /\ Serves
  /\ \/ /\ call[c].op = "trigger" /\ TriggerBackup(c)
        /\ UNCHANGED <<watcherVars, configVars, trouble>>
     \/ /\ call[c].op = "stopBackup" /\ StopBackup(c)
        /\ UNCHANGED <<watcherVars, configVars, trouble>>
     \/ /\ call[c].op = "startWatcher" /\ StartWatcher(c)
        /\ UNCHANGED backupVars
     \/ /\ call[c].op = "stopWatcher" /\ StopWatcher(c)
        /\ UNCHANGED backupVars
  /\ UNCHANGED <<life, registryVars, calls, lives>>

\* It does not, or its answer does not come back.
Lose(c) ==
  /\ call[c].at \in {"sent", "handled"}
  /\ \/ ~Serves /\ UNCHANGED trouble
     \/ Serves /\ Trouble
  /\ call' = [call EXCEPT ![c].at = "broken", ![c].answer = "failed",
                          ![c].lost = @ \/ (call[c].at = "handled" /\ call[c].op = "trigger")]
  /\ UNCHANGED <<quiet, calls, lives>>

\* withRetry: a broken call is repeated, whatever it asks for, and an answer, good or
\* bad, is not; over a tunnel a command is sent once.
Retry(c) ==
  /\ call[c].at = "broken"
  /\ ~nat /\ call[c].tries < MaxRetries[call[c].kind]
  /\ call' = [call EXCEPT ![c].at = "sent", ![c].tries = @ + 1]
  /\ UNCHANGED <<quiet, bounds>>

\* The caller is told.  (The connector tells the registry whether the watcher runs,
\* which the next heartbeat does too.)
Return(c) ==
  /\ \/ call[c].at = "handled"
     \/ call[c].at = "broken" /\ (nat \/ call[c].tries = MaxRetries[call[c].kind])
  /\ call' = [call EXCEPT ![c] = NoCall]
  /\ UNCHANGED <<quiet, bounds>>

-----------------------------------------------------------------------------
startClient == Boot \/ BootWatcher \/ SetWatcher \/ Shutdown \/ Exit

Next ==
  \/ startClient \/ RunBackup \/ BackupEnds
  \/ Heartbeat \/ Silence \/ SetDisabled
  \/ \E c \in Caller :
       \/ \E kind \in Kind, op \in Op : Request(c, kind, op)
       \/ Handle(c) \/ Lose(c) \/ Retry(c) \/ Return(c)

Spec == Init /\ [][Next]_vars

-----------------------------------------------------------------------------
(* Properties. *)

\* The watcher does what the last command asked for, and the file says so to the
\* daemon's next life: told to run, exactly one works; told to stop, none does.
\* The exceptions are on record: a command that came before the daemon had given
\* the handler its own watcher, a watcher that could not be started or did not stop in
\* order, for running, one that was stopped before in the same life, for the file, a save
\* that failed, and a life that began with a file that did not say the last command.
LastWordHolds ==
  life = "up" =>
    /\ told => Cardinality({w \in Obj : Works(w)}) = 1 \/ excuse \ {"unsaved"} # {}
    /\ ~told => (\A w \in Obj : ~Works(w)) \/ excuse \cap {"early", "failed", "forgotten"} # {}
    /\ file = told \/ excuse \ {"reused"} # {}

\* A request for a backup that is answered "started" has started one, one that is
\* answered otherwise none; only a call whose answer got lost has perhaps started
\* one more than its caller knows, and one that was repeated two.
TriggersAccounted ==
  \A c \in Caller : call[c].at \in {"handled", "broken"} /\ call[c].op = "trigger" =>
    \/ call[c].lost
    \/ call[c].begun = IF call[c].answer = "ok" THEN 1 ELSE 0

\* While the daemon lives, the last triggered backup's job is recorded as running only
\* while it is being run, or when the statement that should have ended it has failed.
RunningJobsRun ==
  Serves /\ job = "running" => engine = "run" \/ unended

=============================================================================
