------------------------- MODULE ClientDaemonProofs -------------------------
(***************************************************************************)
(* Proofs about ClientDaemon, for any number of callers, requests, lives,  *)
(* retries and failures.                                                   *)
(***************************************************************************)
EXTENDS ClientDaemon, FiniteSetTheorems, TLAPS

\* Nothing has kept the watcher from doing as told.
Clean == excuse \cap {"early", "failed", "forgotten"} = {}

\* What belongs together: the factory's watcher works only as long as the handler
\* knows its ongoing backup, the daemon's own only as the handler's watcher.
Parts ==
  /\ "made" \in ongoing => batcher = "made"
  /\ "boot" \in ongoing => watcher = "boot"
  /\ watcher = None =>
       /\ "made" \notin cut \cup running \cup ongoing
       /\ batcher = None /\ cancels = None /\ fsn["made"] = "none"
  /\ life = "down" =>
       /\ watcher = None /\ running = {} /\ ongoing = {} /\ cut = {}
       /\ fsn["boot"] = "none"

\* While the daemon starts and nobody has commanded its watcher, it is as startClient
\* has left it.
Starting ==
  /\ Clean /\ life = "serving" =>
       /\ watcher = None /\ running = {} /\ ongoing = {} /\ cut = {}
       /\ fsn["boot"] = "none" /\ enabled = told
  /\ Clean /\ life = "starting" =>
       /\ watcher = None /\ running = {"boot"} /\ ongoing = {} /\ cut = {}
       /\ fsn["boot"] = "open" /\ told

\* Once it is up the handler's watcher is the one that works, if any does.
Obeys ==
  /\ excuse \ {"reused"} = {} => file = told
  /\ life = "up" /\ Clean /\ told => Runs(watcher)
  /\ life = "up" /\ told /\ excuse \ {"unsaved"} = {} => \A w \in Obj : Works(w) <=> w = watcher
  /\ life = "up" /\ Clean /\ ~told => ~Runs(watcher) /\ \A w \in Obj : ~Works(w)

WatcherInv == Parts /\ Starting /\ Obeys

\* A request under way that is not answered has begun nothing.
CountedCall(r) ==
  /\ r.at = "broken" => r.answer = "failed"
  /\ r.at = "sent" /\ r.op = "trigger" => r.lost \/ r.begun = 0
  /\ r.at \in {"handled", "broken"} /\ r.op = "trigger" =>
       r.lost \/ r.begun = IF r.answer = "ok" THEN 1 ELSE 0

Counted == \A c \in Caller : CountedCall(call[c])

Inv == TypeOK /\ WatcherInv /\ Counted /\ RunningJobsRun

-----------------------------------------------------------------------------
(* Types, a part of the state at a time. *)

LifeType == life \in {"down", "serving", "starting", "up", "stopping"}
WatcherType ==
  /\ fsn \in [Obj -> {"none", "open", "closed"}]
  /\ running \in SUBSET Obj /\ cut \in SUBSET Obj /\ ongoing \in SUBSET Obj
  /\ watcher \in Obj \cup {None} /\ batcher \in Obj \cup {None}
  /\ cancels \in Obj \cup {None}
ConfigType ==
  /\ enabled \in BOOLEAN /\ file \in BOOLEAN
  /\ told \in BOOLEAN /\ excuse \in SUBSET {"early", "failed", "reused", "unsaved", "forgotten"}
BackupType ==
  /\ engine \in {"none", "set", "run"} /\ halt \in BOOLEAN
  /\ job \in {"running", "ended", "stopped"} /\ unended \in BOOLEAN
CallType ==
  call \in [Caller -> Call] /\ \A c \in Caller : call[c].tries <= MaxRetries[call[c].kind]
RegistryType ==
  status \in {"online", "backing_up", "offline"} /\ disabled \in BOOLEAN /\ nat \in BOOLEAN
CallsType == calls \in 0..MaxCalls
LivesType == lives \in 0..MaxLives
TroubleType == trouble \in 0..MaxTrouble

\* The parts make up TypeOK.
LEMMA TypeParts ==
  TypeOK <=> /\ LifeType /\ WatcherType /\ ConfigType /\ BackupType /\ CallType /\ RegistryType
             /\ CallsType /\ LivesType /\ TroubleType
  BY DEF TypeOK, LifeType, WatcherType, ConfigType, BackupType, CallType, RegistryType, CallsType,
         LivesType, TroubleType

\* And so they do after a step.
LEMMA TypePartsNext ==
  ASSUME LifeType', WatcherType', ConfigType', BackupType', CallType', RegistryType',
         CallsType', LivesType', TroubleType'
  PROVE  TypeOK'
  BY DEF TypeOK, LifeType, WatcherType, ConfigType, BackupType, CallType, RegistryType, CallsType,
         LivesType, TroubleType

\* What a step leaves alone keeps its type.
LEMMA TypeKept ==
  ASSUME TypeOK
  PROVE  /\ UNCHANGED life => LifeType'
         /\ UNCHANGED watcherVars => WatcherType'
         /\ UNCHANGED configVars => ConfigType'
         /\ UNCHANGED backupVars => BackupType'
         /\ UNCHANGED call => CallType'
         /\ UNCHANGED registryVars => RegistryType'
         /\ UNCHANGED calls => CallsType'
         /\ UNCHANGED lives => LivesType'
         /\ (UNCHANGED trouble \/ Trouble) => TroubleType'
<1>1. UNCHANGED life => LifeType'
  BY TypeParts DEF LifeType
<1>2. UNCHANGED watcherVars => WatcherType'
  BY TypeParts DEF WatcherType, watcherVars
<1>3. UNCHANGED configVars => ConfigType'
  BY TypeParts DEF ConfigType, configVars
<1>4. UNCHANGED backupVars => BackupType'
  BY TypeParts DEF BackupType, backupVars
<1>5. UNCHANGED call => CallType'
  BY TypeParts DEF CallType
<1>6. UNCHANGED registryVars => RegistryType'
  BY TypeParts DEF RegistryType, registryVars
<1>7. UNCHANGED calls => CallsType'
  BY TypeParts DEF CallsType
<1>8. UNCHANGED lives => LivesType'
  BY TypeParts DEF LivesType
<1>9. (UNCHANGED trouble \/ Trouble) => TroubleType'
  <2>1. TroubleType /\ MaxTrouble \in Nat
    BY TypeParts, ClientDaemonAssumption
  <2> QED
    BY <2>1 DEF TroubleType, Trouble
<1> QED
  BY <1>1, <1>2, <1>3, <1>4, <1>5, <1>6, <1>7, <1>8, <1>9

\* A request as it may be stored.
Fits(r) == r \in Call /\ r.tries <= MaxRetries[r.kind]

\* A caller that asks for nothing is of the kind of callers.
LEMMA NoCallFits == Fits(NoCall)
<1>1. NoCall \in Call
  BY DEF NoCall, Call, Kind
<1>2. MaxRetries["web"] \in Nat
  BY ClientDaemonAssumption DEF Kind
<1> QED
  BY <1>1, <1>2 DEF Fits, NoCall

\* Every call is of the kind of calls, whatever step it is at.
LEMMA CallFits ==
  ASSUME TypeOK, NEW c \in Caller
  PROVE  /\ call[c].op \in Op \cup {None} /\ call[c].kind \in Kind
         /\ call[c].at \in {"idle", "sent", "handled", "broken"}
         /\ call[c].answer \in {"ok", "exists", "failed"}
         /\ call[c].tries \in Nat /\ call[c].begun \in Nat /\ call[c].lost \in BOOLEAN
         /\ call[c].tries <= MaxRetries[call[c].kind]
         /\ MaxRetries[call[c].kind] \in Nat
<1>1. call[c] \in Call /\ call[c].tries <= MaxRetries[call[c].kind]
  BY TypeParts DEF CallType
<1>2. call[c].kind \in Kind
  BY <1>1 DEF Call
<1>3. MaxRetries[call[c].kind] \in Nat
  BY <1>2, ClientDaemonAssumption
<1> QED
  BY <1>1, <1>3 DEF Call

\* A request when it is made, ...
LEMMA Sent ==
  ASSUME NEW op \in Op, NEW kind \in Kind
  PROVE  LET q == [NoCall EXCEPT !.op = op, !.kind = kind, !.at = "sent"]
         IN  /\ q \in Call /\ q.kind = kind /\ q.tries = 0
             /\ q.at = "sent" /\ q.op = op /\ q.begun = 0
  BY DEF NoCall, Call

\* ... when it is lost, ...
LEMMA Lost ==
  ASSUME NEW r \in Call, NEW l \in BOOLEAN
  PROVE  LET q == [r EXCEPT !.at = "broken", !.answer = "failed", !.lost = l]
         IN  /\ q \in Call /\ q.kind = r.kind /\ q.tries = r.tries
             /\ q.at = "broken" /\ q.op = r.op /\ q.answer = "failed" /\ q.begun = r.begun /\ (q.lost <=> l)
  BY DEF Call

\* ... and when it is sent again.
LEMMA Repeated ==
  ASSUME NEW r \in Call, NEW n \in Nat
  PROVE  LET q == [r EXCEPT !.at = "sent", !.tries = n]
         IN  /\ q \in Call /\ q.kind = r.kind /\ q.tries = n
             /\ q.at = "sent" /\ q.op = r.op /\ q.begun = r.begun /\ q.lost = r.lost
  BY DEF Call

\* A request that replaces another leaves the table well formed.
LEMMA CallUpdate ==
  ASSUME TypeOK, NEW c \in Caller, NEW r, Fits(r), call' = [call EXCEPT ![c] = r]
  PROVE  CallType'
<1>1. CallType
  BY TypeParts
<1> QED
  BY <1>1 DEF CallType, Fits

\* The types hold initially.
LEMMA InitType == Init => TypeOK
<1> SUFFICES ASSUME Init PROVE TypeOK
  OBVIOUS
<1>1. CallType
  BY NoCallFits DEF Init, Fits, CallType
<1>2. WatcherType
  BY DEF Init, WatcherType, Obj
<1>3. CallsType /\ LivesType /\ TroubleType
  BY ClientDaemonAssumption DEF Init, CallsType, LivesType, TroubleType
<1>4. LifeType /\ ConfigType /\ BackupType /\ RegistryType
  BY DEF Init, LifeType, ConfigType, BackupType, RegistryType
<1> QED
  BY <1>1, <1>2, <1>3, <1>4, TypeParts

\* An answer, lost or not, keeps the types.
LEMMA AnswersType ==
  ASSUME TypeOK, NEW c \in Caller, NEW a \in {"ok", "exists", "failed"}, NEW n \in {0, 1},
         Answers(c, a, n)
  PROVE  CallType'
<1> DEFINE b == call[c].begun + n
           r == [call[c] EXCEPT !.at = "handled", !.answer = a, !.begun = b]
<1>1. b \in Nat
  BY CallFits
<1>2. Fits(r)
  <2> HIDE DEF b
  <2>1. call[c] \in Call
    BY TypeParts DEF CallType
  <2>2. r \in Call /\ r.kind = call[c].kind /\ r.tries = call[c].tries
    <3> SUFFICES ASSUME NEW q \in Call, q = call[c]
                 PROVE  LET p == [q EXCEPT !.at = "handled", !.answer = a, !.begun = b]
                        IN  p \in Call /\ p.kind = q.kind /\ p.tries = q.tries
      BY <2>1
    <3> QED
      BY <1>1 DEF Call
  <2>3. call[c].tries <= MaxRetries[call[c].kind]
    BY TypeParts DEF CallType
  <2> HIDE DEF r
  <2> QED
    BY <2>2, <2>3 DEF Fits
<1>3. call' = [call EXCEPT ![c] = r]
  BY DEF Answers
<1> HIDE DEF r
<1> QED
  BY <1>2, <1>3, CallUpdate

\* A handler keeps the types.
LEMMA HandleType ==
  ASSUME TypeOK, NEW c \in Caller, Handle(c)
  PROVE  TypeOK'
<1>1. CallType'
  BY AnswersType DEF Handle, TriggerBackup, StopBackup, StartWatcher, AlreadyRunning, Restart, Make, StopWatcher
<1>2. WatcherType'
  <2>1. CASE UNCHANGED watcherVars
    BY <2>1, TypeKept
  <2>2. CASE StopWatcher(c)
    <3>1. CASE ~Runs(watcher)
      BY <2>2, <3>1, TypeKept DEF StopWatcher
    <3>2. CASE Runs(watcher)
      <4>1. /\ ongoing' = ongoing \ {batcher} /\ batcher' = None
            /\ cut' = cut \cup {watcher} \cup ({cancels} \ {None}) /\ cancels' = None
            /\ running' = running \ {watcher} /\ fsn' = [fsn EXCEPT ![watcher] = "closed"]
            /\ UNCHANGED watcher
        BY <2>2, <3>2 DEF StopWatcher
      <4>2. WatcherType /\ watcher # None
        BY <3>2, TypeParts DEF Runs
      <4> QED
        BY <4>1, <4>2 DEF WatcherType
    <3> QED
      BY <3>1, <3>2
  <2>3. CASE Restart(c) \/ Make(c)
    BY <2>3 DEF Restart, Make, watcherVars, TypeOK, Obj, Runs, WatcherType
  <2> QED
    BY <2>1, <2>2, <2>3 DEF Handle, StartWatcher, AlreadyRunning
<1>3. ConfigType'
  BY DEF Handle, StartWatcher, AlreadyRunning, Restart, Make, StopWatcher, configVars, TypeOK, persistWatcherEnabled, Early, ConfigType
<1>4. BackupType'
  BY DEF Handle, TriggerBackup, StopBackup, backupVars, TypeOK, BackupType
<1>5. Trouble \/ UNCHANGED trouble
  BY DEF Handle, StartWatcher, Restart, Make, StopWatcher, persistWatcherEnabled
<1>6. UNCHANGED <<life, registryVars, calls, lives>>
  BY DEF Handle
<1> QED
  BY <1>1, <1>2, <1>3, <1>4, <1>5, <1>6, TypeKept, TypePartsNext

\* A caller keeps the types.
LEMMA CallerType ==
  ASSUME TypeOK, NEW c \in Caller,
         (\E kind \in Kind, op \in Op : Request(c, kind, op)) \/ Lose(c) \/ Retry(c) \/ Return(c)
  PROVE  TypeOK'
<1>0. /\ UNCHANGED <<life, watcherVars, configVars, backupVars, registryVars, lives>>
      /\ Trouble \/ UNCHANGED trouble
  BY DEF Request, Lose, Retry, Return, quiet, bounds
<1>1. CallType' /\ CallsType'
  <2>1. CASE \E kind \in Kind, op \in Op : Request(c, kind, op)
    <3>1. PICK kind \in Kind, op \in Op : Request(c, kind, op)
      BY <2>1
    <3> DEFINE r == [NoCall EXCEPT !.op = op, !.kind = kind, !.at = "sent"]
    <3>2. MaxRetries[kind] \in Nat
      BY ClientDaemonAssumption
    <3>3. Fits(r)
      <4>1. r \in Call /\ r.kind = kind /\ r.tries = 0
        BY Sent
      <4> HIDE DEF r
      <4> QED
        BY <3>2, <4>1 DEF Fits
    <3>4. call' = [call EXCEPT ![c] = r]
      BY <3>1 DEF Request
    <3>5. CallType'
      <4> HIDE DEF r
      <4> QED
        BY <3>3, <3>4, CallUpdate
    <3>6. calls < MaxCalls /\ calls' = calls + 1
      BY <3>1 DEF Request
    <3>7. CallsType /\ MaxCalls \in Nat
      BY ClientDaemonAssumption, TypeParts
    <3>8. CallsType'
      BY <3>6, <3>7 DEF CallsType
    <3> QED
      BY <3>5, <3>8
  <2>2. CASE Lose(c)
    <3> DEFINE l == call[c].lost \/ (call[c].at = "handled" /\ call[c].op = "trigger")
               r == [call[c] EXCEPT !.at = "broken", !.answer = "failed", !.lost = l]
    <3>1. call[c] \in Call
      BY TypeParts DEF CallType
    <3>2. l \in BOOLEAN
      OBVIOUS
    <3>3. Fits(r)
      <4> HIDE DEF l
      <4>1. r \in Call /\ r.kind = call[c].kind /\ r.tries = call[c].tries
        BY <3>1, <3>2, Lost
      <4> HIDE DEF r
      <4> QED
        BY <4>1, CallFits DEF Fits
    <3>4. call' = [call EXCEPT ![c] = r] /\ UNCHANGED calls
      BY <2>2 DEF Lose
    <3> HIDE DEF r, l
    <3> QED
      BY <3>3, <3>4, CallUpdate, TypeKept
  <2>3. CASE Retry(c)
    <3> DEFINE n == call[c].tries + 1
               r == [call[c] EXCEPT !.at = "sent", !.tries = n]
    <3>1. call[c] \in Call
      BY TypeParts DEF CallType
    <3>2. n \in Nat /\ n <= MaxRetries[call[c].kind]
      BY CallFits, <2>3 DEF Retry
    <3>3. Fits(r)
      <4> HIDE DEF n
      <4>1. r \in Call /\ r.kind = call[c].kind /\ r.tries = n
        BY <3>1, <3>2, Repeated
      <4> HIDE DEF r
      <4> QED
        BY <3>2, <4>1 DEF Fits
    <3>4. call' = [call EXCEPT ![c] = r] /\ UNCHANGED calls
      BY <2>3 DEF Retry, bounds
    <3> HIDE DEF r
    <3> QED
      BY <3>3, <3>4, CallUpdate, TypeKept
  <2>4. CASE Return(c)
    <3>1. call' = [call EXCEPT ![c] = NoCall] /\ UNCHANGED calls
      BY <2>4 DEF Return, bounds
    <3> QED
      BY <3>1, NoCallFits, CallUpdate, TypeKept
  <2> QED
    BY <2>1, <2>2, <2>3, <2>4
<1> QED
  BY <1>0, <1>1, TypeKept, TypePartsNext

\* Start, shutdown, death and the work of the daemon keep the types.
LEMMA DaemonType ==
  ASSUME TypeOK,
         startClient \/ RunBackup \/ BackupEnds \/ Heartbeat \/ Silence \/ SetDisabled
  PROVE  TypeOK'
<1>1. CallType' /\ CallsType'
  BY TypeKept DEF startClient, Boot, BootWatcher, SetWatcher, Shutdown, Exit, RunBackup, BackupEnds, Heartbeat, Silence, SetDisabled, bounds
<1>2. TroubleType'
  BY TypeKept DEF startClient, Boot, BootWatcher, SetWatcher, Shutdown, Exit, RunBackup, BackupEnds, Heartbeat, Silence, SetDisabled, bounds
<1>3. LivesType'
  <2>1. CASE Boot
    <3>1. LivesType /\ MaxLives \in Nat
      BY ClientDaemonAssumption, TypeParts
    <3>2. lives < MaxLives /\ lives' = lives + 1
      BY <2>1 DEF Boot
    <3> QED
      BY <3>1, <3>2 DEF LivesType
  <2>2. CASE ~Boot
    BY <2>2, TypeKept DEF startClient, BootWatcher, SetWatcher, Shutdown, Exit, RunBackup, BackupEnds, Heartbeat, Silence, SetDisabled, bounds
  <2> QED
    BY <2>1, <2>2
<1>4. RegistryType'
  <2>1. CASE Heartbeat \/ Silence \/ SetDisabled
    BY <2>1, TypeParts DEF Heartbeat, Silence, SetDisabled, RegistryType
  <2>2. CASE ~(Heartbeat \/ Silence \/ SetDisabled)
    BY <2>2, TypeKept DEF startClient, Boot, BootWatcher, SetWatcher, Shutdown, Exit, RunBackup, BackupEnds
  <2> QED
    BY <2>1, <2>2
<1>5. CASE startClient
  <2>1. LifeType'
    BY <1>5 DEF startClient, Boot, BootWatcher, SetWatcher, Shutdown, Exit, LifeType
  <2>2. WatcherType'
    BY <1>5, TypeParts DEF startClient, Boot, BootWatcher, SetWatcher, Shutdown, Exit, NoWatchers, WatcherType, watcherVars, Obj
  <2>3. ConfigType'
    BY <1>5, TypeParts DEF startClient, Boot, BootWatcher, SetWatcher, Shutdown, Exit, ConfigType, configVars
  <2>4. BackupType'
    <3>1. TypeOK => BackupType
      BY TypeParts
    <3> QED
      BY <1>5, <3>1 DEF startClient, Boot, BootWatcher, SetWatcher, Shutdown, Exit, BackupType, backupVars
  <2> QED
    BY <1>1, <1>2, <1>3, <1>4, <2>1, <2>2, <2>3, <2>4, TypePartsNext
<1>6. CASE RunBackup \/ BackupEnds
  <2>1. BackupType'
    <3>1. CASE RunBackup
      BY <3>1 DEF RunBackup, BackupType, TypeOK
    <3>2. CASE BackupEnds
      BY <3>2 DEF BackupEnds, BackupType, TypeOK
    <3> QED
      BY <1>6, <3>1, <3>2
  <2>2. UNCHANGED <<life, watcherVars, configVars>>
    BY <1>6 DEF RunBackup, BackupEnds
  <2> QED
    BY <1>1, <1>2, <1>3, <1>4, <2>1, <2>2, TypeKept, TypePartsNext
<1>7. CASE Heartbeat \/ Silence \/ SetDisabled
  <2>1. UNCHANGED <<life, watcherVars, configVars, backupVars>>
    BY <1>7 DEF Heartbeat, Silence, SetDisabled
  <2> QED
    BY <1>1, <1>2, <1>3, <1>4, <2>1, TypeKept, TypePartsNext
<1> QED
  BY <1>5, <1>6, <1>7

-----------------------------------------------------------------------------
(* The watcher. *)

\* Initially nobody has said anything of the watcher.
LEMMA InitWatcher == Init => WatcherInv
  BY ClientDaemonAssumption DEF Init, WatcherInv, Parts, Starting, Obeys, Clean, Obj

\* What the file says is what was saved, or the failure is on record.
LEMMA Persisted ==
  ASSUME NEW b, NEW e, persistWatcherEnabled(b, e)
  PROVE  /\ enabled' = b
         /\ excuse' \ {"unsaved"} = e \ {"unsaved"}
         /\ "unsaved" \in excuse' \/ file' = b
  BY DEF persistWatcherEnabled

\* Starting the watcher, whoever asks for it, obeys the last word.
LEMMA StartWatcherInv ==
  ASSUME TypeOK, WatcherInv, NEW c \in Caller, Serves, StartWatcher(c), UNCHANGED life
  PROVE  WatcherInv'
<1> USE ClientDaemonAssumption DEF WatcherInv
<1>1. CASE AlreadyRunning(c)
  <2>1. /\ Runs(watcher) /\ UNCHANGED <<life, watcherVars, enabled, file>>
        /\ told' = TRUE /\ excuse' = excuse \cup Early
    BY <1>1 DEF AlreadyRunning
  <2>2. Parts'
    BY <2>1 DEF Parts, watcherVars
  <2>3. CASE life # "up"
    <3>1. ~Clean' /\ "early" \in excuse' /\ life' # "up"
      BY <2>1, <2>3 DEF Clean, Early
    <3>2. Starting'
      BY <3>1 DEF Starting
    <3>3. Obeys'
      BY <3>1 DEF Obeys
    <3> QED
      BY <2>2, <3>2, <3>3
  <2>4. CASE life = "up" /\ Clean
    <3>1. told
      BY <2>1, <2>4 DEF Obeys, TypeOK
    <3>2. UNCHANGED <<life, watcherVars, enabled, file, told, excuse>>
      BY <2>1, <2>4, <3>1 DEF Early, TypeOK
    <3> QED
      BY <2>2, <3>2 DEF Starting, Obeys, Clean, Works, Runs, watcherVars
  <2>5. CASE life = "up" /\ ~Clean
    <3>1. ~Clean' /\ excuse' \ {"unsaved"} # {} /\ excuse' \ {"reused"} # {}
      BY <2>1, <2>5 DEF Clean
    <3> QED
      BY <2>1, <2>2, <2>5, <3>1 DEF Starting, Obeys
  <2> QED
    BY <2>3, <2>4, <2>5
<1>2. CASE Restart(c)
  <2>1. watcher # None /\ ~Runs(watcher) /\ running' = running \cup {watcher}
        /\ UNCHANGED <<life, fsn, ongoing, watcher, batcher>>
    BY <1>2 DEF Restart
  <2>2. CASE /\ cut' = cut \ {watcher} /\ cancels' = watcher /\ told' = TRUE
             /\ persistWatcherEnabled(TRUE, excuse \cup Early \cup {"reused"})
    <3>0. /\ excuse' \ {"unsaved"} = (excuse \cup Early \cup {"reused"}) \ {"unsaved"}
          /\ "unsaved" \in excuse' \/ file' = TRUE
      BY <2>2, Persisted
    <3>1. Parts'
      BY <2>1, <2>2 DEF Parts, Serves, TypeOK, Obj
    <3>2. Starting'
      BY <2>1, <2>2, <3>0 DEF Starting, Clean, Early
    <3>3. CASE life # "up"
      <4>1. ~Clean' /\ "early" \in excuse' /\ life' # "up"
        BY <2>1, <3>0, <3>3 DEF Clean, Early
      <4> QED
        BY <3>1, <3>2, <4>1 DEF Obeys
    <3>4. CASE life = "up"
      <4>1. "reused" \in excuse' /\ told' /\ Runs(watcher)'
        BY <2>1, <2>2, <3>0 DEF Runs
      <4>2. excuse' \ {"reused"} = {} => file' = told'
        <5>1. CASE "unsaved" \in excuse'
          BY <5>1
        <5>2. CASE file' = TRUE
          BY <2>2, <5>2
        <5> QED
          BY <3>0, <5>1, <5>2
      <4>3. excuse' \ {"unsaved"} # {}
        BY <4>1
      <4>4. Obeys'
        BY <4>1, <4>2, <4>3 DEF Obeys
      <4> QED
        BY <3>1, <3>2, <4>4
    <3> QED
      BY <3>3, <3>4
  <2>3. CASE cut' = cut \cup {watcher} /\ cancels' = None /\ excuse' = excuse \cup {"failed"}
             /\ UNCHANGED <<enabled, file, told>>
    <3>1. Parts'
      BY <2>1, <2>3 DEF Parts, Serves, TypeOK, Obj
    <3>2. ~Clean' /\ "failed" \in excuse'
      BY <2>3 DEF Clean
    <3> QED
      BY <3>1, <3>2 DEF Starting, Obeys
  <2> QED
    BY <1>2, <2>2, <2>3 DEF Restart
<1>3. CASE Make(c)
  <2>1. watcher = None /\ UNCHANGED life
    BY <1>3 DEF Make
  <2>2. CASE /\ fsn' = [fsn EXCEPT !["made"] = "open"]
             /\ running' = running \cup {"made"} /\ ongoing' = ongoing \cup {"made"}
             /\ watcher' = "made" /\ batcher' = "made" /\ cancels' = "made"
             /\ persistWatcherEnabled(TRUE, (excuse \ {"failed", "forgotten"}) \cup Early)
             /\ told' = TRUE /\ UNCHANGED cut
    <3>0. /\ excuse' \ {"unsaved"} = ((excuse \ {"failed", "forgotten"}) \cup Early) \ {"unsaved"}
          /\ "unsaved" \in excuse' \/ file' = TRUE
      BY <2>2, Persisted
    <3>1. Parts'
      BY <2>1, <2>2 DEF Parts, Serves, TypeOK, Obj
    <3>2. Starting'
      BY <2>1, <2>2, <3>0 DEF Starting, Clean, Early
    <3>3. Obeys'
      BY <2>1, <2>2, <3>0 DEF Obeys, Clean, Early, Runs, Works, Parts, Starting, TypeOK, Obj
    <3> QED
      BY <3>1, <3>2, <3>3
  <2>3. CASE excuse' = excuse \cup {"failed"} /\ UNCHANGED <<watcherVars, enabled, file, told>>
    <3>1. Parts'
      BY <2>1, <2>3 DEF Parts, watcherVars
    <3>2. ~Clean' /\ "failed" \in excuse'
      BY <2>3 DEF Clean
    <3> QED
      BY <3>1, <3>2 DEF Starting, Obeys
  <2> QED
    BY <1>3, <2>2, <2>3 DEF Make
<1> QED
  BY <1>1, <1>2, <1>3 DEF StartWatcher

\* Stopping it does.
LEMMA StopWatcherInv ==
  ASSUME TypeOK, WatcherInv, NEW c \in Caller, Serves, StopWatcher(c), UNCHANGED life
  PROVE  WatcherInv'
<1> USE ClientDaemonAssumption DEF WatcherInv
<1>1. CASE ~Runs(watcher)
  <2>1. UNCHANGED <<life, watcherVars, enabled, file>> /\ told' = FALSE /\ excuse' = excuse \cup Early
    BY <1>1 DEF StopWatcher
  <2>2. Parts'
    BY <2>1 DEF Parts, watcherVars
  <2>3. Starting'
    BY <2>1 DEF Starting, Clean, Early
  <2>4. Obeys'
    <3>1. CASE life = "up"
      BY <1>1, <2>1, <3>1 DEF Obeys, Clean, Early, Runs, Works, watcherVars, TypeOK
    <3>2. CASE life # "up"
      BY <2>1, <3>2 DEF Obeys, Clean, Early
    <3> QED
      BY <3>1, <3>2
  <2> QED
    BY <2>2, <2>3, <2>4
<1>2. CASE Runs(watcher)
  <2>1. /\ ongoing' = ongoing \ {batcher} /\ batcher' = None
        /\ cut' = cut \cup {watcher} \cup ({cancels} \ {None}) /\ cancels' = None
        /\ running' = running \ {watcher} /\ fsn' = [fsn EXCEPT ![watcher] = "closed"]
        /\ UNCHANGED <<life, watcher>>
    BY <1>2 DEF StopWatcher
  <2>2. Parts'
    BY <1>2, <2>1 DEF Parts, Serves, Runs, TypeOK, Obj
  <2>3. CASE excuse' = excuse \cup {"failed"}
    <3>1. ~Clean' /\ "failed" \in excuse'
      BY <2>3 DEF Clean
    <3> QED
      BY <2>1, <2>2, <3>1 DEF Starting, Obeys
  <2>4. CASE told' = FALSE /\ persistWatcherEnabled(FALSE, IF life = "up" THEN {} ELSE excuse \cup Early)
    <3>1. /\ excuse' \ {"unsaved"} = (IF life = "up" THEN {} ELSE excuse \cup Early) \ {"unsaved"}
          /\ "unsaved" \in excuse' \/ file' = FALSE
      BY <2>4, Persisted
    <3>2. CASE life = "up"
      <4>1. \A w \in Obj : w \notin running' \cap ongoing'
        BY <1>2, <2>1 DEF Parts, Runs, TypeOK, Obj
      <4>2. Starting'
        BY <2>1, <3>2 DEF Starting
      <4>3. Obeys'
        BY <2>1, <2>4, <3>1, <3>2, <4>1 DEF Obeys, Clean, Runs, Works
      <4> QED
        BY <2>2, <4>2, <4>3
    <3>3. CASE life # "up"
      <4>1. ~Clean' /\ "early" \in excuse'
        BY <3>1, <3>3 DEF Clean, Early
      <4> QED
        BY <2>1, <2>2, <3>3, <4>1 DEF Starting, Obeys
    <3> QED
      BY <3>2, <3>3
  <2> QED
    BY <1>2, <2>3, <2>4 DEF StopWatcher
<1> QED
  BY <1>1, <1>2

\* A start of the daemon does, as the file says.
LEMMA StartClientInv ==
  ASSUME TypeOK, WatcherInv, startClient
  PROVE  WatcherInv'
<1> USE ClientDaemonAssumption DEF WatcherInv
<1>1. CASE Boot
  BY <1>1 DEF Boot, TypeOK, Parts, Starting, Obeys, Clean, Works, Runs, Obj, watcherVars
<1>2. CASE BootWatcher
  <2>1. /\ life = "serving" /\ UNCHANGED <<cut, watcher, batcher, cancels, enabled, file, told>>
        /\ UNCHANGED ongoing
    BY <1>2 DEF BootWatcher
  <2>2. CASE ~enabled /\ life' = "up" /\ UNCHANGED <<fsn, running, excuse>>
    <3>1. Parts'
      BY <2>1, <2>2 DEF Parts
    <3> QED
      BY <2>1, <2>2, <3>1 DEF Parts, Starting, Obeys, Clean, Runs, Works, TypeOK
  <2>3. CASE /\ enabled /\ life' = "starting" /\ fsn' = [fsn EXCEPT !["boot"] = "open"]
             /\ running' = running \cup {"boot"} /\ UNCHANGED excuse
    <3>1. Parts'
      BY <2>1, <2>3 DEF Parts, TypeOK, Obj
    <3> QED
      BY <2>1, <2>3, <3>1 DEF Parts, Starting, Obeys, Clean, TypeOK, Obj
  <2>4. CASE life' = "up" /\ excuse' = excuse \cup {"failed"} /\ UNCHANGED <<fsn, running>>
    <3>1. Parts'
      BY <2>1, <2>4 DEF Parts
    <3>2. ~Clean' /\ "failed" \in excuse'
      BY <2>4 DEF Clean
    <3> QED
      BY <2>4, <3>1, <3>2 DEF Starting, Obeys
  <2> QED
    BY <1>2, <2>2, <2>3, <2>4 DEF BootWatcher
<1>3. CASE SetWatcher
  BY <1>3 DEF SetWatcher, TypeOK, Parts, Starting, Obeys, Clean, Works, Runs, Obj, configVars
<1>4. CASE Shutdown
  BY <1>4 DEF Shutdown, TypeOK, Parts, Starting, Obeys, Clean, Works, Runs, Obj, configVars
<1>5. CASE Exit
  BY <1>5 DEF Exit, NoWatchers, TypeOK, Parts, Starting, Obeys, Clean, Works, Runs, Obj
<1> QED
  BY <1>1, <1>2, <1>3, <1>4, <1>5 DEF startClient

\* Nothing else touches watchers, configuration or the daemon's life.
LEMMA OtherWatcherInv ==
  ASSUME WatcherInv, UNCHANGED <<life, watcherVars, configVars>>
  PROVE  WatcherInv'
  BY DEF WatcherInv, Parts, Starting, Obeys, Clean, Works, Runs, watcherVars, configVars

-----------------------------------------------------------------------------
(* Requests for a backup, and jobs. *)

\* Initially nothing was asked and nothing runs.
LEMMA InitCounted == Init => Counted /\ RunningJobsRun
  BY DEF Init, Counted, CountedCall, NoCall, RunningJobsRun, Serves

\* One caller moves on and the others keep their counts.
LEMMA CountedUpdate ==
  ASSUME TypeOK, Counted, NEW c \in Caller, NEW r, CountedCall(r), call' = [call EXCEPT ![c] = r]
  PROVE  Counted'
<1>1. call \in [Caller -> Call]
  BY TypeParts DEF CallType
<1> QED
  BY <1>1 DEF Counted

\* An answer accounts for the backups its call has started.
LEMMA AnswersCounted ==
  ASSUME TypeOK, Counted, NEW c \in Caller, NEW a \in {"ok", "exists", "failed"}, NEW n \in {0, 1},
         call[c].at = "sent", call[c].op = "trigger" => n = IF a = "ok" THEN 1 ELSE 0,
         Answers(c, a, n)
  PROVE  Counted'
<1> DEFINE b == call[c].begun + n
           r == [call[c] EXCEPT !.at = "handled", !.answer = a, !.begun = b]
<1>1. call[c] \in Call /\ call[c].begun \in Nat /\ b \in Nat
  BY CallFits, TypeParts DEF CallType
<1>2. CountedCall(call[c])
  BY DEF Counted
<1>3. r.at = "handled" /\ r.answer = a /\ r.begun = b /\ r.op = call[c].op /\ (r.lost <=> call[c].lost)
  <2> HIDE DEF b
  <2> QED
    BY <1>1 DEF Call
<1>4. CountedCall(r)
  <2>1. CASE call[c].op = "trigger" /\ ~call[c].lost
    <3>1. call[c].begun = 0
      BY <1>2, <2>1 DEF CountedCall
    <3>2. b = IF a = "ok" THEN 1 ELSE 0
      BY <2>1, <3>1
    <3> HIDE DEF r, b
    <3> QED
      BY <1>3, <3>2 DEF CountedCall
  <2>2. CASE call[c].op # "trigger" \/ call[c].lost
    <3> HIDE DEF r, b
    <3> QED
      BY <1>3, <2>2 DEF CountedCall
  <2> QED
    BY <2>1, <2>2
<1>5. call' = [call EXCEPT ![c] = r]
  BY DEF Answers
<1> HIDE DEF r
<1> QED
  BY <1>4, <1>5, CountedUpdate

\* A call, and a call that is repeated, starts as many as it accounts for.
LEMMA CallCounted ==
  ASSUME TypeOK, Counted, NEW c \in Caller,
         \/ \E kind \in Kind, op \in Op : Request(c, kind, op)
         \/ Handle(c) \/ Lose(c) \/ Retry(c) \/ Return(c)
  PROVE  Counted'
<1>0. call[c] \in Call /\ CountedCall(call[c])
  BY TypeParts DEF CallType, Counted
<1>1. CASE \E kind \in Kind, op \in Op : Request(c, kind, op)
  <2>1. PICK kind \in Kind, op \in Op : Request(c, kind, op)
    BY <1>1
  <2> DEFINE r == [NoCall EXCEPT !.op = op, !.kind = kind, !.at = "sent"]
  <2>2. CountedCall(r)
    BY DEF CountedCall, NoCall
  <2>3. call' = [call EXCEPT ![c] = r]
    BY <2>1 DEF Request
  <2> HIDE DEF r
  <2> QED
    BY <2>2, <2>3, CountedUpdate
<1>2. CASE Handle(c)
  <2>1. call[c].at = "sent"
    BY <1>2 DEF Handle
  <2>2. CASE call[c].op = "trigger"
    <3>1. Answers(c, "exists", 0) \/ Answers(c, "ok", 1)
      BY <1>2, <2>2 DEF Handle, TriggerBackup
    <3> QED
      BY <2>1, <3>1, AnswersCounted
  <2>3. CASE call[c].op # "trigger"
    <3>1. Answers(c, "ok", 0) \/ Answers(c, "failed", 0)
      BY <1>2, <2>3 DEF Handle, StopBackup, StartWatcher, AlreadyRunning, Restart, Make, StopWatcher
    <3> QED
      BY <2>1, <2>3, <3>1, AnswersCounted
  <2> QED
    BY <2>2, <2>3
<1>3. CASE Lose(c)
  <2> DEFINE l == call[c].lost \/ (call[c].at = "handled" /\ call[c].op = "trigger")
             r == [call[c] EXCEPT !.at = "broken", !.answer = "failed", !.lost = l]
  <2>1. l \in BOOLEAN
    OBVIOUS
  <2>2. r.at = "broken" /\ r.answer = "failed" /\ r.begun = call[c].begun /\ r.op = call[c].op /\ (r.lost <=> l)
    <3> HIDE DEF l
    <3> QED
      BY <1>0, <2>1, Lost
  <2>3. call[c].at \in {"sent", "handled"}
    BY <1>3 DEF Lose
  <2>4. CountedCall(r)
    <3> HIDE DEF r
    <3> QED
      BY <1>0, <2>2, <2>3 DEF CountedCall
  <2>5. call' = [call EXCEPT ![c] = r]
    BY <1>3 DEF Lose
  <2> HIDE DEF r
  <2> QED
    BY <2>4, <2>5, CountedUpdate
<1>4. CASE Retry(c)
  <2> DEFINE n == call[c].tries + 1
             r == [call[c] EXCEPT !.at = "sent", !.tries = n]
  <2>1. n \in Nat
    BY CallFits
  <2>2. r.at = "sent" /\ r.begun = call[c].begun /\ r.op = call[c].op /\ (r.lost <=> call[c].lost)
    <3> HIDE DEF n
    <3> QED
      BY <1>0, <2>1 DEF Call
  <2>3. call[c].at = "broken"
    BY <1>4 DEF Retry
  <2>4. CountedCall(r)
    <3> HIDE DEF r
    <3> QED
      BY <1>0, <2>2, <2>3 DEF CountedCall
  <2>5. call' = [call EXCEPT ![c] = r]
    BY <1>4 DEF Retry
  <2> HIDE DEF r
  <2> QED
    BY <2>4, <2>5, CountedUpdate
<1>5. CASE Return(c)
  <2>1. CountedCall(NoCall)
    BY DEF CountedCall, NoCall
  <2>2. call' = [call EXCEPT ![c] = NoCall]
    BY <1>5 DEF Return
  <2> QED
    BY <2>1, <2>2, CountedUpdate
<1> QED
  BY <1>1, <1>2, <1>3, <1>4, <1>5

\* A running job is that of the engine at work.
LEMMA NextJobs ==
  ASSUME TypeOK, RunningJobsRun, Next
  PROVE  RunningJobsRun'
<1> USE DEF RunningJobsRun, Serves, TypeOK
<1>1. CASE startClient
  BY <1>1 DEF startClient, Boot, BootWatcher, SetWatcher, Shutdown, Exit, backupVars
<1>2. CASE RunBackup \/ BackupEnds
  BY <1>2 DEF RunBackup, BackupEnds
<1>3. CASE Heartbeat \/ Silence \/ SetDisabled
  BY <1>3 DEF Heartbeat, Silence, SetDisabled, backupVars
<1>4. ASSUME NEW c \in Caller,
             \/ \E kind \in Kind, op \in Op : Request(c, kind, op)
             \/ Handle(c) \/ Lose(c) \/ Retry(c) \/ Return(c)
      PROVE  RunningJobsRun'
  BY <1>4 DEF Request, Handle, Lose, Retry, Return, TriggerBackup, StopBackup, quiet, backupVars
<1> QED
  BY <1>1, <1>2, <1>3, <1>4 DEF Next

-----------------------------------------------------------------------------
\* The invariant holds initially.
LEMMA InitInv == Init => Inv
  BY InitType, InitWatcher, InitCounted DEF Inv

\* Every step keeps it.
LEMMA NextInv ==
  ASSUME Inv, [Next]_vars
  PROVE  Inv'
<1> USE DEF Inv
<1>1. CASE startClient
  <2>1. Counted'
    BY <1>1 DEF startClient, Boot, BootWatcher, SetWatcher, Shutdown, Exit, Counted
  <2> QED
    BY <1>1, <2>1, DaemonType, StartClientInv, NextJobs DEF Next
<1>2. CASE RunBackup \/ BackupEnds \/ Heartbeat \/ Silence \/ SetDisabled
  <2>1. Counted' /\ UNCHANGED <<life, watcherVars, configVars>>
    BY <1>2 DEF RunBackup, BackupEnds, Heartbeat, Silence, SetDisabled, Counted
  <2> QED
    BY <1>2, <2>1, DaemonType, OtherWatcherInv, NextJobs DEF Next
<1>3. ASSUME NEW c \in Caller, Handle(c)
      PROVE  Inv'
  <2>1. WatcherInv'
    <3>1. CASE call[c].op \in {"trigger", "stopBackup"}
      BY <1>3, <3>1, OtherWatcherInv DEF Handle
    <3>2. CASE call[c].op = "startWatcher"
      BY <1>3, <3>2, StartWatcherInv DEF Handle
    <3>3. CASE call[c].op = "stopWatcher"
      BY <1>3, <3>3, StopWatcherInv DEF Handle
    <3> QED
      BY <1>3, <3>1, <3>2, <3>3 DEF Handle
  <2> QED
    BY <1>3, <2>1, HandleType, CallCounted, NextJobs DEF Next
<1>4. ASSUME NEW c \in Caller,
             (\E kind \in Kind, op \in Op : Request(c, kind, op)) \/ Lose(c) \/ Retry(c) \/ Return(c)
      PROVE  Inv'
  <2>1. UNCHANGED <<life, watcherVars, configVars>>
    BY <1>4 DEF Request, Lose, Retry, Return, quiet
  <2> QED
    BY <1>4, <2>1, CallerType, OtherWatcherInv, CallCounted, NextJobs DEF Next
<1>5. CASE UNCHANGED vars
  <2>1. TypeOK'
    BY <1>5 DEF vars, TypeOK, watcherVars, configVars, backupVars, registryVars, bounds
  <2>2. Counted' /\ RunningJobsRun'
    BY <1>5 DEF vars, Counted, RunningJobsRun, Serves, backupVars
  <2> QED
    BY <1>5, <2>1, <2>2, OtherWatcherInv DEF vars
<1> QED
  BY <1>1, <1>2, <1>3, <1>4, <1>5 DEF Next

\* It holds always.
LEMMA Invariant == Spec => []Inv
  BY InitInv, NextInv, PTL DEF Spec

\* Every variable keeps its type.
THEOREM DaemonTypeCorrect == Spec => []TypeOK
<1>1. Inv => TypeOK
  BY DEF Inv
<1> QED
  BY Invariant, <1>1, PTL

\* The watcher does what the last command asked for, and the file says so to the next
\* life of the daemon, but for the accidents on record, failed saves among them.
THEOREM LastCommandHolds == Spec => []LastWordHolds
<1>1. ASSUME Inv PROVE LastWordHolds
  <2> SUFFICES ASSUME life = "up" PROVE
        /\ told => Cardinality({w \in Obj : Works(w)}) = 1 \/ excuse \ {"unsaved"} # {}
        /\ ~told => (\A w \in Obj : ~Works(w)) \/ excuse \cap {"early", "failed", "forgotten"} # {}
        /\ file = told \/ excuse \ {"reused"} # {}
    BY DEF LastWordHolds
  <2>1. ASSUME told, excuse \ {"unsaved"} = {}
        PROVE  Cardinality({w \in Obj : Works(w)}) = 1
    <3>1. \A w \in Obj : Works(w) <=> w = watcher
      BY <1>1, <2>1 DEF Inv, WatcherInv, Obeys
    <3>2. Runs(watcher)
      BY <1>1, <2>1 DEF Inv, WatcherInv, Obeys, Clean
    <3>3. watcher \in Obj
      BY <1>1, <3>2 DEF Inv, TypeOK, Runs
    <3>4. {w \in Obj : Works(w)} = {watcher}
      BY <3>1, <3>3
    <3> QED
      BY <3>4, FS_Singleton
  <2>2. ~told => (\A w \in Obj : ~Works(w)) \/ excuse \cap {"early", "failed", "forgotten"} # {}
    BY <1>1 DEF Inv, WatcherInv, Obeys, Clean
  <2>3. file = told \/ excuse \ {"reused"} # {}
    BY <1>1 DEF Inv, WatcherInv, Obeys, Clean
  <2> QED
    BY <2>1, <2>2, <2>3
<1> QED
  BY Invariant, <1>1, PTL

\* A request for a backup that is answered has started one or none, as the answer says.
THEOREM AnswersCount == Spec => []TriggersAccounted
<1>1. Inv => TriggersAccounted
  BY DEF Inv, Counted, CountedCall, TriggersAccounted
<1> QED
  BY Invariant, <1>1, PTL

\* While the daemon lives, the last triggered backup's job is recorded as running only
\* while it is being run, or when the statement that should have ended it has failed.
THEOREM NoStaleJobs == Spec => []RunningJobsRun
<1>1. Inv => RunningJobsRun
  BY DEF Inv
<1> QED
  BY Invariant, <1>1, PTL

=============================================================================
