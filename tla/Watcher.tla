------------------------------ MODULE Watcher ------------------------------
(***************************************************************************)
(* The file watcher and the ongoing backup it feeds, and the web UI's      *)
(* controller that starts and stops them.                                  *)
(*                                                                         *)
(* An event of the file system arms a debounce timer, which puts the file  *)
(* in the stability gate, whose timer looks at the file, hashes it and     *)
(* sends it on a channel; the ongoing backup collects what it receives in  *)
(* a batch and works the batch off at intervals.  Timers are abstracted to *)
(* their order: an armed one may expire at any time.  Every write gives a  *)
(* file a new content, whose number stands for the content, its hash and   *)
(* the file's modification time; 0 is no file.                             *)
(*                                                                         *)
(* Pipeline k is the one made by the k-th start.                           *)
(***************************************************************************)
EXTENDS Naturals, Sequences

CONSTANTS
  File,
  Cap,        \* capacity of the channel of stable files
  MaxWrites,  \* bound on changes of files
  MaxStarts,  \* bound on starts
  MaxMoves    \* bound on both and on failing calls and edits of the exclusions, together:
              \* a start counts for two

ASSUME WatcherAssumption ==
  /\ Cap \in Nat \ {0}
  /\ MaxWrites \in Nat /\ MaxStarts \in Nat \ {0} /\ MaxMoves \in Nat

Life == 1..MaxStarts
Version == 0..MaxWrites
StableFile == [path : File, hash : Version]

VARIABLES
  disk,      \* the files' contents
  clock,     \* writes so far
  excluded,  \* the watch exclusions in the database
  recorded,  \* contents that backup entries name
  blob,      \* what is stored under each hash, 0 if nothing
  fw,        \* FileWatcher: "none", "on", or "off" once it was stopped
  watched,   \* its files
  event,     \* files with an event it has not handled
  timer,     \* ... with a debounce timer
  gate,      \* ... in the stability gate: the modification time found then, or 0
  checks,    \* callbacks of the gate's timers that are under way
  stableCh,  \* stable files not yet received
  receiver,  \* whether the goroutine that receives them runs
  batch,     \* received files
  work,      \* what the ticker's goroutine, or Stop, does with a batch
  halt,      \* how far OngoingBackup.Stop is; "late" when its flush's time is over
  received,  \* all that was ever received
  missing,   \* contents given up: a look at the file or a call failed, the batch was in
             \* work when it was stopped, or the final flush had no time left for it
  left,      \* pipelines that have left a job "running"
  mode,      \* the web UI's watcher, or one in the foreground
  running, current, made,  \* the controller's flag, context and pipeline
  lock,      \* who holds the controller's lock over several steps
  start,     \* what the goroutine of each start is at
  ctxOf,     \* the context it has read
  cancelled, \* contexts that are
  starts, mishaps

disks == <<disk, clock, excluded>>
stores == <<recorded, blob>>
watchers == <<fw, watched, event, timer, gate, checks>>
ongoings == <<stableCh, receiver, batch, work, halt, received, missing, left>>
control == <<mode, running, current, made, lock, start, ctxOf, cancelled>>
watcherVars == <<disks, stores, watchers, ongoings, control, starts, mishaps>>

NoBatch == [at |-> "idle", list |-> <<>>, flush |-> FALSE]

WatcherTypeOK ==
  /\ disk \in [File -> Version] /\ clock \in Version /\ excluded \in SUBSET File
  /\ recorded \in SUBSET Version /\ blob \in [1..MaxWrites -> Version]
  /\ fw \in [Life -> {"none", "on", "off"}]
  /\ watched \in [Life -> SUBSET File] /\ event \in [Life -> SUBSET File]
  /\ timer \in [Life -> SUBSET File] /\ gate \in [Life -> [File -> Version]]
  /\ checks \in [Life -> SUBSET [file : File, step : {"stat", "hash", "send"}, seen : Version]]
  /\ stableCh \in [Life -> Seq(StableFile)] /\ \A k \in Life : Len(stableCh[k]) <= Cap
  /\ receiver \in [Life -> BOOLEAN] /\ batch \in [Life -> Seq(StableFile)]
  /\ work \in [Life -> [at : {"idle", "job", "file", "read", "insert", "gone"},
                        list : Seq(StableFile), flush : BOOLEAN]]
  /\ halt \in [Life -> {"no", "waiting", "flushing", "late", "done"}]
  /\ received \in [Life -> SUBSET Version] /\ missing \in [Life -> SUBSET Version]
  /\ left \in SUBSET Life
  /\ mode \in {"web", "foreground"} /\ running \in BOOLEAN
  /\ current \in {0} \cup Life /\ made \in {0} \cup Life
  /\ lock \in {"free", "stop"}
  /\ start \in [Life -> {"none", "spawned", "init", "made", "abandon", "failed", "done"}]
  /\ ctxOf \in [Life -> {0} \cup Life] /\ cancelled \in SUBSET Life
  /\ starts \in {0} \cup Life /\ mishaps \in 0..MaxMoves

WatcherInit ==
  /\ disk = [f \in File |-> 0] /\ clock = 0 /\ excluded = {}
  /\ recorded = {} /\ blob = [h \in 1..MaxWrites |-> 0]
  /\ fw = [k \in Life |-> "none"] /\ watched = [k \in Life |-> {}]
  /\ event = [k \in Life |-> {}] /\ timer = [k \in Life |-> {}]
  /\ gate = [k \in Life |-> [f \in File |-> 0]] /\ checks = [k \in Life |-> {}]
  /\ stableCh = [k \in Life |-> <<>>] /\ receiver = [k \in Life |-> FALSE]
  /\ batch = [k \in Life |-> <<>>] /\ work = [k \in Life |-> NoBatch]
  /\ halt = [k \in Life |-> "no"]
  /\ received = [k \in Life |-> {}] /\ missing = [k \in Life |-> {}] /\ left = {}
  /\ mode \in {"web", "foreground"}
  /\ running = FALSE /\ current = 0 /\ made = 0 /\ lock = "free"
  /\ start = [k \in Life |-> "none"] /\ ctxOf = [k \in Life |-> 0] /\ cancelled = {}
  /\ starts = 0 /\ mishaps = 0

May == clock + 2 * starts + mishaps < MaxMoves

Mishap == May /\ mishaps' = mishaps + 1

FwDone(k) == fw[k] = "off" \/ ctxOf[k] \in cancelled
OngoingDone(k) == halt[k] # "no" \/ ctxOf[k] \in cancelled

-----------------------------------------------------------------------------
(* The files. *)

Notify == [k \in Life |-> {f \in watched[k] : fw[k] = "on" /\ disk'[f] # disk[f]} \cup event[k]]

Change(f) ==
  /\ May /\ clock < MaxWrites
  /\ clock' = clock + 1
  /\ disk' \in {[disk EXCEPT ![f] = clock + 1], [disk EXCEPT ![f] = 0]}
  /\ event' = Notify
  /\ UNCHANGED <<excluded, stores, fw, watched, timer, gate, checks, ongoings, control, starts,
                 mishaps>>

EditOnly == UNCHANGED <<disk, clock, stores, watchers, ongoings, control, starts>>

\* The lists of exclusions are edited in the database; a watcher reads them when
\* it starts.
handleWatchersAdd(f) == Mishap /\ excluded' = excluded \cup {f} /\ EditOnly
handleWatchersDelete(f) == Mishap /\ excluded' = excluded \ {f} /\ EditOnly

-----------------------------------------------------------------------------
(* FileWatcher. *)

\* FileWatcher.Start and OngoingBackup.Start: what pipeline k watches.
StartPipeline(k) ==
  /\ fw' = [fw EXCEPT ![k] = "on"]
  /\ watched' = [watched EXCEPT ![k] = File \ excluded]
  /\ receiver' = [receiver EXCEPT ![k] = TRUE]
  /\ UNCHANGED <<event, timer, gate, checks, stableCh, batch, work, halt, received, missing,
                 left>>

\* FileWatcher.Stop: timers are stopped; a callback under way goes on.
StopWatching(k) ==
  /\ fw' = [fw EXCEPT ![k] = "off"]
  /\ event' = [event EXCEPT ![k] = {}] /\ timer' = [timer EXCEPT ![k] = {}]
  /\ gate' = [gate EXCEPT ![k] = [f \in File |-> 0]]
  /\ UNCHANGED <<watched, checks>>

handleEvent(k, f) ==
  /\ f \in event[k] /\ ~FwDone(k)
  /\ event' = [event EXCEPT ![k] = @ \ {f}]
  /\ timer' = [timer EXCEPT ![k] = @ \cup {f}]
  /\ UNCHANGED <<fw, watched, gate, checks, ongoings, stores>>

\* The file enters the gate, or its timer there is set anew.
onDebounceExpired(k, f) ==
  /\ f \in timer[k]
  /\ timer' = [timer EXCEPT ![k] = @ \ {f}]
  /\ gate' = IF disk[f] = 0 THEN gate ELSE [gate EXCEPT ![k][f] = disk[f]]
  /\ UNCHANGED <<fw, watched, event, checks, ongoings, stores>>

\* The callback of the gate's timer takes the entry ...
onStabilityExpired(k, f) ==
  /\ gate[k][f] # 0
  /\ gate' = [gate EXCEPT ![k][f] = 0]
  /\ checks' = IF FwDone(k) THEN checks
               ELSE [checks EXCEPT ![k] = @ \cup {[file |-> f, step |-> "stat", seen |-> gate[k][f]]}]
  /\ UNCHANGED <<fw, watched, event, timer, ongoings, stores>>

Drop(k, c) == checks' = [checks EXCEPT ![k] = @ \ {c}]
Step(k, c, step, seen) ==
  checks' = [checks EXCEPT ![k] = (@ \ {c}) \cup {[c EXCEPT !.step = step, !.seen = seen]}]

\* ... looks at the file without the lock, and puts a changed one back ...
Stat(k, c) ==
  LET now == disk[c.file]
  IN  /\ c \in checks[k] /\ c.step = "stat"
      /\ IF now = c.seen THEN Step(k, c, "hash", now) ELSE Drop(k, c)
      /\ gate' = IF now \in {0, c.seen} THEN gate ELSE [gate EXCEPT ![k][c.file] = now]
      /\ UNCHANGED <<fw, watched, event, timer, ongoings, stores>>

\* ... hashes it as it is by then ...
HashFile(k, c) ==
  /\ c \in checks[k] /\ c.step = "hash"
  /\ IF disk[c.file] = 0 THEN Drop(k, c) ELSE Step(k, c, "send", disk[c.file])
  /\ UNCHANGED <<fw, watched, event, timer, gate, ongoings, stores>>

\* A look at the file that fails, whatever the reason, is taken for a file that is gone.
LookFails(k, f) ==
  /\ Mishap
  /\ \/ /\ f \in timer[k]
        /\ timer' = [timer EXCEPT ![k] = @ \ {f}]
        /\ UNCHANGED checks
     \/ /\ \E c \in checks[k] : c.file = f /\ c.step \in {"stat", "hash"} /\ Drop(k, c)
        /\ UNCHANGED timer
  /\ missing' = [missing EXCEPT ![k] = @ \cup {disk[f]}]
  /\ UNCHANGED <<fw, watched, event, gate, stableCh, receiver, batch, work, halt, received, left,
                 stores>>

Emit(k, c) == [stableCh EXCEPT ![k] = Append(@, [path |-> c.file, hash |-> c.seen])]

\* mutant: a full channel is not waited for
SendOrDrop(k, c) ==
  /\ c \in checks[k] /\ c.step = "send"
  /\ Drop(k, c)
  /\ stableCh' = IF Len(stableCh[k]) < Cap THEN Emit(k, c) ELSE stableCh
  /\ UNCHANGED <<fw, watched, event, timer, gate, receiver, batch, work, halt, received, missing,
                 left, stores>>

\* ... and waits for room in the channel or the end of the watcher.
Send(k, c) ==
  /\ c \in checks[k] /\ c.step = "send"
  /\ Drop(k, c)
  /\ \/ Len(stableCh[k]) < Cap /\ stableCh' = Emit(k, c)
     \/ FwDone(k) /\ UNCHANGED stableCh
  /\ UNCHANGED <<fw, watched, event, timer, gate, receiver, batch, work, halt, received, missing,
                 left, stores>>

-----------------------------------------------------------------------------
(* OngoingBackup. *)

Contents(list) == {list[i].hash : i \in DOMAIN list}

\* Whether the context of the batch in work is: the pipeline's, or the final flush's own.
Alive(k) == IF work[k].flush THEN halt[k] # "late" ELSE ~OngoingDone(k)

\* receiveFiles: one more may be received after the context is cancelled.
receiveFiles(k) ==
  /\ receiver[k]
  /\ \/ /\ stableCh[k] # <<>>
        /\ batch' = [batch EXCEPT ![k] = Append(@, Head(stableCh[k]))]
        /\ received' = [received EXCEPT ![k] = @ \cup {Head(stableCh[k]).hash}]
        /\ stableCh' = [stableCh EXCEPT ![k] = Tail(@)]
        /\ UNCHANGED receiver
     \/ /\ OngoingDone(k)
        /\ receiver' = [receiver EXCEPT ![k] = FALSE]
        /\ UNCHANGED <<batch, received, stableCh>>
  /\ UNCHANGED <<work, halt, missing, left, stores, watchers>>

\* batchTicker: and so may a tick, whose batch is lost then.
batchTicker(k) ==
  /\ work[k].at = "idle"
  /\ \/ /\ batch[k] # <<>>
        /\ work' = [work EXCEPT ![k] = [at |-> "job", list |-> batch[k], flush |-> FALSE]]
        /\ batch' = [batch EXCEPT ![k] = <<>>]
     \/ /\ OngoingDone(k) /\ fw[k] # "none"
        /\ work' = [work EXCEPT ![k].at = "gone"]
        /\ UNCHANGED batch
  /\ UNCHANGED <<stableCh, receiver, halt, received, missing, left, stores, watchers>>

\* mutant: what remains is handed to the cancelled context
StopLate(k) ==
  /\ halt[k] = "waiting" /\ ~receiver[k] /\ work[k].at = "gone"
  /\ halt' = [halt EXCEPT ![k] = "flushing"]
  /\ work' = [work EXCEPT ![k] = [at |-> "gone", list |-> batch[k], flush |-> FALSE]]
  /\ batch' = [batch EXCEPT ![k] = <<>>]
  /\ UNCHANGED <<stableCh, receiver, received, missing, left, stores, watchers>>

\* Stop waits for both goroutines and works off what remains with a context of its
\* own ...
Stop(k) ==
  /\ halt[k] = "waiting" /\ ~receiver[k] /\ work[k].at = "gone"
  /\ halt' = [halt EXCEPT ![k] = "flushing"]
  /\ work' = IF batch[k] = <<>> THEN work
             ELSE [work EXCEPT ![k] = [at |-> "job", list |-> batch[k], flush |-> TRUE]]
  /\ batch' = [batch EXCEPT ![k] = <<>>]
  /\ UNCHANGED <<stableCh, receiver, received, missing, left, stores, watchers>>

\* ... which ends after two minutes.
FlushExpires(k) ==
  /\ halt[k] = "flushing" /\ work[k].flush /\ Mishap
  /\ halt' = [halt EXCEPT ![k] = "late"]
  /\ UNCHANGED <<stableCh, receiver, batch, work, received, missing, left, stores, watchers>>

StopReturns(k) ==
  /\ halt[k] \in {"flushing", "late"} /\ work[k].at = "gone"
  /\ halt' = [halt EXCEPT ![k] = "done"]
  /\ stableCh' = [stableCh EXCEPT ![k] = <<>>]   \* nobody receives from it
  /\ UNCHANGED <<receiver, batch, work, received, missing, left, stores, watchers>>

BatchEnds(k) == work' = [work EXCEPT ![k] = [NoBatch EXCEPT !.at = IF work[k].flush THEN "gone" ELSE "idle"]]

GiveUp(k, lost) == missing' = [missing EXCEPT ![k] = @ \cup lost]

\* processBatch: without a job nothing is done ...
CreateJob(k) ==
  /\ work[k].at = "job"
  /\ \/ Alive(k) /\ work' = [work EXCEPT ![k].at = "file"] /\ UNCHANGED <<missing, mishaps>>
     \/ ~Alive(k) /\ BatchEnds(k) /\ GiveUp(k, Contents(work[k].list)) /\ UNCHANGED mishaps
     \/ Mishap /\ BatchEnds(k) /\ GiveUp(k, Contents(work[k].list))
  /\ UNCHANGED <<stableCh, receiver, batch, halt, received, left, stores, watchers>>

\* ... no file is begun once the context is cancelled, and then the job's end, which
\* would be recorded with that context, is not.
FinishJob(k) ==
  /\ work[k].at = "file" /\ (work[k].list = <<>> \/ ~Alive(k))
  /\ BatchEnds(k)
  /\ GiveUp(k, Contents(work[k].list))
  /\ left' = IF Alive(k) THEN left ELSE left \cup {k}
  /\ UNCHANGED <<stableCh, receiver, batch, halt, received, stores, watchers>>

FileDone(k) == work' = [work EXCEPT ![k].at = "file", ![k].list = Tail(@)]

FileFails(k) == FileDone(k) /\ GiveUp(k, {Head(work[k].list).hash}) /\ UNCHANGED stores

\* processFile: a file that is gone by now, or whose call fails, is given up; what
\* the server has already is not read.
ExchangeManifest(k) ==
  /\ work[k].at = "file" /\ work[k].list # <<>> /\ Alive(k)
  /\ LET sf == Head(work[k].list)
     IN  \/ /\ disk[sf.path] # 0
            /\ work' = [work EXCEPT ![k].at = IF blob[sf.hash] = 0 THEN "read" ELSE "insert"]
            /\ UNCHANGED <<missing, stores, mishaps>>
         \/ /\ IF disk[sf.path] = 0 THEN UNCHANGED mishaps ELSE Mishap
            /\ FileFails(k)
  /\ UNCHANGED <<stableCh, receiver, batch, halt, received, left, watchers>>

\* readFileRetry: the content as it is by now, 0 if there is none.
readFileRetry(sf) == disk[sf.path]

\* It is stored under the hash the file had in the gate.
UploadFile(k) ==
  /\ work[k].at = "read"
  /\ LET sf == Head(work[k].list)
     IN  IF readFileRetry(sf) = 0 THEN FileFails(k)
         ELSE /\ blob' = [blob EXCEPT ![sf.hash] = readFileRetry(sf)]
              /\ work' = [work EXCEPT ![k].at = "insert"]
              /\ UNCHANGED <<missing, recorded>>
  /\ UNCHANGED <<stableCh, receiver, batch, halt, received, left, watchers>>

InsertBackupEntry(k) ==
  /\ work[k].at = "insert"
  /\ IF Alive(k) THEN /\ recorded' = recorded \cup {Head(work[k].list).hash}
                      /\ FileDone(k)
                      /\ UNCHANGED <<missing, blob>>
     ELSE FileFails(k)
  /\ UNCHANGED <<stableCh, receiver, batch, halt, received, left, watchers>>

Pipeline(k) ==
  /\ \/ \E f \in File : handleEvent(k, f) \/ onDebounceExpired(k, f) \/ onStabilityExpired(k, f)
     \/ \E c \in checks[k] : Stat(k, c) \/ HashFile(k, c) \/ Send(k, c)
     \/ receiveFiles(k) \/ batchTicker(k) \/ Stop(k) \/ StopReturns(k)
     \/ FinishJob(k) \/ UploadFile(k) \/ InsertBackupEntry(k)
  /\ UNCHANGED mishaps

Works(k) ==
  /\ \/ Pipeline(k) \/ CreateJob(k) \/ ExchangeManifest(k) \/ FlushExpires(k)
     \/ \E f \in File : LookFails(k, f)
  /\ UNCHANGED <<disks, control, starts>>

-----------------------------------------------------------------------------
(* LocalWatcherController.  StopWatcher holds the lock until it is done, so that  *)
(* all else that needs it waits.                                                  *)

inPipeline == <<stores, fw, watched, event, timer, gate, checks, ongoings>>
Cancel(x) == cancelled' = cancelled \cup {x}

StartWatcher ==
  /\ mode = "web" /\ lock = "free" /\ ~running /\ starts < MaxStarts
  /\ clock + 2 * starts + mishaps + 1 < MaxMoves
  /\ starts' = starts + 1
  /\ running' = TRUE /\ current' = starts + 1
  /\ start' = [start EXCEPT ![starts + 1] = "spawned"]
  /\ UNCHANGED <<disks, inPipeline, mode, made, lock, ctxOf, cancelled, mishaps>>

\* The goroutine reads the controller's context without the lock: the one of a
\* later start, if it is slow.
ReadContext(k) ==
  /\ start[k] = "spawned"
  /\ ctxOf' = [ctxOf EXCEPT ![k] = current]
  /\ start' = [start EXCEPT ![k] = "init"]
  /\ UNCHANGED <<disks, inPipeline, mode, running, current, made, lock, cancelled, starts, mishaps>>

\* It lists the paths and starts watcher and ongoing backup.
Setup(k) ==
  /\ start[k] = "init"
  /\ \/ /\ ctxOf[k] \notin cancelled
        /\ StartPipeline(k)
        /\ start' = [start EXCEPT ![k] = "made"]
        /\ UNCHANGED mishaps
     \/ /\ IF ctxOf[k] \in cancelled THEN UNCHANGED mishaps ELSE Mishap
        /\ start' = [start EXCEPT ![k] = "failed"]
        /\ UNCHANGED <<fw, watched, event, timer, gate, checks, ongoings>>
  /\ UNCHANGED <<disks, stores, mode, running, current, made, lock, ctxOf, cancelled, starts>>

\* Before it installs them it looks whether it was cancelled, and gives up then.
Install(k) ==
  /\ start[k] = "made" /\ lock = "free"
  /\ IF ctxOf[k] \in cancelled
     THEN /\ StopWatching(k)
          /\ halt' = [halt EXCEPT ![k] = "waiting"]
          /\ start' = [start EXCEPT ![k] = "abandon"]
          /\ UNCHANGED made
     ELSE /\ made' = k
          /\ start' = [start EXCEPT ![k] = "done"]
          /\ UNCHANGED <<halt, fw, watched, event, timer, gate, checks>>
  /\ UNCHANGED <<disks, stores, stableCh, receiver, batch, work, received, missing, left,
                 mode, running, current, lock, ctxOf, cancelled, starts, mishaps>>

Abandoned(k) ==
  /\ start[k] = "abandon" /\ halt[k] = "done"
  /\ start' = [start EXCEPT ![k] = "failed"]
  /\ UNCHANGED <<disks, inPipeline, mode, running, current, made, lock, ctxOf, cancelled, starts,
                 mishaps>>

\* mutant: the context is left alone
FailQuietly(k) ==
  /\ start[k] = "failed" /\ lock = "free"
  /\ start' = [start EXCEPT ![k] = "done"]
  /\ running' = FALSE /\ made' = 0
  /\ UNCHANGED <<disks, inPipeline, mode, current, lock, ctxOf, cancelled, starts, mishaps>>

\* What fails is the controller's current start, whoever that was.
failStartup(k) ==
  /\ start[k] = "failed" /\ lock = "free"
  /\ start' = [start EXCEPT ![k] = "done"]
  /\ running' = FALSE /\ made' = 0
  /\ Cancel(current)
  /\ UNCHANGED <<disks, inPipeline, mode, current, lock, ctxOf, starts, mishaps>>

StopWatcher ==
  /\ mode = "web" /\ lock = "free" /\ running
  /\ lock' = "stop"
  /\ Cancel(current)
  /\ halt' = IF made = 0 THEN halt ELSE [halt EXCEPT ![made] = "waiting"]
  /\ UNCHANGED <<disks, stores, watchers, stableCh, receiver, batch, work, received, missing, left,
                 mode, running, current, made, start, ctxOf, starts, mishaps>>

StopWatcherReturns ==
  /\ lock = "stop" /\ (made # 0 => halt[made] = "done")
  /\ IF made = 0 THEN UNCHANGED watchers ELSE StopWatching(made)
  /\ lock' = "free" /\ running' = FALSE /\ made' = 0
  /\ UNCHANGED <<disks, stores, ongoings, mode, current, start, ctxOf, cancelled, starts, mishaps>>

\* "tergum watch run", and its end by a signal.
runWatch ==
  \/ /\ mode = "foreground" /\ starts = 0
     /\ StartPipeline(1)
     /\ starts' = 1 /\ running' = TRUE /\ made' = 1
     /\ ctxOf' = [ctxOf EXCEPT ![1] = 1] /\ start' = [start EXCEPT ![1] = "done"]
     /\ UNCHANGED <<disks, stores, mode, current, lock, cancelled, mishaps>>
  \/ /\ mode = "foreground" /\ running /\ lock = "free"
     /\ lock' = "stop" /\ Cancel(1)
     /\ halt' = [halt EXCEPT ![1] = "waiting"]
     /\ UNCHANGED <<disks, stores, watchers, stableCh, receiver, batch, work, received, missing, left,
                    mode, running, current, made, start, ctxOf, starts, mishaps>>

Controller ==
  \/ StopWatcherReturns
  \/ \E k \in Life : ReadContext(k) \/ Setup(k) \/ Install(k) \/ Abandoned(k) \/ failStartup(k)

WatcherNext ==
  \/ \E f \in File : Change(f) \/ handleWatchersAdd(f) \/ handleWatchersDelete(f)
  \/ \E k \in Life : Works(k)
  \/ StartWatcher \/ StopWatcher \/ runWatch \/ Controller

Fairness == \A k \in Life : WF_watcherVars(Works(k))

WatcherSpec == WatcherInit /\ [][WatcherNext]_watcherVars /\ Fairness

-----------------------------------------------------------------------------
(* Properties. *)

\* A change that the watcher was told of is backed up: the content is recorded, or
\* the file changes again, or its watcher is stopped, or a call for it has failed.
ChangeRecorded ==
  \A k \in Life, f \in File, v \in 1..MaxWrites :
    (f \in event[k] /\ disk[f] = v) ~>
      (v \in recorded \cup missing[k] \/ disk[f] # v \/ FwDone(k) \/ OngoingDone(k))

\* When Stop has returned, every file the ongoing backup had received is recorded,
\* those excepted that were in a batch in work, for which a look or a call failed, or for
\* which the two minutes of the final flush did not suffice.
StopFlushes ==
  \A k \in Life : halt[k] = "done" => received[k] \subseteq recorded \cup missing[k]

\* The controller's flag tells the truth: while it is not set, every context it has
\* made is cancelled, so nothing it ever started goes on unseen; and when it is set,
\* and no goroutine is starting, the pipeline is installed and alive.
FlagTellsTruth ==
  mode = "web" /\ lock = "free" =>
    /\ ~running => 1..starts \subseteq cancelled
    /\ running /\ (\A k \in Life : start[k] \in {"none", "done"}) =>
         made # 0 /\ fw[made] = "on" /\ ~FwDone(made) /\ ~OngoingDone(made)

=============================================================================
