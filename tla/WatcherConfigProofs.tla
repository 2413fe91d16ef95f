------------------------ MODULE WatcherConfigProofs ------------------------
(***************************************************************************)
(* What is proved of the two things the web UI and the commands change     *)
(* behind each other's back: the watcher they start and stop, and the      *)
(* configuration file.  The first half is about Watcher, the second about  *)
(* ConfigFile; neither uses the other.                                     *)
(*                                                                         *)
(* Watcher.  The invariant Whole has two parts.  Flowing: what a pipeline  *)
(* has received is recorded, given up, or still in its batch or in work;   *)
(* once Stop has waited for both goroutines nobody adds to the batch, and  *)
(* what is in work is the flush, so that nothing is left when it is done.  *)
(* Kept: how far each start's goroutine is says whether its pipeline runs; *)
(* the contexts of all starts but the last are cancelled, the last one's   *)
(* exactly when the flag is not set or someone is stopping; and a set flag *)
(* without a pipeline means that the last start is on its way.             *)
(*                                                                         *)
(* ConfigFile.  ConfigInv says, setting by setting: the file has what was  *)
(* reported but for what is marked as lost; so will what each editor is    *)
(* going to write, but for what it sets and what others have written since *)
(* it read the file; and so does the memory of a client's daemon.  A list  *)
(* of admins that is in force or was read since the last change has none   *)
(* whose removal was reported.  The reported path is the table's, or the   *)
(* one that brings it is still on its way, and whoever brings an older one *)
(* will be found out.                                                      *)
(***************************************************************************)
EXTENDS Watcher, ConfigFile, TLAPS

-----------------------------------------------------------------------------
(* The watcher: its invariant. *)

\* A callback of the gate's timer, and what is done with a batch.
Check == [file : File, step : {"stat", "hash", "send"}, seen : Version]
Batch == [at : {"idle", "job", "file", "read", "insert", "gone"},
          list : Seq(StableFile), flush : BOOLEAN]

\* The types of the model, by component.
FilesTyped ==
  /\ disk \in [File -> Version] /\ clock \in Version /\ excluded \in SUBSET File
  /\ recorded \in SUBSET Version /\ blob \in [1..MaxWrites -> Version]

WatchersTyped ==
  /\ fw \in [Life -> {"none", "on", "off"}]
  /\ watched \in [Life -> SUBSET File] /\ event \in [Life -> SUBSET File]
  /\ timer \in [Life -> SUBSET File] /\ gate \in [Life -> [File -> Version]]
  /\ checks \in [Life -> SUBSET Check]

OngoingsTyped ==
  /\ stableCh \in [Life -> Seq(StableFile)] /\ \A k \in Life : Len(stableCh[k]) <= Cap
  /\ receiver \in [Life -> BOOLEAN] /\ batch \in [Life -> Seq(StableFile)]
  /\ work \in [Life -> Batch]
  /\ halt \in [Life -> {"no", "waiting", "flushing", "late", "done"}]
  /\ received \in [Life -> SUBSET Version] /\ missing \in [Life -> SUBSET Version]
  /\ left \in SUBSET Life

ControlTyped ==
  /\ mode \in {"web", "foreground"} /\ running \in BOOLEAN
  /\ current \in {0} \cup Life /\ made \in {0} \cup Life
  /\ lock \in {"free", "stop"}
  /\ start \in [Life -> {"none", "spawned", "init", "made", "abandon", "failed", "done"}]
  /\ ctxOf \in [Life -> {0} \cup Life] /\ cancelled \in SUBSET Life
  /\ starts \in {0} \cup Life /\ mishaps \in 0..MaxMoves

AllTyped == FilesTyped /\ WatchersTyped /\ OngoingsTyped /\ ControlTyped

\* What a pipeline received is recorded or given up, or still waits in its batch or in work.
Flow(k) == received[k] \subseteq recorded \cup missing[k] \cup Contents(batch[k]) \cup Contents(work[k].list)

\* What can be in work, and what is left when Stop has waited for both goroutines.
Phases(k) ==
  /\ work[k].at \in {"idle", "gone"} => work[k].list = <<>> /\ ~work[k].flush
  /\ work[k].at \in {"read", "insert"} => work[k].list # <<>>
  /\ halt[k] \in {"flushing", "late", "done"} => ~receiver[k] /\ batch[k] = <<>>
  /\ halt[k] \in {"flushing", "late"} => work[k].at = "gone" \/ work[k].flush
  /\ halt[k] = "done" => work[k].at = "gone"

Flowing == \A k \in Life : Flow(k) /\ Phases(k)

\* How far the goroutine of a start is says what there is of its pipeline.
Starting ==
  \A k \in Life :
    /\ k > starts => start[k] = "none"
    /\ start[k] \in {"none", "spawned", "init", "made"} => halt[k] = "no"
    /\ start[k] = "made" => fw[k] = "on"
    /\ start[k] \in {"init", "made"} => ctxOf[k] \in 1..starts
    /\ mode = "foreground" => start[k] \in {"none", "done"}

\* The installed pipeline is one whose start is over, and it is alive unless it is being
\* stopped.
Flagged ==
  /\ lock = "stop" => running
  /\ ~running => made = 0
  /\ made # 0 => start[made] = "done"
  /\ made # 0 /\ lock = "free" => fw[made] = "on" /\ halt[made] = "no"
  /\ mode = "foreground" /\ running => made = 1

\* Of the contexts made only the last can be alive, and it is exactly while the flag is set
\* and nobody is stopping.  Without a pipeline its start is on the way.
Contexts ==
  mode = "web" =>
    /\ current = starts
    /\ running => starts # 0
    /\ \A x \in 1..starts : x \in cancelled \/ (x = starts /\ running /\ lock = "free")
    /\ made # 0 /\ lock = "free" => ctxOf[made] \notin cancelled
    /\ running /\ made = 0 /\ lock = "free" => start[starts] \notin {"none", "done"}

\* The controller's part, and the whole invariant.
Kept == Starting /\ Flagged /\ Contexts

Whole == AllTyped /\ Flowing /\ Kept

-----------------------------------------------------------------------------
(* Lists of files. *)

\* The contents of no file ...
LEMMA ContentsNone == Contents(<<>>) = {}
  BY DEF Contents

\* ... of one more ...
LEMMA ContentsMore ==
  ASSUME NEW list \in Seq(StableFile), NEW sf \in StableFile
  PROVE  Contents(Append(list, sf)) = Contents(list) \cup {sf.hash}
  BY DEF Contents

\* ... and of one less.
LEMMA ContentsLess ==
  ASSUME NEW list \in Seq(StableFile), list # <<>>
  PROVE  /\ Contents(list) = {Head(list).hash} \cup Contents(Tail(list))
         /\ Head(list) \in StableFile /\ Tail(list) \in Seq(StableFile) /\ Len(Tail(list)) = Len(list) - 1
<1>1. Head(list) = list[1] /\ Len(list) >= 1
  OBVIOUS
<1>2. \A i \in 1..Len(list) - 1 : Tail(list)[i] = list[i + 1]
  OBVIOUS
<1>3. Contents(list) \subseteq {Head(list).hash} \cup Contents(Tail(list))
  <2> SUFFICES ASSUME NEW i \in DOMAIN list, list[i].hash # Head(list).hash
               PROVE  list[i].hash \in Contents(Tail(list))
    BY DEF Contents
  <2>1. i \in 2..Len(list)
    BY <1>1
  <2>2. Tail(list)[i - 1] = list[i] /\ i - 1 \in DOMAIN Tail(list)
    BY <1>2, <2>1
  <2> QED
    BY <2>2 DEF Contents
<1>4. {Head(list).hash} \cup Contents(Tail(list)) \subseteq Contents(list)
  BY <1>1, <1>2 DEF Contents
<1> QED
  BY <1>1, <1>3, <1>4

\* All contents are versions.
LEMMA ContentsTyped ==
  ASSUME NEW list \in Seq(StableFile)
  PROVE  Contents(list) \subseteq Version
<1>1. \A sf \in StableFile : sf.hash \in Version
  BY DEF StableFile
<1>2. \A i \in DOMAIN list : list[i] \in StableFile
  OBVIOUS
<1> QED
  BY <1>1, <1>2 DEF Contents

-----------------------------------------------------------------------------
(* Types. *)

\* These are the types of the model.
LEMMA AllTypedOK == AllTyped => WatcherTypeOK
  BY DEF AllTyped, FilesTyped, WatchersTyped, OngoingsTyped, ControlTyped, Check, Batch, WatcherTypeOK

\* They hold initially.
LEMMA InitAllTyped == WatcherInit => AllTyped
<1> SUFFICES ASSUME WatcherInit PROVE AllTyped
  OBVIOUS
<1>1. 0 \in Version /\ 0 \in 0..MaxMoves
  BY WatcherAssumption DEF Version
<1>2. FilesTyped
  BY <1>1 DEF WatcherInit, FilesTyped
<1>3. WatchersTyped
  BY <1>1 DEF WatcherInit, WatchersTyped
<1>4. OngoingsTyped
  BY WatcherAssumption DEF WatcherInit, OngoingsTyped, NoBatch, Batch
<1>5. ControlTyped
  BY <1>1 DEF WatcherInit, ControlTyped
<1> QED
  BY <1>2, <1>3, <1>4, <1>5 DEF AllTyped

\* The bounds are kept.
LEMMA BoundTyped ==
  ASSUME AllTyped
  PROVE  /\ clock \in Nat /\ starts \in Nat /\ mishaps \in Nat
         /\ Mishap => mishaps' \in 0..MaxMoves
         /\ starts < MaxStarts => starts + 1 \in Life
         /\ 1 \in Life
  BY WatcherAssumption DEF AllTyped, FilesTyped, ControlTyped, Version, Life, Mishap, May

\* The watcher's own steps, up to the channel.
LEMMA WatchSteps ==
  ASSUME AllTyped, NEW k \in Life, UNCHANGED disks,
         \/ \E f \in File : handleEvent(k, f) \/ onDebounceExpired(k, f) \/ onStabilityExpired(k, f)
         \/ \E c \in checks[k] : Stat(k, c) \/ HashFile(k, c)
  PROVE  WatchersTyped' /\ UNCHANGED <<ongoings, stores>>
<1> USE DEF AllTyped
<1>1. ASSUME NEW f \in File, handleEvent(k, f)
      PROVE  WatchersTyped' /\ UNCHANGED <<ongoings, stores>>
  BY <1>1 DEF handleEvent, WatchersTyped
<1>2. ASSUME NEW f \in File, onDebounceExpired(k, f)
      PROVE  WatchersTyped' /\ UNCHANGED <<ongoings, stores>>
  BY <1>2 DEF onDebounceExpired, WatchersTyped, FilesTyped
<1>3. ASSUME NEW f \in File, onStabilityExpired(k, f)
      PROVE  WatchersTyped' /\ UNCHANGED <<ongoings, stores>>
  <2>1. [file |-> f, step |-> "stat", seen |-> gate[k][f]] \in Check
    BY DEF WatchersTyped, Check
  <2>2. 0 \in Version
    BY WatcherAssumption DEF Version
  <2> QED
    BY <1>3, <2>1, <2>2 DEF onStabilityExpired, WatchersTyped
<1>4. ASSUME NEW c \in checks[k], Stat(k, c) \/ HashFile(k, c)
      PROVE  WatchersTyped' /\ UNCHANGED <<ongoings, stores>>
  <2>1. c \in Check /\ c.file \in File /\ disk[c.file] \in Version
    BY DEF WatchersTyped, Check, FilesTyped
  <2>2. /\ [c EXCEPT !.step = "hash", !.seen = disk[c.file]] \in Check
        /\ [c EXCEPT !.step = "send", !.seen = disk[c.file]] \in Check
    BY <2>1 DEF Check
  <2>3. checks' \in [Life -> SUBSET Check]
    <3>1. \/ checks' = [checks EXCEPT ![k] = @ \ {c}]
          \/ checks' = [checks EXCEPT ![k] = (@ \ {c}) \cup {[c EXCEPT !.step = "hash", !.seen = disk[c.file]]}]
          \/ checks' = [checks EXCEPT ![k] = (@ \ {c}) \cup {[c EXCEPT !.step = "send", !.seen = disk[c.file]]}]
      BY <1>4 DEF Stat, HashFile, Step, Drop
    <3> QED
      BY <2>2, <3>1 DEF WatchersTyped
  <2>4. gate' \in [Life -> [File -> Version]]
    <3>1. gate' = gate \/ gate' = [gate EXCEPT ![k][c.file] = disk[c.file]]
      BY <1>4 DEF Stat, HashFile
    <3>2. gate[k] \in [File -> Version] /\ [gate[k] EXCEPT ![c.file] = disk[c.file]] \in [File -> Version]
      BY <2>1 DEF WatchersTyped
    <3>3. gate' = gate \/ gate' = [gate EXCEPT ![k] = [gate[k] EXCEPT ![c.file] = disk[c.file]]]
      BY <3>1
    <3> QED
      BY <3>2, <3>3 DEF WatchersTyped
  <2> QED
    BY <1>4, <2>3, <2>4 DEF Stat, HashFile, WatchersTyped
<1> QED
  BY <1>1, <1>2, <1>3, <1>4

\* A look that fails drops the file, and puts its content on record.
LEMMA LookFailsFlows ==
  ASSUME AllTyped, Flowing, NEW k \in Life, NEW f \in File, LookFails(k, f), UNCHANGED disks
  PROVE  /\ WatchersTyped' /\ OngoingsTyped' /\ Flowing' /\ mishaps' \in 0..MaxMoves
         /\ UNCHANGED <<stores, fw, halt>>
<1>1. disk[f] \in Version /\ missing \in [Life -> SUBSET Version]
  BY DEF AllTyped, FilesTyped, OngoingsTyped
<1>2. /\ missing' = [missing EXCEPT ![k] = missing[k] \cup {disk[f]}]
      /\ UNCHANGED <<fw, watched, event, gate, stableCh, receiver, batch, work, halt, received, left>>
      /\ UNCHANGED <<stores, recorded, blob>>
  BY DEF LookFails, stores
<1>3. missing' \in [Life -> SUBSET Version] /\ \A j \in Life : missing[j] \subseteq missing'[j]
  BY <1>1, <1>2
<1>4. timer' \in [Life -> SUBSET File] /\ checks' \in [Life -> SUBSET Check]
  BY DEF LookFails, Drop, AllTyped, WatchersTyped
<1>5. WatchersTyped' /\ OngoingsTyped'
  BY <1>2, <1>3, <1>4 DEF AllTyped, WatchersTyped, OngoingsTyped
<1>6. Flowing'
  BY <1>2, <1>3 DEF Flowing, Flow, Phases
<1>7. mishaps' \in 0..MaxMoves
  BY BoundTyped DEF LookFails
<1> QED
  BY <1>2, <1>5, <1>6, <1>7

\* A stable file is sent.
LEMMA SendTyped ==
  ASSUME AllTyped, NEW k \in Life, NEW c \in checks[k], Send(k, c)
  PROVE  WatchersTyped' /\ OngoingsTyped'
<1>1. [path |-> c.file, hash |-> c.seen] \in StableFile
  BY DEF AllTyped, WatchersTyped, Check, StableFile
<1>2. stableCh' \in [Life -> Seq(StableFile)] /\ \A j \in Life : Len(stableCh'[j]) <= Cap
  <2> DEFINE sf == [path |-> c.file, hash |-> c.seen]
  <2> HIDE DEF sf
  <2>1. /\ stableCh \in [Life -> Seq(StableFile)] /\ \A j \in Life : Len(stableCh[j]) <= Cap
        /\ sf \in StableFile
    BY <1>1 DEF AllTyped, OngoingsTyped, sf
  <2>2. \/ stableCh' = stableCh
        \/ Len(stableCh[k]) < Cap /\ stableCh' = [stableCh EXCEPT ![k] = Append(stableCh[k], sf)]
    BY DEF Send, Emit, sf
  <2>3. Append(stableCh[k], sf) \in Seq(StableFile) /\ Len(Append(stableCh[k], sf)) = Len(stableCh[k]) + 1
        /\ Len(stableCh[k]) \in Nat
    BY <2>1
  <2>4. stableCh' \in [Life -> Seq(StableFile)]
    BY <2>1, <2>2, <2>3
  <2>5. Len(stableCh[k]) < Cap => Len(Append(stableCh[k], sf)) <= Cap
    BY <2>3, WatcherAssumption
  <2>6. \A j \in Life : Len(stableCh'[j]) <= Cap
    BY <2>1, <2>2, <2>5
  <2> QED
    BY <2>4, <2>6
<1>3. WatchersTyped'
  BY DEF AllTyped, WatchersTyped, Send, Drop
<1> QED
  BY <1>2, <1>3 DEF AllTyped, OngoingsTyped, Send

\* It is received, or the goroutine ends.
LEMMA receiveTyped ==
  ASSUME AllTyped, NEW k \in Life, receiveFiles(k)
  PROVE  OngoingsTyped'
<1>1. CASE receiver' = [receiver EXCEPT ![k] = FALSE] /\ UNCHANGED <<batch, received, stableCh>>
  BY <1>1 DEF AllTyped, OngoingsTyped, receiveFiles
<1>2. CASE ~(receiver' = [receiver EXCEPT ![k] = FALSE] /\ UNCHANGED <<batch, received, stableCh>>)
  <2>1. stableCh[k] # <<>> /\ stableCh[k] \in Seq(StableFile) /\ Len(stableCh[k]) <= Cap
    BY <1>2 DEF AllTyped, OngoingsTyped, receiveFiles
  <2>2. Head(stableCh[k]) \in StableFile /\ Tail(stableCh[k]) \in Seq(StableFile)
        /\ Len(Tail(stableCh[k])) = Len(stableCh[k]) - 1
    BY <1>2, <2>1, ContentsLess
  <2>3. Head(stableCh[k]).hash \in Version /\ Len(Tail(stableCh[k])) <= Cap
    <3>1. Len(stableCh[k]) \in Nat /\ Cap \in Nat
      BY <2>1, WatcherAssumption
    <3>2. \A sf \in StableFile : sf.hash \in Version
      BY DEF StableFile
    <3> QED
      BY <2>1, <2>2, <3>1, <3>2
  <2>4. /\ batch' = [batch EXCEPT ![k] = Append(batch[k], Head(stableCh[k]))]
        /\ received' = [received EXCEPT ![k] = received[k] \cup {Head(stableCh[k]).hash}]
        /\ stableCh' = [stableCh EXCEPT ![k] = Tail(stableCh[k])]
    BY <1>2 DEF receiveFiles
  <2>5. batch' \in [Life -> Seq(StableFile)]
    BY <2>2, <2>4 DEF AllTyped, OngoingsTyped
  <2>6. received' \in [Life -> SUBSET Version]
    BY <2>3, <2>4 DEF AllTyped, OngoingsTyped
  <2>7. stableCh' \in [Life -> Seq(StableFile)] /\ \A j \in Life : Len(stableCh'[j]) <= Cap
    BY <2>2, <2>3, <2>4 DEF AllTyped, OngoingsTyped
  <2> QED
    BY <1>2, <2>5, <2>6, <2>7 DEF AllTyped, OngoingsTyped, receiveFiles
<1> QED
  BY <1>1, <1>2 DEF receiveFiles

\* The batch and its work.
LEMMA BatchTyped ==
  ASSUME AllTyped, NEW k \in Life,
         batchTicker(k) \/ Stop(k) \/ FlushExpires(k) \/ StopReturns(k)
  PROVE  OngoingsTyped'
<1>1. CASE batchTicker(k)
  <2>1. work[k] \in Batch /\ batch[k] \in Seq(StableFile)
    BY DEF AllTyped, OngoingsTyped
  <2>2. [at |-> "job", list |-> batch[k], flush |-> FALSE] \in Batch /\ [work[k] EXCEPT !.at = "gone"] \in Batch
    BY <2>1 DEF Batch
  <2>3. work' \in [Life -> Batch] /\ batch' \in [Life -> Seq(StableFile)]
    <3>1. \/ work' = [work EXCEPT ![k] = [at |-> "job", list |-> batch[k], flush |-> FALSE]]
          \/ work' = [work EXCEPT ![k] = [work[k] EXCEPT !.at = "gone"]]
      BY <1>1 DEF batchTicker
    <3>2. batch' = [batch EXCEPT ![k] = <<>>] \/ batch' = batch
      BY <1>1 DEF batchTicker
    <3>3. work' \in [Life -> Batch]
      BY <2>2, <3>1 DEF AllTyped, OngoingsTyped
    <3>4. batch' \in [Life -> Seq(StableFile)]
      <4>1. batch \in [Life -> Seq(StableFile)] /\ <<>> \in Seq(StableFile)
        BY DEF AllTyped, OngoingsTyped
      <4> QED
        BY <3>2, <4>1
    <3> QED
      BY <3>3, <3>4
  <2> QED
    BY <1>1, <2>3 DEF AllTyped, OngoingsTyped, batchTicker
<1>2. CASE Stop(k)
  BY <1>2 DEF AllTyped, OngoingsTyped, Stop, Batch
<1>3. CASE StopReturns(k)
  BY <1>3, WatcherAssumption DEF AllTyped, OngoingsTyped, StopReturns
<1>4. CASE FlushExpires(k)
  BY <1>4 DEF AllTyped, OngoingsTyped, FlushExpires
<1> QED
  BY <1>1, <1>2, <1>3, <1>4

\* What becomes of a batch in work.
LEMMA WorkGoes ==
  ASSUME AllTyped, NEW k \in Life
  PROVE  /\ work[k] \in Batch /\ Contents(work[k].list) \subseteq Version
         /\ BatchEnds(k) =>
              /\ work' \in [Life -> Batch] /\ work'[k].list = <<>> /\ ~work'[k].flush
              /\ work'[k].at = IF work[k].flush THEN "gone" ELSE "idle"
              /\ \A j \in Life \ {k} : work'[j] = work[j]
         /\ FileDone(k) /\ work[k].list # <<>> =>
              /\ work' \in [Life -> Batch] /\ work'[k].at = "file" /\ work'[k].flush = work[k].flush
              /\ work'[k].list = Tail(work[k].list) /\ Head(work[k].list).hash \in Version
              /\ Contents(work[k].list) = {Head(work[k].list).hash} \cup Contents(work'[k].list)
              /\ \A j \in Life \ {k} : work'[j] = work[j]
<1>1. work \in [Life -> Batch] /\ work[k] \in Batch /\ work[k].list \in Seq(StableFile) /\ work[k].flush \in BOOLEAN
  BY DEF AllTyped, OngoingsTyped, Batch
<1>2. Contents(work[k].list) \subseteq Version
  BY <1>1, ContentsTyped
<1>3. ASSUME BatchEnds(k)
      PROVE  /\ work' \in [Life -> Batch] /\ work'[k].list = <<>> /\ ~work'[k].flush
             /\ work'[k].at = IF work[k].flush THEN "gone" ELSE "idle"
             /\ \A j \in Life \ {k} : work'[j] = work[j]
  <2> DEFINE w == [NoBatch EXCEPT !.at = IF work[k].flush THEN "gone" ELSE "idle"]
  <2>1. w \in Batch /\ w.list = <<>> /\ ~w.flush /\ w.at = IF work[k].flush THEN "gone" ELSE "idle"
    <3>1. NoBatch \in Batch /\ NoBatch.list = <<>> /\ ~NoBatch.flush
      BY DEF NoBatch, Batch
    <3>2. \A a \in {"idle", "gone"} :
            /\ [NoBatch EXCEPT !.at = a] \in Batch /\ [NoBatch EXCEPT !.at = a].at = a
            /\ [NoBatch EXCEPT !.at = a].list = NoBatch.list /\ [NoBatch EXCEPT !.at = a].flush = NoBatch.flush
      BY <3>1 DEF Batch
    <3> QED
      BY <3>1, <3>2
  <2>2. work' = [work EXCEPT ![k] = w]
    BY <1>3 DEF BatchEnds
  <2> HIDE DEF w
  <2> QED
    BY <1>1, <2>1, <2>2
<1>4. ASSUME FileDone(k), work[k].list # <<>>
      PROVE  /\ work' \in [Life -> Batch] /\ work'[k].at = "file" /\ work'[k].flush = work[k].flush
             /\ work'[k].list = Tail(work[k].list) /\ Head(work[k].list).hash \in Version
             /\ Contents(work[k].list) = {Head(work[k].list).hash} \cup Contents(work'[k].list)
             /\ \A j \in Life \ {k} : work'[j] = work[j]
  <2> DEFINE w == [work[k] EXCEPT !.at = "file", !.list = Tail(work[k].list)]
  <2>1. /\ Contents(work[k].list) = {Head(work[k].list).hash} \cup Contents(Tail(work[k].list))
        /\ Head(work[k].list) \in StableFile /\ Tail(work[k].list) \in Seq(StableFile)
    BY <1>1, <1>4, ContentsLess
  <2>2. w \in Batch /\ w.list = Tail(work[k].list) /\ w.flush = work[k].flush /\ w.at = "file"
    BY <1>1, <2>1 DEF Batch
  <2>3. work' = [work EXCEPT ![k] = w]
    BY <1>1, <1>4 DEF FileDone, Batch
  <2>4. Head(work[k].list).hash \in Version
    BY <2>1 DEF StableFile
  <2> HIDE DEF w
  <2> QED
    BY <1>1, <2>1, <2>2, <2>3, <2>4
<1> QED
  BY <1>1, <1>2, <1>3, <1>4

\* What a step of the work on a batch leaves of it: what it drops is recorded or given up.
Worked(k) ==
  /\ work' \in [Life -> Batch] /\ \A j \in Life \ {k} : work'[j] = work[j]
  /\ missing' \in [Life -> SUBSET Version] /\ \A j \in Life : missing[j] \subseteq missing'[j]
  /\ recorded \subseteq recorded' /\ recorded' \in SUBSET Version
  /\ blob' \in [1..MaxWrites -> Version] /\ left' \in SUBSET Life
  /\ Contents(work[k].list) \subseteq recorded' \cup missing'[k] \cup Contents(work'[k].list)
  /\ work'[k].at \in {"idle", "gone"} => work'[k].list = <<>> /\ ~work'[k].flush
  /\ work'[k].at \in {"read", "insert"} => work'[k].list # <<>>
  /\ work[k].flush => work'[k].at = "gone" \/ work'[k].flush
  /\ work[k].at \notin {"idle", "gone"}
  /\ UNCHANGED <<stableCh, receiver, batch, halt, received, watchers>>

\* What is given up has its type.
LEMMA GiveUpTyped ==
  ASSUME AllTyped, NEW k \in Life, NEW V \in SUBSET Version, GiveUp(k, V)
  PROVE  /\ missing' \in [Life -> SUBSET Version] /\ \A j \in Life : missing[j] \subseteq missing'[j]
         /\ V \subseteq missing'[k]
<1>1. missing \in [Life -> SUBSET Version]
  BY DEF AllTyped, OngoingsTyped
<1>2. missing' = [missing EXCEPT ![k] = missing[k] \cup V]
  BY DEF GiveUp
<1> QED
  BY <1>1, <1>2

\* A file whose call fails is given up.
LEMMA FileFailsWorked ==
  ASSUME AllTyped, NEW k \in Life, FileFails(k), work[k].list # <<>>, work[k].at \notin {"idle", "gone"},
         UNCHANGED <<stableCh, receiver, batch, halt, received, left, watchers>>
  PROVE  Worked(k)
<1>1. FileDone(k) /\ GiveUp(k, {Head(work[k].list).hash}) /\ UNCHANGED stores
  BY DEF FileFails
<1>2. {Head(work[k].list).hash} \in SUBSET Version
  BY <1>1, WorkGoes
<1>3. /\ missing' \in [Life -> SUBSET Version] /\ \A j \in Life : missing[j] \subseteq missing'[j]
      /\ Head(work[k].list).hash \in missing'[k]
  BY <1>1, <1>2, GiveUpTyped
<1>4. UNCHANGED <<recorded, blob>> /\ recorded \in SUBSET Version /\ blob \in [1..MaxWrites -> Version]
      /\ left \in SUBSET Life
  BY <1>1 DEF stores, AllTyped, FilesTyped, OngoingsTyped
<1> QED
  BY <1>1, <1>3, <1>4, WorkGoes DEF Worked

\* A job that cannot be created, or ends, gives up the files left.
LEMMA BatchEndsWorked ==
  ASSUME AllTyped, NEW k \in Life, BatchEnds(k), GiveUp(k, Contents(work[k].list)),
         work[k].at \notin {"idle", "gone"}, left' \in SUBSET Life,
         UNCHANGED <<stableCh, receiver, batch, halt, received, stores, watchers>>
  PROVE  Worked(k)
<1>1. Contents(work[k].list) \in SUBSET Version
  BY WorkGoes
<1>2. /\ missing' \in [Life -> SUBSET Version] /\ \A j \in Life : missing[j] \subseteq missing'[j]
      /\ Contents(work[k].list) \subseteq missing'[k]
  BY <1>1, GiveUpTyped
<1>4. UNCHANGED <<recorded, blob>> /\ recorded \in SUBSET Version /\ blob \in [1..MaxWrites -> Version]
  BY DEF stores, AllTyped, FilesTyped
<1>5. work[k].flush => work'[k].at = "gone"
  BY WorkGoes
<1>6. work'[k].at \notin {"read", "insert"}
  BY WorkGoes
<1> QED
  BY <1>2, <1>4, <1>5, <1>6, WorkGoes DEF Worked

\* The next call for the same file.
LEMMA NextCallWorked ==
  ASSUME AllTyped, NEW k \in Life, NEW a \in {"file", "read", "insert"},
         work' = [work EXCEPT ![k].at = a], a = "file" \/ work[k].list # <<>>,
         work[k].at \notin {"idle", "gone"},
         recorded' = recorded, blob' \in [1..MaxWrites -> Version],
         UNCHANGED <<missing, left, stableCh, receiver, batch, halt, received, watchers>>
  PROVE  Worked(k)
<1>1. work \in [Life -> Batch] /\ missing \in [Life -> SUBSET Version] /\ recorded \in SUBSET Version
      /\ left \in SUBSET Life
  BY DEF AllTyped, OngoingsTyped, FilesTyped
<1>2. /\ work' \in [Life -> Batch] /\ work'[k].at = a /\ work'[k].list = work[k].list
      /\ work'[k].flush = work[k].flush /\ \A j \in Life \ {k} : work'[j] = work[j]
  BY <1>1 DEF Batch
<1> QED
  BY <1>1, <1>2 DEF Worked

\* Each call of processBatch and processFile.
LEMMA WorkSteps ==
  ASSUME AllTyped, NEW k \in Life, Phases(k), UNCHANGED disks,
         \/ (FinishJob(k) \/ UploadFile(k) \/ InsertBackupEntry(k)) /\ UNCHANGED mishaps
         \/ CreateJob(k) \/ ExchangeManifest(k)
  PROVE  Worked(k) /\ mishaps' \in 0..MaxMoves
<1>0. mishaps \in 0..MaxMoves /\ left \in SUBSET Life /\ blob \in [1..MaxWrites -> Version]
      /\ disk \in [File -> Version] /\ recorded \in SUBSET Version
      /\ work[k] \in Batch /\ work[k].list \in Seq(StableFile)
  BY DEF AllTyped, ControlTyped, OngoingsTyped, FilesTyped, Batch
<1>1. CASE CreateJob(k)
  <2>1. work[k].at = "job" /\ UNCHANGED <<stableCh, receiver, batch, halt, received, left, stores, watchers>>
    BY <1>1 DEF CreateJob
  <2>2. CASE work' = [work EXCEPT ![k].at = "file"] /\ UNCHANGED <<missing, mishaps>>
    BY <1>0, <2>1, <2>2, NextCallWorked DEF stores
  <2>3. CASE BatchEnds(k) /\ GiveUp(k, Contents(work[k].list)) /\ (UNCHANGED mishaps \/ Mishap)
    BY <1>0, <2>1, <2>3, BatchEndsWorked, BoundTyped
  <2> QED
    BY <1>1, <2>2, <2>3 DEF CreateJob
<1>2. CASE FinishJob(k) /\ UNCHANGED mishaps
  <2>1. left' \in SUBSET Life
    BY <1>0, <1>2 DEF FinishJob
  <2> QED
    BY <1>0, <1>2, <2>1, BatchEndsWorked DEF FinishJob
<1>3. CASE ExchangeManifest(k)
  <2>1. /\ work[k].at = "file" /\ work[k].list # <<>>
        /\ UNCHANGED <<stableCh, receiver, batch, halt, received, left, watchers>>
    BY <1>3 DEF ExchangeManifest
  <2>2. CASE FileFails(k) /\ (UNCHANGED mishaps \/ Mishap)
    BY <1>0, <2>1, <2>2, FileFailsWorked, BoundTyped
  <2>3. CASE \E a \in {"read", "insert"} : work' = [work EXCEPT ![k].at = a] /\ UNCHANGED <<missing, stores, mishaps>>
    BY <1>0, <2>1, <2>3, NextCallWorked DEF stores
  <2> QED
    BY <1>3, <2>2, <2>3 DEF ExchangeManifest
<1>4. CASE UploadFile(k) /\ UNCHANGED mishaps
  <2>1. /\ work[k].at = "read" /\ work[k].list # <<>>
        /\ UNCHANGED <<stableCh, receiver, batch, halt, received, left, watchers>>
    BY <1>4 DEF UploadFile, Phases
  <2>2. CASE FileFails(k)
    BY <1>0, <1>4, <2>1, <2>2, FileFailsWorked
  <2>3. CASE ~FileFails(k)
    <3>1. Head(work[k].list) \in StableFile
      BY <1>0, <2>1, ContentsLess
    <3>2. disk[Head(work[k].list).path] \in Version
      BY <1>0, <3>1 DEF StableFile
    <3>3. /\ blob' = [blob EXCEPT ![Head(work[k].list).hash] = disk[Head(work[k].list).path]]
          /\ work' = [work EXCEPT ![k].at = "insert"] /\ UNCHANGED <<missing, recorded>>
      BY <1>4, <2>3 DEF UploadFile, readFileRetry
    <3>4. blob' \in [1..MaxWrites -> Version]
      BY <1>0, <3>2, <3>3
    <3> QED
      BY <1>0, <1>4, <2>1, <3>3, <3>4, NextCallWorked
  <2> QED
    BY <2>2, <2>3
<1>5. CASE InsertBackupEntry(k) /\ UNCHANGED mishaps
  <2>1. /\ work[k].at = "insert" /\ work[k].list # <<>>
        /\ UNCHANGED <<stableCh, receiver, batch, halt, received, left, watchers>>
    BY <1>5 DEF InsertBackupEntry, Phases
  <2>2. CASE FileFails(k)
    BY <1>0, <1>5, <2>1, <2>2, FileFailsWorked
  <2>3. CASE ~FileFails(k)
    <3>1. /\ recorded' = recorded \cup {Head(work[k].list).hash} /\ FileDone(k)
          /\ UNCHANGED <<missing, blob>>
      BY <1>5, <2>3 DEF InsertBackupEntry
    <3>2. missing \in [Life -> SUBSET Version]
      BY DEF AllTyped, OngoingsTyped
    <3>3. /\ work' \in [Life -> Batch] /\ work'[k].at = "file" /\ work'[k].flush = work[k].flush
          /\ Head(work[k].list).hash \in Version
          /\ Contents(work[k].list) = {Head(work[k].list).hash} \cup Contents(work'[k].list)
          /\ \A j \in Life \ {k} : work'[j] = work[j]
      BY <2>1, <3>1, WorkGoes
    <3> QED
      BY <1>0, <1>5, <2>1, <3>1, <3>2, <3>3 DEF Worked
  <2> QED
    BY <2>2, <2>3
<1> QED
  BY <1>1, <1>2, <1>3, <1>4, <1>5

-----------------------------------------------------------------------------
(* Nothing that was received is lost. *)

\* A pipeline that does nothing itself.
LEMMA StillFlows ==
  ASSUME NEW k \in Life, Flow(k), Phases(k), recorded \subseteq recorded', missing[k] \subseteq missing'[k],
         received'[k] = received[k], batch'[k] = batch[k], work'[k] = work[k], halt'[k] = halt[k],
         receiver'[k] = receiver[k]
  PROVE  Flow(k)' /\ Phases(k)'
  BY DEF Flow, Phases

\* The work on a batch drops nothing that is not recorded or given up.
LEMMA WorkedFlows ==
  ASSUME Flowing, NEW k \in Life, Worked(k)
  PROVE  Flowing'
<1>1. Flow(k)'
  BY DEF Flowing, Flow, Worked
<1>2. Phases(k)'
  <2>1. halt'[k] \in {"flushing", "late", "done"} => ~receiver'[k] /\ batch'[k] = <<>>
    BY DEF Flowing, Phases, Worked
  <2>2. halt'[k] # "done" /\ (halt'[k] \in {"flushing", "late"} => work'[k].at = "gone" \/ work'[k].flush)
    BY DEF Flowing, Phases, Worked
  <2> QED
    BY <2>1, <2>2 DEF Phases, Worked
<1>3. ASSUME NEW j \in Life \ {k} PROVE Flow(j)' /\ Phases(j)'
  BY StillFlows DEF Flowing, Worked
<1> QED
  BY <1>1, <1>2, <1>3 DEF Flowing

\* What is received goes to the batch ...
LEMMA receiveFlows ==
  ASSUME AllTyped, Flowing, NEW k \in Life, receiveFiles(k)
  PROVE  Flowing'
<1>1. receiver[k] /\ UNCHANGED <<work, halt, missing, recorded>>
  BY DEF receiveFiles, stores
<1>2. halt[k] \notin {"flushing", "late", "done"}
  BY <1>1 DEF Flowing, Phases
<1>3. Phases(k)'
  BY <1>1, <1>2 DEF Flowing, Phases
<1>4. Flow(k)'
  <2>1. CASE UNCHANGED <<batch, received>>
    BY <1>1, <2>1 DEF Flowing, Flow
  <2>2. CASE ~UNCHANGED <<batch, received>>
    <3>1. stableCh[k] \in Seq(StableFile) /\ stableCh[k] # <<>> /\ batch[k] \in Seq(StableFile)
      BY <2>2 DEF AllTyped, OngoingsTyped, receiveFiles
    <3>2. /\ batch'[k] = Append(batch[k], Head(stableCh[k]))
          /\ received'[k] = received[k] \cup {Head(stableCh[k]).hash}
      BY <2>2 DEF AllTyped, OngoingsTyped, receiveFiles
    <3>3. Contents(batch'[k]) = Contents(batch[k]) \cup {Head(stableCh[k]).hash}
      BY <3>1, <3>2, ContentsLess, ContentsMore
    <3> QED
      BY <1>1, <3>2, <3>3 DEF Flowing, Flow
  <2> QED
    BY <2>1, <2>2
<1>5. ASSUME NEW j \in Life \ {k} PROVE Flow(j)' /\ Phases(j)'
  <2>1. batch'[j] = batch[j] /\ received'[j] = received[j] /\ receiver'[j] = receiver[j]
    BY DEF receiveFiles, AllTyped, OngoingsTyped
  <2> QED
    BY <1>1, <2>1, StillFlows DEF Flowing
<1> QED
  BY <1>3, <1>4, <1>5 DEF Flowing

\* ... which is worked off by the ticker's goroutine, or by Stop.
LEMMA BatchFlows ==
  ASSUME AllTyped, Flowing, NEW k \in Life,
         batchTicker(k) \/ Stop(k) \/ FlushExpires(k) \/ StopReturns(k)
  PROVE  Flowing'
<1>0. /\ UNCHANGED <<receiver, received, missing, recorded>>
      /\ work \in [Life -> Batch] /\ batch \in [Life -> Seq(StableFile)]
      /\ halt \in [Life -> {"no", "waiting", "flushing", "late", "done"}]
  BY DEF batchTicker, Stop, FlushExpires, StopReturns, stores, AllTyped, OngoingsTyped
<1>1. \A j \in Life \ {k} : batch'[j] = batch[j] /\ work'[j] = work[j] /\ halt'[j] = halt[j]
  BY <1>0 DEF batchTicker, Stop, FlushExpires, StopReturns
<1>2. Flow(k) /\ Phases(k)
  BY DEF Flowing
<1>3. Flow(k)' /\ Phases(k)'
  <2>1. CASE batchTicker(k)
    <3>1. work[k].at = "idle" /\ work[k].list = <<>> /\ ~work[k].flush /\ halt' = halt
          /\ halt[k] \notin {"flushing", "late", "done"}
      BY <1>2, <2>1 DEF batchTicker, Phases
    <3>2. CASE work' = [work EXCEPT ![k].at = "gone"] /\ batch' = batch
      <4>1. work'[k].at = "gone" /\ work'[k].list = work[k].list /\ work'[k].flush = work[k].flush
        BY <1>0, <3>2 DEF Batch
      <4> QED
        BY <1>0, <1>2, <3>1, <3>2, <4>1 DEF Flow, Phases
    <3>3. CASE /\ work' = [work EXCEPT ![k] = [at |-> "job", list |-> batch[k], flush |-> FALSE]]
               /\ batch' = [batch EXCEPT ![k] = <<>>]
      <4>1. work'[k].at = "job" /\ work'[k].list = batch[k] /\ batch'[k] = <<>>
        BY <1>0, <3>3
      <4> QED
        BY <1>0, <1>2, <3>1, <4>1, ContentsNone DEF Flow, Phases
    <3> QED
      BY <2>1, <3>2, <3>3 DEF batchTicker
  <2>2. CASE Stop(k)
    <3>1. work[k].at = "gone" /\ work[k].list = <<>> /\ ~receiver[k] /\ halt'[k] = "flushing" /\ batch'[k] = <<>>
      BY <1>0, <1>2, <2>2 DEF Stop, Phases
    <3>2. CASE batch[k] = <<>>
      BY <1>0, <1>2, <2>2, <3>1, <3>2, ContentsNone DEF Stop, Flow, Phases
    <3>3. CASE batch[k] # <<>>
      <4>1. work'[k].at = "job" /\ work'[k].list = batch[k] /\ work'[k].flush
        BY <1>0, <2>2, <3>3 DEF Stop
      <4> QED
        BY <1>0, <1>2, <3>1, <4>1, ContentsNone DEF Flow, Phases
    <3> QED
      BY <3>2, <3>3
  <2>3. CASE StopReturns(k)
    BY <1>0, <1>2, <2>3 DEF StopReturns, Flow, Phases
  <2>4. CASE FlushExpires(k)
    BY <1>0, <1>2, <2>4 DEF FlushExpires, Flow, Phases
  <2> QED
    BY <2>1, <2>2, <2>3, <2>4
<1>4. ASSUME NEW j \in Life \ {k} PROVE Flow(j)' /\ Phases(j)'
  BY <1>0, <1>1, StillFlows DEF Flowing
<1> QED
  BY <1>3, <1>4 DEF Flowing

\* A pipeline's step keeps the types and loses nothing.
LEMMA WorksFlow ==
  ASSUME AllTyped, Flowing, NEW k \in Life, Works(k)
  PROVE  AllTyped' /\ Flowing'
<1>1. /\ UNCHANGED <<disks, control, starts>>
      /\ UNCHANGED <<disk, clock, excluded, mode, running, current, made, lock, start, ctxOf, cancelled, starts>>
  BY DEF Works, disks, control
<1>2. SUFFICES /\ FilesTyped' /\ WatchersTyped' /\ OngoingsTyped' /\ mishaps' \in 0..MaxMoves
               /\ Flowing'
  BY <1>1 DEF AllTyped, ControlTyped
<1>3. UNCHANGED stores => FilesTyped'
  BY <1>1 DEF AllTyped, FilesTyped, stores
<1>4. UNCHANGED mishaps => mishaps' \in 0..MaxMoves
  BY DEF AllTyped, ControlTyped
<1>5. UNCHANGED watchers => WatchersTyped'
  BY DEF AllTyped, WatchersTyped, watchers
<1>6. CASE /\ UNCHANGED mishaps
           /\ \/ \E f \in File : handleEvent(k, f) \/ onDebounceExpired(k, f) \/ onStabilityExpired(k, f)
              \/ \E c \in checks[k] : Stat(k, c) \/ HashFile(k, c)
  <2>1. WatchersTyped' /\ UNCHANGED <<ongoings, stores>>
    BY <1>1, <1>6, WatchSteps
  <2>2. OngoingsTyped' /\ Flowing'
    BY <2>1, StillFlows DEF ongoings, stores, AllTyped, OngoingsTyped, Flowing
  <2> QED
    BY <1>3, <1>4, <1>6, <2>1, <2>2
<1>7. CASE UNCHANGED mishaps /\ \E c \in checks[k] : Send(k, c)
  <2>1. WatchersTyped' /\ OngoingsTyped' /\ UNCHANGED <<receiver, batch, work, halt, received, missing, stores>>
    BY <1>7, SendTyped DEF Send
  <2>2. Flowing'
    BY <2>1, StillFlows DEF stores, Flowing
  <2> QED
    BY <1>3, <1>4, <1>7, <2>1, <2>2
<1>8. CASE \/ UNCHANGED mishaps /\ (receiveFiles(k) \/ batchTicker(k) \/ Stop(k) \/ StopReturns(k))
           \/ FlushExpires(k)
  <2>1. UNCHANGED <<stores, watchers>>
    BY <1>8 DEF receiveFiles, batchTicker, Stop, FlushExpires, StopReturns
  <2>2. mishaps' \in 0..MaxMoves
    BY <1>4, <1>8, BoundTyped DEF FlushExpires
  <2> QED
    BY <1>3, <2>2, <1>5, <1>8, <2>1, receiveTyped, BatchTyped, receiveFlows, BatchFlows
<1>9. CASE \/ (FinishJob(k) \/ UploadFile(k) \/ InsertBackupEntry(k)) /\ UNCHANGED mishaps
           \/ CreateJob(k) \/ ExchangeManifest(k)
  <2>1. Worked(k) /\ mishaps' \in 0..MaxMoves
    BY <1>1, <1>9, WorkSteps DEF Flowing
  <2>2. FilesTyped' /\ OngoingsTyped'
    BY <1>1, <2>1 DEF Worked, AllTyped, FilesTyped, OngoingsTyped
  <2> QED
    BY <1>5, <2>1, <2>2, WorkedFlows DEF Worked
<1>10. CASE \E f \in File : LookFails(k, f)
  BY <1>1, <1>3, <1>10, LookFailsFlows
<1> QED
  BY <1>6, <1>7, <1>8, <1>9, <1>10 DEF Works, Pipeline

-----------------------------------------------------------------------------
(* The controller. *)

\* A pipeline is started that was not.
LEMMA StartPipelineKeeps ==
  ASSUME AllTyped, Flowing, Starting, NEW k \in Life, StartPipeline(k), UNCHANGED <<disks, stores>>,
         start[k] \in {"none", "init"}
  PROVE  /\ FilesTyped' /\ WatchersTyped' /\ OngoingsTyped' /\ Flowing'
         /\ fw'[k] = "on" /\ \A j \in Life : fw[j] = "on" => fw'[j] = "on"
         /\ halt' = halt
<1>1. /\ fw' = [fw EXCEPT ![k] = "on"] /\ watched' = [watched EXCEPT ![k] = File \ excluded]
      /\ receiver' = [receiver EXCEPT ![k] = TRUE]
      /\ UNCHANGED <<event, timer, gate, checks, stableCh, batch, work, halt, received, missing, left>>
      /\ UNCHANGED <<disk, clock, excluded, recorded, blob>>
  BY DEF StartPipeline, disks, stores
<1>2. FilesTyped' /\ WatchersTyped' /\ OngoingsTyped'
  BY <1>1 DEF AllTyped, FilesTyped, WatchersTyped, OngoingsTyped
<1>3. halt[k] = "no"
  BY DEF Starting
<1>4. Flow(k)' /\ Phases(k)'
  BY <1>1, <1>3 DEF Flowing, Flow, Phases
<1>5. ASSUME NEW j \in Life \ {k} PROVE Flow(j)' /\ Phases(j)'
  <2>1. receiver'[j] = receiver[j]
    BY <1>1 DEF AllTyped, OngoingsTyped
  <2> QED
    BY <1>1, <2>1, StillFlows DEF Flowing
<1>6. fw'[k] = "on" /\ \A j \in Life : fw[j] = "on" => fw'[j] = "on"
  BY <1>1 DEF AllTyped, WatchersTyped
<1> QED
  BY <1>1, <1>2, <1>4, <1>5, <1>6 DEF Flowing

\* A pipeline is told to stop.
LEMMA HaltKeeps ==
  ASSUME AllTyped, Flowing, NEW k \in Life, halt[k] = "no", halt' = [halt EXCEPT ![k] = "waiting"],
         UNCHANGED <<disks, stores, stableCh, receiver, batch, work, received, missing, left>>
  PROVE  FilesTyped' /\ OngoingsTyped' /\ Flowing'
<1>1. UNCHANGED <<disk, clock, excluded, recorded, blob>>
  BY DEF disks, stores
<1>2. FilesTyped' /\ OngoingsTyped'
  BY <1>1 DEF AllTyped, FilesTyped, OngoingsTyped
<1>3. halt'[k] = "waiting" /\ \A j \in Life \ {k} : halt'[j] = halt[j]
  BY DEF AllTyped, OngoingsTyped
<1>4. Flow(k)' /\ Phases(k)'
  BY <1>1, <1>3 DEF Flowing, Flow, Phases
<1>5. ASSUME NEW j \in Life \ {k} PROVE Flow(j)' /\ Phases(j)'
  BY <1>1, <1>3, StillFlows DEF Flowing
<1> QED
  BY <1>2, <1>4, <1>5 DEF Flowing

\* Its watcher stops.
LEMMA StopWatchingTyped ==
  ASSUME AllTyped, NEW k \in Life, StopWatching(k)
  PROVE  WatchersTyped' /\ \A j \in Life \ {k} : fw'[j] = fw[j]
<1>1. [f \in File |-> 0] \in [File -> Version]
  BY WatcherAssumption DEF Version
<1> QED
  BY <1>1 DEF AllTyped, WatchersTyped, StopWatching

\* The pipelines as they were.
LEMMA PipelinesKept ==
  ASSUME AllTyped, Flowing, UNCHANGED <<disks, inPipeline>>
  PROVE  FilesTyped' /\ WatchersTyped' /\ OngoingsTyped' /\ Flowing' /\ UNCHANGED <<fw, halt>>
<1>1. /\ UNCHANGED <<disk, clock, excluded, recorded, blob, fw, watched, event, timer, gate, checks>>
      /\ UNCHANGED <<stableCh, receiver, batch, work, halt, received, missing, left>>
  BY DEF disks, inPipeline, stores, ongoings
<1>2. FilesTyped' /\ WatchersTyped' /\ OngoingsTyped'
  BY <1>1 DEF AllTyped, FilesTyped, WatchersTyped, OngoingsTyped
<1> QED
  BY <1>1, <1>2, StillFlows DEF Flowing

\* Files and exclusions change, and the pipelines work: nothing of that is the controller's.
LEMMA OthersKeep ==
  ASSUME AllTyped, Kept, UNCHANGED <<control, starts>>,
         \A k \in Life : fw'[k] = fw[k] /\ (halt[k] = "no" => halt'[k] = "no")
  PROVE  Kept'
<1>1. UNCHANGED <<mode, running, current, made, lock, start, ctxOf, cancelled, starts>>
  BY DEF control
<1>2. made \in {0} \cup Life
  BY DEF AllTyped, ControlTyped
<1>3. Starting'
  BY <1>1 DEF Kept, Starting
<1>4. Flagged'
  BY <1>1, <1>2 DEF Kept, Flagged
<1>5. Contexts'
  BY <1>1 DEF Kept, Contexts
<1> QED
  BY <1>3, <1>4, <1>5 DEF Kept

\* A pipeline's step touches neither its watcher's state nor a pipeline that is not stopped.
LEMMA WorksKeep ==
  ASSUME AllTyped, Kept, NEW k \in Life, Works(k)
  PROVE  Kept'
<1>1. UNCHANGED <<control, starts>>
  BY DEF Works
<1>2. fw' = fw
  BY DEF Works, Pipeline, handleEvent, onDebounceExpired, onStabilityExpired, Stat, HashFile, Send,
         receiveFiles, batchTicker, Stop, StopReturns, FinishJob, UploadFile, InsertBackupEntry,
         CreateJob, ExchangeManifest, FlushExpires, LookFails, watchers
<1>3. UNCHANGED halt \/ Stop(k) \/ StopReturns(k) \/ FlushExpires(k)
  BY DEF Works, Pipeline, handleEvent, onDebounceExpired, onStabilityExpired, Stat, HashFile, Send,
         receiveFiles, batchTicker, FinishJob, UploadFile, InsertBackupEntry,
         CreateJob, ExchangeManifest, LookFails, ongoings
<1>4. \A j \in Life : halt[j] = "no" => halt'[j] = "no"
  BY <1>3 DEF Stop, StopReturns, FlushExpires, AllTyped, OngoingsTyped
<1> QED
  BY <1>1, <1>2, <1>4, OthersKeep

\* Files change.
LEMMA ChangeTyped ==
  ASSUME AllTyped, Flowing, NEW f \in File, Change(f)
  PROVE  AllTyped' /\ Flowing'
<1>1. /\ UNCHANGED <<excluded, recorded, blob, fw, watched, timer, gate, checks>>
      /\ UNCHANGED <<stableCh, receiver, batch, work, halt, received, missing, left>>
      /\ UNCHANGED <<mode, running, current, made, lock, start, ctxOf, cancelled, starts, mishaps>>
  BY DEF Change, stores, ongoings, control
<1>2. clock' \in Version /\ 0 \in Version
  BY BoundTyped, WatcherAssumption DEF Change, Version
<1>3. disk' \in [File -> Version]
  BY <1>2 DEF Change, AllTyped, FilesTyped
<1>4. event' \in [Life -> SUBSET File]
  BY DEF Change, Notify, AllTyped, WatchersTyped
<1>5. AllTyped'
  BY <1>1, <1>2, <1>3, <1>4 DEF AllTyped, FilesTyped, WatchersTyped, OngoingsTyped, ControlTyped
<1> QED
  BY <1>1, <1>5, StillFlows DEF Flowing

\* The exclusions do.
LEMMA ExclusionsTyped ==
  ASSUME AllTyped, Flowing, NEW f \in File, handleWatchersAdd(f) \/ handleWatchersDelete(f)
  PROVE  AllTyped' /\ Flowing' /\ UNCHANGED <<control, starts, fw, halt>>
<1>1. /\ UNCHANGED <<disk, clock, recorded, blob, fw, watched, event, timer, gate, checks>>
      /\ UNCHANGED <<stableCh, receiver, batch, work, halt, received, missing, left>>
      /\ UNCHANGED <<mode, running, current, made, lock, start, ctxOf, cancelled, starts, control>>
  BY DEF handleWatchersAdd, handleWatchersDelete, EditOnly, stores, watchers, ongoings, control
<1>2. excluded' \in SUBSET File /\ mishaps' \in 0..MaxMoves
  BY BoundTyped DEF handleWatchersAdd, handleWatchersDelete, AllTyped, FilesTyped
<1>3. AllTyped'
  BY <1>1, <1>2 DEF AllTyped, FilesTyped, WatchersTyped, OngoingsTyped, ControlTyped
<1> QED
  BY <1>1, <1>3, StillFlows DEF Flowing

\* A start is asked for, when all the contexts there were are cancelled.
LEMMA StartWatcherKeeps ==
  ASSUME Whole, StartWatcher
  PROVE  Whole'
<1>1. FilesTyped' /\ WatchersTyped' /\ OngoingsTyped' /\ Flowing' /\ UNCHANGED <<fw, halt>>
  BY PipelinesKept DEF Whole, StartWatcher
<1>2. /\ starts \in Nat /\ starts + 1 \in Life /\ starts' = starts + 1
      /\ mode = "web" /\ lock = "free" /\ ~running /\ running' /\ current' = starts + 1
      /\ start' = [start EXCEPT ![starts + 1] = "spawned"]
      /\ UNCHANGED <<mode, made, lock, ctxOf, cancelled, mishaps>>
  BY BoundTyped DEF Whole, StartWatcher
<1>3. ControlTyped'
  BY <1>2 DEF Whole, AllTyped, ControlTyped, StartWatcher
<1>4. start'[starts + 1] = "spawned" /\ \A k \in Life : k # starts + 1 => start'[k] = start[k]
  BY <1>2 DEF Whole, AllTyped, ControlTyped
<1>5. made = 0
  BY <1>2 DEF Whole, Kept, Flagged
<1>6. Starting'
  <2> SUFFICES ASSUME NEW k \in Life
               PROVE  /\ k > starts' => start'[k] = "none"
                      /\ start'[k] \in {"none", "spawned", "init", "made"} => halt'[k] = "no"
                      /\ start'[k] = "made" => fw'[k] = "on"
                      /\ start'[k] \in {"init", "made"} => ctxOf'[k] \in 1..starts'
                      /\ mode' = "foreground" => start'[k] \in {"none", "done"}
    BY DEF Starting
  <2>1. k \in Nat
    BY DEF Life
  <2>2. CASE k = starts + 1
    <3>1. start[k] = "none"
      BY <1>2, <2>2 DEF Whole, Kept, Starting
    <3> QED
      BY <1>1, <1>2, <1>4, <2>1, <2>2, <3>1 DEF Whole, Kept, Starting
  <2>3. CASE k # starts + 1
    BY <1>1, <1>2, <1>4, <2>1, <2>3 DEF Whole, Kept, Starting
  <2> QED
    BY <2>2, <2>3
<1>7. Flagged'
  BY <1>2, <1>5 DEF Whole, Kept, Flagged
<1>8. Contexts'
  <2>1. \A x \in 1..starts : x \in cancelled
    BY <1>2 DEF Whole, Kept, Contexts
  <2>2. \A x \in 1..starts' : x \in cancelled' \/ x = starts'
    BY <1>2, <2>1
  <2> QED
    BY <1>2, <1>4, <1>5, <2>2 DEF Contexts
<1> QED
  BY <1>1, <1>3, <1>6, <1>7, <1>8 DEF Whole, Kept, AllTyped

\* A start's goroutine goes on: what this leaves of the controller's state.
LEMMA GoroutineKeeps ==
  ASSUME AllTyped, Kept, NEW k \in Life, start[k] # "done", start[k] # "none",
         NEW a \in {"init", "made", "abandon", "failed"}, start' = [start EXCEPT ![k] = a],
         UNCHANGED <<mode, running, current, made, lock, cancelled, starts>>,
         \A j \in Life \ {k} : ctxOf'[j] = ctxOf[j] /\ fw'[j] = fw[j] /\ halt'[j] = halt[j],
         a \in {"init", "made"} => halt'[k] = "no" /\ ctxOf'[k] \in 1..starts,
         a = "made" => fw'[k] = "on"
  PROVE  Kept'
<1>1. start'[k] = a /\ \A j \in Life \ {k} : start'[j] = start[j]
  BY DEF AllTyped, ControlTyped
<1>2. starts \in Nat /\ made \in {0} \cup Life /\ starts \in {0} \cup Life
  BY BoundTyped DEF AllTyped, ControlTyped
<1>3. mode # "foreground" /\ ~(k > starts)
  BY DEF Kept, Starting
<1>4. made # k
  BY DEF Kept, Flagged, Life
<1>5. Starting'
  <2> SUFFICES ASSUME NEW j \in Life
               PROVE  /\ j > starts' => start'[j] = "none"
                      /\ start'[j] \in {"none", "spawned", "init", "made"} => halt'[j] = "no"
                      /\ start'[j] = "made" => fw'[j] = "on"
                      /\ start'[j] \in {"init", "made"} => ctxOf'[j] \in 1..starts'
                      /\ mode' = "foreground" => start'[j] \in {"none", "done"}
    BY DEF Starting
  <2>1. CASE j = k
    BY <1>1, <1>3, <2>1
  <2>2. CASE j # k
    BY <1>1, <2>2 DEF Kept, Starting
  <2> QED
    BY <2>1, <2>2
<1>6. Flagged'
  <2>1. made # 0 => fw'[made] = fw[made] /\ halt'[made] = halt[made] /\ start'[made] = start[made]
    BY <1>1, <1>2, <1>4
  <2> QED
    BY <2>1 DEF Kept, Flagged
<1>7. Contexts'
  <2>1. made # 0 => ctxOf'[made] = ctxOf[made]
    BY <1>2, <1>4
  <2>2. starts # 0 => start'[starts] = start[starts] \/ start'[starts] = a
    BY <1>1, <1>2
  <2> QED
    BY <1>2, <2>1, <2>2 DEF Kept, Contexts
<1> QED
  BY <1>5, <1>6, <1>7 DEF Kept

\* It reads the context.
LEMMA ReadContextKeeps ==
  ASSUME Whole, NEW k \in Life, ReadContext(k)
  PROVE  Whole'
<1>1. FilesTyped' /\ WatchersTyped' /\ OngoingsTyped' /\ Flowing' /\ UNCHANGED <<fw, halt>>
  BY PipelinesKept DEF Whole, ReadContext
<1>2. /\ start[k] = "spawned" /\ start' = [start EXCEPT ![k] = "init"]
      /\ ctxOf' = [ctxOf EXCEPT ![k] = current]
      /\ UNCHANGED <<mode, running, current, made, lock, cancelled, starts, mishaps>>
  BY DEF ReadContext
<1>3. mode = "web" /\ k \in 1..starts /\ halt[k] = "no" /\ starts \in Nat
  <2>1. ~(k > starts) /\ k \in Nat /\ k >= 1 /\ starts \in Nat
    BY <1>2, BoundTyped DEF Whole, Kept, Starting, Life
  <2>2. mode # "foreground" /\ mode \in {"web", "foreground"} /\ halt[k] = "no"
    BY <1>2 DEF Whole, Kept, Starting, AllTyped, ControlTyped
  <2> QED
    BY <2>1, <2>2
<1>4. current \in 1..starts
  BY <1>3 DEF Whole, Kept, Contexts
<1>5. ctxOf'[k] = current /\ \A j \in Life \ {k} : ctxOf'[j] = ctxOf[j]
  BY <1>2 DEF Whole, AllTyped, ControlTyped
<1>6. Kept'
  BY <1>1, <1>2, <1>3, <1>4, <1>5, GoroutineKeeps DEF Whole
<1>7. ControlTyped'
  BY <1>2 DEF Whole, AllTyped, ControlTyped
<1> QED
  BY <1>1, <1>6, <1>7 DEF Whole, AllTyped

\* It makes the pipeline, or fails.
LEMMA SetupKeeps ==
  ASSUME Whole, NEW k \in Life, Setup(k)
  PROVE  Whole'
<1>1. /\ start[k] = "init" /\ UNCHANGED <<disks, stores>>
      /\ UNCHANGED <<mode, running, current, made, lock, ctxOf, cancelled, starts>>
  BY DEF Setup
<1>2. halt[k] = "no" /\ ctxOf[k] \in 1..starts
  BY <1>1 DEF Whole, Kept, Starting
<1>3. mishaps' \in 0..MaxMoves
  BY BoundTyped DEF Whole, Setup, AllTyped, ControlTyped
<1>4. CASE StartPipeline(k) /\ start' = [start EXCEPT ![k] = "made"]
  <2>1. /\ FilesTyped' /\ WatchersTyped' /\ OngoingsTyped' /\ Flowing'
        /\ fw'[k] = "on" /\ halt' = halt
    BY <1>1, <1>4, StartPipelineKeeps DEF Whole, Kept
  <2>2. \A j \in Life \ {k} : fw'[j] = fw[j]
    BY <1>4 DEF StartPipeline, Whole, AllTyped, WatchersTyped
  <2>3. Kept'
    BY <1>1, <1>2, <1>4, <2>1, <2>2, GoroutineKeeps DEF Whole
  <2>4. ControlTyped'
    BY <1>1, <1>3, <1>4 DEF Whole, AllTyped, ControlTyped
  <2> QED
    BY <2>1, <2>3, <2>4 DEF Whole, AllTyped
<1>5. CASE start' = [start EXCEPT ![k] = "failed"]
           /\ UNCHANGED <<fw, watched, event, timer, gate, checks, ongoings>>
  <2>1. FilesTyped' /\ WatchersTyped' /\ OngoingsTyped' /\ Flowing' /\ UNCHANGED <<fw, halt>>
    BY <1>1, <1>5, PipelinesKept DEF Whole, inPipeline
  <2>2. Kept'
    BY <1>1, <1>5, <2>1, GoroutineKeeps DEF Whole
  <2>3. ControlTyped'
    BY <1>1, <1>3, <1>5 DEF Whole, AllTyped, ControlTyped
  <2> QED
    BY <2>1, <2>2, <2>3 DEF Whole, AllTyped
<1> QED
  BY <1>4, <1>5 DEF Setup

\* It installs the pipeline, or stops it when it was cancelled meanwhile.
LEMMA InstallKeeps ==
  ASSUME Whole, NEW k \in Life, Install(k)
  PROVE  Whole'
<1>1. /\ start[k] = "made" /\ lock = "free" /\ UNCHANGED <<disks, stores>>
      /\ UNCHANGED <<stableCh, receiver, batch, work, received, missing, left>>
      /\ UNCHANGED <<mode, running, current, lock, ctxOf, cancelled, starts, mishaps>>
  BY DEF Install
<1>2. halt[k] = "no" /\ fw[k] = "on" /\ ctxOf[k] \in 1..starts
  BY <1>1 DEF Whole, Kept, Starting
<1>3. CASE /\ StopWatching(k) /\ halt' = [halt EXCEPT ![k] = "waiting"]
           /\ start' = [start EXCEPT ![k] = "abandon"] /\ UNCHANGED made
  <2>1. FilesTyped' /\ OngoingsTyped' /\ Flowing'
    BY <1>1, <1>2, <1>3, HaltKeeps DEF Whole
  <2>2. WatchersTyped' /\ \A j \in Life \ {k} : fw'[j] = fw[j]
    BY <1>3, StopWatchingTyped DEF Whole
  <2>3. \A j \in Life \ {k} : halt'[j] = halt[j] /\ ctxOf'[j] = ctxOf[j]
    BY <1>1, <1>3 DEF Whole, AllTyped, OngoingsTyped
  <2>4. Kept'
    BY <1>1, <1>3, <2>2, <2>3, GoroutineKeeps DEF Whole
  <2>5. ControlTyped'
    BY <1>1, <1>3 DEF Whole, AllTyped, ControlTyped
  <2> QED
    BY <2>1, <2>2, <2>4, <2>5 DEF Whole, AllTyped
<1>4. CASE /\ ctxOf[k] \notin cancelled /\ made' = k /\ start' = [start EXCEPT ![k] = "done"]
           /\ UNCHANGED <<halt, fw, watched, event, timer, gate, checks>>
  <2>1. FilesTyped' /\ WatchersTyped' /\ OngoingsTyped' /\ Flowing' /\ UNCHANGED <<fw, halt>>
    BY <1>1, <1>4, PipelinesKept DEF Whole, inPipeline, ongoings
  <2>2. ControlTyped'
    BY <1>1, <1>4 DEF Whole, AllTyped, ControlTyped
  <2>3. start'[k] = "done" /\ \A j \in Life \ {k} : start'[j] = start[j]
    BY <1>4 DEF Whole, AllTyped, ControlTyped
  <2>4. mode = "web" /\ running
    <3>1. mode # "foreground" /\ mode \in {"web", "foreground"}
      BY <1>1 DEF Whole, Kept, Starting, AllTyped, ControlTyped
    <3> QED
      BY <1>2, <1>4, <3>1 DEF Whole, Kept, Contexts
  <2>5. Starting'
    <3> SUFFICES ASSUME NEW j \in Life
                 PROVE  /\ j > starts' => start'[j] = "none"
                        /\ start'[j] \in {"none", "spawned", "init", "made"} => halt'[j] = "no"
                        /\ start'[j] = "made" => fw'[j] = "on"
                        /\ start'[j] \in {"init", "made"} => ctxOf'[j] \in 1..starts'
                        /\ mode' = "foreground" => start'[j] \in {"none", "done"}
      BY DEF Starting
    <3>1. ~(k > starts)
      BY <1>1 DEF Whole, Kept, Starting
    <3> QED
      BY <1>1, <2>1, <2>3, <3>1 DEF Whole, Kept, Starting
  <2>6. Flagged'
    BY <1>1, <1>2, <1>4, <2>1, <2>3, <2>4 DEF Whole, Kept, Flagged
  <2>7. Contexts'
    BY <1>1, <1>4, <2>4 DEF Whole, Kept, Contexts, Life
  <2> QED
    BY <2>1, <2>2, <2>5, <2>6, <2>7 DEF Whole, AllTyped, Kept
<1> QED
  BY <1>3, <1>4 DEF Install

\* What it gave up has stopped.
LEMMA AbandonedKeeps ==
  ASSUME Whole, NEW k \in Life, Abandoned(k)
  PROVE  Whole'
<1>1. FilesTyped' /\ WatchersTyped' /\ OngoingsTyped' /\ Flowing' /\ UNCHANGED <<fw, halt>>
  BY PipelinesKept DEF Whole, Abandoned
<1>2. /\ start[k] = "abandon" /\ start' = [start EXCEPT ![k] = "failed"]
      /\ UNCHANGED <<mode, running, current, made, lock, ctxOf, cancelled, starts, mishaps>>
  BY DEF Abandoned
<1>3. Kept'
  BY <1>1, <1>2, GoroutineKeeps DEF Whole
<1>4. ControlTyped'
  BY <1>2 DEF Whole, AllTyped, ControlTyped
<1> QED
  BY <1>1, <1>3, <1>4 DEF Whole, AllTyped

\* A start that failed takes the flag back and cancels the context that is current.
LEMMA failStartupKeeps ==
  ASSUME Whole, NEW k \in Life, failStartup(k)
  PROVE  Whole'
<1>1. FilesTyped' /\ WatchersTyped' /\ OngoingsTyped' /\ Flowing' /\ UNCHANGED <<fw, halt>>
  BY PipelinesKept DEF Whole, failStartup
<1>2. /\ start[k] = "failed" /\ lock = "free" /\ start' = [start EXCEPT ![k] = "done"]
      /\ ~running' /\ running' \in BOOLEAN /\ made' = 0 /\ cancelled' = cancelled \cup {current}
      /\ UNCHANGED <<mode, current, lock, ctxOf, starts, mishaps>>
  BY DEF failStartup, Cancel
<1>3. mode = "web" /\ starts # 0 /\ starts \in Nat /\ ~(k > starts)
  <2>1. ~(k > starts) /\ k \in Nat /\ k >= 1 /\ starts \in Nat
    BY <1>2, BoundTyped DEF Whole, Kept, Starting, Life
  <2>2. mode # "foreground" /\ mode \in {"web", "foreground"}
    BY <1>2 DEF Whole, Kept, Starting, AllTyped, ControlTyped
  <2> QED
    BY <2>1, <2>2
<1>4. current = starts
  BY <1>3 DEF Whole, Kept, Contexts
<1>5. current \in Life
  BY <1>3, <1>4 DEF Whole, AllTyped, ControlTyped
<1>6. ControlTyped'
  BY <1>2, <1>5 DEF Whole, AllTyped, ControlTyped
<1>7. start'[k] = "done" /\ \A j \in Life \ {k} : start'[j] = start[j]
  BY <1>2 DEF Whole, AllTyped, ControlTyped
<1>8. Starting'
  <2> SUFFICES ASSUME NEW j \in Life
               PROVE  /\ j > starts' => start'[j] = "none"
                      /\ start'[j] \in {"none", "spawned", "init", "made"} => halt'[j] = "no"
                      /\ start'[j] = "made" => fw'[j] = "on"
                      /\ start'[j] \in {"init", "made"} => ctxOf'[j] \in 1..starts'
                      /\ mode' = "foreground" => start'[j] \in {"none", "done"}
    BY DEF Starting
  <2> QED
    BY <1>1, <1>2, <1>3, <1>7 DEF Whole, Kept, Starting
<1>9. Flagged'
  BY <1>2 DEF Whole, Kept, Flagged
<1>10. Contexts'
  BY <1>2, <1>3, <1>4 DEF Whole, Kept, Contexts
<1> QED
  BY <1>1, <1>6, <1>8, <1>9, <1>10 DEF Whole, AllTyped, Kept

\* The lock is taken to stop, and the context cancelled.
LEMMA StopBegins ==
  ASSUME Whole, lock = "free", running, lock' = "stop", NEW x \in Life, cancelled' = cancelled \cup {x},
         mode = "web" => x = current,
         made = 0 => halt' = halt, made # 0 => halt' = [halt EXCEPT ![made] = "waiting"],
         UNCHANGED <<disks, stores, watchers, stableCh, receiver, batch, work, received, missing, left>>,
         UNCHANGED <<mode, running, current, made, start, ctxOf, starts, mishaps>>
  PROVE  Whole'
<1>1. FilesTyped' /\ OngoingsTyped' /\ Flowing'
  <2>1. CASE made = 0
    <3>1. UNCHANGED <<disks, inPipeline>>
      BY <2>1 DEF watchers, inPipeline, ongoings
    <3> QED
      BY <3>1, PipelinesKept DEF Whole
  <2>2. CASE made # 0
    <3>1. made \in Life /\ halt[made] = "no"
      BY <2>2 DEF Whole, AllTyped, ControlTyped, Kept, Flagged
    <3> QED
      BY <2>2, <3>1, HaltKeeps DEF Whole
  <2> QED
    BY <2>1, <2>2
<1>2. WatchersTyped' /\ UNCHANGED fw
  BY DEF watchers, Whole, AllTyped, WatchersTyped
<1>3. ControlTyped'
  BY DEF Whole, AllTyped, ControlTyped
<1>4. \A j \in Life : j # made => halt'[j] = halt[j]
  BY DEF Whole, AllTyped, OngoingsTyped
<1>5. Starting'
  <2>1. \A j \in Life : start[j] \in {"none", "spawned", "init", "made"} => halt'[j] = "no"
    <3> SUFFICES ASSUME NEW j \in Life, start[j] \in {"none", "spawned", "init", "made"}
                 PROVE  halt'[j] = "no"
      OBVIOUS
    <3>1. j # made
      BY DEF Whole, Kept, Flagged, Life
    <3> QED
      BY <1>4, <3>1 DEF Whole, Kept, Starting
  <2> QED
    BY <1>2, <2>1 DEF Whole, Kept, Starting
<1>6. Flagged'
  BY DEF Whole, Kept, Flagged
<1>7. Contexts'
  BY DEF Whole, Kept, Contexts
<1> QED
  BY <1>1, <1>2, <1>3, <1>5, <1>6, <1>7 DEF Whole, AllTyped, Kept

\* By the web UI, or by a signal.
LEMMA StopWatcherKeeps ==
  ASSUME Whole, StopWatcher
  PROVE  Whole'
<1>1. current \in Life
  BY DEF StopWatcher, Whole, Kept, Contexts, AllTyped, ControlTyped
<1> QED
  BY <1>1, StopBegins DEF StopWatcher, Cancel

\* The lock is given back.
LEMMA StopWatcherReturnsKeeps ==
  ASSUME Whole, StopWatcherReturns
  PROVE  Whole'
<1>1. /\ lock = "stop" /\ UNCHANGED <<disks, stores, ongoings>>
      /\ lock' = "free" /\ ~running' /\ running' \in BOOLEAN /\ made' = 0
      /\ UNCHANGED <<mode, current, start, ctxOf, cancelled, starts, mishaps>>
  BY DEF StopWatcherReturns
<1>2. WatchersTyped' /\ \A j \in Life : j # made => fw'[j] = fw[j]
  <2>1. CASE made = 0
    BY <2>1 DEF StopWatcherReturns, watchers, Whole, AllTyped, WatchersTyped
  <2>2. CASE made # 0
    <3>1. made \in Life /\ StopWatching(made)
      BY <2>2 DEF StopWatcherReturns, Whole, AllTyped, ControlTyped
    <3> QED
      BY <3>1, StopWatchingTyped DEF Whole
  <2> QED
    BY <2>1, <2>2
<1>3. FilesTyped' /\ OngoingsTyped' /\ Flowing' /\ halt' = halt
  <2>1. /\ UNCHANGED <<disk, clock, excluded, recorded, blob>>
        /\ UNCHANGED <<stableCh, receiver, batch, work, halt, received, missing, left>>
    BY <1>1 DEF disks, stores, ongoings
  <2> QED
    BY <2>1, StillFlows DEF Whole, AllTyped, FilesTyped, OngoingsTyped, Flowing
<1>4. ControlTyped'
  BY <1>1 DEF Whole, AllTyped, ControlTyped
<1>5. Starting'
  <2>1. \A j \in Life : start[j] = "made" => fw'[j] = "on"
    <3> SUFFICES ASSUME NEW j \in Life, start[j] = "made" PROVE fw'[j] = "on"
      OBVIOUS
    <3>1. j # made
      BY DEF Whole, Kept, Flagged, Life
    <3> QED
      BY <1>2, <3>1 DEF Whole, Kept, Starting
  <2> QED
    BY <1>1, <1>3, <2>1 DEF Whole, Kept, Starting
<1>6. Flagged'
  BY <1>1 DEF Flagged
<1>7. Contexts'
  BY <1>1 DEF Whole, Kept, Contexts
<1> QED
  BY <1>2, <1>3, <1>4, <1>5, <1>6, <1>7 DEF Whole, AllTyped, Kept

\* A watcher in the foreground.
LEMMA runWatchKeeps ==
  ASSUME Whole, runWatch
  PROVE  Whole'
<1>1. CASE /\ mode = "foreground" /\ starts = 0
           /\ StartPipeline(1)
           /\ starts' = 1 /\ running' = TRUE /\ made' = 1
           /\ ctxOf' = [ctxOf EXCEPT ![1] = 1] /\ start' = [start EXCEPT ![1] = "done"]
           /\ UNCHANGED <<disks, stores, mode, current, lock, cancelled, mishaps>>
  <2>1. /\ mode = "foreground" /\ UNCHANGED <<disks, stores>>
        /\ starts' = 1 /\ running' /\ running' \in BOOLEAN /\ made' = 1
        /\ ctxOf' = [ctxOf EXCEPT ![1] = 1] /\ start' = [start EXCEPT ![1] = "done"]
        /\ UNCHANGED <<mode, current, lock, cancelled, mishaps>>
    BY <1>1
  <2>2. 1 \in Life
    BY BoundTyped DEF Whole
  <2>3. start[1] = "none" /\ halt[1] = "no"
    BY <1>1, <2>2 DEF Whole, Kept, Starting
  <2>4. /\ FilesTyped' /\ WatchersTyped' /\ OngoingsTyped' /\ Flowing'
        /\ fw'[1] = "on" /\ \A j \in Life : fw[j] = "on" => fw'[j] = "on"
        /\ halt' = halt
    BY <1>1, <2>1, <2>2, <2>3, StartPipelineKeeps DEF Whole, Kept
  <2>5. ControlTyped'
    BY <2>1, <2>2 DEF Whole, AllTyped, ControlTyped
  <2>6. start'[1] = "done" /\ \A j \in Life \ {1} : start'[j] = start[j]
    BY <2>1, <2>2 DEF Whole, AllTyped, ControlTyped
  <2>7. Starting'
    <3> SUFFICES ASSUME NEW j \in Life
                 PROVE  /\ j > starts' => start'[j] = "none"
                        /\ start'[j] \in {"none", "spawned", "init", "made"} => halt'[j] = "no"
                        /\ start'[j] = "made" => fw'[j] = "on"
                        /\ start'[j] \in {"init", "made"} => ctxOf'[j] \in 1..starts'
                        /\ mode' = "foreground" => start'[j] \in {"none", "done"}
      BY DEF Starting
    <3>1. start[j] \in {"none", "done"} /\ j > 0
      BY <2>1 DEF Whole, Kept, Starting, Life
    <3> QED
      BY <1>1, <2>1, <2>4, <2>6, <3>1 DEF Whole, Kept, Starting
  <2>8. Flagged'
    BY <2>1, <2>3, <2>4, <2>6 DEF Whole, Kept, Flagged
  <2>9. Contexts'
    BY <2>1 DEF Contexts
  <2> QED
    BY <2>4, <2>5, <2>7, <2>8, <2>9 DEF Whole, AllTyped, Kept
<1>2. CASE /\ mode = "foreground" /\ running /\ lock = "free"
           /\ lock' = "stop" /\ Cancel(1)
           /\ halt' = [halt EXCEPT ![1] = "waiting"]
           /\ UNCHANGED <<disks, stores, watchers, stableCh, receiver, batch, work, received, missing, left,
                          mode, running, current, made, start, ctxOf, starts, mishaps>>
  <2>1. /\ mode = "foreground" /\ running /\ lock = "free"
        /\ lock' = "stop" /\ cancelled' = cancelled \cup {1}
        /\ halt' = [halt EXCEPT ![1] = "waiting"]
        /\ UNCHANGED <<disks, stores, watchers, stableCh, receiver, batch, work, received, missing, left>>
        /\ UNCHANGED <<mode, running, current, made, start, ctxOf, starts, mishaps>>
    BY <1>2 DEF Cancel
  <2>2. 1 \in Life /\ made = 1
    BY <2>1, BoundTyped DEF Whole, Kept, Flagged
  <2> QED
    BY <2>1, <2>2, StopBegins
<1> QED
  BY <1>1, <1>2 DEF runWatch

-----------------------------------------------------------------------------
(* The invariant. *)

\* It holds initially.
LEMMA InitWhole == WatcherInit => Whole
<1> SUFFICES ASSUME WatcherInit PROVE Whole
  OBVIOUS
<1>1. AllTyped
  BY InitAllTyped
<1>2. Flowing
  BY DEF WatcherInit, Flowing, Flow, Phases, NoBatch
<1>3. Starting
  BY DEF WatcherInit, Starting
<1>4. Flagged
  BY DEF WatcherInit, Flagged
<1>5. Contexts
  BY DEF WatcherInit, Contexts
<1> QED
  BY <1>1, <1>2, <1>3, <1>4, <1>5 DEF Whole, Kept

\* Every step keeps it.
LEMMA NextWhole ==
  ASSUME Whole, WatcherNext
  PROVE  Whole'
<1>1. ASSUME NEW f \in File, Change(f) PROVE Whole'
  <2>1. UNCHANGED <<control, starts, fw, halt>>
    BY <1>1 DEF Change, ongoings
  <2> QED
    BY <1>1, <2>1, ChangeTyped, OthersKeep DEF Whole
<1>2. ASSUME NEW f \in File, handleWatchersAdd(f) \/ handleWatchersDelete(f) PROVE Whole'
  BY <1>2, ExclusionsTyped, OthersKeep DEF Whole
<1>3. ASSUME NEW k \in Life, Works(k) PROVE Whole'
  BY <1>3, WorksFlow, WorksKeep DEF Whole
<1>4. ASSUME NEW k \in Life, ReadContext(k) \/ Setup(k) \/ Install(k) \/ Abandoned(k) \/ failStartup(k)
      PROVE  Whole'
  BY <1>4, ReadContextKeeps, SetupKeeps, InstallKeeps, AbandonedKeeps, failStartupKeeps
<1> QED
  BY <1>1, <1>2, <1>3, <1>4, StartWatcherKeeps, StopWatcherKeeps, runWatchKeeps, StopWatcherReturnsKeeps
  DEF WatcherNext, Controller

\* Pipelines and controller stay in order.
LEMMA WatcherInvariant == WatcherSpec => []Whole
<1>1. Whole /\ [WatcherNext]_watcherVars => Whole'
  <2> SUFFICES ASSUME Whole, [WatcherNext]_watcherVars PROVE Whole'
    OBVIOUS
  <2>1. CASE WatcherNext
    BY <2>1, NextWhole
  <2>2. CASE UNCHANGED watcherVars
    <3>1. UNCHANGED <<disks, stores, watchers, ongoings, control, starts, mishaps>>
      BY <2>2 DEF watcherVars
    <3>2. UNCHANGED <<disks, inPipeline>>
      BY <3>1 DEF watchers, inPipeline
    <3>3. FilesTyped' /\ WatchersTyped' /\ OngoingsTyped' /\ Flowing' /\ UNCHANGED <<fw, halt>>
      BY <3>2, PipelinesKept DEF Whole
    <3>4. Kept'
      BY <3>1, <3>3, OthersKeep DEF Whole
    <3>5. ControlTyped'
      BY <3>1 DEF control, Whole, AllTyped, ControlTyped
    <3> QED
      BY <3>3, <3>4, <3>5 DEF Whole, AllTyped
  <2> QED
    BY <2>1, <2>2
<1> QED
  BY <1>1, InitWhole, PTL DEF WatcherSpec

\* A STOP FLUSHES.  When Stop has returned, all that the ongoing backup had received is
\* recorded, but for what was in a batch in work, whose call failed, or for which the
\* final flush's two minutes did not suffice: whoever stopped it, the web UI, a failed
\* start or a signal, and wherever its two goroutines were.
THEOREM StopFlushesAll == WatcherSpec => []StopFlushes
<1>1. Whole => StopFlushes
  <2> SUFFICES ASSUME Whole, NEW k \in Life, halt[k] = "done"
               PROVE  received[k] \subseteq recorded \cup missing[k]
    BY DEF StopFlushes
  <2>1. batch[k] = <<>> /\ work[k].list = <<>>
    BY DEF Whole, Flowing, Phases
  <2> QED
    BY <2>1, ContentsNone DEF Whole, Flowing, Flow
<1> QED
  BY <1>1, WatcherInvariant, PTL

\* THE FLAG TELLS THE TRUTH, whatever starts are still on the way and whichever of them
\* fail: unset, all contexts ever made are cancelled; set, with no start on the way, the
\* pipeline is there and alive.
THEOREM FlagIsTrue == WatcherSpec => []FlagTellsTruth
<1>1. Whole => FlagTellsTruth
  <2> SUFFICES ASSUME Whole, mode = "web", lock = "free"
               PROVE  /\ ~running => 1..starts \subseteq cancelled
                      /\ running /\ (\A k \in Life : start[k] \in {"none", "done"}) =>
                           made # 0 /\ fw[made] = "on" /\ ~FwDone(made) /\ ~OngoingDone(made)
    BY DEF FlagTellsTruth
  <2>1. ~running => 1..starts \subseteq cancelled
    BY DEF Whole, Kept, Contexts
  <2>2. ASSUME running, \A k \in Life : start[k] \in {"none", "done"}
        PROVE  made # 0 /\ fw[made] = "on" /\ ~FwDone(made) /\ ~OngoingDone(made)
    <3>1. starts \in Life
      BY <2>2 DEF Whole, Kept, Contexts, AllTyped, ControlTyped
    <3>2. made # 0
      BY <2>2, <3>1 DEF Whole, Kept, Contexts
    <3> QED
      BY <3>2 DEF Whole, Kept, Flagged, Contexts, FwDone, OngoingDone
  <2> QED
    BY <2>1, <2>2
<1> QED
  BY <1>1, WatcherInvariant, PTL

\* The types hold.
THEOREM WatcherTypes == WatcherSpec => []WatcherTypeOK
  BY WatcherInvariant, AllTypedOK, PTL DEF Whole

-----------------------------------------------------------------------------
(* The configuration file: its invariant. *)

\* The changes there are, and who makes them.
ValidEdit(x, e) ==
  /\ \/ e.kind \in {"add", "remove"} /\ e.val \in Client
     \/ e.kind = "watcher" /\ e.val \in BOOLEAN
     \/ e.kind = "paths" /\ e.val \in BOOLEAN /\ x \in Handler
     \/ e.kind = "other" /\ e.val \in Other
     \/ e.kind \in {"new", "recover"} /\ e.val \in Config /\ e.val.admins = {} /\ x \in Command
  /\ x = "daemon" => e.kind = "watcher"

\* How far an editor can be, and the stages of one at the file.
Stage == {"idle", "pending", "loaded", "open", "written", "synced"}
AtWork == {"loaded", "open"}

\* An editor's change and what it is going to write.
EditorsTyped ==
  /\ at \in [Editor -> Stage] /\ cfg \in [Editor -> Config \cup {None}]
  /\ edit = [x \in Editor |-> edit[x]]
  /\ \A x \in Editor : IF at[x] = "idle" THEN edit[x] = None ELSE ValidEdit(x, edit[x])
  /\ \A x \in Editor : at[x] \in {"loaded", "open", "written"} => cfg[x] \in Config
  /\ \A x \in Command : at[x] = "pending" => edit[x].kind = "recover"
  /\ \A x \in Handler : at[x] = "pending" => edit[x].kind = "paths"
  /\ \A x \in Command : at[x] = "written" => edit[x].kind = "new"

OthersTyped ==
  /\ role \in {"server", "client"}
  /\ file \in Config \cup {Truncated, Garbled} /\ table \in BOOLEAN /\ apart \in BOOLEAN
  /\ mem \in Config \cup {None} /\ clients \in SUBSET Client
  /\ held \in [Reader -> (SUBSET Client) \cup {None}]
  /\ want \in Config /\ revoked \in SUBSET Client /\ late \in SUBSET Reader
  /\ lost \in SUBSET Setting /\ stale \in [Editor -> SUBSET Setting] /\ old \in SUBSET Setting
  /\ slipped \in BOOLEAN
  /\ edits \in 0..MaxEdits /\ trouble \in 0..MaxTrouble

\* Requests and goroutines belong to a server that runs, recovery to a client.
Roles ==
  /\ \A x \in Handler : at[x] # "idle" => Up /\ role = "server"
  /\ \A x \in Command : at[x] # "idle" /\ edit[x].kind = "recover" => role = "client"

\* All types, which no editor can break.
Typed == EditorsTyped /\ OthersTyped /\ Roles

\* What agrees with what was reported but for the settings of X.
Agrees(c, w, X) == \A s \in Setting \ X : Same(c, w, s)

\* What is to be written for a change has what the change sets.
Applied(c, e) == \A d \in Config : \A s \in Sets(e) : Same(c, Apply(e, d), s)

\* The file does but for what is lost; and all is when it is no configuration and nobody
\* is writing it.
FileAgrees ==
  /\ file \in Config => Agrees(file, want, lost)
  /\ file = Garbled => lost = Setting
  /\ file = Truncated /\ (\A x \in Editor : at[x] # "open") => lost = Setting

\* What an editor is going to write sets what its change sets, and agrees in all else but
\* for what it has not read.
CopiesAgree ==
  \A x \in Editor : at[x] \in AtWork =>
    Agrees(cfg[x], want, lost \cup stale[x] \cup Sets(edit[x])) /\ Applied(cfg[x], edit[x])

\* The daemon of a client has what was not written since it started.
MemAgrees == role = "client" /\ Up => Agrees(mem, want, lost \cup old \cup {"watcher"})

\* No list of admins that is in force, or was read since the last change, has a client
\* whose removal was reported.
Refused ==
  /\ revoked \cap (want.admins \cup lost) = {}
  /\ ~slipped => revoked \cap clients = {}
  /\ \A r \in Reader : held[r] # None /\ r \notin late => held[r] \subseteq want.admins \cup lost

\* Who is copying the table to the file.
Copies(x) == at[x] \in AtWork /\ edit[x].kind = "paths"

\* While a wizard has written the file and not yet replaced the table, the path that was
\* reported is its own, unless another was since.
Wizards ==
  \A x \in Command : at[x] = "written" /\ "path" \notin stale[x] => want.path = cfg[x].path

\* If no goroutine is still to copy the table and no wizard to replace it, what was reported
\* has its path or someone is going to bring it; and if someone is going to bring another, of
\* which no one will know that it is old, someone will bring the table's.
Fresh == \E x \in Handler : Copies(x) /\ edit[x].val = table

Listed ==
  /\ ~apart
  /\ \A x \in Handler : at[x] # "pending"
  /\ \A x \in Command : at[x] # "written"
  => /\ want.path = table \/ Fresh
     /\ \A x \in Handler : Copies(x) /\ edit[x].val # table /\ "path" \notin stale[x] => Fresh

\* The invariant.
ConfigInv == Typed /\ FileAgrees /\ CopiesAgree /\ MemAgrees /\ Refused /\ Wizards /\ Listed

-----------------------------------------------------------------------------
(* Changes and settings. *)

\* To agree on a setting is an equivalence.
LEMMA SameSame ==
  ASSUME NEW c, NEW d, NEW f, NEW s
  PROVE  Same(c, c, s) /\ (Same(c, d, s) => Same(d, c, s)) /\ (Same(c, d, s) /\ Same(d, f, s) => Same(c, f, s))
  BY DEF Same

\* What a change leaves alone, and what it does to the admins and the path.
LEMMA ApplyGood ==
  ASSUME NEW x, NEW e, ValidEdit(x, e), NEW c \in Config
  PROVE  /\ Apply(e, c) \in Config
         /\ e.kind = "add" => Apply(e, c).admins = c.admins \cup {e.val}
         /\ e.kind # "add" => Apply(e, c).admins \subseteq c.admins
         /\ e.kind \notin {"paths", "new", "recover"} => Apply(e, c).path = c.path
         /\ e.kind = "paths" => Apply(e, c).path = e.val
         /\ e.kind \in {"new", "recover"} => Apply(e, c) = e.val
<1> USE DEF ValidEdit, Apply, AddAdminClient, RemoveAdminClient, Config
<1>1. CASE e.kind = "add"
  BY <1>1
<1>2. CASE e.kind = "remove"
  BY <1>2
<1>3. CASE e.kind = "watcher"
  BY <1>3
<1>4. CASE e.kind = "paths"
  BY <1>4
<1>5. CASE e.kind = "other"
  BY <1>5
<1>6. CASE e.kind \in {"new", "recover"}
  BY <1>6
<1> QED
  BY <1>1, <1>2, <1>3, <1>4, <1>5, <1>6

\* A file of its own does not depend on the one there was.
LEMMA ApplyNew ==
  ASSUME NEW e, e.kind \in {"new", "recover"}, NEW c
  PROVE  Apply(e, c) = e.val /\ Sets(e) = Setting
  BY DEF Apply, Sets

\* A change sets what it sets, whatever there was, and nothing else.
LEMMA ApplySets ==
  ASSUME NEW x, NEW e, ValidEdit(x, e), NEW c \in Config, NEW d \in Config
  PROVE  /\ Sets(e) \subseteq Setting
         /\ \A s \in Sets(e) : Same(Apply(e, c), Apply(e, d), s)
         /\ \A s \in Setting \ Sets(e) : Same(Apply(e, c), c, s)
         /\ "path" \in Sets(e) <=> e.kind \in {"paths", "new", "recover"}
<1> USE DEF ValidEdit, Apply, AddAdminClient, RemoveAdminClient, Config, Sets, Same, Setting
<1> USE ConfigFileAssumption
<1>1. CASE e.kind = "add"
  BY <1>1
<1>2. CASE e.kind = "remove"
  BY <1>2
<1>3. CASE e.kind = "watcher"
  BY <1>3
<1>4. CASE e.kind = "paths"
  BY <1>4
<1>5. CASE e.kind = "other"
  BY <1>5
<1>6. CASE e.kind \in {"new", "recover"}
  BY <1>6
<1> QED
  BY <1>1, <1>2, <1>3, <1>4, <1>5, <1>6

\* What is read is a configuration, as what is written is, if it is not garbled.
LEMMA LoadGood == OthersTyped /\ Loads => Load \in Config /\ (file # Truncated => Load = file)
<1>1. Default \in Config
  BY DEF Default, Config, Other
<1> QED
  BY <1>1 DEF OthersTyped, Loads, Load

\* What can be left in the file.
LEMMA SaveGood ==
  ASSUME OthersTyped, NEW c \in Config, NEW f \in Save(c)
  PROVE  f \in Config \cup {Garbled} /\ (file = Truncated => f = c)
<1>1. CASE file = Truncated
  BY <1>1, ConfigFileAssumption DEF Save
<1>2. CASE file = Garbled
  BY <1>2, ConfigFileAssumption DEF Save
<1>3. CASE file \in Config
  <2>1. [c EXCEPT !.admins = file.admins] \in Config
    BY <1>3 DEF Config
  <2>2. file # Truncated /\ file # Garbled
    BY <1>3, ConfigFileAssumption
  <2> QED
    BY <2>1, <2>2 DEF Save
<1> QED
  BY <1>1, <1>2, <1>3 DEF OthersTyped

\* What writers that fail leave behind.
LEMMA LeftTyped ==
  ASSUME Typed, NEW X \in SUBSET Editor, NEW f \in Left(X)
  PROVE  f \in Config \cup {Truncated, Garbled}
<1>1. CASE f = file
  BY <1>1 DEF Typed, OthersTyped
<1>2. CASE f # file
  <2>1. PICK x \in X : at[x] = "open" /\ f \in {Garbled, [cfg[x] EXCEPT !.admins = {}]}
    BY <1>2 DEF Left
  <2>2. cfg[x] \in Config
    BY <2>1 DEF Typed, EditorsTyped
  <2>3. [cfg[x] EXCEPT !.admins = {}] \in Config
    BY <2>2 DEF Config
  <2> QED
    BY <2>1, <2>3
<1> QED
  BY <1>1, <1>2

\* A new file.
LEMMA NewGood ==
  ASSUME NEW b \in BOOLEAN, NEW p \in BOOLEAN
  PROVE  New(b, p) \in Config /\ New(b, p).admins = {} /\ New(b, p).path = p
  BY DEF New, Config, Other

\* The changes that commands, handlers and the daemon begin with are valid, and none is
\* that of the paths or a recovery.
LEMMA EditsValid ==
  ASSUME NEW x \in Editor, NEW e \in Edits(x)
  PROVE  ValidEdit(x, e) /\ e.kind \notin {"paths", "recover"}
<1> USE DEF ValidEdit
<1>0. x # "daemon" \/ (x \notin Handler /\ x \notin Command)
  BY ConfigFileAssumption
<1>1. CASE x \in Handler
  <2>0. x \notin Command
    BY <1>1, ConfigFileAssumption
  <2>1. e \in handleAdminClientsAdd \cup handleAdminClientsRemove \cup handleAPIConfigSettings
              \cup handleAPINodeRole \cup handleAPINodeHostname \cup handleAPIWatcherAutostart
    BY <1>1, <2>0 DEF Edits
  <2> QED
    BY <1>0, <1>1, <2>1 DEF handleAdminClientsAdd, handleAdminClientsRemove, handleAPIConfigSettings,
                handleAPINodeRole, handleAPINodeHostname, handleAPIWatcherAutostart, Fit, Other
<1>2. CASE x \in Command
  <2>1. x \notin Handler
    BY <1>2, ConfigFileAssumption
  <2>2. e \in NodeRoleSet \cup NodeHostnameSet \cup updateWatcherEnabled \cup runAdminClientAdd
              \cup runAdminClientRemove \cup runInteractiveSetup
    BY <1>2, <2>1 DEF Edits
  <2>3. CASE e \in runInteractiveSetup
    <3>1. PICK b \in BOOLEAN, p \in BOOLEAN : e.kind = "new" /\ e.val = New(b, p)
      BY <2>3 DEF runInteractiveSetup
    <3> QED
      BY <1>0, <1>2, <3>1, NewGood
  <2>5. CASE e \in NodeRoleSet \cup NodeHostnameSet \cup updateWatcherEnabled \cup runAdminClientAdd
                   \cup runAdminClientRemove
    BY <1>0, <1>2, <2>5 DEF NodeRoleSet, NodeHostnameSet, updateWatcherEnabled, runAdminClientAdd,
                runAdminClientRemove, Fit, Other
  <2> QED
    BY <2>2, <2>3, <2>5
<1>3. CASE x = "daemon"
  <2>1. x \notin Handler /\ x \notin Command
    BY <1>3, ConfigFileAssumption
  <2> QED
    BY <2>1 DEF Edits, updateWatcherEnabled
<1> QED
  BY <1>1, <1>2, <1>3 DEF Editor

\* Who may be an editor or a reader.
LEMMA Editors ==
  /\ Command \subseteq Editor /\ Handler \subseteq Editor /\ "daemon" \in Editor
  /\ Handler \subseteq Reader /\ "ticker" \in Reader
  /\ \A x \in Command : x \notin Handler
  /\ \A x \in Editor : x = "daemon" \/ x \in Command \/ x \in Handler
  /\ "daemon" \notin Command /\ "daemon" \notin Handler
  BY ConfigFileAssumption DEF Editor, Reader


\* All of the types hold.
LEMMA TypedOK == Typed => TypeOK
<1> SUFFICES ASSUME Typed PROVE TypeOK
  OBVIOUS
<1>1. \A x \in Editor : at[x] = "idle" => edit[x] = None
  BY DEF Typed, EditorsTyped
<1> QED
  BY <1>1 DEF Typed, TypeOK, OthersTyped, EditorsTyped, Stage

\* The types hold initially.
LEMMA InitTyped == Init => Typed /\ file \in Config /\ file.path = FALSE
<1> SUFFICES ASSUME Init PROVE EditorsTyped /\ OthersTyped /\ Roles /\ file \in Config /\ file.path = FALSE
  BY DEF Typed
<1>1. EditorsTyped /\ Roles
  BY Editors DEF Init, EditorsTyped, Stage, Roles
<1>2. file \in Config /\ file.path = FALSE
  <2>1. New(FALSE, FALSE) \in Config /\ New(FALSE, FALSE).path = FALSE
    BY NewGood
  <2>2. PICK A \in SUBSET Client : file = [New(FALSE, FALSE) EXCEPT !.admins = A]
    BY DEF Init
  <2> QED
    BY <2>1, <2>2 DEF Config
<1>3. file.admins \in SUBSET Client
  BY <1>2 DEF Config
<1>4. edits \in 0..MaxEdits /\ trouble \in 0..MaxTrouble
  BY ConfigFileAssumption DEF Init
<1> QED
  BY <1>1, <1>2, <1>3, <1>4 DEF Init, OthersTyped

\* One editor goes on.
LEMMA EditorMoves ==
  ASSUME EditorsTyped, NEW x \in Editor, NEW e, NEW c \in Config \cup {None}, NEW p \in Stage \ {"idle"},
         ValidEdit(x, e), p \in {"loaded", "open", "written"} => c \in Config,
         x \in Command /\ p = "pending" => e.kind = "recover",
         x \in Handler /\ p = "pending" => e.kind = "paths",
         x \in Command /\ p = "written" => e.kind = "new",
         at' = [at EXCEPT ![x] = p], edit' = [edit EXCEPT ![x] = e], cfg' = [cfg EXCEPT ![x] = c]
  PROVE  EditorsTyped' /\ at'[x] = p /\ edit'[x] = e /\ cfg'[x] = c
         /\ \A y \in Editor \ {x} : at'[y] = at[y] /\ edit'[y] = edit[y] /\ cfg'[y] = cfg[y]
<1>1. at'[x] = p /\ edit'[x] = e /\ cfg'[x] = c
  BY DEF EditorsTyped
<1>2. \A y \in Editor \ {x} : at'[y] = at[y] /\ edit'[y] = edit[y] /\ cfg'[y] = cfg[y]
  BY DEF EditorsTyped
<1>3. at' \in [Editor -> Stage] /\ cfg' \in [Editor -> Config \cup {None}]
      /\ edit' = [y \in Editor |-> edit'[y]]
  BY DEF EditorsTyped
<1>4. \A y \in Editor : IF at'[y] = "idle" THEN edit'[y] = None ELSE ValidEdit(y, edit'[y])
  BY <1>1, <1>2 DEF EditorsTyped
<1>5. /\ \A y \in Editor : at'[y] \in {"loaded", "open", "written"} => cfg'[y] \in Config
      /\ \A y \in Command : at'[y] = "pending" => edit'[y].kind = "recover"
      /\ \A y \in Handler : at'[y] = "pending" => edit'[y].kind = "paths"
      /\ \A y \in Command : at'[y] = "written" => edit'[y].kind = "new"
  BY <1>1, <1>2, Editors DEF EditorsTyped
<1> QED
  BY <1>1, <1>2, <1>3, <1>4, <1>5 DEF EditorsTyped, ValidEdit

\* One goes on with what it has.
LEMMA EditorOnward ==
  ASSUME EditorsTyped, NEW x \in Editor, NEW p \in {"open", "written", "synced"}, at[x] # "idle", cfg[x] \in Config,
         x \in Command /\ p = "written" => edit[x].kind = "new",
         at' = [at EXCEPT ![x] = p], UNCHANGED <<edit, cfg>>
  PROVE  EditorsTyped' /\ at'[x] = p /\ \A y \in Editor \ {x} : at'[y] = at[y]
<1>1. at'[x] = p /\ \A y \in Editor \ {x} : at'[y] = at[y]
  BY DEF EditorsTyped
<1>2. at' \in [Editor -> Stage]
  BY DEF EditorsTyped, Stage
<1>3. \A y \in Editor : IF at'[y] = "idle" THEN edit'[y] = None ELSE ValidEdit(y, edit'[y])
  BY <1>1 DEF EditorsTyped
<1>4. /\ \A y \in Editor : at'[y] \in {"loaded", "open", "written"} => cfg'[y] \in Config
      /\ \A y \in Command : at'[y] = "pending" => edit'[y].kind = "recover"
      /\ \A y \in Handler : at'[y] = "pending" => edit'[y].kind = "paths"
      /\ \A y \in Command : at'[y] = "written" => edit'[y].kind = "new"
  BY <1>1, Editors DEF EditorsTyped
<1> QED
  BY <1>1, <1>2, <1>3, <1>4 DEF EditorsTyped, ValidEdit

\* Some end.
LEMMA GoneTyped ==
  ASSUME EditorsTyped, NEW X \in SUBSET Editor, Gone(X)
  PROVE  /\ EditorsTyped'
         /\ \A y \in Editor : IF y \in X THEN at'[y] = "idle"
                              ELSE at'[y] = at[y] /\ edit'[y] = edit[y] /\ cfg'[y] = cfg[y]
<1>1. \A y \in Editor : IF y \in X THEN at'[y] = "idle" /\ edit'[y] = None
                        ELSE at'[y] = at[y] /\ edit'[y] = edit[y] /\ cfg'[y] = cfg[y]
  BY DEF Gone
<1>2. at' \in [Editor -> Stage] /\ cfg' \in [Editor -> Config \cup {None}]
      /\ edit' = [y \in Editor |-> edit'[y]]
  BY DEF EditorsTyped, Gone, Stage
<1>3. \A y \in Editor : IF at'[y] = "idle" THEN edit'[y] = None ELSE ValidEdit(y, edit'[y])
  BY <1>1 DEF EditorsTyped
<1>4. /\ \A y \in Editor : at'[y] \in {"loaded", "open", "written"} => cfg'[y] \in Config
      /\ \A y \in Command : at'[y] = "pending" => edit'[y].kind = "recover"
      /\ \A y \in Handler : at'[y] = "pending" => edit'[y].kind = "paths"
      /\ \A y \in Command : at'[y] = "written" => edit'[y].kind = "new"
  BY <1>1, Editors DEF EditorsTyped
<1> QED
  BY <1>1, <1>2, <1>3, <1>4 DEF EditorsTyped, ValidEdit

\* What changes no editor keeps their types.
LEMMA EditorsStill == EditorsTyped /\ UNCHANGED <<edit, cfg, at>> => EditorsTyped'
  BY DEF EditorsTyped, ValidEdit

\* What puts no new request or goroutine, and no other command in a recovery.
LEMMA RolesStill ==
  ASSUME Roles, role' = role,
         (\E x \in Handler : at'[x] # "idle") => Up',
         \A x \in Editor : at'[x] # "idle" => at[x] # "idle" /\ edit'[x].kind = edit[x].kind
  PROVE  Roles'
<1>1. ASSUME NEW x \in Handler, at'[x] # "idle"
      PROVE  Up' /\ role' = "server"
  BY <1>1, Editors DEF Roles
<1>2. ASSUME NEW x \in Command, at'[x] # "idle", edit'[x].kind = "recover"
      PROVE  role' = "client"
  BY <1>2, Editors DEF Roles
<1> QED
  BY <1>1, <1>2 DEF Roles

-----------------------------------------------------------------------------
(* What changes leave true. *)

\* No text is written, and what agreed and is still to be written is as it was.
LEMMA StillAgree ==
  ASSUME Typed, FileAgrees, CopiesAgree, UNCHANGED <<file, want>>, lost \subseteq lost', lost' \subseteq Setting,
         \A y \in Editor : at[y] = "open" => at'[y] = "open",
         \A y \in Editor : at'[y] \in AtWork =>
           at[y] \in AtWork /\ cfg'[y] = cfg[y] /\ edit'[y] = edit[y] /\ stale[y] \subseteq stale'[y]
  PROVE  FileAgrees' /\ CopiesAgree'
<1>0. \A c, w, X, Y : X \subseteq Y /\ Agrees(c, w, X) => Agrees(c, w, Y)
  BY DEF Agrees
<1>1. FileAgrees'
  BY <1>0 DEF FileAgrees
<1>2. ASSUME NEW y \in Editor, at'[y] \in AtWork
      PROVE  Agrees(cfg'[y], want', lost' \cup stale'[y] \cup Sets(edit'[y])) /\ Applied(cfg'[y], edit'[y])
  <2>1. at[y] \in AtWork /\ cfg'[y] = cfg[y] /\ edit'[y] = edit[y] /\ stale[y] \subseteq stale'[y]
    BY <1>2
  <2>2. Agrees(cfg[y], want, lost \cup stale[y] \cup Sets(edit[y])) /\ Applied(cfg[y], edit[y])
    BY <2>1 DEF CopiesAgree
  <2>3. lost \cup stale[y] \cup Sets(edit[y]) \subseteq lost' \cup stale'[y] \cup Sets(edit[y])
    BY <2>1
  <2>4. Agrees(cfg[y], want, lost' \cup stale'[y] \cup Sets(edit[y]))
    BY <1>0, <2>2, <2>3
  <2> QED
    BY <2>1, <2>2, <2>4
<1> QED
  BY <1>1, <1>2 DEF CopiesAgree

\* The daemon's memory and the reports are as they were.
LEMMA StillInMem ==
  ASSUME MemAgrees, UNCHANGED <<role, mem, want, old>>, lost \subseteq lost'
  PROVE  MemAgrees'
  BY DEF MemAgrees, Agrees, Up

\* Neither the policy nor the reports change, but that some removals are forgotten.
LEMMA StillRefused ==
  ASSUME Refused, UNCHANGED <<clients, held, late, slipped>>, want'.admins = want.admins,
         lost \subseteq lost', revoked' \subseteq revoked, revoked' \cap lost' = {}
  PROVE  Refused'
<1>1. revoked' \cap (want'.admins \cup lost') = {}
  BY DEF Refused
<1>2. ~slipped' => revoked' \cap clients' = {}
  BY DEF Refused
<1>3. \A r \in Reader : held'[r] # None /\ r \notin late' => held'[r] \subseteq want'.admins \cup lost'
  BY DEF Refused
<1> QED
  BY <1>1, <1>2, <1>3 DEF Refused

\* No wizard goes on to the table.
LEMMA StillWizards ==
  ASSUME Wizards, want'.path = want.path,
         \A y \in Command : at'[y] = "written" =>
           at[y] = "written" /\ cfg'[y] = cfg[y] /\ ("path" \in stale[y] => "path" \in stale'[y])
  PROVE  Wizards'
  BY DEF Wizards

\* The table and the path reported are as they were, and so are those who copy the table.
LEMMA StillListed ==
  ASSUME Listed, want'.path = want.path, table' = table,
         ~apart' =>
           /\ ~apart
           /\ \A y \in Handler : at[y] = "pending" => at'[y] = "pending"
           /\ \A y \in Command : at[y] = "written" => at'[y] = "written"
           /\ \A y \in Handler : Copies(y)' <=> Copies(y)
           /\ \A y \in Handler : Copies(y) => edit'[y] = edit[y] /\ ("path" \in stale[y] => "path" \in stale'[y])
  PROVE  Listed'
<1> SUFFICES ASSUME ~apart', \A x \in Handler : at'[x] # "pending", \A x \in Command : at'[x] # "written"
             PROVE  /\ want'.path = table' \/ Fresh'
                    /\ \A x \in Handler : Copies(x)' /\ edit'[x].val # table' /\ "path" \notin stale'[x] => Fresh'
  BY DEF Listed
<1>1. /\ want.path = table \/ Fresh
      /\ \A x \in Handler : Copies(x) /\ edit[x].val # table /\ "path" \notin stale[x] => Fresh
  BY DEF Listed
<1>2. Fresh => Fresh'
  BY DEF Fresh
<1> QED
  BY <1>1, <1>2

\* What an editor begins with agrees but for what it has not read.
LEMMA BeginAgrees ==
  ASSUME Typed, NEW x \in Editor, NEW e, ValidEdit(x, e), NEW c, NEW X \in SUBSET Setting,
         c \in Config \/ e.kind \in {"new", "recover"},
         c \in Config => Agrees(c, want, X \cup Sets(e))
  PROVE  Agrees(Apply(e, c), want, X \cup Sets(e)) /\ Applied(Apply(e, c), e)
<1>1. CASE e.kind \in {"new", "recover"}
  BY <1>1, ApplyNew, SameSame DEF Agrees, Applied
<1>2. CASE c \in Config
  <2>1. Applied(Apply(e, c), e)
    BY <1>2, ApplySets DEF Applied
  <2>2. ASSUME NEW s \in Setting \ (X \cup Sets(e))
        PROVE  Same(Apply(e, c), want, s)
    <3>1. Same(Apply(e, c), c, s)
      BY <1>2, ApplySets
    <3>2. Same(c, want, s)
      BY <1>2 DEF Agrees
    <3> QED
      BY <3>1, <3>2, SameSame
  <2> QED
    BY <2>1, <2>2 DEF Agrees
<1> QED
  BY <1>1, <1>2

\* The copies when an editor begins.
LEMMA BeginCopies ==
  ASSUME Typed, FileAgrees, CopiesAgree, NEW x \in Editor, NEW e, ValidEdit(x, e), NEW c, Begin(x, e, c),
         c \in Config \/ e.kind \in {"new", "recover"},
         c \in Config => Agrees(c, want, lost \cup stale'[x] \cup Sets(e)), at[x] # "open", UNCHANGED file
  PROVE  EditorsTyped' /\ stale' \in [Editor -> SUBSET Setting] /\ FileAgrees' /\ CopiesAgree'
         /\ at'[x] = "loaded" /\ edit'[x] = e
         /\ \A y \in Editor \ {x} : at'[y] = at[y] /\ edit'[y] = edit[y] /\ cfg'[y] = cfg[y] /\ stale'[y] = stale[y]
<1> DEFINE n == IF x = "daemon" THEN old ELSE IF file = Truncated THEN Setting ELSE {}
<1>0. EditorsTyped /\ OthersTyped
  BY DEF Typed
<1>1. Apply(e, c) \in Config
  <2>1. CASE c \in Config
    BY <2>1, ApplyGood
  <2>2. CASE e.kind \in {"new", "recover"}
    BY <2>2, ApplyNew DEF ValidEdit
  <2> QED
    BY <2>1, <2>2
<1>2. /\ EditorsTyped' /\ at'[x] = "loaded" /\ edit'[x] = e /\ cfg'[x] = Apply(e, c)
      /\ \A y \in Editor \ {x} : at'[y] = at[y] /\ edit'[y] = edit[y] /\ cfg'[y] = cfg[y]
  <2>1. "loaded" \in Stage \ {"idle"} /\ "loaded" # "pending" /\ "loaded" # "written"
    BY DEF Stage
  <2>2. at' = [at EXCEPT ![x] = "loaded"] /\ edit' = [edit EXCEPT ![x] = e] /\ cfg' = [cfg EXCEPT ![x] = Apply(e, c)]
    BY DEF Begin
  <2> QED
    BY <1>0, <1>1, <2>1, <2>2, EditorMoves
<1>3. stale' = [stale EXCEPT ![x] = n] /\ n \in SUBSET Setting /\ stale \in [Editor -> SUBSET Setting]
  BY <1>0 DEF Begin, OthersTyped
<1> HIDE DEF n
<1>4. stale' \in [Editor -> SUBSET Setting] /\ \A y \in Editor \ {x} : stale'[y] = stale[y]
  BY <1>3
<1>5. UNCHANGED <<want, lost>>
  BY DEF Begin
<1>6. FileAgrees'
  <2>1. \A y \in Editor : at[y] = "open" => at'[y] = "open"
    BY <1>2
  <2> QED
    BY <1>5, <2>1 DEF FileAgrees
<1>7. lost \cup stale'[x] \in SUBSET Setting
  BY <1>0, <1>4 DEF OthersTyped
<1>8. Agrees(cfg'[x], want, lost \cup stale'[x] \cup Sets(e)) /\ Applied(cfg'[x], e)
  <2> DEFINE X == lost \cup stale'[x]
  <2>1. X \in SUBSET Setting /\ (c \in Config => Agrees(c, want, X \cup Sets(e)))
    BY <1>7
  <2> HIDE DEF X
  <2>2. Agrees(Apply(e, c), want, X \cup Sets(e)) /\ Applied(Apply(e, c), e)
    BY <2>1, BeginAgrees
  <2> QED
    BY <1>2, <2>2 DEF X
<1>9. ASSUME NEW y \in Editor, at'[y] \in AtWork
      PROVE  Agrees(cfg'[y], want', lost' \cup stale'[y] \cup Sets(edit'[y])) /\ Applied(cfg'[y], edit'[y])
  BY <1>2, <1>4, <1>5, <1>8, <1>9 DEF CopiesAgree
<1>10. CopiesAgree'
  BY <1>9 DEF CopiesAgree
<1> QED
  BY <1>2, <1>4, <1>6, <1>10

-----------------------------------------------------------------------------
(* What editors do. *)

\* A command, a handler or the daemon begins a change that is none of the paths.
LEMMA BeginsGood ==
  ASSUME ConfigInv, NEW x \in Editor, NEW e, ValidEdit(x, e), e.kind # "paths", NEW c, Begin(x, e, c),
         c \in Config \/ e.kind \in {"new", "recover"},
         c \in Config => Agrees(c, want, lost \cup stale'[x] \cup Sets(e)),
         at[x] = "idle" \/ (at[x] = "pending" /\ x \in Command),
         UNCHANGED <<file, table, apart, clients, held, late, slipped, revoked>>
  PROVE  /\ EditorsTyped' /\ stale' \in [Editor -> SUBSET Setting]
         /\ FileAgrees' /\ CopiesAgree' /\ Refused' /\ Wizards' /\ Listed'
         /\ at'[x] = "loaded" /\ edit'[x] = e
         /\ \A y \in Editor \ {x} : at'[y] = at[y] /\ edit'[y] = edit[y]
<1>1. /\ EditorsTyped' /\ stale' \in [Editor -> SUBSET Setting] /\ FileAgrees' /\ CopiesAgree'
      /\ at'[x] = "loaded" /\ edit'[x] = e
      /\ \A y \in Editor \ {x} : at'[y] = at[y] /\ edit'[y] = edit[y] /\ cfg'[y] = cfg[y] /\ stale'[y] = stale[y]
  BY BeginCopies DEF ConfigInv
<1>2. UNCHANGED <<want, lost, old>>
  BY DEF Begin
<1>3. Refused'
  <2>1. revoked' \cap lost' = {}
    BY <1>2 DEF ConfigInv, Refused
  <2> QED
    BY <1>2, <2>1, StillRefused DEF ConfigInv
<1>4. Wizards'
  BY <1>1, <1>2, Editors, StillWizards DEF ConfigInv
<1>5. \A y \in Handler : Copies(y)' <=> Copies(y)
  BY <1>1, Editors DEF Copies, AtWork
<1>6. \A y \in Handler : Copies(y) => y # x
  BY Editors DEF Copies, AtWork
<1>7. /\ \A y \in Handler : at[y] = "pending" => at'[y] = "pending"
      /\ \A y \in Command : at[y] = "written" => at'[y] = "written"
  BY <1>1, Editors
<1>8. \A y \in Handler : Copies(y) => edit'[y] = edit[y] /\ stale'[y] = stale[y]
  BY <1>1, <1>6, Editors
<1>9. Listed'
  BY <1>2, <1>5, <1>7, <1>8, StillListed DEF ConfigInv
<1> QED
  BY <1>1, <1>3, <1>4, <1>9

\* What is read of the file, if it is not truncated, is what was reported but for what is lost.
LEMMA LoadAgrees ==
  ASSUME ConfigInv, NEW x \in Editor \ {"daemon"}, NEW e, NEW c, Begin(x, e, c)
  PROVE  Load \in Config => Agrees(Load, want, lost \cup stale'[x] \cup Sets(e))
<1>1. stale'[x] = IF file = Truncated THEN Setting ELSE {}
  BY DEF Begin, ConfigInv, Typed, OthersTyped
<1>2. CASE file = Truncated
  BY <1>1, <1>2 DEF Agrees
<1>3. CASE file # Truncated
  BY <1>1, <1>3 DEF Load, ConfigInv, FileAgrees, Agrees
<1> QED
  BY <1>2, <1>3

\* Commands and handlers begin.
LEMMA LoadConfigGood ==
  ASSUME ConfigInv, NEW x \in Command \cup Handler, NEW e \in Edits(x), LoadConfig(x, e)
  PROVE  ConfigInv'
<1>1. x \in Editor \ {"daemon"} /\ ValidEdit(x, e) /\ e.kind \notin {"paths", "recover"}
  BY Editors, EditsValid
<1>2. Load \in Config \/ e.kind \in {"new", "recover"}
  BY LoadGood DEF LoadConfig, ConfigInv, Typed
<1>3. Begin(x, e, Load) /\ at[x] = "idle" /\ UNCHANGED <<file, table, apart, clients, held, late, slipped, revoked>>
  BY DEF LoadConfig, paths, policy
<1>4. Load \in Config => Agrees(Load, want, lost \cup stale'[x] \cup Sets(e))
  BY <1>1, <1>3, LoadAgrees
<1>5. /\ EditorsTyped' /\ stale' \in [Editor -> SUBSET Setting]
      /\ FileAgrees' /\ CopiesAgree' /\ Refused' /\ Wizards' /\ Listed'
      /\ at'[x] = "loaded" /\ edit'[x] = e
      /\ \A y \in Editor \ {x} : at'[y] = at[y] /\ edit'[y] = edit[y]
  BY <1>1, <1>2, <1>3, <1>4, BeginsGood
<1>6. edits' \in 0..MaxEdits
  BY ConfigFileAssumption DEF LoadConfig, Count, ConfigInv, Typed, OthersTyped
<1>7. UNCHANGED <<role, mem, want, lost, old, trouble>>
  BY DEF LoadConfig, Begin
<1>8. OthersTyped'
  BY <1>3, <1>5, <1>6, <1>7 DEF OthersTyped, ConfigInv, Typed
<1>9. Roles'
  BY <1>1, <1>5, <1>7, Editors DEF LoadConfig, Roles, ConfigInv, Typed, Up
<1>10. MemAgrees'
  BY <1>7, StillInMem DEF ConfigInv
<1> QED
  BY <1>5, <1>8, <1>9, <1>10 DEF ConfigInv, Typed

\* The daemon begins, with what it has in memory.
LEMMA persistGood ==
  ASSUME ConfigInv, NEW e \in Edits("daemon"), persistWatcherEnabled(e)
  PROVE  ConfigInv'
<1>1. "daemon" \in Editor /\ ValidEdit("daemon", e) /\ e.kind = "watcher"
  BY Editors, EditsValid DEF ValidEdit
<1>2. mem \in Config /\ role = "client" /\ Up
  BY DEF persistWatcherEnabled, ConfigInv, Typed, OthersTyped, Up
<1>3. Begin("daemon", e, mem) /\ at["daemon"] = "idle"
      /\ UNCHANGED <<file, table, apart, clients, held, late, slipped, revoked>>
  BY DEF persistWatcherEnabled, paths, policy
<1>4. stale'["daemon"] = old
  BY <1>1, <1>3 DEF Begin, ConfigInv, Typed, OthersTyped
<1>5. Sets(e) = {"watcher"}
  BY <1>1 DEF Sets
<1>6. Agrees(mem, want, lost \cup old \cup {"watcher"})
  BY <1>2 DEF ConfigInv, MemAgrees
<1>7. /\ EditorsTyped' /\ stale' \in [Editor -> SUBSET Setting]
      /\ FileAgrees' /\ CopiesAgree' /\ Refused' /\ Wizards' /\ Listed'
      /\ at'["daemon"] = "loaded" /\ edit'["daemon"] = e
      /\ \A y \in Editor \ {"daemon"} : at'[y] = at[y] /\ edit'[y] = edit[y]
  <2>1. mem \in Config => Agrees(mem, want, lost \cup stale'["daemon"] \cup Sets(e))
    BY <1>4, <1>5, <1>6
  <2>2. mem \in Config \/ e.kind \in {"new", "recover"}
    BY <1>2
  <2>3. e.kind # "paths"
    BY <1>1
  <2> QED
    BY <1>1, <1>3, <2>1, <2>2, <2>3, BeginsGood
<1>8. mem' = Apply(e, mem) /\ mem' \in Config
  BY <1>1, <1>2, ApplyGood DEF persistWatcherEnabled
<1>9. edits' \in 0..MaxEdits
  BY ConfigFileAssumption DEF persistWatcherEnabled, Count, ConfigInv, Typed, OthersTyped
<1>10. UNCHANGED <<role, want, lost, old, trouble>>
  BY DEF persistWatcherEnabled, Begin
<1>11. OthersTyped'
  BY <1>3, <1>7, <1>8, <1>9, <1>10 DEF OthersTyped, ConfigInv, Typed
<1>12. Roles'
  <2>1. Up'
    BY <1>8, ConfigFileAssumption DEF Up
  <2> QED
    BY <1>7, <1>10, <2>1, Editors DEF Roles, ConfigInv, Typed
<1>13. MemAgrees'
  <2>1. ASSUME NEW s \in Setting \ (lost \cup old \cup {"watcher"})
        PROVE  Same(mem', want, s)
    <3>1. Same(mem, want, s)
      BY <1>6 DEF Agrees
    <3>2. Same(mem', mem, s)
      BY <1>1, <1>2, <1>5, <1>8, ApplySets
    <3> QED
      BY <3>1, <3>2, SameSame
  <2>2. Agrees(mem', want, lost \cup old \cup {"watcher"})
    BY <2>1 DEF Agrees
  <2> QED
    BY <1>10, <2>2 DEF MemAgrees
<1> QED
  BY <1>7, <1>11, <1>12, <1>13 DEF ConfigInv, Typed

\* It goes on with a recovery, or ends it.
LEMMA RecoverGood ==
  ASSUME ConfigInv, NEW x \in Command, runRecoverInteractive(x)
  PROVE  ConfigInv'
<1>1. x \in Editor \ {"daemon"} /\ at[x] = "pending" /\ ValidEdit(x, edit[x]) /\ edit[x].kind = "recover"
  BY Editors DEF runRecoverInteractive, ConfigInv, Typed, EditorsTyped
<1>2. UNCHANGED <<role, file, table, apart, mem, clients, held, late, slipped, edits, want, lost, old, revoked, trouble>>
  BY DEF runRecoverInteractive, Begin, paths, policy, reports
<1>3. /\ EditorsTyped' /\ stale' \in [Editor -> SUBSET Setting]
      /\ FileAgrees' /\ CopiesAgree' /\ Refused' /\ Wizards' /\ Listed'
      /\ \A y \in Editor : at'[y] # "idle" => at[y] # "idle" /\ edit'[y].kind = edit[y].kind
  <2>1. CASE Begin(x, edit[x], Load)
    <3>1. Load \in Config => Agrees(Load, want, lost \cup stale'[x] \cup Sets(edit[x]))
      BY <1>1, <2>1, LoadAgrees
    <3>2. Load \in Config \/ edit[x].kind \in {"new", "recover"}
      BY <1>1
    <3>3. edit[x].kind # "paths"
      BY <1>1
    <3> QED
      BY <1>1, <1>2, <2>1, <3>1, <3>2, <3>3, BeginsGood
  <2>2. CASE Answer(x) /\ UNCHANGED reports
    <3>1. /\ EditorsTyped' /\ at'[x] = "idle"
          /\ \A y \in Editor \ {x} : at'[y] = at[y] /\ edit'[y] = edit[y] /\ cfg'[y] = cfg[y]
      BY <1>1, <2>2, GoneTyped DEF Answer, ConfigInv, Typed
    <3>2. stale' = stale
      BY <2>2 DEF reports
    <3>3. FileAgrees' /\ CopiesAgree'
      BY <1>1, <1>2, <3>1, <3>2, StillAgree DEF ConfigInv, AtWork, Typed, OthersTyped
    <3>4. Refused'
      BY <1>2, StillRefused DEF ConfigInv, Refused
    <3>5. Wizards'
      BY <1>1, <1>2, <3>1, <3>2, Editors, StillWizards DEF ConfigInv
    <3>6. Listed'
      <4>1. \A y \in Handler : y \in Editor \ {x}
        BY Editors
      <4>2. \A y \in Handler : Copies(y)' <=> Copies(y)
        BY <3>1, <4>1 DEF Copies
      <4>3. \A y \in Command : at[y] = "written" => at'[y] = "written"
        BY <1>1, <3>1, Editors
      <4> QED
        BY <1>2, <3>1, <3>2, <4>1, <4>2, <4>3, StillListed DEF ConfigInv
    <3>7. stale' \in [Editor -> SUBSET Setting]
      BY <3>2 DEF ConfigInv, Typed, OthersTyped
    <3> QED
      BY <1>1, <3>1, <3>3, <3>4, <3>5, <3>6, <3>7
  <2> QED
    BY <2>1, <2>2 DEF runRecoverInteractive
<1>4. OthersTyped'
  BY <1>2, <1>3 DEF OthersTyped, ConfigInv, Typed
<1>5. Roles'
  <2>1. \A y \in Handler : at'[y] # "idle" => Up'
    BY <1>2, <1>3, Editors DEF Roles, ConfigInv, Typed, Up
  <2> QED
    BY <1>2, <1>3, <2>1, RolesStill DEF ConfigInv, Typed
<1>6. MemAgrees'
  BY <1>2, StillInMem DEF ConfigInv
<1> QED
  BY <1>3, <1>4, <1>5, <1>6 DEF ConfigInv, Typed

\* A request changes the table.
LEMMA handlePathsGood ==
  ASSUME ConfigInv, NEW x \in Handler, NEW b \in BOOLEAN, handlePaths(x, b)
  PROVE  ConfigInv'
<1> DEFINE e == [kind |-> "paths", val |-> b]
<1>1. x \in Editor /\ at[x] = "idle" /\ ValidEdit(x, e) /\ e.kind = "paths" /\ Up /\ role = "server"
  BY Editors DEF handlePaths, ValidEdit
<1>2. UNCHANGED <<role, file, apart, mem, clients, held, late, slipped, want, lost, old, stale, revoked, trouble>>
  BY DEF handlePaths, policy, reports
<1>3. at' = [at EXCEPT ![x] = "pending"] /\ edit' = [edit EXCEPT ![x] = e] /\ cfg' = [cfg EXCEPT ![x] = cfg[x]]
      /\ cfg[x] \in Config \cup {None}
  BY <1>1 DEF handlePaths, ConfigInv, Typed, EditorsTyped
<1> HIDE DEF e
<1>4. EditorsTyped' /\ at'[x] = "pending" /\ edit'[x] = e
      /\ \A y \in Editor \ {x} : at'[y] = at[y] /\ edit'[y] = edit[y] /\ cfg'[y] = cfg[y]
  BY <1>1, <1>3, Editors, EditorMoves DEF ConfigInv, Typed, Stage
<1>5. FileAgrees' /\ CopiesAgree'
  BY <1>1, <1>2, <1>4, StillAgree DEF ConfigInv, AtWork, Typed, OthersTyped
<1>6. Refused'
  BY <1>2, StillRefused DEF ConfigInv, Refused
<1>7. Wizards'
  BY <1>1, <1>2, <1>4, Editors, StillWizards DEF ConfigInv
<1>8. Listed'
  BY <1>4 DEF Listed
<1>9. MemAgrees'
  BY <1>2, StillInMem DEF ConfigInv
<1>10. edits' \in 0..MaxEdits /\ table' \in BOOLEAN
  BY ConfigFileAssumption DEF handlePaths, Count, ConfigInv, Typed, OthersTyped
<1>11. OthersTyped'
  BY <1>2, <1>10 DEF OthersTyped, ConfigInv, Typed
<1>12. Roles'
  BY <1>1, <1>2, <1>4, Editors DEF Roles, ConfigInv, Typed, Up
<1> QED
  BY <1>4, <1>5, <1>6, <1>7, <1>8, <1>9, <1>11, <1>12 DEF ConfigInv, Typed

\* A command changes the table.
LEMMA PathsCommandGood ==
  ASSUME ConfigInv, NEW b \in BOOLEAN, PathsCommand(b)
  PROVE  ConfigInv'
<1>1. UNCHANGED <<role, file, mem, clients, held, late, slipped, at, edit, cfg, want, lost, old, stale, revoked, trouble>>
      /\ apart'
  BY DEF PathsCommand, policy, reports
<1>2. EditorsTyped'
  BY <1>1, EditorsStill DEF ConfigInv, Typed
<1>3. edits' \in 0..MaxEdits /\ table' \in BOOLEAN /\ apart' \in BOOLEAN
  BY ConfigFileAssumption DEF PathsCommand, Count, ConfigInv, Typed, OthersTyped
<1>4. OthersTyped' /\ Roles'
  BY <1>1, <1>3 DEF OthersTyped, Roles, Up, ConfigInv, Typed
<1>5. FileAgrees' /\ CopiesAgree' /\ MemAgrees' /\ Refused' /\ Wizards'
  BY <1>1 DEF ConfigInv, FileAgrees, CopiesAgree, MemAgrees, Refused, Wizards, Up
<1>6. Listed'
  BY <1>1 DEF Listed
<1> QED
  BY <1>2, <1>4, <1>5, <1>6 DEF ConfigInv, Typed

\* A recovery begins, with another table.
LEMMA DownloadGood ==
  ASSUME ConfigInv, NEW x \in Command, NEW b \in BOOLEAN, DownloadDatabase(x, b)
  PROVE  ConfigInv'
<1>1. x \in Editor /\ at[x] = "idle" /\ role = "client"
  BY Editors DEF DownloadDatabase
<1>2. UNCHANGED <<role, file, mem, clients, held, late, slipped, want, lost, old, stale, revoked>> /\ apart'
  BY DEF DownloadDatabase, policy, reports
<1>3. PICK e : ValidEdit(x, e) /\ e.kind = "recover" /\ edit' = [edit EXCEPT ![x] = e]
  <2>1. \A p \in BOOLEAN : ValidEdit(x, [kind |-> "recover", val |-> New(FALSE, p)])
    BY NewGood, Editors DEF ValidEdit
  <2> QED
    BY <2>1 DEF DownloadDatabase
<1>4. at' = [at EXCEPT ![x] = "pending"] /\ cfg' = [cfg EXCEPT ![x] = cfg[x]] /\ cfg[x] \in Config \cup {None}
  BY <1>1 DEF DownloadDatabase, ConfigInv, Typed, EditorsTyped
<1>5. EditorsTyped' /\ at'[x] = "pending" /\ edit'[x] = e
      /\ \A y \in Editor \ {x} : at'[y] = at[y] /\ edit'[y] = edit[y] /\ cfg'[y] = cfg[y]
  BY <1>1, <1>3, <1>4, Editors, EditorMoves DEF ConfigInv, Typed, Stage
<1>6. FileAgrees' /\ CopiesAgree'
  BY <1>1, <1>2, <1>5, StillAgree DEF ConfigInv, AtWork, Typed, OthersTyped
<1>7. Refused'
  BY <1>2, StillRefused DEF ConfigInv, Refused
<1>8. Wizards'
  BY <1>1, <1>2, <1>5, Editors, StillWizards DEF ConfigInv
<1>9. Listed'
  BY <1>2 DEF Listed
<1>10. MemAgrees'
  BY <1>2, StillInMem DEF ConfigInv
<1>11. edits' \in 0..MaxEdits /\ table' \in BOOLEAN /\ apart' \in BOOLEAN /\ trouble' \in 0..MaxTrouble
  <2>1. trouble \in 0..MaxTrouble /\ edits \in 0..MaxEdits
    BY DEF ConfigInv, Typed, OthersTyped
  <2>2. UNCHANGED trouble \/ (trouble < MaxTrouble /\ trouble' = trouble + 1)
    BY DEF DownloadDatabase, Trouble
  <2>3. edits' \in 0..MaxEdits
    BY <2>1, ConfigFileAssumption DEF DownloadDatabase, Count
  <2>4. table' \in BOOLEAN /\ apart' \in BOOLEAN
    BY DEF DownloadDatabase
  <2> QED
    BY <2>1, <2>2, <2>3, <2>4, ConfigFileAssumption
<1>12. OthersTyped'
  BY <1>2, <1>11 DEF OthersTyped, ConfigInv, Typed
<1>13. Roles'
  BY <1>1, <1>2, <1>5, Editors DEF Roles, ConfigInv, Typed, Up
<1> QED
  BY <1>5, <1>6, <1>7, <1>8, <1>9, <1>10, <1>12, <1>13 DEF ConfigInv, Typed

\* A goroutine begins to copy the table.
LEMMA syncGood ==
  ASSUME ConfigInv, NEW x \in Handler, syncPathsToConfig(x)
  PROVE  ConfigInv'
<1> DEFINE e == [kind |-> "paths", val |-> table]
<1>1. x \in Editor \ {"daemon"} /\ at[x] = "pending" /\ ValidEdit(x, e) /\ e.kind = "paths" /\ e.val = table
  BY Editors DEF syncPathsToConfig, ValidEdit, ConfigInv, Typed, OthersTyped
<1>2. Begin(x, e, Load)
      /\ UNCHANGED <<role, file, table, mem, clients, held, late, slipped, edits, want, lost, old, revoked, trouble>>
      /\ apart' = FALSE
  BY DEF syncPathsToConfig, Begin, policy
<1> HIDE DEF e
<1>3. Load \in Config
  BY LoadGood DEF syncPathsToConfig, ConfigInv, Typed
<1>4. Agrees(Load, want, lost \cup stale'[x] \cup Sets(e))
  BY <1>1, <1>2, <1>3, LoadAgrees
<1>5. /\ EditorsTyped' /\ stale' \in [Editor -> SUBSET Setting] /\ FileAgrees' /\ CopiesAgree'
      /\ at'[x] = "loaded" /\ edit'[x] = e
      /\ \A y \in Editor \ {x} : at'[y] = at[y] /\ edit'[y] = edit[y] /\ cfg'[y] = cfg[y] /\ stale'[y] = stale[y]
  BY <1>1, <1>2, <1>3, <1>4, BeginCopies DEF ConfigInv
<1>6. Refused'
  BY <1>2, StillRefused DEF ConfigInv, Refused
<1>7. Wizards'
  BY <1>1, <1>2, <1>5, Editors, StillWizards DEF ConfigInv
<1>8. Listed'
  <2>1. Copies(x)' /\ edit'[x].val = table'
    BY <1>1, <1>2, <1>5 DEF Copies, AtWork
  <2>2. Fresh'
    BY <2>1 DEF Fresh
  <2> QED
    BY <2>2 DEF Listed
<1>9. MemAgrees'
  BY <1>2, StillInMem DEF ConfigInv
<1>10. OthersTyped'
  BY <1>2, <1>5 DEF OthersTyped, ConfigInv, Typed
<1>11. Roles'
  BY <1>1, <1>2, <1>5, Editors DEF Roles, ConfigInv, Typed, Up
<1> QED
  BY <1>5, <1>6, <1>7, <1>8, <1>9, <1>10, <1>11 DEF ConfigInv, Typed

-----------------------------------------------------------------------------
(* How editors end. *)

\* What is left of editors that end, at the file or not.
LEMMA EndsAgree ==
  ASSUME Typed, FileAgrees, CopiesAgree, NEW X \in SUBSET Editor, Gone(X), want' = want, file' \in Left(X),
         Forget(X) \/ UNCHANGED stale,
         lost' = IF \E x \in X : at[x] = "open" THEN Setting ELSE lost
  PROVE  /\ EditorsTyped' /\ stale' \in [Editor -> SUBSET Setting]
         /\ file' \in Config \cup {Truncated, Garbled} /\ FileAgrees' /\ CopiesAgree'
         /\ lost \subseteq lost' /\ lost' \in SUBSET Setting
         /\ \A y \in Editor : IF y \in X THEN at'[y] = "idle"
                              ELSE at'[y] = at[y] /\ edit'[y] = edit[y] /\ cfg'[y] = cfg[y] /\ stale'[y] = stale[y]
<1>1. EditorsTyped'
      /\ \A y \in Editor : IF y \in X THEN at'[y] = "idle"
                           ELSE at'[y] = at[y] /\ edit'[y] = edit[y] /\ cfg'[y] = cfg[y]
  BY GoneTyped DEF Typed
<1>2. stale' \in [Editor -> SUBSET Setting] /\ \A y \in Editor : y \notin X => stale'[y] = stale[y]
  BY DEF Forget, Typed, OthersTyped
<1>3. file' \in Config \cup {Truncated, Garbled}
  BY LeftTyped
<1>4. lost \subseteq lost' /\ lost' \in SUBSET Setting
  BY DEF Typed, OthersTyped
<1>5. CopiesAgree'
  <2>1. ASSUME NEW y \in Editor, at'[y] \in AtWork
        PROVE  Agrees(cfg'[y], want', lost' \cup stale'[y] \cup Sets(edit'[y])) /\ Applied(cfg'[y], edit'[y])
    <3>1. y \notin X
      BY <1>1, <2>1 DEF AtWork
    <3>2. at[y] \in AtWork /\ cfg'[y] = cfg[y] /\ edit'[y] = edit[y] /\ stale'[y] = stale[y]
      BY <1>1, <1>2, <2>1, <3>1
    <3>3. Agrees(cfg[y], want, lost \cup stale[y] \cup Sets(edit[y])) /\ Applied(cfg[y], edit[y])
      BY <3>2 DEF CopiesAgree
    <3>4. Agrees(cfg[y], want, lost' \cup stale[y] \cup Sets(edit[y]))
      BY <1>4, <3>3 DEF Agrees
    <3> QED
      BY <3>2, <3>3, <3>4
  <2> QED
    BY <2>1 DEF CopiesAgree
<1>6. FileAgrees'
  <2>1. CASE \E x \in X : at[x] = "open"
    BY <2>1 DEF FileAgrees, Agrees
  <2>2. CASE ~\E x \in X : at[x] = "open"
    <3>1. file' = file
      <4>1. {x \in X : at[x] = "open"} = {}
        BY <2>2
      <4> QED
        BY <4>1 DEF Left
    <3>2. \A y \in Editor : at[y] = "open" => at'[y] = "open"
      BY <1>1, <2>2
    <3> QED
      BY <2>2, <3>1, <3>2 DEF FileAgrees
  <2> QED
    BY <2>1, <2>2
<1> QED
  BY <1>1, <1>2, <1>3, <1>4, <1>5, <1>6

\* When editors end without the table or the path reported changed, and those who were to
\* bring the two together are accounted for.
LEMMA EndsListed ==
  ASSUME Typed, Wizards, Listed, NEW X \in SUBSET Editor, UNCHANGED <<table, want>>,
         apart' = (apart \/ Unfinished(X)),
         \A y \in Editor : IF y \in X THEN at'[y] = "idle"
                           ELSE at'[y] = at[y] /\ edit'[y] = edit[y] /\ cfg'[y] = cfg[y] /\ stale'[y] = stale[y]
  PROVE  Listed' /\ Wizards'
<1>1. Wizards'
  BY Editors DEF Wizards
<1>2. ASSUME ~apart'
      PROVE  /\ ~apart
             /\ \A y \in Handler : at[y] = "pending" => at'[y] = "pending"
             /\ \A y \in Command : at[y] = "written" => at'[y] = "written"
             /\ \A y \in Handler : Copies(y)' <=> Copies(y)
             /\ \A y \in Handler : Copies(y) => edit'[y] = edit[y] /\ ("path" \in stale[y] => "path" \in stale'[y])
  <2>1. ~apart /\ \A y \in X : /\ ~(at[y] # "idle" /\ edit[y].kind = "paths")
                               /\ ~(at[y] = "written" /\ edit[y].kind = "new")
    BY <1>2 DEF Unfinished
  <2>2. ASSUME NEW y \in Handler
        PROVE  /\ at[y] = "pending" => at'[y] = "pending"
               /\ Copies(y)' <=> Copies(y)
               /\ Copies(y) => edit'[y] = edit[y] /\ ("path" \in stale[y] => "path" \in stale'[y])
    <3>1. y \in Editor /\ (at[y] = "pending" => edit[y].kind = "paths")
      BY Editors DEF Typed, EditorsTyped
    <3>2. CASE y \in X
      BY <2>1, <3>1, <3>2 DEF Copies, AtWork
    <3>3. CASE y \notin X
      BY <3>1, <3>3 DEF Copies
    <3> QED
      BY <3>2, <3>3
  <2>3. ASSUME NEW y \in Command, at[y] = "written"
        PROVE  at'[y] = "written"
    <3>1. y \in Editor /\ edit[y].kind = "new"
      BY <2>3, Editors DEF Typed, EditorsTyped
    <3> QED
      BY <2>1, <2>3, <3>1
  <2> QED
    BY <2>1, <2>2, <2>3
<1> QED
  BY <1>1, <1>2, StillListed

\* Roles, when editors end and the daemon goes on.
LEMMA EndsRoles ==
  ASSUME Typed, NEW X \in SUBSET Editor, UNCHANGED <<role, mem>>,
         \A y \in Editor : IF y \in X THEN at'[y] = "idle" ELSE at'[y] = at[y] /\ edit'[y] = edit[y]
  PROVE  Roles'
  BY Editors DEF Roles, Up, Typed

\* An editor cannot open the file, or cannot write it.
LEMMA FailsGood ==
  ASSUME ConfigInv, NEW x \in Editor, OpenFails(x) \/ WriteFails(x)
  PROVE  ConfigInv'
<1> DEFINE X == {x}
<1>0. X \in SUBSET Editor /\ Gone(X) /\ Forget(X) /\ apart' = (apart \/ Unfinished(X))
      /\ UNCHANGED <<role, table, mem, clients, held, late, slipped, edits, want, old>>
  BY DEF OpenFails, WriteFails, Answer, policy
<1>1. file' \in Left(X) /\ lost' = (IF \E y \in X : at[y] = "open" THEN Setting ELSE lost)
  <2>1. CASE OpenFails(x)
    BY <2>1 DEF OpenFails, Left
  <2>2. CASE WriteFails(x)
    BY <2>2 DEF WriteFails
  <2> QED
    BY <2>1, <2>2
<1>2. revoked' \subseteq revoked /\ revoked' \cap lost' = {}
  BY DEF OpenFails, WriteFails, ConfigInv, Refused
<1>3. trouble' \in 0..MaxTrouble
  BY ConfigFileAssumption DEF OpenFails, WriteFails, Trouble, ConfigInv, Typed, OthersTyped
<1> HIDE DEF X
<1>4. /\ EditorsTyped' /\ stale' \in [Editor -> SUBSET Setting]
      /\ file' \in Config \cup {Truncated, Garbled} /\ FileAgrees' /\ CopiesAgree'
      /\ lost \subseteq lost' /\ lost' \in SUBSET Setting
      /\ \A y \in Editor : IF y \in X THEN at'[y] = "idle"
                           ELSE at'[y] = at[y] /\ edit'[y] = edit[y] /\ cfg'[y] = cfg[y] /\ stale'[y] = stale[y]
  BY <1>0, <1>1, EndsAgree DEF ConfigInv
<1>5. Listed' /\ Wizards'
  BY <1>0, <1>4, EndsListed DEF ConfigInv
<1>6. Refused'
  BY <1>0, <1>2, <1>4, StillRefused DEF ConfigInv
<1>7. MemAgrees'
  BY <1>0, <1>4, StillInMem DEF ConfigInv
<1>8. Roles'
  BY <1>0, <1>4, EndsRoles DEF ConfigInv
<1>9. apart' \in BOOLEAN /\ revoked' \in SUBSET Client
  BY <1>0, <1>2 DEF ConfigInv, Typed, OthersTyped
<1>10. OthersTyped'
  BY <1>0, <1>3, <1>4, <1>9 DEF ConfigInv, Typed, OthersTyped
<1> QED
  BY <1>4, <1>5, <1>6, <1>7, <1>8, <1>10 DEF ConfigInv, Typed

\* A command is killed.
LEMMA KillGood ==
  ASSUME ConfigInv, NEW x \in Command, Kill(x)
  PROVE  ConfigInv'
<1> DEFINE X == {x}
<1>0. X \in SUBSET Editor /\ Gone(X) /\ Forget(X) /\ apart' = (apart \/ Unfinished(X))
      /\ file' \in Left(X) /\ lost' = (IF \E y \in X : at[y] = "open" THEN Setting ELSE lost)
      /\ UNCHANGED <<role, table, mem, clients, held, late, slipped, edits, want, old>>
  BY Editors DEF Kill, Deaths, policy
<1>2. revoked' \subseteq revoked /\ revoked' \cap lost' = {}
  BY DEF Kill
<1>3. trouble' \in 0..MaxTrouble
  BY ConfigFileAssumption DEF Kill, Deaths, Trouble, ConfigInv, Typed, OthersTyped
<1> HIDE DEF X
<1>4. /\ EditorsTyped' /\ stale' \in [Editor -> SUBSET Setting]
      /\ file' \in Config \cup {Truncated, Garbled} /\ FileAgrees' /\ CopiesAgree'
      /\ lost \subseteq lost' /\ lost' \in SUBSET Setting
      /\ \A y \in Editor : IF y \in X THEN at'[y] = "idle"
                           ELSE at'[y] = at[y] /\ edit'[y] = edit[y] /\ cfg'[y] = cfg[y] /\ stale'[y] = stale[y]
  BY <1>0, EndsAgree DEF ConfigInv
<1>5. Listed' /\ Wizards'
  BY <1>0, <1>4, EndsListed DEF ConfigInv
<1>6. Refused'
  BY <1>0, <1>2, <1>4, StillRefused DEF ConfigInv
<1>7. MemAgrees'
  BY <1>0, <1>4, StillInMem DEF ConfigInv
<1>8. Roles'
  BY <1>0, <1>4, EndsRoles DEF ConfigInv
<1>9. apart' \in BOOLEAN /\ revoked' \in SUBSET Client
  BY <1>0, <1>2 DEF ConfigInv, Typed, OthersTyped
<1>10. OthersTyped'
  BY <1>0, <1>3, <1>4, <1>9 DEF ConfigInv, Typed, OthersTyped
<1> QED
  BY <1>4, <1>5, <1>6, <1>7, <1>8, <1>10 DEF ConfigInv, Typed

\* The daemon dies ...
LEMMA DieGood ==
  ASSUME ConfigInv, Die
  PROVE  ConfigInv'
<1> DEFINE X == Handler \cup {"daemon"}
<1>0. X \in SUBSET Editor /\ Gone(X) /\ Forget(X) /\ apart' = (apart \/ Unfinished(X))
      /\ file' \in Left(X) /\ lost' = (IF \E y \in X : at[y] = "open" THEN Setting ELSE lost)
      /\ UNCHANGED <<role, table, edits, want>>
  BY Editors DEF Die, Deaths
<1>1. \A y \in Handler : y \in X
  OBVIOUS
<1>2. /\ mem' = None /\ clients' = {} /\ old' = {} /\ late' = {} /\ slipped' = FALSE /\ revoked' = {}
      /\ held' = [r \in Reader |-> None]
  BY DEF Die
<1>3. trouble' \in 0..MaxTrouble
  BY ConfigFileAssumption DEF Die, Deaths, Trouble, ConfigInv, Typed, OthersTyped
<1> HIDE DEF X
<1>4. /\ EditorsTyped' /\ stale' \in [Editor -> SUBSET Setting]
      /\ file' \in Config \cup {Truncated, Garbled} /\ FileAgrees' /\ CopiesAgree'
      /\ lost' \in SUBSET Setting
      /\ \A y \in Editor : IF y \in X THEN at'[y] = "idle"
                           ELSE at'[y] = at[y] /\ edit'[y] = edit[y] /\ cfg'[y] = cfg[y] /\ stale'[y] = stale[y]
  BY <1>0, EndsAgree DEF ConfigInv
<1>5. Listed' /\ Wizards'
  BY <1>0, <1>4, EndsListed DEF ConfigInv
<1>6. Refused' /\ MemAgrees'
  BY <1>2 DEF Refused, MemAgrees, Up
<1>8. Roles'
  BY <1>0, <1>1, <1>4, Editors DEF Roles, ConfigInv, Typed
<1>9. apart' \in BOOLEAN
  BY <1>0 DEF ConfigInv, Typed, OthersTyped
<1>10. OthersTyped'
  BY <1>0, <1>2, <1>3, <1>4, <1>9 DEF ConfigInv, Typed, OthersTyped
<1> QED
  BY <1>4, <1>5, <1>6, <1>8, <1>10 DEF ConfigInv, Typed

\* The wizard's replaces the table, or fails to.
LEMMA SetPathsGood ==
  ASSUME ConfigInv, NEW x \in Command, SetPaths(x)
  PROVE  ConfigInv'
<1> DEFINE X == {x}
<1>0. x \in Editor /\ at[x] = "written" /\ cfg[x] \in Config
  BY Editors DEF SetPaths, ConfigInv, Typed, EditorsTyped
<1>1. X \in SUBSET Editor /\ Gone(X) /\ Forget(X)
      /\ UNCHANGED <<role, file, mem, clients, held, late, slipped, edits, want, lost, old, revoked>>
  BY <1>0 DEF SetPaths, Answer, policy
<1>2. file' \in Left(X) /\ lost' = (IF \E y \in X : at[y] = "open" THEN Setting ELSE lost)
  BY <1>0, <1>1 DEF Left
<1>3. x \in X
  OBVIOUS
<1> HIDE DEF X
<1>4. /\ EditorsTyped' /\ stale' \in [Editor -> SUBSET Setting]
      /\ file' \in Config \cup {Truncated, Garbled} /\ FileAgrees' /\ CopiesAgree'
      /\ \A y \in Editor : IF y \in X THEN at'[y] = "idle"
                           ELSE at'[y] = at[y] /\ edit'[y] = edit[y] /\ cfg'[y] = cfg[y] /\ stale'[y] = stale[y]
  BY <1>1, <1>2, EndsAgree DEF ConfigInv
<1>5. Wizards'
  BY <1>1, <1>4, Editors DEF Wizards, ConfigInv
<1>6. Listed'
  <2>1. CASE apart'
    BY <2>1 DEF Listed
  <2>2. CASE ~apart'
    <3>1. /\ table' = cfg[x].path /\ "path" \notin stale[x]
          /\ \A y \in Handler : ~(Busy(y) /\ edit[y].kind = "paths")
      BY <2>2 DEF SetPaths
    <3>2. want'.path = table'
      BY <1>0, <1>1, <3>1 DEF ConfigInv, Wizards
    <3>3. \A y \in Handler : ~Copies(y)'
      BY <1>4, <3>1, Editors DEF Copies, AtWork, Busy
    <3> QED
      BY <3>2, <3>3 DEF Listed
  <2> QED
    BY <2>1, <2>2
<1>7. Refused'
  BY <1>1, StillRefused DEF ConfigInv, Refused
<1>8. MemAgrees'
  BY <1>1, StillInMem DEF ConfigInv
<1>9. Roles'
  BY <1>1, <1>4, EndsRoles DEF ConfigInv
<1>10. table' \in BOOLEAN /\ apart' \in BOOLEAN /\ trouble' \in 0..MaxTrouble
  <2>1. trouble \in 0..MaxTrouble /\ table \in BOOLEAN
    BY DEF ConfigInv, Typed, OthersTyped
  <2>2. UNCHANGED trouble \/ (trouble < MaxTrouble /\ trouble' = trouble + 1)
    BY DEF SetPaths, Trouble
  <2>3. table' \in BOOLEAN /\ apart' \in BOOLEAN
    BY <1>0, <2>1 DEF SetPaths, Config
  <2> QED
    BY <2>1, <2>2, <2>3, ConfigFileAssumption
<1>11. OthersTyped'
  BY <1>1, <1>4, <1>10 DEF ConfigInv, Typed, OthersTyped
<1> QED
  BY <1>4, <1>5, <1>6, <1>7, <1>8, <1>9, <1>11 DEF ConfigInv, Typed

\* A goroutine gives up.
LEMMA SyncFailsGood ==
  ASSUME ConfigInv, NEW x \in Handler, SyncFails(x)
  PROVE  ConfigInv'
<1> DEFINE X == {x}
<1>1. X \in SUBSET Editor /\ Gone(X) /\ apart' = TRUE
      /\ UNCHANGED <<role, file, table, mem, clients, held, late, slipped, edits, want, lost, stale, old, revoked>>
  BY Editors DEF SyncFails, Answer, policy, reports
<1>2. file' \in Left(X) /\ lost' = (IF \E y \in X : at[y] = "open" THEN Setting ELSE lost)
  BY <1>1 DEF SyncFails, Left
<1> HIDE DEF X
<1>4. /\ EditorsTyped' /\ FileAgrees' /\ CopiesAgree'
      /\ \A y \in Editor : IF y \in X THEN at'[y] = "idle"
                           ELSE at'[y] = at[y] /\ edit'[y] = edit[y] /\ cfg'[y] = cfg[y] /\ stale'[y] = stale[y]
  BY <1>1, <1>2, EndsAgree DEF ConfigInv
<1>5. Wizards' /\ Listed'
  BY <1>1, <1>4, Editors DEF Wizards, Listed, ConfigInv
<1>6. Refused'
  BY <1>1, StillRefused DEF ConfigInv, Refused
<1>7. MemAgrees'
  BY <1>1, StillInMem DEF ConfigInv
<1>8. Roles'
  BY <1>1, <1>4, EndsRoles DEF ConfigInv
<1>9. trouble' \in 0..MaxTrouble
  <2>1. trouble \in 0..MaxTrouble
    BY DEF ConfigInv, Typed, OthersTyped
  <2>2. UNCHANGED trouble \/ (trouble < MaxTrouble /\ trouble' = trouble + 1)
    BY DEF SyncFails, Trouble
  <2> QED
    BY <2>1, <2>2, ConfigFileAssumption
<1>10. OthersTyped'
  BY <1>1, <1>9 DEF ConfigInv, Typed, OthersTyped
<1> QED
  BY <1>4, <1>5, <1>6, <1>7, <1>8, <1>10 DEF ConfigInv, Typed

\* A step that touches neither the file nor an editor at the file, nor a goroutine or a
\* wizard that is still to come to the table.
LEMMA StillConfig ==
  ASSUME ConfigInv, UNCHANGED <<role, file, table, apart, want, lost, old>>,
         \A y \in Editor : at[y] \in AtWork \cup {"pending"} \/ at'[y] \in AtWork \cup {"pending", "written"} =>
           at'[y] = at[y] /\ edit'[y] = edit[y] /\ cfg'[y] = cfg[y] /\ stale[y] \subseteq stale'[y],
         \A y \in Command : at'[y] = at[y]
  PROVE  FileAgrees' /\ CopiesAgree' /\ Wizards' /\ Listed'
<1>1. FileAgrees' /\ CopiesAgree'
  <2>1. \A y \in Editor : at[y] = "open" => at'[y] = "open"
    BY DEF AtWork
  <2>2. \A y \in Editor : at'[y] \in AtWork =>
           at[y] \in AtWork /\ cfg'[y] = cfg[y] /\ edit'[y] = edit[y] /\ stale[y] \subseteq stale'[y]
    OBVIOUS
  <2>3. lost \subseteq lost' /\ lost' \subseteq Setting
    BY DEF ConfigInv, Typed, OthersTyped
  <2> QED
    BY <2>1, <2>2, <2>3, StillAgree DEF ConfigInv
<1>2. Wizards'
  BY Editors, StillWizards DEF ConfigInv
<1>3. \A y \in Handler : /\ Copies(y)' <=> Copies(y)
                         /\ Copies(y) => edit'[y] = edit[y] /\ ("path" \in stale[y] => "path" \in stale'[y])
                         /\ at[y] = "pending" => at'[y] = "pending"
  BY Editors DEF Copies, AtWork
<1>4. Listed'
  BY <1>3, StillListed DEF ConfigInv
<1> QED
  BY <1>1, <1>2, <1>4

\* The memory follows.
LEMMA SyncGood ==
  ASSUME ConfigInv, NEW x \in Handler, Sync(x)
  PROVE  ConfigInv'
<1>1. /\ x \in Editor /\ at[x] = "written" /\ cfg[x] \in Config /\ ValidEdit(x, edit[x])
      /\ Up /\ role = "server"
  BY Editors DEF Sync, ConfigInv, Typed, EditorsTyped, Roles
<1>2. UNCHANGED <<role, file, table, apart, clients, held, late, slipped, edits, want, lost, old, revoked, trouble>>
      /\ Forget({x})
  BY DEF Sync, paths, policy
<1>3. EditorsTyped' /\ at'[x] \in {"idle", "synced"}
      /\ \A y \in Editor \ {x} : at'[y] = at[y] /\ edit'[y] = edit[y] /\ cfg'[y] = cfg[y]
  <2>1. CASE edit[x].kind \in {"add", "remove"}
    <3>1. at' = [at EXCEPT ![x] = "synced"] /\ UNCHANGED <<edit, cfg>> /\ EditorsTyped
      BY <2>1 DEF Sync, ConfigInv, Typed
    <3> QED
      BY <1>1, <3>1, EditorOnward
  <2>2. CASE edit[x].kind \notin {"add", "remove"}
    BY <1>1, <2>2, GoneTyped DEF Sync, Answer, ConfigInv, Typed
  <2> QED
    BY <2>1, <2>2
<1>4. stale' \in [Editor -> SUBSET Setting] /\ \A y \in Editor \ {x} : stale'[y] = stale[y]
  BY <1>2 DEF Forget, ConfigInv, Typed, OthersTyped
<1>5. FileAgrees' /\ CopiesAgree' /\ Wizards' /\ Listed'
  <2>1. \A y \in Editor : at[y] \in AtWork \cup {"pending"} \/ at'[y] \in AtWork \cup {"pending", "written"} =>
           at'[y] = at[y] /\ edit'[y] = edit[y] /\ cfg'[y] = cfg[y] /\ stale[y] \subseteq stale'[y]
    BY <1>1, <1>3, <1>4 DEF AtWork
  <2>2. \A y \in Command : at'[y] = at[y]
    BY <1>3, Editors
  <2> QED
    BY <1>2, <2>1, <2>2, StillConfig
<1>6. Refused'
  BY <1>2, StillRefused DEF ConfigInv, Refused
<1>7. mem' \in Config
  <2>1. mem \in Config
    BY <1>1 DEF ConfigInv, Typed, OthersTyped, Up
  <2>2. [mem EXCEPT !.admins = cfg[x].admins] \in Config
    BY <1>1, <2>1 DEF Config
  <2>3. Apply(edit[x], mem) \in Config
    BY <1>1, <2>1, ApplyGood
  <2> QED
    BY <2>2, <2>3 DEF Sync, syncInMemoryConfig
<1>8. MemAgrees'
  BY <1>1, <1>2 DEF MemAgrees
<1>9. Roles'
  <2>1. Up'
    BY <1>7, ConfigFileAssumption DEF Up
  <2> QED
    BY <1>1, <1>2, <1>3, <2>1, Editors DEF Roles, ConfigInv, Typed
<1>10. OthersTyped'
  BY <1>2, <1>4, <1>7 DEF ConfigInv, Typed, OthersTyped
<1> QED
  BY <1>3, <1>5, <1>6, <1>8, <1>9, <1>10 DEF ConfigInv, Typed

-----------------------------------------------------------------------------
(* The policy. *)

\* What can be read of the file are the admins reported, or lost, or none.
LEMMA ReadRight ==
  ASSUME ConfigInv, Loads
  PROVE  Load.admins \in SUBSET Client /\ Load.admins \subseteq want.admins \cup lost
<1>1. Load \in Config
  BY LoadGood DEF ConfigInv, Typed
<1>2. Load.admins \in SUBSET Client
  BY <1>1 DEF Config
<1>3. CASE file = Truncated
  BY <1>2, <1>3 DEF Load, Default
<1>4. CASE file # Truncated
  <2>1. Load = file /\ Agrees(file, want, lost)
    BY <1>1, <1>4 DEF Load, ConfigInv, FileAgrees
  <2>2. ASSUME NEW fp \in Load.admins, fp \notin lost
        PROVE  fp \in want.admins
    <3>1. fp \in Setting /\ fp \notin {"watcher", "path", "other"}
      BY <1>2, ConfigFileAssumption DEF Setting
    <3>2. Same(file, want, fp)
      BY <2>1, <2>2, <3>1 DEF Agrees
    <3> QED
      BY <2>1, <2>2, <3>1, <3>2 DEF Same
  <2> QED
    BY <1>2, <2>2
<1> QED
  BY <1>3, <1>4

\* A reload reads.
LEMMA ReadGood ==
  ASSUME ConfigInv, NEW r \in Reader, Read(r)
  PROVE  ConfigInv'
<1>1. UNCHANGED <<role, file, table, apart, mem, clients, late, slipped, edit, cfg, at, edits,
                  want, lost, stale, old, revoked, trouble>>
  BY DEF Read, paths, editors, reports
<1>2. Load.admins \in SUBSET Client /\ Load.admins \subseteq want.admins \cup lost
  BY ReadRight DEF Read
<1>3. held' = [held EXCEPT ![r] = Load.admins] /\ held' \in [Reader -> (SUBSET Client) \cup {None}]
  BY <1>2 DEF Read, ConfigInv, Typed, OthersTyped
<1>4. Refused'
  <2>1. \A q \in Reader : held'[q] # None /\ q \notin late => held'[q] \subseteq want.admins \cup lost
    BY <1>2, <1>3 DEF ConfigInv, Refused, Typed, OthersTyped
  <2> QED
    BY <1>1, <2>1 DEF ConfigInv, Refused
<1>5. EditorsTyped' /\ Roles'
  BY <1>1, EditorsStill DEF Roles, Up, ConfigInv, Typed
<1>6. OthersTyped'
  BY <1>1, <1>3 DEF ConfigInv, Typed, OthersTyped
<1>7. FileAgrees' /\ CopiesAgree' /\ Wizards' /\ Listed'
  BY <1>1, StillConfig
<1>8. MemAgrees'
  BY <1>1, StillInMem DEF ConfigInv
<1> QED
  BY <1>4, <1>5, <1>6, <1>7, <1>8 DEF ConfigInv, Typed

\* A list is stored, or a reload fails, and no removal is reported of who is an admin still.
LEMMA StoreGood ==
  ASSUME ConfigInv, NEW r \in Reader,
         \/ Store(r)
         \/ slipped' = TRUE /\ UNCHANGED <<clients, held, late>>,
         UNCHANGED <<want, lost>>, revoked' \in SUBSET Client, revoked' \cap (want.admins \cup lost) = {}
  PROVE  /\ clients' \in SUBSET Client /\ held' \in [Reader -> (SUBSET Client) \cup {None}]
         /\ slipped' \in BOOLEAN /\ late' \in SUBSET Reader /\ Refused'
<1>1. CASE Store(r)
  <2>1. ~slipped' => clients' \subseteq want.admins \cup lost
    BY <1>1 DEF Store, ConfigInv, Refused
  <2>2. \A q \in Reader : held'[q] # None /\ q \notin late' => held'[q] \subseteq want.admins \cup lost
    BY <1>1 DEF Store, ConfigInv, Refused, Typed, OthersTyped
  <2>3. /\ clients' \in SUBSET Client /\ held' \in [Reader -> (SUBSET Client) \cup {None}]
        /\ slipped' \in BOOLEAN /\ late' \in SUBSET Reader
    BY <1>1 DEF Store, ConfigInv, Typed, OthersTyped
  <2> QED
    BY <2>1, <2>2, <2>3 DEF Refused
<1>2. CASE slipped' = TRUE /\ UNCHANGED <<clients, held, late>>
  <2>1. \A q \in Reader : held'[q] # None /\ q \notin late' => held'[q] \subseteq want.admins \cup lost
    BY <1>2 DEF ConfigInv, Refused
  <2> QED
    BY <1>2, <2>1 DEF Refused, ConfigInv, Typed, OthersTyped
<1> QED
  BY <1>1, <1>2

\* The handler's reload, and its report.
LEMMA reloadGood ==
  ASSUME ConfigInv, NEW x \in Handler, reloadAdminPolicy(x)
  PROVE  ConfigInv'
<1>1. x \in Editor /\ x \in Reader /\ at[x] = "synced" /\ ValidEdit(x, edit[x])
  BY Editors DEF reloadAdminPolicy, ConfigInv, Typed, EditorsTyped
<1>2. CASE Read(x)
  BY <1>1, <1>2, ReadGood
<1>3. CASE ~Read(x)
  <2>1. /\ Store(x) \/ (slipped' = TRUE /\ UNCHANGED <<clients, held, late>>)
        /\ Answer(x) /\ Reported(x)
        /\ UNCHANGED <<role, file, table, apart, mem, edits, want, lost, stale, old>>
    BY <1>3 DEF reloadAdminPolicy, ReloadFails, paths, reports
  <2>2. EditorsTyped' /\ at'[x] = "idle"
        /\ \A y \in Editor \ {x} : at'[y] = at[y] /\ edit'[y] = edit[y] /\ cfg'[y] = cfg[y]
    BY <1>1, <2>1, GoneTyped DEF Answer, ConfigInv, Typed
  <2>3. revoked' \in SUBSET Client /\ revoked' \cap (want.admins \cup lost) = {}
    <3>1. edit[x].kind = "remove" => edit[x].val \in Client
      BY <1>1 DEF ValidEdit
    <3>2. revoked \in SUBSET Client /\ revoked \cap (want.admins \cup lost) = {}
      BY DEF ConfigInv, Refused, Typed, OthersTyped
    <3> QED
      BY <2>1, <3>1, <3>2 DEF Reported
  <2>4. /\ clients' \in SUBSET Client /\ held' \in [Reader -> (SUBSET Client) \cup {None}]
        /\ slipped' \in BOOLEAN /\ late' \in SUBSET Reader /\ Refused'
    BY <1>1, <2>1, <2>3, StoreGood
  <2>5. FileAgrees' /\ CopiesAgree' /\ Wizards' /\ Listed'
    <3>1. \A y \in Editor : at[y] \in AtWork \cup {"pending"} \/ at'[y] \in AtWork \cup {"pending", "written"} =>
             at'[y] = at[y] /\ edit'[y] = edit[y] /\ cfg'[y] = cfg[y] /\ stale[y] \subseteq stale'[y]
      BY <1>1, <2>1, <2>2 DEF AtWork
    <3>2. \A y \in Command : at'[y] = at[y]
      BY <2>2, Editors
    <3> QED
      BY <2>1, <3>1, <3>2, StillConfig
  <2>6. MemAgrees'
    BY <2>1, StillInMem DEF ConfigInv
  <2>7. Roles'
    BY <1>1, <2>1, <2>2, Editors DEF Roles, Up, ConfigInv, Typed
  <2>8. trouble' \in 0..MaxTrouble
    <3>1. trouble \in 0..MaxTrouble
      BY DEF ConfigInv, Typed, OthersTyped
    <3>2. UNCHANGED trouble \/ (trouble < MaxTrouble /\ trouble' = trouble + 1)
      BY <1>3 DEF reloadAdminPolicy, ReloadFails, Trouble
    <3> QED
      BY <3>1, <3>2, ConfigFileAssumption
  <2>9. OthersTyped'
    BY <2>1, <2>3, <2>4, <2>8 DEF ConfigInv, Typed, OthersTyped
  <2> QED
    BY <2>2, <2>4, <2>5, <2>6, <2>7, <2>9 DEF ConfigInv, Typed
<1> QED
  BY <1>2, <1>3

\* The ticker's.
LEMMA refreshGood ==
  ASSUME ConfigInv, refreshLoop
  PROVE  ConfigInv'
<1>0. "ticker" \in Reader
  BY Editors
<1>1. CASE Read("ticker")
  BY <1>0, <1>1, ReadGood
<1>2. CASE ~Read("ticker")
  <2>1. /\ Store("ticker")
        /\ UNCHANGED <<role, file, table, apart, mem, edit, cfg, at, edits, want, lost, stale, old, revoked, trouble>>
    BY <1>2 DEF refreshLoop, paths, editors, reports
  <2>2. /\ clients' \in SUBSET Client /\ held' \in [Reader -> (SUBSET Client) \cup {None}]
        /\ slipped' \in BOOLEAN /\ late' \in SUBSET Reader /\ Refused'
    BY <1>0, <2>1, StoreGood DEF ConfigInv, Refused, Typed, OthersTyped
  <2>3. FileAgrees' /\ CopiesAgree' /\ Wizards' /\ Listed'
    BY <2>1, StillConfig
  <2>4. MemAgrees'
    BY <2>1, StillInMem DEF ConfigInv
  <2>5. EditorsTyped' /\ Roles'
    BY <2>1, EditorsStill DEF Roles, Up, ConfigInv, Typed
  <2>6. OthersTyped'
    BY <2>1, <2>2 DEF ConfigInv, Typed, OthersTyped
  <2> QED
    BY <2>2, <2>3, <2>4, <2>5, <2>6 DEF ConfigInv, Typed
<1> QED
  BY <1>1, <1>2

\* It starts, with the configuration and the admins of a file that is not truncated.
LEMMA StartGood ==
  ASSUME ConfigInv, Start
  PROVE  ConfigInv'
<1>1. UNCHANGED <<role, file, table, apart, held, late, slipped, edit, cfg, at, edits,
                  want, lost, stale, old, revoked, trouble>>
  BY DEF Start, paths, editors, reports
<1>2. mem' = Load /\ Load \in Config /\ file # Truncated
  BY LoadGood DEF Start, ConfigInv, Typed, Validate, Load, Default
<1>3. clients' \in SUBSET Client /\ clients' \subseteq want.admins \cup lost
  BY ReadRight DEF Start, NewConfigAdminPolicy
<1>4. Refused'
  BY <1>1, <1>3 DEF ConfigInv, Refused
<1>5. FileAgrees' /\ CopiesAgree' /\ Wizards' /\ Listed'
  BY <1>1, StillConfig
<1>6. MemAgrees'
  BY <1>1, <1>2 DEF MemAgrees, Agrees, FileAgrees, Load, ConfigInv
<1>7. EditorsTyped' /\ Roles'
  BY <1>1, <1>2, EditorsStill, ConfigFileAssumption DEF Roles, Up, ConfigInv, Typed
<1>8. OthersTyped'
  BY <1>1, <1>2, <1>3 DEF ConfigInv, Typed, OthersTyped
<1> QED
  BY <1>4, <1>5, <1>6, <1>7, <1>8 DEF ConfigInv, Typed

-----------------------------------------------------------------------------
(* The text is written. *)

\* The file is truncated.
LEMMA OpenGood ==
  ASSUME ConfigInv, NEW x \in Editor, OpenFile(x)
  PROVE  ConfigInv'
<1>1. at[x] = "loaded" /\ cfg[x] \in Config /\ ValidEdit(x, edit[x])
  BY DEF OpenFile, ConfigInv, Typed, EditorsTyped
<1>2. UNCHANGED <<role, table, apart, mem, clients, held, late, slipped, edit, cfg, edits,
                  want, lost, stale, old, revoked, trouble>>
      /\ file' = Truncated
  BY DEF OpenFile, paths, policy, reports
<1>3. EditorsTyped' /\ at'[x] = "open" /\ \A y \in Editor \ {x} : at'[y] = at[y]
  <2>1. at' = [at EXCEPT ![x] = "open"] /\ EditorsTyped
    BY DEF OpenFile, ConfigInv, Typed
  <2> QED
    BY <1>1, <1>2, <2>1, EditorOnward
<1>4. \A y \in Editor : /\ at'[y] \in AtWork <=> at[y] \in AtWork
                        /\ at'[y] # "idle" => at[y] # "idle"
                        /\ at'[y] \in {"pending", "written"} <=> at[y] \in {"pending", "written"}
                        /\ at'[y] = "written" => at[y] = "written"
                        /\ at[y] = "pending" => at'[y] = "pending"
                        /\ at[y] = "written" => at'[y] = "written"
  BY <1>1, <1>3 DEF AtWork
<1>5. FileAgrees'
  <2>1. Truncated \notin Config /\ Truncated # Garbled
    BY ConfigFileAssumption
  <2> QED
    BY <1>2, <1>3, <2>1 DEF FileAgrees
<1>6. CopiesAgree'
  <2>1. ASSUME NEW y \in Editor, at'[y] \in AtWork
        PROVE  Agrees(cfg'[y], want', lost' \cup stale'[y] \cup Sets(edit'[y])) /\ Applied(cfg'[y], edit'[y])
    BY <1>2, <1>4, <2>1 DEF ConfigInv, CopiesAgree
  <2> QED
    BY <2>1 DEF CopiesAgree
<1>7. Refused'
  BY <1>2, StillRefused DEF ConfigInv, Refused
<1>8. Wizards'
  BY <1>2, <1>4, Editors, StillWizards DEF ConfigInv
<1>9. Listed'
  <2>1. \A y \in Handler : Copies(y)' <=> Copies(y)
    BY <1>2, <1>4, Editors DEF Copies
  <2> QED
    BY <1>2, <1>4, <2>1, Editors, StillListed DEF ConfigInv
<1>10. MemAgrees'
  BY <1>2, StillInMem DEF ConfigInv
<1>11. Roles'
  BY <1>2, <1>4, Editors DEF Roles, Up, ConfigInv, Typed
<1>12. OthersTyped'
  BY <1>2 DEF ConfigInv, Typed, OthersTyped
<1> QED
  BY <1>3, <1>5, <1>6, <1>7, <1>8, <1>9, <1>10, <1>11, <1>12 DEF ConfigInv, Typed

\* What a writer leaves to the others, and in the reports.
LEMMA WriteReports ==
  ASSUME ConfigInv, NEW x \in Editor, Write(x)
  PROVE  /\ at[x] = "open" /\ ValidEdit(x, edit[x]) /\ cfg[x] \in Config
         /\ want' = Apply(edit[x], want) /\ want' \in Config
         /\ lost' = (IF file = Truncated THEN (lost \cup stale[x]) \ Sets(edit[x]) ELSE Setting)
         /\ lost' \in SUBSET Setting /\ Sets(edit[x]) \subseteq Setting
         /\ stale' \in [Editor -> SUBSET Setting]
         /\ \A y \in Editor \ {x} : Busy(y) => stale'[y] = stale[y] \cup Sets(edit[x])
         /\ stale'[x] = {}
         /\ EditorsTyped' /\ at'[x] \in {"idle", "written"}
         /\ GoesOn(x) => at'[x] = "written" /\ cfg'[x] = cfg[x]
         /\ ~GoesOn(x) => at'[x] = "idle"
         /\ \A y \in Editor \ {x} : at'[y] = at[y] /\ edit'[y] = edit[y] /\ cfg'[y] = cfg[y]
         /\ \A s \in Setting \ Sets(edit[x]) : Same(want', want, s)
<1>1. at[x] = "open" /\ ValidEdit(x, edit[x]) /\ cfg[x] \in Config
  BY DEF Write, ConfigInv, Typed, EditorsTyped
<1>2. want' = Apply(edit[x], want) /\ want \in Config
  BY DEF Write, ConfigInv, Typed, OthersTyped
<1>3. want' \in Config /\ Sets(edit[x]) \subseteq Setting /\ \A s \in Setting \ Sets(edit[x]) : Same(want', want, s)
  BY <1>1, <1>2, ApplyGood, ApplySets
<1>4. /\ lost' = (IF file = Truncated THEN (lost \cup stale[x]) \ Sets(edit[x]) ELSE Setting)
      /\ stale' = [y \in Editor |-> IF y # x /\ Busy(y) THEN stale[y] \cup Sets(edit[x]) ELSE {}]
  BY DEF Write, Overlap
<1>5. stale \in [Editor -> SUBSET Setting] /\ lost \in SUBSET Setting
  BY DEF ConfigInv, Typed, OthersTyped
<1>6. lost' \in SUBSET Setting
  BY <1>4, <1>5
<1>7. /\ stale' \in [Editor -> SUBSET Setting]
      /\ \A y \in Editor \ {x} : Busy(y) => stale'[y] = stale[y] \cup Sets(edit[x])
      /\ stale'[x] = {}
  BY <1>3, <1>4, <1>5
<1>8. /\ EditorsTyped' /\ at'[x] \in {"idle", "written"}
      /\ GoesOn(x) => at'[x] = "written" /\ cfg'[x] = cfg[x]
      /\ ~GoesOn(x) => at'[x] = "idle"
      /\ \A y \in Editor \ {x} : at'[y] = at[y] /\ edit'[y] = edit[y] /\ cfg'[y] = cfg[y]
  <2>1. CASE GoesOn(x)
    <3>1. at' = [at EXCEPT ![x] = "written"] /\ UNCHANGED <<edit, cfg>> /\ EditorsTyped
      BY <2>1 DEF Write, ConfigInv, Typed
    <3>2. x \in Command => edit[x].kind = "new"
      BY <2>1, Editors DEF GoesOn
    <3>3. EditorsTyped' /\ at'[x] = "written" /\ \A y \in Editor \ {x} : at'[y] = at[y]
      BY <1>1, <3>1, <3>2, EditorOnward
    <3> QED
      BY <2>1, <3>1, <3>3
  <2>2. CASE ~GoesOn(x)
    BY <2>2, GoneTyped DEF Write, Answer, ConfigInv, Typed
  <2> QED
    BY <2>1, <2>2
<1> QED
  BY <1>1, <1>2, <1>3, <1>4, <1>6, <1>7, <1>8

\* The file agrees with the reports, and the copies of the others.
LEMMA WriteAgrees ==
  ASSUME ConfigInv, NEW x \in Editor, Write(x)
  PROVE  file' \in Config \cup {Garbled} /\ FileAgrees' /\ CopiesAgree' /\ MemAgrees'
<1> DEFINE own == Sets(edit[x])
<1>0. /\ at[x] = "open" /\ ValidEdit(x, edit[x]) /\ cfg[x] \in Config
      /\ want' = Apply(edit[x], want) /\ want' \in Config
      /\ lost' = (IF file = Truncated THEN (lost \cup stale[x]) \ own ELSE Setting)
      /\ lost' \in SUBSET Setting /\ own \subseteq Setting
      /\ \A y \in Editor \ {x} : Busy(y) => stale'[y] = stale[y] \cup own
      /\ at'[x] \in {"idle", "written"}
      /\ \A y \in Editor \ {x} : at'[y] = at[y] /\ edit'[y] = edit[y] /\ cfg'[y] = cfg[y]
      /\ \A s \in Setting \ own : Same(want', want, s)
  BY WriteReports
<1>1. Agrees(cfg[x], want, lost \cup stale[x] \cup own) /\ Applied(cfg[x], edit[x])
  BY <1>0 DEF ConfigInv, CopiesAgree, AtWork
<1>2. file' \in Config \cup {Garbled} /\ (file = Truncated => file' = cfg[x])
  BY <1>0, SaveGood DEF Write, ConfigInv, Typed
<1> HIDE DEF own
<1>3. FileAgrees'
  <2>1. CASE file = Truncated
    <3>1. ASSUME NEW s \in Setting \ lost'
          PROVE  Same(cfg[x], want', s)
      <4>1. CASE s \in own
        <5>1. want \in Config
          BY DEF ConfigInv, Typed, OthersTyped
        <5> QED
          BY <1>0, <1>1, <4>1, <5>1 DEF Applied, own
      <4>2. CASE s \notin own
        <5>1. Same(cfg[x], want, s)
          BY <1>0, <1>1, <2>1, <3>1, <4>2 DEF Agrees
        <5>2. Same(want', want, s)
          BY <1>0, <4>2
        <5> QED
          BY <5>1, <5>2, SameSame
      <4> QED
        BY <4>1, <4>2
    <3>2. Agrees(file', want', lost')
      BY <1>2, <2>1, <3>1 DEF Agrees
    <3>3. file' # Garbled /\ file' # Truncated
      BY <1>0, <1>2, <2>1, ConfigFileAssumption
    <3> QED
      BY <3>2, <3>3 DEF FileAgrees
  <2>2. CASE file # Truncated
    BY <1>0, <2>2 DEF FileAgrees, Agrees
  <2> QED
    BY <2>1, <2>2
<1>4. lost \subseteq lost' \cup own
  BY <1>0 DEF ConfigInv, Typed, OthersTyped
<1>5. ASSUME NEW y \in Editor, at'[y] \in AtWork
      PROVE  Agrees(cfg'[y], want', lost' \cup stale'[y] \cup Sets(edit'[y])) /\ Applied(cfg'[y], edit'[y])
  <2>1. y # x /\ at[y] \in AtWork /\ cfg'[y] = cfg[y] /\ edit'[y] = edit[y] /\ stale'[y] = stale[y] \cup own
    BY <1>0, <1>5 DEF AtWork, Busy
  <2>2. Agrees(cfg[y], want, lost \cup stale[y] \cup Sets(edit[y])) /\ Applied(cfg[y], edit[y])
    BY <2>1 DEF ConfigInv, CopiesAgree
  <2>3. ASSUME NEW s \in Setting \ (lost' \cup stale'[y] \cup Sets(edit[y]))
        PROVE  Same(cfg[y], want', s)
    <3>1. s \notin own /\ s \in Setting \ (lost \cup stale[y] \cup Sets(edit[y]))
      BY <1>4, <2>1, <2>3
    <3>2. Same(cfg[y], want, s) /\ Same(want', want, s)
      BY <1>0, <2>2, <3>1 DEF Agrees
    <3> QED
      BY <3>2, SameSame
  <2> QED
    BY <2>1, <2>2, <2>3 DEF Agrees
<1>6. CopiesAgree'
  BY <1>5 DEF CopiesAgree
<1>7. MemAgrees'
  <2> SUFFICES ASSUME role' = "client", Up'
               PROVE  Agrees(mem', want', lost' \cup old' \cup {"watcher"})
    BY DEF MemAgrees
  <2>1. role = "client" /\ Up /\ mem' = mem
    BY DEF Write, Up
  <2>2. old \cup own \subseteq old' \cup {"watcher"}
    <3>1. CASE x = "daemon"
      <4>1. edit[x].kind = "watcher"
        BY <1>0, <3>1 DEF ValidEdit
      <4>2. own = {"watcher"} /\ old' = old
        BY <3>1, <4>1 DEF own, Sets, Write, Overlap
      <4> QED
        BY <4>2
    <3>2. CASE x # "daemon"
      BY <2>1, <3>2 DEF Write, Overlap, own
    <3> QED
      BY <3>1, <3>2
  <2>3. ASSUME NEW s \in Setting \ (lost' \cup old' \cup {"watcher"})
        PROVE  Same(mem, want', s)
    <3>1. s \notin own /\ s \in Setting \ (lost \cup old \cup {"watcher"})
      BY <1>4, <2>2, <2>3
    <3>2. Same(mem, want, s) /\ Same(want', want, s)
      BY <1>0, <2>1, <3>1 DEF ConfigInv, MemAgrees, Agrees
    <3> QED
      BY <3>2, SameSame
  <2> QED
    BY <2>1, <2>3 DEF Agrees
<1> QED
  BY <1>2, <1>3, <1>6, <1>7

\* The list of paths, when a copy of the table is written, or a new file, or another.
LEMMA WriteListed ==
  ASSUME ConfigInv, NEW x \in Editor, Write(x)
  PROVE  Wizards' /\ Listed'
<1> DEFINE own == Sets(edit[x])
<1>0. /\ at[x] = "open" /\ ValidEdit(x, edit[x]) /\ want' = Apply(edit[x], want)
      /\ \A y \in Editor \ {x} : Busy(y) => stale'[y] = stale[y] \cup own
      /\ at'[x] \in {"idle", "written"} /\ (GoesOn(x) => at'[x] = "written" /\ cfg'[x] = cfg[x])
      /\ (~GoesOn(x) => at'[x] = "idle")
      /\ \A y \in Editor \ {x} : at'[y] = at[y] /\ edit'[y] = edit[y] /\ cfg'[y] = cfg[y]
  BY WriteReports
<1>1. want \in Config /\ UNCHANGED <<role, table>>
  BY DEF Write, ConfigInv, Typed, OthersTyped
<1>2. /\ "path" \in own <=> edit[x].kind \in {"paths", "new", "recover"}
      /\ edit[x].kind \notin {"paths", "new", "recover"} => want'.path = want.path
      /\ edit[x].kind = "paths" => want'.path = edit[x].val
      /\ edit[x].kind \in {"new", "recover"} => want' = edit[x].val
  BY <1>0, <1>1, ApplyGood, ApplySets
<1>3. \A y \in Handler : Copies(y)' <=> y # x /\ Copies(y)
  BY <1>0, Editors DEF Copies, AtWork
<1>4. Wizards'
  <2> SUFFICES ASSUME NEW y \in Command, at'[y] = "written", "path" \notin stale'[y]
               PROVE  want'.path = cfg'[y].path
    BY DEF Wizards
  <2>0. y \in Editor
    BY Editors
  <2>1. CASE y = x
    <3>1. GoesOn(x) /\ edit[x].kind = "new" /\ cfg'[x] = cfg[x]
      BY <1>0, <2>1, Editors DEF GoesOn
    <3>2. Same(cfg[x], Apply(edit[x], want), "path")
      BY <1>0, <1>1, <1>2, <3>1 DEF ConfigInv, CopiesAgree, Applied, AtWork
    <3> QED
      BY <1>0, <2>1, <3>1, <3>2 DEF Same
  <2>2. CASE y # x
    <3>1. at[y] = "written" /\ cfg'[y] = cfg[y] /\ stale'[y] = stale[y] \cup own
      BY <1>0, <2>0, <2>2 DEF Busy
    <3>2. want.path = cfg[y].path
      BY <3>1 DEF ConfigInv, Wizards
    <3> QED
      BY <1>2, <3>1, <3>2
  <2> QED
    BY <2>1, <2>2
<1>5. Listed'
  <2>1. CASE edit[x].kind = "paths"
    <3> SUFFICES ASSUME ~apart', \A y \in Handler : at'[y] # "pending", \A y \in Command : at'[y] # "written"
                 PROVE  want'.path = table' \/ Fresh'
      <4>1. ASSUME NEW y \in Handler, Copies(y)'
            PROVE  "path" \in stale'[y]
        <5>1. y \in Editor \ {x} /\ Busy(y)
          BY <1>3, <4>1, Editors DEF Copies, AtWork, Busy
        <5> QED
          BY <1>0, <1>2, <2>1, <5>1
      <4> QED
        BY <4>1 DEF Listed
    <3>1. ~apart /\ ("path" \notin stale[x] \/ edit[x].val = table)
      BY <2>1 DEF Write
    <3>2. x \in Handler /\ Copies(x)
      BY <1>0, <2>1 DEF ValidEdit, Copies, AtWork
    <3>3. CASE edit[x].val = table
      BY <1>1, <1>2, <2>1, <3>3
    <3>4. CASE edit[x].val # table
      <4>1. (\A y \in Handler : at[y] # "pending") /\ (\A y \in Command : at[y] # "written")
        BY <1>0, Editors
      <4>2. PICK y \in Handler : Copies(y) /\ edit[y].val = table
        BY <3>1, <3>2, <3>4, <4>1 DEF ConfigInv, Listed, Fresh
      <4>3. Copies(y)' /\ edit'[y] = edit[y]
        BY <1>0, <1>3, <3>4, <4>2, Editors
      <4>4. Fresh'
        BY <1>1, <4>2, <4>3 DEF Fresh
      <4> QED
        BY <4>4
    <3> QED
      BY <3>3, <3>4
  <2>2. CASE edit[x].kind = "new"
    <3>1. x \in Command /\ at'[x] = "written"
      BY <1>0, <2>2 DEF ValidEdit, GoesOn
    <3> QED
      BY <3>1 DEF Listed
  <2>3. CASE edit[x].kind = "recover"
    <3>1. x \in Command /\ role = "client"
      BY <1>0, <2>3 DEF ValidEdit, ConfigInv, Typed, Roles
    <3>2. \A y \in Handler : ~Copies(y)'
      BY <1>3, <3>1 DEF ConfigInv, Typed, Roles, Copies, AtWork
    <3>3. ~apart' => want'.path = table'
      BY <1>1, <1>2, <2>3 DEF Write
    <3> QED
      BY <3>2, <3>3 DEF Listed
  <2>4. CASE edit[x].kind \notin {"paths", "new", "recover"}
    <3>1. apart' = apart /\ want'.path = want.path
      BY <1>2, <2>4 DEF Write
    <3>2. \A y \in Handler : /\ Copies(y)' <=> Copies(y)
                             /\ Copies(y) => edit'[y] = edit[y] /\ stale'[y] = stale[y] \cup own
                             /\ at[y] = "pending" => at'[y] = "pending"
      BY <1>0, <1>3, <2>4, Editors DEF Copies, AtWork, Busy
    <3>3. \A y \in Command : at[y] = "written" => at'[y] = "written"
      BY <1>0, Editors
    <3> QED
      BY <1>1, <3>1, <3>2, <3>3, StillListed DEF ConfigInv
  <2> QED
    BY <2>1, <2>2, <2>3, <2>4
<1> QED
  BY <1>4, <1>5

\* The file is written, and a command or the daemon reports.
LEMMA WriteGood ==
  ASSUME ConfigInv, NEW x \in Editor, Write(x)
  PROVE  ConfigInv'
<1>0. /\ at[x] = "open" /\ ValidEdit(x, edit[x])
      /\ want' = Apply(edit[x], want) /\ want' \in Config
      /\ lost' \in SUBSET Setting /\ stale' \in [Editor -> SUBSET Setting]
      /\ EditorsTyped' /\ at'[x] \in {"idle", "written"} /\ (GoesOn(x) => edit' = edit)
      /\ (~GoesOn(x) => at'[x] = "idle")
      /\ Sets(edit[x]) \subseteq Setting
      /\ \A y \in Editor \ {x} : at'[y] = at[y] /\ edit'[y] = edit[y]
  BY WriteReports DEF Write
<1>1. file' \in Config \cup {Garbled} /\ FileAgrees' /\ CopiesAgree' /\ MemAgrees'
  BY WriteAgrees
<1>2. Wizards' /\ Listed'
  BY WriteListed
<1>3. UNCHANGED <<role, table, mem, clients, held, slipped, edits, trouble>>
  BY DEF Write
<1>4. Refused'
  <2>1. want \in Config
    BY DEF ConfigInv, Typed, OthersTyped
  <2>2. /\ edit[x].kind = "add" => want'.admins = want.admins \cup {edit[x].val}
        /\ edit[x].kind # "add" => want'.admins \subseteq want.admins
    BY <1>0, <2>1, ApplyGood
  <2>3. revoked' = (IF edit[x].kind = "add" THEN revoked \ {edit[x].val} ELSE revoked) \ lost'
    BY DEF Write
  <2>4. revoked' \cap (want'.admins \cup lost') = {}
    BY <2>2, <2>3 DEF ConfigInv, Refused
  <2>5. ~slipped' => revoked' \cap clients' = {}
    BY <1>3, <2>3 DEF ConfigInv, Refused
  <2>6. \A r \in Reader : held'[r] # None => r \in late'
    BY <1>3 DEF Write
  <2> QED
    BY <2>4, <2>5, <2>6 DEF Refused
<1>5. old' \in SUBSET Setting
  BY <1>0 DEF Write, Overlap, ConfigInv, Typed, OthersTyped
<1>6. late' \in SUBSET Reader /\ revoked' \in SUBSET Client
  BY DEF Write, ConfigInv, Typed, OthersTyped
<1>7. apart' \in BOOLEAN
  BY DEF Write, ConfigInv, Typed, OthersTyped
<1>8. OthersTyped'
  BY <1>0, <1>1, <1>3, <1>5, <1>6, <1>7 DEF ConfigInv, Typed, OthersTyped
<1>9. Roles'
  <2>1. \A y \in Editor : at'[y] # "idle" => at[y] # "idle" /\ edit'[y] = edit[y]
    BY <1>0
  <2> QED
    BY <1>3, <2>1, Editors DEF Roles, Up, ConfigInv, Typed
<1> QED
  BY <1>0, <1>1, <1>2, <1>4, <1>8, <1>9 DEF ConfigInv, Typed

-----------------------------------------------------------------------------
(* The invariant holds. *)

\* It holds initially.
LEMMA InitGood == Init => ConfigInv
<1> SUFFICES ASSUME Init PROVE ConfigInv
  OBVIOUS
<1>1. Typed /\ file \in Config /\ file.path = FALSE
  BY InitTyped
<1>2. \A x \in Editor : at[x] = "idle"
  BY DEF Init
<1>3. FileAgrees /\ MemAgrees
  <2>1. file # Truncated /\ file # Garbled
    BY <1>1, ConfigFileAssumption
  <2>2. mem = file /\ want = file
    BY DEF Init
  <2> QED
    BY <2>1, <2>2, SameSame DEF FileAgrees, MemAgrees, Agrees
<1>4. CopiesAgree /\ Wizards
  BY <1>2, Editors DEF CopiesAgree, Wizards, AtWork
<1>5. Refused
  BY DEF Init, Refused
<1>6. Listed
  <2>1. \A x \in Handler : ~Copies(x)
    BY <1>2, Editors DEF Copies, AtWork
  <2>2. want.path = table
    BY <1>1 DEF Init
  <2> QED
    BY <2>1, <2>2 DEF Listed
<1> QED
  BY <1>1, <1>3, <1>4, <1>5, <1>6 DEF ConfigInv

\* Every step keeps it.
LEMMA NextGood == ConfigInv /\ Next => ConfigInv'
<1> SUFFICES ASSUME ConfigInv, Next PROVE ConfigInv'
  OBVIOUS
<1>1. ASSUME NEW x \in Command \cup Handler, NEW e \in Edits(x), LoadConfig(x, e) PROVE ConfigInv'
  BY <1>1, LoadConfigGood
<1>2. ASSUME NEW e \in Edits("daemon"), persistWatcherEnabled(e) PROVE ConfigInv'
  BY <1>2, persistGood
<1>3. ASSUME NEW x \in Editor, OpenFile(x) \/ OpenFails(x) \/ Write(x) \/ WriteFails(x) PROVE ConfigInv'
  BY <1>3, OpenGood, WriteGood, FailsGood
<1>4. ASSUME NEW x \in Command, SetPaths(x) \/ runRecoverInteractive(x) PROVE ConfigInv'
  BY <1>4, SetPathsGood, RecoverGood
<1>5. ASSUME NEW b \in BOOLEAN, PathsCommand(b) PROVE ConfigInv'
  BY <1>5, PathsCommandGood
<1>6. ASSUME NEW b \in BOOLEAN, NEW x \in Handler, handlePaths(x, b) PROVE ConfigInv'
  BY <1>6, handlePathsGood
<1>7. ASSUME NEW b \in BOOLEAN, NEW x \in Command, DownloadDatabase(x, b) PROVE ConfigInv'
  BY <1>7, DownloadGood
<1>8. ASSUME NEW x \in Handler, syncPathsToConfig(x) \/ SyncFails(x) \/ Sync(x) \/ reloadAdminPolicy(x)
      PROVE ConfigInv'
  BY <1>8, syncGood, SyncFailsGood, SyncGood, reloadGood
<1>9. ASSUME NEW x \in Command, Kill(x) PROVE ConfigInv'
  BY <1>9, KillGood
<1> QED
  BY <1>1, <1>2, <1>3, <1>4, <1>5, <1>6, <1>7, <1>8, <1>9, refreshGood, DieGood, StartGood DEF Next

\* The file, the copies and the policy go with the reports, but for what is marked.
LEMMA ConfigInvariant == Spec => []ConfigInv
<1>1. Init => ConfigInv
  BY InitGood
<1>2. ConfigInv /\ [Next]_vars => ConfigInv'
  <2> SUFFICES ASSUME ConfigInv, [Next]_vars PROVE ConfigInv'
    OBVIOUS
  <2>1. CASE Next
    BY <2>1, NextGood
  <2>2. CASE UNCHANGED vars
    <3>1. UNCHANGED <<role, file, table, apart, mem, clients, held, late, slipped, edit, cfg, at, edits,
                     want, lost, stale, old, revoked, trouble>>
      BY <2>2 DEF vars, paths, policy, editors, reports
    <3>2. FileAgrees' /\ CopiesAgree' /\ Wizards' /\ Listed'
      BY <3>1, StillConfig
    <3>3. EditorsTyped' /\ Roles'
      BY <3>1, EditorsStill DEF Roles, Up, ConfigInv, Typed
    <3>4. OthersTyped' /\ Refused' /\ MemAgrees'
      BY <3>1, StillInMem DEF ConfigInv, Typed, OthersTyped, Refused
    <3> QED
      BY <3>2, <3>3, <3>4 DEF ConfigInv, Typed
  <2> QED
    BY <2>1, <2>2
<1> QED
  BY <1>1, <1>2, PTL DEF Spec

\* EDITS LAST.  Whatever the editors do behind each other's backs, setting by setting: the
\* file has the value that was last reported, unless one who had not read it wrote after it,
\* two texts were written into one another, or a write failed or was cut off.
THEOREM ReportedEditsLast == Spec => []EditsLast
<1>1. ConfigInv => EditsLast
  <2> SUFFICES ASSUME ConfigInv, \A x \in Editor : at[x] # "open", NEW s \in Setting \ lost
               PROVE  file \in Config /\ Same(file, want, s)
    BY DEF EditsLast
  <2>1. lost # Setting
    OBVIOUS
  <2>2. file \in Config
    BY <2>1 DEF ConfigInv, FileAgrees, Typed, OthersTyped
  <2> QED
    BY <2>2 DEF ConfigInv, FileAgrees, Agrees
<1> QED
  BY <1>1, ConfigInvariant, PTL

\* THE REMOVED ARE REFUSED, from the web UI's report on, but for what a reload has read before.
THEOREM RemovedAreRefused == Spec => []RevokedIsRefused
<1>1. ConfigInv => RevokedIsRefused
  BY DEF ConfigInv, Refused, RevokedIsRefused, IsAdmin
<1> QED
  BY <1>1, ConfigInvariant, PTL

\* THE FILE LISTS THE PATHS OF THE TABLE when all goroutines have copied it, in whatever
\* order they came, unless a copy failed, or came after a newer one, or the table was changed
\* without the file.
THEOREM FileListsPaths == Spec => []PathsInSync
<1>1. ConfigInv => PathsInSync
  <2> SUFFICES ASSUME ConfigInv, Idle, ~apart, "path" \notin lost PROVE file.path = table
    BY DEF PathsInSync
  <2>1. \A x \in Editor : at[x] = "idle"
    BY DEF Idle
  <2>2. ~Fresh
    BY <2>1, Editors DEF Fresh, Copies, AtWork
  <2>3. want.path = table
    BY <2>1, <2>2, Editors DEF ConfigInv, Listed
  <2>4. "path" \in Setting /\ lost # Setting
    BY DEF Setting
  <2>5. file \in Config
    BY <2>1, <2>4 DEF ConfigInv, FileAgrees, Typed, OthersTyped
  <2>6. Same(file, want, "path")
    BY <2>4, <2>5 DEF ConfigInv, FileAgrees, Agrees
  <2> QED
    BY <2>3, <2>6 DEF Same
<1> QED
  BY <1>1, ConfigInvariant, PTL

\* The types hold.
THEOREM ConfigTypes == Spec => []TypeOK
  BY ConfigInvariant, TypedOK, PTL DEF ConfigInv
=============================================================================
