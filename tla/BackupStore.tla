---------------------------- MODULE BackupStore ----------------------------
(***************************************************************************)
(* The storage core of tergum: backup runs, the server's upload handlers,  *)
(* the content-addressed blob store, the "backups" tables of all the       *)
(* databases involved, and the purgers (retention and manual deletion)     *)
(* that reclaim blobs whose last reference is gone.                        *)
(*                                                                         *)
(* A node has one database.  The node Server also has the blob store.  A   *)
(* run whose owner is Server is a run of a hybrid node: it works through   *)
(* LocalServerConnection, on the server's own store and database.  A run   *)
(* of any other node is a remote client's: it works through                *)
(* RemoteServerConnection, keeps its entries in its own database, and the  *)
(* server keeps a row of its own for every file it receives.               *)
(*                                                                         *)
(* Encryption is on.  Every encryption of a file makes a fresh data key    *)
(* (DEK); a key is named after the run and the manifest position it was    *)
(* made for.  It is wrapped with the master key of the run's node, so only *)
(* that node can use it.                                                   *)
(***************************************************************************)
EXTENDS Naturals, FiniteSets

CONSTANTS
  Node,        \* machines with a database
  Server,      \* the node that also has the blob store
  Run,         \* backup runs; one run is one call of RunBackup
  Owner,       \* the node each run belongs to
  Path,        \* file paths
  Hash,        \* BLAKE3 hashes of file contents
  Retainer,    \* processes that run retention.Evaluate
  Deleter,     \* processes that run deletion.executeDelete
  PurgeNode,   \* the node whose database each of those works on
  None         \* no run, no path, no key

Purger == Retainer \cup Deleter

ASSUME ConstantsAssumption ==
  /\ Server \in Node
  /\ Owner \in [Run -> Node]
  /\ PurgeNode \in [Purger -> Node]
  /\ Retainer \cap Deleter = {}
  /\ None \notin Run \cup Path \cup (Run \X Path)

VARIABLES
  blob,     \* the store: the key a blob's ciphertext was made with, or None
  rows,     \* the backups table of every node
  job,      \* status of every run's backup_jobs row, in its owner's database
  pc,       \* where RunBackup is
  stop,     \* the engine's stopped flag
  man,      \* the manifest: content hash of every scanned path
  left,     \* manifest positions the current loop of RunBackup has still to do
  cur,      \* the position whose UploadFile call is in progress, or None
  meta,     \* hashEncryption: the key recorded for each hash, or None
  hand,     \* server side of every upload
  purge,    \* state of every purger
  fault     \* history: what went wrong with each hash so far

vars == <<blob, rows, job, pc, stop, man, left, cur, meta, hand, purge, fault>>

runVars == <<pc, stop, man, left, cur, meta>>

-----------------------------------------------------------------------------
(* Types. *)

Key == Run \X Path

\* A row of the backups table.  Rows written by the server for an upload have
\* no backup_id: their run is None.
Entry == [run : Run \cup {None}, path : Path, hash : Hash, key : Key \cup {None}]

Manifest == UNION {[P -> Hash] : P \in SUBSET Path}

Live == {"manifest", "upload", "entries"}

\* deletion filters: one backup, one file or folder, or everything
Filter == {f \in [run : Run \cup {None}, path : Path \cup {None}] :
             f.run = None \/ f.path = None}

Purge == [st : {"idle", "query", "check", "delete"}, filter : Filter,
          victims : SUBSET Entry, hashes : SUBSET Hash, cur : SUBSET Hash]

Idle == [st |-> "idle", filter |-> [run |-> None, path |-> None],
         victims |-> {}, hashes |-> {}, cur |-> {}]

\* The accidents the code allows, as the history variable records them:
\*   raced    a purger deletes the blob of a hash that, since it was counted or
\*            until it is recorded, someone relies on
\*   upload   a file of the hash was not read, encrypted or received, or it had
\*            changed when it was read: what is stored has another hash
\*   severed  an entry of the hash was parted from its blob or its key: the
\*            blob was replaced under another run's key, was offered to a node
\*            that has no key for it, or was deleted while a client relied on
\*            it; or the only rows with its key were purged
\*   leaked   a failure left the blob without a row or a pending reclamation
Fault == {"raced", "upload", "severed", "leaked"}

TypeOK ==
  /\ blob \in [Hash -> Key \cup {None}]
  /\ rows \in [Node -> SUBSET Entry]
  /\ job \in [Run -> {"absent", "running", "completed", "failed", "stopped"}]
  /\ pc \in [Run -> {"idle", "done", "dead"} \cup Live]
  /\ stop \in [Run -> BOOLEAN]
  /\ man \in [Run -> Manifest]
  /\ left \in [Run -> SUBSET Path]
  /\ cur \in [Run -> Path \cup {None}]
  /\ meta \in [Run -> [Hash -> Key \cup {None}]]
  /\ hand \in [Key -> {"none", "recv", "stored", "acked", "failed"}]
  /\ purge \in [Purger -> Purge]
  /\ fault \in [Hash -> SUBSET Fault]

Init ==
  /\ blob = [h \in Hash |-> None]
  /\ rows = [n \in Node |-> {}]
  /\ job = [r \in Run |-> "absent"]
  /\ pc = [r \in Run |-> "idle"]
  /\ stop = [r \in Run |-> FALSE]
  /\ man \in [Run -> {m \in Manifest : DOMAIN m = {}}]
  /\ left = [r \in Run |-> {}]
  /\ cur = [r \in Run |-> None]
  /\ meta = [r \in Run |-> [h \in Hash |-> None]]
  /\ hand = [k \in Key |-> "none"]
  /\ purge = [g \in Purger |-> Idle]
  /\ fault = [h \in Hash |-> {}]

-----------------------------------------------------------------------------
(* Helpers. *)

IsLocal(r) == Owner[r] = Server

Referenced(n, h) == \E e \in rows[n] : e.hash = h

\* The scanned file that stands for a hash: the first manifest entry with it.
FileFor(r, h) == CHOOSE p \in DOMAIN man[r] : man[r][p] = h

\* A run that has been told hash h is, or will be, in the store and has not
\* yet written the row that would protect it.
RunPending(r, h) ==
  \/ pc[r] = "upload" /\ \E p \in DOMAIN man[r] : man[r][p] = h
  \/ pc[r] = "entries" /\ \E p \in left[r] : man[r][p] = h

\* An upload handler between CAS.Put and InsertBackupEntry.
HandlerPending(h) ==
  \E r \in Run : \E p \in DOMAIN man[r] :
    man[r][p] = h /\ hand[<<r, p>>] = "stored"

Pending(h) == HandlerPending(h) \/ \E r \in Run : IsLocal(r) /\ RunPending(r, h)

\* A purger that has counted zero references to h and not yet deleted it.
Condemned(h) ==
  \E g \in Purger : /\ PurgeNode[g] = Server
                    /\ purge[g].st = "delete"
                    /\ h \in purge[g].cur

Mark(h, F) == fault' = [fault EXCEPT ![h] = @ \cup F]

\* The keys node n could try on hash h: those in its rows.
KeysFor(n, h) == {e.key : e \in {f \in rows[n] : f.hash = h}} \ {None}

\* RestoreEngine: an entry's own key, or that of another row of the same hash.
\* Which of several it would find is not determined, so all must work; a key
\* works on the ciphertext it was made for, at the node that can unwrap it.
CanRestore(n, e) ==
  LET keys == IF e.key # None THEN {e.key} ELSE KeysFor(n, e.hash)
  IN  /\ blob[e.hash] # None
      /\ keys = {blob[e.hash]}
      /\ Owner[blob[e.hash][1]] = n

-----------------------------------------------------------------------------
(* RunBackup. *)

\* CreateJob, then Scan and BuildManifest; resets the stopped flag first.
\* A file that cannot be hashed is left out of the manifest.
StartBackup(r) ==
  /\ pc[r] = "idle"
  /\ stop' = [stop EXCEPT ![r] = FALSE]
  /\ \/ /\ job' = [job EXCEPT ![r] = "running"]
        /\ \E m \in Manifest : man' = [man EXCEPT ![r] = m]
        /\ pc' = [pc EXCEPT ![r] = "manifest"]
     \/ /\ pc' = [pc EXCEPT ![r] = "done"]      \* CreateJob fails
        /\ UNCHANGED <<job, man>>
  /\ UNCHANGED <<blob, rows, left, cur, meta, hand, purge, fault>>

\* finishJob: the update touches the row only if it is still there, and its
\* error is ignored.
FinishJob(r, status) ==
  /\ pc' = [pc EXCEPT ![r] = "done"]
  /\ \/ job[r] # "absent" /\ job' = [job EXCEPT ![r] = status]
     \/ UNCHANGED job
  /\ UNCHANGED <<blob, rows, stop, man, left, cur, meta, hand, purge>>

\* What is lost when a local run ends with blobs it stored and never recorded.
Abandoned(r) ==
  {h \in Hash : /\ IsLocal(r) /\ RunPending(r, h)
                /\ \E p \in Path : hand[<<r, p>>] = "acked" /\ man[r][p] = h}

MarkAbandoned(r) ==
  fault' = [h \in Hash |->
              IF h \in Abandoned(r) THEN fault[h] \cup {"leaked"} ELSE fault[h]]

\* The stop flag is looked at before the exchange and at the head of the
\* upload and entry loops.
Stopped(r) ==
  /\ pc[r] = "manifest" \/ (pc[r] \in Live /\ cur[r] = None /\ left[r] # {})
  /\ stop[r]
  /\ FinishJob(r, "stopped")
  /\ MarkAbandoned(r)

\* Scan, BuildManifest or ExchangeManifest fails.
ExchangeFails(r) ==
  /\ pc[r] = "manifest"
  /\ FinishJob(r, "failed")
  /\ UNCHANGED fault

\* mutant: the reply's hashes taken for manifest positions
ExchangeHashes(r) ==
  /\ pc[r] = "manifest" /\ ~stop[r]
  /\ left' = [left EXCEPT ![r] = {man[r][p] : p \in DOMAIN man[r]}]
  /\ pc' = [pc EXCEPT ![r] = "upload"]
  /\ UNCHANGED <<blob, rows, job, stop, man, cur, meta, hand, purge, fault>>

\* The server asks for every manifest position whose hash it lacks, or cannot look up;
\* the local connection asks once per hash.  Presence in the store is all that is looked
\* at: that the node holds no key for a blob it is spared is recorded.
ExchangeManifest(r) ==
  \E unsure \in SUBSET DOMAIN man[r] :
    LET n == Owner[r]
        missing == unsure \cup {p \in DOMAIN man[r] : blob[man[r][p]] = None}
        needed == IF IsLocal(r) THEN {FileFor(r, man[r][p]) : p \in missing} ELSE missing
        spared == {man[r][p] : p \in DOMAIN man[r] \ missing}
    IN  /\ pc[r] = "manifest"
        /\ ~stop[r]
        /\ left' = [left EXCEPT ![r] = needed]
        /\ pc' = [pc EXCEPT ![r] = "upload"]
        /\ fault' = [h \in Hash |->
                       IF h \in spared /\ ~(/\ KeysFor(n, h) = {blob[h]}
                                            /\ Owner[blob[h][1]] = n)
                       THEN fault[h] \cup {"severed"} ELSE fault[h]]
        /\ UNCHANGED <<blob, rows, job, stop, man, cur, meta, hand, purge>>

\* The file cannot be read or encrypted: the loop continues without it.
SkipFile(r) ==
  /\ pc[r] = "upload" /\ cur[r] = None /\ ~stop[r]
  /\ \E p \in left[r] : /\ left' = [left EXCEPT ![r] = @ \ {p}]
                        /\ Mark(man[r][p], {"upload"})
  /\ UNCHANGED <<blob, rows, job, pc, stop, man, cur, meta, hand, purge>>

\* mutant: hashEncryption keeps the first key of a hash uploaded twice
BeginUploadOnce(r) ==
  /\ pc[r] = "upload" /\ cur[r] = None /\ ~stop[r]
  /\ \E p \in left[r] :
       /\ cur' = [cur EXCEPT ![r] = p]
       /\ meta' = [meta EXCEPT ![r][man[r][p]] = IF @ = None THEN <<r, p>> ELSE @]
       /\ hand' = [hand EXCEPT ![<<r, p>>] = "recv"]
  /\ UNCHANGED <<blob, rows, job, pc, stop, man, left, purge, fault>>

\* Read the file as it is now, encrypt it under a fresh key, note the key in
\* hashEncryption, call UploadFile.  Nobody hashes again what was read.
BeginUpload(r) ==
  /\ pc[r] = "upload" /\ cur[r] = None /\ ~stop[r]
  /\ \E p \in left[r] :
       /\ cur' = [cur EXCEPT ![r] = p]
       /\ meta' = [meta EXCEPT ![r][man[r][p]] = <<r, p>>]
       /\ hand' = [hand EXCEPT ![<<r, p>>] = "recv"]
       /\ \E F \in {{}, {"upload"}} : Mark(man[r][p], F)
  /\ UNCHANGED <<blob, rows, job, pc, stop, man, left, purge>>

\* UploadFile returns, with or without an error; the loop continues either way.
UploadReturns(r) ==
  /\ cur[r] # None
  /\ hand[<<r, cur[r]>>] \in {"acked", "failed"}
  /\ left' = [left EXCEPT ![r] = @ \ {cur[r]}]
  /\ cur' = [cur EXCEPT ![r] = None]
  /\ UNCHANGED <<blob, rows, job, pc, stop, man, meta, hand, purge, fault>>

\* The stream breaks: the client goes on while the server's handler may still
\* be at work on what it has received.
UploadBreaks(r) ==
  /\ cur[r] # None /\ ~IsLocal(r)
  /\ hand[<<r, cur[r]>>] \in {"recv", "stored"}
  /\ left' = [left EXCEPT ![r] = @ \ {cur[r]}]
  /\ cur' = [cur EXCEPT ![r] = None]
  /\ Mark(man[r][cur[r]], {"upload"})
  /\ UNCHANGED <<blob, rows, job, pc, stop, man, meta, hand, purge>>

\* The upload loop is over: every manifest position gets an entry next.
UploadsDone(r) ==
  /\ pc[r] = "upload" /\ cur[r] = None /\ left[r] = {}
  /\ left' = [left EXCEPT ![r] = DOMAIN man[r]]
  /\ pc' = [pc EXCEPT ![r] = "entries"]
  /\ UNCHANGED <<blob, rows, job, stop, man, cur, meta, hand, purge, fault>>

\* A row is protected from the moment it is there; a purger that has already
\* counted will delete its blob all the same.
AddRow(n, e) ==
  /\ rows' = [rows EXCEPT ![n] = @ \cup {e}]
  /\ Mark(e.hash, IF n = Server /\ Condemned(e.hash) THEN {"raced"} ELSE {})

\* mutant: the entry is written without the key noted at upload
InsertEntryKeyless(r) ==
  /\ pc[r] = "entries" /\ ~stop[r]
  /\ \E p \in left[r] :
       /\ AddRow(Owner[r], [run |-> r, path |-> p, hash |-> man[r][p], key |-> None])
       /\ left' = [left EXCEPT ![r] = @ \ {p}]
  /\ UNCHANGED <<blob, job, pc, stop, man, cur, meta, hand, purge>>

InsertEntry(r) ==
  /\ pc[r] = "entries" /\ ~stop[r]
  /\ \E p \in left[r] :
       /\ AddRow(Owner[r], [run |-> r, path |-> p, hash |-> man[r][p],
                            key |-> meta[r][man[r][p]]])
       /\ left' = [left EXCEPT ![r] = @ \ {p}]
  /\ UNCHANGED <<blob, job, pc, stop, man, cur, meta, hand, purge>>

\* InsertBackupEntry fails: a warning, and on to the next entry.
InsertEntryFails(r) ==
  /\ pc[r] = "entries" /\ ~stop[r]
  /\ \E p \in left[r] :
       /\ left' = [left EXCEPT ![r] = @ \ {p}]
       /\ Mark(man[r][p], IF man[r][p] \in Abandoned(r) THEN {"leaked"} ELSE {})
  /\ UNCHANGED <<blob, rows, job, pc, stop, man, cur, meta, hand, purge>>

Complete(r) ==
  /\ pc[r] = "entries" /\ left[r] = {}
  /\ FinishJob(r, "completed")
  /\ UNCHANGED fault

\* Engine.Stop, the StopBackup RPC or the stop file.
StopBackup(r) ==
  /\ pc[r] \in Live /\ ~stop[r]
  /\ stop' = [stop EXCEPT ![r] = TRUE]
  /\ UNCHANGED <<blob, rows, job, pc, man, left, cur, meta, hand, purge, fault>>

\* The process running the backup dies.  A local run's UploadFile dies with it
\* (before its rename); a handler on the server goes on.
Crash(r) ==
  /\ pc[r] \in Live
  /\ pc' = [pc EXCEPT ![r] = "dead"]
  /\ cur' = [cur EXCEPT ![r] = None]
  /\ hand' = [k \in Key |-> IF IsLocal(r) /\ k[1] = r /\ hand[k] = "recv"
                            THEN "failed" ELSE hand[k]]
  /\ MarkAbandoned(r)
  /\ UNCHANGED <<blob, rows, job, stop, man, left, meta, purge>>

\* mutant: the update has no status filter
FailAllJobs(n) ==
  /\ job' = [r \in Run |-> IF Owner[r] = n /\ job[r] # "absent"
                           THEN "failed" ELSE job[r]]
  /\ UNCHANGED <<blob, rows, pc, stop, man, left, cur, meta, hand, purge, fault>>

\* Start of a daemon, or "tergum cleanup": the node's running jobs are failed,
\* whether or not another process is still working on them.
FailStaleJobs(n) ==
  /\ \E r \in Run : Owner[r] = n /\ job[r] = "running"
  /\ job' = [r \in Run |-> IF Owner[r] = n /\ job[r] = "running"
                           THEN "failed" ELSE job[r]]
  /\ UNCHANGED <<blob, rows, pc, stop, man, left, cur, meta, hand, purge, fault>>

-----------------------------------------------------------------------------
(* The far end of UploadFile: DataServer.Upload on the server, or the local  *)
(* connection's own UploadFile, which writes the blob and no row.            *)

\* CAS.Put: the rename replaces whatever blob the hash had.  A run that replaces
\* its own blob records the new key; anyone else's entries keep the old one.
Put(r, p) ==
  LET h == man[r][p]
  IN  /\ hand[<<r, p>>] = "recv"
      /\ blob' = [blob EXCEPT ![h] = <<r, p>>]
      /\ hand' = [hand EXCEPT ![<<r, p>>] = IF IsLocal(r) THEN "acked" ELSE "stored"]
      /\ Mark(h, IF blob[h] # None /\ blob[h][1] # r THEN {"severed"} ELSE {})
      /\ UNCHANGED <<rows, job, runVars, purge>>

\* The stream or the write fails before the rename.
PutFails(r, p) ==
  /\ hand[<<r, p>>] = "recv"
  /\ hand' = [hand EXCEPT ![<<r, p>>] = "failed"]
  /\ Mark(man[r][p], {"upload"})
  /\ UNCHANGED <<blob, rows, job, runVars, purge>>

\* mutant: the row is written before the blob, and an upload that fails leaves it
InsertRowFirst(r, p) ==
  /\ hand[<<r, p>>] = "recv" /\ ~IsLocal(r)
  /\ AddRow(Server, [run |-> None, path |-> FileFor(r, man[r][p]),
                     hash |-> man[r][p], key |-> <<r, p>>])
  /\ UNCHANGED <<blob, job, runVars, hand, purge>>

\* storeFileFromReader: the row follows the blob, through the write queue.
InsertRow(r, p) ==
  LET h == man[r][p]
  IN  /\ hand[<<r, p>>] = "stored"
      /\ AddRow(Server, [run |-> None, path |-> FileFor(r, h), hash |-> h,
                         key |-> <<r, p>>])
      /\ \/ hand' = [hand EXCEPT ![<<r, p>>] = "acked"]
         \/ hand' = [hand EXCEPT ![<<r, p>>] = "failed"]  \* Submit gave up first
      /\ UNCHANGED <<blob, job, runVars, purge>>

\* The insert fails, or the server dies, between blob and row.
InsertRowFails(r, p) ==
  /\ hand[<<r, p>>] = "stored"
  /\ hand' = [hand EXCEPT ![<<r, p>>] = "failed"]
  /\ Mark(man[r][p], {"leaked"})
  /\ UNCHANGED <<blob, rows, job, runVars, purge>>

-----------------------------------------------------------------------------
(* Purgers.  Both delete rows first, then count what still refers to each    *)
(* hash, then delete the blob: three separate steps.                         *)

Set(g, rec) == purge' = [purge EXCEPT ![g] = rec]

Matches(f, e) == f.run \in {None, e.run} /\ f.path \in {None, e.path}

Matching(n, f) == {e \in rows[n] : Matches(f, e)}

\* Hashes whose blob could lose its only key when the rows D of node n go: a
\* row without a key of its own, or a run about to write one, is left behind.
Unkeys(n, D) ==
  {h \in Hash :
     /\ \E e \in D : e.hash = h /\ e.key # None
     /\ \/ \E e \in rows[n] \ D : e.hash = h
        \/ \E r \in Run : Owner[r] = n /\ RunPending(r, h)}

DropRows(n, D, leaks) ==
  /\ rows' = [rows EXCEPT ![n] = @ \ D]
  /\ fault' = [h \in Hash |-> fault[h]
                 \cup (IF h \in Unkeys(n, D) THEN {"severed"} ELSE {})
                 \cup (IF h \in leaks THEN {"leaked"} ELSE {})]

\* Evaluate: a path's versions are read, and which of them expire is decided
\* on that reading (module Retention says how).
BeginEvaluate(g) ==
  /\ g \in Retainer /\ purge[g].st = "idle"
  /\ \E p \in Path :
       \E V \in SUBSET {e \in rows[PurgeNode[g]] : e.path = p} :
         V # {} /\ Set(g, [Idle EXCEPT !.st = "check", !.victims = V])
  /\ UNCHANGED <<blob, rows, job, runVars, hand, fault>>

DeleteEntryByID(g) ==
  /\ g \in Retainer /\ purge[g].st = "check" /\ purge[g].hashes = {}
  /\ \E e \in purge[g].victims :
       /\ DropRows(PurgeNode[g], {e}, {})
       /\ Set(g, [purge[g] EXCEPT !.victims = @ \ {e}, !.hashes = {e.hash}])
  /\ UNCHANGED <<blob, job, runVars, hand>>

EvaluateDone(g) ==
  /\ g \in Retainer /\ purge[g].st = "check"
  /\ purge[g].hashes = {} /\ purge[g].victims = {}
  /\ Set(g, Idle)
  /\ UNCHANGED <<blob, rows, job, runVars, hand, fault>>

\* executeDelete, step 1.
QueryEntries(g) ==
  /\ g \in Deleter /\ purge[g].st = "idle"
  /\ \E f \in Filter :
       /\ Matching(PurgeNode[g], f) # {}
       /\ Set(g, [Idle EXCEPT !.st = "query", !.filter = f,
                             !.hashes = {e.hash : e \in Matching(PurgeNode[g], f)}])
  /\ UNCHANGED <<blob, rows, job, runVars, hand, fault>>

\* mutant: the hashes are collected after the rows are gone
DeleteEntriesFirst(g) ==
  LET n == PurgeNode[g]
      D == Matching(n, purge[g].filter)
  IN  /\ purge[g].st = "query"
      /\ DropRows(n, D, IF n = Server
                        THEN {e.hash : e \in D} \ purge[g].hashes ELSE {})
      /\ Set(g, [purge[g] EXCEPT !.st = "check",
                                !.hashes = {}])
      /\ UNCHANGED <<blob, job, runVars, hand>>

\* Step 2: the filter is evaluated again; rows added since step 1 go too, but
\* their hashes are not looked at.
DeleteEntries(g) ==
  LET n == PurgeNode[g]
      D == Matching(n, purge[g].filter)
  IN  /\ purge[g].st = "query"
      /\ DropRows(n, D, IF n = Server
                        THEN {e.hash : e \in D} \ purge[g].hashes ELSE {})
      /\ Set(g, [purge[g] EXCEPT !.st = "check"])
      /\ UNCHANGED <<blob, job, runVars, hand>>

\* mutant: the blob is deleted with the row, whatever the count
CountNothing(g) ==
  /\ purge[g].st = "check"
  /\ \E h \in purge[g].hashes :
       Set(g, [purge[g] EXCEPT !.st = "delete", !.cur = {h}])
  /\ UNCHANGED <<blob, rows, job, runVars, hand, fault>>

\* CountHashReferences.
CountReferences(g) ==
  /\ purge[g].st = "check"
  /\ \E h \in purge[g].hashes :
       Set(g, IF Referenced(PurgeNode[g], h)
              THEN [purge[g] EXCEPT !.hashes = @ \ {h}]
              ELSE [purge[g] EXCEPT !.st = "delete", !.cur = {h}])
  /\ UNCHANGED <<blob, rows, job, runVars, hand, fault>>

\* The count looks at the server's own table only: entries of a remote client,
\* and its runs under way, do not hold a blob.
HeldElsewhere(h) ==
  \/ \E n \in Node \ {Server} : Referenced(n, h)
  \/ \E r \in Run : ~IsLocal(r) /\ RunPending(r, h)

\* CAS.Delete.  A node without the store finds no such file, and carries on.
DeleteBlob(g) ==
  LET here == PurgeNode[g] = Server
  IN  /\ purge[g].st = "delete"
      /\ \E h \in purge[g].cur :
           /\ blob' = IF here THEN [blob EXCEPT ![h] = None] ELSE blob
           /\ Mark(h, {f \in {"raced", "severed"} :
                        /\ here
                        /\ f = "raced" => Pending(h)
                        /\ f = "severed" => HeldElsewhere(h)})
      /\ Set(g, [purge[g] EXCEPT !.st = "check", !.hashes = @ \ purge[g].cur,
                                !.cur = {}])
      /\ UNCHANGED <<rows, job, runVars, hand>>

\* Step 4: jobs without entries go, running ones included.
DeleteOrphanJobs(g) ==
  LET n == PurgeNode[g]
  IN  /\ g \in Deleter /\ purge[g].st = "check" /\ purge[g].hashes = {}
      /\ job' = [r \in Run |-> IF Owner[r] = n /\ ~\E e \in rows[n] : e.run = r
                               THEN "absent" ELSE job[r]]
      /\ Set(g, Idle)
      /\ UNCHANGED <<blob, rows, runVars, hand, fault>>

\* A database error or the death of the process: what was pending is forgotten.
PurgeAborts(g) ==
  /\ purge[g].st # "idle"
  /\ fault' = [h \in Hash |->
                 IF PurgeNode[g] = Server /\ purge[g].st \in {"check", "delete"}
                    /\ h \in purge[g].hashes
                 THEN fault[h] \cup {"leaked"} ELSE fault[h]]
  /\ Set(g, Idle)
  /\ UNCHANGED <<blob, rows, job, runVars, hand>>

-----------------------------------------------------------------------------
(* The system. *)

RunStep(r) ==
  \/ StartBackup(r)
  \/ Stopped(r)
  \/ ExchangeFails(r)
  \/ ExchangeManifest(r)
  \/ SkipFile(r)
  \/ BeginUpload(r)
  \/ UploadReturns(r)
  \/ UploadBreaks(r)
  \/ UploadsDone(r)
  \/ InsertEntry(r)
  \/ InsertEntryFails(r)
  \/ Complete(r)

HandlerStep(r, p) ==
  \/ Put(r, p)
  \/ PutFails(r, p)
  \/ InsertRow(r, p)
  \/ InsertRowFails(r, p)

PurgeStep(g) ==
  \/ BeginEvaluate(g)
  \/ DeleteEntryByID(g)
  \/ EvaluateDone(g)
  \/ QueryEntries(g)
  \/ DeleteEntries(g)
  \/ CountReferences(g)
  \/ DeleteBlob(g)
  \/ DeleteOrphanJobs(g)
  \/ PurgeAborts(g)

Next ==
  \/ \E r \in Run : RunStep(r) \/ StopBackup(r) \/ Crash(r)
  \/ \E r \in Run, p \in Path : HandlerStep(r, p)
  \/ \E g \in Purger : PurgeStep(g)
  \/ \E n \in Node : FailStaleJobs(n)

Spec == Init /\ [][Next]_vars

-----------------------------------------------------------------------------
(* Properties. *)

\* A row the server wrote for an upload has its blob, unless a purger deleted
\* the blob after counting, or around the upload of, the same hash.
UploadedRowHasBlob ==
  \A e \in rows[Server] :
    e.run = None /\ blob[e.hash] = None => "raced" \in fault[e.hash]

\* The same for an entry of a hybrid node's own run, which is also written for
\* a file that could not be uploaded.
LocalEntryHasBlob ==
  \A e \in rows[Server] :
    blob[e.hash] = None => fault[e.hash] \cap {"raced", "upload"} # {}

\* Every file of a completed backup set can be restored by its owner, unless
\* the hash met one of the known accidents.
CompletedRestorable ==
  \A r \in Run : job[r] = "completed" =>
    \A e \in rows[Owner[r]] :
      e.run = r => \/ CanRestore(Owner[r], e)
                   \/ fault[e.hash] \ {"leaked"} # {}

\* The store holds no blob that nothing refers to, is about to refer to or is
\* about to reclaim, unless a failure is on record that abandoned it.
NoUnrecordedLeak ==
  \A h \in Hash :
    \/ blob[h] = None
    \/ Referenced(Server, h)
    \/ Pending(h)
    \/ \E g \in Purger : PurgeNode[g] = Server /\ purge[g].st # "query" /\ h \in purge[g].hashes
    \/ "leaked" \in fault[h]

\* Whatever processes finish a run, fail stale jobs or delete orphaned ones: a verdict
\* once given (completed, failed or stopped) stays, with one exception, the run that was
\* failed while it was alive, by the start of a daemon in another process, and that says
\* otherwise when it ends; a job goes only when no entry of its backup set is left, which
\* may be before the first is written; and one that has gone stays away, whatever its
\* run still reports.
VerdictIsFinal ==
  [][\A r \in Run :
       /\ job[r] \in {"completed", "failed", "stopped"} /\ job'[r] # job[r] =>
            job'[r] = "absent" \/ (job[r] = "failed" /\ pc[r] \in Live /\ pc'[r] = "done")
       /\ job[r] # "absent" /\ job'[r] = "absent" => ~\E e \in rows[Owner[r]] : e.run = r
       /\ job[r] = "absent" /\ pc[r] # "idle" => job'[r] = "absent"]_vars

=============================================================================
