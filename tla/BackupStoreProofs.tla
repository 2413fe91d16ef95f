------------------------- MODULE BackupStoreProofs -------------------------
(***************************************************************************)
(* Proofs about BackupStore, for any number of nodes, runs, files, hashes  *)
(* and purgers.                                                            *)
(***************************************************************************)
EXTENDS BackupStore, TLAPS

\* What the program counters say about the positions of the manifest: the type
\* invariant is not inductive without it, because man[r][p] has a type only for
\* a position p of the manifest.
Scoped ==
  \A r \in Run :
    /\ left[r] \subseteq DOMAIN man[r]
    /\ cur[r] # None => cur[r] \in DOMAIN man[r] /\ pc[r] = "upload"
    /\ \A p \in Path : hand[<<r, p>>] # "none" => p \in DOMAIN man[r]
    /\ \A p \in Path : hand[<<r, p>>] = "stored" => ~IsLocal(r)
    /\ pc[r] \in {"idle", "manifest"} =>
         /\ left[r] = {} /\ cur[r] = None
         /\ \A p \in Path : hand[<<r, p>>] = "none"

TypeInv == TypeOK /\ Scoped

\* What a scan finds is a set of paths with a content each.
LEMMA ManifestType ==
  ASSUME NEW m \in Manifest
  PROVE  /\ DOMAIN m \subseteq Path
         /\ \A p \in DOMAIN m : m[p] \in Hash
BY DEF Manifest

\* The entry chosen for a content is one of the manifest.
LEMMA FileForType ==
  ASSUME TypeOK, NEW r \in Run, NEW p \in DOMAIN man[r]
  PROVE  /\ man[r][p] \in Hash /\ p \in Path
         /\ FileFor(r, man[r][p]) \in DOMAIN man[r]
         /\ FileFor(r, man[r][p]) \in Path
<1>1. man[r] \in Manifest
  BY DEF TypeOK
<1>2. man[r][p] \in Hash /\ p \in Path /\ DOMAIN man[r] \subseteq Path
  BY <1>1, ManifestType
<1>3. FileFor(r, man[r][p]) \in DOMAIN man[r]
  BY DEF FileFor
<1> QED
  BY <1>2, <1>3

\* The types hold initially.
LEMMA InitTypeInv == Init => TypeInv
<1> SUFFICES ASSUME Init PROVE TypeInv
  OBVIOUS
<1>1. TypeOK
  BY DEF Init, TypeOK, Idle, Purge, Filter, Entry, Manifest
<1>2. Scoped
  BY DEF Init, Scoped, Key
<1> QED
  BY <1>1, <1>2 DEF TypeInv
\* A step of a backup run, its node or its connection keeps the types.
LEMMA RunStepTypeInv ==
  ASSUME TypeInv, NEW r \in Run, RunStep(r) \/ StopBackup(r) \/ Crash(r)
  PROVE  TypeInv'
<1> USE DEF TypeInv
<1>1. CASE StartBackup(r)
  <2>1. TypeOK'
    <3>1. /\ job' \in [Run -> {"absent", "running", "completed", "failed", "stopped"}]
          /\ pc' \in [Run -> {"idle", "done", "dead"} \cup Live]
      BY <1>1 DEF StartBackup, TypeOK, Live
    <3>2. man' \in [Run -> Manifest] /\ stop' \in [Run -> BOOLEAN]
      BY <1>1 DEF StartBackup, TypeOK
    <3> QED
      BY <1>1, <3>1, <3>2 DEF StartBackup, TypeOK
  <2>2. Scoped'
    BY <1>1, ConstantsAssumption DEF StartBackup, TypeOK, Scoped
  <2> QED
    BY <2>1, <2>2
<1>2. CASE Stopped(r)
  <2>1. TypeOK'
    BY <1>2 DEF Stopped, TypeOK, Fault, FinishJob, MarkAbandoned
  <2>2. Scoped'
    BY <1>2 DEF Stopped, TypeOK, Scoped, FinishJob
  <2> QED
    BY <2>1, <2>2
<1>3. CASE ExchangeFails(r)
  <2>1. TypeOK'
    BY <1>3, ConstantsAssumption, FileForType DEF ExchangeFails, TypeOK, FinishJob
  <2>2. Scoped'
    BY <1>3, ConstantsAssumption DEF ExchangeFails, TypeOK, Scoped, FinishJob
  <2> QED
    BY <2>1, <2>2
<1>4. CASE ExchangeManifest(r)
  <2>1. TypeOK'
    BY <1>4, FileForType DEF ExchangeManifest, TypeOK, Live, Fault
  <2>2. Scoped'
    BY <1>4, FileForType DEF ExchangeManifest, TypeOK, Scoped
  <2> QED
    BY <2>1, <2>2
<1>5. CASE SkipFile(r)
  BY <1>5, ConstantsAssumption, FileForType, ManifestType DEF SkipFile, TypeOK, Scoped, Live, Fault, Mark
<1>6. CASE BeginUpload(r)
  BY <1>6, ConstantsAssumption, FileForType, ManifestType DEF BeginUpload, TypeOK, Scoped, Live, Fault, Key, Mark
<1>7. CASE UploadReturns(r)
  BY <1>7, ConstantsAssumption, FileForType, ManifestType DEF UploadReturns, TypeOK, Scoped, Live, Fault
<1>8. CASE UploadBreaks(r)
  BY <1>8, ConstantsAssumption, FileForType, ManifestType DEF UploadBreaks, TypeOK, Scoped, Live, Fault, Mark
<1>9. CASE UploadsDone(r)
  BY <1>9, ConstantsAssumption, FileForType, ManifestType DEF UploadsDone, TypeOK, Scoped, Live, Fault
<1>10. CASE InsertEntry(r)
  <2>1. TypeOK'
    <3> PICK p \in left[r] :
          /\ AddRow(Owner[r], [run |-> r, path |-> p, hash |-> man[r][p],
                               key |-> meta[r][man[r][p]]])
          /\ left' = [left EXCEPT ![r] = @ \ {p}]
      BY <1>10 DEF InsertEntry
    <3> DEFINE e == [run |-> r, path |-> p, hash |-> man[r][p], key |-> meta[r][man[r][p]]]
    <3>1. e \in Entry
      BY FileForType DEF TypeOK, Scoped, Entry, Key
    <3>2. rows' \in [Node -> SUBSET Entry]
      BY <3>1, ConstantsAssumption DEF AddRow, TypeOK
    <3>3. fault' \in [Hash -> SUBSET Fault]
      BY <3>1 DEF AddRow, Mark, TypeOK, Fault
    <3>4. left' \in [Run -> SUBSET Path]
      BY DEF TypeOK
    <3> QED
      BY <1>10, <3>2, <3>3, <3>4 DEF InsertEntry, TypeOK
  <2>2. Scoped'
    BY <1>10, ConstantsAssumption DEF InsertEntry, TypeOK, Scoped, AddRow
  <2> QED
    BY <2>1, <2>2
<1>11. CASE InsertEntryFails(r)
  BY <1>11, ConstantsAssumption, FileForType, ManifestType DEF InsertEntryFails, TypeOK, Scoped, Live, Fault, Mark
<1>12. CASE Complete(r)
  <2>1. TypeOK'
    BY <1>12, ConstantsAssumption, FileForType DEF Complete, TypeOK, FinishJob
  <2>2. Scoped'
    BY <1>12, ConstantsAssumption DEF Complete, TypeOK, Scoped, FinishJob
  <2> QED
    BY <2>1, <2>2
<1>13. CASE StopBackup(r)
  BY <1>13, ConstantsAssumption, FileForType, ManifestType DEF StopBackup, TypeOK, Scoped, Live, Fault
<1>14. CASE Crash(r)
  <2>1. TypeOK'
    BY <1>14, ConstantsAssumption, FileForType DEF Crash, TypeOK, MarkAbandoned, Fault, Key, Live
  <2>2. Scoped'
    BY <1>14, ConstantsAssumption DEF Crash, TypeOK, Scoped, Key, Live
  <2> QED
    BY <2>1, <2>2
<1> QED
  BY <1>1, <1>2, <1>3, <1>4, <1>5, <1>6, <1>7, <1>8, <1>9, <1>10, <1>11, <1>12, <1>13, <1>14 DEF RunStep

\* A step of an upload handler keeps the types.
LEMMA HandlerStepTypeInv ==
  ASSUME TypeInv, NEW r \in Run, NEW p \in Path, HandlerStep(r, p)
  PROVE  TypeInv'
<1> USE DEF TypeInv
<1>0. hand[<<r, p>>] # "none" => p \in DOMAIN man[r]
  BY DEF Scoped
<1>1. CASE Put(r, p)
  <2>1. TypeOK'
    BY <1>0, <1>1, FileForType DEF Put, TypeOK, Mark, runVars, Key, Fault
  <2>2. Scoped'
    BY <1>0, <1>1 DEF Put, TypeOK, Scoped, runVars, Key
  <2> QED
    BY <2>1, <2>2
<1>2. CASE PutFails(r, p)
  <2>1. TypeOK'
    BY <1>0, <1>2, FileForType DEF PutFails, TypeOK, Mark, runVars, Key, Fault
  <2>2. Scoped'
    BY <1>0, <1>2 DEF PutFails, TypeOK, Scoped, runVars, Key
  <2> QED
    BY <2>1, <2>2
<1>3. CASE InsertRow(r, p)
  <2>1. TypeOK'
    <3> DEFINE h == man[r][p]
               e == [run |-> None, path |-> FileFor(r, h), hash |-> h, key |-> <<r, p>>]
    <3>0. AddRow(Server, e)
      BY <1>3 DEF InsertRow
    <3>1. e \in Entry
      BY <1>0, <1>3, FileForType DEF InsertRow, Entry, Key
    <3>2. rows' \in [Node -> SUBSET Entry]
      BY <3>0, <3>1, ConstantsAssumption DEF AddRow, TypeOK
    <3>3. fault' \in [Hash -> SUBSET Fault]
      BY <3>0, <3>1 DEF AddRow, Mark, TypeOK, Fault
    <3>4. hand' \in [Key -> {"none", "recv", "stored", "acked", "failed"}]
      BY <1>3 DEF InsertRow, TypeOK
    <3> QED
      BY <1>3, <3>2, <3>3, <3>4 DEF InsertRow, TypeOK, runVars
  <2>2. Scoped'
    BY <1>0, <1>3 DEF InsertRow, TypeOK, Scoped, runVars, Key
  <2> QED
    BY <2>1, <2>2
<1>4. CASE InsertRowFails(r, p)
  <2>1. TypeOK'
    BY <1>0, <1>4, FileForType DEF InsertRowFails, TypeOK, Mark, runVars, Key, Fault
  <2>2. Scoped'
    BY <1>0, <1>4 DEF InsertRowFails, TypeOK, Scoped, runVars, Key
  <2> QED
    BY <2>1, <2>2
<1> QED
  BY <1>1, <1>2, <1>3, <1>4 DEF HandlerStep

\* A purger's step leaves everything alone but the rows, the blobs, the jobs,
\* the history and its own state.
LEMMA PurgeStepTypeInv ==
  ASSUME TypeInv, NEW g \in Purger, PurgeStep(g)
  PROVE  TypeInv'
<1> USE DEF TypeInv
<1>a. Idle \in Purge
  BY DEF Idle, Purge, Filter
<1>b. ASSUME NEW x \in Purge, Set(g, x) PROVE purge' \in [Purger -> Purge]
  BY <1>b DEF Set, TypeOK
<1>c. purge[g] \in Purge /\ PurgeNode[g] \in Node
  BY ConstantsAssumption DEF TypeOK
<1>d. ASSUME NEW D, NEW L, NEW n \in Node, DropRows(n, D, L)
      PROVE rows' \in [Node -> SUBSET Entry] /\ fault' \in [Hash -> SUBSET Fault]
  BY <1>d DEF DropRows, TypeOK, Fault
<1>s. ASSUME UNCHANGED <<runVars, hand>> PROVE Scoped'
  BY <1>s DEF Scoped, runVars
<1>1. CASE BeginEvaluate(g)
  <2>1. TypeOK'
    <3>1. PICK p \in Path :
            \E V \in SUBSET {e \in rows[PurgeNode[g]] : e.path = p} :
              V # {} /\ Set(g, [Idle EXCEPT !.st = "check", !.victims = V])
      BY <1>1 DEF BeginEvaluate
    <3>2. PICK V \in SUBSET rows[PurgeNode[g]] :
            Set(g, [Idle EXCEPT !.st = "check", !.victims = V])
      BY <3>1
    <3>3. [Idle EXCEPT !.st = "check", !.victims = V] \in Purge
      BY <1>c, <3>2 DEF TypeOK, Idle, Purge, Filter
    <3>4. purge' \in [Purger -> Purge]
      BY <1>b, <3>2, <3>3
    <3> QED
      BY <1>1, <3>4 DEF BeginEvaluate, TypeOK, runVars
  <2>2. Scoped'
    BY <1>1, <1>s DEF BeginEvaluate
  <2> QED
    BY <2>1, <2>2
<1>2. CASE DeleteEntryByID(g)
  <2>1. TypeOK'
    <3>1. PICK e \in purge[g].victims :
            /\ DropRows(PurgeNode[g], {e}, {})
            /\ Set(g, [purge[g] EXCEPT !.victims = @ \ {e}, !.hashes = {e.hash}])
      BY <1>2 DEF DeleteEntryByID
    <3>2. [purge[g] EXCEPT !.victims = @ \ {e}, !.hashes = {e.hash}] \in Purge
      BY <1>c DEF Purge, Entry
    <3>3. purge' \in [Purger -> Purge]
      BY <1>b, <3>1, <3>2
    <3>4. rows' \in [Node -> SUBSET Entry] /\ fault' \in [Hash -> SUBSET Fault]
      BY <1>c, <1>d, <3>1
    <3> QED
      BY <1>2, <3>3, <3>4 DEF DeleteEntryByID, TypeOK, runVars
  <2>2. Scoped'
    BY <1>2, <1>s DEF DeleteEntryByID
  <2> QED
    BY <2>1, <2>2
<1>3. CASE EvaluateDone(g)
  <2>1. TypeOK'
    BY <1>3, <1>a, <1>b DEF EvaluateDone, TypeOK, runVars
  <2>2. Scoped'
    BY <1>3, <1>s DEF EvaluateDone
  <2> QED
    BY <2>1, <2>2
<1>4. CASE QueryEntries(g)
  <2>1. TypeOK'
    <3>1. PICK f \in Filter :
            Set(g, [Idle EXCEPT !.st = "query", !.filter = f,
                      !.hashes = {e.hash : e \in Matching(PurgeNode[g], f)}])
      BY <1>4 DEF QueryEntries
    <3>2. {e.hash : e \in Matching(PurgeNode[g], f)} \in SUBSET Hash
      BY <1>c DEF Matching, TypeOK, Entry
    <3>3. [Idle EXCEPT !.st = "query", !.filter = f,
             !.hashes = {e.hash : e \in Matching(PurgeNode[g], f)}] \in Purge
      BY <1>a, <3>2 DEF Idle, Purge
    <3>4. purge' \in [Purger -> Purge]
      BY <1>b, <3>1, <3>3
    <3> QED
      BY <1>4, <3>4 DEF QueryEntries, TypeOK, runVars
  <2>2. Scoped'
    BY <1>4, <1>s DEF QueryEntries
  <2> QED
    BY <2>1, <2>2
<1>5. CASE DeleteEntries(g)
  <2>1. TypeOK'
    <3>1. [purge[g] EXCEPT !.st = "check"] \in Purge
      BY <1>c DEF Purge
    <3>2. purge' \in [Purger -> Purge]
      BY <1>5, <1>b, <3>1 DEF DeleteEntries
    <3>3. rows' \in [Node -> SUBSET Entry] /\ fault' \in [Hash -> SUBSET Fault]
      BY <1>5, <1>c, <1>d DEF DeleteEntries
    <3> QED
      BY <1>5, <3>2, <3>3 DEF DeleteEntries, TypeOK, runVars
  <2>2. Scoped'
    BY <1>5, <1>s DEF DeleteEntries
  <2> QED
    BY <2>1, <2>2
<1>6. CASE CountReferences(g)
  <2>1. TypeOK'
    <3>1. PICK h \in purge[g].hashes :
            Set(g, IF Referenced(PurgeNode[g], h)
                   THEN [purge[g] EXCEPT !.hashes = @ \ {h}]
                   ELSE [purge[g] EXCEPT !.st = "delete", !.cur = {h}])
      BY <1>6 DEF CountReferences
    <3>2. /\ [purge[g] EXCEPT !.hashes = @ \ {h}] \in Purge
          /\ [purge[g] EXCEPT !.st = "delete", !.cur = {h}] \in Purge
      BY <1>c DEF Purge
    <3>3. purge' \in [Purger -> Purge]
      BY <1>b, <3>1, <3>2
    <3> QED
      BY <1>6, <3>3 DEF CountReferences, TypeOK, runVars
  <2>2. Scoped'
    BY <1>6, <1>s DEF CountReferences
  <2> QED
    BY <2>1, <2>2
<1>7. CASE DeleteBlob(g)
  <2>1. TypeOK'
    <3>1. [purge[g] EXCEPT !.st = "check", !.hashes = @ \ purge[g].cur, !.cur = {}] \in Purge
      BY <1>c DEF Purge
    <3>2. purge' \in [Purger -> Purge]
      BY <1>7, <1>b, <3>1 DEF DeleteBlob
    <3>3. blob' \in [Hash -> Key \cup {None}]
      BY <1>7 DEF DeleteBlob, TypeOK
    <3>4. PICK h \in purge[g].cur, F \in SUBSET Fault : Mark(h, F)
      BY <1>7 DEF DeleteBlob, Fault
    <3>5. fault' \in [Hash -> SUBSET Fault]
      BY <3>4 DEF Mark, TypeOK
    <3> QED
      BY <1>7, <3>2, <3>3, <3>5 DEF DeleteBlob, TypeOK, runVars
  <2>2. Scoped'
    BY <1>7, <1>s DEF DeleteBlob
  <2> QED
    BY <2>1, <2>2
<1>8. CASE DeleteOrphanJobs(g)
  <2>1. TypeOK'
    <3>1. purge' \in [Purger -> Purge]
      BY <1>8, <1>a, <1>b DEF DeleteOrphanJobs
    <3>2. job' \in [Run -> {"absent", "running", "completed", "failed", "stopped"}]
      BY <1>8 DEF DeleteOrphanJobs, TypeOK
    <3> QED
      BY <1>8, <3>1, <3>2 DEF DeleteOrphanJobs, TypeOK, runVars
  <2>2. Scoped'
    BY <1>8, <1>s DEF DeleteOrphanJobs
  <2> QED
    BY <2>1, <2>2
<1>9. CASE PurgeAborts(g)
  <2>1. TypeOK'
    <3>1. purge' \in [Purger -> Purge]
      BY <1>9, <1>a, <1>b DEF PurgeAborts
    <3>2. fault' \in [Hash -> SUBSET Fault]
      BY <1>9 DEF PurgeAborts, TypeOK, Fault
    <3> QED
      BY <1>9, <3>1, <3>2 DEF PurgeAborts, TypeOK, runVars
  <2>2. Scoped'
    BY <1>9, <1>s DEF PurgeAborts
  <2> QED
    BY <2>1, <2>2
<1> QED
  BY <1>1, <1>2, <1>3, <1>4, <1>5, <1>6, <1>7, <1>8, <1>9 DEF PurgeStep

\* The recovery of stale jobs keeps the types.
LEMMA FailStaleJobsTypeInv ==
  ASSUME TypeInv, NEW n \in Node, FailStaleJobs(n)
  PROVE  TypeInv'
BY DEF TypeInv, FailStaleJobs, TypeOK, Scoped

\* Every step keeps the types.
LEMMA NextTypeInv == TypeInv /\ [Next]_vars => TypeInv'
<1> SUFFICES ASSUME TypeInv, [Next]_vars PROVE TypeInv'
  OBVIOUS
<1>1. CASE Next
  BY <1>1, RunStepTypeInv, HandlerStepTypeInv, PurgeStepTypeInv, FailStaleJobsTypeInv
     DEF Next
<1>2. CASE UNCHANGED vars
  BY <1>2 DEF vars, TypeInv, TypeOK, Scoped
<1> QED
  BY <1>1, <1>2

\* Type correctness of the storage core, with the ranges of its program counters.
THEOREM TypeCorrect == Spec => []TypeOK
<1>1. TypeInv => TypeOK
  BY DEF TypeInv
<1> QED
  BY InitTypeInv, NextTypeInv, <1>1, PTL DEF Spec

-----------------------------------------------------------------------------
(* Rows and blobs. *)

Excused(h) == fault[h] \cap {"raced", "upload"} # {}

\* A purger about to delete a blob counted zero rows; a row written since then
\* is on record as raced.
CondemnedUnreferenced ==
  \A g \in Purger :
    PurgeNode[g] = Server /\ purge[g].st = "delete" =>
      \A h \in purge[g].cur : Referenced(Server, h) => "raced" \in fault[h]

\* A handler about to write its row finds the blob it has stored.
StoredHasBlob ==
  \A r \in Run, p \in Path :
    hand[<<r, p>>] = "stored" => \/ blob[man[r][p]] # None
                                 \/ "raced" \in fault[man[r][p]]

\* What a hybrid node's run relies on while it uploads and records: a hash is in
\* the store, or one of its files is still to be uploaded, or it is excused.
UploadAnswered ==
  \A r \in Run, p \in Path :
    IsLocal(r) /\ pc[r] = "upload" =>
      /\ hand[<<r, p>>] = "acked" => blob[man[r][p]] # None \/ Excused(man[r][p])
      /\ hand[<<r, p>>] = "failed" => Excused(man[r][p])

RunCovered ==
  \A r \in Run : \A h \in Hash :
    IsLocal(r) /\ RunPending(r, h) =>
      \/ blob[h] # None
      \/ Excused(h)
      \/ pc[r] = "upload" /\ \E q \in left[r] : man[r][q] = h

StoreInv ==
  /\ TypeInv
  /\ CondemnedUnreferenced
  /\ StoredHasBlob
  /\ UploadAnswered
  /\ RunCovered
  /\ UploadedRowHasBlob
  /\ LocalEntryHasBlob

\* The store is empty initially.
LEMMA InitStoreInv == Init => StoreInv
<1> SUFFICES ASSUME Init PROVE StoreInv
  OBVIOUS
<1>1. TypeInv
  BY InitTypeInv
<1>2. CondemnedUnreferenced
  BY DEF Init, CondemnedUnreferenced, Idle
<1>3. StoredHasBlob /\ UploadAnswered /\ RunCovered
  BY DEF Init, StoredHasBlob, UploadAnswered, RunCovered, RunPending, Key
<1>4. UploadedRowHasBlob /\ LocalEntryHasBlob
  BY ConstantsAssumption DEF Init, UploadedRowHasBlob, LocalEntryHasBlob
<1> QED
  BY <1>1, <1>2, <1>3, <1>4 DEF StoreInv

FaultGrows == \A h \in Hash : fault[h] \subseteq fault'[h]

\* The history is never rewritten.
LEMMA FaultGrowing ==
  ASSUME TypeInv, [Next]_vars
  PROVE  FaultGrows
<1> USE DEF FaultGrows, TypeInv, TypeOK
<1>1. ASSUME UNCHANGED fault PROVE FaultGrows
  BY <1>1
<1>2. ASSUME NEW h, NEW F, Mark(h, F) PROVE FaultGrows
  BY <1>2 DEF Mark
<1>3. ASSUME NEW r \in Run, RunStep(r) \/ StopBackup(r) \/ Crash(r) PROVE FaultGrows
  <2>1. CASE StartBackup(r) \/ ExchangeFails(r) \/ UploadReturns(r)
             \/ UploadsDone(r) \/ Complete(r) \/ StopBackup(r)
    BY <1>1, <2>1 DEF StartBackup, ExchangeFails, UploadReturns,
                      UploadsDone, Complete, StopBackup
  <2>2. CASE Stopped(r) \/ Crash(r)
    BY <2>2 DEF Stopped, Crash, MarkAbandoned
  <2>3. CASE ExchangeManifest(r)
    BY <2>3 DEF ExchangeManifest
  <2>4. CASE SkipFile(r) \/ BeginUpload(r) \/ UploadBreaks(r) \/ InsertEntryFails(r)
    BY <1>2, <2>4 DEF SkipFile, BeginUpload, UploadBreaks, InsertEntryFails
  <2>5. CASE InsertEntry(r)
    BY <1>2, <2>5 DEF InsertEntry, AddRow
  <2> QED
    BY <1>3, <2>1, <2>2, <2>3, <2>4, <2>5 DEF RunStep
<1>4. ASSUME NEW r \in Run, NEW p \in Path, HandlerStep(r, p) PROVE FaultGrows
  BY <1>2, <1>4 DEF HandlerStep, Put, PutFails, InsertRow, InsertRowFails, AddRow
<1>5. ASSUME NEW g \in Purger, PurgeStep(g) PROVE FaultGrows
  <2>1. CASE BeginEvaluate(g) \/ EvaluateDone(g) \/ QueryEntries(g)
             \/ CountReferences(g) \/ DeleteOrphanJobs(g)
    BY <1>1, <2>1 DEF BeginEvaluate, EvaluateDone, QueryEntries, CountReferences,
                      DeleteOrphanJobs
  <2>2. CASE DeleteEntryByID(g) \/ DeleteEntries(g)
    <3>1. ASSUME NEW n, NEW D, NEW L, DropRows(n, D, L) PROVE FaultGrows
      BY <3>1 DEF DropRows
    <3> QED
      BY <2>2, <3>1 DEF DeleteEntryByID, DeleteEntries
  <2>3. CASE DeleteBlob(g)
    BY <1>2, <2>3 DEF DeleteBlob
  <2>4. CASE PurgeAborts(g)
    BY <2>4 DEF PurgeAborts
  <2> QED
    BY <1>5, <2>1, <2>2, <2>3, <2>4 DEF PurgeStep
<1>6. ASSUME NEW n \in Node, FailStaleJobs(n) PROVE FaultGrows
  BY <1>1, <1>6 DEF FailStaleJobs
<1>7. CASE UNCHANGED vars
  BY <1>1, <1>7 DEF vars
<1> QED
  BY <1>3, <1>4, <1>5, <1>6, <1>7 DEF Next

\* What each conjunct depends on: a step that leaves it alone keeps the conjunct.
LEMMA Frame ==
  ASSUME StoreInv, FaultGrows
  PROVE  /\ UNCHANGED <<rows, purge>> => CondemnedUnreferenced'
         /\ UNCHANGED <<blob, hand, man>> => StoredHasBlob'
         /\ UNCHANGED <<blob, hand, man, pc>> => UploadAnswered'
         /\ UNCHANGED <<blob, man, pc, left>> => RunCovered'
         /\ UNCHANGED <<blob, rows>> => UploadedRowHasBlob' /\ LocalEntryHasBlob'
<1> USE DEF StoreInv, TypeInv, FaultGrows
<1>1. ASSUME NEW r \in Run, NEW p \in Path, hand[<<r, p>>] # "none"
      PROVE  man[r][p] \in Hash
  BY <1>1, FileForType DEF Scoped
<1>2. \A e \in rows[Server] : e.hash \in Hash
  BY ConstantsAssumption DEF TypeOK, Entry
<1>3. \A g \in Purger : purge[g].cur \subseteq Hash
  BY DEF TypeOK, Purge
<1>4. UNCHANGED <<rows, purge>> => CondemnedUnreferenced'
  BY <1>3 DEF CondemnedUnreferenced, Referenced
<1>5. UNCHANGED <<blob, hand, man>> => StoredHasBlob'
  BY <1>1 DEF StoredHasBlob
<1>6. UNCHANGED <<blob, hand, man, pc>> => UploadAnswered'
  BY <1>1 DEF UploadAnswered, Excused
<1>7. UNCHANGED <<blob, man, pc, left>> => RunCovered'
  BY DEF RunCovered, RunPending, Excused
<1>8. UNCHANGED <<blob, rows>> => UploadedRowHasBlob' /\ LocalEntryHasBlob'
  BY <1>2 DEF UploadedRowHasBlob, LocalEntryHasBlob
<1> QED
  BY <1>4, <1>5, <1>6, <1>7, <1>8

\* A step of a backup run keeps rows and blobs together.
LEMMA RunStepStoreInv ==
  ASSUME StoreInv, FaultGrows, TypeInv', NEW r \in Run,
         RunStep(r) \/ StopBackup(r) \/ Crash(r)
  PROVE  StoreInv'
<1> USE DEF StoreInv, TypeInv
<1>f. \A h \in Hash : Excused(h) => Excused(h)'
  BY DEF FaultGrows, Excused
<1>m. \A p \in DOMAIN man[r] : man[r][p] \in Hash /\ p \in Path
  BY FileForType
<1>t. \A q \in Run, p \in Path : hand[<<q, p>>] # "none" => man[q][p] \in Hash
  BY FileForType DEF Scoped
\* A run that is neither uploading nor recording any more, or not yet.
<1>a. ASSUME UNCHANGED <<blob, rows, hand, left, purge>>,
             \A q \in Run \ {r} : man'[q] = man[q] /\ pc'[q] = pc[q],
             pc'[r] \notin {"upload", "entries"},
             man'[r] = man[r] \/ pc[r] = "idle"
      PROVE  StoreInv'
  <2>1. CondemnedUnreferenced' /\ UploadedRowHasBlob' /\ LocalEntryHasBlob'
    BY <1>a, Frame
  <2>2. StoredHasBlob'
    BY <1>a, <1>t DEF StoredHasBlob, Scoped, FaultGrows
  <2>3. UploadAnswered'
    BY <1>a, <1>f, <1>t DEF UploadAnswered
  <2>4. RunCovered'
    BY <1>a, <1>f DEF RunCovered, RunPending
  <2> QED
    BY <2>1, <2>2, <2>3, <2>4
\* A step of r's upload or entry loop: only r's own pending hashes can matter.
<1>o. ASSUME UNCHANGED <<blob, man>>,
             \A q \in Run \ {r} : pc'[q] = pc[q] /\ left'[q] = left[q],
             \A h \in Hash : IsLocal(r) /\ RunPending(r, h)' =>
                \/ blob[h] # None
                \/ Excused(h)'
                \/ pc'[r] = "upload" /\ \E q \in left'[r] : man[r][q] = h
      PROVE  RunCovered'
  BY <1>o, <1>f DEF RunCovered, RunPending, IsLocal
<1>1. CASE StartBackup(r)
  BY <1>1, <1>a DEF StartBackup, TypeOK
<1>2. CASE Stopped(r) \/ ExchangeFails(r) \/ Complete(r)
  BY <1>2, <1>a DEF Stopped, ExchangeFails, Complete, FinishJob, TypeOK
<1>3. CASE Crash(r)
  <2>1. CondemnedUnreferenced' /\ UploadedRowHasBlob' /\ LocalEntryHasBlob'
    BY <1>3, Frame DEF Crash
  <2>2. StoredHasBlob'
    BY <1>3, <1>t DEF Crash, StoredHasBlob, FaultGrows, TypeOK, Key
  <2>3. UploadAnswered'
    BY <1>3, <1>f, <1>t DEF Crash, UploadAnswered, TypeOK, Key
  <2>4. RunCovered'
    BY <1>3, <1>f DEF Crash, RunCovered, RunPending, TypeOK
  <2> QED
    BY <2>1, <2>2, <2>3, <2>4
<1>4. CASE ExchangeManifest(r)
  <2>1. /\ CondemnedUnreferenced' /\ UploadedRowHasBlob' /\ LocalEntryHasBlob'
        /\ StoredHasBlob'
    BY <1>4, Frame DEF ExchangeManifest
  <2>2. UploadAnswered'
    BY <1>4, <1>f, <1>t DEF ExchangeManifest, UploadAnswered, Scoped, TypeOK
  <2>3. RunCovered'
    <3>1. ASSUME NEW h \in Hash, IsLocal(r), RunPending(r, h)'
          PROVE  blob[h] # None \/ \E q \in left'[r] : man[r][q] = h
      <4>1. PICK p \in DOMAIN man[r] : man[r][p] = h
        BY <1>4, <3>1 DEF ExchangeManifest, RunPending, TypeOK
      <4>2. CASE blob[h] = None
        <5>1. FileFor(r, h) \in left'[r]
          BY <1>4, <3>1, <4>1, <4>2 DEF ExchangeManifest, TypeOK
        <5>2. man[r][FileFor(r, h)] = h
          BY <4>1 DEF FileFor
        <5> QED
          BY <5>1, <5>2
      <4> QED
        BY <4>2
    <3>2. pc'[r] = "upload" /\ UNCHANGED <<blob, man>>
      BY <1>4 DEF ExchangeManifest, TypeOK
    <3>3. \A q \in Run \ {r} : pc'[q] = pc[q] /\ left'[q] = left[q]
      BY <1>4 DEF ExchangeManifest, TypeOK
    <3> QED
      BY <1>f, <3>1, <3>2, <3>3 DEF RunCovered, RunPending, IsLocal
  <2> QED
    BY <2>1, <2>2, <2>3
<1>5. CASE SkipFile(r)
  <2>1. /\ CondemnedUnreferenced' /\ UploadedRowHasBlob' /\ LocalEntryHasBlob'
        /\ StoredHasBlob' /\ UploadAnswered'
    BY <1>5, Frame DEF SkipFile
  <2>2. RunCovered'
    <3>1. PICK p \in left[r] : /\ left' = [left EXCEPT ![r] = @ \ {p}]
                               /\ Mark(man[r][p], {"upload"})
      BY <1>5 DEF SkipFile
    <3>2. Excused(man[r][p])'
      <4>1. man[r][p] \in Hash
        BY <1>m DEF Scoped
      <4>2. "upload" \in fault'[man[r][p]]
        BY <3>1, <4>1 DEF Mark, TypeOK
      <4> QED
        BY <1>5, <4>2 DEF SkipFile, Excused
    <3>3. \A q \in left[r] : q = p \/ q \in left'[r]
      BY <3>1 DEF TypeOK
    <3>4. UNCHANGED <<blob, man, pc>> /\ pc[r] = "upload"
      BY <1>5 DEF SkipFile
    <3>5. \A h \in Hash : IsLocal(r) /\ RunPending(r, h)' =>
             \/ blob[h] # None
             \/ Excused(h)'
             \/ pc'[r] = "upload" /\ \E q \in left'[r] : man[r][q] = h
      BY <1>f, <3>2, <3>3, <3>4 DEF RunCovered, RunPending
    <3> QED
      BY <1>o, <3>1, <3>4, <3>5 DEF TypeOK
  <2> QED
    BY <2>1, <2>2
<1>6. CASE BeginUpload(r)
  <2>1. /\ CondemnedUnreferenced' /\ UploadedRowHasBlob' /\ LocalEntryHasBlob'
        /\ RunCovered'
    BY <1>6, Frame DEF BeginUpload
  <2>2. StoredHasBlob'
    BY <1>6, <1>t DEF BeginUpload, StoredHasBlob, FaultGrows, TypeOK, Key
  <2>3. UploadAnswered'
    BY <1>6, <1>f, <1>t DEF BeginUpload, UploadAnswered, TypeOK, Key
  <2> QED
    BY <2>1, <2>2, <2>3
<1>7. CASE UploadReturns(r)
  <2>1. /\ CondemnedUnreferenced' /\ UploadedRowHasBlob' /\ LocalEntryHasBlob'
        /\ StoredHasBlob' /\ UploadAnswered'
    BY <1>7, Frame DEF UploadReturns
  <2>2. ASSUME IsLocal(r)
        PROVE  blob[man[r][cur[r]]] # None \/ Excused(man[r][cur[r]])
    BY <1>7, <1>m, <2>2 DEF UploadReturns, UploadAnswered, Scoped
  <2>3. RunCovered'
    BY <1>7, <1>f, <2>2 DEF UploadReturns, RunCovered, RunPending, TypeOK
  <2> QED
    BY <2>1, <2>3
<1>8. CASE UploadBreaks(r)
  <2>1. /\ CondemnedUnreferenced' /\ UploadedRowHasBlob' /\ LocalEntryHasBlob'
        /\ StoredHasBlob' /\ UploadAnswered'
    BY <1>8, Frame DEF UploadBreaks
  <2>2. RunCovered'
    BY <1>8, <1>f DEF UploadBreaks, RunCovered, RunPending, IsLocal, TypeOK
  <2> QED
    BY <2>1, <2>2
<1>9. CASE UploadsDone(r)
  <2>1. /\ CondemnedUnreferenced' /\ UploadedRowHasBlob' /\ LocalEntryHasBlob'
        /\ StoredHasBlob'
    BY <1>9, Frame DEF UploadsDone
  <2>2. UploadAnswered'
    BY <1>9, <1>f, <1>t DEF UploadsDone, UploadAnswered, TypeOK
  <2>3. RunCovered'
    <3>1. \A h \in Hash : RunPending(r, h)' => RunPending(r, h)
      BY <1>9 DEF UploadsDone, RunPending, TypeOK
    <3>2. \A h \in Hash : IsLocal(r) /\ RunPending(r, h)' => blob[h] # None \/ Excused(h)'
      BY <1>9, <1>f, <3>1 DEF UploadsDone, RunCovered
    <3> QED
      BY <1>9, <1>o, <3>2 DEF UploadsDone, TypeOK
  <2> QED
    BY <2>1, <2>2, <2>3
<1>10. CASE InsertEntry(r)
  <2> PICK p \in left[r] :
        /\ AddRow(Owner[r], [run |-> r, path |-> p, hash |-> man[r][p],
                             key |-> meta[r][man[r][p]]])
        /\ left' = [left EXCEPT ![r] = @ \ {p}]
    BY <1>10 DEF InsertEntry
  <2> DEFINE e == [run |-> r, path |-> p, hash |-> man[r][p], key |-> meta[r][man[r][p]]]
  <2>1. StoredHasBlob' /\ UploadAnswered'
    BY <1>10, Frame DEF InsertEntry
  <2>2. RunCovered'
    <3>1. \A h \in Hash : RunPending(r, h)' => RunPending(r, h)
      BY <1>10 DEF InsertEntry, RunPending, TypeOK
    <3>2. \A h \in Hash : IsLocal(r) /\ RunPending(r, h)' => blob[h] # None \/ Excused(h)'
      BY <1>10, <1>f, <3>1 DEF InsertEntry, RunCovered
    <3> QED
      BY <1>10, <1>o, <3>2 DEF InsertEntry, TypeOK
  <2>3. rows'[Server] = IF IsLocal(r) THEN rows[Server] \cup {e} ELSE rows[Server]
    BY ConstantsAssumption DEF AddRow, IsLocal, TypeOK
  <2>4. e.hash \in Hash /\ e.run # None
    BY <1>m, ConstantsAssumption DEF Scoped
  <2>5. ASSUME IsLocal(r) PROVE blob[e.hash] # None \/ Excused(e.hash)'
    BY <1>10, <1>f, <2>4, <2>5 DEF InsertEntry, RunCovered, RunPending
  <2>6. IsLocal(r) /\ Condemned(e.hash) => "raced" \in fault'[e.hash]
    BY <2>4 DEF AddRow, Mark, IsLocal, TypeOK
  <2>7. CondemnedUnreferenced'
    <3>1. \A g \in Purger : purge[g].cur \subseteq Hash
      BY DEF TypeOK, Purge
    <3> QED
      BY <1>10, <2>3, <2>6, <3>1
      DEF InsertEntry, CondemnedUnreferenced, Referenced, Condemned, FaultGrows
  <2>8. LocalEntryHasBlob' /\ UploadedRowHasBlob'
    <3>1. \A x \in rows[Server] : x.hash \in Hash
      BY ConstantsAssumption DEF TypeOK, Entry
    <3> QED
      BY <1>10, <2>3, <2>4, <2>5, <3>1
      DEF InsertEntry, LocalEntryHasBlob, UploadedRowHasBlob, Excused, FaultGrows
  <2> QED
    BY <2>1, <2>2, <2>7, <2>8
<1>11. CASE InsertEntryFails(r)
  <2>1. /\ CondemnedUnreferenced' /\ UploadedRowHasBlob' /\ LocalEntryHasBlob'
        /\ StoredHasBlob' /\ UploadAnswered'
    BY <1>11, Frame DEF InsertEntryFails
  <2>2. RunCovered'
    <3>1. \A h \in Hash : RunPending(r, h)' => RunPending(r, h)
      BY <1>11 DEF InsertEntryFails, RunPending, TypeOK
    <3>2. \A h \in Hash : IsLocal(r) /\ RunPending(r, h)' => blob[h] # None \/ Excused(h)'
      BY <1>11, <1>f, <3>1 DEF InsertEntryFails, RunCovered
    <3> QED
      BY <1>11, <1>o, <3>2 DEF InsertEntryFails, TypeOK
  <2> QED
    BY <2>1, <2>2
<1>12. CASE StopBackup(r)
  BY <1>12, Frame DEF StopBackup
<1> QED
  BY <1>1, <1>2, <1>3, <1>4, <1>5, <1>6, <1>7, <1>8, <1>9, <1>10, <1>11, <1>12
     DEF RunStep

\* A step of an upload handler keeps rows and blobs together.
LEMMA HandlerStepStoreInv ==
  ASSUME StoreInv, FaultGrows, TypeInv', NEW r \in Run, NEW p \in Path, HandlerStep(r, p)
  PROVE  StoreInv'
<1> USE DEF StoreInv, TypeInv
<1>f. \A h \in Hash : Excused(h) => Excused(h)'
  BY DEF FaultGrows, Excused
<1>t. \A q \in Run, x \in Path : hand[<<q, x>>] # "none" => man[q][x] \in Hash
  BY FileForType DEF Scoped
<1>e. \A x \in rows[Server] : x.hash \in Hash
  BY ConstantsAssumption DEF TypeOK, Entry
<1>1. CASE Put(r, p)
  <2>1. /\ blob' = [blob EXCEPT ![man[r][p]] = <<r, p>>]
        /\ hand' = [hand EXCEPT ![<<r, p>>] = IF IsLocal(r) THEN "acked" ELSE "stored"]
        /\ UNCHANGED <<rows, man, pc, left, purge>>
    BY <1>1 DEF Put, runVars
  <2>2. \A h \in Hash : blob'[h] # None \/ blob'[h] = blob[h]
    BY <2>1, ConstantsAssumption DEF TypeOK
  <2>3. man[r][p] \in Hash /\ blob'[man[r][p]] # None
    BY <1>1, <1>t, <2>1, ConstantsAssumption DEF Put, TypeOK
  <2>4. CondemnedUnreferenced'
    BY <2>1, Frame
  <2>5. StoredHasBlob'
    BY <1>t, <2>1, <2>2, <2>3 DEF StoredHasBlob, FaultGrows, TypeOK, Key
  <2>6. UploadAnswered'
    <3>1. \A q \in Run, x \in Path : <<q, x>> \in Key
      BY DEF Key
    <3>2. \A k \in Key : \/ hand'[k] = hand[k]
                         \/ k = <<r, p>> /\ hand'[k] \in {"acked", "stored"}
      BY <2>1 DEF TypeOK
    <3>3. \A h \in Hash : blob[h] # None => blob'[h] # None
      BY <2>2
    <3>4. \A q \in Run, x \in Path : man[q][x] = man'[q][x] /\ pc'[q] = pc[q]
      BY <2>1
    <3>5. \A q \in Run, x \in Path :
            IsLocal(q) /\ pc[q] = "upload" /\ hand'[<<q, x>>] = "acked"
              => blob'[man[q][x]] # None \/ Excused(man[q][x])'
      BY <1>f, <1>t, <2>1, <2>3, <3>1, <3>2, <3>3 DEF UploadAnswered
    <3>6. \A q \in Run, x \in Path :
            IsLocal(q) /\ pc[q] = "upload" /\ hand'[<<q, x>>] = "failed"
              => Excused(man[q][x])'
      BY <1>f, <1>t, <2>1, <3>1, <3>2 DEF UploadAnswered
    <3> QED
      BY <2>1, <3>5, <3>6 DEF UploadAnswered, IsLocal
  <2>7. RunCovered'
    BY <1>f, <2>1, <2>2 DEF RunCovered, RunPending
  <2>8. UploadedRowHasBlob' /\ LocalEntryHasBlob'
    BY <1>e, <2>1, <2>2 DEF UploadedRowHasBlob, LocalEntryHasBlob, FaultGrows
  <2> QED
    BY <2>4, <2>5, <2>6, <2>7, <2>8
<1>2. CASE PutFails(r, p)
  <2>1. /\ hand' = [hand EXCEPT ![<<r, p>>] = "failed"]
        /\ UNCHANGED <<blob, rows, man, pc, left, purge>>
    BY <1>2 DEF PutFails, runVars
  <2>2. Excused(man[r][p])'
    BY <1>2, <1>t DEF PutFails, Mark, Excused, TypeOK, runVars
  <2>3. /\ CondemnedUnreferenced' /\ RunCovered'
        /\ UploadedRowHasBlob' /\ LocalEntryHasBlob'
    BY <2>1, Frame
  <2>4. StoredHasBlob'
    BY <1>t, <2>1 DEF StoredHasBlob, FaultGrows, TypeOK, Key
  <2>5. UploadAnswered'
    <3>1. \A k \in Key : k # <<r, p>> => hand'[k] = hand[k]
      BY <2>1 DEF TypeOK
    <3>2. \A q \in Run, x \in Path : <<q, x>> \in Key
      BY DEF Key
    <3> QED
      BY <1>f, <1>t, <2>1, <2>2, <3>1, <3>2 DEF UploadAnswered, IsLocal
  <2> QED
    BY <2>3, <2>4, <2>5
<1>3. CASE InsertRow(r, p)
  <2> DEFINE h == man[r][p]
             e == [run |-> None, path |-> FileFor(r, h), hash |-> h, key |-> <<r, p>>]
  <2>1. /\ AddRow(Server, e)
        /\ hand[<<r, p>>] = "stored"
        /\ UNCHANGED <<blob, man, pc, left, purge>>
        /\ \A k \in Key : hand'[k] = hand[k] \/ (k = <<r, p>> /\ hand'[k] \in {"acked", "failed"})
    BY <1>3 DEF InsertRow, runVars, TypeOK
  <2>2. h \in Hash /\ ~IsLocal(r) /\ rows'[Server] = rows[Server] \cup {e}
    BY <1>t, <2>1, ConstantsAssumption DEF Scoped, AddRow, TypeOK
  <2>3. blob[h] # None \/ "raced" \in fault[h]
    BY <2>1 DEF StoredHasBlob
  <2>4. Condemned(h) => "raced" \in fault'[h]
    BY <2>1, <2>2 DEF AddRow, Mark, TypeOK
  <2>5. CondemnedUnreferenced'
    <3>1. \A g \in Purger : purge[g].cur \subseteq Hash
      BY DEF TypeOK, Purge
    <3> QED
      BY <2>1, <2>2, <2>4, <3>1
      DEF CondemnedUnreferenced, Referenced, Condemned, FaultGrows
  <2>6. StoredHasBlob'
    BY <1>t, <2>1 DEF StoredHasBlob, FaultGrows, Key
  <2>7. UploadAnswered'
    BY <1>f, <1>t, <2>1, <2>2 DEF UploadAnswered, Key, IsLocal
  <2>8. RunCovered'
    BY <2>1, Frame
  <2>9. UploadedRowHasBlob' /\ LocalEntryHasBlob'
    BY <1>e, <2>1, <2>2, <2>3 DEF UploadedRowHasBlob, LocalEntryHasBlob, FaultGrows
  <2> QED
    BY <2>5, <2>6, <2>7, <2>8, <2>9
<1>4. CASE InsertRowFails(r, p)
  <2>1. /\ hand[<<r, p>>] = "stored"
        /\ hand' = [hand EXCEPT ![<<r, p>>] = "failed"]
        /\ UNCHANGED <<blob, rows, man, pc, left, purge>>
    BY <1>4 DEF InsertRowFails, runVars
  <2>2. /\ CondemnedUnreferenced' /\ RunCovered'
        /\ UploadedRowHasBlob' /\ LocalEntryHasBlob'
    BY <2>1, Frame
  <2>3. StoredHasBlob'
    BY <1>t, <2>1 DEF StoredHasBlob, FaultGrows, TypeOK, Key
  <2>4. UploadAnswered'
    BY <1>f, <1>t, <2>1 DEF UploadAnswered, Scoped, IsLocal, TypeOK, Key
  <2> QED
    BY <2>2, <2>3, <2>4
<1> QED
  BY <1>1, <1>2, <1>3, <1>4 DEF HandlerStep

\* A step of a deletion or purge keeps them together, or its window is on record.
LEMMA PurgeStepStoreInv ==
  ASSUME StoreInv, FaultGrows, TypeInv', NEW g \in Purger, PurgeStep(g)
  PROVE  StoreInv'
<1> USE DEF StoreInv, TypeInv
<1>f. \A h \in Hash : Excused(h) => Excused(h)'
  BY DEF FaultGrows, Excused
<1>t. \A q \in Run, x \in Path : hand[<<q, x>>] # "none" => man[q][x] \in Hash
  BY FileForType DEF Scoped
<1>e. \A x \in rows[Server] : x.hash \in Hash
  BY ConstantsAssumption DEF TypeOK, Entry
<1>p. \A x \in Purger : purge[x].cur \subseteq Hash
  BY DEF TypeOK, Purge
\* A step after which g is not about to delete, and no row is new.
<1>a. ASSUME UNCHANGED <<blob, man, pc, left, hand>>,
             rows'[Server] \subseteq rows[Server],
             \A x \in Purger \ {g} : purge'[x] = purge[x],
             purge'[g].st # "delete"
      PROVE  StoreInv'
  <2>1. StoredHasBlob' /\ UploadAnswered' /\ RunCovered'
    BY <1>a, Frame
  <2>2. CondemnedUnreferenced'
    BY <1>a, <1>p DEF CondemnedUnreferenced, Referenced, FaultGrows
  <2>3. UploadedRowHasBlob' /\ LocalEntryHasBlob'
    BY <1>a, <1>e DEF UploadedRowHasBlob, LocalEntryHasBlob, FaultGrows
  <2> QED
    BY <2>1, <2>2, <2>3
<1>s. ASSUME NEW x, Set(g, x)
      PROVE  purge'[g] = x /\ \A y \in Purger \ {g} : purge'[y] = purge[y]
  BY <1>s DEF Set, TypeOK
<1>i. Idle.st = "idle"
  BY DEF Idle
<1>1. CASE BeginEvaluate(g) \/ QueryEntries(g)
  <2>1. /\ UNCHANGED <<blob, rows, man, pc, left, hand>>
        /\ \/ \E V : Set(g, [Idle EXCEPT !.st = "check", !.victims = V])
           \/ \E f, H : Set(g, [Idle EXCEPT !.st = "query", !.filter = f, !.hashes = H])
    BY <1>1 DEF BeginEvaluate, QueryEntries, runVars
  <2>2. \A y \in Purger \ {g} : purge'[y] = purge[y]
    BY <2>1 DEF Set, TypeOK
  <2>3. purge'[g].st \in {"check", "query"}
    BY <2>1 DEF Set, TypeOK, Idle
  <2> QED
    BY <1>a, <2>1, <2>2, <2>3
<1>2. CASE DeleteEntryByID(g) \/ DeleteEntries(g)
  <2>1. /\ UNCHANGED <<blob, man, pc, left, hand>>
        /\ \/ Set(g, [purge[g] EXCEPT !.st = "check"])
           \/ /\ purge[g].st = "check"
              /\ \E V, H : Set(g, [purge[g] EXCEPT !.victims = V, !.hashes = H])
    BY <1>2 DEF DeleteEntryByID, DeleteEntries, runVars
  <2>4. \A y \in Purger \ {g} : purge'[y] = purge[y]
    BY <2>1 DEF Set, TypeOK
  <2>5. purge'[g].st = "check"
    <3>1. purge[g] \in Purge
      BY DEF TypeOK
    <3>2. CASE Set(g, [purge[g] EXCEPT !.st = "check"])
      BY <3>1, <3>2 DEF Set, TypeOK, Purge
    <3>3. ASSUME purge[g].st = "check",
                 NEW V, NEW H, Set(g, [purge[g] EXCEPT !.victims = V, !.hashes = H])
          PROVE  purge'[g].st = "check"
      BY <3>1, <3>3 DEF Set, TypeOK, Purge
    <3> QED
      BY <2>1, <3>2, <3>3
  <2>2. ASSUME NEW n, NEW D, NEW L, DropRows(n, D, L) PROVE rows'[Server] \subseteq rows[Server]
    BY <2>2, ConstantsAssumption DEF DropRows, TypeOK
  <2>3. rows'[Server] \subseteq rows[Server]
    BY <1>2, <2>2 DEF DeleteEntryByID, DeleteEntries
  <2> QED
    BY <1>a, <2>1, <2>3, <2>4, <2>5
<1>3. CASE EvaluateDone(g) \/ DeleteOrphanJobs(g) \/ PurgeAborts(g)
  <2>1. UNCHANGED <<blob, rows, man, pc, left, hand>> /\ Set(g, Idle)
    BY <1>3 DEF EvaluateDone, DeleteOrphanJobs, PurgeAborts, runVars
  <2> QED
    BY <1>a, <1>i, <1>s, <2>1
<1>4. CASE CountReferences(g)
  <2> PICK h \in purge[g].hashes :
        Set(g, IF Referenced(PurgeNode[g], h)
               THEN [purge[g] EXCEPT !.hashes = @ \ {h}]
               ELSE [purge[g] EXCEPT !.st = "delete", !.cur = {h}])
    BY <1>4 DEF CountReferences
  <2>1. UNCHANGED <<blob, rows, man, pc, left, hand>> /\ purge[g].st = "check"
    BY <1>4 DEF CountReferences, runVars
  <2>2. /\ StoredHasBlob' /\ UploadAnswered' /\ RunCovered'
        /\ UploadedRowHasBlob' /\ LocalEntryHasBlob'
    BY <2>1, Frame
  <2>3. /\ \A y \in Purger \ {g} : purge'[y] = purge[y]
        /\ \/ purge'[g].st = "check"
           \/ purge'[g].cur = {h} /\ ~Referenced(PurgeNode[g], h)
    BY <2>1 DEF Set, TypeOK, Purge
  <2>4. CondemnedUnreferenced'
    BY <1>p, <2>1, <2>3 DEF CondemnedUnreferenced, Referenced, FaultGrows
  <2> QED
    BY <2>2, <2>4
<1>5. CASE DeleteBlob(g)
  <2> PICK h \in purge[g].cur :
        /\ blob' = IF PurgeNode[g] = Server THEN [blob EXCEPT ![h] = None] ELSE blob
        /\ Mark(h, {f \in {"raced", "severed"} :
                       /\ PurgeNode[g] = Server
                       /\ f = "raced" => Pending(h)
                       /\ f = "severed" => HeldElsewhere(h)})
    BY <1>5 DEF DeleteBlob
  <2>1. /\ UNCHANGED <<rows, man, pc, left, hand>>
        /\ purge[g].st = "delete"
        /\ \A y \in Purger \ {g} : purge'[y] = purge[y]
        /\ purge'[g].st = "check"
    BY <1>5 DEF DeleteBlob, Set, runVars, TypeOK, Purge
  <2>2. h \in Hash /\ \A x \in Hash \ {h} : blob'[x] = blob[x]
    BY <1>p DEF TypeOK
  <2>3. PurgeNode[g] # Server => blob' = blob
    OBVIOUS
  <2>4. PurgeNode[g] = Server /\ (Pending(h) \/ Referenced(Server, h)) => "raced" \in fault'[h]
    <3>1. PurgeNode[g] = Server /\ Pending(h) => "raced" \in fault'[h]
      BY <2>2 DEF Mark, TypeOK
    <3>2. PurgeNode[g] = Server /\ Referenced(Server, h) => "raced" \in fault[h]
      BY <2>1 DEF CondemnedUnreferenced
    <3> QED
      BY <2>2, <3>1, <3>2 DEF FaultGrows
  <2>5. CondemnedUnreferenced'
    BY <1>p, <2>1 DEF CondemnedUnreferenced, Referenced, FaultGrows
  <2>6. StoredHasBlob'
    <3>1. ASSUME NEW r \in Run, NEW p \in Path, hand[<<r, p>>] = "stored", man[r][p] = h
          PROVE  Pending(h)
      BY <3>1 DEF Pending, HandlerPending, Scoped
    <3> QED
      BY <1>t, <2>1, <2>2, <2>3, <2>4, <3>1 DEF StoredHasBlob, FaultGrows
  <2>7. UploadAnswered'
    <3>1. ASSUME NEW r \in Run, NEW p \in Path, hand[<<r, p>>] # "none", man[r][p] = h,
                 IsLocal(r), pc[r] = "upload"
          PROVE  Pending(h)
      BY <3>1 DEF Pending, RunPending, Scoped
    <3> QED
      BY <1>f, <1>t, <2>1, <2>2, <2>3, <2>4, <3>1 DEF UploadAnswered, Excused
  <2>8. RunCovered'
    <3>1. \A r \in Run : IsLocal(r) /\ RunPending(r, h) => Pending(h)
      BY DEF Pending
    <3> QED
      BY <1>f, <2>1, <2>2, <2>3, <2>4, <3>1 DEF RunCovered, RunPending, Excused, IsLocal
  <2>9. UploadedRowHasBlob' /\ LocalEntryHasBlob'
    BY <1>e, <2>1, <2>2, <2>3, <2>4
    DEF UploadedRowHasBlob, LocalEntryHasBlob, Referenced, FaultGrows
  <2> QED
    BY <2>5, <2>6, <2>7, <2>8, <2>9
<1> QED
  BY <1>1, <1>2, <1>3, <1>4, <1>5 DEF PurgeStep

\* Every step keeps rows and blobs together.
LEMMA NextStoreInv == StoreInv /\ [Next]_vars => StoreInv'
<1> SUFFICES ASSUME StoreInv, [Next]_vars PROVE StoreInv'
  OBVIOUS
<1>1. TypeInv' /\ FaultGrows
  BY NextTypeInv, FaultGrowing DEF StoreInv
<1>2. CASE \E n \in Node : FailStaleJobs(n)
  BY <1>1, <1>2, Frame DEF FailStaleJobs, StoreInv
<1>3. CASE UNCHANGED vars
  BY <1>1, <1>3, Frame DEF vars, StoreInv
<1> QED
  BY <1>1, <1>2, <1>3, RunStepStoreInv, HandlerStepStoreInv, PurgeStepStoreInv DEF Next

\* The storage invariant holds always.
LEMMA StoreInvariant == Spec => []StoreInv
BY InitStoreInv, NextStoreInv, PTL DEF Spec

\* Whatever backups, retention, manual deletion, crashes and stops do to one
\* another, a row the server wrote for an upload has its blob, unless the blob
\* was deleted in the window between a purger's count and its deletion.
THEOREM UploadedRowsHaveBlobs == Spec => []UploadedRowHasBlob
<1>1. StoreInv => UploadedRowHasBlob
  BY DEF StoreInv
<1> QED
  BY StoreInvariant, <1>1, PTL

\* The same for the entries of a hybrid node's own backups, except for files
\* whose upload failed.
THEOREM LocalEntriesHaveBlobs == Spec => []LocalEntryHasBlob
<1>1. StoreInv => LocalEntryHasBlob
  BY DEF StoreInv
<1> QED
  BY StoreInvariant, <1>1, PTL

-----------------------------------------------------------------------------
(* Verdicts. *)

\* A run that has not begun has no job, and one that has its verdict from itself is over.
Ended ==
  \A r \in Run : /\ pc[r] = "idle" => job[r] = "absent"
                 /\ job[r] \in {"completed", "stopped"} => pc[r] \in {"done", "dead"}

\* Nothing but the run's own end gives it a verdict other than failed.
LEMMA EndedInv == TypeInv /\ Ended /\ [Next]_vars => Ended'
<1> SUFFICES ASSUME TypeInv, Ended, [Next]_vars PROVE Ended'
  OBVIOUS
<1> USE DEF Ended, TypeInv, TypeOK, Live
<1>1. ASSUME NEW r \in Run, NEW s, FinishJob(r, s) PROVE Ended'
  BY <1>1 DEF FinishJob
<1>2. ASSUME UNCHANGED <<job, pc>> PROVE Ended'
  BY <1>2
<1>3. ASSUME NEW r \in Run, RunStep(r) \/ StopBackup(r) \/ Crash(r) PROVE Ended'
  <2>1. CASE StartBackup(r)
    BY <2>1 DEF StartBackup
  <2>2. CASE Stopped(r) \/ ExchangeFails(r) \/ Complete(r)
    BY <1>1, <2>2 DEF Stopped, ExchangeFails, Complete
  <2>3. CASE ExchangeManifest(r)
    BY <2>3 DEF ExchangeManifest
  <2>4. CASE UploadsDone(r)
    BY <2>4 DEF UploadsDone
  <2>5. CASE Crash(r)
    BY <2>5 DEF Crash
  <2>6. CASE SkipFile(r) \/ BeginUpload(r) \/ UploadReturns(r) \/ UploadBreaks(r)
             \/ InsertEntry(r) \/ InsertEntryFails(r) \/ StopBackup(r)
    BY <1>2, <2>6 DEF SkipFile, BeginUpload, UploadReturns, UploadBreaks, InsertEntry,
                      InsertEntryFails, StopBackup
  <2> QED
    BY <1>3, <2>1, <2>2, <2>3, <2>4, <2>5, <2>6 DEF RunStep
<1>4. ASSUME NEW r \in Run, NEW p \in Path, HandlerStep(r, p) PROVE Ended'
  BY <1>2, <1>4 DEF HandlerStep, Put, PutFails, InsertRow, InsertRowFails, runVars
<1>5. ASSUME NEW g \in Purger, PurgeStep(g) PROVE Ended'
  <2>1. CASE DeleteOrphanJobs(g)
    BY <2>1 DEF DeleteOrphanJobs, runVars
  <2> QED
    BY <1>2, <1>5, <2>1 DEF PurgeStep, BeginEvaluate, DeleteEntryByID, EvaluateDone, QueryEntries,
         DeleteEntries, CountReferences, DeleteBlob, PurgeAborts, runVars
<1>6. ASSUME NEW n \in Node, FailStaleJobs(n) PROVE Ended'
  BY <1>6 DEF FailStaleJobs
<1>7. CASE UNCHANGED vars
  BY <1>2, <1>7 DEF vars
<1> QED
  BY <1>3, <1>4, <1>5, <1>6, <1>7 DEF Next

\* What VerdictIsFinal says of a step and a run.
Final(r) ==
  /\ job[r] \in {"completed", "failed", "stopped"} /\ job'[r] # job[r] =>
       job'[r] = "absent" \/ (job[r] = "failed" /\ pc[r] \in Live /\ pc'[r] = "done")
  /\ job[r] # "absent" /\ job'[r] = "absent" => ~\E e \in rows[Owner[r]] : e.run = r
  /\ job[r] = "absent" /\ pc[r] # "idle" => job'[r] = "absent"

\* A run that ends writes its verdict into its own job only, and only if it is there.
LEMMA FinishFinal ==
  ASSUME TypeInv, Ended, NEW q \in Run, NEW s \in {"completed", "failed", "stopped"},
         pc[q] \in Live, FinishJob(q, s), NEW r \in Run
  PROVE  Final(r)
<1> USE DEF Ended, TypeInv, TypeOK, Live
<1>1. CASE r = q
  BY <1>1 DEF FinishJob, Final
<1>2. CASE r # q
  BY <1>2 DEF FinishJob, Final
<1> QED
  BY <1>1, <1>2

\* Whoever fails stale jobs or deletes orphaned ones, in whatever process, a verdict
\* stays, unless it was given to a run that was alive and ends after it; a job goes
\* only when its backup set has no entry, and does not come back.
THEOREM VerdictsStay == Spec => VerdictIsFinal
<1>1. Init => Ended
  BY DEF Init, Ended
<1>2. ASSUME TypeInv, Ended, [Next]_vars, NEW r \in Run PROVE Final(r)
  <2> USE DEF Ended, TypeInv, TypeOK, Live
  <2>1. ASSUME job'[r] = job[r] PROVE Final(r)
    BY <2>1 DEF Final
  <2>2. ASSUME NEW q \in Run, RunStep(q) \/ StopBackup(q) \/ Crash(q) PROVE Final(r)
    <3>1. CASE StartBackup(q)
      <4>1. job[q] = "absent" /\ pc[q] = "idle" /\ job'[r] \in {job[r], "running"}
            /\ (r # q => job'[r] = job[r])
        BY <1>2, <3>1 DEF StartBackup
      <4>2. CASE r = q
        BY <4>1, <4>2 DEF Final
      <4>3. CASE r # q
        BY <2>1, <4>1, <4>3
      <4> QED
        BY <4>2, <4>3
    <3>2. CASE Stopped(q) \/ ExchangeFails(q) \/ Complete(q)
      <4>1. PICK s \in {"completed", "failed", "stopped"} : FinishJob(q, s)
        BY <3>2 DEF Stopped, ExchangeFails, Complete
      <4>2. pc[q] \in Live
        BY <3>2 DEF Stopped, ExchangeFails, Complete
      <4> QED
        BY <1>2, <4>1, <4>2, FinishFinal
    <3>3. CASE \/ ExchangeManifest(q) \/ SkipFile(q) \/ BeginUpload(q) \/ UploadReturns(q)
               \/ UploadBreaks(q) \/ UploadsDone(q) \/ InsertEntry(q) \/ InsertEntryFails(q)
               \/ StopBackup(q) \/ Crash(q)
      BY <2>1, <3>3 DEF ExchangeManifest, SkipFile, BeginUpload, UploadReturns, UploadBreaks,
                        UploadsDone, InsertEntry, InsertEntryFails, StopBackup, Crash
    <3> QED
      BY <2>2, <3>1, <3>2, <3>3 DEF RunStep
  <2>3. ASSUME NEW q \in Run, NEW p \in Path, HandlerStep(q, p) PROVE Final(r)
    BY <2>1, <2>3 DEF HandlerStep, Put, PutFails, InsertRow, InsertRowFails
  <2>4. ASSUME NEW g \in Purger, DeleteOrphanJobs(g) PROVE Final(r)
    BY <2>4 DEF DeleteOrphanJobs, Final
  <2>5. ASSUME NEW g \in Purger, PurgeStep(g), ~DeleteOrphanJobs(g) PROVE Final(r)
    BY <2>1, <2>5 DEF PurgeStep, BeginEvaluate, DeleteEntryByID, EvaluateDone, QueryEntries,
         DeleteEntries, CountReferences, DeleteBlob, PurgeAborts
  <2>6. ASSUME NEW n \in Node, FailStaleJobs(n) PROVE Final(r)
    BY <2>6 DEF FailStaleJobs, Final
  <2>7. CASE UNCHANGED vars
    BY <2>1, <2>7 DEF vars
  <2> QED
    BY <1>2, <2>2, <2>3, <2>4, <2>5, <2>6, <2>7 DEF Next
<1>3. TypeInv /\ Ended /\ [Next]_vars => [\A r \in Run : Final(r)]_vars
  BY <1>2
<1> QED
  BY InitTypeInv, NextTypeInv, EndedInv, <1>1, <1>3, PTL DEF Spec, VerdictIsFinal, Final

-----------------------------------------------------------------------------
(* Blobs that nothing refers to. *)

\* While a run uploads, nobody is at work on a file that is still to come, and a
\* local connection only on the current one.
Uploading ==
  \A r \in Run, p \in Path :
    /\ IsLocal(r) /\ hand[<<r, p>>] = "recv" => cur[r] = p
    /\ pc[r] = "upload" /\ p \in left[r] /\ cur[r] # p => hand[<<r, p>>] = "none"

\* A purger at rest has no hashes, and one about to delete has one.
Purging ==
  \A g \in Purger :
    /\ purge[g].st = "idle" => purge[g].hashes = {}
    /\ purge[g].st = "delete" => \E h \in Hash : purge[g].cur = {h}

Reclaiming(g, h) ==
  PurgeNode[g] = Server /\ purge[g].st # "query" /\ h \in purge[g].hashes

\* Who answers for a blob: a row, the handler that has put it, the local run that
\* has put it, a purger, or the record of a failure.  A run that was merely told
\* that the blob is there does not.
Kept(h) ==
  \/ blob[h] = None
  \/ Referenced(Server, h)
  \/ HandlerPending(h)
  \/ \E r \in Run : h \in Abandoned(r)
  \/ \E g \in Purger : Reclaiming(g, h)
  \/ "leaked" \in fault[h]

LeakInv == TypeInv /\ Uploading /\ Purging /\ \A h \in Hash : Kept(h)

\* The store is empty initially.
LEMMA InitLeakInv == Init => LeakInv
<1> SUFFICES ASSUME Init PROVE LeakInv
  OBVIOUS
<1>1. Uploading /\ Purging
  BY DEF Init, Uploading, Purging, Idle, Key
<1>2. \A h \in Hash : Kept(h)
  BY DEF Init, Kept
<1> QED
  BY InitTypeInv, <1>1, <1>2 DEF LeakInv

\* What a hash owes its blob's keeping to stays, where what it is made of does.
LEMMA KeptFrame ==
  ASSUME LeakInv, FaultGrows, NEW h \in Hash,
         blob'[h] \in {blob[h], None},
         \A e \in rows[Server] : e.hash = h => e \in rows'[Server],
         HandlerPending(h) => HandlerPending(h)' \/ Kept(h)',
         \A r \in Run : h \in Abandoned(r) => h \in Abandoned(r)' \/ Kept(h)',
         \A g \in Purger : Reclaiming(g, h) => Reclaiming(g, h)' \/ Kept(h)'
  PROVE  Kept(h)'
<1>1. CASE blob[h] = None
  BY <1>1 DEF Kept
<1>2. CASE Referenced(Server, h)
  BY <1>2 DEF Kept, Referenced
<1>3. CASE HandlerPending(h)
  BY <1>3 DEF Kept
<1>4. ASSUME NEW r \in Run, h \in Abandoned(r) PROVE Kept(h)'
  BY <1>4 DEF Kept
<1>5. ASSUME NEW g \in Purger, Reclaiming(g, h) PROVE Kept(h)'
  BY <1>5 DEF Kept
<1>6. CASE "leaked" \in fault[h]
  BY <1>6 DEF Kept, FaultGrows
<1> QED
  BY <1>1, <1>2, <1>3, <1>4, <1>5, <1>6 DEF LeakInv, Kept


\* Only one upload of a run is under way at a time.
LEMMA NextUploading ==
  ASSUME TypeInv, Uploading, [Next]_vars
  PROVE  Uploading'
<1> USE DEF TypeInv, TypeOK
<1>1. ASSUME UNCHANGED <<hand, cur, pc, left>> PROVE Uploading'
  BY <1>1 DEF Uploading, IsLocal
<1>7. ASSUME UNCHANGED <<hand, cur>>,
             \A r \in Run : pc'[r] = "upload" => pc[r] = "upload" /\ left'[r] \subseteq left[r]
      PROVE  Uploading'
  BY <1>7 DEF Uploading, IsLocal
<1>2. ASSUME NEW r \in Run, RunStep(r) \/ StopBackup(r) \/ Crash(r) PROVE Uploading'
  <2>1. CASE StartBackup(r)
    <3>1. UNCHANGED <<hand, cur, left>> /\ \A q \in Run : pc'[q] = "upload" => pc[q] = "upload"
      BY <2>1 DEF StartBackup
    <3> QED
      BY <1>7, <3>1
  <2>2. CASE Stopped(r) \/ ExchangeFails(r) \/ Complete(r)
    <3>1. UNCHANGED <<hand, cur, left>> /\ \A q \in Run : pc'[q] = "upload" => pc[q] = "upload"
      BY <2>2 DEF Stopped, ExchangeFails, Complete, FinishJob
    <3> QED
      BY <1>7, <3>1
  <2>3. CASE ExchangeManifest(r)
    <3>1. /\ UNCHANGED <<hand, cur>> /\ pc[r] = "manifest"
          /\ \A q \in Run : q # r => pc'[q] = pc[q] /\ left'[q] = left[q]
      BY <2>3 DEF ExchangeManifest
    <3>2. \A p \in Path : hand[<<r, p>>] = "none"
      BY <3>1 DEF Scoped
    <3> QED
      BY <3>1, <3>2 DEF Uploading, IsLocal
  <2>4. CASE SkipFile(r)
    BY <2>4 DEF SkipFile, Uploading, IsLocal
  <2>5. CASE BeginUpload(r)
    <3> PICK p \in left[r] : /\ cur' = [cur EXCEPT ![r] = p]
                             /\ hand' = [hand EXCEPT ![<<r, p>>] = "recv"]
      BY <2>5 DEF BeginUpload
    <3>1. UNCHANGED <<pc, left>> /\ pc[r] = "upload" /\ cur[r] = None
      BY <2>5 DEF BeginUpload
    <3>2. p \in Path /\ p # None /\ <<r, p>> \in Key
      BY ConstantsAssumption DEF Key
    <3>3. \A q \in Run, x \in Path : <<q, x>> \in Key
      BY DEF Key
    <3>4. \A q \in Run, x \in Path : IsLocal(q) /\ hand'[<<q, x>>] = "recv" => cur'[q] = x
      BY <3>1, <3>2, <3>3, ConstantsAssumption DEF Uploading, IsLocal
    <3>5. \A q \in Run, x \in Path :
            pc'[q] = "upload" /\ x \in left'[q] /\ cur'[q] # x => hand'[<<q, x>>] = "none"
      BY <3>1, <3>2, <3>3, ConstantsAssumption DEF Uploading
    <3> QED
      BY <3>4, <3>5 DEF Uploading, IsLocal
  <2>6. CASE UploadReturns(r)
    <3>1. /\ UNCHANGED <<hand, pc>> /\ hand[<<r, cur[r]>>] # "recv"
          /\ \A q \in Run : q # r => cur'[q] = cur[q] /\ left'[q] = left[q]
          /\ left'[r] = left[r] \ {cur[r]}
      BY <2>6 DEF UploadReturns
    <3>2. ASSUME NEW q \in Run, NEW x \in Path
          PROVE  /\ IsLocal(q) /\ hand[<<q, x>>] = "recv" => cur'[q] = x
                 /\ pc[q] = "upload" /\ x \in left'[q] /\ cur'[q] # x => hand[<<q, x>>] = "none"
      <4>1. CASE q = r
        BY <3>1, <4>1 DEF Uploading
      <4>2. CASE q # r
        BY <3>1, <4>2 DEF Uploading
      <4> QED
        BY <4>1, <4>2
    <3> QED
      BY <3>1, <3>2 DEF Uploading, IsLocal
  <2>7. CASE UploadBreaks(r)
    BY <2>7 DEF UploadBreaks, Uploading, IsLocal
  <2>8. CASE UploadsDone(r)
    BY <2>8 DEF UploadsDone, Uploading, IsLocal
  <2>9. CASE InsertEntry(r) \/ InsertEntryFails(r)
    <3>1. UNCHANGED <<hand, cur, pc>> /\ \A q \in Run : left'[q] \subseteq left[q]
      BY <2>9 DEF InsertEntry, InsertEntryFails
    <3> QED
      BY <1>7, <3>1
  <2>10. CASE StopBackup(r)
    BY <1>1, <2>10 DEF StopBackup
  <2>11. CASE Crash(r)
    <3>1. \A q \in Run, x \in Path : <<q, x>> \in Key /\ <<q, x>>[1] = q
      BY DEF Key
    <3> QED
      BY <2>11, <3>1 DEF Crash, Uploading, IsLocal
  <2> QED
    BY <1>2, <2>1, <2>2, <2>3, <2>4, <2>5, <2>6, <2>7, <2>8, <2>9, <2>10, <2>11 DEF RunStep
<1>3. ASSUME NEW r \in Run, NEW p \in Path, HandlerStep(r, p) PROVE Uploading'
  <2>1. /\ UNCHANGED <<cur, pc, left>> /\ hand[<<r, p>>] # "none" /\ \A k \in Key \ {<<r, p>>} : hand'[k] = hand[k]
        /\ hand'[<<r, p>>] # "recv"
    BY <1>3 DEF HandlerStep, Put, PutFails, InsertRow, InsertRowFails, runVars, Key
  <2>2. \A q \in Run, x \in Path : <<q, x>> \in Key
    BY DEF Key
  <2> QED
    BY <2>1, <2>2 DEF Uploading, IsLocal
<1>4. ASSUME NEW g \in Purger, PurgeStep(g) PROVE Uploading'
  BY <1>1, <1>4 DEF PurgeStep, BeginEvaluate, DeleteEntryByID, EvaluateDone, QueryEntries,
       DeleteEntries, CountReferences, DeleteBlob, DeleteOrphanJobs, PurgeAborts, runVars
<1>5. ASSUME NEW n \in Node, FailStaleJobs(n) PROVE Uploading'
  BY <1>1, <1>5 DEF FailStaleJobs
<1>6. CASE UNCHANGED vars
  BY <1>1, <1>6 DEF vars
<1> QED
  BY <1>2, <1>3, <1>4, <1>5, <1>6 DEF Next

\* A purger counts and deletes one hash at a time.
LEMMA NextPurging ==
  ASSUME TypeInv, Purging, [Next]_vars
  PROVE  Purging'
<1> USE DEF TypeInv, TypeOK
<1>1. ASSUME UNCHANGED purge PROVE Purging'
  BY <1>1 DEF Purging
<1>2. ASSUME NEW r \in Run, RunStep(r) \/ StopBackup(r) \/ Crash(r) PROVE Purging'
  BY <1>1, <1>2 DEF RunStep, StartBackup, Stopped, ExchangeFails, ExchangeManifest, SkipFile,
       BeginUpload, UploadReturns, UploadBreaks, UploadsDone, InsertEntry, InsertEntryFails,
       Complete, StopBackup, Crash, FinishJob
<1>3. ASSUME NEW r \in Run, NEW p \in Path, HandlerStep(r, p) PROVE Purging'
  BY <1>1, <1>3 DEF HandlerStep, Put, PutFails, InsertRow, InsertRowFails
<1>4. ASSUME NEW g \in Purger, PurgeStep(g) PROVE Purging'
  <2>1. purge[g] \in Purge
    OBVIOUS
  <2>2. ASSUME NEW x, Set(g, x), x.st = "idle" => x.hashes = {},
               x.st = "delete" => \E h \in Hash : x.cur = {h}
        PROVE  Purging'
    BY <2>2 DEF Set, Purging
  <2>3. CASE BeginEvaluate(g) \/ QueryEntries(g)
    <3>1. ASSUME NEW V, Set(g, [Idle EXCEPT !.st = "check", !.victims = V]) PROVE Purging'
      BY <2>2, <3>1 DEF Idle
    <3>2. ASSUME NEW f, NEW H, Set(g, [Idle EXCEPT !.st = "query", !.filter = f, !.hashes = H])
          PROVE  Purging'
      BY <2>2, <3>2 DEF Idle
    <3> QED
      BY <2>3, <3>1, <3>2 DEF BeginEvaluate, QueryEntries
  <2>4. CASE DeleteEntryByID(g)
    <3> PICK e : purge[g].st = "check"
                 /\ Set(g, [purge[g] EXCEPT !.victims = @ \ {e}, !.hashes = {e.hash}])
      BY <2>4 DEF DeleteEntryByID
    <3> QED
      BY <2>1, <2>2 DEF Purge
  <2>5. CASE DeleteEntries(g)
    BY <2>1, <2>2, <2>5 DEF DeleteEntries, Purge
  <2>6. CASE EvaluateDone(g) \/ DeleteOrphanJobs(g) \/ PurgeAborts(g)
    BY <2>2, <2>6 DEF EvaluateDone, DeleteOrphanJobs, PurgeAborts, Idle
  <2>7. CASE CountReferences(g)
    <3> PICK h \in purge[g].hashes :
          Set(g, IF Referenced(PurgeNode[g], h)
                 THEN [purge[g] EXCEPT !.hashes = @ \ {h}]
                 ELSE [purge[g] EXCEPT !.st = "delete", !.cur = {h}])
      BY <2>7 DEF CountReferences
    <3>1. purge[g].st = "check" /\ h \in Hash
      BY <2>1, <2>7 DEF CountReferences, Purge
    <3>2. CASE Set(g, [purge[g] EXCEPT !.hashes = @ \ {h}])
      BY <2>1, <2>2, <3>1, <3>2 DEF Purge
    <3>3. CASE Set(g, [purge[g] EXCEPT !.st = "delete", !.cur = {h}])
      BY <2>1, <2>2, <3>1, <3>3 DEF Purge
    <3> QED
      BY <3>2, <3>3
  <2>8. CASE DeleteBlob(g)
    BY <2>1, <2>2, <2>8 DEF DeleteBlob, Purge
  <2> QED
    BY <1>4, <2>3, <2>4, <2>5, <2>6, <2>7, <2>8 DEF PurgeStep
<1>5. ASSUME NEW n \in Node, FailStaleJobs(n) PROVE Purging'
  BY <1>1, <1>5 DEF FailStaleJobs
<1>6. CASE UNCHANGED vars
  BY <1>1, <1>6 DEF vars
<1> QED
  BY <1>2, <1>3, <1>4, <1>5, <1>6 DEF Next

\* A step of a run: a local run that ends, or gives up an entry, records what it leaves.
LEMMA RunStepKept ==
  ASSUME LeakInv, FaultGrows, TypeInv', NEW r \in Run, RunStep(r) \/ StopBackup(r) \/ Crash(r),
         NEW h \in Hash
  PROVE  Kept(h)'
<1> USE DEF LeakInv, TypeInv, TypeOK
<1>k. \A q \in Run, x \in Path : <<q, x>> \in Key /\ <<q, x>>[1] = q
  BY DEF Key
\* Only r's own part changes, and what it has put it answers for or leaves on record.
<1>a. ASSUME UNCHANGED <<blob, purge>>,
             \A e \in rows[Server] : e.hash = h => e \in rows'[Server],
             HandlerPending(h) => HandlerPending(h)',
             \A q \in Run \ {r} : h \in Abandoned(q) => h \in Abandoned(q)',
             h \in Abandoned(r) => h \in Abandoned(r)' \/ Kept(h)'
      PROVE  Kept(h)'
  <2>1. \A g \in Purger : Reclaiming(g, h) => Reclaiming(g, h)'
    BY <1>a DEF Reclaiming
  <2>2. \A q \in Run : h \in Abandoned(q) => h \in Abandoned(q)' \/ Kept(h)'
    BY <1>a
  <2> QED
    BY <1>a, <2>1, <2>2, KeptFrame
<1>b. ASSUME UNCHANGED <<hand, man>>,
             \A q \in Run \ {r} : pc'[q] = pc[q] /\ left'[q] = left[q]
      PROVE  /\ HandlerPending(h) => HandlerPending(h)'
             /\ \A q \in Run \ {r} : h \in Abandoned(q) => h \in Abandoned(q)'
  BY <1>b DEF HandlerPending, Abandoned, RunPending, IsLocal
<1>c. ASSUME UNCHANGED <<hand, man>>, RunPending(r, h) => RunPending(r, h)'
      PROVE  h \in Abandoned(r) => h \in Abandoned(r)'
  BY <1>c DEF Abandoned, IsLocal
<1>1. CASE StartBackup(r)
  <2>1. UNCHANGED <<blob, purge, rows, hand, left>> /\ pc[r] = "idle" /\ ~RunPending(r, h)
    BY <1>1 DEF StartBackup, RunPending
  <2>2. \A q \in Run \ {r} : pc'[q] = pc[q] /\ man'[q] = man[q]
    BY <1>1 DEF StartBackup
  <2>3. \A x \in Path : hand[<<r, x>>] = "none"
    BY <2>1 DEF Scoped
  <2>4. HandlerPending(h) => HandlerPending(h)'
    <3> SUFFICES ASSUME NEW q \in Run, NEW p \in DOMAIN man[q], man[q][p] = h, hand[<<q, p>>] = "stored"
                 PROVE  HandlerPending(h)'
      BY DEF HandlerPending
    <3>1. q # r
      BY <2>3, FileForType
    <3> QED
      BY <2>1, <2>2, <3>1 DEF HandlerPending
  <2>5. \A q \in Run \ {r} : h \in Abandoned(q) => h \in Abandoned(q)'
    BY <2>1, <2>2 DEF Abandoned, RunPending, IsLocal
  <2>6. h \notin Abandoned(r)
    BY <2>1 DEF Abandoned
  <2> QED
    BY <1>a, <2>1, <2>4, <2>5, <2>6
<1>2. CASE Stopped(r) \/ Crash(r)
  <2>1. UNCHANGED <<blob, purge, rows, man, left>> /\ MarkAbandoned(r)
        /\ \A q \in Run \ {r} : pc'[q] = pc[q]
    BY <1>2 DEF Stopped, Crash, FinishJob
  <2>2. \A k \in Key : hand[k] \in {"stored", "acked"} => hand'[k] = hand[k]
    BY <1>2 DEF Stopped, Crash, FinishJob
  <2>3. HandlerPending(h) => HandlerPending(h)'
    <3> SUFFICES ASSUME NEW q \in Run, NEW p \in DOMAIN man[q], man[q][p] = h, hand[<<q, p>>] = "stored"
                 PROVE  HandlerPending(h)'
      BY DEF HandlerPending
    <3>1. p \in Path
      BY FileForType
    <3> QED
      BY <1>k, <2>1, <2>2, <3>1 DEF HandlerPending
  <2>4. \A q \in Run \ {r} : h \in Abandoned(q) => h \in Abandoned(q)'
    BY <1>k, <2>1, <2>2 DEF Abandoned, RunPending, IsLocal
  <2>5. h \in Abandoned(r) => Kept(h)'
    BY <2>1 DEF MarkAbandoned, Kept
  <2> QED
    BY <1>a, <2>1, <2>3, <2>4, <2>5
<1>3. CASE ExchangeFails(r) \/ Complete(r)
  <2>1. /\ UNCHANGED <<blob, purge, rows, man, left, hand>> /\ ~RunPending(r, h)
        /\ \A q \in Run \ {r} : pc'[q] = pc[q]
    BY <1>3 DEF ExchangeFails, Complete, FinishJob, RunPending
  <2> QED
    BY <1>a, <1>b, <2>1 DEF Abandoned
<1>4. CASE ExchangeManifest(r)
  <2>1. /\ UNCHANGED <<blob, purge, rows, man, hand>> /\ ~RunPending(r, h)
        /\ \A q \in Run \ {r} : pc'[q] = pc[q] /\ left'[q] = left[q]
    BY <1>4 DEF ExchangeManifest, RunPending
  <2> QED
    BY <1>a, <1>b, <2>1 DEF Abandoned
<1>5. CASE SkipFile(r) \/ UploadReturns(r) \/ UploadBreaks(r)
  <2>1. /\ UNCHANGED <<blob, purge, rows, man, hand, pc>> /\ pc[r] = "upload"
        /\ \A q \in Run \ {r} : left'[q] = left[q]
    BY <1>5 DEF SkipFile, UploadReturns, UploadBreaks, Scoped
  <2> QED
    BY <1>a, <1>b, <1>c, <2>1 DEF RunPending
<1>6. CASE BeginUpload(r)
  <2> PICK p \in left[r] : hand' = [hand EXCEPT ![<<r, p>>] = "recv"]
    BY <1>6 DEF BeginUpload
  <2>1. UNCHANGED <<blob, purge, rows, man, pc, left>> /\ pc[r] = "upload" /\ cur[r] = None
    BY <1>6 DEF BeginUpload
  <2>2. hand[<<r, p>>] = "none"
    BY <2>1, ConstantsAssumption DEF Uploading
  <2>3. \A k \in Key : hand[k] # "none" => hand'[k] = hand[k]
    BY <2>2
  <2>4. HandlerPending(h) => HandlerPending(h)'
    <3> SUFFICES ASSUME NEW q \in Run, NEW x \in DOMAIN man[q], man[q][x] = h, hand[<<q, x>>] = "stored"
                 PROVE  HandlerPending(h)'
      BY DEF HandlerPending
    <3>1. x \in Path
      BY FileForType
    <3> QED
      BY <1>k, <2>1, <2>3, <3>1 DEF HandlerPending
  <2>5. \A q \in Run : h \in Abandoned(q) => h \in Abandoned(q)'
    BY <1>k, <2>1, <2>3 DEF Abandoned, RunPending, IsLocal
  <2> QED
    BY <1>a, <2>1, <2>4, <2>5
<1>7. CASE UploadsDone(r)
  <2>1. /\ UNCHANGED <<blob, purge, rows, man, hand>> /\ pc[r] = "upload"
        /\ pc'[r] = "entries" /\ left'[r] = DOMAIN man[r]
        /\ \A q \in Run \ {r} : pc'[q] = pc[q] /\ left'[q] = left[q]
    BY <1>7 DEF UploadsDone
  <2> QED
    BY <1>a, <1>b, <1>c, <2>1 DEF RunPending
<1>8. CASE InsertEntry(r)
  <2> PICK p \in left[r] :
        /\ AddRow(Owner[r], [run |-> r, path |-> p, hash |-> man[r][p], key |-> meta[r][man[r][p]]])
        /\ left' = [left EXCEPT ![r] = @ \ {p}]
    BY <1>8 DEF InsertEntry
  <2>1. UNCHANGED <<blob, purge, man, hand, pc>> /\ pc[r] = "entries"
    BY <1>8 DEF InsertEntry
  <2>2. \A q \in Run \ {r} : left'[q] = left[q]
    OBVIOUS
  <2>3. /\ \A e \in rows[Server] : e \in rows'[Server]
        /\ IsLocal(r) => \E e \in rows'[Server] : e.hash = man[r][p]
    <3> DEFINE e == [run |-> r, path |-> p, hash |-> man[r][p], key |-> meta[r][man[r][p]]]
    <3>1. rows' = [rows EXCEPT ![Owner[r]] = @ \cup {e}] /\ e.hash = man[r][p]
      BY DEF AddRow
    <3> HIDE DEF e
    <3> QED
      BY <3>1, ConstantsAssumption DEF IsLocal
  <2>4. h \in Abandoned(r) => h \in Abandoned(r)' \/ Kept(h)'
    <3>1. CASE man[r][p] = h
      BY <2>3, <3>1 DEF Abandoned, Kept, Referenced
    <3>2. CASE man[r][p] # h
      BY <1>c, <2>1, <3>2 DEF RunPending
    <3> QED
      BY <3>1, <3>2
  <2> QED
    BY <1>a, <1>b, <2>1, <2>2, <2>3, <2>4
<1>9. CASE InsertEntryFails(r)
  <2> PICK p \in left[r] :
        /\ left' = [left EXCEPT ![r] = @ \ {p}]
        /\ Mark(man[r][p], IF man[r][p] \in Abandoned(r) THEN {"leaked"} ELSE {})
    BY <1>9 DEF InsertEntryFails
  <2>1. UNCHANGED <<blob, purge, rows, man, hand, pc>> /\ pc[r] = "entries"
    BY <1>9 DEF InsertEntryFails
  <2>2. \A q \in Run \ {r} : left'[q] = left[q]
    OBVIOUS
  <2>4. h \in Abandoned(r) => h \in Abandoned(r)' \/ Kept(h)'
    <3>1. CASE man[r][p] = h
      BY <3>1 DEF Mark, Kept
    <3>2. CASE man[r][p] # h
      BY <1>c, <2>1, <3>2 DEF RunPending
    <3> QED
      BY <3>1, <3>2
  <2> QED
    BY <1>a, <1>b, <2>1, <2>2, <2>4
<1>10. CASE StopBackup(r)
  <2>1. UNCHANGED <<blob, purge, rows, man, hand, pc, left>>
    BY <1>10 DEF StopBackup
  <2> QED
    BY <1>a, <1>b, <1>c, <2>1 DEF RunPending
<1> QED
  BY <1>1, <1>2, <1>3, <1>4, <1>5, <1>6, <1>7, <1>8, <1>9, <1>10 DEF RunStep

\* A handler's step: what it puts it answers for, until its row is there or lost.
LEMMA HandlerStepKept ==
  ASSUME LeakInv, FaultGrows, NEW r \in Run, NEW p \in Path, HandlerStep(r, p), NEW h \in Hash
  PROVE  Kept(h)'
<1> USE DEF LeakInv, TypeInv, TypeOK
<1>k. <<r, p>> \in Key /\ \A q \in Run, x \in Path : <<q, x>> \in Key
  BY DEF Key
<1>1. /\ UNCHANGED <<purge, man, pc, left>> /\ hand[<<r, p>>] \in {"recv", "stored"}
      /\ \A k \in Key \ {<<r, p>>} : hand'[k] = hand[k]
      /\ \A e \in rows[Server] : e \in rows'[Server]
  BY <1>k, ConstantsAssumption DEF HandlerStep, Put, PutFails, InsertRow, InsertRowFails, AddRow, runVars
<1>2. p \in DOMAIN man[r] /\ man[r][p] \in Hash
  BY <1>1, FileForType DEF Scoped
<1>3. \A q \in Run : h \in Abandoned(q) => h \in Abandoned(q)'
  BY <1>k, <1>1 DEF Abandoned, RunPending, IsLocal
<1>4. \A g \in Purger : Reclaiming(g, h) => Reclaiming(g, h)'
  BY <1>1 DEF Reclaiming
\* The handler's own hash has been dealt with, and the others do not notice.
<1>a. ASSUME blob'[h] \in {blob[h], None},
             hand[<<r, p>>] = "stored" /\ man[r][p] = h => Kept(h)'
      PROVE  Kept(h)'
  <2>1. HandlerPending(h) => HandlerPending(h)' \/ Kept(h)'
    <3> SUFFICES ASSUME NEW q \in Run, NEW x \in DOMAIN man[q], man[q][x] = h, hand[<<q, x>>] = "stored"
                 PROVE  HandlerPending(h)' \/ Kept(h)'
      BY DEF HandlerPending
    <3>1. x \in Path
      BY FileForType
    <3>2. CASE <<q, x>> = <<r, p>>
      BY <1>a, <3>2
    <3>3. CASE <<q, x>> # <<r, p>>
      BY <1>k, <1>1, <3>1, <3>3 DEF HandlerPending
    <3> QED
      BY <3>2, <3>3
  <2> QED
    BY <1>a, <1>1, <1>3, <1>4, <2>1, KeptFrame
<1>5. CASE Put(r, p)
  <2>1. /\ hand[<<r, p>>] = "recv" /\ \A x \in Hash \ {man[r][p]} : blob'[x] = blob[x]
        /\ hand'[<<r, p>>] = IF IsLocal(r) THEN "acked" ELSE "stored"
    BY <1>k, <1>5 DEF Put
  <2>2. CASE h # man[r][p]
    BY <1>a, <2>1, <2>2
  <2>3. CASE h = man[r][p] /\ ~IsLocal(r)
    <3>1. HandlerPending(h)'
      BY <1>1, <1>2, <2>1, <2>3 DEF HandlerPending
    <3> QED
      BY <3>1 DEF Kept
  <2>4. CASE h = man[r][p] /\ IsLocal(r)
    <3>1. pc[r] = "upload"
      BY <2>1, <2>4, ConstantsAssumption DEF Uploading, Scoped
    <3>2. (h \in Abandoned(r))'
      BY <1>1, <1>2, <2>1, <2>4, <3>1 DEF Abandoned, RunPending, IsLocal
    <3> QED
      BY <3>2 DEF Kept
  <2> QED
    BY <2>2, <2>3, <2>4
<1>6. CASE PutFails(r, p)
  BY <1>a, <1>6 DEF PutFails
<1>7. CASE InsertRow(r, p)
  <2>1. \E e \in rows'[Server] : e.hash = man[r][p]
    <3> DEFINE e == [run |-> None, path |-> FileFor(r, man[r][p]), hash |-> man[r][p],
                     key |-> <<r, p>>]
    <3>1. rows' = [rows EXCEPT ![Server] = @ \cup {e}] /\ e.hash = man[r][p]
      BY <1>7 DEF InsertRow, AddRow
    <3> HIDE DEF e
    <3> QED
      BY <3>1, ConstantsAssumption
  <2>2. UNCHANGED blob
    BY <1>7 DEF InsertRow
  <2> QED
    BY <1>a, <2>1, <2>2 DEF Kept, Referenced
<1>8. CASE InsertRowFails(r, p)
  <2>1. UNCHANGED blob /\ "leaked" \in fault'[man[r][p]]
    BY <1>2, <1>8 DEF InsertRowFails, Mark
  <2> QED
    BY <1>a, <2>1 DEF Kept
<1> QED
  BY <1>5, <1>6, <1>7, <1>8 DEF HandlerStep

\* A purger's step: it answers for the hashes of the rows it takes.
LEMMA PurgeStepKept ==
  ASSUME LeakInv, FaultGrows, NEW g \in Purger, PurgeStep(g), NEW h \in Hash
  PROVE  Kept(h)'
<1> USE DEF LeakInv, TypeInv, TypeOK
<1>1. UNCHANGED <<hand, man, pc, left>> /\ \A y \in Purger \ {g} : purge'[y] = purge[y]
  BY DEF PurgeStep, BeginEvaluate, DeleteEntryByID, EvaluateDone, QueryEntries, DeleteEntries,
         CountReferences, DeleteBlob, DeleteOrphanJobs, PurgeAborts, runVars, Set
<1>2. HandlerPending(h) => HandlerPending(h)'
  BY <1>1 DEF HandlerPending
<1>3. \A q \in Run : h \in Abandoned(q) => h \in Abandoned(q)'
  BY <1>1 DEF Abandoned, RunPending, IsLocal
<1>4. \A y \in Purger \ {g} : Reclaiming(y, h) => Reclaiming(y, h)'
  BY <1>1 DEF Reclaiming
<1>p. purge[g] \in Purge
  OBVIOUS
<1>s. ASSUME NEW x, Set(g, x) PROVE purge'[g] = x
  BY <1>s DEF Set
\* The rows stay, and so does what g answers for.
<1>a. ASSUME blob'[h] \in {blob[h], None}, rows'[Server] = rows[Server],
             Reclaiming(g, h) => Reclaiming(g, h)' \/ Kept(h)'
      PROVE  Kept(h)'
  <2>1. \A y \in Purger : Reclaiming(y, h) => Reclaiming(y, h)' \/ Kept(h)'
    BY <1>a, <1>4
  <2> QED
    BY <1>a, <1>2, <1>3, <2>1, KeptFrame
\* Rows go, and g answers for their hashes, or it is recorded that nobody does.
<1>b. ASSUME UNCHANGED blob, NEW D, NEW L, DropRows(PurgeNode[g], D, L),
             Reclaiming(g, h) => Reclaiming(g, h)',
             PurgeNode[g] = Server /\ (\E e \in rows[Server] \cap D : e.hash = h)
               => h \in L \/ Reclaiming(g, h)'
      PROVE  Kept(h)'
  <2>1. /\ h \in L => "leaked" \in fault'[h]
        /\ rows'[PurgeNode[g]] = rows[PurgeNode[g]] \ D
        /\ \A n \in Node \ {PurgeNode[g]} : rows'[n] = rows[n]
    BY <1>b, ConstantsAssumption DEF DropRows
  <2>2. CASE PurgeNode[g] = Server /\ \E e \in rows[Server] \cap D : e.hash = h
    BY <1>b, <2>1, <2>2 DEF Kept
  <2>3. CASE ~(PurgeNode[g] = Server /\ \E e \in rows[Server] \cap D : e.hash = h)
    <3>1. \A e \in rows[Server] : e.hash = h => e \in rows'[Server]
      BY <2>1, <2>3, ConstantsAssumption
    <3>2. \A y \in Purger : Reclaiming(y, h) => Reclaiming(y, h)'
      BY <1>b, <1>4
    <3> QED
      BY <1>b, <1>2, <1>3, <3>1, <3>2, KeptFrame
  <2> QED
    BY <2>2, <2>3
<1>5. CASE BeginEvaluate(g) \/ QueryEntries(g)
  <2>1. UNCHANGED <<blob, rows>> /\ purge[g].st = "idle"
    BY <1>5 DEF BeginEvaluate, QueryEntries
  <2>2. ~Reclaiming(g, h)
    BY <2>1 DEF Reclaiming, Purging
  <2> QED
    BY <1>a, <2>1, <2>2
<1>6. CASE DeleteEntryByID(g)
  <2> PICK e \in purge[g].victims :
        /\ DropRows(PurgeNode[g], {e}, {})
        /\ Set(g, [purge[g] EXCEPT !.victims = @ \ {e}, !.hashes = {e.hash}])
    BY <1>6 DEF DeleteEntryByID
  <2>1. UNCHANGED blob /\ purge[g].st = "check" /\ purge[g].hashes = {}
    BY <1>6 DEF DeleteEntryByID
  <2>2. purge'[g].hashes = {e.hash} /\ purge'[g].st = "check"
    BY <1>p, <1>s, <2>1 DEF Purge
  <2>3. ~Reclaiming(g, h)
    BY <2>1 DEF Reclaiming
  <2>4. PurgeNode[g] = Server /\ h = e.hash => Reclaiming(g, h)'
    BY <2>2 DEF Reclaiming
  <2> QED
    BY <1>b, <2>1, <2>3, <2>4
<1>7. CASE DeleteEntries(g)
  <2> DEFINE D == Matching(PurgeNode[g], purge[g].filter)
             L == IF PurgeNode[g] = Server THEN {e.hash : e \in D} \ purge[g].hashes ELSE {}
  <2>1. UNCHANGED blob /\ purge[g].st = "query" /\ DropRows(PurgeNode[g], D, L)
        /\ Set(g, [purge[g] EXCEPT !.st = "check"])
    BY <1>7 DEF DeleteEntries
  <2>2. purge'[g].hashes = purge[g].hashes /\ purge'[g].st = "check"
    BY <1>p, <1>s, <2>1 DEF Purge
  <2>3. ~Reclaiming(g, h)
    BY <2>1 DEF Reclaiming
  <2>4. PurgeNode[g] = Server /\ (\E e \in rows[Server] \cap D : e.hash = h)
          => h \in L \/ Reclaiming(g, h)'
    BY <2>2 DEF Reclaiming
  <2> QED
    BY <1>b, <2>1, <2>3, <2>4
<1>8. CASE EvaluateDone(g) \/ DeleteOrphanJobs(g)
  <2>1. UNCHANGED <<blob, rows>> /\ purge[g].hashes = {}
    BY <1>8 DEF EvaluateDone, DeleteOrphanJobs
  <2> QED
    BY <1>a, <2>1 DEF Reclaiming
<1>9. CASE CountReferences(g)
  <2> PICK x \in purge[g].hashes :
        Set(g, IF Referenced(PurgeNode[g], x)
               THEN [purge[g] EXCEPT !.hashes = @ \ {x}]
               ELSE [purge[g] EXCEPT !.st = "delete", !.cur = {x}])
    BY <1>9 DEF CountReferences
  <2>1. UNCHANGED <<blob, rows>> /\ purge[g].st = "check"
    BY <1>9 DEF CountReferences
  <2>2. CASE Referenced(PurgeNode[g], x)
    <3>1. purge'[g].hashes = purge[g].hashes \ {x} /\ purge'[g].st = "check"
      BY <1>p, <1>s, <2>1, <2>2 DEF Purge
    <3>2. PurgeNode[g] = Server /\ h = x => Kept(h)'
      BY <2>1, <2>2 DEF Kept, Referenced
    <3>3. Reclaiming(g, h) => Reclaiming(g, h)' \/ Kept(h)'
      BY <3>1, <3>2 DEF Reclaiming
    <3> QED
      BY <1>a, <2>1, <3>3
  <2>3. CASE ~Referenced(PurgeNode[g], x)
    <3>1. purge'[g].hashes = purge[g].hashes /\ purge'[g].st = "delete"
      BY <1>p, <1>s, <2>1, <2>3 DEF Purge
    <3>2. Reclaiming(g, h) => Reclaiming(g, h)'
      BY <3>1 DEF Reclaiming
    <3> QED
      BY <1>a, <2>1, <3>2
  <2> QED
    BY <2>2, <2>3
<1>10. CASE DeleteBlob(g)
  <2> PICK x \in purge[g].cur : blob' = IF PurgeNode[g] = Server THEN [blob EXCEPT ![x] = None] ELSE blob
    BY <1>10 DEF DeleteBlob
  <2>1. UNCHANGED rows /\ purge[g].st = "delete"
        /\ Set(g, [purge[g] EXCEPT !.st = "check", !.hashes = @ \ purge[g].cur, !.cur = {}])
    BY <1>10 DEF DeleteBlob
  <2>2. purge[g].cur = {x} /\ x \in Hash
    BY <2>1 DEF Purging
  <2>3. purge'[g].hashes = purge[g].hashes \ {x} /\ purge'[g].st = "check"
    BY <1>p, <1>s, <2>1, <2>2 DEF Purge
  <2>4. blob'[h] \in {blob[h], None} /\ (PurgeNode[g] = Server /\ h = x => blob'[h] = None)
    BY <2>2
  <2>5. Reclaiming(g, h) => Reclaiming(g, h)' \/ Kept(h)'
    BY <2>3, <2>4 DEF Reclaiming, Kept
  <2> QED
    BY <1>a, <2>1, <2>4, <2>5
<1>11. CASE PurgeAborts(g)
  <2>1. UNCHANGED <<blob, rows>> /\ purge[g].st # "idle"
        /\ fault' = [y \in Hash |->
                       IF PurgeNode[g] = Server /\ purge[g].st \in {"check", "delete"}
                          /\ y \in purge[g].hashes
                       THEN fault[y] \cup {"leaked"} ELSE fault[y]]
    BY <1>11 DEF PurgeAborts
  <2>2. purge[g].st \in {"idle", "query", "check", "delete"}
    BY <1>p DEF Purge
  <2>3. Reclaiming(g, h) => Kept(h)'
    BY <2>1, <2>2 DEF Reclaiming, Kept
  <2> QED
    BY <1>a, <2>1, <2>3
<1> QED
  BY <1>5, <1>6, <1>7, <1>8, <1>9, <1>10, <1>11 DEF PurgeStep

\* Every step leaves somebody to answer for every blob.
LEMMA NextLeakInv == LeakInv /\ [Next]_vars => LeakInv'
<1> SUFFICES ASSUME LeakInv, [Next]_vars PROVE LeakInv'
  OBVIOUS
<1>1. TypeInv' /\ FaultGrows /\ Uploading' /\ Purging'
  BY NextTypeInv, FaultGrowing, NextUploading, NextPurging DEF LeakInv
<1>2. ASSUME NEW h \in Hash PROVE Kept(h)'
  <2>1. CASE UNCHANGED <<blob, rows, hand, man, pc, left, purge, fault>>
    BY <2>1 DEF LeakInv, Kept, Referenced, HandlerPending, Abandoned, RunPending, IsLocal, Reclaiming
  <2>2. CASE \E n \in Node : FailStaleJobs(n)
    BY <2>1, <2>2 DEF FailStaleJobs
  <2>3. CASE UNCHANGED vars
    BY <2>1, <2>3 DEF vars
  <2> QED
    BY <1>1, <2>2, <2>3, RunStepKept, HandlerStepKept, PurgeStepKept DEF Next
<1> QED
  BY <1>1, <1>2 DEF LeakInv

\* However backups, deletions, retention, crashes and failures meet, a blob that
\* no row refers to has somebody who is about to record or to reclaim it, or a
\* failure is on record that has left it behind.
THEOREM LeaksRecorded == Spec => []NoUnrecordedLeak
<1>1. LeakInv => NoUnrecordedLeak
  BY DEF LeakInv, NoUnrecordedLeak, Kept, Pending, Abandoned, Reclaiming
<1> QED
  BY InitLeakInv, NextLeakInv, <1>1, PTL DEF Spec

-----------------------------------------------------------------------------
(* Keys. *)

Clean(h) == fault[h] \subseteq {"leaked"}

\* Whose rows they are: the server's own rows are for uploads of other nodes.
Owned ==
  \A n \in Node : \A e \in rows[n] :
    IF e.run = None THEN n = Server /\ e.key # None /\ Owner[e.key[1]] # Server
    ELSE Owner[e.run] = n

\* The keys in hashEncryption are of the run's own uploads, and the current one's
\* is noted.
Noted ==
  \A r \in Run :
    /\ \A h \in Hash : meta[r][h] # None => meta[r][h][1] = r /\ pc[r] \notin {"idle", "manifest"}
    /\ cur[r] # None => cur[r] \in left[r] /\ meta[r][man[r][cur[r]]] = <<r, cur[r]>>

ToUpload(r, h) == pc[r] = "upload" /\ \E x \in left[r] : man[r][x] = h

Receiving(r, x, h) == x \in DOMAIN man[r] /\ man[r][x] = h /\ hand[<<r, x>>] = "recv"

\* Run r puts no blob of hash h any more.
Settled(r, h) ==
  pc[r] \notin {"idle", "manifest"} /\ ~ToUpload(r, h) /\ \A x \in Path : ~Receiving(r, x, h)

\* Node n can use the blob of h: its rows know the key and no other, and nobody
\* who would not be noticed replaces the blob.
Sound(n, h) ==
  /\ blob[h] # None /\ Owner[blob[h][1]] = n
  /\ KeysFor(n, h) = {blob[h]} /\ Settled(blob[h][1], h)

\* Uploads of a hash are received while their run waits for them, or is dead, and
\* the blob is of the run whose row is to follow.
HandledFor(r, h) ==
  \A x \in Path :
    /\ Receiving(r, x, h) => cur[r] = x \/ pc[r] = "dead"
    /\ x \in DOMAIN man[r] /\ man[r][x] = h /\ hand[<<r, x>>] = "stored"
         => blob[h] # None /\ blob[h][1] = r

\* An entry needs a blob that its node can use; a row for an upload the blob of the
\* run that has uploaded it.
RowsSound(h) ==
  \A n \in Node : \A e \in rows[n] :
    e.hash = h => IF e.run = None THEN blob[h] # None /\ blob[h][1] = e.key[1]
                  ELSE Sound(n, h)

\* A run that is to record a hash uploads it first, or its node can use the blob
\* as it is, or the blob is what the run has put.
ReliesOn(r, h) ==
  RunPending(r, h) =>
    IF meta[r][h] = None THEN ToUpload(r, h) \/ Sound(Owner[r], h)
    ELSE blob[h] = meta[r][h] \/ Receiving(r, cur[r], h)

Keyed(h) == RowsSound(h) /\ \A r \in Run : HandledFor(r, h) /\ ReliesOn(r, h)

\* All this for every hash that has met none of the accidents.
KeyInv == Owned /\ Noted /\ \A h \in Hash : Clean(h) => Keyed(h)

\* Nothing is recorded initially.
LEMMA InitKeyInv == Init => KeyInv
<1> SUFFICES ASSUME Init PROVE KeyInv
  OBVIOUS
<1>1. Owned /\ Noted
  BY DEF Init, Owned, Noted
<1>2. ASSUME NEW h \in Hash PROVE Keyed(h)
  BY DEF Init, Keyed, RowsSound, HandledFor, ReliesOn, RunPending, Receiving, Key
<1> QED
  BY <1>1, <1>2 DEF KeyInv

\* The rows of each node stay its own.
LEMMA NextOwned ==
  ASSUME TypeInv, Owned, [Next]_vars
  PROVE  Owned'
<1> USE ConstantsAssumption DEF TypeInv, TypeOK
<1>1. ASSUME \A n \in Node : rows'[n] \subseteq rows[n] PROVE Owned'
  BY <1>1 DEF Owned
<1>2. ASSUME NEW n \in Node, NEW e, AddRow(n, e),
             IF e.run = None THEN n = Server /\ e.key # None /\ Owner[e.key[1]] # Server
             ELSE Owner[e.run] = n
      PROVE  Owned'
  BY <1>2 DEF AddRow, Owned
<1>3. ASSUME NEW r \in Run, RunStep(r) \/ StopBackup(r) \/ Crash(r) PROVE Owned'
  <2>1. CASE InsertEntry(r)
    <3> PICK p \in left[r] :
          AddRow(Owner[r], [run |-> r, path |-> p, hash |-> man[r][p], key |-> meta[r][man[r][p]]])
      BY <2>1 DEF InsertEntry
    <3> QED
      BY <1>2
  <2> QED
    BY <1>1, <1>3, <2>1 DEF RunStep, StartBackup, Stopped, ExchangeFails, ExchangeManifest, SkipFile,
         BeginUpload, UploadReturns, UploadBreaks, UploadsDone, InsertEntryFails, Complete,
         StopBackup, Crash, FinishJob
<1>4. ASSUME NEW r \in Run, NEW p \in Path, HandlerStep(r, p) PROVE Owned'
  <2>1. CASE InsertRow(r, p)
    <3>1. AddRow(Server, [run |-> None, path |-> FileFor(r, man[r][p]), hash |-> man[r][p],
                          key |-> <<r, p>>]) /\ Owner[r] # Server
      BY <2>1 DEF InsertRow, Scoped, IsLocal
    <3>2. <<r, p>> # None /\ <<r, p>>[1] = r
      OBVIOUS
    <3> QED
      BY <1>2, <3>1, <3>2
  <2> QED
    BY <1>1, <1>4, <2>1 DEF HandlerStep, Put, PutFails, InsertRowFails
<1>5. ASSUME NEW g \in Purger, PurgeStep(g) PROVE Owned'
  <2>1. ASSUME NEW D, NEW L, DropRows(PurgeNode[g], D, L) PROVE Owned'
    BY <1>1, <2>1 DEF DropRows
  <2> QED
    BY <1>1, <1>5, <2>1 DEF PurgeStep, BeginEvaluate, DeleteEntryByID, EvaluateDone, QueryEntries,
         DeleteEntries, CountReferences, DeleteBlob, DeleteOrphanJobs, PurgeAborts
<1>6. ASSUME NEW n \in Node, FailStaleJobs(n) PROVE Owned'
  BY <1>1, <1>6 DEF FailStaleJobs
<1>7. CASE UNCHANGED vars
  BY <1>1, <1>7 DEF vars
<1> QED
  BY <1>3, <1>4, <1>5, <1>6, <1>7 DEF Next

\* A run notes the keys of its uploads.
LEMMA NextNoted ==
  ASSUME TypeInv, Noted, [Next]_vars
  PROVE  Noted'
<1> USE ConstantsAssumption DEF TypeInv, TypeOK
<1>1. ASSUME UNCHANGED runVars PROVE Noted'
  BY <1>1 DEF Noted, runVars
<1>2. ASSUME NEW r \in Run, UNCHANGED <<meta, man>>,
             \A q \in Run \ {r} : pc'[q] = pc[q] /\ cur'[q] = cur[q] /\ left'[q] = left[q],
             pc[r] \notin {"idle", "manifest"} => pc'[r] \notin {"idle", "manifest"},
             cur'[r] # None => cur'[r] = cur[r] /\ left'[r] = left[r]
      PROVE  Noted'
  <2>1. ASSUME NEW q \in Run, NEW h \in Hash, meta'[q][h] # None
        PROVE  meta'[q][h][1] = q /\ pc'[q] \notin {"idle", "manifest"}
    BY <1>2, <2>1 DEF Noted
  <2>2. ASSUME NEW q \in Run, cur'[q] # None
        PROVE  cur'[q] \in left'[q] /\ meta'[q][man'[q][cur'[q]]] = <<q, cur'[q]>>
    <3>1. cur'[q] = cur[q] /\ left'[q] = left[q]
      BY <1>2, <2>2
    <3> QED
      BY <1>2, <2>2, <3>1 DEF Noted
  <2> QED
    BY <2>1, <2>2 DEF Noted
<1>3. ASSUME NEW r \in Run, RunStep(r) \/ StopBackup(r) \/ Crash(r) PROVE Noted'
  <2>1. CASE StartBackup(r)
    <3>1. UNCHANGED <<meta, cur, left>> /\ pc[r] = "idle" /\ cur[r] = None
          /\ \A q \in Run : q # r => pc'[q] = pc[q] /\ man'[q] = man[q]
      BY <2>1 DEF StartBackup, Scoped
    <3>2. ASSUME NEW q \in Run, NEW h \in Hash, meta[q][h] # None
          PROVE  meta[q][h][1] = q /\ pc'[q] \notin {"idle", "manifest"}
      <4>1. q # r
        BY <3>1, <3>2 DEF Noted
      <4> QED
        BY <3>1, <3>2, <4>1 DEF Noted
    <3>3. ASSUME NEW q \in Run, cur[q] # None
          PROVE  cur[q] \in left[q] /\ meta[q][man'[q][cur[q]]] = <<q, cur[q]>>
      BY <3>1, <3>3 DEF Noted
    <3> QED
      BY <3>1, <3>2, <3>3 DEF Noted
  <2>2. CASE Stopped(r) \/ ExchangeFails(r) \/ Complete(r)
    <3>1. UNCHANGED <<meta, man, cur, left>> /\ pc' = [pc EXCEPT ![r] = "done"]
      BY <2>2 DEF Stopped, ExchangeFails, Complete, FinishJob
    <3> QED
      BY <1>2, <3>1
  <2>3. CASE ExchangeManifest(r)
    <3>1. UNCHANGED <<meta, man, cur>> /\ pc' = [pc EXCEPT ![r] = "upload"] /\ cur[r] = None
          /\ \A q \in Run \ {r} : left'[q] = left[q]
      BY <2>3 DEF ExchangeManifest, Scoped
    <3> QED
      BY <1>2, <3>1
  <2>4. CASE BeginUpload(r)
    <3> PICK p \in left[r] : /\ cur' = [cur EXCEPT ![r] = p]
                             /\ meta' = [meta EXCEPT ![r][man[r][p]] = <<r, p>>]
      BY <2>4 DEF BeginUpload
    <3>1. UNCHANGED <<man, pc, left>> /\ pc[r] = "upload"
      BY <2>4 DEF BeginUpload
    <3>2. p \in DOMAIN man[r] /\ man[r][p] \in Hash /\ <<r, p>>[1] = r
      BY FileForType DEF Scoped
    <3>3. /\ \A q \in Run \ {r} : meta'[q] = meta[q] /\ cur'[q] = cur[q]
          /\ cur'[r] = p /\ meta'[r][man[r][p]] = <<r, p>>
          /\ \A h \in Hash : meta'[r][h] \in {meta[r][h], <<r, p>>}
      BY <3>2
    <3> QED
      BY <3>1, <3>2, <3>3 DEF Noted
  <2>5. CASE UploadReturns(r) \/ UploadBreaks(r)
    <3>1. UNCHANGED <<meta, man, pc>> /\ cur' = [cur EXCEPT ![r] = None]
          /\ \A q \in Run \ {r} : left'[q] = left[q]
      BY <2>5 DEF UploadReturns, UploadBreaks
    <3> QED
      BY <1>2, <3>1
  <2>6. CASE SkipFile(r) \/ InsertEntry(r) \/ InsertEntryFails(r)
    <3>1. UNCHANGED <<meta, man, pc, cur>> /\ cur[r] = None
          /\ \A q \in Run \ {r} : left'[q] = left[q]
      <4>1. CASE SkipFile(r)
        BY <4>1 DEF SkipFile
      <4>2. CASE InsertEntry(r) \/ InsertEntryFails(r)
        <5>1. /\ UNCHANGED <<meta, man, pc, cur>> /\ pc[r] = "entries"
              /\ \A q \in Run \ {r} : left'[q] = left[q]
          BY <4>2 DEF InsertEntry, InsertEntryFails
        <5>2. cur[r] = None
          BY <5>1 DEF Scoped
        <5> QED
          BY <5>1, <5>2
      <4> QED
        BY <2>6, <4>1, <4>2
    <3> QED
      BY <1>2, <3>1
  <2>7. CASE UploadsDone(r)
    <3>1. UNCHANGED <<meta, man, cur>> /\ cur[r] = None /\ pc' = [pc EXCEPT ![r] = "entries"]
          /\ \A q \in Run \ {r} : left'[q] = left[q]
      BY <2>7 DEF UploadsDone
    <3> QED
      BY <1>2, <3>1
  <2>8. CASE StopBackup(r)
    <3>1. UNCHANGED <<meta, man, cur, left, pc>>
      BY <2>8 DEF StopBackup
    <3> QED
      BY <1>2, <3>1
  <2>9. CASE Crash(r)
    <3>1. UNCHANGED <<meta, man, left>> /\ cur' = [cur EXCEPT ![r] = None]
          /\ pc' = [pc EXCEPT ![r] = "dead"]
      BY <2>9 DEF Crash
    <3> QED
      BY <1>2, <3>1
  <2> QED
    BY <1>3, <2>1, <2>2, <2>3, <2>4, <2>5, <2>6, <2>7, <2>8, <2>9 DEF RunStep
<1>4. ASSUME NEW r \in Run, NEW p \in Path, HandlerStep(r, p) PROVE Noted'
  BY <1>1, <1>4 DEF HandlerStep, Put, PutFails, InsertRow, InsertRowFails
<1>5. ASSUME NEW g \in Purger, PurgeStep(g) PROVE Noted'
  BY <1>1, <1>5 DEF PurgeStep, BeginEvaluate, DeleteEntryByID, EvaluateDone, QueryEntries,
       DeleteEntries, CountReferences, DeleteBlob, DeleteOrphanJobs, PurgeAborts
<1>6. ASSUME NEW n \in Node, FailStaleJobs(n) PROVE Noted'
  BY <1>1, <1>6 DEF FailStaleJobs, runVars
<1>7. CASE UNCHANGED vars
  BY <1>1, <1>7 DEF vars, runVars
<1> QED
  BY <1>3, <1>4, <1>5, <1>6, <1>7 DEF Next

\* Where neither the runs nor the blob and the keys of a hash change, and uploads
\* of it are received by the same handlers, all stays well; a node that loses keys
\* has no row of the hash left and no run that would write one.
LEMMA KeyedFrame ==
  ASSUME TypeInv, NEW h \in Hash, Keyed(h), UNCHANGED runVars, blob'[h] = blob[h],
         \A n \in Node : \A e \in rows'[n] : e.hash = h => e \in rows[n],
         \A n \in Node : \/ KeysFor(n, h)' = KeysFor(n, h)
                         \/ /\ ~Referenced(n, h)'
                            /\ \A r \in Run : Owner[r] = n => ~RunPending(r, h),
         \A r \in Run, x \in Path : /\ Receiving(r, x, h)' <=> Receiving(r, x, h)
                                    /\ x \in DOMAIN man[r] /\ man[r][x] = h
                                       /\ hand'[<<r, x>>] = "stored" => hand[<<r, x>>] = "stored"
  PROVE  Keyed(h)'
<1> USE ConstantsAssumption DEF TypeInv, TypeOK
<1>1. ASSUME NEW r \in Run PROVE Settled(r, h)' <=> Settled(r, h)
  BY DEF Settled, ToUpload, runVars
<1>2. ASSUME NEW n \in Node, Sound(n, h), KeysFor(n, h)' = KeysFor(n, h) PROVE Sound(n, h)'
  <2>1. blob[h][1] \in Run
    BY <1>2 DEF Sound, Key
  <2> QED
    BY <1>1, <1>2, <2>1 DEF Sound
<1>3. RowsSound(h)'
  BY <1>2 DEF Keyed, RowsSound, Referenced
<1>4. ASSUME NEW r \in Run PROVE HandledFor(r, h)'
  BY <1>4 DEF Keyed, HandledFor, runVars
<1>5. ASSUME NEW r \in Run PROVE ReliesOn(r, h)'
  <2>1. RunPending(r, h)' <=> RunPending(r, h)
    BY DEF RunPending, runVars
  <2>2. ToUpload(r, h)' <=> ToUpload(r, h)
    BY DEF ToUpload, runVars
  <2>3. cur[r] \in Path => (Receiving(r, cur[r], h) => Receiving(r, cur[r], h)')
    BY DEF runVars
  <2>4. Receiving(r, cur[r], h) => cur[r] \in Path
    BY ManifestType DEF Receiving
  <2>5. meta'[r][h] = meta[r][h] /\ Owner[r] \in Node
    BY DEF runVars
  <2>6. RunPending(r, h) => KeysFor(Owner[r], h)' = KeysFor(Owner[r], h)
    BY <2>5
  <2>7. ReliesOn(r, h)
    BY DEF Keyed
  <2> QED
    BY <1>2, <2>1, <2>2, <2>3, <2>4, <2>5, <2>6, <2>7 DEF ReliesOn
<1> QED
  BY <1>3, <1>4, <1>5 DEF Keyed

\* A handler that replaces a blob that somebody else relies on is on record.
LEMMA HandlerStepKeyed ==
  ASSUME TypeInv, Noted, FaultGrows, NEW h \in Hash, Clean(h) => Keyed(h), Clean(h)',
         NEW r \in Run, NEW p \in Path, HandlerStep(r, p)
  PROVE  Keyed(h)'
<1> USE ConstantsAssumption DEF TypeInv, TypeOK
<1>1. Keyed(h)
  BY DEF FaultGrows, Clean
<1>2. hand[<<r, p>>] \in {"recv", "stored"} /\ UNCHANGED runVars
  BY DEF HandlerStep, Put, PutFails, InsertRow, InsertRowFails
<1>3. p \in DOMAIN man[r] /\ man[r][p] \in Hash /\ pc[r] \notin {"idle", "manifest"}
  BY <1>2, FileForType DEF Scoped
<1>4. ASSUME NEW n \in Node, NEW m \in Node, NEW e, AddRow(n, e),
             e.hash # h \/ (m # n)
      PROVE  /\ KeysFor(m, h)' = KeysFor(m, h)
             /\ \A f \in rows'[m] : f.hash = h => f \in rows[m]
  <2>1. \A f : f.hash = h => (f \in rows'[m] <=> f \in rows[m])
    BY <1>4 DEF AddRow
  <2>2. {f \in rows'[m] : f.hash = h} = {f \in rows[m] : f.hash = h}
    BY <2>1
  <2> QED
    BY <2>1, <2>2 DEF KeysFor
<1>5. ASSUME UNCHANGED rows PROVE \A n \in Node : KeysFor(n, h)' = KeysFor(n, h)
  BY <1>5 DEF KeysFor
<1>6. CASE man[r][p] # h
  <2>1. blob'[h] = blob[h]
    BY <1>6 DEF HandlerStep, Put, PutFails, InsertRow, InsertRowFails
  <2>2. \A q \in Run, x \in Path : <<q, x>> # <<r, p>> => hand'[<<q, x>>] = hand[<<q, x>>]
    BY DEF HandlerStep, Put, PutFails, InsertRow, InsertRowFails, Key
  <2>3. hand'[<<r, p>>] # "recv" /\ (hand'[<<r, p>>] = "stored" => hand[<<r, p>>] = "recv")
    BY DEF HandlerStep, Put, PutFails, InsertRow, InsertRowFails, Key
  <2>4. \A q \in Run, x \in Path : Receiving(q, x, h)' <=> Receiving(q, x, h)
    BY <1>2, <1>6, <2>2 DEF Receiving, runVars
  <2>5. \A n \in Node : /\ KeysFor(n, h)' = KeysFor(n, h)
                        /\ \A e \in rows'[n] : e.hash = h => e \in rows[n]
    <3>1. CASE UNCHANGED rows
      BY <1>5, <3>1
    <3>2. CASE InsertRow(r, p)
      BY <1>4, <1>6, <3>2 DEF InsertRow
    <3> QED
      BY <3>1, <3>2 DEF HandlerStep, Put, PutFails, InsertRowFails
  <2>6. \A q \in Run, x \in Path :
          x \in DOMAIN man[q] /\ man[q][x] = h /\ hand'[<<q, x>>] = "stored"
            => hand[<<q, x>>] = "stored"
    BY <1>6, <2>2
  <2> QED
    BY <1>1, <1>2, <2>1, <2>4, <2>5, <2>6, KeyedFrame
<1>7. CASE man[r][p] = h /\ Put(r, p)
  <2>1. /\ hand[<<r, p>>] = "recv" /\ blob'[h] = <<r, p>> /\ UNCHANGED rows
        /\ blob[h] = None \/ blob[h][1] = r
    BY <1>7 DEF Put, Mark, Clean
  <2>2. Receiving(r, p, h)
    BY <1>3, <1>7, <2>1 DEF Receiving
  <2>3. \A n \in Node : ~Sound(n, h)
    BY <2>1, <2>2 DEF Sound, Settled
  <2>4. <<r, p>>[1] = r /\ <<r, p>> # None
    OBVIOUS
  <2>5. RowsSound(h)'
    BY <1>1, <2>1, <2>3, <2>4 DEF Keyed, RowsSound
  <2>6. \A q \in Run, x \in Path : <<q, x>> # <<r, p>> => hand'[<<q, x>>] = hand[<<q, x>>]
    BY <1>7 DEF Put, Key
  <2>7. hand'[<<r, p>>] # "recv"
    BY <1>7 DEF Put, Key
  <2>8. ASSUME NEW q \in Run PROVE HandledFor(q, h)'
    <3>1. ASSUME NEW x \in Path, Receiving(q, x, h)' PROVE cur'[q] = x \/ pc'[q] = "dead"
      <4>1. Receiving(q, x, h)
        BY <1>2, <2>6, <2>7, <3>1 DEF Receiving, runVars
      <4>2. HandledFor(q, h)
        BY <1>1 DEF Keyed
      <4> QED
        BY <1>2, <4>1, <4>2 DEF HandledFor, runVars
    <3>2. ASSUME NEW x \in Path, x \in DOMAIN man[q], man[q][x] = h, hand'[<<q, x>>] = "stored"
          PROVE  q = r
      BY <1>1, <2>1, <2>6, <3>2 DEF Keyed, HandledFor
    <3> QED
      BY <1>2, <2>1, <2>4, <3>1, <3>2 DEF HandledFor, runVars
  <2>9. ASSUME NEW q \in Run PROVE ReliesOn(q, h)'
    <3> SUFFICES ASSUME RunPending(q, h)' PROVE ReliesOn(q, h)'
      BY DEF ReliesOn
    <3>1. RunPending(q, h) /\ pc[q] # "dead"
      BY <1>2 DEF RunPending, runVars
    <3>2. CASE meta[q][h] = None
      <4>1. ToUpload(q, h)
        BY <1>1, <2>3, <3>1, <3>2 DEF Keyed, ReliesOn
      <4> QED
        BY <1>2, <3>2, <4>1 DEF ReliesOn, ToUpload, runVars
    <3>3. CASE meta[q][h] # None /\ q = r
      <4>1. cur[r] = p
        <5>1. HandledFor(r, h)
          BY <1>1 DEF Keyed
        <5> QED
          BY <2>2, <3>1, <3>3, <5>1 DEF HandledFor
      <4>2. meta[r][h] = <<r, p>>
        <5>1. cur[r] # None
          BY <4>1
        <5> QED
          BY <1>7, <4>1, <5>1 DEF Noted
      <4> QED
        BY <1>2, <2>1, <3>3, <4>2 DEF ReliesOn, runVars
    <3>4. CASE meta[q][h] # None /\ q # r
      <4>1. Receiving(q, cur[q], h)
        BY <1>1, <2>1, <3>1, <3>4 DEF Keyed, ReliesOn, Noted
      <4>2. cur[q] \in Path
        BY <4>1, ManifestType DEF Receiving
      <4>3. Receiving(q, cur[q], h)'
        BY <1>2, <2>6, <3>4, <4>1, <4>2 DEF Receiving, runVars
      <4> QED
        BY <1>2, <3>4, <4>3 DEF ReliesOn, runVars
    <3> QED
      BY <3>2, <3>3, <3>4
  <2> QED
    BY <2>5, <2>8, <2>9 DEF Keyed
<1>8. CASE man[r][p] = h /\ InsertRow(r, p)
  <2> DEFINE e == [run |-> None, path |-> FileFor(r, h), hash |-> h, key |-> <<r, p>>]
  <2>1. /\ hand[<<r, p>>] = "stored" /\ UNCHANGED blob /\ AddRow(Server, e) /\ ~IsLocal(r)
    BY <1>8 DEF InsertRow, Scoped
  <2>2. blob[h] # None /\ blob[h][1] = r
    BY <1>1, <1>3, <1>8, <2>1 DEF Keyed, HandledFor
  <2>3. ~Sound(Server, h)
    BY <2>1, <2>2 DEF Sound, IsLocal
  <2>4. \A q \in Run, x \in Path : <<q, x>> # <<r, p>> => hand'[<<q, x>>] = hand[<<q, x>>]
    BY <1>8 DEF InsertRow, Key
  <2>5. hand'[<<r, p>>] \in {"acked", "failed"}
    BY <1>8 DEF InsertRow, Key
  <2>6. \A q \in Run, x \in Path : Receiving(q, x, h)' <=> Receiving(q, x, h)
    BY <1>2, <2>1, <2>4, <2>5 DEF Receiving, runVars
  <2>7. ASSUME NEW q \in Run PROVE Settled(q, h)' <=> Settled(q, h)
    BY <1>2, <2>6 DEF Settled, ToUpload, runVars
  <2>8. ASSUME NEW n \in Node, Sound(n, h) PROVE Sound(n, h)'
    <3>1. n # Server /\ blob[h][1] \in Run
      BY <2>2, <2>3, <2>8
    <3>2. KeysFor(n, h)' = KeysFor(n, h)
      BY <1>4, <2>1, <3>1
    <3> QED
      BY <2>1, <2>7, <2>8, <3>1, <3>2 DEF Sound
  <2>9. RowsSound(h)'
    <3> SUFFICES ASSUME NEW n \in Node, NEW f \in rows'[n], f.hash = h
                 PROVE  IF f.run = None THEN blob'[h] # None /\ blob'[h][1] = f.key[1]
                        ELSE Sound(n, h)'
      BY DEF RowsSound
    <3>1. CASE f \in rows[n]
      BY <1>1, <2>1, <2>8, <3>1 DEF Keyed, RowsSound
    <3>2. CASE f = e
      BY <2>1, <2>2, <3>2
    <3> QED
      BY <2>1, <3>1, <3>2 DEF AddRow
  <2>10. ASSUME NEW q \in Run PROVE HandledFor(q, h)'
    BY <1>1, <1>2, <2>1, <2>4, <2>5, <2>6 DEF Keyed, HandledFor, runVars
  <2>11. ASSUME NEW q \in Run PROVE ReliesOn(q, h)'
    <3>1. RunPending(q, h)' <=> RunPending(q, h)
      BY <1>2 DEF RunPending, runVars
    <3>2. ToUpload(q, h)' <=> ToUpload(q, h)
      BY <1>2 DEF ToUpload, runVars
    <3>3. Receiving(q, cur[q], h) => Receiving(q, cur[q], h)'
      BY <1>2, <2>6, ManifestType DEF Receiving, runVars
    <3>4. meta'[q][h] = meta[q][h] /\ Owner[q] \in Node /\ ReliesOn(q, h)
      BY <1>1, <1>2 DEF Keyed, runVars
    <3> QED
      BY <2>1, <2>8, <3>1, <3>2, <3>3, <3>4 DEF ReliesOn
  <2> QED
    BY <2>9, <2>10, <2>11 DEF Keyed
<1>9. CASE man[r][p] = h /\ InsertRowFails(r, p)
  <2>1. UNCHANGED <<blob, rows>> /\ hand[<<r, p>>] = "stored"
        /\ hand' = [hand EXCEPT ![<<r, p>>] = "failed"]
    BY <1>9 DEF InsertRowFails
  <2>2. \A q \in Run, x \in Path :
          /\ hand'[<<q, x>>] = "recv" <=> hand[<<q, x>>] = "recv"
          /\ hand'[<<q, x>>] = "stored" => hand[<<q, x>>] = "stored"
    BY <2>1 DEF Key
  <2>3. \A q \in Run, x \in Path : Receiving(q, x, h)' <=> Receiving(q, x, h)
    BY <1>2, <2>2 DEF Receiving, runVars
  <2> QED
    BY <1>1, <1>2, <1>5, <2>1, <2>2, <2>3, KeyedFrame
<1>10. ~(man[r][p] = h /\ PutFails(r, p))
  <2> SUFFICES ASSUME man[r][p] = h, PutFails(r, p) PROVE FALSE
    OBVIOUS
  <2>1. "upload" \in fault'[h]
    BY DEF PutFails, Mark
  <2> QED
    BY <2>1 DEF Clean
<1> QED
  BY <1>6, <1>7, <1>8, <1>9, <1>10 DEF HandlerStep

\* A purger that parts rows from their key or their blob is on record.
LEMMA PurgeStepKeyed ==
  ASSUME StoreInv, FaultGrows, NEW h \in Hash, Clean(h) => Keyed(h), Clean(h)',
         NEW g \in Purger, PurgeStep(g)
  PROVE  Keyed(h)'
<1> USE ConstantsAssumption DEF StoreInv, TypeInv, TypeOK
<1>1. Keyed(h)
  BY DEF FaultGrows, Clean
<1>2. UNCHANGED <<runVars, hand>>
  BY DEF PurgeStep, BeginEvaluate, DeleteEntryByID, EvaluateDone, QueryEntries,
     DeleteEntries, CountReferences, DeleteBlob, DeleteOrphanJobs, PurgeAborts
<1>3. \A q \in Run, x \in Path : Receiving(q, x, h)' <=> Receiving(q, x, h)
  BY <1>2 DEF Receiving, runVars
<1>4. ASSUME UNCHANGED rows, blob'[h] = blob[h] PROVE Keyed(h)'
  <2>1. \A n \in Node : KeysFor(n, h)' = KeysFor(n, h)
    BY <1>4 DEF KeysFor
  <2> QED
    BY <1>1, <1>2, <1>3, <1>4, <2>1, KeyedFrame
<1>5. ASSUME NEW n \in Node, NEW D, NEW L, DropRows(n, D, L), UNCHANGED blob PROVE Keyed(h)'
  <2>1. /\ rows' = [rows EXCEPT ![n] = @ \ D]
        /\ h \notin Unkeys(n, D)
    <3>1. h \in Unkeys(n, D) => "severed" \in fault'[h]
      BY <1>5 DEF DropRows
    <3> QED
      BY <1>5, <3>1 DEF DropRows, Clean
  <2>2. rows'[n] = rows[n] \ D /\ \A m \in Node : m # n => rows'[m] = rows[m]
    BY <2>1
  <2>3. \A m \in Node : \A e \in rows'[m] : e.hash = h => e \in rows[m]
    BY <2>2
  <2>4. ASSUME NEW m \in Node, m # n PROVE KeysFor(m, h)' = KeysFor(m, h)
    BY <2>2, <2>4 DEF KeysFor
  <2>5. CASE \E e \in D : e.hash = h /\ e.key # None
    <3>1. ~Referenced(n, h)' /\ \A r \in Run : Owner[r] = n => ~RunPending(r, h)
      BY <2>1, <2>2, <2>5 DEF Unkeys, Referenced
    <3> QED
      BY <1>1, <1>2, <1>3, <1>5, <2>3, <2>4, <3>1, KeyedFrame
  <2>6. CASE ~\E e \in D : e.hash = h /\ e.key # None
    <3>1. KeysFor(n, h)' = KeysFor(n, h)
      <4>1. ASSUME NEW k
            PROVE  k \in KeysFor(n, h) <=> k # None /\ \E e \in rows[n] : e.hash = h /\ e.key = k
        BY DEF KeysFor
      <4>2. ASSUME NEW k
            PROVE  k \in KeysFor(n, h)' <=> k # None /\ \E e \in rows'[n] : e.hash = h /\ e.key = k
        BY DEF KeysFor
      <4>3. ASSUME NEW k PROVE k \in KeysFor(n, h)' <=> k \in KeysFor(n, h)
        <5>1. ASSUME k # None
              PROVE  (\E e \in rows'[n] : e.hash = h /\ e.key = k)
                       <=> (\E e \in rows[n] : e.hash = h /\ e.key = k)
          BY <2>2, <2>6, <5>1
        <5> QED
          BY <4>1, <4>2, <5>1
      <4> QED
        BY <4>3
    <3> QED
      BY <1>1, <1>2, <1>3, <1>5, <2>3, <2>4, <3>1, KeyedFrame
  <2> QED
    BY <2>5, <2>6
<1>6. CASE DeleteEntryByID(g) \/ DeleteEntries(g)
  <2>1. PurgeNode[g] \in Node
    OBVIOUS
  <2> QED
    BY <1>5, <1>6, <2>1 DEF DeleteEntryByID, DeleteEntries
<1>7. CASE DeleteBlob(g)
  <2> PICK c \in purge[g].cur :
        /\ blob' = IF PurgeNode[g] = Server THEN [blob EXCEPT ![c] = None] ELSE blob
        /\ Mark(c, {f \in {"raced", "severed"} :
                      /\ PurgeNode[g] = Server
                      /\ f = "raced" => Pending(c)
                      /\ f = "severed" => HeldElsewhere(c)})
    BY <1>7 DEF DeleteBlob
  <2>1. UNCHANGED rows /\ purge[g].st = "delete"
    BY <1>7 DEF DeleteBlob
  <2>2. CASE c # h \/ PurgeNode[g] # Server
    BY <1>4, <2>1, <2>2
  <2>3. CASE c = h /\ PurgeNode[g] = Server
    <3>1. ~Pending(h) /\ ~HeldElsewhere(h)
      <4>1. (Pending(h) => "raced" \in fault'[h]) /\ (HeldElsewhere(h) => "severed" \in fault'[h])
        BY <2>3 DEF Mark
      <4> QED
        BY <4>1 DEF Clean
    <3>2. ~Referenced(Server, h)
      <4>1. "raced" \notin fault[h]
        BY DEF FaultGrows, Clean
      <4> QED
        BY <2>1, <2>3, <4>1 DEF CondemnedUnreferenced
    <3>3. RowsSound(h)'
      <4>1. \A n \in Node : ~Referenced(n, h)
        BY <3>1, <3>2 DEF HeldElsewhere
      <4> QED
        BY <2>1, <4>1 DEF RowsSound, Referenced
    <3>4. ASSUME NEW q \in Run PROVE HandledFor(q, h)'
      <4>1. HandledFor(q, h)
        BY <1>1 DEF Keyed
      <4>2. \A x \in Path : ~(x \in DOMAIN man[q] /\ man[q][x] = h /\ hand[<<q, x>>] = "stored")
        BY <3>1 DEF Pending, HandlerPending
      <4> QED
        BY <1>2, <1>3, <4>1, <4>2 DEF HandledFor, runVars
    <3>5. ASSUME NEW q \in Run PROVE ReliesOn(q, h)'
      <4>1. ~RunPending(q, h)
        BY <3>1 DEF Pending, HeldElsewhere
      <4>2. RunPending(q, h)' <=> RunPending(q, h)
        BY <1>2 DEF RunPending, runVars
      <4> QED
        BY <4>1, <4>2 DEF ReliesOn
    <3> QED
      BY <3>3, <3>4, <3>5 DEF Keyed
  <2> QED
    BY <2>2, <2>3
<1>8. CASE BeginEvaluate(g) \/ EvaluateDone(g) \/ QueryEntries(g) \/ CountReferences(g)
           \/ DeleteOrphanJobs(g) \/ PurgeAborts(g)
  <2>1. UNCHANGED <<blob, rows>>
    BY <1>8 DEF BeginEvaluate, EvaluateDone, QueryEntries, CountReferences, DeleteOrphanJobs,
                PurgeAborts
  <2> QED
    BY <1>4, <2>1
<1> QED
  BY <1>6, <1>7, <1>8 DEF PurgeStep

\* A run that may not be able to use a blob it is spared, and one that has not
\* stored what it records, is on record.
LEMMA RunStepKeyed ==
  ASSUME TypeInv, TypeInv', Owned, Noted, FaultGrows, NEW h \in Hash, Clean(h) => Keyed(h),
         Clean(h)', NEW r \in Run, RunStep(r) \/ StopBackup(r) \/ Crash(r)
  PROVE  Keyed(h)'
<1> USE ConstantsAssumption DEF TypeInv, TypeOK
<1>1. Keyed(h)
  BY DEF FaultGrows, Clean
<1>2. /\ UNCHANGED blob
      /\ \A q \in Run : q # r => /\ pc'[q] = pc[q] /\ man'[q] = man[q] /\ left'[q] = left[q]
                                 /\ cur'[q] = cur[q] /\ meta'[q] = meta[q]
  <2>1. CASE StartBackup(r)
    BY <2>1 DEF StartBackup
  <2>2. CASE Stopped(r) \/ ExchangeFails(r) \/ Complete(r)
    BY <2>2 DEF Stopped, ExchangeFails, Complete, FinishJob
  <2>3. CASE ExchangeManifest(r) \/ SkipFile(r) \/ UploadsDone(r)
    BY <2>3 DEF ExchangeManifest, SkipFile, UploadsDone
  <2>4. CASE BeginUpload(r)
    BY <2>4 DEF BeginUpload
  <2>5. CASE UploadReturns(r) \/ UploadBreaks(r)
    BY <2>5 DEF UploadReturns, UploadBreaks
  <2>6. CASE InsertEntry(r) \/ InsertEntryFails(r)
    BY <2>6 DEF InsertEntry, InsertEntryFails
  <2>7. CASE StopBackup(r) \/ Crash(r)
    BY <2>7 DEF StopBackup, Crash
  <2> QED
    BY <2>1, <2>2, <2>3, <2>4, <2>5, <2>6, <2>7 DEF RunStep
<1>3. \A q \in Run, x \in Path : q # r => hand'[<<q, x>>] = hand[<<q, x>>]
  <2>1. CASE BeginUpload(r)
    BY <2>1 DEF BeginUpload, Key
  <2>2. CASE Crash(r)
    <3>1. \A q \in Run, x \in Path : <<q, x>> \in Key /\ <<q, x>>[1] = q
      BY DEF Key
    <3> QED
      BY <2>2, <3>1 DEF Crash
  <2> QED
    BY <2>1, <2>2 DEF RunStep, StartBackup, Stopped, ExchangeFails, ExchangeManifest, SkipFile,
       UploadReturns, UploadBreaks, UploadsDone, InsertEntry, InsertEntryFails, Complete,
       StopBackup, FinishJob
<1>4. \A x \in DOMAIN man[r] : x \in Path /\ x # None /\ man[r][x] \in Hash
  BY ManifestType
<1>5. ASSUME NEW F, NEW k \in Hash, Mark(k, F), "upload" \in F PROVE k # h
  BY <1>5 DEF Mark, Clean
\* What the step does to the uploads of the run itself.
<1>6. /\ Settled(r, h) => Settled(r, h)'
      /\ HandledFor(r, h)'
  <2>1. HandledFor(r, h)
    BY <1>1 DEF Keyed
  <2>2. CASE StartBackup(r)
    <3>1. UNCHANGED <<hand, cur>> /\ pc[r] = "idle"
      BY <2>2 DEF StartBackup
    <3>2. \A x \in Path : hand'[<<r, x>>] = "none"
      BY <3>1 DEF Scoped
    <3> QED
      BY <3>1, <3>2 DEF Settled, HandledFor, Receiving
  <2>3. CASE ExchangeManifest(r)
    <3>1. UNCHANGED hand /\ pc[r] = "manifest"
      BY <2>3 DEF ExchangeManifest
    <3>2. \A x \in Path : hand'[<<r, x>>] = "none"
      BY <3>1 DEF Scoped
    <3> QED
      BY <3>1, <3>2 DEF Settled, HandledFor, Receiving
  <2>4. CASE BeginUpload(r)
    <3> PICK p \in left[r] :
          /\ cur' = [cur EXCEPT ![r] = p]
          /\ hand' = [hand EXCEPT ![<<r, p>>] = "recv"]
      BY <2>4 DEF BeginUpload
    <3>1. UNCHANGED <<pc, man, left>> /\ pc[r] = "upload" /\ cur[r] = None
      BY <2>4 DEF BeginUpload
    <3>2. \A x \in Path : x # p => hand'[<<r, x>>] = hand[<<r, x>>]
      BY DEF Key
    <3>3. p \in Path /\ hand'[<<r, p>>] = "recv" /\ cur'[r] = p
      BY DEF Key
    <3>4. \A x \in Path : ~Receiving(r, x, h)
      BY <1>4, <2>1, <3>1 DEF HandledFor, Receiving
    <3>5. \A x \in Path : Receiving(r, x, h)' => x = p /\ man[r][p] = h
      BY <3>1, <3>2, <3>4 DEF Receiving
    <3>6. HandledFor(r, h)'
      BY <1>2, <2>1, <3>1, <3>2, <3>3, <3>5 DEF HandledFor
    <3>7. Settled(r, h) => man[r][p] # h
      BY <3>1 DEF Settled, ToUpload
    <3>8. Settled(r, h) => Settled(r, h)'
      BY <3>1, <3>5, <3>7 DEF Settled, ToUpload
    <3> QED
      BY <3>6, <3>8
  <2>5. ASSUME UNCHANGED man, pc'[r] \notin {"idle", "manifest"},
               pc'[r] = "upload" => pc[r] = "upload" /\ left'[r] \subseteq left[r],
               \A x \in Path : /\ hand'[<<r, x>>] = "recv" => hand[<<r, x>>] = "recv"
                               /\ hand'[<<r, x>>] = "stored" => hand[<<r, x>>] = "stored",
               \A x \in Path : Receiving(r, x, h)' => cur'[r] = x \/ pc'[r] = "dead"
        PROVE  /\ Settled(r, h) => Settled(r, h)'
               /\ HandledFor(r, h)'
    <3>1. HandledFor(r, h)'
      BY <1>2, <2>1, <2>5 DEF HandledFor
    <3>2. \A x \in Path : Receiving(r, x, h)' => Receiving(r, x, h)
      BY <2>5 DEF Receiving
    <3>3. ToUpload(r, h)' => ToUpload(r, h)
      BY <2>5 DEF ToUpload
    <3> QED
      BY <2>5, <3>1, <3>2, <3>3 DEF Settled
  <2>6. CASE Stopped(r) \/ ExchangeFails(r) \/ Complete(r)
    <3>1. UNCHANGED <<man, hand, left, cur>> /\ pc'[r] = "done"
      BY <2>6 DEF Stopped, ExchangeFails, Complete, FinishJob
    <3>2. pc[r] # "dead" /\ (cur[r] = None \/ pc[r] = "manifest")
      BY <2>6 DEF Stopped, ExchangeFails, Complete, Live, Scoped
    <3>3. cur[r] = None
      BY <3>2 DEF Scoped
    <3>4. \A x \in Path : ~Receiving(r, x, h)'
      BY <1>4, <2>1, <3>1, <3>2, <3>3 DEF HandledFor, Receiving
    <3> QED
      BY <2>5, <3>1, <3>4
  <2>7. CASE SkipFile(r) \/ UploadsDone(r) \/ InsertEntry(r) \/ InsertEntryFails(r)
    <3>1. UNCHANGED <<man, hand, cur>> /\ pc[r] \in {"upload", "entries"}
          /\ pc'[r] \in {"upload", "entries"}
          /\ (pc'[r] = "upload" => pc[r] = "upload" /\ left'[r] \subseteq left[r])
      <4>1. CASE SkipFile(r)
        BY <4>1 DEF SkipFile
      <4>2. CASE UploadsDone(r)
        BY <4>2 DEF UploadsDone
      <4>3. CASE InsertEntry(r) \/ InsertEntryFails(r)
        BY <4>3 DEF InsertEntry, InsertEntryFails
      <4> QED
        BY <2>7, <4>1, <4>2, <4>3
    <3>2. \A x \in Path : Receiving(r, x, h)' => cur'[r] = x \/ pc'[r] = "dead"
      BY <2>1, <3>1 DEF HandledFor, Receiving
    <3> QED
      BY <2>5, <3>1, <3>2
  <2>8. CASE UploadReturns(r)
    <3>1. UNCHANGED <<man, hand, pc>> /\ left'[r] \subseteq left[r] /\ cur[r] # None
          /\ hand[<<r, cur[r]>>] # "recv"
      BY <2>8 DEF UploadReturns
    <3>2. pc[r] = "upload"
      BY <3>1 DEF Scoped
    <3>3. \A x \in Path : ~Receiving(r, x, h)'
      BY <2>1, <3>1, <3>2 DEF HandledFor, Receiving
    <3> QED
      BY <2>5, <3>1, <3>2, <3>3
  <2>9. CASE UploadBreaks(r)
    <3>1. UNCHANGED <<man, hand, pc>> /\ left'[r] \subseteq left[r] /\ cur[r] # None
          /\ Mark(man[r][cur[r]], {"upload"})
      BY <2>9 DEF UploadBreaks
    <3>2. pc[r] = "upload" /\ cur[r] \in DOMAIN man[r]
      BY <3>1 DEF Scoped
    <3>3. man[r][cur[r]] # h
      BY <1>4, <1>5, <3>1, <3>2
    <3>4. \A x \in Path : ~Receiving(r, x, h)'
      BY <2>1, <3>1, <3>2, <3>3 DEF HandledFor, Receiving
    <3> QED
      BY <2>5, <3>1, <3>2, <3>4
  <2>10. CASE StopBackup(r)
    <3>1. UNCHANGED <<man, hand, pc, left, cur>> /\ pc[r] \in Live
      BY <2>10 DEF StopBackup
    <3> QED
      BY <1>2, <2>1, <3>1 DEF Settled, ToUpload, HandledFor, Receiving
  <2>11. CASE Crash(r)
    <3>1. UNCHANGED <<man, left>> /\ pc'[r] = "dead"
          /\ hand' = [k \in Key |-> IF IsLocal(r) /\ k[1] = r /\ hand[k] = "recv"
                                    THEN "failed" ELSE hand[k]]
      BY <2>11 DEF Crash
    <3>2. \A x \in Path : <<r, x>> \in Key
      BY DEF Key
    <3>3. \A x \in Path : hand'[<<r, x>>] \in {"failed", hand[<<r, x>>]}
      BY <3>1, <3>2
    <3> QED
      BY <2>5, <3>1, <3>3
  <2> QED
    BY <2>2, <2>3, <2>4, <2>6, <2>7, <2>8, <2>9, <2>10, <2>11 DEF RunStep
<1>7. ASSUME NEW q \in Run
      PROVE  /\ Settled(q, h) => Settled(q, h)'
             /\ HandledFor(q, h)'
  <2>1. CASE q = r
    BY <1>6, <2>1
  <2>2. CASE q # r
    <3>1. HandledFor(q, h)
      BY <1>1 DEF Keyed
    <3> QED
      BY <1>2, <1>3, <2>2, <3>1 DEF Settled, ToUpload, Receiving, HandledFor
  <2> QED
    BY <2>1, <2>2
<1>8. ASSUME NEW n \in Node, Sound(n, h), KeysFor(n, h)' = KeysFor(n, h) PROVE Sound(n, h)'
  <2>1. blob[h][1] \in Run
    BY <1>8 DEF Sound, Key
  <2> QED
    BY <1>2, <1>7, <1>8, <2>1 DEF Sound
\* Its entry, if the step writes one.
<1>9. /\ \A n \in Node : Sound(n, h) => Sound(n, h)'
      /\ RowsSound(h)'
  <2>1. RowsSound(h)
    BY <1>1 DEF Keyed
  <2>2. CASE UNCHANGED rows
    <3>1. \A n \in Node : KeysFor(n, h)' = KeysFor(n, h)
      BY <2>2 DEF KeysFor
    <3> QED
      BY <1>2, <1>8, <2>1, <2>2, <3>1 DEF RowsSound
  <2>3. CASE InsertEntry(r)
    <3> PICK p \in left[r] :
          AddRow(Owner[r], [run |-> r, path |-> p, hash |-> man[r][p], key |-> meta[r][man[r][p]]])
      BY <2>3 DEF InsertEntry
    <3> DEFINE n == Owner[r]
               e == [run |-> r, path |-> p, hash |-> man[r][p], key |-> meta[r][man[r][p]]]
    <3>1. /\ rows' = [rows EXCEPT ![n] = @ \cup {e}]
          /\ e.run = r /\ e.hash = man[r][p] /\ e.key = meta[r][man[r][p]]
      BY DEF AddRow
    <3>2. pc[r] = "entries" /\ n \in Node /\ r # None
      BY <2>3 DEF InsertEntry
    <3>3. cur[r] = None
      BY <3>2 DEF Scoped
    <3> HIDE DEF n, e
    <3>4. rows'[n] = rows[n] \cup {e} /\ \A m \in Node : m # n => rows'[m] = rows[m]
      BY <3>1, <3>2
    <3>5. \A m \in Node : m # n => KeysFor(m, h)' = KeysFor(m, h)
      BY <3>4 DEF KeysFor
    <3>6. ASSUME NEW k
          PROVE  k \in KeysFor(n, h)'
                   <=> k \in KeysFor(n, h) \/ (e.hash = h /\ k = e.key /\ k # None)
      BY <3>4 DEF KeysFor
    <3>7. CASE man[r][p] # h
      <4>1. KeysFor(n, h)' = KeysFor(n, h)
        BY <3>1, <3>6, <3>7
      <4>2. \A m \in Node : Sound(m, h) => Sound(m, h)'
        BY <1>8, <3>5, <4>1
      <4> QED
        BY <1>2, <2>1, <3>1, <3>4, <3>7, <4>2 DEF RowsSound
    <3>8. CASE man[r][p] = h
      <4>1. RunPending(r, h) /\ ~ToUpload(r, h) /\ ReliesOn(r, h)
        BY <1>1, <3>2, <3>8 DEF RunPending, ToUpload, Keyed
      <4>2. Sound(n, h)'
        <5>1. CASE meta[r][h] = None
          <6>1. Sound(n, h)
            BY <4>1, <5>1 DEF ReliesOn, n
          <6>2. KeysFor(n, h)' = KeysFor(n, h)
            <7>1. e.key = None
              BY <3>1, <3>8, <5>1
            <7>2. \A k : k \in KeysFor(n, h)' <=> k \in KeysFor(n, h)
              BY <3>6, <7>1
            <7> QED
              BY <7>2 DEF KeysFor, n
          <6> QED
            BY <1>8, <3>2, <6>1, <6>2
        <5>2. CASE meta[r][h] # None
          <6>1. ~Receiving(r, cur[r], h)
            BY <1>4, <3>3 DEF Receiving
          <6>2. blob[h] = meta[r][h] /\ blob[h][1] = r /\ blob[h] # None
            BY <4>1, <5>2, <6>1 DEF ReliesOn, Noted
          <6>3. \A f \in rows[n] : f.hash = h /\ f.key # None => f.key = blob[h]
            <7> SUFFICES ASSUME NEW f \in rows[n], f.hash = h, f.key # None PROVE f.key = blob[h]
              OBVIOUS
            <7>1. CASE f.run = None
              <8>1. blob[h][1] = f.key[1]
                BY <2>1, <3>2, <7>1 DEF RowsSound
              <8>2. n = Server /\ Owner[f.key[1]] # Server
                BY <3>2, <7>1 DEF Owned
              <8> QED
                BY <6>2, <8>1, <8>2 DEF n
            <7>2. CASE f.run # None
              <8>1. Sound(n, h)
                BY <2>1, <3>2, <7>2 DEF RowsSound
              <8>2. f.key \in KeysFor(n, h)
                BY DEF KeysFor
              <8> QED
                BY <8>1, <8>2 DEF Sound
            <7> QED
              BY <7>1, <7>2
          <6>4. KeysFor(n, h) \subseteq {blob[h]}
            BY <6>3 DEF KeysFor
          <6>5. KeysFor(n, h)' = {blob[h]}
            BY <3>1, <3>6, <3>8, <6>2, <6>4
          <6>6. Settled(r, h)
            <7>1. HandledFor(r, h)
              BY <1>1 DEF Keyed
            <7>2. \A x \in Path : ~Receiving(r, x, h)
              BY <3>2, <3>3, <7>1 DEF HandledFor
            <7> QED
              BY <3>2, <4>1, <7>2 DEF Settled
          <6> QED
            BY <1>2, <1>7, <6>2, <6>5, <6>6 DEF Sound, n
        <5> QED
          BY <5>1, <5>2
      <4>3. \A m \in Node : Sound(m, h) => Sound(m, h)'
        BY <1>8, <3>5, <4>2
      <4> QED
        BY <1>2, <2>1, <3>1, <3>2, <3>4, <4>2, <4>3 DEF RowsSound
    <3> QED
      BY <3>7, <3>8
  <2> QED
    BY <2>2, <2>3 DEF RunStep, StartBackup, Stopped, ExchangeFails, ExchangeManifest, SkipFile,
       BeginUpload, UploadReturns, UploadBreaks, UploadsDone, InsertEntryFails, Complete,
       StopBackup, Crash, FinishJob
<1>10. ASSUME NEW q \in Run, q # r PROVE ReliesOn(q, h)'
  <2>1. ReliesOn(q, h) /\ Owner[q] \in Node
    BY <1>1 DEF Keyed
  <2>2. (RunPending(q, h)' <=> RunPending(q, h)) /\ (ToUpload(q, h)' <=> ToUpload(q, h))
    BY <1>2, <1>10 DEF RunPending, ToUpload
  <2>3. Receiving(q, cur[q], h) => Receiving(q, cur[q], h)'
    <3> SUFFICES ASSUME Receiving(q, cur[q], h) PROVE Receiving(q, cur[q], h)'
      OBVIOUS
    <3>1. cur[q] \in Path /\ cur'[q] = cur[q] /\ man'[q] = man[q]
      BY <1>2, <1>10, ManifestType DEF Receiving
    <3> QED
      BY <1>3, <1>10, <3>1 DEF Receiving
  <2> QED
    BY <1>2, <1>9, <1>10, <2>1, <2>2, <2>3 DEF ReliesOn
\* What the run itself relies on.
<1>11. ReliesOn(r, h)'
  <2>1. ReliesOn(r, h) /\ Owner[r] \in Node
    BY <1>1 DEF Keyed
  <2>2. (Sound(Owner[r], h) => Sound(Owner[r], h)') /\ blob'[h] = blob[h]
    BY <1>2, <1>9, <2>1
  <2>3. CASE StartBackup(r) \/ Stopped(r) \/ ExchangeFails(r) \/ Complete(r) \/ Crash(r)
    <3>1. pc'[r] \in {"manifest", "done", "dead"}
      BY <2>3 DEF StartBackup, Stopped, ExchangeFails, Complete, Crash, FinishJob
    <3> QED
      BY <3>1 DEF ReliesOn, RunPending
  <2>4. CASE ExchangeManifest(r)
    <3> SUFFICES ASSUME RunPending(r, h)' PROVE ReliesOn(r, h)'
      BY DEF ReliesOn
    <3>1. UNCHANGED <<meta, man>> /\ pc[r] = "manifest" /\ pc'[r] = "upload"
      BY <2>4 DEF ExchangeManifest
    <3>2. PICK p \in DOMAIN man[r] : man[r][p] = h
      BY <3>1 DEF RunPending
    <3>3. meta'[r][h] = None
      BY <3>1 DEF Noted
    <3> PICK unsure \in SUBSET DOMAIN man[r] :
          LET missing == unsure \cup {x \in DOMAIN man[r] : blob[man[r][x]] = None}
              spared == {man[r][x] : x \in DOMAIN man[r] \ missing}
          IN  /\ left' = [left EXCEPT ![r] = IF IsLocal(r) THEN {FileFor(r, man[r][x]) : x \in missing}
                                             ELSE missing]
              /\ fault' = [k \in Hash |->
                             IF k \in spared /\ ~(/\ KeysFor(Owner[r], k) = {blob[k]}
                                                  /\ Owner[blob[k][1]] = Owner[r])
                             THEN fault[k] \cup {"severed"} ELSE fault[k]]
      BY <2>4 DEF ExchangeManifest
    <3> DEFINE missing == unsure \cup {x \in DOMAIN man[r] : blob[man[r][x]] = None}
               spared == {man[r][x] : x \in DOMAIN man[r] \ missing}
    <3>4. CASE \E x \in missing : man[r][x] = h
      <4>1. \E x \in left'[r] : man[r][x] = h
        <5>1. FileFor(r, h) \in DOMAIN man[r] /\ man[r][FileFor(r, h)] = h
          BY <3>2 DEF FileFor
        <5>2. PICK x \in missing : man[r][x] = h
          BY <3>4
        <5>3. x \in left'[r] \/ FileFor(r, h) \in left'[r]
          BY <5>2
        <5> QED
          BY <5>1, <5>2, <5>3
      <4> QED
        BY <3>1, <3>3, <4>1 DEF ReliesOn, ToUpload
    <3>5. CASE ~\E x \in missing : man[r][x] = h
      <4>1. KeysFor(Owner[r], h) = {blob[h]} /\ Owner[blob[h][1]] = Owner[r] /\ blob[h] # None
        <5>1. h \in spared /\ blob[h] # None
          BY <3>2, <3>5
        <5>2. ~(KeysFor(Owner[r], h) = {blob[h]} /\ Owner[blob[h][1]] = Owner[r])
                => "severed" \in fault'[h]
          BY <5>1
        <5> QED
          BY <5>1, <5>2 DEF Clean
      <4>2. PICK f \in rows[Owner[r]] : f.hash = h /\ f.key = blob[h]
        <5>1. blob[h] \in KeysFor(Owner[r], h)
          BY <4>1
        <5> QED
          BY <5>1 DEF KeysFor
      <4>3. f.run # None
        BY <2>1, <4>1, <4>2 DEF Owned
      <4>4. Sound(Owner[r], h)
        BY <1>1, <2>1, <4>2, <4>3 DEF Keyed, RowsSound
      <4> QED
        BY <2>2, <3>3, <4>4 DEF ReliesOn
    <3> QED
      BY <3>4, <3>5
  <2>5. CASE SkipFile(r) \/ UploadReturns(r) \/ UploadBreaks(r)
    <3>1. UNCHANGED <<pc, man, meta>> /\ (cur[r] = None \/ hand[<<r, cur[r]>>] # "recv" \/ man[r][cur[r]] # h)
      <4>1. CASE SkipFile(r)
        BY <4>1 DEF SkipFile
      <4>2. CASE UploadReturns(r)
        BY <4>2 DEF UploadReturns
      <4>3. CASE UploadBreaks(r)
        <5>1. cur[r] \in DOMAIN man[r] /\ Mark(man[r][cur[r]], {"upload"})
          BY <4>3 DEF UploadBreaks, Scoped
        <5> QED
          BY <1>4, <1>5, <4>3, <5>1 DEF UploadBreaks
      <4> QED
        BY <2>5, <4>1, <4>2, <4>3
    <3>2. ~Receiving(r, cur[r], h)
      BY <1>4, <3>1 DEF Receiving
    <3>3. meta[r][h] = None => (ToUpload(r, h) => ToUpload(r, h)')
      <4>1. CASE SkipFile(r)
        <5> PICK p \in left[r] : /\ left' = [left EXCEPT ![r] = @ \ {p}]
                                 /\ Mark(man[r][p], {"upload"})
          BY <4>1 DEF SkipFile
        <5>1. man[r][p] # h
          BY <1>4, <1>5 DEF Scoped
        <5> QED
          BY <3>1, <5>1 DEF ToUpload
      <4>2. CASE UploadReturns(r) \/ UploadBreaks(r)
        <5>1. left'[r] = left[r] \ {cur[r]} /\ cur[r] # None
          BY <4>2 DEF UploadReturns, UploadBreaks
        <5>2. meta[r][man[r][cur[r]]] = <<r, cur[r]>> /\ <<r, cur[r]>> \in Key
          BY <5>1 DEF Noted, Key
        <5>3. meta[r][h] = None => man[r][cur[r]] # h
          BY <5>2 DEF Key
        <5> QED
          BY <3>1, <5>1, <5>3 DEF ToUpload
      <4> QED
        BY <2>5, <4>1, <4>2
    <3>4. RunPending(r, h)' => RunPending(r, h)
      <4>1. left'[r] \subseteq left[r]
        BY <2>5 DEF SkipFile, UploadReturns, UploadBreaks
      <4> QED
        BY <3>1, <4>1 DEF RunPending
    <3> QED
      BY <2>1, <2>2, <3>1, <3>2, <3>3, <3>4 DEF ReliesOn
  <2>6. CASE BeginUpload(r)
    <3> PICK p \in left[r] :
          /\ cur' = [cur EXCEPT ![r] = p]
          /\ meta' = [meta EXCEPT ![r][man[r][p]] = <<r, p>>]
          /\ hand' = [hand EXCEPT ![<<r, p>>] = "recv"]
      BY <2>6 DEF BeginUpload
    <3>1. UNCHANGED <<pc, man, left>> /\ cur[r] = None
      BY <2>6 DEF BeginUpload
    <3>2. p \in DOMAIN man[r] /\ p \in Path /\ p # None /\ man[r][p] \in Hash /\ <<r, p>> \in Key
      BY <1>4 DEF Scoped, Key
    <3>3. CASE man[r][p] = h
      <4>1. hand'[<<r, p>>] = "recv" /\ cur'[r] = p /\ meta'[r][h] # None
        BY <3>2, <3>3
      <4> QED
        BY <3>1, <3>2, <3>3, <4>1 DEF ReliesOn, Receiving
    <3>4. CASE man[r][p] # h
      <4>1. meta'[r][h] = meta[r][h] /\ ~Receiving(r, cur[r], h)
        BY <1>4, <3>1, <3>2, <3>4 DEF Receiving
      <4>2. (RunPending(r, h)' <=> RunPending(r, h)) /\ (ToUpload(r, h)' <=> ToUpload(r, h))
        BY <3>1 DEF RunPending, ToUpload
      <4> QED
        BY <2>1, <2>2, <4>1, <4>2 DEF ReliesOn
    <3> QED
      BY <3>3, <3>4
  <2>7. CASE UploadsDone(r) \/ InsertEntry(r) \/ InsertEntryFails(r)
    <3>1. UNCHANGED <<man, meta, cur>> /\ pc[r] \in {"upload", "entries"} /\ ~ToUpload(r, h)
      BY <2>7 DEF UploadsDone, InsertEntry, InsertEntryFails, ToUpload
    <3>2. cur[r] = None
      BY <2>7 DEF UploadsDone, InsertEntry, InsertEntryFails, Scoped
    <3>3. ~Receiving(r, cur[r], h)
      BY <1>4, <3>2 DEF Receiving
    <3>4. RunPending(r, h)' => RunPending(r, h)
      <4>1. CASE UploadsDone(r)
        BY <4>1 DEF UploadsDone, RunPending
      <4>2. CASE InsertEntry(r) \/ InsertEntryFails(r)
        <5>1. UNCHANGED <<pc, man>> /\ left'[r] \subseteq left[r]
          <6>1. CASE InsertEntry(r)
            BY <6>1 DEF InsertEntry
          <6>2. CASE InsertEntryFails(r)
            BY <6>2 DEF InsertEntryFails
          <6> QED
            BY <4>2, <6>1, <6>2
        <5> QED
          BY <5>1 DEF RunPending
      <4> QED
        BY <2>7, <4>1, <4>2
    <3> QED
      BY <2>1, <2>2, <3>1, <3>3, <3>4 DEF ReliesOn
  <2>8. CASE StopBackup(r)
    <3>1. UNCHANGED <<pc, man, left, cur, meta, hand>>
      BY <2>8 DEF StopBackup
    <3>2. (RunPending(r, h)' <=> RunPending(r, h)) /\ (ToUpload(r, h)' <=> ToUpload(r, h))
          /\ (Receiving(r, cur[r], h)' <=> Receiving(r, cur[r], h))
      BY <3>1 DEF RunPending, ToUpload, Receiving
    <3> QED
      BY <2>1, <2>2, <3>1, <3>2 DEF ReliesOn
  <2> QED
    BY <2>3, <2>4, <2>5, <2>6, <2>7, <2>8 DEF RunStep
<1> QED
  BY <1>7, <1>9, <1>10, <1>11 DEF Keyed

\* Every step keeps keys, blobs and rows of a hash together, or is on record.
LEMMA NextKeyInv == StoreInv /\ KeyInv /\ [Next]_vars => KeyInv'
<1> SUFFICES ASSUME StoreInv, KeyInv, [Next]_vars PROVE KeyInv'
  OBVIOUS
<1>1. TypeInv /\ TypeInv' /\ FaultGrows /\ Owned /\ Noted /\ Owned' /\ Noted'
  BY NextTypeInv, FaultGrowing, NextOwned, NextNoted DEF StoreInv, KeyInv
<1>2. ASSUME NEW h \in Hash, Clean(h)' PROVE Keyed(h)'
  <2>1. Clean(h) => Keyed(h)
    BY DEF KeyInv
  <2>2. CASE UNCHANGED <<blob, rows, runVars, hand, fault>>
    <3>1. Clean(h)
      BY <1>2, <2>2 DEF Clean
    <3>2. /\ \A n \in Node : KeysFor(n, h)' = KeysFor(n, h)
          /\ \A q \in Run, x \in Path : Receiving(q, x, h)' <=> Receiving(q, x, h)
      BY <2>2 DEF KeysFor, Receiving, runVars
    <3> QED
      BY <1>1, <2>1, <2>2, <3>1, <3>2, KeyedFrame
  <2>3. CASE (\E n \in Node : FailStaleJobs(n)) \/ UNCHANGED vars
    BY <2>2, <2>3 DEF FailStaleJobs, vars, runVars
  <2> QED
    BY <1>1, <1>2, <2>1, <2>3, RunStepKeyed, HandlerStepKeyed, PurgeStepKeyed DEF Next
<1> QED
  BY <1>1, <1>2 DEF KeyInv

\* However backups of several nodes, deletions, retention, crashes and failures
\* meet, every file of a completed backup can be restored by the node that made
\* it, unless its hash has met one of the accidents on record.
THEOREM CompletedAreRestorable == Spec => []CompletedRestorable
<1>1. StoreInv /\ KeyInv => CompletedRestorable
  <2> SUFFICES ASSUME StoreInv, KeyInv, NEW r \in Run, NEW e \in rows[Owner[r]], e.run = r,
                      Clean(e.hash)
               PROVE  CanRestore(Owner[r], e)
    BY DEF CompletedRestorable, Clean
  <2>1. Owner[r] \in Node /\ r # None /\ e \in Entry
    BY ConstantsAssumption DEF StoreInv, TypeInv, TypeOK
  <2>2. Sound(Owner[r], e.hash)
    <3>1. e.hash \in Hash
      BY <2>1 DEF Entry
    <3>2. RowsSound(e.hash)
      BY <3>1 DEF KeyInv, Keyed
    <3> QED
      BY <2>1, <3>2 DEF RowsSound
  <2>3. e.key # None => e.key \in KeysFor(Owner[r], e.hash)
    BY DEF KeysFor
  <2> QED
    BY <2>2, <2>3 DEF Sound, CanRestore
<1>2. StoreInv /\ KeyInv /\ [Next]_vars => (StoreInv /\ KeyInv)'
  BY NextStoreInv, NextKeyInv
<1> QED
  BY InitStoreInv, InitKeyInv, <1>1, <1>2, PTL DEF Spec

=============================================================================
