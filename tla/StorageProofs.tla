---------------------------- MODULE StorageProofs ----------------------------
(***************************************************************************)
(* Proofs about what the data server keeps and what it lets go: the        *)
(* content-addressed store (CAS), for any number of calls, hashes,         *)
(* directories and chunks, and the retention engine (Retention), for any   *)
(* paths, policies, evaluations, days and rows.                            *)
(***************************************************************************)
EXTENDS CAS, Retention, WellFoundedInduction, TLAPS

-----------------------------------------------------------------------------
(* CAS: nothing is lost with its directory, and the store on the file system  *)
(* implements the atomic one.                                                 *)

\* What has a name, or has been opened by it, was written to its end and renamed.
Whole(p) == pc[p] = "done" /\ data[p] = Chunks

WholeInv ==
  /\ \A p \in Putter : pc[p] = "rename" => data[p] = Chunks
  /\ \A h \in Hash : file[h] # Nil => Whole(file[h])
  /\ \A r \in Reader : handle[r] # Nil => Whole(handle[r])
  /\ \A r \in Reader : taken[r] # Nil => handle[r] # Nil /\ taken[r] = Chunks

CASInv == CASTypeOK /\ WholeInv /\ DirectoryPresent /\ TempAccountedFor

-----------------------------------------------------------------------------
(* Types. *)

\* The types hold initially.
LEMMA CASInitType == CASInit => CASTypeOK
  BY CASAssumption DEF CASInit, CASTypeOK, Ended

\* Every call keeps the types.
LEMMA CASNextType ==
  ASSUME CASTypeOK, [CASNext]_casVars
  PROVE  CASTypeOK'
<1> USE CASAssumption DEF CASTypeOK, putVars, readVars
<1>1. ASSUME NEW p \in Putter, PutStep(p) PROVE CASTypeOK'
  <2> USE DEF Goto, Ended
  <2>1. CASE MkdirAll(p)
    BY <2>1 DEF MkdirAll, Home
  <2>2. CASE CreateTemp(p)
    BY <2>2 DEF CreateTemp
  <2>3. CASE CopyChunk(p)
    <3>1. data' \in [Putter -> 0..Chunks]
      <4>1. data[p] + 1 \in 0..Chunks
        BY <2>3 DEF CopyChunk
      <4> QED
        BY <2>3, <4>1 DEF CopyChunk
    <3> QED
      BY <2>3, <3>1 DEF CopyChunk
  <2>4. CASE CopyEnds(p)
    BY <2>4 DEF CopyEnds
  <2>5. CASE Rename(p)
    BY <2>5 DEF Rename
  <2>6. CASE CleanUp(p)
    BY <2>6 DEF CleanUp
  <2> QED
    BY <1>1, <2>1, <2>2, <2>3, <2>4, <2>5, <2>6 DEF PutStep
<1>2. ASSUME NEW e \in Deleter, Remove(e) PROVE CASTypeOK'
  BY <1>2 DEF Remove
<1>6. ASSUME NEW e \in Deleter, RemoveDir(e) PROVE CASTypeOK'
  <2>1. doomed[e] \in Hash
    BY <1>6 DEF RemoveDir
  <2>2. dir' \in [Dir -> BOOLEAN]
    BY <1>6, <2>1 DEF RemoveDir
  <2> QED
    BY <1>6, <2>2 DEF RemoveDir
<1>3. ASSUME NEW r \in Reader, Open(r) \/ ReadAll(r) PROVE CASTypeOK'
  BY <1>3 DEF Open, ReadAll
<1>4. CASE Restart
  <2>1. pc' \in [Putter -> {"idle", "mkdir", "copy", "rename", "clean"} \cup Ended]
    BY <1>4 DEF Restart, Ended
  <2>2. doomed' \in [Deleter -> Hash \cup {Nil}] /\ handle' \in [Reader -> Putter \cup {Nil}]
    BY <1>4 DEF Restart
  <2> QED
    BY <1>4, <2>1, <2>2 DEF Restart
<1>5. CASE UNCHANGED casVars
  BY <1>5 DEF casVars
<1> QED
  BY <1>1, <1>2, <1>3, <1>4, <1>5, <1>6 DEF CASNext

-----------------------------------------------------------------------------
(* What has a name is whole. *)

\* What has a name was written to its end, and stays so.
LEMMA NextWhole ==
  ASSUME CASTypeOK, WholeInv, [CASNext]_casVars
  PROVE  WholeInv'
<1> USE CASAssumption DEF putVars, readVars
<1>1. ASSUME NEW p \in Putter, PutStep(p) PROVE WholeInv'
  <2>1. UNCHANGED readVars
    BY <1>1 DEF PutStep, MkdirAll, CreateTemp, CopyChunk, CopyEnds, Rename, CleanUp
  <2>2. \A q \in Putter : Whole(q) => Whole(q)'
    <3>1. ASSUME NEW q \in Putter, Whole(q) PROVE Whole(q)'
      <4>1. CASE q = p
        BY <1>1, <3>1, <4>1 DEF PutStep, MkdirAll, CreateTemp, CopyChunk, CopyEnds, Rename, CleanUp, Whole
      <4>2. CASE q # p
        BY <1>1, <3>1, <4>2 DEF PutStep, MkdirAll, CreateTemp, CopyChunk, CopyEnds, Rename, CleanUp, Whole, Goto, CASTypeOK
      <4> QED
        BY <4>1, <4>2
    <3> QED
      BY <3>1
  <2>3. \A q \in Putter : pc'[q] = "rename" => data'[q] = Chunks
    BY <1>1 DEF PutStep, MkdirAll, CreateTemp, CopyChunk, CopyEnds, Rename, CleanUp, Goto, CASTypeOK, WholeInv
  <2>4. \A h \in Hash : file'[h] # Nil =>
          \/ file[h] = file'[h] /\ Whole(file[h])
          \/ file'[h] = p /\ pc'[p] = "done" /\ data'[p] = Chunks
    <3>1. CASE Rename(p)
      BY <3>1 DEF Rename, Goto, CASTypeOK, WholeInv, Whole
    <3>2. CASE ~Rename(p)
      BY <1>1, <3>2 DEF PutStep, MkdirAll, CreateTemp, CopyChunk, CopyEnds, CleanUp, WholeInv
    <3> QED
      BY <3>1, <3>2
  <2>5. \A h \in Hash : file'[h] # Nil => pc'[file'[h]] = "done" /\ data'[file'[h]] = Chunks
    BY <2>2, <2>4 DEF CASTypeOK, Whole
  <2>6. \A r \in Reader : handle'[r] # Nil => pc'[handle'[r]] = "done" /\ data'[handle'[r]] = Chunks
    BY <2>1, <2>2 DEF CASTypeOK, Whole, WholeInv
  <2> QED
    BY <2>1, <2>3, <2>5, <2>6 DEF WholeInv, Whole
<1>2. ASSUME NEW e \in Deleter, Remove(e) \/ RemoveDir(e) PROVE WholeInv'
  BY <1>2 DEF Remove, RemoveDir, WholeInv, Whole, CASTypeOK
<1>3. ASSUME NEW r \in Reader, Open(r) \/ ReadAll(r) PROVE WholeInv'
  BY <1>3 DEF Open, ReadAll, WholeInv, Whole, CASTypeOK
<1>4. CASE Restart
  <2>1. \A q \in Putter : Whole(q) => Whole(q)'
    BY <1>4 DEF Restart, Whole, Ended, CASTypeOK
  <2>2. \A q \in Putter : pc'[q] = "rename" => pc[q] = "rename"
    BY <1>4 DEF Restart, Ended, CASTypeOK
  <2> QED
    BY <1>4, <2>1, <2>2 DEF Restart, WholeInv, CASTypeOK
<1>5. CASE UNCHANGED casVars
  BY <1>5 DEF casVars, WholeInv, Whole
<1> QED
  BY <1>1, <1>2, <1>3, <1>4, <1>5 DEF CASNext

-----------------------------------------------------------------------------
(* Directories and temporary files. *)

\* No call removes a directory with something in it.
LEMMA NextDirectory ==
  ASSUME CASTypeOK, DirectoryPresent, [CASNext]_casVars
  PROVE  DirectoryPresent'
<1> USE CASAssumption DEF putVars, Home, DirectoryPresent
<1>1. ASSUME NEW p \in Putter, PutStep(p) PROVE DirectoryPresent'
  <2> USE DEF CASTypeOK
  <2>1. CASE MkdirAll(p)
    BY <2>1 DEF MkdirAll
  <2>2. CASE CreateTemp(p)
    BY <2>2 DEF CreateTemp
  <2>3. CASE CopyChunk(p) \/ CopyEnds(p) \/ CleanUp(p)
    BY <2>3 DEF CopyChunk, CopyEnds, CleanUp
  <2>4. CASE Rename(p)
    BY <2>4 DEF Rename
  <2> QED
    BY <1>1, <2>1, <2>2, <2>3, <2>4 DEF PutStep
<1>2. ASSUME NEW e \in Deleter, Remove(e) \/ RemoveDir(e) PROVE DirectoryPresent'
  <2>1. CASE Remove(e)
    BY <2>1 DEF Remove, CASTypeOK
  <2>2. CASE RemoveDir(e)
    BY <2>2 DEF RemoveDir, Empty, CASTypeOK
  <2> QED
    BY <1>2, <2>1, <2>2
<1>3. ASSUME UNCHANGED <<dir, file, temp, target>> PROVE DirectoryPresent'
  BY <1>3
<1> QED
  BY <1>1, <1>2, <1>3 DEF CASNext, Open, ReadAll, Restart, casVars

\* Temporary files stay accounted for.
LEMMA NextTemp ==
  ASSUME CASTypeOK, TempAccountedFor, [CASNext]_casVars
  PROVE  TempAccountedFor'
<1> USE DEF TempAccountedFor, putVars, CASTypeOK, Ended
<1>1. ASSUME NEW p \in Putter, PutStep(p) PROVE TempAccountedFor'
  BY <1>1 DEF PutStep, MkdirAll, CreateTemp, CopyChunk, CopyEnds, Rename, CleanUp, Goto
<1>2. ASSUME UNCHANGED <<temp, pc>> PROVE TempAccountedFor'
  BY <1>2
<1>3. CASE Restart
  BY <1>3 DEF Restart
<1> QED
  BY <1>1, <1>2, <1>3 DEF CASNext, Remove, RemoveDir, Open, ReadAll, casVars

-----------------------------------------------------------------------------
\* The three parts hold always.
LEMMA CASInvariant == CASSpec => []CASInv
<1>1. CASInit => CASInv
  BY CASInitType DEF CASInit, CASInv, WholeInv, DirectoryPresent, TempAccountedFor
<1>2. CASInv /\ [CASNext]_casVars => CASInv'
  BY CASNextType, NextWhole, NextDirectory, NextTemp DEF CASInv
<1> QED
  BY <1>1, <1>2, PTL DEF CASSpec

\* A directory that a blob or the temporary file of a Put is in is never removed,
\* however many Deletes find it empty at about that time.
THEOREM DirectoriesStay == CASSpec => []DirectoryPresent
<1>1. CASInv => DirectoryPresent
  BY DEF CASInv
<1> QED
  BY CASInvariant, <1>1, PTL

\* A temporary file belongs to a call under way, or was left by a crash or by a failed
\* call that could not remove it.
THEOREM TempFilesBelong == CASSpec => []TempAccountedFor
<1>1. CASInv => TempAccountedFor
  BY DEF CASInv
<1> QED
  BY CASInvariant, <1>1, PTL

-----------------------------------------------------------------------------
(* The mapping.  AbstractPut and AbstractGot are the put and got of Store.        *)

AbstractPut == [p \in Putter |-> IF pc[p] = "done" THEN "done"
                                 ELSE IF pc[p] \in {"clean", "failed", "littered", "cut"} THEN "failed"
                                 ELSE "open"]
AbstractGot == [r \in Reader |-> IF taken[r] = Nil THEN Nil
                                 ELSE IF taken[r] = Chunks THEN handle[r]
                                 ELSE <<handle[r], taken[r]>>]

\* The empty file system is the empty store.
LEMMA StoreInit == CASInit => Store!Init
<1> SUFFICES ASSUME CASInit PROVE Store!Init
  OBVIOUS
<1>1. AbstractPut = [p \in Putter |-> "open"] /\ AbstractGot = [r \in Reader |-> Nil]
  BY DEF CASInit, AbstractPut, AbstractGot
<1> QED
  BY <1>1 DEF CASInit, Store!Init, AbstractPut, AbstractGot

\* A Put of the store is open until its rename, or until it fails.
LEMMA StorePut ==
  ASSUME CASInv, NEW p \in Putter, PutStep(p)
  PROVE  [Store!Next]_Store!vars
<1>1. UNCHANGED <<handle, taken>> /\ AbstractGot' = AbstractGot
  BY DEF PutStep, MkdirAll, CreateTemp, CopyChunk, CopyEnds, Rename, CleanUp, readVars, AbstractGot
<1>2. pc \in [Putter -> {"idle", "mkdir", "copy", "rename", "clean", "done", "failed", "littered", "cut"}]
  BY DEF CASInv, CASTypeOK, Ended
<1>3. CASE UNCHANGED file /\ AbstractPut' = AbstractPut
  BY <1>1, <1>3 DEF Store!vars, AbstractPut, AbstractGot
<1>4. CASE AbstractPut[p] = "open" /\ AbstractPut' = [AbstractPut EXCEPT ![p] = "failed"] /\ UNCHANGED file
  BY <1>1, <1>4 DEF Store!Next, Store!PutFails, AbstractPut, AbstractGot
<1>5. CASE /\ AbstractPut[p] = "open" /\ AbstractPut' = [AbstractPut EXCEPT ![p] = "done"]
           /\ file' = [file EXCEPT ![target[p]] = p]
  <2>1. target[p] \in Hash
    BY DEF CASInv, CASTypeOK
  <2> QED
    BY <1>1, <1>5, <2>1 DEF Store!Next, Store!Put, AbstractPut, AbstractGot
<1>6. \/ UNCHANGED file /\ AbstractPut' = AbstractPut
      \/ AbstractPut[p] = "open" /\ AbstractPut' = [AbstractPut EXCEPT ![p] = "failed"] /\ UNCHANGED file
      \/ /\ AbstractPut[p] = "open" /\ AbstractPut' = [AbstractPut EXCEPT ![p] = "done"]
         /\ file' = [file EXCEPT ![target[p]] = p]
  <2> USE <1>2 DEF Goto, putVars, AbstractPut
  <2>1. CASE MkdirAll(p)
    BY <2>1 DEF MkdirAll
  <2>2. CASE CreateTemp(p)
    BY <2>2 DEF CreateTemp
  <2>3. CASE CopyChunk(p)
    BY <2>3 DEF CopyChunk
  <2>4. CASE CopyEnds(p)
    BY <2>4 DEF CopyEnds
  <2>5. CASE Rename(p)
    BY <2>5 DEF Rename
  <2>6. CASE CleanUp(p)
    BY <2>6 DEF CleanUp
  <2> QED
    BY <2>1, <2>2, <2>3, <2>4, <2>5, <2>6 DEF PutStep
<1> QED
  BY <1>3, <1>4, <1>5, <1>6

\* The unlink of Delete is the deletion in the abstract store, and nothing else of it is.
LEMMA StoreDelete ==
  ASSUME CASInv, NEW e \in Deleter, Remove(e) \/ RemoveDir(e)
  PROVE  [Store!Next]_Store!vars
<1>1. UNCHANGED <<handle, taken, pc>> /\ AbstractGot' = AbstractGot /\ AbstractPut' = AbstractPut
  BY DEF Remove, RemoveDir, putVars, readVars, AbstractGot, AbstractPut
<1>2. CASE Remove(e)
  <2>1. PICK h \in Hash : file[h] # Nil /\ file' = [file EXCEPT ![h] = Nil]
    BY <1>2 DEF Remove
  <2> QED
    BY <1>1, <2>1 DEF Store!Next, Store!Delete, AbstractPut, AbstractGot
<1>3. CASE RemoveDir(e)
  BY <1>1, <1>3 DEF RemoveDir, Store!vars, AbstractPut, AbstractGot
<1> QED
  BY <1>2, <1>3

\* A Get takes effect when it has opened the file; what it reads then is the whole of it.
LEMMA StoreGet ==
  ASSUME CASInv, NEW r \in Reader, Open(r) \/ ReadAll(r)
  PROVE  [Store!Next]_Store!vars
<1>1. UNCHANGED <<file, pc>> /\ AbstractPut' = AbstractPut
  BY DEF Open, ReadAll, putVars, AbstractPut
<1>2. CASE Open(r)
  <2>1. PICK h \in Hash : file[h] # Nil /\ handle' = [handle EXCEPT ![r] = file[h]]
    BY <1>2 DEF Open
  <2>2. handle[r] = Nil /\ UNCHANGED taken
    BY <1>2 DEF Open
  <2>3. \A x \in Reader : handle'[x] = handle[x] \/ taken[x] = Nil
    BY <2>1, <2>2 DEF CASInv, CASTypeOK, WholeInv
  <2>4. AbstractGot' = AbstractGot
    BY <2>2, <2>3 DEF AbstractGot
  <2> QED
    BY <1>1, <2>1, <2>2, <2>4 DEF Store!Next, Store!Open, AbstractPut, AbstractGot
<1>3. CASE ReadAll(r)
  <2>1. handle[r] # Nil /\ taken[r] = Nil /\ UNCHANGED handle
    BY <1>3 DEF ReadAll
  <2>2. taken' = [taken EXCEPT ![r] = Chunks]
    BY <1>3, <2>1 DEF ReadAll, CASInv, WholeInv, Whole
  <2>3. Chunks # Nil
    BY CASAssumption
  <2>4. AbstractGot[r] = Nil /\ AbstractGot' = [AbstractGot EXCEPT ![r] = handle[r]]
    BY <2>1, <2>2, <2>3 DEF AbstractGot, CASInv, CASTypeOK
  <2> QED
    BY <1>1, <2>1, <2>4 DEF Store!Next, Store!Return, AbstractPut, AbstractGot
<1> QED
  BY <1>2, <1>3

\* A crash is a restart of the abstract store.
LEMMA StoreRestart ==
  ASSUME CASInv, Restart
  PROVE  Store!Next
<1>1. /\ UNCHANGED <<file, taken>>
      /\ handle' = [r \in Reader |-> IF taken[r] = Nil THEN Nil ELSE handle[r]]
  BY DEF Restart
<1>2. \A r \in Reader : AbstractGot[r] = Nil <=> taken[r] = Nil
  BY DEF CASInv, WholeInv, AbstractGot
<1>3. AbstractGot' = AbstractGot
  BY <1>1 DEF AbstractGot
<1>4. handle' = [r \in Reader |-> IF AbstractGot[r] = Nil THEN Nil ELSE handle[r]]
  BY <1>1, <1>2
<1>5. AbstractPut' \in [Putter -> {"open", "done", "failed"}]
  BY DEF AbstractPut
<1>6. \A p \in Putter : \/ AbstractPut'[p] = AbstractPut[p]
                        \/ AbstractPut[p] = "open" /\ AbstractPut'[p] = "failed"
  BY DEF Restart, AbstractPut, CASInv, CASTypeOK, Ended
<1> QED
  BY <1>1, <1>3, <1>4, <1>5, <1>6 DEF Store!Next, Store!Restart, AbstractPut, AbstractGot

\* The store on the file system, with its temporary files, its directories that come and
\* go and its crashes, is the atomic store its callers rely on.
THEOREM ImplementsStore == CASSpec => ImplementsBlobStore
<1>1. CASInv /\ [CASNext]_casVars => [Store!Next]_Store!vars
  <2>1. ASSUME UNCHANGED casVars PROVE UNCHANGED Store!vars
    BY <2>1 DEF casVars, Store!vars
  <2> QED
    BY <2>1, StorePut, StoreDelete, StoreGet, StoreRestart DEF CASNext
<1> QED
  BY StoreInit, <1>1, CASInvariant, PTL DEF CASSpec, ImplementsBlobStore, Store!Spec

-----------------------------------------------------------------------------
(* Retention: what an evaluation deletes is never the first version of a path *)
(* no purge policy covers, and has outlived the policy for its path.          *)

\* Row ids are given out once.
Numbered ==
  /\ \A v \in rows : v.id <= last
  /\ \A v, w \in rows : v.id = w.id => v = w
  /\ \A e \in Evaluator : \A v, w \in ev[e].victims : v.id = w.id => v = w

\* A victim is preceded by a version that is there.
Preceded ==
  \A e \in Evaluator : \A v \in ev[e].victims :
    Guarded(v.path) => \E w \in rows : w.path = v.path /\ Before(w, v)

\* A victim has outlived the policy for its path that its evaluation began with.
Outlived ==
  \A e \in Evaluator :
    /\ ev[e].day <= now
    /\ \A v \in ev[e].victims : Outlives(v, ev[e].pol)

RetentionInv == TypeOK /\ Numbered /\ Preceded /\ Outlived

-----------------------------------------------------------------------------
(* The order of versions. *)

\* The least-number principle.
LEMMA LeastNatural ==
  ASSUME NEW T, T \subseteq Nat, T # {}
  PROVE  \E x \in T : \A y \in T : x <= y
<1>1. PICK x \in T : \A y \in T : ~(<<y, x>> \in OpToRel(<, Nat))
  BY WFMin, NatLessThanWellFounded
<1>2. \A y \in T : <<y, x>> \in Nat \X Nat
  OBVIOUS
<1>3. \A y \in T : ~(y < x)
  BY <1>1, <1>2 DEF OpToRel
<1> QED
  BY <1>3

\* The latest of some versions, and of equally late ones the one with the least id.
LEMMA FirstExists ==
  ASSUME NEW V \in SUBSET Row, V # {}, \A v, w \in V : v.id = w.id => v = w
  PROVE  First(V) \in V /\ \A w \in V \ {First(V)} : Before(First(V), w)
<1> USE RetentionAssumption
<1>1. \A v \in V : v.id \in Nat /\ v.date \in 0..MaxDay
  BY DEF Row
<1>2. PICK d \in {MaxDay - v.date : v \in V} : \A y \in {MaxDay - v.date : v \in V} : d <= y
  <2>1. {MaxDay - v.date : v \in V} \subseteq Nat /\ {MaxDay - v.date : v \in V} # {}
    BY <1>1
  <2> QED
    BY <2>1, LeastNatural
<1> DEFINE Latest == {v \in V : MaxDay - v.date = d}
<1>3. PICK i \in {v.id : v \in Latest} : \A y \in {v.id : v \in Latest} : i <= y
  <2>1. {v.id : v \in Latest} \subseteq Nat /\ {v.id : v \in Latest} # {}
    BY <1>1, <1>2
  <2> QED
    BY <2>1, LeastNatural
<1>4. PICK v \in Latest : v.id = i
  BY <1>3
<1>5. \A w \in V \ {v} : Before(v, w)
  <2>1. ASSUME NEW w \in V, w # v PROVE Before(v, w)
    <3>1. MaxDay - v.date <= MaxDay - w.date
      BY <1>2, <1>4
    <3>2. CASE MaxDay - v.date = MaxDay - w.date
      <4>1. v.id <= w.id
        BY <1>3, <1>4, <3>2
      <4>2. v.id # w.id
        BY <1>4, <2>1
      <4> QED
        BY <1>1, <1>4, <3>2, <4>1, <4>2 DEF Before
    <3>3. CASE MaxDay - v.date # MaxDay - w.date
      BY <1>1, <1>4, <3>1, <3>3 DEF Before
    <3> QED
      BY <3>2, <3>3
  <2> QED
    BY <2>1
<1> QED
  BY <1>4, <1>5 DEF First

\* Versions are totally ordered, by day and then by number.
LEMMA BeforeOrders ==
  ASSUME NEW u \in Row, NEW v \in Row, NEW w \in Row
  PROVE  /\ ~(Before(u, v) /\ Before(v, u))
         /\ Before(u, v) /\ Before(v, w) => Before(u, w)
<1>1. /\ u.date \in Nat /\ v.date \in Nat /\ w.date \in Nat
      /\ u.id \in Nat /\ v.id \in Nat /\ w.id \in Nat
  BY RetentionAssumption DEF Row
<1> QED
  BY <1>1 DEF Before

\* The policy for a path is the first in priority that covers it.
LEMMA MatchingCovers ==
  ASSUME NEW P \in SUBSET Policy, NEW p, Matching(P, p) # None
  PROVE  /\ Matching(P, p) \in P /\ p \in Covers[Matching(P, p)]
         /\ \A o \in P : p \in Covers[o] => Priority[o] <= Priority[Matching(P, p)]
<1> DEFINE M == {q \in P : p \in Covers[q]}
<1>1. M # {}
  BY DEF Matching
<1>2. \E q \in M : \A o \in M : Priority[o] <= Priority[q]
  BY <1>1, RetentionAssumption
<1>3. Matching(P, p) = CHOOSE q \in M : \A o \in M : Priority[o] <= Priority[q]
  BY <1>1 DEF Matching
<1> QED
  BY <1>2, <1>3

\* What expires are versions, each past the limit of the policy, and never the first
\* outside purge mode.
LEMMA ExpiredGood ==
  ASSUME NEW V, NEW q, NEW day, NEW v \in Expired(V, q, day)
  PROVE  /\ v \in V /\ q # None
         /\ KeepDays[q] # None /\ v.date + KeepDays[q] < day
         /\ Keep[q] # 0 => v # First(V)
  BY DEF Expired, ShouldExpire

-----------------------------------------------------------------------------
(* The invariant. *)

\* The invariant holds initially.
LEMMA InitInv == Init => RetentionInv
<1> SUFFICES ASSUME Init PROVE RetentionInv
  OBVIOUS
<1> USE RetentionAssumption
<1>1. TypeOK
  BY DEF Init, TypeOK, Idle, Evaluation
<1>2. \A e \in Evaluator : ev[e].victims = {} /\ ev[e].day = 0
  BY DEF Init, Idle
<1>3. rows = {} /\ now = 1
  BY DEF Init
<1>4. Numbered /\ Preceded
  BY <1>2, <1>3 DEF Numbered, Preceded
<1>5. Outlived
  BY <1>2, <1>3 DEF Outlived
<1> QED
  BY <1>1, <1>4, <1>5 DEF RetentionInv

\* An evaluation whose record is replaced.
LEMMA EvUpdate ==
  ASSUME TypeOK, NEW e \in Evaluator, NEW r \in Evaluation, Set(e, r)
  PROVE  /\ ev' \in [Evaluator -> Evaluation] /\ ev'[e] = r
         /\ \A x \in Evaluator : x # e => ev'[x] = ev[x]
  BY DEF TypeOK, Set

\* An evaluation that has not begun has no victims.
LEMMA IdleType == Idle \in Evaluation /\ Idle.victims = {} /\ Idle.day = 0
  BY RetentionAssumption DEF Idle, Evaluation

\* An evaluation that begins or ends has no victims.
LEMMA FreshInv ==
  ASSUME RetentionInv, NEW e \in Evaluator, NEW r \in Evaluation, Set(e, r), r.victims = {}, r.day <= now,
         UNCHANGED <<now, rows, last, active>>
  PROVE  RetentionInv'
<1>1. /\ ev' \in [Evaluator -> Evaluation] /\ ev'[e] = r
      /\ \A x \in Evaluator : x # e => ev'[x] = ev[x]
  BY EvUpdate DEF RetentionInv
<1>2. TypeOK'
  BY <1>1 DEF RetentionInv, TypeOK
<1>3. Numbered'
  BY <1>1 DEF RetentionInv, Numbered
<1>4. Preceded'
  BY <1>1 DEF RetentionInv, Preceded
<1>5. Outlived'
  BY <1>1 DEF RetentionInv, Outlived, Outlives
<1> QED
  BY <1>2, <1>3, <1>4, <1>5 DEF RetentionInv

\* A backup adds a version after all there are.
LEMMA AddVersionInv ==
  ASSUME RetentionInv, AddVersion
  PROVE  RetentionInv'
<1> USE RetentionAssumption DEF RetentionInv
<1>1. PICK p \in Path, k \in Kinds :
        rows' = rows \cup {[id |-> last + 1, path |-> p, date |-> IF k = "own" THEN now ELSE Undated]}
  BY DEF AddVersion
<1> DEFINE d == IF k = "own" THEN now ELSE Undated
           v == [id |-> last + 1, path |-> p, date |-> d]
<1>2. last \in 0..MaxRow /\ last + 1 \in 1..MaxRow /\ last' = last + 1 /\ UNCHANGED <<now, active, ev>>
  BY DEF AddVersion, TypeOK
<1>3. d \in 0..MaxDay
  BY DEF TypeOK, Undated
<1>4. v \in Row /\ v.id = last + 1 /\ rows' = rows \cup {v}
  BY <1>1, <1>2, <1>3 DEF Row
<1> HIDE DEF v, d
<1>5. TypeOK'
  BY <1>2, <1>4 DEF TypeOK
<1>6. Numbered'
  <2>1. \A w \in rows : w.id \in Nat /\ w.id <= last
    BY DEF Numbered, TypeOK, Row
  <2>2. \A w \in rows : w.id < last + 1
    BY <1>2, <2>1
  <2> QED
    BY <1>2, <1>4, <2>1, <2>2 DEF Numbered
<1>7. Preceded'
  BY <1>2, <1>4 DEF Preceded
<1>8. Outlived'
  BY <1>2, <1>4 DEF Outlived, Outlives
<1> QED
  BY <1>5, <1>6, <1>7, <1>8

\* An evaluation that has read the versions spares a first one it can see.
LEMMA ReadVersionsInv ==
  ASSUME RetentionInv, NEW e \in Evaluator, ReadVersions(e)
  PROVE  RetentionInv'
<1> USE DEF RetentionInv
<1>1. PICK p \in ev[e].todo :
        Set(e, [ev[e] EXCEPT !.todo = @ \ {p},
                  !.victims = Expired(Versions(p), Matching(ev[e].pol, p), ev[e].day)])
  BY DEF ReadVersions
<1> DEFINE V == Versions(p)
           q == Matching(ev[e].pol, p)
           X == Expired(V, q, ev[e].day)
           r == [ev[e] EXCEPT !.todo = ev[e].todo \ {p}, !.victims = X]
<1>2. ev[e] \in Evaluation
  BY DEF TypeOK
<1>3. X \subseteq V /\ V \subseteq rows /\ rows \subseteq Row
  BY ExpiredGood DEF Versions, TypeOK
<1>4. r \in Evaluation /\ r.victims = X /\ r.day = ev[e].day /\ r.pol = ev[e].pol
  <2> HIDE DEF X
  <2> QED
    BY <1>2, <1>3 DEF Evaluation
<1>5. UNCHANGED <<now, rows, last, active>> /\ Set(e, r)
  BY <1>1 DEF ReadVersions
<1> HIDE DEF r
<1>6. /\ ev' \in [Evaluator -> Evaluation] /\ ev'[e] = r
      /\ \A x \in Evaluator : x # e => ev'[x] = ev[x]
  BY <1>4, <1>5, EvUpdate
<1>7. TypeOK'
  BY <1>5, <1>6 DEF TypeOK
<1>8. Numbered'
  BY <1>3, <1>4, <1>5, <1>6 DEF Numbered
<1>9. \A v \in X : /\ v.path = p /\ q \in Policy /\ v.path \in Covers[q]
                   /\ KeepDays[q] # None /\ v.date + KeepDays[q] < ev[e].day
                   /\ Keep[q] # 0 => v # First(V)
  <2>1. ev[e].pol \in SUBSET Policy
    BY <1>2 DEF Evaluation
  <2>2. q # None => q \in Policy /\ p \in Covers[q]
    BY <2>1, MatchingCovers
  <2>3. \A v \in V : v.path = p
    BY DEF Versions
  <2> HIDE DEF V, q
  <2> QED
    BY <2>2, <2>3, ExpiredGood
<1>10. Preceded'
  <2>1. ASSUME NEW v \in X, Guarded(v.path)
        PROVE  \E w \in rows : w.path = v.path /\ Before(w, v)
    <3>1. v # First(V) /\ v \in V
      <4>1. Keep[q] > 0
        BY <1>9, <2>1 DEF Guarded
      <4>2. Keep[q] # 0
        BY <4>1
      <4> QED
        BY <1>3, <1>9, <2>1, <4>2
    <3>2. First(V) \in V /\ \A w \in V \ {First(V)} : Before(First(V), w)
      BY <1>3, <3>1, FirstExists DEF Numbered
    <3>3. First(V) \in rows /\ First(V).path = v.path
      BY <3>1, <3>2 DEF Versions
    <3> QED
      BY <3>1, <3>2, <3>3
  <2> HIDE DEF X
  <2> QED
    BY <1>4, <1>5, <1>6, <2>1 DEF Preceded, Guarded, Before
<1>11. Outlived'
  <2>1. ASSUME NEW v \in X PROVE Outlives(v, ev[e].pol)
    <3>1. ev[e].pol \in SUBSET Policy
      BY <1>2 DEF Evaluation
    <3>2. q # None
      BY <2>1, ExpiredGood
    <3>3. q \in ev[e].pol /\ \A o \in ev[e].pol : p \in Covers[o] => Priority[o] <= Priority[q]
      BY <3>1, <3>2, MatchingCovers
    <3>4. v.date \in Nat /\ KeepDays[q] \in Nat /\ ev[e].day \in Nat /\ now \in Nat
      BY <1>2, <1>3, <1>9, <2>1, RetentionAssumption DEF TypeOK, Row, Evaluation
    <3>5. v.date + KeepDays[q] < now
      BY <1>9, <2>1, <3>4 DEF Outlived
    <3>6. v.path = p /\ v.path \in Covers[q] /\ KeepDays[q] # None
      BY <1>9, <2>1
    <3> HIDE DEF q, X
    <3> QED
      BY <3>3, <3>5, <3>6 DEF Outlives
  <2> HIDE DEF X
  <2> QED
    BY <1>4, <1>5, <1>6, <2>1 DEF Outlived, Outlives
<1> QED
  BY <1>7, <1>8, <1>10, <1>11

\* The victim that is deleted is one of the evaluation's, and a row like any other.
LEMMA VictimKnown ==
  ASSUME RetentionInv, NEW e \in Evaluator, ev[e].victims # {}
  PROVE  ev[e] \in Evaluation /\ ev[e].victims \subseteq Row /\ First(ev[e].victims) \in ev[e].victims
<1>1. ev[e] \in Evaluation
  BY DEF RetentionInv, TypeOK
<1>2. ev[e].victims \in SUBSET Row
  BY <1>1 DEF Evaluation
<1> QED
  BY <1>1, <1>2, FirstExists DEF RetentionInv, Numbered

\* A version that goes has an earlier one beside it, or is not guarded.
LEMMA DeleteEntryInv ==
  ASSUME RetentionInv, NEW e \in Evaluator, DeleteEntry(e)
  PROVE  RetentionInv'
<1> USE DEF RetentionInv
<1> DEFINE v == First(ev[e].victims)
           X == ev[e].victims \ {v}
           r == [ev[e] EXCEPT !.victims = X]
<1>1. v \in ev[e].victims /\ ev[e].victims \subseteq Row /\ ev[e] \in Evaluation
  BY VictimKnown DEF DeleteEntry
<1>2. rows' = rows \ {v} /\ Set(e, r) /\ UNCHANGED <<now, last, active>>
  BY DEF DeleteEntry
<1> HIDE DEF v
<1>3. r \in Evaluation /\ r.victims = X /\ r.day = ev[e].day /\ r.pol = ev[e].pol
  <2>1. X \subseteq Row
    BY <1>1
  <2> HIDE DEF X
  <2> QED
    BY <1>1, <2>1 DEF Evaluation
<1> HIDE DEF r
<1>4. /\ ev' \in [Evaluator -> Evaluation] /\ ev'[e] = r
      /\ \A x \in Evaluator : x # e => ev'[x] = ev[x]
  BY <1>2, <1>3, EvUpdate
<1>5. \A x \in Evaluator : /\ ev'[x].victims \subseteq ev[x].victims
                           /\ ev'[x].day = ev[x].day /\ ev'[x].pol = ev[x].pol
  BY <1>3, <1>4
<1>6. TypeOK'
  BY <1>2, <1>4 DEF TypeOK
<1>7. Numbered'
  BY <1>2, <1>5 DEF Numbered
<1>8. Outlived'
  BY <1>2, <1>5 DEF Outlived, Outlives
<1>9. Preceded'
  <2>1. ASSUME NEW x \in Evaluator, NEW u \in ev[x].victims, Guarded(u.path)
        PROVE  \E w \in rows \ {v} : w.path = u.path /\ Before(w, u)
    <3>1. PICK w \in rows : w.path = u.path /\ Before(w, u)
      BY <2>1 DEF Preceded
    <3>2. CASE w # v
      BY <3>1, <3>2
    <3>3. CASE w = v
      <4>1. PICK t \in rows : t.path = v.path /\ Before(t, v)
        BY <1>1, <2>1, <3>1, <3>3 DEF Preceded
      <4>2. u \in Row /\ v \in Row /\ t \in Row
        BY <1>1, <2>1 DEF TypeOK, Evaluation
      <4>3. t # v /\ Before(t, u)
        BY <3>1, <3>3, <4>1, <4>2, BeforeOrders
      <4> QED
        BY <3>1, <3>3, <4>1, <4>3
    <3> QED
      BY <3>2, <3>3
  <2> QED
    BY <1>2, <1>5, <2>1 DEF Preceded, Guarded, Before
<1> QED
  BY <1>6, <1>7, <1>8, <1>9

\* What has outlived a policy has outlived it tomorrow.
LEMMA OutlivesMore ==
  ASSUME RetentionInv, NEW CONSTANT v \in Row, NEW pol \in SUBSET Policy, Outlives(v, pol),
         now' = now + 1
  PROVE  \E q \in pol : /\ v.path \in Covers[q]
                        /\ \A o \in pol : v.path \in Covers[o] => Priority[o] <= Priority[q]
                        /\ KeepDays[q] # None /\ v.date + KeepDays[q] < now'
<1>1. PICK q \in pol : /\ v.path \in Covers[q]
                       /\ \A o \in pol : v.path \in Covers[o] => Priority[o] <= Priority[q]
                       /\ KeepDays[q] # None /\ v.date + KeepDays[q] < now
  BY DEF Outlives
<1>2. v.date \in Nat /\ KeepDays[q] \in Nat /\ now \in Nat
  BY <1>1, RetentionAssumption DEF RetentionInv, TypeOK, Row
<1>3. v.date + KeepDays[q] < now'
  BY <1>1, <1>2
<1> QED
  BY <1>1, <1>3

\* Every step keeps the invariant.
LEMMA NextInv ==
  ASSUME RetentionInv, [Next]_vars
  PROVE  RetentionInv'
<1>1. CASE Tick
  <2>1. now' = now + 1 /\ now < MaxDay /\ UNCHANGED <<rows, last, active, ev>>
    BY <1>1 DEF Tick
  <2>2. TypeOK'
    BY <2>1, RetentionAssumption DEF RetentionInv, TypeOK
  <2>3. Numbered' /\ Preceded'
    BY <2>1 DEF RetentionInv, Numbered, Preceded
  <2>4. \A e \in Evaluator : ev[e].day \in Nat /\ now \in Nat
    BY RetentionAssumption DEF RetentionInv, TypeOK, Evaluation
  <2>5. \A e \in Evaluator : ev[e].victims \subseteq Row /\ ev[e].pol \in SUBSET Policy
    BY DEF RetentionInv, TypeOK, Evaluation
  <2>6. \A e \in Evaluator : \A v \in ev[e].victims : Outlives(v, ev[e].pol)'
    <3> SUFFICES ASSUME NEW e \in Evaluator, NEW v \in ev[e].victims
                 PROVE  Outlives(v, ev[e].pol)'
      OBVIOUS
    <3> DEFINE P == ev[e].pol
    <3>1. P \in SUBSET Policy /\ v \in Row /\ Outlives(v, P)
      BY <2>5 DEF RetentionInv, Outlived
    <3>2. P' = P
      BY <2>1
    <3> HIDE DEF P
    <3>3. \E q \in P : /\ v.path \in Covers[q]
                       /\ \A o \in P : v.path \in Covers[o] => Priority[o] <= Priority[q]
                       /\ KeepDays[q] # None /\ v.date + KeepDays[q] < now'
      BY <2>1, <3>1, OutlivesMore
    <3> QED
      BY <3>2, <3>3 DEF P, Outlives
  <2>7. Outlived'
    BY <2>1, <2>4, <2>6 DEF RetentionInv, Outlived
  <2> QED
    BY <2>2, <2>3, <2>7 DEF RetentionInv
<1>2. CASE AddVersion
  BY <1>2, AddVersionInv
<1>3. ASSUME NEW q \in Policy, AddPolicy(q) \/ RemovePolicy(q) PROVE RetentionInv'
  <2>1. UNCHANGED <<now, rows, last, ev>> /\ active' \in SUBSET Policy
    BY <1>3 DEF AddPolicy, RemovePolicy, RetentionInv, TypeOK
  <2> QED
    BY <2>1 DEF RetentionInv, TypeOK, Numbered, Preceded, Outlived, Outlives
<1>4. ASSUME NEW e \in Evaluator, Begin(e) PROVE RetentionInv'
  <2> DEFINE P == {v.path : v \in rows}
             r == [Idle EXCEPT !.on = TRUE, !.pol = active, !.day = now, !.todo = P]
  <2>1. P \in SUBSET Path
    BY DEF RetentionInv, TypeOK, Row
  <2>2. active \in SUBSET Policy /\ now \in 0..MaxDay
    BY RetentionAssumption DEF RetentionInv, TypeOK
  <2>3. r \in Evaluation /\ r.victims = {} /\ r.day = now
    <3> HIDE DEF P
    <3> QED
      BY <2>1, <2>2 DEF Idle, Evaluation
  <2>4. Set(e, r) /\ UNCHANGED <<now, rows, last, active>>
    BY <1>4 DEF Begin
  <2>5. r.day <= now
    BY <2>2, <2>3
  <2> HIDE DEF r
  <2> QED
    BY <2>3, <2>4, <2>5, FreshInv
<1>5. ASSUME NEW e \in Evaluator, End(e) \/ Abort(e) PROVE RetentionInv'
  <2>1. Set(e, Idle) /\ UNCHANGED <<now, rows, last, active>>
    BY <1>5 DEF End, Abort
  <2>2. Idle.day <= now
    BY IdleType, RetentionAssumption DEF RetentionInv, TypeOK
  <2> QED
    BY <2>1, <2>2, IdleType, FreshInv
<1>6. CASE UNCHANGED vars
  BY <1>6 DEF vars, RetentionInv, TypeOK, Numbered, Preceded, Outlived, Outlives
<1> QED
  BY <1>1, <1>2, <1>3, <1>4, <1>5, <1>6, ReadVersionsInv, DeleteEntryInv DEF Next, Continue

\* It holds always.
LEMMA RetentionInvariant == Spec => []RetentionInv
  BY InitInv, NextInv, PTL DEF Spec

\* The only rows that go are victims.
LEMMA OnlyVictimsGo ==
  ASSUME RetentionInv, [Next]_vars, NEW v \in rows \ rows'
  PROVE  \E e \in Evaluator : v \in ev[e].victims
<1>1. PICK e \in Evaluator : DeleteEntry(e)
  BY DEF Next, Continue, Tick, AddVersion, AddPolicy, RemovePolicy, Begin, ReadVersions, End, Abort, vars
<1>2. v = First(ev[e].victims) /\ ev[e].victims # {}
  BY <1>1 DEF DeleteEntry
<1> QED
  BY <1>2, VictimKnown

-----------------------------------------------------------------------------
\* The latest dated version of a path, which comes first when Evaluate reads the
\* versions, is never removed as long as no purge policy covers the path, whatever
\* evaluations, backups and changes of policy overlap.
THEOREM FirstStays == Spec => FirstVersionStays
<1>1. ASSUME RetentionInv, [Next]_vars, NEW p \in Path, Guarded(p), Versions(p) # {}
      PROVE  First(Versions(p)) \in rows'
  <2> DEFINE f == First(Versions(p))
  <2>1. Versions(p) \in SUBSET Row /\ \A v, w \in Versions(p) : v.id = w.id => v = w
    BY <1>1 DEF Versions, RetentionInv, TypeOK, Numbered
  <2>2. f \in Versions(p) /\ \A w \in Versions(p) \ {f} : Before(f, w)
    BY <1>1, <2>1, FirstExists
  <2>3. f \in rows /\ f.path = p
    BY <2>2 DEF Versions
  <2> HIDE DEF f
  <2>4. ASSUME f \notin rows' PROVE FALSE
    <3>1. PICK e \in Evaluator : f \in ev[e].victims
      BY <1>1, <2>3, <2>4, OnlyVictimsGo
    <3>2. PICK w \in rows : w.path = p /\ Before(w, f)
      BY <1>1, <2>3, <3>1 DEF RetentionInv, Preceded
    <3>3. w \in Versions(p)
      BY <3>2 DEF Versions
    <3>4. f \in Row /\ w \in Row
      BY <2>1, <2>2, <3>3
    <3>5. w # f
      BY <3>2, <3>4, BeforeOrders
    <3> QED
      BY <2>2, <3>2, <3>3, <3>4, <3>5, BeforeOrders
  <2> QED
    BY <2>4 DEF f
<1>2. RetentionInv /\ [Next]_vars =>
        [\A p \in Path : Guarded(p) /\ Versions(p) # {} => First(Versions(p)) \in rows']_vars
  BY <1>1
<1> QED
  BY RetentionInvariant, <1>2, PTL DEF Spec, FirstVersionStays

\* What is removed is removed by an evaluation that has found it expired, and has
\* outlived the policy of the highest priority for its path among those the evaluation
\* began with.
THEOREM ExpiredGo == Spec => OnlyExpiredGo
<1>1. ASSUME RetentionInv, [Next]_vars, NEW v \in rows \ rows'
      PROVE  \E e \in Evaluator : v \in ev[e].victims /\ Outlives(v, ev[e].pol)
  BY <1>1, OnlyVictimsGo DEF RetentionInv, Outlived
<1>2. RetentionInv /\ [Next]_vars =>
        [\A v \in rows \ rows' :
           \E e \in Evaluator : v \in ev[e].victims /\ Outlives(v, ev[e].pol)]_vars
  BY <1>1
<1> QED
  BY RetentionInvariant, <1>2, PTL DEF Spec, OnlyExpiredGo

=============================================================================
