-------------------------------- MODULE CAS --------------------------------
(***************************************************************************)
(* The content-addressed store on the file system.  A blob lives in        *)
(* baseDir/hash[:2]/hash; Put writes a temporary file in that directory    *)
(* and renames it, Delete removes the file and then the directory if it is *)
(* empty.  Every system call is a step of its own.                         *)
(*                                                                         *)
(* An inode is named after the Put that created it; data counts the chunks *)
(* written to it so far.  A reader holds an inode, not a name.             *)
(***************************************************************************)
EXTENDS Naturals

CONSTANTS
  Putter, Deleter, Reader,  \* concurrent calls of Put, Delete and Get
  Hash, Dir,
  DirOf,                    \* the directory of each hash
  Chunks,                   \* number of chunks in a blob
  Nil

ASSUME CASAssumption ==
  /\ DirOf \in [Hash -> Dir]
  /\ Chunks \in Nat \ {0}
  /\ Nil \notin Putter \cup Hash \cup (0..Chunks)

VARIABLES
  dir,      \* which directories exist
  file,     \* the inode each hash's path names, or Nil
  temp,     \* Puts whose temporary file is in its directory
  data,     \* chunks written to each inode
  pc,       \* progress of each Put
  target,   \* the hash each Put stores
  doomed,   \* the hash whose directory a Delete is about to try to remove
  handle,   \* the inode each reader has open
  taken     \* chunks each reader has read, or Nil before it has returned

casVars == <<dir, file, temp, data, pc, target, doomed, handle, taken>>

putVars == <<data, pc, target>>
readVars == <<handle, taken>>

Ended == {"done", "failed", "littered", "cut"}

CASTypeOK ==
  /\ dir \in [Dir -> BOOLEAN]
  /\ file \in [Hash -> Putter \cup {Nil}]
  /\ temp \in SUBSET Putter
  /\ data \in [Putter -> 0..Chunks]
  /\ pc \in [Putter -> {"idle", "mkdir", "copy", "rename", "clean"} \cup Ended]
  /\ target \in [Putter -> Hash]
  /\ doomed \in [Deleter -> Hash \cup {Nil}]
  /\ handle \in [Reader -> Putter \cup {Nil}]
  /\ taken \in [Reader -> 0..Chunks \cup {Nil}]

CASInit ==
  /\ dir = [d \in Dir |-> FALSE]
  /\ file = [h \in Hash |-> Nil]
  /\ temp = {}
  /\ data = [p \in Putter |-> 0]
  /\ pc = [p \in Putter |-> "idle"]
  /\ target \in [Putter -> Hash]
  /\ doomed = [e \in Deleter |-> Nil]
  /\ handle = [r \in Reader |-> Nil]
  /\ taken = [r \in Reader |-> Nil]

Goto(p, l) == pc' = [pc EXCEPT ![p] = l]

Home(p) == DirOf[target[p]]

Empty(d) ==
  /\ \A h \in Hash : DirOf[h] = d => file[h] = Nil
  /\ \A p \in temp : Home(p) # d

-----------------------------------------------------------------------------
(* Put. *)

MkdirAll(p) ==
  /\ pc[p] = "idle"
  /\ \/ dir' = [dir EXCEPT ![Home(p)] = TRUE] /\ Goto(p, "mkdir")
     \/ UNCHANGED dir /\ Goto(p, "failed")
  /\ UNCHANGED <<file, temp, data, target, doomed, readVars>>

\* The directory may have gone since MkdirAll: then there is nowhere to create
\* the file.
CreateTemp(p) ==
  /\ pc[p] = "mkdir"
  /\ \/ dir[Home(p)] /\ temp' = temp \cup {p} /\ Goto(p, "copy")
     \/ UNCHANGED temp /\ Goto(p, "failed")
  /\ UNCHANGED <<dir, file, data, target, doomed, readVars>>

CopyChunk(p) ==
  /\ pc[p] = "copy" /\ data[p] < Chunks
  /\ data' = [data EXCEPT ![p] = @ + 1]
  /\ UNCHANGED <<dir, file, temp, pc, target, doomed, readVars>>

\* mutant: the loop stops one chunk early
CopyEndsEarly(p) ==
  /\ pc[p] = "copy"
  /\ \/ data[p] + 1 = Chunks /\ Goto(p, "rename")
     \/ Goto(p, "clean")
  /\ UNCHANGED <<dir, file, temp, data, target, doomed, readVars>>

\* io.Copy, then Close; a failure of either leads to the deferred clean-up.
CopyEnds(p) ==
  /\ pc[p] = "copy"
  /\ \/ data[p] = Chunks /\ Goto(p, "rename")
     \/ Goto(p, "clean")
  /\ UNCHANGED <<dir, file, temp, data, target, doomed, readVars>>

\* mutant: the temporary file stays behind
RenameByLink(p) ==
  /\ pc[p] = "rename"
  /\ file' = [file EXCEPT ![target[p]] = p]
  /\ Goto(p, "done")
  /\ UNCHANGED <<dir, temp, data, target, doomed, readVars>>

Rename(p) ==
  /\ pc[p] = "rename"
  /\ \/ /\ dir[Home(p)]
        /\ file' = [file EXCEPT ![target[p]] = p]
        /\ temp' = temp \ {p}
        /\ Goto(p, "done")
     \/ UNCHANGED <<file, temp>> /\ Goto(p, "clean")
  /\ UNCHANGED <<dir, data, target, doomed, readVars>>

\* The deferred removal, whose error is ignored.
CleanUp(p) ==
  /\ pc[p] = "clean"
  /\ \/ temp' = temp \ {p} /\ Goto(p, "failed")
     \/ UNCHANGED temp /\ Goto(p, "littered")
  /\ UNCHANGED <<dir, file, data, target, doomed, readVars>>

-----------------------------------------------------------------------------
(* Delete. *)

Remove(e) ==
  /\ doomed[e] = Nil
  /\ \E h \in Hash :
       /\ file[h] # Nil
       /\ file' = [file EXCEPT ![h] = Nil]
       /\ doomed' = [doomed EXCEPT ![e] = h]
  /\ UNCHANGED <<dir, temp, putVars, readVars>>

\* mutant: os.RemoveAll on the directory
RemoveTree(e) ==
  /\ doomed[e] # Nil
  /\ dir' = [dir EXCEPT ![DirOf[doomed[e]]] = FALSE]
  /\ file' = [h \in Hash |-> IF DirOf[h] = DirOf[doomed[e]] THEN Nil ELSE file[h]]
  /\ doomed' = [doomed EXCEPT ![e] = Nil]
  /\ UNCHANGED <<temp, putVars, readVars>>

\* os.Remove of the directory: it fails, unnoticed, unless it is empty.
RemoveDir(e) ==
  LET d == DirOf[doomed[e]]
  IN  /\ doomed[e] # Nil
      /\ dir' = IF Empty(d) THEN [dir EXCEPT ![d] = FALSE] ELSE dir
      /\ doomed' = [doomed EXCEPT ![e] = Nil]
      /\ UNCHANGED <<file, temp, putVars, readVars>>

-----------------------------------------------------------------------------
(* Get, and the caller's reading of what it returns. *)

Open(r) ==
  /\ handle[r] = Nil
  /\ \E h \in Hash : file[h] # Nil /\ handle' = [handle EXCEPT ![r] = file[h]]
  /\ UNCHANGED <<dir, file, temp, putVars, doomed, taken>>

\* Read to the end of the file as it is when the end is reached.
ReadAll(r) ==
  /\ handle[r] # Nil /\ taken[r] = Nil
  /\ taken' = [taken EXCEPT ![r] = data[handle[r]]]
  /\ UNCHANGED <<dir, file, temp, putVars, doomed, handle>>

-----------------------------------------------------------------------------
\* The process dies and starts again: calls under way are cut, their temporary
\* files stay, and nothing ever removes them.
Restart ==
  /\ pc' = [p \in Putter |-> IF pc[p] \in {"idle"} \cup Ended THEN pc[p] ELSE "cut"]
  /\ doomed' = [e \in Deleter |-> Nil]
  /\ handle' = [r \in Reader |-> IF taken[r] = Nil THEN Nil ELSE handle[r]]
  /\ UNCHANGED <<dir, file, temp, data, target, taken>>

PutStep(p) ==
  MkdirAll(p) \/ CreateTemp(p) \/ CopyChunk(p) \/ CopyEnds(p) \/ Rename(p) \/ CleanUp(p)

CASNext ==
  \/ \E p \in Putter : PutStep(p)
  \/ \E e \in Deleter : Remove(e) \/ RemoveDir(e)
  \/ \E r \in Reader : Open(r) \/ ReadAll(r)
  \/ Restart

CASSpec == CASInit /\ [][CASNext]_casVars

-----------------------------------------------------------------------------
(* Properties. *)

\* The store is the atomic one its callers rely on: storing is the rename,
\* deleting is the removal of the name, and a reader sees a whole blob.
Store == INSTANCE BlobStore WITH
  None <- Nil,
  content <- file,
  put <- [p \in Putter |-> IF pc[p] = "done" THEN "done"
                           ELSE IF pc[p] \in {"clean", "failed", "littered", "cut"} THEN "failed"
                           ELSE "open"],
  seen <- handle,
  got <- [r \in Reader |-> IF taken[r] = Nil THEN Nil
                            ELSE IF taken[r] = Chunks THEN handle[r]
                            ELSE <<handle[r], taken[r]>>]

ImplementsBlobStore == Store!Spec

\* A directory with anything in it is never removed, so a Put that has created
\* its temporary file cannot lose it to a concurrent Delete.
DirectoryPresent ==
  /\ \A h \in Hash : file[h] # Nil => dir[DirOf[h]]
  /\ \A p \in temp : dir[Home(p)]

\* Temporary files belong to calls under way, to calls a crash cut short or to failed
\* calls whose removal of theirs failed: a Put that has stored its blob leaves none, nor
\* one that failed before it had any or that could remove it.
TempAccountedFor == \A p \in temp : pc[p] \in {"copy", "rename", "clean", "littered", "cut"}
=============================================================================
