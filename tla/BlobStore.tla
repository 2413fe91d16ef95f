----------------------------- MODULE BlobStore -----------------------------
(***************************************************************************)
(* What tergum's blob store promises its callers: a put or a delete takes  *)
(* effect at one instant or not at all, and a get that finds a blob yields *)
(* the whole of what some put stored, whatever happens to the hash in the  *)
(* meantime.                                                               *)
(***************************************************************************)
CONSTANTS
  Putter,   \* calls of Put; a blob is named after the call that stored it
  Reader,   \* calls of Get
  Hash,
  None      \* no blob

VARIABLES
  content,  \* the blob of every hash
  put,      \* progress of every put: "open", "done" or "failed"
  seen,     \* the blob a get has found
  got       \* what a get has returned

vars == <<content, put, seen, got>>

TypeOK ==
  /\ content \in [Hash -> Putter \cup {None}]
  /\ put \in [Putter -> {"open", "done", "failed"}]
  /\ seen \in [Reader -> Putter \cup {None}]
  /\ got \in [Reader -> Putter \cup {None}]

Init ==
  /\ content = [h \in Hash |-> None]
  /\ put = [p \in Putter |-> "open"]
  /\ seen = [r \in Reader |-> None]
  /\ got = [r \in Reader |-> None]

\* A put replaces whatever the hash had.
Put(p, h) ==
  /\ put[p] = "open"
  /\ content' = [content EXCEPT ![h] = p]
  /\ put' = [put EXCEPT ![p] = "done"]
  /\ UNCHANGED <<seen, got>>

PutFails(p) ==
  /\ put[p] = "open"
  /\ put' = [put EXCEPT ![p] = "failed"]
  /\ UNCHANGED <<content, seen, got>>

Delete(h) ==
  /\ content[h] # None
  /\ content' = [content EXCEPT ![h] = None]
  /\ UNCHANGED <<put, seen, got>>

Open(r, h) ==
  /\ seen[r] = None /\ content[h] # None
  /\ seen' = [seen EXCEPT ![r] = content[h]]
  /\ UNCHANGED <<content, put, got>>

Return(r) ==
  /\ seen[r] # None /\ got[r] = None
  /\ got' = [got EXCEPT ![r] = seen[r]]
  /\ UNCHANGED <<content, put, seen>>

\* A restart cuts off puts that are not done and gets that have not returned;
\* what was stored stays.
Restart ==
  /\ put' \in [Putter -> {"open", "done", "failed"}]
  /\ \A p \in Putter : put'[p] = put[p] \/ (put[p] = "open" /\ put'[p] = "failed")
  /\ seen' = [r \in Reader |-> IF got[r] = None THEN None ELSE seen[r]]
  /\ UNCHANGED <<content, got>>

Next ==
  \/ \E p \in Putter : PutFails(p) \/ \E h \in Hash : Put(p, h)
  \/ \E h \in Hash : Delete(h) \/ \E r \in Reader : Open(r, h)
  \/ \E r \in Reader : Return(r)
  \/ Restart

Spec == Init /\ [][Next]_vars
=============================================================================
