----------------------------- MODULE Retention -----------------------------
(***************************************************************************)
(* Which versions retention removes.  Every row of the backups table with  *)
(* a file path is a version of that path.  An evaluation loads the         *)
(* policies and the paths once, then reads each path's versions and        *)
(* deletes the expired ones one by one, while backups go on, policies come *)
(* and go, and another evaluation (the hourly loop, "tergum retention      *)
(* run") may be under way in another process.  What happens to the blobs   *)
(* is the subject of module BackupStore.                                   *)
(***************************************************************************)
EXTENDS Naturals, FiniteSets

CONSTANTS
  Path, Policy,
  Evaluator,  \* the processes that run Evaluate
  Hourly,     \* those of them that are a daemon's hourly loop
  Covers,     \* the paths each policy's pattern matches
  KeepDays,   \* each policy's keep_days, or None: keep forever
  Keep,       \* each policy's keep_versions; 0 is purge mode
  Priority,   \* distinct, so that the order of the policies is determined
  Kinds,      \* the kinds of rows the table gets: a hybrid node's "own" entries,
              \* the server's record of an "upload"
  MaxDay, MaxRow,
  None

ASSUME RetentionAssumption ==
  /\ Hourly \subseteq Evaluator
  /\ Covers \in [Policy -> SUBSET Path]
  /\ KeepDays \in [Policy -> Nat \cup {None}]
  /\ Keep \in [Policy -> Nat]
  /\ Priority \in [Policy -> Nat]
  /\ \A a, b \in Policy : Priority[a] = Priority[b] => a = b
  /\ \A P \in SUBSET Policy : P # {} => \E q \in P : \A o \in P : Priority[o] <= Priority[q]
  /\ Kinds \subseteq {"own", "upload"}
  /\ MaxDay \in Nat \ {0} /\ MaxRow \in Nat
  /\ None \notin Nat \cup Path \cup Policy

VARIABLES
  now,      \* the day
  rows,     \* the backups table
  last,     \* the last row id given out
  active,   \* the retention_policies table: the enabled policies
  ev        \* every evaluation

vars == <<now, rows, last, active, ev>>

\* A row the server writes for an upload carries no date: it is stored as the
\* year 1, before any day.
Undated == 0

Row == [id : 1..MaxRow, path : Path, date : 0..MaxDay]

Evaluation == [on : BOOLEAN, pol : SUBSET Policy,
               day : 0..MaxDay, todo : SUBSET Path, victims : SUBSET Row]

Idle == [on |-> FALSE, pol |-> {}, day |-> 0, todo |-> {}, victims |-> {}]

TypeOK ==
  /\ now \in 1..MaxDay
  /\ rows \in SUBSET Row
  /\ last \in 0..MaxRow
  /\ active \in SUBSET Policy
  /\ ev \in [Evaluator -> Evaluation]

Init ==
  /\ now = 1
  /\ rows = {}
  /\ last = 0
  /\ active \in SUBSET Policy
  /\ ev = [e \in Evaluator |-> Idle]

-----------------------------------------------------------------------------
(* The pure part of Evaluate. *)

Versions(p) == {v \in rows : v.path = p}

\* ORDER BY backup_date DESC; rows of one date come in the order of their ids,
\* the order in which the index on file_path delivers them.
Before(v, w) == v.date > w.date \/ (v.date = w.date /\ v.id < w.id)

First(V) == CHOOSE v \in V : \A w \in V \ {v} : Before(v, w)

\* mutant: the policies come in ascending order of priority
MatchingLeast(pol, p) ==
  LET M == {q \in pol : p \in Covers[q]}
  IN  IF M = {} THEN None
      ELSE CHOOSE q \in M : \A o \in M : Priority[o] >= Priority[q]

\* findMatchingPolicy: the first match in descending order of priority.
Matching(pol, p) ==
  LET M == {q \in pol : p \in Covers[q]}
  IN  IF M = {} THEN None
      ELSE CHOOSE q \in M : \A o \in M : Priority[o] <= Priority[q]

ShouldExpire(v, q, day, total) ==
  /\ KeepDays[q] # None
  /\ ~(Keep[q] > 0 /\ total <= Keep[q])
  /\ v.date + KeepDays[q] < day

\* mutant: the first version gets no protection
ExpiredAll(V, q, day) ==
  IF q = None \/ V = {} THEN {} ELSE {v \in V : ShouldExpire(v, q, day, Cardinality(V))}

\* Purge mode puts every version up for expiry, standard mode all but the first.
Expired(V, q, day) ==
  IF q = None \/ V = {} THEN {}
  ELSE {v \in IF Keep[q] = 0 THEN V ELSE V \ {First(V)} :
          ShouldExpire(v, q, day, Cardinality(V))}

-----------------------------------------------------------------------------
(* The environment. *)

Tick ==
  /\ now < MaxDay
  /\ now' = now + 1
  /\ UNCHANGED <<rows, last, active, ev>>

\* A new version: an entry of the node's own backup, or a client's upload.
AddVersion ==
  /\ last < MaxRow
  /\ last' = last + 1
  /\ \E p \in Path, k \in Kinds :
       rows' = rows \cup {[id |-> last + 1, path |-> p,
                            date |-> IF k = "own" THEN now ELSE Undated]}
  /\ UNCHANGED <<now, active, ev>>

AddPolicy(q) ==
  /\ q \notin active
  /\ active' = active \cup {q}
  /\ UNCHANGED <<now, rows, last, ev>>

RemovePolicy(q) ==
  /\ q \in active
  /\ active' = active \ {q}
  /\ UNCHANGED <<now, rows, last, ev>>

-----------------------------------------------------------------------------
(* Evaluate. *)

Set(e, rec) == ev' = [ev EXCEPT ![e] = rec]

\* mutant: the day is taken when the process starts, and never again
BeginBlind(e) ==
  /\ ~ev[e].on
  /\ Set(e, [Idle EXCEPT !.on = TRUE, !.pol = active, !.day = 1,
                        !.todo = {v.path : v \in rows}])
  /\ UNCHANGED <<now, rows, last, active>>

Begin(e) ==
  /\ ~ev[e].on
  /\ Set(e, [Idle EXCEPT !.on = TRUE, !.pol = active, !.day = now,
                        !.todo = {v.path : v \in rows}])
  /\ UNCHANGED <<now, rows, last, active>>

\* GetFileVersions of the next path: which of them expire is decided here.
ReadVersions(e) ==
  /\ ev[e].on /\ ev[e].victims = {}
  /\ \E p \in ev[e].todo :
       Set(e, [ev[e] EXCEPT !.todo = @ \ {p},
                 !.victims = Expired(Versions(p), Matching(ev[e].pol, p), ev[e].day)])
  /\ UNCHANGED <<now, rows, last, active>>

\* DeleteEntryByID, in the order of the list.  It is no error if the row has
\* gone already.
DeleteEntry(e) ==
  /\ ev[e].victims # {}
  /\ LET v == First(ev[e].victims)
     IN  /\ rows' = rows \ {v}
         /\ Set(e, [ev[e] EXCEPT !.victims = @ \ {v}])
  /\ UNCHANGED <<now, last, active>>

End(e) ==
  /\ ev[e].on /\ ev[e].todo = {} /\ ev[e].victims = {}
  /\ Set(e, Idle)
  /\ UNCHANGED <<now, rows, last, active>>

\* A database or store error ends the evaluation where it is.
Abort(e) ==
  /\ ev[e].todo # {} \/ ev[e].victims # {}
  /\ Set(e, Idle)
  /\ UNCHANGED <<now, rows, last, active>>

Continue(e) == ReadVersions(e) \/ DeleteEntry(e) \/ End(e)

Next ==
  \/ Tick \/ AddVersion
  \/ \E q \in Policy : AddPolicy(q) \/ RemovePolicy(q)
  \/ \E e \in Evaluator : Begin(e) \/ Continue(e) \/ Abort(e)

\* An evaluation that runs goes on, the hourly loop begins another after the
\* one before, and the database does not fail for ever.
Fairness ==
  /\ \A e \in Evaluator : WF_vars(Continue(e))
  /\ \A e \in Hourly : WF_vars(Begin(e))
  /\ <>[][\A e \in Evaluator : ~Abort(e)]_vars

Spec == Init /\ [][Next]_vars /\ Fairness

-----------------------------------------------------------------------------
(* Properties. *)

\* A path that no purge policy covers.
Guarded(p) == \A q \in Policy : p \in Covers[q] => Keep[q] > 0

\* Core rule of retention (Evaluate's protection of versions[0]): with two
\* evaluations, new backups and policies changing in between, the first version
\* of a path stays as long as no purge policy covers the path.
FirstVersionStays ==
  [][\A p \in Path :
       Guarded(p) /\ Versions(p) # {} => First(Versions(p)) \in rows']_vars

\* The policy of pol that decides about a path, and that v has outlived.
Outlives(v, pol) ==
  \E q \in pol : /\ v.path \in Covers[q]
                 /\ \A o \in pol : v.path \in Covers[o] => Priority[o] <= Priority[q]
                 /\ KeepDays[q] # None
                 /\ v.date + KeepDays[q] < now

\* What is removed is removed by an evaluation that has found it expired, and has by now
\* outlived the policy of the highest priority for its path among those the evaluation
\* began with: one that keeps for ever protects it from every lower one, although
\* policies, versions and the day may change while evaluations run.
OnlyExpiredGo ==
  [][\A v \in rows \ rows' :
       \E e \in Evaluator : v \in ev[e].victims /\ Outlives(v, ev[e].pol)]_vars

\* A path over its policy's limit with something expired to remove.
Excess(p) ==
  LET q == Matching(active, p)
  IN  /\ q # None
      /\ Cardinality(Versions(p)) > Keep[q]
      /\ Expired(Versions(p), q, now) # {}

\* Expired versions do not stay for ever: an excess goes away, whatever the
\* evaluations that read an older state did.
ExcessGoes == \A p \in Path : []<>~Excess(p)

=============================================================================
