---------------------------- MODULE RestoreProofs ----------------------------
(***************************************************************************)
(* Proofs about Restore, for any table, any selection and any number of    *)
(* backups, deletions and accidents: first how what is pushed to another   *)
(* client, then what a node's own workers write and report.                *)
(***************************************************************************)
EXTENDS Restore, FiniteSetTheorems, TLAPS

IsSequence(s) == \E S : s \in Seq(S)

Types ==
  /\ count \in [done : Nat, failed : Nat] /\ told \in [done : Nat, failed : Nat]
  /\ IsSequence(wire)
  /\ base \in BOOLEAN /\ skipped \in BOOLEAN
  /\ DOMAIN out = {"dest", "original"}
  /\ at \in {"idle", "look", "work", "push", "done", "broken"}

\* Files are under way during a push only, and workers at work during a restore.
Phases ==
  /\ at # "push" => wire = <<>>
  /\ at # "work" => \A w \in Worker : worker[w].at # "got"
  /\ at = "push" => req.how \notin Local
  /\ at = "work" => req.how \in Local
  /\ at \in {"idle", "look"} =>
       /\ count = [done |-> 0, failed |-> 0] /\ told = [done |-> 0, failed |-> 0]
       /\ ~base /\ ~skipped
       /\ \A p \in Path : out["original"][p] = None

\* What was sent is on its way or in the target's report.
Counted ==
  at \in {"push", "done"} /\ req.how \notin Local =>
    count.done = told.done + told.failed + Len(wire)

Named == req.how \notin Local /\ req.dest /\ ~(req.how = "cliPush" /\ skipped)

\* The first file that is sent names the destination.
FirstNames ==
  at = "push" /\ Named =>
    /\ count.done = 0 => wire = <<>> /\ (req.how = "cliPush" => count.failed = 0)
    /\ count.done # 0 /\ ~base => wire # <<>> /\ Head(wire).os

\* And so nothing is written elsewhere.
Elsewhere ==
  at # "idle" /\ Named => \A p \in Path : out["original"][p] = None

Inv == Types /\ Phases /\ Counted /\ FirstNames /\ Elsewhere

-----------------------------------------------------------------------------
\* The sequence operators, whatever the elements are.
LEMMA AppendSequence ==
  ASSUME NEW s, IsSequence(s), NEW m
  PROVE  /\ IsSequence(Append(s, m)) /\ Len(Append(s, m)) = Len(s) + 1 /\ Append(s, m) # <<>>
         /\ Head(Append(s, m)) = IF s = <<>> THEN m ELSE Head(s)
<1>1. PICK S : s \in Seq(S)
  BY DEF IsSequence
<1> DEFINE T == S \cup {m}
<1>2. s \in Seq(T) /\ m \in T
  BY <1>1
<1> HIDE DEF T
<1>3. Append(s, m) \in Seq(T) /\ Len(Append(s, m)) = Len(s) + 1 /\ Len(s) \in Nat
  BY <1>2
<1>4. Append(s, m) # <<>>
  BY <1>3
<1>5. Head(Append(s, m)) = IF s = <<>> THEN m ELSE Head(s)
  <2>1. Head(Append(s, m)) = Append(s, m)[1]
    BY <1>3, <1>4
  <2>2. CASE s = <<>>
    BY <1>2, <2>1, <2>2
  <2>3. CASE s # <<>>
    BY <1>2, <2>1, <2>3
  <2> QED
    BY <2>2, <2>3
<1> QED
  BY <1>3, <1>4, <1>5 DEF IsSequence

\* A sequence without its first element is one shorter.
LEMMA TailSequence ==
  ASSUME NEW s, IsSequence(s), s # <<>>
  PROVE  IsSequence(Tail(s)) /\ Len(Tail(s)) = Len(s) - 1 /\ Len(s) \in Nat
  BY DEF IsSequence

\* The elements of a sequence with one more.
LEMMA AppendEntries ==
  ASSUME NEW s, IsSequence(s), NEW m
  PROVE  Entries(Append(s, m)) = Entries(s) \cup {m}
<1>1. PICK S : s \in Seq(S)
  BY DEF IsSequence
<1> DEFINE T == S \cup {m}
<1>2. s \in Seq(T) /\ m \in T
  BY <1>1
<1> HIDE DEF T
<1>3. /\ DOMAIN Append(s, m) = 1..Len(s) + 1 /\ DOMAIN s = 1..Len(s) /\ Len(s) \in Nat
      /\ \A i \in 1..Len(s) + 1 : Append(s, m)[i] = IF i = Len(s) + 1 THEN m ELSE s[i]
  BY <1>2
<1>4. \A i \in DOMAIN s : i \in DOMAIN Append(s, m) /\ Append(s, m)[i] = s[i]
  BY <1>3
<1>5. Len(s) + 1 \in DOMAIN Append(s, m) /\ Append(s, m)[Len(s) + 1] = m
  BY <1>3
<1> QED
  BY <1>3, <1>4, <1>5 DEF Entries

\* The empty sequence.
LEMMA EmptySequence == IsSequence(<<>>) /\ Len(<<>>) = 0
<1>1. <<>> \in Seq({}) /\ Len(<<>>) = 0
  OBVIOUS
<1> QED
  BY <1>1 DEF IsSequence

-----------------------------------------------------------------------------
(* Picking the elements of a sequence at some positions. *)

\* There is an i-th position for every i up to their number, and every position is the
\* i-th for some i: what precedes a later one is a larger set.
LEMMA NthExists ==
  ASSUME NEW P \in SUBSET Nat, IsFiniteSet(P)
  PROVE  /\ \A i \in 1..Cardinality(P) : Nth(P, i) \in P
         /\ \A n \in P : \E i \in 1..Cardinality(P) : Nth(P, i) = n
<1> DEFINE Upto(n) == {m \in P : m <= n}
           rank == [n \in P |-> Cardinality(Upto(n))]
           N == Cardinality(P)
<1>1. N \in Nat
  BY FS_CardinalityType
<1>2. \A n \in P : IsFiniteSet(Upto(n)) /\ rank[n] \in 1..N
  <2>1. ASSUME NEW n \in P PROVE IsFiniteSet(Upto(n)) /\ rank[n] \in 1..N
    <3>1. Upto(n) \in SUBSET P /\ n \in Upto(n)
      OBVIOUS
    <3> HIDE DEF Upto
    <3>2. IsFiniteSet(Upto(n)) /\ Cardinality(Upto(n)) <= N
      BY <3>1, FS_Subset
    <3>3. Cardinality(Upto(n)) \in Nat /\ Cardinality(Upto(n)) # 0
      BY <3>1, <3>2, FS_CardinalityType, FS_EmptySet
    <3> QED
      BY <1>1, <3>2, <3>3
  <2> QED
    BY <2>1
<1>3. \A n, k \in P : n < k => rank[n] < rank[k]
  <2>1. ASSUME NEW n \in P, NEW k \in P, n < k PROVE rank[n] < rank[k]
    <3>0. n \in Nat /\ k \in Nat
      OBVIOUS
    <3>1. Upto(n) \in SUBSET Upto(k) /\ k \in Upto(k) /\ k \notin Upto(n)
      <4>1. \A m \in P : m \in Nat /\ (m <= n => m <= k)
        BY <2>1, <3>0
      <4>2. k <= k /\ ~(k <= n)
        BY <2>1, <3>0
      <4> QED
        BY <4>1, <4>2
    <3>2. IsFiniteSet(Upto(k)) /\ rank[n] \in Nat /\ rank[k] \in Nat
      BY <1>1, <1>2
    <3> HIDE DEF Upto
    <3>3. Cardinality(Upto(n)) <= Cardinality(Upto(k)) /\ Cardinality(Upto(n)) # Cardinality(Upto(k))
      BY <3>1, <3>2, FS_Subset
    <3> QED
      BY <3>2, <3>3
  <2> QED
    BY <2>1
<1>4. \A n, k \in P : rank[n] = rank[k] => n = k
  <2>1. ASSUME NEW n \in P, NEW k \in P, rank[n] = rank[k] PROVE n = k
    <3>1. n \in Nat /\ k \in Nat /\ rank[n] \in Nat
      BY <1>1, <1>2
    <3>2. ~(n < k) /\ ~(k < n)
      BY <1>3, <2>1, <3>1
    <3> QED
      BY <3>1, <3>2
  <2> QED
    BY <2>1
<1>5. \A i \in 1..N : \E n \in P : rank[n] = i
  <2>1. rank \in Injection(P, 1..N)
    BY <1>2, <1>4 DEF Injection, IsInjective
  <2>2. IsFiniteSet(1..N) /\ Cardinality(1..N) = N
    BY <1>1, FS_Interval
  <2>3. rank \in Surjection(P, 1..N)
    BY <2>1, <2>2, FS_Injection
  <2> QED
    BY <2>3 DEF Surjection
<1>6. \A n \in P : rank[n] = Cardinality({m \in P : m <= n})
  OBVIOUS
<1> HIDE DEF rank
<1>7. \A i \in 1..N : Nth(P, i) \in P /\ rank[Nth(P, i)] = i
  BY <1>5, <1>6 DEF Nth
<1> QED
  BY <1>2, <1>4, <1>7

\* What is picked is a sequence of just the elements at the positions.
LEMMA PickGood ==
  ASSUME NEW s, IsSequence(s), NEW P \in SUBSET DOMAIN s
  PROVE  /\ IsSequence(Pick(s, P)) /\ DOMAIN Pick(s, P) \subseteq Nat
         /\ Entries(Pick(s, P)) = {s[n] : n \in P}
<1>1. PICK S : s \in Seq(S)
  BY DEF IsSequence
<1>2. DOMAIN s = 1..Len(s) /\ Len(s) \in Nat
  BY <1>1
<1>3. P \in SUBSET Nat /\ IsFiniteSet(P)
  <2>1. IsFiniteSet(1..Len(s))
    BY <1>2, FS_Interval
  <2> QED
    BY <1>2, <2>1, FS_Subset
<1> DEFINE N == Cardinality(P)
<1>4. N \in Nat
  BY <1>3, FS_CardinalityType
<1>5. /\ \A i \in 1..N : Nth(P, i) \in P
      /\ \A n \in P : \E i \in 1..N : Nth(P, i) = n
  BY <1>3, NthExists
<1>6. Pick(s, P) \in Seq(S)
  <2>1. \A n \in P : s[n] \in S
    BY <1>1, <1>2
  <2>2. Pick(s, P) \in [1..N -> S]
    BY <1>5, <2>1 DEF Pick
  <2> QED
    BY <1>4, <2>2
<1>7. DOMAIN Pick(s, P) = 1..N /\ \A i \in 1..N : Pick(s, P)[i] = s[Nth(P, i)]
  BY DEF Pick
<1> HIDE DEF N
<1>8. Entries(Pick(s, P)) = {s[n] : n \in P}
  BY <1>5, <1>7 DEF Entries
<1> QED
  BY <1>4, <1>6, <1>7, <1>8 DEF IsSequence

\* Of several positions one is the first.
LEMMA FirstPosition ==
  ASSUME NEW s, IsSequence(s), NEW P \in SUBSET DOMAIN s, P # {}
  PROVE  Nth(P, 1) \in P
<1>1. DOMAIN s = 1..Len(s) /\ Len(s) \in Nat
  BY DEF IsSequence
<1>2. P \in SUBSET (1..Len(s)) /\ P \in SUBSET Nat
  BY <1>1
<1>3. IsFiniteSet(P)
  <2>1. IsFiniteSet(1..Len(s))
    BY <1>1, FS_Interval
  <2> QED
    BY <1>2, <2>1, FS_Subset
<1>4. Cardinality(P) \in Nat /\ Cardinality(P) # 0
  BY <1>3, FS_CardinalityType, FS_EmptySet
<1> QED
  BY <1>2, <1>3, <1>4, NthExists

\* The least-number principle.
LEMMA LeastNatural ==
  ASSUME NEW T, T \subseteq Nat, T # {}
  PROVE  \E x \in T : \A y \in T : x <= y
<1>1. PICK x \in T : \A y \in T : ~(<<y, x>> \in OpToRel(<, Nat))
  BY WFMin, NatLessThanWellFounded
<1>2. \A y \in T : <<y, x>> \in Nat \X Nat
  OBVIOUS
<1>3. \A y \in T : ~(y < x)
  BY <1>1, <1>2 DEF OpToRel
<1> QED
  BY <1>3

\* Of the contents of a sequence each is kept once.
LEMMA ByContentGood ==
  ASSUME NEW s, IsSequence(s)
  PROVE  /\ IsSequence(ByContent(s)) /\ Entries(ByContent(s)) \subseteq Entries(s)
         /\ \A e \in Entries(s) : \E f \in Entries(ByContent(s)) : f.hash = e.hash
<1> DEFINE new == {i \in DOMAIN s : \A j \in 1..(i - 1) : s[j].hash # s[i].hash}
<1>1. DOMAIN s = 1..Len(s) /\ Len(s) \in Nat
  BY DEF IsSequence
<1>2. new \in SUBSET DOMAIN s
  OBVIOUS
<1>3. ByContent(s) = Pick(s, new)
  BY DEF ByContent
<1>4. IsSequence(ByContent(s)) /\ Entries(ByContent(s)) = {s[n] : n \in new}
  <2> HIDE DEF new
  <2> QED
    BY <1>2, <1>3, PickGood
<1>5. \A e \in Entries(s) : \E f \in Entries(ByContent(s)) : f.hash = e.hash
  <2>1. ASSUME NEW n \in DOMAIN s PROVE \E m \in new : s[m].hash = s[n].hash
    <3> DEFINE Same == {m \in DOMAIN s : s[m].hash = s[n].hash}
    <3>1. PICK m \in Same : \A k \in Same : m <= k
      <4>1. Same \subseteq Nat /\ Same # {}
        BY <1>1, <2>1
      <4> QED
        BY <4>1, LeastNatural
    <3>2. ASSUME NEW j \in 1..(m - 1), s[j].hash = s[m].hash PROVE FALSE
      <4>1. m \in 1..Len(s) /\ s[m].hash = s[n].hash
        BY <1>1, <3>1
      <4>2. j \in Same /\ j < m /\ j \in Nat /\ m \in Nat
        BY <1>1, <3>2, <4>1
      <4> QED
        BY <3>1, <4>2
    <3> QED
      BY <3>1, <3>2
  <2> HIDE DEF new
  <2> QED
    BY <1>4, <2>1 DEF Entries
<1> QED
  BY <1>2, <1>4, <1>5 DEF Entries

-----------------------------------------------------------------------------
\* The invariant holds initially.
LEMMA InitInv == Init => Inv
<1> SUFFICES ASSUME Init PROVE Inv
  OBVIOUS
<1>1. Types
  BY EmptySequence DEF Init, Types
<1>2. Phases
  BY DEF Init, Phases, IdleWorker
<1> QED
  BY <1>1, <1>2 DEF Init, Inv, Counted, FirstNames, Elsewhere

\* While a request selects nothing has been sent or written.
LEMMA BeginInv ==
  ASSUME Inv, at \in {"idle", "look"}, at' \in {"look", Start(req'.how)},
         UNCHANGED <<worker, count, wire, base, told, skipped, out>>
  PROVE  Inv'
<1>1. at' \in {"look", "work", "push"} /\ (at' = "work" => req'.how \in Local) /\ (at' = "push" => req'.how \notin Local)
  BY DEF Start
<1>2. /\ wire = <<>> /\ Len(wire) = 0 /\ count.done = 0 /\ count.failed = 0 /\ told.done = 0 /\ told.failed = 0
      /\ \A w \in Worker : worker[w].at # "got"
      /\ \A p \in Path : out["original"][p] = None
  BY EmptySequence DEF Inv, Phases
<1>3. Types' /\ Phases'
  BY <1>1, <1>2 DEF Inv, Types, Phases
<1>4. Counted' /\ FirstNames' /\ Elsewhere'
  BY <1>1, <1>2 DEF Counted, FirstNames, Elsewhere, Named
<1> QED
  BY <1>3, <1>4 DEF Inv

\* A request is made, and the rows of a backup are looked up.
LEMMA SelectInv ==
  ASSUME Inv, (\E q : Ask(q)) \/ LookUp
  PROVE  Inv'
<1>1. ASSUME NEW q, Ask(q) PROVE Inv'
  BY <1>1, BeginInv DEF Ask, stream
<1>2. CASE LookUp
  BY <1>2, BeginInv DEF LookUp, stream
<1> QED
  BY <1>1, <1>2

\* Workers write the files of local requests only.
LEMMA WorkerInv ==
  ASSUME Inv, NEW w \in Worker, DownloadFile(w) \/ restoreEntry(w)
  PROVE  Inv'
<1>1. /\ at = "work" /\ UNCHANGED <<req, at, wire, base, told, skipped>>
      /\ out' = out \/ \E d \in {"dest", "original"} : \E p, c : out' = [out EXCEPT ![d][p] = c]
  <2>1. resolveDestination(req) \in {"dest", "original"}
    BY DEF resolveDestination
  <2>2. CASE DownloadFile(w)
    BY <2>2 DEF DownloadFile, request, stream
  <2>3. CASE restoreEntry(w)
    <3>1. at = "work"
      BY <2>3 DEF restoreEntry, RestoreAs, Inv, Phases
    <3>2. out' = out \/ \E c : out' = [out EXCEPT ![resolveDestination(req)][worker[w].entry.path] = c]
      BY <2>3 DEF restoreEntry, RestoreAs, WriteFile
    <3> QED
      BY <2>1, <2>3, <3>1, <3>2 DEF restoreEntry, RestoreAs, request, stream
  <2> QED
    BY <2>2, <2>3
<1>2. count' \in [done : Nat, failed : Nat]
  <2>1. [count EXCEPT !.done = @ + 1] \in [done : Nat, failed : Nat]
        /\ [count EXCEPT !.failed = @ + 1] \in [done : Nat, failed : Nat]
    BY DEF Inv, Types
  <2> QED
    BY <2>1 DEF DownloadFile, restoreEntry, RestoreAs, Done, Failed, Inv, Types
<1>3. DOMAIN out' = {"dest", "original"}
  BY <1>1 DEF Inv, Types
<1>4. req.how \in Local
  BY <1>1 DEF Inv, Phases
<1> QED
  BY <1>1, <1>2, <1>3, <1>4 DEF Inv, Types, Phases, Counted, FirstNames, Elsewhere, Named

\* An entry is sent, or counted as failed.
LEMMA PushInv ==
  ASSUME Inv, Push
  PROVE  Inv'
<1>1. at = "push" /\ UNCHANGED <<req, at, worker, base, told, out>> /\ req.how \notin Local
  BY DEF Push, request, Inv, Phases
<1>2. count.done \in Nat /\ count.failed \in Nat /\ told.done \in Nat /\ told.failed \in Nat /\ IsSequence(wire)
  BY DEF Inv, Types
<1>3. CASE /\ count' = [count EXCEPT !.failed = @ + 1] /\ UNCHANGED wire
           /\ skipped' = (skipped \/ (count.done + count.failed = 0))
  <2>1. count' \in [done : Nat, failed : Nat] /\ count'.done = count.done /\ count'.failed = count.failed + 1
    BY <1>3 DEF Inv, Types
  <2>2. Types' /\ Phases'
    BY <1>1, <1>3, <2>1 DEF Inv, Types, Phases
  <2>3. Counted'
    BY <1>1, <1>3, <2>1 DEF Inv, Counted
  <2>4. Elsewhere'
    BY <1>1, <1>3 DEF Inv, Elsewhere, Named
  <2>5. FirstNames'
    <3>1. Named' => Named
      BY <1>1, <1>3 DEF Named
    <3>2. Named' /\ count.done = 0 => req.how # "cliPush"
      <4>1. ASSUME Named', count.done = 0, req.how = "cliPush" PROVE FALSE
        <5>1. ~skipped'
          BY <1>1, <4>1 DEF Named
        <5>2. count.done + count.failed # 0
          BY <1>3, <5>1
        <5>3. count.failed = 0
          BY <1>1, <3>1, <4>1 DEF Inv, FirstNames
        <5> QED
          BY <4>1, <5>2, <5>3
      <4> QED
        BY <4>1
    <3> QED
      BY <1>1, <1>3, <2>1, <3>1, <3>2 DEF Inv, FirstNames
  <2> QED
    BY <2>2, <2>3, <2>4, <2>5 DEF Inv
<1>4. ASSUME NEW m, count' = [count EXCEPT !.done = @ + 1], wire' = Append(wire, m), UNCHANGED skipped,
             m.os = (req.dest /\ NamesBase(req.how))
      PROVE  Inv'
  <2>1. count' \in [done : Nat, failed : Nat] /\ count'.done = count.done + 1 /\ count'.failed = count.failed
    BY <1>4 DEF Inv, Types
  <2>2. IsSequence(wire') /\ Len(wire') = Len(wire) + 1 /\ wire' # <<>>
        /\ Head(wire') = IF wire = <<>> THEN m ELSE Head(wire)
    BY <1>2, <1>4, AppendSequence
  <2>3. Len(wire) \in Nat
    BY <1>2 DEF IsSequence
  <2>4. Types' /\ Phases' /\ Elsewhere'
    BY <1>1, <1>4, <2>1, <2>2 DEF Inv, Types, Phases, Elsewhere, Named
  <2>5. Counted'
    BY <1>1, <1>2, <2>1, <2>2, <2>3 DEF Inv, Counted
  <2>6. FirstNames'
    <3> SUFFICES ASSUME Named, ~base PROVE Head(wire').os
      BY <1>1, <1>2, <1>4, <2>1, <2>2 DEF FirstNames, Named
    <3>1. CASE count.done = 0
      <4>1. wire = <<>> /\ (req.how = "cliPush" => count.failed = 0)
        BY <1>1, <3>1 DEF Inv, FirstNames
      <4>2. NamesBase(req.how) /\ req.dest
        BY <1>2, <3>1, <4>1 DEF NamesBase, FirstSent, Named
      <4> QED
        BY <1>4, <2>2, <4>1, <4>2
    <3>2. CASE count.done # 0
      BY <1>1, <2>2, <3>2 DEF Inv, FirstNames
    <3> QED
      BY <3>1, <3>2
  <2> QED
    BY <2>4, <2>5, <2>6 DEF Inv
<1>5. CASE loadDecrypted(Head(todo)) = {}
  BY <1>3, <1>5 DEF Push, Failed
<1>6. CASE loadDecrypted(Head(todo)) # {}
  <2>1. PICK c \in loadDecrypted(Head(todo)) :
          wire' = Append(wire, [path |-> Head(todo).path, content |-> c, os |-> req.dest /\ NamesBase(req.how)])
    BY <1>6 DEF Push
  <2> DEFINE m == [path |-> Head(todo).path, content |-> c, os |-> req.dest /\ NamesBase(req.how)]
  <2>2. m.os = (req.dest /\ NamesBase(req.how)) /\ wire' = Append(wire, m)
    BY <2>1
  <2>3. count' = [count EXCEPT !.done = @ + 1] /\ UNCHANGED skipped
    BY <1>6 DEF Push, Done
  <2> HIDE DEF m
  <2> QED
    BY <1>4, <2>2, <2>3
<1> QED
  BY <1>5, <1>6

\* The target takes a file from the stream: it is in its report, and was written under
\* the destination if there is one.
LEMMA PushRestoreInv ==
  ASSUME Inv, PushRestore
  PROVE  Inv'
<1>1. /\ at = "push" /\ wire # <<>> /\ wire' = Tail(wire) /\ req.how \notin Local
      /\ UNCHANGED <<req, at, worker, count, skipped>>
  BY DEF PushRestore, request, Inv, Phases
<1>2. IsSequence(wire') /\ Len(wire') = Len(wire) - 1 /\ Len(wire) \in Nat
  BY <1>1, TailSequence DEF Inv, Types
<1>3. /\ told' \in [done : Nat, failed : Nat]
      /\ told'.done + told'.failed = told.done + told.failed + 1
      /\ told.done \in Nat /\ told.failed \in Nat /\ count.done \in Nat
  <2>1. told \in [done : Nat, failed : Nat] /\ count \in [done : Nat, failed : Nat]
    BY DEF Inv, Types
  <2>2. told' = [told EXCEPT !.done = @ + 1] \/ told' = [told EXCEPT !.failed = @ + 1]
    BY DEF PushRestore
  <2> QED
    BY <2>1, <2>2
<1>4. base' = (base \/ Head(wire).os)
  BY DEF PushRestore
<1>5. /\ DOMAIN out' = {"dest", "original"}
      /\ base' => out'["original"] = out["original"]
  <2>1. DOMAIN out = {"dest", "original"}
    BY DEF Inv, Types
  <2>2. \/ UNCHANGED out
        \/ \E c : out' = [out EXCEPT ![IF base' THEN "dest" ELSE "original"][Head(wire).path] = c]
    BY DEF PushRestore
  <2> QED
    BY <2>1, <2>2
<1>6. Named => count.done # 0 /\ base'
  <2>1. ASSUME Named PROVE count.done # 0 /\ (base \/ Head(wire).os)
    BY <1>1, <2>1 DEF Inv, FirstNames
  <2> QED
    BY <1>4, <2>1
<1>7. base' \in BOOLEAN
  BY <1>4
<1>8. Types' /\ Phases'
  BY <1>1, <1>2, <1>3, <1>5, <1>7 DEF Inv, Types, Phases
<1>9. Counted'
  BY <1>1, <1>2, <1>3 DEF Inv, Counted
<1>10. FirstNames' /\ Elsewhere'
  BY <1>1, <1>5, <1>6 DEF Inv, FirstNames, Elsewhere, Named
<1> QED
  BY <1>8, <1>9, <1>10 DEF Inv

\* The end of a request.
LEMMA EndInv ==
  ASSUME Inv, RestoreBatch \/ CloseAndRecv \/ Break
  PROVE  Inv'
<1>1. CASE RestoreBatch
  <2>1. /\ at = "work" /\ at' = "done" /\ UNCHANGED <<req, worker, count, wire, base, told, skipped, out>>
        /\ \A w \in Worker : worker[w].at # "got"
    BY <1>1 DEF RestoreBatch, request, stream
  <2>2. req.how \in Local
    BY <2>1 DEF Inv, Phases
  <2> QED
    BY <2>1, <2>2 DEF Inv, Types, Phases, Counted, FirstNames, Elsewhere, Named
<1>2. CASE CloseAndRecv
  <2>1. at = "push" /\ at' = "done" /\ wire = <<>> /\ UNCHANGED <<req, worker, count, wire, base, told, skipped, out>>
    BY <1>2 DEF CloseAndRecv, request, stream
  <2> QED
    BY <2>1 DEF Inv, Types, Phases, Counted, FirstNames, Elsewhere, Named
<1>3. CASE Break
  <2>1. at = "push" /\ at' = "broken" /\ wire' = <<>> /\ UNCHANGED <<req, worker, count, base, told, skipped, out>>
    BY <1>3 DEF Break, request
  <2> QED
    BY <2>1, EmptySequence DEF Inv, Types, Phases, Counted, FirstNames, Elsewhere, Named
<1> QED
  BY <1>1, <1>2, <1>3

\* Every step keeps it.
LEMMA NextInv == Inv /\ [Next]_vars => Inv'
<1> SUFFICES ASSUME Inv, [Next]_vars PROVE Inv'
  OBVIOUS
<1>1. ASSUME UNCHANGED <<req, at, worker, count, wire, base, told, skipped, out>> PROVE Inv'
  BY <1>1 DEF Inv, Types, Phases, Counted, FirstNames, Elsewhere, Named
<1>2. CASE UNCHANGED vars
  BY <1>1, <1>2 DEF vars, request, stream
<1>3. ASSUME NEW f, RunBackup(f) PROVE Inv'
  BY <1>1, <1>3 DEF RunBackup, request, stream
<1>4. ASSUME NEW b, DeleteBackup(b) PROVE Inv'
  BY <1>1, <1>4 DEF DeleteBackup, request, stream
<1> QED
  BY <1>2, <1>3, <1>4, SelectInv, WorkerInv, PushInv, PushRestoreInv, EndInv DEF Next

\* The invariant holds always.
LEMMA Invariant == Spec => []Inv
  BY InitInv, NextInv, PTL DEF Spec

\* A push that has ended counts as sent what the target has in its report, whatever was
\* selected and whatever became of table, store and disk meanwhile.
THEOREM PushesAccounted == Spec => []PushAccounted
<1>1. Inv => PushAccounted
  <2> SUFFICES ASSUME Inv, at = "done", req.how \in Pushed
               PROVE  count.done = told.done + told.failed
    BY DEF PushAccounted
  <2>1. wire = <<>> /\ Len(wire) = 0 /\ req.how \notin Local
    BY EmptySequence DEF Inv, Phases, Pushed, Local
  <2>2. count.done = told.done + told.failed + Len(wire) /\ told.done \in Nat /\ told.failed \in Nat
    BY <2>1 DEF Inv, Counted, Types
  <2> QED
    BY <2>1, <2>2
<1> QED
  BY <1>1, Invariant, PTL

\* What is pushed with a destination is written under it, if not the command line's
\* first file, which names it, could not be sent.
THEOREM PushesUnderDest == Spec => []PushedUnderDest
<1>1. Inv => PushedUnderDest
  BY DEF Inv, Elsewhere, Named, PushedUnderDest, Pushed, Local
<1> QED
  BY <1>1, Invariant, PTL

-----------------------------------------------------------------------------
(* What a request selects. *)

\* A backup has one entry for a path, and no backup is ahead of those that were made.
Rows ==
  /\ IsSequence(rows) /\ Entries(rows) \subseteq Row /\ made \in Nat
  /\ \A r, x \in Entries(rows) : r.path = x.path /\ r.backup = x.backup => r = x
  /\ \A r \in Entries(rows) : r.backup <= made

\* The table is a sequence of rows.
LEMMA RowsTyped ==
  ASSUME Rows
  PROVE  /\ IsSequence(rows) /\ Entries(rows) \subseteq Row
         /\ \A r \in Entries(rows) : r.path \in Path /\ r.hash \in Hash /\ r.backup \in Backup
<1>1. IsSequence(rows) /\ Entries(rows) \subseteq Row
  BY DEF Rows
<1>2. \A r \in Row : r.path \in Path /\ r.hash \in Hash /\ r.backup \in Backup
  BY DEF Row
<1> QED
  BY <1>1, <1>2

\* The rows of a backup, and those of some paths.
LEMMA RowsFound ==
  ASSUME Rows
  PROVE  /\ \A b : /\ IsSequence(RowsOf(b))
                   /\ Entries(RowsOf(b)) = {r \in Entries(rows) : r.backup = b}
         /\ \A P : /\ IsSequence(Search(P))
                   /\ Entries(Search(P)) = {r \in Entries(rows) : r.path \in P}
<1>1. IsSequence(rows)
  BY DEF Rows
<1>2. ASSUME NEW b
      PROVE  IsSequence(RowsOf(b)) /\ Entries(RowsOf(b)) = {r \in Entries(rows) : r.backup = b}
  <2> DEFINE P == {i \in DOMAIN rows : rows[i].backup = b}
  <2>1. P \in SUBSET DOMAIN rows /\ RowsOf(b) = Pick(rows, P)
    BY DEF RowsOf
  <2>2. {rows[n] : n \in P} = {r \in Entries(rows) : r.backup = b}
    BY DEF Entries
  <2> HIDE DEF P
  <2>3. IsSequence(Pick(rows, P)) /\ Entries(Pick(rows, P)) = {rows[n] : n \in P}
    BY <1>1, <2>1, PickGood
  <2> QED
    BY <2>1, <2>2, <2>3
<1>3. ASSUME NEW Q
      PROVE  IsSequence(Search(Q)) /\ Entries(Search(Q)) = {r \in Entries(rows) : r.path \in Q}
  <2> DEFINE P == {i \in DOMAIN rows : rows[i].path \in Q}
  <2>1. P \in SUBSET DOMAIN rows /\ Search(Q) = Pick(rows, P)
    BY DEF Search
  <2>2. {rows[n] : n \in P} = {r \in Entries(rows) : r.path \in Q}
    BY DEF Entries
  <2> HIDE DEF P
  <2>3. IsSequence(Pick(rows, P)) /\ Entries(Pick(rows, P)) = {rows[n] : n \in P}
    BY <1>1, <2>1, PickGood
  <2> QED
    BY <2>1, <2>2, <2>3
<1> QED
  BY <1>2, <1>3

\* The first row of a content that is in the table is one of its rows.
LEMMA FirstRowFound ==
  ASSUME Rows, NEW h, \E r \in Entries(rows) : r.hash = h
  PROVE  FirstRow(h) \in Entries(rows) /\ FirstRow(h).hash = h
<1> DEFINE P == {i \in DOMAIN rows : rows[i].hash = h}
<1>1. IsSequence(rows)
  BY DEF Rows
<1>2. P \in SUBSET DOMAIN rows /\ P # {} /\ FirstRow(h) = rows[Nth(P, 1)]
  BY DEF Entries, FirstRow
<1>3. Nth(P, 1) \in P
  <2> HIDE DEF P
  <2> QED
    BY <1>1, <1>2, FirstPosition
<1> QED
  BY <1>2, <1>3 DEF Entries

\* Of several versions one is the latest.
LEMMA LaterFound ==
  ASSUME NEW R \in SUBSET Row, R # {}
  PROVE  Later(R) \in R
<1> USE RestoreAssumption
<1> DEFINE T == {MaxBackups - r.backup : r \in R}
<1>1. \A r \in R : r.backup \in Nat /\ r.backup <= MaxBackups
  BY DEF Row, Backup
<1>2. T \subseteq Nat /\ T # {}
  BY <1>1
<1>3. PICK x \in T : \A y \in T : x <= y
  BY <1>2, LeastNatural
<1>4. PICK r \in R : x = MaxBackups - r.backup
  BY <1>3
<1>5. \A y \in R : y.backup <= r.backup
  <2>1. ASSUME NEW y \in R PROVE y.backup <= r.backup
    <3>1. MaxBackups - r.backup <= MaxBackups - y.backup
      BY <1>3, <1>4
    <3>2. y.backup \in Nat /\ r.backup \in Nat
      BY <1>1
    <3> QED
      BY <3>1, <3>2
  <2> QED
    BY <2>1
<1> QED
  BY <1>4, <1>5 DEF Later

\* A set put into some order.
LEMMA OrdersGood ==
  ASSUME NEW S, IsFiniteSet(S), NEW s \in Orders(S)
  PROVE  IsSequence(s) /\ Entries(s) = S
<1>1. Cardinality(S) \in Nat
  BY FS_CardinalityType
<1>2. s \in [1..Cardinality(S) -> S] /\ Entries(s) = S
  BY DEF Orders
<1>3. s \in Seq(S)
  BY <1>1, <1>2
<1> QED
  BY <1>2, <1>3 DEF IsSequence

\* The versions of a path that the command line chooses from are its rows.
LEMMA PreferredFound ==
  ASSUME Rows, NEW r \in Entries(rows)
  PROVE  Preferred(r.path) \in Entries(rows) /\ Preferred(r.path).path = r.path
<1> DEFINE all == {x \in Entries(rows) : x.path = r.path}
           keyed == {x \in all : x.key # 0}
<1>1. all \in SUBSET Row /\ all # {} /\ keyed \in SUBSET Row
  BY RowsTyped
<1>2. Preferred(r.path) = IF keyed # {} THEN Later(keyed) ELSE Later(all)
  BY DEF Preferred
<1>3. Preferred(r.path) \in all
  <2>1. keyed \subseteq all
    OBVIOUS
  <2> HIDE DEF all, keyed
  <2> QED
    BY <1>1, <1>2, <2>1, LaterFound
<1> QED
  BY <1>3

\* The paths of the rows that were searched, in some order: one version of each.
LEMMA QueryFound ==
  ASSUME Rows, NEW P, NEW s \in Orders({Preferred(p) : p \in {r.path : r \in Entries(Search(P))}})
  PROVE  /\ IsSequence(s)
         /\ Entries(s) = {Preferred(r.path) : r \in Entries(Search(P))}
         /\ Entries(s) \subseteq Entries(rows)
<1> DEFINE found == {r.path : r \in Entries(Search(P))}
           S == {Preferred(p) : p \in found}
           f == [p \in found |-> Preferred(p)]
<1>1. Entries(Search(P)) = {r \in Entries(rows) : r.path \in P}
  BY RowsFound
<1>2. found \in SUBSET Path
  BY <1>1, RowsTyped
<1>3. IsFiniteSet(found)
  BY <1>2, FS_Subset, RestoreAssumption
<1>4. f \in Surjection(found, S)
  BY DEF Surjection
<1>5. IsFiniteSet(S)
  BY <1>3, <1>4, FS_Surjection
<1>6. S \subseteq Entries(rows) /\ S = {Preferred(r.path) : r \in Entries(Search(P))}
  BY <1>1, PreferredFound
<1>7. s \in Orders(S)
  OBVIOUS
<1> HIDE DEF S
<1> QED
  BY <1>5, <1>6, <1>7, OrdersGood

\* What can be selected at once for a request, by how and what it asks.
Selects(r, q, s) ==
  LET found == Search(q.paths)
  IN  \/ /\ q.what = "queryIn" /\ q.how \in {"cli", "cliPush"}
         /\ s = Pick(found, {i \in DOMAIN found : found[i].backup = q.backup})
      \/ /\ q.what = "query" /\ q.how \in {"cli", "cliPush"}
         /\ s \in Orders({Preferred(p) : p \in {x.path : x \in Entries(found)}})
      \/ /\ q.what = "query" /\ q.how \notin {"cli", "cliPush"}
         /\ s = ByContent(found)
         /\ q.how \in Local => q.how = "remote"
      \/ /\ q.what = "file" /\ q.path = r.path /\ q.hash = r.hash
         /\ s = AsAsked(q) \/ s = <<FirstRow(q.hash)>>
         /\ q.how \in Local => s = AsAsked(q)

\* It is one of these.
LEMMA SelectedCases ==
  ASSUME Rows, NEW r \in Entries(rows), NEW q \in Requests(r), NEW s \in Selected(q),
         q.what # "backup"
  PROVE  q.backup = r.backup /\ r.path \in q.paths /\ Selects(r, q, s)
<1>1. PICK h \in Local \cup Pushed :
        q \in [how : {h}, what : What(h), backup : {r.backup}, path : {r.path}, hash : {r.hash},
               paths : {{r.path}, Path}, dest : {TRUE} \cup {h # "cli" /\ h # "cliPush"}]
  BY DEF Requests
<1>2. /\ q.how = h /\ q.what \in What(h) /\ q.backup = r.backup /\ q.path = r.path /\ q.hash = r.hash
      /\ q.paths \in {{r.path}, Path}
  BY <1>1
<1>3. r.path \in Path
  BY RowsTyped
<1>4. CASE h \in {"cli", "cliPush"}
  BY <1>2, <1>3, <1>4 DEF Selected, Selects, What, runRestore, Local
<1>5. CASE h = "web"
  BY <1>2, <1>3, <1>5 DEF Selected, Selects, What, runWebRestore, Local
<1>6. CASE h = "remote"
  BY <1>2, <1>3, <1>6 DEF Selected, Selects, What, runRemoteRestore, Local
<1>7. CASE h = "webPush"
  BY <1>2, <1>3, <1>7 DEF Selected, Selects, What, runRemoteRestorePush, Local
<1>8. CASE h = "cross"
  BY <1>2, <1>3, <1>8 DEF Selected, Selects, What, collectEntries, Local
<1> QED
  BY <1>1, <1>4, <1>5, <1>6, <1>7, <1>8 DEF Local, Pushed

\* Selected are rows, or what was asked for in the form of one.
LEMMA SelectedTyped ==
  ASSUME Rows, NEW r \in Entries(rows), NEW q \in Requests(r), NEW s \in Selected(q),
         q.what # "backup"
  PROVE  IsSequence(s) /\ Entries(s) \subseteq Row
<1> DEFINE found == Search(q.paths)
<1>2. IsSequence(found) /\ Entries(found) \subseteq Row
  BY RowsFound, RowsTyped
<1>4. CASE s = ByContent(found)
  <2> HIDE DEF found
  <2> QED
    BY <1>2, <1>4, ByContentGood
<1>5. CASE s = Pick(found, {i \in DOMAIN found : found[i].backup = q.backup})
  <2> HIDE DEF found
  <2> DEFINE P == {i \in DOMAIN found : found[i].backup = q.backup}
  <2>1. P \in SUBSET DOMAIN found /\ s = Pick(found, P)
    BY <1>5
  <2> HIDE DEF P
  <2>2. IsSequence(s) /\ Entries(s) = {found[n] : n \in P}
    BY <1>2, <2>1, PickGood
  <2> QED
    BY <1>2, <2>1, <2>2 DEF Entries
<1>6. CASE s \in Orders({Preferred(p) : p \in {x.path : x \in Entries(found)}})
  BY <1>6, QueryFound, RowsTyped
<1>7. CASE q.what = "file" /\ q.path = r.path /\ q.hash = r.hash /\ q.backup = r.backup
           /\ (s = AsAsked(q) \/ s = <<FirstRow(q.hash)>>)
  <2>1. PICK e \in Row : s = <<e>>
    <3>1. CASE s = AsAsked(q)
      <4>1. 0 \in Key
        BY RestoreAssumption DEF Key
      <4>2. [path |-> q.path, hash |-> q.hash, key |-> 0, backup |-> q.backup] \in Row
        BY <1>7, <4>1, RowsTyped DEF Row
      <4> QED
        BY <3>1, <4>2 DEF AsAsked
    <3>2. CASE s = <<FirstRow(q.hash)>>
      BY <1>7, <3>2, FirstRowFound, RowsTyped
    <3> QED
      BY <1>7, <3>1, <3>2
  <2>2. s \in Seq(Row) /\ DOMAIN s = {1} /\ s[1] = e
    BY <2>1
  <2> QED
    BY <2>2 DEF IsSequence, Entries
<1>8. q.backup = r.backup /\ Selects(r, q, s)
  BY SelectedCases
<1> HIDE DEF found
<1> QED
  BY <1>4, <1>5, <1>6, <1>7, <1>8 DEF Selects, found

\* A search that is clear leads to every file that is wanted, and to
\* nothing else under its path.
LEMMA SelectedRight ==
  ASSUME Rows, NEW r \in Entries(rows), NEW q \in Requests(r), NEW s \in Selected(q),
         q.what # "backup", q.how \in Local, Clear(q), NEW x \in Wanted(q)
  PROVE  /\ \E e \in Entries(s) : e.path = x[1]
         /\ \A e \in Entries(s) : e.path = x[1] => e.hash = x[2]
<1> DEFINE found == Search(q.paths)
           all == Entries(found)
<1>1. all = {y \in Entries(rows) : y.path \in q.paths}
      /\ \A y \in Entries(rows), z \in Entries(rows) : y.path = z.path /\ y.backup = z.backup => y = z
  BY RowsFound DEF Rows
<1>3. CASE /\ q.what = "queryIn"
           /\ s = Pick(found, {i \in DOMAIN found : found[i].backup = q.backup})
  <2> DEFINE P == {i \in DOMAIN found : found[i].backup = q.backup}
             its == {y \in all : y.backup = q.backup}
  <2>1. {found[n] : n \in P} = its
    BY DEF Entries
  <2>2. P \in SUBSET DOMAIN found /\ s = Pick(found, P) /\ IsSequence(found)
    BY <1>3, RowsFound
  <2>3. PICK w \in its : x = <<w.path, w.hash>>
    BY <1>3 DEF Wanted
  <2> HIDE DEF P, found
  <2>4. Entries(s) = its
    BY <2>1, <2>2, PickGood
  <2>5. \A y \in its : y.path = w.path => y = w
    BY <1>1, <2>3
  <2> QED
    BY <2>3, <2>4, <2>5
<1>4. ASSUME q.what = "query"
      PROVE  \E w \in all : x = <<w.path, w.hash>> /\ w = Later({y \in all : y.path = w.path})
  <2>1. PICK w \in all : x = <<Later({y \in all : y.path = w.path}).path,
                              Later({y \in all : y.path = w.path}).hash>>
    BY <1>4 DEF Wanted
  <2> DEFINE R == {y \in all : y.path = w.path}
  <2>2. R \in SUBSET Row /\ R # {}
    BY <1>1, RowsTyped
  <2>3. Later(R) \in R
    BY <2>2, LaterFound
  <2>4. Later(R).path = w.path /\ Later(R) \in all
    BY <2>3
  <2>5. {y \in all : y.path = Later(R).path} = R
    BY <2>4
  <2> QED
    BY <2>1, <2>4, <2>5
<1>5. CASE /\ q.what = "query" /\ q.how \in {"cli", "cliPush"}
           /\ s \in Orders({Preferred(p) : p \in {y.path : y \in all}})
  <2>1. PICK w \in all : x = <<w.path, w.hash>> /\ w = Later({y \in all : y.path = w.path})
    BY <1>4, <1>5
  <2>2. Entries(s) = {Preferred(y.path) : y \in all}
    BY <1>5, QueryFound
  <2>3. \A y \in all : Preferred(y.path).path = y.path
    BY <1>1, PreferredFound
  <2>4. Preferred(w.path) = w
    <3> DEFINE versions == {y \in Entries(rows) : y.path = w.path}
               keyed == {y \in versions : y.key # 0}
    <3>1. versions = {y \in all : y.path = w.path}
      BY <1>1
    <3>2. \A y, z \in all : z.path = y.path => (z.key = 0 <=> y.key = 0)
      BY <1>5 DEF Clear
    <3>3. keyed = {} \/ keyed = versions
      BY <3>1, <3>2
    <3>4. Preferred(w.path) = IF keyed # {} THEN Later(keyed) ELSE Later(versions)
      BY DEF Preferred
    <3> QED
      BY <2>1, <3>1, <3>3, <3>4
  <2> QED
    BY <2>1, <2>2, <2>3, <2>4
<1>6. CASE q.what = "query" /\ q.how = "remote" /\ s = ByContent(found)
  <2>1. PICK w \in all : x = <<w.path, w.hash>>
    BY <1>4, <1>6
  <2>2. \A y, z \in all : z.hash = y.hash \/ z.path = y.path => y.path = z.path /\ y.hash = z.hash
    <3>1. Clear(q) = (\A y, z \in all : z.hash = y.hash \/ z.path = y.path => y.path = z.path /\ y.hash = z.hash)
      BY <1>6 DEF Clear
    <3> QED
      BY <3>1
  <2>3. Entries(s) \subseteq all /\ \A e \in all : \E f \in Entries(s) : f.hash = e.hash
    <3>1. IsSequence(found)
      BY RowsFound
    <3> HIDE DEF found
    <3> QED
      BY <1>6, <3>1, ByContentGood
  <2> QED
    BY <2>1, <2>2, <2>3
<1>7. CASE q.what = "file" /\ s = AsAsked(q)
  <2>1. x = <<q.path, q.hash>>
    BY <1>7 DEF Wanted
  <2>2. Entries(s) = {[path |-> q.path, hash |-> q.hash, key |-> 0, backup |-> q.backup]}
    BY <1>7 DEF AsAsked, Entries
  <2> QED
    BY <2>1, <2>2
<1>8. Selects(r, q, s)
  BY SelectedCases
<1> QED
  BY <1>3, <1>5, <1>6, <1>7, <1>8 DEF Selects, Local

-----------------------------------------------------------------------------
(* Local restores: what workers have, and what is written. *)

Roots == {"dest", "original"}

\* Workers are at selected entries, and rows are left only while they are looked up.
Tasks ==
  /\ IsSequence(todo) /\ Entries(todo) \subseteq chosen /\ chosen \subseteq Row
  /\ IsSequence(left) /\ Entries(left) \subseteq Row /\ astray \subseteq Path
  /\ DOMAIN worker = Worker /\ \A w \in Worker : worker[w].at = "got" => worker[w].entry \in chosen
  /\ \A d \in Roots : DOMAIN out[d] = Path
  /\ at = "done" => todo = <<>>
  /\ at = "look" <=> left # <<>>
  /\ at = "idle" => todo = <<>> /\ chosen = {} /\ astray = {}

\* The content of a selected entry for the path, a part of it, or two mixed.
Explained(p, c) ==
  \E e, f \in chosen :
    /\ e.path = p /\ f.path = p
    /\ c \in {e.hash, "partial"} \cup {x \in {"mixed"} : e.hash # f.hash}

\* Nothing else is written, and nothing at all while a request selects.
Written ==
  \A d \in Roots, p \in Path : out[d][p] # None =>
    /\ at \notin {"idle", "look"}
    /\ req.how \in Local => Explained(p, out[d][p])

\* The rows that are left are wanted, one for each path.
Reading ==
  at = "look" =>
    /\ \A r \in Entries(left) : <<r.path, r.hash>> \in wanted
    /\ \A x, y \in wanted : x[1] = y[1] => x = y

\* The selection is what is wanted, as far as it has come and nothing went astray.
Asked ==
  at # "idle" /\ req.how \in Local /\ clear =>
    \A x \in wanted :
      x[1] \notin astray =>
        /\ (\E e \in chosen : e.path = x[1]) \/ \E r \in Entries(left) : r.path = x[1]
        /\ \A e \in chosen : e.path = x[1] => e.hash = x[2]

\* Without a failure a selected entry is in the queue, at a worker, or written.
Underway ==
  at # "idle" /\ req.how \in Local /\ count.failed = 0 =>
    \A e \in chosen :
      \/ e \in Entries(todo)
      \/ \E w \in Worker : worker[w].at = "got" /\ worker[w].entry = e
      \/ out[resolveDestination(req)][e.path] # None

LocalInv == Rows /\ Tasks /\ Written /\ Reading /\ Asked /\ Underway

\* It holds initially.
LEMMA InitLocal == Init => LocalInv
<1> SUFFICES ASSUME Init PROVE LocalInv
  OBVIOUS
<1>1. IsSequence(<<>>) /\ Entries(<<>>) = {}
  BY EmptySequence DEF Entries
<1>2. Rows
  BY <1>1 DEF Init, Rows
<1>3. Tasks
  BY <1>1 DEF Init, Tasks, IdleWorker, Roots
<1>4. Written /\ Reading /\ Asked /\ Underway
  BY DEF Init, Written, Reading, Asked, Underway, Roots
<1> QED
  BY <1>2, <1>3, <1>4 DEF LocalInv

\* The elements of two sequences, one after the other.
LEMMA ConcatEntries ==
  ASSUME NEW s, IsSequence(s), NEW u, IsSequence(u)
  PROVE  IsSequence(s \o u) /\ Entries(s \o u) = Entries(s) \cup Entries(u)
<1>1. PICK S : s \in Seq(S)
  BY DEF IsSequence
<1>2. PICK U : u \in Seq(U)
  BY DEF IsSequence
<1> DEFINE T == S \cup U
<1>3. s \in Seq(T) /\ u \in Seq(T)
  BY <1>1, <1>2
<1> HIDE DEF T
<1>4. /\ s \o u \in Seq(T) /\ Len(s \o u) = Len(s) + Len(u) /\ Len(s) \in Nat /\ Len(u) \in Nat
      /\ DOMAIN s = 1..Len(s) /\ DOMAIN u = 1..Len(u) /\ DOMAIN (s \o u) = 1..(Len(s) + Len(u))
      /\ \A i \in 1..(Len(s) + Len(u)) : (s \o u)[i] = IF i <= Len(s) THEN s[i] ELSE u[i - Len(s)]
  BY <1>3
<1>5. \A e \in Entries(s \o u) : e \in Entries(s) \cup Entries(u)
  <2>1. ASSUME NEW i \in DOMAIN (s \o u) PROVE (s \o u)[i] \in Entries(s) \cup Entries(u)
    <3>1. CASE i <= Len(s)
      BY <1>4, <3>1 DEF Entries
    <3>2. CASE ~(i <= Len(s))
      <4>1. i - Len(s) \in DOMAIN u /\ (s \o u)[i] = u[i - Len(s)]
        BY <1>4, <3>2
      <4> QED
        BY <4>1 DEF Entries
    <3> QED
      BY <3>1, <3>2
  <2> QED
    BY <2>1 DEF Entries
<1>6. \A i \in DOMAIN s : s[i] \in Entries(s \o u)
  <2>1. ASSUME NEW i \in DOMAIN s PROVE s[i] \in Entries(s \o u)
    <3>1. i \in DOMAIN (s \o u) /\ (s \o u)[i] = s[i]
      BY <1>4
    <3> QED
      BY <3>1 DEF Entries
  <2> QED
    BY <2>1
<1>7. \A i \in DOMAIN u : u[i] \in Entries(s \o u)
  <2>1. ASSUME NEW i \in DOMAIN u PROVE u[i] \in Entries(s \o u)
    <3>1. Len(s) + i \in DOMAIN (s \o u) /\ (s \o u)[Len(s) + i] = u[i]
      BY <1>4
    <3> QED
      BY <3>1 DEF Entries
  <2> QED
    BY <2>1
<1>8. Entries(s \o u) = Entries(s) \cup Entries(u)
  BY <1>5, <1>6, <1>7 DEF Entries
<1> QED
  BY <1>4, <1>8 DEF IsSequence

\* A backup adds one row for each of its paths, under a number of its own.
LEMMA RunBackupLocal ==
  ASSUME LocalInv, NEW f \in UNION {[P -> Hash] : P \in SUBSET Path \ {{}}}, RunBackup(f)
  PROVE  LocalInv'
<1> DEFINE new == {f[p] : p \in DOMAIN f} \cap {h \in Hash : blob[h] = None}
           key == IF enc THEN made + 1 ELSE 0
           Entry(p) == [path |-> p, hash |-> f[p], backup |-> made + 1,
                        key |-> IF f[p] \in new THEN key ELSE 0]
<1>1. Rows /\ made \in Nat /\ made < MaxBackups /\ made' = made + 1
  BY DEF LocalInv, Rows, RunBackup
<1>2. PICK order \in Orders(DOMAIN f) : rows' = rows \o [i \in DOMAIN order |-> Entry(order[i])]
  BY DEF RunBackup
<1> DEFINE added == [i \in DOMAIN order |-> Entry(order[i])]
<1>3. DOMAIN f \in SUBSET Path /\ \A p \in DOMAIN f : f[p] \in Hash
  OBVIOUS
<1>4. IsSequence(order) /\ Entries(order) = DOMAIN f
  <2>1. IsFiniteSet(DOMAIN f)
    BY <1>3, FS_Subset, RestoreAssumption
  <2> QED
    BY <2>1, OrdersGood
<1>5. DOMAIN order = 1..Len(order) /\ Len(order) \in Nat
  BY <1>4 DEF IsSequence
<1>6. \A p \in DOMAIN f : Entry(p) \in Row
  <2>1. made + 1 \in Backup /\ key \in Key /\ 0 \in Key
    BY <1>1, RestoreAssumption DEF Backup, Key
  <2> QED
    BY <1>3, <2>1 DEF Row
<1>7. /\ IsSequence(added) /\ Entries(added) \subseteq Row
      /\ \A e \in Entries(added) : \E p \in DOMAIN f : e = Entry(p)
  <2>1. \A i \in DOMAIN order : order[i] \in DOMAIN f
    BY <1>4 DEF Entries
  <2>2. added \in Seq(Row)
    BY <1>5, <1>6, <2>1
  <2>3. \A i \in DOMAIN added : i \in DOMAIN order /\ added[i] = Entry(order[i]) /\ added[i] \in Row
    BY <1>6, <2>1
  <2> QED
    BY <2>1, <2>2, <2>3 DEF IsSequence, Entries
<1>8. \A e \in Entries(added), x \in Entries(added) : e.path = x.path => e = x
  <2>1. \A p \in DOMAIN f : Entry(p).path = p
    OBVIOUS
  <2> HIDE DEF Entry
  <2> QED
    BY <1>7, <2>1
<1>9. \A e \in Entries(added) : e.backup = made + 1
  BY <1>7
<1>10. IsSequence(rows') /\ Entries(rows') = Entries(rows) \cup Entries(added)
  <2>1. IsSequence(rows) /\ rows' = rows \o added
    BY <1>1, <1>2 DEF Rows
  <2> HIDE DEF added
  <2> QED
    BY <1>7, <2>1, ConcatEntries
<1> HIDE DEF added, Entry
<1>11. \A r \in Entries(rows) : r.backup <= made /\ r.backup \in Nat
  BY <1>1, RowsTyped DEF Rows, Backup
<1>12. \A r, x \in Entries(rows') : r.path = x.path /\ r.backup = x.backup => r = x
  BY <1>1, <1>8, <1>9, <1>10, <1>11 DEF Rows
<1>13. \A r \in Entries(rows') : r.backup <= made'
  BY <1>1, <1>9, <1>10, <1>11
<1>14. Rows'
  BY <1>1, <1>7, <1>10, <1>12, <1>13 DEF Rows
<1>15. UNCHANGED <<req, at, left, todo, chosen, wanted, clear, astray, worker, count, out>>
  BY DEF RunBackup, request
<1> QED
  BY <1>14, <1>15 DEF LocalInv, Tasks, Written, Reading, Asked, Underway, Explained

\* A deletion leaves the other rows in their order.
LEMMA DeleteBackupLocal ==
  ASSUME LocalInv, NEW b, DeleteBackup(b)
  PROVE  LocalInv'
<1> DEFINE P == {i \in DOMAIN rows : rows[i].backup # b}
<1>1. P \in SUBSET DOMAIN rows /\ rows' = Pick(rows, P) /\ IsSequence(rows) /\ made' = made
  BY DEF DeleteBackup, LocalInv, Rows
<1>2. IsSequence(rows') /\ Entries(rows') = {rows[n] : n \in P}
  <2> HIDE DEF P
  <2> QED
    BY <1>1, PickGood
<1>3. Entries(rows') \subseteq Entries(rows)
  BY <1>2 DEF Entries
<1>4. Rows'
  BY <1>1, <1>2, <1>3 DEF LocalInv, Rows
<1>5. UNCHANGED <<req, at, left, todo, chosen, wanted, clear, astray, worker, count, out>>
  BY DEF DeleteBackup, request
<1> QED
  BY <1>4, <1>5 DEF LocalInv, Tasks, Written, Reading, Asked, Underway, Explained

\* A request starts with all that is selected in the queue, or with the rows of a backup,
\* which are not none and are what is wanted.
LEMMA AskLocal ==
  ASSUME Inv, LocalInv, NEW r \in Entries(rows), NEW q \in Requests(r), Ask(q)
  PROVE  LocalInv'
<1>1. /\ at = "idle" /\ req' = q /\ wanted' = Wanted(q) /\ clear' = Clear(q)
      /\ UNCHANGED <<rows, made, astray, worker, out, count>>
  BY DEF Ask, table
<1>2. Rows /\ Rows'
  BY <1>1 DEF LocalInv, Rows
<1>3. left = <<>> /\ todo = <<>> /\ chosen = {} /\ astray = {} /\ Entries(left) = {} /\ Entries(todo) = {}
  BY <1>1, EmptySequence DEF LocalInv, Tasks, Entries
<1>4. \A w \in Worker : worker[w].at # "got"
  BY <1>1 DEF Inv, Phases
<1>5. \A d \in Roots, p \in Path : out[d][p] = None
  BY <1>1 DEF LocalInv, Written
<1>6. CASE q.what = "backup"
  <2>1. at' = "look" /\ left' = RowsOf(q.backup) /\ UNCHANGED <<todo, chosen>>
    BY <1>6 DEF Ask
  <2>2. IsSequence(left') /\ Entries(left') = {x \in Entries(rows) : x.backup = q.backup}
    BY <1>2, <2>1, RowsFound
  <2>3. q.backup = r.backup
    <3>1. PICK h \in Local \cup Pushed :
            q \in [how : {h}, what : What(h), backup : {r.backup}, path : {r.path}, hash : {r.hash},
                   paths : {{r.path}, Path}, dest : {TRUE} \cup {h # "cli" /\ h # "cliPush"}]
      BY DEF Requests
    <3> QED
      BY <3>1
  <2>4. left' # <<>>
    BY <1>3, <2>2, <2>3, EmptySequence DEF Entries
  <2>5. Tasks'
    BY <1>1, <1>2, <1>4, <2>1, <2>2, <2>4 DEF LocalInv, Tasks, Rows
  <2>6. Wanted(q) = {<<x.path, x.hash>> : x \in Entries(left')}
    BY <1>6, <2>1 DEF Wanted
  <2>7. Reading'
    BY <1>1, <1>2, <2>2, <2>6 DEF Reading, Rows
  <2>8. Asked'
    BY <1>1, <1>3, <2>1, <2>6 DEF Asked
  <2>9. Written' /\ Underway'
    BY <1>1, <1>3, <1>5, <2>1 DEF Written, Underway
  <2> QED
    BY <1>2, <2>5, <2>7, <2>8, <2>9 DEF LocalInv
<1>7. CASE q.what # "backup"
  <2>1. at' \in {"work", "push"} /\ UNCHANGED left /\ todo' \in Selected(q) /\ chosen' = Entries(todo')
    BY <1>7 DEF Ask, Start
  <2>2. IsSequence(todo') /\ Entries(todo') \subseteq Row
    BY <1>2, <1>7, <2>1, SelectedTyped
  <2>3. Tasks'
    BY <1>1, <1>3, <1>4, <2>1, <2>2 DEF LocalInv, Tasks
  <2>4. Written' /\ Underway' /\ Reading'
    BY <1>1, <1>5, <2>1 DEF Written, Underway, Reading
  <2>5. Asked'
    <3> SUFFICES ASSUME q.how \in Local, Clear(q), NEW x \in Wanted(q)
                 PROVE  /\ \E e \in Entries(todo') : e.path = x[1]
                        /\ \A e \in Entries(todo') : e.path = x[1] => e.hash = x[2]
      BY <1>1, <2>1 DEF Asked
    <3> QED
      BY <1>2, <1>7, <2>1, SelectedRight
  <2> QED
    BY <1>2, <2>3, <2>4, <2>5 DEF LocalInv
<1> QED
  BY <1>6, <1>7

\* The entries of a sequence are its first and those of the rest.
LEMMA HeadTailEntries ==
  ASSUME NEW s, IsSequence(s), s # <<>>
  PROVE  /\ IsSequence(Tail(s))
         /\ Entries(s) = {Head(s)} \cup Entries(Tail(s))
<1>1. PICK S : s \in Seq(S)
  BY DEF IsSequence
<1>2. /\ Tail(s) \in Seq(S) /\ Len(Tail(s)) = Len(s) - 1 /\ Len(s) \in Nat \ {0} /\ Head(s) = s[1]
      /\ DOMAIN s = 1..Len(s) /\ DOMAIN Tail(s) = 1..(Len(s) - 1)
      /\ \A i \in 1..(Len(s) - 1) : Tail(s)[i] = s[i + 1]
  BY <1>1
<1>3. \A i \in DOMAIN s : s[i] \in {Head(s)} \cup Entries(Tail(s))
  <2>1. ASSUME NEW i \in DOMAIN s, i # 1 PROVE s[i] \in Entries(Tail(s))
    <3>1. i - 1 \in DOMAIN Tail(s) /\ Tail(s)[i - 1] = s[i]
      BY <1>2, <2>1
    <3> QED
      BY <3>1 DEF Entries
  <2> QED
    BY <1>2, <2>1
<1>4. Head(s) \in Entries(s)
  BY <1>2 DEF Entries
<1>5. \A i \in DOMAIN Tail(s) : Tail(s)[i] \in Entries(s)
  <2>1. ASSUME NEW i \in DOMAIN Tail(s) PROVE Tail(s)[i] \in Entries(s)
    <3>1. i + 1 \in DOMAIN s /\ Tail(s)[i] = s[i + 1]
      BY <1>2
    <3> QED
      BY <3>1 DEF Entries
  <2> QED
    BY <2>1
<1> QED
  BY <1>2, <1>3, <1>4, <1>5 DEF Entries, IsSequence

\* A row is looked up: it leads to its own path, or two paths are known to be astray.
LEMMA LookUpLocal ==
  ASSUME Inv, LocalInv, LookUp
  PROVE  LocalInv'
<1> DEFINE row == Head(left)
           hit == FirstRow(row.hash)
<1>1. /\ at = "look" /\ left' = Tail(left) /\ at' \in {"look", "work", "push"} /\ (at' = "look" <=> left' # <<>>)
      /\ UNCHANGED <<rows, made, req, wanted, clear, worker, count, out>>
  BY DEF LookUp, Start, table
<1>2. left # <<>> /\ IsSequence(left') /\ Entries(left) = {row} \cup Entries(left')
  <2>1. left # <<>> /\ IsSequence(left)
    BY <1>1 DEF LocalInv, Tasks
  <2> QED
    BY <1>1, <2>1, HeadTailEntries
<1>3. row \in Row /\ row.path \in Path /\ Entries(left') \subseteq Row
  <2>1. Entries(left) \subseteq Row /\ \A r \in Row : r.path \in Path
    BY DEF LocalInv, Tasks, Row
  <2> HIDE DEF row
  <2> QED
    BY <1>2, <2>1
<1>4. /\ IsSequence(todo) /\ Entries(todo) \subseteq chosen /\ chosen \subseteq Row
      /\ astray \subseteq Path /\ <<row.path, row.hash>> \in wanted
  BY <1>1, <1>2 DEF LocalInv, Tasks, Reading
<1>5. Rows' /\ Reading' /\ Written'
  <2>1. \A d \in Roots, p \in Path : out[d][p] = None
    BY <1>1 DEF LocalInv, Written
  <2> HIDE DEF row
  <2> QED
    BY <1>1, <1>2, <2>1 DEF LocalInv, Rows, Reading, Written
<1>6. \A e \in chosen : req.how \in Local /\ count.failed = 0 => e \in Entries(todo)
  <2>1. \A w \in Worker : worker[w].at # "got"
    BY <1>1 DEF Inv, Phases
  <2>2. \A d \in Roots, p \in Path : out[d][p] = None
    BY <1>1 DEF LocalInv, Written
  <2>3. \A e \in chosen : e.path \in Path
    BY <1>4 DEF Row
  <2>4. resolveDestination(req) \in Roots
    BY DEF resolveDestination, Roots
  <2> QED
    BY <1>1, <2>1, <2>2, <2>3, <2>4 DEF LocalInv, Underway
<1>7. CASE UNCHANGED <<todo, chosen>> /\ (astray' = astray \cup {row.path} \/ (req.how \notin Local /\ astray' \subseteq Path))
  <2>1. Tasks'
    BY <1>1, <1>2, <1>3, <1>4, <1>7 DEF LocalInv, Tasks
  <2>2. Underway'
    BY <1>1, <1>6, <1>7 DEF Underway
  <2>3. Asked'
    <3> HIDE DEF row
    <3> QED
      BY <1>1, <1>2, <1>7 DEF LocalInv, Asked
  <2> QED
    BY <1>5, <2>1, <2>2, <2>3 DEF LocalInv
<1>8. CASE /\ hit \in Row /\ hit.hash = row.hash
           /\ todo' = Append(todo, hit) /\ chosen' = chosen \cup {hit}
           /\ astray' = IF hit.path = row.path THEN astray ELSE astray \cup {row.path, hit.path}
  <2>1. hit.path \in Path
    BY <1>8 DEF Row
  <2> HIDE DEF row, hit
  <2>2. IsSequence(todo') /\ Entries(todo') = Entries(todo) \cup {hit}
    BY <1>4, <1>8, AppendSequence, AppendEntries
  <2>3. Tasks'
    <3>1. /\ IsSequence(todo') /\ Entries(todo') \subseteq chosen' /\ chosen' \subseteq Row /\ astray' \subseteq Path
      BY <1>3, <1>4, <1>8, <2>1, <2>2
    <3>2. \A w \in Worker : worker[w].at = "got" => worker[w].entry \in chosen'
      BY <1>8 DEF LocalInv, Tasks
    <3> QED
      BY <1>1, <1>2, <1>3, <3>1, <3>2 DEF LocalInv, Tasks
  <2>4. Underway'
    BY <1>1, <1>6, <1>8, <2>2 DEF Underway
  <2>5. Asked'
    <3> SUFFICES ASSUME req.how \in Local, clear, NEW x \in wanted, x[1] \notin astray'
                 PROVE  /\ (\E e \in chosen' : e.path = x[1]) \/ \E r \in Entries(left') : r.path = x[1]
                        /\ \A e \in chosen' : e.path = x[1] => e.hash = x[2]
      BY <1>1 DEF Asked
    <3>1. /\ (\E e \in chosen : e.path = x[1]) \/ \E r \in Entries(left) : r.path = x[1]
          /\ \A e \in chosen : e.path = x[1] => e.hash = x[2]
      BY <1>1, <1>8 DEF LocalInv, Asked
    <3>2. hit.path = x[1] \/ row.path = x[1] => hit.path = row.path
      BY <1>8
    <3>3. row.path = x[1] => x = <<row.path, row.hash>>
      BY <1>1, <1>4 DEF LocalInv, Reading
    <3>4. hit.path = x[1] => hit.hash = x[2]
      BY <1>8, <3>2, <3>3
    <3> QED
      BY <1>2, <1>8, <3>1, <3>2, <3>4
  <2> QED
    BY <1>5, <2>3, <2>4, <2>5 DEF LocalInv
<1>9. ASSUME \E r \in Entries(rows) : r.hash = row.hash
      PROVE  hit \in Row /\ hit.hash = row.hash /\ hit.path \in Path
  <2>1. hit \in Entries(rows) /\ hit.hash = row.hash
    BY <1>9, FirstRowFound DEF LocalInv
  <2> QED
    BY <2>1, RowsTyped DEF LocalInv
<1>10. \/ UNCHANGED <<todo, chosen>> /\ astray' = astray \cup {row.path}
       \/ /\ \E r \in Entries(rows) : r.hash = row.hash
          /\ \/ /\ todo' = Append(todo, hit) /\ chosen' = chosen \cup {hit}
             \/ UNCHANGED <<todo, chosen>> /\ req.how = "cross"
          /\ astray' = IF hit.path = row.path THEN astray ELSE astray \cup {row.path, hit.path}
  BY DEF LookUp
<1> HIDE DEF row, hit
<1> QED
  BY <1>3, <1>4, <1>7, <1>8, <1>9, <1>10 DEF Local

\* A worker takes the first entry of the queue, or fails at it.
LEMMA DownloadFileLocal ==
  ASSUME Inv, LocalInv, NEW w \in Worker, DownloadFile(w)
  PROVE  LocalInv'
<1> DEFINE e == Head(todo)
<1>1. /\ at = "work" /\ todo # <<>> /\ todo' = Tail(todo) /\ worker[w].at = "idle"
      /\ UNCHANGED <<rows, made, req, at, left, chosen, wanted, clear, astray, out>>
  BY DEF DownloadFile, table, request
<1>2. IsSequence(todo') /\ Entries(todo) = {e} \cup Entries(todo')
  BY <1>1, HeadTailEntries DEF LocalInv, Tasks
<1>3. \/ count'.failed # 0 /\ UNCHANGED worker
      \/ /\ worker' = [worker EXCEPT ![w] = [at |-> "got", entry |-> e, data |-> blob[e.hash]]]
         /\ UNCHANGED count
  <2>1. count \in [done : Nat, failed : Nat]
    BY DEF Inv, Types
  <2>2. [count EXCEPT !.failed = @ + 1].failed # 0
    BY <2>1
  <2> QED
    BY <2>2 DEF DownloadFile, Failed
<1>4. DOMAIN worker = Worker /\ \A v \in Worker : worker[v].at = "got" => worker[v].entry \in chosen
  BY DEF LocalInv, Tasks
<1>5. /\ DOMAIN worker' = Worker
      /\ \A v \in Worker : worker'[v].at = "got" => worker'[v].entry \in chosen
      /\ \A v \in Worker : worker[v].at = "got" => worker'[v] = worker[v]
      /\ count'.failed # 0 \/ (UNCHANGED count /\ worker'[w].at = "got" /\ worker'[w].entry = e)
  <2>1. e \in chosen
    BY <1>2 DEF LocalInv, Tasks
  <2> HIDE DEF e
  <2> QED
    BY <1>1, <1>3, <1>4, <2>1
<1>6. Rows' /\ Tasks'
  BY <1>1, <1>2, <1>5 DEF LocalInv, Rows, Tasks
<1>7. Written' /\ Reading' /\ Asked'
  BY <1>1 DEF LocalInv, Written, Reading, Asked, Explained
<1>8. Underway'
  <2> SUFFICES ASSUME req.how \in Local, count'.failed = 0, NEW x \in chosen
               PROVE  \/ x \in Entries(todo')
                      \/ \E v \in Worker : worker'[v].at = "got" /\ worker'[v].entry = x
                      \/ out[resolveDestination(req)][x.path] # None
    BY <1>1 DEF Underway
  <2>1. \/ x \in Entries(todo)
        \/ \E v \in Worker : worker[v].at = "got" /\ worker[v].entry = x
        \/ out[resolveDestination(req)][x.path] # None
    BY <1>1, <1>5 DEF LocalInv, Underway
  <2> HIDE DEF e
  <2> QED
    BY <1>2, <1>5, <2>1
<1> QED
  BY <1>6, <1>7, <1>8 DEF LocalInv

\* Nothing but the content of the entry comes of decrypting and verifying it.
LEMMA DecryptedVerified ==
  ASSUME NEW h, NEW data, NEW key, NEW c \in Decrypted(h, data, key) \ {"cipher"}
  PROVE  c = h
  BY DEF Decrypted

\* What a worker does to the files: its entry's content, or a mix with another worker's,
\* is at the path, or it fails and what was there or a part is.
LEMMA WorkerWrites ==
  ASSUME Inv, LocalInv, NEW w \in Worker, restoreEntry(w)
  PROVE  LET e == worker[w].entry
             d == resolveDestination(req)
         IN  /\ at = "work" /\ req.how \in Local /\ e \in chosen /\ e.path \in Path /\ e.hash \in Hash /\ d \in Roots
             /\ DOMAIN out = Roots /\ \A x \in Roots : DOMAIN out[x] = Path
             /\ \/ /\ count'.failed = count.failed
                   /\ \E c \in {e.hash, "mixed"} :
                        /\ out' = [out EXCEPT ![d][e.path] = c]
                        /\ c = "mixed" => \/ out[d][e.path] = "mixed"
                                          \/ \E f \in chosen : f.path = e.path /\ f.hash # e.hash
                \/ /\ count'.failed = count.failed + 1
                   /\ UNCHANGED out \/ \E c \in AfterFailure(d, e.path) : out' = [out EXCEPT ![d][e.path] = c]
<1> DEFINE e == worker[w].entry
           d == resolveDestination(req)
           content == Decrypted(e.hash, worker[w].data, KeyFor(e)) \ {"cipher"}
<1>1. at = "work" /\ req.how \in Local /\ worker[w].at = "got"
  BY DEF restoreEntry, RestoreAs, Inv, Phases
<1>2. e \in chosen /\ e.path \in Path /\ e.hash \in Hash /\ d \in Roots
  <2>1. e \in chosen /\ chosen \subseteq Row
    BY <1>1 DEF LocalInv, Tasks
  <2>2. \A r \in Row : r.path \in Path /\ r.hash \in Hash
    BY DEF Row
  <2> QED
    BY <2>1, <2>2 DEF resolveDestination, Roots
<1>3. DOMAIN out = Roots /\ \A x \in Roots : DOMAIN out[x] = Path
  BY DEF Inv, Types, LocalInv, Tasks, Roots
<1>4. /\ [count EXCEPT !.failed = @ + 1].failed = count.failed + 1
      /\ [count EXCEPT !.done = @ + 1].failed = count.failed
  BY DEF Inv, Types
<1>5. Overlaps(w) => \/ out[d][e.path] = "mixed"
                     \/ \E f \in chosen : f.path = e.path /\ f.hash # e.hash
  BY DEF Overlaps, LocalInv, Tasks
<1>6. \A c \in content : c = e.hash
  BY DecryptedVerified
<1>7. \/ Done /\ \E c \in content \cup {x \in {"mixed"} : Overlaps(w)} : out' = [out EXCEPT ![d][e.path] = c]
      \/ Failed /\ UNCHANGED out
      \/ Failed /\ \E c \in AfterFailure(d, e.path) : out' = [out EXCEPT ![d][e.path] = c]
  BY DEF restoreEntry, RestoreAs, WriteFile
<1> HIDE DEF content
<1>9. CASE Done /\ \E c \in content \cup {x \in {"mixed"} : Overlaps(w)} : out' = [out EXCEPT ![d][e.path] = c]
  <2>1. PICK c \in content \cup {x \in {"mixed"} : Overlaps(w)} : out' = [out EXCEPT ![d][e.path] = c]
    BY <1>9
  <2>2. c = e.hash \/ (c = "mixed" /\ Overlaps(w))
    BY <1>6, <2>1
  <2>3. c \in {e.hash, "mixed"} /\ (c = "mixed" => Overlaps(w))
    BY <1>2, <2>2, RestoreAssumption
  <2>4. count'.failed = count.failed
    BY <1>4, <1>9 DEF Done
  <2> HIDE DEF d, e
  <2> QED
    BY <1>1, <1>2, <1>3, <1>5, <2>1, <2>3, <2>4 DEF d, e
<1>10. CASE Failed
  <2>1. count'.failed = count.failed + 1
    BY <1>4, <1>10 DEF Failed
  <2>2. UNCHANGED out \/ \E c \in AfterFailure(d, e.path) : out' = [out EXCEPT ![d][e.path] = c]
    <3>1. CASE Done
      <4>1. count'.failed = count.failed
        BY <1>4, <3>1 DEF Done
      <4>2. count.failed \in Nat
        BY DEF Inv, Types
      <4> QED
        BY <2>1, <4>1, <4>2
    <3> QED
      BY <1>7, <3>1
  <2> QED
    BY <1>1, <1>2, <1>3, <2>1, <2>2
<1> QED
  BY <1>7, <1>9, <1>10

\* What is written is explained, and an entry that did not fail is written.
LEMMA restoreEntryLocal ==
  ASSUME Inv, LocalInv, NEW w \in Worker, restoreEntry(w)
  PROVE  LocalInv'
<1> DEFINE e == worker[w].entry
           d == resolveDestination(req)
<1>1. /\ worker' = [worker EXCEPT ![w] = IdleWorker]
      /\ UNCHANGED <<rows, made, req, at, left, chosen, wanted, clear, astray, todo>>
  BY DEF restoreEntry, RestoreAs, table, request
<1>2. /\ at = "work" /\ req.how \in Local /\ e \in chosen /\ e.path \in Path /\ e.hash \in Hash /\ d \in Roots
      /\ DOMAIN out = Roots /\ \A x \in Roots : DOMAIN out[x] = Path
  BY WorkerWrites
<1>3. PICK c : /\ out' = [out EXCEPT ![d][e.path] = c] \/ (UNCHANGED out /\ c = out[d][e.path])
               /\ \/ /\ count'.failed = count.failed
                     /\ c = e.hash \/ (c = "mixed" /\ (out[d][e.path] = "mixed" \/ \E f \in chosen : f.path = e.path /\ f.hash # e.hash))
                  \/ count'.failed # 0 /\ c \in {out[d][e.path], "partial"}
  <2>1. count.failed \in Nat
    BY DEF Inv, Types
  <2>2. count.failed + 1 # 0
    BY <2>1
  <2> HIDE DEF d, e
  <2> QED
    BY <2>2, WorkerWrites DEF AfterFailure, d, e
<1>4. c # None \/ count'.failed # 0
  <2>1. e.hash # None /\ "mixed" # None
    BY <1>2, RestoreAssumption
  <2> HIDE DEF d, e
  <2> QED
    BY <1>3, <2>1
<1> HIDE DEF d, e
<1>5. /\ \A x \in Roots : DOMAIN out'[x] = Path
      /\ out'[d][e.path] = c
      /\ \A x \in Roots, p \in Path : (x = d /\ p = e.path) \/ out'[x][p] = out[x][p]
  BY <1>2, <1>3
<1>6. /\ DOMAIN worker' = Worker /\ worker'[w].at # "got"
      /\ \A v \in Worker \ {w} : worker'[v] = worker[v]
  BY <1>1 DEF LocalInv, Tasks, IdleWorker
<1>7. Rows' /\ Tasks' /\ Reading' /\ Asked'
  BY <1>1, <1>5, <1>6 DEF LocalInv, Rows, Tasks, Reading, Asked
<1>8. Written'
  <2>1. \A p, x : Explained(p, x)' = Explained(p, x)
    BY <1>1 DEF Explained
  <2>2. c # None => Explained(e.path, c)
    <3>1. out[d][e.path] # None => Explained(e.path, out[d][e.path])
      BY <1>2 DEF LocalInv, Written
    <3>2. Explained(e.path, e.hash) /\ Explained(e.path, "partial")
      BY <1>2 DEF Explained
    <3>3. ASSUME NEW f \in chosen, f.path = e.path, f.hash # e.hash PROVE Explained(e.path, "mixed")
      BY <1>2, <3>3 DEF Explained
    <3>4. CASE c = out[d][e.path]
      BY <3>1, <3>4
    <3> QED
      BY <1>3, <3>1, <3>2, <3>3, <3>4
  <2>3. ASSUME NEW x \in Roots, NEW p \in Path, out'[x][p] # None PROVE Explained(p, out'[x][p])
    BY <1>2, <1>5, <2>2, <2>3 DEF LocalInv, Written
  <2> QED
    BY <1>1, <1>2, <2>1, <2>3 DEF Written
<1>9. Underway'
  <2> SUFFICES ASSUME count'.failed = 0, NEW x \in chosen
               PROVE  \/ x \in Entries(todo)
                      \/ \E v \in Worker : worker'[v].at = "got" /\ worker'[v].entry = x
                      \/ out'[d][x.path] # None
    BY <1>1 DEF Underway, d
  <2>1. count.failed = 0 /\ c # None
    BY <1>3, <1>4
  <2>2. \/ x \in Entries(todo)
        \/ \E v \in Worker : worker[v].at = "got" /\ worker[v].entry = x
        \/ out[d][x.path] # None
    BY <1>2, <2>1 DEF LocalInv, Underway, d
  <2>3. x.path \in Path
    <3>1. \A r \in Row : r.path \in Path
      BY DEF Row
    <3> QED
      BY <3>1 DEF LocalInv, Tasks
  <2>4. CASE x = e
    BY <1>5, <2>1, <2>4
  <2>5. CASE \E v \in Worker \ {w} : worker[v].at = "got" /\ worker[v].entry = x
    BY <1>6, <2>5
  <2>6. CASE out[d][x.path] # None
    BY <1>2, <1>5, <2>1, <2>3, <2>6
  <2>7. worker[w].entry = x => x = e
    BY DEF e
  <2> QED
    BY <2>2, <2>4, <2>5, <2>6, <2>7
<1> QED
  BY <1>7, <1>8, <1>9 DEF LocalInv

\* Pushes write for other requests, and the end of a request writes nothing.
LEMMA PushLocal ==
  ASSUME Inv, LocalInv, RestoreBatch \/ Push \/ PushRestore \/ CloseAndRecv \/ Break
  PROVE  LocalInv'
<1>1. UNCHANGED <<rows, made, req, left, chosen, wanted, clear, astray, worker>>
  BY DEF RestoreBatch, Push, PushRestore, CloseAndRecv, Break, table, request
<1>2. Rows'
  BY <1>1 DEF LocalInv, Rows
<1>3. CASE RestoreBatch
  <2>1. at = "work" /\ at' = "done" /\ todo = <<>> /\ UNCHANGED <<todo, out, count>>
    BY <1>3 DEF RestoreBatch
  <2> QED
    BY <1>1, <1>2, <2>1 DEF LocalInv, Tasks, Written, Reading, Asked, Underway, Explained
<1>4. CASE Push \/ PushRestore \/ CloseAndRecv \/ Break
  <2>1. at = "push" /\ req.how \notin Local /\ at' \notin {"idle", "look"}
    <3>1. at = "push"
      BY <1>4 DEF Push, PushRestore, CloseAndRecv, Break, Inv, Phases
    <3>2. at' \notin {"idle", "look"}
      BY <1>4, <3>1 DEF Push, PushRestore, CloseAndRecv, Break
    <3> QED
      BY <3>1, <3>2 DEF Inv, Phases
  <2>2. IsSequence(todo') /\ Entries(todo') \subseteq Entries(todo) /\ (at' = "done" => todo' = <<>>)
    <3>1. CASE Push
      <4>1. todo # <<>> /\ todo' = Tail(todo) /\ UNCHANGED at
        BY <3>1 DEF Push
      <4> QED
        BY <2>1, <4>1, HeadTailEntries DEF LocalInv, Tasks
    <3>2. CASE PushRestore
      BY <2>1, <3>2 DEF PushRestore, LocalInv, Tasks
    <3>3. CASE CloseAndRecv
      BY <3>3 DEF CloseAndRecv, LocalInv, Tasks
    <3>4. CASE Break
      BY <3>4, EmptySequence DEF Break, Entries
    <3> QED
      BY <1>4, <3>1, <3>2, <3>3, <3>4
  <2>3. \A d \in Roots : DOMAIN out'[d] = Path
    <3>1. \/ UNCHANGED out
          \/ \E d, p, c : out' = [out EXCEPT ![d][p] = c]
      BY <1>4 DEF Push, PushRestore, CloseAndRecv, Break
    <3>2. DOMAIN out = Roots /\ \A d \in Roots : DOMAIN out[d] = Path
      BY DEF Inv, Types, LocalInv, Tasks, Roots
    <3> QED
      BY <3>1, <3>2
  <2>4. Tasks'
    BY <1>1, <2>1, <2>2, <2>3 DEF LocalInv, Tasks
  <2>5. Written' /\ Reading' /\ Asked' /\ Underway'
    BY <1>1, <2>1 DEF Written, Reading, Asked, Underway
  <2> QED
    BY <1>2, <2>4, <2>5 DEF LocalInv
<1> QED
  BY <1>3, <1>4

\* Every step keeps it.
LEMMA NextLocal == Inv /\ LocalInv /\ [Next]_vars => LocalInv'
<1> SUFFICES ASSUME Inv, LocalInv, [Next]_vars PROVE LocalInv'
  OBVIOUS
<1>1. CASE UNCHANGED vars
  BY <1>1 DEF vars, table, request, LocalInv, Rows, Tasks, Written, Reading, Asked, Underway, Explained
<1> QED
  BY <1>1, RunBackupLocal, DeleteBackupLocal, AskLocal, LookUpLocal, DownloadFileLocal, restoreEntryLocal,
     PushLocal DEF Next

\* The invariant of local restores holds always.
LEMMA LocalInvariant == Spec => []LocalInv
  BY Invariant, InitLocal, NextLocal, PTL DEF Spec

-----------------------------------------------------------------------------
(* What is pushed, and types. *)

\* A content that comes to a path is that of a selected entry for it, or, from a push,
\* its ciphertext: which takes an entry without a key of its own where encryption is on.
Delivered(p, c) ==
  \E e \in chosen : e.path = p /\ (c = e.hash \/ (c = "cipher" /\ e.key = 0 /\ enc))

\* What a push has written, or begun to.
Pushes(p, c) == Delivered(p, c) \/ (c = "partial" /\ \E e \in chosen : e.path = p)

\* So it is for all that a push has written, and not more is left in part than the
\* target reports as failed.
PushesWhatWasSelected ==
  at # "idle" /\ req.how \in Pushed =>
    /\ \A d \in Roots, p \in Path : out[d][p] # None => Pushes(p, out[d][p])
    /\ Cardinality(HalfWritten) <= told.failed

Message == [path : Path, content : Content, os : BOOLEAN]

\* Without encryption nothing has a key.
Table ==
  /\ enc \in BOOLEAN /\ blob \in [Hash -> Data] /\ made \in {0} \cup Backup
  /\ trouble \in 0..MaxTrouble
  /\ ~enc => /\ \A r \in Entries(rows) : r.key = 0
             /\ \A h \in Hash : blob[h] \in {None, 0}

\* What is at a worker, on the wire and written comes of selected entries.
Batch ==
  /\ wanted \in SUBSET (Path \X Hash) /\ clear \in BOOLEAN
  /\ out \in [Roots -> [Path -> Content \cup {None}]]
  /\ \A w \in Worker : worker[w] = IdleWorker \/ (worker[w].at = "got" /\ worker[w].entry \in chosen /\ worker[w].data \in Key)
  /\ \A m \in Entries(wire) : m \in Message /\ Delivered(m.path, m.content)
  /\ \A d \in Roots, p \in Path : out[d][p] # None /\ req.how \notin Local => Pushes(p, out[d][p])

\* A sequence is one of the set its elements are in.
LEMMA SequenceOf ==
  ASSUME NEW s, IsSequence(s), NEW S, Entries(s) \subseteq S
  PROVE  s \in Seq(S)
<1>1. DOMAIN s = 1..Len(s) /\ Len(s) \in Nat /\ s = [i \in 1..Len(s) |-> s[i]]
  BY DEF IsSequence
<1>2. \A i \in 1..Len(s) : s[i] \in S
  BY <1>1 DEF Entries
<1> QED
  BY <1>1, <1>2

\* What a request wants are paths with a content, and whether it is clear is decided.
LEMMA WantedTyped ==
  ASSUME Rows, NEW r \in Entries(rows), NEW q \in Requests(r)
  PROVE  Wanted(q) \in SUBSET (Path \X Hash) /\ Clear(q) \in BOOLEAN
<1> DEFINE all == Entries(Search(q.paths))
<1>1. all \subseteq Entries(rows) /\ Entries(RowsOf(q.backup)) \subseteq Entries(rows)
  BY RowsFound
<1>2. \A x \in Entries(rows) : x \in Row /\ x.path \in Path /\ x.hash \in Hash
  BY RowsTyped DEF Row
<1>3. q.path = r.path /\ q.hash = r.hash /\ q.what \in {"backup", "query", "queryIn", "file"}
  <2>1. PICK h \in Local \cup Pushed :
          q \in [how : {h}, what : What(h), backup : {r.backup}, path : {r.path}, hash : {r.hash},
                 paths : {{r.path}, Path}, dest : {TRUE} \cup {h # "cli" /\ h # "cliPush"}]
    BY DEF Requests
  <2>2. q.path = r.path /\ q.hash = r.hash /\ q.what \in What(h)
    BY <2>1
  <2> QED
    BY <2>2 DEF What, Local, Pushed
<1>4. \A x \in all : Later({y \in all : y.path = x.path}) \in all
  <2>1. ASSUME NEW x \in all PROVE Later({y \in all : y.path = x.path}) \in all
    <3> DEFINE R == {y \in all : y.path = x.path}
    <3>1. R \in SUBSET Row /\ R # {} /\ R \subseteq all
      BY <1>1, <1>2
    <3> HIDE DEF R, all
    <3>2. Later(R) \in R
      BY <3>1, LaterFound
    <3> QED
      BY <3>1, <3>2 DEF R
  <2> QED
    BY <2>1
<1>5. Wanted(q) \in SUBSET (Path \X Hash)
  <2>1. CASE q.what = "backup"
    BY <1>1, <1>2, <2>1 DEF Wanted
  <2>2. CASE q.what = "queryIn"
    BY <1>1, <1>2, <2>2 DEF Wanted
  <2>3. CASE q.what = "query"
    <3> DEFINE L(x) == Later({y \in all : y.path = x.path})
    <3>1. Wanted(q) = {<<L(x).path, L(x).hash>> : x \in all}
      BY <2>3 DEF Wanted
    <3>2. \A x \in all : L(x).path \in Path /\ L(x).hash \in Hash
      BY <1>1, <1>2, <1>4
    <3> HIDE DEF L, all
    <3> QED
      BY <3>1, <3>2
  <2>4. CASE q.what = "file"
    BY <1>2, <1>3, <2>4 DEF Wanted
  <2> QED
    BY <1>3, <2>1, <2>2, <2>3, <2>4
<1>6. Clear(q) \in BOOLEAN
  BY <1>3 DEF Clear
<1> QED
  BY <1>5, <1>6

\* What decrypting gives, with a key or without.
LEMMA DecryptedIs ==
  ASSUME NEW h, NEW data, NEW key, NEW c \in Decrypted(h, data, key)
  PROVE  c = h \/ (c = "cipher" /\ key = 0 /\ data # 0)
  BY DEF Decrypted

\* Table and store.
LEMMA NextTable ==
  ASSUME LocalInv, Table, Next
  PROVE  Table'
<1> USE RestoreAssumption DEF Table
<1>1. Trouble => trouble' \in 0..MaxTrouble
  BY DEF Trouble
<1>2. ASSUME NEW f \in UNION {[P -> Hash] : P \in SUBSET Path \ {{}}}, RunBackup(f) PROVE Table'
  <2> DEFINE new == {f[p] : p \in DOMAIN f} \cap {h \in Hash : blob[h] = None}
             key == IF enc THEN made + 1 ELSE 0
             Entry(p) == [path |-> p, hash |-> f[p], backup |-> made + 1,
                          key |-> IF f[p] \in new THEN key ELSE 0]
  <2>1. /\ made < MaxBackups /\ made' = made + 1 /\ UNCHANGED <<enc, trouble>>
        /\ blob' = [h \in Hash |-> IF h \in new THEN key ELSE blob[h]]
    BY <1>2 DEF RunBackup
  <2>2. made' \in Backup /\ key \in Key
    BY <2>1 DEF Backup, Key
  <2>3. blob' \in [Hash -> Data]
    BY <2>1, <2>2 DEF Data
  <2>4. PICK order \in Orders(DOMAIN f) : rows' = rows \o [i \in DOMAIN order |-> Entry(order[i])]
    BY <1>2 DEF RunBackup
  <2> DEFINE added == [i \in DOMAIN order |-> Entry(order[i])]
  <2>5. IsSequence(order)
    <3>1. IsFiniteSet(DOMAIN f)
      BY FS_Subset
    <3> QED
      BY <3>1, OrdersGood
  <2>6. IsSequence(added)
    <3>1. DOMAIN order = 1..Len(order) /\ Len(order) \in Nat
      BY <2>5 DEF IsSequence
    <3>2. added \in Seq({Entry(order[i]) : i \in DOMAIN order})
      BY <3>1
    <3> QED
      BY <3>2 DEF IsSequence
  <2>7. ~enc => \A e \in Entries(added) : e.key = 0
    BY DEF Entries
  <2>8. Entries(rows') = Entries(rows) \cup Entries(added)
    <3>1. IsSequence(rows) /\ rows' = rows \o added
      BY <2>4 DEF LocalInv, Rows
    <3> HIDE DEF added
    <3> QED
      BY <2>6, <3>1, ConcatEntries
  <2>9. ~enc => \A h \in Hash : blob'[h] \in {None, 0}
    BY <2>1
  <2> HIDE DEF added, Entry, new, key
  <2> QED
    BY <2>1, <2>2, <2>3, <2>7, <2>8, <2>9
<1>3. ASSUME NEW b \in Backup, DeleteBackup(b) PROVE Table'
  <2> DEFINE P == {i \in DOMAIN rows : rows[i].backup # b}
  <2>1. P \in SUBSET DOMAIN rows /\ rows' = Pick(rows, P) /\ IsSequence(rows)
    BY <1>3 DEF DeleteBackup, LocalInv, Rows
  <2>2. Entries(rows') \subseteq Entries(rows)
    <3> HIDE DEF P
    <3>1. Entries(rows') = {rows[n] : n \in P}
      BY <2>1, PickGood
    <3> QED
      BY <2>1, <3>1 DEF Entries
  <2>3. /\ \E kept \in SUBSET Hash : blob' = [h \in Hash |-> IF h \in kept THEN blob[h] ELSE None]
        /\ UNCHANGED <<enc, made>> /\ trouble' \in 0..MaxTrouble
    <3>1. blob' = [h \in Hash |-> IF h \in {x \in Hash : \E r \in Entries(rows') : r.hash = x} THEN blob[h] ELSE None]
      BY <1>3 DEF DeleteBackup
    <3> QED
      BY <1>1, <1>3, <3>1 DEF DeleteBackup
  <2>4. blob' \in [Hash -> Data] /\ \A h \in Hash : blob'[h] \in {None, blob[h]}
    BY <2>3 DEF Data
  <2> QED
    BY <2>2, <2>3, <2>4
<1>4. CASE UNCHANGED table /\ (Trouble \/ UNCHANGED trouble)
  BY <1>1, <1>4 DEF table
<1>5. ASSUME NEW w \in Worker, DownloadFile(w) \/ restoreEntry(w) PROVE Table'
  BY <1>4, <1>5 DEF DownloadFile, restoreEntry, RestoreAs
<1>6. CASE RestoreBatch \/ Push \/ PushRestore \/ CloseAndRecv \/ Break
  BY <1>4, <1>6 DEF RestoreBatch, Push, PushRestore, CloseAndRecv, Break
<1>7. ASSUME NEW q, Ask(q) PROVE Table'
  BY <1>4, <1>7 DEF Ask
<1>8. CASE LookUp
  BY <1>4, <1>8 DEF LookUp
<1> QED
  BY <1>2, <1>3, <1>5, <1>6, <1>7, <1>8 DEF Next

\* A request selects, and nothing has been delivered before.
LEMMA AskBatch ==
  ASSUME Inv, LocalInv, Batch, NEW r \in Entries(rows), NEW q \in Requests(r), Ask(q)
  PROVE  Batch'
<1>1. at = "idle" /\ wanted' = Wanted(q) /\ clear' = Clear(q) /\ UNCHANGED <<worker, wire, out>>
  BY DEF Ask, stream
<1>2. wire = <<>> /\ Entries(wire) = {} /\ \A w \in Worker : worker[w].at # "got"
  BY <1>1, EmptySequence DEF Inv, Phases, Entries
<1>3. \A d \in Roots, p \in Path : out[d][p] = None
  BY <1>1 DEF LocalInv, Written
<1>4. wanted' \in SUBSET (Path \X Hash) /\ clear' \in BOOLEAN
  BY <1>1, WantedTyped DEF LocalInv
<1>5. \A w \in Worker : worker'[w] = IdleWorker \/ (worker'[w].at = "got" /\ worker'[w].entry \in chosen' /\ worker'[w].data \in Key)
  BY <1>1, <1>2 DEF Batch
<1> QED
  BY <1>1, <1>2, <1>3, <1>4, <1>5 DEF Batch

\* It looks rows up, and still nothing has been.
LEMMA LookUpBatch ==
  ASSUME Inv, LocalInv, Batch, LookUp
  PROVE  Batch'
<1>1. at = "look" /\ UNCHANGED <<wanted, clear, worker, wire, out>>
  BY DEF LookUp, stream
<1>2. wire = <<>> /\ Entries(wire) = {} /\ \A w \in Worker : worker[w].at # "got"
  BY <1>1, EmptySequence DEF Inv, Phases, Entries
<1>3. \A d \in Roots, p \in Path : out[d][p] = None
  BY <1>1 DEF LocalInv, Written
<1>4. \A w \in Worker : worker'[w] = IdleWorker
  BY <1>1, <1>2 DEF Batch
<1> QED
  BY <1>1, <1>2, <1>3, <1>4 DEF Batch

\* Workers.
LEMMA WorkerBatch ==
  ASSUME Inv, LocalInv, Table, Batch, NEW w \in Worker, DownloadFile(w) \/ restoreEntry(w)
  PROVE  Batch'
<1>1. UNCHANGED <<enc, req, chosen, wanted, clear, wire>>
  BY DEF DownloadFile, restoreEntry, RestoreAs, table, request, stream
<1>2. DOMAIN worker = Worker /\ chosen \subseteq Row /\ Entries(todo) \subseteq chosen /\ IsSequence(todo)
  BY DEF LocalInv, Tasks
<1>3. \A r \in Row : r.hash \in Hash /\ r.path \in Path
  BY DEF Row
<1>4. \A v \in Worker : worker'[v] = IdleWorker \/ (worker'[v].at = "got" /\ worker'[v].entry \in chosen /\ worker'[v].data \in Key)
  <2>1. CASE restoreEntry(w)
    BY <1>2, <2>1 DEF restoreEntry, RestoreAs, Batch
  <2>2. CASE DownloadFile(w) /\ UNCHANGED worker
    BY <2>2 DEF Batch
  <2>3. CASE DownloadFile(w) /\ ~UNCHANGED worker
    <3> DEFINE e == Head(todo)
    <3>1. e \in chosen
      <4>1. todo # <<>>
        BY <2>3 DEF DownloadFile
      <4> QED
        BY <1>2, <4>1, HeadTailEntries
    <3>2. blob[e.hash] \in Key
      <4>1. e.hash \in Hash /\ blob[e.hash] # None
        BY <1>2, <1>3, <2>3, <3>1 DEF DownloadFile
      <4> QED
        BY <4>1 DEF Table, Data
    <3>3. worker' = [worker EXCEPT ![w] = [at |-> "got", entry |-> e, data |-> blob[e.hash]]]
      BY <2>3 DEF DownloadFile
    <3> HIDE DEF e
    <3> QED
      BY <1>2, <3>1, <3>2, <3>3 DEF Batch
  <2> QED
    BY <2>1, <2>2, <2>3
<1>5. req.how \in Local
  BY DEF DownloadFile, restoreEntry, RestoreAs, Inv, Phases
<1>6. out' \in [Roots -> [Path -> Content \cup {None}]]
  <2>1. CASE DownloadFile(w)
    BY <2>1 DEF DownloadFile, Batch
  <2>2. CASE restoreEntry(w)
    <3> DEFINE e == worker[w].entry
               d == resolveDestination(req)
    <3>1. e.path \in Path /\ e.hash \in Hash /\ d \in Roots
      BY <2>2, WorkerWrites
    <3>2. UNCHANGED out \/ \E c \in {e.hash, "mixed", "partial", out[d][e.path]} : out' = [out EXCEPT ![d][e.path] = c]
      BY <2>2, WorkerWrites DEF AfterFailure
    <3> HIDE DEF e, d
    <3>3. {e.hash, "mixed", "partial", out[d][e.path]} \subseteq Content \cup {None}
      BY <3>1 DEF Batch, Content
    <3> QED
      BY <3>1, <3>2, <3>3 DEF Batch
  <2> QED
    BY <2>1, <2>2
<1> QED
  BY <1>1, <1>4, <1>5, <1>6 DEF Batch, Delivered

\* A push sends what it has decrypted, or taken as it is, of a selected entry.
LEMMA PushBatch ==
  ASSUME Inv, LocalInv, Table, Batch, Push
  PROVE  Batch'
<1> DEFINE e == Head(todo)
           Valid(m) == m \in Message /\ Delivered(m.path, m.content)
<1>1. UNCHANGED <<enc, req, chosen, wanted, clear, worker, out>>
  BY DEF Push, table, request
<1>2. e \in chosen /\ e \in Row
  <2>1. todo # <<>> /\ IsSequence(todo) /\ Entries(todo) \subseteq chosen /\ chosen \subseteq Row
    BY DEF Push, LocalInv, Tasks
  <2> QED
    BY <2>1, HeadTailEntries
<1>3. e.path \in Path /\ e.hash \in Hash /\ e.key \in Key
  BY <1>2 DEF Row
<1>4. \A m \in Entries(wire) : Valid(m)
  BY DEF Batch
<1>5. \A m \in Entries(wire') : Valid(m)
  <2>1. CASE UNCHANGED wire
    BY <1>4, <2>1
  <2>2. ASSUME NEW c \in loadDecrypted(e),
               wire' = Append(wire, [path |-> e.path, content |-> c, os |-> req.dest /\ NamesBase(req.how)])
        PROVE  \A m \in Entries(wire') : Valid(m)
    <3> DEFINE m == [path |-> e.path, content |-> c, os |-> req.dest /\ NamesBase(req.how)]
    <3>1. blob[e.hash] # None /\ c \in Decrypted(e.hash, blob[e.hash], e.key)
      BY <2>2 DEF loadDecrypted
    <3>2. c = e.hash \/ (c = "cipher" /\ e.key = 0 /\ blob[e.hash] # 0)
      BY <3>1, DecryptedIs
    <3>3. c = e.hash \/ (c = "cipher" /\ e.key = 0 /\ enc)
      BY <1>3, <3>1, <3>2 DEF Table
    <3>4. Valid(m)
      BY <1>2, <1>3, <3>3 DEF Delivered, Message, Content
    <3>5. IsSequence(wire) /\ wire' = Append(wire, m)
      BY <2>2 DEF Inv, Types
    <3> HIDE DEF m, Valid
    <3>6. Entries(wire') \subseteq Entries(wire) \cup {m}
      BY <3>5, AppendEntries
    <3> QED
      BY <1>4, <3>4, <3>6
  <2> QED
    BY <2>1, <2>2 DEF Push
<1> QED
  BY <1>1, <1>5 DEF Batch, Delivered, Pushes

\* The target writes what has come.
LEMMA PushRestoreBatch ==
  ASSUME Inv, LocalInv, Batch, PushRestore
  PROVE  Batch'
<1> DEFINE m == Head(wire)
<1>1. UNCHANGED <<enc, req, chosen, wanted, clear, worker>> /\ wire # <<>> /\ wire' = Tail(wire)
  BY DEF PushRestore, table, request
<1>2. IsSequence(wire) /\ Entries(wire) = {m} \cup Entries(wire')
  BY <1>1, HeadTailEntries DEF Inv, Types
<1>3. \A x \in Entries(wire') : x \in Message /\ Delivered(x.path, x.content)
  BY <1>2 DEF Batch
<1>4. Delivered(m.path, m.content) /\ m.path \in Path /\ m.content \in Content
  BY <1>2 DEF Batch, Message
<1>5. PICK d \in Roots : \E c \in {m.content, "partial", out[d][m.path]} : out' = [out EXCEPT ![d][m.path] = c]
  BY DEF PushRestore, AfterFailure, Roots
<1>6. PICK c \in {m.content, "partial", out[d][m.path]} : out' = [out EXCEPT ![d][m.path] = c]
  BY <1>5
<1> HIDE DEF m
<1>7. c = "partial" => Pushes(m.path, c)
  BY <1>4 DEF Pushes, Delivered
<1>8. ASSUME NEW x \in Roots, NEW p \in Path, out'[x][p] # None, req.how \notin Local PROVE Pushes(p, out'[x][p])
  <2>1. DOMAIN out = Roots /\ DOMAIN out[x] = Path /\ DOMAIN out[d] = Path
    BY DEF Inv, Types, LocalInv, Tasks, Roots
  <2>2. (x = d /\ p = m.path /\ out'[x][p] = c) \/ out'[x][p] = out[x][p]
    BY <1>6, <2>1
  <2>3. CASE out'[x][p] = out[x][p]
    BY <1>8, <2>3 DEF Batch
  <2>4. CASE x = d /\ p = m.path /\ out'[x][p] = c /\ c # out[d][m.path]
    BY <1>4, <1>6, <1>7, <2>4 DEF Pushes
  <2> QED
    BY <2>2, <2>3, <2>4
<1>9. out' \in [Roots -> [Path -> Content \cup {None}]]
  <2>1. c \in Content \cup {None}
    BY <1>4, <1>6 DEF Batch, Content
  <2> QED
    BY <1>4, <1>6, <2>1 DEF Batch
<1> QED
  BY <1>1, <1>3, <1>8, <1>9 DEF Batch, Delivered, Pushes

\* Every step keeps it.
LEMMA NextBatch == Inv /\ LocalInv /\ Table /\ Batch /\ [Next]_vars => Table' /\ Batch'
<1> SUFFICES ASSUME Inv, LocalInv, Table, Batch, [Next]_vars PROVE Table' /\ Batch'
  OBVIOUS
<1> DEFINE kept == UNCHANGED <<enc, req, chosen, wanted, clear, worker, out>> /\ (wire' = wire \/ wire' = <<>>)
<1>1. kept => Batch'
  <2> SUFFICES ASSUME kept PROVE Batch'
    OBVIOUS
  <2>1. Entries(<<>>) = {}
    BY EmptySequence DEF Entries
  <2>2. Entries(wire') \subseteq Entries(wire)
    BY <2>1
  <2> QED
    BY <2>2 DEF Batch, Delivered, Pushes
<1>2. CASE UNCHANGED vars
  BY <1>1, <1>2 DEF vars, table, request, stream, Table
<1>3. ASSUME NEW f, RunBackup(f) PROVE Batch'
  BY <1>1, <1>3 DEF RunBackup, request, stream
<1>4. ASSUME NEW b, DeleteBackup(b) PROVE Batch'
  BY <1>1, <1>4 DEF DeleteBackup, request, stream
<1>5. ASSUME RestoreBatch \/ CloseAndRecv \/ Break PROVE Batch'
  <2>1. UNCHANGED <<enc, req, chosen, wanted, clear, worker, out>>
    BY <1>5 DEF RestoreBatch, CloseAndRecv, Break, table, request
  <2>2. wire' = wire \/ wire' = <<>>
    BY <1>5 DEF RestoreBatch, CloseAndRecv, Break, stream
  <2>3. kept
    BY <2>1, <2>2
  <2> QED
    BY <1>1, <2>3
<1>6. Next => Batch'
  BY <1>3, <1>4, <1>5, AskBatch, LookUpBatch, WorkerBatch, PushBatch, PushRestoreBatch DEF Next
<1> QED
  BY <1>2, <1>6, NextTable

\* It holds always.
LEMMA BatchInvariant == Spec => [](Table /\ Batch)
<1>1. Init => Table /\ Batch
  <2> SUFFICES ASSUME Init PROVE Table /\ Batch
    OBVIOUS
  <2>1. Entries(<<>>) = {}
    BY EmptySequence DEF Entries
  <2>2. Table
    <3>1. 0 \in 0..MaxTrouble
      BY RestoreAssumption
    <3> QED
      BY <2>1, <3>1 DEF Init, Table, Data
  <2>3. Batch
    BY <2>1 DEF Init, Batch, Roots
  <2> QED
    BY <2>2, <2>3
<1> QED
  BY <1>1, NextBatch, Invariant, LocalInvariant, PTL DEF Spec

-----------------------------------------------------------------------------
(* Files that are left in part. *)

\* Each of them is a failure that is counted, by the node or by the target.
Halves ==
  /\ IsFiniteSet(HalfWritten)
  /\ at # "idle" => Cardinality(HalfWritten) <= IF req.how \in Local THEN count.failed ELSE told.failed

\* Writing to one path leaves at most one file more in part.
LEMMA HalfStep ==
  ASSUME NEW d \in Roots, NEW p \in Path, IsFiniteSet(HalfWritten),
         \A x \in Roots, y \in Path : (x = d /\ y = p) \/ out'[x][y] = out[x][y]
  PROVE  /\ IsFiniteSet(HalfWritten') /\ Cardinality(HalfWritten) \in Nat /\ Cardinality(HalfWritten') \in Nat
         /\ Cardinality(HalfWritten') <= Cardinality(HalfWritten) + 1
         /\ out'[d][p] # "partial" => Cardinality(HalfWritten') <= Cardinality(HalfWritten)
<1> DEFINE S == HalfWritten
           T == HalfWritten'
<1>1. /\ S = {x \in Roots \X Path : out[x[1]][x[2]] = "partial"}
      /\ T = {x \in Roots \X Path : out'[x[1]][x[2]] = "partial"}
  BY DEF HalfWritten, Roots
<1>2. \A x \in Roots \X Path : x = <<d, p>> \/ out'[x[1]][x[2]] = out[x[1]][x[2]]
  OBVIOUS
<1>3. T \subseteq S \cup {<<d, p>>} /\ (out'[d][p] # "partial" => T \subseteq S)
  BY <1>1, <1>2
<1>4. IsFiniteSet(S)
  OBVIOUS
<1> HIDE DEF S, T
<1>5. /\ Cardinality(S) \in Nat /\ IsFiniteSet(S \cup {<<d, p>>})
      /\ Cardinality(S \cup {<<d, p>>}) \in {Cardinality(S), Cardinality(S) + 1}
  BY <1>4, FS_CardinalityType, FS_AddElement
<1>6. /\ IsFiniteSet(T) /\ Cardinality(T) <= Cardinality(S \cup {<<d, p>>})
      /\ out'[d][p] # "partial" => Cardinality(T) <= Cardinality(S)
  BY <1>3, <1>4, <1>5, FS_Subset
<1>7. Cardinality(T) \in Nat
  BY <1>6, FS_CardinalityType
<1> QED
  BY <1>5, <1>6, <1>7 DEF S, T

\* Every step keeps it: a write that is not counted as failed is whole, or a mix.
LEMMA NextHalves == Inv /\ LocalInv /\ Batch /\ Halves /\ [Next]_vars => Halves'
<1> SUFFICES ASSUME Inv, LocalInv, Batch, Halves, [Next]_vars PROVE Halves'
  OBVIOUS
<1>1. DOMAIN out = Roots /\ \A x \in Roots : DOMAIN out[x] = Path
  BY DEF Inv, Types, LocalInv, Tasks, Roots
<1>2. count.failed \in Nat /\ told.failed \in Nat
  BY DEF Inv, Types
<1>3. at \in {"idle", "look"} => HalfWritten = {} /\ Cardinality(HalfWritten) = 0
  <2>1. at \in {"idle", "look"} => \A d \in Roots, p \in Path : out[d][p] = None
    BY DEF LocalInv, Written
  <2>2. None # "partial" => (at \in {"idle", "look"} => HalfWritten = {})
    BY <2>1 DEF HalfWritten, Roots
  <2> QED
    BY <2>2, RestoreAssumption, FS_EmptySet
<1>4. ASSUME UNCHANGED out, at \in {"idle", "look"}, UNCHANGED <<count, told>> PROVE Halves'
  <2>1. HalfWritten' = HalfWritten
    BY <1>4 DEF HalfWritten
  <2> QED
    BY <1>2, <1>3, <1>4, <2>1 DEF Halves
<1>5. ASSUME UNCHANGED <<out, req>>, at' = at \/ at \notin {"idle", "look"},
             count'.failed \in {count.failed, count.failed + 1}, UNCHANGED told
      PROVE  Halves'
  <2>1. HalfWritten' = HalfWritten
    BY <1>5 DEF HalfWritten
  <2>2. IsFiniteSet(HalfWritten) => Cardinality(HalfWritten) \in Nat
    BY FS_CardinalityType
  <2> QED
    BY <1>2, <1>5, <2>1, <2>2 DEF Halves
<1>6. CASE UNCHANGED vars
  BY <1>5, <1>6 DEF vars, request, stream
<1>7. ASSUME NEW f, RunBackup(f) PROVE Halves'
  BY <1>5, <1>7 DEF RunBackup, request, stream
<1>8. ASSUME NEW b, DeleteBackup(b) PROVE Halves'
  BY <1>5, <1>8 DEF DeleteBackup, request, stream
<1>9. ASSUME NEW q, Ask(q) PROVE Halves'
  BY <1>4, <1>9 DEF Ask, stream
<1>10. CASE LookUp
  BY <1>4, <1>10 DEF LookUp, stream
<1>11. [count EXCEPT !.failed = @ + 1].failed = count.failed + 1 /\ [count EXCEPT !.done = @ + 1].failed = count.failed
       /\ [told EXCEPT !.failed = @ + 1].failed = told.failed + 1 /\ [told EXCEPT !.done = @ + 1].failed = told.failed
  BY DEF Inv, Types
<1>12. ASSUME NEW w \in Worker, DownloadFile(w) PROVE Halves'
  BY <1>5, <1>11, <1>12 DEF DownloadFile, Failed, request, stream
<1>13. CASE RestoreBatch \/ Push \/ CloseAndRecv \/ Break
  <2>1. at \notin {"idle", "look"}
    BY <1>13 DEF RestoreBatch, Push, CloseAndRecv, Break
  <2> QED
    BY <1>5, <1>11, <1>13, <2>1 DEF RestoreBatch, Push, CloseAndRecv, Break, Done, Failed, request, stream
<1>14. ASSUME NEW w \in Worker, restoreEntry(w) PROVE Halves'
  <2> DEFINE e == worker[w].entry
             d == resolveDestination(req)
  <2>1. /\ at = "work" /\ req.how \in Local /\ e.path \in Path /\ e.hash \in Hash /\ d \in Roots
        /\ UNCHANGED <<at, req>>
    BY <1>14, WorkerWrites DEF restoreEntry, RestoreAs, request
  <2>2. CASE UNCHANGED out
    <3>1. count'.failed \in {count.failed, count.failed + 1} /\ UNCHANGED told
      BY <1>14, WorkerWrites DEF restoreEntry, RestoreAs, stream
    <3> QED
      BY <1>5, <2>1, <2>2, <3>1
  <2>3. ASSUME NEW c, NEW p \in Path, NEW y \in Roots, out' = [out EXCEPT ![y][p] = c],
               count'.failed = count.failed + 1 \/ (count'.failed = count.failed /\ c # "partial")
        PROVE  Halves'
    <3>0. /\ IsFiniteSet(HalfWritten) /\ out'[y][p] = c
          /\ \A r \in Roots, b \in Path : (r = y /\ b = p) \/ out'[r][b] = out[r][b]
      BY <1>1, <2>3 DEF Halves
    <3>1. /\ IsFiniteSet(HalfWritten') /\ Cardinality(HalfWritten) \in Nat /\ Cardinality(HalfWritten') \in Nat
          /\ Cardinality(HalfWritten') <= Cardinality(HalfWritten) + 1
          /\ c # "partial" => Cardinality(HalfWritten') <= Cardinality(HalfWritten)
      BY <3>0, HalfStep
    <3>2. Cardinality(HalfWritten) <= count.failed
      BY <2>1 DEF Halves
    <3>3. Cardinality(HalfWritten') <= count'.failed
      BY <1>2, <2>3, <3>1, <3>2
    <3> QED
      BY <2>1, <3>1, <3>3 DEF Halves
  <2>4. e.hash # "partial"
    BY <2>1, RestoreAssumption
  <2>5. CASE UNCHANGED out
    BY <2>2, <2>5
  <2>6. CASE ~UNCHANGED out
    <3>1. PICK c : /\ out' = [out EXCEPT ![d][e.path] = c]
                   /\ (count'.failed = count.failed /\ c \in {e.hash, "mixed"}) \/ count'.failed = count.failed + 1
      BY <1>14, <2>6, WorkerWrites
    <3> HIDE DEF d, e
    <3> QED
      BY <2>1, <2>3, <2>4, <3>1
  <2> QED
    BY <2>5, <2>6
<1>15. CASE PushRestore
  <2> DEFINE m == Head(wire)
             d == IF base' THEN "dest" ELSE "original"
  <2>1. at = "push" /\ req.how \notin Local /\ UNCHANGED <<at, req>> /\ d \in Roots /\ wire # <<>>
    BY <1>15 DEF PushRestore, Inv, Phases, request, Roots
  <2>2. m \in Message /\ Delivered(m.path, m.content)
    <3>1. IsSequence(wire)
      BY DEF Inv, Types
    <3>2. m \in Entries(wire)
      BY <2>1, <3>1, HeadTailEntries
    <3> QED
      BY <3>2 DEF Batch
  <2>3. m.path \in Path /\ m.content # "partial"
    <3>1. \A e \in chosen : e.hash \in Hash
      BY DEF LocalInv, Tasks, Row
    <3>2. \A e \in chosen : e.hash # "partial"
      BY <3>1, RestoreAssumption
    <3> QED
      BY <2>2, <3>2 DEF Message, Delivered
  <2>4. PICK c : /\ out' = [out EXCEPT ![d][m.path] = c]
                 /\ (told'.failed = told.failed /\ c = m.content) \/ told'.failed = told.failed + 1
    BY <1>11, <1>15 DEF PushRestore
  <2> HIDE DEF d, m
  <2>5. /\ IsFiniteSet(HalfWritten) /\ out'[d][m.path] = c
        /\ \A r \in Roots, b \in Path : (r = d /\ b = m.path) \/ out'[r][b] = out[r][b]
    BY <1>1, <2>1, <2>3, <2>4 DEF Halves
  <2>6. /\ IsFiniteSet(HalfWritten') /\ Cardinality(HalfWritten) \in Nat /\ Cardinality(HalfWritten') \in Nat
        /\ Cardinality(HalfWritten') <= Cardinality(HalfWritten) + 1
        /\ c # "partial" => Cardinality(HalfWritten') <= Cardinality(HalfWritten)
    BY <2>1, <2>3, <2>5, HalfStep
  <2>7. Cardinality(HalfWritten) <= told.failed
    BY <2>1 DEF Halves
  <2>8. Cardinality(HalfWritten') <= told'.failed
    BY <1>2, <2>3, <2>4, <2>6, <2>7
  <2> QED
    BY <2>1, <2>6, <2>8 DEF Halves
<1> QED
  BY <1>6, <1>7, <1>8, <1>9, <1>10, <1>12, <1>13, <1>14, <1>15 DEF Next

\* It holds always.
LEMMA HalvesInvariant == Spec => []Halves
<1>1. Init => Halves
  <2> SUFFICES ASSUME Init PROVE Halves
    OBVIOUS
  <2>1. HalfWritten = {}
    BY RestoreAssumption DEF Init, HalfWritten
  <2> QED
    BY <2>1, FS_EmptySet DEF Init, Halves
<1> QED
  BY <1>1, NextHalves, Invariant, LocalInvariant, BatchInvariant, PTL DEF Spec

\* A local restore writes to the path of a selected entry what was backed up, whatever
\* key it is decrypted with and whatever backups and deletions go on; or it counts the
\* file as failed, or had two contents for the path and wrote both at once.
THEOREM RestoresOnlyBackedUp == Spec => []WritesOnlyBackedUp
<1>1. LocalInv /\ Halves => WritesOnlyBackedUp
  BY DEF LocalInv, Written, Explained, Halves, WritesOnlyBackedUp, Roots
<1> QED
  BY <1>1, LocalInvariant, HalvesInvariant, PTL

\* A local restore that reports no failure has restored every file it was asked for,
\* with the content that is wanted, where a search leads there; of a whole backup, every
\* file that the look-ups did not leave out or take for another.
THEOREM ReportsRestored == Spec => []ReportedIsRestored
<1>1. Inv /\ LocalInv /\ Halves => ReportedIsRestored
  <2> SUFFICES ASSUME Inv, LocalInv, Halves, at = "done", req.how \in Local, count.failed = 0, clear,
                      NEW x \in wanted, x[1] \notin astray
               PROVE  out[resolveDestination(req)][x[1]] = x[2]
    BY DEF ReportedIsRestored
  <2> DEFINE d == resolveDestination(req)
  <2>1. left = <<>> /\ Entries(left) = {} /\ todo = <<>> /\ Entries(todo) = {}
    BY EmptySequence DEF LocalInv, Tasks, Entries
  <2>2. PICK e \in chosen : e.path = x[1]
    BY <2>1 DEF LocalInv, Asked
  <2>3. /\ e.path \in Path /\ d \in Roots
    <3>1. \A r \in Row : r.path \in Path
      BY DEF Row
    <3> QED
      BY <3>1 DEF LocalInv, Tasks, resolveDestination, Roots
  <2>4. \A w \in Worker : worker[w].at # "got"
    BY DEF Inv, Phases
  <2>5. out[d][e.path] # None
    BY <2>1, <2>4 DEF LocalInv, Underway
  <2>6. out[d][e.path] # "partial"
    <3>1. IsFiniteSet(HalfWritten) /\ Cardinality(HalfWritten) <= 0
      BY DEF Halves
    <3>2. HalfWritten = {}
      BY <3>1, FS_CardinalityType, FS_EmptySet
    <3>3. <<d, e.path>> \in Roots \X Path
      BY <2>3
    <3> HIDE DEF d
    <3> QED
      BY <3>2, <3>3 DEF HalfWritten, Roots
  <2>7. PICK f, g \in chosen :
          /\ f.path = e.path /\ g.path = e.path
          /\ out[d][e.path] \in {f.hash, "partial"} \cup {y \in {"mixed"} : f.hash # g.hash}
    BY <2>3, <2>5 DEF LocalInv, Written, Explained
  <2>8. f.hash = x[2] /\ g.hash = x[2]
    BY <2>2, <2>7 DEF LocalInv, Asked
  <2> QED
    BY <2>2, <2>6, <2>7, <2>8
<1> QED
  BY <1>1, Invariant, LocalInvariant, HalvesInvariant, PTL

\* What a push writes at a path of its target is the content of a selected entry for
\* that path, whatever was deleted meanwhile and wherever the stream broke; or the
\* ciphertext of an entry that has no key of its own, since pushes neither look for
\* another row's key nor verify the hash; or a part that the target counts as failed.
THEOREM PushesWriteSelected == Spec => []PushesWhatWasSelected
<1>1. Batch /\ Halves => PushesWhatWasSelected
  BY DEF Batch, Halves, PushesWhatWasSelected, Pushed, Local
<1> QED
  BY <1>1, BatchInvariant, HalvesInvariant, PTL

\* Table, store, workers, stream and what is written keep their types.  That takes
\* Table's last conjunct: in a plain repository no row and no blob has a key.
THEOREM RestoreTypes == Spec => []TypeOK
<1>1. Inv /\ LocalInv /\ Table /\ Batch => TypeOK
  <2> SUFFICES ASSUME Inv, LocalInv, Table, Batch PROVE TypeOK
    OBVIOUS
  <2>1. rows \in Seq(Row)
    BY SequenceOf DEF LocalInv, Rows
  <2>2. wire \in Seq(Message)
    BY SequenceOf DEF Inv, Types, Batch
  <2>3. \A w \in Worker : worker[w] = IdleWorker \/ (worker[w].entry \in chosen /\ worker[w].data \in Key)
    BY DEF Batch
  <2>4. left \in Seq(Row)
    BY SequenceOf DEF LocalInv, Tasks
  <2> QED
    BY <2>1, <2>2, <2>3, <2>4 DEF TypeOK, Inv, Types, LocalInv, Tasks, Table, Batch, Message, Roots
<1> QED
  BY <1>1, Invariant, LocalInvariant, BatchInvariant, PTL

=============================================================================
