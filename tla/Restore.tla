------------------------------ MODULE Restore ------------------------------
(***************************************************************************)
(* Restoring files: what a request selects from the table of entries, the  *)
(* workers that fetch, decrypt, verify and write them, and the stream on   *)
(* which the server or a command line pushes them to another client.       *)
(*                                                                         *)
(* Backups and deletions go on meanwhile, on the same table and store.  A  *)
(* hash stands for its content.  With encryption every backup has a data   *)
(* key of its own, named after it; the entry of a content that was stored  *)
(* already carries none, and 0 is no key.  Who may use which key, and what *)
(* replaces a blob, are module BackupStore's.  Of a file whose writing     *)
(* fails, what was there before or part of the new content is left.        *)
(***************************************************************************)
EXTENDS Naturals, Sequences, FiniteSets

CONSTANTS
  Path, Hash, Worker,
  MaxBackups,  \* bound on backups made
  MaxTrouble,  \* bound on deletions, failing look-ups and writes, and broken streams
  None

ASSUME RestoreAssumption ==
  /\ MaxBackups \in Nat /\ MaxTrouble \in Nat /\ IsFiniteSet(Path)
  /\ {"cipher", "partial", "mixed"} \cap (Hash \cup {None}) = {} /\ None \notin Hash

Backup == 1..MaxBackups
Key == 0..MaxBackups
Row == [path : Path, hash : Hash, key : Key, backup : Backup]

\* Ways to ask: on the command line and in the web UI for the node's own files; in
\* the web UI for a client's files, to the server's disk or pushed to a client;
\* pushed by the command line; pushed by the server for an admin client.
Local == {"cli", "web", "remote"}
Pushed == {"webPush", "cliPush", "cross"}

VARIABLES
  enc,       \* encryption is on
  rows,      \* the table, in the order of its row ids
  blob,      \* the key each content is stored with: 0 in the clear, None if not at all
  made,      \* backups so far
  req,       \* the request, or None
  at,        \* how far it is
  left,      \* rows of the backup that are still to be looked up
  todo,      \* entries not yet taken up
  chosen,    \* all that were selected
  wanted,    \* the files and contents the request is for
  clear,     \* whether the way they are searched for leads to exactly these
  astray,    \* paths that a look-up skipped without a word, or took for each other
  worker,    \* what each worker is at
  count,     \* files restored, or sent, and failed, as the requester counts them
  wire,      \* what is under way to the target
  base,      \* the target knows the destination
  told,      \* files received and failed, as the target counts them
  out,       \* what was written, under the destination and at the original paths
  skipped,   \* the first selected entry could not be sent
  trouble

table == <<enc, rows, blob, made>>
request == <<req, left, chosen, wanted, clear, astray>>
stream == <<wire, base, told, skipped>>
vars == <<table, request, at, todo, worker, count, stream, out, trouble>>

\* What a file may come to hold: ciphertext, a part of what was to be written, or two
\* contents written at once.
Content == Hash \cup {"cipher", "partial", "mixed"}
Data == {None} \cup Key
Entries(s) == {s[i] : i \in DOMAIN s}

\* The i-th of the positions P, and what s has at these, in order: SelectSeq by position.
Nth(P, i) == CHOOSE n \in P : Cardinality({m \in P : m <= n}) = i
Pick(s, P) == [i \in 1..Cardinality(P) |-> s[Nth(P, i)]]

IdleWorker == [at |-> "idle", entry |-> None, data |-> None]

TypeOK ==
  /\ enc \in BOOLEAN /\ rows \in Seq(Row) /\ blob \in [Hash -> Data]
  /\ (~enc => \A r \in Entries(rows) : r.key = 0)
  /\ at \in {"idle", "look", "work", "push", "done", "broken"}
  /\ made \in {0} \cup Backup /\ chosen \in SUBSET Row /\ Entries(todo) \subseteq chosen
  /\ left \in Seq(Row) /\ astray \in SUBSET Path
  /\ wanted \in SUBSET (Path \X Hash) /\ clear \in BOOLEAN
  /\ \A w \in Worker : worker[w] = IdleWorker \/ (worker[w].entry \in chosen /\ worker[w].data \in Key)
  /\ count \in [done : Nat, failed : Nat] /\ told \in [done : Nat, failed : Nat]
  /\ wire \in Seq([path : Path, content : Content, os : BOOLEAN])
  /\ base \in BOOLEAN /\ skipped \in BOOLEAN /\ trouble \in 0..MaxTrouble
  /\ out \in [{"dest", "original"} -> [Path -> Content \cup {None}]]

Init ==
  /\ enc \in BOOLEAN /\ rows = <<>> /\ blob = [h \in Hash |-> None] /\ made = 0
  /\ req = None /\ at = "idle" /\ todo = <<>> /\ chosen = {} /\ wanted = {} /\ clear = TRUE
  /\ left = <<>> /\ astray = {}
  /\ worker = [w \in Worker |-> IdleWorker]
  /\ count = [done |-> 0, failed |-> 0] /\ told = [done |-> 0, failed |-> 0]
  /\ wire = <<>> /\ base = FALSE /\ skipped = FALSE
  /\ out = [d \in {"dest", "original"} |-> [p \in Path |-> None]]
  /\ trouble = 0

Trouble == trouble < MaxTrouble /\ trouble' = trouble + 1

-----------------------------------------------------------------------------
(* Backups and deletions. *)

Orders(P) == {s \in [1..Cardinality(P) -> P] : Entries(s) = P}

\* A backup of files with the contents f, entered in some order: what is not stored
\* is, under the backup's key, which all its entries for that content carry.
RunBackup(f) ==
  LET new == {f[p] : p \in DOMAIN f} \cap {h \in Hash : blob[h] = None}
      key == IF enc THEN made + 1 ELSE 0
      Entry(p) == [path |-> p, hash |-> f[p], backup |-> made + 1,
                   key |-> IF f[p] \in new THEN key ELSE 0]
  IN  /\ made < MaxBackups
      /\ made' = made + 1
      /\ \E order \in Orders(DOMAIN f) :
           rows' = rows \o [i \in DOMAIN order |-> Entry(order[i])]
      /\ blob' = [h \in Hash |-> IF h \in new THEN key ELSE blob[h]]
      /\ UNCHANGED <<enc, request, at, todo, worker, count, stream, out, trouble>>

\* A backup is deleted, and with it the contents nobody else has.
DeleteBackup(b) ==
  /\ Trouble /\ \E r \in Entries(rows) : r.backup = b
  /\ rows' = Pick(rows, {i \in DOMAIN rows : rows[i].backup # b})
  /\ blob' = [h \in Hash |-> IF \E r \in Entries(rows') : r.hash = h THEN blob[h] ELSE None]
  /\ UNCHANGED <<enc, made, request, at, todo, worker, count, stream, out>>

-----------------------------------------------------------------------------
(* What a request selects. *)

RowsOf(b) == Pick(rows, {i \in DOMAIN rows : rows[i].backup = b})

\* FindByHash(hash)[0]
FirstRow(h) == rows[Nth({i \in DOMAIN rows : rows[i].hash = h}, 1)]

Search(P) == Pick(rows, {i \in DOMAIN rows : rows[i].path \in P})

\* The entries of s without those whose content was seen before.
ByContent(s) == Pick(s, {i \in DOMAIN s : \A j \in 1..(i - 1) : s[j].hash # s[i].hash})

Later(R) == CHOOSE r \in R : \A x \in R : x.backup <= r.backup

\* mutant: the first version that is found
FirstFound(p) ==
  LET all == {r \in Entries(rows) : r.path = p}
  IN  CHOOSE r \in all : \A x \in all : r.backup <= x.backup

\* Of the versions of a path the command line takes one with a key, and of several
\* the latest.
Preferred(p) ==
  LET all == {r \in Entries(rows) : r.path = p}
      keyed == {r \in all : r.key # 0}
  IN  IF keyed # {} THEN Later(keyed) ELSE Later(all)

runRestore(q) ==
  CASE q.what = "queryIn" -> LET found == Search(q.paths)
                            IN  {Pick(found, {i \in DOMAIN found : found[i].backup = q.backup})}
    [] OTHER -> Orders({Preferred(p) : p \in {r.path : r \in Entries(Search(q.paths))}})

\* One file: its content at the path that was clicked, whatever row has the key.
AsAsked(q) == <<[path |-> q.path, hash |-> q.hash, key |-> 0, backup |-> q.backup]>>

runWebRestore(q) == AsAsked(q)

runRemoteRestore(q) ==
  IF q.what = "file" THEN AsAsked(q) ELSE ByContent(Search(q.paths))

runRemoteRestorePush(q) ==
  IF q.what = "file" THEN <<FirstRow(q.hash)>> ELSE ByContent(Search(q.paths))

collectEntries(q) == ByContent(Search(q.paths))

\* What is selected at once: by a query, or of one file.
Selected(q) ==
  CASE q.how \in {"cli", "cliPush"} -> runRestore(q)
    [] q.how = "web" -> {runWebRestore(q)}
    [] q.how = "remote" -> {runRemoteRestore(q)}
    [] q.how = "webPush" -> {runRemoteRestorePush(q)}
    [] q.how = "cross" -> {collectEntries(q)}

What(how) ==
  CASE how \in {"cli", "cliPush"} -> {"backup", "query", "queryIn"}
    [] how = "web" -> {"backup", "file"}
    [] how \in {"remote", "webPush"} -> {"backup", "query", "file"}
    [] how = "cross" -> {"backup", "query"}

\* Requests about row r, which stands for its backup, its path or itself, or about
\* all paths.
Requests(r) ==
  UNION {[how : {h}, what : What(h), backup : {r.backup}, path : {r.path}, hash : {r.hash},
          paths : {{r.path}, Path}, dest : {TRUE} \cup {h # "cli" /\ h # "cliPush"}]
         : h \in Local \cup Pushed}

\* What it is for, whatever will be selected.
Wanted(q) ==
  LET all == Entries(Search(q.paths))
      Pair(r) == <<r.path, r.hash>>
  IN  CASE q.what = "backup" -> {Pair(r) : r \in Entries(RowsOf(q.backup))}
        [] q.what = "queryIn" -> {Pair(r) : r \in {x \in all : x.backup = q.backup}}
        [] q.what = "query" -> {Pair(Later({x \in all : x.path = r.path})) : r \in all}
        [] OTHER -> {<<q.path, q.hash>>}

\* The search leads there: if no content has two paths and no path two contents where
\* each is taken once, and no version is without a key beside one that has one.
Clear(q) ==
  LET all == Entries(Search(q.paths))
      Same(x, y) == x.path = y.path /\ x.hash = y.hash
  IN  CASE q.what = "query" /\ q.how = "remote" ->
             \A r, x \in all : x.hash = r.hash \/ x.path = r.path => Same(r, x)
        [] q.what = "query" /\ q.how # "remote" ->
             \A r, x \in all : x.path = r.path => (x.key = 0 <=> r.key = 0)
        [] OTHER -> TRUE

Start(how) == IF how \in Local THEN "work" ELSE "push"

\* Of a whole backup the rows are read, to be looked up one by one.
Ask(q) ==
  /\ at = "idle"
  /\ req' = q /\ wanted' = Wanted(q) /\ clear' = Clear(q)
  /\ \/ /\ q.what = "backup" /\ at' = "look" /\ left' = RowsOf(q.backup)
        /\ UNCHANGED <<todo, chosen>>
     \/ /\ q.what # "backup" /\ at' = Start(q.how) /\ UNCHANGED left
        /\ todo' \in Selected(q) /\ chosen' = Entries(todo')
  /\ UNCHANGED <<table, astray, worker, count, stream, out, trouble>>

\* The next row is looked up by its content, which leads to the first row that has it
\* by now; a look-up that finds none or fails leaves the file out.  The push by the
\* server takes each content once.
LookUp ==
  /\ at = "look"
  /\ left' = Tail(left) /\ at' = IF left' = <<>> THEN Start(req.how) ELSE "look"
  /\ LET row == Head(left)
         hit == FirstRow(row.hash)
         found == \E r \in Entries(rows) : r.hash = row.hash
         seen == req.how = "cross" /\ \E e \in chosen : e.hash = row.hash
     IN  \/ /\ found /\ UNCHANGED trouble
            /\ todo' = IF seen THEN todo ELSE Append(todo, hit)
            /\ chosen' = IF seen THEN chosen ELSE chosen \cup {hit}
            /\ astray' = IF hit.path = row.path THEN astray ELSE astray \cup {row.path, hit.path}
         \/ /\ IF found THEN Trouble ELSE UNCHANGED trouble
            /\ astray' = astray \cup {row.path} /\ UNCHANGED <<todo, chosen>>
  /\ UNCHANGED <<table, req, wanted, clear, worker, count, stream, out>>

-----------------------------------------------------------------------------
(* RestoreEngine. *)

resolveDestination(q) == IF q.dest THEN "dest" ELSE "original"

Done == count' = [count EXCEPT !.done = @ + 1]
Failed == count' = [count EXCEPT !.failed = @ + 1]

\* A worker takes an entry and downloads its content.
DownloadFile(w) ==
  /\ at = "work" /\ worker[w].at = "idle" /\ todo # <<>>
  /\ todo' = Tail(todo)
  /\ IF blob[Head(todo).hash] = None
     THEN Failed /\ UNCHANGED worker
     ELSE /\ worker' = [worker EXCEPT ![w] = [at |-> "got", entry |-> Head(todo),
                                             data |-> blob[Head(todo).hash]]]
          /\ UNCHANGED count
  /\ UNCHANGED <<table, request, at, stream, out, trouble>>

\* The key of the entry, or of the first row of its content that has one by now.
KeyFor(e) ==
  LET keyed == {i \in DOMAIN rows : rows[i].hash = e.hash /\ rows[i].key # 0}
  IN  IF e.key # 0 \/ ~enc \/ keyed = {} THEN e.key ELSE rows[Nth(keyed, 1)].key

\* Decrypt: a wrong key is noticed; without a key the data is taken as it is.
Decrypted(h, data, key) ==
  CASE key = 0 -> {IF data = 0 THEN h ELSE "cipher"}
    [] key # 0 /\ key = data -> {h}
    [] OTHER -> {}

\* os.WriteFile truncates first: another worker that is at the same path, with other
\* content, may write meanwhile, or have written.
Overlaps(w) ==
  /\ out[resolveDestination(req)][worker[w].entry.path] = "mixed"
     \/ \E v \in Worker \ {w} : /\ worker[v].at = "got"
                                /\ worker[v].entry.path = worker[w].entry.path
                                /\ worker[v].entry.hash # worker[w].entry.hash

WriteFile(e, c) == out' = [out EXCEPT ![resolveDestination(req)][e.path] = c]

\* Of a failing write, what was there before or a part is left.
AfterFailure(d, p) == {out[d][p], "partial"}

\* Decrypted, written and counted.
RestoreAs(w, content) ==
  LET e == worker[w].entry
  IN  /\ worker[w].at = "got"
      /\ worker' = [worker EXCEPT ![w] = IdleWorker]
      /\ \/ /\ content # {} /\ Done
            /\ \E c \in content \cup {x \in {"mixed"} : Overlaps(w)} : WriteFile(e, c)
            /\ UNCHANGED trouble
         \/ content = {} /\ Failed /\ UNCHANGED <<out, trouble>>
         \/ /\ content # {} /\ Trouble /\ Failed
            /\ \E c \in AfterFailure(resolveDestination(req), e.path) : WriteFile(e, c)
      /\ UNCHANGED <<table, request, at, todo, stream>>

\* mutant: what was decrypted is not hashed
RestoreUnverified(w) ==
  LET e == worker[w].entry
  IN  RestoreAs(w, Decrypted(e.hash, worker[w].data, KeyFor(e)))

\* restoreEntry and RestoreFile: decrypt, verify the hash, write, count.
restoreEntry(w) ==
  LET e == worker[w].entry
  IN  RestoreAs(w, Decrypted(e.hash, worker[w].data, KeyFor(e)) \ {"cipher"})

\* RestoreBatch returns when all workers have.
RestoreBatch ==
  /\ at = "work" /\ todo = <<>> /\ \A w \in Worker : worker[w].at = "idle"
  /\ at' = "done"
  /\ UNCHANGED <<table, request, todo, worker, count, stream, out, trouble>>

-----------------------------------------------------------------------------
(* Pushing: neither the key of another row nor the hash is looked at, and the     *)
(* first header names the destination.                                            *)

\* mutant: the server names it with the first entry, sent or not
FirstTried == count.done = 0 /\ count.failed = 0

FirstSent == count.done = 0

\* The command line names it with the entry at index 0, the server's two pushes with
\* the first file they send.
NamesBase(how) == IF how = "cliPush" THEN count.done + count.failed = 0 ELSE FirstSent

\* What can be sent of an entry.
loadDecrypted(e) ==
  IF blob[e.hash] = None THEN {} ELSE Decrypted(e.hash, blob[e.hash], e.key)

Push ==
  /\ at = "push" /\ todo # <<>>
  /\ todo' = Tail(todo)
  /\ LET e == Head(todo)
         content == loadDecrypted(e)
     IN  IF content = {}
         THEN /\ Failed
              /\ skipped' = (skipped \/ (count.done + count.failed = 0))
              /\ UNCHANGED wire
         ELSE /\ Done
              /\ \E c \in content :
                   wire' = Append(wire, [path |-> e.path, content |-> c,
                                         os |-> req.dest /\ NamesBase(req.how)])
              /\ UNCHANGED skipped
  /\ UNCHANGED <<table, request, at, worker, base, told, out, trouble>>

\* The target writes a file when its trailer has come; PushRestore of its daemon.
PushRestore ==
  /\ wire # <<>>
  /\ wire' = Tail(wire)
  /\ base' = (base \/ Head(wire).os)
  /\ LET d == IF base' THEN "dest" ELSE "original"
         p == Head(wire).path
     IN  \/ /\ out' = [out EXCEPT ![d][p] = Head(wire).content]
            /\ told' = [told EXCEPT !.done = @ + 1]
            /\ UNCHANGED trouble
         \/ /\ Trouble
            /\ told' = [told EXCEPT !.failed = @ + 1]
            /\ \E c \in AfterFailure(d, p) : out' = [out EXCEPT ![d][p] = c]
  /\ UNCHANGED <<table, request, at, todo, worker, count, skipped>>

\* mutant: the requester does not wait for the target's report
CloseSend ==
  /\ at = "push" /\ todo = <<>>
  /\ at' = "done"
  /\ UNCHANGED <<table, request, todo, worker, count, stream, out, trouble>>

CloseAndRecv ==
  /\ at = "push" /\ todo = <<>> /\ wire = <<>>
  /\ at' = "done"
  /\ UNCHANGED <<table, request, todo, worker, count, stream, out, trouble>>

\* The stream breaks: the requester is told so, the target keeps what it has.
Break ==
  /\ at = "push" /\ Trouble
  /\ at' = "broken" /\ wire' = <<>> /\ todo' = <<>>
  /\ UNCHANGED <<table, request, worker, count, base, told, skipped, out>>

Next ==
  \/ \E f \in UNION {[P -> Hash] : P \in SUBSET Path \ {{}}} : RunBackup(f)
  \/ \E b \in Backup : DeleteBackup(b)
  \/ \E r \in Entries(rows) : \E q \in Requests(r) : Ask(q)
  \/ LookUp
  \/ \E w \in Worker : DownloadFile(w) \/ restoreEntry(w)
  \/ RestoreBatch \/ Push \/ PushRestore \/ CloseAndRecv \/ Break

Spec == Init /\ [][Next]_vars

-----------------------------------------------------------------------------
(* Properties. *)

HalfWritten == {x \in {"dest", "original"} \X Path : out[x[1]][x[2]] = "partial"}

\* A local restore writes what was backed up: to the path of an entry that was selected
\* its content, whatever key it was decrypted with and whatever happened to table and
\* store since; not more files are left in part than failures are reported, and two
\* contents are mixed only where two were selected for one path.
WritesOnlyBackedUp ==
  at \in {"work", "done"} /\ req.how \in Local =>
    /\ \A d \in {"dest", "original"}, p \in Path :
         out[d][p] # None =>
           \E e, f \in chosen :
             /\ e.path = p /\ f.path = p
             /\ out[d][p] \in {e.hash, "partial"} \cup {x \in {"mixed"} : e.hash # f.hash}
    /\ Cardinality(HalfWritten) <= count.failed

\* A restore that reports no failure has restored what it was asked for, where the
\* search leads there at all; of a whole backup, all but the files that a look-up left
\* out without a word, or whose path it took for another's.
ReportedIsRestored ==
  at = "done" /\ req.how \in Local /\ count.failed = 0 /\ clear =>
    \A x \in wanted : x[1] \in astray \/ out[resolveDestination(req)][x[1]] = x[2]

\* Every selected file is in the requester's report: the target has written it or
\* failed to, or it was not sent.
PushAccounted ==
  at = "done" /\ req.how \in Pushed => count.done = told.done + told.failed

\* Nothing that is pushed with a destination is written elsewhere, unless the first
\* file of a push by the command line could not be sent.
PushedUnderDest ==
  at # "idle" /\ req.how \in Pushed /\ req.dest /\ ~(req.how = "cliPush" /\ skipped) =>
    \A p \in Path : out["original"][p] = None
=============================================================================
