# Verification of tergum

tergum is a backup system: clients scan, encrypt and upload files to a server
that keeps every content once, in a store addressed by BLAKE3 hash, and keeps
the list of what was backed up in SQLite tables.  This directory holds TLA+
modules of its core, the TLC configurations that check them on small instances,
and TLAPS proofs for all instances.  Paths below are relative to `src/`.

- [The system](#the-system)
- [Modules](#modules)
- [Runs](#runs)
- [What does not hold](#what-does-not-hold)
- [Proofs](#proofs)
- [What is not modelled, and the plan](#what-is-not-modelled-and-the-plan)

## The system

A *server* daemon holds the blob store, its own database and, for every client,
a copy of the client's database.  A *client* daemon has a database of its own
and no store.  A server may also back up its own files (a *hybrid* node).
Commands such as `tergum delete`, `tergum retention run`, `tergum backup` and
`tergum cleanup` open the same database from a process of their own, beside the
daemon, with no lock between them but SQLite's.

| Component | State | Operations | Talks to | What is hard | What makes it correct |
|---|---|---|---|---|---|
| Backup engine (`internal/backup`) | stop flag, manifest, needed hashes, key noted for each hash, one `backup_jobs` row | `RunBackup`, `Stop` | manifest exchange and upload (direct calls or gRPC), own database | skipped and failed files, stop or death at any point, what the exchange found may be gone later | a completed backup can be restored; its verdict stands |
| Upload handler (`internal/grpc/data_server.go`) | one stream, one temporary file | `Upload`, `ExchangeManifest`, `Download`, `SyncDatabase`, `DownloadDatabase` | store, write queue | blob stored and row not, client gone while the handler works | a row has its blob; a blob has a row |
| Blob store (`internal/storage/cas.go`) | files in a directory per hash prefix | `Put`, `Get`, `Exists`, `Delete`, `RefCount` | file system, repository | system calls of several calls interleave; crash in a `Put` | atomic put and delete, readers see whole blobs |
| Repository (`internal/db/repository.go`) | tables `backups`, `backup_jobs`, `retention_policies`, ... | single statements | - | the callers' sequences of statements are not transactions | - |
| Write queue (`internal/db/writequeue.go`) | a channel, one goroutine | `Submit`, `Close` | upload handlers, `Server.Stop` | callers that give up, shutdown | serial, answered, drained before the database is closed |
| Retention engine (`internal/retention`) | none of its own | `Evaluate`, hourly or on demand | repository, store | policies, versions and another evaluation change under it | the latest version stays, only expired ones go, they do go |
| Deletion engine (`internal/deletion`) | none | `DeleteByBackupID`, `...Folder`, `...File`, `DeleteAll` | repository, store | query, delete, count and reclaim are separate steps | what is kept stays restorable, blobs are not lost track of |
| Stale-job recovery (`server.go`, `cmd/cleanup.go`) | - | `FailStaleJobs` | repository | another process may still run the job | no verdict is rewritten, but that of a run that was failed while it was alive |
| Restore (`internal/restore`, `cmd/restore.go`, `webui/api.go`) | the batch: workers, counts | `RestoreFile`, `RestoreBatch`, selection by backup, by query, by file | store, repository | keys of deduplicated files; rows and blobs go while a batch runs | what is written was backed up; what is reported was restored |
| Pushed restores (`restore/cross_restore.go`, `webui/remote_connector.go`, `client_command_server.go`) | one stream: what was sent, what the target has | `RestoreToTarget`, `PushRestoreToClient`, `PushRestore` | store, repository, target's disk | two ends count; only the first header names the destination | every file in somebody's report, none outside the destination |
| Encryption (`internal/crypto`) | master key | `Encrypt`, `Decrypt` | - | a fresh key for each call | - |
| Command tunnel (`tunnel_hub.go`, `tunnel_client.go`) | a tunnel per client, pending requests | register, send, deliver, unregister | registry, schedulers, web UI | reconnection, late answers, timeouts | an answer reaches its request and no other |
| Registry (`internal/registry`, `grpc/heartbeat.go`) | a record per client: status, last heartbeat, watcher and backup flags, disabled, owner, address; the same in a table | `RegisterWithIdentity`, `RebindClient`, `Ping` (heartbeat and flags), `SetDisabled`, offline check, refresh of the flags | its table, tunnel, web UI, command line | several writers, some with a registry of their own; one connection and one lock | the record comes to show what is the case; a live machine keeps its id |
| Schedulers (`internal/scheduler/scheduler.go`) | cron entries | fire, reconnect | nothing: see the last section | - | - |
| Watcher and ongoing backup (`internal/watcher`, `scheduler/ongoing.go`, `webui/watcher_controller.go`) | timers, gate, channel, batch; controller's flag and context | events, debounce, stability, batch, start, stop | file system, server, repository | callbacks after stop, full channel, cancelled batch, slow starts | a file that stays as it is is backed up; what was received is flushed |
| Client daemon and command server (`client_command_server.go`, `startClient`) | current engine, watcher, ongoing backup, cancel function; `watcher.enabled` | trigger, stop, start and stop watcher, pushed restore; boot, shutdown | engine, watcher, configuration file | requests race with each other, with boot, and are repeated | the last word holds; one backup per trigger |
| Configuration (`internal/config`, `cmd/*.go`, `webui/*_settings.go`, `webui/paths.go`) | the file; the daemon's copy; the table of paths | load, change, truncate and write; copy the table | admin policy, web UI, daemon | several processes, no lock | what was reported of a setting lasts; file and table agree |
| Admin policy (`grpc/admin_policy.go`) | the list of admins | `Reload` by ticker and requests, `IsAdmin` | configuration file | reads and stores apart | a revoked client is refused |
| Database sync, migration, identity and TLS, service installation, pages of the web UI, metrics | | | | | see the last section |

The hazards this gives rise to are listed, each at its line, in `PROJECT.json`.

## Modules

### BackupStore: the storage core

One module composes the parts that meet on a content hash: `RunBackup`, the far
end of `UploadFile`, the tables of all nodes, the store, and the purgers.

| Variable | Code |
|---|---|
| `blob` | the store: which data key the ciphertext of a hash was made with |
| `rows` | `backups` of every node; a row has run (backup_id), path, hash, key (encrypted_dek) |
| `job` | `backup_jobs.status` of each run |
| `pc`, `stop`, `man`, `left`, `cur`, `meta` | `RunBackup`: where it is, the stop flag, the manifest, what its loop has left, the upload in progress, `hashEncryption` |
| `hand` | the upload handler of each (run, path) |
| `purge` | each retention or deletion process: filter, hashes still to be looked at, the one counted as unreferenced |
| `fault` | history only; see below |

A *run* is one call of `RunBackup`.  Runs of the node `Server` use
`LocalServerConnection` and the server's database; runs of other nodes use
`RemoteServerConnection`, have their own database, and the server writes a
further row for every file it receives.  Actions carry the names of the
functions they translate.  One action is one statement or one system-visible
step, with everything the code does around it: `UploadReturns`, for instance, is
also the `continue` after an error, `FinishJob` also the case that the row of the
job has gone or that the update fails (its error is ignored).  The exchange may
ask for a position although the store has its hash: the look-up may fail, or the
blob have come between two look-ups.

The order in which a loop takes its elements is left open.  So is everything
about paths, wording and sizes.  Encryption is on; a data key is named after the
run and position it was generated for, and a ciphertext is readable only with
its key at the node that can unwrap it.

**The history variable.**  The design has windows in which things go wrong, and
the properties would be false without saying so.  `fault[h]` records, per hash,
which window was hit:

- `raced`: a purger had counted zero references and then somebody wrote a row,
  or somebody was about to write one when the blob was deleted;
- `upload`: a file of the hash was not read, encrypted or received, or had
  changed since it was hashed (`RunBackup` goes on and completes);
- `severed`: an entry lost its blob or its key: the blob was replaced under
  another run's key, was deleted while only a remote client relied on it, was
  offered to a node without a key for it, or the only row with the key was
  purged;
- `leaked`: a failure left a blob without a row and forgot to reclaim it.

No action reads `fault`, so it changes nothing the system does; its values are
marked by the step that opens the window, never by the state that results.  What
the invariants then say is that these are *all* the ways; which of them matter
to a user is under [What does not hold](#what-does-not-hold).

### CAS and BlobStore

`CAS` is `cas.go` with every system call a step: `MkdirAll`, `CreateTemp`, the
copy in chunks, `Rename`, and in `Delete` the two removals.  A blob is an inode,
so that a reader goes on reading what it has opened.  `Restart` kills every call
under way and leaves the temporary files.  The deferred removal of a `Put` that
failed may fail too, and its error is ignored: such a `Put` is `littered`.
`BlobStore` is what callers rely on, an atomic map; `CAS` implements it under
the mapping in `Store`, where the rename is the moment a put takes effect and a
torn read would be a value no blob has.

### Retention

Which versions of a path go.  `Expired` is the pure part of `Evaluate`, with
`findMatchingPolicy` and `shouldExpire`; the actions are the statements an
evaluation makes, interleaved with new versions, the passing of days, changes of
policy and a second evaluation.  Dates are days.  The server's rows for uploads
have no date (`storeFileFromReader` sets none), which is day 0.  Rows of equal
date come in the order of their row ids: the query orders by `backup_date` alone
and is served by the index on `file_path`, whose entries are in rowid order.
This is the query plan SQLite uses, not a promise of SQL.
What the deletion of a row entails for the blob is the business of `BackupStore`
(`BeginEvaluate` there takes any nonempty set of versions of a path, so the
behaviours of `Retention` are among those `BackupStore` allows).

### WriteQueue and SerialWriter

`WriteQueue` is the goroutine `loop`, the two selects of `Submit`, `Close`, and
the order of `Server.Stop` around it.  A request whose caller gave up stays in
the queue.  `SerialWriter` is what it promises; the mapping needs no history.

### TunnelHub

The tunnel of one client: the hub keys everything by client id and nothing
relates two ids.  `opened`, `client`, `cut`, `up` and `down` are the client's
sessions and their streams; `handler` and `hand` are `CommandTunnel` and the
answer it is delivering; `hub`, `seq`, `pending` are the hub's map and the
`clientTunnel` of each session; `call`, `tun`, `id`, `box`, `closed` and
`answer` are `SendCommand` with its channel.  Each critical section of a lock is
one action, so that what is looked up under the lock and used after it may have
changed in between.  A broken stream is noticed by the client and by the server
each in its own time; the server sets no keepalive for it, so its handler may
outlive the client's next session.  Messages already under way to the server may
still be read.  An answer carries, besides its request id, which tunnel and call
it really belongs to; only the property looks at that.  `foreign` is history:
some handler delivered to or unregistered a tunnel that was not its own, or a
forced rebind did.

`stream.Send` is atomic here.  Several `SendCommand` calls may be in it at once,
which gRPC does not allow on one stream; the model takes it that the messages
come out one after the other, in any order.

`OwnAnswer` is about answers that come over the tunnel the command was sent on.
It does not hold for others: request ids start again at 1 in every tunnel, and
the hub looks the tunnel of an answer up by client id, so an answer that a
broken session still delivers can be taken for one to a command of the next.
`PanicNeedsForeign` has the same shape: a send on a closed channel, which would
end the server, does happen in the model, by a handler that found a channel
which somebody else's `Unregister` closed before it was used.

### Control

What the server knows of one client id.  Records of two ids share nothing but
the registry's lock and its connection, so there is one record and two machines
that may use its id.

| Variable | Code |
|---|---|
| `reg`, `row` | the client's `ClientInfo` in memory and its row in `client_registry`; `fresh` is `time.Since(LastHeartbeat)` below the threshold |
| `checker`, `flag`, `stuck` | the goroutine of `Registry.Start`: past the query of `refreshDisabledFlags` it has the only connection and needs the lock |
| `tool` | a command line on the server's host: `registry.New` reads the row and writes it back |
| `ping`, `load`, `joined` | each heartbeat loop and the handler of its `Ping`, which is `Heartbeat`, `SetWatcherActive`, `SetBackupActive`, each locked by itself |
| `tunnel` | `CommandTunnel` and `syncClientStateOnConnect` |
| `on`, `watching`, `backing`, `signal` | the machines: daemons and command-line backups, what runs there, the file `backing_up` |
| `heard`, `wanted`, `killed` | history: who was heard of, the last word on disabling that was reported as done, a backup that was killed |
| `clobbered`, `outdated`, `failed` | history: a flag written over by one that was read before, or that a failed request left in memory; an active client's row that is one of when it was not active, because a command line wrote it back or the save that was to replace it failed; how many saves failed |

Every operation of the registry goes through `Persist`: change and save under
the lock.  The memory is changed first and the save may fail, which `Ping` and
the start of the registry ignore and the others report.  If the refresh has the
connection by then, both wait for ever, and `stuck` says so.  `Next` lets
nothing happen in the server after that but its stop.  Time is the predicate
`fresh`; `TimePasses` is a threshold of silence.  That a tick does the offline
check and the refresh one after the other is left open.

### ClientDaemon

The daemon of a client and whoever commands it.  A life of the daemon has at
most two watcher objects, the one `startClient` makes (`boot`) and the one of
the factory (`made`); `fsn`, `running`, `cut` and `ongoing` are the fsnotify
instance, the flag, the context and the ongoing backup of each, and `watcher`,
`batcher`, `cancels` what the command server's handler believes it has.
`Boot`, `BootWatcher`, `SetWatcher`, `Shutdown`, `Exit` are the phases of
`startClient` between which requests are served; `Exit` is also a kill.
`Request` asks the guards of the caller's kind (`handleAPIClient...`,
`ControlClientWatcher`, the two command-line functions, `RemoteClientConnector`),
`Lose` and `Retry` are `withRetry`.  `told` is the last command to the watcher
and `excuse` the accidents of `LastWordHolds`.  `persistWatcherEnabled` may fail
to save, of which the caller is not told (`"unsaved"`); what the next life then
reads is not what was commanded (`"forgotten"`).  The statements that write and
end the row of a job may fail; `unended` says that the one did that should have
ended it.

### Watcher

`FileWatcher`, `OngoingBackup` and `LocalWatcherController`; pipeline `k` is the
one the `k`-th start makes, so that several may be alive.  `event`, `timer`,
`gate` and `checks` follow a file from the event through the debounce timer and
the stability gate to the callback, which looks at the file, hashes it and sends
(`Stat`, `HashFile`, `Send`), without the lock.  `stableCh`, `batch`, `work` and
`halt` are the channel, the pending batch, the batch in work and `Stop`.
`start`, `ctxOf` and `cancelled` are the goroutines of the controller's starts
and the contexts they read.  Timers are abstracted to their order; every write
gives the file a new content, whose number is also its hash and time of
modification.  `missing` records what was given up: a look at the file or a
call failed (`LookFails`, `FileFails`), the batch was in work when it was
stopped, or the two minutes of the final flush were over (`FlushExpires`).

### Restore

One request over a table that backups and deletions have made and go on
changing.  `Requests` are the ways to ask.  A query and a single file are looked
up at once (`Selected`); of a whole backup `Ask` reads the rows, and `LookUp`
takes them one by one, each a `FindByHash(...)[0]` of its own: a deletion may
come in between, and a look-up that fails or finds nothing is skipped without a
word, as the code's `continue` does.
Local restores are `RestoreBatch`: workers that download (`DownloadFile`), look
up the key, decrypt, verify and write (`restoreEntry`).  Pushes are a stream:
`Push` sends what it can decrypt with the entry's own key, `PushRestore` is the
target, and `CloseAndRecv` its report.  Writing is `os.WriteFile`, which
truncates first: a failing one leaves what was there or a part (`AfterFailure`),
and two workers that write two contents to one path at once may mix them
(`Overlaps`).  `wanted` is what the request is for, whatever was selected,
`clear` whether its query can lead there at all, and `astray` the paths that a
look-up left out or took for another; all three are only read by the properties.
A query is the rows at some positions of the table, in order: `Pick`, with `Nth`
for the first of them.

### ConfigFile

One configuration file and everybody who edits it: load, change, `OpenFile`
(which truncates), `Write`, and what follows, with no lock between processes or
requests.  The file is a configuration or one of two broken texts: truncated,
which loads as the defaults, and garbled, which does not load.  `Edits` says who
makes which change, `Begin` is the load and the change, `Save` what may be in
the file when two writers were at it.  Each step may fail: the file does not
open (`OpenFails`), the text is not written to its end (`WriteFails`, `Left`),
the database does not list or take the paths (`SyncFails`, `SetPaths`), a
recovery replaces the table and ends before it comes to the file
(`DownloadDatabase`, `runRecoverInteractive`), the policy cannot be read again
(`ReloadFails`).  `mem` is the daemon's copy, `table` the table of paths (as one
path), `clients` the admin policy, `held` what each reload has read and not
stored yet.

`want` is what the reported edits add up to, one after the other, and the rest
is what the properties except.  It is kept setting by setting: `stale[x]` are
the settings that others have written since `x` read the file, `old` those since
the daemon of a client did, and `lost` those whose reported value is not in the
file because a stale copy, a truncated file, a second writer, or a failure or death
in the middle of a write took it; a later edit of the setting brings it back.
`late` and `slipped` say that a list of admins is in force that is older than
the last change, and `apart` that file and table were changed without each other.

Each module states its type invariant.  That of `BackupStore` is checked by the
run `store`; the others hold in the runs of their modules too, when they are
added to the cfg, and are proved or part of an invariant that is (see
[Proofs](#proofs)).

## Runs

| Run | Instance | Shows |
|---|---|---|
| `store` | hybrid run, remote run, deletion at the server, 1 path, 1 hash | `TypeOK`, `UploadedRowHasBlob`, `LocalEntryHasBlob`, `CompletedRestorable`, `NoUnrecordedLeak`, `VerdictIsFinal` |
| `purge` | remote run, 2 paths of one content, retention at the server, deletion at the client | `CompletedRestorable`, where two nodes purge |
| `cas` | 3 puts, 2 deletes, 1 reader, 2 hashes in one directory, 2 chunks | refinement of `BlobStore`; directories and temporary files |
| `retention` | 2 paths, a purge policy and a general one below it that keeps for less, 2 evaluations, 2 rows, 3 days | `FirstVersionStays`, `OnlyExpiredGo`, `ExcessGoes` |
| `writequeue` | 3 callers, buffer of 1 | refinement of `SerialWriter`; shutdown; every call returns |
| `tunnel` | 2 sessions of one client, 2 commands, 1 forced rebind | `OwnAnswer`, `NoDeadTunnel`, `PanicNeedsForeign`, `LateCallForgotten` |
| `control` | 2 machines of one id, one behind a tunnel; 2 daemons, 1 backup on a command line; 2 moves, 1 failed save | `StatusSettles`, `DisableSettles`, `OwnerKeepsId` |
| `registry_deadlock` | the same | `SilentGoesOffline` is violated |
| `daemon` | 2 callers, 3 requests, 2 lives, 1 accident, 1 repetition | `LastWordHolds`, `TriggersAccounted`, `RunningJobsRun` |
| `watcher` | 1 file, 2 writes, 2 starts, channel for 1, 5 moves | `StopFlushes`, `FlagTellsTruth`, `ChangeRecorded` |
| `restore` | 2 paths, 2 contents, 2 workers, 2 backups, 1 accident | `WritesOnlyBackedUp`, `ReportedIsRestored`, `PushAccounted`, `PushedUnderDest` |
| `config` | 1 client, 1 command, 2 requests, 2 edits, 1 death or failure | `EditsLast`, `RevokedIsRefused`, `PathsInSync`, `PolicyFollowsFile` |

**Bounds.**  Every property of the storage core is about one hash: two runs and
one purger that meet on it make every pair of steps meet.  The `purge` run has
two positions of one content, which is where the server's per-position and the
local per-hash exchange differ, and two purgers at two nodes.  In `cas` two
hashes share a directory because that is the only thing hashes share.  The
queue's buffer of one is full with one request, with a second blocked and a
third to come.  In `retention` two rows are enough for one to be protected and
one to go; the third day is the first on which something expires from day 1
under `keep_days` 1; the purge policy keeps for 2, so that the general one,
which would expire the version, must not.  In `tunnel` two sessions are the old
and the new one of a reconnection and two commands can share a tunnel or be on
different ones.

In `control` two machines are one that has the id and one that wants it, and
three sources are what can heartbeat at the same time for one machine, and for
another.  `MaxMoves` counts what nobody has to do (a daemon starts or ends, a
backup starts, somebody disables or recovers the client, a tool opens the
registry, the network or the server is down for a while); two moves and one
failed save (`MaxFailed`) leave 272,906 states, in which all the rest, done by
itself, happens in any order.  `OwnerKeepsId` first fails at four moves when the
exception for a row a command line overwrote is left out; with it, it is proved
for any number.

In `daemon` three requests are a start, a stop and another that comes between
them, and two lives the one that is told and the one that reads the file;
`MaxRetries` is 1 for each kind of caller, where the code has 2 and 3, because
the second repetition finds nothing the first does not (5,327,588 states).  In
`watcher` two writes are the one that is reported and one that overtakes it, two
starts make two pipelines that can both be alive, and the channel of one (`Cap`,
64 in the code) is full with one file (119,352 states).  In `restore` two
backups are the one with the key and the deduplicated one, two paths two entries
of one content (395,899 states).  In `config` there are two writers in one
process and one in another, a reload of each kind and an edit for each of two
(455,311 states).

The bounds by name: `MaxSession` bounds reconnections, `MaxRebind` forced
rebinds, `MaxDay` and `MaxRow` the clock and the row ids, `Chunks` the length of
a blob, `Cap` a buffer, `MaxMoves` what is said above and, in `Watcher`, writes,
starts, failing calls and edits together, `MaxFailed` saves of the registry that
fail, `MaxCalls` requests, `MaxLives` lives of the daemon, `MaxTrouble`
failures, deletions or deaths, `MaxRetries` repetitions, `MaxWrites` and
`MaxStarts` what they say, `MaxBackups` backups, `MaxEdits` edits.  Nothing else
is bounded but by the sets of processes.

**Deadlock** is not checked: in all models the system may come to rest (runs end,
the clock stops, the server is down).  That nobody waits for ever is stated as
liveness where somebody waits, in `WriteQueue` and `TunnelHub`; that somebody
does, in the registry, is the subject of `registry_deadlock`.

**Symmetry** is used in `daemon` (callers) and `restore` (paths, contents,
workers), which check invariants only.

**Fairness.**  `WriteQueue` assumes that goroutines which can go on do: weak
fairness of the loop, of `Stop` and of each `Submit`, and strong fairness of a
blocked channel send, because the Go runtime queues blocked senders in order.
Nobody need ever call, cancel or stop.  `Retention` assumes that an evaluation
under way goes on, that the hourly loop starts another (its ticker), and that
database errors cease at some time; a new day, a new version, a policy are never
forced.  `TunnelHub` assumes that timers of a call run out and that a call under
way goes on, and nothing of streams, handlers or the client.

`Control` assumes what tickers and goroutines do: the tick of the checker comes
(strongly fair for the offline check, which a heartbeat can disable again and
again, and whose ticker nevertheless comes every 30 seconds), heartbeat loops
beat and handlers return unless they are stuck, a threshold of silence passes, a
backup and a command line end at last, a broken tunnel ends and a new one
reports, and a server that was stopped is started again.  Daemons,
administrators, takeovers are never forced.  `Watcher` assumes that each
pipeline goes on: that a timer runs out, a callback returns, a batch is due; not
that anything is written, started or stopped.  `ConfigFile` assumes the ticker
of the policy and nothing of the editors.  The other modules state safety only
and assume nothing.

## What does not hold

One statement of the documentation is refuted by a run, and listed in
`PROJECT.json` under `findings`:

**`registry_deadlock`** - "If 3 consecutive pings are missed (90 seconds), the
server marks the client as offline" (`docs/MANUAL.md:1267`).
`refreshDisabledFlags` (`registry.go:345`) holds the rows of its query, and with
them the only connection of the registry's database (`server.go:1060`), while it
waits for the registry's lock; every other operation takes the lock and then
wants a connection.  A heartbeat between the two and both wait for ever, and
with them everything that needs the registry.

What follows was met on the way, and is either an exception that a property
names or left outside the properties.

Storage and retention:

- Counting references and deleting the blob are two steps
  (`deletion/engine.go:165`); a row written in between loses its blob.  `fault`
  says `raced`.  `docs/DESIGN.md:797` says the file goes only when no entry
  refers to it.
- A deduplicated entry has no key of its own, so deleting one backup can make
  another unreadable, `severed`.  `docs/DESIGN.md:683`: everything else remains
  intact.
- `keep_versions` is compared with the number of versions before the evaluation
  began to delete (`retention/engine.go:248`), so it may leave fewer than it
  should (`docs/MANUAL.md:604`, `docs/DESIGN.md:606`).
- The rows the server writes for uploads have no date, so the first in the order
  is the oldest, not the latest (`docs/MANUAL.md:618`, `docs/DESIGN.md:590`).
  `FirstVersionStays` is about the first in the order.
- A daemon that starts fails every running job (`server.go:136`), also that of a
  backup which another process is at and which says later how it ended: the one
  verdict that is rewritten.  `DeleteOrphanJobs` (`db/repository.go:945`) deletes
  the job of a running backup that has no entry yet, and its verdict is then
  recorded nowhere.
- The error of removing a temporary file is ignored (`cas.go:104-109`), and
  nothing removes the file later; nor those of a crash.

Server, tunnel and registry:

- The handler of a broken session unregisters by client id and may remove the
  tunnel of the session that replaced it, after which no command reaches the
  client (`docs/NAT.md:136` promises the reconnection); `foreign`.
- Every command line that opens the registry writes the rows it read back
  (`registry.go:239`).  A flag set in between is undone, `clobbered`; a client
  that became active in between is stored as offline, and after a restart of the
  server another machine can take its id: `outdated`.
- The registry changes its memory before it saves (`registry.go:418`, `503`,
  `605`, `646`), and `Ping` and `loadClients` ignore a failed save.  A request to
  disable a client that was refused because its save failed takes effect with the
  next save of anything else, over the administrator's last successful word
  (`clobbered`); a client whose row could not be saved as active may lose its id
  after a restart (`outdated`).
- A machine whose registration was refused beats on, and its heartbeats, which
  name only the id, keep the record alive.
- A killed command-line backup leaves its signal file, and the daemon goes on
  reporting a backup: `killed`.
- `Server.Stop` waits for the streams of the command server without a timer
  (`server.go:506`), and a client's tunnel does not end by itself.

The client:

- A stop of a running backup from the web UI is refused, since the client's
  status is then `backing_up` and not `online`.
- A watcher that was stopped and started again in the same life is reported as
  running but its events are not seen (`"reused"` in `excuse`); a command
  before `startClient` has set the handler's watcher makes a second one
  (`"early"`).
- `persistWatcherEnabled` only warns of a failed save
  (`client_command_server.go:426-428`): the caller is told that the watcher was
  started or stopped, and the next life of the daemon does as before
  (`"unsaved"`, then `"forgotten"`).
- A failed `UpdateJob` is ignored (`backup/engine.go:156`), and the job of a
  finished backup stays `running` until the daemon starts again: `unended`.
- A batch in work when `Stop` cancels its context is cut short, and its
  `UpdateJob` is made with that context (`scheduler/ongoing.go:229-246`), so
  that its job row stays `running`; `RunningJobsRun` is about triggered backups
  and not about these.  The last flush has two minutes
  (`scheduler/ongoing.go:103`); what it has not come to by then is lost.  The
  comment at `watcher.go:406` says that a file is dropped when the channel is
  full, while the code waits.
- A file is hashed and then read again, so the store may hold under a hash what is
  not its content.
- A start whose goroutine is slow reads the context of the next start
  (`webui/watcher_controller.go:91`), and its failure ends that one.

Restores:

- The restore of a whole backup maps its hashes back to the first row of each
  (`FindByHash(...)[0]`), so that two files of one content become one (`astray`),
  and the query of the web UI has one entry for each hash, which `clear` leaves
  out.
- A row of a backup whose look-up fails or finds nothing is skipped and not
  counted (`cmd/restore.go:189-192`, `webui/api.go:1101-1104`, `2417-2420`,
  `2578-2581`): the restore reports no failure.  `astray` too.
- Files are not replaced but truncated and written (`restore/engine.go:208`,
  `349`, `client_command_server.go:549`): a failed write, though it is counted,
  may have destroyed what was there, and two workers with two versions of one
  path, which a query of the web UI selects, may mix them.
- The command line's query prefers an entry with a key to a later one without.
- Pushes try the entry's own key only and check no hash; the push of the command
  line names the destination in its first file only, which may be one that is
  not sent (`skipped`); the web UI's push does not count the files it could not
  read, and does not ask whether the client is disabled, as its other commands do.

The configuration file:

- `admin_client_settings.go:26-28`: "a revoked client loses access at once".  A
  reload that read the file before the removal may store after it: `slipped`,
  until the next tick.
- The file is truncated and then written (`config.go:413-421`,
  `admin_client_settings.go:190-199`, `config_settings.go:70-82`): a write that
  fails or dies in the middle loses every setting, though the edit is reported as
  failed.  A truncated file loads without an error as the defaults, and an edit
  that starts then writes them; two writers at once garble the file.  An editor
  that read the file before another's edit undoes it.  All of these are `lost`.
- `persistWatcherEnabled` saves the daemon's own copy, of the time it started
  (`old`).
- A reload of the policy that fails is logged, and the request that removed an
  admin succeeds (`admin_client_settings.go:207-216`): `slipped`, until a reload
  succeeds.
- `tergum paths` changes the table alone; `tergum setup` ignores what fails when
  it replaces the table (`cmd/setup.go:558-580`); a recovery replaces it before it
  asks for the passphrase (`cmd/recover.go:221`), and may end there; the web UI's
  goroutine gives up with a line in the log (`webui/paths.go:305-330`): `apart`.
- The web UI works with a copy too, and does not see what a command changes,
  although the commands say it does (`cmd/node.go:113`); it never asks
  `Validate` about the whole.

## Proofs

`BackupStoreProofs` proves, for any sets of nodes, runs, paths, hashes and
purgers, under `ConstantsAssumption` (who owns what is well defined, no process
is both a retainer and a deleter, `None` is no name):

- `TypeCorrect`: `Spec => []TypeOK`.  `TypeOK` is not inductive: that an upload in
  progress is of a position of the manifest, that a handler at work belongs to
  one, that a local handler never waits to write a row, and that a run that has
  not started has no manifest, are needed; they are `Scoped`, and
  `TypeInv == TypeOK /\ Scoped`.
- `UploadedRowsHaveBlobs`: `Spec => []UploadedRowHasBlob`.
- `LocalEntriesHaveBlobs`: `Spec => []LocalEntryHasBlob`.
- `VerdictsStay`: `Spec => VerdictIsFinal`, from `Ended`: the run of a job that
  is completed or stopped is over, so that nobody gives it another verdict; one
  that is failed may be alive, and only its own end rewrites that.
- `LeaksRecorded`: `Spec => []NoUnrecordedLeak`.
- `CompletedAreRestorable`: `Spec => []CompletedRestorable`.

`UploadedRowsHaveBlobs` and `LocalEntriesHaveBlobs` come from one inductive
invariant, `StoreInv`.  A row can lose its
blob only to a purger, so `CondemnedUnreferenced` says that a purger about to
delete has no row against it that is not on record as raced.  A row can be
written without a blob by a handler, which `StoredHasBlob` excludes, or by a
local run that relied on an earlier answer: `RunCovered` says that what such a
run is still to record is in the store, excused, or still to be uploaded, and
`UploadAnswered` carries that over the return of `UploadFile`.  The step lemmas
are one per process (`RunStepStoreInv`, `HandlerStepStoreInv`,
`PurgeStepStoreInv`), with a case per action and a step per conjunct; `Frame`
disposes of the conjuncts an action does not touch, and `FaultGrowing` says that
the record is never rewritten, so what was excused stays excused.

`NoUnrecordedLeak` is not inductive as it stands: it lets a run that was merely
told that a blob is there answer for it, and such a run may end without a word.
`LeakInv` leaves that run out: a blob is answered for (`Kept`) by a row, the
handler or the local run that put it, a purger, or a failure on record.
`Uploading` (nobody is at work on a file that is still to come) and `Purging`
(a purger handles one hash at a time) carry it over the ends of uploads and the
steps of purgers.

`CompletedRestorable` takes what is true of a key before there is a completed
backup.  `KeyInv` says, of every hash that has met no accident (`Clean`): an
entry is `Sound` from the moment it is written, that is, the rows of its node
know the blob's key and no other, and the run that put the blob puts no more of
that hash (`Settled`); a run that is still to record the hash uploads it first,
or may use the blob as it is, or the blob is what it has put (`ReliesOn`); and
of uploads that the server receives nobody else has put the blob (`HandledFor`).
`Owned` and `Noted` tell whose rows and whose keys they are.  The steps that
break this are those that the record marks `severed`, `raced` or `upload`, and
the proof has to find in each such step the mark, so it shows also that the list
of accidents is complete.

The other proof modules follow the same plan: an inductive invariant made of
named parts, a lemma per actor with a step per action, and the properties from
it.  Each is proved for any values of its module's constants, under the one
`ASSUME` (two in `Control`) that the module states: bounds are naturals, maps
have the domains they are used on, `None` is no name, and in `Retention` no two
policies have the same priority; in `Restore` there are finitely many paths, and
in `ConfigFile` the writers are different from each other and a broken text is
no configuration.

- **`StorageProofs`**, of `CAS`: `DirectoryPresent` and `TempAccountedFor` are
  inductive with the types.  For the refinement one also needs that what has a
  name, or was opened by it, was written to its end and renamed (`WholeInv`): so
  a reader reads whole blobs, and every system call maps to a step of
  `BlobStore` or to a stutter, `Restart` to its `Restart`.  Of `Retention`: an
  evaluation's victims are computed once and deleted later, one by one, while
  rows come and go.  `Preceded`: every victim on a guarded path comes after a
  version that is still there; `Outlived`: it has outlived the policy of the
  highest priority for its path among those its evaluation had read.  That a
  first version exists, by day and then by row id, takes the least-number
  principle, which the library has as `WFMin`.
- **`WriteQueueProofs`**: `Requests` says where each request is (before the
  send, once in the queue, in the loop, over), `Errors` what an answer hides,
  `Shutdown` the order of `Stop`.  With them every step of the queue maps to one
  of `SerialWriter` or to a stutter, so it does for any capacity and any
  callers.
- **`TunnelHubProofs`**: request ids are unique in a tunnel (`Assigned`), an
  answer anywhere on its way carries the id its call was given (`Genuine`, kept by
  `Messages`, `Hands` and `Boxes`), and a channel is closed only when its call
  is no longer pending.  `OwnAnswer` follows since id and tunnel determine the
  call.  `Own` is what `PanicNeedsForeign` needs: while nobody has touched
  another's tunnel, what a handler is about to send on is open.  For the types one
  needs that the registration comes first on a stream and is the only message
  that is no answer (`FirstRegisters`).
- **`ControlProofs`**: `OwnerKeepsId` is an action property.  `Lively`: while
  anybody was heard of, the client counts as active, in memory and in its row,
  unless a command line has written an outdated row over it or the save of the
  active one failed.  Every other operation on the record keeps its owner, and
  the two that give it a new one are refused while the client is active, or
  forced.  It was this proof that brought the exception to light; TLC finds it
  at four moves.  `LastWordStored` is the part of `DisableSettles` that needs no
  fairness: what an administrator last asked for is in the client's row unless
  an older flag, or one that a refused request left in memory, was written over
  it (`clobbered`), so that fairness is left with getting the row to memory.  It
  is inductive with `Told`: a row has its record in memory while the server runs,
  and nobody disabled a client that has no row.
- **`ClientDaemonProofs`**: `LastWordHolds` speaks of a daemon that is up;
  `Parts` (which watcher, ongoing backup and context belong together),
  `Starting` (how `startClient` leaves them before anybody commands) and `Obeys`
  make it inductive; a save that failed matters to them when the next life reads
  the file.  `Counted` does for `TriggersAccounted`; `RunningJobsRun`
  is inductive with the types.
- **`RestoreProofs`**: of pushed restores, `Counted`: what was sent is in the
  target's report or on the wire; `FirstNames`: the first file on the wire names
  the destination, which `Head` and `Tail` of a sequence of any elements keep.
  Of local ones, `LocalInv`: `Written`, what has been written is the content
  of a selected entry for its path, a part of one, or of two of different content
  for the path; `Reading` and `Asked`, for each file that is wanted and did not go
  `astray` an entry is selected or its row is still to be looked up, and none of
  its path has another content; `Underway`, until a failure is counted every
  selected entry is still to do, with a worker, or restored.  `Halves`: a file
  that is left in part is a failure that was counted.  `Asked` is where the ways to
  select come in (`RowsFound`, `FirstRowFound`, `PreferredFound`, `QueryFound`):
  each returns rows of the table, and under `clear` one of the path and content
  that is wanted.  They rest on `NthExists` and `PickGood`: what is picked at some
  positions of a sequence is exactly what it has there.  This proof found an error
  in `clear`, whose two cases for queries overlapped.
  `PushesWhatWasSelected` says of pushes what `WritesOnlyBackedUp` says of local
  restores.  It follows what a worker or the loop of a push takes from the store
  over the wire to the target (`Batch`), and finds the one other thing that gets
  there whole: the ciphertext of an entry that has no key of its own.
- **`WatcherConfigProofs`** has two halves that share nothing.
  `StopFlushes` and `FlagTellsTruth` of `Watcher` come from `Whole`.  In it,
  `Flow` says of each pipeline that what was received is recorded, given up or
  still in its batch or in work, and `Phases` that after `Stop` has waited for
  both goroutines nobody adds to the batch and only the flush is in work, so
  that nothing is left when it is over.  `FlagTellsTruth` speaks of a moment
  when no start is on its way, and is not inductive: `Starting` says what there is
  of a pipeline at each step of its start, `Flagged` that the installed one is
  alive, and `Contexts` that all contexts but the last are cancelled, and the
  last is not exactly while the flag is set and nobody stops; so a slow start,
  which reads whatever context is current, is abandoned or belongs to the flag.
  `EditsLast`, `RevokedIsRefused` and `PathsInSync` of `ConfigFile` come from
  `ConfigInv`, for any number of editors at work at the same time.  The file
  agrees with what was reported in every setting that is not `lost`
  (`FileAgrees`); what an editor is going to write sets what its change sets and
  agrees in all else, but for what is lost and what was written since it read the file
  (`CopiesAgree`, and `MemAgrees` for the daemon's own copy); no list of admins, in
  force or read since the last change, has a client whose removal was reported,
  unless a reload `slipped` (`Refused`).  The path is the hard one, since its
  goroutines run in any order: when none is left to start and no wizard is between
  file and table, either what was reported of the path is what the table has, or some
  goroutine at work is going to write that; and if another is going to write an
  older one without its being on record as stale, then too one is going to write
  the table's (`Listed`, `Fresh`, with `Wizards`).

Every invariant, action property and refinement that a run checks is stated by
one of these theorems.  Only model-checked is liveness (`ExcessGoes`,
`SubmitReturns`, `StopReturns`, `LateCallForgotten`, `StatusSettles`,
`DisableSettles`, `ChangeRecorded`, `PolicyFollowsFile`): it takes fairness, whose
`ENABLED` the prover does not know.  The refinements proved are of steps; the
abstract modules state no fairness.

## What is not modelled, and the plan

Left out, because there is nothing to get wrong between several actors:

- **Schedulers** (`internal/scheduler/scheduler.go`): neither has an effect.
  The server's is made with an empty list of clients (`server.go:460`), so it
  triggers with an empty client id, which `TriggerBackup` refuses
  (`command_server.go:148`), and its backup engine does nothing
  (`server.go:967`).  `ClientScheduler`, with missed backups and reconnection,
  is made by tests only, although `docs/MANUAL.md:1235` and `:1268` and
  `README.md:18` describe what it would do.  Modelling it would be modelling a
  program that is not there; the columns of missed schedules in the registry
  are left out with it.
- **Database sync**: a client sends a copy of its database, an unlocked copy of
  a file that it goes on writing; what that contains is SQLite's business.  The
  server puts its own copy in place by a rename.
- **Migration**: a command that copies store and tables, with nothing beside it.
- **Identity, TLS, certificates**: key material made once.
- **Service installation, metrics, logging, the pages and listings of the web
  UI, terminal input and output, the generated gRPC code, single-row settings
  tables**: no state that several actors change in an order that matters.

Left out of components that are modelled, and said at each in `PROJECT.json`:
the cancellation of a restore's context and the restore history,
`FailStaleJobsOlderThan`, removal of a client from the registry, directories
and patterns of the watcher, the limits of watches, chunks of pushed files.

What would be next:

1. The composition of `ClientDaemon` and `Control`: what the registry shows of
   a watcher that was commanded through the tunnel.
2. `Retention` within `BackupStore`: that every deletion of an evaluation is one
   that a purger of the store may make, as a refinement of one by the other.
