# Gensokyo: a TLA+ model

Gensokyo connects the official QQ bot API to chat-bot applications that speak
OneBot V11. Events come from the QQ gateway (a websocket per shard, the
vendored SDK `src/botgo`) or a webhook; `Processor` turns them into OneBot events
and sends them to the applications over reverse websockets (`wsclient`), forward
websockets (`server`) and HTTP (`httpapi`). The applications' actions are
dispatched by `callapi` to `handlers`, which post to QQ's OpenAPI. QQ names users
and groups by OpenIDs, OneBot by numbers: `idmap` keeps the translation, and
every event and every action goes through it.

This directory holds specifications of the parts in which order, concurrency and
failure decide whether the program is right, TLC configurations that check
them, and machine-checked proofs about all of them.

## 1. Inventory

### Components that are modelled

| Component (source) | State | Operations | What must hold |
|---|---|---|---|
| Identity map (`idmap/service.go`, `idmap/new_service.go`) | `idmap-identity.db`: bucket `ids` with `OpenID -> row`, `row-<n> -> OpenID`, the counter `currentRow`, the mark `_migration_complete_v1`; the legacy `idmap.db` with the same rows | `storeIdentity` / `StoreIDv2`, `StoreID`, `UpdateVirtualValue` (bind, unbind), `retrieveIdentity` with lazy write-back, `RetrieveRowByIDv2`; `StartMigration` and its goroutine: copy in batches, verify, repair, verify, mark | nobody loses an id, an id leads back to its OpenID, two OpenIDs never share one, the migration ends |
| Config store (`idmap/service.go`, `idmap/new_service.go`) | an entry of the config bucket in both databases, the mark | `WriteConfig`, `ReadConfig`, `DeleteConfig`, two transactions each; the copy, verification and repair of the bucket | the migration undoes no write and brings nothing back that was deleted |
| Receive-all detection (`idmap/qq_group_receive_state.go`) | per group a window of the last 10 messages, the flag in memory and, as a config entry, on disk | `RecordQQGroupMessageReception` | the flag goes up only after a full window of normal messages, and disk and memory agree |
| Message ids (`echo/echo.go`, `idmap/new_service.go`) | with `memory_msgid` the maps `globalSyncMapMsgid` and its reverse, two cleaners; else the bucket of `idmap-msg.db`, its time stamps, its sweep | `StoreCacheInMemory`, `GetCacheIDFromMemoryByRowID`; `StoreMsgID`; `cleanExpiredMsgIDs`; `cleanupGlobalMaps`, `StartCleanupRoutine` | a number names its message or none, and resolves while a reply may need it |
| Sending to groups (`handlers/send_group_msg.go`, `echo/echo.go`) | the counters of `msg_seq`, the stack of refused active messages (a Go slice) | `HandleSendGroupMsg`: `SendStackMessages`, text and media items, uploads, `PostGroupMessage`, `postGroupMessageWithRetry`, the reposts; `cleanupGlobalMaps` | a number belongs to one message, no stacked message is lost, an answer names what was sent, calls end |
| Union cache (`unioncache/unioncache.go`) | two `sync.Map`s and a mutex for writers | `Store`, `DeleteID`, `DeleteUnion`, `Clear`; lock-free `Union`, `ID` | the maps stay inverse; every call is atomic |
| Gateway sessions (`botgo/sessions/local`, `sessions/multi`, `botgo/websocket/client`) | the session channel of capacity 1; per connection the session (ID, LastSeq), `messageQueue`, `closeChan` | `newConnect`: Connect, Identify or Resume, Listening, put the session back; the reader and the handler goroutine | a shard is connected once, comes back, and no event is skipped by a resume |
| Reverse websocket (`wsclient/ws.go`) | `conn`, `isReconnecting`, `writeCh`, `sendFailures` | `SendMessage`, `startWriter`, `handleIncomingMessages`, `sendHeartbeat` + `processFailedMessages`, `Reconnect` | one reader, one reconnect, senders are not blocked for ever, the client comes back |

Most are partial models. `IdentityMap` leaves out key aliases (`idmap_isolation`) and
the lotus/gRPC client paths; `ConfigStore` the user info bucket, which is written in
the same way; `MessageIds` the latest message of a user; `GroupSend` the guessing of the message type,
guild, forum and private messages; `GatewaySession` the start intervals, session
limits, the token refresh on close code 4004 and the recovery of a handler that panics (`client.go:223-230`);
`ReverseWs` the first dial. A batch of the migration that cannot be written, or a mark that cannot (`new_service.go:528`, `562`),
is left out of `ConfigStore` as of `IdentityMap`.

### Components that are not modelled

| Component | Why |
|---|---|
| Lazy message ids (`echo/messageidmap.go`), message types kept per echo | `GroupSend` lets a call take any recent id, so nothing of it depends on the choice; the type guessing is a table lookup around a counter |
| Token refresh (`botgo/token`) | one goroutine, one timer, one lock: a model would restate it |
| `idmap/map_service.go` | only under the build tag `map_idmap` |
| `Processor`, the other `handlers`, `callapi`, `server`, `httpapi`, webhook | conversion of events and actions, I/O; their state is in the components above |
| `botgo/sessions/remote` | never started by `main.go` |
| `webui`, `config`, `template`, `mylog`, `botstats`, `sys`, `frontend` | administration and display |
| `images`, `imagehosting`, `oss`, `silk`, `url`, `acnode`, `mdutil`, `securityaudit` | uploads, codecs, string processing |

The larger part of the repository's lines is of these kinds: `go-silk` is a codec in
translated C, `config` one accessor per setting, `proto` generated.

### How they interact

`main.go` opens the databases, starts `idmap.StartMigration` (line 327), then the
gateway sessions (331-351), then a reverse websocket per address (359 on), then
the HTTP servers. An event is read by a shard's reader, queued, and handled in a
goroutine of its own; that goroutine calls `idmap.StoreIDv2` for user and group,
records the message in the receive-all tracker and the union cache, and
broadcasts with `SendMessage` to every reverse websocket, blocking while one's
channel is full. Actions come back from a reverse websocket's reader, are
handled in goroutines too, and call `RetrieveRowByIDv2`. The shared state is
bbolt (one writer at a time, snapshot reads), the `sync.Map`s of `echo` and
`unioncache`, and the fields of the websocket client, which have no lock. A reply
names its message by a number that `echo` or `idmap-msg.db` gave out when the event came;
`HandleSendGroupMsg` resolves it, numbers the reply with the counter of that
message, and takes along the active messages that QQ refused.

Hard to test are: the window between two transactions of one call; calls during
the migration; crashes in it; which goroutine of a connection notices its end
first; the flag that keeps reconnects apart; the list of failed sends; a slice that one
call walks over while others shift and append; a counter that is read in one call
and written in another; cleaners that empty two maps one after the other. They are
listed with their lines under `hazards` in `PROJECT.json`.

## 2. Modules

| Module | What it is |
|---|---|
| `IdentityMap` | both databases, callers, migration, crashes, deletion of the legacy file |
| `IdentityMapProofs` | `TypeCorrect`, `NothingIsLost`, `EntriesNeverVanish`; for fresh installations `RegistrationsDistinct`, `RegistrationsRoundTrip`, `RegistrationsConsistent`, `RegistrationsKeep`; with binds `OnlyBindsMoveIds`, `BindsConsistent`, `BindsRoundTrip`; during a migration `CountedIdsDistinct`, `HashedIdsKeep`, `HashedIdsDistinct`, `HashedIdsConsistent`, `HashedIdsRoundTrip` |
| `UnionBinding` | abstract: a partial one-to-one binding, changed atomically |
| `UnionCache` | every access to the two maps; implements `UnionBinding` |
| `UnionCacheProofs` | types, inverse maps, one-to-one for readers, the refinement |
| `GatewaySession` | one shard through several connections, with the gateway as environment |
| `GatewaySessionProofs` | `TypeCorrect`, `NeverTwice`, `NothingSkipped`, `BannedStops` |
| `ReverseWs` | one reverse websocket through several connections |
| `ReverseWsProofs` | `TypeCorrect`, `FlagKeepsApart`, `OnlyOneForgets` |
| `ConfigStore` | one config entry in both databases, and the migration of it |
| `GroupReceive` | one group's tracker, composed with `ConfigStore`, which keeps its flag |
| `GroupReceiveProofs` | `TypeCorrect`, `BeliefIsTrue`, `DeletedStaysGone`, `OnlyTornReverts`, `WindowIsLatest`, `FlagNeedsAWindow` |
| `MessageIds` | message ids in memory and in the database |
| `MessageIdsProofs` | types, and the four invariants of message ids |
| `GroupSend` | `send_group_msg` calls over the shared counters and the stack |
| `GroupSendProofs` | `NamedIsSent`, `TypeCorrect`, `WalksLoseNothing` |
| `GroupSendSeqProofs` | `SeqReuse`, about the numbers of messages |
| `MC*` | constants for TLC |

Definitions whose names begin with `M` are mutants, plausible bugs that
the properties are shown to notice; nothing else uses them.

Steps are merged in a few places: the look at the mark with the transaction that it decides on
(`DualWrite`, `RebindOld`, `WriteOld`, `DeleteConfig`); reading one counter and writing the other in
`SyncCounter`, before anything else runs; the lookups in both databases in `RetrieveRowByIDv2`; the read of a stacked
message and of the counter in `Visit`; the cursor of `Sweep`, which works within one transaction. `CleanStack` writes
the slice header at once, which the code assigns without the mutex that pushes and removals hold (`echo.go:47`).

### IdentityMap

A bbolt transaction is one action, a call a sequence of actions of one caller
(`pc`, `arg`). `newFwd`/`newRev` and `oldFwd`/`oldRev` are the bucket's two kinds of
keys as functions. `StoreIdentity` is the transaction of `storeIdentity`, after
which `DualWrite` is `dualWriteToOldDB`; `StoreInOldDB` and `NewDBStore` are the two
halves of `StoreID`; `FindInOldDB`, `FindInNewDB`, `FindByScan`, `CheckExists`,
`RebindNew`, `RebindOld` are `UpdateVirtualValue`; `RetrieveIdentity`, the three `Lazy`
actions and `WriteBackIdentity` are `retrieveIdentity` and `lazyMigrateIdentity`.
The migration goroutine is `mig`: `CheckMarker`, `SyncCounter`, then `ReadBatch` and
`WriteBatch` with a cursor over the keys in bbolt's order, then the verification.
A verification opens a snapshot of the new database first (`Verify`,
`VerifyAgain`), so `Compare` compares an older new database with a newer legacy
one. `Crash` ends all goroutines and keeps the databases; `DeleteOldDB` is what the
final log line invites the operator to do. A row derived from a hash is abstracted
to a sequence of candidates per OpenID (`HashRows`), of which the first free one
is taken; that includes colliding first candidates.

`issued` is a history variable: every id an OpenID was ever given.

### UnionCache

`Store` does a lookup, a delete, a lookup, a delete and two stores under the mutex; each
delete or store is an action here, because `Union` and `ID` take no lock. The refinement
maps the writer's position `store3` (the old partner already removed) back to the
old binding, so that `Store` takes effect in one step.

### GatewaySession

A connection `c` runs `newConnect` as `pc[c]`; the reader is `Receive`, the handler
`Handle`, and both exist beyond the connection's end as in the code: the handler
drains its queue after `Requeue` has put the session back. The gateway is
external: it numbers events, replays from `LastSeq+1` on a resume, invalidates sessions. `Recovers`
tells `sessions/local` (whose `newConnect` recovers from its own panic) from
`sessions/multi`.

### ReverseWs

Goroutines of connection `g` are `reader[g]`, `beat[g]`, `recon[g]`; the writer is one
for the client's life. The append of the writer to `sendFailures` is two actions
(load, store), and the heartbeat's loop over the list and its clearing are
separate: the race between them is the point. `Break` may happen at any
time, or, where `quick` is false, only once no reconnect is at work. `written` is a
history variable: the events that some connection took.

### ConfigStore and GroupReceive

`ConfigStore` has the two values of one entry, the mark, and the worker of the migration.
`WriteNew` and `WriteOld` are the two transactions of `WriteConfig`, whose second one goes to
wherever `configAndUserInfoDB` points by then (`Legacy`) and whose error is dropped;
`ReadBatch` and `WriteBatch` are `readOldDBBatch` and `writeBatchToNewDB`; `Verify`, `Repair`, `Reverify` and `MarkComplete` the end
of `backgroundMigration`. Other entries may make the verification fail, so it may fail at any time.

`GroupReceive` extends it with the tracker. A call of `RecordQQGroupMessageReception`
holds the tracker's mutex throughout, so there is one call at a time
(`phase`, `event`); between its transactions the migration, a deletion by the HTTP API or
a crash may come. `torn`, `moved`, `deleted` and `missed` are history variables which say what
happened to the entry since it was written last. The code's loop that copies the window
without one message is `Others`, which takes that message's one entry out;
`OthersAssumption` of `MCGroupReceive` has TLC compare it with the filter that the loop is.

### MessageIds

One variable, `memory`, tells the two installations apart. In memory a handler loads,
then tries `LoadOrStore` with more and more digits, then stores the reverse entry,
each a step; a cleaner empties `fwd` and then `rev`. In the database `StoreMsgID`
and the sweep are a transaction each, and `Tick` is a minute. A handler whose digits are
used up ends the process (`log.Fatalf`). The assumption `RowAssumption` says that no two messages
share a row: 9 digits of a hash over the few minutes that entries live.

### GroupSend

A call is a goroutine with a position `pc`. `StackNext` is `SendStackMessages`, `PrepareNext` the
preparation of an item with its reads and
writes of the counter, `PostNext` the request and what follows each answer. `Items` gives each call any sequence of items:
first a text, or a text with an uploaded picture, if there is one (`Leading`), then what the loop over `foundItems` sends as it
is (`"single"`: markdown, local and base64 pictures) or uploads first (`"media"`). A reply that could not be made ends
the call without an answer (`Abandon`), an unknown kind is skipped (`SkipItem`), an upload without `file_info` is answered
although nothing is posted (`UploadedNothing`). The stack is a slice: `stack` is its
array and length, `heap` the arrays so far, and a walk keeps the slice (`view`) it was given,
as `range` does, while `RemoveFromGlobalStack` shifts in place and `PushGlobalStack`
appends in place or reallocates.

QQ is external: it refuses a (`msg_id`, `msg_seq`) that it accepted before, and may accept a message and
answer too late (`Request`). Between it and a call is the HTTP client, which sends a request again up to
`SetRetryCount` times, with the number the message has by then, when it or its answer is lost (`Resend`); the caller hears only the last
result (`PostGroupMessage`). `answer` is what `SendResponse` puts together: the status, which is "ok" always, whether the text
has an error, and the message whose id it names, that of `resp`, which the loop shares between its items.
`accepted` keeps which message came with a number, so that a repetition of the same message and the use of a number
by another one are told apart.
`CleanStack` and `CleanSeqs` are the echo cleanup.
`disturbed` and `overlapped` are history variables which record that two calls met.

## 3. Runs

| Run | Instance | Shows |
|---|---|---|
| `union_cache` | 3 ids, 3 union ids, 2 writers | types, `MutualInverse`, `OneToOneForReaders`, refinement `AtomicBinding` |
| `identity_migrate` | hash ids, 2 callers that register and look up, a legacy database with both, one or none of 2 OpenIDs, batches of 1, a crash | `OneVirtualId`, `RoundTrip`; `MigrationCompletes` under fairness |
| `identity_count` | counted ids, registrations and unbinds, repairs, a crash | `DistinctIds` |
| `identity_calls` | every call, fresh installation or migration, a crash | `TypeOK`, `NoIdentityLost`, `EntriesStay`; on a fresh installation `OnlyBindsMove`, `ReverseConsistent` |
| `identity_keep_ids` | counted ids, one entry to migrate | **violated**: `OneVirtualId` |
| `gateway_live` | `sessions/local`, 5 connections, 2 failures | types, `OneConnection`, `ComesBack`, `EventsAreHandled` |
| `gateway_shards` | `sessions/multi`, 3 connections, every failure | `ResumeSkipsNothing`, `StopsWhenBanned` |
| `reverse_ws_live` | channel of capacity 1, a heartbeat, breaks between or also inside reconnects | types, `OneReconnect`, `OnlyTheHeartbeatForgets`; `SendersReturn`, `Reconnects` under fairness |
| `reverse_ws_stranded` | breaks at any time | **violated**: `NeverStranded` |
| `group_receive` | window of 2, 3 messages and a mention, failing and torn writes, a deletion, a restart, migration with repair | types, `WindowIsRecent`, `WindowAfterMention`, `BeliefMatchesDisk`, `DeletedIsGone`, `RevertsOnlyTorn` |
| `message_ids` | 2 messages, 2 handlers, 2 cleaners or 6 minutes of the database, a restart | types, `NeverMisdirected`, `ResolvableUnlessTorn`, `OnlyDoublesAreFatal`, `ResolvesWhileFresh` |
| `group_send` | an active call with a quote and a passive one with an upload, or one call of three items; 2 stacked messages, a failure of each kind, a re-send, a cleanup | types, `SeqReuseExplained`, `OnlyOverlapsLose`, `AnswersNameSent`; `CallsReturn` under fairness |

### Findings

- `identity_keep_ids`: with `hash_id` off, an OpenID of the legacy database that
  sends an event before its batch is copied is given a second id, although
  `docs/idmap.md` says that the migration keeps existing relations.
- `reverse_ws_stranded`: `Reconnect` starts the new reader before its deferred reset
  of `isReconnecting`. If the new connection breaks in between, nobody
  reconnects any more.

### What does not hold and is not a run

Met while modelling, besides the findings; the properties exclude these cases by name, and the hazards
in `PROJECT.json` carry them. Where the documentation says otherwise, this says so.

Identity map:

- After the migration, while `idmap.db` is still there, `UpdateVirtualValue` asks it
  first (`service.go:1405`) and `retrieveIdentity` falls back to it (`new_service.go:274`):
  an OpenID that was rebound since can be moved back. `OnlyBindsMove` is stated for
  installations without a legacy database, and
  `RoundTrip` and `ReverseConsistent` for those, or without binds (`Undisturbed`).
- Two callers, one binding and one registering, can end with one row for two
  OpenIDs (the check at `service.go:1485` is a transaction of its own); `StoreID` and
  `storeIdentity` for one OpenID at the same time can give it two ids. Runs with binds
  or `StoreID` have one caller.
- A repair overwrites a bind made during the migration.
- The migration runs beside the registrations, and a verification compares a snapshot of the new database with a later one of the
  legacy database. One registration in the first verification and another in the one after the repair (`new_service.go:658-664`) make both fail.
  Then a log line asks for a manual check, the migration is not marked, and calls go on using both databases until a restart.
  `docs/idmap.md:110` describes a blocking conversion, which ends with the mark (`:118`). `MigrationCompletes` says that a migration ends with the mark
  unless each verification was overtaken (`Overtaken`), or the process ends. Binds in the verifications can fail them too; the run has none.
- Where the nine-digit rows of two OpenIDs collide, one OpenID has the row in the legacy database, and the
  other registers before that batch is copied, both end up with it: `storeIdentity` looks for a free row
  in the new database only (`new_service.go:160-228`), and `writeBatchToNewDB` per key. Hence the hypothesis `HashedIds`
  of the proofs; in `identity_migrate` the legacy rows are first choices, which differ.

Gateway sessions:

- A failed write of Identify or Resume ends `newConnect` without putting the
  session back (`local.go:121`): `ComesBack` is checked without `"write"` in `Breaks`.
- A ban panics, and `newConnect` of `sessions/local` recovers the panic and connects
  again (`local.go:100-106`, `133-137`): `StopsWhenBanned` is checked for `sessions/multi`.

Reverse websocket:

- An event whose write fails between the heartbeat's loop over the failures and its
  clearing of the list is forgotten (`ws.go:207`): `OnlyTheHeartbeatForgets` says that this
  is the only way.
- What `wsclient` stores of a failed event is `{"message": event}` (`ws.go:75`), and so is
  what it resends.

Config entries and receive-all detection:

- A write that reached one database only is undone by the repair, for which
  the legacy value wins. `RevertsOnlyTorn` says that nothing else is.
- `DeleteConfig` during the migration leaves the value that was copied already, and what a
  batch in the worker's hands will still write (`missed`).
- `ReadConfig` that looks at the mark after the migration ended, having missed the entry before,
  finds nothing (`moved` in `Look`).
- A message that QQ delivers both as a mention and as a normal message takes its own mention out
  of the window (`qq_group_receive_state.go:140`); `WindowAfterMention` is checked with
  messages of one kind each.

Message ids:

- Two handlers of one message: the second finds the entry taken, adds digits in
  vain, and ends the process. `OnlyDoublesAreFatal` says that nothing else does.
- Two messages with the same 9 digits share a row, and a reply to one goes to the
  other: `RowAssumption` excludes it.
- An entry of the database is dropped after six minutes (`new_service.go:955`). `msgid_ttl_seconds` promises a lifetime that can be
  set, one hour by default (`config_template.go:61`, `docs/idmap.md:124-136`, `:156`); only the latest message of a user has it (`new_service.go:1031`).
  A reply after six minutes finds no message. `ResolvesWhileFresh` is about the six minutes.
- The memory maps know no ages: an entry lives from no time at all to the cleaner's interval.

Sending to groups:

- A walk over the stack while another call pushes or walks removes by an index that
  means another message by now; so does a walk after its own push reallocated the array. `OnlyOverlapsLose` says
  that without an overlap no unsent message is removed.
- A single walk skips the message that moved down into a removed one's
  place, and can send the last one twice.
- `AtoPCount` is documented as the stack's maximum (`config_template.go:221`); it bounds a
  walk, and the stack grows without bound.
- Two calls for one message id read the same counter and use a number twice; a quote is sent under another id than its number
  is from; the cleanup starts a counter again. `SeqReuseExplained` says that without one of these QQ never refuses a number as another
  message's. A message can be refused as a repetition of itself, when QQ took it and the answer was lost.
- The status of an answer is "ok" and its retcode 0 whatever the error (`message_parser.go:363-373`, `409-418`), because a review by QQ
  fails first and sends later (`:366`). An application is told so of messages that QQ refused as well, and that nobody sends again.
- After a request that timed out the text of the answer is that error, even if a retry,
  or the request itself, delivered the message.
- A reply can be sent twice: `msg_seq` is there to prevent it (`message_create.go:60`), but each try of
  `postGroupMessageWithRetry` takes a new one (`send_group_msg.go:2883-2885`), so what QQ took too late for the client is sent again.
- An upload in the loop that fails is answered with the message id of an item before it, and one without `file_info` so, too, and without
  an error (`send_group_msg.go:592`, `724`). `AnswersNameSent` says that nothing else names another message than the one
  answered for, or has no error for a message that was not sent.
- The error of an upload with a text, and a reply that could not be made, answer nobody.

### Bounds, and why they are enough

Two OpenIDs are enough for every conflict over a row, a reverse row or the counter
(all are between two), one legacy and one new row each for every
disagreement of the databases. A batch of one entry puts a write between any two reads;
a batch of two lets it be full or not. One crash reaches every prefix of the
migration, and the restart repeats it on what that left. `MaxRow` bounds counted ids. In
`GatewaySession` an event that is read and one that is handled before and after a
failure take three sequence numbers, a failure during recovery two breaks, and each
break one more connection. The real queue sizes (10000 and 10) are never full in the
model. In `ReverseWs` the channel has one place instead of 5000 so that it
is full; two connections give every race between a goroutine of the old connection and the
one that replaces it, one heartbeat and one event the race over the failures (the
proofs are for any number). `GroupReceive` has a window of
2 instead of 10: it fills, overflows and loses an entry that moves to its
end; four events let a mention come before, in and after a full window.
`MessageIds` needs two messages to be confused, two handlers to meet over one, one
restart; with entries kept for 2 minutes instead of 6, six minutes let each be made, expire, and be made again.
Two attempts give the case where more digits are tried and the one where they are used up.
In `identity_migrate` the legacy database without identities lets both OpenIDs register during the verifications, and
either one with the other copied; the remaining instances give the repair something to do.
`GroupSend` has two calls that meet, because every race is between two, one message id, so that they share a
counter, two stacked messages (one of another group, which a walk skips), walks of at most two, so that the stack can be longer,
one message or upload that fails in any way (its re-sends may all fail too: `MaxFailures` counts messages, not requests),
two tries instead of three and one re-send instead of three. A third call, which runs alone (`Apart`), has one item of each of the other kinds,
a quote among them: what its answers name, others have no part in. The bounds on connections, breaks, heartbeats, events, minutes, failures and
crashes make runs finite and end behaviours, hence `CHECK_DEADLOCK FALSE`.
`union_cache` has no such bound and is checked for deadlock.

### Fairness

- Goroutines that can run, run: weak fairness on the migration, on each
  connection's actions, on the writer, on each started `send_group_msg` call.
- Requests end: QQ answers, or the client's timeout does (`Results`), so a call's step
  that posts is fair like the others.
- `WriteMessage` returns: `ws.go:71` sets no write deadline, so this is the operating system's to decide, which ends a dead TCP
  connection in the end. `SendersReturn` presumes it. `CallsReturn` does not include `SendResponse`, which can wait for a full `writeCh`
  as any sender can.
- `ReverseWs` asks strong fairness of goroutines blocked on the full `writeCh`: the
  channel may be full again whenever they look, but Go queues blocked senders in order.
- The operator restarts the process after a crash (`Start`), once the number of crashes is used
  up.
- Nothing is asked of the network or the gateway: dials and connections may fail as
  long as the bound on failures allows, the gateway may stay silent (`Emit` and `Break`
  are not fair). For `Reconnects` the alternative is that `reconnect_times` is used up.

## 4. Proofs

All proofs are for every value of the constants that meets the assumptions of the
module: finitely many OpenIDs, a cursor order that contains all of them, any number of
callers, rows, batches, connections, threads, messages, calls, retries.

- **`UnionCacheProofs`.** `MutualInverse` is not inductive, because it says nothing
  while a writer is inside. The invariant adds that exactly the owner of the mutex
  is in a call (`MutexInv`) and, for each position of that writer, how far the
  maps are apart at each pair (`PhaseInv`). In the refinement every step of `Store`
  but the one that leaves `store3` keeps `AbstractBinding`, and that one is the
  abstract operation.
- **`IdentityMapProofs`.** `NoIdentityLost` is about the mark, which is set many steps
  after the entries were copied. The invariant says that every OpenID that was given an
  id has an entry in one of the two databases (`Kept`); that the snapshot a
  verification reads holds nothing that the live database lacks (`SnapshotInv`); and that
  from a good verdict on the new database alone has every such OpenID (`Covered`). A good verdict gives
  `Covered` because it finds every legacy entry in the snapshot, and it stays
  true because no step takes an entry away (`EntriesNeverVanish`). That the batches copy
  everything is not needed: the verdict does not trust them. For installations that never had a
  legacy database (`Legacies = {None}`), and calls that register and look up but do not bind, the invariant
  `FreshInv` says that the two directions of the map agree (`OneToOne`), that a row
  is given once and counted rows are at most the counter (`RowsGiven`), and that no call ever reaches
  a step that would write back (`NoLegacy`). From it follow `DistinctIds`, `RoundTrip`,
  `ReverseConsistent` and `OneVirtualId`, for any number of callers, hashed or
  counted.

  With a legacy database, and calls that register, look up or unbind, the argument
  starts from ownership (`OwnInv`): whatever row is in a table, in a batch or a snapshot, or in
  the hands of a call between two transactions, is one of the rows of the OpenID it is filed
  under. Batches, repairs, dual writes and write-backs only move such pairs about (`OwnStep`); a
  registration must say which row it adds. *Counted* rows belong to an OpenID once they were
  given to it. `CountedInv` adds that they are all at most `Top`, the last row of the database
  the next one comes from, which stays what it is while `Start` and `SyncCounter` copy the counter
  and when the legacy file is deleted; then the next row is nobody's, and `DistinctIds`
  follows. It asks of the legacy database that its counter is not behind its rows
  (`CountedLegacies`). *Hashed* rows belong to the OpenID whose first, nine-digit row they are,
  and `HashedIds` asks that these do not collide. The invariant `HashedInv` is about order: a
  reverse row is never in a database ahead of its entry (`Behind`), nor in a batch, unless the
  entry is in the new database or in the batch too (`BatchBehind`); what the cursor has passed
  is copied, or in the batch (`Copied`), even if a call writes it behind the cursor,
  because it has written the new database first (`NewFirst`). That a batch leaves out no key between two
  that it has, and is full if it leaves any, are facts about finite sets (`BatchIsFirst`, `BatchIsFull`).
  A registration then finds its first choice free, so `OneVirtualId` holds, and the other
  three with it.

  Binds are proved for one call at a time (`OneCaller`), hashed rows and no unbinds, on installations without a legacy
  database: from the lookup on, the bind holds the OpenID that has the row, and from
  the check on the new row is free (`Bound`). From it follow `OnlyBindsMove`,
  `ReverseConsistent` and `RoundTrip`. Each of the restrictions is needed (see "What does not hold", and the
  counter in section 5).
- **`GatewaySessionProofs`.** `ResumeSkipsNothing` needs, of each attached connection, that its
  queue holds the consecutive numbers that end just before `sendNext` and that
  everything before the queue was handled (`QueueInv`); that the session and the
  argument of `newConnect` are never ahead of the handlers (`Covered`); and that
  a session with an id is the one the connection is attached to. `NeverTwice` is
  inductive together with the types. `StopsWhenBanned`, for managers that do not recover,
  needs that a reader reads, and a ban is known, only while `Listening` waits (`BanInv`).

- **`ReverseWsProofs`.** `OneReconnect` follows from what the unlocked flag does: once a
  `Reconnect` has set it, no reader starts another; the reader that does
  start one has returned, so what is replaced is a connection nobody reads (`FlagInv`,
  `ReconInv`); and goroutines of older connections are cancelled (`ConnInv`). `OnlyTheHeartbeatForgets` needs that the
  slice the writer loaded is the list, or the list was cleared since
  (`FailuresInv`).
- **`GroupReceiveProofs`.** What the tracker believes is compared with two databases and a worker that
  copies between them. The invariant says what a call that writes has
  left in the new database (`WritingInv`), that the batch in the worker's hands is still the
  legacy value, or does not matter (`BatchInv`), that the databases disagree only when a
  write is torn or somebody else changed the entry (`TornInv`), that no batch in flight holds a
  deleted value (`DeletedInv`), and that a read under way finds what there is (`ReadingInv`).

  `WindowIsRecent` counts the distinct messages after an entry in all the history there is; `advanceQQGroupReceiveState`
  knows the window only. The proof relates the two without an induction over the history (`Windowed`):
  each entry of the window is its message's last event; the window is in the order of those last
  events, and a message that is not in it has its last event before all that are (`Ordered`); a window that is not
  full has every message of the history (`Counted`). One more event moves one message to the end
  and shifts the others by one (`AdvanceShifts`), so what was last stays last (`HistoryGrows`,
  `WindowAdvances`). For `WindowAfterMention` a mention followed by a normal event must have
  fallen out of the window, hence lies before a whole window of others; `OneKindEach` says that no
  message comes both as a mention and as a normal one.
- **`MessageIdsProofs`.** In memory a row is a row of its message (`OwnRows`), so by
  `RowAssumption` an application's number can only ever name the one message
  (`NeverMisdirected`). `ResolvableUnlessTorn` needs that the handler which is
  about to store a reverse entry stores that of the row in the map (`ReverseInv`), and
  that after a cleaner's first half every entry is a torn one (`TornInv`). `OnlyDoublesAreFatal`
  needs that whoever comes too late was seen with a rival (`RivalInv`). In the database the two
  maps are inverse, the counter is ahead of every row, and what is younger than
  `Keep` is there (`DatabaseInv`).
- **`GroupSendProofs`.** `AnswersNameSent`: QQ takes nothing back, a result "ok" is heard only of a message it has, and
  `resp` of the loop is empty or an item of the same call, sent before this one; of all paths that answer, the ones that had "ok" for
  this very message name it (`AnswerInv`). The types (`Types`) say more than `TypeOK`: what is
  stacked, or read from the stack, is never the message that its call has in hand
  (`Stackable`). `OnlyOverlapsLose` needs that a walk nobody overlapped still looks at the
  array that is the stack, with the message in hand at its index (`WalkInv`); that a removal takes
  nothing but the message at its index, and a push nothing at all, are facts about slices
  (`RemoveKeeps`, `PushKeeps`).
- **`GroupSendSeqProofs`.** `SeqReuseExplained` is about what QQ refuses, long after two
  calls read one number. The invariant `SeqInv` says, of each message id that is not disturbed:
  one call at a time is between reading and last writing its counter (`Alone`),
  and what it read is still there (`Fresh`); every number that a message has at QQ, or is about to be
  posted with (`Holds`), has been counted (`Counted`); the number an upload will use, which is the counter itself, is not
  used yet (`Kept`); and no two messages have one number (`Once`). A message may have it twice: the client sends it again, or two walks
  post what one of them stamped. Each step passes, reads or counts (`Passes`, `Reads`,
  `Counts`), a re-send passes (`ResendPasses`), and other calls see nothing of it (`Others`), because what they have in hand is
  not on the stack.

Model-checked only: liveness and all that needs fairness, which is out of the provers'
reach (`MigrationCompletes`, `ComesBack`, `EventsAreHandled`, `SendersReturn`, `Reconnects`,
`CallsReturn`). Every invariant and action property of a passing run is stated by a theorem, whose
hypotheses the constants of that run meet: `identity_migrate` those of `HashedIds` (with
`NoBinds`), `identity_count` those of `CountedLegacies`, `identity_calls` those of `OneCaller`.

## 5. Plan

Done: the identity map, the union cache, the gateway sessions, the reverse websocket,
the config store with the receive-all detection, the message ids, sending to groups.

1. Extend: binds to rows ahead of the counter with counted ids (`new_service.go:183`); the guessing of
   message types with its shared recursion counter (`send_group_msg.go:885`); the lazy message ids
   (`messageidmap.go:117`).

## 6. Running

    tlc -workers 2 -config MCUnionCache.cfg MCUnionCache
    tlapm UnionCacheProofs.tla
