# A TLA+ development of jsonot

[jsonot](../src/README.md) is a Go library for JSON operational transformation
(OT) with a ShareDB-style collaboration backend in `sharedb/`. This directory
holds TLA+ modules that model it, TLC configurations that check them on small
instances, and theorems about them that TLAPS proves for every instance.

## 1. The system

| Component | Source | State | Operations |
| --- | --- | --- | --- |
| Server | `sharedb/server.go` | `parsedOps` (operations by document and version), `maxRebaseGap` | CreateDocument, Submit, DeleteDocument, RollbackToVersion (under the document's lock); GetSnapshot, GetSnapshotAt, GetOperations, Subscribe (no lock) |
| Memory backend | `sharedb/memory.go` | per document: version, content, operation log | CreateDoc, GetDoc, DeleteDoc, CommitOp, GetOps, each atomic |
| Memory locker, publisher | `sharedb/memory.go` | a mutex per document; subscribers with bounded channels | Lock/unlock; Subscribe, cancel, Publish (drops when a channel is full) |
| Redis backend, locker, publisher | `sharedb/redis.go` | a hash and a list per document, a lock key with a TTL, one pub/sub channel | as above, each a Redis command or script, creation two commands |
| Mailbox | `sharedb/mailbox*.go`, `memory_mailbox.go`, `reconnect.go` | per session: envelopes, acknowledged cursor | Append, ReplayAfter, AckThrough, replay or resync decision |
| Sessions | `sharedb/ws_protocol.go`, `ws_transport.go` | connection (send queue, context, live attachments, close hooks), session registry | connect, submit, acknowledge, live relay, Register/Unregister, Close |
| OT engine | `apply.go`, `transform.go`, `operation.go`, `jsonot.go`, `path.go` | none | Apply, Transform, Compose, Invert on list, object and subtype components |
| Subtypes | `subtype.go` | none | text and number-add functions |
| Diff | `diff.go` | none | operation between two values |
| Values, operators, errors, logging | `value*.go`, `operator.go`, `error.go`, `action.go`, `log.go` | none | adapters and data types |
| Examples | `examples/` | demonstration servers | |

A client's submission reaches `Server.submitCore` directly or through a session
(`HandleSubmit`). The server takes the document's lock, reads the record, looks
for a record of the same identity, transforms the operation over the records
committed since its base version, applies and commits it, caches the parsed
operation, publishes an event and, last, releases the lock. The publisher
hands the event to subscribers; a session's relay wraps it in an envelope,
appends that to the mailbox and sends it. Readers of old versions take no lock:
they copy the record, read it again to check the range, fetch the records and
undo them one by one, through the cache they share with the writers.

What is hard in it:

- a writer decides from copies made many steps before it commits;
- the readers of old versions interleave with everything, and fill the cache;
- a document can be deleted and created again under the same ID, which restarts
  the version counter while copies, cached operations and subscriptions of its
  predecessor are in use;
- retries come late, with old bases, concurrently with the first attempt;
- events must leave in commit order although the publisher drops some;
- ranges count versions from 1 and records from 0;
- with Redis, the lock expires, creation is not atomic, each node has its own
  cache and messages get lost;
- with sessions, replay, live events, reconnection and closing race.

`PROJECT.json` lists these hazards with the line where each bites.

What makes each component correct:

- *Server and backend*: each call takes effect atomically (`ImplementsVersionedDoc`);
  the log matches the version, only grows, holds no identity twice; the cache
  agrees with the log; old versions are read and restored as they were; events
  are in order; every call returns.
- *Redis*: as long as no call writes whose lock has expired: serial versions, no
  submission twice, what was acknowledged is kept, the document is the replay of its
  log, events in order; and until a document is created a second time, no node's cache
  differs from the list and the nodes together are one server
  (`ImplementsVersionedDoc`); the lock always comes free again (`RedisServer`).
- *Mailbox*: what a submission committed has one envelope, the acknowledgement cursor never moves
  back (`Session`, on the operators of `Mailbox`).
- *Sessions*: one live connection per session; what was replayed is not relayed
  again; an attached connection misses nothing; retries are committed once; a closed
  connection's goroutines end (`Session`).
- *OT engine, subtypes*: two parties that exchange transformed components converge,
  inverses undo, also after a transformation, composition equals the operations one
  after the other (`Replicas`).
- *Diff*: the difference of two values takes the one to the other (`Replicas`).

## 2. Modules

| Module | Models | Role |
| --- | --- | --- |
| `DocServer` | `server.go`, `memory.go` | the server on one document, every shared access a step |
| `VersionedDoc` | what the server promises | atomic specification, a log and the documents it produced |
| `RedisServer` | `redis.go`, `server.go` | servers of several nodes on one Redis, with faults |
| `Mailbox` | `memory_mailbox.go`, `reconnect.go` | the envelopes and the cursor of one session, as operators |
| `Session` | `ws_protocol.go`, `ws_transport.go`, `mailbox_dispatch.go` | one session over several connections, on `Mailbox` |
| `TextOT` | `subtype.go` | the text subtype, as operators |
| `JsonOT` | `apply.go`, `transform.go`, `operation.go`, `path.go`, `diff.go`, `jsonot.go`, values, number-add | the OT engine on nested documents, as operators, on `TextOT` |
| `ListOT` | the same on one flat list | the OT functions `DocServer` takes as parameters |
| `Replicas` | two users of the OT engine | parties that edit, exchange, compose, undo and compare, on `JsonOT` and `ListOT` |
| `MCDocServer`, `MCRedisServer`, `MCReplicas`, `MCSession` | | instances for TLC |
| `AnySeq`, `AnySeqTheorems` | | sequences of elements of no known type, and lemmas about them |
| `DocServerProofs`, `DocServerStreamProofs`, `DocServerHistoryProofs`, `DocServerRefinementProofs` | | theorems about `DocServer`, each module on the one before |
| `RedisServerProofs`, `SessionProofs`, `ListOTTheorems` | | theorems about `RedisServer`, `Session`, `ListOT` |

**DocServer.** No call names two documents and all state is keyed by the
document ID, so one document is modelled. A member of `Procs` is a goroutine
that makes one call at a time; `pc` says where it is, `req` which call it makes,
`rec`, `ops` and `acc` are its local variables (`rec`, the records still to go
through, and the operation and document under construction). `stored` is
`memDoc`, `lock` the mutex, `cache` is `parsedOps`, `sub` and `ch` the
publisher's subscribers. An action is one access to shared state together with
the local computation up to the next one:

- submission: `Lock`, `ReadForSubmit`, `Dedup`, `Parse`, then for each record
  `Hit`, or `Miss` and `Fill`, then `Finish`, `Commit`, `CacheCommitted`,
  `Announce`, `Unlock`;
- deletion: `Lock`, `ReadForDelete`, `Delete`, `Clear`, `Announce`, `Unlock`;
- creation: `Lock`, `Create`, `Unlock`;
- rollback: `Lock`, `ReadForRollback`, `CheckRange`, `FetchRange`, the records from
  the newest back, `Finish`, `Commit`, `CacheCommitted`, `Announce`, `Unlock`;
- `GetSnapshotAt`: `ReadForSnapshot` and the same up to `Finish`, without a lock;
- `GetOperations`: `CheckRange`, `FetchRange`.

Early returns go through `Return`, which leads to the deferred unlock where there
is one. Several attributes a request can carry its identity in (`ID`, `Source`,
`Sequence`) are one `source` and one `seq`. `life` (which of the documents created one after
the other is stored), `trail`, `held`, `got` and `lost` are history variables that no
action reads for a decision; an event in `got` carries its `life`, so that the order of
events is defined over deletions and creations. The check of the composed rollback
(`Validation`, `server.go:686`) is left out: its parts are inverses that were parsed and
validated, and `Validates` refuses nothing. Operations and documents are opaque; the OT
functions are constant operators, and `Err` is what they return for a Go error.

The definitions named after another one with a suffix, such as `From_Inclusive`,
are *mutants*: what the definition would be with a plausible bug. Nothing refers
to them. Substituting one must make TLC report the property that `PROJECT.json`
pairs it with, which shows that the property can fail.

**ListOT** has the operators of `apply.go`, `transform.go` and `operation.go` on
one JSON array of simple values: insertions, deletions (which look for their
value, as `IndexFunc` does), no-ops, the transformation of several components,
`Append` with its merging, and the inversion of `server.go:692`.

**VersionedDoc** is what a caller may believe: create, submit, roll back and
delete each happen in one step. `Submit` requires the identity to be new, the
base in the rebase window, and appends the operation rebased over the log from
its base. `Rollback` appends some operation that restores the old document.
`DocServer` implements it with the stored log and `trail` as the refinement
mapping (`ImplementsVersionedDoc`).

**RedisServer.** A step is one Redis command or script with the computation that
follows it, so the actions are coarser than those of `DocServer`: `Since` fetches
the records, fills the node's cache and rebases. `snap` is the snapshot hash (its two
fields can be there one without the other), `oplist` the list of records, `lock` the
lock key with the token of its holder, `cache` the `parsedOps` of each node, `wire` what
pub/sub has still to hand to a node's listener, `ch` its subscriber's channel. Subscribe's
check of the document is one step with its registration here; `DocServer` has them apart.
The faults: every command can fail without effect (`CommandFails`) or take effect
and lose its reply (the disjunct `Faulty` of the action), PUBLISH may reach
only some nodes, the unlock script may fail, and a node can `Crash` between
any two commands, losing its cache and subscriptions and leaving the lock key to its
TTL. A command is sent once: a client library that repeats one whose reply was lost,
as go-redis does unless `MaxRetries` is negative, is not modelled, and a commit script
repeated within one call would push its record twice. `Expire` frees a key nobody will release, and with
`EarlyExpiry` also one whose holder is at work. The code has no fencing token, so
a call whose lock has expired can still write; `overrun` records that one did, and
nothing is claimed from there on (`~overrun` in the properties). That an expired
lock alone, a late unlock, or a crash does no harm is claimed. The refinement of
`VersionedDoc` takes the list for the log and the replays of its prefixes for the
documents; a document whose creation stopped after its first command is none yet. A
second life is left out of it (`FirstLife`), as the caches of other nodes outlive the
first (run `redis_nodes`).

**Session.** A connection's read loop with its handler is one process (`pc`, `job`),
its relay another (`relay`), and the write loop a third (`Write`). Connecting takes
seven steps: subscribe, read the mailbox, send the replay, read the mailbox again
for the version through which live events are skipped, add the close hook,
install the connection in the registry, evict the old one and start the relay. A
connection can `Break` before or after each of them, and the client can `Dial`
again before the server notices. Envelope IDs are numbers in the order of the mailbox.
A submission is refused or found to be a duplicate (`Refused`), committed (`Committed`), or
left with nothing by its transformation (`Emptied`). The last commits nothing and is no
duplicate when it comes again, so each try is answered with an acknowledgement envelope of
its own; `OwnSubmissionOnce` is about what was committed.
The document is reduced to `version` and the sequence of `published` events, among
them deletions. `seen` is a history variable: what a connection was sent
in its replay and live, and whether its subscription overflowed.

**JsonOT, TextOT.** Values are records, so that one operator tells the kinds apart;
a component is a record of its path, kind and operands. Each function of the code is an
operator of the same name or nearly so. `Err` is an error or a panic. Text offsets
count characters where the code counts bytes. `ToValue` and `FromValue`
go through the fields of the JSON form, which loses a null and the identity of a
built text subtype.

**Replicas** drives them: `left` makes up to three components on a document, which are
composed, inverted and compared with the document's difference; or each
side makes one, they exchange them and apply what `TransformComponent` leaves of the
other's. What a party can make is everything its document allows (`Edits`).

## 3. Runs

| Run | Instance | Checks |
| --- | --- | --- |
| `all_calls` | 2 goroutines, 5 calls of every kind, 1 subscriber, channel of 2 | `TypeOK`, `LockedView`, `LogMatchesVersion`, `AtMostOnce`, `StreamInOrder`, `StreamUpToDate`, `HistoryAppendOnly` |
| `writers` | 2 goroutines, 6 calls, rebase window 2 | `SnapshotIsReplay`, `CacheCoherent`, `RebasedOverLog`, `ImplementsVersionedDoc` |
| `history` | 2 goroutines, 5 calls, no deletion, fairness | `SnapshotAtIsHistorical`, `CacheCoherent`, `RollbackRestores`, `EveryCallReturns` |
| `redis` | 2 nodes, 2 goroutines, 4 calls, 1 fault, early expiry, 1 subscriber, fairness | `TypeOK`, `LockedView`, `SerialVersions`, `AtMostOnce`, `AcknowledgedIsKept`, `SnapshotIsReplay`, `StreamInOrder`, `CachesCurrent`, `RebasedInFirstLife`, `ImplementsVersionedDoc`, `LockComesFree` |
| `session` | 2 connections, 1 foreign commit, 2 submit messages or 1 and 2 acknowledgements | `TypeOK`, `OneLiveConnection`, `LiveAfterReplay`, `AttachedMissesNothing`, `OwnSubmissionOnce`, `OneSubmissionPerSequence`, `AckNeverBack` |
| `session_ends` | 2 connections, 1 submission, 1 deletion, fairness | `ClosedConnectionEnds` |
| `ot` | 9 documents, up to 3 components | `Converges`, `ComposedIsSequence`, `UndoRestores`, `RebasedUndoRestores`, `DiffReaches`, `ListOTAgrees` |
| `snapshot_recreate` | 2 goroutines, 6 calls | `SnapshotAtIsHistorical` fails |
| `rebase_recreate` | 2 goroutines, 7 calls | `RebasedOverLog` fails |
| `rollback_replay` | 2 goroutines, 5 calls | `SnapshotIsReplay` fails |
| `redis_nodes` | 2 nodes, no fault, no expiry, 6 calls | `RebasedOverList` fails |
| `session_delete` | 2 connections, 2 commits, 1 deletion | `DeletionIsRelayed` fails |

**Server.** Values and names are model values; goroutines are interchangeable and
symmetric except in the runs with fairness. `MaxCalls` is the only bound on the length
of a behaviour; when the calls are used up and have returned, `Terminated`
stutters, so TLC's deadlock check stays on. A race in this code is between a
writer and another writer or a reader, so two goroutines meet it. Five calls are a
creation and four more: two commits, a retry of one of them and a reader, or a
commit, a deletion, a re-creation and a commit. Six let three commits build a log on
which a submission lies two versions behind, and is rebased over two records in order,
or three, beyond the window of 2. A channel of 2
holds two events in order, and overflows; what comes after the overflow is in order too.

**Redis.** Four calls are a creation, a submission, its retry and a deletion or a
second client; one fault falls on any command of theirs. `CONSTRAINT Serial` stops
at the states after an overrun, of which nothing is claimed. Operations are symbolic
here: each remembers what it was transformed over, a document what was applied
to it, so that any confusion of records shows. The second
client's submission is made on version 0 while the first's may be version 1, in the cache of
one node and not of the other; rebasing over more than one record, or behind more deletions,
is what the theorems add.

**Sessions.** Two connections are one and the one that replaces it. The
channels hold one event and one message, so that each of them fills. Submit messages
are one submission and its retry, on either connection. `CONSTRAINT FewMessages` leaves
out that a client acknowledges as well as retries, two matters that meet only in
the order of the mailbox, and, once another client has committed, that it retries while the
handler of its earlier connection is still at work; the theorems of `SessionProofs`
have neither bound. `CHECK_DEADLOCK FALSE`, as a
client may stop, with every connection closed.

**OT.** The documents hold every kind of value down to depth two, a list with a value
twice, a null, a text of three characters; inserted are a number, a null and a list, and
texts of one and two characters. That is every pair of kinds of component at
equal, neighbouring, nested and unrelated paths. Parties stop after the exchange:
`CHECK_DEADLOCK FALSE`.

**Fairness.** `history` assumes weak fairness of every step a goroutine takes on
its own and strong fairness of `Lock`: Go runs runnable goroutines, and a
`sync.Mutex` goes into starvation mode, where it is handed to the longest waiter,
after a waiter has failed to get it for 1 ms. `redis` assumes that goroutines run and that
the TTL of a lock runs out whose call has crashed, failed to unlock or never learnt that
it got it (`Orphaned`). The lock of a call at work may expire and is never assumed to, so
`LockComesFree` says that every call comes to its unlock or leaves its lock to the
TTL. `session_ends` assumes that handlers and relays run; nothing is
assumed of the client, the network or the write loop. No call is ever
forced to be made.

### What the code does otherwise than it says

- `snapshot_recreate`: `GetSnapshotAt` copies the record and fetches the operations
  without a lock. If the document is deleted, created again and edited up to
  the copied version in between, the new document's operations are undone on the
  old content. The result was never stored.
- `rebase_recreate`: the same reader, holding a record of the deleted document,
  puts its operation into the cache after `DeleteDocument` cleared it. When the
  document has been created again, a stale submission is transformed over it
  instead of over the log.
- `rollback_replay`: a rollback over records that include an earlier
  rollback composes operations that cancel each other into a no-op, and a no-op
  then absorbs the component appended after it at the same index. The document
  is stored as it should be (`RollbackRestores`), but the operation that is logged
  and sent to subscribers does not produce it.
- `redis_nodes`: a deletion clears the cache of the node it is made on. Another node
  keeps the old document's operations, finds them under the versions of the document
  that was created anew, and rebases over them, without any fault or expiry.
- `session_delete`: the relay skips events up to the last version it replayed, and a
  deletion carries that of the last operation, so it is skipped with it. (The run asks
  for an operation that was replayed; a deletion at version 0 is skipped as well,
  as a relay that replayed nothing skips through 0.)

Without a deletion under a reader, on another node or behind a replay, and without
a rollback over a rollback, the properties hold: that is what the passing runs
show. The comment at `server.go:416` also says that the lock is released when
the event is published; it is not, and `StreamInOrder` depends on that.

### Where the OT laws do not hold

The properties of `Replicas` name their exceptions, each of which TLC needs:

- the first element of a list is never replaced or moved (`apply.go:304`, `:316`) and
  nothing is moved back to it: `FromFirst`, `ToFirst`;
- additions to one number that were composed cannot be applied or inverted before they
  were written and read back: the operand the code computes is no JSON number
  (`subtype.go:194`, `value_factory.go:139`, `value_sonic.go:137`). `IsSum`:
  `ComposedIsSequence` says that `Apply` refuses them, and that their JSON form does what
  the additions do;
- a value null counts as missing, in lists and in the JSON form: `OfNull`, `ReplacesNull`;
- components that cancel leave a no-op, which is an error on an object and swallows
  what follows at its path: `IsNoop`;
- a component that makes no difference is not transformed: `MakesNoDifference`;
- one side deletes a key whose value the other replaces, and the replacement is lost
  on one side only: `DeletedAndReplaced`;
- a deletion of the very key a subtype changed keeps its old value (`transform.go:226`
  applies with an empty path): `StaleOldValue`;
- text is deleted at offset 0 only (`subtype.go:593`), and text over text is not
  transformed at all or, when both were built in one process, to wrong offsets
  (`subtype.go:301`): `InText`, `OnOneText`.

With several components on a side, `TransformMatrix` hands back base's components
(`transform.go:148`); `ListOT` has that, and convergence is claimed for
single components only.

### Seen while modelling and stated by no property

- An envelope appended between the two reads of `HandleConnectAndAttachLive`
  (`ws_protocol.go:150`) is neither replayed nor relayed on that connection, so
  `AttachedMissesNothing` counts from the second read.
- A replay is cut at its limit, and later events are relayed at once.
- An event published while a session has no relay never reaches its mailbox.
- If the connection closes just before `startTask`, the subscription stays
  (`ws_protocol.go:373`).
- Inverting a list move changes the path of the move itself (`operation.go:123`);
  the server inverts clones.
- The server caches the operation that a rollback composed without parsing it
  (`server.go:513`). If it holds a composed addition, undoing it from the cache fails,
  in `Invert` with a nil operator; undoing it from the log does not.
- Numeric keys are read as indices by `FirstIndexPath` (`path.go:141`).
- `ObjectOperationBuilder` builds a deletion for a replacement, and
  `NumberAddOperationBuilder` does not build from a float (`operation.go:504`, `:558`).

## 4. Proofs

Each theorem holds for every value of its module's constants: any number of goroutines,
nodes, connections, calls and faults, any sizes of channels and windows, any OT
functions, under the assumptions the module names (`RequestAssumption`: requests are
records of known kinds with integer versions and natural sequence numbers;
`BoundsAssumption`, `ConstantAssumption`, `FreeAssumption`: bounds are numbers, and what
means "nobody" or "nothing" is not a process or a number). TLC evaluates these assumptions
in every run, and checks every property below on its instance.

| Module | Theorems |
| --- | --- |
| `DocServerProofs` | `TypeOK`, `LockedView`, `LogMatchesVersion`, `AtMostOnce`, `HistoryAppendOnly` |
| `DocServerStreamProofs` | `StreamInOrder`, `StreamUpToDate` |
| `DocServerHistoryProofs` | `CacheCoherent`, `RebasedOverLog`, `RollbackRestores`, `SnapshotAtIsHistorical` |
| `DocServerRefinementProofs` | `SnapshotIsReplay`, `ImplementsVersionedDoc` |
| `RedisServerProofs` | `TypeOK`, `LockedView`, `SerialVersions`, `AtMostOnce`, `AcknowledgedIsKept`, `SnapshotIsReplay`, `StreamInOrder`, `CachesCurrent`, `RebasedInFirstLife`, `ImplementsVersionedDoc` |
| `SessionProofs` | `TypeOK`, `AckNeverBack`, `OneLiveConnection`, `LiveAfterReplay`, `AttachedMissesNothing`, `OwnSubmissionOnce`, `OneSubmissionPerSequence` |
| `ListOTTheorems` | on a list: convergence and undoing after a transformation of components, undoing and composing of operations |
| `AnySeqTheorems` | lemmas about sequences of elements of no known type, and induction over lengths |

### Server

*The lock and the log* (`Inv`). `LogMatchesVersion` and `AtMostOnce` are not inductive: a
commit numbers its record from the version its call read, and checks its identity
against the log of that time. So `Inv` adds `LockedView`: a call between `Lock` and
`Unlock` holds the lock (`HoldsLock`); a submission or rollback that has read and not
yet committed has the version that is stored (`ViewIsCurrent`); and after the idempotency
check no record has its identity (`StillFresh`). `HoldsLock` makes whoever writes the
backend the only one who is deciding anything (`OneCritical`, `WriterStep`), all other
steps leave the backend alone (`CalmStep`), and the scan of `Dedup` covers the
whole log because the version it read is its length (`DedupScan`).

*Events* (`StreamInv`). `StreamInOrder` says two things of neighbouring events of a
subscription: the later one is of a later life, a later version or the deletion after it
(`After`), whatever was dropped before or between them; and it is the very next one
(`Follows`) if nothing was lost. Order survives a drop because the last event of a
stream tells of nothing newer than the stored record and precedes what any call has still
to publish (`Past`). That a subscription has no gap needs to be known of events not
made yet: what a call has written and not yet published (`Pending`) is still what is
stored (`Written`), and the last event of a stream that lost none is of the version
before it, or of the stored one if no call has anything to publish (`Latest`).
`LockedView` makes that call the only one. This is where it matters
that the lock is released after the publication.

*Cache and old versions* (`HistoryInv`). Entries of the cache come from calls that hold
copies, with and without the lock, so the invariant relates every copy to the log:
it is of the document's own past (`CopyOK`), the records still to go through are
a slice of the log (`SliceOK`), and the cache has nothing but operations of the log
(`CacheExact`). `RebaseOK` then says that what a submission has computed so far is
the submitted operation over the records before the slice, and `UndoOK` that a
rollback or `GetSnapshotAt` has arrived at the document of the version the slice ends
with. The log only grows (`Grows`), which keeps all this true while others commit. This
is lost when a deletion comes between the steps of a lockless reader, hence the
hypothesis `NoStaleReads`: `GetSnapshotAt` is not called, or `DeleteDocument` is
not. The runs `rebase_recreate` and `snapshot_recreate` show what happens without it.
`SnapshotAtIsHistorical` is about `GetSnapshotAt`, so its hypothesis is `NoDeletes`.
Both it and `RollbackRestores` undo records by `InvertOp`, of which the server
knows nothing; they are stated for logs whose inverses do undo (`Undoable`, `LogUndoable`).
On lists that is `ListUndoes`, for an operation of one component
without more, and of several if they are plain (`PlainUndoes`).

*Refinement*. `ImplementsVersionedDocCorrect` maps the four steps that write the backend
to those of `VersionedDoc`, all others to a stutter (`StepRefines`). On top of the above
it needs what a writer has checked on its way (`Prepared`) and that its copy of the
document is the stored one (`CopiedDoc`). Two hypotheses are about rollbacks, at the moment
of the commit: the composed operation leads to the document that is committed with
it (`RollbacksReplay`), and the records in between could be undone (`RollbacksUndo`).
The first is not always so (run `rollback_replay`), and `SnapshotIsReplay` needs it too.
Without rollbacks both hold: `SubmissionsReplay`, `SubmissionsImplementVersionedDoc`.

`NoDocIsNoRecord` (the model value for "no document" is not a record) is a hypothesis
of these three modules, as TLA+ leaves it open.

### Redis

`Inv` is that of the server with "holds the lock" replaced: a call is `Holding` if it is
between its lock and its unlock and Redis still has its token. Until a call without
that writes (`overrun`), what a holder has read, applied, created,
committed or deleted is still so (`LockedView`), and a deletion leaves no half
document (`NoHalfDeleted`: creation is two commands, and can stop between them).
A lost reply is no special case: the step that takes effect is the same, and only
the call's answer differs. `AcknowledgedIsKept` adds that the record of every answer is in
the list of the document it was made to (`AllKept`), under the hypothesis
`ApplyYieldsContent`: applying an operation to a document yields a document. `StreamInOrder` is
about subscribers on all nodes and what pub/sub has still to hand to them: whatever a
subscriber has got or will be handed is in order, and comes before what any call has still
to publish (`InOrder`, `Known`).

*Caches and rebasing* (`FirstLifeInv`). Nodes never tell one another what to forget, so
a cache is right because what it was filled from stays: as long as the document is there,
every entry is at a version of the list and has that record's operation, and before its
creation there is no entry (`CachesOK`, with `Unmade` that nothing is stored before the first
creation). After a deletion the entries stay, without harm until a second creation
counts versions from 1 again. `AllRebased` then
relates what a call has computed and each record of the list to the submitted
operation and the records from its base on. `RebaseAgrees` is the reason that this stays
true while the list grows: a rebase depends on the records it goes over and on nothing
else. `RebasedWithRightCaches` has no bound on the lives of the document and takes the
agreement of caches and list as its hypothesis instead (`RightCaches`), so that
`redis_nodes` shows the only way in which a submission is rebased over anything else.

*Refinement* (`RefineInv`). `CreateContent`, `Delete` and `Commit` map to the steps
of `VersionedDoc`, with or without their replies, and all others, faults and
crashes included, to a stutter (`StepRefines`). The documents of the abstract
specification are computed from the list, so a commit has to be shown to leave all
earlier ones and to add the one it wrote (`Mapped`, from `SnapshotIsReplay`). What is
assumed of the OT functions is that they yield what they are to yield
(`ApplyYieldsContent`, `TransformYieldsOp`). `ImplementsWithRightCaches` is the
same over any number of lives under `RightCaches`. The condition `~overrun` of all these
properties is void when a TTL outlives its holder's work (`NoOverrunUnderLongTTL`, for
`EarlyExpiry = FALSE`), and with no deletion either nothing is left to assume:
`NodesImplementVersionedDoc` is `Spec => History!Spec`.

### Sessions

The invariant is the conjunction of parts that are proved one on the other: `TypeInv`
(IDs and versions in hand belong to the mailbox and the events, whose versions do not run
ahead), `Registry`, `Replays`, `RelaysOK`, `Subscriptions`, `Kept`, `AckOK` and `OwnOK`.

- `Registry`: an installed connection that is open is the active one or about to be
  evicted by the one that took its place. `OneLiveConnection` follows.
- `Replays` and `RelaysOK`: all that was replayed has a version up to the one the relay
  skips through, all that is relayed a later one; what waits in the channel is behind what
  was relayed. The second read of the mailbox covers the first, since envelopes only
  get more and the replay is cut at its limit in both. `LiveAfterReplay` follows.
- `Subscriptions` and `Kept`: an open connection is subscribed from before the replay, so
  that each event since the second read is sent, in hand or in the channel.
- `AckOK` and `OwnOK`: the acknowledgement of what a submission committed is on its way
  once or in the mailbox once (`Acknowledging`), the relay appends nothing of
  the session's own, and, without deletions, the session's own events are those of its submissions.

A connection's state is changed by its own steps, by the publication of an event and by the
eviction through another connection, and by nothing else (`StepOf`): each part
has one lemma for the own steps and one for those of others.

### Lists

`Apply`, `Compose` and `Invert` are folds of the community modules, whose definition is a
recursive function on sets of places. `ListOTTheorems` builds that function up place by place
for any of the three (`Folds`, `Further`, `Step`), with the least-number principle in place
of an induction theorem, and so proves for operations of every length that folding one with
a component appended is folding the one and then taking a step more (`FoldAppend`). On
this rest, for every list of every length and with repeated values:

- `ListConverges`: two users who each made a component (`Made`) come to the same list;
- `RebasedIsMade`: what the transformation leaves of a component is one that could have
  been made on the other's list, so that it can be applied, undone and transformed there;
- `RebasedUndoes`: its inverse restores that list;
- `ListComposes`: composing two operations, of any number of components, is doing the one
  after the other, unless the composition so far ends somewhere in a no-op at the index of
  the component that comes next, which the no-op swallows (`Swallows`);
- `ListUndoes`: the inverse of an operation of any number of components restores the list,
  with the same exception for the inverse so far;
- `PlainUndoes`: the exception does not come up if no component is a no-op or deletes what
  the one before it inserted (`Plain`); then the inverse is that of each component, from
  the last to the first.

Both inductions rest on `AppendApplies`: a component appended to an operation, merged or
not, is applied after it unless it is swallowed. The operation it is merged with need
not fit the list, as any component leaves one (`ComponentKeeps`). How a rollback over a
rollback goes wrong is the exception of `ListComposes`: the inverses of an insertion and
of the deletion that undid it are composed into a no-op.

### Only model-checked

- `EveryCallReturns`, `LockComesFree` and `ClosedConnectionEnds`: liveness under fairness
  is out of the prover's reach.
- The properties of `Replicas`, except as far as they are about flat lists, where
  theorems have convergence of single components and undoing and composing of several: the operators of `JsonOT` on nested documents are RECURSIVE, and in
  modules that reach such a definition tlapm has no SMT prover.
- Several components over several on lists, which do not converge (section 3).

No theorems, as section 3 shows that they fail: `SnapshotIsReplay` with rollbacks,
`RebasedOverLog` and `SnapshotAtIsHistorical` with deletions under readers,
`RebasedOverList` with a second life of the document, and `DeletionIsRelayed`.

## 5. Left out, and the plan

Not modelled:

- submit middleware, the user's code; `SaveDoc` and `AppendOp`, which have no
  caller; context cancellation, which does not reach the in-memory parts and in the
  Redis parts is one of the failures of a command;
- rollbacks and old versions on Redis, which run the code `DocServer` has;
- `HandleConnect` and `AttachLiveSession`, entry points only the tests call, a second
  connect on one connection, several sessions on one connection;
- several components over several on nested documents; custom subtypes, the
  registry, the builders; sharing of values in memory; floats; key order;
- the two JSON libraries behind the values, texts of errors, logs, the examples.

What could be proved beyond: the text subtype's transformation on insertions; that a
submission retried on Redis gets the version of its first attempt; that a rollback whose
composed inverses swallow nothing replays, which would turn `RollbacksReplay` into a
statement about operations on lists.
