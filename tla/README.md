# Verification of the Remi client SDK

TLA+ models, TLC runs and TLAPS proofs about the Rust crates of this
repository: `remi-client-sdk` (the SDK an app embeds: local storage, Things
documents, synchronisation, authentication, realtime events, search) and
`remi-things-crdt` (the Automerge documents behind Things). Every definition
is translated from the source; `PROJECT.json` maps each to its lines.

## The system

### Components, their state and their operations

| Component | State | Operations |
|---|---|---|
| Things document sync: `things_sync.rs`, `things_sync/pull.rs` | locals of one run (dirty batches, listed keys, reachability filter) over the rows of `crdt_documents` | bootstrap of a device that never synced (stash, delete, pull, replay), push of dirty documents, receive of clean ones, pull of missing ones with a per-document fallback |
| Exchange rounds: `things_sync/session.rs`, `crdt_sync.rs` | an Automerge sync state per document and exchange | rounds of messages, batched over documents, falling back to single documents |
| Remote apply pipeline: `things_local/pipeline.rs`, `things_crdt/persistence.rs`, `document_store.rs` | rows: document bytes, sync state, dirty flag | merge an incoming document, save dirty or clean, delete raw |
| Bootstrap stash: `runtime/things_documents.rs`, `things_local/bootstrap.rs` | one `internal_kv` entry | take, replay onto current documents, drop |
| Local commands: `things_local/` | none of their own | upsert, move, archive, restore, delete of collections and things; text and content entries; action bindings |
| Change log and undo: `things_local/changelog.rs`, `undo.rs` | `things_change_log`, `things_content_snapshots` | record (merging updates within a window), preview, execute undo |
| Event journal: `things_events.rs`, storage | `things_local_events`, broadcast channels of 2048 | append, watch since, acknowledge |
| CRDT operations and views: `remi-things-crdt` | Automerge documents: root, collection, thing content | operations with edit clocks and tombstones, views, compaction |
| Authentication: `auth.rs`, with the profile cache of `profile.rs` | credentials in memory, in the host's secure store, a refresh lock, an app key; one cached profile with a generation | login, signup, logout, refresh, restore; refresh, update and clear of the profile |
| Realtime: `realtime.rs` | configuration, session, one worker with a cancellation token | configure, start, stop; connect, join, heartbeat, reconnect with back-off |
| Search: `search.rs` | an index on disk, a command queue, a status | enqueue, rebuild, flush, search |
| Shared transport: `transport.rs` | a once-cell, a cached channel | configure, get, invalidate |
| Storage: `storage.rs` | one SQLite database, a new connection per call | one statement or transaction per call; claim of anonymous data; wipe |
| Runtime and facades: `runtime.rs`, `runtime/`, `data_lifecycle.rs` | the above, two broadcast channels | forward, notify, enqueue for search, wipe and notify |
| Virtual file system: `runtime/path_tools` | none | list, read, create, edit, move, delete by path |
| Remote clients: `public_client.rs`, `chat_client.rs`, `app_keys_client.rs`, `push_tokens.rs`, `app_update.rs`, `telemetry.rs`, `uri_resolver.rs` | a cached channel or client | one call each |
| Others: `location_service.rs`, `quickjs.rs`, `context_prompt.rs`, `remi_uri.rs`, `datatype.rs`, `domain.rs`, `sentry_integration.rs` | none, or a table of rows | queries, rendering, parsing |

### How they interact

A local command loads the document set, mutates it, and the pipeline saves the
dirty documents, appends event rows, records the change log and broadcasts.
The facade then enqueues the entity for search. A sync run, started by the
host, reads rows, talks to the server and hands what comes back to the same
pipeline. The realtime worker tells the host that there is something to sync.
The authentication client provides the token of every remote call, and its
logout clears the profile cache; the wipe of the local data is a call of the
host. Nothing locks the database across the calls of one operation.

### What makes it hard

* A sync run is a long asynchronous function over rows that commands change
  under it: what it read before an await is stale after it.
* The bootstrap deletes local documents on purpose and must not lose work;
  the process may die between any two of its steps.
* A call may have been executed although its reply is lost.
* Login, logout and refresh of a session overlap, and each writes memory and
  the secure store in two steps.
* Worker tasks are restarted, cancelled and aborted.
* Edits of two replicas meet in a merge that no validation saw.

### What makes each component correct

Document sync: nothing the user made is lost, everything reaches the other
side, synced rows only grow. Rounds: bounded, and a success means both sides
agree. Commands: a thing is live in one collection, the trash can be restored
from. Undo: an operation is undone once, and restores what it promised.
Journal: a watcher that resumes from its last id misses nothing. CRDT: merged
replicas show the same, deletion wins as documented. Authentication: after a
logout no session is left anywhere, memory and store agree, a refresh is not
repeated. Realtime: one worker for the last session. Search: a search sees
what was enqueued before it, and the index follows the rows.

## Modules

| Module | What it is |
|---|---|
| `DocumentSync` | one device, its rows, its stash and the sync run, the server, the user and the failures |
| `DurableChanges` | the abstract store that `DocumentSync` implements |
| `MCDocumentSync` | the instances of `DocumentSync` for TLC |
| `Documents_proofs` | the theorems about `DocumentSync` and about `CrdtReplicas` |
| `SyncSession` | the rounds of a pass over the dirty documents, in a batch and one by one |
| `AutomergeSync` | automerge's sync protocol, as far as the rounds rely on it |
| `ExchangedDocument` | the exchange that `SyncSession` implements for each document |
| `SyncSession_proofs` | theorems about `SyncSession` |
| `MCSyncSession` | the instances of `SyncSession` for TLC |
| `SearchIndex` | the callers, the command queue, the worker and the status of the search index |
| `MCSearchIndex` | the instances of `SearchIndex` for TLC |
| `SearchIndex_proofs` | the theorems about `SearchIndex` |
| `AuthSession` | login, logout, refresh and restore of a session, its secure store and the server's tokens |
| `MCAuthSession` | the instances of `AuthSession` for TLC |
| `AuthSession_proofs` | the theorems about `AuthSession` |
| `ThingsLifecycle` | the commands on collections and things of one device |
| `MCThingsLifecycle` | the instances of `ThingsLifecycle` and `VirtualPaths` for TLC |
| `ThingsLifecycle_proofs` | the theorems about `ThingsLifecycle`, and that calls by path keep what commands keep |
| `VirtualPaths` | the virtual file system: calls by path, each a command of `ThingsLifecycle` |
| `LocalData` | the tables, the statements of every storage function, claim and wipe, the event journal and its watcher |
| `MCLocalData` | the instances of `LocalData` for TLC |
| `LocalData_proofs` | theorems about `LocalData` |
| `ChangeHistory` | the change log, its snapshots and undo, over the documents of `ThingsLifecycle` |
| `MCChangeHistory` | the instances of `ChangeHistory` for TLC |
| `ChangeHistory_proofs` | the theorems about `ChangeHistory` |
| `Automerge` | the documents of the automerge library, as far as the code relies on them |
| `CrdtDocuments` | the operations, views and compaction of `remi-things-crdt`, as operators on documents |
| `CrdtReplicas` | replicas that edit one document apart and merge |
| `MCCrdtReplicas` | the documents `CrdtReplicas` is checked for |
| `Credentials` | whose credentials the services see |
| `ProfileCache` | the cached profile and its generation |
| `Realtime` | the realtime manager and its workers |
| `UserServices` | both beside the sign-ins and sign-outs they follow |
| `MCUserServices` | the instances of `UserServices` for TLC |
| `UserServices_proofs` | the theorems about `UserServices` |

### `DocumentSync`

A document is the set of the changes it holds; Automerge merges by union. The
rows of `crdt_documents` are `local` (bytes), `dirty` and `history` (an
advanced sync state); `stash` is the `internal_kv` entry. `pc` is where the
run of `sync_v3_documents_with_transport_mode` is and `run` are its locals:

| `pc` | Code | Actions |
|---|---|---|
| `idle` | no run | `SyncStart` (reads the dirty rows; `things_sync.rs:364-370`, and the early return at 236) |
| `classify` | `things_sync.rs:240-257` | `Classify`, `ClassifyFails` (rows that cannot be read count as never synced) |
| `stash`, `stashCheck`, `stashRead`, `stashWrite` | `things_sync.rs:397-420`, `things_documents.rs:59-99` | `HadStash`, `StashCheck`, `StashRead`, `StashWrite`, one per connection, and `StashFails` for any of them |
| `list` | `things_sync.rs:421-456` | `ListForBootstrap`, `ListForBootstrapFails` (an error counts as an empty list) |
| `delete` | `things_sync.rs:458-473`, `pipeline.rs:369-386` | `DeleteLocal`, `DeleteDone` |
| `pullPlan`, `pullBatch`, `pullApply`, `pullEach` | `pull.rs` | `PullPlan`, `PullBatch`, `PullBatchFails`, `PullApply`, `PullOne`, `PullSkip`, `PullDone` |
| `replay`, `replayMerge`, `dropStash` | `things_documents.rs:159-187` | `ReplayRead`, `ReplayMerge`, `ReplayFails`, `DropStash` |
| `readDirty`, `push` | phase 1, `things_sync.rs:513-628` | `ReadDirty`, `Exchange`, `ExchangeFails`, `SavePushed`, `SkipFailed`, `PushDone` |
| `listKeys`, `receivePlan`, `receive` | phase 1b, `things_sync.rs:619-815` | `ListKeys`, `ListKeysFails`, `ReceivePlan`, `Exchange`, `ExchangeFails`, `SaveReceived`, `SkipFailed`, `ReceiveDone` |

A step ends where the code awaits or opens another database connection, so
`Edit` (a command), `RemoteEdit` (another device), `Wipe` (logout) and `Crash`
come between any two. The exceptions are these: a commit, which loads and saves,
is one step (`SavePushed`, `SaveReceived`, `ApplySnapshot`, `DeleteLocal`,
`ReplayMerge`, `Edit`); and three plans that read the rows one after another read
them at once (`Classify`, `ReceivePlan`, `PullPlan`). What `ReplayMerge` does beyond the
merge, a root initialised where there is none and entities of the stash brought back
into the merged documents (`bootstrap.rs:54`, `100-106`), are new changes of this
device: they are `Edit`s at `dropStash`. External, and modelled from how `src/` uses it: Automerge
(merge is union; two versions that reuse a sequence number of the device's
actor are refused, `Clash`), the server (it merges what it receives and answers
with the union) and failures. An `Exchange` that succeeds has converged:
`SyncSession` is about this step.

`guarded` is auxiliary and changes no other variable: the local changes made to a
document with a sync history, and those made while no stash is outstanding. A
stash is outstanding (`StashOutstanding`) when one is stored, when the run counts on
one, and from the moment the run has read the rows it is about to store
(`stashWrite`): `things_documents.rs` reads them at line 70 and stores them at 89,
and an edit in between is in the row only. If its document was never synced the
bootstrap deletes that row (`things_sync.rs:461`) and the edit is lost. This is what
the code does, and these edits, with those made later until the stash is dropped, are
what `guarded` leaves out; the properties cover every other change. An edit made
earlier, while the run classifies or asks for an older stash, is guarded.

`DurableChanges` promises that owed changes (`guarded`) stay `kept` until they are
`published`. Its `held` is what a run has read and not yet written: a wipe
empties what is kept, but a run that holds copies may write them back.

### `SyncSession`, `AutomergeSync`, `ExchangedDocument`

`DocumentSync` takes an exchange with the server to be one step that fails or
converges. `SyncSession` is about that step: `sess[d]` is the session of a
document (its document, sync state, last message and replies), `queue` the
documents the fallback has still to do (in any order, as the rows of a batch come
from the database in none), `outputs` what the pass has for the rows.

| Action | Code |
|---|---|
| `StartBatch` | `session.rs:333`: the dirty rows of a pass |
| `Prepare` | the beginning of a round: `Turn` takes in the replies and speaks, for every unfinished session |
| `ServerAnswers`, `Accept` | the call; `Answered` counts repeated rounds |
| `CallFails` | an error of the call, before or after the server took it in, or a response with the wrong documents: the batch is given up and each document starts again from its row |
| `Finish`, `Save` | the outputs; rows are saved clean (`things_sync.rs:557-600`) |

`AutomergeSync` is external. Its messages carry heads, needs, a Bloom filter
and changes; a filter may claim a change its owner lacks (`wrong`), which costs a
round more. What the server keeps of a device between calls is not in this
repository: `memory` is the live state, its encoding, or nothing.

`ExchangedDocument` is what a pass promises: changes reach the server, and a row
is clean only when all of its own have. `ImplementsExchange` says that
`SyncSession` implements it for every document. Two things it does not promise. A
server that keeps the live state believes that it has sent what was in a lost
reply; it then repeats itself until the session gives up, and the row is clean
without the server's changes until their heads differ again
(`SuccessMeansPulled` leaves this server out). And a server that answers a
message with nothing, as the mock transport of the tests does, lets the session
end as well: `Prepare` of the next round finds nothing to say, and the row is
clean although nothing was pushed. The model's server is an automerge peer.

### `SearchIndex`

`rows` is the database and `index` the committed Tantivy index, entity by
entity; a value is the version of the row and 0 stands for none. A call runs
on a thread of the host through `caller[t].at`:

| `at` | Code | Actions |
|---|---|---|
| `idle` | no call | `Save`, `SaveUnsent`, `RemoteApply`, `Wipe`, `Await` (rebuild or flush), `Search` |
| `read` | `things_facade.rs:10-55` | `ReadBack`: some facades read the row again before they enqueue it; `ReadBackFails`: the error is logged and nothing enqueued |
| `mark`, `send` | `search.rs:1217-1266` | `MarkQueued`, then `Send` or `SendFails` |
| `wait` | `recv` on the answer | resumed by `Finish` or `WorkerDies` |
| `look` | `search.rs:1043-1117` | `Look` |

The worker takes commands in order (`Begin`), collects the tables one at a time
for a rebuild (`Collect`; a failed Things snapshot is skipped,
`CollectMisses`), commits (`CommitRebuild`, `CommitApply`, or `CommitFails`) and
answers (`Finish`). `WorkerDies` is a panic in a provider: the channel closes.
`Crash` loses the queue and opens the index that is on disk as ready. External:
Tantivy (a commit is atomic, a writer that is dropped leaves the index) and a
host's own ingest providers.

A command enqueues the one entity it is about, and may change others with it
(`Beside`): deleting, restoring or moving a thing changes the things below it
(`things.rs:328-380`, `552-595`), deleting a collection its things, and system
collections that are missing are created; `things_facade.rs:235-458` enqueues
the named thing or collection only. `SaveUnsent` stands for the changes that
enqueue nothing: actions and seeded actions, notifications that are marked as
read by category or all at once, the replay of the bootstrap's stash. The entries
of all these stay out of date with no race and no failure. A command that
enqueues several entities one after the other (an agent version that is applied,
a chat session with its messages) is a `Save` of one of them.

`stale` is auxiliary: the entities whose entry the code gives no reason to be
right, because they were changed beside the one that was enqueued or by a change
that enqueues nothing, because the read-back failed, because two threads had
changed them and not yet sent either change, because a command failed or was
lost in a crash, or because a wipe cleared the entry of a row it left. An entity
leaves it when a command is about it while nobody holds an older document of it
and there is a worker (`Repairs`), and when a rebuild is committed that read it
after its last change (`missed` is what the rebuild under way read before one).
`SettledIndexMatches` says that nothing else ever
differs once all work is done. `sent`,
`begun` and `done` count commands; `need` and `begun` of a caller are what they
were when its call started.

The index promises less than one would wish: a command that is enqueued while
the worker finishes another one is overlooked by the next search, as the worker's
`Ready` overwrites the caller's `Queued`. `SearchSeesBegunWork` is what holds: a
search waits for what the worker had *begun*, a rebuild above all.

### `AuthSession`

`memory` is `AuthClient.credentials`, `store` the host's secure store and
`lock` the refresh lock; an access token and its refresh token are one numbered
pair. Each call is a task that a step takes from one await to the next,
`task[t].at`:

| `at` | Code | Actions |
|---|---|---|
| `idle` | no call | `Start` (login, logout, refresh, token, clear), `Restore` |
| `loginCall`, `set`, `persist` | `login`, `restore_credentials` | `LoginCall`, `LoginFails`, `SetCredentials`, `Persist`, `PersistFails` |
| `refresh`, `refreshCall`, `refreshSet`, `persist` | `refresh_token` | `RefreshRead`, `RefreshCall`, `RefreshCallFails`, `RefreshSet`, `Persist` |
| `check`, `lock`, `recheck` | `get_access_token_auto_refresh` | `Check`, `Acquire`, `Recheck` |
| `logoutCall`, `logoutAgain` | `logout` | `LogoutCall`, `LogoutCallFails`, `LogoutAgain` |
| `clear`, `clearStore` | `clear_credentials`, `clear_credentials_from_store` | `Clear`, `ClearStore`, `ClearStoreFails` |

`logout` and the restore call `refresh_token` and go on after it
(`RefreshDone`, `RefreshFailed`). External: the server exchanges a refresh
token once (`live`) and ends a session with all its tokens at a logout; a reply
may be lost after the work was done. `expired` are the access tokens that are
within the 60 seconds of the skew, or past them.

`loggedOut` and `torn` are auxiliary: the memory was cleared and not set since;
two calls wrote the memory before the first had saved, or a save failed.

### `ThingsLifecycle`

`state[c]` says whether collection `c` has a document and whether it is
archived; `meta[c][t]` is the entry of thing `t` in that document: `there` (none,
live or tombstoned), `parent` (`parent_id`), `from` (both archive attributes) and
its content `entries`. A tombstoned entry keeps its parent and content entries,
and the thing takes them up again when it comes back. `Home` is the collection
the snapshot shows a thing in.

| Action | Code |
|---|---|
| `UpsertThing` | `things.rs:28`: create, update or move, with or without a list of content entries |
| `MoveThing` | `things.rs:644` |
| `DeleteThing` | `things.rs:296`: archives the thing and all below it in the trash |
| `RestoreThing` | `things.rs:475`: to a named target, to where it came from, or to the drafts |
| `AddContentEntry`, `DeleteContentEntry` | `content.rs:43`, `83` |
| `UpsertCollection`, `EnsureAppCollection`, `DeleteCollection`, `RestoreCollection` | `collections.rs`, `things_local.rs:280` |

`Ensured` makes the system collections, as most commands do first. `ValidParent`
is the check of a given parent in the target document; a command whose check
fails, or whose walk never ends, changes nothing. `Cascaded` is the loop over a
thing and its descendants as one function, and `CanCascade` says when every
parent it sets is accepted in turn. `AddContentEntry` and `UpsertThing` count the
entries they make in `made`; this is a bound and not in the code.

There is one device, and a command is one step: what a merge with another device
does to a document is in `CrdtReplicas`, and that two commands can save over each
other is left out. Statuses, titles and texts have no part in where a thing is.

Two behaviours hold that one might not expect, and the properties say so: a
restored thing may show content entries that were deleted while it lived in
another collection (`RoundTrip` asks for at least what it had), and a thing that
was in the trash before it was deleted is restored into the trash
(`RestoreReaches`). An upsert that changes the collection but lists no entries
leaves them behind, so only the archive, and not every move, keeps them.

### `VirtualPaths`

The calls of `path_tools.rs` that change something, each decoded into one command
of `ThingsLifecycle`; it has no state of its own. `CreateAt`, `EditAt`, `DeleteAt`
and `MoveAlong` are `create_virtual_path`, `edit_virtual_path`,
`delete_virtual_path` and `move_virtual_path`. The collection in the path of a
thing is looked at by none of them, so a path that is out of date still acts on
its thing; the collection and the parent in the path of a directory are the
target. Errors (a read-only path, a wrong kind, a missing argument) change
nothing. An index in a path becomes the entry it names when the call begins, so
any entry of the thing. Three behaviours might not be expected: a thing created
under a name in use is moved, and leaves its content entries behind; a new name
for an archived collection restores it; a new name for a thing whose parent has
left its collection is refused. `EditAt` has a rename as one step; in
`ChangeHistory` it reads first and writes later.

### `LocalData`

`rows[t][k]` is what table `t` holds for key `k`: nothing, an anonymous row or
the row of a user. Rows of one key belong together, which is all the foreign
keys and the deletions of families ask. A storage function is a sequence of
transactions, each a sequence of statements (`Put`, `Del`, `Sweep`, `Take` for
the claim, `Event`, `Fetch`); `Program` gives the sequence of each operation of
the host, named as in `storage.rs`. `Start` (with `SignIn` and `SignOut` for the
lifecycle) commits the first transaction of a call and `Step` each of the next;
`Refused` is a foreign key that fails, `Fails` any other error, `Restart` the
death of the process and the next `initialize`. Between two transactions
everything else may happen, since every call opens its own connection. Foreign
keys are enforced: `rusqlite` is built with its bundled SQLite, whose build
turns them on.

The event journal is `events` with the AUTOINCREMENT counter `lastId`; `Watch`
reads a page after its cursor and `Ack` deletes what it has seen.

Auxiliary: `author` (who was signed in when a row was inserted), `spared` (rows
no completed wipe passed by: written while one ran, or by a call that an earlier
user started, or left by one that failed), `strays` (messages written without a
session) and `lonely` (calls nothing ran beside). The host is taken to wait for
a claim or a wipe to return before the next login or logout, as the comments of
`data_lifecycle.rs` ask; it does not wait for anything else.

### `ChangeHistory`

The documents are those of `ThingsLifecycle` (its operators, and its commands as
actions, through `INSTANCE`). A command saves them in one step and leaves jobs:
the statements on `log` (`things_change_log`) and `snap`
(`things_content_snapshots`, by entry) that follow one by one. `Fails` refuses any
of them, as the code goes on after an entry it could not write (`let _ =`, `if let
Ok`), and `Crash` drops all jobs. Three things are coarser than the code. The search
for a recent entry and the entry's update are one step (`JoinRecent`), and so are the
look for a snapshot and its insertion (`KeepSnapshot`). And where the search itself
fails the code writes a fresh entry (`things.rs:143`), while `Fails` writes none. An undo has commands among its jobs; each leaves
its own jobs in front of the rest.

| Action | Code |
|---|---|
| `Edit`, `Move`, `Delete`, `Restore`, `SetStatus` | `things.rs`, the whole command up to its commit |
| `Rename`, `Retitles` | `path_tools.rs:1504`: reads where a thing is, and upserts it there |
| `UpsertCollection`, `DeleteCollection` | `collections.rs` |
| `Undo` | `undo.rs:4`, `26`: preview, then the operation's commands, the mark, the record |
| `WriteNote`, `JoinRecent`, `KeepSnapshot` | `record_user_change_log`, the search for a recent entry, the snapshot |
| `PutSnapshot`, `PutThingBack`, `DeletesCreated`, `ArchivesCreated`, `ReopensDeleted`, `EndsWithError` | the branches of `execute_undo` |
| `MarkUndone`, `RecordUndo` | `record_undo_change_log` |
| `Cleanup`, `TrimLog` | `cleanup_change_logs`, two transactions |
| `Remote` | a sync changes a thing, without a log entry |

`past` and `history` are ghosts: what the things were before the first change of
an entry, whether its commands ran alone and without an error, when each thing was
changed last. Several behaviours of the code limit what the properties can say,
and they say no more: an entry opened by a change of the status has no snapshot,
and the first edit after it gives it one; an edit joins the recent entry even if
it was undone, and then cannot be undone itself; a deletion that is undone always
reports the conflict "already exists", as what is deleted is in the trash, and any
resolution passes; updates of collections have no snapshot and the undo of one
fails; a restore's entry does not say where the thing came from, and its undo
fails. A clean-up may take an entry away while its command still writes: the
foreign keys then refuse the entries of the cascade (`WriteNote`) and the snapshot
(`KeepSnapshot`), as the bundled SQLite enforces them. A joined entry is up to a
window older than the change it stands for, and is cleaned up that much earlier;
`EveryChangeLogged` allows for it. Two commands whose statements interleave may take their snapshots in
either order; two undos of one entry that run beside each other do not disturb each
other, but the entry that they both write is not spoken of either (`Unshared`).

### `CrdtReplicas`, `CrdtDocuments`, `Automerge`

`Automerge` is external: a document is a set of named operations, merging is
union, writes that did not know of each other stay side by side under one key.
`doc.get` is `Get` (the one that is shown), `doc.get_all` is `GetAll`; which of
the two a line of `ops.rs` or `extract.rs` uses decides what a merge may drop.
`CrdtDocuments` has one operator per operation and per view. `CrdtReplicas` lets
each replica create its own copy (`Create`, as the SDK does at first use), edit it
and receive the copy of another. The properties speak of every edit that is
possible in the state reached (`EditsShow`: for any thing, parent and entry), so
the bounds limit the history before the edit and not the edit.

What the code does promise less of, the properties exclude, and say so: a thing
that has two objects because two devices made the document apart is written in
the one shown and read from the first live one (`Whole`); where two devices each
deleted the object that the other has the thing live by, it is gone from the merge
(`NoThingDropped` asks for one live object that the other has not deleted); a thing with
two lists of content entries takes an addition into the first, where an entry of the
second with the same id hides it (`EditsShow` adds what is not held and updates what
is); two content documents
made apart show one text (of texts, `NothingDropped` compares documents with one list);
`move_block` of the older schema writes under an actor that all replicas share
(`MoveActor`), and two replicas that both moved a block cannot be merged
(`MergesAgree`).

### `UserServices`, `ProfileCache`, `Realtime`, `Credentials`

The two services read the credentials of `AuthClient` whenever they send a
token, and share nothing else; `UserServices` puts them beside the changes of
`user`. A logout empties the profile cache in two steps (`ClearRaises`,
`ClearEmpties`), a login does not.

A profile call is a record that goes from one await to the next:

| `pc` | Code | Actions |
|---|---|---|
| `look`, `read` | `profile_cache_get_for_current_user` | `ReadsUser`, `ReadsCache` |
| `load`, `check`, `store` | `profile_refresh` (and `store` of `profile_update`) | `LoadsGeneration`, `Compares`, `Stores` |
| `ask`, `sent`, `askSet`, `sentSet` | `authed_request` and the reply; an upload has two requests | `Sends`, `Served`, `Fails` |
| `own`, `paint` | `profile_cache_update_avatar_for_current_user` | `Owns`, `Paints` |

The generation keeps a refresh that an update or a logout overtook from storing
what it got. It does so for an update that begins after the refresh and before
the comparison, and `OlderRefreshOverwritesNothing` says exactly this (`late` marks
the other cases: a refresh may begin while the update runs and be served before
it, and the comparison and the store are two steps). An avatar upload raises no
generation, its second request carries the token of whoever is signed in by then,
and what it paints is the entry of whoever is signed in at its end.

`workers` are the tasks that have not ended, `current` the one the manager knows.
A worker goes from `connecting` to `joining` and `joined`, to `waiting` after any
error, and back; it is joined only with the token of its own user, which
`auth_get_access_token` gives it again at each connection and heartbeat. A stopped
worker may still be there for a while (`Vanishes`), and may forward an event that
it had read.

## Runs

| Run | What it shows |
|---|---|
| `sync_safety` | safety and refinement with two failures and a logout anywhere, also between the connections of the stash and of its replay; sequence numbers are reused after the logout |
| `sync_live` | every guarded change reaches the server, every remote change the device, in content that a collection links later too |
| `sync_session` | a pass is an exchange: what is clean was pushed and, from a server that holds nothing back, pulled; no session is cut short |
| `search_safety` | two threads over the first rebuild, with failures of provider, commit and worker, and a crash; no call waits for ever |
| `auth_overlap` | two calls of any kind and the restore, overlapping at every await, with a failure and a crash |
| `things_safety` | where things are after any commands: one collection each, nothing lost in the trash, a restore undoes a deletion |
| `data_safety` | claim, wipe and any two other operations interleaved, with a failure or restart: what is left belongs to who is there, sessions stay deletable, watchers miss nothing |
| `history_tree` | undo, merged edits, cascades, clean-up with one caller, a clock and one fault |
| `history_overlap` | undo with two callers at once |
| `crdt_merge` | merges and edits of two replicas, for the four types of document |
| `crdt_compaction` | *violated*: compaction of a root document empties its view |
| `services` | the profile is that of a signed-in user and not older than a stored update; one worker serves the last session, again and again |

### Bounds

`LocalChange` and `RemoteChange` bound the edits, `MaxFaults` the failures and
crashes, `MaxWipes` the logouts. Two documents, a collection and the content it
links, are the smallest set in which ranks, filters and the deletion of *other*
documents' dirty flags matter. In `sync_safety` the server holds a version of both
from the start (`ServerStart`), so that the first run bootstraps at once, and a
tombstone of the collection may come later; in `sync_live` it starts empty. Two faults allow the pairs that matter (a
crash, then a failed listing). Two changes of one document are needed for an edit that races with its own push.
`CHECK_DEADLOCK` is never switched off for `DocumentSync`: a host can always
start another run.

`SyncSession` has a document with a change of either side on a common base and one
with two changes of this device and none in common; every set of wrongly claimed
changes that touches a change of each side; two passes, two failed calls: one for
the batch, one for a document of the fallback. `MaxRounds` and `MaxStall` are the
code's own 20 and 3. Deadlock is checked.

`SearchIndex` has two things and two threads: `x` is there when the index is first
opened (`Present`) and `z` comes later, each may be changed beside the other.
Every race is one of two calls, with the first rebuild as a third piece of work
in the queue. Entities a wipe leaves (`NotWiped`) and entities outside the
documents are in the proofs only. One failure and one crash come anywhere; the
run is under `FairSpec`, for the calls that must return. Deadlock is not
checked: the threads stop once `MaxCalls` calls are made.

`AuthSession` has two users and two tasks, alike in the safety runs: the races
are of two calls, the persisted session's restore among them, and a third call
only waits for the lock. The safety run has one failure and one crash at any
point. Deadlock is not checked: the host may stop calling.

`ThingsLifecycle` has two things (alike), so parent and child, cycles and
subtrees of two occur; one collection of the user's besides drafts and trash,
enough for a source, a target and the trash; one content entry, made once. No
bound is on the number of commands.

`LocalData` has one key, that is one row per table, in a database that already
holds a row in every table the SDK writes; two calls at a time, two operations,
one login and one logout, one failure or restart. Two operations beside a wipe
are what it takes to write between two of its sweeps and to have a deletion
fail half way.

`ChangeHistory` has a thing and one below it for the tree (three commands, two
seconds, one fault: enough for an edit, a joined edit and the undo, and for a
deletion, its undo and a clean-up) and one thing, a collection and two callers for
the overlaps. A window of no tick and a retention of no tick keep their order (five
minutes, whole days) and make both ends happen within two ticks.

`CrdtReplicas` has two replicas, which is where a key can first have two values,
and two or three edits after the documents are made: one on each side and one
after the merge. The instances share the run: `ReplicasInit` picks one. What two
replicas show of each other's edits needs no more, as the theorems about
`CrdtReplicas` say for any number of either.

`UserServices` has two users, two sign-ins and two sign-outs or configurations:
a user who leaves, another who comes, and one who is replaced. One call asks for
the profile, another is of any kind: every race of the cache is one of two calls.
Four commands to the manager, one configuration that parses and one that does
not, give each order of configure, start and stop. `Init` picks the service, as the
two share only what neither writes. Deadlock is not checked: the calls are made
once.

### Fairness

`FairSpec` of `DocumentSync` adds `WF_vars(RunStep)`: a run that was started
goes on, every await returns or times out (the transport has a request
timeout), and the host starts another run after it. No fairness is assumed of
edits, other devices or failures. The failures are bounded, so this is the
usual reading "once calls stop failing".

`FairSpec` of `SearchIndex` is weakly fair to the worker thread and to every
thread inside a call, as the scheduler is; nobody has to start a call, and
nothing has to fail.

`UserServices` is weakly fair to a worker's timers (the join's deadline, the
back-off) and strongly fair to its connecting and joining: a network that is tried
again and again is there again and again. `LastSessionServed` asks for no more
than a join that comes back; errors may end every connection.

## Proofs

`Documents_proofs` proves about `DocumentSync`, for any documents, changes, ranks, links, numbers
of failures and wipes (`ConstantsAssumption`):

* `TypeCorrect`: `TypeOK` is an invariant;
* `InductiveInvariant`: `Inductive` is one;
* `GuardedChangesAreSafe`: a guarded change (made to a synced document, or while no
  stash is outstanding) is in the row, in the stash or on the server;
* `SyncedRowsAreSafe`, `StashIsSafe`: the two action properties;
* `DurableChangesImplemented`: every behaviour is one of `DurableChanges`.

`GuardedChangesSurvive` is not inductive. A guarded change may be in its row
only, and the bootstrap deletes rows. `GuardedChangesCovered` says why it does
not delete this one. Either the document has a sync history, and the bootstrap
deletes documents without one only; `BootstrapIsGuarded` keeps the two apart, because
no document gets a history while a run is on its way to the deletions. Or there
is no stash and the run claims none, and the row is dirty: then the run must
read that row for a stash before it may delete, and at `stashWrite`, where it has
read the rows, what it read contains the change. `ChangesHaveAnOrigin` (what a run
holds was made here or is on the server) carries the refinement, where the rows
a run has read become the copies of `DurableChanges`. The proof has one lemma per
action and one step per conjunct that the action disturbs.

`SyncSession_proofs` proves for any documents, changes and filters, for at least
two rounds and one repetition (`SessionAssumption`), `SessionsTypeCorrect`,
`SuccessPulls` and `RoundsAreAnExchange`. A success says nothing of how far the
rounds came, so the invariant `ExchangeInductive` has the stages of a session:
until the changes of the row are on the server it is one of the two calls that
take them there (`Pushing`: the first tells the heads, the reply names what is
lacking, the second brings it), and until what the server had is here it is one of
the two that fetch it (`Pulling`). The stages forbid that a session is finished in
between: a repeated round needs a round before it, and the last round is not the
second. `OutputsOK` carries this over to the saving. `NeverCutShort` stays with
TLC: whether the 20 rounds are enough depends on how often other devices push
while a session runs.

`SearchIndex_proofs` proves for any entities, callers and bounds
(`SearchAssumption`): `SearchTypeCorrect` and `SearchReadsCommittedWork`. The
latter needs `Counted` (a command is queued, in the worker's hands or finished)
and `StatusShowsWork` (the status shows work while the worker has a command in
its hands, whatever callers write over it), together `SearchInductive`: a search
that does not wait read a status without work, so nothing was unfinished, and
one that waited was answered by a worker that finishes before it begins.

`IndexSettlesOnRows` needs to know, for every row, where what the index will show
of it comes from while work is under way (`Follows`): from a caller that is about
to send it (`Pending`), from the last command about it in the queue, from the
worker's hands, or it is in the index (`IndexFollows`); and what a rebuild has
collected is the row unless a command about it is to come or it is known to have
missed the change (`CollectedFollows`, kept by every step that changes a row
without a command: `LeftOutWorker`).
`SettledInductive` adds that callers and the worker agree on who waits.
`AnswersComeInTurn` numbers the commands (`Numbered`): what a caller has to see
comes before its own command in the queue.

`AuthSession_proofs` proves for any users, tasks and bounds (`AuthAssumption`)
`AuthTypeCorrect`, `LogoutStays` and `StoreFollowsMemory`. Every step of a task
moves that task alone and keeps, takes or drops the lock (`Moves`), which gives
the types and the lock. The last two need `SavesFollowMemory`: as long as
writers of the memory have saved one after the other, at most one call has
something to save and it is what the memory holds. A refresh writes only into a
session that is there, so `loggedOut` stays.

`TokensAreUsedOnce` is about callers that only ask for tokens. Its invariant
`TokensInductive` says that they refresh under the lock (`AllAllowed`), that the
session is restored once (`OneRestore`, `NotYetRestored`), and that the pair of the
memory has not been used, unless its successor is on its way (`PairsInUse`,
`MemoryIsLive`).

`ThingsLifecycle_proofs` proves for any things, collections and entries
(`LifecycleAssumption`) `LifecycleTypeCorrect`, `LifecycleInductive`,
`NothingDisappears` and `EntriesGoAlong`. A command lets a thing be, edits its
content entries or makes it go somewhere (`Goes`); `ProperKeeps` shows once that
this keeps everything, and one lemma per command that it is what the command
does. `Inductive` is needed as a whole: `ArchivedInTrash` holds because a
collection that is left keeps no archive attribute, and `OneHome` is what makes
the collection of the snapshot the one that is left.

`RoundTrip` and `RestoreReaches` are state predicates, and follow from
`Inductive` (`RestoreGoesHome`, `RestoreUndoesDeletion`). `Relocated` says what a
cascade does to all it moves. `RoundTrip` needs more, as the restore has to find
the same things below the root, and every parent valid: that speaks of walks
along parents of any length. `AboveIsClosed` shows that `Above`, a recursive
function of as many steps as there are things, is the least set that has the
parent of a thing and, with every thing, its parent; its one induction is over
the length of the walk, by the least number for which it fails (`LeastNatural`:
an instance of the library's induction would need an operator as a parameter).
All else about walks (`SameWalk`, `AboveTransitive`, `ShorterWalk`,
`BelowAsBefore`) follows from that. `NoOwnParent` was added to `Inductive` for
this proof: the root takes up in the trash the parent of its old entry there,
and if that could be the root itself, nothing below it would come back. The proof
also showed a premise that two things are too few for TLC to miss: below a cycle
of parents, the walk that checks the parent on the way back never ends, so
`RoundTrip` speaks of things whose walk ends.

The paths: `PathsAreCommands` is the refinement `PathSpec => Spec`. Where
`Inductive` holds, the arguments that a path is decoded into (`OptionalParent`,
`RenameIsUpsert`) are those of a command, so a call by path is a step of `Next`.
`PathsInductive`, `PathsLoseNothing` and `PathsRestore` follow.

`LocalData_proofs` proves for any users, keys, calls and bounds
(`LocalDataAssumption`) and any set of operations (`OperationsAssumption`) the
four invariants of `data_safety`: `NothingIsBehindTheCursor`, `OthersRowsGo`,
`MessagesKeepTheirSession` and `WipesGoThrough`. What a transaction leaves is a
recursive function over its statements (`After`); the lemmas about it go by the
least number of statements that would be a counterexample (`LeastNatural`). The
three theorems about rows share `RowsInvariant`: what a running wipe has swept is
empty but for what was written meanwhile (`SweptTablesSpared`), past its messages
a deletion or a wipe has left none but strays (`MessagesAreStrays`), and beside a
call that runs alone nothing brings a content snapshot back
(`LonelyCallsAlone`), whose foreign key is the one that could stop the wipe.

`ChangeHistory_proofs` proves, for any things, collections, callers, times,
retention and number of commands (`HistoryAssumption`, `SnapshotAssumption`,
`DocumentsAssumption`), `HistoryTypes`, `UndoneToTheEnd`, `SnapshotsOutlive`,
`ChangesAreLogged` and `UndoBringsBack`. None of `YoungKeepSnapshots`, `MarkedIsUndone` and
`EveryChangeLogged` is inductive: between the commit of the documents and the last
statement on the log they are not even meant to hold. The invariant adds what is
still due. `SnapshotsDue`: an entry that ought to have a snapshot has it, or a
caller's next job is to write it (`KeepDue`); a clean-up cannot take it before the
entry, as a snapshot is never older (`SnapFits`). `ChangesLogged`: a change is in the
log, or some caller has it among its jobs (`Due`), as an entry of its own, one of a
cascade whose root is in the log or ahead of it (`Rooted`), or a restore. What
makes this a fact about lists of jobs is `Sound`: an entry is followed by its
snapshot, entries come before the other jobs of an undo, and only the record is
behind the mark. Jobs that are pushed in front of others keep it (`SoundConcat`), and
so does doing the first (`SoundRest`). An error or a crash spoils the entries that
the caller was about to complete (`SpoiledStay`), which is what `clean` in the
properties stands for.

`UndoTakesBack` speaks of one moment, when an undo comes to its mark; what carries it
there is a second invariant over the first, `Faithful`. `RowTold` and `SnapTold` say
that an entry and its snapshot show what its command saw before the change, `CallerTold`
says the same of jobs that are not done yet. `Family` is about deletions: each thing
below has its entry, with a snapshot that a clean-up does not take before that of the
root, or the caller that deletes has it among its jobs. `Progress` follows the undo:
what is not back yet is still among its jobs (`Reached`). That it stays back needs
that nobody else changes documents meanwhile (`AloneTold`: beside it there are only
undos of the same entry, which do the same, and renames that have not begun), and
that a thing is in one collection at a time (`OneHome`, as in `ThingsLifecycle`).
The proof found that an entry opened by one of two undos of one entry has to be left
out of the property: the other may write its snapshot into it.

### Replicas of a document

`Documents_proofs` also proves about `CrdtReplicas`, for any number of replicas,
edits, things, collections, entries and blocks: `OneNameOneOperation`
(`MergesAgree`) and `MergesDropNothing` (`NothingDropped`). It assumes that an actor
is a positive number (`ReplicasAssumption`), that a document is of one of the four
types and has finitely many things, none of them named like a field
(`InstancesAssumption`: a thing is named by a UUID).

Neither is inductive. `CrdtInv` adds to them what every operation of `ops.rs` keeps to:

* every document is well formed (`WellFormed`: names are below its top, an element
  stands after an earlier one of its list);
* what a replica knows of another's operations, that other one made (`Made`), so
  a name that an edit gives is new to all;
* one name stands for one operation (`Alike`);
* no replica hides or erases an operation under a key that its type keeps (`Stay`,
  `KeptKeys`): the lists of collections, the maps and the objects of things, the mark
  of a tombstone, the content, its blocks and their texts. This is where each
  operation matters: a `PutObject` over a list that is there would break it;
* a tombstone never comes without its mark (`Tombstones`), and a block or a content
  never without its text and list, which are the next operations of the same actor
  (`Shape`).

`Grows` is the one statement about an edit from which all of this follows: which
operations it makes, and under which keys it hides. There is a lemma `Grows...` for
each step of automerge and from those one for every operation of the four types,
through the loops over entries, characters, things and descendants. What a view shows
rests on lemmas about the operators: `InOrder` lists a set once each,
`Ordered` reads the tree of a list to the end (`OrderedProperties`, by induction on
how many names come later), `Elements` are what was inserted and not erased.

A merge then keeps every operation under a kept key and every element of a list
(`Retains`), and an element is missing from its view only when one side erased it.

`UserServices_proofs` proves for any users, calls, configurations and bounds
`AnswersAreOwn`, `OlderRefreshesLose` and `NoStrayWorker`. For the first, whatever a
call has read, sent or got belongs to a user it has met (`HoldsOwn`), and it meets
who is signed in (`MeetsUser`). The second needs `Versions`: a refresh that may still
store (it is at `store`, or its generation is the present one) has no update running
beside it and holds the server's latest name, since an update that begins either
raises the generation or finds the refresh past its comparison. For the third,
workers are numbered by the commands, so that a new one is no old one
(`WorkersType`). `LastSessionServed` is about fairness and is model-checked only.

Liveness and everything under fairness is model-checked only: the prover has no
rules for `ENABLED` that would carry it. So are two kinds of invariants.
`NeverCutShort` depends on the numbers: whether a session is cut short is a matter
of how many rounds its documents need and how many there may be. And of
`CrdtReplicas`, what is computed from a document and not only kept in it:
`EditsShow` and `NoOwnCycle` follow parents and clocks through the merged objects,
`CompactionKeepsContent` says that a document typed anew, character by character,
reads the same in the same order.

## Disagreements with the source's own words

`crdt_compaction` checks what a comment of the repository says and finds a
behaviour that does otherwise; `PROJECT.json` quotes the line. Modelling met more
behaviours that a reader of the code may not expect. The properties of the other
runs are stated so that they leave exactly these out:

* the bootstrap's stash is a snapshot of an earlier moment: an edit of a never-synced
  document between the reading of the dirty rows (`things_documents.rs:70`) and the
  deletion of the row (`things_sync.rs:461`) is lost (`guarded` in `DocumentSync`);
* only a run of the bootstrap looks at the stash: a crash and then a failed
  listing leave it in the database for ever;
* a wipe leaves notifications, agent versions and evaluations, and the next login
  claims those of them that have no owner (`LocalData`); what a call writes while
  it runs may stay too (`spared`);
* a save of a login or a refresh may come after the clear of an overlapping
  logout, and a refresh the host asks for takes no lock (`AuthSession`: `torn`);
* a search overlooks a change that is enqueued while the worker finishes another
  command (`SearchIndex`), and two threads may enqueue their changes of one row
  in either order (`stale`);
* what a command changes beside the entity the facade enqueues (the things below one
  that is deleted or restored), changes of kinds that are never enqueued and changes
  whose reading back fails stay out of date in the index until a later command
  about them or a rebuild (`stale`);
* a refresh of the profile may store what is older than an update that began
  before it (`ProfileCache`: `late`);
* a thing that comes back to a collection takes up its old parent unchecked, which
  can make a cycle, and walks of descendants do not end on one; a thing below a
  cycle can be deleted, but its restore walks for ever (`ThingsLifecycle`);
* an undo of an update leaves content entries in place that the update added, and
  an undo of a deletion always reports a conflict (`ChangeHistory`);
* a thing that two devices made apart and that each then has live by one object and
  deleted in the other is gone when they merge (`CrdtReplicas`);
* a commit saves the documents and then the events (`pipeline.rs:217`): a failure
  in between leaves a change that the journal does not tell (`LocalData` has the
  events of a call as one of its transactions).

## Plan

In this order; each step is a module (or a pair) with its runs, then proofs.

Done, each with its runs: `DocumentSync`, `SyncSession`, `SearchIndex`,
`AuthSession`, `UserServices`, `ThingsLifecycle`, `VirtualPaths`, `ChangeHistory`, `LocalData`
(claim, wipe and event journal) and `CrdtReplicas` (merges and compaction), all
with proofs.

Next, in this order:

1. Overlapping commits: load, mutate and save of two commands and a remote apply
   over one database.
2. `SearchIndex` with changes that a host's own provider answers.
3. The once-cell and the channel of `transport.rs`.

## Not modelled

Rendering, parsing and formatting (`context_prompt.rs`, `remi_uri.rs`, the
view side of `path_tools`), SQL queries without a state change, the HTTP calls
of `location_service.rs`, the QuickJS interpreter, telemetry and logging: they
keep no state between calls. The once-cell and the cached channel of
`transport.rs` and the clients with one call each (`chat_client.rs` and the like)
are small state machines that nothing else relies on but for their failures,
which the models have. A commit is one step, though the code loads and saves with
two connections: overlapping commits are left to a module of their own.
