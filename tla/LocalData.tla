------------------------------ MODULE LocalData ------------------------------
(***************************************************************************)
(* The local database of the SDK (remi-client-sdk/src/storage.rs): its     *)
(* tables, the statements every storage function executes, one commit at a *)
(* time, and the two calls of the host that sweep all tables: the claim    *)
(* after a login and the wipe after a logout.                              *)
(*                                                                         *)
(* A row is what a table holds for a key; rows of one key belong together  *)
(* (a chat session, its messages, its place in the dataset of that key).   *)
(***************************************************************************)
EXTENDS Naturals, Sequences, FiniteSets, FiniteSetsExt, SequencesExt

CONSTANTS
  User,
  Key,
  Call,        \* calls of the host that may run at the same time
  None,        \* nobody: user_id IS NULL, and nobody signed in
  Absent,      \* no row
  Ops,         \* the operations the host calls
  Used,        \* tables that hold rows when a run starts, written by nobody
  MaxWrites,   \* bound on the operations called, sign-ins and sign-outs aside
  MaxSwitches, \* bound on sign-ins and sign-outs
  MaxFaults,   \* bound on failing statements and on deaths of the process
  Page         \* the limit a watcher passes to watch_since

ASSUME LocalDataAssumption ==
  /\ None \notin User /\ Absent \notin User \cup {None}
  /\ MaxWrites \in Nat /\ MaxSwitches \in Nat /\ MaxFaults \in Nat
  /\ Page \in Nat \ {0}

Table ==
  {"actions", "action_invocations", "preferences", "preference_sync_state",
   "things_state", "chat_sessions", "internal_kv", "chat_messages",
   "chat_runtime_state", "agent_versions", "eval_datasets",
   "eval_dataset_sessions", "eval_dataset_runs", "eval_dataset_run_items",
   "eval_dataset_run_evals", "things_change_log", "things_content_snapshots",
   "location_cache", "crdt_documents", "notifications", "things_actor_meta"}

\* The foreign keys between tables, child first; the first two cascade.
Cascading == {<<"eval_dataset_sessions", "eval_datasets">>,
              <<"eval_dataset_sessions", "chat_sessions">>}
Restricting == {<<"things_content_snapshots", "things_change_log">>}

\* Tables without a user_id column.
Unowned == {"preference_sync_state", "chat_runtime_state", "location_cache",
            "things_actor_meta"}

VARIABLES
  rows,      \* [Table -> [Key -> Absent, None or the user_id]]
  events,    \* table things_local_events: [id, kind]
  lastId,    \* sqlite_sequence of things_local_events
  cursor,    \* the last event id the watcher has seen
  seen,      \* (auxiliary) ids of the events the watcher has seen
  call,      \* [Call -> [op, arg, by, at]]: the next transaction of a call, and
             \* who was signed in when it started
  signedIn,  \* the user the host has signed in, or None
  author,    \* (auxiliary) [Table -> [Key -> who was signed in at the insert]]
  spared,    \* (auxiliary) rows that no completed wipe has passed by: written
             \* while one ran, or left by one that failed
  strays,    \* (auxiliary) keys whose message was written without a session
  lonely,    \* (auxiliary) calls nothing has run beside
  writes, switches, faults

data == <<rows, author, spared, strays>>
journal == <<events, lastId>>
watcher == <<cursor, seen>>
bounds == <<writes, switches, faults>>
vars == <<data, journal, watcher, call, signedIn, lonely, bounds>>

Has(t, k) == rows[t][k] # Absent

----------------------------------------------------------------------------
(* Statements and transactions                                             *)

\* INSERT (or upsert), DELETE of one key, DELETE and claim of a whole table,
\* INSERT into things_local_events.
Put(t, k) == [does |-> "put", table |-> t, keys |-> {k}, arg |-> None]
Del(t, k) == [does |-> "del", table |-> t, keys |-> {k}, arg |-> None]
Sweep(t) == [does |-> "del", table |-> t, keys |-> Key, arg |-> None]
Take(t, u) == [does |-> "take", table |-> t, keys |-> Key, arg |-> u]
Event(kind) == [does |-> "event", table |-> "things_local_events", keys |-> {}, arg |-> kind]

\* A child is inserted next to its parents; a parent goes before no child.
Permitted(r, s) ==
  CASE s.table \notin Table -> TRUE
    [] s.does = "put" ->
         \A fk \in Cascading \cup Restricting :
           fk[1] = s.table => \A k \in s.keys : r[fk[2]][k] # Absent
    [] s.does = "del" ->
         \A fk \in Restricting :
           fk[2] = s.table =>
             ~\E k \in s.keys : r[fk[2]][k] # Absent /\ r[fk[1]][k] # Absent
    [] s.does = "fetch" -> \A k \in s.keys : r[s.table][k] # Absent
    [] OTHER -> TRUE

\* An upsert keeps the user_id of the row, an insert leaves it NULL.
Effect(r, s) ==
  CASE s.table \notin Table -> r
    [] s.does = "put" ->
         [r EXCEPT ![s.table] =
            [k \in Key |-> IF k \in s.keys /\ @[k] = Absent THEN None ELSE @[k]]]
    [] s.does = "del" ->
         [t \in Table |->
            IF t = s.table \/ <<t, s.table>> \in Cascading
            THEN [k \in Key |-> IF k \in s.keys /\ r[s.table][k] # Absent
                                THEN Absent ELSE r[t][k]]
            ELSE r[t]]
    [] s.does = "take" ->
         [r EXCEPT ![s.table] =
            [k \in Key |-> IF @[k] = None THEN s.arg ELSE @[k]]]
    [] OTHER -> r

\* The rows after the first i statements of a transaction.
After(r, tx) ==
  LET run[i \in 0..Len(tx)] == IF i = 0 THEN r ELSE Effect(run[i - 1], tx[i])
  IN run
Commits(r, tx) == \A i \in 1..Len(tx) : Permitted(After(r, tx)[i - 1], tx[i])

----------------------------------------------------------------------------
(* The storage functions, as sequences of transactions                     *)

Alone(s) == <<s>>
EachAlone(ss) == [i \in 1..Len(ss) |-> <<ss[i]>>]

ClaimOrder ==
  <<"preferences", "things_state", "chat_sessions", "chat_messages",
    "agent_versions", "eval_datasets", "eval_dataset_sessions",
    "eval_dataset_runs", "eval_dataset_run_items", "eval_dataset_run_evals",
    "things_change_log", "things_content_snapshots", "crdt_documents",
    "internal_kv", "notifications">>

ClaimAnonymousData(u) ==
  EachAlone([i \in 1..Len(ClaimOrder) |-> Take(ClaimOrder[i], u)])

\* Mutant: the change log goes before the snapshots that refer to it.
WipeOrderParentFirst ==
  <<"action_invocations", "actions", "chat_messages", "chat_sessions",
    "things_local_events", "things_change_log", "things_content_snapshots",
    "crdt_documents", "preferences", "preference_sync_state", "things_state",
    "location_cache", "internal_kv", "things_actor_meta">>

WipeOrder ==
  <<"action_invocations", "actions", "chat_messages", "chat_sessions",
    "things_local_events", "things_content_snapshots", "things_change_log",
    "crdt_documents", "preferences", "preference_sync_state", "things_state",
    "location_cache", "internal_kv", "things_actor_meta">>

Wiped == ToSet(WipeOrder)

\* Mutant: the tables after the change log are left.
WipeAllDataToTheLog == EachAlone([i \in 1..7 |-> Sweep(WipeOrder[i])])

WipeAllData == EachAlone([i \in 1..Len(WipeOrder) |-> Sweep(WipeOrder[i])])

WipeAllDataAndNotify == WipeAllData \o <<Alone(Event("data_wiped"))>>

SaveCrdtDocument(k) == <<<<Put("crdt_documents", k), Put("internal_kv", k)>>>>
DeleteCrdtDocument(k) == <<<<Del("crdt_documents", k), Put("internal_kv", k)>>>>
DeleteAllCrdtDocuments(k) == <<<<Sweep("crdt_documents"), Put("internal_kv", k)>>>>
SetInternalKv(k) == <<Alone(Put("internal_kv", k))>>
DeleteInternalKv(k) == <<Alone(Del("internal_kv", k))>>

\* A command on things: the document and its event, then the change log and
\* the snapshot of what the thing was before.
InsertThingsChangeLog(k) == <<Alone(Put("things_change_log", k))>>
InsertThingsContentSnapshot(k) == <<Alone(Put("things_content_snapshots", k))>>
ThingsCommand(k) ==
  SaveCrdtDocument(k) \o <<Alone(Event("changed"))>>
    \o InsertThingsChangeLog(k) \o InsertThingsContentSnapshot(k)

UpsertChatSession(k) == <<Alone(Put("chat_sessions", k))>>
UpsertChatMessageJson(k) == <<Alone(Put("chat_messages", k))>>
DeleteChatMessages(k) == <<Alone(Del("chat_messages", k))>>
UpsertChatRuntimeStateJson(k) == <<Alone(Put("chat_runtime_state", k))>>
DeleteChatRuntimeState(k) == <<Alone(Del("chat_runtime_state", k))>>

\* Mutant: the session goes first.
DeleteChatSessionFirst(k) ==
  <<Alone(Del("chat_sessions", k)), Alone(Del("eval_dataset_sessions", k)),
    Alone(Del("chat_messages", k)), Alone(Del("chat_runtime_state", k))>>

DeleteChatSession(k) ==
  <<Alone(Del("eval_dataset_sessions", k)), Alone(Del("chat_messages", k)),
    Alone(Del("chat_runtime_state", k)), Alone(Del("chat_sessions", k))>>

CreateAgentVersion(k) == <<Alone(Put("agent_versions", k))>>
DeleteAgentVersion(k) == <<Alone(Del("agent_versions", k))>>

CreateEvalDataset(k) == <<Alone(Put("eval_datasets", k))>>
AddSessionToDataset(k) == <<Alone(Put("eval_dataset_sessions", k))>>
RemoveSessionFromDataset(k) == <<Alone(Del("eval_dataset_sessions", k))>>
CreateEvalDatasetRun(k) ==
  <<<<Put("eval_dataset_runs", k), Put("eval_dataset_run_items", k)>>>>

\* The evaluations of a run are deleted and inserted again.
SaveEvalDatasetRunEvals(k) ==
  <<<<Del("eval_dataset_run_evals", k), Put("eval_dataset_run_evals", k)>>>>

DeleteEvalDataset(k) ==
  <<<<Del("eval_dataset_run_evals", k), Del("eval_dataset_run_items", k),
      Del("eval_dataset_runs", k), Del("eval_dataset_sessions", k),
      Del("eval_datasets", k)>>>>

InsertNotification(k) == <<Alone(Put("notifications", k))>>
DeleteNotificationsByCategory(k) == <<Alone(Del("notifications", k))>>

SetLocationCache(k) == <<Alone(Put("location_cache", k))>>
DeleteLocationCache(k) == <<Alone(Del("location_cache", k))>>
ClearLocationCache == <<Alone(Sweep("location_cache"))>>

UpsertThingsActorMetaBatch(k) == <<Alone(Put("things_actor_meta", k))>>

\* An action is fetched and executed, its result inserted.
Fetch(t, k) == [does |-> "fetch", table |-> t, keys |-> {k}, arg |-> None]
ExecuteActionNow(k) ==
  <<Alone(Fetch("actions", k)), Alone(Put("action_invocations", k))>>

\* The transactions of a call; arg is a key, or the user of a claim.
Program(op, arg) ==
  CASE op = "claim" -> ClaimAnonymousData(arg)
    [] op = "wipe" -> WipeAllData
    [] op = "wipe_and_notify" -> WipeAllDataAndNotify
    [] op = "save_document" -> SaveCrdtDocument(arg)
    [] op = "delete_document" -> DeleteCrdtDocument(arg)
    [] op = "delete_documents" -> DeleteAllCrdtDocuments(arg)
    [] op = "set_kv" -> SetInternalKv(arg)
    [] op = "delete_kv" -> DeleteInternalKv(arg)
    [] op = "things_command" -> ThingsCommand(arg)
    [] op = "upsert_session" -> UpsertChatSession(arg)
    [] op = "delete_session" -> DeleteChatSession(arg)
    [] op = "upsert_message" -> UpsertChatMessageJson(arg)
    [] op = "delete_messages" -> DeleteChatMessages(arg)
    [] op = "upsert_runtime_state" -> UpsertChatRuntimeStateJson(arg)
    [] op = "delete_runtime_state" -> DeleteChatRuntimeState(arg)
    [] op = "create_version" -> CreateAgentVersion(arg)
    [] op = "delete_version" -> DeleteAgentVersion(arg)
    [] op = "create_dataset" -> CreateEvalDataset(arg)
    [] op = "delete_dataset" -> DeleteEvalDataset(arg)
    [] op = "add_to_dataset" -> AddSessionToDataset(arg)
    [] op = "remove_from_dataset" -> RemoveSessionFromDataset(arg)
    [] op = "create_run" -> CreateEvalDatasetRun(arg)
    [] op = "save_evals" -> SaveEvalDatasetRunEvals(arg)
    [] op = "notify" -> InsertNotification(arg)
    [] op = "delete_notifications" -> DeleteNotificationsByCategory(arg)
    [] op = "cache_location" -> SetLocationCache(arg)
    [] op = "delete_location" -> DeleteLocationCache(arg)
    [] op = "clear_locations" -> ClearLocationCache
    [] op = "save_actors" -> UpsertThingsActorMetaBatch(arg)
    [] op = "execute_action" -> ExecuteActionNow(arg)

Operation ==
  {"save_document", "delete_document", "delete_documents", "set_kv",
   "delete_kv", "things_command", "upsert_session", "delete_session",
   "upsert_message", "delete_messages", "upsert_runtime_state",
   "delete_runtime_state", "create_version", "delete_version",
   "create_dataset", "delete_dataset", "add_to_dataset",
   "remove_from_dataset", "create_run", "save_evals", "notify",
   "delete_notifications", "cache_location", "delete_location",
   "clear_locations", "save_actors", "execute_action"}
Lifecycle == {"claim", "wipe", "wipe_and_notify"}

\* The database was used before anybody signed in: whole families of rows.
ASSUME OperationsAssumption ==
  /\ Ops \subseteq Operation
  /\ Used \subseteq Table
  /\ \A fk \in Cascading \cup Restricting : fk[1] \in Used => fk[2] \in Used

----------------------------------------------------------------------------
(* Calls                                                                   *)

Idle == [op |-> "idle", arg |-> None, by |-> None, at |-> 0]
Busy(c) == call[c] # Idle
Wiping == \E c \in Call : call[c].op \in {"wipe", "wipe_and_notify"}
Switching == \E c \in Call : call[c].op \in Lifecycle

\* Mutant: the next id is the largest in the table and one more.
NextIdOfTable == IF events = {} THEN 1 ELSE Max({e.id : e \in events}) + 1

\* things_local_events is AUTOINCREMENT: an id is never given twice.
NextId == lastId + 1

Present(r) == {at \in Table \X Key : r[at[1]][at[2]] # Absent}
Inserts(tx) == {s \in ToSet(tx) : s.does = "put"}

\* What the auxiliary variables record of the rows a transaction inserts for
\* somebody.
Records(tx, by) ==
  LET after == Present(rows')
      new == {<<s.table, k>> : s \in Inserts(tx), k \in Key} \cap after
      late == Wiping \/ by # signedIn
  IN /\ author' = [t \in Table |-> [k \in Key |->
                     IF <<t, k>> \notin after THEN None
                     ELSE IF <<t, k>> \in new /\ (~Has(t, k) \/ by # None)
                     THEN by ELSE author[t][k]]]
     /\ spared' = after \cap (spared \cup IF late THEN new ELSE {})
     /\ strays' = {k \in Key : <<"chat_messages", k>> \in after /\
          \/ k \in strays
          \/ <<"chat_messages", k>> \in new /\
             (~Has("chat_sessions", k) \/ Wiping \/ \E d \in Call : call[d].op = "delete_session")}

\* Transaction i of a call commits, and the call goes on or returns.
Commit(c, op, arg, by, i) ==
  LET p == Program(op, arg)
      tx == p[i]
  IN /\ Commits(rows, tx)
     /\ rows' = After(rows, tx)[Len(tx)]
     /\ Records(tx, by)
     /\ IF tx[1].table # "things_local_events" THEN UNCHANGED <<journal, seen>>
        ELSE IF tx[1].does = "event"
        THEN /\ lastId' = NextId
             /\ events' = events \cup {[id |-> NextId, kind |-> tx[1].arg]}
             /\ seen' = seen \ {NextId}
        ELSE events' = {} /\ UNCHANGED <<lastId, seen>>
     /\ call' = [call EXCEPT ![c] =
                   IF i = Len(p) THEN Idle
                   ELSE [op |-> op, arg |-> arg, by |-> by, at |-> i + 1]]
     /\ lonely' = IF i = Len(p) THEN lonely \ {c}
                  ELSE IF i > 1 THEN lonely
                  ELSE IF \E d \in Call : Busy(d) THEN {} ELSE {c}

\* The host calls an operation; an action must be there to be executed.  The
\* first transaction of a call is its start.
Start(c, op, k) ==
  /\ ~Busy(c)
  /\ writes < MaxWrites
  /\ writes' = writes + 1
  /\ Commit(c, op, k, signedIn, 1)
  /\ UNCHANGED <<cursor, signedIn, switches, faults>>

\* The host calls on_login_claim_data after a login.
SignIn(c, u) ==
  /\ signedIn = None /\ ~Switching /\ ~Busy(c)
  /\ switches < MaxSwitches
  /\ switches' = switches + 1
  /\ signedIn' = u
  /\ Commit(c, "claim", u, u, 1)
  /\ UNCHANGED <<cursor, writes, faults>>

\* It wipes after a logout, by on_logout_wipe_data or through the SDK.
SignOut(c, op) ==
  /\ signedIn # None /\ ~Switching /\ ~Busy(c)
  /\ switches < MaxSwitches
  /\ switches' = switches + 1
  /\ signedIn' = None
  /\ Commit(c, op, None, None, 1)
  /\ UNCHANGED <<cursor, writes, faults>>

\* The next transaction of a call.
Step(c) ==
  /\ Busy(c)
  /\ Commit(c, call[c].op, call[c].arg, call[c].by, call[c].at)
  /\ UNCHANGED <<cursor, signedIn, bounds>>

\* What a wipe that does not end leaves behind.
Spares(cs) ==
  spared' = IF \E c \in cs : call[c].op \in {"wipe", "wipe_and_notify"}
            THEN Present(rows) ELSE spared

\* A foreign key refuses the transaction: the call returns the error.
Refused(c) ==
  LET p == Program(call[c].op, call[c].arg)
  IN /\ Busy(c)
     /\ ~Commits(rows, p[call[c].at])
     /\ call' = [call EXCEPT ![c] = Idle]
     /\ lonely' = lonely \ {c}
     /\ Spares({c})
     /\ UNCHANGED <<rows, author, strays, journal, watcher, signedIn, bounds>>

\* The database is busy, the disk is full: likewise.
Fails(c) ==
  /\ Busy(c)
  /\ faults < MaxFaults
  /\ faults' = faults + 1
  /\ call' = [call EXCEPT ![c] = Idle]
  /\ lonely' = lonely \ {c}
  /\ Spares({c})
  /\ UNCHANGED <<rows, author, strays, journal, watcher, signedIn, writes, switches>>

\* The process dies between two transactions; RemiSdk::initialize seeds the
\* actions of the application again.
SeedBuiltinActions(r) == [r EXCEPT !["actions"] = [k \in Key |-> IF @[k] = Absent THEN None ELSE @[k]]]
Restart ==
  /\ faults < MaxFaults
  /\ faults' = faults + 1
  /\ \E c \in Call : Busy(c)
  /\ call' = [c \in Call |-> Idle]
  /\ lonely' = {}
  /\ Spares(Call)
  /\ rows' = SeedBuiltinActions(rows)
  /\ UNCHANGED <<author, strays, journal, watcher, signedIn, writes, switches>>

----------------------------------------------------------------------------
(* The watcher of the event journal                                        *)

\* list_things_local_events_since: the first events after the cursor.
Since(after, limit) ==
  LET later == {e \in events : e.id > after}
  IN {e \in later : Cardinality({f \in later : f.id <= e.id}) <= limit}

Watch ==
  /\ Since(cursor, Page) # {}
  /\ seen' = seen \cup {e.id : e \in Since(cursor, Page)}
  /\ cursor' = Max({e.id : e \in Since(cursor, Page)})
  /\ UNCHANGED <<data, journal, call, signedIn, lonely, bounds>>

\* ack_things_local_events up to the last event seen.
Ack ==
  /\ \E e \in events : e.id <= cursor
  /\ events' = {e \in events : e.id > cursor}
  /\ UNCHANGED <<data, lastId, watcher, call, signedIn, lonely, bounds>>

----------------------------------------------------------------------------
Init ==
  /\ rows = SeedBuiltinActions(
       [t \in Table |-> [k \in Key |-> IF t \in Used THEN None ELSE Absent]])
  /\ events = {} /\ lastId = 0
  /\ cursor = 0 /\ seen = {}
  /\ call = [c \in Call |-> Idle]
  /\ signedIn = None
  /\ author = [t \in Table |-> [k \in Key |-> None]]
  /\ spared = {} /\ lonely = {}
  /\ strays = {k \in Key : Has("chat_messages", k) /\ ~Has("chat_sessions", k)}
  /\ writes = 0 /\ switches = 0 /\ faults = 0

Next ==
  \/ \E c \in Call, op \in Ops, k \in Key : Start(c, op, k)
  \/ \E c \in Call, u \in User : SignIn(c, u)
  \/ \E c \in Call, op \in {"wipe", "wipe_and_notify"} : SignOut(c, op)
  \/ \E c \in Call : Step(c) \/ Refused(c) \/ Fails(c)
  \/ Restart
  \/ Watch
  \/ Ack

Spec == Init /\ [][Next]_vars

----------------------------------------------------------------------------
(* Properties                                                              *)


\* A wipe that nothing runs beside is stopped by no foreign key half way,
\* whatever the calls, failures and restarts before it left in the tables.
WipeGoesThrough ==
  \A c \in lonely :
    call[c].op \in {"wipe", "wipe_and_notify"} =>
      LET p == Program(call[c].op, call[c].arg)
      IN Commits(rows, p[call[c].at])

\* In the tables the wipe sweeps, no row of a user who has signed out
\* outlives it, but for the rows a failing wipe left and those of calls that
\* were under way.
OthersRowsAreGone ==
  ~Wiping =>
    \A t \in Wiped \ {"things_local_events"}, k \in Key :
      Has(t, k) /\ <<t, k>> \notin spared => author[t][k] \in {None, signedIn}

\* A chat session whose deletion stops half way, by an error or with the
\* process, is still there to be deleted again: no message of it is left
\* without the session, unless it was written without one or meanwhile.
MessagesHaveSession ==
  \A k \in Key \ strays :
    Has("chat_messages", k) => Has("chat_sessions", k)

\* No event is stored behind a watcher's cursor: what it has not seen has
\* an id greater than every id it has seen, across acknowledgements and
\* wipes, which empty the table.
NothingBehindCursor == \A e \in events : e.id <= cursor => e.id \in seen /\ e.id <= lastId

=============================================================================
