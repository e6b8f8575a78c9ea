---------------------------- MODULE ChangeHistory ----------------------------
(***************************************************************************)
(* The change log of one device, and undo (remi-client-sdk/src/            *)
(* things_local/changelog.rs, undo.rs, the logging half of things.rs and   *)
(* collections.rs, and the tables things_change_log and                    *)
(* things_content_snapshots of storage.rs).                                *)
(*                                                                         *)
(* A command saves its documents in one step, the one ThingsLifecycle      *)
(* describes, and then writes its log entries and snapshots, each a        *)
(* statement of its own.  Other callers, the clock, a crash and an error   *)
(* of the database come in between.  What a command still has to do is its *)
(* list of jobs.  An undo is a list of commands followed by a mark.        *)
(***************************************************************************)
EXTENDS Naturals, FiniteSets, Sequences, SequencesExt

CONSTANTS
  Thing, Entry, Collection, Drafts, Trash, Keep, Clear, NoThing, NoCollection,
  Seeds,        \* the sets of things there may be at the start
  Parents,      \* [Thing -> the parent arguments of an edit]
  Caller,
  NoSnap,       \* no snapshot
  Window,       \* seconds within which edits share an entry (300), in ticks
  Retention,    \* age at which entries are cleaned up, in ticks
  MaxNow,       \* bound on the clock
  MaxCommands   \* bound on the commands

VARIABLES
  state, meta,  \* the documents, as in ThingsLifecycle
  log,          \* things_change_log by id; Gone where a row was deleted
  snap,         \* things_content_snapshots by change_log_id
  now,
  call,         \* what each caller is doing
  past,         \* for each entry, what it ought to bring back (no code reads it)
  history       \* what has happened so far (no code reads it)

docs == <<state, meta>>
vars == <<state, meta, log, snap, now, call, past, history>>

T == INSTANCE ThingsLifecycle WITH made <- 0, MaxMade <- 1

\* The things and collections are those of ThingsLifecycle.
ASSUME DocumentsAssumption == T!LifecycleAssumption

ASSUME HistoryAssumption ==
  /\ IsFiniteSet(Thing)
  /\ Parents \in [Thing -> SUBSET (Thing \cup {Keep, Clear})]
  /\ Seeds \subseteq SUBSET Thing
  /\ Window \in Nat /\ Retention \in Nat /\ MaxNow \in Nat /\ MaxCommands \in Nat
  \* Minutes against days.
  /\ Window <= Retention

Subject == Thing \cup Collection
Places == Collection \cup {Drafts}

\* What a thing shows: the part of a ThingEntry that an undo is about.
View(m, t) ==
  [home |-> T!Home(m, t),
   parent |-> IF T!Exists(m, t) THEN T!Shown(m, t).parent ELSE NoThing,
   entries |-> IF T!Exists(m, t) THEN T!Shown(m, t).entries ELSE {}]

Views(m) == [t \in Thing |-> View(m, t)]

ViewSet == [home : T!AnyCollection \cup {NoCollection},
            parent : Thing \cup {NoThing},
            entries : SUBSET Entry]

Op == {"create_thing", "update_thing", "move_thing", "delete_thing",
       "create_collection", "update_collection", "delete_collection", "undo"}

\* from is from_collection_uuid in the details of a move, parent parent_log_id.
Snapshot == [thing : Thing, view : ViewSet, time : Nat]

ASSUME SnapshotAssumption == NoSnap \notin Snapshot

LogRow == [op : Op, subject : Subject,
           from : T!AnyCollection \cup {NoCollection},
           parent : Nat, can : BOOLEAN, time : Nat]

Gone == [op |-> "gone"]

Ids == 1 .. Len(log)
Live(i) == i \in Ids /\ log[i] # Gone

\* jobs: what the caller has yet to do; root: the entry of its command; last:
\* the entry written last; was: the things before the last change; alone:
\* nothing else has happened since it began; undoing: the entry an undo is of.
Idle == [jobs |-> <<>>, root |-> 0, last |-> 0, undoing |-> 0,
         alone |-> TRUE, was |-> [t \in Thing |-> View([c \in T!AnyCollection |->
                                  [x \in Thing |-> T!Blank]], t)]]

Busy(c) == call[c].jobs # <<>>
Quiet == \A c \in Caller : ~ Busy(c)

TypeOK ==
  /\ state \in [T!AnyCollection -> {"absent", "active", "archived"}]
  /\ meta \in [T!AnyCollection -> [Thing -> T!Meta]]
  /\ \A i \in Ids : log[i] \in LogRow \cup {Gone}
  /\ \A i \in Ids : Live(i) => log[i].parent < i /\ log[i].time <= now
  /\ DOMAIN snap = Ids
  \* The foreign keys.
  /\ \A i \in Ids : Live(i) => log[i].parent = 0 \/ Live(log[i].parent)
  /\ \A i \in Ids : snap[i] # NoSnap => Live(i)
  /\ \A i \in Ids : snap[i] # NoSnap => snap[i].view \in ViewSet /\ snap[i].time <= now
  /\ \A c \in Caller : {call[c].root, call[c].last, call[c].undoing} \subseteq {0} \cup Ids
  /\ now \in 0 .. MaxNow

\* The things there are, and those below them, are in the drafts, as if they
\* had come with a sync, which writes no log.
Init ==
  \E there \in Seeds, known \in SUBSET Collection :
    /\ state = [d \in T!AnyCollection |-> IF d \in known \cup {Drafts} THEN "active" ELSE "absent"]
    /\ meta = [d \in T!AnyCollection |-> [t \in Thing |->
         IF d = Drafts /\ t \in there
           THEN [there |-> "live", from |-> NoCollection, entries |-> Entry,
                 parent |-> IF \E p \in Parents[t] : p \in there
                              THEN CHOOSE p \in Parents[t] : p \in there
                              ELSE NoThing]
           ELSE T!Blank]]
    /\ log = <<>>
    /\ snap = <<>>
    /\ now = 0
    /\ call = [d \in Caller |-> Idle]
    /\ past = <<>>
    /\ history = [commands |-> 0, lapse |-> FALSE,
                  changed |-> [t \in Thing |-> MaxNow + 1]]

----------------------------------------------------------------------------
(* The tables                                                              *)

Entered(row) ==
  /\ log' = Append(log, row)
  /\ snap' = Append(snap, NoSnap)

\* Mutant: any earlier entry will do, however old.
RecentAtAnyAge(t) == {i \in Ids : Live(i) /\ log[i].subject = t /\ log[i].op = "update_thing"}

\* find_recent_thing_update_log: entries of updates within the window; among
\* those of one second any may come first.  Whether one can be undone is not
\* looked at.
Recent(t) ==
  LET updates == {i \in Ids : /\ Live(i)
                              /\ log[i].subject = t
                              /\ log[i].op = "update_thing"
                              /\ log[i].time + Window >= now}
  IN {i \in updates : \A j \in updates : log[j].time <= log[i].time}

Cascades(i) == {j \in Ids : Live(j) /\ log[j].parent = i}

InOrder(ids) ==
  CHOOSE s \in [1 .. Cardinality(ids) -> ids] :
    \A a, b \in 1 .. Cardinality(ids) : a < b => s[a] < s[b]

----------------------------------------------------------------------------
(* Jobs                                                                    *)

Note(op, s, from, child, can) ==
  [do |-> "note", op |-> op, subject |-> s, from |-> from, child |-> child, can |-> can]
Join(op, t, from) == [do |-> "join", op |-> op, subject |-> t, from |-> from]
KeepView(m, t) == [do |-> "keep", thing |-> t, view |-> View(m, t)]
\* An upsert of an undo: the whole snapshot of entry i, or only the collection.
Put(i) == [do |-> "put", of |-> i, child |-> log[i].parent # 0]
PutBack(i) == [do |-> "put back", subject |-> log[i].subject, from |-> log[i].from]
Bin(t) == [do |-> "bin", subject |-> t]
Retitle(t) == [do |-> "retitle", subject |-> t, view |-> View(meta, t)]
Shelve(c) == [do |-> "shelve", subject |-> c]
Reopen(c) == [do |-> "reopen", subject |-> c]
Mark == [do |-> "mark"]
Record(s) == [do |-> "record", subject |-> s]
Trim == [do |-> "trim"]

\* Mutant: the snapshot is taken after the change.
UpsertJobsLate(t, m) ==
  IF ~ T!Exists(meta, t) THEN <<Note("create_thing", t, NoCollection, FALSE, TRUE)>>
  ELSE <<Join(IF T!Home(meta, t) # T!Home(m, t) THEN "move_thing" ELSE "update_thing",
              t, T!Home(meta, t)),
         KeepView(m, t)>>

\* What is left to do after an upsert that made meta into m.
UpsertJobs(t, m) ==
  IF ~ T!Exists(meta, t) THEN <<Note("create_thing", t, NoCollection, FALSE, TRUE)>>
  ELSE <<Join(IF T!Home(meta, t) # T!Home(m, t) THEN "move_thing" ELSE "update_thing",
              t, T!Home(meta, t)),
         KeepView(meta, t)>>

\* Mutant: what is below is archived, but not written down.
DeleteJobsRoot(t) ==
  <<Note("delete_thing", t, NoCollection, FALSE, TRUE), KeepView(meta, t)>>

\* What is left to do after a deletion: the entry of the thing, and those of
\* all below it.
DeleteJobs(t) ==
  LET below == SetToSeq(T!Descendants(meta, t))
      written(x) == <<Note("delete_thing", x, NoCollection, TRUE, FALSE), KeepView(meta, x)>>
  IN <<Note("delete_thing", t, NoCollection, FALSE, TRUE), KeepView(meta, t)>>
     \o [k \in 1 .. 2 * Len(below) |-> written(below[(k + 1) \div 2])[2 - (k % 2)]]

----------------------------------------------------------------------------
(* Ghosts                                                                  *)

\* What was going on is no longer alone; its entries need not bring back what
\* their command saw.
Roots(cs) == {call[d].root : d \in {x \in cs : Busy(x)}} \cup
             {call[d].last : d \in {x \in cs : Busy(x)}}
Spoiled(ids) == [i \in DOMAIN past |-> IF i \in ids THEN [past[i] EXCEPT !.clean = FALSE]
                                       ELSE past[i]]

\* The calls that a new one, or a change from elsewhere, disturbs: two undos
\* of one entry do not disturb each other, and a rename that has only read has
\* yet to begin.
Disturbed(undoing) ==
  {d \in Caller : /\ Busy(d) /\ Head(call[d].jobs).do # "retitle"
                  /\ undoing = 0 \/ call[d].undoing # undoing}
NotAlone(cs) == [d \in Caller |-> IF d \in cs THEN [call[d] EXCEPT !.alone = FALSE] ELSE call[d]]

Changed(m) ==
  [t \in Thing |-> IF View(meta, t) # View(m, t) THEN now ELSE history.changed[t]]

\* At most one statement fails, or one crash happens.
Lapsed == ~ history.lapse /\ history' = [history EXCEPT !.lapse = TRUE]

\* Nobody else is at work, another undo of the same entry included: two such
\* undos change the same thing, and write their snapshots into one entry in
\* either order.
Unshared(c) ==
  call[c].alone /\ \A d \in Caller \ {c} : Busy(d) => Head(call[d].jobs).do = "retitle"

\* An entry that is joined for the first time is to bring back what its
\* command saw; an entry without a snapshot of its own, nothing.
Opened(c, i, kept) ==
  past' = IF i > Len(past)
          THEN Append(past, [first |-> call[c].was, clean |-> Unshared(c) /\ kept,
                                could |-> log'[i].can, through |-> FALSE])
          ELSE [past EXCEPT ![i].clean = @ /\ Unshared(c)]

\* The first change of a command of caller c, which leaves it with jobs.
Begins(c, jobs, undoing) ==
  /\ call' = [NotAlone(Disturbed(undoing)) EXCEPT ![c] =
                [jobs |-> jobs, root |-> 0, last |-> 0, undoing |-> undoing,
                 alone |-> Disturbed(undoing) = {}, was |-> Views(meta)]]
  /\ past' = Spoiled(Roots(Disturbed(undoing)))

MayStart(c) == ~ Busy(c) /\ history.commands < MaxCommands

Starts(c, jobs, undoing) ==
  /\ MayStart(c)
  /\ history' = [history EXCEPT !.commands = @ + 1, !.changed = Changed(meta')]
  /\ Begins(c, jobs, undoing)

\* Caller c has done its next job, and goes on with jobs.
Continues(c, jobs, root, last, was) ==
  call' = [call EXCEPT ![c] = IF jobs = <<>> THEN Idle
                              ELSE [@ EXCEPT !.jobs = jobs, !.root = root, !.last = last,
                                             !.was = was]]

Todo(c) == Head(call[c].jobs)
Rest(c) == Tail(call[c].jobs)

----------------------------------------------------------------------------
(* Commands                                                                *)

Tables == <<log, snap>>

\* The documents after an upsert; listed says whether the payload has a list of
\* content entries.
Upserted(t, c, p, listed, entries) ==
  LET m == T!Placed(meta, t, c, p, {})
  IN IF listed THEN [m EXCEPT ![c][t].entries = entries] ELSE m

CanUpsert(t, c, p) == T!Ensured(state, T!System)[c] # "absent" /\ T!ValidParent(meta, c, t, p)

Edit(c, t, d, p, entries) ==
  /\ CanUpsert(t, d, p)
  /\ state' = T!Ensured(state, T!System)
  /\ meta' = Upserted(t, d, p, TRUE, entries)
  /\ Starts(c, UpsertJobs(t, meta'), 0)
  /\ UNCHANGED <<Tables, now>>

\* rename_thing of the virtual file system reads where the thing is, and then
\* upserts it there: what others do in between it does not see.
Rename(c, t) ==
  /\ MayStart(c)
  /\ T!Exists(meta, t)
  /\ call' = [call EXCEPT ![c].jobs = <<Retitle(t)>>]
  /\ history' = [history EXCEPT !.commands = @ + 1]
  /\ UNCHANGED <<docs, Tables, now, past>>

Move(c, t, d) ==
  /\ T!MoveThing(t, d, Keep)
  /\ Starts(c, <<Note("move_thing", t, T!Home(meta, t), FALSE, TRUE)>>, 0)
  /\ UNCHANGED <<Tables, now>>

Delete(c, t) ==
  /\ T!DeleteThing(t)
  /\ Starts(c, DeleteJobs(t), 0)
  /\ UNCHANGED <<Tables, now>>

\* The details of a restore do not say where the thing came from.
Restore(c, t) ==
  /\ T!RestoreThing(t, NoCollection, Keep)
  /\ Starts(c, <<Note("move_thing", t, NoCollection, FALSE, TRUE)>>, 0)
  /\ UNCHANGED <<Tables, now>>

\* Of the two ways to set a status one leaves an entry that can be undone;
\* neither takes a snapshot.
SetStatus(c, t, can) ==
  /\ T!Exists(meta, t)
  /\ UNCHANGED docs
  /\ Starts(c, <<Note("update_thing", t, NoCollection, FALSE, can)>>, 0)
  /\ UNCHANGED <<Tables, now>>

UpsertCollection(c, d) ==
  /\ T!UpsertCollection(d)
  /\ Starts(c, <<Note(IF state[d] = "absent" THEN "create_collection" ELSE "update_collection",
                      d, NoCollection, FALSE, TRUE)>>, 0)
  /\ UNCHANGED <<Tables, now>>

DeleteCollection(c, d) ==
  /\ T!DeleteCollection(d)
  /\ Starts(c, <<Note("delete_collection", d, NoCollection, FALSE, TRUE)>>, 0)
  /\ UNCHANGED <<Tables, now>>

\* Statements that a device's sync makes on the documents, without a log.
Remote(t, d, entries) ==
  /\ history.commands < MaxCommands
  /\ state[d] # "absent"
  /\ UNCHANGED <<state, Tables, now>>
  /\ meta' = Upserted(t, d, Keep, TRUE, entries)
  /\ call' = NotAlone(Disturbed(0))
  /\ past' = Spoiled(Roots(Caller))
  /\ history' = [history EXCEPT !.commands = @ + 1]

\* The commands an undo of entry i is made of.
UndoJobs(i) ==
  CASE log[i].op = "create_thing" -> <<Bin(log[i].subject)>>
    [] log[i].op = "delete_thing" ->
         <<Put(i)>> \o [k \in 1 .. Cardinality(Cascades(i)) |-> Put(InOrder(Cascades(i))[k])]
    [] log[i].op = "move_thing" -> <<PutBack(i)>>
    [] log[i].op = "create_collection" -> <<Shelve(log[i].subject)>>
    [] log[i].op = "delete_collection" -> <<Reopen(log[i].subject)>>
    [] OTHER -> <<Put(i)>>

\* Mutant: the entry is marked before the commands have run.
UndoProgramMarkFirst(i) == <<Mark>> \o UndoJobs(i) \o <<Record(log[i].subject)>>

UndoProgram(i) == UndoJobs(i) \o <<Mark, Record(log[i].subject)>>

\* check_undo_conflict: what was deleted is in the trash, and so exists.
Conflict(i) == log[i].op \in {"delete_thing", "delete_collection"}

\* preview_undo and the start of execute_undo.
Undo(c, i, resolved) ==
  /\ Live(i) /\ log[i].can
  /\ Conflict(i) => resolved
  /\ UNCHANGED docs
  /\ Starts(c, UndoProgram(i), i)
  /\ UNCHANGED <<Tables, now>>

\* Mutant: off by one.
OldSnapshotOrAsOld(i) == snap[i] # NoSnap /\ snap[i].time + Retention <= now

OldSnapshot(i) == snap[i] # NoSnap /\ snap[i].time + Retention < now

\* cleanup_change_logs: first the snapshots, then the entries.
Cleanup(c) ==
  /\ snap' = [i \in Ids |-> IF OldSnapshot(i) THEN NoSnap ELSE snap[i]]
  /\ UNCHANGED docs
  /\ Starts(c, <<Trim>>, 0)
  /\ UNCHANGED <<log, now>>

----------------------------------------------------------------------------
(* One job after the other                                                 *)

\* record_user_change_log.  The entries of a cascade need that of the root:
\* without it they are not tried, and if it has been cleaned up meanwhile, the
\* foreign key refuses them.
WriteNote(c) ==
  LET j == Todo(c)
      skipped == j.child /\ ~ Live(call[c].root)
      id == Len(log) + 1
  IN /\ j.do = "note"
     /\ IF skipped THEN UNCHANGED <<Tables, past>>
        ELSE /\ Entered([op |-> j.op, subject |-> j.subject, from |-> j.from, time |-> now,
                         parent |-> IF j.child THEN call[c].root ELSE 0, can |-> j.can])
             /\ Opened(c, id, j.op # "update_thing")
     /\ Continues(c, Rest(c), IF skipped THEN 0 ELSE IF j.child THEN call[c].root ELSE id,
                  IF skipped THEN 0 ELSE id, call[c].was)
     /\ UNCHANGED <<docs, now, history>>

\* An update that finds a recent entry writes none of its own.
JoinRecent(c) ==
  LET j == Todo(c)
      id == Len(log) + 1
  IN /\ j.do = "join"
     /\ IF Recent(j.subject) = {}
        THEN /\ Entered([op |-> j.op, subject |-> j.subject, time |-> now, parent |-> 0,
                         from |-> IF j.op = "move_thing" THEN j.from ELSE NoCollection,
                         can |-> TRUE])
             /\ Opened(c, id, TRUE)
             /\ Continues(c, Rest(c), id, id, call[c].was)
        ELSE \E i \in Recent(j.subject) :
               /\ UNCHANGED Tables
               /\ Opened(c, i, TRUE)
               /\ Continues(c, Rest(c), i, i, call[c].was)
     /\ UNCHANGED <<docs, now, history>>

\* Mutant: a later edit replaces the snapshot.
KeptAlways(i, t, view) == [thing |-> t, view |-> view, time |-> now]

\* The snapshot of an entry that has one already stays; one of an entry that
\* was not written, or is gone, is refused.
Kept(i, t, view) == IF snap[i] = NoSnap THEN [thing |-> t, view |-> view, time |-> now] ELSE snap[i]

KeepSnapshot(c) ==
  LET j == Todo(c)
      i == call[c].last
  IN /\ j.do = "keep"
     /\ snap' = IF Live(i) THEN [snap EXCEPT ![i] = Kept(i, j.thing, j.view)] ELSE snap
     /\ Continues(c, Rest(c), call[c].root, i, call[c].was)
     /\ UNCHANGED <<docs, log, now, past, history>>

ParentArg(view) == IF view.parent = NoThing THEN Keep ELSE view.parent

\* What a job has to find, so that it does not end the undo with an error.
Possible(j) ==
  CASE j.do = "put" -> IF snap[j.of] = NoSnap THEN j.child
                       ELSE LET s == snap[j.of]
                            IN CanUpsert(s.thing, s.view.home, ParentArg(s.view))
    [] j.do = "retitle" -> CanUpsert(j.subject, j.view.home, ParentArg(j.view))
    [] j.do = "put back" -> /\ j.from # NoCollection
                            /\ CanUpsert(j.subject, j.from, ParentArg(View(meta, j.subject)))
    [] j.do = "bin" -> T!CanCascade(meta, j.subject, Trash, Keep, TRUE)
    [] OTHER -> TRUE

\* An upsert of an undo, with the jobs it leaves; without a parent in the
\* snapshot, or without entries, those of the thing stay.
Puts(c, t, d, view) ==
  /\ Possible(Todo(c))
  /\ state' = T!Ensured(state, T!System)
  /\ meta' = Upserted(t, d, ParentArg(view), view.entries # {}, view.entries)
  /\ Continues(c, UpsertJobs(t, meta') \o Rest(c), call[c].root, call[c].last, Views(meta))
  /\ history' = [history EXCEPT !.changed = Changed(meta')]
  /\ UNCHANGED <<Tables, now, past>>

\* The snapshot of a thing below may be missing.
PutSnapshot(c) ==
  LET s == snap[Todo(c).of]
  IN /\ Todo(c).do = "put"
     /\ Possible(Todo(c))
     /\ IF s # NoSnap THEN Puts(c, s.thing, s.view.home, s.view)
        ELSE /\ Continues(c, Rest(c), call[c].root, call[c].last, call[c].was)
             /\ UNCHANGED <<docs, Tables, now, past, history>>

\* undo_move_thing: the thing as it is, in the collection it came from.
PutThingBack(c) ==
  /\ Todo(c).do = "put back"
  /\ Puts(c, Todo(c).subject, Todo(c).from, View(meta, Todo(c).subject))

Retitles(c) ==
  LET j == Todo(c)
  IN /\ j.do = "retitle"
     /\ Possible(j)
     /\ state' = T!Ensured(state, T!System)
     /\ meta' = Upserted(j.subject, j.view.home, ParentArg(j.view), FALSE, {})
     /\ Begins(c, UpsertJobs(j.subject, meta'), 0)
     /\ history' = [history EXCEPT !.changed = Changed(meta')]
     /\ UNCHANGED <<Tables, now>>

EndsWithError(c) ==
  /\ ~ Possible(Todo(c))
  /\ Continues(c, <<>>, 0, 0, call[c].was)
  /\ UNCHANGED <<docs, Tables, now, past, history>>

\* The other commands an undo calls; one that finds nothing to do leaves no
\* entry.
DeletesCreated(c) ==
  LET t == Todo(c).subject
  IN /\ Todo(c).do = "bin"
     /\ \/ T!DeleteThing(t) /\ Continues(c, DeleteJobs(t) \o Rest(c), call[c].root,
                                         call[c].last, Views(meta))
        \/ /\ T!Home(meta, t) = Trash /\ T!Shown(meta, t).from # NoCollection
           /\ Continues(c, Rest(c), call[c].root, call[c].last, call[c].was)
           /\ UNCHANGED docs
     /\ history' = [history EXCEPT !.changed = Changed(meta')]
     /\ UNCHANGED <<Tables, now, past>>

ArchivesCreated(c) ==
  LET d == Todo(c).subject
      note == Note("delete_collection", d, NoCollection, FALSE, TRUE)
  IN /\ Todo(c).do = "shelve"
     /\ \/ T!DeleteCollection(d) /\ Continues(c, <<note>> \o Rest(c), call[c].root,
                                              call[c].last, Views(meta))
        \/ /\ state[d] # "active"
           /\ Continues(c, Rest(c), call[c].root, call[c].last, call[c].was)
           /\ UNCHANGED docs
     /\ UNCHANGED <<Tables, now, past, history>>

ReopensDeleted(c) ==
  LET d == Todo(c).subject
      note == Note(IF state[d] = "absent" THEN "create_collection" ELSE "update_collection",
                   d, NoCollection, FALSE, TRUE)
  IN /\ Todo(c).do = "reopen"
     /\ T!UpsertCollection(d)
     /\ Continues(c, <<note>> \o Rest(c), call[c].root, call[c].last, Views(meta))
     /\ UNCHANGED <<Tables, now, past, history>>

MarkUndone(c) ==
  LET i == call[c].undoing
  IN /\ Todo(c).do = "mark"
     /\ log' = IF Live(i) THEN [log EXCEPT ![i].can = FALSE] ELSE log
     /\ past' = [past EXCEPT ![i].through = @ \/ Len(Rest(c)) = 1]
     /\ Continues(c, Rest(c), call[c].root, call[c].last, call[c].was)
     /\ UNCHANGED <<docs, snap, now, history>>

RecordUndo(c) ==
  /\ Todo(c).do = "record"
  /\ Entered([op |-> "undo", subject |-> Todo(c).subject, from |-> NoCollection,
              parent |-> 0, can |-> FALSE, time |-> now])
  /\ past' = Append(past, [first |-> call[c].was, clean |-> FALSE,
                        could |-> FALSE, through |-> FALSE])
  /\ Continues(c, Rest(c), 0, 0, call[c].was)
  /\ UNCHANGED <<docs, now, history>>

Old(i) == Live(i) /\ log[i].time + Retention < now

\* Mutant: the statement looks at the snapshots only.
RefusedForSnapshot == \E i \in Ids : Old(i) /\ snap[i] # NoSnap

\* The foreign keys refuse to let an entry go that a snapshot or the entry of a
\* cascade still refers to.
Refused ==
  \E i \in Ids : Old(i) /\ (snap[i] # NoSnap \/ (\E j \in Cascades(i) : ~ Old(j)))

TrimLog(c) ==
  /\ Todo(c).do = "trim"
  /\ log' = IF Refused THEN log ELSE [i \in Ids |-> IF Old(i) THEN Gone ELSE log[i]]
  /\ Continues(c, Rest(c), 0, 0, call[c].was)
  /\ UNCHANGED <<docs, snap, now, past, history>>

\* The database refuses a statement.  Writing the history is given up for this
\* entry, and the command goes on; anything else ends the command.
Fails(c) ==
  LET j == Todo(c)
  IN /\ IF j.do \in {"note", "join", "keep"}
        THEN Continues(c, Rest(c), IF j.do = "keep" \/ (j.do = "note" /\ j.child)
                                   THEN call[c].root ELSE 0, 0, call[c].was)
        ELSE Continues(c, <<>>, 0, 0, call[c].was)
     /\ past' = Spoiled(Roots({c}))
     /\ Lapsed
     /\ UNCHANGED <<docs, Tables, now>>

Job(c) ==
  /\ Busy(c)
  /\ \/ WriteNote(c) \/ JoinRecent(c) \/ KeepSnapshot(c)
     \/ PutSnapshot(c) \/ PutThingBack(c) \/ Retitles(c) \/ EndsWithError(c)
     \/ DeletesCreated(c) \/ ArchivesCreated(c) \/ ReopensDeleted(c)
     \/ MarkUndone(c) \/ RecordUndo(c) \/ TrimLog(c) \/ Fails(c)

Crash ==
  /\ ~ Quiet
  /\ call' = [c \in Caller |-> Idle]
  /\ past' = Spoiled(Roots(Caller))
  /\ Lapsed
  /\ UNCHANGED <<docs, Tables, now>>

Tick ==
  /\ now < MaxNow
  /\ now' = now + 1
  /\ UNCHANGED <<docs, Tables, call, past, history>>

Command(c) ==
  \/ \E t \in Thing, d \in Places, entries \in SUBSET Entry :
       \E p \in Parents[t] : Edit(c, t, d, p, entries)
  \/ \E t \in Thing, d \in Places : Move(c, t, d)
  \/ \E t \in Thing : Rename(c, t) \/ Delete(c, t) \/ Restore(c, t)
  \/ \E t \in Thing, can \in BOOLEAN : SetStatus(c, t, can)
  \/ \E d \in Collection : UpsertCollection(c, d) \/ DeleteCollection(c, d)
  \/ \E i \in Ids, resolved \in BOOLEAN : Undo(c, i, resolved)
  \/ Cleanup(c)

Next ==
  \/ \E c \in Caller : Command(c) \/ Job(c)
  \/ \E t \in Thing, d \in Places, entries \in SUBSET Entry : Remote(t, d, entries)
  \/ Crash
  \/ Tick

Spec == Init /\ [][Next]_vars

----------------------------------------------------------------------------
(* Properties                                                              *)

\* What the thing was below, or is, for the views of an entry.
BelowIn(views, t) ==
  {x \in Thing : x = t \/ t \in T!Above([y \in Thing |-> views[y].parent], x)}

\* In its collection, with its content entries; a snapshot without entries
\* does not list any, and leaves those that came since.
Back(old, t) ==
  /\ T!Home(meta, t) = old.home
  /\ old.entries # {} => View(meta, t).entries = old.entries

Undoes(c) == call[c].undoing # 0 /\ Busy(c) /\ Todo(c).do = "mark"

\* An undo brings back what there was before the first change of its entry,
\* however many edits had been joined to it since, and what else happened
\* before the undo began: the thing of an update, the thing and all below it
\* of a deletion, the collection of a move.  Spoken of are entries whose
\* commands, and undos which, ran alone and without an error; another undo of
\* the same entry may run beside the undo, but an entry that one of the two
\* opened meanwhile is not spoken of.
UndoTakesBack ==
  \A c \in Caller :
    LET i == call[c].undoing
        first == past[i].first
        s == log[i].subject
    IN Undoes(c) /\ call[c].alone /\ past[i].clean =>
         CASE log[i].op = "create_thing" -> T!Home(meta, s) = Trash
           [] log[i].op = "delete_thing" -> \A t \in BelowIn(first, s) : Back(first[t], t)
           [] log[i].op = "update_thing" -> Back(first[s], s)
           [] log[i].op = "move_thing" -> T!Home(meta, s) = first[s].home
           [] log[i].op = "create_collection" -> state[s] = "archived"
           [] OTHER -> state[s] = "active"

\* An entry that is marked as undone has been: a crash or an error half way
\* leaves one that can be tried again.
MarkedIsUndone ==
  \A i \in Ids : Live(i) /\ past[i].could /\ ~ log[i].can => past[i].through

\* Every change of a thing that a command made is in the log: an entry of its
\* own, perhaps in a cascade, one within the window it was joined to, or the
\* restore of a thing it was below.  The entry that a change has joined is older,
\* and is cleaned up that much earlier.
EveryChangeLogged ==
  Quiet /\ ~ history.lapse =>
    \A t \in Thing :
      history.changed[t] \in 0 .. MaxNow /\ history.changed[t] + Retention >= now + Window =>
        \E i \in Ids : /\ Live(i)
                       /\ \/ log[i].subject = t
                          \/ /\ log[i].op = "move_thing" /\ log[i].from = NoCollection
                             /\ t \in BelowIn(past[i].first, log[i].subject)
                       /\ log[i].time + Window >= history.changed[t]

\* An entry keeps its snapshot as long as it is kept itself, whatever clean-up
\* ran, and whatever edits were joined to it.
YoungKeepSnapshots ==
  \A i \in Ids :
    /\ Live(i) /\ past[i].clean /\ log[i].op \in {"update_thing", "delete_thing"}
    /\ \A c \in Caller : i \notin {call[c].root, call[c].last}
    /\ log[i].time + Retention >= now
    => snap[i] # NoSnap

=============================================================================
