---------------------------- MODULE DocumentSync ----------------------------
(***************************************************************************)
(* One device of the Things SDK synchronising its CRDT documents with the  *)
(* server (remi-client-sdk/src/things_sync.rs and things_sync/pull.rs),    *)
(* while the user keeps editing on other threads, calls fail, replies are  *)
(* lost and the process dies.                                              *)
(*                                                                         *)
(* A document is the set of the changes it contains: Automerge merges by   *)
(* union.  The empty set stands for "no such row" (or "no such document on *)
(* the server").  The changes this device makes to a document carry the    *)
(* device's actor id and consecutive sequence numbers, so two versions of  *)
(* a document whose own changes are not one a subset of the other reuse a  *)
(* sequence number and Automerge refuses to merge them (Clash).            *)
(***************************************************************************)
EXTENDS FiniteSets, Naturals

CONSTANTS
  Doc,           \* document keys
  Rank,          \* [Doc -> 0..2]: root 0, collection 1, thing_markdown 2
  LocalChange,   \* changes this device can make
  RemoteChange,  \* changes other devices can make
  DocOf,         \* the document a change belongs to
  Links,         \* pairs <<c, m>>: change c of a collection adds content m
  Unlinks,       \* pairs <<c, m>>: change c of a collection removes content m
  Tombs,         \* changes that tombstone their collection
  ServerStart,   \* remote changes the server holds when the device starts
  MaxFaults,     \* bound on failed calls, storage errors and crashes
  MaxWipes       \* bound on wipes of the local data (logout)

Change == LocalChange \cup RemoteChange

ASSUME ConstantsAssumption ==
  /\ Rank \in [Doc -> 0..2]
  /\ DocOf \in [Change -> Doc]
  /\ LocalChange \cap RemoteChange = {}
  /\ ServerStart \subseteq RemoteChange
  /\ MaxFaults \in Nat
  /\ MaxWipes \in Nat

VARIABLES
  local,    \* [Doc -> SUBSET Change]: automerge_doc of each row of crdt_documents
  dirty,    \* documents whose row has dirty = 1
  history,  \* documents whose row has an advanced sync_state
  stash,    \* [Doc -> SUBSET Change]: things.bootstrap.stash_snapshot_json
  server,   \* [Doc -> SUBSET Change]: the server's documents
  pc,       \* where the sync run is
  run,      \* the run's own variables, lost when it ends
  made,     \* local changes made so far
  guarded,  \* (auxiliary) local changes made to a synced document, or while
            \* no stash was outstanding
  faults,   \* failures so far
  wipes     \* wipes so far

vars == <<local, dirty, history, stash, server, pc, run, made, guarded,
          faults, wipes>>
rows == <<local, dirty, history>>
aux == <<made, guarded, faults, wipes>>

Empty == [d \in Doc |-> {}]

\* Where a run is until the bootstrap has deleted what it deletes.
Opening == {"classify", "stash", "stashCheck", "stashRead", "stashWrite",
           "list", "delete"}

Step == Opening \cup
        {"idle", "pullPlan", "pullBatch", "pullApply", "pullEach", "replay",
         "replayMerge", "dropStash", "readDirty", "push", "listKeys",
         "receivePlan", "receive"}

\* rows: the documents the run has read, from the stash or the rows.

NoRun ==
  [never |-> {}, ready |-> FALSE, boot |-> FALSE, prefetched |-> FALSE,
   listed |-> Empty, rows |-> Empty, todo |-> {}, answered |-> {},
   got |-> Empty, synced |-> {}, reach |-> {}]

----------------------------------------------------------------------------
(* Documents                                                               *)

Present(docs) == {d \in Doc : docs[d] # {}}

HasStash == Present(stash) # {}

Own(s) == s \cap LocalChange

\* Two versions of a document that Automerge refuses to merge.
Clash(s, t) == ~(Own(s) \subseteq Own(t)) /\ ~(Own(t) \subseteq Own(s))

Tombstoned(s) == s \cap Tombs # {}

\* Content m is used by a live collection of docs.
Linked(m, docs) ==
  \E k \in Doc :
    /\ Rank[k] = 1
    /\ ~Tombstoned(docs[k])
    /\ \E c \in docs[k] : <<c, m>> \in Links
    /\ ~ \E c \in docs[k] : <<c, m>> \in Unlinks

\* The documents that the receive and pull phases care about; without any
\* synced document below the root there is no filter.
Reach(docs, hist) ==
  IF \A d \in hist : Rank[d] = 0
  THEN Doc
  ELSE {d \in Doc : \/ Rank[d] = 0
                    \/ Rank[d] = 1 /\ ~Tombstoned(docs[d])
                    \/ Rank[d] = 2 /\ Linked(d, docs)}

\* Mutant: content documents are never pulled.
PullableCollections(d, reach) == Rank[d] <= 1

\* Missing collections are always pulled.
Pullable(d, reach) == Rank[d] <= 1 \/ d \in reach

\* The documents of s that are synchronised first.
FirstRank(s) == {d \in s : \A e \in s : Rank[d] <= Rank[e]}

Refiltered(d, docs, hist) ==
  IF Rank[d] = 1 THEN Reach(docs, hist) ELSE run.reach

----------------------------------------------------------------------------
(* The device's user, the other devices, and the end of the process        *)

\* A stash is outstanding: one is stored, the run in progress counts on one,
\* or it has read what it is about to store.
StashOutstanding == HasStash \/ run.ready \/ pc = "stashWrite"

\* A local command: load the document, apply the change, save it dirty.
Edit(c) ==
  LET d == DocOf[c] IN
  /\ c \in LocalChange \ made
  /\ local' = [local EXCEPT ![d] = @ \cup {c}]
  /\ dirty' = dirty \cup {d}
  /\ made' = made \cup {c}
  /\ guarded' = IF StashOutstanding /\ d \notin history
                THEN guarded
                ELSE guarded \cup {c}
  /\ UNCHANGED <<history, stash, server, pc, run, faults, wipes>>

\* Another device's change reaches the server.
RemoteEdit(c) ==
  /\ c \in RemoteChange
  /\ c \notin server[DocOf[c]]
  /\ server' = [server EXCEPT ![DocOf[c]] = @ \cup {c}]
  /\ UNCHANGED <<rows, stash, pc, run, aux>>

\* Mutant: logout leaves the stash of the previous user.
WipeKeepingStash ==
  /\ wipes < MaxWipes
  /\ wipes' = wipes + 1
  /\ local' = Empty
  /\ dirty' = {}
  /\ history' = {}
  /\ guarded' = {}
  /\ UNCHANGED <<stash, server, pc, run, made, faults>>

\* Logout removes every document and the stash; a run in progress goes on.
Wipe ==
  /\ wipes < MaxWipes
  /\ wipes' = wipes + 1
  /\ local' = Empty
  /\ dirty' = {}
  /\ history' = {}
  /\ stash' = Empty
  /\ guarded' = {}
  /\ UNCHANGED <<server, pc, run, made, faults>>

Fault == faults < MaxFaults /\ faults' = faults + 1

EndRun == pc' = "idle" /\ run' = NoRun

\* The process dies, the future is dropped, or a storage error ends the run.
Crash ==
  /\ pc # "idle"
  /\ Fault
  /\ EndRun
  /\ UNCHANGED <<rows, stash, server, made, guarded, wipes>>

----------------------------------------------------------------------------
(* Bootstrap: a device none of whose documents was ever synced             *)

\* Read the dirty documents; one of them with a sync history settles it.
SyncStart ==
  /\ pc = "idle"
  /\ pc' = IF dirty \cap history = {} THEN "classify" ELSE "readDirty"
  /\ run' = [NoRun EXCEPT !.never = dirty \ history]
  /\ UNCHANGED <<rows, stash, server, aux>>

Bootstrap ==
  /\ pc' = "stash"
  /\ run' = [run EXCEPT !.boot = TRUE]

\* Look for a sync history in all the other documents.
Classify ==
  /\ pc = "classify"
  /\ IF history = {}
     THEN Bootstrap
     ELSE pc' = "readDirty" /\ UNCHANGED run
  /\ UNCHANGED <<rows, stash, server, aux>>

\* Rows that cannot be read count as rows without a history.
ClassifyFails ==
  /\ pc = "classify"
  /\ Fault
  /\ Bootstrap
  /\ UNCHANGED <<rows, stash, server, made, guarded, wipes>>

\* Is there a stash of an earlier run?
HadStash ==
  /\ pc = "stash"
  /\ run' = [run EXCEPT !.ready = HasStash]
  /\ pc' = "stashCheck"
  /\ UNCHANGED <<rows, stash, server, aux>>

\* Mutant: a new stash replaces an older one.
StashCheckNothing ==
  /\ pc = "stashCheck"
  /\ pc' = "stashRead"
  /\ UNCHANGED <<rows, stash, server, run, aux>>

\* The question is asked again: a stash that is there is kept as it is.
StashCheck ==
  /\ pc = "stashCheck"
  /\ pc' = IF HasStash THEN "list" ELSE "stashRead"
  /\ UNCHANGED <<rows, stash, server, run, aux>>

\* Read the dirty documents, which may be others than SyncStart read.
StashRead ==
  /\ pc = "stashRead"
  /\ IF dirty = {}
     THEN pc' = "list" /\ UNCHANGED run
     ELSE /\ run' = [run EXCEPT !.rows =
                       [d \in Doc |-> IF d \in dirty THEN local[d] ELSE {}]]
          /\ pc' = "stashWrite"
  /\ UNCHANGED <<rows, stash, server, aux>>

\* Store what was read, whatever became of the rows since.
StashWrite ==
  /\ pc = "stashWrite"
  /\ stash' = run.rows
  /\ run' = [run EXCEPT !.ready = TRUE, !.rows = Empty]
  /\ pc' = "list"
  /\ UNCHANGED <<rows, server, aux>>

\* Mutant: a stash that could not be taken counts as taken.
StashFailsReady ==
  /\ pc \in {"stash", "stashCheck", "stashRead", "stashWrite"}
  /\ Fault
  /\ pc' = IF pc = "stash" THEN "stashCheck" ELSE "list"
  /\ run' = [run EXCEPT !.ready = TRUE, !.rows = Empty]
  /\ UNCHANGED <<rows, stash, server, made, guarded, wipes>>

\* Any of the four accesses may fail: no older stash is taken to be there, or
\* none is taken.
StashFails ==
  /\ pc \in {"stash", "stashCheck", "stashRead", "stashWrite"}
  /\ Fault
  /\ pc' = IF pc = "stash" THEN "stashCheck" ELSE "list"
  /\ run' = [run EXCEPT !.rows = Empty]
  /\ UNCHANGED <<rows, stash, server, made, guarded, wipes>>

\* Mutant: the deletions are not refused without a stash.
DiscoveredUnguarded(keys) ==
  /\ pc' = IF Present(keys) = {} THEN "readDirty" ELSE "delete"
  /\ run' = [run EXCEPT !.listed = keys, !.prefetched = TRUE]

\* The run goes on with the server's keys: nothing to bootstrap from, a
\* refusal to delete without a stash, or the deletions.
Discovered(keys) ==
  IF Present(keys) # {} /\ run.never # {} /\ ~run.ready
  THEN EndRun
  ELSE /\ pc' = IF Present(keys) = {} THEN "readDirty" ELSE "delete"
       /\ run' = [run EXCEPT !.listed = keys, !.prefetched = TRUE]

ListForBootstrap ==
  /\ pc = "list"
  /\ Discovered(server)
  /\ UNCHANGED <<rows, stash, server, aux>>

\* A failed listing counts as an empty one.
ListForBootstrapFails ==
  /\ pc = "list"
  /\ Fault
  /\ Discovered(Empty)
  /\ UNCHANGED <<rows, stash, server, made, guarded, wipes>>

\* Delete one never-synced document.  The deletion is committed as a remote
\* mutation, which saves every other document clean.
DeleteLocal(d) ==
  /\ pc = "delete"
  /\ d \in run.never
  /\ local' = [local EXCEPT ![d] = {}]
  /\ dirty' = {}
  /\ history' = history \ {d}
  /\ run' = [run EXCEPT !.never = @ \ {d}]
  /\ UNCHANGED <<stash, server, pc, aux>>

DeleteDone ==
  /\ pc = "delete"
  /\ run.never = {}
  /\ pc' = "pullPlan"
  /\ UNCHANGED <<rows, stash, server, run, aux>>

\* Read the stash that is to be replayed.
ReplayRead ==
  /\ pc = "replay"
  /\ HasStash
  /\ run' = [run EXCEPT !.rows = stash]
  /\ pc' = "replayMerge"
  /\ UNCHANGED <<rows, stash, server, aux>>

\* Mutant: the replayed documents are not marked dirty.
ReplayMergeClean ==
  /\ pc = "replayMerge"
  /\ \A d \in Doc : ~Clash(local[d], run.rows[d])
  /\ local' = [d \in Doc |-> local[d] \cup run.rows[d]]
  /\ run' = [run EXCEPT !.rows = Empty]
  /\ pc' = "dropStash"
  /\ UNCHANGED <<dirty, history, stash, server, aux>>

\* Layer the stashed documents over what was pulled and mark them dirty.
ReplayMerge ==
  /\ pc = "replayMerge"
  /\ \A d \in Doc : ~Clash(local[d], run.rows[d])
  /\ local' = [d \in Doc |-> local[d] \cup run.rows[d]]
  /\ dirty' = dirty \cup Present(run.rows)
  /\ run' = [run EXCEPT !.rows = Empty]
  /\ pc' = "dropStash"
  /\ UNCHANGED <<history, stash, server, aux>>

ReplayRefused ==
  \/ pc = "replay" /\ ~HasStash
  \/ pc = "replayMerge" /\ \E d \in Doc : Clash(local[d], run.rows[d])

\* Mutant: a stash that cannot be replayed is given up.
ReplayFailsForGood ==
  /\ ReplayRefused
  /\ EndRun
  /\ stash' = Empty
  /\ UNCHANGED <<rows, server, aux>>

\* Without a stash, or when a merge is refused, the whole run fails.
ReplayFails ==
  /\ ReplayRefused
  /\ EndRun
  /\ UNCHANGED <<rows, stash, server, aux>>

\* The replayed stash is deleted, and with it the run's claim on one.
DropStash ==
  /\ pc = "dropStash"
  /\ stash' = Empty
  /\ run' = [run EXCEPT !.ready = FALSE]
  /\ pc' = "readDirty"
  /\ UNCHANGED <<rows, server, aux>>

----------------------------------------------------------------------------
(* Phases 1 and 1b: exchange of documents with the server                  *)

\* Phase 1 takes the dirty documents as they are now.
ReadDirty ==
  /\ pc = "readDirty"
  /\ run' = [run EXCEPT !.rows = local, !.todo = dirty, !.answered = {},
                        !.got = Empty]
  /\ pc' = "push"
  /\ UNCHANGED <<rows, stash, server, aux>>

Exchanging(d) ==
  /\ pc \in {"push", "receive"}
  /\ d \in FirstRank(run.todo) \ run.answered

\* The sync rounds of one document of the current batch converge: both
\* sides hold the union of what was read from the row and the server's copy.
Exchange(d) ==
  /\ Exchanging(d)
  /\ ~Clash(run.rows[d], server[d])
  /\ server' = [server EXCEPT ![d] = @ \cup run.rows[d]]
  /\ run' = [run EXCEPT !.answered = @ \cup {d},
                        !.got[d] = server[d] \cup run.rows[d]]
  /\ UNCHANGED <<rows, stash, pc, aux>>

\* The exchange fails; the server may have merged the changes before.
ExchangeFails(d) ==
  /\ Exchanging(d)
  /\ \/ server' = server
     \/ /\ ~Clash(run.rows[d], server[d])
        /\ server' = [server EXCEPT ![d] = @ \cup run.rows[d]]
  /\ \/ Fault
     \/ Clash(run.rows[d], server[d]) /\ UNCHANGED faults
  /\ run' = [run EXCEPT !.answered = @ \cup {d}, !.got[d] = {}]
  /\ UNCHANGED <<rows, stash, pc, made, guarded, wipes>>

\* Results are handled once every document of the batch has one.
Answered(d) ==
  /\ d \in FirstRank(run.todo)
  /\ FirstRank(run.todo) \subseteq run.answered

\* Mutant: a row is replaced by what was exchanged.
StoreOver(d, s) == local' = [local EXCEPT ![d] = s]

Store(d, s) == local' = [local EXCEPT ![d] = @ \cup s]

\* Phase 1 success: merge into the row as it is now and clear its dirty flag.
SavePushed(d) ==
  /\ pc = "push"
  /\ Answered(d)
  /\ run.got[d] # {}
  /\ IF Clash(local[d], run.got[d])
     THEN EndRun /\ UNCHANGED rows
     ELSE /\ Store(d, run.got[d])
          /\ dirty' = dirty \ {d}
          /\ history' = history \cup {d}
          /\ run' = [run EXCEPT !.todo = @ \ {d}, !.synced = @ \cup {d}]
          /\ UNCHANGED pc
  /\ UNCHANGED <<stash, server, aux>>

\* Phase 1b success: merge into the row, keeping a dirty flag.
SaveReceived(d) ==
  /\ pc = "receive"
  /\ Answered(d)
  /\ run.got[d] # {}
  /\ IF Clash(local[d], run.got[d])
     THEN EndRun /\ UNCHANGED rows
     ELSE /\ Store(d, run.got[d])
          /\ history' = history \cup {d}
          /\ run' = [run EXCEPT !.todo = @ \ {d},
                                !.reach = Refiltered(d, local', history')]
          /\ UNCHANGED <<dirty, pc>>
  /\ UNCHANGED <<stash, server, aux>>

\* A failed document keeps its row and its dirty flag for a later run.
SkipFailed(d) ==
  /\ pc \in {"push", "receive"}
  /\ Answered(d)
  /\ run.got[d] = {}
  /\ run' = [run EXCEPT !.todo = @ \ {d}]
  /\ UNCHANGED <<rows, stash, server, pc, aux>>

PushDone ==
  /\ pc = "push"
  /\ run.todo = {}
  /\ pc' = IF run.prefetched THEN "receivePlan" ELSE "listKeys"
  /\ UNCHANGED <<rows, stash, server, run, aux>>

ListKeys ==
  /\ pc = "listKeys"
  /\ run' = [run EXCEPT !.listed = server]
  /\ pc' = "receivePlan"
  /\ UNCHANGED <<rows, stash, server, aux>>

\* Without the server's keys the run ends after phase 1.
ListKeysFails ==
  /\ pc = "listKeys"
  /\ Fault
  /\ EndRun
  /\ UNCHANGED <<rows, stash, server, made, guarded, wipes>>

\* Mutant: clean documents are left to the next push.
ReceivePlanDirty ==
  /\ pc = "receivePlan"
  /\ run' = [run EXCEPT !.rows = local, !.todo = dirty \ run.synced,
                        !.answered = {}, !.got = Empty,
                        !.reach = Reach(local, history)]
  /\ pc' = "receive"
  /\ UNCHANGED <<rows, stash, server, aux>>

\* Phase 1b takes every other local document, except the clean ones that
\* are unreachable and the clean ones known to be at the listed head.  A
\* head is known only when both sides have exactly one, so any subset of
\* the documents with equal content may be skipped.
ReceivePlan ==
  LET reach   == Reach(local, history)
      others  == Present(local) \ run.synced
      wanted  == {d \in others : d \in dirty \/ d \in reach}
      atHead  == {d \in wanted \ dirty : local[d] = run.listed[d]}
  IN
  /\ pc = "receivePlan"
  /\ \E skipped \in SUBSET atHead :
       run' = [run EXCEPT !.rows = local, !.todo = wanted \ skipped,
                          !.answered = {}, !.got = Empty, !.reach = reach]
  /\ pc' = "receive"
  /\ UNCHANGED <<rows, stash, server, aux>>

\* Mutant: only a bootstrap pulls missing documents.
ReceiveDoneLast ==
  /\ pc = "receive"
  /\ run.todo = {}
  /\ EndRun
  /\ UNCHANGED <<rows, stash, server, aux>>

ReceiveDone ==
  /\ pc = "receive"
  /\ run.todo = {}
  /\ run' = [run EXCEPT !.boot = FALSE, !.rows = Empty]
  /\ pc' = "pullPlan"
  /\ UNCHANGED <<rows, stash, server, aux>>

----------------------------------------------------------------------------
(* Phase 2, and the pull inside the bootstrap: missing documents           *)

\* What follows a pull: the rest of the bootstrap, or the end of the run.
\* After a failed pull the bootstrap goes on without replaying the stash.
AfterPull(ok) ==
  IF run.boot
  THEN /\ pc' = IF ok /\ run.ready THEN "replay" ELSE "readDirty"
       /\ UNCHANGED run
  ELSE EndRun

PullPlan ==
  LET reach   == IF run.boot THEN Reach(local, history) ELSE run.reach
      missing == Present(run.listed) \ Present(local)
  IN
  /\ pc = "pullPlan"
  /\ IF \E d \in missing : Pullable(d, reach)
     THEN /\ run' = [run EXCEPT !.todo = missing, !.reach = reach]
          /\ pc' = "pullBatch"
     ELSE AfterPull(TRUE)
  /\ UNCHANGED <<rows, stash, server, aux>>

\* One call downloads every document that passes the filter.
PullBatch ==
  /\ pc = "pullBatch"
  /\ run' = [run EXCEPT !.todo = {d \in run.todo : Pullable(d, run.reach)},
                        !.got = server]
  /\ pc' = "pullApply"
  /\ UNCHANGED <<rows, stash, server, aux>>

PullBatchFails ==
  /\ pc = "pullBatch"
  /\ Fault
  /\ pc' = "pullEach"
  /\ UNCHANGED <<rows, stash, server, run, made, guarded, wipes>>

\* Store a downloaded snapshot: no sync state, a dirty flag is kept.
ApplySnapshot(d, s) ==
  /\ IF Clash(local[d], s)
     THEN AfterPull(FALSE) /\ UNCHANGED rows
     ELSE /\ Store(d, s)
          /\ run' = [run EXCEPT !.todo = @ \ {d},
                                !.reach = Refiltered(d, local', history)]
          /\ UNCHANGED <<dirty, history, pc>>
  /\ UNCHANGED <<stash, server, aux>>

PullApply(d) ==
  /\ pc = "pullApply"
  /\ d \in run.todo
  /\ ApplySnapshot(d, run.got[d])

\* The fallback asks again for each missing document, filtering as it goes.
PullOne(d) ==
  /\ pc = "pullEach"
  /\ d \in FirstRank(run.todo)
  /\ Pullable(d, run.reach)
  /\ ApplySnapshot(d, server[d])

PullSkip(d) ==
  /\ pc = "pullEach"
  /\ d \in FirstRank(run.todo)
  /\ \/ ~Pullable(d, run.reach) /\ UNCHANGED faults
     \/ Pullable(d, run.reach) /\ Fault
  /\ run' = [run EXCEPT !.todo = @ \ {d}]
  /\ UNCHANGED <<rows, stash, server, pc, made, guarded, wipes>>

PullDone ==
  /\ pc \in {"pullApply", "pullEach"}
  /\ run.todo = {}
  /\ AfterPull(TRUE)
  /\ UNCHANGED <<rows, stash, server, aux>>

----------------------------------------------------------------------------
(* The specification                                                       *)

Init ==
  /\ local = Empty
  /\ dirty = {}
  /\ history = {}
  /\ stash = Empty
  /\ server = [d \in Doc |-> {c \in ServerStart : DocOf[c] = d}]
  /\ pc = "idle"
  /\ run = NoRun
  /\ made = {}
  /\ guarded = {}
  /\ faults = 0
  /\ wipes = 0

Environment ==
  \/ \E c \in LocalChange : Edit(c)
  \/ \E c \in RemoteChange : RemoteEdit(c)
  \/ Wipe
  \/ Crash
  \/ ClassifyFails
  \/ StashFails
  \/ ListForBootstrapFails
  \/ ListKeysFails
  \/ PullBatchFails

BootstrapStep ==
  \/ Classify
  \/ HadStash
  \/ StashCheck
  \/ StashRead
  \/ StashWrite
  \/ ListForBootstrap
  \/ \E d \in Doc : DeleteLocal(d)
  \/ DeleteDone
  \/ ReplayRead
  \/ ReplayMerge
  \/ ReplayFails
  \/ DropStash

ExchangeStep ==
  \/ ReadDirty
  \/ \E d \in Doc : Exchange(d)
  \/ \E d \in Doc : ExchangeFails(d)
  \/ \E d \in Doc : SavePushed(d)
  \/ \E d \in Doc : SaveReceived(d)
  \/ \E d \in Doc : SkipFailed(d)
  \/ PushDone
  \/ ListKeys
  \/ ReceivePlan
  \/ ReceiveDone

PullStep ==
  \/ PullPlan
  \/ PullBatch
  \/ \E d \in Doc : PullApply(d)
  \/ \E d \in Doc : PullOne(d)
  \/ \E d \in Doc : PullSkip(d)
  \/ PullDone

RunStep == SyncStart \/ BootstrapStep \/ ExchangeStep \/ PullStep

Next == Environment \/ RunStep

Spec == Init /\ [][Next]_vars

\* A run that was started goes on, and the host starts another one after it.
\* Nothing is assumed of edits, of the other devices or of failures.
FairSpec == Spec /\ WF_vars(RunStep)

----------------------------------------------------------------------------
(* Properties                                                              *)

RunType ==
  [never : SUBSET Doc, ready : BOOLEAN, boot : BOOLEAN, prefetched : BOOLEAN,
   listed : [Doc -> SUBSET Change], rows : [Doc -> SUBSET Change],
   todo : SUBSET Doc, answered : SUBSET Doc, got : [Doc -> SUBSET Change],
   synced : SUBSET Doc, reach : SUBSET Doc]

\* Types of the stored rows, of the stash, the server and the run.
TypeOK ==
  /\ local \in [Doc -> SUBSET Change]
  /\ dirty \in SUBSET Doc
  /\ history \in SUBSET Doc
  /\ stash \in [Doc -> SUBSET Change]
  /\ server \in [Doc -> SUBSET Change]
  /\ pc \in Step
  /\ run \in RunType
  /\ made \in SUBSET LocalChange
  /\ guarded \in SUBSET LocalChange
  /\ faults \in Nat
  /\ wipes \in Nat

\* A change made to a synced document, or made while no bootstrap stash was
\* outstanding, is never lost: it is in the device's row, in the stash or on the
\* server, whatever the sync run deletes, whichever calls fail and wherever the
\* process dies.
GuardedChangesSurvive ==
  \A c \in guarded :
    c \in local[DocOf[c]] \cup stash[DocOf[c]] \cup server[DocOf[c]]

\* Why: such a change that is neither in the stash nor on the server is in its
\* row, and the row is out of the bootstrap's reach or will be stashed by it,
\* with the change if the rows were read already.
GuardedChangesCovered ==
  \A c \in guarded :
    \/ c \in stash[DocOf[c]] \cup server[DocOf[c]]
    \/ /\ c \in local[DocOf[c]]
       /\ \/ DocOf[c] \in history
          \/ /\ ~HasStash /\ ~run.ready
             /\ DocOf[c] \in dirty
             /\ pc = "stashWrite" => c \in run.rows[DocOf[c]]

\* The bootstrap deletes documents without a sync history only, and only with
\* a stash; it writes a stash only where there is none; and what it replayed is
\* in dirty rows until the stash is dropped.
BootstrapIsGuarded ==
  /\ pc \in Opening => run.never \cap history = {}
  /\ pc \in {"stashRead", "stashWrite"} => ~HasStash
  /\ pc = "delete" /\ run.never # {} => run.ready
  /\ pc = "replayMerge" => \A d \in Present(stash) : run.rows[d] = stash[d]
  /\ pc = "dropStash" => \A d \in Present(stash) :
                           stash[d] \subseteq local[d] /\ d \in dirty

\* Every change anywhere on the device was made there or is on the server.
ChangesHaveAnOrigin ==
  /\ \A c \in Change : c \in local[DocOf[c]] \cup stash[DocOf[c]] \cup run.rows[DocOf[c]]
       => c \in made \cup server[DocOf[c]]
  /\ \A d \in Doc : run.got[d] \subseteq server[d]

\* The inductive invariant.
Inductive ==
  TypeOK /\ GuardedChangesCovered /\ BootstrapIsGuarded /\ ChangesHaveAnOrigin

\* A document that was synced once never loses a change from its row: the
\* bootstrap deletes never-synced documents only, and merges never overwrite.
SyncedRowsOnlyGrow ==
  [][\A d \in history : wipes' # wipes \/ local[d] \subseteq local'[d]]_vars

\* The stash is given up only when everything in it is in rows that are
\* marked for the push, or by a logout.
StashDroppedOnlyWhenReplayed ==
  [][\A d \in Doc : stash[d] # {} /\ stash'[d] = {} /\ wipes' = wipes
       => stash[d] \subseteq local'[d] /\ d \in dirty']_vars

\* What is on the device, in a run's hands and on the server, document by
\* document.
Kept == {c \in Change : c \in local[DocOf[c]] \cup stash[DocOf[c]]}
Copies == {c \in Change : c \in run.rows[DocOf[c]]}
Published == {c \in Change : c \in server[DocOf[c]]}

Durable == INSTANCE DurableChanges
  WITH Mine <- LocalChange, Others <- RemoteChange, Start <- ServerStart,
       kept <- Kept, held <- Copies, owed <- guarded, published <- Published, ever <- made

\* The synchronisation implements a durable store of changes: guarded changes
\* leave the device only once published, and nothing comes to the device that
\* was not made there or published, or held by a run that a logout overtook.
ImplementsDurableChanges == Durable!Spec

\* The device reused sequence numbers of its own that the server already has.
SelfForked ==
  \E d \in Doc : Clash(local[d], server[d]) \/ Clash(stash[d], server[d])

\* Every guarded change reaches the server, even one that is made while its
\* document is being pushed and loses its dirty flag to that push; unless the
\* data is wiped, the document is unreachable, or the device forked itself.
GuardedChangesReachServer ==
  \A c \in LocalChange :
    c \in guarded ~> \/ c \in server[DocOf[c]]
                     \/ c \notin guarded
                     \/ DocOf[c] \notin Reach(local, history)
                     \/ SelfForked

\* Every change of another device reaches this one, in a document it has or
\* one it pulls, unless the document is unreachable or the device forked.
ServerChangesReachDevice ==
  \A c \in RemoteChange :
    c \in server[DocOf[c]] ~> \/ c \in local[DocOf[c]]
                              \/ DocOf[c] \notin Reach(local, history)
                              \/ SelfForked

=============================================================================
