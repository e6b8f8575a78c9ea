----------------------------- MODULE SearchIndex -----------------------------
(***************************************************************************)
(* The search index of the SDK (remi-client-sdk/src/search.rs): callers    *)
(* change rows and then enqueue what they changed; one worker thread       *)
(* applies the queue to an index on disk; a shared status tells a search   *)
(* whether to wait for the worker.                                         *)
(*                                                                         *)
(* A row and an indexed document are version numbers, 0 for none: what the *)
(* document says does not matter, only which state of the row it shows.    *)
(***************************************************************************)
EXTENDS Naturals, Sequences, SequencesExt

CONSTANTS
  Entity,     \* things, collections, messages, notifications, ...
  Present,    \* entities that are there when the index is first opened
  NotWiped,   \* entities whose table a wipe leaves alone
  InThings,   \* things and collections, kept in the Things documents
  Caller,     \* threads that call the SDK
  MaxCalls,   \* bound on the calls they make
  MaxFaults,  \* bound on failures of a provider, of a commit, of the worker
  MaxCrashes  \* bound on deaths of the process

ASSUME SearchAssumption ==
  /\ Present \subseteq Entity
  /\ NotWiped \subseteq Entity
  /\ InThings \subseteq Entity \ NotWiped
  /\ MaxCalls \in Nat
  /\ MaxFaults \in Nat
  /\ MaxCrashes \in Nat

VARIABLES
  rows,     \* [Entity -> Nat]: the database
  index,    \* [Entity -> Nat]: the committed index
  queue,    \* commands sent to the worker
  phase,    \* SearchIndexState.phase
  worker,   \* what the worker is doing
  caller,   \* [Caller -> what that thread is doing]
  sent,     \* commands sent since the service was opened
  begun,    \* commands the worker has begun
  done,     \* commands the worker has finished
  stale,    \* (auxiliary) entities whose index entry may differ from the row
  calls,    \* calls made so far; a saved row takes it as its version
  faults,
  crashes

disk == <<rows, index>>
counts == <<sent, begun, done>>
bounds == <<calls, faults, crashes>>
vars == <<disk, queue, phase, worker, caller, counts, stale, bounds>>

Version == 0..(MaxCalls + 1)
Nothing == [e \in {} |-> 0]

Apply(docs) == [op |-> "apply", docs |-> docs]
Rebuild == [op |-> "rebuild", docs |-> Nothing]
Flush == [op |-> "flush", docs |-> Nothing]

Phase == {"queued", "building", "updating", "ready", "error"}
InProgress == phase \in {"queued", "building", "updating"}

Resting ==
  [at |-> "idle", cmd |-> Flush, waits |-> FALSE, searching |-> FALSE,
   need |-> 0, begun |-> 0]

\* A rebuild keeps what it has read (docs), and which of it is known to be out
\* of date (missed: an auxiliary field).
NoJob == [at |-> "idle", cmd |-> Flush, by |-> {}, docs |-> Nothing,
          missed |-> {}, ok |-> TRUE]

\* idx with docs written over it.
Indexed(docs, idx) ==
  [e \in DOMAIN docs \cup DOMAIN idx |-> IF e \in DOMAIN docs THEN docs[e] ELSE idx[e]]

----------------------------------------------------------------------------
(* Callers: a change of the rows, then the command for the index           *)

Call == calls < MaxCalls + 1 /\ calls' = calls + 1

Fault == faults < MaxFaults /\ faults' = faults + 1

\* Entities of which some caller holds a document it has not sent yet.
Held == UNION {DOMAIN caller[t].cmd.docs : t \in Caller}

\* Documents that are on their way to the index.
Coming ==
  Held \cup DOMAIN worker.cmd.docs
       \cup UNION {DOMAIN queue[i].cmd.docs : i \in 1..Len(queue)}

\* The caller's next steps are to mark the status and to send cmd.
Enqueues(t, at, cmd) ==
  caller' = [caller EXCEPT ![t] = [Resting EXCEPT !.at = at, !.cmd = cmd]]

\* Whether a command about e that is sent next brings the index up to date:
\* nobody holds an older document of e, and there is a worker.
Repairs(e) == e \notin Held /\ worker.at # "dead"

\* No command is sent about es: a rebuild under way has missed the change of
\* those it had read before.
LeftOut(es) ==
  worker' = [worker EXCEPT !.missed =
    @ \cup {e \in es \cap DOMAIN worker.docs : worker.docs[e] # rows'[e]}]

\* What one command may change beside the entity it is about: a thing takes
\* the things below it along, a collection its things, and system collections
\* that were not there are created.
Beside(e) == IF e \in InThings THEN SUBSET (InThings \ {e}) ELSE {{}}

\* A command that saves or removes an entity, and with it the others.  Some
\* facades enqueue the entity the command returned, others read it back
\* first; the others are not enqueued.
Save(t, e, others) ==
  /\ caller[t].at = "idle"
  /\ Call
  /\ \E v \in {0, calls'} :
       /\ rows' = [x \in Entity |-> IF x \in others \cup {e} THEN v ELSE rows[x]]
       /\ \E at \in {"read", "mark"} : Enqueues(t, at, Apply([x \in {e} |-> v]))
  /\ LeftOut(others)
  /\ stale' = (IF Repairs(e) THEN stale \ {e} ELSE stale \cup {e}) \cup others
  /\ UNCHANGED <<index, queue, phase, counts, faults, crashes>>

\* A change nothing is enqueued for: seeded actions, notifications that are
\* marked as read, the stash that is replayed over the documents.
SaveUnsent(t, es) ==
  /\ caller[t].at = "idle"
  /\ Call
  /\ \E v \in {0, calls'} : rows' = [x \in Entity |-> IF x \in es THEN v ELSE rows[x]]
  /\ LeftOut(es)
  /\ stale' = stale \cup es
  /\ UNCHANGED <<index, queue, phase, caller, counts, faults, crashes>>

\* Mutant: the facade enqueues before the row is read back.
ReadBackNothing(t) ==
  /\ caller[t].at = "read"
  /\ caller' = [caller EXCEPT ![t].at = "mark", ![t].cmd = Apply(Nothing)]
  /\ UNCHANGED <<disk, queue, phase, worker, counts, stale, bounds>>

ReadBack(t) ==
  /\ caller[t].at = "read"
  /\ caller' =
       [caller EXCEPT ![t].at = "mark",
          ![t].cmd = Apply([e \in DOMAIN caller[t].cmd.docs |-> rows[e]])]
  /\ UNCHANGED <<disk, queue, phase, worker, counts, stale, bounds>>

\* The read-back fails: the facade logs it and enqueues nothing.
ReadBackFails(t) ==
  LET es == DOMAIN caller[t].cmd.docs IN
  /\ caller[t].at = "read"
  /\ Fault
  /\ UNCHANGED <<disk, queue, phase, counts, calls, crashes>>
  /\ caller' = [caller EXCEPT ![t] = Resting]
  /\ LeftOut(es)
  /\ stale' = stale \cup es

\* Mutant: the rebuild is not asked for.
RemoteApplySilently(t, e) ==
  /\ caller[t].at = "idle"
  /\ Call
  /\ \E v \in {0, calls'} : rows' = [rows EXCEPT ![e] = v]
  /\ stale' = stale \cup (Held \cap {e})
  /\ UNCHANGED <<index, queue, phase, worker, caller, counts, faults, crashes>>

\* A synchronised document: any entity may change, the index is rebuilt.
RemoteApply(t, e) ==
  /\ caller[t].at = "idle"
  /\ Call
  /\ \E v \in {0, calls'} : rows' = [rows EXCEPT ![e] = v]
  /\ Enqueues(t, "mark", Rebuild)
  /\ stale' = stale \cup (Held \cap {e})
  /\ UNCHANGED <<index, queue, phase, worker, counts, faults, crashes>>

\* Logout: most tables are emptied and the whole index is cleared.
Wipe(t) ==
  /\ caller[t].at = "idle"
  /\ Call
  /\ rows' = [e \in Entity |-> IF e \in NotWiped THEN rows[e] ELSE 0]
  /\ Enqueues(t, "mark", Apply([e \in Entity |-> 0]))
  /\ stale' = stale \cup Held \cup NotWiped
  /\ UNCHANGED <<index, queue, phase, worker, counts, faults, crashes>>

\* rebuild_search_index and flush_search_index wait for the worker's answer.
Await(t, cmd) ==
  /\ caller[t].at = "idle"
  /\ Call
  /\ caller' = [caller EXCEPT ![t] = [Resting EXCEPT !.at = "mark", !.cmd = cmd,
                                        !.waits = TRUE, !.need = sent, !.begun = begun]]
  /\ UNCHANGED <<disk, queue, phase, worker, counts, stale, faults, crashes>>

MarkQueued(t) ==
  /\ caller[t].at = "mark"
  /\ phase' = "queued"
  /\ caller' = [caller EXCEPT ![t].at = "send"]
  /\ UNCHANGED <<disk, queue, worker, counts, stale, bounds>>

\* The command joins the queue, with the caller to answer if it waits.
Send(t) ==
  /\ caller[t].at = "send"
  /\ worker.at # "dead"
  /\ queue' = Append(queue, [cmd |-> caller[t].cmd,
                             by |-> IF caller[t].waits THEN {t} ELSE {}])
  /\ sent' = sent + 1
  /\ caller' = [caller EXCEPT ![t] = IF caller[t].waits
                                     THEN [caller[t] EXCEPT !.at = "wait", !.cmd = Flush]
                                     ELSE Resting]
  /\ UNCHANGED <<disk, phase, worker, begun, done, stale, bounds>>

\* Without a worker the call fails and the status shows it.
SendFails(t) ==
  /\ caller[t].at = "send"
  /\ worker.at = "dead"
  /\ phase' = "error"
  /\ caller' = [caller EXCEPT ![t] = Resting]
  /\ UNCHANGED <<disk, queue, worker, counts, stale, bounds>>

\* Mutant: a search does not wait while the index is rebuilt.
SearchPastRebuild(t) ==
  /\ caller[t].at = "idle"
  /\ Call
  /\ caller' =
       [caller EXCEPT ![t] =
          [Resting EXCEPT !.at = IF phase \in {"queued", "updating"} THEN "mark" ELSE "look",
                          !.waits = InProgress, !.searching = TRUE,
                          !.need = sent, !.begun = begun]]
  /\ UNCHANGED <<disk, queue, phase, worker, counts, stale, faults, crashes>>

\* A search reads the status and flushes the queue when work is in progress.
Search(t) ==
  /\ caller[t].at = "idle"
  /\ Call
  /\ caller' =
       [caller EXCEPT ![t] =
          [Resting EXCEPT !.at = IF InProgress THEN "mark" ELSE "look",
                          !.waits = InProgress, !.searching = TRUE,
                          !.need = sent, !.begun = begun]]
  /\ UNCHANGED <<disk, queue, phase, worker, counts, stale, faults, crashes>>

\* The search reads the committed index.
Look(t) ==
  /\ caller[t].at = "look"
  /\ caller' = [caller EXCEPT ![t] = Resting]
  /\ UNCHANGED <<disk, queue, phase, worker, counts, stale, bounds>>

----------------------------------------------------------------------------
(* The worker                                                              *)

\* Mutant: the newest command first.
BeginNewest ==
  LET job == Last(queue) IN
  /\ worker.at = "idle"
  /\ queue # <<>>
  /\ queue' = Front(queue)
  /\ begun' = begun + 1
  /\ phase' = IF job.cmd.op = "rebuild" THEN "building" ELSE "updating"
  /\ worker' = [NoJob EXCEPT !.cmd = job.cmd, !.by = job.by,
                  !.at = CASE job.cmd.op = "rebuild" -> "collect"
                           [] job.cmd.op = "apply" -> "commit"
                           [] OTHER -> "finish"]
  /\ UNCHANGED <<disk, caller, sent, done, stale, bounds>>

\* Take the next command and show it in the status.
Begin ==
  LET job == Head(queue) IN
  /\ worker.at = "idle"
  /\ queue # <<>>
  /\ queue' = Tail(queue)
  /\ begun' = begun + 1
  /\ phase' = IF job.cmd.op = "rebuild" THEN "building" ELSE "updating"
  /\ worker' = [NoJob EXCEPT !.cmd = job.cmd, !.by = job.by,
                  !.at = CASE job.cmd.op = "rebuild" -> "collect"
                           [] job.cmd.op = "apply" -> "commit"
                           [] OTHER -> "finish"]
  /\ UNCHANGED <<disk, caller, sent, done, stale, bounds>>

\* A rebuild reads the tables one after the other.
Collect(e) ==
  /\ worker.at = "collect"
  /\ e \notin DOMAIN worker.docs
  /\ worker' = [worker EXCEPT !.docs = Indexed([x \in {e} |-> rows[e]], worker.docs)]
  /\ UNCHANGED <<disk, queue, phase, caller, counts, stale, bounds>>

\* A Things snapshot that fails is logged and the rebuild goes on without.
CollectMisses ==
  /\ worker.at = "collect"
  /\ InThings \cap DOMAIN worker.docs = {}
  /\ Fault
  /\ worker' = [worker EXCEPT !.missed = @ \cup InThings,
                  !.docs = Indexed([e \in InThings |-> 0], worker.docs)]
  /\ UNCHANGED <<disk, queue, phase, caller, counts, stale, calls, crashes>>

\* The index is cleared, filled and committed: entities that are still on
\* their way apart, it is up to date again.
CommitRebuild ==
  /\ worker.at = "collect"
  /\ DOMAIN worker.docs = Entity
  /\ index' = worker.docs
  /\ stale' = (stale \cap Coming) \cup worker.missed
  /\ worker' = [worker EXCEPT !.at = "finish"]
  /\ UNCHANGED <<rows, queue, phase, caller, counts, bounds>>

CommitApply ==
  /\ worker.at = "commit"
  /\ index' = Indexed(worker.cmd.docs, index)
  /\ worker' = [worker EXCEPT !.at = "finish"]
  /\ UNCHANGED <<rows, queue, phase, caller, counts, stale, bounds>>

\* A provider, the writer or the commit fails: the index stays as it was.
CommitFails ==
  /\ worker.at \in {"collect", "commit"}
  /\ Fault
  /\ worker' = [worker EXCEPT !.at = "finish", !.ok = FALSE]
  /\ stale' = stale \cup (IF worker.at = "collect" THEN Entity
                          ELSE DOMAIN worker.cmd.docs)
  /\ UNCHANGED <<disk, queue, phase, caller, counts, calls, crashes>>

\* What a caller that waited does next: a search goes on unless it failed.
Answer(ts, ok) ==
  caller' = [t \in Caller |->
               IF t \notin ts THEN caller[t]
               ELSE IF caller[t].searching /\ ok
                    THEN [caller[t] EXCEPT !.at = "look", !.waits = FALSE]
                    ELSE Resting]

\* Mutant: only a success is answered.
FinishSilently ==
  /\ worker.at = "finish"
  /\ phase' = IF worker.ok THEN "ready" ELSE "error"
  /\ done' = done + 1
  /\ Answer(IF worker.ok THEN worker.by ELSE {}, worker.ok)
  /\ worker' = NoJob
  /\ UNCHANGED <<disk, queue, sent, begun, stale, bounds>>

Finish ==
  /\ worker.at = "finish"
  /\ phase' = IF worker.ok THEN "ready" ELSE "error"
  /\ done' = done + 1
  /\ Answer(worker.by, worker.ok)
  /\ worker' = NoJob
  /\ UNCHANGED <<disk, queue, sent, begun, stale, bounds>>

\* A provider panics: the thread ends and with it the queue; callers that
\* wait get an error.
WorkerDies ==
  /\ worker.at \in {"collect", "commit"}
  /\ Fault
  /\ worker' = [NoJob EXCEPT !.at = "dead"]
  /\ queue' = <<>>
  /\ Answer({t \in Caller : caller[t].at = "wait"}, FALSE)
  /\ stale' = Entity
  /\ UNCHANGED <<disk, phase, counts, calls, crashes>>

----------------------------------------------------------------------------
(* The process                                                             *)

\* The index exists on disk, so it counts as ready when it is opened again.
Crash ==
  /\ crashes < MaxCrashes
  /\ crashes' = crashes + 1
  /\ stale' = IF \/ worker.at \in {"collect", "dead"}
                 \/ \E i \in 1..Len(queue) : queue[i].cmd.op = "rebuild"
                 \/ \E t \in Caller : caller[t].cmd.op = "rebuild"
              THEN Entity
              ELSE stale \cup Coming
  /\ queue' = <<>>
  /\ phase' = "ready"
  /\ worker' = NoJob
  /\ caller' = [t \in Caller |-> Resting]
  /\ sent' = 0
  /\ begun' = 0
  /\ done' = 0
  /\ UNCHANGED <<disk, calls, faults>>

\* The first opening: a new index over what the database holds.
Init ==
  /\ rows = [e \in Entity |-> IF e \in Present THEN 1 ELSE 0]
  /\ index = [e \in Entity |-> 0]
  /\ queue = <<[cmd |-> Rebuild, by |-> {}]>>
  /\ phase = "queued"
  /\ worker = NoJob
  /\ caller = [t \in Caller |-> Resting]
  /\ sent = 1
  /\ begun = 0
  /\ done = 0
  /\ stale = {}
  /\ calls = 1
  /\ faults = 0
  /\ crashes = 0

NewCall(t) ==
  \/ \E e \in Entity : \E others \in Beside(e) : Save(t, e, others)
  \/ \E es \in SUBSET Entity \ {{}} : SaveUnsent(t, es)
  \/ \E e \in Entity : RemoteApply(t, e)
  \/ Wipe(t)
  \/ Await(t, Rebuild)
  \/ Await(t, Flush)
  \/ Search(t)

CallerStep(t) ==
  \/ ReadBack(t)
  \/ MarkQueued(t)
  \/ Send(t)
  \/ SendFails(t)
  \/ Look(t)

WorkerStep ==
  \/ Begin
  \/ \E e \in Entity : Collect(e)
  \/ CommitRebuild
  \/ CommitApply
  \/ Finish

Next ==
  \/ \E t \in Caller : NewCall(t)
  \/ \E t \in Caller : CallerStep(t)
  \/ \E t \in Caller : ReadBackFails(t)
  \/ WorkerStep
  \/ CollectMisses
  \/ CommitFails
  \/ WorkerDies
  \/ Crash

Spec == Init /\ [][Next]_vars

\* Threads that can run do run: the worker, and every caller inside a call.
FairSpec ==
  /\ Spec
  /\ WF_vars(WorkerStep)
  /\ \A t \in Caller : WF_vars(CallerStep(t))

----------------------------------------------------------------------------
(* Properties                                                              *)

Docs == UNION {[es -> Version] : es \in SUBSET Entity}
Command == [op : {"apply", "rebuild", "flush"}, docs : Docs]
Job == [cmd : Command, by : SUBSET Caller]
Working == {"collect", "commit", "finish"}

WorkerState ==
  [at : Working \cup {"idle", "dead"}, cmd : Command, by : SUBSET Caller,
   docs : Docs, missed : SUBSET Entity, ok : BOOLEAN]

CallerState ==
  [at : {"idle", "read", "mark", "send", "wait", "look"}, cmd : Command,
   waits : BOOLEAN, searching : BOOLEAN, need : Nat, begun : Nat]

\* Types; the worker never finishes a command it did not begin, nor begins
\* one that was not sent.
TypeOK ==
  /\ rows \in [Entity -> Version]
  /\ index \in [Entity -> Version]
  /\ queue \in Seq(Job)
  /\ phase \in Phase
  /\ worker \in WorkerState
  /\ caller \in [Caller -> CallerState]
  /\ stale \subseteq Entity
  /\ calls \in 1..(MaxCalls + 1)
  /\ faults \in 0..MaxFaults
  /\ crashes \in 0..MaxCrashes
  /\ sent \in Nat /\ begun \in Nat /\ done \in Nat
  /\ done <= begun /\ begun <= sent

\* What makes the status trustworthy: while the worker lives every command
\* is queued, in its hands or finished, and it shows a status of work in
\* progress for as long as it has one in its hands.
Counted ==
  worker.at # "dead" =>
    /\ sent = begun + Len(queue)
    /\ worker.at \in Working => begun = done + 1
    /\ worker.at = "idle" => begun = done

StatusShowsWork ==
  /\ worker.at \in Working => InProgress
  /\ \A t \in Caller : caller[t].begun <= begun

\* A search reads the index only when all the work that had begun before it
\* started is committed: it never shows half of a rebuild as if it were all.
SearchSeesBegunWork ==
  \A t \in Caller :
    caller[t].at = "look" /\ worker.at # "dead" => done >= caller[t].begun

\* The inductive invariant behind SearchSeesBegunWork.
Inductive == TypeOK /\ Counted /\ StatusShowsWork /\ SearchSeesBegunWork

\* A caller that waited for the worker returns only when everything that was
\* sent before it asked has been worked off, or with an error.
WaitingSeesAll ==
  [][\A t \in Caller :
       /\ caller[t].at = "wait"
       /\ caller'[t].at # "wait"
       /\ worker'.at # "dead"
       /\ crashes' = crashes
       => done' > caller[t].need]_vars

\* When nobody has anything left to do the index shows the rows, but for
\* what raced (two callers changed an entity and neither had sent it yet),
\* was changed beside the entity a command enqueued or with nothing enqueued
\* at all, failed, was cut off by a crash, or is left by a wipe.  The next
\* command about such an entity repairs its entry, a rebuild repairs all.
SettledIndexMatches ==
  /\ \A t \in Caller : caller[t].at = "idle"
  /\ queue = <<>>
  /\ worker.at = "idle"
  => \A e \in Entity \ stale : index[e] = rows[e]

\* Every call returns, whatever fails; a search never waits for ever.
CallsReturn == \A t \in Caller : caller[t].at # "idle" ~> caller[t].at = "idle"

=============================================================================
