------------------------- MODULE SearchIndex_proofs -------------------------
(* Proofs about SearchIndex, for every set of entities and callers.        *)
EXTENDS SearchIndex, TLAPS

LEMMA DocsOf ==
  ASSUME NEW es \in SUBSET Entity, NEW f \in [es -> Version]
  PROVE  f \in Docs
BY DEF Docs

LEMMA DocsType ==
  ASSUME NEW f \in Docs
  PROVE  /\ DOMAIN f \subseteq Entity
         /\ \A e \in DOMAIN f : f[e] \in Version
BY DEF Docs

LEMMA ConstantDocs ==
  ASSUME NEW es \in SUBSET Entity, NEW v \in Version
  PROVE  [e \in es |-> v] \in Docs
BY DocsOf

LEMMA NothingDocs == Nothing \in Docs /\ Flush \in Command /\ Rebuild \in Command
<1>1. 0 \in Version
  BY SearchAssumption DEF Version
<1>2. Nothing \in Docs
  <2>1. Nothing \in [{} -> Version] /\ {} \in SUBSET Entity
    BY <1>1 DEF Nothing
  <2> QED
    BY <2>1, DocsOf
<1> QED
  BY <1>2 DEF Flush, Rebuild, Command

LEMMA IndexedDocs ==
  ASSUME NEW f \in Docs, NEW g \in Docs
  PROVE  Indexed(f, g) \in Docs
<1>1. Indexed(f, g) \in [DOMAIN f \cup DOMAIN g -> Version]
  BY DocsType DEF Indexed
<1>2. DOMAIN f \cup DOMAIN g \in SUBSET Entity
  BY DocsType
<1> QED
  BY <1>1, <1>2, DocsOf

LEMMA RestingType == Resting \in CallerState
BY NothingDocs DEF Resting, CallerState

LEMMA NoJobType == NoJob \in WorkerState
BY NothingDocs DEF NoJob, WorkerState, Working

LEMMA AppliedType ==
  ASSUME NEW f \in Docs
  PROVE  Apply(f) \in Command
BY DEF Apply, Command

LEMMA InProgressBoolean == InProgress \in BOOLEAN
BY DEF InProgress

\* What a caller looks like when it is about to send a command.
LEMMA EnqueueingType ==
  ASSUME NEW at \in {"read", "mark"}, NEW cmd \in Command
  PROVE  [Resting EXCEPT !.at = at, !.cmd = cmd] \in CallerState
BY RestingType DEF CallerState, Resting

LEMMA CallBound ==
  ASSUME TypeOK, Call
  PROVE  /\ calls' \in 1..(MaxCalls + 1)
         /\ calls' \in Version
         /\ 0 \in Version
BY SearchAssumption DEF TypeOK, Call, Version

\* An answer leaves a caller as it was, resting, or looking at the index.
LEMMA AnswerType ==
  ASSUME TypeOK, NEW ts, NEW ok, Answer(ts, ok)
  PROVE  /\ caller' \in [Caller -> CallerState]
         /\ \A t \in Caller :
              \/ caller'[t] = caller[t]
              \/ caller'[t] = Resting
              \/ t \in ts /\ caller'[t].at = "look" /\ caller'[t].begun = caller[t].begun
<1> DEFINE Looking(t) == [caller[t] EXCEPT !.at = "look", !.waits = FALSE]
<1>1. ASSUME NEW t \in Caller
      PROVE  /\ Looking(t) \in CallerState
             /\ Looking(t).at = "look" /\ Looking(t).begun = caller[t].begun
  BY DEF TypeOK, CallerState
<1>2. caller' = [t \in Caller |->
                   IF t \notin ts THEN caller[t]
                   ELSE IF caller[t].searching /\ ok THEN Looking(t) ELSE Resting]
  BY DEF Answer
<1>3. \A t \in Caller : caller[t] \in CallerState
  BY DEF TypeOK
<1> HIDE DEF Looking
<1> QED
  BY <1>1, <1>2, <1>3, RestingType

\* What no command is sent about changes nothing of the worker but what its
\* rebuild has missed, and that is what it had read before.
LEMMA LeftOutWorker ==
  ASSUME TypeOK, NEW es, LeftOut(es)
  PROVE  /\ worker' \in WorkerState
         /\ worker'.at = worker.at /\ worker'.cmd = worker.cmd
         /\ worker'.by = worker.by /\ worker'.docs = worker.docs
         /\ worker.missed \subseteq worker'.missed
         /\ \A e \in es :
              e \in DOMAIN worker.docs => worker.docs[e] = rows'[e] \/ e \in worker'.missed
<1> DEFINE M == {e \in es \cap DOMAIN worker.docs : worker.docs[e] # rows'[e]}
<1>1. worker' = [worker EXCEPT !.missed = @ \cup M]
  BY DEF LeftOut
<1>2. worker \in WorkerState /\ DOMAIN worker.docs \subseteq Entity
  BY DocsType DEF TypeOK, WorkerState
<1>3. M \subseteq Entity
  BY <1>2
<1>4. \A e \in es : e \in DOMAIN worker.docs => worker.docs[e] = rows'[e] \/ e \in M
  OBVIOUS
<1> HIDE DEF M
<1>5. worker'.missed = worker.missed \cup M
  BY <1>1, <1>2 DEF WorkerState
<1> QED
  BY <1>1, <1>2, <1>3, <1>4, <1>5 DEF WorkerState

----------------------------------------------------------------------------
(* The types: one lemma for the callers, one for the worker                *)

LEMMA CallerTypes ==
  ASSUME TypeOK, NEW t \in Caller, NewCall(t) \/ CallerStep(t) \/ ReadBackFails(t)
  PROVE  TypeOK'
<1> USE DEF disk, counts, bounds
<1>0. caller \in [Caller -> CallerState] /\ caller[t] \in CallerState
  BY DEF TypeOK
<1>1. ASSUME NEW e \in Entity, NEW others \in Beside(e), Save(t, e, others) PROVE TypeOK'
  <2>1. PICK v \in {0, calls'} :
          /\ rows' = [x \in Entity |-> IF x \in others \cup {e} THEN v ELSE rows[x]]
          /\ \E at \in {"read", "mark"} : Enqueues(t, at, Apply([x \in {e} |-> v]))
    BY <1>1 DEF Save
  <2>2. Call /\ LeftOut(others) /\ stale' \subseteq stale \cup {e} \cup others
    BY <1>1 DEF Save
  <2>3. v \in Version /\ calls' \in 1..(MaxCalls + 1)
    BY <2>2, CallBound
  <2>4. Apply([x \in {e} |-> v]) \in Command
    BY <2>3, ConstantDocs, AppliedType
  <2>5. caller' \in [Caller -> CallerState]
    BY <1>0, <2>1, <2>4, EnqueueingType DEF Enqueues
  <2>6. rows' \in [Entity -> Version]
    BY <2>1, <2>3 DEF TypeOK
  <2>7. others \subseteq Entity /\ worker' \in WorkerState
    BY <2>2, LeftOutWorker, SearchAssumption DEF Beside
  <2>8. stale' \subseteq Entity
    BY <2>2, <2>7 DEF TypeOK
  <2> QED
    BY <1>1, <2>3, <2>5, <2>6, <2>7, <2>8 DEF Save, TypeOK
<1>10. ASSUME NEW es \in SUBSET Entity, SaveUnsent(t, es) PROVE TypeOK'
  <2>1. PICK v \in {0, calls'} : rows' = [x \in Entity |-> IF x \in es THEN v ELSE rows[x]]
    BY <1>10 DEF SaveUnsent
  <2>2. v \in Version /\ calls' \in 1..(MaxCalls + 1)
    BY <1>10, CallBound DEF SaveUnsent
  <2>3. rows' \in [Entity -> Version]
    BY <2>1, <2>2 DEF TypeOK
  <2>4. worker' \in WorkerState
    BY <1>10, LeftOutWorker DEF SaveUnsent
  <2> QED
    BY <1>10, <2>2, <2>3, <2>4 DEF SaveUnsent, TypeOK
<1>11. CASE ReadBackFails(t)
  <2>1. DOMAIN caller[t].cmd.docs \subseteq Entity
    BY <1>0, DocsType DEF CallerState, Command
  <2>2. caller' \in [Caller -> CallerState]
    BY <1>0, <1>11, RestingType DEF ReadBackFails
  <2>3. worker' \in WorkerState
    BY <1>11, LeftOutWorker DEF ReadBackFails
  <2>4. faults' \in 0..MaxFaults
    BY <1>11, SearchAssumption DEF ReadBackFails, Fault, TypeOK
  <2> QED
    BY <1>11, <2>1, <2>2, <2>3, <2>4 DEF ReadBackFails, TypeOK
<1>2. ASSUME NEW e \in Entity, RemoteApply(t, e) PROVE TypeOK'
  <2>1. PICK v \in {0, calls'} : rows' = [rows EXCEPT ![e] = v]
    BY <1>2 DEF RemoteApply
  <2>2. Call /\ stale' \subseteq stale \cup {e} /\ Enqueues(t, "mark", Rebuild)
    BY <1>2 DEF RemoteApply
  <2>3. v \in Version /\ calls' \in 1..(MaxCalls + 1)
    BY <2>2, CallBound
  <2>4. caller' \in [Caller -> CallerState]
    BY <1>0, <2>2, NothingDocs, EnqueueingType DEF Enqueues
  <2>5. rows' \in [Entity -> Version]
    BY <2>1, <2>3 DEF TypeOK
  <2> QED
    BY <1>2, <2>2, <2>3, <2>4, <2>5 DEF RemoteApply, TypeOK
<1>3. CASE Wipe(t)
  <2>1. Call /\ Enqueues(t, "mark", Apply([e \in Entity |-> 0]))
    BY <1>3 DEF Wipe
  <2>2. 0 \in Version /\ calls' \in 1..(MaxCalls + 1)
    BY <2>1, CallBound
  <2>3. caller' \in [Caller -> CallerState]
    BY <1>0, <2>1, <2>2, ConstantDocs, AppliedType, EnqueueingType DEF Enqueues
  <2>4. rows' \in [Entity -> Version]
    BY <1>3, <2>2 DEF Wipe, TypeOK
  <2>5. stale' \subseteq Entity
    <3>1. \A u \in Caller : caller[u].cmd.docs \in Docs
      BY DEF TypeOK, CallerState, Command
    <3>2. Held \subseteq Entity
      BY <3>1, DocsType DEF Held
    <3> QED
      BY <1>3, <3>2, SearchAssumption DEF Wipe, TypeOK
  <2> QED
    BY <1>3, <2>2, <2>3, <2>4, <2>5 DEF Wipe, TypeOK
<1>4. ASSUME NEW cmd \in {Rebuild, Flush}, Await(t, cmd) PROVE TypeOK'
  <2> DEFINE R == [Resting EXCEPT !.at = "mark", !.cmd = cmd, !.waits = TRUE,
                     !.need = sent, !.begun = begun]
  <2>1. R \in CallerState
    BY RestingType, NothingDocs DEF CallerState, Resting, TypeOK
  <2>2. caller' = [caller EXCEPT ![t] = R] /\ Call
    BY <1>4 DEF Await
  <2> HIDE DEF R
  <2>3. caller' \in [Caller -> CallerState] /\ calls' \in 1..(MaxCalls + 1)
    BY <1>0, <2>1, <2>2, CallBound
  <2> QED
    BY <1>4, <2>3 DEF Await, TypeOK
<1>5. CASE Search(t)
  <2> DEFINE at == IF InProgress THEN "mark" ELSE "look"
             R == [Resting EXCEPT !.at = at, !.waits = InProgress,
                     !.searching = TRUE, !.need = sent, !.begun = begun]
  <2>1. at \in {"mark", "look"}
    OBVIOUS
  <2>2. caller' = [caller EXCEPT ![t] = R] /\ Call
    BY <1>5 DEF Search
  <2> HIDE DEF at
  <2>3. R \in CallerState
    BY <2>1, RestingType, NothingDocs, InProgressBoolean
    DEF CallerState, Resting, TypeOK
  <2> HIDE DEF R
  <2>4. caller' \in [Caller -> CallerState] /\ calls' \in 1..(MaxCalls + 1)
    BY <1>0, <2>2, <2>3, CallBound
  <2> QED
    BY <1>5, <2>4 DEF Search, TypeOK
<1>6. CASE ReadBack(t)
  <2> DEFINE d == [e \in DOMAIN caller[t].cmd.docs |-> rows[e]]
             R == [caller[t] EXCEPT !.at = "mark", !.cmd = Apply(d)]
  <2>1. DOMAIN caller[t].cmd.docs \in SUBSET Entity
    BY <1>0, DocsType DEF CallerState, Command
  <2>2. d \in [DOMAIN caller[t].cmd.docs -> Version]
    BY <2>1 DEF TypeOK
  <2>3. Apply(d) \in Command
    BY <2>1, <2>2, DocsOf, AppliedType
  <2>4. caller' = [caller EXCEPT ![t] = R]
    BY <1>0, <1>6 DEF ReadBack, CallerState
  <2> HIDE DEF d
  <2>5. R \in CallerState
    BY <1>0, <2>3 DEF CallerState
  <2> HIDE DEF R
  <2>6. caller' \in [Caller -> CallerState]
    BY <1>0, <2>4, <2>5
  <2> QED
    BY <1>6, <2>6 DEF ReadBack, TypeOK
<1>7. CASE MarkQueued(t)
  <2> DEFINE R == [caller[t] EXCEPT !.at = "send"]
  <2>1. R \in CallerState
    BY <1>0 DEF CallerState
  <2>2. caller' = [caller EXCEPT ![t] = R]
    BY <1>0, <1>7 DEF MarkQueued, CallerState
  <2> HIDE DEF R
  <2>3. caller' \in [Caller -> CallerState]
    BY <1>0, <2>1, <2>2
  <2> QED
    BY <1>7, <2>3 DEF MarkQueued, TypeOK, Phase
<1>8. CASE Send(t)
  <2> DEFINE by == IF caller[t].waits THEN {t} ELSE {}
             R == [caller[t] EXCEPT !.at = "wait", !.cmd = Flush]
             J == [cmd |-> caller[t].cmd, by |-> by]
  <2>1. R \in CallerState
    BY <1>0, NothingDocs DEF CallerState
  <2>2. caller' = [caller EXCEPT ![t] = IF caller[t].waits THEN R ELSE Resting]
    BY <1>8 DEF Send
  <2>3. queue' = Append(queue, J) /\ sent' = sent + 1
    BY <1>8 DEF Send
  <2>4. by \subseteq Caller
    OBVIOUS
  <2> HIDE DEF R, by
  <2>5. caller' \in [Caller -> CallerState]
    BY <1>0, <2>1, <2>2, RestingType
  <2>6. J \in Job
    BY <1>0, <2>4 DEF Job, CallerState
  <2> HIDE DEF J
  <2>7. queue' \in Seq(Job)
    BY <2>3, <2>6 DEF TypeOK
  <2> QED
    BY <1>8, <2>3, <2>5, <2>7 DEF Send, TypeOK
<1>9. CASE SendFails(t) \/ Look(t)
  <2>1. caller' \in [Caller -> CallerState]
    BY <1>0, <1>9, RestingType DEF SendFails, Look
  <2>2. phase' \in Phase
    BY <1>9 DEF SendFails, Look, TypeOK, Phase
  <2> QED
    BY <1>9, <2>1, <2>2 DEF SendFails, Look, TypeOK
<1> QED
  BY <1>1, <1>2, <1>3, <1>4, <1>5, <1>6, <1>7, <1>8, <1>9, <1>10, <1>11 DEF NewCall, CallerStep

\* What stays to be done is about known entities only.
LEMMA ComingType ==
  ASSUME TypeOK
  PROVE  Coming \subseteq Entity
<1>1. \A u \in Caller : caller[u].cmd.docs \in Docs
  BY DEF TypeOK, CallerState, Command
<1>2. worker.cmd.docs \in Docs
  BY DEF TypeOK, WorkerState, Command
<1>3. \A i \in 1..Len(queue) : queue[i].cmd.docs \in Docs
  <2>1. \A i \in 1..Len(queue) : queue[i] \in Job
    BY DEF TypeOK
  <2> QED
    BY <2>1 DEF Job, Command
<1> QED
  BY <1>1, <1>2, <1>3, DocsType DEF Coming, Held

LEMMA WorkerTypes ==
  ASSUME TypeOK,
         \/ WorkerStep \/ CollectMisses \/ CommitFails \/ WorkerDies \/ Crash,
         Counted
  PROVE  TypeOK'
<1> USE DEF disk, counts, bounds
<1>0. worker \in WorkerState
  BY DEF TypeOK
<1>1. CASE Begin
  <2> DEFINE at == CASE Head(queue).cmd.op = "rebuild" -> "collect"
                     [] Head(queue).cmd.op = "apply" -> "commit"
                     [] OTHER -> "finish"
             W == [NoJob EXCEPT !.cmd = Head(queue).cmd, !.by = Head(queue).by, !.at = at]
  <2>1. Head(queue) \in Job /\ queue' \in Seq(Job) /\ Len(queue) >= 1
    BY <1>1 DEF Begin, TypeOK
  <2>2. at \in Working
    BY DEF Working
  <2>3. worker' = W
    BY <1>1 DEF Begin
  <2> HIDE DEF at
  <2>4. W \in WorkerState
    BY <2>1, <2>2, NoJobType DEF WorkerState, Job, NoJob
  <2>5. phase' \in Phase
    BY <1>1 DEF Begin, Phase
  <2>6. begun' \in Nat /\ done <= begun' /\ begun' <= sent
    BY <1>1, <2>1, <1>0 DEF Begin, TypeOK, Counted
  <2> QED
    BY <1>1, <2>1, <2>3, <2>4, <2>5, <2>6 DEF Begin, TypeOK
<1>2. ASSUME NEW e \in Entity, Collect(e) PROVE TypeOK'
  <2> DEFINE d == Indexed([x \in {e} |-> rows[e]], worker.docs)
  <2>1. [x \in {e} |-> rows[e]] \in Docs /\ worker.docs \in Docs
    BY <1>0, ConstantDocs DEF TypeOK, WorkerState
  <2>2. d \in Docs
    BY <2>1, IndexedDocs
  <2>3. worker' = [worker EXCEPT !.docs = d]
    BY <1>2 DEF Collect
  <2> HIDE DEF d
  <2> QED
    BY <1>0, <1>2, <2>2, <2>3 DEF Collect, TypeOK, WorkerState
<1>3. CASE CollectMisses
  <2> DEFINE d == Indexed([e \in InThings |-> 0], worker.docs)
  <2>1. [e \in InThings |-> 0] \in Docs /\ worker.docs \in Docs
    <3>1. 0 \in Version /\ InThings \in SUBSET Entity
      BY SearchAssumption DEF Version
    <3>2. worker.docs \in Docs
      BY <1>0 DEF WorkerState
    <3> QED
      BY <3>1, <3>2, ConstantDocs
  <2>2. d \in Docs
    BY <2>1, IndexedDocs
  <2>3. worker' = [worker EXCEPT !.missed = @ \cup InThings, !.docs = d] /\ Fault
    BY <1>3 DEF CollectMisses
  <2> HIDE DEF d
  <2>4. worker' \in WorkerState
    BY <1>0, <2>2, <2>3, SearchAssumption DEF WorkerState
  <2> QED
    BY <1>3, <2>3, <2>4, SearchAssumption DEF CollectMisses, Fault, TypeOK
<1>4. CASE CommitRebuild
  <2>1. worker' = [worker EXCEPT !.at = "finish"] /\ index' = worker.docs
    BY <1>4 DEF CommitRebuild
  <2>2. worker' \in WorkerState
    BY <1>0, <2>1 DEF WorkerState, Working
  <2>3. index' \in [Entity -> Version]
    <3>1. worker.docs \in Docs /\ DOMAIN worker.docs = Entity
      BY <1>0, <1>4 DEF CommitRebuild, WorkerState
    <3> QED
      BY <2>1, <3>1 DEF Docs
  <2>4. stale' \subseteq Entity
    BY <1>0, <1>4 DEF CommitRebuild, WorkerState, TypeOK
  <2> QED
    BY <1>4, <2>2, <2>3, <2>4 DEF CommitRebuild, TypeOK
<1>5. CASE CommitApply
  <2>1. worker' = [worker EXCEPT !.at = "finish"]
    BY <1>5 DEF CommitApply
  <2>2. worker' \in WorkerState
    BY <1>0, <2>1 DEF WorkerState, Working
  <2>3. index' \in [Entity -> Version]
    <3>1. worker.cmd.docs \in Docs /\ index \in [Entity -> Version]
      BY <1>0 DEF WorkerState, Command, TypeOK
    <3> QED
      BY <1>5, <3>1, DocsType DEF CommitApply, Indexed
  <2> QED
    BY <1>5, <2>2, <2>3 DEF CommitApply, TypeOK
<1>6. CASE Finish
  <2>1. caller' \in [Caller -> CallerState]
    BY <1>6, AnswerType DEF Finish
  <2>2. phase' \in Phase /\ worker' \in WorkerState
    BY <1>6, NoJobType DEF Finish, Phase
  <2>3. done' \in Nat /\ done' <= begun
    BY <1>6 DEF Finish, Counted, Working, TypeOK
  <2> QED
    BY <1>6, <2>1, <2>2, <2>3 DEF Finish, TypeOK
<1>7. CASE CommitFails
  <2>1. worker' = [worker EXCEPT !.at = "finish", !.ok = FALSE] /\ Fault
    BY <1>7 DEF CommitFails
  <2>2. worker' \in WorkerState
    BY <1>0, <2>1 DEF WorkerState, Working
  <2>3. stale' \subseteq Entity
    <3>1. worker.cmd.docs \in Docs
      BY <1>0 DEF WorkerState, Command
    <3> QED
      BY <1>7, <3>1, DocsType DEF CommitFails, TypeOK
  <2> QED
    BY <1>7, <2>1, <2>2, <2>3, SearchAssumption DEF CommitFails, Fault, TypeOK
<1>8. CASE WorkerDies
  <2>1. caller' \in [Caller -> CallerState]
    BY <1>8, AnswerType DEF WorkerDies
  <2>2. worker' \in WorkerState
    BY <1>8, NoJobType DEF WorkerDies, WorkerState
  <2>3. queue' \in Seq(Job) /\ Fault
    BY <1>8 DEF WorkerDies
  <2> QED
    BY <1>8, <2>1, <2>2, <2>3, SearchAssumption DEF WorkerDies, Fault, TypeOK
<1>9. CASE Crash
  <2>1. caller' \in [Caller -> CallerState]
    BY <1>9, RestingType DEF Crash
  <2>2. worker' \in WorkerState /\ phase' \in Phase
    BY <1>9, NoJobType DEF Crash, Phase
  <2>3. queue' \in Seq(Job)
    BY <1>9 DEF Crash
  <2>4. stale' \subseteq Entity
    <3> DEFINE Lost == \/ worker.at \in {"collect", "dead"}
                       \/ \E i \in 1..Len(queue) : queue[i].cmd.op = "rebuild"
                       \/ \E t \in Caller : caller[t].cmd.op = "rebuild"
    <3>1. stale' = IF Lost THEN Entity ELSE stale \cup Coming
      BY <1>9 DEF Crash
    <3> HIDE DEF Lost
    <3> QED
      BY <3>1, ComingType DEF TypeOK
  <2> QED
    BY <1>9, <2>1, <2>2, <2>3, <2>4, SearchAssumption DEF Crash, TypeOK
<1> QED
  BY <1>1, <1>2, <1>3, <1>4, <1>5, <1>6, <1>7, <1>8, <1>9 DEF WorkerStep

----------------------------------------------------------------------------
(* The counts and the status                                               *)

LEMMA InitInductive == Init => Inductive
<1> SUFFICES ASSUME Init PROVE Inductive
  OBVIOUS
<1>1. TypeOK
  <2>1. 0 \in Version /\ 1 \in Version /\ 1 \in 1..(MaxCalls + 1)
    BY SearchAssumption DEF Version
  <2>2. [cmd |-> Rebuild, by |-> {}] \in Job
    BY NothingDocs DEF Job
  <2>3. queue \in Seq(Job)
    BY <2>2 DEF Init
  <2>4. rows \in [Entity -> Version] /\ index \in [Entity -> Version]
    BY <2>1 DEF Init
  <2>5. caller \in [Caller -> CallerState] /\ worker \in WorkerState
    BY RestingType, NoJobType DEF Init
  <2>6. /\ calls \in 1..(MaxCalls + 1) /\ faults \in 0..MaxFaults
        /\ crashes \in 0..MaxCrashes
    BY SearchAssumption DEF Init
  <2>7. /\ sent \in Nat /\ begun \in Nat /\ done \in Nat /\ done <= begun /\ begun <= sent
        /\ stale \subseteq Entity /\ phase \in Phase
    <3>1. sent = 1 /\ begun = 0 /\ done = 0 /\ stale = {}
      BY DEF Init
    <3>2. sent \in Nat /\ begun \in Nat /\ done \in Nat /\ done <= begun /\ begun <= sent
      BY <3>1
    <3>3. phase \in Phase
      BY DEF Init, Phase
    <3> QED
      BY <3>1, <3>2, <3>3
  <2> QED
    BY <2>3, <2>4, <2>5, <2>6, <2>7 DEF TypeOK
<1>2. Counted
  BY DEF Init, Counted, NoJob, Working
<1>3. StatusShowsWork /\ SearchSeesBegunWork
  BY DEF Init, StatusShowsWork, SearchSeesBegunWork, NoJob, Working, Resting
<1> QED
  BY <1>1, <1>2, <1>3 DEF Inductive

\* A caller that starts, or goes on, never looks too early: it looks without
\* waiting only when the status shows no work, so that nothing is begun and
\* unfinished.
LEMMA CallerInductive ==
  ASSUME Inductive, NEW t \in Caller, NewCall(t) \/ CallerStep(t) \/ ReadBackFails(t)
  PROVE  Counted' /\ StatusShowsWork' /\ SearchSeesBegunWork'
<1> USE DEF Inductive, disk, counts, bounds
<1>0. caller \in [Caller -> CallerState] /\ caller[t] \in CallerState
  BY DEF TypeOK
<1>1. Resting.begun = 0 /\ Resting.at = "idle"
  BY DEF Resting
<1>2. ASSUME UNCHANGED <<queue, counts, phase>>, worker'.at = worker.at,
             NEW R, caller' = [caller EXCEPT ![t] = R],
             R.begun <= begun,
             R.at = "look" /\ worker.at # "dead" => done >= R.begun
      PROVE  Counted' /\ StatusShowsWork' /\ SearchSeesBegunWork'
  BY <1>0, <1>2 DEF Counted, StatusShowsWork, SearchSeesBegunWork, InProgress
<1>3. ASSUME NEW at \in {"read", "mark"}, NEW cmd, Enqueues(t, at, cmd),
             UNCHANGED <<queue, counts, phase>>, worker'.at = worker.at
      PROVE  Counted' /\ StatusShowsWork' /\ SearchSeesBegunWork'
  <2> DEFINE R == [Resting EXCEPT !.at = at, !.cmd = cmd]
  <2>1. R.begun = 0 /\ R.at # "look"
    BY DEF Resting
  <2>2. caller' = [caller EXCEPT ![t] = R]
    BY <1>3 DEF Enqueues
  <2> HIDE DEF R
  <2>3. R.begun <= begun
    BY <2>1 DEF TypeOK
  <2> QED
    BY <1>2, <1>3, <2>1, <2>2, <2>3
<1>4. ASSUME NEW e \in Entity, NEW others \in Beside(e), Save(t, e, others)
      PROVE  Counted' /\ StatusShowsWork' /\ SearchSeesBegunWork'
  <2>1. PICK v \in {0, calls'} :
          \E at \in {"read", "mark"} : Enqueues(t, at, Apply([x \in {e} |-> v]))
    BY <1>4 DEF Save
  <2>2. worker'.at = worker.at
    BY <1>4, LeftOutWorker DEF Save
  <2> QED
    BY <1>3, <1>4, <2>1, <2>2 DEF Save
<1>13. ASSUME NEW es \in SUBSET Entity, SaveUnsent(t, es)
       PROVE  Counted' /\ StatusShowsWork' /\ SearchSeesBegunWork'
  <2>1. worker'.at = worker.at /\ UNCHANGED <<queue, caller, counts, phase>>
    BY <1>13, LeftOutWorker DEF SaveUnsent
  <2> QED
    BY <2>1 DEF Counted, StatusShowsWork, SearchSeesBegunWork, InProgress
<1>14. CASE ReadBackFails(t)
  <2>1. /\ worker'.at = worker.at /\ UNCHANGED <<queue, counts, phase>>
        /\ caller' = [caller EXCEPT ![t] = Resting]
    BY <1>14, LeftOutWorker DEF ReadBackFails
  <2>2. 0 <= begun
    BY DEF TypeOK
  <2> QED
    BY <1>1, <1>2, <2>1, <2>2
<1>5. ASSUME NEW e \in Entity, RemoteApply(t, e)
      PROVE  Counted' /\ StatusShowsWork' /\ SearchSeesBegunWork'
  BY <1>3, <1>5 DEF RemoteApply
<1>6. CASE Wipe(t)
  BY <1>3, <1>6 DEF Wipe
<1>7. ASSUME NEW cmd \in {Rebuild, Flush}, Await(t, cmd)
      PROVE  Counted' /\ StatusShowsWork' /\ SearchSeesBegunWork'
  <2> DEFINE R == [Resting EXCEPT !.at = "mark", !.cmd = cmd, !.waits = TRUE,
                     !.need = sent, !.begun = begun]
  <2>1. R.begun = begun /\ R.at # "look"
    BY DEF Resting
  <2>2. caller' = [caller EXCEPT ![t] = R] /\ UNCHANGED <<queue, worker, counts, phase>>
    BY <1>7 DEF Await
  <2> HIDE DEF R
  <2>3. R.begun <= begun
    BY <2>1 DEF TypeOK
  <2> QED
    BY <1>2, <2>1, <2>2, <2>3
<1>8. CASE Search(t)
  <2> DEFINE R == [Resting EXCEPT !.at = IF InProgress THEN "mark" ELSE "look",
                     !.waits = InProgress, !.searching = TRUE,
                     !.need = sent, !.begun = begun]
  <2>1. R.begun = begun /\ R.at = IF InProgress THEN "mark" ELSE "look"
    BY DEF Resting
  <2>2. caller' = [caller EXCEPT ![t] = R] /\ UNCHANGED <<queue, worker, counts, phase>>
    BY <1>8 DEF Search
  <2> HIDE DEF R
  <2>3. R.begun <= begun
    BY <2>1 DEF TypeOK
  <2>4. ASSUME R.at = "look", worker.at # "dead" PROVE done >= R.begun
    <3>1. ~InProgress
      BY <2>1, <2>4
    <3>2. worker.at = "idle"
      BY <2>4, <3>1 DEF StatusShowsWork, TypeOK, WorkerState, Working
    <3> QED
      BY <2>1, <2>4, <3>2 DEF Counted, TypeOK
  <2> QED
    BY <1>2, <2>1, <2>2, <2>3, <2>4
<1>9. CASE ReadBack(t) \/ MarkQueued(t)
  <2>1. /\ caller'[t].begun = caller[t].begun /\ caller'[t].at # "look"
        /\ \A u \in Caller \ {t} : caller'[u] = caller[u]
    BY <1>0, <1>9 DEF ReadBack, MarkQueued, CallerState
  <2>2. UNCHANGED <<queue, worker, counts>> /\ (InProgress => InProgress')
    BY <1>9 DEF ReadBack, MarkQueued, InProgress
  <2> QED
    BY <2>1, <2>2 DEF Counted, StatusShowsWork, SearchSeesBegunWork
<1>10. CASE Send(t)
  <2>1. /\ caller'[t].begun = caller[t].begun \/ caller'[t].begun = 0
        /\ caller'[t].at # "look"
        /\ \A u \in Caller \ {t} : caller'[u] = caller[u]
    <3> DEFINE R == [caller[t] EXCEPT !.at = "wait", !.cmd = Flush]
    <3>1. R.begun = caller[t].begun /\ R.at = "wait"
      BY <1>0 DEF CallerState
    <3>2. caller' = [caller EXCEPT ![t] = IF caller[t].waits THEN R ELSE Resting]
      BY <1>10 DEF Send
    <3> HIDE DEF R
    <3> QED
      BY <1>0, <1>1, <3>1, <3>2
  <2>2. Len(queue') = Len(queue) + 1 /\ sent' = sent + 1
    BY <1>10 DEF Send, TypeOK
  <2>3. UNCHANGED <<worker, begun, done, phase>>
    BY <1>10 DEF Send
  <2>4. Counted'
    BY <2>2, <2>3 DEF Counted, TypeOK
  <2> QED
    BY <2>1, <2>3, <2>4 DEF StatusShowsWork, SearchSeesBegunWork, InProgress, TypeOK
<1>11. CASE SendFails(t)
  <2>1. worker.at = "dead" /\ caller' = [caller EXCEPT ![t] = Resting]
    BY <1>11 DEF SendFails
  <2>2. UNCHANGED <<worker, counts>>
    BY <1>11 DEF SendFails
  <2> QED
    BY <1>0, <1>1, <2>1, <2>2
    DEF Counted, StatusShowsWork, SearchSeesBegunWork, Working, TypeOK
<1>12. CASE Look(t)
  <2>1. caller' = [caller EXCEPT ![t] = Resting] /\ UNCHANGED <<queue, worker, counts, phase>>
    BY <1>12 DEF Look
  <2>2. 0 <= begun
    BY DEF TypeOK
  <2> QED
    BY <1>1, <1>2, <2>1, <2>2
<1> QED
  BY <1>4, <1>5, <1>6, <1>7, <1>8, <1>9, <1>10, <1>11, <1>12, <1>13, <1>14 DEF NewCall, CallerStep

\* The worker finishes a command before it begins the next, so what it
\* answers has seen everything begun before.
LEMMA WorkerInductive ==
  ASSUME Inductive,
         WorkerStep \/ CollectMisses \/ CommitFails \/ WorkerDies \/ Crash
  PROVE  Counted' /\ StatusShowsWork' /\ SearchSeesBegunWork'
<1> USE DEF Inductive, disk, counts, bounds
<1>0. worker \in WorkerState /\ caller \in [Caller -> CallerState]
  BY DEF TypeOK
<1>1. CASE Begin
  <2>1. worker'.at \in Working
    <3> DEFINE at == CASE Head(queue).cmd.op = "rebuild" -> "collect"
                       [] Head(queue).cmd.op = "apply" -> "commit"
                       [] OTHER -> "finish"
               W == [NoJob EXCEPT !.cmd = Head(queue).cmd, !.by = Head(queue).by,
                       !.at = at]
    <3>1. at \in Working
      BY DEF Working
    <3>2. worker' = W
      BY <1>1 DEF Begin
    <3> HIDE DEF at
    <3> QED
      BY <3>1, <3>2 DEF NoJob
  <2>2. Len(queue') = Len(queue) - 1 /\ begun' = begun + 1 /\ UNCHANGED <<caller, sent, done>>
    BY <1>1 DEF Begin, TypeOK
  <2>3. worker.at = "idle" /\ InProgress'
    BY <1>1 DEF Begin, InProgress
  <2>4. Counted'
    BY <2>1, <2>2, <2>3 DEF Counted, Working, TypeOK
  <2>5. SearchSeesBegunWork'
    BY <2>2, <2>3 DEF SearchSeesBegunWork
  <2>6. StatusShowsWork'
    BY <1>0, <2>2, <2>3 DEF StatusShowsWork, TypeOK, CallerState
  <2> QED
    BY <2>4, <2>5, <2>6
<1>2. ASSUME worker.at \in Working, worker'.at \in Working,
             UNCHANGED <<queue, counts, caller, phase>>
      PROVE  Counted' /\ StatusShowsWork' /\ SearchSeesBegunWork'
  BY <1>2 DEF Counted, StatusShowsWork, SearchSeesBegunWork, InProgress, Working
<1>3. ASSUME NEW e \in Entity, Collect(e)
      PROVE  Counted' /\ StatusShowsWork' /\ SearchSeesBegunWork'
  BY <1>0, <1>2, <1>3 DEF Collect, WorkerState, Working
<1>4. CASE CollectMisses
  BY <1>0, <1>2, <1>4 DEF CollectMisses, WorkerState, Working
<1>5. CASE CommitRebuild \/ CommitApply \/ CommitFails
  BY <1>0, <1>2, <1>5 DEF CommitRebuild, CommitApply, CommitFails, WorkerState, Working
<1>6. CASE Finish
  <2>1. worker.at = "finish" /\ worker'.at = "idle" /\ done' = done + 1
    BY <1>6 DEF Finish, NoJob
  <2>2. UNCHANGED <<queue, sent, begun>>
    BY <1>6 DEF Finish
  <2>3. Counted' /\ done' = begun
    BY <2>1, <2>2 DEF Counted, Working
  <2>4. \A t \in Caller : caller'[t].begun <= begun
    <3>1. Resting.begun = 0
      BY DEF Resting
    <3> QED
      BY <1>6, <3>1, AnswerType DEF Finish, StatusShowsWork, TypeOK
  <2> QED
    BY <2>1, <2>2, <2>3, <2>4 DEF StatusShowsWork, SearchSeesBegunWork, Working
<1>7. CASE WorkerDies
  <2>1. worker'.at = "dead" /\ UNCHANGED counts
    BY <1>7 DEF WorkerDies, NoJob
  <2>2. \A t \in Caller : caller'[t].begun <= begun
    <3>1. Resting.begun = 0
      BY DEF Resting
    <3>2. Answer({t \in Caller : caller[t].at = "wait"}, FALSE)
      BY <1>7 DEF WorkerDies
    <3>3. \A t \in Caller : \/ caller'[t].begun = caller[t].begun
                             \/ caller'[t].begun = 0
      BY <3>1, <3>2, AnswerType
    <3> QED
      BY <3>3 DEF StatusShowsWork, TypeOK
  <2> QED
    BY <2>1, <2>2 DEF Counted, StatusShowsWork, SearchSeesBegunWork, Working
<1>8. CASE Crash
  BY <1>8 DEF Crash, Counted, StatusShowsWork, SearchSeesBegunWork, NoJob, Working, Resting
<1> QED
  BY <1>1, <1>3, <1>4, <1>5, <1>6, <1>7, <1>8 DEF WorkerStep

----------------------------------------------------------------------------
(* The theorems                                                            *)

LEMMA InductiveStep == Inductive /\ [Next]_vars => Inductive'
<1> SUFFICES ASSUME Inductive, [Next]_vars PROVE Inductive'
  OBVIOUS
<1>1. ASSUME NEW t \in Caller, NewCall(t) \/ CallerStep(t) \/ ReadBackFails(t)
      PROVE  Inductive'
  BY <1>1, CallerTypes, CallerInductive DEF Inductive
<1>2. CASE WorkerStep \/ CollectMisses \/ CommitFails \/ WorkerDies \/ Crash
  BY <1>2, WorkerTypes, WorkerInductive DEF Inductive
<1>3. CASE UNCHANGED vars
  BY <1>3 DEF vars, disk, counts, bounds, Inductive, TypeOK, Counted,
              StatusShowsWork, SearchSeesBegunWork, InProgress
<1> QED
  BY <1>1, <1>2, <1>3 DEF Next

\* The inductive invariant of search.rs holds in every reachable state.
THEOREM SearchInductive == Spec => []Inductive
BY InitInductive, InductiveStep, PTL DEF Spec

\* The queue, the status and the index keep their types whatever callers,
\* worker and crashes do, and commands are begun and finished in order.
THEOREM SearchTypeCorrect == Spec => []TypeOK
<1>1. Inductive => TypeOK
  BY DEF Inductive
<1> QED
  BY <1>1, SearchInductive, PTL

\* However many callers search while the worker rebuilds: a search reads the
\* index only once all the work begun before it started is committed.
THEOREM SearchReadsCommittedWork == Spec => []SearchSeesBegunWork
<1>1. Inductive => SearchSeesBegunWork
  BY DEF Inductive
<1> QED
  BY <1>1, SearchInductive, PTL

----------------------------------------------------------------------------
(* Why the index follows the rows                                          *)

\* What callers hold, and what is in the queue.
Holder(t, e) == e \in DOMAIN caller[t].cmd.docs
HasRebuild(t) == caller[t].cmd.op = "rebuild"
HoldsNew(t, e) ==
  caller[t].cmd.op = "apply" /\ (caller[t].at # "read" => caller[t].cmd.docs[e] = rows[e])

DocAt(i, e) == e \in DOMAIN queue[i].cmd.docs
RebuildAt(i) == queue[i].cmd.op = "rebuild"
NewAt(i, e) == queue[i].cmd.op = "apply" /\ DocAt(i, e) /\ queue[i].cmd.docs[e] = rows[e]

\* A caller has a command only until it has sent it.
CallersRest ==
  \A t \in Caller :
    /\ caller[t].at \in {"idle", "wait", "look"} => caller[t].cmd = Flush
    /\ caller[t].at = "read" => caller[t].cmd.op = "apply"

\* Whoever is to be answered waits, and is answered once.
AskersWait ==
  /\ \A t \in worker.by : caller[t].at = "wait"
  /\ \A i \in 1..Len(queue) : \A t \in queue[i].by :
       /\ caller[t].at = "wait" /\ t \notin worker.by
       /\ \A j \in 1..Len(queue) : t \in queue[j].by => i = j

DeadIsStale == worker.at = "dead" => stale = Entity

\* One caller at most holds a document of e, and it shows the row.
HeldIsNew(e) ==
  \A t \in Caller : Holder(t, e) =>
    HoldsNew(t, e) /\ \A u \in Caller : Holder(u, e) => t = u

Pending(e) == \E t \in Caller : Holder(t, e) \/ HasRebuild(t)

\* The last command in the queue about e brings the row to the index.
LastInQueue(i, e) ==
  /\ RebuildAt(i) \/ NewAt(i, e)
  /\ \A j \in 1..Len(queue) : j > i => ~DocAt(j, e)

WorkerHas(e) ==
  CASE worker.at = "collect" ->
         e \in DOMAIN worker.docs => worker.docs[e] = rows[e] \/ e \in worker.missed
    [] worker.at = "commit" /\ e \in DOMAIN worker.cmd.docs -> worker.cmd.docs[e] = rows[e]
    [] OTHER -> index[e] = rows[e]

\* Where the state of the row that the index will show comes from.
IndexFollows(e) ==
  \/ Pending(e)
  \/ \E i \in 1..Len(queue) : LastInQueue(i, e)
  \/ (\A i \in 1..Len(queue) : ~DocAt(i, e)) /\ WorkerHas(e)

\* A rebuild has collected the row, unless a command about it is to come.
CollectedFollows(e) ==
  worker.at = "collect" /\ e \in DOMAIN worker.docs =>
    \/ worker.docs[e] = rows[e] \/ e \in worker.missed
    \/ Pending(e)
    \/ \E i \in 1..Len(queue) : DocAt(i, e) \/ RebuildAt(i)

Follows ==
  /\ \A e \in Entity : CollectedFollows(e)
  /\ \A e \in Entity \ stale : HeldIsNew(e) /\ IndexFollows(e)

SettledInductive ==
  CallersRest /\ AskersWait /\ DeadIsStale /\ Follows

LEMMA PendingStays ==
  ASSUME NEW e, UNCHANGED <<queue, index>>, rows'[e] = rows[e],
         worker'.at = worker.at, worker'.docs = worker.docs, worker'.cmd = worker.cmd,
         worker.missed \subseteq worker'.missed,
         Pending(e) => Pending(e)'
  PROVE  /\ IndexFollows(e) => IndexFollows(e)'
         /\ CollectedFollows(e) => CollectedFollows(e)'
<1>1. WorkerHas(e) => WorkerHas(e)'
  BY DEF WorkerHas
<1>2. \A i : DocAt(i, e)' <=> DocAt(i, e)
  BY DEF DocAt
<1>3. \A i : RebuildAt(i)' <=> RebuildAt(i)
  BY DEF RebuildAt
<1>4. \A i : NewAt(i, e)' <=> NewAt(i, e)
  BY <1>2 DEF NewAt
<1>5. \A i : LastInQueue(i, e) => LastInQueue(i, e)'
  BY <1>2, <1>3, <1>4 DEF LastInQueue
<1>6. IndexFollows(e) => IndexFollows(e)'
  BY <1>1, <1>2, <1>5 DEF IndexFollows
<1>7. CollectedFollows(e) => CollectedFollows(e)'
  BY <1>2, <1>3 DEF CollectedFollows
<1> QED
  BY <1>6, <1>7

LEMMA FlushHoldsNothing ==
  ASSUME NEW t, NEW e, caller[t].cmd = Flush
  PROVE  ~Holder(t, e) /\ ~HasRebuild(t)
BY DEF Holder, HasRebuild, Flush, Nothing

\* A caller that holds nothing starts a call or ends one.
LEMMA NewCallFollows ==
  ASSUME TypeOK, TypeOK', SettledInductive, NEW t \in Caller,
         caller[t].at \in {"idle", "look"},
         NEW R, caller' = [caller EXCEPT ![t] = R],
         UNCHANGED <<queue, index>>,
         worker'.at = worker.at, worker'.by = worker.by,
         worker'.docs = worker.docs, worker'.cmd = worker.cmd,
         worker.missed \subseteq worker'.missed,
         worker.at = "dead" => stale \subseteq stale',
         \A e \in Entity : e \in stale => e \in stale' \/ e \in DOMAIN R.cmd.docs,
         R.at \in {"idle", "wait", "look"} => R.cmd = Flush,
         R.at = "read" => R.cmd.op = "apply",
         \A e \in Entity :
           \/ rows'[e] = rows[e]
           \/ e \in DOMAIN R.cmd.docs
           \/ R.cmd.op = "rebuild"
           \/ /\ e \in stale'
              /\ e \in DOMAIN worker.docs =>
                   worker.docs[e] = rows'[e] \/ e \in worker'.missed,
         \A e \in Entity :
           e \in DOMAIN R.cmd.docs =>
             \/ e \in stale'
             \/ R.cmd.op = "apply" /\ (R.at # "read" => R.cmd.docs[e] = rows'[e]),
         \A u \in Caller, e \in Entity :
           Holder(u, e) =>
             e \in stale' \/ (e \notin stale /\ rows'[e] = rows[e] /\ e \notin DOMAIN R.cmd.docs)
  PROVE  SettledInductive'
<1>1. caller[t].cmd = Flush
  BY DEF SettledInductive, CallersRest
<1>2. \A u \in Caller : caller'[u] = IF u = t THEN R ELSE caller[u]
  BY DEF TypeOK
<1>3. CallersRest'
  BY <1>2 DEF SettledInductive, CallersRest
<1>4. AskersWait'
  <2>1. worker.by \subseteq Caller /\ \A i \in 1..Len(queue) : queue[i] \in Job
    BY DEF TypeOK, WorkerState
  <2>2. \A i \in 1..Len(queue) : queue[i].by \subseteq Caller
    BY <2>1 DEF Job
  <2> QED
    BY <1>2, <2>1, <2>2 DEF SettledInductive, AskersWait
<1>5. DeadIsStale'
  BY DEF SettledInductive, DeadIsStale, TypeOK
<1>6. \A e : \A u \in Caller : Holder(u, e)' <=> IF u = t THEN e \in DOMAIN R.cmd.docs ELSE Holder(u, e)
  BY <1>2 DEF Holder
<1>7. \A u \in Caller : HasRebuild(u)' <=> IF u = t THEN R.cmd.op = "rebuild" ELSE HasRebuild(u)
  BY <1>2 DEF HasRebuild
<1>8. \A e : ~Holder(t, e) /\ ~HasRebuild(t)
  BY <1>1, FlushHoldsNothing
<1>9. \A e \in Entity :
        \/ Pending(e)'
        \/ rows'[e] = rows[e] /\ (Pending(e) => Pending(e)')
        \/ /\ e \in stale'
           /\ e \in DOMAIN worker.docs => worker.docs[e] = rows'[e] \/ e \in worker'.missed
  BY <1>6, <1>7, <1>8 DEF Pending
<1>10. ASSUME NEW e \in Entity
       PROVE  /\ CollectedFollows(e)'
              /\ e \notin stale' => IndexFollows(e)'
  <2>1. CASE Pending(e)'
    BY <2>1 DEF IndexFollows, CollectedFollows
  <2>2. CASE rows'[e] = rows[e] /\ (Pending(e) => Pending(e)') /\ ~Pending(e)'
    <3>1. CollectedFollows(e)'
      BY <2>2, PendingStays DEF SettledInductive, Follows
    <3>2. e \notin DOMAIN R.cmd.docs
      BY <1>6, <2>2 DEF Pending
    <3>3. e \notin stale' => IndexFollows(e)
      BY <3>2 DEF SettledInductive, Follows
    <3> QED
      BY <2>2, <3>1, <3>3, PendingStays
  <2>3. CASE /\ e \in stale'
             /\ e \in DOMAIN worker.docs =>
                  worker.docs[e] = rows'[e] \/ e \in worker'.missed
    BY <2>3 DEF CollectedFollows
  <2> QED
    BY <1>9, <2>1, <2>2, <2>3
<1>11. ASSUME NEW e \in Entity \ stale' PROVE HeldIsNew(e)'
  <2>1. CASE e \in stale
    <3>1. \A u \in Caller : ~Holder(u, e)
      BY <2>1
    <3>2. e \in DOMAIN R.cmd.docs => HoldsNew(t, e)'
      BY <1>2 DEF HoldsNew
    <3> QED
      BY <1>6, <3>1, <3>2 DEF HeldIsNew
  <2>2. CASE e \notin stale
    <3>1. HeldIsNew(e)
      BY <2>2 DEF SettledInductive, Follows
    <3>2. e \in DOMAIN R.cmd.docs => HoldsNew(t, e)'
      BY <1>2 DEF HoldsNew
    <3>3. \A u \in Caller : Holder(u, e) /\ u # t => (HoldsNew(u, e) => HoldsNew(u, e)')
      BY <1>2 DEF HoldsNew
    <3>4. \A u \in Caller : Holder(u, e) => e \notin DOMAIN R.cmd.docs
      OBVIOUS
    <3> QED
      BY <1>6, <3>1, <3>2, <3>3, <3>4 DEF HeldIsNew
  <2> QED
    BY <2>1, <2>2
<1>12. Follows'
  BY <1>10, <1>11 DEF Follows
<1> QED
  BY <1>3, <1>4, <1>5, <1>12 DEF SettledInductive

LEMMA HeldBy ==
  ASSUME NEW t \in Caller, NEW e
  PROVE  Holder(t, e) => e \in Held
BY DEF Holder, Held

\* The types after a step of a caller.
LEMMA CallerTyped ==
  ASSUME Inductive, NEW t \in Caller, NewCall(t) \/ CallerStep(t) \/ ReadBackFails(t)
  PROVE  TypeOK /\ TypeOK'
BY CallerTypes DEF Inductive

\* The entity a command is about comes to the index; those it changes beside
\* it are out of date, and missed by a rebuild that had read them.
LEMMA SaveFollows ==
  ASSUME TypeOK, TypeOK', SettledInductive, NEW t \in Caller,
         NEW e \in Entity, NEW others \in Beside(e), Save(t, e, others)
  PROVE  SettledInductive'
<1>1. PICK v \in {0, calls'}, at \in {"read", "mark"} :
        /\ rows' = [x \in Entity |-> IF x \in others \cup {e} THEN v ELSE rows[x]]
        /\ Enqueues(t, at, Apply([x \in {e} |-> v]))
  BY DEF Save
<1> DEFINE R == [Resting EXCEPT !.at = at, !.cmd = Apply([x \in {e} |-> v])]
<1>2. caller' = [caller EXCEPT ![t] = R]
  BY <1>1 DEF Enqueues
<1>3. /\ R.at = at /\ R.cmd.op = "apply" /\ DOMAIN R.cmd.docs = {e} /\ R.cmd.docs[e] = v
  BY DEF Resting, Apply
<1>4. /\ caller[t].at = "idle" /\ LeftOut(others)
      /\ stale' = (IF Repairs(e) THEN stale \ {e} ELSE stale \cup {e}) \cup others
      /\ UNCHANGED <<queue, index>>
  BY DEF Save
<1> HIDE DEF R
<1>5. \A x \in Entity : x # e => rows'[x] = rows[x] \/ x \in others
  BY <1>1
<1>6. rows'[e] = v
  BY <1>1
<1>7. /\ worker'.at = worker.at /\ worker'.by = worker.by
      /\ worker'.docs = worker.docs /\ worker'.cmd = worker.cmd
      /\ worker.missed \subseteq worker'.missed
      /\ \A x \in others :
           x \in DOMAIN worker.docs => worker.docs[x] = rows'[x] \/ x \in worker'.missed
  BY <1>4, LeftOutWorker
<1>8. others \subseteq stale' /\ \A x \in Entity : x # e /\ x \in stale => x \in stale'
  BY <1>4
<1>9. \A u \in Caller : Holder(u, e) => e \in stale'
  BY <1>4, HeldBy DEF Repairs
<1>10. worker.at = "dead" => stale \subseteq stale'
  BY <1>4 DEF Repairs
<1>11. \A u \in Caller, x \in Entity :
         Holder(u, x) =>
           x \in stale' \/ (x \notin stale /\ rows'[x] = rows[x] /\ x \notin DOMAIN R.cmd.docs)
  BY <1>3, <1>5, <1>8, <1>9
<1>12. \A x \in Entity : x \in stale => x \in stale' \/ x \in DOMAIN R.cmd.docs
  BY <1>3, <1>8
<1>13. \A x \in Entity :
         \/ rows'[x] = rows[x]
         \/ x \in DOMAIN R.cmd.docs
         \/ R.cmd.op = "rebuild"
         \/ /\ x \in stale'
            /\ x \in DOMAIN worker.docs => worker.docs[x] = rows'[x] \/ x \in worker'.missed
  BY <1>3, <1>5, <1>7, <1>8
<1>14. \A x \in Entity :
         x \in DOMAIN R.cmd.docs =>
           \/ x \in stale'
           \/ R.cmd.op = "apply" /\ (R.at # "read" => R.cmd.docs[x] = rows'[x])
  BY <1>3, <1>6
<1>15. /\ R.at \in {"idle", "wait", "look"} => R.cmd = Flush
       /\ R.at = "read" => R.cmd.op = "apply"
  BY <1>3
<1> QED
  BY <1>2, <1>4, <1>7, <1>10, <1>11, <1>12, <1>13, <1>14, <1>15, NewCallFollows

LEMMA SaveUnsentFollows ==
  ASSUME TypeOK, TypeOK', SettledInductive, NEW t \in Caller,
         NEW es \in SUBSET Entity, SaveUnsent(t, es)
  PROVE  SettledInductive'
<1>1. PICK v \in {0, calls'} : rows' = [x \in Entity |-> IF x \in es THEN v ELSE rows[x]]
  BY DEF SaveUnsent
<1>2. /\ caller[t].at = "idle" /\ LeftOut(es) /\ stale' = stale \cup es
      /\ UNCHANGED <<queue, index, caller>>
  BY DEF SaveUnsent
<1>3. caller[t].cmd = Flush
  BY <1>2 DEF SettledInductive, CallersRest
<1>4. DOMAIN caller[t].cmd.docs = {}
  BY <1>3 DEF Flush, Nothing
<1>5. caller' = [caller EXCEPT ![t] = caller[t]]
  BY <1>2 DEF TypeOK
<1>6. \A x \in Entity : rows'[x] = rows[x] \/ x \in es
  BY <1>1
<1>7. /\ worker'.at = worker.at /\ worker'.by = worker.by
      /\ worker'.docs = worker.docs /\ worker'.cmd = worker.cmd
      /\ worker.missed \subseteq worker'.missed
      /\ \A x \in es :
           x \in DOMAIN worker.docs => worker.docs[x] = rows'[x] \/ x \in worker'.missed
  BY <1>2, LeftOutWorker
<1>8. \A u \in Caller, x \in Entity :
        Holder(u, x) =>
          \/ x \in stale'
          \/ x \notin stale /\ rows'[x] = rows[x] /\ x \notin DOMAIN caller[t].cmd.docs
  BY <1>2, <1>4, <1>6
<1>9. \A x \in Entity :
        \/ rows'[x] = rows[x]
        \/ x \in DOMAIN caller[t].cmd.docs
        \/ caller[t].cmd.op = "rebuild"
        \/ /\ x \in stale'
           /\ x \in DOMAIN worker.docs => worker.docs[x] = rows'[x] \/ x \in worker'.missed
  BY <1>2, <1>6, <1>7
<1>10. \A x \in Entity :
         x \in DOMAIN caller[t].cmd.docs =>
           \/ x \in stale'
           \/ /\ caller[t].cmd.op = "apply"
              /\ caller[t].at # "read" => caller[t].cmd.docs[x] = rows'[x]
  BY <1>4
<1>11. \A x \in Entity : x \in stale => x \in stale' \/ x \in DOMAIN caller[t].cmd.docs
  BY <1>2
<1>12. stale \subseteq stale' /\ (caller[t].at = "read" => caller[t].cmd.op = "apply")
  BY <1>2
<1> QED
  BY <1>2, <1>3, <1>5, <1>7, <1>8, <1>9, <1>10, <1>11, <1>12, NewCallFollows

\* Whoever cannot read its row back lets go of it: no caller gets another
\* document, and what it held is out of date.
LEMMA ReadBackFailsFollows ==
  ASSUME TypeOK, TypeOK', SettledInductive, NEW t \in Caller, ReadBackFails(t)
  PROVE  SettledInductive'
<1> DEFINE es == DOMAIN caller[t].cmd.docs
<1>1. /\ caller[t].at = "read" /\ LeftOut(es) /\ stale' = stale \cup es
      /\ caller' = [caller EXCEPT ![t] = Resting]
      /\ UNCHANGED <<rows, index, queue>>
  BY DEF ReadBackFails, disk
<1>2. \A u \in Caller : u # t => caller'[u] = caller[u]
  BY <1>1 DEF TypeOK
<1>3. caller'[t].cmd = Flush /\ caller'[t].at = "idle"
  BY <1>1 DEF TypeOK, Resting
<1>4. /\ worker'.at = worker.at /\ worker'.by = worker.by
      /\ worker'.docs = worker.docs /\ worker'.cmd = worker.cmd
      /\ worker.missed \subseteq worker'.missed
      /\ \A x \in es :
           x \in DOMAIN worker.docs => worker.docs[x] = rows'[x] \/ x \in worker'.missed
  BY <1>1, LeftOutWorker
<1>5. ~HasRebuild(t) /\ \A x : Holder(t, x) <=> x \in es
  BY <1>1 DEF SettledInductive, CallersRest, HasRebuild, Holder
<1> HIDE DEF es
<1>6. CallersRest'
  BY <1>2, <1>3 DEF SettledInductive, CallersRest
<1>7. AskersWait'
  <2>1. worker.by \subseteq Caller /\ \A i \in 1..Len(queue) : queue[i] \in Job
    BY DEF TypeOK, WorkerState
  <2>2. \A i \in 1..Len(queue) : queue[i].by \subseteq Caller
    BY <2>1 DEF Job
  <2> QED
    BY <1>1, <1>2, <1>4, <2>1, <2>2 DEF SettledInductive, AskersWait
<1>8. DeadIsStale'
  BY <1>1, <1>4 DEF SettledInductive, DeadIsStale, TypeOK
<1>9. \A x, u : u \in Caller /\ u # t =>
        (Holder(u, x)' <=> Holder(u, x)) /\ (HasRebuild(u)' <=> HasRebuild(u))
  BY <1>2 DEF Holder, HasRebuild
<1>10. \A x : ~Holder(t, x)'
  BY <1>3 DEF Holder, Flush, Nothing
<1>11. \A x : x \notin es => (Pending(x) => Pending(x)')
  BY <1>5, <1>9 DEF Pending
<1>12. ASSUME NEW x \in Entity
       PROVE  /\ CollectedFollows(x)'
              /\ x \notin stale' => IndexFollows(x)'
  <2>1. CASE x \in es
    BY <1>1, <1>4, <2>1 DEF CollectedFollows
  <2>2. CASE x \notin es
    BY <1>1, <1>4, <1>11, <2>2, PendingStays DEF SettledInductive, Follows
  <2> QED
    BY <2>1, <2>2
<1>13. ASSUME NEW x \in Entity \ stale' PROVE HeldIsNew(x)'
  <2>1. HeldIsNew(x)
    BY <1>1 DEF SettledInductive, Follows
  <2>2. \A u \in Caller : u # t /\ Holder(u, x) => (HoldsNew(u, x) => HoldsNew(u, x)')
    BY <1>1, <1>2 DEF HoldsNew
  <2> QED
    BY <1>9, <1>10, <2>1, <2>2 DEF HeldIsNew
<1>14. Follows'
  BY <1>12, <1>13 DEF Follows
<1> QED
  BY <1>6, <1>7, <1>8, <1>14 DEF SettledInductive

LEMMA RemoteApplyFollows ==
  ASSUME TypeOK, TypeOK', SettledInductive, NEW t \in Caller, NEW e \in Entity,
         RemoteApply(t, e)
  PROVE  SettledInductive'
<1>1. PICK v \in {0, calls'} : rows' = [rows EXCEPT ![e] = v]
  BY DEF RemoteApply
<1> DEFINE R == [Resting EXCEPT !.at = "mark", !.cmd = Rebuild]
<1>2. caller' = [caller EXCEPT ![t] = R]
  BY DEF RemoteApply, Enqueues
<1>3. R.at = "mark" /\ R.cmd.op = "rebuild" /\ DOMAIN R.cmd.docs = {}
  BY DEF Resting, Rebuild, Nothing
<1>4. /\ caller[t].at = "idle" /\ stale' = stale \cup (Held \cap {e})
      /\ UNCHANGED <<queue, worker, index>>
  BY DEF RemoteApply
<1> HIDE DEF R
<1>5. \A x \in Entity : x # e => rows'[x] = rows[x]
  BY <1>1 DEF TypeOK
<1>6. \A u \in Caller, x \in Entity :
        Holder(u, x) =>
          x \in stale' \/ (x \notin stale /\ rows'[x] = rows[x] /\ x \notin DOMAIN R.cmd.docs)
  BY <1>3, <1>4, <1>5, HeldBy
<1> QED
  BY <1>2, <1>3, <1>4, <1>6, NewCallFollows

LEMMA WipeFollows ==
  ASSUME TypeOK, TypeOK', SettledInductive, NEW t \in Caller, Wipe(t)
  PROVE  SettledInductive'
<1> DEFINE R == [Resting EXCEPT !.at = "mark", !.cmd = Apply([x \in Entity |-> 0])]
<1>1. caller' = [caller EXCEPT ![t] = R]
  BY DEF Wipe, Enqueues
<1>2. /\ R.at = "mark" /\ R.cmd.op = "apply" /\ DOMAIN R.cmd.docs = Entity
      /\ \A e \in Entity : R.cmd.docs[e] = 0
  BY DEF Resting, Apply
<1>3. /\ caller[t].at = "idle" /\ stale' = stale \cup Held \cup NotWiped
      /\ \A e \in Entity : e \notin NotWiped => rows'[e] = 0
      /\ UNCHANGED <<queue, worker, index>>
  BY DEF Wipe
<1> HIDE DEF R
<1>4. \A u \in Caller, x \in Entity :
        Holder(u, x) =>
          x \in stale' \/ (x \notin stale /\ rows'[x] = rows[x] /\ x \notin DOMAIN R.cmd.docs)
  BY <1>3, HeldBy
<1>5. \A e \in Entity :
        e \in DOMAIN R.cmd.docs =>
          \/ e \in stale'
          \/ R.cmd.op = "apply" /\ (R.at # "read" => R.cmd.docs[e] = rows'[e])
  BY <1>2, <1>3
<1>6. stale \subseteq stale' /\ caller[t].at \in {"idle", "look"}
  BY <1>3
<1>7. /\ R.at \in {"idle", "wait", "look"} => R.cmd = Flush
      /\ R.at = "read" => R.cmd.op = "apply"
  BY <1>2
<1>8. \A e \in Entity :
        rows'[e] = rows[e] \/ e \in DOMAIN R.cmd.docs \/ R.cmd.op = "rebuild"
  BY <1>2
<1>9. UNCHANGED <<queue, worker, index>>
  BY <1>3
<1> QED
  BY <1>1, <1>4, <1>5, <1>6, <1>7, <1>8, <1>9, NewCallFollows

\* Calls that change no row and hold no document.
LEMMA AskingFollows ==
  ASSUME TypeOK, TypeOK', SettledInductive, NEW t \in Caller,
         \/ Await(t, Rebuild) \/ Await(t, Flush) \/ Search(t) \/ Look(t)
  PROVE  SettledInductive'
<1>1. caller[t].at \in {"idle", "look"} /\ UNCHANGED <<rows, index, queue, worker, stale>>
  BY DEF Await, Search, Look, disk
<1>2. \E R : /\ caller' = [caller EXCEPT ![t] = R]
             /\ R.at \in {"idle", "wait", "look"} => R.cmd = Flush
             /\ R.at # "read"
             /\ R.cmd \in {Rebuild, Flush}
  <2>1. ASSUME NEW cmd \in {Rebuild, Flush}, Await(t, cmd)
        PROVE  \E R : /\ caller' = [caller EXCEPT ![t] = R]
                      /\ R.at \in {"idle", "wait", "look"} => R.cmd = Flush
                      /\ R.at # "read"
                      /\ R.cmd \in {Rebuild, Flush}
    <3> DEFINE R == [Resting EXCEPT !.at = "mark", !.cmd = cmd, !.waits = TRUE,
                       !.need = sent, !.begun = begun]
    <3>1. caller' = [caller EXCEPT ![t] = R]
      BY <2>1 DEF Await
    <3>2. R.at = "mark" /\ R.cmd = cmd
      BY DEF Resting
    <3> HIDE DEF R
    <3> QED
      BY <3>1, <3>2
  <2>2. CASE Search(t)
    <3> DEFINE at == IF InProgress THEN "mark" ELSE "look"
               R == [Resting EXCEPT !.at = at, !.waits = InProgress,
                       !.searching = TRUE, !.need = sent, !.begun = begun]
    <3>1. caller' = [caller EXCEPT ![t] = R]
      BY <2>2 DEF Search
    <3> HIDE DEF at
    <3>2. R.cmd = Flush /\ R.at = at
      BY DEF Resting
    <3>3. at # "read"
      BY DEF at
    <3> HIDE DEF R
    <3> QED
      BY <3>1, <3>2, <3>3
  <2>3. CASE Look(t)
    <3>1. caller' = [caller EXCEPT ![t] = Resting]
      BY <2>3 DEF Look
    <3>2. Resting.cmd = Flush /\ Resting.at = "idle"
      BY DEF Resting
    <3> QED
      BY <3>1, <3>2
  <2> QED
    BY <2>1, <2>2, <2>3
<1>3. PICK R : /\ caller' = [caller EXCEPT ![t] = R]
               /\ R.at \in {"idle", "wait", "look"} => R.cmd = Flush
               /\ R.at # "read"
               /\ R.cmd \in {Rebuild, Flush}
  BY <1>2
<1>4. DOMAIN R.cmd.docs = {}
  BY <1>3 DEF Rebuild, Flush, Nothing
<1> QED
  BY <1>1, <1>3, <1>4, NewCallFollows

\* A caller that reads its row back, or marks the status.
LEMMA PreparingFollows ==
  ASSUME TypeOK, TypeOK', SettledInductive, NEW t \in Caller, ReadBack(t) \/ MarkQueued(t)
  PROVE  SettledInductive'
<1>1. /\ caller[t].at \in {"read", "mark"}
      /\ UNCHANGED <<rows, index, queue, worker, stale>>
  BY DEF ReadBack, MarkQueued, disk
<1>2. \A u \in Caller : u # t => caller'[u] = caller[u]
  BY DEF ReadBack, MarkQueued, TypeOK
<1>3. /\ caller'[t].at \in {"mark", "send"}
      /\ DOMAIN caller'[t].cmd.docs = DOMAIN caller[t].cmd.docs
  <2>1. caller[t] \in CallerState
    BY DEF TypeOK
  <2>2. CASE ReadBack(t)
    <3> DEFINE d == [e \in DOMAIN caller[t].cmd.docs |-> rows[e]]
               R == [caller[t] EXCEPT !.at = "mark", !.cmd = Apply(d)]
    <3>1. caller'[t] = R
      BY <2>1, <2>2 DEF ReadBack, TypeOK, CallerState
    <3>2. R.at = "mark" /\ R.cmd.docs = d
      BY <2>1 DEF CallerState, Apply
    <3>3. DOMAIN d = DOMAIN caller[t].cmd.docs
      OBVIOUS
    <3> HIDE DEF d, R
    <3> QED
      BY <3>1, <3>2, <3>3
  <2>3. CASE MarkQueued(t)
    BY <2>1, <2>3 DEF MarkQueued, TypeOK, CallerState
  <2> QED
    BY <2>2, <2>3
<1>4. MarkQueued(t) => caller'[t].cmd = caller[t].cmd /\ caller[t].at = "mark"
  BY DEF MarkQueued, TypeOK, CallerState
<1>5. ReadBack(t) => /\ caller'[t].cmd.op = "apply"
                     /\ \A e \in DOMAIN caller[t].cmd.docs : caller'[t].cmd.docs[e] = rows[e]
  BY DEF ReadBack, TypeOK, CallerState, Apply
<1>6. ReadBack(t) => ~HasRebuild(t)
  BY DEF ReadBack, SettledInductive, CallersRest, HasRebuild
<1>7. \A e : \A u \in Caller : Holder(u, e)' <=> Holder(u, e)
  BY <1>2, <1>3 DEF Holder
<1>8. \A u \in Caller : HasRebuild(u) => HasRebuild(u)'
  BY <1>2, <1>4, <1>6 DEF HasRebuild
<1>9. CallersRest'
  BY <1>2, <1>3 DEF SettledInductive, CallersRest
<1>10. AskersWait'
  <2>1. worker.by \subseteq Caller /\ \A i \in 1..Len(queue) : queue[i] \in Job
    BY DEF TypeOK, WorkerState
  <2>2. \A i \in 1..Len(queue) : queue[i].by \subseteq Caller
    BY <2>1 DEF Job
  <2> QED
    BY <1>1, <1>2, <2>1, <2>2 DEF SettledInductive, AskersWait
<1>11. DeadIsStale'
  BY <1>1 DEF SettledInductive, DeadIsStale
<1>12. \A e : Pending(e) => Pending(e)'
  BY <1>7, <1>8 DEF Pending
<1>13. ASSUME NEW e \in Entity
       PROVE  /\ CollectedFollows(e)'
              /\ e \notin stale => IndexFollows(e)'
  BY <1>1, <1>12, PendingStays DEF SettledInductive, Follows
<1>14. ASSUME NEW e \in Entity \ stale PROVE HeldIsNew(e)'
  <2>1. HeldIsNew(e)
    BY DEF SettledInductive, Follows
  <2>2. \A u \in Caller : u # t /\ Holder(u, e) => (HoldsNew(u, e) => HoldsNew(u, e)')
    BY <1>1, <1>2 DEF HoldsNew
  <2>3. Holder(t, e) /\ HoldsNew(t, e) => HoldsNew(t, e)'
    BY <1>1, <1>4, <1>5 DEF HoldsNew, Holder
  <2> QED
    BY <1>7, <2>1, <2>2, <2>3 DEF HeldIsNew
<1>15. Follows'
  BY <1>1, <1>13, <1>14 DEF Follows
<1> QED
  BY <1>9, <1>10, <1>11, <1>15 DEF SettledInductive

LEMMA SentElements ==
  ASSUME TypeOK, NEW J \in Job, queue' = Append(queue, J)
  PROVE  /\ Len(queue) \in Nat /\ Len(queue') = Len(queue) + 1
         /\ \A i \in 1..Len(queue) : queue'[i] = queue[i]
         /\ queue'[Len(queue) + 1] = J
BY DEF TypeOK

\* The command a caller held is the last of the queue.
LEMMA SendFollows ==
  ASSUME TypeOK, TypeOK', SettledInductive, NEW t \in Caller, Send(t)
  PROVE  SettledInductive'
<1> DEFINE J == [cmd |-> caller[t].cmd, by |-> IF caller[t].waits THEN {t} ELSE {}]
<1>0. PICK n : n = Len(queue)
  OBVIOUS
<1>1. caller[t] \in CallerState
  BY DEF TypeOK
<1>2. J \in Job /\ J.cmd = caller[t].cmd /\ J.by = IF caller[t].waits THEN {t} ELSE {}
  BY <1>1 DEF Job, CallerState
<1>3. /\ caller[t].at = "send" /\ queue' = Append(queue, J)
      /\ UNCHANGED <<rows, index, worker, stale>>
  BY DEF Send, disk
<1> HIDE DEF J
<1>4. /\ n \in Nat /\ Len(queue') = n + 1
      /\ \A i \in 1..n : queue'[i] = queue[i]
      /\ queue'[n + 1] = J
  BY <1>0, <1>2, <1>3, SentElements
<1>5. \A u \in Caller : u # t => caller'[u] = caller[u]
  BY DEF Send, TypeOK
<1>6. caller'[t].cmd = Flush /\ caller'[t].at # "read"
  BY <1>1 DEF Send, TypeOK, Resting, CallerState
<1>7. caller[t].waits => caller'[t].at = "wait"
  BY <1>1 DEF Send, TypeOK, CallerState
<1>8. CallersRest'
  BY <1>5, <1>6 DEF SettledInductive, CallersRest
<1>9. DeadIsStale'
  BY <1>3 DEF SettledInductive, DeadIsStale
<1>10. \A u \in J.by : u = t /\ caller'[u].at = "wait"
  BY <1>2, <1>7
<1>11. worker.by \subseteq Caller /\ \A i \in 1..n : queue[i].by \subseteq Caller
  <2>1. worker.by \subseteq Caller /\ \A i \in 1..n : queue[i] \in Job
    BY <1>0 DEF TypeOK, WorkerState
  <2> QED
    BY <2>1 DEF Job
<1>12. \A u \in worker.by : caller'[u].at = "wait" /\ u # t
  BY <1>0, <1>3, <1>5, <1>11 DEF SettledInductive, AskersWait
<1>13. \A i \in 1..n : \A u \in queue[i].by :
         /\ caller'[u].at = "wait" /\ u # t /\ u \notin worker.by
         /\ \A j \in 1..n : u \in queue[j].by => i = j
  BY <1>0, <1>3, <1>5, <1>11 DEF SettledInductive, AskersWait
<1>14. \A i \in 1..(n + 1) : i = n + 1 \/ i \in 1..n
  BY <1>4
<1>15. ASSUME NEW i \in 1..(n + 1), NEW u \in queue'[i].by
       PROVE  /\ caller'[u].at = "wait" /\ u \notin worker.by
              /\ \A j \in 1..(n + 1) : u \in queue'[j].by => i = j
  <2>1. CASE i = n + 1
    <3>1. u = t /\ caller'[u].at = "wait"
      BY <2>1, <1>4, <1>10
    <3> QED
      BY <2>1, <3>1, <1>4, <1>12, <1>13, <1>14
  <2>2. CASE i \in 1..n
    <3>1. u \in queue[i].by
      BY <2>2, <1>4
    <3> QED
      BY <2>2, <3>1, <1>4, <1>10, <1>13, <1>14
  <2> QED
    BY <1>14, <2>1, <2>2
<1>16. AskersWait'
  BY <1>3, <1>4, <1>12, <1>15 DEF AskersWait
<1>17. \A e : /\ \A i \in 1..n : DocAt(i, e)' <=> DocAt(i, e)
              /\ DocAt(n + 1, e)' <=> Holder(t, e)
  BY <1>2, <1>4 DEF DocAt, Holder
<1>18. /\ \A i \in 1..n : RebuildAt(i)' <=> RebuildAt(i)
       /\ RebuildAt(n + 1)' <=> HasRebuild(t)
  BY <1>2, <1>4 DEF RebuildAt, HasRebuild
<1>19. \A e : \A i \in 1..n : NewAt(i, e)' <=> NewAt(i, e)
  BY <1>3, <1>4, <1>17 DEF NewAt
<1>20. \A e : \A u \in Caller : Holder(u, e)' <=> u # t /\ Holder(u, e)
  BY <1>5, <1>6 DEF Holder, Flush, Nothing
<1>21. \A u \in Caller : HasRebuild(u)' <=> u # t /\ HasRebuild(u)
  BY <1>5, <1>6 DEF HasRebuild, Flush
<1>22. n + 1 \in 1..Len(queue') /\ \A i \in 1..n : i \in 1..Len(queue')
  BY <1>4
<1>23. \A e : Pending(e) => Pending(e)' \/ Holder(t, e) \/ HasRebuild(t)
  BY <1>20, <1>21 DEF Pending
<1>24. ASSUME NEW e \in Entity PROVE CollectedFollows(e)'
  <2>1. CollectedFollows(e)
    BY DEF SettledInductive, Follows
  <2>2. (\E i \in 1..n : DocAt(i, e) \/ RebuildAt(i))
          => \E i \in 1..Len(queue') : DocAt(i, e)' \/ RebuildAt(i)'
    BY <1>17, <1>18, <1>22
  <2>3. Pending(e) => Pending(e)' \/ \E i \in 1..Len(queue') : DocAt(i, e)' \/ RebuildAt(i)'
    BY <1>17, <1>18, <1>22, <1>23
  <2> QED
    BY <1>0, <1>3, <2>1, <2>2, <2>3 DEF CollectedFollows
<1>25. ASSUME NEW e \in Entity \ stale PROVE HeldIsNew(e)' /\ IndexFollows(e)'
  <2>1. HeldIsNew(e) /\ IndexFollows(e)
    BY DEF SettledInductive, Follows
  <2>2. \A u \in Caller : u # t => (HoldsNew(u, e) => HoldsNew(u, e)')
    BY <1>3, <1>5 DEF HoldsNew
  <2>3. HeldIsNew(e)'
    BY <1>20, <2>1, <2>2 DEF HeldIsNew
  <2>4. Holder(t, e) => NewAt(n + 1, e)'
    <3>1. Holder(t, e) => caller[t].cmd.op = "apply" /\ caller[t].cmd.docs[e] = rows[e]
      BY <1>3, <2>1 DEF HeldIsNew, HoldsNew
    <3> QED
      BY <1>2, <1>3, <1>4, <1>17, <3>1 DEF NewAt
  <2>5. Holder(t, e) \/ HasRebuild(t) => LastInQueue(n + 1, e)'
    <3>1. \A j \in 1..Len(queue') : ~(j > n + 1)
      BY <1>4
    <3> QED
      BY <1>18, <2>4, <3>1 DEF LastInQueue
  <2>6. ASSUME ~Holder(t, e), NEW i \in 1..n, LastInQueue(i, e) PROVE LastInQueue(i, e)'
    <3>1. RebuildAt(i)' \/ NewAt(i, e)'
      BY <1>18, <1>19, <2>6 DEF LastInQueue
    <3>2. \A j \in 1..n : j > i => ~DocAt(j, e)'
      BY <1>0, <1>17, <2>6 DEF LastInQueue
    <3>3. \A j \in 1..(n + 1) : j > i => ~DocAt(j, e)'
      BY <1>14, <1>17, <2>6, <3>2
    <3> QED
      BY <1>4, <3>1, <3>3 DEF LastInQueue
  <2>7. WorkerHas(e) => WorkerHas(e)'
    BY <1>3 DEF WorkerHas
  <2>8. ASSUME ~Holder(t, e), \A i \in 1..n : ~DocAt(i, e)
        PROVE  \A i \in 1..Len(queue') : ~DocAt(i, e)'
    BY <1>4, <1>14, <1>17, <2>8
  <2> QED
    BY <1>0, <1>22, <1>23, <2>1, <2>3, <2>5, <2>6, <2>7, <2>8 DEF IndexFollows
<1>26. Follows'
  BY <1>3, <1>24, <1>25 DEF Follows
<1> QED
  BY <1>8, <1>9, <1>16, <1>26 DEF SettledInductive

\* Without a worker the command is dropped: nothing is promised any more.
LEMMA SendFailsFollows ==
  ASSUME TypeOK, TypeOK', SettledInductive, NEW t \in Caller, SendFails(t)
  PROVE  SettledInductive'
<1>1. /\ caller[t].at = "send" /\ worker.at = "dead"
      /\ caller' = [caller EXCEPT ![t] = Resting]
      /\ UNCHANGED <<rows, index, queue, worker, stale>>
  BY DEF SendFails, disk
<1>2. \A u \in Caller : u # t => caller'[u] = caller[u]
  BY <1>1 DEF TypeOK
<1>3. caller'[t].cmd = Flush /\ caller'[t].at = "idle"
  BY <1>1 DEF TypeOK, Resting
<1>4. CallersRest'
  BY <1>2, <1>3 DEF SettledInductive, CallersRest
<1>5. worker.by \subseteq Caller /\ \A i \in 1..Len(queue) : queue[i] \in Job
  BY DEF TypeOK, WorkerState
<1>6. \A i \in 1..Len(queue) : queue[i].by \subseteq Caller
  BY <1>5 DEF Job
<1>7. AskersWait'
  BY <1>1, <1>2, <1>5, <1>6 DEF SettledInductive, AskersWait
<1>8. DeadIsStale'
  BY <1>1 DEF SettledInductive, DeadIsStale
<1>9. stale' = Entity
  BY <1>1 DEF SettledInductive, DeadIsStale
<1>10. \A e : CollectedFollows(e)'
  BY <1>1 DEF CollectedFollows
<1>11. Follows'
  BY <1>9, <1>10 DEF Follows
<1> QED
  BY <1>4, <1>7, <1>8, <1>11 DEF SettledInductive

\* A step of the worker that takes nothing from the queue and answers nobody.
LEMMA WorkerStepFollows ==
  ASSUME SettledInductive, UNCHANGED <<queue, rows, caller>>,
         worker'.by = worker.by, worker'.at # "dead",
         \A e \in Entity : CollectedFollows(e)',
         \A e \in Entity \ stale' :
           \/ e \notin stale /\ (WorkerHas(e) => WorkerHas(e)')
           \/ HeldIsNew(e)' /\ IndexFollows(e)'
  PROVE  SettledInductive'
<1>1. CallersRest'
  BY DEF SettledInductive, CallersRest
<1>2. AskersWait'
  BY DEF SettledInductive, AskersWait
<1>3. DeadIsStale'
  BY DEF DeadIsStale
<1>4. ASSUME NEW e \in Entity \ stale, WorkerHas(e) => WorkerHas(e)'
      PROVE  HeldIsNew(e)' /\ IndexFollows(e)'
  <2>1. HeldIsNew(e) /\ IndexFollows(e)
    BY DEF SettledInductive, Follows
  <2>2. HeldIsNew(e)'
    BY <2>1 DEF HeldIsNew, Holder, HoldsNew
  <2>3. Pending(e) => Pending(e)'
    BY DEF Pending, Holder, HasRebuild
  <2>4. \A i : DocAt(i, e)' <=> DocAt(i, e)
    BY DEF DocAt
  <2>5. \A i : LastInQueue(i, e) => LastInQueue(i, e)'
    BY <2>4 DEF LastInQueue, RebuildAt, NewAt
  <2> QED
    BY <1>4, <2>1, <2>2, <2>3, <2>4, <2>5 DEF IndexFollows
<1>5. \A e \in Entity \ stale' : HeldIsNew(e)' /\ IndexFollows(e)'
  BY <1>4
<1>6. Follows'
  BY <1>5 DEF Follows
<1> QED
  BY <1>1, <1>2, <1>3, <1>6 DEF SettledInductive

LEMMA TakenElements ==
  ASSUME TypeOK, queue # <<>>, queue' = Tail(queue)
  PROVE  /\ Len(queue) \in Nat /\ Len(queue) >= 1 /\ Len(queue') = Len(queue) - 1
         /\ \A i \in 1..(Len(queue) - 1) : queue'[i] = queue[i + 1]
         /\ Head(queue) = queue[1]
BY DEF TypeOK

\* What the worker has in its hands when it has begun a command.
LEMMA BegunJob ==
  ASSUME TypeOK, Begin
  PROVE  /\ worker'.cmd = queue[1].cmd
         /\ worker'.by = queue[1].by
         /\ worker'.docs = Nothing /\ worker'.missed = {}
         /\ queue[1].cmd.op = "rebuild" => worker'.at = "collect"
         /\ queue[1].cmd.op = "apply" => worker'.at = "commit"
         /\ worker'.at \in {"collect", "commit", "finish"}
<1>1. Head(queue) = queue[1]
  BY TakenElements DEF Begin
<1> DEFINE at == CASE queue[1].cmd.op = "rebuild" -> "collect"
                   [] queue[1].cmd.op = "apply" -> "commit"
                   [] OTHER -> "finish"
<1>2. worker' = [NoJob EXCEPT !.cmd = queue[1].cmd, !.by = queue[1].by, !.at = at]
  BY <1>1 DEF Begin
<1>3. /\ queue[1].cmd.op = "rebuild" => at = "collect"
      /\ queue[1].cmd.op = "apply" => at = "commit"
      /\ at \in {"collect", "commit", "finish"}
  OBVIOUS
<1> HIDE DEF at
<1>4. /\ worker'.cmd = queue[1].cmd /\ worker'.by = queue[1].by /\ worker'.at = at
      /\ worker'.docs = Nothing /\ worker'.missed = {}
  BY <1>2 DEF NoJob
<1> QED
  BY <1>3, <1>4

LEMMA BeginFollows ==
  ASSUME TypeOK, TypeOK', SettledInductive, Begin
  PROVE  SettledInductive'
<1>0. PICK n : n = Len(queue)
  OBVIOUS
<1>1. /\ worker.at = "idle" /\ queue # <<>> /\ queue' = Tail(queue)
      /\ UNCHANGED <<rows, index, caller, stale>>
  BY DEF Begin, disk
<1>2. /\ n \in Nat /\ n >= 1 /\ Len(queue') = n - 1
      /\ \A i \in 1..(n - 1) : queue'[i] = queue[i + 1]
  BY <1>0, <1>1, TakenElements
<1>3. /\ \A i \in 1..(n - 1) : i + 1 \in 1..n /\ i + 1 # 1
      /\ \A i \in 1..n : i = 1 \/ (i - 1 \in 1..(n - 1) /\ (i - 1) + 1 = i)
      /\ 1 \in 1..n
  BY <1>2
<1>4. CallersRest'
  BY <1>1 DEF SettledInductive, CallersRest
<1>5. DeadIsStale'
  BY BegunJob DEF DeadIsStale
<1>6. \A i \in 1..n : \A u \in queue[i].by :
        caller[u].at = "wait" /\ \A j \in 1..n : u \in queue[j].by => i = j
  BY <1>0 DEF SettledInductive, AskersWait
<1>7. \A u \in worker'.by : caller'[u].at = "wait"
  BY <1>1, <1>3, <1>6, BegunJob
<1>8. ASSUME NEW i \in 1..(n - 1), NEW u \in queue'[i].by
      PROVE  /\ caller'[u].at = "wait" /\ u \notin worker'.by
             /\ \A j \in 1..(n - 1) : u \in queue'[j].by => i = j
  <2>1. u \in queue[i + 1].by /\ i + 1 \in 1..n /\ i + 1 # 1
    BY <1>2, <1>3
  <2>2. caller[u].at = "wait" /\ \A j \in 1..n : u \in queue[j].by => i + 1 = j
    BY <1>6, <2>1
  <2>3. \A j \in 1..(n - 1) : u \in queue'[j].by => i + 1 = j + 1
    BY <1>2, <1>3, <2>2
  <2>4. u \notin worker'.by
    BY <1>3, <2>1, <2>2, BegunJob
  <2> QED
    BY <1>1, <1>2, <2>2, <2>3, <2>4
<1>9. AskersWait'
  BY <1>2, <1>7, <1>8 DEF AskersWait
<1>10. \A e : CollectedFollows(e)'
  BY BegunJob DEF CollectedFollows, Nothing
<1>11. \A e : \A i \in 1..(n - 1) : DocAt(i, e)' <=> DocAt(i + 1, e)
  BY <1>2 DEF DocAt
<1>12. \A i \in 1..(n - 1) : RebuildAt(i)' <=> RebuildAt(i + 1)
  BY <1>2 DEF RebuildAt
<1>13. \A e : \A i \in 1..(n - 1) : NewAt(i, e)' <=> NewAt(i + 1, e)
  BY <1>1, <1>2, <1>11 DEF NewAt
<1>14. ASSUME NEW e \in Entity \ stale PROVE HeldIsNew(e)' /\ IndexFollows(e)'
  <2>1. HeldIsNew(e) /\ IndexFollows(e)
    BY DEF SettledInductive, Follows
  <2>2. HeldIsNew(e)'
    BY <1>1, <2>1 DEF HeldIsNew, Holder, HoldsNew
  <2>3. Pending(e) => Pending(e)'
    BY <1>1 DEF Pending, Holder, HasRebuild
  <2>4. ASSUME NEW i \in 1..n, i # 1, LastInQueue(i, e)
        PROVE  i - 1 \in 1..(n - 1) /\ LastInQueue(i - 1, e)'
    <3>1. i - 1 \in 1..(n - 1) /\ (i - 1) + 1 = i
      BY <1>3, <2>4
    <3>2. RebuildAt(i - 1)' \/ NewAt(i - 1, e)'
      BY <1>12, <1>13, <2>4, <3>1 DEF LastInQueue
    <3>3. \A j \in 1..(n - 1) : j > i - 1 => j + 1 > i /\ j + 1 \in 1..n
      BY <1>2
    <3>4. \A j \in 1..(n - 1) : j > i - 1 => ~DocAt(j, e)'
      BY <1>0, <1>11, <2>4, <3>3 DEF LastInQueue
    <3> QED
      BY <1>2, <3>1, <3>2, <3>4 DEF LastInQueue
  <2>5. ASSUME LastInQueue(1, e)
        PROVE  (\A i \in 1..(n - 1) : ~DocAt(i, e)') /\ WorkerHas(e)'
    <3>1. \A j \in 1..n : j > 1 => ~DocAt(j, e)
      BY <1>0, <2>5 DEF LastInQueue
    <3>2. \A i \in 1..(n - 1) : i + 1 > 1
      BY <1>2
    <3>3. \A i \in 1..(n - 1) : ~DocAt(i, e)'
      BY <1>3, <1>11, <3>1, <3>2
    <3>4. CASE RebuildAt(1)
      BY <3>3, <3>4, BegunJob DEF RebuildAt, WorkerHas, Nothing
    <3>5. CASE NewAt(1, e)
      BY <1>1, <3>3, <3>5, BegunJob DEF NewAt, DocAt, WorkerHas
    <3> QED
      BY <2>5, <3>4, <3>5 DEF LastInQueue
  <2>6. ASSUME \A i \in 1..n : ~DocAt(i, e), WorkerHas(e)
        PROVE  (\A i \in 1..(n - 1) : ~DocAt(i, e)') /\ WorkerHas(e)'
    <3>1. \A i \in 1..(n - 1) : ~DocAt(i, e)'
      BY <1>3, <1>11, <2>6
    <3>2. index[e] = rows[e]
      BY <1>1, <2>6 DEF WorkerHas
    <3>3. e \notin DOMAIN worker'.cmd.docs
      BY <1>3, <2>6, BegunJob DEF DocAt
    <3> QED
      BY <1>1, <3>1, <3>2, <3>3, BegunJob DEF WorkerHas, Nothing
  <2>7. CASE Pending(e)
    BY <2>2, <2>3, <2>7 DEF IndexFollows
  <2>8. CASE \E i \in 1..Len(queue) : LastInQueue(i, e)
    <3>1. PICK i \in 1..n : LastInQueue(i, e)
      BY <1>0, <2>8
    <3> QED
      BY <1>2, <2>2, <2>4, <2>5, <3>1 DEF IndexFollows
  <2>9. CASE (\A i \in 1..Len(queue) : ~DocAt(i, e)) /\ WorkerHas(e)
    BY <1>0, <1>2, <2>2, <2>6, <2>9 DEF IndexFollows
  <2> QED
    BY <2>1, <2>7, <2>8, <2>9 DEF IndexFollows
<1>15. Follows'
  BY <1>1, <1>10, <1>14 DEF Follows
<1> QED
  BY <1>4, <1>5, <1>9, <1>15 DEF SettledInductive

LEMMA CollectFollows ==
  ASSUME TypeOK, SettledInductive, NEW c \in Entity, Collect(c)
  PROVE  SettledInductive'
<1> DEFINE d == [x \in {c} |-> rows[c]]
<1>1. /\ worker.at = "collect" /\ UNCHANGED <<rows, index, queue, caller, stale>>
      /\ worker' = [worker EXCEPT !.docs = Indexed(d, worker.docs)]
  BY DEF Collect, disk
<1>2. DOMAIN d = {c} /\ d[c] = rows[c]
  OBVIOUS
<1> HIDE DEF d
<1>3. /\ worker'.at = worker.at /\ worker'.by = worker.by /\ worker'.missed = worker.missed
      /\ worker'.docs = Indexed(d, worker.docs)
  BY <1>1 DEF TypeOK, WorkerState
<1>4. \A x : x \in DOMAIN worker'.docs => x = c \/ x \in DOMAIN worker.docs
  <2>1. /\ DOMAIN Indexed(d, worker.docs) = DOMAIN d \cup DOMAIN worker.docs
        /\ \A x \in DOMAIN d \cup DOMAIN worker.docs :
             Indexed(d, worker.docs)[x] = IF x \in DOMAIN d THEN d[x] ELSE worker.docs[x]
    BY DEF Indexed
  <2> QED
    BY <1>2, <1>3, <2>1
<1>5. \A x \in DOMAIN worker'.docs :
        worker'.docs[x] = IF x = c THEN rows[c] ELSE worker.docs[x]
  <2>1. /\ DOMAIN Indexed(d, worker.docs) = DOMAIN d \cup DOMAIN worker.docs
        /\ \A x \in DOMAIN d \cup DOMAIN worker.docs :
             Indexed(d, worker.docs)[x] = IF x \in DOMAIN d THEN d[x] ELSE worker.docs[x]
    BY DEF Indexed
  <2> QED
    BY <1>2, <1>3, <2>1
<1>6. ASSUME NEW e \in Entity PROVE CollectedFollows(e)'
  <2>1. CollectedFollows(e)
    BY DEF SettledInductive, Follows
  <2>2. Pending(e) => Pending(e)'
    BY <1>1 DEF Pending, Holder, HasRebuild
  <2>3. (\E i \in 1..Len(queue) : DocAt(i, e) \/ RebuildAt(i))
          => (\E i \in 1..Len(queue) : DocAt(i, e) \/ RebuildAt(i))'
    BY <1>1 DEF DocAt, RebuildAt
  <2> QED
    BY <1>1, <1>3, <1>4, <1>5, <2>1, <2>2, <2>3 DEF CollectedFollows
<1>7. \A e : WorkerHas(e) => WorkerHas(e)'
  BY <1>1, <1>3, <1>4, <1>5 DEF WorkerHas
<1>8. worker'.at # "dead"
  BY <1>1, <1>3
<1>9. \A e \in Entity \ stale' : e \notin stale
  BY <1>1
<1> QED
  BY <1>1, <1>3, <1>6, <1>7, <1>8, <1>9, WorkerStepFollows

LEMMA MissesFollows ==
  ASSUME TypeOK, SettledInductive, CollectMisses
  PROVE  SettledInductive'
<1> DEFINE d == [e \in InThings |-> 0]
<1>1. /\ worker.at = "collect" /\ UNCHANGED <<rows, index, queue, caller, stale>>
      /\ worker' = [worker EXCEPT !.missed = @ \cup InThings, !.docs = Indexed(d, worker.docs)]
  BY DEF CollectMisses, disk
<1>2. DOMAIN d = InThings
  OBVIOUS
<1> HIDE DEF d
<1>3. /\ worker'.at = worker.at /\ worker'.by = worker.by /\ worker'.missed = worker.missed \cup InThings
      /\ worker'.docs = Indexed(d, worker.docs)
  BY <1>1 DEF TypeOK, WorkerState
<1>4. \A x : x \in DOMAIN worker'.docs => x \in InThings \/ x \in DOMAIN worker.docs
  <2>1. /\ DOMAIN Indexed(d, worker.docs) = DOMAIN d \cup DOMAIN worker.docs
        /\ \A x \in DOMAIN d \cup DOMAIN worker.docs :
             Indexed(d, worker.docs)[x] = IF x \in DOMAIN d THEN d[x] ELSE worker.docs[x]
    BY DEF Indexed
  <2> QED
    BY <1>2, <1>3, <2>1
<1>5. \A x \in DOMAIN worker'.docs : x \notin InThings => worker'.docs[x] = worker.docs[x]
  <2>1. /\ DOMAIN Indexed(d, worker.docs) = DOMAIN d \cup DOMAIN worker.docs
        /\ \A x \in DOMAIN d \cup DOMAIN worker.docs :
             Indexed(d, worker.docs)[x] = IF x \in DOMAIN d THEN d[x] ELSE worker.docs[x]
    BY DEF Indexed
  <2> QED
    BY <1>2, <1>3, <2>1
<1>6. \A x : x \in worker.missed \/ x \in InThings => x \in worker'.missed
  BY <1>3
<1>7. ASSUME NEW e \in Entity PROVE CollectedFollows(e)'
  <2>1. CollectedFollows(e)
    BY DEF SettledInductive, Follows
  <2>2. Pending(e) => Pending(e)'
    BY <1>1 DEF Pending, Holder, HasRebuild
  <2>3. (\E i \in 1..Len(queue) : DocAt(i, e) \/ RebuildAt(i))
          => (\E i \in 1..Len(queue) : DocAt(i, e) \/ RebuildAt(i))'
    BY <1>1 DEF DocAt, RebuildAt
  <2> QED
    BY <1>1, <1>3, <1>4, <1>5, <1>6, <2>1, <2>2, <2>3 DEF CollectedFollows
<1>8. \A e : WorkerHas(e) => WorkerHas(e)'
  BY <1>1, <1>3, <1>4, <1>5, <1>6 DEF WorkerHas
<1>9. worker'.at # "dead"
  BY <1>1, <1>3
<1>10. \A e \in Entity \ stale' : e \notin stale
  BY <1>1
<1> QED
  BY <1>1, <1>3, <1>7, <1>8, <1>9, <1>10, WorkerStepFollows

\* What is not on its way is held by nobody and not in the queue.
LEMMA NotComing ==
  ASSUME TypeOK, NEW e, e \notin Coming
  PROVE  /\ \A t \in Caller : ~Holder(t, e)
         /\ \A i \in 1..Len(queue) : ~DocAt(i, e)
         /\ e \notin DOMAIN worker.cmd.docs
BY DEF Coming, Held, Holder, DocAt

LEMMA RebuildFollows ==
  ASSUME TypeOK, SettledInductive, CommitRebuild
  PROVE  SettledInductive'
<1>1. /\ worker.at = "collect" /\ DOMAIN worker.docs = Entity
      /\ index' = worker.docs /\ stale' = (stale \cap Coming) \cup worker.missed
      /\ worker' = [worker EXCEPT !.at = "finish"]
      /\ UNCHANGED <<rows, queue, caller>>
  BY DEF CommitRebuild
<1>2. worker'.at = "finish" /\ worker'.by = worker.by /\ worker'.missed = worker.missed
  BY <1>1 DEF TypeOK, WorkerState
<1>3. \A e : CollectedFollows(e)'
  BY <1>2 DEF CollectedFollows
<1>4. ASSUME NEW e \in Entity, e \notin worker.missed, WorkerHas(e) PROVE WorkerHas(e)'
  BY <1>1, <1>2, <1>4 DEF WorkerHas
<1>5. ASSUME NEW e \in Entity, e \notin worker.missed, e \notin Coming
      PROVE  HeldIsNew(e)' /\ IndexFollows(e)'
  <2>1. /\ \A t \in Caller : ~Holder(t, e)'
        /\ \A i \in 1..Len(queue) : ~DocAt(i, e)'
    BY <1>1, <1>5, NotComing DEF Holder, DocAt
  <2>2. HeldIsNew(e)'
    BY <2>1 DEF HeldIsNew
  <2>3. \/ worker.docs[e] = rows[e]
        \/ Pending(e)
        \/ \E i \in 1..Len(queue) : DocAt(i, e) \/ RebuildAt(i)
    BY <1>1, <1>5 DEF SettledInductive, Follows, CollectedFollows
  <2>4. Pending(e) => Pending(e)'
    BY <1>1 DEF Pending, Holder, HasRebuild
  <2>5. CASE worker.docs[e] = rows[e]
    <3>1. WorkerHas(e)'
      BY <1>1, <1>2, <2>5 DEF WorkerHas
    <3> QED
      BY <1>1, <2>1, <2>2, <3>1 DEF IndexFollows
  <2>6. ASSUME NEW i \in 1..Len(queue), DocAt(i, e) \/ RebuildAt(i) PROVE IndexFollows(e)'
    <3>1. RebuildAt(i)'
      BY <1>1, <1>5, <2>6, NotComing DEF RebuildAt
    <3>2. LastInQueue(i, e)'
      BY <1>1, <2>1, <3>1 DEF LastInQueue
    <3> QED
      BY <1>1, <3>2 DEF IndexFollows
  <2> QED
    BY <2>2, <2>3, <2>4, <2>5, <2>6 DEF IndexFollows
<1>6. \A e \in Entity \ stale' : e \notin worker.missed /\ (e \notin stale \/ e \notin Coming)
  BY <1>1
<1> QED
  BY <1>1, <1>2, <1>3, <1>4, <1>5, <1>6, WorkerStepFollows

LEMMA ApplyFollows ==
  ASSUME TypeOK, SettledInductive, CommitApply
  PROVE  SettledInductive'
<1>1. /\ worker.at = "commit" /\ index' = Indexed(worker.cmd.docs, index)
      /\ worker' = [worker EXCEPT !.at = "finish"]
      /\ UNCHANGED <<rows, queue, caller, stale>>
  BY DEF CommitApply
<1>2. worker'.at = "finish" /\ worker'.by = worker.by /\ worker'.missed = worker.missed
  BY <1>1 DEF TypeOK, WorkerState
<1>3. \A e : CollectedFollows(e)'
  BY <1>2 DEF CollectedFollows
<1>4. \A e \in Entity :
        index'[e] = IF e \in DOMAIN worker.cmd.docs THEN worker.cmd.docs[e] ELSE index[e]
  <2>1. /\ DOMAIN Indexed(worker.cmd.docs, index) = DOMAIN worker.cmd.docs \cup DOMAIN index
        /\ \A x \in DOMAIN worker.cmd.docs \cup DOMAIN index :
             Indexed(worker.cmd.docs, index)[x] = IF x \in DOMAIN worker.cmd.docs THEN worker.cmd.docs[x] ELSE index[x]
    BY DEF Indexed
  <2> QED
    BY <1>1, <2>1 DEF TypeOK
<1>5. \A e \in Entity : WorkerHas(e) => WorkerHas(e)'
  BY <1>1, <1>2, <1>4 DEF WorkerHas
<1> QED
  BY <1>1, <1>2, <1>3, <1>5, WorkerStepFollows

LEMMA FailureFollows ==
  ASSUME TypeOK, SettledInductive, CommitFails
  PROVE  SettledInductive'
<1>1. /\ worker.at \in {"collect", "commit"}
      /\ worker' = [worker EXCEPT !.at = "finish", !.ok = FALSE]
      /\ stale' = stale \cup (IF worker.at = "collect" THEN Entity
                              ELSE DOMAIN worker.cmd.docs)
      /\ UNCHANGED <<rows, index, queue, caller>>
  BY DEF CommitFails, disk
<1>2. worker'.at = "finish" /\ worker'.by = worker.by /\ worker'.missed = worker.missed
  BY <1>1 DEF TypeOK, WorkerState
<1>3. \A e : CollectedFollows(e)'
  BY <1>2 DEF CollectedFollows
<1>4. \A e \in Entity \ stale' :
        e \notin stale /\ worker.at = "commit" /\ e \notin DOMAIN worker.cmd.docs
  BY <1>1
<1>5. \A e \in Entity \ stale' : WorkerHas(e) => WorkerHas(e)'
  BY <1>1, <1>2, <1>4 DEF WorkerHas
<1> QED
  BY <1>1, <1>2, <1>3, <1>4, <1>5, WorkerStepFollows

\* Callers that are answered held nothing.
LEMMA FinishFollows ==
  ASSUME TypeOK, SettledInductive, Finish
  PROVE  SettledInductive'
<1>1. /\ worker.at = "finish" /\ worker' = NoJob
      /\ Answer(worker.by, worker.ok)
      /\ UNCHANGED <<rows, index, queue, stale>>
  BY DEF Finish, disk
<1>2. worker'.at = "idle" /\ worker'.by = {} /\ worker'.missed = {}
  BY <1>1 DEF NoJob
<1>3. \A t \in Caller : t \notin worker.by => caller'[t] = caller[t]
  BY <1>1 DEF Answer
<1>4. \A t \in worker.by : t \in Caller /\ caller[t].at = "wait" /\ caller[t].cmd = Flush
  BY DEF SettledInductive, AskersWait, CallersRest, TypeOK, WorkerState
<1>5. ASSUME NEW t \in worker.by
      PROVE  caller'[t].at \in {"idle", "look"} /\ caller'[t].cmd = Flush
  <2>1. t \in Caller /\ caller[t] \in CallerState /\ caller[t].cmd = Flush
    BY <1>4 DEF TypeOK
  <2>2. Resting.at = "idle" /\ Resting.cmd = Flush
    BY DEF Resting
  <2>3. CASE caller[t].searching /\ worker.ok
    <3>1. caller'[t] = [caller[t] EXCEPT !.at = "look", !.waits = FALSE]
      BY <1>1, <2>1, <2>3 DEF Answer
    <3> QED
      BY <2>1, <3>1 DEF CallerState
  <2>4. CASE ~(caller[t].searching /\ worker.ok)
    BY <1>1, <2>1, <2>2, <2>4 DEF Answer
  <2> QED
    BY <2>3, <2>4
<1>6. CallersRest'
  BY <1>3, <1>5 DEF SettledInductive, CallersRest
<1>7. AskersWait'
  <2>1. \A i \in 1..Len(queue) : queue[i] \in Job
    BY DEF TypeOK
  <2>2. \A i \in 1..Len(queue) : queue[i].by \subseteq Caller
    BY <2>1 DEF Job
  <2> QED
    BY <1>1, <1>2, <1>3, <2>2 DEF SettledInductive, AskersWait
<1>8. DeadIsStale'
  BY <1>2 DEF DeadIsStale
<1>9. \A t \in Caller : caller'[t].cmd = caller[t].cmd
  BY <1>3, <1>4, <1>5
<1>10. \A e : CollectedFollows(e)'
  BY <1>2 DEF CollectedFollows
<1>11. \A e : \A t \in Caller : Holder(t, e)' <=> Holder(t, e)
  BY <1>9 DEF Holder
<1>12. \A t \in Caller : HasRebuild(t)' <=> HasRebuild(t)
  BY <1>9 DEF HasRebuild
<1>13. \A e : Pending(e) => Pending(e)'
  BY <1>11, <1>12 DEF Pending
<1>14. \A e : \A t \in Caller : Holder(t, e) => t \notin worker.by
  BY <1>4, FlushHoldsNothing
<1>15. ASSUME NEW e \in Entity \ stale PROVE HeldIsNew(e)' /\ IndexFollows(e)'
  <2>1. HeldIsNew(e) /\ IndexFollows(e)
    BY DEF SettledInductive, Follows
  <2>2. \A t \in Caller : Holder(t, e) => (HoldsNew(t, e) => HoldsNew(t, e)')
    BY <1>1, <1>3, <1>14 DEF HoldsNew
  <2>3. HeldIsNew(e)'
    BY <1>11, <2>1, <2>2 DEF HeldIsNew
  <2>4. WorkerHas(e) => WorkerHas(e)'
    BY <1>1, <1>2 DEF WorkerHas
  <2>5. \A i : DocAt(i, e)' <=> DocAt(i, e)
    BY <1>1 DEF DocAt
  <2>6. \A i : LastInQueue(i, e) => LastInQueue(i, e)'
    BY <1>1, <2>5 DEF LastInQueue, RebuildAt, NewAt
  <2> QED
    BY <1>1, <1>13, <2>1, <2>3, <2>4, <2>5, <2>6 DEF IndexFollows
<1>16. Follows'
  BY <1>1, <1>10, <1>15 DEF Follows
<1> QED
  BY <1>6, <1>7, <1>8, <1>16 DEF SettledInductive

LEMMA DeathFollows ==
  ASSUME TypeOK, SettledInductive, WorkerDies
  PROVE  SettledInductive'
<1>1. /\ worker' = [NoJob EXCEPT !.at = "dead"] /\ queue' = <<>> /\ stale' = Entity
      /\ Answer({t \in Caller : caller[t].at = "wait"}, FALSE)
  BY DEF WorkerDies
<1>2. worker'.at = "dead" /\ worker'.by = {} /\ worker'.missed = {} /\ Len(queue') = 0
  BY <1>1 DEF NoJob
<1>3. \A t \in Caller : caller'[t] = IF caller[t].at = "wait" THEN Resting ELSE caller[t]
  BY <1>1 DEF Answer
<1>4. Resting.at = "idle" /\ Resting.cmd = Flush
  BY DEF Resting
<1>5. CallersRest'
  BY <1>3, <1>4 DEF SettledInductive, CallersRest
<1>6. AskersWait'
  BY <1>2 DEF AskersWait
<1>7. DeadIsStale'
  BY <1>1, <1>2 DEF DeadIsStale
<1>8. Follows'
  BY <1>1, <1>2 DEF Follows, CollectedFollows
<1> QED
  BY <1>5, <1>6, <1>7, <1>8 DEF SettledInductive

\* A crash that cuts off a rebuild makes everything stale; any other only
\* what was on its way, and the index shows the rest.
LEMMA CrashFollows ==
  ASSUME TypeOK, SettledInductive, Crash
  PROVE  SettledInductive'
<1>1. /\ queue' = <<>> /\ worker' = NoJob /\ caller' = [t \in Caller |-> Resting]
      /\ UNCHANGED <<rows, index>>
  BY DEF Crash, disk
<1>2. worker'.at = "idle" /\ worker'.by = {} /\ worker'.missed = {} /\ Len(queue') = 0
  BY <1>1 DEF NoJob
<1>3. \A t \in Caller : caller'[t].at = "idle" /\ caller'[t].cmd = Flush
  BY <1>1 DEF Resting
<1>4. CallersRest'
  BY <1>3 DEF CallersRest
<1>5. AskersWait'
  BY <1>2 DEF AskersWait
<1>6. DeadIsStale'
  BY <1>2 DEF DeadIsStale
<1>7. ASSUME NEW e \in Entity \ stale' PROVE HeldIsNew(e)' /\ IndexFollows(e)'
  <2>1. /\ worker.at \notin {"collect", "dead"}
        /\ \A i \in 1..Len(queue) : ~RebuildAt(i)
        /\ \A t \in Caller : ~HasRebuild(t)
        /\ e \notin stale /\ e \notin Coming
    BY DEF Crash, RebuildAt, HasRebuild
  <2>2. /\ \A t \in Caller : ~Holder(t, e)
        /\ \A i \in 1..Len(queue) : ~DocAt(i, e)
        /\ e \notin DOMAIN worker.cmd.docs
    BY <2>1, NotComing
  <2>3. IndexFollows(e)
    BY <2>1 DEF SettledInductive, Follows
  <2>4. WorkerHas(e)
    BY <2>1, <2>2, <2>3 DEF IndexFollows, Pending, LastInQueue, NewAt
  <2>5. index[e] = rows[e]
    BY <2>1, <2>2, <2>4 DEF WorkerHas
  <2>6. WorkerHas(e)'
    BY <1>1, <1>2, <2>5 DEF WorkerHas
  <2>7. HeldIsNew(e)'
    BY <1>3 DEF HeldIsNew, Holder, Flush, Nothing
  <2>8. \A i \in 1..Len(queue') : ~DocAt(i, e)'
    BY <1>2
  <2> QED
    BY <2>6, <2>7, <2>8 DEF IndexFollows
<1>8. \A e : CollectedFollows(e)'
  BY <1>2 DEF CollectedFollows
<1>9. Follows'
  BY <1>7, <1>8 DEF Follows
<1> QED
  BY <1>4, <1>5, <1>6, <1>9 DEF SettledInductive

LEMMA SettledInit ==
  ASSUME Init
  PROVE  SettledInductive
<1>1. /\ queue = <<[cmd |-> Rebuild, by |-> {}]>> /\ worker = NoJob
      /\ caller = [t \in Caller |-> Resting]
  BY DEF Init
<1>2. Len(queue) = 1 /\ queue[1].cmd = Rebuild /\ queue[1].by = {}
  BY <1>1
<1>3. worker.at = "idle" /\ worker.by = {} /\ worker.missed = {}
  BY <1>1 DEF NoJob
<1>4. \A t \in Caller : caller[t].at = "idle" /\ caller[t].cmd = Flush
  BY <1>1 DEF Resting
<1>5. \A i \in 1..Len(queue) : i = 1
  BY <1>2
<1>6. CallersRest /\ AskersWait /\ DeadIsStale
  BY <1>2, <1>3, <1>4, <1>5 DEF CallersRest, AskersWait, DeadIsStale
<1>7. \A e : HeldIsNew(e) /\ CollectedFollows(e)
  BY <1>3, <1>4 DEF HeldIsNew, Holder, Flush, Nothing, CollectedFollows
<1>8. \A e : LastInQueue(1, e)
  BY <1>2, <1>5 DEF LastInQueue, RebuildAt, Rebuild
<1>9. 1 \in 1..Len(queue)
  BY <1>2
<1>10. \A e : IndexFollows(e)
  BY <1>8, <1>9 DEF IndexFollows
<1> QED
  BY <1>6, <1>7, <1>10 DEF SettledInductive, Follows

LEMMA SettledStutters ==
  ASSUME SettledInductive, UNCHANGED vars
  PROVE  SettledInductive'
<1>1. UNCHANGED <<rows, index, queue, worker, caller, stale>>
  BY DEF vars, disk
<1>2. \A e : Pending(e) => Pending(e)'
  BY <1>1 DEF Pending, Holder, HasRebuild
<1>3. \A e : /\ HeldIsNew(e) => HeldIsNew(e)'
             /\ IndexFollows(e) => IndexFollows(e)'
             /\ CollectedFollows(e) => CollectedFollows(e)'
  BY <1>1, <1>2, PendingStays DEF HeldIsNew, Holder, HoldsNew
<1> QED
  BY <1>1, <1>3 DEF SettledInductive, CallersRest, AskersWait, DeadIsStale,
                    Follows

LEMMA SettledStep ==
  ASSUME Inductive, Inductive', SettledInductive, [Next]_vars
  PROVE  SettledInductive'
<1>1. TypeOK /\ TypeOK'
  BY DEF Inductive
<1>2. ASSUME NEW t \in Caller, NewCall(t) PROVE SettledInductive'
  <2>1. CASE \E e \in Entity : \E others \in Beside(e) : Save(t, e, others)
    BY <1>1, <2>1, SaveFollows
  <2>2. CASE \E es \in SUBSET Entity \ {{}} : SaveUnsent(t, es)
    BY <1>1, <2>2, SaveUnsentFollows
  <2> QED
    BY <1>1, <1>2, <2>1, <2>2, RemoteApplyFollows, WipeFollows, AskingFollows DEF NewCall
<1>3. ASSUME NEW t \in Caller, CallerStep(t) PROVE SettledInductive'
  BY <1>1, <1>3, PreparingFollows, SendFollows, SendFailsFollows, AskingFollows DEF CallerStep
<1>4. CASE WorkerStep
  BY <1>1, <1>4, BeginFollows, CollectFollows, RebuildFollows, ApplyFollows, FinishFollows
     DEF WorkerStep
<1>7. ASSUME NEW t \in Caller, ReadBackFails(t) PROVE SettledInductive'
  BY <1>1, <1>7, ReadBackFailsFollows
<1>5. CASE CollectMisses \/ CommitFails \/ WorkerDies \/ Crash
  BY <1>1, <1>5, MissesFollows, FailureFollows, DeathFollows, CrashFollows
<1>6. CASE UNCHANGED vars
  BY <1>6, SettledStutters
<1> QED
  BY <1>2, <1>3, <1>4, <1>5, <1>6, <1>7 DEF Next

LEMMA SettledGivesMatch ==
  ASSUME SettledInductive
  PROVE  SettledIndexMatches
<1> SUFFICES ASSUME \A t \in Caller : caller[t].at = "idle",
                    queue = <<>>, worker.at = "idle",
                    NEW e \in Entity \ stale
             PROVE  index[e] = rows[e]
  BY DEF SettledIndexMatches
<1>1. \A t \in Caller : ~Holder(t, e) /\ ~HasRebuild(t)
  BY FlushHoldsNothing DEF SettledInductive, CallersRest
<1>2. IndexFollows(e)
  BY DEF SettledInductive, Follows
<1>3. WorkerHas(e)
  BY <1>1, <1>2 DEF IndexFollows, Pending
<1> QED
  BY <1>3 DEF WorkerHas

LEMMA SettledInductiveHolds == Spec => []SettledInductive
<1>1. Inductive /\ Inductive' /\ SettledInductive /\ [Next]_vars => SettledInductive'
  BY SettledStep
<1> QED
  BY <1>1, SettledInit, SearchInductive, PTL DEF Spec

\* Whatever order callers, the worker and crashes take: when nobody has
\* anything left to do the index shows every row, but for those that raced,
\* were changed without a command about them, failed, were cut off by a crash
\* or are left by a wipe, and that no later command or rebuild repaired.
THEOREM IndexSettlesOnRows == Spec => []SettledIndexMatches
BY SettledInductiveHolds, SettledGivesMatch, PTL

----------------------------------------------------------------------------
(* Why an answer comes after everything sent before the question           *)

\* Commands are numbered in the order they are sent, and a caller's command
\* comes after all it has to see.
Numbered ==
  /\ \A t \in Caller : caller[t].need <= sent
  /\ \A t \in worker.by : worker.at \in Working /\ caller[t].need < begun
  /\ \A i \in 1..Len(queue) : \A t \in queue[i].by : caller[t].need < begun + i

\* Whoever is to be answered is a caller that waits.
LEMMA Askers ==
  ASSUME TypeOK, SettledInductive
  PROVE  /\ \A t \in worker.by : t \in Caller /\ caller[t].at = "wait"
         /\ \A i \in 1..Len(queue) : \A t \in queue[i].by :
              t \in Caller /\ caller[t].at = "wait"
<1>1. worker.by \subseteq Caller /\ \A i \in 1..Len(queue) : queue[i] \in Job
  BY DEF TypeOK, WorkerState
<1>2. \A i \in 1..Len(queue) : queue[i].by \subseteq Caller
  BY <1>1 DEF Job
<1> QED
  BY <1>1, <1>2 DEF SettledInductive, AskersWait

\* A caller that does not wait moves, and the worker stays at what it does.
LEMMA AloneNumbered ==
  ASSUME TypeOK, SettledInductive, Numbered, NEW t \in Caller, caller[t].at # "wait",
         UNCHANGED <<queue, counts>>, worker'.at = worker.at, worker'.by = worker.by,
         \A u \in Caller : u # t => caller'[u] = caller[u],
         caller'[t].need <= sent
  PROVE  Numbered'
<1>1. UNCHANGED <<sent, begun>>
  BY DEF counts
<1>2. \A u \in worker.by : u \in Caller /\ u # t
  BY Askers
<1>3. \A i \in 1..Len(queue) : \A u \in queue[i].by : u \in Caller /\ u # t
  BY Askers
<1> QED
  BY <1>1, <1>2, <1>3 DEF Numbered

\* What a step of one caller leaves alone.
LEMMA OneCaller ==
  ASSUME TypeOK, NEW t \in Caller, NewCall(t) \/ CallerStep(t) \/ ReadBackFails(t)
  PROVE  /\ caller[t].at # "wait"
         /\ worker'.at = worker.at /\ worker'.by = worker.by
         /\ UNCHANGED <<begun, done>>
         /\ \A u \in Caller : u # t => caller'[u] = caller[u]
<1>1. ASSUME NEW es, LeftOut(es) PROVE worker'.at = worker.at /\ worker'.by = worker.by
  BY <1>1, LeftOutWorker
<1>2. ASSUME NEW e, NEW others, Save(t, e, others)
      PROVE  /\ caller[t].at # "wait" /\ LeftOut(others) /\ UNCHANGED <<begun, done>>
             /\ \A u \in Caller : u # t => caller'[u] = caller[u]
  BY <1>2 DEF Save, Enqueues, TypeOK, counts
<1>3. ASSUME NEW es, SaveUnsent(t, es)
      PROVE  /\ caller[t].at # "wait" /\ LeftOut(es) /\ UNCHANGED <<begun, done>>
             /\ \A u \in Caller : u # t => caller'[u] = caller[u]
  BY <1>3 DEF SaveUnsent, TypeOK, counts
<1>4. CASE ReadBackFails(t)
  <2>1. /\ caller[t].at # "wait" /\ LeftOut(DOMAIN caller[t].cmd.docs)
        /\ UNCHANGED <<begun, done>>
        /\ \A u \in Caller : u # t => caller'[u] = caller[u]
    BY <1>4 DEF ReadBackFails, TypeOK, counts
  <2> QED
    BY <1>1, <2>1
<1>5. CASE \/ \E e \in Entity : RemoteApply(t, e)
           \/ Wipe(t) \/ Await(t, Rebuild) \/ Await(t, Flush) \/ Search(t)
  BY <1>5 DEF RemoteApply, Wipe, Await, Search, Enqueues, TypeOK, counts
<1>6. CASE CallerStep(t)
  BY <1>6 DEF CallerStep, ReadBack, MarkQueued, Send, SendFails, Look, TypeOK, counts
<1> QED
  BY <1>1, <1>2, <1>3, <1>4, <1>5, <1>6 DEF NewCall

LEMMA CallNumbered ==
  ASSUME TypeOK, SettledInductive, Numbered, NEW t \in Caller,
         NewCall(t) \/ ReadBackFails(t)
  PROVE  Numbered'
<1>1. caller[t].at # "wait" /\ UNCHANGED <<queue, counts>>
  BY DEF NewCall, ReadBackFails, Save, SaveUnsent, RemoteApply, Wipe, Await, Search
<1>2. sent \in Nat /\ caller[t].need \in Nat /\ caller[t].need <= sent
  BY DEF TypeOK, CallerState, Numbered
<1>3. caller'[t].need \in {0, sent, caller[t].need}
  <2>1. ASSUME NEW at, NEW cmd, Enqueues(t, at, cmd) PROVE caller'[t].need = 0
    BY <2>1 DEF Enqueues, TypeOK, Resting
  <2>2. ASSUME NEW cmd, Await(t, cmd) PROVE caller'[t].need = sent
    BY <2>2 DEF Await, TypeOK, Resting
  <2>3. CASE Search(t)
    BY <2>3 DEF Search, TypeOK, Resting
  <2>4. CASE \E e \in Entity : \E others \in Beside(e) : Save(t, e, others)
    BY <2>1, <2>4 DEF Save
  <2>5. CASE \E e \in Entity : RemoteApply(t, e)
    BY <2>1, <2>5 DEF RemoteApply
  <2>6. CASE Wipe(t)
    BY <2>1, <2>6 DEF Wipe
  <2>7. CASE \E es \in SUBSET Entity \ {{}} : SaveUnsent(t, es)
    BY <2>7 DEF SaveUnsent
  <2>8. CASE ReadBackFails(t)
    BY <2>8 DEF ReadBackFails, TypeOK, Resting
  <2> QED
    BY <2>2, <2>3, <2>4, <2>5, <2>6, <2>7, <2>8 DEF NewCall
<1> QED
  BY <1>1, <1>2, <1>3, OneCaller, AloneNumbered

LEMMA CallGoesOnNumbered ==
  ASSUME TypeOK, SettledInductive, Numbered, NEW t \in Caller,
         ReadBack(t) \/ MarkQueued(t) \/ SendFails(t) \/ Look(t)
  PROVE  Numbered'
<1>1. UNCHANGED <<queue, worker, counts>>
  BY DEF ReadBack, MarkQueued, SendFails, Look
<1>2. caller[t] \in CallerState /\ sent \in Nat
  BY DEF TypeOK
<1>3. caller'[t].need \in {0, caller[t].need}
  <2>1. CASE ReadBack(t)
    BY <1>2, <2>1 DEF ReadBack, TypeOK, CallerState
  <2>2. CASE MarkQueued(t)
    BY <1>2, <2>2 DEF MarkQueued, TypeOK, CallerState
  <2>3. CASE SendFails(t) \/ Look(t)
    BY <2>3 DEF SendFails, Look, TypeOK, Resting
  <2> QED
    BY <2>1, <2>2, <2>3
<1> QED
  BY <1>1, <1>2, <1>3, OneCaller, AloneNumbered DEF Numbered, CallerStep

LEMMA SendNumbered ==
  ASSUME TypeOK, Counted, SettledInductive, Numbered, NEW t \in Caller, Send(t)
  PROVE  Numbered'
<1> DEFINE J == [cmd |-> caller[t].cmd, by |-> IF caller[t].waits THEN {t} ELSE {}]
<1>0. PICK n : n = Len(queue)
  OBVIOUS
<1>1. caller[t] \in CallerState /\ sent \in Nat /\ begun \in Nat
  BY DEF TypeOK
<1>2. J \in Job /\ J.by \subseteq {t}
  BY <1>1 DEF Job, CallerState
<1>3. /\ caller[t].at = "send" /\ worker.at # "dead" /\ queue' = Append(queue, J)
      /\ sent' = sent + 1 /\ UNCHANGED <<worker, begun>>
  BY DEF Send
<1> HIDE DEF J
<1>4. /\ n \in Nat /\ Len(queue') = n + 1
      /\ \A i \in 1..n : queue'[i] = queue[i]
      /\ queue'[n + 1] = J
  BY <1>0, <1>2, <1>3, SentElements
<1>5. \A u \in Caller : u # t => caller'[u] = caller[u]
  BY DEF Send, TypeOK
<1>6. caller'[t].need \in {0, caller[t].need} /\ caller[t].need \in Nat
  BY <1>1 DEF Send, TypeOK, Resting, CallerState
<1>7. sent = begun + n
  BY <1>0, <1>3 DEF Counted
<1>8. \A u \in Caller : caller[u].need \in Nat /\ caller[u].need <= sent
  BY DEF Numbered, TypeOK, CallerState
<1>9. caller'[t].need <= sent
  BY <1>1, <1>6, <1>8
<1>10. \A u \in Caller : caller'[u].need <= sent + 1
  <2> TAKE u \in Caller
  <2>1. CASE u = t
    BY <1>1, <1>6, <1>9, <2>1
  <2>2. CASE u # t
    BY <1>1, <1>5, <1>8, <2>2
  <2> QED
    BY <2>1, <2>2
<1>11. \A u \in worker.by : worker.at \in Working /\ caller'[u].need < begun
  BY <1>3, <1>5, Askers DEF Numbered
<1>12. \A i \in 1..n : \A u \in queue'[i].by : caller'[u].need < begun + i
  BY <1>0, <1>3, <1>4, <1>5, Askers DEF Numbered
<1>13. \A u \in J.by : caller'[u].need < begun + (n + 1)
  BY <1>1, <1>2, <1>4, <1>6, <1>7, <1>9
<1>14. \A i \in 1..(n + 1) : i = n + 1 \/ i \in 1..n
  BY <1>4
<1>15. \A i \in 1..(n + 1) : \A u \in queue'[i].by : caller'[u].need < begun + i
  BY <1>4, <1>12, <1>13, <1>14
<1> QED
  BY <1>3, <1>4, <1>10, <1>11, <1>15 DEF Numbered

LEMMA BeginNumbered ==
  ASSUME TypeOK, SettledInductive, Numbered, Begin
  PROVE  Numbered'
<1>0. PICK n : n = Len(queue)
  OBVIOUS
<1>1. /\ queue # <<>> /\ queue' = Tail(queue) /\ begun' = begun + 1 /\ begun \in Nat
      /\ UNCHANGED <<caller, sent>>
  BY DEF Begin, TypeOK
<1>2. /\ n \in Nat /\ n >= 1 /\ Len(queue') = n - 1
      /\ \A i \in 1..(n - 1) : queue'[i] = queue[i + 1]
  BY <1>0, <1>1, TakenElements
<1>3. worker'.by = queue[1].by /\ worker'.at \in Working
  BY BegunJob DEF Working
<1>4. 1 \in 1..n /\ \A i \in 1..(n - 1) : i + 1 \in 1..n
  BY <1>2
<1>5. \A t \in worker'.by : caller'[t].need < begun'
  BY <1>0, <1>1, <1>3, <1>4 DEF Numbered
<1>6. ASSUME NEW i \in 1..(n - 1), NEW t \in queue'[i].by
      PROVE  caller'[t].need < begun' + i
  <2>1. caller[t].need < begun + (i + 1)
    BY <1>0, <1>2, <1>4 DEF Numbered
  <2>2. begun + (i + 1) = begun' + i
    BY <1>1
  <2> QED
    BY <1>1, <2>1, <2>2
<1>7. \A t \in Caller : caller'[t].need <= sent'
  BY <1>1 DEF Numbered
<1> QED
  BY <1>2, <1>3, <1>5, <1>6, <1>7 DEF Numbered

LEMMA WorkNumbered ==
  ASSUME TypeOK, Numbered,
         \/ \E e \in Entity : Collect(e)
         \/ CollectMisses \/ CommitRebuild \/ CommitApply \/ CommitFails
  PROVE  Numbered'
<1>1. UNCHANGED <<queue, caller, sent, begun>>
  BY DEF Collect, CollectMisses, CommitRebuild, CommitApply, CommitFails, counts
<1>2. worker'.by = worker.by /\ worker'.at \in Working
  BY DEF Collect, CollectMisses, CommitRebuild, CommitApply, CommitFails, TypeOK,
         WorkerState, Working
<1> QED
  BY <1>1, <1>2 DEF Numbered

LEMMA FinishNumbered ==
  ASSUME TypeOK, SettledInductive, Numbered, Finish
  PROVE  Numbered'
<1>1. /\ worker' = NoJob /\ Answer(worker.by, worker.ok)
      /\ UNCHANGED <<queue, sent, begun>>
  BY DEF Finish
<1>2. worker'.by = {}
  BY <1>1 DEF NoJob
<1>3. \A t \in Caller : /\ caller'[t].need \in {0, caller[t].need}
                        /\ t \notin worker.by => caller'[t] = caller[t]
  BY <1>1 DEF Answer, TypeOK, CallerState, Resting
<1>4. \A t \in Caller : caller'[t].need <= sent
  BY <1>3 DEF Numbered, TypeOK
<1>5. \A i \in 1..Len(queue) : \A t \in queue[i].by : caller'[t] = caller[t]
  BY <1>3, Askers DEF SettledInductive, AskersWait
<1> QED
  BY <1>1, <1>2, <1>4, <1>5 DEF Numbered

LEMMA EndNumbered ==
  ASSUME TypeOK, Numbered, WorkerDies \/ Crash
  PROVE  Numbered'
<1>1. worker'.by = {} /\ Len(queue') = 0
  <2>1. queue' = <<>> /\ (worker' = NoJob \/ worker' = [NoJob EXCEPT !.at = "dead"])
    BY DEF WorkerDies, Crash
  <2> QED
    BY <2>1 DEF NoJob
<1>2. \A t \in Caller : caller'[t].need <= sent'
  <2>1. CASE WorkerDies
    <3>1. \A t \in Caller : caller'[t].need \in {0, caller[t].need}
      BY <2>1 DEF WorkerDies, Answer, TypeOK, Resting
    <3> QED
      BY <2>1, <3>1 DEF WorkerDies, counts, Numbered, TypeOK
  <2>2. CASE Crash
    BY <2>2 DEF Crash, Resting
  <2> QED
    BY <2>1, <2>2
<1> QED
  BY <1>1, <1>2 DEF Numbered

LEMMA NumberedStep ==
  ASSUME Inductive, SettledInductive, Numbered, [Next]_vars
  PROVE  Numbered'
<1>1. TypeOK /\ Counted
  BY DEF Inductive
<1>2. ASSUME NEW t \in Caller, CallerStep(t) PROVE Numbered'
  BY <1>1, <1>2, CallGoesOnNumbered, SendNumbered DEF CallerStep
<1>3. CASE WorkerStep
  BY <1>1, <1>3, BeginNumbered, WorkNumbered, FinishNumbered DEF WorkerStep
<1>4. CASE UNCHANGED vars
  BY <1>4 DEF vars, counts, Numbered
<1> QED
  BY <1>1, <1>2, <1>3, <1>4, CallNumbered, WorkNumbered, EndNumbered DEF Next

LEMMA NumberedInit ==
  ASSUME Init
  PROVE  Numbered
<1>1. /\ queue = <<[cmd |-> Rebuild, by |-> {}]>> /\ worker = NoJob /\ sent = 1
      /\ caller = [t \in Caller |-> Resting]
  BY DEF Init
<1>2. Len(queue) = 1 /\ queue[1].by = {} /\ worker.by = {}
  BY <1>1 DEF NoJob
<1>3. \A t \in Caller : caller[t].need = 0
  BY <1>1 DEF Resting
<1>4. \A i \in 1..Len(queue) : i = 1
  BY <1>2
<1> QED
  BY <1>1, <1>2, <1>3, <1>4 DEF Numbered

\* Only the worker's answer ends a wait, and it answers in turn.
LEMMA WaitEnds ==
  ASSUME Inductive, Numbered, [Next]_vars, NEW t \in Caller,
         caller[t].at = "wait", caller'[t].at # "wait",
         worker'.at # "dead", crashes' = crashes
  PROVE  done' > caller[t].need
<1>1. TypeOK /\ Counted
  BY DEF Inductive
<1>2. crashes \in Nat
  BY <1>1, SearchAssumption DEF TypeOK
<1>3. ~WorkerDies /\ ~Crash
  <2>1. WorkerDies => worker'.at = "dead"
    BY DEF WorkerDies, NoJob
  <2>2. Crash => crashes' = crashes + 1
    BY DEF Crash
  <2> QED
    BY <1>2, <2>1, <2>2
<1>4. ASSUME NEW u \in Caller, NewCall(u) \/ CallerStep(u) \/ ReadBackFails(u)
      PROVE  FALSE
  BY <1>1, <1>4, OneCaller
<1>5. Finish
  <2>1. caller' # caller
    OBVIOUS
  <2> QED
    BY <1>3, <1>4, <2>1 DEF Next, WorkerStep, Begin, Collect, CommitRebuild, CommitApply,
                            CollectMisses, CommitFails, vars
<1>6. t \in worker.by
  BY <1>5 DEF Finish, Answer
<1>7. caller[t].need < begun
  BY <1>6 DEF Numbered
<1>8. begun = done + 1
  BY <1>1, <1>5 DEF Counted, Finish, Working
<1> QED
  BY <1>5, <1>7, <1>8 DEF Finish

\* A caller that waited for the worker (rebuild_search_index,
\* flush_search_index, a search while work is in progress) gets its answer
\* only after everything sent before it asked has been worked off.
THEOREM AnswersComeInTurn == Spec => WaitingSeesAll
<1>1. Init => Numbered
  BY NumberedInit
<1>2. Inductive /\ SettledInductive /\ Numbered /\ [Next]_vars => Numbered'
  BY NumberedStep
<1>3. Inductive /\ Numbered /\ [Next]_vars =>
        [\A t \in Caller :
           /\ caller[t].at = "wait"
           /\ caller'[t].at # "wait"
           /\ worker'.at # "dead"
           /\ crashes' = crashes
           => done' > caller[t].need]_vars
  BY WaitEnds
<1> QED
  BY <1>1, <1>2, <1>3, SearchInductive, SettledInductiveHolds, PTL
     DEF Spec, WaitingSeesAll

=============================================================================
