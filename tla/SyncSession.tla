---------------------------- MODULE SyncSession ----------------------------
(***************************************************************************)
(* The rounds that bring the dirty documents of a device and the server    *)
(* together (remi-client-sdk/src/things_sync/session.rs, crdt_sync.rs).    *)
(* The documents of a batch share one call per round; when the batch fails *)
(* anywhere, each document is synchronised again on its own, starting from *)
(* the bytes of its row.  DocumentSync takes such a pass to be one         *)
(* exchange that either fails or converges; this module is about what a    *)
(* pass that reports success has done.                                     *)
(*                                                                         *)
(* What the server remembers of this device between calls is not in the    *)
(* repository, so it may be anything automerge offers: the live sync       *)
(* state ("kept"), its encoding ("encoded") or nothing ("none").           *)
(***************************************************************************)
EXTENDS AutomergeSync, Naturals

CONSTANTS
  Doc,          \* the documents of a batch
  Mine,         \* [Doc -> changes this device may make]
  Others,       \* [Doc -> changes other devices may make]
  Common,       \* [Doc -> changes both sides hold at the start]
  Wrong,        \* the sets of changes that filters may claim wrongly
  MaxRounds,    \* MAX_ROUNDS
  MaxStall,     \* MAX_STALL_ROUNDS
  MaxPasses,    \* bound on passes
  MaxFaults     \* bound on failed calls

\* A single round could only ask: a session takes two to exchange changes.
ASSUME SessionAssumption ==
  /\ MaxRounds \in Nat \ {0, 1}
  /\ MaxStall \in Nat \ {0}
  /\ MaxPasses \in Nat
  /\ MaxFaults \in Nat

VARIABLES
  rows,     \* [Doc -> [doc, shared, dirty]]: crdt_documents on this device
  server,   \* [Doc -> [doc, state]]: the server's document and sync state
  memory,   \* what the server remembers of this device between calls
  wrong,    \* the changes that every filter claims wrongly
  phase,    \* where the pass is
  queue,    \* documents to be synchronised on their own
  sess,     \* sessions of the running loop, by document
  round,    \* its round
  outputs,  \* [Doc -> what the pass has for the row]
  seen,     \* (auxiliary) the server's documents when their loop began
  passes,   \* passes so far
  faults    \* failed calls so far

vars == <<rows, server, memory, wrong, phase, queue, sess, round, outputs,
          seen, passes, faults>>

Dirty == {d \in Doc : rows[d].dirty}

Opened(d) ==
  [doc |-> rows[d].doc, state |-> Connected(rows[d].shared),
   outgoing |-> NoMessage, pending |-> NoMessage,
   prevOut |-> NoMessage, prevIn |-> NoMessage, stall |-> 0, finished |-> FALSE]

NoSessions == [d \in {} |-> Opened(d)]

\* Mutant: a failed document counts as an exchanged one.
FailedAsSuccess == [ok |-> TRUE, doc |-> {}, shared |-> {}]

Failed == [ok |-> FALSE, doc |-> {}, shared |-> {}]

Init ==
  /\ rows = [d \in Doc |-> [doc |-> Common[d], shared |-> Common[d], dirty |-> FALSE]]
  /\ server = [d \in Doc |-> [doc |-> Common[d], state |-> Connected({})]]
  /\ memory \in {"kept", "encoded", "none"}
  /\ wrong \in Wrong
  /\ phase = "idle"
  /\ queue = {}
  /\ sess = NoSessions
  /\ round = 0
  /\ outputs = [d \in {} |-> Failed]
  /\ seen = [d \in Doc |-> {}]
  /\ passes = 0
  /\ faults = 0

----------------------------------------------------------------------------
(* One loop of rounds, over a batch or over one document                   *)

Applied(s) ==
  IF s.pending.real
  THEN LET r == Receive(s.doc, s.state, s.pending)
       IN  [s EXCEPT !.doc = r.doc, !.state = r.state, !.pending = NoMessage]
  ELSE s

\* Mutant: the replies wait until the loop has ended.
TurnBeforeReplies(s) ==
  LET g == Generate(s.doc, s.state, wrong)
  IN  IF s.finished THEN s
      ELSE [s EXCEPT !.state = g.state, !.outgoing = g.out, !.finished = ~g.out.real]

\* The beginning of a round: take in the replies, then speak or be done.
Turn(s) ==
  LET a == Applied(s)
      g == Generate(a.doc, a.state, wrong)
  IN  IF s.finished THEN s
      ELSE [a EXCEPT !.state = g.state, !.outgoing = g.out, !.finished = ~g.out.real]

\* Mutant: rounds that carry the same changes count as repeated.
StalledByChanges(s, reply) == s.outgoing.changes = s.prevOut.changes

\* The end of a round: keep the replies, or give up on a repeated round.
Stalled(s, reply) == s.outgoing = s.prevOut /\ reply = s.prevIn

Answered(s, reply) ==
  LET stall == IF Stalled(s, reply) THEN s.stall + 1 ELSE 0
      kept == [s EXCEPT !.pending = reply, !.prevOut = s.outgoing, !.prevIn = reply,
                        !.stall = stall, !.outgoing = NoMessage]
  IN  IF stall >= MaxStall
      THEN [Applied(kept) EXCEPT !.finished = TRUE]
      ELSE kept

Asking == {d \in DOMAIN sess : sess[d].outgoing.real}

Open(docs) ==
  /\ sess' = [d \in docs |-> Opened(d)]
  /\ round' = 0
  /\ seen' = [d \in Doc |-> IF d \in docs THEN server[d].doc ELSE seen[d]]

\* What a loop has for each of its documents, whichever way it ended.
Output(s) ==
  LET a == Applied(s)
  IN  [ok |-> TRUE, doc |-> a.doc, shared |-> a.state.shared]

\* One reply of the server, with the sync state it will remember.
Serve(d) ==
  LET r == Receive(server[d].doc, server[d].state, sess[d].outgoing)
      g == Generate(r.doc, r.state, wrong)
  IN  [doc |-> r.doc, state |-> g.state, reply |-> g.out]

Remembered(state) ==
  CASE memory = "kept" -> state
    [] memory = "encoded" -> Connected(state.shared)
    [] memory = "none" -> Connected({})

----------------------------------------------------------------------------
(* A pass over the dirty documents                                         *)

StartBatch ==
  /\ phase = "idle"
  /\ passes < MaxPasses
  /\ Dirty # {}
  /\ phase' = "round"
  /\ queue' = {}
  /\ outputs' = [d \in {} |-> Failed]
  /\ Open(Dirty)
  /\ UNCHANGED <<rows, server, memory, wrong, passes, faults>>

\* A round begins: every unfinished session takes its turn.  The loop ends
\* when all are finished, or with its last round.
Prepare ==
  /\ phase = "round"
  /\ sess' = IF round < MaxRounds THEN [d \in DOMAIN sess |-> Turn(sess[d])] ELSE sess
  /\ IF round = MaxRounds \/ \A d \in DOMAIN sess : sess'[d].finished
     THEN phase' = "finish" /\ round' = round
     ELSE phase' = "sent" /\ round' = round + 1
  /\ UNCHANGED <<rows, server, memory, wrong, queue, outputs, seen, passes, faults>>

\* The server takes the call in; the replies are on their way.
ServerAnswers ==
  /\ phase = "sent"
  /\ phase' = "answered"
  /\ server' = [d \in Doc |->
       IF d \in Asking THEN [doc |-> Serve(d).doc, state |-> Remembered(Serve(d).state)]
       ELSE server[d]]
  /\ sess' = [d \in DOMAIN sess |->
       IF d \in Asking THEN [sess[d] EXCEPT !.pending = Serve(d).reply] ELSE sess[d]]
  /\ UNCHANGED <<rows, memory, wrong, queue, round, outputs, seen, passes, faults>>

Accept ==
  /\ phase = "answered"
  /\ phase' = "round"
  /\ sess' = [d \in DOMAIN sess |->
       IF d \in Asking THEN Answered([sess[d] EXCEPT !.pending = NoMessage], sess[d].pending)
       ELSE sess[d]]
  /\ UNCHANGED <<rows, server, memory, wrong, queue, round, outputs, seen, passes, faults>>

Batch == queue = {}

\* Go on with one of the documents of the queue (the rows of a batch come in
\* no particular order), or with the saving.
NextInQueue(rest) ==
  /\ queue' = rest
  /\ \/ /\ rest = {}
        /\ phase' = "save"
        /\ sess' = NoSessions
        /\ round' = 0
        /\ seen' = seen
     \/ /\ phase' = "round"
        /\ \E d \in rest : Open({d})

\* The outputs, those of the running loop among them.
With(new) == [d \in DOMAIN sess \cup DOMAIN outputs |->
                IF d \in DOMAIN sess THEN new[d] ELSE outputs[d]]

\* The call fails before or after the server took it in, or the reply
\* misses a document or brings one too many.
CallFails ==
  /\ phase \in {"sent", "answered"}
  /\ faults < MaxFaults
  /\ faults' = faults + 1
  /\ IF Batch
     THEN /\ outputs' = outputs
          /\ NextInQueue(DOMAIN sess)
     ELSE /\ outputs' = With([d \in DOMAIN sess |-> Failed])
          /\ NextInQueue(queue \ DOMAIN sess)
  /\ UNCHANGED <<rows, server, memory, wrong, passes>>

Finish ==
  /\ phase = "finish"
  /\ outputs' = With([d \in DOMAIN sess |-> Output(sess[d])])
  /\ NextInQueue(queue \ DOMAIN sess)
  /\ UNCHANGED <<rows, server, memory, wrong, passes, faults>>

\* Each row that succeeded is saved clean; a failed one stays as it is.
Save ==
  /\ phase = "save"
  /\ phase' = "idle"
  /\ rows' = [d \in Doc |->
       IF d \in DOMAIN outputs /\ outputs[d].ok
       THEN [doc |-> outputs[d].doc, shared |-> outputs[d].shared, dirty |-> FALSE]
       ELSE rows[d]]
  /\ outputs' = [d \in {} |-> Failed]
  /\ passes' = passes + 1
  /\ UNCHANGED <<server, memory, wrong, queue, sess, round, seen, faults>>

\* The user's edit marks the row dirty.  Edits during a pass are the matter
\* of DocumentSync.
Edit(d) ==
  /\ phase = "idle"
  /\ \E c \in Mine[d] \ rows[d].doc :
       rows' = [rows EXCEPT ![d].doc = @ \cup {c}, ![d].dirty = TRUE]
  /\ UNCHANGED <<server, memory, wrong, phase, queue, sess, round, outputs, seen,
                 passes, faults>>

\* Another device's change reaches the server.
OthersPush(d) ==
  \E c \in Others[d] \ server[d].doc :
    /\ server' = [server EXCEPT ![d].doc = @ \cup {c}]
    /\ UNCHANGED <<rows, memory, wrong, phase, queue, sess, round, outputs, seen,
                   passes, faults>>

\* Nothing more to do: the documents are clean or the passes used up.
Rest ==
  /\ phase = "idle"
  /\ passes = MaxPasses \/ Dirty = {}
  /\ UNCHANGED vars

Next ==
  \/ StartBatch \/ Prepare \/ ServerAnswers \/ Accept
  \/ CallFails \/ Finish \/ Save \/ Rest
  \/ \E d \in Doc : Edit(d) \/ OthersPush(d)

Spec == Init /\ [][Next]_vars

----------------------------------------------------------------------------
(* Properties                                                              *)

Change == UNION {Mine[d] \cup Others[d] \cup Common[d] : d \in Doc}
Filter == [last : SUBSET Change, claims : SUBSET (Change \cup UNION Wrong)]

Message ==
  [heads : SUBSET Change, need : SUBSET Change, have : SUBSET Filter,
   changes : SUBSET Change, real : BOOLEAN]

SyncState ==
  [shared : SUBSET Change, lastSent : SUBSET Change, theirs : Message,
   sent : SUBSET Change, inFlight : BOOLEAN, responded : BOOLEAN]

Session ==
  [doc : SUBSET Change, state : SyncState, outgoing : Message, pending : Message,
   prevOut : Message, prevIn : Message, stall : Nat, finished : BOOLEAN]

Outcome == [ok : BOOLEAN, doc : SUBSET Change, shared : SUBSET Change]

TypeOK ==
  /\ rows \in [Doc -> [doc : SUBSET Change, shared : SUBSET Change, dirty : BOOLEAN]]
  /\ server \in [Doc -> [doc : SUBSET Change, state : SyncState]]
  /\ memory \in {"kept", "encoded", "none"}
  /\ wrong \in Wrong
  /\ phase \in {"idle", "round", "sent", "answered", "finish", "save"}
  /\ queue \subseteq Doc
  /\ DOMAIN sess \subseteq Doc /\ sess \in [DOMAIN sess -> Session]
  /\ round \in 0..MaxRounds
  /\ DOMAIN outputs \subseteq Doc /\ outputs \in [DOMAIN outputs -> Outcome]
  /\ seen \in [Doc -> SUBSET Change]
  /\ passes \in Nat
  /\ faults \in 0..MaxFaults

(* A session that reports success has brought the changes the server had   *)
(* when it began, unless the server holds back what it believes it sent in *)
(* a reply that never arrived.                                             *)
SuccessMeansPulled ==
  memory # "kept" => \A d \in Doc : ~rows[d].dirty => seen[d] \subseteq rows[d].doc

(* The bounds on rounds never cut a session short that would have agreed:  *)
(* a server that holds nothing back is never answered by giving up.        *)
NeverCutShort ==
  memory # "kept" =>
    /\ round < MaxRounds
    /\ \A d \in DOMAIN sess : sess[d].stall < MaxStall

(* For each document the pass is the exchange that DocumentSync takes it   *)
(* to be.  Whatever ended the rounds - agreement, a stall or the last of   *)
(* them - a row is saved clean only once its changes are on the server;    *)
(* nothing appears in a document that neither side had, and a failed       *)
(* session changes no row.                                                 *)
Exchanged(d) == INSTANCE ExchangedDocument WITH
  Mine <- Mine[d], Others <- Others[d],
  mine <- rows[d].doc, theirs <- server[d].doc, clean <- ~rows[d].dirty

ImplementsExchange ==
  /\ \A d \in Doc : Exchanged(d)!Init
  /\ [][\A d \in Doc : Exchanged(d)!Next \/ UNCHANGED Exchanged(d)!vars]_vars
=============================================================================
