------------------------- MODULE SyncSession_proofs -------------------------
(***************************************************************************)
(* Proofs about SyncSession: for every batch of documents, every filter    *)
(* that errs and every server, a pass is the exchange that DocumentSync    *)
(* takes it to be.                                                         *)
(***************************************************************************)
EXTENDS SyncSession, TLAPS

----------------------------------------------------------------------------
(* Why success means exchanged                                             *)

Loop == phase \in {"round", "sent", "answered", "finish"}

\* The documents of a pass are dirty, and each is synchronised in one place.
PassOK ==
  /\ DOMAIN sess \cup DOMAIN outputs \cup queue \subseteq Dirty
  /\ queue \cap DOMAIN outputs = {}
  /\ Loop => /\ queue = {} => DOMAIN outputs = {}
             /\ queue # {} => DOMAIN sess \subseteq queue
  /\ ~Loop => DOMAIN sess = {} /\ queue = {}
  /\ phase = "idle" => DOMAIN outputs = {}

\* What a session holds came from the row or the server, and what is on its
\* way from where it was sent.
SessionOK(d) ==
  LET s == sess[d] IN
  /\ rows[d].doc \subseteq s.doc
  /\ s.doc \subseteq rows[d].doc \cup server[d].doc
  /\ s.pending.changes \subseteq server[d].doc
  /\ ~s.pending.real => s.pending.changes = {}
  /\ s.outgoing.changes \subseteq s.doc
  /\ phase = "round" => ~s.outgoing.real
  /\ phase = "sent" /\ s.outgoing.real => ~s.pending.real

Pushed(d) == rows[d].doc \subseteq server[d].doc
Pulled(d) == seen[d] \subseteq sess[d].doc \cup sess[d].pending.changes

Fresh(s) ==
  /\ ~s.finished /\ ~s.pending.real /\ ~s.prevOut.real /\ s.stall = 0
  /\ ~s.state.responded /\ s.state.sent = {} /\ s.state.theirs = NoMessage

\* The server has asked by name for what it lacks of the row.
AskedFor(d) ==
  LET s == sess[d] IN
  /\ s.pending.real /\ s.state.sent = {} /\ ~s.prevOut.real
  /\ rows[d].doc \ server[d].doc \subseteq s.pending.need

\* Two calls bring the changes of the row to the server.
Pushing(d) ==
  LET s == sess[d] IN
  /\ ~s.finished
  /\ \/ phase = "round" /\ round = 0 /\ Fresh(s)
     \/ phase = "sent" /\ round = 1 /\ s.outgoing.real /\ s.state.sent = {}
        /\ ~s.prevOut.real /\ rows[d].doc \subseteq s.outgoing.heads
     \/ phase = "answered" /\ round = 1 /\ s.outgoing.real /\ AskedFor(d)
     \/ phase = "round" /\ round = 1 /\ s.pending.real /\ s.state.sent = {}
        /\ rows[d].doc \ server[d].doc \subseteq s.pending.need
     \/ phase = "sent" /\ round = 2 /\ s.outgoing.real
        /\ rows[d].doc \ server[d].doc \subseteq s.outgoing.changes

\* And two calls bring what the server had when they began.
Pulling(d) ==
  LET s == sess[d] IN
  /\ ~s.finished
  /\ \/ phase = "round" /\ round = 0 /\ Fresh(s)
     \/ phase = "sent" /\ round = 1 /\ s.outgoing.real /\ ~s.prevOut.real
     \/ phase = "answered" /\ round = 1 /\ s.outgoing.real /\ ~s.prevOut.real
        /\ s.pending.real /\ seen[d] \subseteq s.pending.heads
     \/ phase = "round" /\ round = 1
        /\ s.pending.real /\ seen[d] \subseteq s.pending.heads
     \/ phase = "sent" /\ round = 2 /\ s.outgoing.real
        /\ seen[d] \ s.doc \subseteq s.outgoing.need

\* A server that keeps the encoded state, or none, begins every call anew.
ServerForgets ==
  memory # "kept" =>
    \A d \in Doc : server[d].state.sent = {} /\ ~server[d].state.responded

Sessions ==
  \A d \in DOMAIN sess :
    /\ SessionOK(d)
    /\ Pushed(d) \/ Pushing(d)
    /\ memory # "kept" => seen[d] \subseteq server[d].doc /\ (Pulled(d) \/ Pulling(d))

\* An output that succeeded holds what the row has, and the server has it all.
Exchanges(d, output) ==
  output.ok =>
    /\ rows[d].doc \subseteq output.doc
    /\ output.doc \subseteq server[d].doc
    /\ memory # "kept" => seen[d] \subseteq output.doc

OutputsOK == \A d \in DOMAIN outputs : Exchanges(d, outputs[d])

\* The inductive invariant.
ExchangeInductive ==
  TypeOK /\ ServerForgets /\ PassOK /\ Sessions /\ OutputsOK /\ SuccessMeansPulled

----------------------------------------------------------------------------
(* The sync protocol                                                       *)

LEMMA NoMessageTyped == NoMessage \in Message
BY DEF NoMessage, Message

LEMMA ConnectedTyped ==
  ASSUME NEW shared \in SUBSET Change
  PROVE  Connected(shared) \in SyncState
BY NoMessageTyped DEF Connected, SyncState

\* Whoever has not answered yet speaks.
LEMMA SilentResponded ==
  ASSUME NEW doc, NEW s, NEW w, ~Generate(doc, s, w).out.real
  PROVE  s.responded
BY DEF Generate

\* And whoever has just received is silent only in agreement.
LEMMA SilentAgrees ==
  ASSUME NEW doc, NEW s, NEW w, ~Generate(doc, s, w).out.real, ~s.inFlight
  PROVE  s.theirs.heads = doc /\ ToSend(doc, s.theirs) \ s.sent = {}
BY DEF Generate

LEMMA SilentCarriesNothing ==
  ASSUME NEW doc, NEW s, NEW w, ~Generate(doc, s, w).out.real
  PROVE  Generate(doc, s, w).out.changes = {}
BY DEF Generate, NoMessage

LEMMA SpokenHeads ==
  ASSUME NEW doc, NEW s, NEW w, Generate(doc, s, w).out.real
  PROVE  Generate(doc, s, w).out.heads = doc
BY DEF Generate, NoMessage

\* A peer asks for what the other told it of and it lacks.
LEMMA SpokenNeed ==
  ASSUME NEW doc, NEW s, NEW w, Generate(doc, s, w).out.real
  PROVE  Generate(doc, s, w).out.need = s.theirs.heads \ doc
BY DEF Generate, NoMessage

LEMMA SpokenChanges ==
  ASSUME NEW doc, NEW s, NEW w, Generate(doc, s, w).out.real
  PROVE  Generate(doc, s, w).out.changes = ToSend(doc, s.theirs) \ s.sent
BY DEF Generate, NoMessage

LEMMA SentFromDocument ==
  ASSUME NEW doc, NEW s, NEW w
  PROVE  Generate(doc, s, w).out.changes \subseteq doc
<1>1. ToSend(doc, s.theirs) \subseteq doc
  BY DEF ToSend
<1> QED
  BY <1>1, SilentCarriesNothing, SpokenChanges

\* What is asked for by name is sent, unless it was before.
LEMMA NamedAreSent ==
  ASSUME NEW doc, NEW theirs
  PROVE  theirs.need \cap doc \subseteq ToSend(doc, theirs)
BY DEF ToSend

LEMMA NothingToSendYet ==
  ASSUME NEW doc
  PROVE  ToSend(doc, NoMessage) = {}
BY DEF ToSend, NoMessage

LEMMA SentGrows ==
  ASSUME NEW doc, NEW s \in SyncState, NEW w, ToSend(doc, s.theirs) = {}
  PROVE  Generate(doc, s, w).state.sent = s.sent
BY DEF Generate, SyncState

LEMMA GenerateTyped ==
  ASSUME NEW doc \in SUBSET Change, NEW s \in SyncState, NEW w \in Wrong
  PROVE  Generate(doc, s, w).state \in SyncState /\ Generate(doc, s, w).out \in Message
<1> DEFINE changes == ToSend(doc, s.theirs) \ s.sent
           filter == [last |-> s.shared, claims |-> Claimed(doc \ s.shared, w)]
           message == [heads |-> doc, need |-> s.theirs.heads \ doc,
                       have |-> {filter}, changes |-> changes, real |-> TRUE]
           next == [s EXCEPT !.responded = TRUE, !.lastSent = doc,
                             !.sent = @ \cup changes, !.inFlight = TRUE]
<1>1. changes \subseteq Change
  BY DEF ToSend
<1>2. filter \in Filter
  BY DEF Filter, Claimed, SyncState
<1>3. s.theirs.heads \ doc \in SUBSET Change
  BY DEF SyncState, Message
<1> HIDE DEF changes, filter
<1>4. message \in Message
  BY <1>1, <1>2, <1>3 DEF Message
<1>5. next \in SyncState
  BY <1>1 DEF SyncState
<1>6. Generate(doc, s, w) \in {[state |-> s, out |-> NoMessage],
                               [state |-> next, out |-> message]}
  BY DEF Generate, changes, filter
<1> HIDE DEF message, next
<1> QED
  BY <1>4, <1>5, <1>6, NoMessageTyped

LEMMA ReceivedDocument ==
  ASSUME NEW doc, NEW s, NEW m
  PROVE  Receive(doc, s, m).doc = doc \cup m.changes
BY DEF Receive

LEMMA ReceivedState ==
  ASSUME NEW doc, NEW s \in SyncState, NEW m
  PROVE  LET r == Receive(doc, s, m).state IN
         /\ r.theirs = m
         /\ ~r.inFlight
         /\ r.responded = s.responded
         /\ r.sent \subseteq s.sent
BY DEF Receive, SyncState

LEMMA ReceiveTyped ==
  ASSUME NEW doc \in SUBSET Change, NEW s \in SyncState, NEW m \in Message
  PROVE  Receive(doc, s, m).doc \in SUBSET Change /\ Receive(doc, s, m).state \in SyncState
<1> DEFINE merged == doc \cup m.changes
           shared == IF m.heads \subseteq merged
                     THEN m.heads
                     ELSE s.shared \cup (merged \ doc) \cup (m.heads \cap merged)
           sent == IF m.heads = {} THEN {} ELSE s.sent \ m.heads
           agreed == m.changes = {} /\ m.heads = doc
           last == IF m.heads = {} THEN {} ELSE IF agreed THEN doc ELSE s.lastSent
<1>1. m.changes \subseteq Change /\ m.heads \subseteq Change
  BY DEF Message
<1>2. merged \in SUBSET Change
  BY <1>1
<1>3. shared \in SUBSET Change
  BY <1>1, <1>2 DEF SyncState
<1>4. sent \in SUBSET Change
  BY DEF SyncState
<1>5. last \in SUBSET Change
  BY DEF SyncState
<1>6. Receive(doc, s, m).state =
        [s EXCEPT !.shared = shared, !.theirs = m, !.inFlight = FALSE,
                  !.sent = sent, !.lastSent = last]
  BY DEF Receive, SyncState
<1> HIDE DEF shared, sent, last
<1>7. Receive(doc, s, m).state \in SyncState
  BY <1>3, <1>4, <1>5, <1>6 DEF SyncState
<1> QED
  BY <1>2, <1>7, ReceivedDocument

----------------------------------------------------------------------------
(* A session's steps                                                       *)

LEMMA AppliedTyped ==
  ASSUME NEW s \in Session
  PROVE  Applied(s) \in Session
<1> DEFINE r == Receive(s.doc, s.state, s.pending)
<1>1. s.doc \in SUBSET Change /\ s.state \in SyncState /\ s.pending \in Message
  BY DEF Session
<1>2. r.doc \in SUBSET Change /\ r.state \in SyncState
  BY <1>1, ReceiveTyped
<1> HIDE DEF r
<1>3. [s EXCEPT !.doc = r.doc, !.state = r.state, !.pending = NoMessage] \in Session
  BY <1>2, NoMessageTyped DEF Session
<1> QED
  BY <1>3 DEF Applied, r

LEMMA AppliedKeeps ==
  ASSUME NEW s \in Session
  PROVE  /\ Applied(s).finished = s.finished
         /\ Applied(s).prevOut = s.prevOut
         /\ Applied(s).outgoing = s.outgoing
BY DEF Applied, Session

LEMMA AppliedNothing ==
  ASSUME NEW s, ~s.pending.real
  PROVE  Applied(s) = s
BY DEF Applied

LEMMA AppliedPending ==
  ASSUME NEW s \in Session
  PROVE  /\ ~Applied(s).pending.real
         /\ s.pending.real => Applied(s).pending = NoMessage
BY DEF Applied, Session, NoMessage

LEMMA AppliedDocument ==
  ASSUME NEW s \in Session, s.pending.real
  PROVE  Applied(s).doc = s.doc \cup s.pending.changes
BY ReceivedDocument DEF Applied, Session

LEMMA AppliedState ==
  ASSUME NEW s \in Session, s.pending.real
  PROVE  /\ Applied(s).state.theirs = s.pending
         /\ ~Applied(s).state.inFlight
         /\ Applied(s).state.responded = s.state.responded
         /\ Applied(s).state.sent \subseteq s.state.sent
<1>1. Applied(s).state = Receive(s.doc, s.state, s.pending).state
  BY DEF Applied, Session
<1>2. s.state \in SyncState
  BY DEF Session
<1> QED
  BY <1>1, <1>2, ReceivedState

\* The documents of a session that finishes and of one that goes on.
LEMMA TurnOver ==
  ASSUME NEW s, s.finished
  PROVE  Turn(s) = s
BY DEF Turn

\* What a session that goes on has and says.
LEMMA TurnTaken ==
  ASSUME NEW s \in Session, ~s.finished
  PROVE  /\ Turn(s).doc = Applied(s).doc
         /\ Turn(s).pending = Applied(s).pending
         /\ Turn(s).prevOut = s.prevOut
         /\ Turn(s).outgoing = Generate(Applied(s).doc, Applied(s).state, wrong).out
         /\ Turn(s).state = Generate(Applied(s).doc, Applied(s).state, wrong).state
         /\ Turn(s).finished = ~Generate(Applied(s).doc, Applied(s).state, wrong).out.real
<1> DEFINE a == Applied(s)
           g == Generate(a.doc, a.state, wrong)
<1>1. a \in Session /\ a.prevOut = s.prevOut
  BY AppliedTyped, AppliedKeeps
<1>2. Turn(s) = [a EXCEPT !.state = g.state, !.outgoing = g.out, !.finished = ~g.out.real]
  BY DEF Turn
<1> HIDE DEF a, g
<1>3. /\ Turn(s).doc = a.doc /\ Turn(s).pending = a.pending /\ Turn(s).prevOut = s.prevOut
      /\ Turn(s).outgoing = g.out /\ Turn(s).state = g.state
      /\ Turn(s).finished = ~g.out.real
  BY <1>1, <1>2 DEF Session
<1> QED
  BY <1>3 DEF a, g

LEMMA TurnTyped ==
  ASSUME TypeOK, NEW s \in Session
  PROVE  Turn(s) \in Session
<1> DEFINE a == Applied(s)
           g == Generate(a.doc, a.state, wrong)
<1>1. a \in Session
  BY AppliedTyped
<1>2. a.doc \in SUBSET Change /\ a.state \in SyncState /\ wrong \in Wrong
  BY <1>1 DEF Session, TypeOK
<1>3. g.state \in SyncState /\ g.out \in Message
  BY <1>2, GenerateTyped
<1>4. Turn(s) = IF s.finished THEN s
                ELSE [a EXCEPT !.state = g.state, !.outgoing = g.out, !.finished = ~g.out.real]
  BY DEF Turn
<1>5. g.out.real \in BOOLEAN
  BY <1>3 DEF Message
<1> HIDE DEF a, g
<1> QED
  BY <1>1, <1>3, <1>4, <1>5 DEF Session

\* The end of a round.  Only a repeated round ends a session here.
LEMMA AnsweredSession ==
  ASSUME NEW s \in Session, NEW reply \in Message,
         NEW t, t = Answered([s EXCEPT !.pending = NoMessage], reply)
  PROVE  /\ t \in Session
         /\ ~t.outgoing.real /\ t.outgoing.changes = {}
         /\ \/ /\ t.doc = s.doc /\ t.pending = reply /\ t.state = s.state
               /\ t.finished = s.finished
            \/ /\ s.outgoing = s.prevOut
               /\ t.doc = s.doc \cup (IF reply.real THEN reply.changes ELSE {})
               /\ ~t.pending.real
               /\ t.pending.changes = IF reply.real THEN {} ELSE reply.changes
<1> DEFINE q == [s EXCEPT !.pending = NoMessage]
           stall == IF Stalled(q, reply) THEN q.stall + 1 ELSE 0
           kept == [q EXCEPT !.pending = reply, !.prevOut = q.outgoing, !.prevIn = reply,
                             !.stall = stall, !.outgoing = NoMessage]
<1>1. q \in Session /\ q.outgoing = s.outgoing /\ q.prevOut = s.prevOut
  BY NoMessageTyped DEF Session
<1>2. /\ kept \in Session /\ kept.outgoing = NoMessage /\ kept.pending = reply
      /\ kept.doc = s.doc /\ kept.state = s.state /\ kept.finished = s.finished
  <2>1. stall \in Nat
    BY <1>1 DEF Session
  <2> HIDE DEF stall
  <2> QED
    BY <2>1, <1>1, NoMessageTyped DEF Session
<1>3. t = IF stall >= MaxStall THEN [Applied(kept) EXCEPT !.finished = TRUE] ELSE kept
  BY DEF Answered
<1>4. stall >= MaxStall => s.outgoing = s.prevOut
  BY <1>1, SessionAssumption DEF Stalled
<1> HIDE DEF stall, kept, q
<1>7. ~NoMessage.real /\ NoMessage.changes = {}
  BY DEF NoMessage
<1>5. CASE stall >= MaxStall
  <2> DEFINE a == Applied(kept)
  <2>1. /\ a \in Session /\ a.outgoing = NoMessage /\ ~a.pending.real
        /\ reply.real => a.pending = NoMessage
        /\ reply.real => a.doc = s.doc \cup reply.changes
        /\ ~reply.real => a = kept
    BY <1>2, AppliedTyped, AppliedKeeps, AppliedPending, AppliedDocument, AppliedNothing
  <2>2. t = [a EXCEPT !.finished = TRUE]
    BY <1>3, <1>5
  <2> HIDE DEF a
  <2>3. t \in Session /\ t.outgoing = NoMessage /\ t.doc = a.doc /\ t.pending = a.pending
    BY <2>1, <2>2 DEF Session
  <2>4. t.doc = s.doc \cup (IF reply.real THEN reply.changes ELSE {})
    BY <1>2, <2>1, <2>3
  <2>5. t.pending.changes = IF reply.real THEN {} ELSE reply.changes
    BY <1>2, <2>1, <2>3 DEF NoMessage
  <2> QED
    BY <1>4, <1>5, <1>7, <2>1, <2>3, <2>4, <2>5
<1>6. CASE ~(stall >= MaxStall)
  <2>1. t = kept
    BY <1>3, <1>6
  <2> QED
    BY <1>2, <1>7, <2>1
<1> QED
  BY <1>5, <1>6

\* The server's part of a call.
LEMMA Served ==
  ASSUME TypeOK, NEW d \in DOMAIN sess
  PROVE  LET v == Serve(d)
             m == sess[d].outgoing IN
         /\ v.doc = server[d].doc \cup m.changes
         /\ v.doc \in SUBSET Change /\ v.state \in SyncState /\ v.reply \in Message
         /\ v.reply.changes \subseteq v.doc
         /\ ~v.reply.real => v.reply.changes = {} /\ m.heads = v.doc
         /\ v.reply.real => v.reply.heads = v.doc /\ v.reply.need = m.heads \ v.doc
         /\ ~v.reply.real => server[d].state.responded
         /\ v.reply.real /\ server[d].state.sent = {} => m.need \cap v.doc \subseteq v.reply.changes
<1> DEFINE m == sess[d].outgoing
           r == Receive(server[d].doc, server[d].state, m)
           g == Generate(r.doc, r.state, wrong)
           v == Serve(d)
<1>1. /\ m \in Message /\ server[d].doc \in SUBSET Change /\ server[d].state \in SyncState
      /\ wrong \in Wrong
  BY DEF TypeOK, Session
<1>2. r.doc = server[d].doc \cup m.changes
  BY ReceivedDocument
<1>3. /\ r.state.theirs = m /\ ~r.state.inFlight
      /\ r.state.responded = server[d].state.responded
      /\ r.state.sent \subseteq server[d].state.sent
  BY <1>1, ReceivedState
<1>4. r.doc \in SUBSET Change /\ r.state \in SyncState
  BY <1>1, ReceiveTyped
<1>5. v.doc = r.doc /\ v.state = g.state /\ v.reply = g.out
  BY DEF Serve
<1> HIDE DEF r, v
<1>6. g.state \in SyncState /\ g.out \in Message
  BY <1>1, <1>4, GenerateTyped
<1>7. g.out.changes \subseteq r.doc
  BY SentFromDocument
<1>8. ~g.out.real => g.out.changes = {} /\ m.heads = r.doc /\ r.state.responded
  BY <1>3, SilentAgrees, SilentResponded, SilentCarriesNothing
<1>9. g.out.real => g.out.heads = r.doc /\ g.out.need = m.heads \ r.doc
  BY <1>3, SpokenHeads, SpokenNeed
<1>10. g.out.real => g.out.changes = ToSend(r.doc, m) \ r.state.sent
  BY <1>3, SpokenChanges
<1>11. m.need \cap r.doc \subseteq ToSend(r.doc, m)
  BY NamedAreSent
<1> HIDE DEF g, m
<1>12. g.out.real /\ server[d].state.sent = {} => m.need \cap r.doc \subseteq g.out.changes
  BY <1>3, <1>10, <1>11
<1> QED
  BY <1>2, <1>3, <1>4, <1>5, <1>6, <1>7, <1>8, <1>9, <1>12 DEF v, m

----------------------------------------------------------------------------
(* Types                                                                   *)

LEMMA OpenedTyped ==
  ASSUME TypeOK, NEW d \in Doc
  PROVE  Opened(d) \in Session
<1>1. rows[d].doc \in SUBSET Change /\ rows[d].shared \in SUBSET Change
  BY DEF TypeOK
<1>2. Connected(rows[d].shared) \in SyncState
  BY <1>1, ConnectedTyped
<1> QED
  BY <1>1, <1>2, NoMessageTyped DEF Opened, Session

\* What a new loop begins with.
LEMMA OpenTyped ==
  ASSUME TypeOK, NEW docs \in SUBSET Doc, Open(docs)
  PROVE  /\ DOMAIN sess' = docs /\ sess' \in [docs -> Session]
         /\ round' = 0 /\ seen' \in [Doc -> SUBSET Change]
         /\ \A d \in docs : sess'[d] = Opened(d) /\ seen'[d] = server[d].doc
         /\ \A d \in Doc \ docs : seen'[d] = seen[d]
<1>1. \A d \in docs : Opened(d) \in Session
  BY OpenedTyped
<1>2. \A d \in Doc : server[d].doc \in SUBSET Change
  BY DEF TypeOK
<1> QED
  BY <1>1, <1>2 DEF Open, TypeOK

LEMMA NextTyped ==
  ASSUME TypeOK, NEW rest \in SUBSET Doc, NextInQueue(rest)
  PROVE  /\ queue' = rest /\ phase' \in {"save", "round"}
         /\ DOMAIN sess' \subseteq Doc /\ sess' \in [DOMAIN sess' -> Session]
         /\ round' = 0 /\ seen' \in [Doc -> SUBSET Change]
<1>1. CASE /\ rest = {} /\ phase' = "save" /\ sess' = NoSessions
           /\ round' = 0 /\ seen' = seen
  BY <1>1 DEF NextInQueue, NoSessions, TypeOK
<1>2. CASE phase' = "round" /\ \E d \in rest : Open({d})
  <2>1. PICK d \in rest : Open({d})
    BY <1>2
  <2>2. {d} \in SUBSET Doc
    OBVIOUS
  <2>3. /\ DOMAIN sess' = {d} /\ sess' \in [{d} -> Session]
        /\ round' = 0 /\ seen' \in [Doc -> SUBSET Change]
    BY <2>1, <2>2, OpenTyped
  <2> QED
    BY <1>2, <2>3 DEF NextInQueue
<1> QED
  BY <1>1, <1>2 DEF NextInQueue

LEMMA OutputTyped ==
  ASSUME TypeOK, NEW d \in DOMAIN sess
  PROVE  Output(sess[d]) \in Outcome
<1>1. Applied(sess[d]) \in Session
  BY AppliedTyped DEF TypeOK
<1> DEFINE a == Applied(sess[d])
<1>2. a.doc \in SUBSET Change /\ a.state.shared \in SUBSET Change
  BY <1>1 DEF Session, SyncState
<1>3. Output(sess[d]) = [ok |-> TRUE, doc |-> a.doc, shared |-> a.state.shared]
  BY DEF Output
<1> HIDE DEF a
<1> QED
  BY <1>2, <1>3 DEF Outcome

LEMMA WithTyped ==
  ASSUME TypeOK, NEW new, \A d \in DOMAIN sess : new[d] \in Outcome
  PROVE  /\ DOMAIN With(new) = DOMAIN sess \cup DOMAIN outputs
         /\ DOMAIN With(new) \subseteq Doc
         /\ With(new) \in [DOMAIN With(new) -> Outcome]
BY DEF With, TypeOK

LEMMA StartTyped ==
  ASSUME TypeOK, StartBatch
  PROVE  TypeOK'
<1>1. Dirty \in SUBSET Doc /\ Open(Dirty)
  BY DEF Dirty, StartBatch
<1>2. /\ DOMAIN sess' = Dirty /\ sess' \in [Dirty -> Session]
      /\ round' = 0 /\ seen' \in [Doc -> SUBSET Change]
  BY <1>1, OpenTyped
<1>3. round' \in 0..MaxRounds
  BY <1>2, SessionAssumption
<1>4. DOMAIN outputs' = {} /\ outputs' \in [{} -> Outcome]
  BY DEF StartBatch
<1> QED
  BY <1>1, <1>2, <1>3, <1>4 DEF StartBatch, TypeOK

LEMMA PrepareTyped ==
  ASSUME TypeOK, Prepare
  PROVE  TypeOK'
<1>1. \A d \in DOMAIN sess : sess[d] \in Session /\ Turn(sess[d]) \in Session
  BY TurnTyped DEF TypeOK
<1>2. DOMAIN sess' = DOMAIN sess /\ sess' \in [DOMAIN sess -> Session]
  <2>1. sess \in [DOMAIN sess -> Session]
    BY DEF TypeOK
  <2>2. CASE round < MaxRounds
    <3>1. sess' = [d \in DOMAIN sess |-> Turn(sess[d])]
      BY <2>2 DEF Prepare
    <3> QED
      BY <1>1, <3>1
  <2>3. CASE ~(round < MaxRounds)
    BY <2>1, <2>3 DEF Prepare
  <2> QED
    BY <2>2, <2>3
<1>3. round' \in 0..MaxRounds /\ phase' \in {"finish", "sent"}
  <2>1. \/ phase' = "finish" /\ round' = round
        \/ phase' = "sent" /\ round' = round + 1 /\ round # MaxRounds
    BY DEF Prepare
  <2>2. round \in 0..MaxRounds /\ MaxRounds \in Nat
    BY SessionAssumption DEF TypeOK
  <2> QED
    BY <2>1, <2>2
<1> QED
  BY <1>2, <1>3 DEF Prepare, TypeOK

LEMMA AnswersTyped ==
  ASSUME TypeOK, ServerAnswers
  PROVE  TypeOK'
<1>1. Asking \subseteq DOMAIN sess
  BY DEF Asking
<1>2. ASSUME NEW d \in Asking
      PROVE  /\ Serve(d).doc \in SUBSET Change /\ Serve(d).state \in SyncState
             /\ Serve(d).reply \in Message
  BY <1>1, Served
<1>3. ASSUME NEW d \in Asking PROVE Remembered(Serve(d).state) \in SyncState
  <2>1. Serve(d).state.shared \in SUBSET Change
    BY <1>2 DEF SyncState
  <2>2. Connected(Serve(d).state.shared) \in SyncState /\ Connected({}) \in SyncState
    BY <2>1, ConnectedTyped
  <2> QED
    BY <1>2, <2>2 DEF Remembered, TypeOK
<1>4. \A d \in Doc : server'[d] \in [doc : SUBSET Change, state : SyncState]
  BY <1>2, <1>3 DEF ServerAnswers, TypeOK
<1>5. server' \in [Doc -> [doc : SUBSET Change, state : SyncState]]
  BY <1>4 DEF ServerAnswers
<1>6. ASSUME NEW d \in DOMAIN sess PROVE sess'[d] \in Session
  <2>1. sess[d] \in Session
    BY DEF TypeOK
  <2>2. CASE d \in Asking
    <3> DEFINE reply == Serve(d).reply
    <3>1. sess'[d] = [sess[d] EXCEPT !.pending = reply] /\ reply \in Message
      BY <1>2, <2>2 DEF ServerAnswers
    <3> HIDE DEF reply
    <3> QED
      BY <2>1, <3>1 DEF Session
  <2>3. CASE d \notin Asking
    BY <2>1, <2>3 DEF ServerAnswers
  <2> QED
    BY <2>2, <2>3
<1>7. DOMAIN sess' = DOMAIN sess /\ sess' \in [DOMAIN sess -> Session]
  BY <1>6 DEF ServerAnswers
<1> QED
  BY <1>5, <1>7 DEF ServerAnswers, TypeOK

LEMMA AcceptTyped ==
  ASSUME TypeOK, Accept
  PROVE  TypeOK'
<1>1. ASSUME NEW d \in DOMAIN sess PROVE sess'[d] \in Session
  <2>1. sess[d] \in Session /\ sess[d].pending \in Message
    BY DEF TypeOK, Session
  <2>2. CASE d \in Asking
    <3>1. sess'[d] = Answered([sess[d] EXCEPT !.pending = NoMessage], sess[d].pending)
      BY <2>2 DEF Accept
    <3> QED
      BY <2>1, <3>1, AnsweredSession
  <2>3. CASE d \notin Asking
    BY <2>1, <2>3 DEF Accept
  <2> QED
    BY <2>2, <2>3
<1>2. DOMAIN sess' = DOMAIN sess /\ sess' \in [DOMAIN sess -> Session]
  BY <1>1 DEF Accept
<1> QED
  BY <1>2 DEF Accept, TypeOK

LEMMA FailsTyped ==
  ASSUME TypeOK, CallFails
  PROVE  TypeOK'
<1> DEFINE failed == [d \in DOMAIN sess |-> Failed]
<1>1. \A d \in DOMAIN sess : failed[d] \in Outcome
  BY DEF Failed, Outcome
<1> HIDE DEF failed
<1>2. DOMAIN sess \in SUBSET Doc /\ queue \ DOMAIN sess \in SUBSET Doc
  BY DEF TypeOK
<1>3. /\ queue' \subseteq Doc /\ phase' \in {"save", "round"}
      /\ DOMAIN sess' \subseteq Doc /\ sess' \in [DOMAIN sess' -> Session]
      /\ round' = 0 /\ seen' \in [Doc -> SUBSET Change]
  BY <1>2, NextTyped DEF CallFails
<1>4. outputs' = outputs \/ outputs' = With(failed)
  BY DEF CallFails, failed
<1>5. DOMAIN outputs' \subseteq Doc /\ outputs' \in [DOMAIN outputs' -> Outcome]
  BY <1>1, <1>4, WithTyped DEF TypeOK
<1>6. round' \in 0..MaxRounds /\ faults' \in 0..MaxFaults
  BY <1>3, SessionAssumption DEF CallFails, TypeOK
<1> QED
  BY <1>3, <1>5, <1>6 DEF CallFails, TypeOK

LEMMA FinishTyped ==
  ASSUME TypeOK, Finish
  PROVE  TypeOK'
<1> DEFINE new == [d \in DOMAIN sess |-> Output(sess[d])]
<1>1. \A d \in DOMAIN sess : new[d] \in Outcome
  BY OutputTyped
<1> HIDE DEF new
<1>2. queue \ DOMAIN sess \in SUBSET Doc
  BY DEF TypeOK
<1>3. /\ queue' \subseteq Doc /\ phase' \in {"save", "round"}
      /\ DOMAIN sess' \subseteq Doc /\ sess' \in [DOMAIN sess' -> Session]
      /\ round' = 0 /\ seen' \in [Doc -> SUBSET Change]
  BY <1>2, NextTyped DEF Finish
<1>4. outputs' = With(new)
  BY DEF Finish, new
<1>5. DOMAIN outputs' \subseteq Doc /\ outputs' \in [DOMAIN outputs' -> Outcome]
  BY <1>1, <1>4, WithTyped
<1>6. round' \in 0..MaxRounds
  BY <1>3, SessionAssumption
<1> QED
  BY <1>3, <1>5, <1>6 DEF Finish, TypeOK

LEMMA SaveTyped ==
  ASSUME TypeOK, Save
  PROVE  TypeOK'
<1>1. \A d \in DOMAIN outputs : outputs[d].doc \in SUBSET Change /\ outputs[d].shared \in SUBSET Change
  BY DEF TypeOK, Outcome
<1>2. rows' \in [Doc -> [doc : SUBSET Change, shared : SUBSET Change, dirty : BOOLEAN]]
  BY <1>1 DEF Save, TypeOK
<1>3. DOMAIN outputs' = {} /\ outputs' \in [{} -> Outcome]
  BY DEF Save
<1> QED
  BY <1>2, <1>3 DEF Save, TypeOK

LEMMA OutsideTyped ==
  ASSUME TypeOK, NEW d \in Doc, Edit(d) \/ OthersPush(d)
  PROVE  TypeOK'
<1>1. \A c \in Mine[d] \cup Others[d] : {c} \subseteq Change
  BY DEF Change
<1>2. CASE Edit(d)
  <2>1. PICK c \in Mine[d] :
          rows' = [rows EXCEPT ![d].doc = @ \cup {c}, ![d].dirty = TRUE]
    BY <1>2 DEF Edit
  <2>2. rows' \in [Doc -> [doc : SUBSET Change, shared : SUBSET Change, dirty : BOOLEAN]]
    <3>1. rows[d].doc \cup {c} \in SUBSET Change
      BY <1>1 DEF TypeOK
    <3> DEFINE D == rows[d].doc \cup {c}
    <3>2. rows' = [rows EXCEPT ![d] = [rows[d] EXCEPT !.doc = D, !.dirty = TRUE]]
      BY <2>1 DEF TypeOK
    <3> HIDE DEF D
    <3>3. D \in SUBSET Change
      BY <3>1 DEF D
    <3>4. rows \in [Doc -> [doc : SUBSET Change, shared : SUBSET Change, dirty : BOOLEAN]]
      BY DEF TypeOK
    <3>5. [rows[d] EXCEPT !.doc = D, !.dirty = TRUE]
            \in [doc : SUBSET Change, shared : SUBSET Change, dirty : BOOLEAN]
      BY <3>3, <3>4
    <3> QED
      BY <3>2, <3>4, <3>5
  <2> QED
    BY <1>2, <2>2 DEF Edit, TypeOK
<1>3. CASE OthersPush(d)
  <2>1. PICK c \in Others[d] : server' = [server EXCEPT ![d].doc = @ \cup {c}]
    BY <1>3 DEF OthersPush
  <2>2. server' \in [Doc -> [doc : SUBSET Change, state : SyncState]]
    BY <1>1, <2>1 DEF TypeOK
  <2> QED
    BY <1>3, <2>2 DEF OthersPush, TypeOK
<1> QED
  BY <1>2, <1>3

LEMMA TypesStep ==
  ASSUME TypeOK, [Next]_vars
  PROVE  TypeOK'
<1>1. UNCHANGED vars => TypeOK'
  BY DEF vars, TypeOK
<1> QED
  BY <1>1, StartTyped, PrepareTyped, AnswersTyped, AcceptTyped, FailsTyped, FinishTyped,
     SaveTyped, OutsideTyped DEF Next, Rest

LEMMA TypesInit ==
  ASSUME Init
  PROVE  TypeOK
<1>1. \A d \in Doc : Common[d] \in SUBSET Change
  BY DEF Change
<1>2. Connected({}) \in SyncState
  BY ConnectedTyped
<1>3. round \in 0..MaxRounds /\ faults \in 0..MaxFaults
  BY SessionAssumption DEF Init
<1> QED
  BY <1>1, <1>2, <1>3 DEF Init, TypeOK, NoSessions

----------------------------------------------------------------------------
(* The steps of a pass                                                     *)

LEMMA FreshOpened ==
  ASSUME TypeOK, NEW d \in Doc
  PROVE  /\ Fresh(Opened(d)) /\ Opened(d).doc = rows[d].doc
         /\ Opened(d).pending = NoMessage /\ Opened(d).outgoing = NoMessage
BY DEF Fresh, Opened, Connected, NoMessage

\* A loop begins over dirty documents that have no output yet.
LEMMA OpenGood ==
  ASSUME TypeOK, NEW docs \in SUBSET Dirty, Open(docs),
         UNCHANGED <<rows, server, memory>>, phase' = "round",
         SuccessMeansPulled, docs \cap DOMAIN outputs' = {},
         \A d \in DOMAIN outputs' : d \in Doc /\ Exchanges(d, outputs'[d])
  PROVE  Sessions' /\ OutputsOK' /\ SuccessMeansPulled'
<1>1. docs \in SUBSET Doc /\ \A d \in docs : rows[d].dirty
  BY DEF Dirty
<1>2. /\ DOMAIN sess' = docs /\ round' = 0
      /\ \A d \in docs : sess'[d] = Opened(d) /\ seen'[d] = server[d].doc
      /\ \A d \in Doc \ docs : seen'[d] = seen[d]
  BY <1>1, OpenTyped
<1>3. ASSUME NEW d \in docs
      PROVE  /\ SessionOK(d)'
             /\ Pushing(d)'
             /\ seen'[d] \subseteq server'[d].doc /\ Pulling(d)'
  <2>1. /\ Fresh(sess'[d]) /\ sess'[d].doc = rows[d].doc
        /\ sess'[d].pending = NoMessage /\ sess'[d].outgoing = NoMessage
    BY <1>1, <1>2, FreshOpened
  <2>2. ~NoMessage.real /\ NoMessage.changes = {}
    BY DEF NoMessage
  <2>3. SessionOK(d)'
    BY <2>1, <2>2 DEF SessionOK
  <2>4. ~sess'[d].finished
    BY <2>1 DEF Fresh
  <2>5. Pushing(d)' /\ Pulling(d)'
    BY <1>2, <2>1, <2>4 DEF Pushing, Pulling, Fresh
  <2> QED
    BY <1>2, <2>3, <2>5
<1>4. Sessions'
  BY <1>2, <1>3 DEF Sessions
<1>5. OutputsOK'
  <2>1. \A d \in DOMAIN outputs' : seen'[d] = seen[d]
    BY <1>2
  <2> QED
    BY <2>1 DEF OutputsOK, Exchanges
<1>6. SuccessMeansPulled'
  BY <1>1, <1>2 DEF SuccessMeansPulled
<1> QED
  BY <1>4, <1>5, <1>6

LEMMA NextGood ==
  ASSUME TypeOK, NEW rest \in SUBSET Dirty, NextInQueue(rest),
         UNCHANGED <<rows, server, memory>>, SuccessMeansPulled,
         DOMAIN outputs' \subseteq Dirty, rest \cap DOMAIN outputs' = {},
         \A d \in DOMAIN outputs' : Exchanges(d, outputs'[d])
  PROVE  PassOK' /\ Sessions' /\ OutputsOK' /\ SuccessMeansPulled'
<1>1. Dirty' = Dirty /\ Dirty \subseteq Doc
  BY DEF Dirty
<1>2. CASE rest = {} /\ phase' = "save" /\ sess' = NoSessions /\ seen' = seen
  <2>1. DOMAIN sess' = {} /\ queue' = {}
    BY <1>2 DEF NoSessions, NextInQueue
  <2>2. PassOK'
    BY <1>1, <1>2, <2>1 DEF PassOK, Loop
  <2>3. OutputsOK'
    BY <1>2 DEF OutputsOK, Exchanges
  <2>4. SuccessMeansPulled'
    BY <1>2 DEF SuccessMeansPulled
  <2> QED
    BY <2>1, <2>2, <2>3, <2>4 DEF Sessions
<1>3. CASE phase' = "round" /\ \E d \in rest : Open({d})
  <2>1. PICK d \in rest : Open({d})
    BY <1>3
  <2>2. {d} \in SUBSET Dirty /\ {d} \in SUBSET Doc
    BY <1>1
  <2>3. DOMAIN sess' = {d}
    BY <2>1, <2>2, OpenTyped
  <2>4. queue' = rest
    BY DEF NextInQueue
  <2>5. PassOK'
    BY <1>1, <1>3, <2>3, <2>4 DEF PassOK, Loop
  <2> QED
    BY <1>1, <1>3, <2>1, <2>2, <2>5, OpenGood
<1> QED
  BY <1>2, <1>3 DEF NextInQueue

LEMMA StartGood ==
  ASSUME ExchangeInductive, StartBatch
  PROVE  PassOK' /\ Sessions' /\ OutputsOK' /\ SuccessMeansPulled'
<1>1. /\ Open(Dirty) /\ phase' = "round" /\ queue' = {} /\ DOMAIN outputs' = {}
      /\ UNCHANGED <<rows, server, memory>>
  BY DEF StartBatch
<1>2. TypeOK /\ SuccessMeansPulled
  BY DEF ExchangeInductive
<1>3. Dirty' = Dirty /\ Dirty \in SUBSET Doc
  BY <1>1 DEF Dirty
<1>4. DOMAIN sess' = Dirty
  BY <1>1, <1>2, <1>3, OpenTyped
<1>5. PassOK'
  BY <1>1, <1>3, <1>4 DEF PassOK, Loop
<1> QED
  BY <1>1, <1>2, <1>5, OpenGood

LEMMA FailsGood ==
  ASSUME ExchangeInductive, CallFails
  PROVE  PassOK' /\ Sessions' /\ OutputsOK' /\ SuccessMeansPulled'
<1>1. /\ Loop /\ UNCHANGED <<rows, server, memory>>
  BY DEF CallFails, Loop
<1>2. TypeOK /\ SuccessMeansPulled /\ PassOK /\ OutputsOK
  BY DEF ExchangeInductive
<1>3. CASE Batch
  <2>1. outputs' = outputs /\ NextInQueue(DOMAIN sess) /\ DOMAIN outputs = {}
    BY <1>1, <1>2, <1>3 DEF CallFails, PassOK, Batch
  <2>2. DOMAIN sess \in SUBSET Dirty
    BY <1>2 DEF PassOK
  <2> QED
    BY <1>1, <1>2, <2>1, <2>2, NextGood
<1>4. CASE ~Batch
  <2>1. /\ outputs' = With([d \in DOMAIN sess |-> Failed])
        /\ NextInQueue(queue \ DOMAIN sess)
    BY <1>4 DEF CallFails
  <2>2. /\ DOMAIN outputs' = DOMAIN sess \cup DOMAIN outputs
        /\ \A d \in DOMAIN outputs' : outputs'[d] = IF d \in DOMAIN sess THEN Failed ELSE outputs[d]
    BY <2>1 DEF With
  <2>3. \A d \in DOMAIN outputs' : Exchanges(d, outputs'[d])
    BY <1>2, <2>2 DEF OutputsOK, Exchanges, Failed
  <2>4. queue \ DOMAIN sess \in SUBSET Dirty /\ DOMAIN outputs' \subseteq Dirty
    BY <1>2, <2>2 DEF PassOK
  <2>5. (queue \ DOMAIN sess) \cap DOMAIN outputs' = {}
    BY <1>2, <2>2 DEF PassOK
  <2> QED
    BY <1>1, <1>2, <2>1, <2>3, <2>4, <2>5, NextGood
<1> QED
  BY <1>3, <1>4

\* When the rounds are over each session has pushed and pulled.
LEMMA FinishGood ==
  ASSUME ExchangeInductive, Finish
  PROVE  PassOK' /\ Sessions' /\ OutputsOK' /\ SuccessMeansPulled'
<1>1. /\ phase = "finish" /\ UNCHANGED <<rows, server, memory>>
      /\ outputs' = With([d \in DOMAIN sess |-> Output(sess[d])])
      /\ NextInQueue(queue \ DOMAIN sess)
  BY DEF Finish
<1>2. TypeOK /\ SuccessMeansPulled /\ PassOK /\ OutputsOK /\ Sessions
  BY DEF ExchangeInductive
<1>3. /\ DOMAIN outputs' = DOMAIN sess \cup DOMAIN outputs
      /\ \A d \in DOMAIN outputs' :
           outputs'[d] = IF d \in DOMAIN sess THEN Output(sess[d]) ELSE outputs[d]
  BY <1>1 DEF With
<1>4. ASSUME NEW d \in DOMAIN sess PROVE Exchanges(d, Output(sess[d]))
  <2> DEFINE s == sess[d]
  <2>1. s \in Session
    BY <1>2 DEF TypeOK
  <2>2. Output(s).doc = Applied(s).doc
    BY DEF Output
  <2>3. Applied(s).doc = s.doc \cup s.pending.changes
    <3>1. CASE s.pending.real
      BY <2>1, <3>1, AppliedDocument
    <3>2. CASE ~s.pending.real
      <4>1. Applied(s) = s
        BY <3>2, AppliedNothing
      <4>2. s.pending.changes = {}
        BY <1>2, <3>2 DEF Sessions, SessionOK
      <4> QED
        BY <4>1, <4>2
    <3> QED
      BY <3>1, <3>2
  <2>4. /\ rows[d].doc \subseteq s.doc /\ s.doc \subseteq rows[d].doc \cup server[d].doc
        /\ s.pending.changes \subseteq server[d].doc
    BY <1>2 DEF Sessions, SessionOK
  <2>5. Pushed(d)
    BY <1>1, <1>2 DEF Sessions, Pushing
  <2>6. memory # "kept" => Pulled(d)
    BY <1>1, <1>2 DEF Sessions, Pulling
  <2> QED
    BY <2>2, <2>3, <2>4, <2>5, <2>6 DEF Exchanges, Pushed, Pulled
<1>5. \A d \in DOMAIN outputs' : Exchanges(d, outputs'[d])
  BY <1>2, <1>3, <1>4 DEF OutputsOK
<1>6. queue \ DOMAIN sess \in SUBSET Dirty /\ DOMAIN outputs' \subseteq Dirty
  BY <1>2, <1>3 DEF PassOK
<1>7. (queue \ DOMAIN sess) \cap DOMAIN outputs' = {}
  BY <1>2, <1>3 DEF PassOK
<1> QED
  BY <1>1, <1>2, <1>5, <1>6, <1>7, NextGood

LEMMA SaveGood ==
  ASSUME ExchangeInductive, Save
  PROVE  PassOK' /\ Sessions' /\ OutputsOK' /\ SuccessMeansPulled'
<1>1. /\ phase = "save" /\ phase' = "idle" /\ DOMAIN outputs' = {}
      /\ UNCHANGED <<server, memory, queue, sess, seen>>
  BY DEF Save
<1>2. PassOK /\ OutputsOK /\ SuccessMeansPulled
  BY DEF ExchangeInductive
<1>3. DOMAIN sess = {} /\ queue = {}
  BY <1>1, <1>2 DEF PassOK, Loop
<1>4. PassOK' /\ Sessions' /\ OutputsOK'
  BY <1>1, <1>3 DEF PassOK, Sessions, OutputsOK, Loop
<1>5. SuccessMeansPulled'
  <2> SUFFICES ASSUME memory # "kept", NEW d \in Doc, ~rows'[d].dirty
               PROVE  seen[d] \subseteq rows'[d].doc
    BY <1>1 DEF SuccessMeansPulled
  <2>1. CASE d \in DOMAIN outputs /\ outputs[d].ok
    <3>1. rows'[d].doc = outputs[d].doc
      BY <2>1 DEF Save
    <3> QED
      BY <1>2, <2>1, <3>1 DEF OutputsOK, Exchanges
  <2>2. CASE ~(d \in DOMAIN outputs /\ outputs[d].ok)
    <3>1. rows'[d] = rows[d]
      BY <2>2 DEF Save
    <3> QED
      BY <1>2, <3>1 DEF SuccessMeansPulled
  <2> QED
    BY <2>1, <2>2
<1> QED
  BY <1>4, <1>5

LEMMA EditGood ==
  ASSUME ExchangeInductive, NEW d \in Doc, Edit(d)
  PROVE  PassOK' /\ Sessions' /\ OutputsOK' /\ SuccessMeansPulled'
<1>1. phase = "idle" /\ UNCHANGED <<server, memory, phase, queue, sess, outputs, seen>>
  BY DEF Edit
<1>2. PassOK /\ SuccessMeansPulled /\ TypeOK
  BY DEF ExchangeInductive
<1>3. DOMAIN sess = {} /\ queue = {} /\ DOMAIN outputs = {}
  BY <1>1, <1>2 DEF PassOK, Loop
<1>4. PassOK' /\ Sessions' /\ OutputsOK'
  BY <1>1, <1>3 DEF PassOK, Sessions, OutputsOK, Loop
<1>5. \A x \in Doc : rows'[x] = rows[x] \/ rows'[x].dirty
  BY <1>2 DEF Edit, TypeOK
<1>6. SuccessMeansPulled'
  BY <1>1, <1>2, <1>5 DEF SuccessMeansPulled
<1> QED
  BY <1>4, <1>6

\* Nothing that was promised is lost when the server's documents grow.
LEMMA PushGood ==
  ASSUME ExchangeInductive, NEW d \in Doc, OthersPush(d)
  PROVE  PassOK' /\ Sessions' /\ OutputsOK' /\ SuccessMeansPulled'
<1>1. UNCHANGED <<rows, memory, phase, round, queue, sess, outputs, seen>>
  BY DEF OthersPush
<1>2. PassOK /\ SuccessMeansPulled /\ TypeOK /\ Sessions /\ OutputsOK
  BY DEF ExchangeInductive
<1>3. \A x \in Doc : server[x].doc \subseteq server'[x].doc
  BY <1>2 DEF OthersPush, TypeOK
<1>4. PassOK' /\ SuccessMeansPulled'
  BY <1>1, <1>2 DEF PassOK, SuccessMeansPulled, Dirty, Loop
<1>5. DOMAIN outputs \subseteq Doc /\ DOMAIN sess \subseteq Doc
  BY <1>2 DEF TypeOK
<1>6. OutputsOK'
  BY <1>1, <1>2, <1>3, <1>5 DEF OutputsOK, Exchanges
<1>7. ASSUME NEW x \in DOMAIN sess
      PROVE  /\ SessionOK(x)'
             /\ Pushed(x)' \/ Pushing(x)'
             /\ memory # "kept" =>
                  seen[x] \subseteq server'[x].doc /\ (Pulled(x)' \/ Pulling(x)')
  <2>1. server[x].doc \subseteq server'[x].doc
    BY <1>3, <1>5
  <2>2. /\ SessionOK(x)
        /\ Pushed(x) \/ Pushing(x)
        /\ memory # "kept" => seen[x] \subseteq server[x].doc /\ (Pulled(x) \/ Pulling(x))
    BY <1>2 DEF Sessions
  <2>3. SessionOK(x)'
    BY <1>1, <2>1, <2>2 DEF SessionOK
  <2>4. Pushed(x) => Pushed(x)'
    BY <1>1, <2>1 DEF Pushed
  <2>5. Pushing(x) => Pushing(x)'
    BY <1>1, <2>1 DEF Pushing, AskedFor, Fresh
  <2>6. (Pulled(x) => Pulled(x)') /\ (Pulling(x) => Pulling(x)')
    BY <1>1 DEF Pulled, Pulling, Fresh
  <2> QED
    BY <2>1, <2>2, <2>3, <2>4, <2>5, <2>6
<1>8. Sessions'
  BY <1>1, <1>7 DEF Sessions
<1> QED
  BY <1>4, <1>6, <1>8

----------------------------------------------------------------------------
(* The rounds                                                              *)

\* What a session is before and after its turn.
LEMMA TurnKeeps ==
  ASSUME TypeOK, NEW d \in DOMAIN sess, SessionOK(d), NEW t, t = Turn(sess[d])
  PROVE  /\ t.doc = sess[d].doc \cup (IF sess[d].finished THEN {} ELSE sess[d].pending.changes)
         /\ sess[d].doc \cup sess[d].pending.changes \subseteq t.doc \cup t.pending.changes
         /\ t.pending.changes \subseteq server[d].doc
         /\ ~t.pending.real => t.pending.changes = {}
         /\ ~sess[d].finished => ~t.pending.real
         /\ t.outgoing.changes \subseteq t.doc
<1> DEFINE s == sess[d]
           a == Applied(s)
           g == Generate(a.doc, a.state, wrong)
<1>1. s \in Session
  BY DEF TypeOK
<1>2. /\ s.pending.changes \subseteq server[d].doc
      /\ ~s.pending.real => s.pending.changes = {}
      /\ s.outgoing.changes \subseteq s.doc
  BY DEF SessionOK
<1>3. CASE s.finished
  <2>1. t = s
    BY <1>3, TurnOver
  <2> QED
    BY <1>2, <1>3, <2>1
<1>4. CASE ~s.finished
  <2>1. t.doc = a.doc /\ t.pending = a.pending /\ t.outgoing = g.out
    BY <1>1, <1>4, TurnTaken
  <2>2. g.out.changes \subseteq a.doc
    BY SentFromDocument
  <2> HIDE DEF g
  <2>3. CASE s.pending.real
    <3>1. a.doc = s.doc \cup s.pending.changes /\ a.pending = NoMessage
      BY <1>1, <2>3, AppliedDocument, AppliedPending
    <3>2. ~NoMessage.real /\ NoMessage.changes = {}
      BY DEF NoMessage
    <3> HIDE DEF a, s
    <3>3. /\ t.doc = s.doc \cup s.pending.changes /\ t.pending.changes = {}
          /\ ~t.pending.real /\ t.outgoing.changes \subseteq t.doc
      BY <2>1, <2>2, <3>1, <3>2
    <3> QED
      BY <1>4, <3>3 DEF s
  <2>4. CASE ~s.pending.real
    <3>1. a = s
      BY <2>4, AppliedNothing
    <3> HIDE DEF a
    <3> QED
      BY <1>2, <1>4, <2>1, <2>2, <2>4, <3>1
  <2> QED
    BY <2>3, <2>4
<1> QED
  BY <1>3, <1>4

\* A fresh session speaks, and tells all it has.
LEMMA FreshTurn ==
  ASSUME TypeOK, NEW d \in DOMAIN sess, Fresh(sess[d]), NEW t, t = Turn(sess[d])
  PROVE  /\ t.outgoing.real /\ t.outgoing.heads = sess[d].doc
         /\ ~t.finished /\ ~t.prevOut.real /\ t.state.sent = {}
<1> DEFINE s == sess[d]
           g == Generate(s.doc, s.state, wrong)
<1>1. s \in Session /\ s.state \in SyncState
  BY DEF TypeOK, Session
<1>2. /\ ~s.finished /\ ~s.pending.real /\ ~s.prevOut.real
      /\ ~s.state.responded /\ s.state.sent = {} /\ s.state.theirs = NoMessage
  BY DEF Fresh
<1>3. Applied(s) = s
  BY <1>2, AppliedNothing
<1>4. /\ t.prevOut = s.prevOut /\ t.outgoing = g.out /\ t.state = g.state
      /\ t.finished = ~g.out.real
  BY <1>1, <1>2, <1>3, TurnTaken
<1>5. g.out.real
  BY <1>2, SilentResponded
<1>6. g.out.heads = s.doc
  BY <1>5, SpokenHeads
<1>7. ToSend(s.doc, s.state.theirs) = {}
  BY <1>2, NothingToSendYet
<1>8. g.state.sent = {}
  BY <1>1, <1>2, <1>7, SentGrows
<1> HIDE DEF g
<1> QED
  BY <1>2, <1>4, <1>5, <1>6, <1>8

\* A session that takes in a reply which asks for changes of the row sends
\* them.
LEMMA AskedTurn ==
  ASSUME TypeOK, NEW d \in DOMAIN sess, SessionOK(d), ~Pushed(d),
         ~sess[d].finished, sess[d].pending.real, sess[d].state.sent = {},
         rows[d].doc \ server[d].doc \subseteq sess[d].pending.need,
         NEW t, t = Turn(sess[d])
  PROVE  /\ t.outgoing.real /\ ~t.finished
         /\ rows[d].doc \ server[d].doc \subseteq t.outgoing.changes
<1> DEFINE s == sess[d]
           a == Applied(s)
           g == Generate(a.doc, a.state, wrong)
           missing == rows[d].doc \ server[d].doc
           news == ToSend(a.doc, a.state.theirs) \ a.state.sent
<1>1. s \in Session
  BY DEF TypeOK
<1>2. t.outgoing = g.out /\ t.finished = ~g.out.real
  BY <1>1, TurnTaken
<1>3. a.doc = s.doc \cup s.pending.changes
  BY <1>1, AppliedDocument
<1>4. /\ a.state.theirs = s.pending /\ ~a.state.inFlight
      /\ a.state.sent \subseteq s.state.sent
  BY <1>1, AppliedState
<1>5. rows[d].doc \subseteq s.doc
  BY DEF SessionOK
<1>6. missing # {}
  BY DEF Pushed
<1>7. a.state.theirs.need \cap a.doc \subseteq ToSend(a.doc, a.state.theirs)
  BY NamedAreSent
<1> HIDE DEF a
<1>8. missing \subseteq a.state.theirs.need \cap a.doc
  BY <1>3, <1>4, <1>5
<1>9. a.state.sent = {}
  BY <1>4
<1>10. missing \subseteq news
  BY <1>7, <1>8, <1>9
<1>11. news # {}
  BY <1>6, <1>10
<1> HIDE DEF missing, s
<1>12. g.out.real
  BY <1>4, <1>11, SilentAgrees
<1>13. g.out.changes = news
  BY <1>12, SpokenChanges
<1> HIDE DEF g, news
<1> QED
  BY <1>2, <1>10, <1>12, <1>13 DEF missing

\* A session that takes in a reply has what the server told it of, or asks
\* for it.
LEMMA ToldTurn ==
  ASSUME TypeOK, NEW d \in DOMAIN sess, ~sess[d].finished, sess[d].pending.real,
         seen[d] \subseteq sess[d].pending.heads,
         NEW t, t = Turn(sess[d])
  PROVE  \/ seen[d] \subseteq t.doc
         \/ t.outgoing.real /\ ~t.finished /\ seen[d] \ t.doc \subseteq t.outgoing.need
<1> DEFINE s == sess[d]
           a == Applied(s)
           g == Generate(a.doc, a.state, wrong)
<1>1. s \in Session
  BY DEF TypeOK
<1>2. t.doc = a.doc /\ t.outgoing = g.out /\ t.finished = ~g.out.real
  BY <1>1, TurnTaken
<1>3. a.state.theirs = s.pending /\ ~a.state.inFlight
  BY <1>1, AppliedState
<1> HIDE DEF a
<1>4. CASE g.out.real
  <2>1. g.out.need = a.state.theirs.heads \ a.doc
    BY <1>4, SpokenNeed
  <2> HIDE DEF g
  <2> QED
    BY <1>2, <1>3, <1>4, <2>1
<1>5. CASE ~g.out.real
  <2>1. a.state.theirs.heads = a.doc
    BY <1>3, <1>5, SilentAgrees
  <2> QED
    BY <1>2, <1>3, <2>1
<1> QED
  BY <1>4, <1>5

LEMMA PrepareGood ==
  ASSUME ExchangeInductive, Prepare
  PROVE  PassOK' /\ Sessions' /\ OutputsOK' /\ SuccessMeansPulled'
<1>1. /\ phase = "round"
      /\ UNCHANGED <<rows, server, memory, queue, outputs, seen>>
  BY DEF Prepare
<1>2. TypeOK /\ PassOK /\ Sessions /\ OutputsOK /\ SuccessMeansPulled
  BY DEF ExchangeInductive
<1>3. /\ sess' = IF round < MaxRounds THEN [d \in DOMAIN sess |-> Turn(sess[d])] ELSE sess
      /\ IF round = MaxRounds \/ \A d \in DOMAIN sess : sess'[d].finished
         THEN phase' = "finish" /\ round' = round
         ELSE phase' = "sent" /\ round' = round + 1
  BY DEF Prepare
<1>4. DOMAIN sess' = DOMAIN sess
  <2>1. CASE round < MaxRounds
    <3>1. sess' = [d \in DOMAIN sess |-> Turn(sess[d])]
      BY <1>3, <2>1
    <3> QED
      BY <3>1
  <2>2. CASE ~(round < MaxRounds)
    <3>1. sess' = sess
      BY <1>3, <2>2
    <3> QED
      BY <3>1
  <2> QED
    BY <2>1, <2>2
<1>5. MaxRounds \in Nat /\ MaxRounds > 1 /\ round \in Nat /\ round <= MaxRounds
  <2>1. round \in 0..MaxRounds
    BY <1>2 DEF TypeOK
  <2>2. MaxRounds \in Nat \ {0, 1}
    BY SessionAssumption
  <2> QED
    BY <2>1, <2>2
<1>6. phase' \in {"finish", "sent"}
  BY <1>3
<1>7. PassOK' /\ OutputsOK' /\ SuccessMeansPulled'
  BY <1>1, <1>2, <1>4, <1>6 DEF PassOK, OutputsOK, Exchanges, SuccessMeansPulled, Dirty, Loop
<1>8. ASSUME NEW d \in DOMAIN sess
      PROVE  /\ SessionOK(d)'
             /\ Pushed(d)' \/ Pushing(d)'
             /\ memory # "kept" =>
                  seen[d] \subseteq server[d].doc /\ (Pulled(d)' \/ Pulling(d)')
  <2>1. /\ SessionOK(d)
        /\ Pushed(d) \/ Pushing(d)
        /\ memory # "kept" => seen[d] \subseteq server[d].doc /\ (Pulled(d) \/ Pulling(d))
    BY <1>2 DEF Sessions
  <2>2. Pushed(d) => Pushed(d)'
    BY <1>1 DEF Pushed
  <2>3. CASE ~(round < MaxRounds)
    <3>1. sess' = sess /\ round = MaxRounds /\ phase' = "finish"
      BY <1>3, <1>5, <2>3
    <3>2. SessionOK(d)'
      BY <1>1, <2>1, <3>1 DEF SessionOK
    <3>3. ~Pushing(d) /\ ~Pulling(d)
      BY <1>1, <1>5, <3>1 DEF Pushing, Pulling
    <3>4. Pulled(d) => Pulled(d)'
      BY <1>1, <3>1 DEF Pulled
    <3> QED
      BY <2>1, <2>2, <3>2, <3>3, <3>4
  <2>4. CASE round < MaxRounds
    <3>1. sess'[d] = Turn(sess[d])
      BY <1>3, <2>4
    <3>2. /\ sess'[d].doc = sess[d].doc \cup
               (IF sess[d].finished THEN {} ELSE sess[d].pending.changes)
          /\ sess[d].doc \cup sess[d].pending.changes
               \subseteq sess'[d].doc \cup sess'[d].pending.changes
          /\ sess'[d].pending.changes \subseteq server[d].doc
          /\ ~sess'[d].pending.real => sess'[d].pending.changes = {}
          /\ ~sess[d].finished => ~sess'[d].pending.real
          /\ sess'[d].outgoing.changes \subseteq sess'[d].doc
      BY <1>2, <2>1, <3>1, TurnKeeps
    <3>3. sess[d].finished => sess'[d] = sess[d]
      BY <3>1, TurnOver
    <3>4. /\ rows[d].doc \subseteq sess[d].doc
          /\ sess[d].doc \subseteq rows[d].doc \cup server[d].doc
          /\ sess[d].pending.changes \subseteq server[d].doc
          /\ ~sess[d].outgoing.real
      BY <1>1, <2>1 DEF SessionOK
    <3>5. rows[d].doc \subseteq sess'[d].doc /\ sess'[d].doc \subseteq rows[d].doc \cup server[d].doc
      BY <3>2, <3>4
    <3>6. sess'[d].outgoing.real => ~sess'[d].pending.real
      BY <3>2, <3>3, <3>4
    <3>7. SessionOK(d)'
      BY <1>1, <1>6, <3>2, <3>5, <3>6 DEF SessionOK
    <3>8. ~sess'[d].finished => phase' = "sent" /\ round' = round + 1
      BY <1>3, <1>5, <2>4
    <3>9. ASSUME ~Pushed(d), Pushing(d) PROVE Pushing(d)'
      <4>1. CASE round = 0 /\ Fresh(sess[d])
        <5>1. /\ sess'[d].outgoing.real /\ sess'[d].outgoing.heads = sess[d].doc
              /\ ~sess'[d].finished /\ ~sess'[d].prevOut.real /\ sess'[d].state.sent = {}
          BY <1>2, <3>1, <4>1, FreshTurn
        <5>2. phase' = "sent" /\ round' = 1
          BY <3>8, <4>1, <5>1
        <5> QED
          BY <1>1, <3>4, <5>1, <5>2 DEF Pushing
      <4>2. CASE /\ round = 1 /\ sess[d].pending.real /\ sess[d].state.sent = {}
                 /\ rows[d].doc \ server[d].doc \subseteq sess[d].pending.need
        <5>1. ~sess[d].finished
          BY <3>9 DEF Pushing
        <5>2. /\ sess'[d].outgoing.real /\ ~sess'[d].finished
              /\ rows[d].doc \ server[d].doc \subseteq sess'[d].outgoing.changes
          BY <1>2, <2>1, <3>1, <3>9, <4>2, <5>1, AskedTurn
        <5>3. phase' = "sent" /\ round' = 2
          BY <3>8, <4>2, <5>2
        <5> QED
          BY <1>1, <5>2, <5>3 DEF Pushing
      <4> QED
        BY <1>1, <3>9, <4>1, <4>2 DEF Pushing
    <3>10. Pulled(d) => Pulled(d)'
      BY <1>1, <3>2 DEF Pulled
    <3>11. ASSUME Pulling(d) PROVE Pulled(d)' \/ Pulling(d)'
      <4>1. CASE round = 0 /\ Fresh(sess[d])
        <5>1. sess'[d].outgoing.real /\ ~sess'[d].finished /\ ~sess'[d].prevOut.real
          BY <1>2, <3>1, <4>1, FreshTurn
        <5>2. phase' = "sent" /\ round' = 1
          BY <3>8, <4>1, <5>1
        <5> QED
          BY <5>1, <5>2 DEF Pulling
      <4>2. CASE round = 1 /\ sess[d].pending.real /\ seen[d] \subseteq sess[d].pending.heads
        <5>1. ~sess[d].finished
          BY <3>11 DEF Pulling
        <5>2. \/ seen[d] \subseteq sess'[d].doc
              \/ /\ sess'[d].outgoing.real /\ ~sess'[d].finished
                 /\ seen[d] \ sess'[d].doc \subseteq sess'[d].outgoing.need
          BY <1>2, <3>1, <4>2, <5>1, ToldTurn
        <5>3. CASE seen[d] \subseteq sess'[d].doc
          BY <1>1, <5>3 DEF Pulled
        <5>4. CASE /\ sess'[d].outgoing.real /\ ~sess'[d].finished
                   /\ seen[d] \ sess'[d].doc \subseteq sess'[d].outgoing.need
          <6>1. phase' = "sent" /\ round' = 2
            BY <3>8, <4>2, <5>4
          <6> QED
            BY <1>1, <5>4, <6>1 DEF Pulling
        <5> QED
          BY <5>2, <5>3, <5>4
      <4> QED
        BY <1>1, <3>11, <4>1, <4>2 DEF Pulling
    <3> QED
      BY <2>1, <2>2, <3>7, <3>9, <3>10, <3>11
  <2> QED
    BY <2>3, <2>4
<1>9. Sessions'
  BY <1>1, <1>4, <1>8 DEF Sessions
<1> QED
  BY <1>7, <1>9

LEMMA AnswersGood ==
  ASSUME ExchangeInductive, ServerAnswers
  PROVE  PassOK' /\ Sessions' /\ OutputsOK' /\ SuccessMeansPulled'
<1>1. /\ phase = "sent" /\ phase' = "answered"
      /\ UNCHANGED <<rows, memory, queue, round, outputs, seen>>
  BY DEF ServerAnswers
<1>2. TypeOK /\ ServerForgets /\ PassOK /\ Sessions /\ OutputsOK /\ SuccessMeansPulled
  BY DEF ExchangeInductive
<1>3. DOMAIN sess' = DOMAIN sess /\ DOMAIN sess \subseteq Doc /\ DOMAIN outputs \subseteq Doc
  BY <1>2 DEF ServerAnswers, TypeOK
<1>4. Asking \subseteq DOMAIN sess
  BY DEF Asking
<1>5. \A d \in Doc : d \in Asking => server'[d].doc = Serve(d).doc
  BY DEF ServerAnswers
<1>6. \A d \in Doc : d \notin Asking => server'[d] = server[d]
  BY DEF ServerAnswers
<1>7. \A d \in Asking : Serve(d).doc = server[d].doc \cup sess[d].outgoing.changes
  BY <1>2, <1>4, Served
<1>8. \A d \in Doc : server[d].doc \subseteq server'[d].doc
  BY <1>5, <1>6, <1>7
<1>9. PassOK' /\ SuccessMeansPulled'
  BY <1>1, <1>2, <1>3 DEF PassOK, SuccessMeansPulled, Dirty, Loop
<1>10. OutputsOK'
  BY <1>1, <1>2, <1>3, <1>8 DEF OutputsOK, Exchanges
<1>11. ASSUME NEW d \in DOMAIN sess
       PROVE  /\ SessionOK(d)'
              /\ Pushed(d)' \/ Pushing(d)'
              /\ memory # "kept" =>
                   seen[d] \subseteq server'[d].doc /\ (Pulled(d)' \/ Pulling(d)')
  <2>1. /\ SessionOK(d)
        /\ Pushed(d) \/ Pushing(d)
        /\ memory # "kept" => seen[d] \subseteq server[d].doc /\ (Pulled(d) \/ Pulling(d))
    BY <1>2 DEF Sessions
  <2>2. d \in Doc /\ server[d].doc \subseteq server'[d].doc
    BY <1>3, <1>8
  <2>3. Pushed(d) => Pushed(d)'
    BY <1>1, <2>2 DEF Pushed
  <2>4. /\ rows[d].doc \subseteq sess[d].doc
        /\ sess[d].doc \subseteq rows[d].doc \cup server[d].doc
        /\ sess[d].pending.changes \subseteq server[d].doc
        /\ ~sess[d].pending.real => sess[d].pending.changes = {}
        /\ sess[d].outgoing.changes \subseteq sess[d].doc
        /\ sess[d].outgoing.real => ~sess[d].pending.real
    BY <1>1, <2>1 DEF SessionOK
  <2>5. CASE d \notin Asking
    <3>1. sess'[d] = sess[d] /\ ~sess[d].outgoing.real
      BY <2>5 DEF ServerAnswers, Asking
    <3>2. SessionOK(d)'
      BY <1>1, <2>2, <2>4, <3>1 DEF SessionOK
    <3>3. ~Pushing(d) /\ ~Pulling(d)
      BY <1>1, <3>1 DEF Pushing, Pulling
    <3>4. Pulled(d) => Pulled(d)'
      BY <1>1, <3>1 DEF Pulled
    <3> QED
      BY <2>1, <2>2, <2>3, <3>2, <3>3, <3>4
  <2>6. CASE d \in Asking
    <3> DEFINE reply == Serve(d).reply
               m == sess[d].outgoing
               S == server'[d].doc
    <3>1. sess[d] \in Session /\ m.real
      BY <1>2, <2>6 DEF TypeOK, Asking
    <3>2. S = Serve(d).doc
      BY <1>5, <2>2, <2>6
    <3>3. sess'[d] = [sess[d] EXCEPT !.pending = reply]
      BY <2>6 DEF ServerAnswers
    <3>4. /\ S = server[d].doc \cup m.changes
          /\ reply.changes \subseteq S
          /\ ~reply.real => reply.changes = {} /\ m.heads = S
          /\ reply.real => reply.heads = S /\ reply.need = m.heads \ S
          /\ ~reply.real => server[d].state.responded
          /\ reply.real /\ server[d].state.sent = {} => m.need \cap S \subseteq reply.changes
      BY <1>2, <3>2, Served
    <3> HIDE DEF reply
    <3>5. /\ sess'[d].doc = sess[d].doc /\ sess'[d].pending = reply
          /\ sess'[d].outgoing = m /\ sess'[d].state = sess[d].state
          /\ sess'[d].prevOut = sess[d].prevOut /\ sess'[d].finished = sess[d].finished
      BY <3>1, <3>3 DEF Session
    <3> HIDE DEF m, S
    <3>6. sess'[d].doc \subseteq rows[d].doc \cup S
      BY <2>2, <2>4, <3>5 DEF S
    <3>7. SessionOK(d)'
      BY <1>1, <2>4, <3>4, <3>5, <3>6 DEF SessionOK, m, S
    <3>8. ASSUME Pushing(d) PROVE Pushed(d)' \/ Pushing(d)'
      <4>1. CASE /\ round = 1 /\ sess[d].state.sent = {} /\ ~sess[d].prevOut.real
                 /\ rows[d].doc \subseteq m.heads
        <5>1. CASE reply.real
          <6>1. rows[d].doc \ S \subseteq reply.need
            BY <3>4, <4>1, <5>1
          <6>2. AskedFor(d)'
            BY <1>1, <3>5, <4>1, <5>1, <6>1 DEF AskedFor, S
          <6>3. ~sess'[d].finished
            BY <3>5, <3>8 DEF Pushing
          <6> QED
            BY <1>1, <3>1, <3>5, <4>1, <6>2, <6>3 DEF Pushing
        <5>2. CASE ~reply.real
          BY <1>1, <3>4, <4>1, <5>2 DEF Pushed, S
        <5> QED
          BY <5>1, <5>2
      <4>2. CASE rows[d].doc \ server[d].doc \subseteq m.changes
        BY <1>1, <3>4, <4>2 DEF Pushed, S
      <4> QED
        BY <1>1, <3>8, <4>1, <4>2 DEF Pushing, m
    <3>9. Pulled(d) => Pulled(d)'
      <4>1. sess[d].pending.changes = {}
        BY <2>4, <3>1 DEF m
      <4> QED
        BY <1>1, <3>5, <4>1 DEF Pulled
    <3>10. ASSUME memory # "kept", Pulling(d) PROVE Pulled(d)' \/ Pulling(d)'
      <4>1. server[d].state.sent = {} /\ ~server[d].state.responded
        BY <1>2, <2>2, <3>10 DEF ServerForgets
      <4>2. reply.real /\ seen[d] \subseteq S
        BY <2>1, <2>2, <3>4, <3>10, <4>1 DEF S
      <4>3. CASE round = 1 /\ ~sess[d].prevOut.real
        <5>1. seen[d] \subseteq reply.heads
          BY <3>4, <4>2
        <5>2. ~sess'[d].finished
          BY <3>5, <3>10 DEF Pulling
        <5> QED
          BY <1>1, <3>1, <3>5, <4>2, <4>3, <5>1, <5>2 DEF Pulling
      <4>4. CASE seen[d] \ sess[d].doc \subseteq m.need
        <5>1. seen[d] \ sess[d].doc \subseteq reply.changes
          BY <3>4, <4>1, <4>2, <4>4
        <5> QED
          BY <1>1, <3>5, <5>1 DEF Pulled
      <4> QED
        BY <1>1, <3>10, <4>3, <4>4 DEF Pulling, m
    <3> QED
      BY <2>1, <2>2, <2>3, <3>7, <3>8, <3>9, <3>10
  <2> QED
    BY <2>5, <2>6
<1>12. Sessions'
  BY <1>1, <1>3, <1>11 DEF Sessions
<1> QED
  BY <1>9, <1>10, <1>12

LEMMA AcceptGood ==
  ASSUME ExchangeInductive, Accept
  PROVE  PassOK' /\ Sessions' /\ OutputsOK' /\ SuccessMeansPulled'
<1>1. /\ phase = "answered" /\ phase' = "round"
      /\ UNCHANGED <<rows, server, memory, queue, round, outputs, seen>>
  BY DEF Accept
<1>2. TypeOK /\ PassOK /\ Sessions /\ OutputsOK /\ SuccessMeansPulled
  BY DEF ExchangeInductive
<1>3. DOMAIN sess' = DOMAIN sess
  BY DEF Accept
<1>4. PassOK' /\ OutputsOK' /\ SuccessMeansPulled'
  BY <1>1, <1>2, <1>3 DEF PassOK, OutputsOK, Exchanges, SuccessMeansPulled, Dirty, Loop
<1>5. ASSUME NEW d \in DOMAIN sess
      PROVE  /\ SessionOK(d)'
             /\ Pushed(d)' \/ Pushing(d)'
             /\ memory # "kept" =>
                  seen[d] \subseteq server[d].doc /\ (Pulled(d)' \/ Pulling(d)')
  <2> DEFINE s == sess[d]
             t == sess'[d]
  <2>1. /\ SessionOK(d)
        /\ Pushed(d) \/ Pushing(d)
        /\ memory # "kept" => seen[d] \subseteq server[d].doc /\ (Pulled(d) \/ Pulling(d))
    BY <1>2 DEF Sessions
  <2>2. Pushed(d) => Pushed(d)'
    BY <1>1 DEF Pushed
  <2>3. /\ rows[d].doc \subseteq s.doc
        /\ s.doc \subseteq rows[d].doc \cup server[d].doc
        /\ s.pending.changes \subseteq server[d].doc
        /\ ~s.pending.real => s.pending.changes = {}
        /\ s.outgoing.changes \subseteq s.doc
    BY <2>1 DEF SessionOK
  <2>4. CASE d \notin Asking
    <3>1. t = s /\ ~s.outgoing.real
      BY <2>4 DEF Accept, Asking
    <3>2. SessionOK(d)'
      BY <1>1, <2>3, <3>1 DEF SessionOK
    <3>3. ~Pushing(d) /\ ~Pulling(d)
      BY <1>1, <3>1 DEF Pushing, Pulling
    <3>4. Pulled(d) => Pulled(d)'
      BY <1>1, <3>1 DEF Pulled
    <3> QED
      BY <2>1, <2>2, <3>2, <3>3, <3>4
  <2>5. CASE d \in Asking
    <3>1. s \in Session /\ s.pending \in Message /\ s.outgoing.real
      BY <1>2, <2>5 DEF TypeOK, Session, Asking
    <3>2. t = Answered([s EXCEPT !.pending = NoMessage], s.pending)
      BY <2>5 DEF Accept
    <3>3. /\ ~t.outgoing.real /\ t.outgoing.changes = {}
          /\ \/ /\ t.doc = s.doc /\ t.pending = s.pending /\ t.state = s.state
                /\ t.finished = s.finished
             \/ /\ s.outgoing = s.prevOut
                /\ t.doc = s.doc \cup (IF s.pending.real THEN s.pending.changes ELSE {})
                /\ ~t.pending.real
                /\ t.pending.changes = IF s.pending.real THEN {} ELSE s.pending.changes
      BY <3>1, <3>2, AnsweredSession
    <3> HIDE DEF s, t
    <3>4. /\ rows[d].doc \subseteq t.doc /\ t.doc \subseteq rows[d].doc \cup server[d].doc
          /\ t.pending.changes \subseteq server[d].doc
          /\ ~t.pending.real => t.pending.changes = {}
          /\ s.doc \cup s.pending.changes \subseteq t.doc \cup t.pending.changes
      BY <2>3, <3>3
    <3>5. SessionOK(d)'
      BY <1>1, <3>3, <3>4 DEF SessionOK, t
    <3>6. ~s.prevOut.real =>
            /\ t.pending = s.pending /\ t.state = s.state /\ t.finished = s.finished
      BY <3>1, <3>3
    <3>7. Pushing(d) => Pushing(d)'
      BY <1>1, <3>6 DEF Pushing, AskedFor, s, t
    <3>8. Pulled(d) => Pulled(d)'
      BY <1>1, <3>4 DEF Pulled, s, t
    <3>9. Pulling(d) => Pulling(d)'
      BY <1>1, <3>6 DEF Pulling, s, t
    <3> QED
      BY <2>1, <2>2, <3>5, <3>7, <3>8, <3>9
  <2> QED
    BY <2>4, <2>5
<1>6. Sessions'
  BY <1>1, <1>3, <1>5 DEF Sessions
<1> QED
  BY <1>4, <1>6

----------------------------------------------------------------------------
(* The theorems                                                            *)

LEMMA ForgetsStep ==
  ASSUME TypeOK, ServerForgets, [Next]_vars
  PROVE  ServerForgets'
<1>1. memory' = memory
  BY DEF Next, StartBatch, Prepare, ServerAnswers, Accept, CallFails, Finish, Save, Rest,
         Edit, OthersPush, vars
<1>2. CASE ServerAnswers
  <2>1. ASSUME memory # "kept", NEW state
        PROVE  Remembered(state).sent = {} /\ ~Remembered(state).responded
    BY <2>1 DEF Remembered, Connected, TypeOK
  <2>2. \A d \in Doc : \/ server'[d].state = Remembered(Serve(d).state)
                       \/ server'[d] = server[d]
    BY <1>2 DEF ServerAnswers
  <2> QED
    BY <1>1, <2>1, <2>2 DEF ServerForgets
<1>3. CASE \E d \in Doc : OthersPush(d)
  <2>1. \A d \in Doc : server'[d].state = server[d].state
    BY <1>3 DEF OthersPush, TypeOK
  <2> QED
    BY <1>1, <2>1 DEF ServerForgets
<1>4. CASE UNCHANGED server
  BY <1>1, <1>4 DEF ServerForgets
<1> QED
  BY <1>2, <1>3, <1>4 DEF Next, StartBatch, Prepare, Accept, CallFails, Finish, Save, Rest,
                          Edit, vars

LEMMA ExchangeStutters ==
  ASSUME ExchangeInductive, UNCHANGED vars
  PROVE  PassOK' /\ Sessions' /\ OutputsOK' /\ SuccessMeansPulled'
<1>1. UNCHANGED <<rows, server, memory, phase, queue, sess, round, outputs, seen>>
  BY DEF vars
<1>2. PassOK /\ Sessions /\ OutputsOK /\ SuccessMeansPulled
  BY DEF ExchangeInductive
<1>3. PassOK' /\ OutputsOK' /\ SuccessMeansPulled'
  BY <1>1, <1>2 DEF PassOK, OutputsOK, Exchanges, SuccessMeansPulled, Dirty, Loop
<1>4. \A d : /\ SessionOK(d)' <=> SessionOK(d)
             /\ Pushed(d)' <=> Pushed(d)
             /\ Pushing(d)' <=> Pushing(d)
             /\ Pulled(d)' <=> Pulled(d)
             /\ Pulling(d)' <=> Pulling(d)
  BY <1>1 DEF SessionOK, Pushed, Pushing, Pulled, Pulling, AskedFor, Fresh
<1> QED
  BY <1>1, <1>2, <1>3, <1>4 DEF Sessions

LEMMA ExchangeStep ==
  ASSUME ExchangeInductive, [Next]_vars
  PROVE  ExchangeInductive'
<1>1. TypeOK' /\ ServerForgets'
  BY TypesStep, ForgetsStep DEF ExchangeInductive
<1>2. PassOK' /\ Sessions' /\ OutputsOK' /\ SuccessMeansPulled'
  BY StartGood, PrepareGood, AnswersGood, AcceptGood, FailsGood, FinishGood, SaveGood,
     EditGood, PushGood, ExchangeStutters DEF Next, Rest
<1> QED
  BY <1>1, <1>2 DEF ExchangeInductive

LEMMA ExchangeInit ==
  ASSUME Init
  PROVE  ExchangeInductive
<1>1. TypeOK
  BY TypesInit
<1>2. /\ DOMAIN sess = {} /\ DOMAIN outputs = {} /\ queue = {} /\ phase = "idle"
      /\ \A d \in Doc : seen[d] = {}
  BY DEF Init, NoSessions
<1>3. \A d \in Doc : server[d].state.sent = {} /\ ~server[d].state.responded
  BY DEF Init, Connected
<1>4. PassOK /\ Sessions /\ OutputsOK /\ SuccessMeansPulled
  BY <1>2 DEF PassOK, Sessions, OutputsOK, SuccessMeansPulled, Loop
<1> QED
  BY <1>1, <1>3, <1>4 DEF ExchangeInductive, ServerForgets

\* Documents, sync states and messages keep their types in every round.
THEOREM SessionsTypeCorrect == Spec => []TypeOK
BY TypesInit, TypesStep, PTL DEF Spec

\* The inductive invariant: two calls of a pass (session.rs:184) push what the
\* row has and pull what the server had, and every output tells of both.
THEOREM ExchangeHolds == Spec => []ExchangeInductive
BY ExchangeInit, ExchangeStep, PTL DEF Spec

\* However many rounds are allowed beyond two, whatever repeats and whatever
\* filters claim: a row that is saved clean has the changes the server had
\* when its session began, unless the server keeps the live sync state.
THEOREM SuccessPulls == Spec => []SuccessMeansPulled
<1>1. ExchangeInductive => SuccessMeansPulled
  BY DEF ExchangeInductive
<1> QED
  BY <1>1, ExchangeHolds, PTL

LEMMA StepExchanges ==
  ASSUME ExchangeInductive, Next, NEW d \in Doc
  PROVE  Exchanged(d)!Next \/ UNCHANGED Exchanged(d)!vars
<1>1. TypeOK /\ PassOK /\ OutputsOK /\ Sessions
  BY DEF ExchangeInductive
<1>2. ASSUME rows'[d] = rows[d], server'[d].doc = server[d].doc
      PROVE  UNCHANGED Exchanged(d)!vars
  BY <1>2 DEF Exchanged!vars
<1>3. CASE StartBatch \/ Prepare \/ Accept \/ CallFails \/ Finish \/ Rest
  <2>1. UNCHANGED <<rows, server>>
    BY <1>3 DEF StartBatch, Prepare, Accept, CallFails, Finish, Rest, vars
  <2> QED
    BY <1>2, <2>1
<1>4. CASE ServerAnswers
  <2>1. rows' = rows
    BY <1>4 DEF ServerAnswers
  <2>2. CASE d \notin Asking
    <3>1. server'[d] = server[d]
      BY <1>4, <2>2 DEF ServerAnswers
    <3> QED
      BY <1>2, <2>1, <3>1
  <2>3. CASE d \in Asking
    <3>1. d \in DOMAIN sess /\ rows[d].dirty
      BY <1>1, <2>3 DEF Asking, PassOK, Dirty
    <3>2. server'[d].doc = Serve(d).doc
      BY <1>4, <2>3 DEF ServerAnswers
    <3>3. server'[d].doc = server[d].doc \cup sess[d].outgoing.changes
      BY <1>1, <3>1, <3>2, Served
    <3>4. sess[d].outgoing.changes \subseteq rows[d].doc \cup server[d].doc
      BY <1>1, <3>1 DEF Sessions, SessionOK
    <3>5. \E s \in SUBSET rows[d].doc : server'[d].doc = server[d].doc \cup s
      <4> WITNESS sess[d].outgoing.changes \cap rows[d].doc \in SUBSET rows[d].doc
      <4> QED
        BY <3>3, <3>4
    <3>6. Exchanged(d)!Push
      BY <2>1, <3>1, <3>5 DEF Exchanged!Push
    <3> QED
      BY <3>6 DEF Exchanged!Next
  <2> QED
    BY <2>2, <2>3
<1>5. CASE Save
  <2>1. server' = server
    BY <1>5 DEF Save
  <2>2. CASE ~(d \in DOMAIN outputs /\ outputs[d].ok)
    <3>1. rows'[d] = rows[d]
      BY <1>5, <2>2 DEF Save
    <3> QED
      BY <1>2, <2>1, <3>1
  <2>3. CASE d \in DOMAIN outputs /\ outputs[d].ok
    <3>1. rows'[d].doc = outputs[d].doc /\ rows'[d].dirty = FALSE
      BY <1>5, <2>3 DEF Save
    <3>2. rows[d].dirty
      BY <1>1, <2>3 DEF PassOK, Dirty
    <3>3. rows[d].doc \subseteq outputs[d].doc /\ outputs[d].doc \subseteq server[d].doc
      <4>1. Exchanges(d, outputs[d])
        BY <1>1, <2>3 DEF OutputsOK
      <4> QED
        BY <4>1, <2>3 DEF Exchanges
    <3>4. \E s \in SUBSET server[d].doc : rows'[d].doc = rows[d].doc \cup s
      <4> outputs[d].doc \in SUBSET server[d].doc
        BY <3>3
      <4> WITNESS outputs[d].doc \in SUBSET server[d].doc
      <4> QED
        BY <3>1, <3>3
    <3>5. Exchanged(d)!Succeed
      BY <2>1, <3>1, <3>2, <3>3, <3>4 DEF Exchanged!Succeed
    <3> QED
      BY <3>5 DEF Exchanged!Next
  <2> QED
    BY <2>2, <2>3
<1>6. ASSUME NEW x \in Doc, Edit(x)
      PROVE  Exchanged(d)!Next \/ UNCHANGED Exchanged(d)!vars
  <2>1. PICK c \in Mine[x] \ rows[x].doc :
          rows' = [rows EXCEPT ![x].doc = @ \cup {c}, ![x].dirty = TRUE]
    BY <1>6 DEF Edit
  <2>2. server' = server
    BY <1>6 DEF Edit
  <2>3. CASE x # d
    BY <1>1, <1>2, <2>1, <2>2, <2>3 DEF TypeOK
  <2>4. CASE x = d
    <3>1. rows'[d].doc = rows[d].doc \cup {c} /\ rows'[d].dirty = TRUE
      BY <1>1, <2>1, <2>4 DEF TypeOK
    <3>2. Exchanged(d)!Edit
      BY <2>2, <2>4, <3>1 DEF Exchanged!Edit
    <3> QED
      BY <3>2 DEF Exchanged!Next
  <2> QED
    BY <2>3, <2>4
<1>7. ASSUME NEW x \in Doc, OthersPush(x)
      PROVE  Exchanged(d)!Next \/ UNCHANGED Exchanged(d)!vars
  <2>1. PICK c \in Others[x] \ server[x].doc : server' = [server EXCEPT ![x].doc = @ \cup {c}]
    BY <1>7 DEF OthersPush
  <2>2. rows' = rows
    BY <1>7 DEF OthersPush
  <2>3. CASE x # d
    BY <1>1, <1>2, <2>1, <2>2, <2>3 DEF TypeOK
  <2>4. CASE x = d
    <3>1. server'[d].doc = server[d].doc \cup {c}
      BY <1>1, <2>1, <2>4 DEF TypeOK
    <3>2. Exchanged(d)!OthersPush
      BY <2>2, <2>4, <3>1 DEF Exchanged!OthersPush
    <3> QED
      BY <3>2 DEF Exchanged!Next
  <2> QED
    BY <2>3, <2>4
<1> QED
  BY <1>3, <1>4, <1>5, <1>6, <1>7 DEF Next

\* The rounds of a pass implement the exchange of every document: whatever
\* ended them, a row is saved clean only once its changes are on the server,
\* and nothing appears in a document that neither side had.
THEOREM RoundsAreAnExchange == Spec => ImplementsExchange
<1>1. Init => \A d \in Doc : Exchanged(d)!Init
  BY DEF Init, Exchanged!Init
<1>2. ExchangeInductive /\ [Next]_vars =>
        [\A d \in Doc : Exchanged(d)!Next \/ UNCHANGED Exchanged(d)!vars]_vars
  BY StepExchanges
<1> QED
  BY <1>1, <1>2, ExchangeHolds, PTL DEF Spec, ImplementsExchange

=============================================================================
