--------------------------- MODULE AutomergeSync ---------------------------
(***************************************************************************)
(* The sync protocol of the automerge library, which crdt_sync.rs drives   *)
(* on this side and the server on the other: a peer tells the other which  *)
(* changes it has, in a Bloom filter, and sends those the other's filter   *)
(* does not claim.  A filter may claim a change that is not there; the     *)
(* change is then asked for by name.                                       *)
(*                                                                         *)
(* The changes of a document are taken to be concurrent, so its heads are  *)
(* all of them.  Documents only grow, so the protocol's reset after a peer *)
(* lost a common change does not arise.                                    *)
(***************************************************************************)
EXTENDS FiniteSets

NoMessage == [heads |-> {}, need |-> {}, have |-> {}, changes |-> {}, real |-> FALSE]

\* sync::State: of these, encode keeps the shared heads alone.
Connected(shared) ==
  [shared |-> shared, lastSent |-> {}, theirs |-> NoMessage, sent |-> {},
   inFlight |-> FALSE, responded |-> FALSE]

\* What a filter of the changes s claims; it errs by claiming those of wrong.
Claimed(s, wrong) == IF s = {} THEN {} ELSE s \cup wrong

ToSend(doc, theirs) ==
  LET since == UNION {doc \ (h.last \cup h.claims) : h \in theirs.have}
  IN  (since \cup (theirs.need \cap doc))

(* generate_sync_message: [state, out], out being NoMessage when there is  *)
(* nothing to say.                                                         *)
Generate(doc, s, wrong) ==
  LET changes == ToSend(doc, s.theirs) \ s.sent
      agreed == s.theirs.real /\ s.theirs.heads = doc /\ changes = {}
      silent == s.responded /\ s.lastSent = doc /\ (agreed \/ s.inFlight)
      message == [heads |-> doc, need |-> s.theirs.heads \ doc,
                  have |-> {[last |-> s.shared, claims |-> Claimed(doc \ s.shared, wrong)]},
                  changes |-> changes, real |-> TRUE]
  IN  IF silent
      THEN [state |-> s, out |-> NoMessage]
      ELSE [state |-> [s EXCEPT !.responded = TRUE, !.lastSent = doc,
                                !.sent = @ \cup changes, !.inFlight = TRUE],
            out |-> message]

(* receive_sync_message: [doc, state].                                     *)
Receive(doc, s, m) ==
  LET merged == doc \cup m.changes
      shared == IF m.heads \subseteq merged
                THEN m.heads
                ELSE s.shared \cup (merged \ doc) \cup (m.heads \cap merged)
      agreed == m.changes = {} /\ m.heads = doc
  IN  [doc |-> merged,
       state |-> [s EXCEPT !.shared = shared, !.theirs = m, !.inFlight = FALSE,
                           !.sent = IF m.heads = {} THEN {} ELSE @ \ m.heads,
                           !.lastSent = IF m.heads = {} THEN {}
                                        ELSE IF agreed THEN doc ELSE @]]
=============================================================================
