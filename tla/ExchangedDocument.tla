------------------------- MODULE ExchangedDocument -------------------------
(***************************************************************************)
(* What a document's synchronisation with the server promises, whatever    *)
(* the rounds it takes: changes reach the server a few at a time, and when *)
(* the device reports success the two have exchanged theirs.  The exchange *)
(* steps of DocumentSync (things_sync.rs) rely on it.                      *)
(***************************************************************************)
CONSTANTS Mine, Others

VARIABLES
  mine,     \* the changes in the device's document
  theirs,   \* the changes in the server's document
  clean     \* whether the device takes its document to be synchronised

vars == <<mine, theirs, clean>>

Init ==
  /\ mine = theirs
  /\ clean = TRUE

Edit ==
  /\ \E c \in Mine \ mine : mine' = mine \cup {c}
  /\ clean' = FALSE
  /\ UNCHANGED theirs

OthersPush ==
  /\ \E c \in Others \ theirs : theirs' = theirs \cup {c}
  /\ UNCHANGED <<mine, clean>>

\* A call takes some of the device's changes to the server.
Push ==
  /\ ~clean
  /\ theirs' \in {theirs \cup s : s \in SUBSET mine}
  /\ UNCHANGED <<mine, clean>>

\* The device reports success.
Succeed ==
  /\ ~clean
  /\ mine \subseteq theirs
  /\ mine' \in {mine \cup s : s \in SUBSET theirs}
  /\ clean' = TRUE
  /\ UNCHANGED theirs

Next == Edit \/ OthersPush \/ Push \/ Succeed

Spec == Init /\ [][Next]_vars
=============================================================================
