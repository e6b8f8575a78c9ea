--------------------------- MODULE DurableChanges ---------------------------
(***************************************************************************)
(* What the document synchronisation of a device promises: the changes its *)
(* user makes are kept on the device until the server has them.  A change  *)
(* is owed if it was made while the promise stood; only a logout releases  *)
(* it.  A change that is not owed, or that is published, may be lost from  *)
(* the device.  What the device keeps it made itself or received; a logout *)
(* empties it, and then only the copies that a run in progress holds can   *)
(* come back.                                                              *)
(***************************************************************************)
CONSTANTS
  Mine,      \* changes this device can make
  Others,    \* changes other devices can make
  Start      \* changes published before the device starts

VARIABLES
  kept,       \* changes on the device
  held,       \* the copies that a run in progress holds in memory
  owed,       \* changes the device must not lose before they are published
  published,  \* changes on the server
  ever        \* changes of this device so far

vars == <<kept, held, owed, published, ever>>

Init ==
  /\ kept = {}
  /\ held = {}
  /\ owed = {}
  /\ published = Start
  /\ ever = {}

\* The user makes change c, owed by the device or not.
Make(c) ==
  /\ c \notin ever
  /\ ever' = ever \cup {c}
  /\ kept' = kept \cup {c}
  /\ owed' \in {owed, owed \cup {c}}
  /\ UNCHANGED <<held, published>>

\* The device loses the changes S, none of them owed and unpublished.
Lose(S) ==
  /\ S \cap owed \subseteq published
  /\ kept' = kept \ S
  /\ UNCHANGED <<held, owed, published, ever>>

\* A run copies the changes S, or lets go of what it copied.
Copy(S) ==
  /\ S \subseteq kept
  /\ held' = S
  /\ UNCHANGED <<kept, owed, published, ever>>

\* A run writes back all that it copied.
WriteBack ==
  /\ kept' = kept \cup held
  /\ held' = {}
  /\ UNCHANGED <<owed, published, ever>>

\* A logout.
Forget ==
  /\ kept' = {}
  /\ owed' = {}
  /\ UNCHANGED <<held, published, ever>>

\* The server gets changes of this device or of others.
Publish(S) ==
  /\ S \subseteq ever \cup Others
  /\ published' = published \cup S
  /\ UNCHANGED <<kept, held, owed, ever>>

\* The device gets published changes.
Receive(S) ==
  /\ S \subseteq published
  /\ kept' = kept \cup S
  /\ UNCHANGED <<held, owed, published, ever>>

Next ==
  \/ \E c \in Mine : Make(c)
  \/ \E S \in SUBSET (Mine \cup Others) :
       Lose(S) \/ Copy(S) \/ Publish(S) \/ Receive(S)
  \/ WriteBack
  \/ Forget

Spec == Init /\ [][Next]_vars
=============================================================================
