---------------------------- MODULE UserServices ----------------------------
(***************************************************************************)
(* The services that follow the signed-in user, side by side: the profile  *)
(* cache and the realtime channel.  They share nothing but the credentials *)
(* of AuthClient, which both read whenever they send a token; the host     *)
(* starts and stops the channel by itself, at any distance from the        *)
(* sign-in and the sign-out.                                               *)
(***************************************************************************)
EXTENDS ProfileCache, Realtime

CONSTANT Uses   \* the services that a host may use: sets of "profile", "realtime"

VARIABLE uses   \* those that this host uses

vars == <<uses, pvars, rvars>>

Init ==
  /\ uses \in Uses
  /\ ProfileInit
  /\ RealtimeInit

Profile ==
  /\ "profile" \in uses
  /\ ConfiguresAgain \/ \E c \in Call : ProfileStep(c)
  /\ UNCHANGED rvars

Channel ==
  /\ "realtime" \in uses
  /\ ManagerStep \/ \E w \in DOMAIN workers : WorkerStep(w)
  /\ UNCHANGED pvars

Next ==
  /\ \/ Profile
     \/ Channel
     \/ SignStep /\ UNCHANGED rvars
  /\ UNCHANGED uses

Fairness == WorkerFairness

Spec == Init /\ [][Next]_vars /\ Fairness
=============================================================================
