--------------------------- MODULE MCUserServices ---------------------------
(* Instances of UserServices for TLC: a host that asks for the profile, one  *)
(* call against another of any kind, and a host that keeps the channel.      *)
EXTENDS UserServices, TLC

OneAtATime == {{"profile"}, {"realtime"}}

AnyAgainstGet ==
  (1 :> {"get", "refresh"}) @@ (2 :> {"get", "refresh", "update", "upload"})
=============================================================================
