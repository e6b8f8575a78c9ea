-------------------------- MODULE MCThingsLifecycle --------------------------
(* Instances of ThingsLifecycle for TLC. *)
EXTENDS VirtualPaths, TLC

CONSTANTS p, q, e, k, drafts, trash, keep, clear, none, nowhere

\* Things are alike.
ThingSymmetry == Permutations(Thing)
=============================================================================
