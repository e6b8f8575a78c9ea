---------------------------- MODULE MCAuthSession ----------------------------
(* Instances of AuthSession for TLC: users a, b and calls s, t. *)
EXTENDS AuthSession, TLC

CONSTANTS a, b, s, t, none

\* Users and calls are alike; only the safety runs use it.
AuthSymmetry == Permutations(User) \cup Permutations(Task)
=============================================================================
