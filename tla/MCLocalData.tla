----------------------------- MODULE MCLocalData -----------------------------
(* Instances of LocalData for TLC: two users, one family of rows, two calls. *)
EXTENDS LocalData, TLC

CONSTANTS a, b, k1, c1, c2, none, absent

\* Calls are alike, and so are users.
DataSymmetry == Permutations(Call) \cup Permutations(User)
=============================================================================
