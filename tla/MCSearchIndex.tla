---------------------------- MODULE MCSearchIndex ----------------------------
(* Instances of SearchIndex for TLC: things x and z, callers s and t. *)
EXTENDS SearchIndex

CONSTANTS x, z, s, t
=============================================================================
