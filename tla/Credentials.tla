---------------------------- MODULE Credentials ----------------------------
(***************************************************************************)
(* Whose credentials AuthClient holds (remi-client-sdk/src/auth.rs), as    *)
(* far as the other services of the SDK can see.  AuthSession models how   *)
(* the tokens themselves are kept and refreshed.                           *)
(***************************************************************************)
CONSTANTS User, NoUser

ASSUME UserAssumption == NoUser \notin User

VARIABLE user
=============================================================================
