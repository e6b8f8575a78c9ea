--------------------------- MODULE MCSyncSession ---------------------------
(* Instances of SyncSession for TLC: two documents in a batch, a change of   *)
(* this device and of another one in each.                                   *)
EXTENDS SyncSession, TLC

CONSTANTS root, coll, r0, r1, R1, k1, k2, K1

MCDoc == {root, coll}

MCMine == (root :> {r1}) @@ (coll :> {k1, k2})

MCOthers == (root :> {R1}) @@ (coll :> {K1})

MCCommon == (root :> {r0}) @@ (coll :> {})

MCWrong == {{}, {k1}, {K1}, {k1, K1}}
=============================================================================
