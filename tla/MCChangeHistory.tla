-------------------------- MODULE MCChangeHistory --------------------------
(* Instances of ChangeHistory for TLC. *)
EXTENDS ChangeHistory, TLC

CONSTANTS p, q, e, k, drafts, trash, keep, clear, none, nowhere, nosnap, a, b

\* q may be below p.
ParentsOfTwo == (p :> {keep}) @@ (q :> {keep, p})

ParentsOfOne == p :> {keep}

OneOrNone == {{}, {p}}
Both == {{p, q}}

CallersAlike == Permutations(Caller)
=============================================================================
