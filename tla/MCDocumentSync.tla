--------------------------- MODULE MCDocumentSync ---------------------------
(* Instances of DocumentSync for TLC: a collection k and the content document *)
(* m that its changes link.                                                  *)
EXTENDS DocumentSync

CONSTANTS k, m, k1, k2, m1, K1, K2, M1

MCRank == [d \in Doc |-> IF d = k THEN 1 ELSE 2]

MCDocOf == [c \in Change |-> IF c \in {k1, k2, K1, K2} THEN k ELSE m]

MCLinks == {<<k1, m>>, <<K1, m>>}

\* The first change of the collection does not link the content yet.
MCLateLinks == {<<K2, m>>}

\* The device's second change of the collection drops the content again.
MCUnlinks == {<<k2, m>>}
=============================================================================
