--------------------------- MODULE MCCrdtReplicas ---------------------------
(* Two replicas, so that two documents of one uuid are made apart and      *)
(* changes meet.  The edits of each instance are as many as its hazards    *)
(* need.                                                                   *)
EXTENDS CrdtReplicas

MCReplicas == {1, 2}

Nothing == [collections |-> {}, things |-> {}, entries |-> {}, blocks |-> {}, parents |-> {""}]

MCInstances ==
  { [type |-> "root", collections |-> {"c", "d"}, edits |-> 3] @@ Nothing,
    [type |-> "collection", things |-> {"a", "b"}, parents |-> {"", "clear", "a", "b"}, edits |-> 2] @@ Nothing,
    [type |-> "collection", things |-> {"a"}, entries |-> {"e"}, edits |-> 2] @@ Nothing,
    [type |-> "content", blocks |-> {"main"}, edits |-> 3] @@ Nothing,
    [type |-> "legacy", things |-> {"a", "b"}, collections |-> {"c"}, parents |-> {"", "a"}, edits |-> 2] @@ Nothing,
    [type |-> "legacy", things |-> {"a"}, collections |-> {"c"}, parents |-> {"", "clear"}, blocks |-> {"main"},
     edits |-> 2] @@ Nothing }

SmallInstances ==
  { [type |-> "root", collections |-> {"c"}, edits |-> 1] @@ Nothing,
    [type |-> "collection", things |-> {"a"}, edits |-> 1] @@ Nothing }
=============================================================================
