---------------------------- MODULE VirtualPaths ----------------------------
(***************************************************************************)
(* The virtual file system over the things of one device                   *)
(* (remi-client-sdk/src/runtime/path_tools.rs): agents create, edit,       *)
(* delete and move what a path names.  Each call decodes its paths and     *)
(* runs one command of ThingsLifecycle.                                    *)
(*                                                                         *)
(* The path of a thing, /collection/{c}/things/{t}, has the collection the *)
(* thing was in when the path was made.  No command looks at it: the thing *)
(* is found by its own name, wherever it is by now.                        *)
(***************************************************************************)
EXTENDS ThingsLifecycle

\* /collection/{c}/things and /collection/{c}/things/{t}/things
ThingsDir == [collection : AnyCollection, thing : Thing \cup {NoThing}]

\* The parent argument of a command, left out where there is no parent.
Optional(parent) == IF parent = NoThing THEN Keep ELSE parent

\* create_virtual_path: the payload of a thing is a text without a list of
\* content entries, and its name may be one that is in use.
CreateAt ==
  \/ \E c \in Collection : UpsertCollection(c)
  \/ \E dir \in ThingsDir, t \in Thing :
       UpsertThing(t, dir.collection, Optional(dir.thing), FALSE, {})
  \/ \E t \in Thing, e \in Entry : AddContentEntry(t, e)

\* A new name for a collection restores it if it is archived.
RenameCollection(c) ==
  /\ state[c] # "absent"
  /\ UpsertCollection(c)

\* A new name for a thing where the snapshot shows it, under its parent.
RenameThing(t) ==
  /\ Exists(meta, t)
  /\ UpsertThing(t, Home(meta, t), Optional(Shown(meta, t).parent), FALSE, {})

\* edit_virtual_path; what it writes of texts, statuses and payloads is not in
\* the state.
EditAt ==
  \/ \E c \in Collection : RenameCollection(c)
  \/ \E t \in Thing : RenameThing(t)

\* delete_virtual_path: a directory, or a content entry.
DeleteAt ==
  \/ \E c \in Collection : DeleteCollection(c)
  \/ \E t \in Thing : DeleteThing(t)
  \/ \E t \in Thing, e \in Entry : DeleteContentEntry(t, e)

\* move_virtual_path
MoveAlong ==
  \E t \in Thing, to \in ThingsDir : MoveThing(t, to.collection, Optional(to.thing))

PathCommand == CreateAt \/ EditAt \/ DeleteAt \/ MoveAlong

\* Agents use paths while the user gives commands.
PathSpec == Init /\ [][Next \/ PathCommand]_vars

=============================================================================
