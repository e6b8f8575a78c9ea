--------------------------- MODULE ThingsLifecycle ---------------------------
(***************************************************************************)
(* The commands on collections and things of one device                    *)
(* (remi-client-sdk/src/things_local/, things_crdt.rs, and the collection  *)
(* operations of remi-things-crdt/src/ops.rs): create, update, move,       *)
(* archive into the trash, restore.                                        *)
(*                                                                         *)
(* A thing is an entry of a collection document.  Moving it tombstones the *)
(* entry it leaves and writes one in the document it goes to; an entry is  *)
(* never erased, and a later move back writes over what it still holds.    *)
(*                                                                         *)
(* A command loads the documents, changes the copies and saves them in one *)
(* step; one that fails saves nothing.                                     *)
(***************************************************************************)
EXTENDS Naturals, FiniteSets

CONSTANTS
  Thing,
  Entry,         \* content entries of a thing
  Collection,    \* the collections the user makes
  Drafts,        \* SYSTEM_DEFAULT_COLLECTION_ID
  Trash,         \* SYSTEM_TRASH_COLLECTION_ID
  Keep,          \* an optional argument that is left out
  Clear,         \* an empty parent
  NoThing,       \* no parent
  NoCollection,  \* nowhere, or not archived
  MaxMade        \* bound on the commands that make content entries

AnyCollection == Collection \cup {Drafts, Trash}

ASSUME LifecycleAssumption ==
  /\ IsFiniteSet(Thing)
  /\ Drafts # Trash
  /\ {Drafts, Trash} \cap Collection = {}
  /\ NoCollection \notin AnyCollection
  /\ {NoThing, Keep, Clear} \cap Thing = {}
  /\ Keep # Clear
  /\ MaxMade \in Nat

VARIABLES
  state,  \* [AnyCollection -> whether there is a document, and it is archived]
  meta,   \* [AnyCollection -> the entries of the things in that document]
  made

vars == <<state, meta, made>>

ParentArg == Thing \cup {Keep, Clear}

\* parent stands for parent_id, from for both archive attributes.
Meta == [there : {"no", "live", "dead"},
         parent : Thing \cup {NoThing},
         from : AnyCollection \cup {NoCollection},
         entries : SUBSET Entry]

TypeOK ==
  /\ state \in [AnyCollection -> {"absent", "active", "archived"}]
  /\ meta \in [AnyCollection -> [Thing -> Meta]]
  /\ made \in Nat

Blank == [there |-> "no", parent |-> NoThing, from |-> NoCollection, entries |-> {}]

Init ==
  /\ state = [c \in AnyCollection |-> "absent"]
  /\ meta = [c \in AnyCollection |-> [t \in Thing |-> Blank]]
  /\ made = 0

----------------------------------------------------------------------------
(* What the snapshot shows                                                 *)

IsLive(m, c, t) == m[c][t].there = "live"

\* The collection of a thing: the first of the snapshot that holds it.
Home(m, t) == IF \E c \in AnyCollection : IsLive(m, c, t)
              THEN CHOOSE c \in AnyCollection : IsLive(m, c, t)
              ELSE NoCollection

Exists(m, t) == Home(m, t) # NoCollection

\* The entry of a thing that exists.
Shown(m, t) == m[Home(m, t)][t]

\* Parents as a walk in one document reads them, and as the snapshot shows
\* them; both end where there is no live entry.
DocParents(m, c) == [t \in Thing |-> IF IsLive(m, c, t) THEN m[c][t].parent ELSE NoThing]
TreeParents(m) == [t \in Thing |-> IF Exists(m, t) THEN Shown(m, t).parent ELSE NoThing]

\* All that a walk from t along parents comes by; if it ends, it does so in
\* as many steps as there are things.
Above(parents, t) ==
  LET seen[n \in 0 .. Cardinality(Thing)] ==
        IF n = 0 THEN {parents[t]} \cap Thing
        ELSE LET s == seen[n - 1]
             IN s \cup ({parents[x] : x \in s} \cap Thing)
  IN seen[Cardinality(Thing)]

\* The walk from t ends.
Ends(parents, t) == \A x \in Above(parents, t) \cup {t} : x \notin Above(parents, x)

Descendants(m, t) == {x \in Thing : Exists(m, x) /\ t \in Above(TreeParents(m), x)}

----------------------------------------------------------------------------
(* Changes of the documents                                                *)

\* The system collections, made when they are missing.
Ensured(s, cs) == [c \in AnyCollection |-> IF c \in cs THEN "active" ELSE s[c]]
System == {Drafts, Trash}

\* A parent has to be live in the same document, and not below the thing.
ValidParent(m, c, t, p) ==
  p \in Thing => /\ p # t
                 /\ IsLive(m, c, p)
                 /\ t \notin Above(DocParents(m, c), p)
                 /\ Ends(DocParents(m, c), p)

Patched(old, p) == CASE p = Keep -> old
                     [] p = Clear -> NoThing
                     [] OTHER -> p

\* An entry that was tombstoned comes back with the parent and the content
\* entries it had.
Upserted(entry, p) ==
  [there |-> "live",
   parent |-> Patched(entry.parent, p),
   from |-> entry.from,
   entries |-> entry.entries]

\* Nothing reads the attributes of a tombstoned entry again.
Tombstoned(entry) == [entry EXCEPT !.there = "dead", !.from = NoCollection]

\* The content entries that are copied along when t goes to c.
Carried(m, t, c) == IF Home(m, t) # c THEN Shown(m, t).entries ELSE {}

\* Mutant: the entry that is left is not tombstoned.
PlacedTwice(m, t, c, p, more) ==
  [m EXCEPT ![c][t] = [Upserted(@, p) EXCEPT !.entries = @ \cup more]]

\* The documents after t has gone to c, with parent p; more are the content
\* entries that go with it.
Placed(m, t, c, p, more) ==
  [d \in AnyCollection |-> [m[d] EXCEPT ![t] =
     IF d = c THEN [Upserted(m[d][t], p) EXCEPT !.entries = @ \cup more]
     ELSE IF d = Home(m, t) THEN Tombstoned(@)
     ELSE @]]

\* Mutant: what is below the root gets the root's new parent.
CascadedEntryFlat(m, t, root, c, p, archive) ==
  [there |-> "live",
   parent |-> Patched(m[c][t].parent, p),
   from |-> IF archive THEN Home(m, t) ELSE NoCollection,
   entries |-> m[c][t].entries \cup Carried(m, t, c)]

\* The documents after t and what is below it have gone to c: one after the
\* other, parents first.  from is what becomes of the archive attributes.
CascadedEntry(m, t, root, c, p, archive) ==
  [there |-> "live",
   parent |-> Patched(m[c][t].parent, IF t = root THEN p ELSE Shown(m, t).parent),
   from |-> IF archive THEN Home(m, t) ELSE NoCollection,
   entries |-> m[c][t].entries \cup Carried(m, t, c)]

\* Mutant: a thing that is where it goes to is tombstoned as well.
CascadedAway(m, root, c, p, archive) ==
  LET moved == {root} \cup Descendants(m, root)
  IN [d \in AnyCollection |-> [t \in Thing |->
        IF t \in moved /\ d = Home(m, t) THEN Tombstoned(m[d][t])
        ELSE IF t \in moved /\ d = c THEN CascadedEntry(m, t, root, c, p, archive)
        ELSE m[d][t]]]

Cascaded(m, root, c, p, archive) ==
  LET moved == {root} \cup Descendants(m, root)
  IN [d \in AnyCollection |-> [t \in Thing |->
        IF t \in moved /\ d = c THEN CascadedEntry(m, t, root, c, p, archive)
        ELSE IF t \in moved /\ d = Home(m, t) THEN Tombstoned(m[d][t])
        ELSE m[d][t]]]

\* Collecting what is below the root ends, as the root is not below itself,
\* and every parent is valid when its turn comes: only what is above the root
\* in c can be in the way.
CanCascade(m, root, c, p, archive) ==
  LET below == Descendants(m, root)
      walk == DocParents(Cascaded(m, root, c, p, archive), c)
  IN /\ root \notin below
     /\ ValidParent(m, c, root, p)
     /\ below # {} => below \cap Above(walk, root) = {} /\ Ends(walk, root)

----------------------------------------------------------------------------
(* Commands on things                                                      *)

Makes(listed, new) ==
  IF listed /\ new # {} THEN made < MaxMade /\ made' = made + 1 ELSE UNCHANGED made

\* Creates, updates or moves a thing.  The payload may list the content
\* entries, data; without the list a move leaves the entries behind.
UpsertThing(t, c, p, listed, data) ==
  /\ Ensured(state, System)[c] # "absent"
  /\ ValidParent(meta, c, t, p)
  /\ state' = Ensured(state, System)
  /\ LET placed == Placed(meta, t, c, p, {})
     IN /\ meta' = IF listed THEN [placed EXCEPT ![c][t].entries = data] ELSE placed
        /\ Makes(listed, data \ placed[c][t].entries)

MoveThing(t, c, p) ==
  LET s == Ensured(state, {c} \cap System)
  IN /\ Exists(meta, t)
     /\ s[c] # "absent"
     /\ ValidParent(meta, c, t, p)
     /\ state' = s
     /\ meta' = Placed(meta, t, c, p, Carried(meta, t, c))
     /\ UNCHANGED made

\* Moves a thing and all that is below it into the trash.
DeleteThing(t) ==
  /\ Exists(meta, t)
  /\ ~ (Home(meta, t) = Trash /\ Shown(meta, t).from # NoCollection)
  /\ CanCascade(meta, t, Trash, Keep, TRUE)
  /\ state' = Ensured(state, {Trash})
  /\ meta' = Cascaded(meta, t, Trash, Keep, TRUE)
  /\ UNCHANGED made

\* Mutant: whether the collection is archived is not looked at.
OriginAnyhow(m, t) == IF state[Shown(m, t).from] # "absent" THEN Shown(m, t).from ELSE Drafts

\* Where a thing is restored to, when the caller names no collection.
Origin(m, t) == IF state[Shown(m, t).from] = "active" THEN Shown(m, t).from ELSE Drafts

\* c is NoCollection or the target the caller names.
RestoreThing(t, c, p) ==
  LET s == Ensured(state, {c} \cap System)
      target == IF c = NoCollection THEN Origin(meta, t) ELSE c
  IN /\ c # Trash
     /\ Exists(meta, t)
     /\ Shown(meta, t).from # NoCollection
     /\ c # NoCollection => s[c] = "active"
     /\ CanCascade(meta, t, target, p, FALSE)
     /\ state' = Ensured(s, {target} \cap System)
     /\ meta' = Cascaded(meta, t, target, p, FALSE)
     /\ UNCHANGED made

AddContentEntry(t, e) ==
  /\ Exists(meta, t)
  /\ meta' = [meta EXCEPT ![Home(meta, t)][t].entries = @ \cup {e}]
  /\ Makes(TRUE, {e} \ Shown(meta, t).entries)
  /\ UNCHANGED state

DeleteContentEntry(t, e) ==
  /\ Exists(meta, t)
  /\ e \in Shown(meta, t).entries
  /\ meta' = [meta EXCEPT ![Home(meta, t)][t].entries = @ \ {e}]
  /\ UNCHANGED <<state, made>>

----------------------------------------------------------------------------
(* Commands on collections                                                 *)

\* Creates, updates or, because the update is not archived, restores.
UpsertCollection(c) ==
  /\ state' = Ensured(state, System \cup {c})
  /\ UNCHANGED <<meta, made>>

EnsureAppCollection(c) ==
  /\ state' = Ensured(state, {c})
  /\ UNCHANGED <<meta, made>>

\* Archives a collection; what is in it stays there.
DeleteCollection(c) ==
  /\ state[c] = "active"
  /\ state' = [Ensured(state, System) EXCEPT ![c] = "archived"]
  /\ UNCHANGED <<meta, made>>

RestoreCollection(c) ==
  /\ state[c] = "archived"
  /\ state' = Ensured(state, System \cup {c})
  /\ UNCHANGED <<meta, made>>

Next ==
  \/ \E t \in Thing, c \in AnyCollection, p \in ParentArg,
        data \in SUBSET Entry : UpsertThing(t, c, p, TRUE, data)
  \/ \E t \in Thing, c \in AnyCollection, p \in ParentArg : UpsertThing(t, c, p, FALSE, {})
  \/ \E t \in Thing, c \in AnyCollection, p \in ParentArg : MoveThing(t, c, p)
  \/ \E t \in Thing : DeleteThing(t)
  \/ \E t \in Thing, c \in AnyCollection \cup {NoCollection}, p \in ParentArg :
       RestoreThing(t, c, p)
  \/ \E t \in Thing, e \in Entry : AddContentEntry(t, e) \/ DeleteContentEntry(t, e)
  \/ \E c \in Collection : \/ UpsertCollection(c)
                           \/ EnsureAppCollection(c)
                           \/ DeleteCollection(c)
                           \/ RestoreCollection(c)

Spec == Init /\ [][Next]_vars

----------------------------------------------------------------------------
(* Properties                                                              *)

\* A thing is live in one collection: every command that moves a thing, or all
\* that is below it, tombstones each entry it leaves.
OneHome ==
  \A t \in Thing : \A c, d \in AnyCollection :
    IsLive(meta, c, t) /\ IsLive(meta, d, t) => c = d

\* A live entry is in a document that exists: no command writes into a
\* collection that was never made.
LiveInDocument ==
  \A t \in Thing, c \in AnyCollection : IsLive(meta, c, t) => state[c] # "absent"

\* What is archived is in the trash, however it came in and out: a move out of
\* the trash, and a later move back, leave no archive attributes behind.
ArchivedInTrash ==
  \A t \in Thing, c \in AnyCollection : meta[c][t].from # NoCollection =>
    c = Trash /\ IsLive(meta, c, t)

\* The system collections are never archived.
SystemStays == \A c \in System : state[c] # "archived"

\* No entry, not even a tombstoned one, names its own thing as the parent: what
\* comes back with the parent it had is not below itself.
NoOwnParent == \A t \in Thing, c \in AnyCollection : meta[c][t].parent # t

\* The inductive invariant: the parts hold each other up.
Inductive ==
  TypeOK /\ OneHome /\ LiveInDocument /\ ArchivedInTrash /\ SystemStays /\ NoOwnParent

\* No command makes a thing disappear from the snapshot: what is deleted can
\* still be restored.
ThingsStay == [][\A t \in Thing : Exists(meta, t) => Exists(meta', t)]_vars

\* Archiving takes the content entries along, those of the things below too.
\* The entries of the origin and of the trash are different lists.
ArchiveKeepsEntries ==
  [][\A t \in Thing :
       LET archived == Exists(meta, t) /\ Shown(meta, t).from = NoCollection
                       /\ Exists(meta', t) /\ Shown(meta', t).from # NoCollection
       IN archived => Shown(meta, t).entries \subseteq Shown(meta', t).entries]_vars

\* A restore that names no target leaves neither the thing nor what is below it
\* archived, and brings all to one collection that is not archived, whatever
\* has become of the one they came from; into the trash only what had been
\* there before it was deleted.
RestoreReaches ==
  \A t \in Thing :
    LET to == Origin(meta, t)
        back == Cascaded(meta, t, to, Keep, FALSE)
    IN Exists(meta, t) /\ Shown(meta, t).from # NoCollection =>
         /\ Ensured(state, {to} \cap System)[to] = "active"
         /\ to = Trash => Shown(meta, t).from = Trash
         /\ \A x \in {t} \cup Descendants(meta, t) :
              Home(back, x) = to /\ Shown(back, x).from = NoCollection

\* A restore that follows a deletion undoes it: if a thing and all below it are
\* in one collection, each comes back there, under its parent, with its entries
\* (and perhaps with entries that were deleted in another collection).  Below a
\* cycle of parents a thing can be deleted, but its restore walks for ever.
RoundTrip ==
  \A t \in Thing :
    LET home == Home(meta, t)
        moved == {t} \cup Descendants(meta, t)
        gone == Cascaded(meta, t, Trash, Keep, TRUE)
        back == Cascaded(gone, t, home, Keep, FALSE)
    IN Exists(meta, t) /\ home # Trash /\ state[home] = "active"
       /\ (\A x \in moved : Home(meta, x) = home)
       /\ CanCascade(meta, t, Trash, Keep, TRUE)
       /\ Ends(DocParents(meta, home), t)
       => /\ Shown(gone, t).from = home
          /\ CanCascade(gone, t, home, Keep, FALSE)
          /\ \A x \in moved :
               /\ Home(back, x) = home
               /\ Shown(back, x).parent = Shown(meta, x).parent
               /\ Shown(meta, x).entries \subseteq Shown(back, x).entries

=============================================================================
