---------------------------- MODULE CrdtReplicas ----------------------------
(***************************************************************************)
(* Replicas that edit one document on their own, with the operations of    *)
(* CrdtDocuments, and take over each other's changes in any order.  A      *)
(* behaviour follows one document, of one of the four types.               *)
(*                                                                         *)
(* A title and a piece of text are the name of the operation that comes    *)
(* next when they are written, so every edit can be told from every other. *)
(***************************************************************************)
EXTENDS CrdtDocuments

CONSTANTS
  Replicas,     \* the actors; automerge orders them
  Instances     \* the documents to follow, with their bounds: records of
                \*   type         "root", "collection", "content" or "legacy"
                \*   collections, things, entries, blocks   the names in use
                \*   parents      the parents given, "" for none, "clear" to take it away
                \*   edits        bound: the edits in one behaviour

ASSUME ReplicasAssumption == Replicas \subseteq Nat \ {0}

(* Things are named by UUIDs, which are the name of no field.              *)
ASSUME InstancesAssumption ==
  \A x \in Instances :
    /\ x.type \in {"root", "collection", "content", "legacy"}
    /\ IsFiniteSet(x.things) /\ x.things \cap FieldKeys = {}

VARIABLES
  instance,     \* the document of this behaviour
  doc,          \* each replica's copy of it
  edits         \* edits made so far

replicaVars == <<instance, doc, edits>>

type == instance.type
Collections == instance.collections
Things == instance.things
Entries == instance.entries
Blocks == instance.blocks

ReplicasInit ==
  /\ instance \in Instances
  /\ doc = [r \in Replicas |-> NewDoc]
  /\ edits = 0

-----------------------------------------------------------------------------
Becomes(r, new) ==
  /\ edits < instance.edits
  /\ edits' = edits + 1
  /\ doc' = [doc EXCEPT ![r] = new]
  /\ UNCHANGED instance

Opened(r, t) == type = t /\ doc[r] # NewDoc

NewTitle(r) == <<doc[r].top + 1, r>>

(* A replica that has no copy yet starts one of its own: the SDK makes a   *)
(* document at its first use, whatever the other devices have.             *)
Blank(t, r) ==
  CASE t = "root"       -> InitRoot(r)
    [] t = "collection" -> InitCollection(r)
    [] t = "content"    -> InitContent(r)
    [] t = "legacy"     -> EnsureRoot(NewDoc, r)

Create(r) ==
  /\ doc[r] = NewDoc
  /\ doc' = [doc EXCEPT ![r] = Blank(type, r)]
  /\ UNCHANGED <<instance, edits>>

EditRoot(r) ==
  /\ Opened(r, "root")
  /\ \/ \E c \in Collections : Becomes(r, AddCollection(doc[r], r, c))
     \/ \E c \in Collections : Becomes(r, AddMembership(doc[r], r, c))
     \/ \E c \in Collections : Becomes(r, RemoveCollection(doc[r], c))
     \/ Becomes(r, IncrementEpoch(doc[r], r))

Patch(p) == IF p = "clear" THEN "" ELSE p

Written(r, t, p) == UpsertThing(doc[r], r, t, NewTitle(r), p, [do |-> "none"])

WriteThing(r) ==
  /\ Opened(r, "collection")
  /\ CollectionIsLive(doc[r])
  /\ \E t \in Things, p \in instance.parents :
       /\ ValidParent(doc[r], t, Patch(p))
       /\ Becomes(r, Written(r, t, p))

WithEntry(r, t, id, change) ==
  UpsertThing(doc[r], r, t, NoTitle, "", [do |-> change, id |-> id, data |-> NewTitle(r)])

HasEntry(d, t, id) == t \in LiveThings(d) /\ PayloadOf(d, t, id) # NoTitle

WriteEntry(r) ==
  /\ Opened(r, "collection")
  /\ \E t \in Things, id \in Entries, change \in {"add", "update", "delete"} :
       /\ change = "delete" => HasEntry(doc[r], t, id)
       /\ Becomes(r, WithEntry(r, t, id, change))

EraseThing(r) ==
  /\ Opened(r, "collection")
  /\ CollectionIsLive(doc[r])
  /\ \E t \in Things : t \in LiveThings(doc[r]) /\ Becomes(r, DeleteThing(doc[r], r, t))

(* The operations of apply_collection_op that the SDK does not use. *)
EditCollection(r) ==
  /\ Opened(r, "collection")
  /\ \/ Becomes(r, UpdateMeta(doc[r], r, NewTitle(r)))
     \/ Becomes(r, DeleteMeta(doc[r], r))
     \/ Becomes(r, DeleteThings(doc[r], r, SetToSeq(Things)))
     \/ \E t \in Things : Becomes(r, MoveThingHere(doc[r], r, t))

EditContent(r) ==
  /\ Opened(r, "content")
  /\ \E b \in Blocks :
       \/ Becomes(r, SetContent(doc[r], r, b, <<NewTitle(r)>>))
       \/ \E i \in 0 .. 1 : Becomes(r, InsertBlock(doc[r], r, i, b, <<NewTitle(r)>>))
       \/ Becomes(r, DeleteBlock(doc[r], b))
       \/ \E i \in 0 .. 2 : CanMoveBlock(doc[r], b, i) /\ Becomes(r, MoveBlock(doc[r], r, b, i))

(* try_splice_thing_text: when the block is missing the content is set. *)
SpliceThing(r) ==
  /\ Opened(r, "content")
  /\ \E b \in Blocks, i, n \in 0 .. 1 :
       IF BlocksNamed(doc[r], BlockList(doc[r]), b) = <<>>
       THEN i = 0 /\ n = 0 /\ Becomes(r, SetContent(doc[r], r, b, <<NewTitle(r)>>))
       ELSE Becomes(r, SpliceText(doc[r], r, b, i, n, NewTitle(r)))

EditLegacy(r) ==
  /\ Opened(r, "legacy")
  /\ LET d == EnsureRoot(doc[r], r)
     IN  \/ \E c \in Collections : Becomes(r, UpsertEntity(d, r, "collections", c, NewTitle(r)))
         \/ \E c \in Collections :
              /\ \A t \in ThingsOf(d, c) : CascadeEnds(d, t)
              /\ Becomes(r, DeleteCollection(d, r, c))
         \/ \E t \in Things, c \in Collections, p \in instance.parents :
              Becomes(r, UpsertInCollection(d, r, t, c, NewTitle(r), p))
         \/ \E t \in Things : CascadeEnds(d, t) /\ Becomes(r, DeleteWithChildren(d, r, t))
         \/ \E t \in Things, c \in Collections : Becomes(r, MoveToCollection(d, r, t, c))
         \/ \E t \in Things : Becomes(r, SetThingStatus(d, r, t, NewTitle(r)))

(* Blocks are written in a thing that was made before. *)
EditLegacyBlocks(r) ==
  /\ Opened(r, "legacy")
  /\ LET d == EnsureRoot(doc[r], r)
     IN  \E t \in LiveEntities(d, "things"), b \in Blocks :
           \/ Becomes(r, SetThingContent(d, r, t, b, <<NewTitle(r)>>))
           \/ Becomes(r, InsertThingBlock(d, r, t, 0, b, <<NewTitle(r)>>))
           \/ Becomes(r, DeleteThingBlock(d, r, t, b))
           \/ \E i \in 0 .. 1 : Becomes(r, MoveThingBlock(d, r, t, b, i))
           \/ LET d1 == WithBlocks(d, r, t)
              IN  /\ BlocksNamed(d1, ThingBlocks(d1, t), b) # <<>>
                  /\ Becomes(r, SpliceThingText(d1, r, t, b, 0, 1, NewTitle(r)))

Receive(r, q) ==
  /\ doc[q] # NewDoc
  /\ Agree(doc[r], doc[q])
  /\ Merge(doc[r], doc[q]) # doc[r]
  /\ doc' = [doc EXCEPT ![r] = Merge(doc[r], doc[q])]
  /\ UNCHANGED <<instance, edits>>

ReplicasNext ==
  \/ \E r \in Replicas :
       \/ Create(r) \/ EditRoot(r) \/ WriteThing(r) \/ WriteEntry(r) \/ EraseThing(r)
       \/ EditCollection(r) \/ EditContent(r) \/ SpliceThing(r) \/ EditLegacy(r)
       \/ EditLegacyBlocks(r)
  \/ \E r, q \in Replicas : Receive(r, q)

ReplicasSpec == ReplicasInit /\ [][ReplicasNext]_replicaVars

-----------------------------------------------------------------------------
(* What two replicas know of one document can always be put together: no   *)
(* operation name is used twice, but for the blocks that move_block of the *)
(* older schema moves under an actor all replicas share.                   *)
MergesAgree ==
  \A r, q \in Replicas : \A i \in DOMAIN doc[r].ops \cap DOMAIN doc[q].ops :
    doc[r].ops[i] # doc[q].ops[i] => type = "legacy" /\ i[2] = MoveActor

(* Root documents that were made on their own lose no collection when they *)
(* meet: what is missing from the merge, the other replica removed         *)
(* (extract_root_view_from_doc reads every list).                          *)
NoCollectionDropped ==
  type = "root" =>
    \A r, q \in Replicas : \A c \in RootUuids(doc[r]) :
      \/ c \in RootUuids(Merge(doc[r], doc[q]))
      \/ \E list \in Range(Lists(doc[r])), i \in doc[q].gone :
           i \in Inserted(doc[r], list) /\ doc[r].ops[i].val = c

(* Nor do collection documents lose a thing: a live one is live in the     *)
(* merge unless the other replica holds each object it is live by deleted  *)
(* (extract_collection_doc_view_from_doc reads every map and prefers the   *)
(* live object).  A thing with two objects may be live in both replicas,   *)
(* in each by the object that the other has deleted, and gone in the merge. *)
NoThingDropped ==
  type = "collection" =>
    \A r, q \in Replicas : \A t \in Things \cap LiveThings(doc[r]) :
      \/ t \in LiveThings(Merge(doc[r], doc[q]))
      \/ \A e \in Range(LiveOf(doc[r], ObjectsOf(doc[r], t))) : IsDeleted(doc[q], e)

(* The text elements a reader sees, each with the block it is in. *)
TextShown(d) ==
  IF d = NewDoc THEN {}
  ELSE UNION {{<<x, i>> : i \in Range(Elements(d, Get(d, x, "text")))} : x \in Range(Elements(d, BlockList(d)))}

(* Edits of one content document that were made apart are both kept: text  *)
(* is missing from the merge only where the other replica removed it, or   *)
(* the block around it.                                                    *)
NoTextDropped ==
  type = "content" =>
    \A r, q \in Replicas :
      Values(doc[r], Root, "content") = Values(doc[q], Root, "content") =>
        \A s \in TextShown(doc[r]) :
          s \in TextShown(Merge(doc[r], doc[q])) \/ s[1] \in doc[q].gone \/ s[2] \in doc[q].gone

(* Whichever document two replicas made or edited apart, a merge drops     *)
(* nothing of either that the other has not taken out.                     *)
NothingDropped == NoCollectionDropped /\ NoThingDropped /\ NoTextDropped

(* A thing that stands for one object everywhere. *)
Whole(d, t) == Len(ThingMaps(d)) = 1 /\ Len(ObjectsOf(d, t)) <= 1

Holds(d, t, id) == ObjectsOf(d, t) # <<>> /\ EntryObjects(d, Viewed(d, t), id) # <<>>

(* An edit shows in the view at once, whatever was merged before: what is  *)
(* written is live and has its title, what is deleted is gone, and so for  *)
(* content entries, in whichever of the lists they are.  Adding is for an  *)
(* id the thing does not hold yet: to a thing with two lists of entries    *)
(* the first takes what is added, and an entry of the second would hide it.*)
EditShows ==
  type = "collection" =>
    \A r \in Replicas, t \in Things : (doc[r] # NewDoc /\ Whole(doc[r], t)) =>
      /\ \A p \in Things \cup {""} : ValidParent(doc[r], t, p) =>
           LET new == Written(r, t, p)
           IN  new # doc[r] /\ t \in LiveThings(new) /\ TitleOf(new, t) = NewTitle(r) /\ p \in {"", ParentOf(new, t)}
      /\ t \notin LiveThings(DeleteThing(doc[r], r, t))
      /\ \A id \in Entries :
           /\ PayloadOf(WithEntry(r, t, id, IF Holds(doc[r], t, id) THEN "update" ELSE "add"), t, id) = NewTitle(r)
           /\ ~ HasEntry(WithEntry(r, t, id, "delete"), t, id)

Above(d, t) ==
  LET up(S) == S \cup {ParentOf(d, x) : x \in S \cap LiveThings(d)}
      met[n \in 0 .. Cardinality(Things)] == IF n = 0 THEN {ParentOf(d, t)} ELSE up(met[n - 1])
  IN  met[Cardinality(Things)]

HasCycle(d) == \E t \in LiveThings(d) : t \in Above(d, t)

ClosesCycle(d, new) == new # d /\ HasCycle(new)

(* An edit closes no cycle of parents: a cycle can only come from two      *)
(* replicas that each accept a parent.                                     *)
NoOwnCycle ==
  type = "collection" =>
    \A r \in Replicas : (doc[r] # NewDoc /\ (\A t \in Things : Whole(doc[r], t)) /\ ~ HasCycle(doc[r])) =>
      \A t, p \in Things : ValidParent(doc[r], t, p) => ~ ClosesCycle(doc[r], Written(r, t, p))

SameBlocks(view, other) == Range(view) = Range(other) /\ Len(view) = Len(other)

IsShuffled(view, d, new) == new # d => SameBlocks(view, ContentView(new))

(* A block is moved with its text, and the other blocks stay. *)
MoveKeepsText ==
  type = "content" =>
    \A r \in Replicas : doc[r] # NewDoc =>
      LET view == ContentView(doc[r])
      IN  \A b \in Blocks, i \in 0 .. 2 : CanMoveBlock(doc[r], b, i) =>
            IsShuffled(view, doc[r], MoveBlock(doc[r], r, b, i))

AllGone(d, new, key, ids) == new # d /\ \A id \in ids : IsDeleted(new, BestByClock(new, key, id))

Emptied(d, new, c) == AllGone(d, new, "collections", {c}) /\ ThingsOf(new, c) = {}

(* In the older schema a deletion wins over every version of the entity    *)
(* that was merged before, and takes what belongs to it along.             *)
DeletionWins ==
  type = "legacy" =>
    \A r \in Replicas : doc[r] # NewDoc =>
      /\ \A t \in Things : CascadeEnds(doc[r], t) =>
           AllGone(doc[r], DeleteWithChildren(doc[r], r, t), "things", Below(doc[r], t) \cup {t})
      /\ \A c \in Collections : (\A t \in ThingsOf(doc[r], c) : CascadeEnds(doc[r], t)) =>
           Emptied(doc[r], DeleteCollection(doc[r], r, c), c)

(* What an edit promises its caller holds in the replica it is made in,    *)
(* whatever that replica has merged before.                                *)
EditsShow == EditShows /\ MoveKeepsText /\ DeletionWins

-----------------------------------------------------------------------------
Compacted(r) ==
  CASE type = "root"       -> CompactRoot(doc[r], r)
    [] type = "collection" -> CompactCollection(doc[r], r)
    [] type = "content"    -> CompactContent(doc[r], r)

ViewOf(d) ==
  CASE type = "root"       -> RootUuids(d)
    [] type = "collection" ->
         <<CollectionIsLive(d),
           [t \in LiveThings(d) |-> <<TitleOf(d, t), ParentOf(d, t), {id \in Entries : HasEntry(d, t, id)}>>]>>
    [] type = "content"    -> ContentView(d)

LooksAlike(d, new) == new # d => ContentView(new) = ContentView(d)

(* A content document that is rebuilt from its view has the same view. *)
CompactionKeepsContent ==
  type = "content" =>
    \A r \in Replicas : doc[r] # NewDoc => LooksAlike(doc[r], CompactContent(doc[r], r))

(* A document that is rebuilt from its view has the same view. *)
CompactionKeepsView ==
  \A r \in Replicas : (doc[r] # NewDoc /\ type # "legacy") => ViewOf(Compacted(r)) = ViewOf(doc[r])

=============================================================================
