--------------------------- MODULE CrdtDocuments ---------------------------
(***************************************************************************)
(* The document operations of remi-things-crdt (ops.rs), the views read    *)
(* from a document (extract.rs) and its compaction (compaction.rs), each   *)
(* from documents to documents or views.  `a` is the actor that edits.     *)
(*                                                                         *)
(* There are four types of document: the root document (the list of the    *)
(* collections), a collection document (its things, their parents and      *)
(* content entries), a content document (blocks of text) and the single    *)
(* document of the older schema (collections and things together).         *)
(*                                                                         *)
(* Kept from a document is what an operation or a view decides by, and one *)
(* title: status, datatype, timestamps and attributes are written the same *)
(* way.                                                                    *)
(***************************************************************************)
EXTENDS Automerge

(* The keys of fields; things are kept under their uuids. *)
FieldKeys == {"", "epoch", "meta", "things", "title", "edit_clock", "seq", "actor", "tombstone", "deleted", "built_in",
              "content_entries", "id", "payload", "data", "parent_id", "status", "collection_id"}

(* util.rs: the object under a key is made once, unless two replicas make  *)
(* it without knowing of each other.                                       *)
EnsureMap(d, a, obj, key) == IF Has(d, obj, key) THEN d ELSE PutObject(d, a, obj, key)

EnsureList(d, a, obj, key) == IF Has(d, obj, key) THEN d ELSE PutObject(d, a, obj, key)

Shown(d, key) == Get(d, Root, key)

NoTitle == <<0, 0>>

(* An EditClock orders by seq, then by actor. *)
Clock(d, e) ==
  LET c == Get(d, e, "edit_clock")
  IN  IF Has(d, e, "edit_clock") THEN <<Scalar(d, c, "seq", 0), Scalar(d, c, "actor", 0)>> ELSE <<0, 0>>

SetClock(d, a, e, clock) ==
  LET d1 == EnsureMap(d, a, e, "edit_clock")
      c == Get(d1, e, "edit_clock")
  IN  Put(Put(d1, a, c, "actor", clock[2]), a, c, "seq", clock[1])

BumpClock(d, a, e) == SetClock(d, a, e, <<Clock(d, e)[1] + 1, a>>)

SetTombstone(d, a, e) ==
  LET d1 == EnsureMap(d, a, e, "tombstone")
  IN  Put(d1, a, Get(d1, e, "tombstone"), "deleted", TRUE)

ClearTombstone(d, e) == Delete(d, e, "tombstone")

IsDeleted(d, e) ==
  Has(d, e, "tombstone") /\ Scalar(d, Get(d, e, "tombstone"), "deleted", FALSE)

-----------------------------------------------------------------------------
(* The root document. *)
InitRoot(a) == PutObject(Put(NewDoc, a, Root, "epoch", 0), a, Root, "collection_uuids")

Lists(d) == GetAll(d, Root, "collection_uuids")

Held(d, list) == {d.ops[Elements(d, list)[k]].val : k \in DOMAIN Elements(d, list)}

\* Mutant: the view reads the list that automerge shows
ShownUuids(d) == IF Lists(d) = <<>> THEN {} ELSE Held(d, Shown(d, "collection_uuids"))

RootUuids(d) == UNION {Held(d, Lists(d)[k]) : k \in DOMAIN Lists(d)}

AddLast(d, a, list, val) == Insert(d, a, list, Len(Elements(d, list)), val)

(* AddCollection of apply_root_op looks into the list that is shown, the   *)
(* SDK's own writer into every one.                                        *)
AddCollection(d, a, c) ==
  LET d1 == EnsureList(d, a, Root, "collection_uuids")
      list == Shown(d1, "collection_uuids")
  IN  IF c \in Held(d1, list) THEN d1 ELSE AddLast(d1, a, list, c)

AddMembership(d, a, c) ==
  LET d1 == EnsureList(d, a, Root, "collection_uuids")
  IN  IF c \in RootUuids(d) THEN d ELSE AddLast(d1, a, Lists(d1)[1], c)

RemoveCollection(d, c) ==
  LET list == Shown(d, "collection_uuids")
      at == Only(Elements(d, list), {i \in Inserted(d, list) : d.ops[i].val = c})
  IN  IF Lists(d) = <<>> \/ at = <<>> THEN d ELSE Erase(d, {Last(at)})

IncrementEpoch(d, a) == Put(d, a, Root, "epoch", Scalar(d, Root, "epoch", 0) + 1)

-----------------------------------------------------------------------------
(* A collection document: its views. *)
InitCollection(a) ==
  LET d == PutObject(NewDoc, a, Root, "meta")
      meta == Shown(d, "meta")
  IN  PutObject(SetClock(Put(d, a, meta, "title", NoTitle), a, meta, <<1, a>>), a, Root, "things")

\* Mutant: the view reads the map of things that automerge shows
ShownThingMap(d) == SelectSeq(GetAll(d, Root, "things"), LAMBDA m : m = Shown(d, "things"))

ThingMaps(d) == GetAll(d, Root, "things")

(* The objects that stand for a thing, in the order the view meets them.   *)
ObjectsOf(d, t) == FlattenSeq([k \in DOMAIN ThingMaps(d) |-> GetAll(d, ThingMaps(d)[k], t)])

LiveOf(d, objects) == Only(objects, {e \in Range(objects) : ~ IsDeleted(d, e)})

Viewed(d, t) == Head(LiveOf(d, ObjectsOf(d, t)) \o ObjectsOf(d, t))

KnownThings(d) == UNION {Keys(d, ThingMaps(d)[k]) : k \in DOMAIN ThingMaps(d)}

LiveThings(d) == {t \in KnownThings(d) : ~ IsDeleted(d, Viewed(d, t))}

TitleOf(d, t) == Scalar(d, Viewed(d, t), "title", NoTitle)

ParentOf(d, t) == Scalar(d, Viewed(d, t), "parent_id", "")

(* The lists of content entries of one thing object; of several entries    *)
(* with one id the view keeps the last.                                    *)
EntryLists(d, e) ==
  LET bags == GetAll(d, e, "built_in")
  IN  FlattenSeq([k \in DOMAIN bags |-> GetAll(d, bags[k], "content_entries")])

EntryObjects(d, e, id) ==
  LET all == FlattenSeq([k \in DOMAIN EntryLists(d, e) |-> Elements(d, EntryLists(d, e)[k])])
  IN  Only(all, {x \in Range(all) : Scalar(d, x, "id", "") = id})

PayloadOf(d, t, id) ==
  LET found == EntryObjects(d, Viewed(d, t), id)
  IN  IF found = <<>> THEN NoTitle ELSE Scalar(d, Get(d, Last(found), "payload"), "data", NoTitle)

-----------------------------------------------------------------------------
(* A collection document: its operations.  Parents are looked for in the   *)
(* map of things that is shown, and only there.                            *)
LiveObjects(d, t) == LiveOf(d, GetAll(d, Shown(d, "things"), t))

ParentsAbove(d, p) ==
  LET up(S) == S \cup {Scalar(d, Head(LiveObjects(d, x)), "parent_id", "") :
                         x \in {y \in S : LiveObjects(d, y) # <<>>}}
      loops == Cardinality(KnownThings(d))
      met[n \in 0 .. loops] == IF n = 0 THEN {p} ELSE up(met[n - 1])
  IN  met[loops]

\* Mutant: only the parent itself is looked at
ParentIsLive(d, t, p) == p = "" \/ (p # t /\ LiveObjects(d, p) # <<>>)

ValidParent(d, t, p) ==
  p = "" \/ (p # t /\ LiveObjects(d, p) # <<>> /\ t \notin ParentsAbove(d, p))

(* What an update does to the content entries of thing object e.  The      *)
(* payload is always a new object.                                         *)
WritePayload(d, a, x, data) ==
  LET d1 == PutObject(Delete(d, x, "payload"), a, x, "payload")
  IN  Put(d1, a, Get(d1, x, "payload"), "data", data)

AddEntry(d, a, e, id, data) ==
  LET list == EntryLists(d, e)[1]
      d1 == AddLast(d, a, list, "object")
      x == Last(Elements(d1, list))
  IN  WritePayload(Put(d1, a, x, "id", id), a, x, data)

WritePayloads(d, a, entries, data) ==
  LET done[n \in 0 .. Len(entries)] == IF n = 0 THEN d ELSE WritePayload(done[n - 1], a, entries[n], data)
  IN  done[Len(entries)]

UpdateEntry(d, a, e, id, data) == WritePayloads(d, a, EntryObjects(d, e, id), data)

DeleteEntry(d, e, id) == Erase(d, Range(EntryObjects(d, e, id)))

(* UpsertThingMeta.  NoTitle leaves the title alone; parent "" is Noop and *)
(* "clear" is Clear; entry gives an id and what becomes of it.             *)
\* Mutant: the tombstone stays
UpsertThingOnTombstone(d, a, t, title, parent, entry) ==
  LET d1 == EnsureMap(d, a, Shown(d, "things"), t)
      e == Get(d1, Shown(d, "things"), t)
  IN  IF title = NoTitle THEN d1 ELSE Put(BumpClock(d1, a, e), a, e, "title", title)

EnsureEntries(d, a, e) ==
  LET d1 == EnsureMap(d, a, e, "built_in")
  IN  EnsureList(d1, a, Get(d1, e, "built_in"), "content_entries")

Titled(d, a, e, title) == IF title = NoTitle THEN d ELSE Put(d, a, e, "title", title)

Parented(d, a, e, parent) ==
  CASE parent = ""      -> d
    [] parent = "clear" -> Delete(d, e, "parent_id")
    [] OTHER            -> Put(d, a, e, "parent_id", parent)

WithFields(d, a, e, title, parent) ==
  Parented(Titled(ClearTombstone(BumpClock(EnsureEntries(d, a, e), a, e), e), a, e, title), a, e, parent)

WithEntryChange(d, a, e, entry) ==
  CASE entry.do = "add"    -> AddEntry(d, a, e, entry.id, entry.data)
    [] entry.do = "update" -> UpdateEntry(d, a, e, entry.id, entry.data)
    [] entry.do = "delete" -> DeleteEntry(d, e, entry.id)
    [] OTHER               -> d

UpsertThingObject(d, a, e, title, parent, entry) ==
  WithEntryChange(WithFields(d, a, e, title, parent), a, e, entry)

UpsertThing(d, a, t, title, parent, entry) ==
  LET d1 == EnsureMap(d, a, Shown(d, "things"), t)
  IN  UpsertThingObject(d1, a, Get(d1, Shown(d, "things"), t), title, parent, entry)

DeleteThing(d, a, t) ==
  LET d1 == EnsureMap(d, a, Shown(d, "things"), t)
  IN  SetTombstone(d1, a, Get(d1, Shown(d, "things"), t))

DeleteThings(d, a, things) ==
  LET done[n \in 0 .. Len(things)] == IF n = 0 THEN d ELSE DeleteThing(done[n - 1], a, things[n])
  IN  done[Len(things)]

MoveThingHere(d, a, t) ==
  LET d1 == EnsureMap(d, a, Shown(d, "things"), t)
  IN  BumpClock(d1, a, Get(d1, Shown(d, "things"), t))

UpdateMeta(d, a, title) ==
  LET meta == Shown(d, "meta")
  IN  Put(ClearTombstone(BumpClock(d, a, meta), meta), a, meta, "title", title)

DeleteMeta(d, a) == SetTombstone(d, a, Shown(d, "meta"))

CollectionIsLive(d) == ~ IsDeleted(d, Shown(d, "meta"))

-----------------------------------------------------------------------------
(* A content document. *)
InitContent(a) ==
  LET d == PutObject(NewDoc, a, Root, "content") IN PutObject(d, a, Shown(d, "content"), "blocks")

BlockList(d) == Get(d, Shown(d, "content"), "blocks")

BlockId(d, x) == Scalar(d, x, "id", "")

BlocksNamed(d, list, b) == Only(Elements(d, list), {x \in Inserted(d, list) : BlockId(d, x) = b})

Text(d, x) ==
  LET text == Elements(d, Get(d, x, "text"))
  IN  IF Has(d, x, "text") THEN [k \in DOMAIN text |-> d.ops[text[k]].val] ELSE <<>>

BlockViews(d, list) ==
  LET blocks == Elements(d, list)
  IN  [k \in DOMAIN blocks |-> [id |-> BlockId(d, blocks[k]), text |-> Text(d, blocks[k])]]

ContentView(d) == BlockViews(d, BlockList(d))

(* set_block_text_chars on a block that has no text yet. *)
Typed(d, a, list, text) ==
  LET done[n \in 0 .. Len(text)] == IF n = 0 THEN d ELSE Insert(done[n - 1], a, list, n - 1, text[n])
  IN  done[Len(text)]

NewBlock(d, a, list, index, b, text) ==
  LET d1 == Insert(d, a, list, Min({index, Len(Elements(d, list))}), "object")
      x == <<d.top + 1, a>>
      d2 == PutObject(Put(d1, a, x, "id", b), a, x, "text")
  IN  Typed(d2, a, Get(d2, x, "text"), text)

SetBlocks(d, a, list, b, text) == NewBlock(Erase(d, Range(Elements(d, list))), a, list, 0, b, text)

EraseBlock(d, list, b) ==
  LET named == BlocksNamed(d, list, b)
  IN  IF named = <<>> THEN d ELSE Erase(d, {Head(named)})

IndexOfBlock(d, list, b) ==
  LET all == Elements(d, list)
      x == Head(BlocksNamed(d, list, b))
  IN  (CHOOSE k \in DOMAIN all : all[k] = x) - 1

(* The index after the removal; an index past the end is refused. *)
MoveTarget(d, list, b, to) == IF IndexOfBlock(d, list, b) < to THEN to - 1 ELSE to

SpliceBlock(d, a, list, b, index, delete, insert) ==
  LET chars == Get(d, Head(BlocksNamed(d, list, b)), "text")
      text == Elements(d, chars)
      start == Min({index, Len(text)})
      cut == SubSeq(text, start + 1, Min({start + delete, Len(text)}))
  IN  Insert(Erase(d, Range(cut)), a, chars, start, insert)

InsertBlock(d, a, index, b, text) == NewBlock(d, a, BlockList(d), index, b, text)

SetContent(d, a, b, text) == SetBlocks(d, a, BlockList(d), b, text)

DeleteBlock(d, b) == EraseBlock(d, BlockList(d), b)

CanMoveBlock(d, b, to) ==
  BlocksNamed(d, BlockList(d), b) # <<>> =>
    MoveTarget(d, BlockList(d), b, to) < Len(Elements(d, BlockList(d)))

\* Mutant: the text of a moved block is not copied
MoveBlockBare(d, a, b, to) ==
  IF BlocksNamed(d, BlockList(d), b) = <<>> THEN d
  ELSE InsertBlock(DeleteBlock(d, b), a, MoveTarget(d, BlockList(d), b, to), b, <<>>)

\* Mutant: every replica moves blocks under one actor
MoveBlockAsOne(d, a, b, to) ==
  IF BlocksNamed(d, BlockList(d), b) = <<>> THEN d
  ELSE InsertBlock(DeleteBlock(d, b), 1, MoveTarget(d, BlockList(d), b, to), b,
                   Text(d, Head(BlocksNamed(d, BlockList(d), b))))

MoveBlock(d, a, b, to) ==
  LET named == BlocksNamed(d, BlockList(d), b)
  IN  IF named = <<>> THEN d
      ELSE InsertBlock(DeleteBlock(d, b), a, MoveTarget(d, BlockList(d), b, to), b, Text(d, Head(named)))

\* Mutant: the text becomes a new object at every splice
SpliceTextAnew(d, a, b, index, delete, insert) ==
  LET x == Head(BlocksNamed(d, BlockList(d), b))
      d1 == PutObject(d, a, x, "text")
  IN  Typed(d1, a, Get(d1, x, "text"), Append(Text(d, x), insert))

SpliceText(d, a, b, index, delete, insert) == SpliceBlock(d, a, BlockList(d), b, index, delete, insert)

-----------------------------------------------------------------------------
(* The single document of the older schema: the object shown is written,   *)
(* the one with the latest clock is read.                                  *)
EnsureRoot(d, a) == EnsureMap(EnsureMap(d, a, Root, "collections"), a, Root, "things")

Versions(d, key, id) ==
  LET maps == GetAll(d, Root, key)
  IN  FlattenSeq([k \in DOMAIN maps |-> GetAll(d, maps[k], id)])

Later(c1, c2) == c1[1] > c2[1] \/ (c1[1] = c2[1] /\ c1[2] > c2[2])

BestByClock(d, key, id) ==
  LET all == Versions(d, key, id)
  IN  FoldLeft(LAMBDA best, e : IF Later(Clock(d, e), Clock(d, best)) THEN e ELSE best, Head(all), Tail(all))

Entities(d, key) == UNION {Keys(d, m) : m \in Values(d, Root, key)}

LiveEntities(d, key) == {id \in Entities(d, key) : ~ IsDeleted(d, BestByClock(d, key, id))}

Field(d, key, id, field, default) == Scalar(d, BestByClock(d, key, id), field, default)

(* What a deletion reaches on its way down the children, and whether it    *)
(* comes to an end.                                                        *)
Below(d, t) ==
  LET live == LiveEntities(d, "things")
      links == {<<x, Field(d, "things", x, "parent_id", "")>> : x \in live}
      children(S) == {link[1] : link \in {l \in links : l[2] \in S}}
      met[n \in 0 .. Cardinality(live)] == IF n = 0 THEN children({t}) ELSE met[n - 1] \cup children(met[n - 1])
  IN  met[Cardinality(live)]

CascadeEnds(d, t) ==
  LET below == Below(d, t)
  IN  t \notin below /\ \A x \in below : x \notin Below(d, x)

ShownEntity(d, a, key, id) == EnsureMap(d, a, Shown(d, key), id)

UpsertEntity(d, a, key, id, title) ==
  LET d1 == ShownEntity(d, a, key, id)
      e == Get(d1, Shown(d, key), id)
  IN  Put(ClearTombstone(BumpClock(d1, a, e), e), a, e, "title", title)

UpsertInCollection(d, a, t, c, title, parent) ==
  LET d1 == UpsertEntity(d, a, "things", t, title)
      e == Get(d1, Shown(d, "things"), t)
      d2 == Put(d1, a, e, "collection_id", c)
  IN  CASE parent = ""      -> d2
        [] parent = "clear" -> Delete(d2, e, "parent_id")
        [] OTHER            -> Put(d2, a, e, "parent_id", parent)

\* Mutant: the clock of the object that is shown, not the highest of all
ShownSeq(d, key, id) == IF Has(d, Shown(d, key), id) THEN Clock(d, Get(d, Shown(d, key), id))[1] ELSE 0

MaxSeq(d, key, id) ==
  LET all == Versions(d, key, id)
  IN  Max({0} \cup {Clock(d, all[k])[1] : k \in DOMAIN all})

DeleteEntity(d, a, key, id) ==
  LET d1 == ShownEntity(d, a, key, id)
      e == Get(d1, Shown(d, key), id)
  IN  SetTombstone(SetClock(d1, a, e, <<MaxSeq(d, key, id) + 1, a>>), a, e)

DeleteEntities(d, a, key, ids) ==
  LET done[n \in 0 .. Len(ids)] == IF n = 0 THEN d ELSE DeleteEntity(done[n - 1], a, key, ids[n])
  IN  done[Len(ids)]

DeleteWithChildren(d, a, t) ==
  DeleteEntity(DeleteEntities(d, a, "things", SetToSeq(Below(d, t) \ {t})), a, "things", t)

(* One after the other: delete_things, and the things of a collection. *)
DeleteAllWithChildren(d, a, things) ==
  LET done[n \in 0 .. Len(things)] == IF n = 0 THEN d ELSE DeleteWithChildren(done[n - 1], a, things[n])
  IN  done[Len(things)]

ThingsOf(d, c) == {t \in LiveEntities(d, "things") : Field(d, "things", t, "collection_id", "") = c}

DeleteCollection(d, a, c) ==
  DeleteEntity(DeleteAllWithChildren(d, a, SetToSeq(ThingsOf(d, c))), a, "collections", c)

MoveToCollection(d, a, t, c) ==
  LET d1 == ShownEntity(d, a, "things", t)
      e == Get(d1, Shown(d, "things"), t)
  IN  Put(BumpClock(d1, a, e), a, e, "collection_id", c)

SetThingStatus(d, a, t, status) ==
  LET d1 == ShownEntity(d, a, "things", t)
      e == Get(d1, Shown(d, "things"), t)
  IN  Put(BumpClock(d1, a, e), a, e, "status", status)

(* Content in the older schema is kept with the thing.  A block is moved   *)
(* under an actor that all replicas share, to an index counted before the  *)
(* removal, so never past the last block but one.                          *)
MoveActor == 0

WithBlocks(d, a, t) ==
  LET d1 == ShownEntity(d, a, "things", t)
      e == Get(d1, Shown(d, "things"), t)
      d2 == EnsureMap(d1, a, e, "content")
  IN  EnsureList(d2, a, Get(d2, e, "content"), "blocks")

ThingBlocks(d, t) == Get(d, Get(d, Get(d, Shown(d, "things"), t), "content"), "blocks")

SetThingContent(d, a, t, b, text) ==
  LET d1 == WithBlocks(d, a, t) IN SetBlocks(d1, a, ThingBlocks(d1, t), b, text)

InsertThingBlock(d, a, t, index, b, text) ==
  LET d1 == WithBlocks(d, a, t) IN NewBlock(d1, a, ThingBlocks(d1, t), index, b, text)

DeleteThingBlock(d, a, t, b) ==
  LET d1 == WithBlocks(d, a, t) IN EraseBlock(d1, ThingBlocks(d1, t), b)

MoveThingBlock(d, a, t, b, to) ==
  LET d1 == WithBlocks(d, a, t)
      list == ThingBlocks(d1, t)
      last == Min({to, Len(Elements(d1, list)) - 1})
  IN  IF BlocksNamed(d1, list, b) = <<>> THEN d1
      ELSE NewBlock(EraseBlock(d1, list, b), MoveActor, list, MoveTarget(d1, list, b, last), b,
                    Text(d1, Head(BlocksNamed(d1, list, b))))

SpliceThingText(d, a, t, b, index, delete, insert) ==
  SpliceBlock(d, a, ThingBlocks(d, t), b, index, delete, insert)

-----------------------------------------------------------------------------
(* Compaction rebuilds a document from its view, under the same actor.     *)
(* The rebuilt root document has its list in a map named "root".           *)
CompactRoot(d, a) ==
  LET d1 == PutObject(NewDoc, a, Root, "root")
      root == Shown(d1, "root")
      d2 == PutObject(Put(d1, a, root, "epoch", Scalar(d, Root, "epoch", 0)), a, root, "collection_uuids")
  IN  FoldLeft(LAMBDA acc, c : AddLast(acc, a, Get(d2, root, "collection_uuids"), c), d2, SetToSeq(RootUuids(d)))

(* Title, parent and clock of the live things are written again, and       *)
(* nothing of their content entries, nor of the tombstone of the document. *)
CompactThing(d, new, a, t) ==
  LET d1 == EnsureMap(new, a, Shown(new, "things"), t)
      e == Get(d1, Shown(new, "things"), t)
      d2 == IF TitleOf(d, t) = NoTitle THEN d1 ELSE Put(d1, a, e, "title", TitleOf(d, t))
      d3 == IF ParentOf(d, t) = "" THEN d2 ELSE Put(d2, a, e, "parent_id", ParentOf(d, t))
  IN  SetClock(d3, a, e, Clock(d, Viewed(d, t)))

CompactCollection(d, a) ==
  LET d1 == InitCollection(a)
      meta == Shown(d1, "meta")
      d2 == SetClock(Put(d1, a, meta, "title", Scalar(d, Shown(d, "meta"), "title", NoTitle)),
                     a, meta, Clock(d, Shown(d, "meta")))
  IN  FoldLeft(LAMBDA acc, t : CompactThing(d, acc, a, t), d2, SetToSeq(LiveThings(d)))

\* Mutant: each block is inserted at the front
CompactInReverse(d, a) ==
  LET view == ContentView(d)
      built[n \in 0 .. Len(view)] ==
        IF n = 0 THEN InitContent(a) ELSE InsertBlock(built[n - 1], a, 0, view[n].id, view[n].text)
  IN  built[Len(view)]

CompactContent(d, a) ==
  LET view == ContentView(d)
      built[n \in 0 .. Len(view)] ==
        IF n = 0 THEN InitContent(a) ELSE InsertBlock(built[n - 1], a, n - 1, view[n].id, view[n].text)
  IN  built[Len(view)]
=============================================================================
