------------------------ MODULE ChangeHistory_proofs ------------------------
(***************************************************************************)
(* Theorems about the change log, its snapshots and undo, for any things,  *)
(* collections, callers, times and numbers of commands.                    *)
(*                                                                         *)
(* A command saves its documents first and writes the log and the          *)
(* snapshots afterwards, so what the properties say holds only up to what  *)
(* the callers have left to do.  The invariant (Sane, Known) makes these   *)
(* debts precise: SnapshotsDue, that an entry has its snapshot or is the   *)
(* last one of a caller about to write it; ChangesLogged, that a change is *)
(* in the log or due in the jobs of a caller (Due).  Sound says in which   *)
(* order jobs come, whatever an undo pushes in front of its others.        *)
(*                                                                         *)
(* Steps that leave the tables alone share OnlyCallsSane, OnlyCallsKnown;  *)
(* those that write them share GrownSane, AccountsStay and HeadLogs.  One  *)
(* lemma per action applies them.                                          *)
(*                                                                         *)
(* The second half is about what an undo brings back.  Its invariant       *)
(* (Faithful) says of each row, snapshot and job what it tells of the      *)
(* change it stands for, of a deletion that each thing below has its entry *)
(* or is due to get it (Family), and of an undo that what it has not put   *)
(* back yet is still among its jobs (Progress).  Steps of jobs that write  *)
(* nothing share JobDone, those that write the log LogDone and EntryTold,  *)
(* first steps of commands BeginsTold, the rest AsideTold.                 *)
(***************************************************************************)
EXTENDS ChangeHistory, Integers, FiniteSetTheorems, SequenceTheorems, TLAPS

DocStates == [T!AnyCollection -> {"absent", "active", "archived"}]
Documents == [T!AnyCollection -> [Thing -> T!Meta]]

LEMMA PlaceFacts ==
  /\ Drafts \in T!AnyCollection /\ Trash \in T!AnyCollection
  /\ Collection \subseteq T!AnyCollection
  /\ Places \subseteq T!AnyCollection
  /\ NoCollection \notin T!AnyCollection
  /\ Keep \notin Thing /\ Clear \notin Thing /\ NoThing \notin Thing
  /\ Keep # Clear
BY DocumentsAssumption DEF T!AnyCollection, T!LifecycleAssumption, Places

LEMMA FunIsSeq ==
  ASSUME NEW S, NEW n \in Nat, NEW f \in [1 .. n -> S]
  PROVE  f \in Seq(S) /\ Len(f) = n
OBVIOUS

LEMMA HomeFacts ==
  ASSUME NEW m, NEW x
  PROVE  /\ T!Exists(m, x) => T!Home(m, x) \in T!AnyCollection
         /\ T!Home(m, x) \in T!AnyCollection \cup {NoCollection}
BY PlaceFacts DEF T!Home, T!Exists

LEMMA EnsuredType ==
  ASSUME NEW s \in DocStates, NEW cs
  PROVE  T!Ensured(s, cs) \in DocStates
BY DEF DocStates, T!Ensured

LEMMA PatchedType ==
  ASSUME NEW old \in Thing \cup {NoThing}, NEW p \in Thing \cup {Keep, Clear, NoThing}
  PROVE  T!Patched(old, p) \in Thing \cup {NoThing}
BY DEF T!Patched

LEMMA ViewType ==
  ASSUME NEW m \in Documents, NEW t \in Thing
  PROVE  View(m, t) \in ViewSet
<1>1. T!Exists(m, t) => T!Shown(m, t) \in T!Meta
  BY HomeFacts DEF T!Shown, Documents
<1>2. T!Home(m, t) \in T!AnyCollection \cup {NoCollection}
  BY HomeFacts
<1> QED BY <1>1, <1>2 DEF View, ViewSet, T!Meta

LEMMA ViewsType ==
  ASSUME NEW m \in Documents
  PROVE  Views(m) \in [Thing -> ViewSet]
BY ViewType DEF Views

LEMMA PlacedType ==
  ASSUME NEW m \in Documents, NEW t \in Thing, NEW c,
         NEW p \in Thing \cup {Keep, Clear}, NEW more \in SUBSET Entry
  PROVE  T!Placed(m, t, c, p, more) \in Documents
<1> DEFINE u == [T!Upserted(m[c][t], p) EXCEPT !.entries = @ \cup more]
<1>1. \A d \in T!AnyCollection : m[d][t] \in T!Meta
  BY DEF Documents
<1>2. c \in T!AnyCollection => u \in T!Meta
  <2> SUFFICES ASSUME c \in T!AnyCollection PROVE u \in T!Meta
    OBVIOUS
  <2>1. T!Patched(m[c][t].parent, p) \in Thing \cup {NoThing}
    BY <1>1, PatchedType DEF T!Meta
  <2> QED BY <1>1, <2>1 DEF T!Upserted, T!Meta
<1>3. \A d \in T!AnyCollection : T!Tombstoned(m[d][t]) \in T!Meta
  BY <1>1 DEF T!Tombstoned, T!Meta
<1> HIDE DEF u
<1>4. ASSUME NEW d \in T!AnyCollection
      PROVE  [m[d] EXCEPT ![t] = IF d = c THEN u
                                 ELSE IF d = T!Home(m, t) THEN T!Tombstoned(m[d][t])
                                 ELSE m[d][t]] \in [Thing -> T!Meta]
  BY <1>1, <1>2, <1>3 DEF Documents
<1>5. T!Placed(m, t, c, p, more) = [d \in T!AnyCollection |->
        [m[d] EXCEPT ![t] = IF d = c THEN u
                            ELSE IF d = T!Home(m, t) THEN T!Tombstoned(m[d][t])
                            ELSE m[d][t]]]
  BY DEF T!Placed, u
<1> QED BY <1>4, <1>5 DEF Documents

LEMMA UpsertedType ==
  ASSUME NEW t \in Thing, NEW c, NEW p \in Thing \cup {Keep, Clear},
         NEW listed \in BOOLEAN, NEW entries \in SUBSET Entry, meta \in Documents
  PROVE  Upserted(t, c, p, listed, entries) \in Documents
<1> DEFINE m == T!Placed(meta, t, c, p, {})
<1>1. m \in Documents
  BY PlacedType
<1> HIDE DEF m
<1>2. CASE c \in T!AnyCollection
  <2>1. [m[c][t] EXCEPT !.entries = entries] \in T!Meta
    <3>1. m[c][t] \in T!Meta
      BY <1>1, <1>2 DEF Documents
    <3> QED BY <3>1 DEF T!Meta
  <2>2. [m[c] EXCEPT ![t].entries = entries] \in [Thing -> T!Meta]
    BY <1>1, <1>2, <2>1 DEF Documents
  <2>3. [m EXCEPT ![c][t].entries = entries] \in Documents
    BY <1>1, <1>2, <2>2 DEF Documents
  <2> QED BY <1>1, <2>3 DEF Upserted, m
<1>3. CASE c \notin T!AnyCollection
  <2>1. [m EXCEPT ![c][t].entries = entries] \in Documents
    BY <1>1, <1>3 DEF Documents
  <2> QED BY <1>1, <2>1 DEF Upserted, m
<1> QED BY <1>2, <1>3

LEMMA CascadedType ==
  ASSUME NEW m \in Documents, NEW root \in Thing, NEW c \in T!AnyCollection, NEW archive \in BOOLEAN,
         T!Exists(m, root)
  PROVE  T!Cascaded(m, root, c, Keep, archive) \in Documents
<1> DEFINE moved == {root} \cup T!Descendants(m, root)
<1>1. \A d \in T!AnyCollection, x \in Thing : m[d][x] \in T!Meta
  BY DEF Documents
<1>2. \A d \in T!AnyCollection, x \in Thing : T!Tombstoned(m[d][x]) \in T!Meta
  BY <1>1 DEF T!Tombstoned, T!Meta
<1>3. ASSUME NEW x \in moved \cap Thing
      PROVE  T!CascadedEntry(m, x, root, c, Keep, archive) \in T!Meta
  <2>1. T!Exists(m, x)
    BY <1>3 DEF T!Descendants
  <2>2. T!Home(m, x) \in T!AnyCollection /\ T!Shown(m, x) \in T!Meta
    BY <2>1, HomeFacts, <1>1 DEF T!Shown
  <2>3. T!Carried(m, x, c) \in SUBSET Entry
    BY <2>2 DEF T!Carried, T!Meta
  <2>4. T!Patched(m[c][x].parent, IF x = root THEN Keep ELSE T!Shown(m, x).parent)
          \in Thing \cup {NoThing}
    BY <1>1, <2>2, PatchedType DEF T!Meta
  <2>5. T!Home(m, x) \in T!AnyCollection \cup {NoCollection}
    BY <2>2
  <2> HIDE DEF moved
  <2>6. m[c][x].entries \cup T!Carried(m, x, c) \in SUBSET Entry
    BY <1>1, <1>3, <2>3 DEF T!Meta
  <2> QED BY <2>4, <2>5, <2>6 DEF T!CascadedEntry, T!Meta
<1> QED BY <1>1, <1>2, <1>3 DEF T!Cascaded, Documents

DocsTyped == state \in DocStates /\ meta \in Documents

LEMMA MoveTyped ==
  ASSUME DocsTyped, NEW t \in Thing, NEW d \in Places, T!MoveThing(t, d, Keep)
  PROVE  DocsTyped'
<1>1. T!Carried(meta, t, d) \in SUBSET Entry
  <2>1. T!Exists(meta, t)
    BY DEF T!MoveThing
  <2>2. T!Shown(meta, t) \in T!Meta
    BY <2>1, HomeFacts DEF T!Shown, DocsTyped, Documents
  <2> QED BY <2>2 DEF T!Carried, T!Meta
<1>2. meta' = T!Placed(meta, t, d, Keep, T!Carried(meta, t, d))
      /\ state' = T!Ensured(state, {d} \cap T!System)
  BY DEF T!MoveThing
<1>3. meta' \in Documents
  BY <1>1, <1>2, PlacedType, PlaceFacts DEF DocsTyped
<1> QED BY <1>2, <1>3, EnsuredType DEF DocsTyped

LEMMA DeleteTyped ==
  ASSUME DocsTyped, NEW t \in Thing, T!DeleteThing(t)
  PROVE  DocsTyped'
<1>1. T!Exists(meta, t) /\ meta' = T!Cascaded(meta, t, Trash, Keep, TRUE)
      /\ state' = T!Ensured(state, {Trash})
  BY DEF T!DeleteThing
<1>2. meta' \in Documents
  BY <1>1, CascadedType, PlaceFacts DEF DocsTyped
<1> QED BY <1>1, <1>2, EnsuredType DEF DocsTyped

LEMMA RestoreTyped ==
  ASSUME DocsTyped, NEW t \in Thing, T!RestoreThing(t, NoCollection, Keep)
  PROVE  DocsTyped'
<1> DEFINE target == T!Origin(meta, t)
<1>1. /\ T!Exists(meta, t)
      /\ T!Shown(meta, t).from # NoCollection
      /\ meta' = T!Cascaded(meta, t, target, Keep, FALSE)
  BY DEF T!RestoreThing
<1>2. T!Shown(meta, t) \in T!Meta
  BY <1>1, HomeFacts DEF T!Shown, DocsTyped, Documents
<1>3. target \in T!AnyCollection
  BY <1>1, <1>2, PlaceFacts DEF T!Origin, T!Meta
<1>4. state' \in DocStates
  <2>1. T!Ensured(state, {NoCollection} \cap T!System) \in DocStates
    BY EnsuredType DEF DocsTyped
  <2>2. state' = T!Ensured(T!Ensured(state, {NoCollection} \cap T!System), {target} \cap T!System)
    BY DEF T!RestoreThing
  <2> QED BY <2>1, <2>2, EnsuredType
<1> HIDE DEF target
<1>5. meta' \in Documents
  BY <1>1, <1>3, CascadedType DEF DocsTyped
<1> QED BY <1>4, <1>5 DEF DocsTyped

LEMMA CollectionTyped ==
  ASSUME DocsTyped, NEW d \in Collection, T!UpsertCollection(d) \/ T!DeleteCollection(d)
  PROVE  DocsTyped' /\ meta' = meta
<1>1. CASE T!UpsertCollection(d)
  BY <1>1, EnsuredType DEF T!UpsertCollection, DocsTyped
<1>2. CASE T!DeleteCollection(d)
  <2> DEFINE s == T!Ensured(state, T!System)
  <2>1. s \in DocStates
    BY EnsuredType DEF DocsTyped
  <2>2. state' = [s EXCEPT ![d] = "archived"] /\ meta' = meta
    BY <1>2 DEF T!DeleteCollection
  <2> HIDE DEF s
  <2>3. state' \in DocStates
    BY <2>1, <2>2 DEF DocStates
  <2> QED BY <2>2, <2>3 DEF DocsTyped
<1> QED BY <1>1, <1>2

LEMMA UpsertTyped ==
  ASSUME DocsTyped, NEW t \in Thing, NEW d,
         NEW p \in Thing \cup {Keep, Clear}, NEW listed \in BOOLEAN,
         NEW entries \in SUBSET Entry,
         state' = T!Ensured(state, T!System) \/ state' = state,
         meta' = Upserted(t, d, p, listed, entries)
  PROVE  DocsTyped'
<1>1. meta' \in Documents
  BY UpsertedType DEF DocsTyped
<1> QED BY <1>1, EnsuredType DEF DocsTyped

----------------------------------------------------------------------------
(* Jobs                                                                    *)

From == T!AnyCollection \cup {NoCollection}

\* An operation on a thing is on a thing, and one on a collection on a
\* collection; an undo is on either.
Fits(op, s) ==
  /\ op \in {"create_thing", "update_thing", "move_thing", "delete_thing"} => s \in Thing
  /\ op \in {"create_collection", "update_collection", "delete_collection"} => s \in Collection

NoteJob == [do : {"note"}, op : Op, subject : Subject, from : From,
            child : BOOLEAN, can : BOOLEAN]
JoinJob == [do : {"join"}, op : {"move_thing", "update_thing"}, subject : Thing, from : From]
KeepJob == [do : {"keep"}, thing : Thing, view : ViewSet]
PutJob == [do : {"put"}, of : Nat, child : BOOLEAN]
PutBackJob == [do : {"put back"}, subject : Thing, from : From]
RetitleJob == [do : {"retitle"}, subject : Thing, view : ViewSet]
BinJob == [do : {"bin"}, subject : Thing]
ShelfJob == [do : {"shelve", "reopen"}, subject : Collection]
RecordJob == [do : {"record"}, subject : Subject]
PlainJob == [do : {"mark", "trim"}]

JobSet ==
  {j \in NoteJob : Fits(j.op, j.subject)} \cup JoinJob \cup KeepJob \cup PutJob
  \cup PutBackJob \cup RetitleJob \cup BinJob \cup ShelfJob \cup RecordJob \cup PlainJob

LEMMA JobKinds ==
  ASSUME NEW j \in JobSet
  PROVE  /\ j.do = "note" => j \in NoteJob /\ Fits(j.op, j.subject)
         /\ j.do = "join" => j \in JoinJob
         /\ j.do = "keep" => j \in KeepJob
         /\ j.do = "put" => j \in PutJob
         /\ j.do = "put back" => j \in PutBackJob
         /\ j.do = "retitle" => j \in RetitleJob
         /\ j.do = "bin" => j \in BinJob
         /\ j.do \in {"shelve", "reopen"} => j \in ShelfJob
         /\ j.do = "record" => j \in RecordJob
BY DEF JobSet, NoteJob, JoinJob, KeepJob, PutJob, PutBackJob, RetitleJob, BinJob, ShelfJob,
       RecordJob, PlainJob

LEMMA NoteIsJob ==
  ASSUME NEW op \in Op, NEW s \in Subject, NEW from \in From, NEW child \in BOOLEAN,
         NEW can \in BOOLEAN, Fits(op, s)
  PROVE  Note(op, s, from, child, can) \in JobSet
BY DEF Note, NoteJob, JobSet

LEMMA OtherJobs ==
  /\ \A op \in {"move_thing", "update_thing"}, t \in Thing, from \in From :
       Join(op, t, from) \in JobSet
  /\ \A t \in Thing : Bin(t) \in JobSet
  /\ \A d \in Collection : Shelve(d) \in JobSet /\ Reopen(d) \in JobSet
  /\ \A s \in Subject : Record(s) \in JobSet
  /\ Mark \in JobSet /\ Trim \in JobSet
BY DEF Join, JoinJob, Bin, BinJob, Shelve, Reopen, ShelfJob, Record, RecordJob, Mark, Trim,
       PlainJob, JobSet

LEMMA ViewJobs ==
  ASSUME NEW t \in Thing
  PROVE  /\ \A m \in Documents : KeepView(m, t) \in JobSet
         /\ meta \in Documents => Retitle(t) \in JobSet
BY ViewType DEF KeepView, KeepJob, Retitle, RetitleJob, JobSet

LEMMA PutIsJob ==
  ASSUME NEW i \in Nat
  PROVE  Put(i) \in JobSet
BY DEF Put, PutJob, JobSet

LEMMA PutBackIsJob ==
  ASSUME NEW i, log[i] \in LogRow, Fits(log[i].op, log[i].subject), log[i].op = "move_thing"
  PROVE  PutBack(i) \in JobSet
BY DEF PutBack, PutBackJob, Fits, LogRow, From, JobSet

\* The jobs of a command, as opposed to those of an undo, write the log.
Logs(j) == j.do \in {"note", "join", "keep"}

\* The entries that have a snapshot.
NeedsKeep(j) == j.do = "join" \/ (j.do = "note" /\ j.op = "delete_thing")

\* The order jobs come in: an entry is followed by its snapshot, what an undo
\* has to log comes before the rest of it, and only a record is behind the mark.
Sound(jobs) ==
  \A k \in 1 .. Len(jobs) :
    /\ NeedsKeep(jobs[k]) => k < Len(jobs) /\ jobs[k + 1].do = "keep"
    /\ jobs[k].do = "mark" => k = Len(jobs) - 1
    /\ Logs(jobs[k]) => \A l \in 1 .. k : Logs(jobs[l])

\* A rename that has only read has nothing else to do.
Calm(jobs) == \A k \in 1 .. Len(jobs) : jobs[k].do # "retitle"
Lone(jobs) == Len(jobs) = 1 \/ Calm(jobs)

\* The entries that are to be undone exist.
PutsFrom(jobs, n) == \A k \in 1 .. Len(jobs) : jobs[k].do = "put" => jobs[k].of \in 1 .. n

\* What a command leaves to do.
Logging(jobs) == jobs \in Seq(JobSet) /\ Sound(jobs) /\ \A k \in 1 .. Len(jobs) : Logs(jobs[k])

LEMMA LoggingIsCalm ==
  ASSUME NEW jobs, Logging(jobs)
  PROVE  Calm(jobs) /\ \A n : PutsFrom(jobs, n)
BY DEF Logging, Logs, Calm, PutsFrom

LEMMA SoundRest ==
  ASSUME NEW jobs \in Seq(JobSet), jobs # <<>>, Sound(jobs), Lone(jobs), NEW n, PutsFrom(jobs, n)
  PROVE  LET rest == Tail(jobs)
         IN /\ rest \in Seq(JobSet) /\ Len(jobs) \in Nat /\ Len(rest) = Len(jobs) - 1
            /\ \A k \in 1 .. Len(rest) : rest[k] = jobs[k + 1]
            /\ Head(jobs) = jobs[1] /\ jobs[1] \in JobSet
            /\ Sound(rest) /\ Calm(rest) /\ PutsFrom(rest, n)
<1> DEFINE rest == Tail(jobs)
<1>1. /\ rest \in Seq(JobSet) /\ Len(jobs) \in Nat \ {0} /\ Len(rest) = Len(jobs) - 1
      /\ \A k \in 1 .. Len(rest) : rest[k] = jobs[k + 1]
      /\ Len(rest) \in Nat
  BY HeadTailProperties, EmptySeq
<1>2. Head(jobs) = jobs[1] /\ jobs[1] \in JobSet
  BY <1>1, ElementOfSeq
<1> HIDE DEF rest
<1>3. Sound(rest)
  <2> SUFFICES ASSUME NEW k \in 1 .. Len(rest)
               PROVE  /\ NeedsKeep(rest[k]) => k < Len(rest) /\ rest[k + 1].do = "keep"
                      /\ rest[k].do = "mark" => k = Len(rest) - 1
                      /\ Logs(rest[k]) => \A l \in 1 .. k : Logs(rest[l])
    BY DEF Sound
  <2>1. k + 1 \in 1 .. Len(jobs) /\ rest[k] = jobs[k + 1]
    BY <1>1
  <2>2. NeedsKeep(rest[k]) => k < Len(rest) /\ rest[k + 1].do = "keep"
    <3>1. NeedsKeep(rest[k]) => k + 1 < Len(jobs) /\ jobs[(k + 1) + 1].do = "keep"
      BY <2>1 DEF Sound
    <3>2. k < Len(rest) => k + 1 \in 1 .. Len(rest)
      BY <1>1
    <3> QED BY <3>1, <3>2, <1>1
  <2>3. rest[k].do = "mark" => k = Len(rest) - 1
    BY <1>1, <2>1 DEF Sound
  <2>4. Logs(rest[k]) => \A l \in 1 .. k : Logs(rest[l])
    <3>1. Logs(rest[k]) => \A l \in 1 .. k + 1 : Logs(jobs[l])
      BY <2>1 DEF Sound
    <3>2. \A l \in 1 .. k : l + 1 \in 1 .. k + 1 /\ rest[l] = jobs[l + 1]
      BY <1>1
    <3> QED BY <3>1, <3>2
  <2> QED BY <2>2, <2>3, <2>4
<1>4. Calm(rest)
  BY <1>1 DEF Calm, Lone
<1>5. PutsFrom(rest, n)
  BY <1>1 DEF PutsFrom
<1> QED BY <1>1, <1>2, <1>3, <1>4, <1>5 DEF rest

LEMMA SoundConcat ==
  ASSUME NEW new, NEW rest \in Seq(JobSet), Logging(new), Sound(rest), Calm(rest),
         NEW n, PutsFrom(rest, n)
  PROVE  LET jobs == new \o rest
         IN /\ jobs \in Seq(JobSet) /\ Len(new) \in Nat /\ Len(rest) \in Nat
            /\ Len(jobs) = Len(new) + Len(rest)
            /\ \A k \in 1 .. Len(new) : jobs[k] = new[k]
            /\ \A k \in 1 .. Len(rest) : jobs[Len(new) + k] = rest[k]
            /\ Sound(jobs) /\ Calm(jobs) /\ PutsFrom(jobs, n)
<1> DEFINE jobs == new \o rest
<1>1. new \in Seq(JobSet)
  BY DEF Logging
<1>2. Len(new) \in Nat /\ Len(rest) \in Nat
  BY <1>1
<1>3. /\ jobs \in Seq(JobSet) /\ Len(jobs) = Len(new) + Len(rest)
      /\ \A i \in 1 .. Len(new) + Len(rest) : jobs[i] =
                     IF i <= Len(new) THEN new[i] ELSE rest[i - Len(new)]
  BY <1>1, ConcatProperties
<1> HIDE DEF jobs
<1>4. \A k \in 1 .. Len(new) : jobs[k] = new[k]
  BY <1>2, <1>3
<1>5. \A k \in 1 .. Len(rest) : jobs[Len(new) + k] = rest[k]
  <2> SUFFICES ASSUME NEW k \in 1 .. Len(rest) PROVE jobs[Len(new) + k] = rest[k]
    OBVIOUS
  <2>1. Len(new) + k \in 1 .. Len(new) + Len(rest) /\ ~ (Len(new) + k <= Len(new))
        /\ (Len(new) + k) - Len(new) = k
    BY <1>2
  <2> QED BY <1>3, <2>1
<1>6. ASSUME NEW k \in 1 .. Len(jobs)
      PROVE  \/ k \in 1 .. Len(new)
             \/ \E l \in 1 .. Len(rest) : k = Len(new) + l
  BY <1>2, <1>3
<1>7. Sound(jobs)
  <2>1. ASSUME NEW k \in 1 .. Len(new)
        PROVE  /\ NeedsKeep(jobs[k]) => k < Len(jobs) /\ jobs[k + 1].do = "keep"
               /\ jobs[k].do # "mark"
               /\ \A l \in 1 .. k : Logs(jobs[l])
    <3>1. NeedsKeep(new[k]) => k < Len(new) /\ new[k + 1].do = "keep"
      BY DEF Logging, Sound
    <3>2. k < Len(new) => k + 1 \in 1 .. Len(new)
      BY <1>2
    <3>3. \A l \in 1 .. k : Logs(new[l]) /\ l \in 1 .. Len(new)
      BY <1>2 DEF Logging
    <3>4. new[k].do # "mark"
      BY DEF Logging, Logs
    <3> QED BY <1>2, <1>3, <1>4, <3>1, <3>2, <3>3, <3>4
  <2>2. ASSUME NEW l \in 1 .. Len(rest)
        PROVE  LET k == Len(new) + l
               IN /\ NeedsKeep(jobs[k]) => k < Len(jobs) /\ jobs[k + 1].do = "keep"
                  /\ jobs[k].do = "mark" => k = Len(jobs) - 1
                  /\ Logs(jobs[k]) => \A x \in 1 .. k : Logs(jobs[x])
    <3> DEFINE k == Len(new) + l
    <3>1. /\ NeedsKeep(rest[l]) => l < Len(rest) /\ rest[l + 1].do = "keep"
          /\ rest[l].do = "mark" => l = Len(rest) - 1
          /\ Logs(rest[l]) => \A x \in 1 .. l : Logs(rest[x])
      BY DEF Sound
    <3>2. jobs[k] = rest[l]
      BY <1>5
    <3>3. l < Len(rest) => l + 1 \in 1 .. Len(rest) /\ k + 1 = Len(new) + (l + 1)
      BY <1>2
    <3>4. NeedsKeep(jobs[k]) => k < Len(jobs) /\ jobs[k + 1].do = "keep"
      BY <1>2, <1>3, <1>5, <3>1, <3>2, <3>3
    <3>5. ASSUME Logs(jobs[k]), NEW x \in 1 .. k
          PROVE  Logs(jobs[x])
      <4>1. CASE x \in 1 .. Len(new)
        BY <4>1, <1>4 DEF Logging
      <4>2. CASE ~ x \in 1 .. Len(new)
        <5>1. x - Len(new) \in 1 .. l /\ x - Len(new) \in 1 .. Len(rest)
              /\ x = Len(new) + (x - Len(new))
          BY <4>2, <1>2
        <5>2. Logs(rest[x - Len(new)])
          BY <3>1, <3>2, <3>5, <5>1
        <5>3. jobs[x] = rest[x - Len(new)]
          BY <1>5, <5>1
        <5> QED BY <5>2, <5>3
      <4> QED BY <4>1, <4>2
    <3>6. jobs[k].do = "mark" => k = Len(jobs) - 1
      BY <1>2, <1>3, <3>1, <3>2
    <3> HIDE DEF k
    <3>7. /\ NeedsKeep(jobs[k]) => k < Len(jobs) /\ jobs[k + 1].do = "keep"
          /\ jobs[k].do = "mark" => k = Len(jobs) - 1
          /\ Logs(jobs[k]) => \A x \in 1 .. k : Logs(jobs[x])
      BY <3>4, <3>5, <3>6
    <3> QED BY <3>7 DEF k
  <2> QED BY <1>6, <2>1, <2>2 DEF Sound
<1>8. Calm(jobs)
  <2>1. \A k \in 1 .. Len(new) : jobs[k].do # "retitle"
    BY <1>4, LoggingIsCalm DEF Calm
  <2>2. \A l \in 1 .. Len(rest) : jobs[Len(new) + l].do # "retitle"
    BY <1>5 DEF Calm
  <2> QED BY <1>6, <2>1, <2>2 DEF Calm
<1>9. PutsFrom(jobs, n)
  <2>1. \A k \in 1 .. Len(new) : jobs[k].do = "put" => jobs[k].of \in 1 .. n
    BY <1>4, LoggingIsCalm DEF PutsFrom
  <2>2. \A l \in 1 .. Len(rest) :
          jobs[Len(new) + l].do = "put" => jobs[Len(new) + l].of \in 1 .. n
    BY <1>5 DEF PutsFrom
  <2> QED BY <1>6, <2>1, <2>2 DEF PutsFrom
<1> QED BY <1>2, <1>3, <1>4, <1>5, <1>7, <1>8, <1>9 DEF jobs

----------------------------------------------------------------------------
(* Sets in sequence                                                        *)

LEMMA LeastNatural ==
  ASSUME NEW S \in SUBSET Nat, S # {}
  PROVE  \E n \in S : \A m \in S : n <= m
<1> DEFINE Below(n) == 0 .. (n - 1)
           T1 == {Below(n) : n \in S}
<1>1. IsWellFoundedOn(StrictSubsetOrdering(Nat), FiniteSubsetsOf(Nat))
  BY FS_StrictSubsetOrderingWellFounded
<1>2. T1 \subseteq FiniteSubsetsOf(Nat) /\ T1 # {}
  <2>1. ASSUME NEW n \in S PROVE Below(n) \in FiniteSubsetsOf(Nat)
    <3>1. n \in Int /\ n - 1 \in Int
      OBVIOUS
    <3>2. IsFiniteSet(Below(n)) /\ Below(n) \in SUBSET Nat
      BY <3>1, FS_Interval
    <3> QED BY <3>2 DEF FiniteSubsetsOf
  <2> QED BY <2>1
<1>3. PICK x \in T1 : \A y \in T1 : <<y, x>> \notin StrictSubsetOrdering(Nat)
  <2> HIDE DEF T1
  <2> QED BY <1>1, <1>2, WFMin
<1>4. PICK n \in S : x = Below(n)
  BY <1>3
<1>5. ASSUME NEW m \in S, m < n PROVE FALSE
  <2>1. Below(m) \subseteq Below(n) /\ Below(m) # Below(n)
    BY <1>5
  <2>2. Below(m) \in SUBSET Nat /\ Below(n) \in SUBSET Nat
    OBVIOUS
  <2>3. <<Below(m), Below(n)>> \in StrictSubsetOrdering(Nat)
    <3> HIDE DEF Below
    <3> QED BY <2>1, <2>2 DEF StrictSubsetOrdering
  <2> QED BY <2>3, <1>3, <1>4
<1> QED BY <1>5

Rising(s, ids) ==
  /\ s \in [1 .. Cardinality(ids) -> ids]
  /\ \A a, b \in 1 .. Cardinality(ids) : a < b => s[a] < s[b]

LEMMA RisingExists ==
  ASSUME NEW n \in Nat, NEW ids \in SUBSET (1 .. n)
  PROVE  \E s : Rising(s, ids)
<1> DEFINE Bad == {x \in Nat : \E y \in SUBSET (1 .. x) : ~ \E s : Rising(s, y)}
<1>1. ASSUME NEW x \in Nat, \A y \in Bad : x <= y, x \in Bad
      PROVE  FALSE
  <2>1. PICK y \in SUBSET (1 .. x) : ~ \E s : Rising(s, y)
    BY <1>1
  <2>2. y # {}
    <3>1. SUFFICES ASSUME y = {} PROVE Rising([k \in 1 .. 0 |-> 0], y)
      BY <2>1
    <3>2. Cardinality(y) = 0 /\ 1 .. 0 = {}
      BY <3>1, FS_EmptySet
    <3>3. [k \in 1 .. 0 |-> 0] \in [1 .. 0 -> y]
      BY <3>2
    <3> QED BY <3>2, <3>3 DEF Rising
  <2>3. x # 0
    <3>1. 1 .. 0 = {}
      OBVIOUS
    <3> QED BY <2>1, <2>2, <3>1
  <2>4. x - 1 \in Nat /\ ~ (x - 1 \in Bad)
    BY <1>1, <2>3
  <2> DEFINE z == y \ {x}
  <2>5. z \in SUBSET (1 .. x - 1)
    OBVIOUS
  <2>6. PICK s : Rising(s, z)
    BY <2>4, <2>5
  <2>7. x \in y
    BY <2>1, <2>6
  <2>8. IsFiniteSet(y)
    <3>1. IsFiniteSet(1 .. x)
      BY FS_Interval
    <3> QED BY <3>1, <2>1, FS_Subset
  <2>9. Cardinality(y) \in Nat /\ IsFiniteSet(z) /\ Cardinality(z) = Cardinality(y) - 1
    BY <2>7, <2>8, FS_RemoveElement, FS_CardinalityType
  <2>10. Cardinality(z) \in Nat
    BY <2>9, FS_CardinalityType
  <2> DEFINE c == Cardinality(z)
             r == [k \in 1 .. c + 1 |-> IF k = c + 1 THEN x ELSE s[k]]
  <2>11. Cardinality(y) = c + 1
    BY <2>9, <2>10
  <2>12. s \in [1 .. c -> z] /\ \A a, b \in 1 .. c : a < b => s[a] < s[b]
    BY <2>6 DEF Rising
  <2>13. c \in Nat
    BY <2>10
  <2> HIDE DEF c
  <2>14. r \in [1 .. c + 1 -> y]
    BY <2>7, <2>12, <2>13
  <2>15. ASSUME NEW a \in 1 .. c + 1, NEW b \in 1 .. c + 1, a < b
         PROVE  r[a] < r[b]
    <3>1. a \in 1 .. c /\ r[a] = s[a] /\ s[a] \in z
      BY <2>12, <2>13, <2>15
    <3>2. CASE b = c + 1
      <4>1. r[b] = x
        BY <3>2
      <4>2. s[a] \in 1 .. x - 1
        BY <2>5, <3>1
      <4> QED BY <3>1, <4>1, <4>2
    <3>3. CASE b # c + 1
      <4>1. b \in 1 .. c /\ r[b] = s[b]
        BY <2>13, <3>3
      <4> QED BY <3>1, <4>1, <2>12, <2>15
    <3> QED BY <3>2, <3>3
  <2> HIDE DEF r
  <2>16. Rising(r, y)
    BY <2>11, <2>14, <2>15 DEF Rising
  <2> QED BY <2>1, <2>16
<1>2. Bad = {}
  <2>1. SUFFICES ASSUME Bad # {} PROVE FALSE
    OBVIOUS
  <2>2. Bad \in SUBSET Nat
    OBVIOUS
  <2> HIDE DEF Bad
  <2>3. PICK x \in Bad : \A y \in Bad : x <= y
    BY <2>1, <2>2, LeastNatural
  <2> QED BY <1>1, <2>2, <2>3
<1> QED BY <1>2

LEMMA InOrderRises ==
  ASSUME NEW n \in Nat, NEW ids \in SUBSET (1 .. n)
  PROVE  /\ Cardinality(ids) \in Nat
         /\ \A k \in 1 .. Cardinality(ids) : InOrder(ids)[k] \in ids
<1>1. Cardinality(ids) \in Nat
  <2>1. IsFiniteSet(1 .. n)
    BY FS_Interval
  <2> QED BY <2>1, FS_Subset, FS_CardinalityType
<1>2. \E s \in [1 .. Cardinality(ids) -> ids] :
        \A a, b \in 1 .. Cardinality(ids) : a < b => s[a] < s[b]
  BY RisingExists DEF Rising
<1>3. InOrder(ids) \in [1 .. Cardinality(ids) -> ids]
  BY <1>2 DEF InOrder
<1> QED BY <1>1, <1>3

LEMMA InSequence ==
  ASSUME NEW S, IsFiniteSet(S)
  PROVE  LET s == SetToSeq(S)
         IN /\ Len(s) \in Nat
            /\ \A k \in 1 .. Len(s) : s[k] \in S
            /\ \A x \in S : \E k \in 1 .. Len(s) : s[k] = x
<1> DEFINE n == Cardinality(S)
           s == SetToSeq(S)
<1>1. n \in Nat /\ ExistsBijection(1 .. n, S)
  BY FS_CardinalityType
<1>2. \E f \in [1 .. n -> S] : IsInjective(f)
  BY <1>1 DEF ExistsBijection, Bijection, Injection
<1>3. s \in [1 .. n -> S] /\ IsInjective(s)
  BY <1>2 DEF SetToSeq
<1>4. Len(s) = n
  BY <1>1, <1>3
<1>5. s \in Injection(1 .. n, S)
  BY <1>3 DEF Injection
<1>6. Cardinality(1 .. n) = n
  BY <1>1, FS_Interval
<1>7. s \in Surjection(1 .. n, S)
  <2> HIDE DEF n, s
  <2>1. Cardinality(1 .. n) = Cardinality(S)
    BY <1>6 DEF n
  <2> QED BY <1>5, <2>1, FS_Injection
<1>8. \A x \in S : \E k \in 1 .. n : s[k] = x
  BY <1>7 DEF Surjection
<1> HIDE DEF n, s
<1>9. /\ Len(s) \in Nat
      /\ \A k \in 1 .. Len(s) : s[k] \in S
      /\ \A x \in S : \E k \in 1 .. Len(s) : s[k] = x
  BY <1>1, <1>3, <1>4, <1>8
<1> QED BY <1>9 DEF s

----------------------------------------------------------------------------
(* What commands leave to do                                               *)

LEMMA NoteLogs ==
  ASSUME NEW j \in JobSet, j.do = "note", j.op # "delete_thing"
  PROVE  Logging(<<j>>)
<1>1. <<j>> \in Seq(JobSet) /\ Len(<<j>>) = 1 /\ <<j>>[1] = j
  OBVIOUS
<1>2. Logs(j) /\ ~ NeedsKeep(j) /\ j.do # "mark"
  BY DEF Logs, NeedsKeep
<1> QED BY <1>1, <1>2 DEF Logging, Sound

LEMMA PairLogs ==
  ASSUME NEW j \in JobSet, NEW l \in JobSet, j.do \in {"note", "join"}, l.do = "keep"
  PROVE  Logging(<<j, l>>)
<1> DEFINE s == <<j, l>>
<1>1. s \in Seq(JobSet) /\ Len(s) = 2 /\ s[1] = j /\ s[2] = l
  OBVIOUS
<1>2. Logs(j) /\ Logs(l) /\ ~ NeedsKeep(l) /\ j.do # "mark" /\ l.do # "mark"
  BY DEF Logs, NeedsKeep
<1> HIDE DEF s
<1>3. Sound(s)
  <2> SUFFICES ASSUME NEW k \in 1 .. Len(s)
               PROVE  /\ NeedsKeep(s[k]) => k < Len(s) /\ s[k + 1].do = "keep"
                      /\ s[k].do = "mark" => k = Len(s) - 1
                      /\ Logs(s[k]) => \A x \in 1 .. k : Logs(s[x])
    BY DEF Sound
  <2>1. k = 1 \/ k = 2
    BY <1>1
  <2> QED BY <2>1, <1>1, <1>2
<1> QED BY <1>1, <1>2, <1>3 DEF Logging, s

LEMMA UpsertLogs ==
  ASSUME NEW t \in Thing, NEW m, meta \in Documents
  PROVE  LET jobs == UpsertJobs(t, m)
         IN /\ Logging(jobs) /\ Len(jobs) >= 1
            /\ jobs[1].subject = t
            /\ jobs[1].do = "join" \/ (jobs[1].do = "note" /\ ~ jobs[1].child)
<1> DEFINE op == IF T!Home(meta, t) # T!Home(m, t) THEN "move_thing" ELSE "update_thing"
           n == Note("create_thing", t, NoCollection, FALSE, TRUE)
           j == Join(op, t, T!Home(meta, t))
           l == KeepView(meta, t)
<1>1. CASE ~ T!Exists(meta, t)
  <2>1. n \in JobSet /\ n.do = "note" /\ n.op = "create_thing" /\ n.subject = t /\ n.child = FALSE
    <3>1. Fits("create_thing", t) /\ "create_thing" \in Op /\ t \in Subject /\ NoCollection \in From
      BY DEF Fits, Op, Subject, From
    <3> QED BY <3>1, NoteIsJob DEF Note
  <2> HIDE DEF n
  <2>2. Logging(<<n>>)
    BY <2>1, NoteLogs
  <2>3. UpsertJobs(t, m) = <<n>>
    BY <1>1 DEF UpsertJobs, n
  <2>4. <<n>>[1] = n /\ Len(<<n>>) = 1
    OBVIOUS
  <2> QED BY <2>1, <2>2, <2>3, <2>4
<1>2. CASE T!Exists(meta, t)
  <2>1. j \in JobSet /\ j.do = "join" /\ j.subject = t
    <3>1. T!Home(meta, t) \in From
      BY HomeFacts DEF From
    <3> QED BY <3>1, OtherJobs DEF Join
  <2>2. l \in JobSet /\ l.do = "keep"
    BY ViewJobs DEF KeepView
  <2>3. UpsertJobs(t, m) = <<j, l>>
    BY <1>2 DEF UpsertJobs
  <2> HIDE DEF j, l
  <2>4. Logging(<<j, l>>)
    BY <2>1, <2>2, PairLogs
  <2>5. <<j, l>>[1] = j /\ Len(<<j, l>>) = 2
    OBVIOUS
  <2> QED BY <2>1, <2>3, <2>4, <2>5
<1> QED BY <1>1, <1>2

\* A job that is neither an entry of a command of its own nor an undo's.
Follows(j) == j.do = "keep" \/ (j.do = "note" /\ j.child)

LEMMA DeleteLogs ==
  ASSUME NEW t \in Thing, meta \in Documents
  PROVE  LET jobs == DeleteJobs(t)
         IN /\ Logging(jobs) /\ Len(jobs) >= 1
            /\ jobs[1].do = "note" /\ jobs[1].subject = t /\ ~ jobs[1].child
            /\ \A k \in 2 .. Len(jobs) : Follows(jobs[k])
            /\ \A x \in T!Descendants(meta, t) :
                 \E k \in 2 .. Len(jobs) : jobs[k].do = "note" /\ jobs[k].subject = x
            /\ \A k \in 1 .. Len(jobs) : jobs[k].do = "note" =>
                 /\ jobs[k].op = "delete_thing" /\ (jobs[k].child => ~ jobs[k].can)
            /\ \A k \in 1 .. Len(jobs) : jobs[k].do = "keep" =>
                 /\ k - 1 \in 1 .. Len(jobs)
                 /\ jobs[k] = KeepView(meta, jobs[k].thing)
                 /\ jobs[k].thing \in {t} \cup T!Descendants(meta, t)
                 /\ NeedsKeep(jobs[k - 1]) /\ jobs[k - 1].subject = jobs[k].thing
<1> DEFINE D == T!Descendants(meta, t)
           below == SetToSeq(D)
           n == Len(below)
           root == Note("delete_thing", t, NoCollection, FALSE, TRUE)
           child(x) == Note("delete_thing", x, NoCollection, TRUE, FALSE)
           kept(x) == KeepView(meta, x)
           written(x) == <<child(x), kept(x)>>
           g == [k \in 1 .. 2 * n |-> written(below[(k + 1) \div 2])[2 - (k % 2)]]
<1>1. D \subseteq Thing /\ IsFiniteSet(D)
  <2>1. D \subseteq Thing
    BY DEF T!Descendants
  <2> QED BY <2>1, HistoryAssumption, FS_Subset
<1>2. n \in Nat /\ (\A k \in 1 .. n : below[k] \in D) /\ \A x \in D : \E k \in 1 .. n : below[k] = x
  <2> HIDE DEF D
  <2> QED BY <1>1, InSequence
<1>3. ASSUME NEW x \in Thing
      PROVE  /\ child(x) \in JobSet /\ child(x).do = "note" /\ child(x).subject = x
             /\ child(x).child = TRUE /\ child(x).op = "delete_thing" /\ child(x).can = FALSE
             /\ kept(x) \in JobSet /\ kept(x).do = "keep" /\ kept(x).thing = x
             /\ kept(x) = KeepView(meta, x)
             /\ root \in JobSet /\ root.do = "note" /\ root.subject = t /\ root.child = FALSE
             /\ root.op = "delete_thing"
  <2>1. "delete_thing" \in Op /\ NoCollection \in From /\ t \in Subject /\ x \in Subject
        /\ Fits("delete_thing", t) /\ Fits("delete_thing", x)
    BY DEF Op, From, Subject, Fits
  <2>2. root \in JobSet /\ child(x) \in JobSet
    BY <2>1, NoteIsJob
  <2>3. kept(x) \in JobSet
    BY ViewJobs
  <2> QED BY <2>2, <2>3 DEF Note, KeepView
<1>4. DeleteJobs(t) = <<root, kept(t)>> \o g
  BY DEF DeleteJobs
<1> HIDE DEF D, below, root, child, kept
<1>5. ASSUME NEW a \in 1 .. n
      PROVE  /\ 2 * a - 1 \in 1 .. 2 * n /\ 2 * a \in 1 .. 2 * n
             /\ g[2 * a - 1] = child(below[a]) /\ g[2 * a] = kept(below[a])
  <2>1. 2 * a - 1 \in 1 .. 2 * n /\ 2 * a \in 1 .. 2 * n
    BY <1>2
  <2>2. ((2 * a - 1) + 1) \div 2 = a /\ (2 * a - 1) % 2 = 1
    BY <1>2
  <2>3. (2 * a + 1) \div 2 = a /\ (2 * a) % 2 = 0
    BY <1>2
  <2>4. g[2 * a - 1] = written(below[a])[1]
    BY <2>1, <2>2
  <2>5. g[2 * a] = written(below[a])[2]
    BY <2>1, <2>3
  <2> QED BY <2>1, <2>4, <2>5
<1>6. ASSUME NEW k \in 1 .. 2 * n
      PROVE  \E a \in 1 .. n : k = 2 * a - 1 \/ k = 2 * a
  <2> DEFINE a == (k + 1) \div 2
  <2>1. a \in 1 .. n /\ (k = 2 * a - 1 \/ k = 2 * a)
    BY <1>2
  <2> QED BY <2>1
<1> HIDE DEF written, g
<1> DEFINE first == <<root, kept(t)>>
           jobs == first \o g
<1>7. first \in Seq(JobSet) /\ Len(first) = 2 /\ first[1] = root /\ first[2] = kept(t)
  <2>1. root \in JobSet /\ kept(t) \in JobSet
    BY <1>3
  <2> QED BY <2>1
<1>8. g \in Seq(JobSet) /\ Len(g) = 2 * n
  <2>1. ASSUME NEW k \in 1 .. 2 * n PROVE g[k] \in JobSet
    <3>1. PICK a \in 1 .. n : k = 2 * a - 1 \/ k = 2 * a
      BY <1>6
    <3>2. below[a] \in Thing
      BY <1>1, <1>2
    <3>3. child(below[a]) \in JobSet /\ kept(below[a]) \in JobSet
      BY <3>2, <1>3
    <3> QED BY <3>1, <3>3, <1>5
  <2>2. 2 * n \in Nat
    BY <1>2
  <2> HIDE DEF n
  <2>3. g \in [1 .. 2 * n -> JobSet]
    BY <2>1 DEF g
  <2> QED BY <2>2, <2>3, FunIsSeq
<1> HIDE DEF first, n
<1>9. /\ jobs \in Seq(JobSet) /\ Len(jobs) = 2 + 2 * n
      /\ jobs[1] = root /\ jobs[2] = kept(t)
      /\ \A k \in 1 .. 2 * n : jobs[k + 2] = g[k]
  <2>1. /\ jobs \in Seq(JobSet)
        /\ Len(jobs) = Len(first) + Len(g)
        /\ \A i \in 1 .. Len(first) + Len(g) : jobs[i] =
                     IF i <= Len(first) THEN first[i] ELSE g[i - Len(first)]
    BY <1>7, <1>8, ConcatProperties
  <2> HIDE DEF jobs
  <2>2. \A i \in 1 .. 2 + 2 * n : jobs[i] = IF i <= 2 THEN first[i] ELSE g[i - 2]
    BY <2>1, <1>7, <1>8
  <2>3. ASSUME NEW k \in 1 .. 2 * n PROVE jobs[k + 2] = g[k]
    <3>1. k + 2 \in 1 .. 2 + 2 * n /\ ~ (k + 2 <= 2) /\ (k + 2) - 2 = k
      BY <1>2
    <3> QED BY <2>2, <3>1
  <2>4. 1 \in 1 .. 2 + 2 * n /\ 2 \in 1 .. 2 + 2 * n
    BY <1>2
  <2> QED BY <2>1, <2>2, <2>3, <2>4, <1>7, <1>8
<1> HIDE DEF jobs
<1>10. ASSUME NEW k \in 1 .. Len(jobs)
       PROVE  \/ k = 1 \/ k = 2
              \/ \E a \in 1 .. n : k = 2 * a + 1 \/ k = 2 * a + 2
  <2>1. CASE k > 2
    <3>1. k - 2 \in 1 .. 2 * n
      BY <1>9, <1>2, <2>1
    <3>2. PICK a \in 1 .. n : k - 2 = 2 * a - 1 \/ k - 2 = 2 * a
      BY <3>1, <1>6
    <3> QED BY <3>2, <1>2
  <2> QED BY <2>1
<1>11. ASSUME NEW a \in 1 .. n
       PROVE  /\ 2 * a + 1 \in 2 .. Len(jobs) /\ 2 * a + 2 \in 2 .. Len(jobs)
              /\ jobs[2 * a + 1] = child(below[a]) /\ jobs[2 * a + 2] = kept(below[a])
              /\ (2 * a + 1) + 1 = 2 * a + 2
              /\ below[a] \in D
  <2>1. (2 * a - 1) + 2 = 2 * a + 1 /\ 2 * a + 1 \in 2 .. Len(jobs) /\ 2 * a + 2 \in 2 .. Len(jobs)
        /\ (2 * a + 1) + 1 = 2 * a + 2
    BY <1>2, <1>9
  <2> QED BY <2>1, <1>2, <1>5, <1>9
<1>12. /\ ~ NeedsKeep(kept(t)) /\ Logs(kept(t)) /\ kept(t).do = "keep"
       /\ Logs(root) /\ root.do # "mark" /\ root.do = "note" /\ root.subject = t /\ ~ root.child
       /\ \A x \in D : /\ child(x).do = "note" /\ child(x).child /\ child(x).subject = x
                       /\ child(x).op = "delete_thing" /\ ~ child(x).can
                       /\ kept(x).do = "keep" /\ kept(x).thing = x
                       /\ kept(x) = KeepView(meta, x) /\ NeedsKeep(child(x))
       /\ kept(t).thing = t /\ kept(t) = KeepView(meta, t) /\ NeedsKeep(root)
       /\ root.op = "delete_thing"
  BY <1>1, <1>3 DEF NeedsKeep, Logs
<1>13. ASSUME NEW k \in 1 .. Len(jobs)
       PROVE  /\ Logs(jobs[k]) /\ jobs[k].do # "mark"
              /\ NeedsKeep(jobs[k]) => k < Len(jobs) /\ jobs[k + 1].do = "keep"
              /\ k # 1 => Follows(jobs[k])
  <2>1. CASE k = 1
    <3>1. 1 < Len(jobs) /\ jobs[1 + 1].do = "keep"
      BY <1>2, <1>9, <1>12
    <3> QED BY <2>1, <3>1, <1>9, <1>12
  <2>2. CASE k = 2
    BY <2>2, <1>9, <1>12 DEF Follows
  <2>3. CASE k # 1 /\ k # 2
    <3>1. PICK a \in 1 .. n : k = 2 * a + 1 \/ k = 2 * a + 2
      BY <2>3, <1>10
    <3>2. /\ 2 * a + 2 \in 2 .. Len(jobs)
          /\ jobs[2 * a + 1] = child(below[a]) /\ jobs[2 * a + 2] = kept(below[a])
          /\ (2 * a + 1) + 1 = 2 * a + 2 /\ 2 * a + 1 < 2 * a + 2
      BY <1>11, <1>2
    <3>3. /\ child(below[a]).do = "note" /\ child(below[a]).child
          /\ kept(below[a]).do = "keep"
      BY <1>11, <1>12
    <3>4. CASE k = 2 * a + 1
      <4>1. k + 1 = 2 * a + 2 /\ k < 2 * a + 2
        BY <3>2, <3>4
      <4>2. jobs[k + 1].do = "keep" /\ k < Len(jobs)
        BY <4>1, <3>2, <3>3
      <4> QED BY <4>2, <3>2, <3>3, <3>4 DEF Logs, Follows
    <3>5. CASE k = 2 * a + 2
      BY <3>5, <3>2, <3>3 DEF Logs, Follows, NeedsKeep
    <3> QED BY <3>1, <3>4, <3>5
  <2> QED BY <2>1, <2>2, <2>3
<1>14. Sound(jobs)
  <2>1. \A k \in 1 .. Len(jobs) : \A l \in 1 .. k : l \in 1 .. Len(jobs)
    BY <1>9, <1>2
  <2> QED BY <2>1, <1>13 DEF Sound
<1>15. \A k \in 2 .. Len(jobs) : Follows(jobs[k])
  <2> SUFFICES ASSUME NEW k \in 2 .. Len(jobs) PROVE Follows(jobs[k])
    OBVIOUS
  <2>1. k \in 1 .. Len(jobs) /\ k # 1
    BY <1>9, <1>2
  <2> QED BY <2>1, <1>13
<1>16. ASSUME NEW x \in D
       PROVE  \E k \in 2 .. Len(jobs) : jobs[k].do = "note" /\ jobs[k].subject = x
  <2>1. PICK a \in 1 .. n : below[a] = x
    BY <1>2
  <2> QED BY <2>1, <1>11, <1>12
<1>17. Len(jobs) >= 1
  BY <1>2, <1>9
<1>18. ASSUME NEW k \in 1 .. Len(jobs)
       PROVE  /\ jobs[k].do = "note" =>
                   jobs[k].op = "delete_thing" /\ (jobs[k].child => ~ jobs[k].can)
              /\ jobs[k].do = "keep" =>
                   /\ k - 1 \in 1 .. Len(jobs)
                   /\ jobs[k] = KeepView(meta, jobs[k].thing)
                   /\ jobs[k].thing \in {t} \cup D
                   /\ NeedsKeep(jobs[k - 1]) /\ jobs[k - 1].subject = jobs[k].thing
  <2>1. CASE k = 1
    BY <2>1, <1>9, <1>12
  <2>2. CASE k = 2
    <3>1. k - 1 = 1 /\ 1 \in 1 .. Len(jobs)
      BY <2>2, <1>17, <1>9, <1>2
    <3> QED BY <2>2, <3>1, <1>9, <1>12
  <2>3. CASE k # 1 /\ k # 2
    <3>1. PICK a \in 1 .. n : k = 2 * a + 1 \/ k = 2 * a + 2
      BY <2>3, <1>10
    <3> DEFINE x == below[a]
    <3>2. /\ 2 * a + 1 \in 1 .. Len(jobs)
          /\ jobs[2 * a + 1] = child(x) /\ jobs[2 * a + 2] = kept(x)
          /\ (2 * a + 2) - 1 = 2 * a + 1
          /\ x \in D
      BY <1>11, <1>2
    <3> HIDE DEF x
    <3>3. CASE k = 2 * a + 1
      BY <3>2, <3>3, <1>12
    <3>4. CASE k = 2 * a + 2
      <4>1. k - 1 = 2 * a + 1
        BY <3>2, <3>4
      <4> QED BY <3>2, <3>4, <4>1, <1>12
    <3> QED BY <3>1, <3>3, <3>4
  <2> QED BY <2>1, <2>2, <2>3
<1>19. DeleteJobs(t) = jobs
  BY <1>4 DEF jobs, first
<1> HIDE DEF NeedsKeep
<1> QED BY <1>9, <1>12, <1>13, <1>14, <1>15, <1>16, <1>17, <1>18, <1>19 DEF Logging, D

\* The jobs of an undo: none writes the log.
Undoing(jobs) ==
  /\ jobs \in Seq(JobSet) /\ PutsFrom(jobs, Len(log))
  /\ \A k \in 1 .. Len(jobs) : ~ Logs(jobs[k]) /\ jobs[k].do \notin {"mark", "retitle"}

LEMMA UndoesOne ==
  ASSUME NEW j \in JobSet, ~ Logs(j), j.do \notin {"mark", "retitle"},
         j.do = "put" => j.of \in Ids
  PROVE  Undoing(<<j>>) /\ Len(<<j>>) >= 1
<1>1. <<j>> \in Seq(JobSet) /\ Len(<<j>>) = 1 /\ <<j>>[1] = j
  OBVIOUS
<1> QED BY <1>1 DEF Undoing, PutsFrom, Ids

LEMMA UndoJobsUndo ==
  ASSUME log \in Seq(LogRow \cup {Gone}), NEW i, Live(i), log[i] \in LogRow,
         Fits(log[i].op, log[i].subject)
  PROVE  Undoing(UndoJobs(i)) /\ Len(UndoJobs(i)) >= 1
<1> DEFINE op == log[i].op
           s == log[i].subject
<1>1. Len(log) \in Nat /\ i \in 1 .. Len(log) /\ op \in Op
  BY DEF Live, Ids, LogRow
<1>2. CASE op = "create_thing"
  <2>1. Bin(s) \in JobSet /\ Bin(s).do = "bin"
    BY <1>2, OtherJobs DEF Fits, Bin
  <2>2. UndoJobs(i) = <<Bin(s)>>
    BY <1>2 DEF UndoJobs
  <2> QED BY <2>1, <2>2, UndoesOne DEF Logs
<1>3. CASE op = "move_thing"
  <2>1. PutBack(i) \in JobSet /\ PutBack(i).do = "put back"
    BY <1>3, PutBackIsJob DEF PutBack
  <2>2. UndoJobs(i) = <<PutBack(i)>>
    BY <1>3 DEF UndoJobs
  <2> QED BY <2>1, <2>2, UndoesOne DEF Logs
<1>4. CASE op = "create_collection"
  <2>1. Shelve(s) \in JobSet /\ Shelve(s).do = "shelve"
    BY <1>4, OtherJobs DEF Fits, Shelve
  <2>2. UndoJobs(i) = <<Shelve(s)>>
    BY <1>4 DEF UndoJobs
  <2> QED BY <2>1, <2>2, UndoesOne DEF Logs
<1>5. CASE op = "delete_collection"
  <2>1. Reopen(s) \in JobSet /\ Reopen(s).do = "reopen"
    BY <1>5, OtherJobs DEF Fits, Reopen
  <2>2. UndoJobs(i) = <<Reopen(s)>>
    BY <1>5 DEF UndoJobs
  <2> QED BY <2>1, <2>2, UndoesOne DEF Logs
<1>6. \A x \in Ids : Put(x) \in JobSet /\ Put(x).do = "put" /\ Put(x).of = x
  <2>1. \A x \in Ids : x \in Nat
    BY <1>1 DEF Ids
  <2> QED BY <2>1, PutIsJob DEF Put
<1>7. CASE op = "delete_thing"
  <2> DEFINE ids == Cascades(i)
             n == Cardinality(ids)
             g == [k \in 1 .. n |-> Put(InOrder(ids)[k])]
             jobs == <<Put(i)>> \o g
  <2>1. ids \subseteq Ids
    BY DEF Cascades, Live
  <2>2. n \in Nat /\ \A k \in 1 .. n : InOrder(ids)[k] \in Ids
    <3> HIDE DEF ids
    <3>1. ids \in SUBSET (1 .. Len(log))
      BY <2>1 DEF Ids
    <3>2. /\ Cardinality(ids) \in Nat
          /\ \A k \in 1 .. Cardinality(ids) : InOrder(ids)[k] \in ids
      BY <3>1, <1>1, InOrderRises
    <3> QED BY <3>2, <2>1
  <2> HIDE DEF n, ids
  <2>3. \A k \in 1 .. n : g[k] \in JobSet /\ g[k].do = "put" /\ g[k].of \in Ids
    BY <2>2, <1>6
  <2> HIDE DEF g
  <2>4. g \in Seq(JobSet) /\ Len(g) = n
    <3>1. g \in [1 .. n -> JobSet]
      BY <2>3 DEF g
    <3> QED BY <3>1, <2>2, FunIsSeq
  <2>5. <<Put(i)>> \in Seq(JobSet) /\ Len(<<Put(i)>>) = 1 /\ <<Put(i)>>[1] = Put(i)
    <3>1. Put(i) \in JobSet
      BY <1>6, <1>1 DEF Ids
    <3> QED BY <3>1
  <2>6. /\ jobs \in Seq(JobSet) /\ Len(jobs) = 1 + n
        /\ \A k \in 1 .. 1 + n : jobs[k] = IF k <= 1 THEN <<Put(i)>>[k] ELSE g[k - 1]
    BY <2>4, <2>5, ConcatProperties
  <2> HIDE DEF jobs
  <2>7. ASSUME NEW k \in 1 .. Len(jobs)
        PROVE  jobs[k].do = "put" /\ jobs[k].of \in Ids
    <3>1. CASE k = 1
      <4>1. jobs[k] = Put(i)
        BY <3>1, <2>2, <2>5, <2>6
      <4> QED BY <4>1, <1>1, <1>6 DEF Ids
    <3>2. CASE k # 1
      <4>1. k - 1 \in 1 .. n /\ jobs[k] = g[k - 1]
        BY <3>2, <2>2, <2>6
      <4> QED BY <4>1, <2>3
    <3> QED BY <3>1, <3>2
  <2>8. UndoJobs(i) = jobs
    BY <1>7 DEF UndoJobs, jobs, g, n, ids
  <2>9. Len(jobs) >= 1
    BY <2>2, <2>6
  <2> QED BY <2>6, <2>7, <2>8, <2>9 DEF Undoing, PutsFrom, Logs, Ids
<1>8. CASE op \notin {"create_thing", "move_thing", "create_collection", "delete_collection",
                      "delete_thing"}
  <2>1. UndoJobs(i) = <<Put(i)>>
    BY <1>8 DEF UndoJobs
  <2> QED BY <2>1, <1>1, <1>6, UndoesOne DEF Logs, Ids
<1> QED BY <1>2, <1>3, <1>4, <1>5, <1>7, <1>8

LEMMA UndoProgramFits ==
  ASSUME log \in Seq(LogRow \cup {Gone}), NEW i, Live(i), log[i] \in LogRow,
         Fits(log[i].op, log[i].subject)
  PROVE  LET jobs == UndoProgram(i)
         IN jobs \in Seq(JobSet) /\ Sound(jobs) /\ Calm(jobs) /\ PutsFrom(jobs, Len(log))
            /\ jobs # <<>>
<1> DEFINE a == UndoJobs(i)
           r == Record(log[i].subject)
           b == <<Mark, r>>
           jobs == a \o b
<1>1. Undoing(a) /\ Len(a) >= 1
  BY UndoJobsUndo
<1>2. a \in Seq(JobSet) /\ Len(a) \in Nat
  BY <1>1 DEF Undoing
<1>3. r \in JobSet /\ Mark \in JobSet /\ r.do = "record" /\ Mark.do = "mark"
  BY OtherJobs DEF Record, Mark, LogRow
<1> HIDE DEF a, r
<1>4. b \in Seq(JobSet) /\ Len(b) = 2 /\ b[1] = Mark /\ b[2] = r
  BY <1>3
<1> HIDE DEF b
<1>5. /\ jobs \in Seq(JobSet) /\ Len(jobs) = Len(a) + 2
      /\ \A k \in 1 .. Len(a) + 2 : jobs[k] = IF k <= Len(a) THEN a[k] ELSE b[k - Len(a)]
  <2>1. /\ jobs \in Seq(JobSet) /\ Len(jobs) = Len(a) + Len(b)
        /\ \A k \in 1 .. Len(a) + Len(b) : jobs[k] = IF k <= Len(a) THEN a[k] ELSE b[k - Len(a)]
    BY <1>2, <1>4, ConcatProperties
  <2> HIDE DEF jobs
  <2> QED BY <2>1, <1>4
<1> HIDE DEF jobs
<1>6. ASSUME NEW k \in 1 .. Len(jobs)
      PROVE  /\ ~ Logs(jobs[k]) /\ jobs[k].do # "retitle"
             /\ jobs[k].do = "mark" => k = Len(jobs) - 1
             /\ jobs[k].do = "put" => jobs[k].of \in 1 .. Len(log)
  <2>1. CASE k <= Len(a)
    <3>1. k \in 1 .. Len(a) /\ jobs[k] = a[k]
      BY <2>1, <1>2, <1>5
    <3> QED BY <3>1, <1>1 DEF Undoing, PutsFrom
  <2>2. CASE k = Len(a) + 1
    <3>1. jobs[k] = Mark
      <4>1. ~ (k <= Len(a)) /\ k - Len(a) = 1
        BY <2>2, <1>2
      <4> QED BY <4>1, <1>4, <1>5
    <3> QED BY <3>1, <2>2, <1>2, <1>3, <1>5 DEF Logs
  <2>3. CASE k = Len(a) + 2
    <3>1. jobs[k] = r
      <4>1. ~ (k <= Len(a)) /\ k - Len(a) = 2
        BY <2>3, <1>2
      <4> QED BY <4>1, <1>4, <1>5
    <3> QED BY <3>1, <1>3 DEF Logs
  <2>4. k <= Len(a) \/ k = Len(a) + 1 \/ k = Len(a) + 2
    BY <1>2, <1>5
  <2> QED BY <2>1, <2>2, <2>3, <2>4
<1>7. Sound(jobs)
  BY <1>6 DEF Sound, NeedsKeep, Logs
<1>8. jobs # <<>>
  <2>1. Len(jobs) # 0
    BY <1>2, <1>5
  <2>2. Len(<<>>) = 0
    OBVIOUS
  <2> QED BY <2>1, <2>2
<1>9. UndoProgram(i) = jobs
  BY DEF UndoProgram, jobs, a, b, r
<1> QED BY <1>5, <1>6, <1>7, <1>8, <1>9 DEF Calm, PutsFrom

----------------------------------------------------------------------------
(* The invariant                                                           *)

RowSet == LogRow \cup {Gone}
SnapSet == Snapshot \cup {NoSnap}

Ghost == [first : [Thing -> ViewSet], clean : BOOLEAN, could : BOOLEAN, through : BOOLEAN]

CallRec == [jobs : Seq(JobSet), root : Nat, last : Nat, undoing : Nat, alone : BOOLEAN,
            was : [Thing -> ViewSet]]

TablesTyped ==
  /\ log \in Seq(RowSet) /\ snap \in Seq(SnapSet) /\ past \in Seq(Ghost)
  /\ Len(snap) = Len(log) /\ Len(past) = Len(log)
  /\ now \in 0 .. MaxNow

RowFits(i) ==
  Live(i) => /\ Fits(log[i].op, log[i].subject)
             /\ log[i].parent < i
             /\ log[i].time <= now
             /\ log[i].parent = 0 \/ Live(log[i].parent)

SnapFits(i) == snap[i] # NoSnap => /\ Live(i)
                                   /\ log[i].time <= snap[i].time
                                   /\ snap[i].time <= now

RowsFit == \A i \in Ids : RowFits(i) /\ SnapFits(i)

CallsTyped ==
  /\ call \in [Caller -> CallRec]
  /\ \A c \in Caller : /\ call[c].root \in {0} \cup Ids
                       /\ call[c].last \in {0} \cup Ids
                       /\ call[c].undoing \in {0} \cup Ids

JobsFit == \A c \in Caller : /\ Sound(call[c].jobs)
                             /\ Lone(call[c].jobs)
                             /\ PutsFrom(call[c].jobs, Len(log))

Typed == DocsTyped /\ TablesTyped /\ RowsFit /\ CallsTyped /\ JobsFit

\* Who has written entry i is about to write its snapshot.
KeepDue(i) == \E c \in Caller : call[c].last = i /\ Busy(c) /\ Todo(c).do = "keep"

\* An entry that ought to have a snapshot.
OwesSnapshot(i) ==
  /\ Live(i) /\ past[i].clean /\ log[i].op \in {"update_thing", "delete_thing"}
  /\ log[i].time + Retention >= now

SnapshotsDue == \A i \in Ids : OwesSnapshot(i) => snap[i] # NoSnap \/ KeepDue(i)

----------------------------------------------------------------------------
(* What a step does to the callers and to the ghosts                       *)

LEMMA TablesFacts ==
  ASSUME TablesTyped
  PROVE  /\ Len(log) \in Nat /\ Ids = 1 .. Len(log)
         /\ \A i \in Ids : /\ i \in Nat
                           /\ log[i] \in RowSet /\ snap[i] \in SnapSet /\ past[i] \in Ghost
                           /\ Live(i) => log[i] \in LogRow
                           /\ snap[i] # NoSnap => snap[i] \in Snapshot
         /\ now \in Nat
<1>1. Len(log) \in Nat /\ Ids = 1 .. Len(log)
  BY LenProperties DEF TablesTyped, Ids
<1>2. \A i \in Ids : log[i] \in RowSet /\ snap[i] \in SnapSet /\ past[i] \in Ghost
  BY <1>1, ElementOfSeq DEF TablesTyped
<1> QED BY <1>1, <1>2, HistoryAssumption DEF RowSet, SnapSet, Live, TablesTyped

LEMMA CallFacts ==
  ASSUME CallsTyped, NEW c \in Caller
  PROVE  /\ call[c] \in CallRec /\ call[c].jobs \in Seq(JobSet)
         /\ call[c].root \in Nat /\ call[c].last \in Nat /\ call[c].undoing \in Nat
         /\ call[c].was \in [Thing -> ViewSet]
BY DEF CallsTyped, CallRec

LEMMA TodoFacts ==
  ASSUME CallsTyped, JobsFit, NEW c \in Caller, Busy(c)
  PROVE  /\ Todo(c) \in JobSet /\ Todo(c) = call[c].jobs[1]
         /\ Rest(c) \in Seq(JobSet) /\ Len(call[c].jobs) \in Nat
         /\ Len(Rest(c)) = Len(call[c].jobs) - 1
         /\ \A k \in 1 .. Len(Rest(c)) : Rest(c)[k] = call[c].jobs[k + 1]
         /\ Sound(Rest(c)) /\ Calm(Rest(c)) /\ PutsFrom(Rest(c), Len(log))
<1>1. call[c].jobs \in Seq(JobSet) /\ call[c].jobs # <<>>
  BY CallFacts DEF Busy
<1> QED BY <1>1, SoundRest DEF Todo, Rest, JobsFit

Undisturbed(d) ==
  /\ call'[d].jobs = call[d].jobs
  /\ call'[d].root = call[d].root
  /\ call'[d].last = call[d].last
  /\ call'[d].undoing = call[d].undoing
  /\ call'[d].was = call[d].was

\* After the step caller c has these jobs, and no other caller is disturbed.
Does(c, jobs, root, last, was, undoing) ==
  /\ call' \in [Caller -> CallRec]
  /\ \A d \in Caller \ {c} : Undisturbed(d)
  /\ call'[c].jobs = jobs
  /\ \/ /\ call'[c].root = root /\ call'[c].last = last
        /\ call'[c].was = was /\ call'[c].undoing = undoing
     \/ jobs = <<>> /\ call'[c].root = 0 /\ call'[c].last = 0 /\ call'[c].undoing = 0

LEMMA IdleType == Idle \in CallRec /\ Idle.jobs = <<>> /\ Idle.root = 0 /\ Idle.last = 0
                  /\ Idle.undoing = 0
<1> DEFINE m == [c \in T!AnyCollection |-> [x \in Thing |-> T!Blank]]
<1>1. T!Blank \in T!Meta
  BY DEF T!Blank, T!Meta
<1>2. m \in Documents
  BY <1>1 DEF Documents
<1> HIDE DEF m
<1>3. [t \in Thing |-> View(m, t)] \in [Thing -> ViewSet]
  BY <1>2, ViewType
<1>4. <<>> \in Seq(JobSet)
  OBVIOUS
<1> DEFINE was == [t \in Thing |-> View(m, t)]
<1> HIDE DEF was
<1>5. [jobs |-> <<>>, root |-> 0, last |-> 0, undoing |-> 0, alone |-> TRUE, was |-> was] \in CallRec
  BY <1>3, <1>4 DEF CallRec, was
<1>6. Idle = [jobs |-> <<>>, root |-> 0, last |-> 0, undoing |-> 0, alone |-> TRUE, was |-> was]
  BY DEF Idle, was, m
<1> QED BY <1>5, <1>6

LEMMA ContinuesDoes ==
  ASSUME CallsTyped, NEW c \in Caller, NEW jobs \in Seq(JobSet), NEW root \in Nat,
         NEW last \in Nat, NEW was \in [Thing -> ViewSet], Continues(c, jobs, root, last, was)
  PROVE  Does(c, jobs, root, last, was, call[c].undoing)
<1> DEFINE old == call[c]
           new == [old EXCEPT !.jobs = jobs, !.root = root, !.last = last, !.was = was]
<1>1. call \in [Caller -> CallRec] /\ old \in CallRec
  BY DEF CallsTyped
<1>2. call' = [call EXCEPT ![c] = IF jobs = <<>> THEN Idle ELSE new]
  BY DEF Continues
<1> HIDE DEF old
<1>3. /\ new \in CallRec /\ new.jobs = jobs /\ new.root = root /\ new.last = last
      /\ new.was = was /\ new.undoing = old.undoing
  BY <1>1 DEF CallRec
<1> HIDE DEF new
<1>4. call' \in [Caller -> CallRec] /\ \A d \in Caller \ {c} : call'[d] = call[d]
  BY <1>1, <1>2, <1>3, IdleType
<1>5. call'[c] = IF jobs = <<>> THEN Idle ELSE new
  BY <1>1, <1>2
<1> QED BY <1>3, <1>4, <1>5, IdleType DEF Does, Undisturbed, old

LEMMA NotAloneFacts ==
  ASSUME CallsTyped, NEW cs
  PROVE  /\ NotAlone(cs) \in [Caller -> CallRec]
         /\ \A d \in Caller : /\ NotAlone(cs)[d].jobs = call[d].jobs
                              /\ NotAlone(cs)[d].root = call[d].root
                              /\ NotAlone(cs)[d].last = call[d].last
                              /\ NotAlone(cs)[d].undoing = call[d].undoing
                              /\ NotAlone(cs)[d].was = call[d].was
<1> SUFFICES ASSUME NEW d \in Caller
             PROVE  /\ NotAlone(cs)[d] \in CallRec
                    /\ NotAlone(cs)[d].jobs = call[d].jobs
                    /\ NotAlone(cs)[d].root = call[d].root
                    /\ NotAlone(cs)[d].last = call[d].last
                    /\ NotAlone(cs)[d].undoing = call[d].undoing
                    /\ NotAlone(cs)[d].was = call[d].was
  BY DEF NotAlone
<1> DEFINE old == call[d]
<1>1. old \in CallRec
  BY DEF CallsTyped
<1> HIDE DEF old
<1> DEFINE new == [old EXCEPT !.alone = FALSE]
<1>2. /\ new \in CallRec /\ new.jobs = old.jobs /\ new.root = old.root /\ new.last = old.last
      /\ new.undoing = old.undoing /\ new.was = old.was
  BY <1>1 DEF CallRec
<1>3. NotAlone(cs)[d] = IF d \in cs THEN new ELSE old
  BY DEF NotAlone, old
<1> HIDE DEF new
<1> QED BY <1>1, <1>2, <1>3 DEF old

LEMMA BeginsDoes ==
  ASSUME CallsTyped, meta \in Documents, NEW c \in Caller, NEW jobs \in Seq(JobSet),
         NEW undoing \in Nat, Begins(c, jobs, undoing)
  PROVE  Does(c, jobs, 0, 0, Views(meta), undoing)
<1> DEFINE others == NotAlone(Disturbed(undoing))
           alone == Disturbed(undoing) = {}
           was == Views(meta)
           new == [jobs |-> jobs, root |-> 0, last |-> 0, undoing |-> undoing,
                   alone |-> alone, was |-> was]
<1>1. call' = [others EXCEPT ![c] = new]
  BY DEF Begins
<1>2. was \in [Thing -> ViewSet] /\ alone \in BOOLEAN
  BY ViewsType
<1>3. /\ others \in [Caller -> CallRec]
      /\ \A d \in Caller : /\ others[d].jobs = call[d].jobs
                           /\ others[d].root = call[d].root
                           /\ others[d].last = call[d].last
                           /\ others[d].undoing = call[d].undoing
                           /\ others[d].was = call[d].was
  BY NotAloneFacts
<1> HIDE DEF others, alone, was
<1>4. /\ new \in CallRec /\ new.jobs = jobs /\ new.root = 0 /\ new.last = 0
      /\ new.was = was /\ new.undoing = undoing
  BY <1>2 DEF CallRec
<1> HIDE DEF new
<1>5. /\ call' \in [Caller -> CallRec] /\ call'[c] = new
      /\ \A d \in Caller \ {c} : call'[d] = others[d]
  BY <1>1, <1>3, <1>4
<1> QED BY <1>3, <1>4, <1>5 DEF Does, Undisturbed, was

\* The jobs and entries of a caller fit the log of the next state.
Fitting(jobs, root, last, undoing, n) ==
  /\ Sound(jobs) /\ Lone(jobs) /\ PutsFrom(jobs, n)
  /\ root \in {0} \cup 1 .. n /\ last \in {0} \cup 1 .. n /\ undoing \in {0} \cup 1 .. n

LEMMA PutsGrow ==
  ASSUME NEW jobs, NEW n \in Nat, NEW k \in Nat, n <= k, PutsFrom(jobs, n)
  PROVE  PutsFrom(jobs, k)
BY DEF PutsFrom

LEMMA CallsStay ==
  ASSUME CallsTyped, JobsFit, Len(log) \in Nat, Len(log') \in Nat, Len(log) <= Len(log'),
         NEW c \in Caller, NEW jobs, NEW root, NEW last, NEW was, NEW undoing,
         Does(c, jobs, root, last, was, undoing),
         Fitting(jobs, root, last, undoing, Len(log'))
  PROVE  CallsTyped' /\ JobsFit'
<1>1. ASSUME NEW d \in Caller
      PROVE  /\ call'[d].root \in {0} \cup 1 .. Len(log')
             /\ call'[d].last \in {0} \cup 1 .. Len(log')
             /\ call'[d].undoing \in {0} \cup 1 .. Len(log')
             /\ Sound(call'[d].jobs) /\ Lone(call'[d].jobs) /\ PutsFrom(call'[d].jobs, Len(log'))
  <2>1. CASE d = c
    BY <2>1 DEF Does, Fitting
  <2>2. CASE d # c
    <3>1. Undisturbed(d)
      BY <2>2 DEF Does
    <3>2. /\ call[d].root \in {0} \cup 1 .. Len(log')
          /\ call[d].last \in {0} \cup 1 .. Len(log')
          /\ call[d].undoing \in {0} \cup 1 .. Len(log')
      BY DEF CallsTyped, Ids
    <3>3. Sound(call[d].jobs) /\ Lone(call[d].jobs) /\ PutsFrom(call[d].jobs, Len(log'))
      BY PutsGrow DEF JobsFit
    <3> QED BY <3>1, <3>2, <3>3 DEF Undisturbed
  <2> QED BY <2>1, <2>2
<1>2. call' \in [Caller -> CallRec]
  BY DEF Does
<1> QED BY <1>1, <1>2 DEF CallsTyped, JobsFit, Ids

\* A ghost that is there keeps what it says: an entry may be spoiled and an undo
\* may go through.
GhostKept(i) ==
  /\ past'[i].first = past[i].first
  /\ past'[i].could = past[i].could
  /\ past'[i].clean => past[i].clean
  /\ past[i].through => past'[i].through

GhostsStay ==
  /\ past' \in Seq(Ghost) /\ Len(past') = Len(past)
  /\ \A i \in 1 .. Len(past) : GhostKept(i)

LEMMA SpoiledStay ==
  ASSUME TablesTyped, NEW ids, past' = Spoiled(ids)
  PROVE  GhostsStay /\ \A i \in Ids \cap ids : ~ past'[i].clean
<1>1. Len(past) \in Nat /\ DOMAIN past = 1 .. Len(past) /\ Len(past) = Len(log)
      /\ \A i \in 1 .. Len(past) : past[i] \in Ghost
  BY LenProperties, ElementOfSeq DEF TablesTyped
<1>2. ASSUME NEW g \in Ghost
      PROVE  LET h == [g EXCEPT !.clean = FALSE]
             IN /\ h \in Ghost /\ h.first = g.first /\ h.could = g.could /\ ~ h.clean
                /\ h.through = g.through
  BY DEF Ghost
<1>3. past' = [i \in 1 .. Len(past) |-> IF i \in ids THEN [past[i] EXCEPT !.clean = FALSE]
                                        ELSE past[i]]
  BY <1>1 DEF Spoiled
<1>4. \A i \in 1 .. Len(past) : past'[i] \in Ghost /\ GhostKept(i) /\ (i \in ids => ~ past'[i].clean)
  BY <1>1, <1>2, <1>3 DEF GhostKept
<1>5. past' \in [1 .. Len(past) -> Ghost]
  BY <1>3, <1>4
<1>6. past' \in Seq(Ghost) /\ Len(past') = Len(past)
  BY <1>1, <1>5, FunIsSeq
<1> QED BY <1>1, <1>4, <1>6 DEF GhostsStay, Ids

LEMMA SameGhostsStay ==
  ASSUME TablesTyped, past' = past
  PROVE  GhostsStay
BY DEF GhostsStay, GhostKept, TablesTyped

TablesStay == log' = log /\ snap' = snap /\ now' = now /\ GhostsStay

LEMMA TablesStayTyped ==
  ASSUME TablesTyped, RowsFit, TablesStay
  PROVE  TablesTyped' /\ RowsFit' /\ Len(log') = Len(log)
<1>1. TablesTyped'
  BY DEF TablesTyped, TablesStay, GhostsStay
<1>2. RowsFit'
  BY DEF RowsFit, RowFits, SnapFits, TablesStay, Ids, Live
<1> QED BY <1>1, <1>2 DEF TablesStay

LEMMA TablesStayMarked ==
  ASSUME TablesTyped, MarkedIsUndone, TablesStay
  PROVE  MarkedIsUndone'
<1> SUFFICES ASSUME NEW i \in Ids', Live(i)', past'[i].could, ~ log'[i].can
             PROVE  past'[i].through
  BY DEF MarkedIsUndone
<1>1. i \in 1 .. Len(past) /\ i \in Ids /\ Live(i) /\ ~ log[i].can
  BY DEF TablesTyped, TablesStay, Ids, Live
<1>2. GhostKept(i)
  BY <1>1 DEF TablesStay, GhostsStay
<1> QED BY <1>1, <1>2 DEF MarkedIsUndone, GhostKept

\* Caller c is about to write the snapshot of entry i.
Keeping(c, i) == call[c].last = i /\ Busy(c) /\ Todo(c).do = "keep"

LEMMA StaysDue ==
  ASSUME NEW c \in Caller, NEW jobs, NEW root, NEW last, NEW was, NEW undoing,
         Does(c, jobs, root, last, was, undoing), NEW i, KeepDue(i), ~ Keeping(c, i)
  PROVE  KeepDue(i)'
<1>1. PICK d \in Caller : Keeping(d, i)
  BY DEF KeepDue, Keeping
<1>2. Undisturbed(d)
  BY <1>1 DEF Does
<1>3. call'[d].last = i /\ call'[d].jobs # <<>> /\ Head(call'[d].jobs).do = "keep"
  BY <1>1, <1>2 DEF Undisturbed, Keeping, Busy, Todo
<1> QED BY <1>3 DEF KeepDue, Busy, Todo

\* A step that leaves the tables alone; who gives up writing a snapshot spoils
\* the entry.
OnlyCalls(c, jobs, root, last, was, undoing) ==
  /\ DocsTyped'
  /\ TablesStay
  /\ Does(c, jobs, root, last, was, undoing)
  /\ Fitting(jobs, root, last, undoing, Len(log))
  /\ \A i \in Ids : Keeping(c, i) => ~ past'[i].clean

\* The invariant, but for what it says of the changes of things.
Sane == Typed /\ SnapshotsDue /\ MarkedIsUndone

LEMMA OnlyCallsSane ==
  ASSUME Sane, NEW c \in Caller, NEW jobs, NEW root, NEW last, NEW was, NEW undoing,
         OnlyCalls(c, jobs, root, last, was, undoing)
  PROVE  Sane'
<1>1. TablesTyped' /\ RowsFit' /\ Len(log') = Len(log) /\ MarkedIsUndone'
  BY TablesStayTyped, TablesStayMarked DEF Sane, Typed, OnlyCalls
<1>2. Len(log) \in Nat
  BY TablesFacts DEF Sane, Typed
<1>3. CallsTyped' /\ JobsFit'
  BY <1>1, <1>2, CallsStay DEF Sane, Typed, OnlyCalls
<1>4. SnapshotsDue'
  <2> SUFFICES ASSUME NEW i \in Ids', OwesSnapshot(i)', snap'[i] = NoSnap
               PROVE  KeepDue(i)'
    BY DEF SnapshotsDue
  <2>1. i \in Ids /\ i \in 1 .. Len(past) /\ snap[i] = NoSnap
    BY DEF OnlyCalls, TablesStay, Ids, Sane, Typed, TablesTyped
  <2>2. GhostKept(i)
    BY <2>1 DEF OnlyCalls, TablesStay, GhostsStay
  <2>3. OwesSnapshot(i)
    BY <2>1, <2>2 DEF OwesSnapshot, GhostKept, OnlyCalls, TablesStay, Live, Ids
  <2>4. KeepDue(i)
    BY <2>1, <2>3 DEF Sane, SnapshotsDue
  <2>5. ~ Keeping(c, i)
    BY <2>1 DEF OnlyCalls, OwesSnapshot
  <2> QED BY <2>4, <2>5, StaysDue DEF OnlyCalls
<1> QED BY <1>1, <1>3, <1>4 DEF Sane, Typed, OnlyCalls

LEMMA IdleKeepsNothing ==
  ASSUME NEW c \in Caller, ~ Busy(c) \/ Todo(c).do # "keep"
  PROVE  \A i : ~ Keeping(c, i)
BY DEF Keeping

\* A command that begins.
LEMMA BeginsStep ==
  ASSUME Typed, DocsTyped', log' = log, snap' = snap, now' = now, NEW c \in Caller,
         NEW jobs \in Seq(JobSet), NEW undoing, undoing \in {0} \cup Ids,
         Begins(c, jobs, undoing), ~ Busy(c) \/ Todo(c).do # "keep",
         Sound(jobs), Lone(jobs), PutsFrom(jobs, Len(log))
  PROVE  OnlyCalls(c, jobs, 0, 0, Views(meta), undoing)
<1>1. undoing \in Nat
  BY TablesFacts DEF Typed
<1>2. Does(c, jobs, 0, 0, Views(meta), undoing)
  BY <1>1, BeginsDoes DEF Typed, DocsTyped
<1>3. GhostsStay
  BY SpoiledStay DEF Begins, Typed
<1>4. Fitting(jobs, 0, 0, undoing, Len(log))
  BY DEF Fitting, Ids
<1> QED BY <1>2, <1>3, <1>4, IdleKeepsNothing DEF OnlyCalls, TablesStay

\* A job that leaves the tables and the ghosts alone.
LEMMA ContinuesStep ==
  ASSUME Typed, DocsTyped', log' = log, snap' = snap, now' = now, past' = past,
         NEW c \in Caller, NEW jobs \in Seq(JobSet),
         NEW was \in [Thing -> ViewSet], Continues(c, jobs, call[c].root, call[c].last, was),
         Todo(c).do # "keep",
         Sound(jobs), Lone(jobs), PutsFrom(jobs, Len(log))
  PROVE  OnlyCalls(c, jobs, call[c].root, call[c].last, was, call[c].undoing)
<1>1. Does(c, jobs, call[c].root, call[c].last, was, call[c].undoing)
  BY CallFacts, ContinuesDoes DEF Typed
<1>2. GhostsStay
  BY SameGhostsStay DEF Typed
<1>3. Fitting(jobs, call[c].root, call[c].last, call[c].undoing, Len(log))
  BY DEF Fitting, Ids, Typed, CallsTyped
<1> QED BY <1>1, <1>2, <1>3, IdleKeepsNothing DEF OnlyCalls, TablesStay

----------------------------------------------------------------------------
(* What the log has to say                                                 *)

\* An entry of a command of its own, or one it joins.
Own(j) == j.do = "join" \/ (j.do = "note" /\ ~ j.child)

\* The log l has the entry at root, and it is no older than when.
Holds(l, root, when) == root \in 1 .. Len(l) /\ l[root] # Gone /\ l[root].time >= when

\* The entry that the job at k of jobs hangs on is to be written before it, or
\* is in the log l, and no older than the change.
Rooted(jobs, k, root, when, l) ==
  \/ \E y \in 1 .. k - 1 : /\ jobs[y].do = "note" /\ ~ jobs[y].child
                           /\ \A x \in y + 1 .. k - 1 : Follows(jobs[x])
  \/ Holds(l, root, when) /\ \A x \in 1 .. k - 1 : Follows(jobs[x])

\* The restore of something that t was below.
RestoreOf(j, was, t) == j.do = "note" /\ ~ j.child /\ j.op = "move_thing" /\ j.from = NoCollection
                        /\ t \in BelowIn(was, j.subject)

\* A caller with these jobs has yet to log a change of t, made at when.
Due(jobs, root, was, t, when, l) ==
  \/ \E k \in 1 .. Len(jobs) : Own(jobs[k]) /\ jobs[k].subject = t
  \/ \E k \in 1 .. Len(jobs) : /\ jobs[k].do = "note" /\ jobs[k].child /\ jobs[k].subject = t
                               /\ Rooted(jobs, k, root, when, l)
  \/ Len(jobs) >= 1 /\ RestoreOf(jobs[1], was, t)

DueAt(c, t, when) == Due(call[c].jobs, call[c].root, call[c].was, t, when, log)

Tells(i, t) ==
  \/ log[i].subject = t
  \/ /\ log[i].op = "move_thing" /\ log[i].from = NoCollection
     /\ t \in BelowIn(past[i].first, log[i].subject)

InLog(i, t, when) == Live(i) /\ Tells(i, t) /\ log[i].time + Window >= when

Accounted(t, when) ==
  \/ \E i \in Ids : InLog(i, t, when)
  \/ \E c \in Caller : DueAt(c, t, when)

HistorySet == [commands : Nat, lapse : BOOLEAN, changed : [Thing -> Nat]]

HistoryTyped ==
  /\ history \in HistorySet
  /\ \A t \in Thing : history.changed[t] \in 0 .. now \cup {MaxNow + 1}

\* A change of t that the log is to show, and has not outlived.
Recalled(t) ==
  history.changed[t] \in 0 .. MaxNow /\ history.changed[t] + Retention >= now + Window

ChangesLogged ==
  ~ history.lapse => \A t \in Thing : Recalled(t) => Accounted(t, history.changed[t])

----------------------------------------------------------------------------
(* Which things a change of the documents concerns                         *)

SameEntries(m, n, x) == \A d \in T!AnyCollection : n[d][x] = m[d][x]

LEMMA SameView ==
  ASSUME NEW m, NEW n, NEW x, SameEntries(m, n, x)
  PROVE  View(n, x) = View(m, x)
<1>1. \A d \in T!AnyCollection : T!IsLive(m, d, x) <=> T!IsLive(n, d, x)
  BY DEF T!IsLive, SameEntries
<1>2. (CHOOSE c \in T!AnyCollection : T!IsLive(m, c, x))
        = (CHOOSE c \in T!AnyCollection : T!IsLive(n, c, x))
  BY <1>1, Zenon
<1>3. T!Home(n, x) = T!Home(m, x)
  BY <1>1, <1>2 DEF T!Home
<1>4. T!Exists(n, x) <=> T!Exists(m, x)
  BY <1>3 DEF T!Exists
<1>5. T!Exists(m, x) => T!Shown(n, x) = T!Shown(m, x)
  BY <1>3, HomeFacts DEF T!Shown, SameEntries
<1> QED BY <1>3, <1>4, <1>5 DEF View

LEMMA PlacedApart ==
  ASSUME NEW m \in Documents, NEW t \in Thing, NEW c, NEW p, NEW more, NEW x \in Thing, x # t
  PROVE  SameEntries(m, T!Placed(m, t, c, p, more), x)
BY DEF T!Placed, SameEntries, Documents

LEMMA UpsertedSame ==
  ASSUME meta \in Documents, NEW t \in Thing, NEW c,
         NEW p \in Thing \cup {Keep, Clear}, NEW listed \in BOOLEAN, NEW entries \in SUBSET Entry,
         NEW x \in Thing, x # t
  PROVE  SameEntries(meta, Upserted(t, c, p, listed, entries), x)
<1> DEFINE m == T!Placed(meta, t, c, p, {})
           n == [m EXCEPT ![c][t].entries = entries]
<1>1. m \in Documents
  BY PlacedType
<1>2. SameEntries(meta, m, x)
  BY PlacedApart
<1> HIDE DEF m
<1>3. SameEntries(meta, n, x)
  <2> SUFFICES ASSUME NEW d \in T!AnyCollection PROVE n[d][x] = meta[d][x]
    BY DEF SameEntries
  <2>1. n[d] = IF d = c THEN [m[c] EXCEPT ![t].entries = entries] ELSE m[d]
    BY <1>1 DEF Documents
  <2>2. m[d] \in [Thing -> T!Meta]
    BY <1>1 DEF Documents
  <2>3. n[d][x] = m[d][x]
    BY <2>1, <2>2
  <2> QED BY <2>3, <1>2 DEF SameEntries
<1>4. Upserted(t, c, p, listed, entries) = m \/ Upserted(t, c, p, listed, entries) = n
  BY DEF Upserted, m
<1> HIDE DEF n
<1> QED BY <1>2, <1>3, <1>4

LEMMA UpsertedApart ==
  ASSUME meta \in Documents, NEW t \in Thing, NEW c,
         NEW p \in Thing \cup {Keep, Clear}, NEW listed \in BOOLEAN, NEW entries \in SUBSET Entry,
         NEW x \in Thing, x # t
  PROVE  View(Upserted(t, c, p, listed, entries), x) = View(meta, x)
BY UpsertedSame, SameView

LEMMA CascadedApart ==
  ASSUME NEW m \in Documents, NEW root, NEW c, NEW p, NEW archive,
         NEW x \in Thing, x \notin {root} \cup T!Descendants(m, root)
  PROVE  View(T!Cascaded(m, root, c, p, archive), x) = View(m, x)
<1> DEFINE n == T!Cascaded(m, root, c, p, archive)
<1>1. SameEntries(m, n, x)
  BY DEF T!Cascaded, SameEntries
<1> HIDE DEF n
<1>2. View(n, x) = View(m, x)
  BY <1>1, SameView
<1> QED BY <1>2 DEF n

LEMMA BelowSeen ==
  ASSUME NEW m, NEW root \in Thing, NEW x \in {root} \cup T!Descendants(m, root), x \in Thing
  PROVE  x \in BelowIn(Views(m), root)
<1>1. [y \in Thing |-> Views(m)[y].parent] = T!TreeParents(m)
  BY DEF Views, View, T!TreeParents
<1> QED BY <1>1 DEF BelowIn, T!Descendants

----------------------------------------------------------------------------
(* Steps that leave the tables alone                                       *)

LEMMA LogsFirst ==
  ASSUME NEW c \in Caller, Typed, ~ Busy(c) \/ ~ Logs(Todo(c))
  PROVE  /\ \A k \in 1 .. Len(call[c].jobs) : ~ Logs(call[c].jobs[k])
         /\ \A t, when : ~ DueAt(c, t, when)
<1> DEFINE jobs == call[c].jobs
<1>1. \A k \in 1 .. Len(jobs) : ~ Logs(jobs[k])
  <2>1. CASE ~ Busy(c)
    BY <2>1 DEF Busy
  <2>2. CASE Busy(c)
    <3>1. Todo(c) = jobs[1] /\ Sound(jobs)
      BY <2>2, TodoFacts DEF Typed, JobsFit
    <3>2. \A k \in 1 .. Len(jobs) : 1 \in 1 .. k
      OBVIOUS
    <3> QED BY <3>1, <3>2, <2>2 DEF Sound
  <2> QED BY <2>1, <2>2
<1>2. \A k \in 1 .. Len(jobs) : ~ Own(jobs[k]) /\ jobs[k].do # "note"
  BY <1>1 DEF Logs, Own
<1>3. Len(jobs) >= 1 => 1 \in 1 .. Len(jobs)
  BY CallFacts DEF Typed
<1> QED BY <1>1, <1>2, <1>3 DEF DueAt, Due, RestoreOf

\* What is newly changed is due to be logged by c.
Covers(c) ==
  /\ history' \in HistorySet
  /\ history'.lapse = history.lapse
  /\ \A t \in Thing : \/ history'.changed[t] = history.changed[t]
                      \/ history'.changed[t] = now /\ DueAt(c, t, now)'

LEMMA DueStays ==
  ASSUME NEW jobs, NEW root, NEW was, NEW t, NEW when, NEW l, NEW n,
         Holds(l, root, when) => Holds(n, root, when), Due(jobs, root, was, t, when, l)
  PROVE  Due(jobs, root, was, t, when, n)
<1>1. \A k : Rooted(jobs, k, root, when, l) => Rooted(jobs, k, root, when, n)
  BY DEF Rooted
<1> QED BY <1>1 DEF Due

LEMMA OthersDue ==
  ASSUME NEW c \in Caller, NEW jobs, NEW root, NEW last, NEW was, NEW undoing,
         Does(c, jobs, root, last, was, undoing), NEW t, NEW when,
         NEW d \in Caller \ {c}, DueAt(d, t, when),
         Holds(log, call[d].root, when) => Holds(log', call[d].root, when)
  PROVE  DueAt(d, t, when)'
<1>1. Undisturbed(d)
  BY DEF Does
<1> QED BY <1>1, DueStays DEF DueAt, Undisturbed

Known == HistoryTyped /\ ChangesLogged

LEMMA LogStaysKnown ==
  ASSUME Sane, Known, NEW c \in Caller, NEW jobs, NEW root, NEW last, NEW was, NEW undoing,
         Does(c, jobs, root, last, was, undoing), log' = log, now' = now, GhostsStay,
         ~ Busy(c) \/ ~ Logs(Todo(c)), Covers(c)
  PROVE  Known'
<1>1. HistoryTyped'
  BY HistoryAssumption, TablesFacts
     DEF Known, HistoryTyped, Covers, Sane, Typed
<1>2. ASSUME ~ history'.lapse, NEW t \in Thing, Recalled(t)'
      PROVE  Accounted(t, history.changed[t])'
  <2>1. CASE history'.changed[t] = history.changed[t]
    <3> DEFINE when == history.changed[t]
    <3>1. Recalled(t)
      BY <1>2, <2>1 DEF Recalled
    <3>2. Accounted(t, when)
      BY <1>2, <3>1 DEF Known, ChangesLogged, Covers
    <3>3. ASSUME NEW i \in Ids, InLog(i, t, when)
          PROVE  i \in Ids' /\ InLog(i, t, when)'
      <4>1. i \in 1 .. Len(past)
        BY DEF Sane, Typed, TablesTyped, Ids
      <4>2. past'[i].first = past[i].first
        BY <4>1 DEF GhostsStay, GhostKept
      <4> QED BY <3>3, <4>2, <2>1 DEF InLog, Tells, Live, Ids
    <3>4. ASSUME NEW d \in Caller, DueAt(d, t, when)
          PROVE  DueAt(d, t, when)'
      <4>1. d # c
        BY <3>4, LogsFirst DEF Sane
      <4>2. log' = log
        OBVIOUS
      <4>3. Due(call[d].jobs, call[d].root, call[d].was, t, when, log')
        BY <3>4, <4>2 DEF DueAt
      <4>4. Undisturbed(d)
        BY <4>1 DEF Does
      <4> QED BY <4>3, <4>4, <2>1 DEF DueAt, Undisturbed
    <3> QED BY <3>2, <3>3, <3>4, <2>1 DEF Accounted
  <2>2. CASE history'.changed[t] = now /\ DueAt(c, t, now)'
    <3>1. now' = now
      OBVIOUS
    <3>2. DueAt(c, t, history.changed[t])'
      BY <2>2, <3>1 DEF DueAt
    <3> QED BY <3>2 DEF Accounted
  <2> QED BY <2>1, <2>2 DEF Covers
<1>3. ChangesLogged'
  BY <1>2 DEF ChangesLogged
<1> QED BY <1>1, <1>3 DEF Known

LEMMA OnlyCallsKnown ==
  ASSUME Sane, Known, NEW c \in Caller, NEW jobs, NEW root, NEW last, NEW was, NEW undoing,
         OnlyCalls(c, jobs, root, last, was, undoing),
         ~ Busy(c) \/ ~ Logs(Todo(c)), Covers(c)
  PROVE  Known'
BY LogStaysKnown DEF OnlyCalls, TablesStay

LEMMA HistoryFacts ==
  ASSUME Typed, HistoryTyped, NEW m
  PROVE  /\ history.commands \in Nat /\ history.changed \in [Thing -> Nat]
         /\ Changed(m) \in [Thing -> Nat]
         /\ \A t \in Thing : Changed(m)[t] = IF View(meta, t) # View(m, t) THEN now
                                             ELSE history.changed[t]
<1>1. history.commands \in Nat /\ history.changed \in [Thing -> Nat] /\ now \in Nat
  BY TablesFacts DEF HistoryTyped, HistorySet, Typed
<1> QED BY <1>1 DEF Changed

\* What a command changes is covered by the jobs it leaves.
LEMMA CoversChanges ==
  ASSUME Typed, HistoryTyped, NEW c \in Caller, NEW jobs, NEW root, NEW last, NEW was, NEW undoing,
         Does(c, jobs, root, last, was, undoing), log' = log, now' = now,
         \/ history' = history
         \/ history' = [history EXCEPT !.commands = @ + 1]
         \/ history' = [history EXCEPT !.changed = Changed(meta')]
         \/ history' = [history EXCEPT !.commands = @ + 1, !.changed = Changed(meta')],
         \A t \in Thing : View(meta, t) # View(meta', t) => Due(jobs, root, was, t, now, log)
  PROVE  Covers(c)
<1>1. /\ history.commands \in Nat /\ history.changed \in [Thing -> Nat]
      /\ Changed(meta') \in [Thing -> Nat]
      /\ \A t \in Thing : Changed(meta')[t] = IF View(meta, t) # View(meta', t) THEN now
                                              ELSE history.changed[t]
  BY HistoryFacts
<1> DEFINE ch == Changed(meta')
<1> HIDE DEF ch
<1>2. /\ history' \in HistorySet /\ history'.lapse = history.lapse
      /\ history'.changed = history.changed \/ history'.changed = ch
  <2>1. history \in HistorySet /\ ch \in [Thing -> Nat]
    BY <1>1 DEF HistoryTyped, ch
  <2>2. CASE history' = history
    BY <2>1, <2>2
  <2>3. CASE history' = [history EXCEPT !.commands = @ + 1]
    BY <2>1, <2>3 DEF HistorySet
  <2>4. CASE history' = [history EXCEPT !.changed = ch]
    BY <2>1, <2>4 DEF HistorySet
  <2>5. CASE history' = [history EXCEPT !.commands = @ + 1, !.changed = ch]
    <3>1. [history EXCEPT !.commands = @ + 1] \in HistorySet
          /\ [history EXCEPT !.commands = @ + 1].lapse = history.lapse
      BY <2>1 DEF HistorySet
    <3> DEFINE h == [history EXCEPT !.commands = @ + 1]
    <3>2. h \in HistorySet /\ h.lapse = history.lapse
      BY <3>1
    <3>3. history' = [h EXCEPT !.changed = ch]
      BY <2>5
    <3> HIDE DEF h
    <3> QED BY <2>1, <3>2, <3>3 DEF HistorySet
  <2> QED BY <2>2, <2>3, <2>4, <2>5 DEF ch
<1>3. ASSUME NEW t \in Thing, View(meta, t) # View(meta', t)
      PROVE  DueAt(c, t, now)'
  <2>1. Due(jobs, root, was, t, now, log)
    BY <1>3
  <2>2. CASE jobs = <<>>
    <3>1. Len(jobs) = 0
      BY <2>2
    <3> QED BY <2>1, <3>1 DEF Due
  <2>3. CASE jobs # <<>>
    <3>1. call'[c].jobs = jobs /\ call'[c].root = root /\ call'[c].was = was
      BY <2>3 DEF Does
    <3> QED BY <2>1, <3>1 DEF DueAt
  <2> QED BY <2>2, <2>3
<1> QED BY <1>1, <1>2, <1>3 DEF Covers, ch

LEMMA BeginsKeeps ==
  ASSUME Sane, Known, DocsTyped', log' = log, snap' = snap, now' = now, NEW c \in Caller,
         NEW jobs \in Seq(JobSet), NEW undoing, undoing \in {0} \cup Ids,
         Begins(c, jobs, undoing), ~ Busy(c) \/ ~ Logs(Todo(c)),
         Sound(jobs), Lone(jobs), PutsFrom(jobs, Len(log)),
         \/ history' = history
         \/ history' = [history EXCEPT !.commands = @ + 1]
         \/ history' = [history EXCEPT !.changed = Changed(meta')]
         \/ history' = [history EXCEPT !.commands = @ + 1, !.changed = Changed(meta')],
         \A t \in Thing : View(meta, t) # View(meta', t) => Due(jobs, 0, Views(meta), t, now, log)
  PROVE  Sane' /\ Known'
<1>1. ~ Busy(c) \/ Todo(c).do # "keep"
  BY DEF Logs
<1>2. OnlyCalls(c, jobs, 0, 0, Views(meta), undoing)
  BY <1>1, BeginsStep DEF Sane
<1>3. Covers(c)
  BY <1>2, CoversChanges DEF OnlyCalls, TablesStay, Sane, Known
<1> QED BY <1>2, <1>3, OnlyCallsSane, OnlyCallsKnown

LEMMA ContinuesKeeps ==
  ASSUME Sane, Known, DocsTyped', log' = log, snap' = snap, now' = now, past' = past,
         NEW c \in Caller, NEW jobs \in Seq(JobSet),
         NEW was \in [Thing -> ViewSet], Continues(c, jobs, call[c].root, call[c].last, was),
         ~ Logs(Todo(c)),
         Sound(jobs), Lone(jobs), PutsFrom(jobs, Len(log)),
         \/ history' = history
         \/ history' = [history EXCEPT !.commands = @ + 1]
         \/ history' = [history EXCEPT !.changed = Changed(meta')]
         \/ history' = [history EXCEPT !.commands = @ + 1, !.changed = Changed(meta')],
         \A t \in Thing : View(meta, t) # View(meta', t) =>
           Due(jobs, call[c].root, was, t, now, log)
  PROVE  Sane' /\ Known'
<1>1. Todo(c).do # "keep"
  BY DEF Logs
<1>2. OnlyCalls(c, jobs, call[c].root, call[c].last, was, call[c].undoing)
  BY <1>1, ContinuesStep DEF Sane
<1>3. Covers(c)
  BY <1>2, CoversChanges DEF OnlyCalls, TablesStay, Sane, Known
<1> QED BY <1>2, <1>3, OnlyCallsSane, OnlyCallsKnown

\* Jobs that start with those of an upsert, or of a deletion, account for what
\* it has changed.
LEMMA OwnIsDue ==
  ASSUME NEW jobs, Len(jobs) \in Nat, NEW k \in 1 .. Len(jobs), Own(jobs[k]),
         NEW root, NEW was, NEW when, NEW l
  PROVE  Due(jobs, root, was, jobs[k].subject, when, l)
BY DEF Due

LEMMA DeleteIsDue ==
  ASSUME meta \in Documents, NEW t \in Thing, NEW rest \in Seq(JobSet),
         Sound(rest), Calm(rest), NEW n, PutsFrom(rest, n),
         NEW x \in {t} \cup T!Descendants(meta, t),
         NEW root, NEW was, NEW when, NEW l
  PROVE  Due(DeleteJobs(t) \o rest, root, was, x, when, l)
<1> DEFINE new == DeleteJobs(t)
           jobs == new \o rest
<1>1. /\ Logging(new) /\ Len(new) >= 1
      /\ new[1].do = "note" /\ new[1].subject = t /\ ~ new[1].child
      /\ \A k \in 2 .. Len(new) : Follows(new[k])
      /\ \A y \in T!Descendants(meta, t) :
           \E k \in 2 .. Len(new) : new[k].do = "note" /\ new[k].subject = y
  BY DeleteLogs
<1> HIDE DEF new
<1>2. /\ Len(new) \in Nat /\ Len(rest) \in Nat /\ Len(jobs) = Len(new) + Len(rest)
      /\ \A k \in 1 .. Len(new) : jobs[k] = new[k]
  BY <1>1, SoundConcat
<1> HIDE DEF jobs
<1>3. 1 \in 1 .. Len(new) /\ jobs[1] = new[1] /\ 1 \in 1 .. Len(jobs)
  BY <1>1, <1>2
<1>4. CASE x = t
  BY <1>1, <1>3, <1>4 DEF Due, Own, jobs, new
<1>5. CASE x \in T!Descendants(meta, t)
  <2>1. PICK k \in 2 .. Len(new) : new[k].do = "note" /\ new[k].subject = x
    BY <1>1, <1>5
  <2>2. k \in 1 .. Len(jobs) /\ jobs[k] = new[k] /\ 1 \in 1 .. k - 1
    BY <1>2, <2>1
  <2>3. \A y \in 1 + 1 .. k - 1 : Follows(jobs[y])
    <3>1. \A y \in 1 + 1 .. k - 1 : y \in 2 .. Len(new) /\ y \in 1 .. Len(new)
      BY <1>2
    <3> QED BY <3>1, <1>1, <1>2
  <2>4. Rooted(jobs, k, root, when, l)
    BY <1>1, <1>3, <2>2, <2>3 DEF Rooted
  <2>5. CASE jobs[k].child
    BY <2>1, <2>2, <2>4, <2>5 DEF Due, jobs, new
  <2>6. CASE ~ jobs[k].child
    BY <2>1, <2>2, <2>6 DEF Due, Own, jobs, new
  <2> QED BY <2>5, <2>6
<1> QED BY <1>4, <1>5

----------------------------------------------------------------------------
(* The commands                                                            *)

LEMMA StartsKeeps ==
  ASSUME Sane, Known, DocsTyped', log' = log, snap' = snap, now' = now, NEW c \in Caller,
         NEW jobs \in Seq(JobSet), NEW undoing, undoing \in {0} \cup Ids,
         Starts(c, jobs, undoing), Sound(jobs), Lone(jobs), PutsFrom(jobs, Len(log)),
         \A t \in Thing : View(meta, t) # View(meta', t) => Due(jobs, 0, Views(meta), t, now, log)
  PROVE  Sane' /\ Known'
BY BeginsKeeps DEF Starts, MayStart

LEMMA LogsStart ==
  ASSUME Sane, Known, DocsTyped', log' = log, snap' = snap, now' = now, NEW c \in Caller,
         NEW jobs, Logging(jobs), Starts(c, jobs, 0),
         \A t \in Thing : View(meta, t) # View(meta', t) => Due(jobs, 0, Views(meta), t, now, log)
  PROVE  Sane' /\ Known'
<1>1. jobs \in Seq(JobSet) /\ Sound(jobs) /\ Lone(jobs) /\ PutsFrom(jobs, Len(log))
  BY LoggingIsCalm DEF Logging, Lone
<1> QED BY <1>1, StartsKeeps

LEMMA EditKeeps ==
  ASSUME Sane, Known, NEW c \in Caller, NEW t \in Thing, NEW d \in Places,
         NEW entries \in SUBSET Entry, NEW p \in Parents[t], Edit(c, t, d, p, entries)
  PROVE  Sane' /\ Known'
<1>1. p \in Thing \cup {Keep, Clear} /\ d \in T!AnyCollection
  BY HistoryAssumption, PlaceFacts
<1>2. /\ state' = T!Ensured(state, T!System) /\ meta' = Upserted(t, d, p, TRUE, entries)
      /\ log' = log /\ snap' = snap /\ now' = now
      /\ Starts(c, UpsertJobs(t, meta'), 0)
  BY DEF Edit, Tables
<1>3. DocsTyped /\ meta \in Documents
  BY DEF Sane, Typed, DocsTyped
<1>4. DocsTyped'
  BY <1>1, <1>2, <1>3, UpsertTyped
<1> DEFINE jobs == UpsertJobs(t, meta')
<1>5. Logging(jobs) /\ Len(jobs) >= 1 /\ jobs[1].subject = t /\ Own(jobs[1])
  BY <1>3, UpsertLogs DEF Own
<1>6. ASSUME NEW x \in Thing, View(meta, x) # View(meta', x)
      PROVE  Due(jobs, 0, Views(meta), x, now, log)
  <2>1. PICK listed \in BOOLEAN : meta' = Upserted(t, d, p, listed, entries)
    BY <1>2
  <2> HIDE DEF jobs
  <2>2. x = t
    BY <2>1, <1>1, <1>3, <1>6, UpsertedApart
  <2>3. Len(jobs) \in Nat /\ 1 \in 1 .. Len(jobs)
    BY <1>5 DEF Logging
  <2> QED BY <2>2, <2>3, <1>5, OwnIsDue
<1> HIDE DEF jobs
<1> QED BY <1>2, <1>4, <1>5, <1>6, LogsStart DEF jobs

LEMMA RenameKeeps ==
  ASSUME Sane, Known, NEW c \in Caller, NEW t \in Thing, Rename(c, t)
  PROVE  Sane' /\ Known'
<1> DEFINE jobs == <<Retitle(t)>>
           root == call[c].root
           last == call[c].last
           was == call[c].was
           undoing == call[c].undoing
<1>1. ~ Busy(c) /\ call' = [call EXCEPT ![c].jobs = jobs]
      /\ history' = [history EXCEPT !.commands = @ + 1]
      /\ state' = state /\ meta' = meta /\ log' = log /\ snap' = snap /\ now' = now /\ past' = past
  BY DEF Rename, MayStart, docs, Tables
<1>2. Retitle(t) \in JobSet /\ Retitle(t).do = "retitle"
  BY ViewJobs DEF Sane, Typed, DocsTyped, Retitle
<1>3. jobs \in Seq(JobSet) /\ Len(jobs) = 1 /\ jobs[1] = Retitle(t)
  BY <1>2
<1> HIDE DEF jobs
<1>4. Sound(jobs) /\ Lone(jobs) /\ PutsFrom(jobs, Len(log))
  BY <1>2, <1>3 DEF Sound, Lone, PutsFrom, NeedsKeep, Logs
<1>5. Does(c, jobs, root, last, was, undoing)
  <2> DEFINE old == call[c]
             new == [old EXCEPT !.jobs = jobs]
  <2>1. call \in [Caller -> CallRec] /\ old \in CallRec
    BY DEF Sane, Typed, CallsTyped
  <2>2. call' = [call EXCEPT ![c] = new]
    BY <1>1
  <2> HIDE DEF old
  <2>3. /\ new \in CallRec /\ new.jobs = jobs /\ new.root = old.root /\ new.last = old.last
        /\ new.was = old.was /\ new.undoing = old.undoing
    BY <2>1, <1>3 DEF CallRec
  <2> HIDE DEF new
  <2>4. call' \in [Caller -> CallRec] /\ call'[c] = new /\ \A d \in Caller \ {c} : call'[d] = call[d]
    BY <2>1, <2>2, <2>3
  <2> QED BY <2>3, <2>4 DEF Does, Undisturbed, old
<1>6. Fitting(jobs, root, last, undoing, Len(log))
  BY <1>4 DEF Fitting, Sane, Typed, CallsTyped, Ids
<1>7. OnlyCalls(c, jobs, root, last, was, undoing)
  <2>1. GhostsStay
    BY <1>1, SameGhostsStay DEF Sane, Typed
  <2>2. DocsTyped'
    BY <1>1 DEF Sane, Typed, DocsTyped
  <2> HIDE DEF root, last, was, undoing
  <2> QED BY <2>1, <2>2, <1>1, <1>5, <1>6, IdleKeepsNothing DEF OnlyCalls, TablesStay
<1>8. Covers(c)
  BY <1>1, <1>5, CoversChanges DEF Sane, Known
<1> HIDE DEF root, last, was, undoing
<1> QED BY <1>1, <1>7, <1>8, OnlyCallsSane, OnlyCallsKnown

\* A command that leaves one entry to write, of its own.
LEMMA OneEntry ==
  ASSUME NEW op \in Op, NEW s \in Subject, Fits(op, s), op # "delete_thing",
         NEW from \in From, NEW can \in BOOLEAN
  PROVE  LET j == Note(op, s, from, FALSE, can)
         IN /\ Logging(<<j>>) /\ Len(<<j>>) = 1 /\ <<j>>[1] = j
            /\ j.do = "note" /\ j.op = op /\ j.subject = s /\ j.from = from /\ ~ j.child /\ Own(j)
<1> DEFINE j == Note(op, s, from, FALSE, can)
<1>1. /\ j.do = "note" /\ j.op = op /\ j.subject = s /\ j.from = from /\ ~ j.child /\ Own(j)
  BY DEF Note, Own
<1>2. j \in JobSet
  BY NoteIsJob
<1> HIDE DEF j
<1>3. Logging(<<j>>)
  BY <1>1, <1>2, NoteLogs
<1>4. Len(<<j>>) = 1 /\ <<j>>[1] = j
  OBVIOUS
<1> QED BY <1>1, <1>3, <1>4 DEF j

LEMMA MoveKeeps ==
  ASSUME Sane, Known, NEW c \in Caller, NEW t \in Thing, NEW d \in Places, Move(c, t, d)
  PROVE  Sane' /\ Known'
<1> DEFINE j == Note("move_thing", t, T!Home(meta, t), FALSE, TRUE)
<1>1. /\ T!MoveThing(t, d, Keep) /\ Starts(c, <<j>>, 0)
      /\ log' = log /\ snap' = snap /\ now' = now
  BY DEF Move, Tables
<1>2. DocsTyped' /\ DocsTyped
  BY <1>1, MoveTyped DEF Sane, Typed
<1>3. Logging(<<j>>) /\ Len(<<j>>) = 1 /\ <<j>>[1] = j /\ j.subject = t /\ Own(j)
  <2>1. "move_thing" \in Op /\ t \in Subject /\ Fits("move_thing", t) /\ T!Home(meta, t) \in From
    BY HomeFacts DEF Op, Subject, Fits, From
  <2>2. Logging(<<j>>)
    BY <2>1, OneEntry
  <2>3. j.subject = t /\ j.do = "note" /\ j.op = "move_thing" /\ ~ j.child /\ Own(j)
    BY DEF Note, Own
  <2> HIDE DEF j
  <2> QED BY <2>2, <2>3
<1>4. ASSUME NEW x \in Thing, View(meta, x) # View(meta', x)
      PROVE  Due(<<j>>, 0, Views(meta), x, now, log)
  <2>1. meta' = T!Placed(meta, t, d, Keep, T!Carried(meta, t, d))
    BY <1>1 DEF T!MoveThing
  <2>2. x = t
    BY <2>1, <1>2, <1>4, PlacedApart, SameView DEF DocsTyped
  <2> DEFINE jobs == <<j>>
  <2> HIDE DEF j
  <2>3. 1 \in 1 .. Len(jobs) /\ Len(jobs) \in Nat /\ Own(jobs[1]) /\ jobs[1].subject = x
    BY <1>3, <2>2
  <2> HIDE DEF jobs
  <2>4. Due(jobs, 0, Views(meta), x, now, log)
    BY <2>3, OwnIsDue
  <2> QED BY <2>4 DEF jobs
<1> HIDE DEF j
<1> QED BY <1>1, <1>2, <1>3, <1>4, LogsStart

LEMMA DeleteKeeps ==
  ASSUME Sane, Known, NEW c \in Caller, NEW t \in Thing, Delete(c, t)
  PROVE  Sane' /\ Known'
<1> DEFINE jobs == DeleteJobs(t)
<1>1. /\ T!DeleteThing(t) /\ Starts(c, jobs, 0)
      /\ log' = log /\ snap' = snap /\ now' = now
  BY DEF Delete, Tables
<1>2. DocsTyped' /\ DocsTyped /\ meta \in Documents
  BY <1>1, DeleteTyped DEF Sane, Typed, DocsTyped
<1>3. Logging(jobs)
  BY <1>2, DeleteLogs
<1>4. ASSUME NEW x \in Thing, View(meta, x) # View(meta', x)
      PROVE  Due(jobs, 0, Views(meta), x, now, log)
  <2>1. PICK archive \in BOOLEAN : meta' = T!Cascaded(meta, t, Trash, Keep, archive)
    BY <1>1 DEF T!DeleteThing
  <2>2. x \in {t} \cup T!Descendants(meta, t)
    BY <2>1, <1>2, <1>4, CascadedApart
  <2>3. <<>> \in Seq(JobSet) /\ Sound(<<>>) /\ Calm(<<>>) /\ PutsFrom(<<>>, 0)
    BY DEF Sound, Calm, PutsFrom
  <2>4. Due(DeleteJobs(t) \o <<>>, 0, Views(meta), x, now, log)
    BY <2>2, <2>3, <1>2, DeleteIsDue
  <2>5. DeleteJobs(t) \o <<>> = jobs
    BY <1>3, ConcatEmptySeq DEF Logging
  <2> QED BY <2>4, <2>5
<1> HIDE DEF jobs
<1> QED BY <1>1, <1>2, <1>3, <1>4, LogsStart

LEMMA RestoreKeeps ==
  ASSUME Sane, Known, NEW c \in Caller, NEW t \in Thing, Restore(c, t)
  PROVE  Sane' /\ Known'
<1> DEFINE j == Note("move_thing", t, NoCollection, FALSE, TRUE)
<1>1. /\ T!RestoreThing(t, NoCollection, Keep) /\ Starts(c, <<j>>, 0)
      /\ log' = log /\ snap' = snap /\ now' = now
  BY DEF Restore, Tables
<1>2. DocsTyped' /\ DocsTyped /\ meta \in Documents
  BY <1>1, RestoreTyped DEF Sane, Typed, DocsTyped
<1>3. Logging(<<j>>) /\ Len(<<j>>) = 1 /\ <<j>>[1] = j /\ j.subject = t
      /\ j.do = "note" /\ j.op = "move_thing" /\ j.from = NoCollection /\ ~ j.child
  <2>1. "move_thing" \in Op /\ t \in Subject /\ Fits("move_thing", t) /\ NoCollection \in From
    BY DEF Op, Subject, Fits, From
  <2>2. Logging(<<j>>)
    BY <2>1, OneEntry
  <2>3. j.subject = t /\ j.do = "note" /\ j.op = "move_thing" /\ ~ j.child /\ Own(j)
        /\ j.from = NoCollection
    BY DEF Note, Own
  <2> HIDE DEF j
  <2> QED BY <2>2, <2>3
<1>4. ASSUME NEW x \in Thing, View(meta, x) # View(meta', x)
      PROVE  Due(<<j>>, 0, Views(meta), x, now, log)
  <2>1. PICK archive \in BOOLEAN : meta' = T!Cascaded(meta, t, T!Origin(meta, t), Keep, archive)
    BY <1>1 DEF T!RestoreThing
  <2>2. x \in {t} \cup T!Descendants(meta, t)
    BY <2>1, <1>2, <1>4, CascadedApart
  <2>3. x \in BelowIn(Views(meta), t)
    BY <2>2, BelowSeen
  <2> HIDE DEF j
  <2> QED BY <2>3, <1>3 DEF Due, RestoreOf
<1> HIDE DEF j
<1> QED BY <1>1, <1>2, <1>3, <1>4, LogsStart

LEMMA SetStatusKeeps ==
  ASSUME Sane, Known, NEW c \in Caller, NEW t \in Thing, NEW can \in BOOLEAN, SetStatus(c, t, can)
  PROVE  Sane' /\ Known'
<1> DEFINE j == Note("update_thing", t, NoCollection, FALSE, can)
<1>1. /\ state' = state /\ meta' = meta /\ Starts(c, <<j>>, 0)
      /\ log' = log /\ snap' = snap /\ now' = now
  BY DEF SetStatus, Tables, docs
<1>2. DocsTyped'
  BY <1>1 DEF Sane, Typed, DocsTyped
<1>3. Logging(<<j>>)
  <2>1. "update_thing" \in Op /\ t \in Subject /\ Fits("update_thing", t) /\ NoCollection \in From
    BY DEF Op, Subject, Fits, From
  <2> QED BY <2>1, OneEntry
<1> HIDE DEF j
<1> QED BY <1>1, <1>2, <1>3, LogsStart

LEMMA CollectionKeeps ==
  ASSUME Sane, Known, NEW c \in Caller, NEW d \in Collection,
         UpsertCollection(c, d) \/ DeleteCollection(c, d)
  PROVE  Sane' /\ Known'
<1>1. PICK op \in {"create_collection", "update_collection", "delete_collection"} :
        Starts(c, <<Note(op, d, NoCollection, FALSE, TRUE)>>, 0)
  BY DEF UpsertCollection, DeleteCollection
<1> DEFINE j == Note(op, d, NoCollection, FALSE, TRUE)
<1>2. /\ T!UpsertCollection(d) \/ T!DeleteCollection(d)
      /\ log' = log /\ snap' = snap /\ now' = now
  BY DEF UpsertCollection, DeleteCollection, Tables
<1>3. DocsTyped' /\ meta' = meta
  BY <1>2, CollectionTyped DEF Sane, Typed
<1>4. Logging(<<j>>)
  <2>1. op \in Op /\ d \in Subject /\ Fits(op, d) /\ NoCollection \in From /\ op # "delete_thing"
    BY DEF Op, Subject, Fits, From
  <2> QED BY <2>1, OneEntry
<1> HIDE DEF j
<1> QED BY <1>1, <1>2, <1>3, <1>4, LogsStart DEF j

LEMMA UndoKeeps ==
  ASSUME Sane, Known, NEW c \in Caller, NEW i \in Ids, NEW resolved, Undo(c, i, resolved)
  PROVE  Sane' /\ Known'
<1> DEFINE jobs == UndoProgram(i)
<1>1. /\ Live(i) /\ state' = state /\ meta' = meta /\ Starts(c, jobs, i)
      /\ log' = log /\ snap' = snap /\ now' = now
  BY DEF Undo, Tables, docs
<1>2. DocsTyped'
  BY <1>1 DEF Sane, Typed, DocsTyped
<1>3. log[i] \in LogRow /\ Fits(log[i].op, log[i].subject) /\ log \in Seq(LogRow \cup {Gone})
  BY <1>1, TablesFacts DEF Sane, Typed, RowsFit, RowFits, TablesTyped, RowSet
<1>4. jobs \in Seq(JobSet) /\ Sound(jobs) /\ Calm(jobs) /\ PutsFrom(jobs, Len(log))
  BY <1>1, <1>3, UndoProgramFits
<1> HIDE DEF jobs
<1> QED BY <1>1, <1>2, <1>4, StartsKeeps DEF Lone

----------------------------------------------------------------------------
(* Steps no caller takes                                                   *)

\* The clock, and a sync that changes things and spoils entries.
LEMMA ElsewhereKeeps ==
  ASSUME Sane, Known, DocsTyped', log' = log, snap' = snap, GhostsStay,
         now' \in now .. MaxNow, call' \in [Caller -> CallRec],
         \A d \in Caller : Undisturbed(d),
         history' \in HistorySet, history'.lapse = history.lapse,
         history'.changed = history.changed
  PROVE  Sane' /\ Known'
<1>1. /\ Len(log) \in Nat /\ Len(past) = Len(log) /\ now \in Nat /\ now' \in Nat /\ now <= now'
      /\ \A i \in Ids : Live(i) => log[i].time \in Nat
      /\ \A i \in Ids : snap[i] # NoSnap => snap[i].time \in Nat
  BY TablesFacts, HistoryAssumption DEF Sane, Typed, TablesTyped, LogRow, Snapshot
<1>2. TablesTyped'
  BY <1>1, HistoryAssumption DEF Sane, Typed, TablesTyped, GhostsStay
<1>3. RowsFit'
  <2> SUFFICES ASSUME NEW i \in Ids PROVE RowFits(i)' /\ SnapFits(i)'
    BY DEF RowsFit, Ids
  <2>1. RowFits(i) /\ SnapFits(i)
    BY DEF Sane, Typed, RowsFit
  <2> QED BY <1>1, <2>1 DEF RowFits, SnapFits, Live, Ids
<1>4. CallsTyped' /\ JobsFit'
  BY DEF CallsTyped, JobsFit, Sane, Typed, Undisturbed, Ids
<1>5. MarkedIsUndone'
  <2> SUFFICES ASSUME NEW i \in Ids, Live(i), past'[i].could, ~ log[i].can
               PROVE  past'[i].through
    BY DEF MarkedIsUndone, Live, Ids
  <2>1. GhostKept(i)
    BY <1>1 DEF GhostsStay, Ids
  <2> QED BY <2>1 DEF Sane, MarkedIsUndone, GhostKept
<1>6. SnapshotsDue'
  <2> SUFFICES ASSUME NEW i \in Ids, OwesSnapshot(i)', snap[i] = NoSnap PROVE KeepDue(i)'
    BY DEF SnapshotsDue, Ids
  <2>1. GhostKept(i)
    BY <1>1 DEF GhostsStay, Ids
  <2>2. Live(i) /\ past[i].clean /\ log[i].op \in {"update_thing", "delete_thing"}
        /\ log[i].time + Retention >= now'
    BY <2>1 DEF OwesSnapshot, GhostKept, Live, Ids
  <2>3. OwesSnapshot(i)
    BY <1>1, <2>2, HistoryAssumption DEF OwesSnapshot
  <2>4. PICK d \in Caller : call[d].last = i /\ Busy(d) /\ Todo(d).do = "keep"
    BY <2>3 DEF Sane, SnapshotsDue, KeepDue
  <2> QED BY <2>4 DEF KeepDue, Undisturbed, Busy, Todo
<1>7. HistoryTyped'
  BY <1>1, HistoryAssumption DEF Known, HistoryTyped
<1>8. ChangesLogged'
  <2> SUFFICES ASSUME ~ history.lapse, NEW t \in Thing, Recalled(t)'
               PROVE  Accounted(t, history.changed[t])'
    BY DEF ChangesLogged
  <2> DEFINE when == history.changed[t]
  <2>1. Recalled(t)
    <3>1. when \in Nat
      BY DEF Known, HistoryTyped, HistorySet
    <3> QED BY <1>1, <3>1, HistoryAssumption DEF Recalled
  <2>2. Accounted(t, when)
    BY <2>1 DEF Known, ChangesLogged
  <2>3. ASSUME NEW i \in Ids, InLog(i, t, when)
        PROVE  InLog(i, t, when)'
    <3>1. past'[i].first = past[i].first
      BY <1>1 DEF GhostsStay, GhostKept, Ids
    <3> QED BY <2>3, <3>1 DEF InLog, Tells, Live, Ids
  <2>4. ASSUME NEW d \in Caller, DueAt(d, t, when)
        PROVE  DueAt(d, t, when)'
    BY <2>4 DEF DueAt, Undisturbed
  <2>5. when' = when
    OBVIOUS
  <2> QED BY <2>2, <2>3, <2>4, <2>5 DEF Accounted, Ids
<1> QED BY <1>2, <1>3, <1>4, <1>5, <1>6, <1>7, <1>8 DEF Sane, Typed, Known

LEMMA RemoteKeeps ==
  ASSUME Sane, Known, NEW t \in Thing, NEW d \in Places, NEW entries \in SUBSET Entry,
         Remote(t, d, entries)
  PROVE  Sane' /\ Known'
<1>1. /\ state' = state /\ log' = log /\ snap' = snap /\ now' = now
      /\ meta' = Upserted(t, d, Keep, TRUE, entries)
      /\ call' = NotAlone(Disturbed(0)) /\ past' = Spoiled(Roots(Caller))
      /\ history' = [history EXCEPT !.commands = @ + 1]
  BY DEF Remote, Tables
<1>2. DocsTyped'
  BY <1>1, UpsertTyped DEF Sane, Typed
<1>3. GhostsStay
  BY <1>1, SpoiledStay DEF Sane, Typed
<1>4. call' \in [Caller -> CallRec] /\ \A x \in Caller : Undisturbed(x)
  BY <1>1, NotAloneFacts DEF Undisturbed, Sane, Typed
<1>5. history' \in HistorySet /\ history'.lapse = history.lapse
      /\ history'.changed = history.changed
  BY <1>1 DEF Known, HistoryTyped, HistorySet
<1>6. now' \in now .. MaxNow
  BY <1>1, HistoryAssumption DEF Sane, Typed, TablesTyped
<1> QED BY <1>1, <1>2, <1>3, <1>4, <1>5, <1>6, ElsewhereKeeps

LEMMA TickKeeps ==
  ASSUME Sane, Known, Tick
  PROVE  Sane' /\ Known'
<1>1. /\ state' = state /\ meta' = meta /\ log' = log /\ snap' = snap /\ past' = past
      /\ call' = call /\ history' = history /\ now < MaxNow /\ now' = now + 1
  BY DEF Tick, Tables, docs
<1>2. DocsTyped'
  BY <1>1 DEF Sane, Typed, DocsTyped
<1>3. GhostsStay
  BY <1>1, SameGhostsStay DEF Sane, Typed
<1>4. call' \in [Caller -> CallRec] /\ \A x \in Caller : Undisturbed(x)
  BY <1>1 DEF Undisturbed, Sane, Typed, CallsTyped
<1>5. now' \in now .. MaxNow
  BY <1>1, HistoryAssumption DEF Sane, Typed, TablesTyped
<1>6. history' \in HistorySet
  BY <1>1 DEF Known, HistoryTyped
<1> QED BY <1>1, <1>2, <1>3, <1>4, <1>5, <1>6, ElsewhereKeeps

----------------------------------------------------------------------------
(* The commands of an undo                                                 *)

LEMMA ParentArgType ==
  ASSUME NEW view \in ViewSet
  PROVE  ParentArg(view) \in Thing \cup {Keep, Clear}
BY DEF ParentArg, ViewSet

LEMMA PutsKeeps ==
  ASSUME Sane, Known, NEW c \in Caller, Busy(c), ~ Logs(Todo(c)),
         NEW t \in Thing, NEW d, NEW view \in ViewSet, Puts(c, t, d, view)
  PROVE  Sane' /\ Known'
<1> DEFINE new == UpsertJobs(t, meta')
           jobs == new \o Rest(c)
           was == Views(meta)
<1>1. /\ state' = T!Ensured(state, T!System)
      /\ \E listed \in BOOLEAN :
           meta' = Upserted(t, d, ParentArg(view), listed, view.entries)
      /\ Continues(c, jobs, call[c].root, call[c].last, was)
      /\ history' = [history EXCEPT !.changed = Changed(meta')]
      /\ log' = log /\ snap' = snap /\ now' = now /\ past' = past
  BY DEF Puts, Tables
<1>2. PICK listed \in BOOLEAN : meta' = Upserted(t, d, ParentArg(view), listed, view.entries)
  BY <1>1
<1>3. ParentArg(view) \in Thing \cup {Keep, Clear} /\ view.entries \in SUBSET Entry
  BY ParentArgType DEF ViewSet
<1>4. DocsTyped /\ meta \in Documents /\ was \in [Thing -> ViewSet]
  BY ViewsType DEF Sane, Typed, DocsTyped
<1>5. DocsTyped'
  BY <1>1, <1>2, <1>3, <1>4, UpsertTyped
<1>6. Logging(new) /\ Len(new) >= 1 /\ new[1].subject = t /\ Own(new[1])
  BY <1>4, UpsertLogs DEF Own
<1>7. Rest(c) \in Seq(JobSet) /\ Sound(Rest(c)) /\ Calm(Rest(c)) /\ PutsFrom(Rest(c), Len(log))
  BY TodoFacts DEF Sane, Typed
<1>8. /\ jobs \in Seq(JobSet) /\ Len(new) \in Nat /\ Len(Rest(c)) \in Nat
      /\ Len(jobs) = Len(new) + Len(Rest(c))
      /\ \A k \in 1 .. Len(new) : jobs[k] = new[k]
      /\ Sound(jobs) /\ Calm(jobs) /\ PutsFrom(jobs, Len(log))
  <2> HIDE DEF new
  <2> QED BY <1>6, <1>7, SoundConcat
<1>9. ASSUME NEW x \in Thing, View(meta, x) # View(meta', x)
      PROVE  Due(jobs, call[c].root, was, x, now, log)
  <2>1. x = t
    BY <1>2, <1>3, <1>4, <1>9, UpsertedApart
  <2> HIDE DEF new, was
  <2>2. 1 \in 1 .. Len(new) /\ 1 \in 1 .. Len(jobs) /\ Len(jobs) \in Nat
    BY <1>6, <1>8
  <2>3. Own(jobs[1]) /\ jobs[1].subject = x
    BY <1>6, <1>8, <2>1, <2>2
  <2> HIDE DEF jobs
  <2> QED BY <2>2, <2>3, OwnIsDue
<1> HIDE DEF jobs, was
<1> QED BY <1>1, <1>4, <1>5, <1>8, <1>9, ContinuesKeeps DEF Lone

\* A job of an undo that finds nothing to do.
LEMMA GoesOn ==
  ASSUME Sane, Known, NEW c \in Caller, Busy(c), ~ Logs(Todo(c)),
         Continues(c, Rest(c), call[c].root, call[c].last, call[c].was),
         state' = state, meta' = meta, log' = log, snap' = snap, now' = now, past' = past,
         \/ history' = history
         \/ history' = [history EXCEPT !.changed = Changed(meta')]
  PROVE  Sane' /\ Known'
<1>1. Rest(c) \in Seq(JobSet) /\ Sound(Rest(c)) /\ Calm(Rest(c)) /\ PutsFrom(Rest(c), Len(log))
  BY TodoFacts DEF Sane, Typed
<1>2. call[c].was \in [Thing -> ViewSet]
  BY CallFacts DEF Sane, Typed
<1>3. DocsTyped'
  BY DEF Sane, Typed, DocsTyped
<1> QED BY <1>1, <1>2, <1>3, ContinuesKeeps DEF Lone

LEMMA PutSnapshotKeeps ==
  ASSUME Sane, Known, NEW c \in Caller, Busy(c), PutSnapshot(c)
  PROVE  Sane' /\ Known'
<1> DEFINE i == Todo(c).of
           s == snap[i]
<1>1. Todo(c).do = "put" /\ ~ Logs(Todo(c))
  BY DEF PutSnapshot, Logs
<1>2. i \in Ids
  <2>1. Todo(c) = call[c].jobs[1] /\ 1 \in 1 .. Len(call[c].jobs)
    <3>1. Todo(c) = call[c].jobs[1]
      BY TodoFacts DEF Sane, Typed
    <3>2. Len(call[c].jobs) \in Nat \ {0}
      BY CallFacts, EmptySeq DEF Sane, Typed, Busy
    <3> QED BY <3>1, <3>2
  <2> QED BY <1>1, <2>1 DEF Sane, Typed, JobsFit, PutsFrom, Ids
<1>3. CASE s # NoSnap
  <2>1. s \in Snapshot
    BY <1>2, <1>3, TablesFacts DEF Sane, Typed
  <2>2. s.thing \in Thing /\ s.view \in ViewSet
    BY <2>1 DEF Snapshot
  <2>3. Puts(c, s.thing, s.view.home, s.view)
    BY <1>3 DEF PutSnapshot
  <2> HIDE DEF s
  <2> QED BY <1>1, <2>2, <2>3, PutsKeeps
<1>4. CASE s = NoSnap
  <2>1. Continues(c, Rest(c), call[c].root, call[c].last, call[c].was)
        /\ UNCHANGED <<docs, Tables, now, past, history>>
    BY <1>4 DEF PutSnapshot
  <2> QED BY <1>1, <2>1, GoesOn DEF docs, Tables
<1> QED BY <1>3, <1>4

LEMMA PutThingBackKeeps ==
  ASSUME Sane, Known, NEW c \in Caller, Busy(c), PutThingBack(c)
  PROVE  Sane' /\ Known'
<1> DEFINE t == Todo(c).subject
<1>1. Todo(c).do = "put back" /\ ~ Logs(Todo(c)) /\ Puts(c, t, Todo(c).from, View(meta, t))
  BY DEF PutThingBack, Logs
<1>2. t \in Thing
  <2>1. Todo(c) \in PutBackJob
    BY <1>1, TodoFacts, JobKinds DEF Sane, Typed
  <2> QED BY <2>1 DEF PutBackJob
<1>3. View(meta, t) \in ViewSet
  BY <1>2, ViewType DEF Sane, Typed, DocsTyped
<1> HIDE DEF t
<1> QED BY <1>1, <1>2, <1>3, PutsKeeps

LEMMA RetitlesKeeps ==
  ASSUME Sane, Known, NEW c \in Caller, Busy(c), Retitles(c)
  PROVE  Sane' /\ Known'
<1> DEFINE j == Todo(c)
           t == j.subject
           jobs == UpsertJobs(t, meta')
<1>1. /\ j.do = "retitle" /\ ~ Logs(j)
      /\ state' = T!Ensured(state, T!System)
      /\ meta' = Upserted(t, j.view.home, ParentArg(j.view), FALSE, {})
      /\ Begins(c, jobs, 0)
      /\ history' = [history EXCEPT !.changed = Changed(meta')]
      /\ log' = log /\ snap' = snap /\ now' = now
  BY DEF Retitles, Logs, Tables
<1>2. PICK listed \in BOOLEAN : meta' = Upserted(t, j.view.home, ParentArg(j.view), listed, {})
  BY <1>1
<1>3. t \in Thing /\ j.view \in ViewSet
  <2>1. j \in RetitleJob
    BY <1>1, TodoFacts, JobKinds DEF Sane, Typed
  <2> QED BY <2>1 DEF RetitleJob
<1>4. DocsTyped /\ meta \in Documents /\ ParentArg(j.view) \in Thing \cup {Keep, Clear}
  BY <1>3, ParentArgType DEF Sane, Typed, DocsTyped
<1>5. DocsTyped'
  <2>1. ParentArg(j.view) \in Thing \cup {Keep, Clear} /\ {} \in SUBSET Entry
    BY <1>4
  <2> DEFINE d == j.view.home
             p == ParentArg(j.view)
             none == {}
  <2>2. /\ DocsTyped /\ t \in Thing /\ p \in Thing \cup {Keep, Clear} /\ none \in SUBSET Entry
        /\ state' = T!Ensured(state, T!System)
        /\ meta' = Upserted(t, d, p, listed, none)
    BY <1>1, <1>2, <1>3, <1>4, <2>1
  <2> HIDE DEF t, d, p, none
  <2> QED BY <2>2, UpsertTyped
<1>6. Logging(jobs) /\ Len(jobs) >= 1 /\ jobs[1].subject = t /\ Own(jobs[1])
  BY <1>3, <1>4, UpsertLogs DEF Own
<1>7. jobs \in Seq(JobSet) /\ Sound(jobs) /\ Lone(jobs) /\ PutsFrom(jobs, Len(log))
      /\ Len(jobs) \in Nat
  BY <1>6, LoggingIsCalm DEF Logging, Lone
<1>8. ASSUME NEW x \in Thing, View(meta, x) # View(meta', x)
      PROVE  Due(jobs, 0, Views(meta), x, now, log)
  <2>1. x = t
    BY <1>2, <1>3, <1>4, <1>8, UpsertedApart
  <2> HIDE DEF jobs, t, j
  <2>2. 1 \in 1 .. Len(jobs)
    BY <1>6, <1>7
  <2> QED BY <2>1, <2>2, <1>6, <1>7, OwnIsDue
<1> HIDE DEF jobs, t
<1> QED BY <1>1, <1>5, <1>7, <1>8, BeginsKeeps

LEMMA EndsWithErrorKeeps ==
  ASSUME Sane, Known, NEW c \in Caller, Busy(c), EndsWithError(c)
  PROVE  Sane' /\ Known'
<1> DEFINE was == call[c].was
<1>1. /\ ~ Possible(Todo(c)) /\ Continues(c, <<>>, 0, 0, was)
      /\ state' = state /\ meta' = meta /\ log' = log /\ snap' = snap /\ now' = now
      /\ past' = past /\ history' = history
  BY DEF EndsWithError, docs, Tables
<1>2. ~ Logs(Todo(c))
  BY <1>1 DEF Possible, Logs
<1>3. Does(c, <<>>, 0, 0, was, call[c].undoing)
  <2>1. was \in [Thing -> ViewSet] /\ <<>> \in Seq(JobSet)
    BY CallFacts DEF Sane, Typed
  <2> HIDE DEF was
  <2> QED BY <1>1, <2>1, ContinuesDoes DEF Sane, Typed
<1>4. Fitting(<<>>, 0, 0, call[c].undoing, Len(log))
  BY DEF Fitting, Sound, Lone, Calm, PutsFrom, Sane, Typed, CallsTyped, Ids
<1>5. OnlyCalls(c, <<>>, 0, 0, was, call[c].undoing)
  <2>1. DocsTyped' /\ GhostsStay
    BY <1>1, SameGhostsStay DEF Sane, Typed, DocsTyped
  <2>2. Todo(c).do # "keep"
    BY <1>2 DEF Logs
  <2> HIDE DEF was
  <2> QED BY <1>1, <1>3, <1>4, <2>1, <2>2, IdleKeepsNothing DEF OnlyCalls, TablesStay
<1>6. Covers(c)
  BY <1>1, <1>3, CoversChanges DEF Sane, Known
<1> HIDE DEF was
<1> QED BY <1>2, <1>5, <1>6, OnlyCallsSane, OnlyCallsKnown

LEMMA DeletesCreatedKeeps ==
  ASSUME Sane, Known, NEW c \in Caller, Busy(c), DeletesCreated(c)
  PROVE  Sane' /\ Known'
<1> DEFINE t == Todo(c).subject
           new == DeleteJobs(t)
           jobs == new \o Rest(c)
           was == Views(meta)
<1>1. /\ Todo(c).do = "bin" /\ ~ Logs(Todo(c))
      /\ history' = [history EXCEPT !.changed = Changed(meta')]
      /\ log' = log /\ snap' = snap /\ now' = now /\ past' = past
  BY DEF DeletesCreated, Logs, Tables
<1>2. t \in Thing
  <2>1. Todo(c) \in BinJob
    BY <1>1, TodoFacts, JobKinds DEF Sane, Typed
  <2> QED BY <2>1 DEF BinJob
<1>3. CASE T!DeleteThing(t) /\ Continues(c, jobs, call[c].root, call[c].last, was)
  <2>1. DocsTyped' /\ meta \in Documents /\ was \in [Thing -> ViewSet]
    BY <1>2, <1>3, DeleteTyped, ViewsType DEF Sane, Typed, DocsTyped
  <2>2. Logging(new)
    BY <1>2, <2>1, DeleteLogs
  <2>3. Rest(c) \in Seq(JobSet) /\ Sound(Rest(c)) /\ Calm(Rest(c)) /\ PutsFrom(Rest(c), Len(log))
    BY TodoFacts DEF Sane, Typed
  <2>4. jobs \in Seq(JobSet) /\ Sound(jobs) /\ Calm(jobs) /\ PutsFrom(jobs, Len(log))
    <3> HIDE DEF new
    <3> QED BY <2>2, <2>3, SoundConcat
  <2>5. ASSUME NEW x \in Thing, View(meta, x) # View(meta', x)
        PROVE  Due(jobs, call[c].root, was, x, now, log)
    <3>1. PICK archive \in BOOLEAN : meta' = T!Cascaded(meta, t, Trash, Keep, archive)
      BY <1>3 DEF T!DeleteThing
    <3>2. x \in {t} \cup T!Descendants(meta, t)
      BY <2>1, <2>5, <3>1, CascadedApart
    <3> HIDE DEF t, was
    <3> QED BY <1>2, <2>1, <2>3, <3>2, DeleteIsDue
  <2> HIDE DEF jobs, was
  <2> QED BY <1>1, <1>3, <2>1, <2>4, <2>5, ContinuesKeeps DEF Lone
<1>4. CASE UNCHANGED docs /\ Continues(c, Rest(c), call[c].root, call[c].last, call[c].was)
  BY <1>1, <1>4, GoesOn DEF docs
<1> QED BY <1>3, <1>4 DEF DeletesCreated

\* A change of a collection by an undo leaves one entry to write.
LEMMA CollectionUndone ==
  ASSUME Sane, Known, NEW c \in Caller, Busy(c), Todo(c).do \in {"shelve", "reopen"},
         NEW op \in {"create_collection", "update_collection", "delete_collection"},
         NEW d, d = Todo(c).subject, T!UpsertCollection(d) \/ T!DeleteCollection(d),
         Continues(c, <<Note(op, d, NoCollection, FALSE, TRUE)>> \o Rest(c), call[c].root,
                   call[c].last, Views(meta)),
         log' = log, snap' = snap, now' = now, past' = past, history' = history
  PROVE  Sane' /\ Known'
<1> DEFINE new == <<Note(op, d, NoCollection, FALSE, TRUE)>>
           jobs == new \o Rest(c)
           was == Views(meta)
<1>1. d \in Collection /\ ~ Logs(Todo(c))
  <2>1. Todo(c) \in ShelfJob
    BY TodoFacts, JobKinds DEF Sane, Typed
  <2> QED BY <2>1 DEF ShelfJob, Logs
<1>2. DocsTyped' /\ meta' = meta
  BY <1>1, CollectionTyped DEF Sane, Typed
<1>3. Logging(new)
  <2>1. op \in Op /\ d \in Subject /\ Fits(op, d) /\ NoCollection \in From /\ op # "delete_thing"
    BY <1>1 DEF Op, Subject, Fits, From
  <2> QED BY <2>1, OneEntry
<1>4. Rest(c) \in Seq(JobSet) /\ Sound(Rest(c)) /\ Calm(Rest(c)) /\ PutsFrom(Rest(c), Len(log))
  BY TodoFacts DEF Sane, Typed
<1> HIDE DEF new
<1>5. jobs \in Seq(JobSet) /\ Sound(jobs) /\ Calm(jobs) /\ PutsFrom(jobs, Len(log))
  BY <1>3, <1>4, SoundConcat
<1>6. was \in [Thing -> ViewSet]
  BY ViewsType DEF Sane, Typed, DocsTyped
<1>7. Continues(c, jobs, call[c].root, call[c].last, was)
  BY DEF new
<1> HIDE DEF jobs, was
<1> QED BY <1>1, <1>2, <1>5, <1>6, <1>7, ContinuesKeeps DEF Lone

LEMMA ArchivesCreatedKeeps ==
  ASSUME Sane, Known, NEW c \in Caller, Busy(c), ArchivesCreated(c)
  PROVE  Sane' /\ Known'
<1> DEFINE d == Todo(c).subject
<1>1. /\ Todo(c).do = "shelve" /\ ~ Logs(Todo(c))
      /\ log' = log /\ snap' = snap /\ now' = now /\ past' = past /\ history' = history
  BY DEF ArchivesCreated, Tables, Logs
<1>2. CASE /\ T!DeleteCollection(d)
           /\ Continues(c, <<Note("delete_collection", d, NoCollection, FALSE, TRUE)>> \o Rest(c),
                        call[c].root, call[c].last, Views(meta))
  <2>1. PICK op \in {"create_collection", "update_collection", "delete_collection"} :
          Continues(c, <<Note(op, d, NoCollection, FALSE, TRUE)>> \o Rest(c),
                    call[c].root, call[c].last, Views(meta))
    BY <1>2
  <2> HIDE DEF d
  <2>2. d = Todo(c).subject
    BY DEF d
  <2> QED BY <1>1, <1>2, <2>1, <2>2, CollectionUndone
<1>3. CASE UNCHANGED docs /\ Continues(c, Rest(c), call[c].root, call[c].last, call[c].was)
  BY <1>1, <1>3, GoesOn DEF docs
<1> QED BY <1>2, <1>3 DEF ArchivesCreated

LEMMA ReopensDeletedKeeps ==
  ASSUME Sane, Known, NEW c \in Caller, Busy(c), ReopensDeleted(c)
  PROVE  Sane' /\ Known'
<1> DEFINE d == Todo(c).subject
<1>1. /\ Todo(c).do = "reopen" /\ T!UpsertCollection(d)
      /\ log' = log /\ snap' = snap /\ now' = now /\ past' = past /\ history' = history
  BY DEF ReopensDeleted, Tables
<1>2. PICK op \in {"create_collection", "update_collection", "delete_collection"} :
        Continues(c, <<Note(op, d, NoCollection, FALSE, TRUE)>> \o Rest(c),
                  call[c].root, call[c].last, Views(meta))
  BY DEF ReopensDeleted
<1> HIDE DEF d
<1>3. d = Todo(c).subject
  BY DEF d
<1> QED BY <1>1, <1>2, <1>3, CollectionUndone

----------------------------------------------------------------------------
(* Steps that write the tables                                             *)

\* Entry i is still there, and says what it said.
RowKept(i) ==
  /\ Live(i)'
  /\ \A f \in {"op", "subject", "from", "time"} : log'[i][f] = log[i][f]
  /\ past'[i].first = past[i].first

\* A change of which the log is still to speak.
Remembered(when) == when \in 0 .. now /\ when + Retention >= now + Window

RowsKept == \A i \in Ids : Live(i) /\ ~ Old(i) => RowKept(i)

LEMMA InLogStays ==
  ASSUME Typed, RowsKept, now' = now, NEW t, NEW when, Remembered(when),
         NEW i \in Ids, InLog(i, t, when)
  PROVE  i \in Ids' /\ InLog(i, t, when)'
<1>1. log[i].time \in Nat /\ now \in Nat /\ when \in Nat
  BY TablesFacts DEF Typed, LogRow, InLog, Remembered
<1>2. ~ Old(i) /\ Live(i)
  BY <1>1, HistoryAssumption DEF Old, InLog, Remembered
<1>3. RowKept(i)
  BY <1>2 DEF RowsKept
<1>4. i \in Ids' /\ Live(i)'
  BY <1>3 DEF RowKept, Live, Ids
<1>5. log'[i].time = log[i].time /\ log'[i].subject = log[i].subject /\ log'[i].op = log[i].op
      /\ log'[i].from = log[i].from
  BY <1>3 DEF RowKept
<1>6. past'[i].first = past[i].first
  BY <1>3 DEF RowKept
<1>7. Tells(i, t)'
  BY <1>5, <1>6 DEF InLog, Tells
<1> QED BY <1>4, <1>5, <1>7 DEF InLog

LEMMA HeldStays ==
  ASSUME Typed, RowsKept, now' = now, NEW when, Remembered(when), NEW root, Holds(log, root, when)
  PROVE  Holds(log', root, when)
<1>1. root \in Ids /\ Live(root)
  BY DEF Holds, Live, Ids
<1>2. log[root].time \in Nat /\ now \in Nat /\ when \in Nat
  BY <1>1, TablesFacts DEF Typed, LogRow, Remembered
<1>3. ~ Old(root)
  BY <1>2, HistoryAssumption DEF Old, Remembered, Holds
<1>4. RowKept(root)
  BY <1>1, <1>3 DEF RowsKept
<1>5. log'[root].time = log[root].time
  BY <1>4 DEF RowKept
<1> QED BY <1>4, <1>5 DEF RowKept, Holds, Live, Ids

\* A job of c is done: what the log and the other callers account for they still
\* do, and so does c.
LEMMA AccountsStay ==
  ASSUME Typed, Known, RowsKept, now' = now, history' = history, NEW c \in Caller,
         NEW jobs, NEW root, NEW last, NEW was, NEW undoing,
         Does(c, jobs, root, last, was, undoing),
         \A t \in Thing, when \in Nat :
           Remembered(when) /\ DueAt(c, t, when) => Accounted(t, when)'
  PROVE  Known'
<1>1. HistoryTyped'
  BY DEF Known, HistoryTyped
<1>2. ASSUME ~ history.lapse, NEW t \in Thing, NEW when, when = history.changed[t], Recalled(t)
      PROVE  Accounted(t, when)'
  <2>1. Remembered(when) /\ when \in Nat
    <3>1. when \in 0 .. now \cup {MaxNow + 1} /\ when \in 0 .. MaxNow
      BY <1>2 DEF Known, HistoryTyped, Recalled
    <3>2. when \in 0 .. now
      BY <3>1, HistoryAssumption
    <3> QED BY <3>2, <1>2 DEF Recalled, Remembered
  <2>2. Accounted(t, when)
    BY <1>2 DEF Known, ChangesLogged
  <2>3. ASSUME NEW i \in Ids, InLog(i, t, when)
        PROVE  i \in Ids' /\ InLog(i, t, when)'
    BY <2>1, <2>3, InLogStays
  <2>4. ASSUME NEW d \in Caller \ {c}, DueAt(d, t, when)
        PROVE  DueAt(d, t, when)'
    <3>1. Holds(log, call[d].root, when) => Holds(log', call[d].root, when)
      BY <2>1, HeldStays
    <3> QED BY <2>4, <3>1, OthersDue
  <2>5. DueAt(c, t, when) => Accounted(t, when)'
    BY <2>1
  <2> QED BY <2>2, <2>3, <2>4, <2>5 DEF Accounted
<1>3. ChangesLogged'
  <2> SUFFICES ASSUME ~ history'.lapse, NEW t \in Thing, Recalled(t)'
               PROVE  Accounted(t, history.changed[t])'
    BY DEF ChangesLogged
  <2> DEFINE when == history.changed[t]
  <2>1. Recalled(t) /\ ~ history.lapse
    BY DEF Recalled
  <2>2. \A x : x = history.changed[t] => Accounted(t, x)'
    BY <1>2, <2>1
  <2>3. PICK x : x = history.changed[t]
    OBVIOUS
  <2>4. x = history'.changed[t]
    BY <2>3
  <2> QED BY <2>2, <2>3, <2>4 DEF Accounted, InLog, DueAt
<1> QED BY <1>1, <1>3 DEF Known

\* What the first job has to do for those behind it.
LEMMA HeadLogs ==
  ASSUME Typed, RowsKept, now' = now, NEW c \in Caller, Busy(c), NEW root, NEW last,
         Does(c, Rest(c), root, last, call[c].was, call[c].undoing),
         NEW t \in Thing, NEW when, Remembered(when), DueAt(c, t, when),
         Own(Todo(c)) /\ Todo(c).subject = t => \E i \in Ids' : InLog(i, t, when)',
         Todo(c).do = "note" /\ Todo(c).child /\ Todo(c).subject = t
           /\ Holds(log, call[c].root, when) => \E i \in Ids' : InLog(i, t, when)',
         RestoreOf(Todo(c), call[c].was, t) => \E i \in Ids' : InLog(i, t, when)',
         Todo(c).do = "note" /\ ~ Todo(c).child => Holds(log', root, when),
         Follows(Todo(c)) /\ Holds(log, call[c].root, when) => root = call[c].root
  PROVE  Accounted(t, when)'
<1> DEFINE jobs == call[c].jobs
           rest == Rest(c)
           r == call[c].root
<1>1. /\ Todo(c) = jobs[1] /\ Len(jobs) \in Nat /\ Len(rest) = Len(jobs) - 1
      /\ \A k \in 1 .. Len(rest) : rest[k] = jobs[k + 1]
  BY TodoFacts DEF Typed
<1>2. Len(jobs) \in Nat \ {0}
  BY <1>1, CallFacts, EmptySeq DEF Typed, Busy
<1> SUFFICES ASSUME ~ \E i \in Ids' : InLog(i, t, when)'
             PROVE  DueAt(c, t, when)'
  BY DEF Accounted
<1>3. ASSUME Due(rest, root, call[c].was, t, when, log')
      PROVE  DueAt(c, t, when)'
  <2>1. rest # <<>> \/ rest = <<>>
    OBVIOUS
  <2>2. CASE rest = <<>>
    <3>1. Len(rest) = 0
      BY <2>2
    <3>2. FALSE
      BY <1>3, <3>1 DEF Due
    <3> QED BY <3>2
  <2>3. CASE rest # <<>>
    <3>1. call'[c].jobs = rest /\ call'[c].root = root /\ call'[c].was = call[c].was
      BY <2>3 DEF Does
    <3> QED BY <3>1, <1>3 DEF DueAt
  <2> QED BY <2>1, <2>2, <2>3
<1>4. ASSUME NEW k \in 1 .. Len(jobs), k # 1
      PROVE  k - 1 \in 1 .. Len(rest) /\ rest[k - 1] = jobs[k]
  <2>1. k - 1 \in 1 .. Len(rest) /\ (k - 1) + 1 = k
    BY <1>1, <1>4
  <2> QED BY <2>1, <1>1
<1>5. CASE \E k \in 1 .. Len(jobs) : Own(jobs[k]) /\ jobs[k].subject = t
  <2>1. PICK k \in 1 .. Len(jobs) : Own(jobs[k]) /\ jobs[k].subject = t
    BY <1>5
  <2>2. k # 1
    BY <1>1, <2>1
  <2>3. k - 1 \in 1 .. Len(rest) /\ rest[k - 1] = jobs[k]
    BY <1>4, <2>2
  <2> QED BY <1>3, <2>1, <2>3 DEF Due
<1>6. CASE \E k \in 1 .. Len(jobs) : /\ jobs[k].do = "note" /\ jobs[k].child /\ jobs[k].subject = t
                                     /\ Rooted(jobs, k, r, when, log)
  <2>1. PICK k \in 1 .. Len(jobs) : /\ jobs[k].do = "note" /\ jobs[k].child /\ jobs[k].subject = t
                                    /\ Rooted(jobs, k, r, when, log)
    BY <1>6
  <2>2. k # 1
    <3>1. SUFFICES ASSUME k = 1 PROVE FALSE
      OBVIOUS
    <3>2. Holds(log, r, when)
      <4>1. 1 .. k - 1 = {}
        BY <3>1
      <4> QED BY <2>1, <4>1 DEF Rooted
    <3> QED BY <1>1, <2>1, <3>1, <3>2
  <2>3. k - 1 \in 1 .. Len(rest) /\ rest[k - 1] = jobs[k]
    BY <1>4, <2>2
  <2>4. \A x \in 1 .. (k - 1) - 1 : x + 1 \in 1 .. k - 1 /\ rest[x] = jobs[x + 1]
    BY <1>1, <2>3
  <2>5. Rooted(rest, k - 1, root, when, log')
    <3>1. CASE \E y \in 1 .. k - 1 : /\ jobs[y].do = "note" /\ ~ jobs[y].child
                                     /\ \A x \in y + 1 .. k - 1 : Follows(jobs[x])
      <4>1. PICK y \in 1 .. k - 1 : /\ jobs[y].do = "note" /\ ~ jobs[y].child
                                    /\ \A x \in y + 1 .. k - 1 : Follows(jobs[x])
        BY <3>1
      <4>2. CASE y = 1
        <5>1. Holds(log', root, when)
          BY <1>1, <4>1, <4>2
        <5>2. \A x \in 1 .. (k - 1) - 1 : x + 1 \in y + 1 .. k - 1
          BY <2>3, <4>2
        <5>3. \A x \in 1 .. (k - 1) - 1 : Follows(rest[x])
          BY <2>4, <4>1, <5>2
        <5> QED BY <5>1, <5>3 DEF Rooted
      <4>3. CASE y # 1
        <5>1. y - 1 \in 1 .. (k - 1) - 1 /\ (y - 1) + 1 = y
          BY <2>3, <4>3
        <5>2. rest[y - 1] = jobs[y]
          BY <5>1, <2>4
        <5>3. \A x \in (y - 1) + 1 .. (k - 1) - 1 :
                x \in 1 .. (k - 1) - 1 /\ x + 1 \in y + 1 .. k - 1
          BY <2>3, <5>1
        <5>4. \A x \in (y - 1) + 1 .. (k - 1) - 1 : Follows(rest[x])
          BY <2>4, <4>1, <5>3
        <5> QED BY <4>1, <5>1, <5>2, <5>4 DEF Rooted
      <4> QED BY <4>2, <4>3
    <3>2. CASE Holds(log, r, when) /\ \A x \in 1 .. k - 1 : Follows(jobs[x])
      <4>1. 1 \in 1 .. k - 1
        BY <2>3
      <4>2. Follows(Todo(c)) /\ root = r
        BY <1>1, <3>2, <4>1
      <4>3. Holds(log', root, when)
        BY <3>2, <4>2, HeldStays
      <4>4. \A x \in 1 .. (k - 1) - 1 : Follows(rest[x])
        BY <2>4, <3>2
      <4> QED BY <4>3, <4>4 DEF Rooted
    <3> QED BY <2>1, <3>1, <3>2 DEF Rooted
  <2> QED BY <1>3, <2>1, <2>3, <2>5 DEF Due
<1>7. ~ RestoreOf(jobs[1], call[c].was, t)
  BY <1>1
<1> QED BY <1>5, <1>6, <1>7 DEF DueAt, Due

\* A new entry.
LEMMA AppendIsSeq ==
  ASSUME NEW S, NEW s \in Seq(S), NEW x \in S
  PROVE  /\ Append(s, x) \in Seq(S) /\ Len(Append(s, x)) = Len(s) + 1
         /\ \A i \in 1 .. Len(s) : Append(s, x)[i] = s[i]
         /\ Append(s, x)[Len(s) + 1] = x
         /\ Len(s) \in Nat
BY AppendProperties, LenProperties

Grows(row, ghost) ==
  /\ log' = Append(log, row)
  /\ snap' = Append(snap, NoSnap)
  /\ past' = Append(past, ghost)
  /\ now' = now

LEMMA Grown ==
  ASSUME Typed, NEW row \in LogRow, NEW ghost \in Ghost, Grows(row, ghost),
         Fits(row.op, row.subject), row.time = now, row.parent = 0 \/ Live(row.parent),
         NEW id, id = Len(log) + 1
  PROVE  /\ TablesTyped' /\ RowsFit' /\ RowsKept
         /\ Len(log) \in Nat /\ Len(log') = Len(log) + 1
         /\ id \in Ids' /\ \A i \in Ids' : i \in Ids \/ i = id
         /\ Live(id)' /\ log'[id] = row /\ snap'[id] = NoSnap /\ past'[id] = ghost
         /\ \A i \in Ids : /\ log'[i] = log[i] /\ snap'[i] = snap[i] /\ past'[i] = past[i]
                           /\ i \in Ids' /\ (Live(i)' <=> Live(i))
<1>1. Len(log) \in Nat /\ Ids = 1 .. Len(log) /\ now \in Nat /\ now' = now
  BY TablesFacts DEF Typed, Grows
<1>2. row \in RowSet /\ NoSnap \in SnapSet /\ row # Gone
  <2>1. row # Gone
    <3>1. row.op \in Op /\ "gone" \notin Op
      BY DEF LogRow, Op
    <3> QED BY <3>1 DEF Gone
  <2> QED BY <2>1 DEF RowSet, SnapSet
<1>3. /\ log' \in Seq(RowSet) /\ Len(log') = id /\ log'[id] = row
      /\ \A i \in Ids : log'[i] = log[i]
  BY <1>1, <1>2, AppendIsSeq DEF Typed, TablesTyped, Grows
<1>4. /\ snap' \in Seq(SnapSet) /\ Len(snap') = id /\ snap'[id] = NoSnap
      /\ \A i \in Ids : snap'[i] = snap[i]
  BY <1>1, <1>2, AppendIsSeq DEF Typed, TablesTyped, Grows
<1>5. /\ past' \in Seq(Ghost) /\ Len(past') = id /\ past'[id] = ghost
      /\ \A i \in Ids : past'[i] = past[i]
  BY <1>1, AppendIsSeq DEF Typed, TablesTyped, Grows
<1>6. TablesTyped'
  BY <1>1, <1>3, <1>4, <1>5 DEF Typed, TablesTyped
<1>7. id \in Ids' /\ (\A i \in Ids' : i \in Ids \/ i = id) /\ \A i \in Ids : i \in Ids'
  BY <1>1, <1>3 DEF Ids
<1>8. Live(id)' /\ \A i \in Ids : (Live(i)' <=> Live(i))
  BY <1>1, <1>2, <1>3, <1>7 DEF Live
<1>9. ASSUME NEW i \in Ids'
      PROVE  RowFits(i)' /\ SnapFits(i)'
  <2>1. CASE i \in Ids
    <3>1. RowFits(i) /\ SnapFits(i)
      BY <2>1 DEF Typed, RowsFit
    <3>2. Live(i) /\ log[i].parent # 0 => log[i].parent \in Ids /\ Live(log[i].parent)
      BY <3>1 DEF RowFits, Live
    <3>3. RowFits(i)'
      BY <2>1, <3>1, <3>2, <1>1, <1>3, <1>8 DEF RowFits
    <3>4. SnapFits(i)'
      BY <2>1, <3>1, <1>1, <1>3, <1>4, <1>8 DEF SnapFits
    <3> QED BY <3>3, <3>4
  <2>2. CASE i = id
    <3>1. row.parent < id /\ (row.parent = 0 \/ Live(row.parent)')
      <4>1. CASE row.parent = 0
        BY <4>1, <1>1
      <4>2. CASE Live(row.parent)
        <5>1. row.parent \in Ids
          BY <4>2 DEF Live
        <5> QED BY <4>2, <5>1, <1>1, <1>8
      <4> QED BY <4>1, <4>2
    <3>2. row.time <= now
      BY <1>1
    <3>3. RowFits(i)'
      BY <2>2, <3>1, <3>2, <1>1, <1>3 DEF RowFits
    <3>4. SnapFits(i)'
      BY <2>2, <1>4 DEF SnapFits
    <3> QED BY <3>3, <3>4
  <2> QED BY <1>7, <2>1, <2>2
<1>10. RowsFit'
  BY <1>9 DEF RowsFit
<1>11. RowsKept
  BY <1>3, <1>5, <1>8 DEF RowsKept, RowKept, Live
<1> QED BY <1>1, <1>3, <1>4, <1>5, <1>6, <1>7, <1>8, <1>10, <1>11

\* After a new entry the invariant holds, provided its snapshot is to follow.
LEMMA GrownSane ==
  ASSUME Sane, NEW row \in LogRow, NEW ghost \in Ghost, Grows(row, ghost),
         Fits(row.op, row.subject), row.time = now, row.parent = 0 \/ Live(row.parent),
         docs' = docs,
         NEW c \in Caller, Busy(c), Todo(c).do # "keep", NEW root, NEW last,
         Does(c, Rest(c), root, last, call[c].was, call[c].undoing),
         root \in {0} \cup 1 .. Len(log) + 1, last \in {0} \cup 1 .. Len(log) + 1,
         ghost.could => row.can,
         ghost.clean /\ row.op \in {"update_thing", "delete_thing"} =>
           last = Len(log) + 1 /\ NeedsKeep(Todo(c)),
         NEW id, id = Len(log) + 1
  PROVE  Sane'
<1>1. /\ TablesTyped' /\ RowsFit' /\ Len(log) \in Nat /\ Len(log') = id
      /\ id \in Ids' /\ \A i \in Ids' : i \in Ids \/ i = id
      /\ Live(id)' /\ log'[id] = row /\ snap'[id] = NoSnap /\ past'[id] = ghost
      /\ \A i \in Ids : /\ log'[i] = log[i] /\ snap'[i] = snap[i] /\ past'[i] = past[i]
                        /\ i \in Ids' /\ (Live(i)' <=> Live(i))
      /\ now' = now
  <2>1. now' = now
    BY DEF Grows
  <2> QED BY <2>1, Grown DEF Sane
<1>2. DocsTyped'
  BY DEF Sane, Typed, DocsTyped, docs
<1>3. /\ Sound(Rest(c)) /\ Lone(Rest(c)) /\ PutsFrom(Rest(c), Len(log'))
      /\ Len(Rest(c)) = Len(call[c].jobs) - 1 /\ Len(call[c].jobs) \in Nat
  BY <1>1, TodoFacts, PutsGrow DEF Sane, Typed, Lone
<1>4. CallsTyped' /\ JobsFit'
  <2>1. call[c].undoing \in {0} \cup 1 .. Len(log')
    BY <1>1 DEF Sane, Typed, CallsTyped, Ids
  <2>2. Fitting(Rest(c), root, last, call[c].undoing, Len(log'))
    BY <1>1, <1>3, <2>1 DEF Fitting
  <2> QED BY <1>1, <2>2, CallsStay DEF Sane, Typed
<1>5. MarkedIsUndone'
  <2> SUFFICES ASSUME NEW i \in Ids', Live(i)', past'[i].could, ~ log'[i].can
               PROVE  past'[i].through
    BY DEF MarkedIsUndone
  <2>1. CASE i \in Ids
    BY <2>1, <1>1 DEF Sane, MarkedIsUndone
  <2>2. CASE i = id
    BY <2>2, <1>1
  <2> QED BY <1>1, <2>1, <2>2
<1>6. SnapshotsDue'
  <2> SUFFICES ASSUME NEW i \in Ids', OwesSnapshot(i)'
               PROVE  snap'[i] # NoSnap \/ KeepDue(i)'
    BY DEF SnapshotsDue
  <2>1. CASE i \in Ids
    <3>1. OwesSnapshot(i)
      BY <2>1, <1>1 DEF OwesSnapshot
    <3>2. snap[i] # NoSnap \/ KeepDue(i)
      BY <2>1, <3>1 DEF Sane, SnapshotsDue
    <3>3. ~ Keeping(c, i)
      BY DEF Keeping
    <3>4. KeepDue(i) => KeepDue(i)'
      BY <3>3, StaysDue
    <3> QED BY <2>1, <3>2, <3>4, <1>1
  <2>2. CASE i = id
    <3>1. last = id /\ NeedsKeep(Todo(c))
      BY <2>2, <1>1 DEF OwesSnapshot
    <3>2. 1 < Len(call[c].jobs) /\ call[c].jobs[1 + 1].do = "keep"
      <4>1. Todo(c) = call[c].jobs[1] /\ Sound(call[c].jobs) /\ Len(call[c].jobs) \in Nat \ {0}
        BY TodoFacts, CallFacts, EmptySeq DEF Sane, Typed, JobsFit, Busy
      <4>2. 1 \in 1 .. Len(call[c].jobs)
        BY <4>1
      <4> QED BY <3>1, <4>1, <4>2 DEF Sound
    <3>3. 1 \in 1 .. Len(Rest(c)) /\ Rest(c)[1] = call[c].jobs[1 + 1] /\ Rest(c) # <<>>
      <4>1. 1 \in 1 .. Len(Rest(c))
        BY <1>3, <3>2
      <4>2. Rest(c)[1] = call[c].jobs[1 + 1]
        BY <4>1, TodoFacts DEF Sane, Typed
      <4>3. Rest(c) # <<>>
        BY <4>1
      <4> QED BY <4>1, <4>2, <4>3
    <3>4. call'[c].jobs = Rest(c) /\ call'[c].last = id
      BY <3>1, <3>3 DEF Does
    <3>5. Head(Rest(c)) = Rest(c)[1]
      OBVIOUS
    <3> QED BY <2>2, <3>2, <3>3, <3>4, <3>5 DEF KeepDue, Busy, Todo
  <2> QED BY <1>1, <2>1, <2>2
<1> QED BY <1>1, <1>2, <1>4, <1>5, <1>6 DEF Sane, Typed

LEMMA EntryOpened ==
  ASSUME Typed, NEW c \in Caller, NEW kept \in BOOLEAN, NEW row \in LogRow, Entered(row),
         now' = now, NEW id, id = Len(log) + 1, Opened(c, id, kept)
  PROVE  \E ghost \in Ghost : /\ Grows(row, ghost)
                              /\ ghost.first = call[c].was
                              /\ ghost.clean => kept
                              /\ ghost.could = row.can
<1>1. Len(log) \in Nat /\ Len(past) = Len(log) /\ log \in Seq(RowSet) /\ row \in RowSet
  BY TablesFacts DEF Typed, TablesTyped, RowSet
<1>2. id > Len(past)
  BY <1>1
<1>3. log'[id] = row
  BY <1>1, AppendIsSeq DEF Entered
<1> DEFINE clean == Unshared(c) /\ kept
<1>4. call[c].was \in [Thing -> ViewSet] /\ clean \in BOOLEAN /\ row.can \in BOOLEAN
  BY CallFacts DEF Typed, LogRow
<1>5. past' = Append(past, [first |-> call[c].was, clean |-> clean, could |-> row.can,
                            through |-> FALSE])
  BY <1>2, <1>3 DEF Opened
<1>6. clean => kept
  OBVIOUS
<1> HIDE DEF clean
<1> DEFINE ghost == [first |-> call[c].was, clean |-> clean, could |-> row.can, through |-> FALSE]
<1>7. ghost \in Ghost /\ ghost.first = call[c].was /\ ghost.clean = clean /\ ghost.could = row.can
  BY <1>4 DEF Ghost
<1>8. past' = Append(past, ghost)
  BY <1>5
<1> HIDE DEF ghost
<1> QED BY <1>6, <1>7, <1>8 DEF Entered, Grows

LEMMA NewInLog ==
  ASSUME Typed, NEW row \in LogRow, row.time = now, NEW id, Live(id)', log'[id] = row,
         NEW t, NEW when, Remembered(when),
         \/ row.subject = t
         \/ /\ row.op = "move_thing" /\ row.from = NoCollection
            /\ t \in BelowIn(past'[id].first, row.subject)
  PROVE  id \in Ids' /\ InLog(id, t, when)'
<1>1. now \in Nat /\ when \in 0 .. now
  BY TablesFacts DEF Typed, Remembered
<1>2. log'[id].time + Window >= when
  BY <1>1, HistoryAssumption
<1>3. Tells(id, t)'
  BY DEF Tells
<1>4. id \in Ids'
  BY DEF Live
<1> QED BY <1>2, <1>3, <1>4 DEF InLog

\* The next job of c is done, and only the callers and ghosts are the worse for
\* it.
LEMMA RestOnly ==
  ASSUME Sane, NEW c \in Caller, Busy(c), Todo(c).do # "keep", docs' = docs, log' = log,
         snap' = snap, now' = now, GhostsStay, NEW root, root \in {0} \cup Ids,
         NEW last, last \in {0} \cup Ids,
         Continues(c, Rest(c), root, last, call[c].was)
  PROVE  /\ Sane' /\ RowsKept
         /\ Does(c, Rest(c), root, last, call[c].was, call[c].undoing)
<1>1. /\ Rest(c) \in Seq(JobSet) /\ Sound(Rest(c)) /\ Lone(Rest(c)) /\ PutsFrom(Rest(c), Len(log))
      /\ call[c].was \in [Thing -> ViewSet]
      /\ root \in Nat /\ last \in Nat
  BY TodoFacts, CallFacts, TablesFacts DEF Sane, Typed, Lone
<1>2. Does(c, Rest(c), root, last, call[c].was, call[c].undoing)
  BY <1>1, ContinuesDoes DEF Sane, Typed
<1>3. Fitting(Rest(c), root, last, call[c].undoing, Len(log))
  BY <1>1 DEF Fitting, Sane, Typed, CallsTyped, Ids
<1>4. DocsTyped'
  BY DEF Sane, Typed, DocsTyped, docs
<1>5. OnlyCalls(c, Rest(c), root, last, call[c].was, call[c].undoing)
  BY <1>2, <1>3, <1>4, IdleKeepsNothing DEF OnlyCalls, TablesStay
<1>6. RowsKept
  <2>1. \A i \in Ids : i \in 1 .. Len(past)
    BY DEF Sane, Typed, TablesTyped, Ids
  <2> QED BY <2>1 DEF RowsKept, RowKept, Live, Ids, GhostsStay, GhostKept
<1> QED BY <1>2, <1>5, <1>6, OnlyCallsSane

LEMMA WriteNoteKeeps ==
  ASSUME Sane, Known, NEW c \in Caller, Busy(c), WriteNote(c)
  PROVE  Sane' /\ Known'
<1> DEFINE j == Todo(c)
           r == call[c].root
           skipped == j.child /\ ~ Live(r)
<1>1. j.do = "note" /\ docs' = docs /\ now' = now /\ history' = history
  BY DEF WriteNote
<1>2. j \in NoteJob /\ Fits(j.op, j.subject)
  BY <1>1, TodoFacts, JobKinds DEF Sane, Typed
<1>3. r \in {0} \cup Ids /\ call[c].was \in [Thing -> ViewSet]
  BY CallFacts DEF Sane, Typed, CallsTyped
<1>4. CASE skipped
  <2>1. /\ log' = log /\ snap' = snap /\ past' = past
        /\ Continues(c, Rest(c), 0, 0, call[c].was)
    BY <1>4 DEF WriteNote, Tables
  <2>2. GhostsStay
    BY <2>1, SameGhostsStay DEF Sane, Typed
  <2>3. 0 \in {0} \cup Ids
    OBVIOUS
  <2>4. /\ Sane' /\ RowsKept /\ Does(c, Rest(c), 0, 0, call[c].was, call[c].undoing)
    BY <1>1, <2>1, <2>2, <2>3, RestOnly
  <2>5. \A when : ~ Holds(log, r, when)
    BY <1>4 DEF Holds, Live, Ids
  <2>6. ASSUME NEW t \in Thing, NEW when \in Nat, Remembered(when), DueAt(c, t, when)
        PROVE  Accounted(t, when)'
    BY <1>1, <1>4, <2>4, <2>5, <2>6, HeadLogs DEF Own, RestoreOf, Sane
  <2> QED BY <1>1, <2>4, <2>6, AccountsStay DEF Sane
<1>5. CASE ~ skipped
  <2>1. PICK id : id = Len(log) + 1
    OBVIOUS
  <2> DEFINE parent == IF j.child THEN r ELSE 0
             root == IF j.child THEN r ELSE id
             kept == j.op # "update_thing"
  <2>2. parent \in Nat /\ (parent = 0 \/ Live(parent)) /\ Len(log) \in Nat /\ now \in Nat
    BY <1>3, <1>5, TablesFacts DEF Sane, Typed
  <2>3. /\ Entered([op |-> j.op, subject |-> j.subject, from |-> j.from, time |-> now,
                    parent |-> parent, can |-> j.can])
        /\ Opened(c, id, kept)
        /\ Continues(c, Rest(c), root, id, call[c].was)
    BY <1>5, <2>1 DEF WriteNote
  <2>4. kept \in BOOLEAN /\ (kept => j.op # "update_thing")
    OBVIOUS
  <2>5. /\ id \in 1 .. Len(log) + 1 /\ id \in Nat
        /\ root \in {0} \cup 1 .. Len(log) + 1 /\ root \in Nat
        /\ ~ j.child => root = id
        /\ j.child => root = r
    BY <1>3, <2>1, <2>2 DEF Ids
  <2> HIDE DEF parent, root, kept
  <2>6. [op |-> j.op, subject |-> j.subject, from |-> j.from, time |-> now,
         parent |-> parent, can |-> j.can] \in LogRow
    BY <1>2, <2>2 DEF NoteJob, LogRow, From
  <2>7. PICK row \in LogRow : /\ Entered(row) /\ row.op = j.op /\ row.subject = j.subject
                              /\ row.from = j.from /\ row.time = now /\ row.parent = parent
    BY <2>3, <2>6
  <2>8. PICK ghost \in Ghost : /\ Grows(row, ghost) /\ ghost.first = call[c].was
                               /\ ghost.clean => kept
                               /\ ghost.could = row.can
    BY <1>1, <2>1, <2>3, <2>4, <2>7, EntryOpened DEF Sane
  <2>9. Does(c, Rest(c), root, id, call[c].was, call[c].undoing)
    BY <1>3, <2>3, <2>5, TodoFacts, ContinuesDoes DEF Sane, Typed
  <2>10. ghost.clean /\ row.op \in {"update_thing", "delete_thing"} =>
           id = Len(log) + 1 /\ NeedsKeep(Todo(c))
    BY <1>1, <2>1, <2>4, <2>7, <2>8 DEF NeedsKeep
  <2>11. Fits(row.op, row.subject) /\ (row.parent = 0 \/ Live(row.parent))
    BY <1>2, <2>2, <2>7
  <2>12. Sane'
    BY <1>1, <2>1, <2>5, <2>7, <2>8, <2>9, <2>10, <2>11, GrownSane
  <2>13. RowsKept /\ Live(id)' /\ log'[id] = row /\ past'[id] = ghost
         /\ Len(log') = Len(log) + 1
    BY <2>1, <2>7, <2>8, <2>11, Grown DEF Sane
  <2>14. ASSUME NEW t \in Thing, NEW when \in Nat, Remembered(when), DueAt(c, t, when)
         PROVE  Accounted(t, when)'
    <3>1. j.subject = t => id \in Ids' /\ InLog(id, t, when)'
      BY <2>7, <2>13, <2>14, NewInLog DEF Sane
    <3>2. RestoreOf(j, call[c].was, t) => id \in Ids' /\ InLog(id, t, when)'
      BY <2>7, <2>8, <2>13, <2>14, NewInLog DEF Sane, RestoreOf
    <3>3. ~ j.child => Holds(log', root, when)
      <4>1. when <= now
        BY <2>2, <2>14 DEF Remembered
      <4>2. log'[id] # Gone /\ id \in 1 .. Len(log')
        BY <2>13 DEF Live, Ids
      <4> QED BY <2>5, <2>7, <2>13, <4>1, <4>2, <2>2 DEF Holds
    <3>4. Follows(j) => root = r
      BY <1>1, <2>5 DEF Follows
    <3> HIDE DEF j
    <3> QED BY <1>1, <2>9, <2>13, <2>14, <3>1, <3>2, <3>3, <3>4, HeadLogs DEF Sane, j
  <2> QED BY <1>1, <2>9, <2>12, <2>13, <2>14, AccountsStay DEF Sane
<1> QED BY <1>4, <1>5

LEMMA JoinRecentKeeps ==
  ASSUME Sane, Known, NEW c \in Caller, Busy(c), JoinRecent(c)
  PROVE  Sane' /\ Known'
<1> DEFINE j == Todo(c)
<1>1. j.do = "join" /\ docs' = docs /\ now' = now /\ history' = history
  BY DEF JoinRecent
<1>2. j \in JoinJob
  BY <1>1, TodoFacts, JobKinds DEF Sane, Typed
<1>3. call[c].was \in [Thing -> ViewSet]
  BY CallFacts DEF Sane, Typed
<1>4. CASE Recent(j.subject) = {}
  <2>1. PICK id : id = Len(log) + 1
    OBVIOUS
  <2> DEFINE from == IF j.op = "move_thing" THEN j.from ELSE NoCollection
  <2>2. from \in From /\ Len(log) \in Nat /\ now \in Nat
    BY <1>2, TablesFacts DEF Sane, Typed, JoinJob, From
  <2>3. PICK can \in BOOLEAN, kept \in BOOLEAN :
          /\ Entered([op |-> j.op, subject |-> j.subject, time |-> now, parent |-> 0,
                      from |-> from, can |-> can])
          /\ Opened(c, id, kept)
          /\ Continues(c, Rest(c), id, id, call[c].was)
          /\ can
    BY <1>4, <2>1 DEF JoinRecent
  <2>4. id \in 1 .. Len(log) + 1 /\ id \in Nat /\ id \in {0} \cup 1 .. Len(log) + 1
    BY <2>1, <2>2
  <2> HIDE DEF from
  <2>5. /\ [op |-> j.op, subject |-> j.subject, time |-> now, parent |-> 0,
            from |-> from, can |-> can] \in LogRow
        /\ Fits(j.op, j.subject)
    BY <1>2, <2>2 DEF JoinJob, LogRow, From, Op, Subject, Fits
  <2>6. PICK row \in LogRow : /\ Entered(row) /\ row.op = j.op /\ row.subject = j.subject
                              /\ row.time = now /\ row.parent = 0
    BY <2>3, <2>5
  <2>7. PICK ghost \in Ghost : Grows(row, ghost) /\ (ghost.could => row.can)
    BY <1>1, <2>1, <2>3, <2>6, EntryOpened DEF Sane
  <2>8. Does(c, Rest(c), id, id, call[c].was, call[c].undoing)
    BY <1>3, <2>3, <2>4, TodoFacts, ContinuesDoes DEF Sane, Typed
  <2>9. Fits(row.op, row.subject) /\ NeedsKeep(Todo(c))
    BY <1>1, <2>5, <2>6 DEF NeedsKeep
  <2>10. Sane'
    BY <1>1, <2>1, <2>4, <2>6, <2>7, <2>8, <2>9, GrownSane
  <2>11. RowsKept /\ Live(id)' /\ log'[id] = row
    BY <2>1, <2>6, <2>7, <2>9, Grown DEF Sane
  <2>12. ASSUME NEW t \in Thing, NEW when \in Nat, Remembered(when), DueAt(c, t, when)
         PROVE  Accounted(t, when)'
    <3>1. j.subject = t => id \in Ids' /\ InLog(id, t, when)'
      BY <2>6, <2>11, <2>12, NewInLog DEF Sane
    <3>2. ~ RestoreOf(j, call[c].was, t) /\ j.do # "note" /\ ~ Follows(j)
      BY <1>1 DEF RestoreOf, Follows
    <3> HIDE DEF j
    <3> QED BY <1>1, <2>8, <2>11, <2>12, <3>1, <3>2, HeadLogs DEF Sane, j
  <2> QED BY <1>1, <2>8, <2>10, <2>11, <2>12, AccountsStay DEF Sane
<1>5. CASE Recent(j.subject) # {}
  <2>1. PICK i \in Recent(j.subject) : /\ log' = log /\ snap' = snap
                                       /\ Opened(c, i, TRUE)
                                       /\ Continues(c, Rest(c), i, i, call[c].was)
    BY <1>5 DEF JoinRecent, Tables
  <2>2. i \in Ids /\ Live(i) /\ log[i].subject = j.subject /\ log[i].time + Window >= now
    BY DEF Recent
  <2>3. Len(past) = Len(log) /\ past \in Seq(Ghost) /\ Len(log) \in Nat /\ Ids = 1 .. Len(log)
    BY TablesFacts DEF Sane, Typed, TablesTyped
  <2>4. PICK clean \in BOOLEAN : past' = [past EXCEPT ![i].clean = clean]
                                 /\ (clean => past[i].clean)
    <3>1. ~ (i > Len(past)) /\ past[i] \in Ghost
      BY <2>2, <2>3
    <3>2. past' = [past EXCEPT ![i].clean = past[i].clean /\ Unshared(c)]
      BY <2>1, <3>1 DEF Opened
    <3>3. (past[i].clean /\ Unshared(c)) \in BOOLEAN
      BY DEF Unshared
    <3> QED BY <3>2, <3>3
  <2>5. GhostsStay
    <3> DEFINE g == past[i]
               h == [g EXCEPT !.clean = clean]
    <3>1. g \in Ghost /\ i \in 1 .. Len(past)
      BY <2>2, <2>3
    <3>2. past' = [past EXCEPT ![i] = h]
      BY <2>4
    <3> HIDE DEF g
    <3>3. h \in Ghost /\ h.first = g.first /\ h.could = g.could /\ h.through = g.through
          /\ h.clean = clean
      BY <3>1 DEF Ghost
    <3> HIDE DEF h
    <3>4. past' \in Seq(Ghost) /\ Len(past') = Len(past)
      BY <2>3, <3>1, <3>2, <3>3
    <3>5. \A k \in 1 .. Len(past) : past'[k] = IF k = i THEN h ELSE past[k]
      BY <2>3, <3>2
    <3> QED BY <2>4, <3>3, <3>4, <3>5 DEF GhostsStay, GhostKept, g
  <2>6. Todo(c).do # "keep" /\ i \in {0} \cup Ids
    BY <1>1, <2>2
  <2>7. Sane' /\ RowsKept /\ Does(c, Rest(c), i, i, call[c].was, call[c].undoing)
    BY <1>1, <2>1, <2>5, <2>6, RestOnly
  <2>8. ASSUME NEW t \in Thing, NEW when \in Nat, Remembered(when), DueAt(c, t, when)
        PROVE  Accounted(t, when)'
    <3>1. j.subject = t => i \in Ids' /\ InLog(i, t, when)'
      <4>1. when <= now /\ log[i].time \in Nat /\ now \in Nat
        BY <2>2, <2>8, TablesFacts DEF Remembered, Sane, Typed, LogRow
      <4>2. log[i].time + Window >= when
        BY <2>2, <4>1, HistoryAssumption
      <4>3. j.subject = t => i \in Ids /\ InLog(i, t, when)
        BY <2>2, <4>2 DEF InLog, Tells
      <4> QED BY <1>1, <2>7, <2>8, <4>3, InLogStays DEF Sane
    <3>2. ~ RestoreOf(j, call[c].was, t) /\ j.do # "note" /\ ~ Follows(j)
      BY <1>1 DEF RestoreOf, Follows
    <3> HIDE DEF j
    <3> QED BY <1>1, <2>7, <2>8, <3>1, <3>2, HeadLogs DEF Sane, j
  <2> QED BY <1>1, <2>7, <2>8, AccountsStay DEF Sane
<1> QED BY <1>4, <1>5

LEMMA KeepSnapshotKeeps ==
  ASSUME Sane, Known, NEW c \in Caller, Busy(c), KeepSnapshot(c)
  PROVE  Sane' /\ Known'
<1> DEFINE j == Todo(c)
           last == call[c].last
           s == Kept(last, j.thing, j.view)
<1>1. /\ j.do = "keep" /\ docs' = docs /\ log' = log /\ now' = now /\ past' = past
      /\ history' = history
      /\ snap' = IF Live(last) THEN [snap EXCEPT ![last] = s] ELSE snap
      /\ Continues(c, Rest(c), call[c].root, last, call[c].was)
  BY DEF KeepSnapshot
<1>2. j.thing \in Thing /\ j.view \in ViewSet
  <2>1. j \in KeepJob
    BY <1>1, TodoFacts, JobKinds DEF Sane, Typed
  <2> QED BY <2>1 DEF KeepJob
<1>3. /\ Len(log) \in Nat /\ now \in Nat /\ Ids = 1 .. Len(log)
      /\ snap \in Seq(SnapSet) /\ Len(snap) = Len(log) /\ Len(past) = Len(log)
  BY TablesFacts DEF Sane, Typed, TablesTyped
<1>4. ASSUME Live(last)
      PROVE  /\ last \in Ids /\ s \in Snapshot /\ s # NoSnap
             /\ log[last].time <= s.time /\ s.time <= now
  <2>1. last \in Ids /\ log[last].time <= now
    BY <1>4 DEF Live, Sane, Typed, RowsFit, RowFits
  <2>2. CASE snap[last] = NoSnap
    <3>1. s = [thing |-> j.thing, view |-> j.view, time |-> now]
      BY <2>2 DEF Kept
    <3>2. s \in Snapshot /\ s.time = now
      BY <1>2, <1>3, <3>1 DEF Snapshot
    <3> HIDE DEF s
    <3> QED BY <2>1, <3>2, <1>3, SnapshotAssumption
  <2>3. CASE snap[last] # NoSnap
    <3>1. s = snap[last]
      BY <2>3 DEF Kept
    <3>2. s \in Snapshot /\ SnapFits(last)
      BY <2>1, <2>3, <3>1, TablesFacts DEF Sane, Typed, RowsFit
    <3> QED BY <2>1, <2>3, <3>1, <3>2, SnapshotAssumption DEF SnapFits
  <2> QED BY <2>2, <2>3
<1> HIDE DEF s, j
<1>5. /\ snap' \in Seq(SnapSet) /\ Len(snap') = Len(snap)
      /\ \A i \in Ids : snap'[i] = IF i = last /\ Live(last) THEN s ELSE snap[i]
  <2>1. CASE Live(last)
    BY <2>1, <1>1, <1>3, <1>4 DEF SnapSet
  <2>2. CASE ~ Live(last)
    BY <2>2, <1>1, <1>3
  <2> QED BY <2>1, <2>2
<1>6. TablesTyped'
  BY <1>1, <1>5 DEF Sane, Typed, TablesTyped
<1>7. RowsFit'
  <2> SUFFICES ASSUME NEW i \in Ids PROVE RowFits(i)' /\ SnapFits(i)'
    BY <1>1 DEF RowsFit, Ids
  <2>1. RowFits(i) /\ SnapFits(i) /\ (Live(i)' <=> Live(i))
    BY <1>1 DEF Sane, Typed, RowsFit, Live, Ids
  <2>2. RowFits(i)'
    BY <2>1, <1>1 DEF RowFits, Live, Ids
  <2>3. SnapFits(i)'
    BY <2>1, <1>1, <1>4, <1>5 DEF SnapFits
  <2> QED BY <2>2, <2>3
<1>8. /\ call[c].root \in {0} \cup Ids /\ last \in {0} \cup Ids /\ call[c].undoing \in {0} \cup Ids
      /\ call[c].root \in Nat /\ last \in Nat /\ call[c].was \in [Thing -> ViewSet]
  BY CallFacts DEF Sane, Typed, CallsTyped
<1>9. /\ Rest(c) \in Seq(JobSet) /\ Sound(Rest(c)) /\ Lone(Rest(c)) /\ PutsFrom(Rest(c), Len(log))
  BY TodoFacts DEF Sane, Typed, Lone
<1>10. Does(c, Rest(c), call[c].root, last, call[c].was, call[c].undoing)
  BY <1>1, <1>8, <1>9, ContinuesDoes DEF Sane, Typed
<1>11. CallsTyped' /\ JobsFit'
  <2>1. Fitting(Rest(c), call[c].root, last, call[c].undoing, Len(log'))
    BY <1>1, <1>3, <1>8, <1>9 DEF Fitting
  <2> QED BY <1>1, <1>3, <1>10, <2>1, CallsStay DEF Sane, Typed
<1>12. SnapshotsDue'
  <2> SUFFICES ASSUME NEW i \in Ids', OwesSnapshot(i)', snap'[i] = NoSnap
               PROVE  KeepDue(i)'
    BY DEF SnapshotsDue
  <2>1. i \in Ids /\ OwesSnapshot(i)
    BY <1>1 DEF OwesSnapshot, Live, Ids
  <2>2. i # last
    BY <2>1, <1>4, <1>5 DEF OwesSnapshot
  <2>3. KeepDue(i) /\ ~ Keeping(c, i)
    BY <2>1, <2>2, <1>5 DEF Sane, SnapshotsDue, Keeping
  <2> QED BY <2>3, <1>10, StaysDue
<1>13. MarkedIsUndone' /\ DocsTyped' /\ RowsKept
  <2>1. MarkedIsUndone'
    BY <1>1 DEF Sane, MarkedIsUndone, Live, Ids
  <2>2. DocsTyped'
    BY <1>1 DEF Sane, Typed, DocsTyped, docs
  <2>3. RowsKept
    BY <1>1 DEF RowsKept, RowKept, Live, Ids
  <2> QED BY <2>1, <2>2, <2>3
<1>14. ASSUME NEW t \in Thing, NEW when \in Nat, Remembered(when), DueAt(c, t, when)
       PROVE  Accounted(t, when)'
  <2>1. ~ Own(Todo(c)) /\ ~ RestoreOf(Todo(c), call[c].was, t) /\ Todo(c).do # "note"
    BY <1>1 DEF Own, RestoreOf, j
  <2> QED BY <1>1, <1>10, <1>13, <1>14, <2>1, HeadLogs DEF Sane
<1>15. Known'
  BY <1>1, <1>10, <1>13, <1>14, AccountsStay DEF Sane
<1> QED BY <1>6, <1>7, <1>11, <1>12, <1>13, <1>15 DEF Sane, Typed

LEMMA MarkUndoneKeeps ==
  ASSUME Sane, Known, NEW c \in Caller, Busy(c), MarkUndone(c)
  PROVE  Sane' /\ Known'
<1> DEFINE u == call[c].undoing
           row == [log[u] EXCEPT !.can = FALSE]
           ghost == [past[u] EXCEPT !.through = TRUE]
<1>1. /\ Todo(c).do = "mark" /\ docs' = docs /\ now' = now /\ history' = history /\ snap' = snap
      /\ log' = IF Live(u) THEN [log EXCEPT ![u].can = FALSE] ELSE log
      /\ past' = [past EXCEPT ![u].through = @ \/ Len(Rest(c)) = 1]
      /\ Continues(c, Rest(c), call[c].root, call[c].last, call[c].was)
  BY DEF MarkUndone
<1>2. Len(Rest(c)) = 1
  <2>1. Todo(c) = call[c].jobs[1] /\ Sound(call[c].jobs) /\ Len(call[c].jobs) \in Nat \ {0}
        /\ Len(Rest(c)) = Len(call[c].jobs) - 1
    BY TodoFacts, CallFacts, EmptySeq DEF Sane, Typed, JobsFit, Busy
  <2>2. 1 \in 1 .. Len(call[c].jobs)
    BY <2>1
  <2>3. 1 = Len(call[c].jobs) - 1
    BY <1>1, <2>1, <2>2 DEF Sound
  <2> QED BY <2>1, <2>3
<1>3. /\ Len(log) \in Nat /\ now \in Nat /\ Ids = 1 .. Len(log) /\ log \in Seq(RowSet)
      /\ past \in Seq(Ghost) /\ Len(snap) = Len(log) /\ Len(past) = Len(log)
  BY TablesFacts DEF Sane, Typed, TablesTyped
<1>4. ASSUME u \in Ids
      PROVE  /\ ghost \in Ghost /\ ghost.first = past[u].first /\ ghost.could = past[u].could
             /\ ghost.clean = past[u].clean /\ ghost.through
             /\ past' = [past EXCEPT ![u] = ghost]
  <2> DEFINE old == past[u]
  <2>1. old \in Ghost
    BY <1>3, <1>4
  <2>2. past' = [past EXCEPT ![u].through = TRUE]
    BY <1>1, <1>2
  <2>3. past' = [past EXCEPT ![u] = ghost]
    BY <2>2
  <2> HIDE DEF old
  <2>4. LET g == [old EXCEPT !.through = TRUE]
        IN g \in Ghost /\ g.first = old.first /\ g.could = old.could /\ g.clean = old.clean
           /\ g.through
    BY <2>1 DEF Ghost
  <2> QED BY <2>3, <2>4 DEF old
<1>5. ASSUME Live(u)
      PROVE  /\ u \in Ids /\ row \in LogRow /\ row # Gone
             /\ \A f \in {"op", "subject", "from", "time", "parent"} : row[f] = log[u][f]
             /\ log' = [log EXCEPT ![u] = row]
  <2> DEFINE old == log[u]
  <2>1. u \in Ids /\ old \in LogRow
    BY <1>5, TablesFacts DEF Live, Sane, Typed
  <2>2. log' = [log EXCEPT ![u] = row]
    BY <1>1, <1>5
  <2> HIDE DEF old
  <2>3. LET r == [old EXCEPT !.can = FALSE]
        IN r \in LogRow /\ \A f \in {"op", "subject", "from", "time", "parent"} : r[f] = old[f]
    BY <2>1 DEF LogRow
  <2>4. row \in LogRow /\ \A f \in {"op", "subject", "from", "time", "parent"} : row[f] = log[u][f]
    BY <2>3 DEF old
  <2> HIDE DEF row
  <2>5. row # Gone
    <3>1. row.op \in Op /\ "gone" \notin Op
      BY <2>4 DEF LogRow, Op
    <3> QED BY <3>1 DEF Gone
  <2> QED BY <2>1, <2>2, <2>4, <2>5
<1> HIDE DEF row, ghost
<1>6. /\ log' \in Seq(RowSet) /\ Len(log') = Len(log) /\ Ids' = Ids
      /\ \A i \in Ids : log'[i] = IF i = u /\ Live(u) THEN row ELSE log[i]
  <2>1. CASE Live(u)
    <3>1. row \in RowSet
      BY <2>1, <1>5 DEF RowSet
    <3> QED BY <2>1, <3>1, <1>3, <1>5 DEF Ids
  <2>2. CASE ~ Live(u)
    BY <2>2, <1>1, <1>3 DEF Ids
  <2> QED BY <2>1, <2>2
<1>7. /\ past' \in Seq(Ghost) /\ Len(past') = Len(past)
      /\ \A i \in Ids : past'[i] = IF i = u THEN ghost ELSE past[i]
  <2>1. CASE u \in Ids
    BY <2>1, <1>3, <1>4
  <2>2. CASE u \notin Ids
    <3>1. past' = past
      BY <2>2, <1>1, <1>3
    <3> QED BY <3>1, <2>2, <1>3
  <2> QED BY <2>1, <2>2
<1>8. \A i \in Ids : (Live(i)' <=> Live(i))
  BY <1>5, <1>6 DEF Live
<1>9. \A i \in Ids : Live(i) => \A f \in {"op", "subject", "from", "time", "parent"} :
                                  log'[i][f] = log[i][f]
  BY <1>5, <1>6
<1>10. \A i \in Ids : /\ past'[i].first = past[i].first /\ past'[i].could = past[i].could
                      /\ past'[i].clean = past[i].clean /\ (past[i].through => past'[i].through)
  BY <1>4, <1>7
<1>11. TablesTyped'
  BY <1>1, <1>3, <1>6, <1>7 DEF Sane, Typed, TablesTyped
<1>12. RowsFit'
  <2> SUFFICES ASSUME NEW i \in Ids PROVE RowFits(i)' /\ SnapFits(i)'
    BY <1>6 DEF RowsFit
  <2>1. RowFits(i) /\ SnapFits(i)
    BY DEF Sane, Typed, RowsFit
  <2>2. Live(i) => /\ log'[i].op = log[i].op /\ log'[i].subject = log[i].subject
                   /\ log'[i].time = log[i].time /\ log'[i].parent = log[i].parent
    BY <1>9
  <2>3. Live(i) /\ log[i].parent # 0 => log[i].parent \in Ids /\ Live(log[i].parent)
    BY <2>1 DEF RowFits, Live
  <2>4. RowFits(i)'
    BY <2>1, <2>2, <2>3, <1>1, <1>8 DEF RowFits
  <2>5. SnapFits(i)'
    BY <2>1, <2>2, <1>1, <1>8 DEF SnapFits
  <2> QED BY <2>4, <2>5
<1>13. /\ call[c].root \in {0} \cup Ids /\ call[c].last \in {0} \cup Ids /\ u \in {0} \cup Ids
       /\ call[c].root \in Nat /\ call[c].last \in Nat /\ call[c].was \in [Thing -> ViewSet]
  BY CallFacts DEF Sane, Typed, CallsTyped
<1>14. /\ Rest(c) \in Seq(JobSet) /\ Sound(Rest(c)) /\ Lone(Rest(c)) /\ PutsFrom(Rest(c), Len(log))
  BY TodoFacts DEF Sane, Typed, Lone
<1>15. Does(c, Rest(c), call[c].root, call[c].last, call[c].was, call[c].undoing)
  BY <1>1, <1>13, <1>14, ContinuesDoes DEF Sane, Typed
<1>16. CallsTyped' /\ JobsFit'
  <2>1. Fitting(Rest(c), call[c].root, call[c].last, call[c].undoing, Len(log'))
    BY <1>3, <1>6, <1>13, <1>14 DEF Fitting
  <2> QED BY <1>3, <1>6, <1>15, <2>1, CallsStay DEF Sane, Typed
<1>17. SnapshotsDue'
  <2> SUFFICES ASSUME NEW i \in Ids, OwesSnapshot(i)', snap'[i] = NoSnap
               PROVE  KeepDue(i)'
    BY <1>6 DEF SnapshotsDue
  <2>1. Live(i) /\ log'[i].op = log[i].op /\ log'[i].time = log[i].time
    BY <1>8, <1>9 DEF OwesSnapshot
  <2>2. OwesSnapshot(i)
    BY <2>1, <1>1, <1>10 DEF OwesSnapshot
  <2>3. KeepDue(i) /\ ~ Keeping(c, i)
    BY <2>2, <1>1 DEF Sane, SnapshotsDue, Keeping
  <2> QED BY <2>3, <1>15, StaysDue
<1>18. MarkedIsUndone'
  <2> SUFFICES ASSUME NEW i \in Ids, Live(i)', past'[i].could, ~ log'[i].can
               PROVE  past'[i].through
    BY <1>6 DEF MarkedIsUndone
  <2>1. CASE i = u
    BY <2>1, <1>4, <1>7
  <2>2. CASE i # u
    BY <2>2, <1>6, <1>8, <1>10 DEF Sane, MarkedIsUndone
  <2> QED BY <2>1, <2>2
<1>19. DocsTyped' /\ RowsKept
  <2>1. DocsTyped'
    BY <1>1 DEF Sane, Typed, DocsTyped, docs
  <2>2. RowsKept
    BY <1>8, <1>9, <1>10 DEF RowsKept, RowKept
  <2> QED BY <2>1, <2>2
<1>20. \A t, when : ~ DueAt(c, t, when)
  BY <1>1, LogsFirst DEF Sane, Logs
<1>21. Known'
  BY <1>1, <1>15, <1>19, <1>20, AccountsStay DEF Sane
<1> QED BY <1>11, <1>12, <1>16, <1>17, <1>18, <1>19, <1>21 DEF Sane, Typed

LEMMA RecordUndoKeeps ==
  ASSUME Sane, Known, NEW c \in Caller, Busy(c), RecordUndo(c)
  PROVE  Sane' /\ Known'
<1> DEFINE s == Todo(c).subject
<1>1. /\ Todo(c).do = "record" /\ docs' = docs /\ now' = now /\ history' = history
      /\ Entered([op |-> "undo", subject |-> s, from |-> NoCollection,
                  parent |-> 0, can |-> FALSE, time |-> now])
      /\ past' = Append(past, [first |-> call[c].was, clean |-> FALSE,
                               could |-> FALSE, through |-> FALSE])
      /\ Continues(c, Rest(c), 0, 0, call[c].was)
  BY DEF RecordUndo
<1>2. s \in Subject
  <2>1. Todo(c) \in RecordJob
    BY <1>1, TodoFacts, JobKinds DEF Sane, Typed
  <2> QED BY <2>1 DEF RecordJob
<1>3. now \in Nat /\ Len(log) \in Nat /\ call[c].was \in [Thing -> ViewSet]
  BY TablesFacts, CallFacts DEF Sane, Typed
<1> HIDE DEF s
<1>4. PICK row \in LogRow : /\ Entered(row) /\ row.op = "undo" /\ row.subject = s
                            /\ row.time = now /\ row.parent = 0
  <2>1. [op |-> "undo", subject |-> s, from |-> NoCollection,
         parent |-> 0, can |-> FALSE, time |-> now] \in LogRow
    BY <1>2, <1>3 DEF LogRow, Op
  <2> QED BY <1>1, <2>1
<1>5. PICK ghost \in Ghost : past' = Append(past, ghost) /\ ~ ghost.clean /\ ~ ghost.could
  <2> DEFINE was == call[c].was
  <2>1. was \in [Thing -> ViewSet]
    BY <1>3
  <2>2. past' = Append(past, [first |-> was, clean |-> FALSE, could |-> FALSE, through |-> FALSE])
    BY <1>1
  <2> HIDE DEF was
  <2>3. [first |-> was, clean |-> FALSE, could |-> FALSE, through |-> FALSE] \in Ghost
    BY <2>1 DEF Ghost
  <2> QED BY <2>2, <2>3
<1>6. Grows(row, ghost)
  BY <1>1, <1>4, <1>5 DEF Entered, Grows
<1>7. PICK id : id = Len(log) + 1
  OBVIOUS
<1>8. Does(c, Rest(c), 0, 0, call[c].was, call[c].undoing)
  BY <1>1, <1>3, TodoFacts, ContinuesDoes DEF Sane, Typed
<1>9. Fits(row.op, row.subject)
  BY <1>4 DEF Fits
<1>10. Sane'
  <2>1. 0 \in {0} \cup 1 .. Len(log) + 1
    OBVIOUS
  <2> QED BY <1>1, <1>4, <1>5, <1>6, <1>7, <1>8, <1>9, <2>1, GrownSane
<1>11. RowsKept
  BY <1>4, <1>6, <1>7, <1>9, Grown DEF Sane
<1>12. \A t, when : ~ DueAt(c, t, when)
  BY <1>1, LogsFirst DEF Sane, Logs
<1>13. Known'
  BY <1>1, <1>8, <1>11, <1>12, AccountsStay DEF Sane
<1> QED BY <1>10, <1>13

LEMMA TrimLogKeeps ==
  ASSUME Sane, Known, NEW c \in Caller, Busy(c), TrimLog(c)
  PROVE  Sane' /\ Known'
<1>1. /\ Todo(c).do = "trim" /\ docs' = docs /\ now' = now /\ history' = history
      /\ snap' = snap /\ past' = past
      /\ log' = IF Refused THEN log ELSE [i \in Ids |-> IF Old(i) THEN Gone ELSE log[i]]
      /\ Continues(c, Rest(c), 0, 0, call[c].was)
  BY DEF TrimLog
<1>2. /\ Len(log) \in Nat /\ Ids = 1 .. Len(log) /\ call[c].was \in [Thing -> ViewSet]
      /\ \A i \in Ids : log[i] \in RowSet
      /\ Len(past) = Len(log)
  BY TablesFacts, CallFacts DEF Sane, Typed, TablesTyped
<1>3. CASE Refused
  <2>1. log' = log /\ GhostsStay
    BY <1>1, <1>3, SameGhostsStay DEF Sane, Typed
  <2>2. Todo(c).do # "keep" /\ 0 \in {0} \cup Ids
    BY <1>1
  <2>3. Sane' /\ RowsKept /\ Does(c, Rest(c), 0, 0, call[c].was, call[c].undoing)
    BY <1>1, <2>1, <2>2, RestOnly
  <2>4. \A t, when : ~ DueAt(c, t, when)
    BY <1>1, LogsFirst DEF Sane, Logs
  <2> QED BY <1>1, <2>3, <2>4, AccountsStay DEF Sane
<1>4. CASE ~ Refused
  <2>1. log' = [i \in 1 .. Len(log) |-> IF Old(i) THEN Gone ELSE log[i]]
    BY <1>1, <1>2, <1>4
  <2>2. /\ log' \in Seq(RowSet) /\ Len(log') = Len(log) /\ Ids' = Ids
        /\ \A i \in Ids : log'[i] = IF Old(i) THEN Gone ELSE log[i]
    <3>1. log' \in [1 .. Len(log) -> RowSet]
      BY <1>2, <2>1 DEF RowSet
    <3>2. log' \in Seq(RowSet) /\ Len(log') = Len(log)
      BY <1>2, <3>1, FunIsSeq
    <3> QED BY <1>2, <2>1, <3>2 DEF Ids
  <2>3. \A i \in Ids : Live(i)' <=> Live(i) /\ ~ Old(i)
    BY <2>2 DEF Live
  <2>4. \A i \in Ids : Live(i)' => log'[i] = log[i]
    BY <2>2, <2>3
  <2>5. TablesTyped'
    BY <1>1, <2>2 DEF Sane, Typed, TablesTyped
  <2>6. RowsFit'
    <3> SUFFICES ASSUME NEW i \in Ids PROVE RowFits(i)' /\ SnapFits(i)'
      BY <2>2 DEF RowsFit
    <3>1. RowFits(i) /\ SnapFits(i)
      BY DEF Sane, Typed, RowsFit
    <3>2. ASSUME Live(i)', NEW p, p = log[i].parent, p # 0
          PROVE  Live(p)'
      <4>1. Live(i) /\ ~ Old(i)
        BY <3>2, <2>3
      <4>2. Live(p) /\ p \in Ids
        BY <3>1, <3>2, <4>1 DEF RowFits, Live
      <4>3. i \in Cascades(p)
        BY <3>2, <4>1 DEF Cascades
      <4>4. ~ Old(p)
        BY <1>4, <4>1, <4>2, <4>3 DEF Refused
      <4> QED BY <2>3, <4>2, <4>4
    <3>3. RowFits(i)'
      BY <3>1, <3>2, <2>3, <2>4, <1>1 DEF RowFits
    <3>4. snap[i] # NoSnap => ~ Old(i)
      BY <1>4 DEF Refused
    <3>5. SnapFits(i)'
      BY <3>1, <3>4, <2>3, <2>4, <1>1 DEF SnapFits
    <3> QED BY <3>3, <3>5
  <2>7. /\ Rest(c) \in Seq(JobSet) /\ Sound(Rest(c)) /\ Lone(Rest(c)) /\ PutsFrom(Rest(c), Len(log))
    BY TodoFacts DEF Sane, Typed, Lone
  <2>8. Does(c, Rest(c), 0, 0, call[c].was, call[c].undoing)
    BY <1>1, <1>2, <2>7, ContinuesDoes DEF Sane, Typed
  <2>9. CallsTyped' /\ JobsFit'
    <3>1. Fitting(Rest(c), 0, 0, call[c].undoing, Len(log'))
      BY <1>2, <2>2, <2>7 DEF Fitting, Sane, Typed, CallsTyped
    <3> QED BY <1>2, <2>2, <2>8, <3>1, CallsStay DEF Sane, Typed
  <2>10. SnapshotsDue'
    <3> SUFFICES ASSUME NEW i \in Ids, OwesSnapshot(i)', snap'[i] = NoSnap
                 PROVE  KeepDue(i)'
      BY <2>2 DEF SnapshotsDue
    <3>1. OwesSnapshot(i)
      BY <1>1, <2>3, <2>4 DEF OwesSnapshot
    <3>2. KeepDue(i) /\ ~ Keeping(c, i)
      BY <3>1, <1>1 DEF Sane, SnapshotsDue, Keeping
    <3> QED BY <3>2, <2>8, StaysDue
  <2>11. MarkedIsUndone'
    BY <1>1, <2>2, <2>3, <2>4 DEF Sane, MarkedIsUndone
  <2>12. DocsTyped' /\ RowsKept
    <3>1. DocsTyped'
      BY <1>1 DEF Sane, Typed, DocsTyped, docs
    <3>2. RowsKept
      BY <1>1, <2>3, <2>4 DEF RowsKept, RowKept
    <3> QED BY <3>1, <3>2
  <2>13. \A t, when : ~ DueAt(c, t, when)
    BY <1>1, LogsFirst DEF Sane, Logs
  <2>14. Known'
    BY <1>1, <2>8, <2>12, <2>13, AccountsStay DEF Sane
  <2> QED BY <2>5, <2>6, <2>9, <2>10, <2>11, <2>12, <2>14 DEF Sane, Typed
<1> QED BY <1>3, <1>4

LEMMA CleanupKeeps ==
  ASSUME Sane, Known, NEW c \in Caller, Cleanup(c)
  PROVE  Sane' /\ Known'
<1> DEFINE jobs == <<Trim>>
           was == Views(meta)
<1>1. /\ ~ Busy(c) /\ docs' = docs /\ log' = log /\ now' = now
      /\ snap' = [i \in Ids |-> IF OldSnapshot(i) THEN NoSnap ELSE snap[i]]
      /\ history' = [history EXCEPT !.commands = @ + 1, !.changed = Changed(meta')]
      /\ Begins(c, jobs, 0)
  BY DEF Cleanup, Starts, MayStart
<1>2. /\ Len(log) \in Nat /\ now \in Nat /\ Ids = 1 .. Len(log)
      /\ \A i \in Ids : snap[i] \in SnapSet
  BY TablesFacts DEF Sane, Typed
<1>3. jobs \in Seq(JobSet) /\ Sound(jobs) /\ Lone(jobs) /\ PutsFrom(jobs, Len(log))
  <2>1. Trim \in JobSet /\ Trim.do = "trim"
    BY OtherJobs DEF Trim
  <2>2. jobs \in Seq(JobSet) /\ Len(jobs) = 1 /\ jobs[1] = Trim
    BY <2>1
  <2>3. \A k \in 1 .. Len(jobs) : jobs[k] = Trim
    BY <2>2
  <2> HIDE DEF jobs
  <2> QED BY <2>1, <2>2, <2>3 DEF Sound, Lone, PutsFrom, NeedsKeep, Logs
<1> HIDE DEF jobs, was
<1>4. Does(c, jobs, 0, 0, was, 0)
  BY <1>1, <1>3, BeginsDoes DEF Sane, Typed, DocsTyped, was
<1>5. GhostsStay
  BY <1>1, SpoiledStay DEF Begins, Sane, Typed
<1>6. /\ snap' \in Seq(SnapSet) /\ Len(snap') = Len(log)
      /\ \A i \in Ids : snap'[i] = IF OldSnapshot(i) THEN NoSnap ELSE snap[i]
  <2>1. snap' \in [1 .. Len(log) -> SnapSet]
    BY <1>1, <1>2 DEF SnapSet
  <2> QED BY <1>1, <1>2, <2>1, FunIsSeq
<1>7. TablesTyped'
  BY <1>1, <1>5, <1>6 DEF Sane, Typed, TablesTyped, GhostsStay
<1>8. Ids' = Ids /\ \A i \in Ids : Live(i)' <=> Live(i)
  BY <1>1 DEF Ids, Live
<1>9. RowsFit'
  <2> SUFFICES ASSUME NEW i \in Ids PROVE RowFits(i)' /\ SnapFits(i)'
    BY <1>8 DEF RowsFit
  <2>1. RowFits(i) /\ SnapFits(i)
    BY DEF Sane, Typed, RowsFit
  <2>2. RowFits(i)'
    BY <2>1, <1>1 DEF RowFits, Live, Ids
  <2>3. SnapFits(i)'
    BY <2>1, <1>1, <1>6, <1>8 DEF SnapFits
  <2> QED BY <2>2, <2>3
<1>10. DocsTyped'
  BY <1>1 DEF Sane, Typed, DocsTyped, docs
<1>11. CallsTyped' /\ JobsFit'
  <2>1. Fitting(jobs, 0, 0, 0, Len(log'))
    BY <1>1, <1>2, <1>3 DEF Fitting
  <2> QED BY <1>1, <1>2, <1>4, <2>1, CallsStay DEF Sane, Typed
<1>12. \A i \in Ids : past'[i].could = past[i].could /\ (past'[i].clean => past[i].clean)
                      /\ (past[i].through => past'[i].through)
  <2>1. \A i \in Ids : i \in 1 .. Len(past)
    BY DEF Sane, Typed, TablesTyped, Ids
  <2> QED BY <2>1, <1>5 DEF GhostsStay, GhostKept
<1>13. SnapshotsDue'
  <2> SUFFICES ASSUME NEW i \in Ids, OwesSnapshot(i)', snap'[i] = NoSnap
               PROVE  KeepDue(i)'
    BY <1>8 DEF SnapshotsDue
  <2>1. OwesSnapshot(i)
    BY <1>1, <1>8, <1>12 DEF OwesSnapshot
  <2>2. ~ OldSnapshot(i)
    <3>1. SUFFICES ASSUME snap[i] # NoSnap PROVE ~ (snap[i].time + Retention < now)
      BY DEF OldSnapshot
    <3>2. log[i].time <= snap[i].time /\ Live(i)
      BY <3>1 DEF Sane, Typed, RowsFit, SnapFits
    <3>3. snap[i].time \in Nat /\ log[i].time \in Nat
      BY <3>1, <3>2, TablesFacts DEF Sane, Typed, Snapshot, LogRow
    <3>4. log[i].time + Retention >= now
      BY <2>1 DEF OwesSnapshot
    <3> QED BY <3>2, <3>3, <3>4, <1>2, HistoryAssumption
  <2>3. KeepDue(i)
    BY <2>1, <2>2, <1>6 DEF Sane, SnapshotsDue
  <2>4. ~ Keeping(c, i)
    BY <1>1 DEF Keeping
  <2> QED BY <2>3, <2>4, <1>4, StaysDue
<1>14. MarkedIsUndone'
  BY <1>1, <1>8, <1>12 DEF Sane, MarkedIsUndone
<1>15. Covers(c)
  <2>1. meta' = meta
    BY <1>1 DEF docs
  <2> QED BY <1>1, <1>4, <2>1, CoversChanges DEF Sane, Known
<1>16. Known'
  BY <1>1, <1>4, <1>5, <1>15, LogStaysKnown
<1> QED BY <1>7, <1>9, <1>10, <1>11, <1>13, <1>14, <1>16 DEF Sane, Typed

\* After an error or a crash nothing is said of the changes.
LEMMA LapsedKnown ==
  ASSUME Typed, Known, Lapsed, now' = now
  PROVE  Known'
<1>1. history \in HistorySet
  BY DEF Known, HistoryTyped
<1>2. history' \in HistorySet /\ history'.lapse /\ history'.changed = history.changed
  BY <1>1 DEF Lapsed, HistorySet
<1> QED BY <1>2 DEF Known, HistoryTyped, ChangesLogged

LEMMA FailsKeeps ==
  ASSUME Sane, Known, NEW c \in Caller, Busy(c), Fails(c)
  PROVE  Sane' /\ Known'
<1> DEFINE j == Todo(c)
           was == call[c].was
<1>1. /\ past' = Spoiled(Roots({c})) /\ Lapsed /\ docs' = docs /\ log' = log /\ snap' = snap
      /\ now' = now
  BY DEF Fails, Tables
<1>2. PICK jobs \in Seq(JobSet), root \in Nat :
        /\ Continues(c, jobs, root, 0, was)
        /\ Sound(jobs) /\ Lone(jobs) /\ PutsFrom(jobs, Len(log))
        /\ root \in {0} \cup Ids
  <2>1. CASE j.do \in {"note", "join", "keep"}
    <3> DEFINE root == IF j.do = "keep" \/ (j.do = "note" /\ j.child) THEN call[c].root ELSE 0
    <3>1. Continues(c, Rest(c), root, 0, was)
      BY <2>1 DEF Fails
    <3>2. root \in Nat /\ root \in {0} \cup Ids
      BY CallFacts DEF Sane, Typed, CallsTyped
    <3> HIDE DEF root
    <3> QED BY <3>1, <3>2, TodoFacts DEF Sane, Typed, Lone
  <2>2. CASE ~ j.do \in {"note", "join", "keep"}
    <3>1. Continues(c, <<>>, 0, 0, was)
      BY <2>2 DEF Fails
    <3>2. <<>> \in Seq(JobSet) /\ Sound(<<>>) /\ Lone(<<>>) /\ PutsFrom(<<>>, Len(log))
      BY DEF Sound, Lone, Calm, PutsFrom
    <3> QED BY <3>1, <3>2
  <2> QED BY <2>1, <2>2
<1>3. Does(c, jobs, root, 0, was, call[c].undoing)
  BY <1>2, CallFacts, ContinuesDoes DEF Sane, Typed
<1>4. GhostsStay /\ \A i \in Ids \cap Roots({c}) : ~ past'[i].clean
  BY <1>1, SpoiledStay DEF Sane, Typed
<1>5. \A i \in Ids : Keeping(c, i) => ~ past'[i].clean
  BY <1>4 DEF Keeping, Roots
<1>6. DocsTyped'
  BY <1>1 DEF Sane, Typed, DocsTyped, docs
<1>7. Fitting(jobs, root, 0, call[c].undoing, Len(log))
  BY <1>2 DEF Fitting, Sane, Typed, CallsTyped, Ids
<1>8. OnlyCalls(c, jobs, root, 0, was, call[c].undoing)
  BY <1>1, <1>3, <1>4, <1>5, <1>6, <1>7 DEF OnlyCalls, TablesStay
<1>9. Sane'
  BY <1>8, OnlyCallsSane
<1> QED BY <1>1, <1>9, LapsedKnown DEF Sane

LEMMA CrashKeeps ==
  ASSUME Sane, Known, Crash
  PROVE  Sane' /\ Known'
<1>1. /\ call' = [c \in Caller |-> Idle] /\ past' = Spoiled(Roots(Caller)) /\ Lapsed
      /\ docs' = docs /\ log' = log /\ snap' = snap /\ now' = now
  BY DEF Crash, Tables
<1>2. GhostsStay /\ \A i \in Ids \cap Roots(Caller) : ~ past'[i].clean
  BY <1>1, SpoiledStay DEF Sane, Typed
<1>3. TablesTyped' /\ RowsFit' /\ MarkedIsUndone'
  BY <1>1, <1>2, TablesStayTyped, TablesStayMarked DEF Sane, Typed, TablesStay
<1>4. CallsTyped'
  <2>1. call' \in [Caller -> CallRec]
    BY <1>1, IdleType
  <2>2. \A c \in Caller : call'[c].root = 0 /\ call'[c].last = 0 /\ call'[c].undoing = 0
    BY <1>1, IdleType
  <2> QED BY <2>1, <2>2 DEF CallsTyped
<1>5. JobsFit'
  <2>1. \A c \in Caller : call'[c].jobs = <<>>
    BY <1>1, IdleType
  <2>2. \A n : Sound(<<>>) /\ Lone(<<>>) /\ PutsFrom(<<>>, n)
    BY DEF Sound, Lone, Calm, PutsFrom
  <2> QED BY <2>1, <2>2 DEF JobsFit
<1>6. DocsTyped'
  BY <1>1 DEF Sane, Typed, DocsTyped, docs
<1>7. SnapshotsDue'
  <2> SUFFICES ASSUME NEW i \in Ids', OwesSnapshot(i)', snap'[i] = NoSnap
               PROVE  FALSE
    BY DEF SnapshotsDue
  <2>1. i \in Ids /\ i \in 1 .. Len(past)
    BY <1>1 DEF Ids, Sane, Typed, TablesTyped
  <2>2. past'[i].clean
    BY DEF OwesSnapshot
  <2>3. OwesSnapshot(i)
    <3>1. past[i].clean
      BY <1>2, <2>1, <2>2 DEF GhostsStay, GhostKept
    <3> QED BY <1>1, <3>1 DEF OwesSnapshot, Live, Ids
  <2>4. KeepDue(i)
    BY <1>1, <2>1, <2>3 DEF Sane, SnapshotsDue
  <2>5. i \in Roots(Caller)
    BY <2>4 DEF KeepDue, Roots
  <2> QED BY <1>2, <2>1, <2>2, <2>5
<1>8. Known'
  BY <1>1, LapsedKnown DEF Sane
<1> QED BY <1>3, <1>4, <1>5, <1>6, <1>7, <1>8 DEF Sane, Typed

----------------------------------------------------------------------------
(* Theorems                                                                *)

LEMMA InitSane ==
  ASSUME Init
  PROVE  Sane /\ Known
<1>1. PICK there \in Seeds, known \in SUBSET Collection :
        /\ state = [d \in T!AnyCollection |-> IF d \in known \cup {Drafts} THEN "active" ELSE "absent"]
        /\ meta = [d \in T!AnyCollection |-> [t \in Thing |->
             IF d = Drafts /\ t \in there
               THEN [there |-> "live", from |-> NoCollection, entries |-> Entry,
                     parent |-> IF \E p \in Parents[t] : p \in there
                                  THEN CHOOSE p \in Parents[t] : p \in there
                                  ELSE NoThing]
               ELSE T!Blank]]
  BY DEF Init
<1>2. /\ log = <<>> /\ snap = <<>> /\ past = <<>> /\ now = 0
      /\ call = [d \in Caller |-> Idle]
      /\ history = [commands |-> 0, lapse |-> FALSE, changed |-> [t \in Thing |-> MaxNow + 1]]
  BY DEF Init
<1>3. DocsTyped
  <2>1. state \in DocStates
    BY <1>1 DEF DocStates
  <2>2. ASSUME NEW t \in Thing
        PROVE  LET p == IF \E x \in Parents[t] : x \in there
                          THEN CHOOSE x \in Parents[t] : x \in there ELSE NoThing
               IN p \in Thing \cup {NoThing}
    <3>1. there \subseteq Thing
      BY HistoryAssumption
    <3> QED BY <3>1
  <2>3. T!Blank \in T!Meta
    BY DEF T!Blank, T!Meta
  <2>4. ASSUME NEW p \in Thing \cup {NoThing}
        PROVE  [there |-> "live", from |-> NoCollection, entries |-> Entry, parent |-> p] \in T!Meta
    BY <2>4 DEF T!Meta
  <2>5. meta \in Documents
    BY <1>1, <2>2, <2>3, <2>4 DEF Documents
  <2> QED BY <2>1, <2>5 DEF DocsTyped
<1>4. Ids = {} /\ Len(log) = 0
  BY <1>2 DEF Ids
<1>5. TablesTyped
  <2>1. \A S : <<>> \in Seq(S)
    OBVIOUS
  <2>2. 0 \in 0 .. MaxNow
    BY HistoryAssumption
  <2> QED BY <1>2, <2>1, <2>2 DEF TablesTyped
<1>6. RowsFit /\ SnapshotsDue /\ MarkedIsUndone
  BY <1>4 DEF RowsFit, SnapshotsDue, MarkedIsUndone
<1>7. CallsTyped
  <2>1. call \in [Caller -> CallRec]
    BY <1>2, IdleType
  <2>2. \A c \in Caller : call[c].root = 0 /\ call[c].last = 0 /\ call[c].undoing = 0
    BY <1>2, IdleType
  <2> QED BY <2>1, <2>2 DEF CallsTyped
<1>8. JobsFit
  <2>1. \A c \in Caller : call[c].jobs = <<>>
    BY <1>2, IdleType
  <2>2. \A n : Sound(<<>>) /\ Lone(<<>>) /\ PutsFrom(<<>>, n)
    BY DEF Sound, Lone, Calm, PutsFrom
  <2> QED BY <2>1, <2>2 DEF JobsFit
<1>9. Known
  <2> DEFINE ch == [t \in Thing |-> MaxNow + 1]
  <2>1. ch \in [Thing -> Nat] /\ \A t \in Thing : ch[t] = MaxNow + 1 /\ ch[t] \notin 0 .. MaxNow
    BY HistoryAssumption
  <2> HIDE DEF ch
  <2>2. history = [commands |-> 0, lapse |-> FALSE, changed |-> ch]
    BY <1>2 DEF ch
  <2>3. history \in HistorySet /\ history.changed = ch
    BY <2>1, <2>2 DEF HistorySet
  <2> QED BY <2>1, <2>3 DEF Known, HistoryTyped, ChangesLogged, Recalled
<1> QED BY <1>3, <1>5, <1>6, <1>7, <1>8, <1>9 DEF Sane, Typed

LEMMA NextKeeps ==
  ASSUME Sane, Known, [Next]_vars
  PROVE  Sane' /\ Known'
<1>1. ASSUME NEW c \in Caller, Command(c)
      PROVE  Sane' /\ Known'
  <2>1. ASSUME NEW t \in Thing, NEW d \in Places, NEW entries \in SUBSET Entry,
               NEW p \in Parents[t], Edit(c, t, d, p, entries)
        PROVE  Sane' /\ Known'
    BY <2>1, EditKeeps
  <2>2. ASSUME NEW t \in Thing, NEW d \in Places, Move(c, t, d)
        PROVE  Sane' /\ Known'
    BY <2>2, MoveKeeps
  <2>3. ASSUME NEW t \in Thing, Rename(c, t) \/ Delete(c, t) \/ Restore(c, t)
        PROVE  Sane' /\ Known'
    BY <2>3, RenameKeeps, DeleteKeeps, RestoreKeeps
  <2>4. ASSUME NEW t \in Thing, NEW can \in BOOLEAN, SetStatus(c, t, can)
        PROVE  Sane' /\ Known'
    BY <2>4, SetStatusKeeps
  <2>5. ASSUME NEW d \in Collection, UpsertCollection(c, d) \/ DeleteCollection(c, d)
        PROVE  Sane' /\ Known'
    BY <2>5, CollectionKeeps
  <2>6. ASSUME NEW i \in Ids, NEW resolved \in BOOLEAN, Undo(c, i, resolved)
        PROVE  Sane' /\ Known'
    BY <2>6, UndoKeeps
  <2>7. CASE Cleanup(c)
    BY <2>7, CleanupKeeps
  <2> QED BY <1>1, <2>1, <2>2, <2>3, <2>4, <2>5, <2>6, <2>7 DEF Command
<1>2. ASSUME NEW c \in Caller, Job(c)
      PROVE  Sane' /\ Known'
  <2>1. Busy(c)
    BY <1>2 DEF Job
  <2>2. CASE WriteNote(c)
    BY <2>1, <2>2, WriteNoteKeeps
  <2>3. CASE JoinRecent(c)
    BY <2>1, <2>3, JoinRecentKeeps
  <2>4. CASE KeepSnapshot(c)
    BY <2>1, <2>4, KeepSnapshotKeeps
  <2>5. CASE PutSnapshot(c)
    BY <2>1, <2>5, PutSnapshotKeeps
  <2>6. CASE PutThingBack(c)
    BY <2>1, <2>6, PutThingBackKeeps
  <2>7. CASE Retitles(c)
    BY <2>1, <2>7, RetitlesKeeps
  <2>8. CASE EndsWithError(c)
    BY <2>1, <2>8, EndsWithErrorKeeps
  <2>9. CASE DeletesCreated(c)
    BY <2>1, <2>9, DeletesCreatedKeeps
  <2>10. CASE ArchivesCreated(c)
    BY <2>1, <2>10, ArchivesCreatedKeeps
  <2>11. CASE ReopensDeleted(c)
    BY <2>1, <2>11, ReopensDeletedKeeps
  <2>12. CASE MarkUndone(c)
    BY <2>1, <2>12, MarkUndoneKeeps
  <2>13. CASE RecordUndo(c)
    BY <2>1, <2>13, RecordUndoKeeps
  <2>14. CASE TrimLog(c)
    BY <2>1, <2>14, TrimLogKeeps
  <2>15. CASE Fails(c)
    BY <2>1, <2>15, FailsKeeps
  <2> QED BY <1>2, <2>2, <2>3, <2>4, <2>5, <2>6, <2>7, <2>8, <2>9, <2>10, <2>11, <2>12,
             <2>13, <2>14, <2>15 DEF Job
<1>3. ASSUME NEW t \in Thing, NEW d \in Places, NEW entries \in SUBSET Entry, Remote(t, d, entries)
      PROVE  Sane' /\ Known'
  BY <1>3, RemoteKeeps
<1>4. CASE Crash
  BY <1>4, CrashKeeps
<1>5. CASE Tick
  BY <1>5, TickKeeps
<1>6. CASE UNCHANGED vars
  <2>1. /\ docs' = docs /\ log' = log /\ snap' = snap /\ now' = now /\ call' = call
        /\ past' = past /\ history' = history
    BY <1>6 DEF vars, docs
  <2>2. Typed'
    BY <2>1 DEF Sane, Typed, DocsTyped, docs, TablesTyped, RowsFit, RowFits, SnapFits, Live, Ids,
                CallsTyped, JobsFit
  <2>3. SnapshotsDue' /\ MarkedIsUndone'
    BY <2>1 DEF Sane, SnapshotsDue, OwesSnapshot, KeepDue, Busy, Todo, MarkedIsUndone, Live, Ids
  <2>4. HistoryTyped'
    BY <2>1 DEF Known, HistoryTyped
  <2>5. ChangesLogged'
    BY <2>1 DEF Known, ChangesLogged, Recalled, Accounted, InLog, Tells, DueAt, Live, Ids
  <2> QED BY <2>2, <2>3, <2>4, <2>5 DEF Sane, Known
<1> QED BY <1>1, <1>2, <1>3, <1>4, <1>5, <1>6 DEF Next

\* The inductive invariant: a caller that stops between two statements has told,
\* by the jobs it has left, all that the log and the snapshots lack.
THEOREM HistoryInvariant == Spec => [](Sane /\ Known)
<1>1. Init => Sane /\ Known
  BY InitSane
<1>2. (Sane /\ Known) /\ [Next]_vars => (Sane /\ Known)'
  BY NextKeeps
<1> QED BY <1>1, <1>2, PTL DEF Spec

\* The tables, the jobs and the documents are well formed, and the foreign keys
\* hold: an entry of a cascade refers to one that is there, a snapshot to its
\* entry, whatever clean-up, crash or late statement came between.
THEOREM HistoryTypes == Spec => []TypeOK
<1>1. Sane => TypeOK
  <2> SUFFICES ASSUME Sane PROVE TypeOK
    OBVIOUS
  <2>1. /\ state \in [T!AnyCollection -> {"absent", "active", "archived"}]
        /\ meta \in [T!AnyCollection -> [Thing -> T!Meta]]
    BY DEF Sane, Typed, DocsTyped, DocStates, Documents
  <2>2. \A i \in Ids : log[i] \in LogRow \cup {Gone}
    BY TablesFacts DEF Sane, Typed, RowSet
  <2>3. \A i \in Ids : Live(i) => log[i].parent < i /\ log[i].time <= now
    BY DEF Sane, Typed, RowsFit, RowFits
  <2>4. DOMAIN snap = Ids
    BY DEF Sane, Typed, TablesTyped, Ids
  <2>5. \A i \in Ids : Live(i) => log[i].parent = 0 \/ Live(log[i].parent)
    BY DEF Sane, Typed, RowsFit, RowFits
  <2>6. \A i \in Ids : snap[i] # NoSnap =>
          Live(i) /\ snap[i].view \in ViewSet /\ snap[i].time <= now
    BY TablesFacts DEF Sane, Typed, RowsFit, SnapFits, Snapshot
  <2>7. \A c \in Caller : {call[c].root, call[c].last, call[c].undoing} \subseteq {0} \cup Ids
    BY DEF Sane, Typed, CallsTyped
  <2>8. now \in 0 .. MaxNow
    BY DEF Sane, Typed, TablesTyped
  <2> QED BY <2>1, <2>2, <2>3, <2>4, <2>5, <2>6, <2>7, <2>8 DEF TypeOK
<1> QED BY <1>1, HistoryInvariant, PTL

\* An entry that can no longer be undone has been undone to the end: no crash,
\* error or second undo marks one whose commands have not all run.
THEOREM UndoneToTheEnd == Spec => []MarkedIsUndone
<1>1. Sane => MarkedIsUndone
  BY DEF Sane
<1> QED BY <1>1, HistoryInvariant, PTL

\* An entry of an update or a deletion keeps the snapshot it needs to be undone
\* as long as it is kept itself, however clean-ups and joined edits interleave
\* with the statements that write the two.
THEOREM SnapshotsOutlive == Spec => []YoungKeepSnapshots
<1>1. Sane => YoungKeepSnapshots
  <2> SUFFICES ASSUME Sane, NEW i \in Ids,
                      Live(i), past[i].clean, log[i].op \in {"update_thing", "delete_thing"},
                      \A c \in Caller : i \notin {call[c].root, call[c].last},
                      log[i].time + Retention >= now
               PROVE  snap[i] # NoSnap
    BY DEF YoungKeepSnapshots
  <2>1. OwesSnapshot(i)
    BY DEF OwesSnapshot
  <2>2. ~ KeepDue(i)
    BY DEF KeepDue
  <2> QED BY <2>1, <2>2 DEF Sane, SnapshotsDue
<1> QED BY <1>1, HistoryInvariant, PTL

\* When no command is under way, and nothing failed or crashed, the log tells of
\* the last change that a command made to each thing: by an entry of its own, one
\* of a cascade, one within the window that it joined, or the restore of a thing
\* it was below.
THEOREM ChangesAreLogged == Spec => []EveryChangeLogged
<1>1. Sane /\ Known => EveryChangeLogged
  <2> SUFFICES ASSUME Sane, Known, Quiet, ~ history.lapse, NEW t \in Thing,
                      history.changed[t] \in 0 .. MaxNow,
                      history.changed[t] + Retention >= now + Window
               PROVE  \E i \in Ids :
                        /\ Live(i)
                        /\ \/ log[i].subject = t
                           \/ /\ log[i].op = "move_thing" /\ log[i].from = NoCollection
                              /\ t \in BelowIn(past[i].first, log[i].subject)
                        /\ log[i].time + Window >= history.changed[t]
    BY DEF EveryChangeLogged
  <2>1. Accounted(t, history.changed[t])
    BY DEF Known, ChangesLogged, Recalled
  <2>2. \A c \in Caller : ~ DueAt(c, t, history.changed[t])
    BY LogsFirst DEF Sane, Quiet
  <2>3. PICK i \in Ids : InLog(i, t, history.changed[t])
    BY <2>1, <2>2 DEF Accounted
  <2> QED BY <2>3 DEF InLog, Tells
<1> QED BY <1>1, HistoryInvariant, PTL

----------------------------------------------------------------------------
(* What an undo brings back                                                *)

BelowOnly(views, t) == BelowIn(views, t) \ {t}

\* The entry of t is to be written as part of a cascade, by the jobs from n on.
Pending(jobs, n, t) ==
  \E m \in n .. Len(jobs) : /\ jobs[m].do = "note" /\ jobs[m].child /\ jobs[m].subject = t
                            /\ \A x \in n .. m : Follows(jobs[x])

\* An entry of its own is written first; a snapshot is that of the entry
\* written just before.
Paired(jobs) ==
  \A m \in 1 .. Len(jobs) :
    /\ Own(jobs[m]) => m = 1
    /\ m >= 2 /\ jobs[m].do = "keep" =>
         NeedsKeep(jobs[m - 1]) /\ jobs[m - 1].subject = jobs[m].thing

\* A job writes down what was before the change that it is to log.
JobTold(j, was) ==
  /\ j.do = "keep" => j.view = was[j.thing] /\ j.view.home \in T!AnyCollection
  /\ j.do = "note" => j.op # "undo" /\ (j.child => ~ j.can /\ j.op = "delete_thing")

\* So does the first, which opens an entry of its own; behind that of a deletion
\* come those of all that is below.
HeadTold(jobs, was, st) ==
  Len(jobs) >= 1 /\ Own(jobs[1]) =>
    LET j == jobs[1]
    IN /\ j.op = "move_thing" /\ j.from # NoCollection => j.from = was[j.subject].home
       /\ j.op = "delete_thing" => \A t \in BelowOnly(was, j.subject) : Pending(jobs, 2, t)
       /\ j.op = "create_collection" => st[j.subject] # "absent"

Told(jobs, was, st) == HeadTold(jobs, was, st) /\ \A m \in 1 .. Len(jobs) : JobTold(jobs[m], was)

\* A job of an undo of entry i of the log l.
OfUndo(j, i, l) ==
  /\ j.do = "put" => \/ /\ j.of = i /\ j.child = (l[i].parent # 0)
                        /\ l[i].op \notin {"create_thing", "move_thing", "create_collection",
                                           "delete_collection"}
                     \/ l[i].op = "delete_thing" /\ l[j.of] # Gone /\ l[j.of].parent = i
  /\ j.do = "put back" => /\ l[i].op = "move_thing" /\ j.subject = l[i].subject
                          /\ j.from = l[i].from
  /\ j.do = "bin" => l[i].op = "create_thing" /\ j.subject = l[i].subject
  /\ j.do = "shelve" => l[i].op = "create_collection" /\ j.subject = l[i].subject
  /\ j.do = "reopen" => l[i].op = "delete_collection" /\ j.subject = l[i].subject
  /\ j.do \notin {"trim", "retitle"}

\* The entry itself is put back first, and the mark comes last but for the record.
ForUndo(jobs, i, l) ==
  \A m \in 1 .. Len(jobs) :
    /\ OfUndo(jobs[m], i, l)
    /\ jobs[m].do = "put" /\ jobs[m].of = i => \A x \in 1 .. m - 1 : jobs[x].do # "put"
    /\ jobs[m].do = "mark" => \A x \in m + 1 .. Len(jobs) : jobs[x].do = "record"

\* The snapshot that a caller is about to write belongs to the entry it wrote last.
KeepTold(c) ==
  Busy(c) /\ Todo(c).do = "keep" /\ Live(call[c].last) =>
    LET i == call[c].last
    IN /\ log[i].op \in {"update_thing", "move_thing", "delete_thing"}
       /\ Todo(c).thing = log[i].subject
       /\ past[i].clean /\ snap[i] = NoSnap => call[c].was = past[i].first
       /\ log[i].parent # 0 => log[i].parent = call[c].root
       /\ log[i].op = "delete_thing" /\ log[i].parent = 0 =>
            /\ call[c].root = i
            /\ \A t \in BelowOnly(past[i].first, log[i].subject) : Pending(call[c].jobs, 1, t)

\* A deletion whose cascade is being written saw what its caller saw, and is
\* younger than the entry the caller may be undoing.
RootTold(c) ==
  Busy(c) /\ Live(call[c].root) /\ log[call[c].root].op = "delete_thing" =>
    /\ Follows(Todo(c)) => call[c].was = past[call[c].root].first
    /\ call[c].root > call[c].undoing

UndoTold(c) ==
  /\ ~ Busy(c) => call[c].undoing = 0 /\ call[c].root = 0
  /\ Busy(c) /\ Todo(c).do = "retitle" => call[c].undoing = 0
  /\ call[c].undoing # 0 /\ Live(call[c].undoing) => ForUndo(call[c].jobs, call[c].undoing, log)

CallerTold(c) ==
  /\ Paired(call[c].jobs) /\ Told(call[c].jobs, call[c].was, state)
  /\ UndoTold(c) /\ KeepTold(c) /\ RootTold(c)

\* What a row and its snapshot say of the change they stand for.
RowTold(i) ==
  Live(i) =>
    /\ log[i].op = "undo" => ~ past[i].clean /\ ~ log[i].can
    /\ log[i].parent # 0 => /\ ~ log[i].can /\ log[i].op = "delete_thing"
                            /\ log[log[i].parent].time <= log[i].time
    /\ past[i].clean /\ log[i].op = "move_thing" /\ log[i].from # NoCollection =>
         log[i].from = past[i].first[log[i].subject].home
    /\ log[i].op = "create_collection" => state[log[i].subject] # "absent"

SnapTold(i) ==
  snap[i] # NoSnap =>
    /\ log[i].op \in {"update_thing", "move_thing", "delete_thing"}
    /\ snap[i].thing = log[i].subject
    /\ snap[i].view.home \in T!AnyCollection
    /\ past[i].clean => snap[i].view = past[i].first[snap[i].thing]
    /\ log[i].parent # 0 /\ log[log[i].parent].op = "delete_thing" =>
         snap[i].view = past[log[i].parent].first[snap[i].thing]

\* Of a deletion, each thing below has its entry, with a snapshot that is no
\* older than that of the root, or who deleted is about to write it.
ToWrite(i, t) == \E d \in Caller : Busy(d) /\ call[d].root = i /\ Pending(call[d].jobs, 1, t)

Written(i, t) ==
  \E j \in Cascades(i) :
    /\ log[j].subject = t
    /\ snap[i] # NoSnap => IF snap[j] = NoSnap THEN KeepDue(j) ELSE snap[i].time <= snap[j].time

Family(i) ==
  Live(i) /\ past[i].clean /\ log[i].op = "delete_thing" /\ log[i].parent = 0 =>
    \A t \in BelowOnly(past[i].first, log[i].subject) : ToWrite(i, t) \/ Written(i, t)

\* Beside an undo that is alone there are only undos of the same entry, and
\* renames that have yet to begin.
AloneTold(c) ==
  Busy(c) /\ call[c].alone /\ call[c].undoing # 0 =>
    \A d \in Caller : Busy(d) => Todo(d).do = "retitle" \/ call[d].undoing = call[c].undoing

PutDue(jobs, i) == \E m \in 1 .. Len(jobs) : jobs[m].do = "put" /\ jobs[m].of = i
KindDue(jobs, kind) == \E m \in 1 .. Len(jobs) : jobs[m].do = kind

\* The thing t is to be put back with the deletion i that it fell to.
PutAwaited(jobs, i, t) ==
  \E j \in Cascades(i) : /\ log[j].subject = t /\ PutDue(jobs, j)
                         /\ snap[i] # NoSnap => snap[j] # NoSnap

\* What an undo of i brings back is there, or is still among its jobs.
Reached(jobs, i) ==
  LET s == log[i].subject
      first == past[i].first
  IN /\ log[i].op = "create_thing" => KindDue(jobs, "bin") \/ T!Home(meta, s) = Trash
     /\ log[i].op = "move_thing" => KindDue(jobs, "put back") \/ T!Home(meta, s) = first[s].home
     /\ log[i].op = "create_collection" => KindDue(jobs, "shelve") \/ state[s] = "archived"
     /\ log[i].op = "delete_collection" => KindDue(jobs, "reopen") \/ state[s] = "active"
     /\ log[i].op = "update_collection" => PutDue(jobs, i)
     /\ log[i].op = "update_thing" => PutDue(jobs, i) \/ Back(first[s], s)
     /\ log[i].op = "delete_thing" =>
          /\ PutDue(jobs, i) \/ (snap[i] # NoSnap /\ Back(first[s], s))
          /\ \A t \in BelowOnly(first, s) : PutAwaited(jobs, i, t) \/ Back(first[t], t)

\* Alone(c): the undo of c is one that UndoTakesBack speaks of.
Alone(c) == /\ Busy(c) /\ call[c].alone /\ call[c].undoing # 0
            /\ past[call[c].undoing].clean

Progress(c) ==
  Alone(c) =>
    LET i == call[c].undoing
    IN /\ Live(i) /\ log[i].parent = 0 /\ log[i].op # "undo"
       /\ KindDue(call[c].jobs, "mark") => Reached(call[c].jobs, i)

OneHome == T!OneHome

Faithful ==
  /\ OneHome
  /\ \A c \in Caller : CallerTold(c) /\ AloneTold(c) /\ Progress(c)
  /\ \A i \in Ids : RowTold(i) /\ SnapTold(i) /\ Family(i)

LiveOnce(m, x) ==
  \A c, d \in T!AnyCollection : T!IsLive(m, c, x) /\ T!IsLive(m, d, x) => c = d

LEMMA HomeOf ==
  ASSUME NEW m, NEW x, NEW c \in T!AnyCollection, LiveOnce(m, x), T!IsLive(m, c, x)
  PROVE  T!Home(m, x) = c
BY DEF T!Home, LiveOnce

LEMMA SameOnce ==
  ASSUME NEW m, NEW n, NEW x, SameEntries(m, n, x), LiveOnce(m, x)
  PROVE  LiveOnce(n, x)
BY DEF SameEntries, LiveOnce, T!IsLive

\* A thing that is placed is live there, and nowhere else.
LEMMA PlacedOnce ==
  ASSUME NEW m \in Documents, NEW t \in Thing, NEW c \in T!AnyCollection, NEW p, NEW more,
         LiveOnce(m, t), NEW n, n = T!Placed(m, t, c, p, more)
  PROVE  /\ n[c][t].there = "live"
         /\ \A d \in T!AnyCollection \ {c} : n[d][t].there # "live"
<1>1. \A d \in T!AnyCollection : m[d] \in [Thing -> T!Meta] /\ m[d][t] \in T!Meta
  BY DEF Documents
<1>2. n[c][t].there = "live"
  <2>1. n[c][t] = [T!Upserted(m[c][t], p) EXCEPT !.entries = @ \cup more]
    BY <1>1 DEF T!Placed
  <2> QED BY <2>1 DEF T!Upserted
<1>3. ASSUME NEW d \in T!AnyCollection \ {c}
      PROVE  n[d][t].there # "live"
  <2>1. CASE d = T!Home(m, t)
    <3>1. n[d][t] = T!Tombstoned(m[d][t])
      BY <1>1, <2>1 DEF T!Placed
    <3> QED BY <1>1, <3>1 DEF T!Tombstoned, T!Meta
  <2>2. CASE d # T!Home(m, t)
    <3>1. n[d][t] = m[d][t]
      BY <1>1, <2>2 DEF T!Placed
    <3> QED BY <2>2, <3>1, HomeOf DEF T!IsLive
  <2> QED BY <2>1, <2>2
<1> QED BY <1>2, <1>3

\* What an upsert makes of its thing, and that it lets the others be.
LEMMA UpsertedOnce ==
  ASSUME meta \in Documents, NEW t \in Thing, NEW c \in T!AnyCollection,
         NEW p \in Thing \cup {Keep, Clear}, NEW listed \in BOOLEAN,
         NEW entries \in SUBSET Entry, LiveOnce(meta, t),
         NEW n, n = Upserted(t, c, p, listed, entries)
  PROVE  /\ LiveOnce(n, t)
         /\ T!Home(n, t) = c
         /\ listed => View(n, t).entries = entries
<1> DEFINE m == T!Placed(meta, t, c, p, {})
           l == [m EXCEPT ![c][t].entries = entries]
<1>1. m \in Documents
  BY PlacedType
<1>2. /\ m[c][t].there = "live"
      /\ \A d \in T!AnyCollection \ {c} : m[d][t].there # "live"
  BY PlacedOnce
<1>3. n = IF listed THEN l ELSE m
  BY DEF Upserted
<1> HIDE DEF m
<1>4. \A d \in T!AnyCollection \ {c} : l[d][t] = m[d][t]
  BY <1>1 DEF Documents
<1>5. l[c][t].there = "live" /\ l[c][t].entries = entries
  <2> DEFINE e == m[c][t]
  <2>1. e \in T!Meta /\ m[c] \in [Thing -> T!Meta]
    BY <1>1 DEF Documents
  <2>2. l[c] = [m[c] EXCEPT ![t] = [m[c][t] EXCEPT !.entries = entries]]
    BY <1>1 DEF Documents
  <2>3. l[c][t] = [e EXCEPT !.entries = entries]
    BY <2>1, <2>2
  <2> HIDE DEF e, l
  <2>4. l[c][t].there = e.there /\ l[c][t].entries = entries
    BY <2>1, <2>3 DEF T!Meta
  <2> QED BY <2>4, <1>2 DEF e
<1> HIDE DEF l
<1>6. n[c][t].there = "live" /\ (listed => n[c][t].entries = entries)
      /\ \A d \in T!AnyCollection \ {c} : n[d][t].there # "live"
  BY <1>2, <1>3, <1>4, <1>5
<1>7. LiveOnce(n, t)
  BY <1>6 DEF LiveOnce, T!IsLive
<1>8. T!Home(n, t) = c
  BY <1>6, <1>7, HomeOf DEF T!IsLive
<1>9. listed => View(n, t).entries = entries
  BY <1>6, <1>8, PlaceFacts DEF View, T!Exists, T!Shown
<1> QED BY <1>7, <1>8, <1>9

LEMMA UpsertHome ==
  ASSUME OneHome, meta \in Documents, NEW t \in Thing, NEW d \in T!AnyCollection,
         NEW p \in Thing \cup {Keep, Clear}, NEW listed \in BOOLEAN,
         NEW entries \in SUBSET Entry, meta' = Upserted(t, d, p, listed, entries)
  PROVE  /\ OneHome'
         /\ T!Home(meta', t) = d
         /\ listed => View(meta', t).entries = entries
         /\ \A x \in Thing \ {t} : View(meta', x) = View(meta, x)
<1>1. \A x \in Thing : LiveOnce(meta, x)
  BY DEF OneHome, T!OneHome, LiveOnce
<1>2. /\ LiveOnce(meta', t) /\ T!Home(meta', t) = d
      /\ listed => View(meta', t).entries = entries
  BY <1>1, UpsertedOnce
<1>3. \A x \in Thing \ {t} : SameEntries(meta, meta', x)
  BY UpsertedSame
<1>4. \A x \in Thing : LiveOnce(meta', x)
  BY <1>1, <1>2, <1>3, SameOnce
<1>5. OneHome'
  BY <1>4 DEF OneHome, T!OneHome, LiveOnce
<1> QED BY <1>2, <1>3, <1>5, SameView

LEMMA MoveHome ==
  ASSUME OneHome, meta \in Documents, NEW t \in Thing, NEW d \in T!AnyCollection,
         NEW p, NEW more, meta' = T!Placed(meta, t, d, p, more)
  PROVE  OneHome'
<1>1. \A x \in Thing : LiveOnce(meta, x)
  BY DEF OneHome, T!OneHome, LiveOnce
<1>2. LiveOnce(meta', t)
  BY <1>1, PlacedOnce DEF LiveOnce, T!IsLive
<1>3. \A x \in Thing \ {t} : SameEntries(meta, meta', x)
  BY PlacedApart
<1>4. \A x \in Thing : LiveOnce(meta', x)
  BY <1>1, <1>2, <1>3, SameOnce
<1> QED BY <1>4 DEF OneHome, T!OneHome, LiveOnce

LEMMA CascadeHome ==
  ASSUME OneHome, meta \in Documents, NEW root \in Thing, NEW c \in T!AnyCollection,
         NEW p, NEW archive, meta' = T!Cascaded(meta, root, c, p, archive)
  PROVE  OneHome' /\ T!Home(meta', root) = c
<1> DEFINE moved == {root} \cup T!Descendants(meta, root)
<1>1. \A x \in Thing : LiveOnce(meta, x)
  BY DEF OneHome, T!OneHome, LiveOnce
<1>2. ASSUME NEW x \in Thing, x \in moved
      PROVE  /\ meta'[c][x].there = "live"
             /\ \A d \in T!AnyCollection \ {c} : meta'[d][x].there # "live"
  <2>1. meta'[c][x].there = "live"
    <3>1. meta'[c][x] = T!CascadedEntry(meta, x, root, c, p, archive)
      BY <1>2 DEF T!Cascaded
    <3> QED BY <3>1 DEF T!CascadedEntry
  <2>2. ASSUME NEW d \in T!AnyCollection \ {c}
        PROVE  meta'[d][x].there # "live"
    <3>1. meta[d][x] \in T!Meta
      BY DEF Documents
    <3>2. CASE d = T!Home(meta, x)
      <4>1. meta'[d][x] = T!Tombstoned(meta[d][x])
        BY <1>2, <3>2 DEF T!Cascaded
      <4> QED BY <3>1, <4>1 DEF T!Tombstoned, T!Meta
    <3>3. CASE d # T!Home(meta, x)
      <4>1. meta'[d][x] = meta[d][x]
        BY <3>3 DEF T!Cascaded
      <4> QED BY <1>1, <3>3, <4>1, HomeOf DEF T!IsLive
    <3> QED BY <3>2, <3>3
  <2> QED BY <2>1, <2>2
<1>3. \A x \in Thing \ moved : SameEntries(meta, meta', x)
  BY DEF T!Cascaded, SameEntries
<1>4. \A x \in Thing : LiveOnce(meta', x)
  <2>1. \A x \in Thing : x \in moved => LiveOnce(meta', x)
    BY <1>2 DEF LiveOnce, T!IsLive
  <2> HIDE DEF moved
  <2> QED BY <1>1, <1>3, <2>1, SameOnce
<1>5. OneHome'
  BY <1>4 DEF OneHome, T!OneHome, LiveOnce
<1>6. T!Home(meta', root) = c
  <2>1. T!IsLive(meta', c, root)
    BY <1>2 DEF T!IsLive
  <2> QED BY <1>4, <2>1, HomeOf
<1> QED BY <1>5, <1>6

----------------------------------------------------------------------------
(* The jobs of commands and undos                                          *)

\* The steps of a walk; those of Above, written out.
Walks(w, n, f, x) ==
  w = [i \in 0 .. n |-> IF i = 0 THEN {f[x]} \cap Thing
                        ELSE w[i - 1] \cup ({f[y] : y \in w[i - 1]} \cap Thing)]

LEMMA AboveWalks ==
  ASSUME NEW f, NEW x
  PROVE  \E n \in Nat : T!Above(f, x) = (CHOOSE w : Walks(w, n, f, x))[n]
<1>1. T!Cardinality(Thing) = Cardinality(Thing)
  BY DEF T!Cardinality, Cardinality
<1>2. T!Above(f, x) = (CHOOSE w : Walks(w, T!Cardinality(Thing), f, x))[T!Cardinality(Thing)]
  BY DEF T!Above, Walks
<1>3. Cardinality(Thing) \in Nat
  BY HistoryAssumption, FS_CardinalityType
<1> QED BY <1>1, <1>2, <1>3

\* A walk that has no first step comes by nothing.
LEMMA NoWalk ==
  ASSUME NEW f, NEW x, f[x] \notin Thing
  PROVE  T!Above(f, x) = {}
<1>1. PICK n \in Nat : T!Above(f, x) = (CHOOSE w : Walks(w, n, f, x))[n]
  BY AboveWalks
<1> DEFINE none == [i \in 0 .. n |-> {}]
           W == CHOOSE w : Walks(w, n, f, x)
           Bad == {i \in Nat : i <= n /\ W[i] # {}}
<1>2. Walks(none, n, f, x)
  <2>1. {f[x]} \cap Thing = {} /\ {} \cup ({f[y] : y \in {}} \cap Thing) = {}
    OBVIOUS
  <2>2. \A i \in 0 .. n : i # 0 => none[i - 1] = {}
    OBVIOUS
  <2>3. ASSUME NEW i \in 0 .. n
        PROVE  (IF i = 0 THEN {f[x]} \cap Thing
                ELSE none[i - 1] \cup ({f[y] : y \in none[i - 1]} \cap Thing)) = {}
    <3> HIDE DEF none
    <3>1. i # 0 => none[i - 1] = {}
      BY <2>2
    <3>2. CASE i = 0
      BY <2>1, <3>2
    <3>3. CASE i # 0
      BY <2>1, <3>1, <3>3
    <3> QED BY <3>2, <3>3
  <2> QED BY <2>3 DEF Walks
<1>3. Walks(W, n, f, x)
  BY <1>2
<1> HIDE DEF W
<1>4. Bad = {}
  <2> SUFFICES ASSUME Bad # {} PROVE FALSE
    OBVIOUS
  <2>1. Bad \in SUBSET Nat
    OBVIOUS
  <2>2. PICK i \in Bad : \A y \in Bad : i <= y
    <3> HIDE DEF Bad
    <3> QED BY <2>1, LeastNatural
  <2>3. i \in 0 .. n /\ W[i] # {}
    BY <2>2
  <2>4. W[i] = IF i = 0 THEN {f[x]} \cap Thing
               ELSE W[i - 1] \cup ({f[y] : y \in W[i - 1]} \cap Thing)
    BY <1>3, <2>3 DEF Walks
  <2>5. i # 0
    BY <2>3, <2>4
  <2>6. i - 1 \in Nat /\ i - 1 <= n /\ i - 1 < i
    BY <2>3, <2>5
  <2>7. W[i - 1] = {}
    BY <2>2, <2>6
  <2> QED BY <2>3, <2>4, <2>5, <2>7
<1>5. W[n] = {}
  BY <1>4
<1> QED BY <1>1, <1>5 DEF W

\* What the views say is below a thing is below it in the documents.
LEMMA BelowExists ==
  ASSUME NEW m, NEW t \in Thing, NEW x \in BelowOnly(Views(m), t)
  PROVE  x \in T!Descendants(m, t)
<1>1. x \in Thing /\ t \in T!Above([y \in Thing |-> Views(m)[y].parent], x)
  BY DEF BelowOnly, BelowIn
<1>2. [y \in Thing |-> Views(m)[y].parent] = T!TreeParents(m)
  BY DEF Views, View, T!TreeParents
<1>3. T!Exists(m, x)
  <2> SUFFICES ASSUME ~ T!Exists(m, x) PROVE FALSE
    OBVIOUS
  <2>1. T!TreeParents(m)[x] \notin Thing
    BY <1>1, PlaceFacts DEF T!TreeParents
  <2> QED BY <1>1, <1>2, <2>1, NoWalk
<1> QED BY <1>1, <1>2, <1>3 DEF T!Descendants

LEMMA ViewHome ==
  ASSUME NEW m, NEW x, T!Exists(m, x)
  PROVE  View(m, x).home = T!Home(m, x) /\ View(m, x).home \in T!AnyCollection
BY HomeFacts DEF View

\* Jobs that are told, taken from their first on.
LEMMA RestTold ==
  ASSUME NEW jobs \in Seq(JobSet), jobs # <<>>, NEW was, NEW st, NEW old,
         Paired(jobs), Told(jobs, was, old)
  PROVE  Paired(Tail(jobs)) /\ Told(Tail(jobs), was, st)
<1> DEFINE rest == Tail(jobs)
<1>1. /\ Len(jobs) \in Nat /\ Len(jobs) >= 1 /\ Len(rest) = Len(jobs) - 1
      /\ \A k \in 1 .. Len(rest) : rest[k] = jobs[k + 1]
  BY EmptySeq, HeadTailProperties
<1> HIDE DEF rest
<1>2. ASSUME NEW m \in 1 .. Len(rest)
      PROVE  /\ ~ Own(rest[m])
             /\ JobTold(rest[m], was)
             /\ m >= 2 /\ rest[m].do = "keep" =>
                  NeedsKeep(rest[m - 1]) /\ rest[m - 1].subject = rest[m].thing
  <2>1. m + 1 \in 1 .. Len(jobs) /\ m + 1 # 1 /\ m + 1 >= 2 /\ (m + 1) - 1 = m /\ m \in Nat
        /\ rest[m] = jobs[m + 1]
    BY <1>1
  <2>2. ~ Own(rest[m]) /\ JobTold(rest[m], was)
        /\ (rest[m].do = "keep" => NeedsKeep(jobs[m]) /\ jobs[m].subject = rest[m].thing)
    BY <2>1 DEF Paired, Told
  <2>3. m >= 2 => rest[m - 1] = jobs[m]
    <3>1. SUFFICES ASSUME m >= 2 PROVE rest[m - 1] = jobs[m]
      OBVIOUS
    <3>2. m - 1 \in 1 .. Len(rest) /\ (m - 1) + 1 = m
      BY <1>1, <2>1, <3>1
    <3>3. rest[m - 1] = jobs[(m - 1) + 1]
      BY <3>2, <1>1
    <3> QED BY <3>2, <3>3
  <2> QED BY <2>2, <2>3
<1>3. Len(rest) >= 1 => 1 \in 1 .. Len(rest)
  BY <1>1
<1> QED BY <1>2, <1>3 DEF Paired, Told, HeadTold, rest

\* Jobs that write nothing say nothing.
LEMMA SilentTold ==
  ASSUME NEW jobs, Len(jobs) \in Nat, \A k \in 1 .. Len(jobs) : ~ Logs(jobs[k]), NEW was, NEW st
  PROVE  Paired(jobs) /\ Told(jobs, was, st)
<1>1. Len(jobs) >= 1 => 1 \in 1 .. Len(jobs)
  OBVIOUS
<1> QED BY <1>1 DEF Paired, Told, HeadTold, JobTold, Own, Logs

LEMMA ConcatTold ==
  ASSUME NEW new \in Seq(JobSet), NEW rest \in Seq(JobSet), NEW was, NEW st,
         Paired(new), Told(new, was, st), new # <<>>,
         \A k \in 1 .. Len(rest) : ~ Logs(rest[k])
  PROVE  Paired(new \o rest) /\ Told(new \o rest, was, st)
<1> DEFINE jobs == new \o rest
           n == Len(new)
<1>1. /\ n \in Nat /\ Len(rest) \in Nat /\ n >= 1
      /\ Len(jobs) = n + Len(rest)
      /\ \A k \in 1 .. n : jobs[k] = new[k]
      /\ \A k \in n + 1 .. Len(jobs) : jobs[k] = rest[k - n]
  BY EmptySeq, LenProperties, ConcatProperties
<1> HIDE DEF jobs, n
<1>2. \A k \in n + 1 .. Len(jobs) : ~ Logs(jobs[k])
  <2> SUFFICES ASSUME NEW k \in n + 1 .. Len(jobs) PROVE ~ Logs(jobs[k])
    OBVIOUS
  <2>1. k - n \in 1 .. Len(rest)
    BY <1>1
  <2> QED BY <1>1, <2>1
<1>3. ASSUME NEW m \in 1 .. Len(jobs)
      PROVE  /\ Own(jobs[m]) => m = 1
             /\ JobTold(jobs[m], was)
             /\ m >= 2 /\ jobs[m].do = "keep" =>
                  NeedsKeep(jobs[m - 1]) /\ jobs[m - 1].subject = jobs[m].thing
  <2>1. CASE m <= n
    <3>1. m \in 1 .. n /\ jobs[m] = new[m] /\ (m >= 2 => m - 1 \in 1 .. n /\ jobs[m - 1] = new[m - 1])
      BY <1>1, <2>1
    <3> QED BY <3>1 DEF Paired, Told, n
  <2>2. CASE m > n
    <3>1. ~ Logs(jobs[m])
      BY <1>1, <1>2, <2>2
    <3> QED BY <3>1 DEF Logs, Own, JobTold
  <2> QED BY <1>1, <2>1, <2>2
<1>4. HeadTold(jobs, was, st)
  <2>1. jobs[1] = new[1] /\ Len(new) >= 1 /\ HeadTold(new, was, st)
    BY <1>1 DEF n, Told
  <2>2. ASSUME NEW t, Pending(new, 2, t) PROVE Pending(jobs, 2, t)
    <3>1. PICK m \in 2 .. n : /\ new[m].do = "note" /\ new[m].child /\ new[m].subject = t
                              /\ \A x \in 2 .. m : Follows(new[x])
      BY <2>2 DEF Pending, n
    <3>2. m \in 2 .. Len(jobs) /\ \A x \in 2 .. m : jobs[x] = new[x]
      BY <1>1
    <3>3. m \in 2 .. m
      OBVIOUS
    <3> QED BY <3>1, <3>2, <3>3 DEF Pending
  <2> QED BY <2>1, <2>2 DEF HeadTold
<1> QED BY <1>3, <1>4 DEF Paired, Told, jobs

\* The cascade that is still to be written, one job later.
LEMMA PendingRest ==
  ASSUME NEW jobs \in Seq(JobSet), jobs # <<>>, NEW t
  PROVE  /\ Pending(jobs, 2, t) => Pending(Tail(jobs), 1, t)
         /\ Pending(jobs, 1, t) =>
              \/ Pending(Tail(jobs), 1, t)
              \/ jobs[1].do = "note" /\ jobs[1].child /\ jobs[1].subject = t
         /\ Pending(jobs, 1, t) => Follows(jobs[1])
<1> DEFINE rest == Tail(jobs)
<1>1. /\ Len(jobs) \in Nat /\ Len(jobs) >= 1 /\ Len(rest) = Len(jobs) - 1
      /\ \A k \in 1 .. Len(rest) : rest[k] = jobs[k + 1]
  BY EmptySeq, HeadTailProperties
<1> HIDE DEF rest
<1>2. ASSUME NEW m \in 2 .. Len(jobs), jobs[m].do = "note", jobs[m].child, jobs[m].subject = t,
             \A x \in 2 .. m : Follows(jobs[x])
      PROVE  Pending(rest, 1, t)
  <2>1. m - 1 \in 1 .. Len(rest) /\ rest[m - 1] = jobs[m]
    <3>1. m - 1 \in 1 .. Len(rest) /\ (m - 1) + 1 = m
      BY <1>1
    <3>2. rest[m - 1] = jobs[(m - 1) + 1]
      BY <3>1, <1>1
    <3> QED BY <3>1, <3>2
  <2>2. ASSUME NEW x \in 1 .. m - 1 PROVE Follows(rest[x])
    <3>1. x \in 1 .. Len(rest) /\ x + 1 \in 2 .. m
      BY <1>1
    <3> QED BY <3>1, <1>1, <1>2
  <2> QED BY <2>1, <2>2, <1>2 DEF Pending
<1>3. Pending(jobs, 2, t) => Pending(rest, 1, t)
  BY <1>2 DEF Pending
<1>4. ASSUME Pending(jobs, 1, t)
      PROVE  /\ Follows(jobs[1])
             /\ \/ Pending(rest, 1, t)
                \/ jobs[1].do = "note" /\ jobs[1].child /\ jobs[1].subject = t
  <2>1. PICK m \in 1 .. Len(jobs) :
          /\ jobs[m].do = "note" /\ jobs[m].child /\ jobs[m].subject = t
          /\ \A x \in 1 .. m : Follows(jobs[x])
    BY <1>4 DEF Pending
  <2>2. Follows(jobs[1])
    <3>1. 1 \in 1 .. m
      OBVIOUS
    <3> QED BY <2>1, <3>1
  <2>3. CASE m = 1
    BY <2>1, <2>2, <2>3
  <2>4. CASE m # 1
    <3>1. m \in 2 .. Len(jobs) /\ \A x \in 2 .. m : x \in 1 .. m
      BY <1>1, <2>4
    <3> QED BY <2>1, <2>2, <3>1, <1>2
  <2> QED BY <2>3, <2>4
<1> QED BY <1>3, <1>4 DEF rest

----------------------------------------------------------------------------
(* What commands write down                                                *)

LEMMA UpsertTold ==
  ASSUME NEW t \in Thing, NEW m, meta \in Documents, NEW st
  PROVE  LET jobs == UpsertJobs(t, m)
         IN /\ Paired(jobs) /\ Told(jobs, Views(meta), st)
            /\ jobs # <<>> /\ jobs[1] = Head(jobs) /\ ~ Follows(jobs[1])
<1> DEFINE op == IF T!Home(meta, t) # T!Home(m, t) THEN "move_thing" ELSE "update_thing"
           n == Note("create_thing", t, NoCollection, FALSE, TRUE)
           j == Join(op, t, T!Home(meta, t))
           l == KeepView(meta, t)
           was == Views(meta)
<1>1. CASE ~ T!Exists(meta, t)
  <2>1. n.do = "note" /\ n.op = "create_thing" /\ ~ n.child
    BY DEF Note
  <2>2. UpsertJobs(t, m) = <<n>>
    BY <1>1 DEF UpsertJobs, n
  <2> HIDE DEF n
  <2>3. <<n>>[1] = n /\ Len(<<n>>) = 1 /\ 1 .. 1 = {1} /\ <<n>> # <<>> /\ Head(<<n>>) = n
    OBVIOUS
  <2>4. Paired(<<n>>) /\ Told(<<n>>, was, st)
    BY <2>1, <2>3 DEF Paired, Told, HeadTold, JobTold, Own
  <2> QED BY <2>1, <2>2, <2>3, <2>4 DEF Follows
<1>2. CASE T!Exists(meta, t)
  <2>1. /\ j.do = "join" /\ j.subject = t /\ j.op \in {"move_thing", "update_thing"}
        /\ j.from = T!Home(meta, t)
        /\ l.do = "keep" /\ l.thing = t /\ l.view = View(meta, t)
    BY DEF Join, KeepView
  <2>2. was[t] = View(meta, t) /\ View(meta, t).home = T!Home(meta, t)
        /\ View(meta, t).home \in T!AnyCollection
    BY <1>2, ViewHome DEF Views
  <2>3. UpsertJobs(t, m) = <<j, l>>
    BY <1>2 DEF UpsertJobs
  <2> HIDE DEF j, l, was
  <2>4. <<j, l>>[1] = j /\ <<j, l>>[2] = l /\ Len(<<j, l>>) = 2 /\ 1 .. 2 = {1, 2}
        /\ <<j, l>> # <<>> /\ Head(<<j, l>>) = j /\ 2 - 1 = 1
    OBVIOUS
  <2>5. JobTold(j, was) /\ JobTold(l, was)
    BY <2>1, <2>2 DEF JobTold
  <2> DEFINE both == <<j, l>>
  <2>6. UpsertJobs(t, m) = both /\ both # <<>> /\ both[1] = Head(both)
    BY <2>3, <2>4
  <2>7. both[1] = j /\ both[2] = l /\ Len(both) = 2
    BY <2>4
  <2> HIDE DEF both
  <2>8. Told(both, was, st)
    <3>1. HeadTold(both, was, st)
      BY <2>1, <2>2, <2>7 DEF HeadTold
    <3> QED BY <3>1, <2>5, <2>7, <2>4 DEF Told
  <2>9. Paired(both)
    <3>1. NeedsKeep(both[2 - 1]) /\ both[2 - 1].subject = t /\ ~ Own(both[2])
      BY <2>1, <2>7, <2>4 DEF NeedsKeep, Own
    <3> SUFFICES ASSUME NEW k \in 1 .. 2
                 PROVE  /\ Own(both[k]) => k = 1
                        /\ k >= 2 /\ both[k].do = "keep" =>
                             NeedsKeep(both[k - 1]) /\ both[k - 1].subject = both[k].thing
      BY <2>7 DEF Paired
    <3>2. k = 1 \/ k = 2
      OBVIOUS
    <3> QED BY <3>1, <3>2, <2>1, <2>7
  <2>10. ~ Follows(both[1])
    BY <2>1, <2>7 DEF Follows
  <2> QED BY <2>8, <2>9, <2>6, <2>10 DEF was
<1> QED BY <1>1, <1>2

LEMMA NoteTold ==
  ASSUME NEW op, op \notin {"undo", "delete_thing"}, NEW s, NEW from, NEW can, NEW was, NEW st,
         op = "move_thing" /\ from # NoCollection => from = was[s].home,
         op = "create_collection" => st[s] # "absent"
  PROVE  LET jobs == <<Note(op, s, from, FALSE, can)>>
         IN /\ Paired(jobs) /\ Told(jobs, was, st)
            /\ jobs # <<>> /\ jobs[1] = Head(jobs) /\ ~ Follows(jobs[1])
<1> DEFINE n == Note(op, s, from, FALSE, can)
<1>1. n.do = "note" /\ n.op = op /\ ~ n.child /\ n.subject = s /\ n.from = from
  BY DEF Note
<1> HIDE DEF n
<1>2. <<n>>[1] = n /\ Len(<<n>>) = 1 /\ 1 .. 1 = {1} /\ <<n>> # <<>> /\ Head(<<n>>) = n
  OBVIOUS
<1>3. Paired(<<n>>)
  BY <1>1, <1>2 DEF Paired, Own
<1>4. Told(<<n>>, was, st)
  BY <1>1, <1>2 DEF Told, HeadTold, JobTold
<1> QED BY <1>1, <1>2, <1>3, <1>4 DEF Follows, n

LEMMA DeleteTold ==
  ASSUME NEW t \in Thing, meta \in Documents, T!Exists(meta, t), NEW st
  PROVE  LET jobs == DeleteJobs(t)
         IN /\ Paired(jobs) /\ Told(jobs, Views(meta), st)
            /\ jobs # <<>> /\ jobs[1] = Head(jobs) /\ ~ Follows(jobs[1])
<1> DEFINE jobs == DeleteJobs(t)
           D == T!Descendants(meta, t)
           was == Views(meta)
<1>1. /\ Logging(jobs) /\ Len(jobs) >= 1
      /\ jobs[1].do = "note" /\ jobs[1].subject = t /\ ~ jobs[1].child
      /\ \A k \in 2 .. Len(jobs) : Follows(jobs[k])
      /\ \A x \in D : \E k \in 2 .. Len(jobs) : jobs[k].do = "note" /\ jobs[k].subject = x
      /\ \A k \in 1 .. Len(jobs) : jobs[k].do = "note" =>
           /\ jobs[k].op = "delete_thing" /\ (jobs[k].child => ~ jobs[k].can)
      /\ \A k \in 1 .. Len(jobs) : jobs[k].do = "keep" =>
           /\ k - 1 \in 1 .. Len(jobs)
           /\ jobs[k] = KeepView(meta, jobs[k].thing)
           /\ jobs[k].thing \in {t} \cup D
           /\ NeedsKeep(jobs[k - 1]) /\ jobs[k - 1].subject = jobs[k].thing
  BY DeleteLogs
<1>2. \A x \in BelowOnly(was, t) : x \in D
  BY BelowExists
<1>3. \A x \in {t} \cup D : x \in Thing /\ was[x] = View(meta, x)
                             /\ View(meta, x).home \in T!AnyCollection
                             /\ KeepView(meta, x).view = View(meta, x)
  <2>1. \A x \in {t} \cup D : x \in Thing /\ T!Exists(meta, x)
    BY DEF T!Descendants
  <2> QED BY <2>1, ViewHome DEF Views, KeepView
<1> HIDE DEF jobs, D, was
<1>4. jobs \in Seq(JobSet) /\ Len(jobs) \in Nat
  BY <1>1 DEF Logging
<1>5. Paired(jobs)
  <2> SUFFICES ASSUME NEW k \in 1 .. Len(jobs)
               PROVE  /\ Own(jobs[k]) => k = 1
                      /\ k >= 2 /\ jobs[k].do = "keep" =>
                           NeedsKeep(jobs[k - 1]) /\ jobs[k - 1].subject = jobs[k].thing
    BY DEF Paired
  <2>1. k # 1 => Follows(jobs[k])
    BY <1>1, <1>4
  <2> QED BY <2>1, <1>1 DEF Follows, Own
<1>6. \A k \in 1 .. Len(jobs) : JobTold(jobs[k], was)
  <2> SUFFICES ASSUME NEW k \in 1 .. Len(jobs) PROVE JobTold(jobs[k], was)
    OBVIOUS
  <2>1. CASE jobs[k].do = "keep"
    <3>1. jobs[k].thing \in {t} \cup D /\ jobs[k].view = KeepView(meta, jobs[k].thing).view
      BY <1>1, <2>1
    <3> QED BY <1>3, <2>1, <3>1 DEF JobTold
  <2>2. CASE jobs[k].do # "keep"
    BY <1>1, <2>2 DEF JobTold
  <2> QED BY <2>1, <2>2
<1>7. HeadTold(jobs, was, st)
  <2>1. jobs[1].op = "delete_thing"
    <3>1. 1 \in 1 .. Len(jobs)
      BY <1>1, <1>4
    <3> QED BY <1>1, <3>1
  <2>2. ASSUME NEW x \in BelowOnly(was, t) PROVE Pending(jobs, 2, x)
    <3>1. PICK k \in 2 .. Len(jobs) : jobs[k].do = "note" /\ jobs[k].subject = x
      BY <1>1, <1>2
    <3>2. \A y \in 2 .. k : Follows(jobs[y])
      BY <1>1, <1>4
    <3>3. jobs[k].child
      <4>1. Follows(jobs[k])
        BY <1>1
      <4> QED BY <3>1, <4>1 DEF Follows
    <3> QED BY <3>1, <3>2, <3>3 DEF Pending
  <2> QED BY <2>1, <2>2, <1>1 DEF HeadTold
<1>8. jobs # <<>>
  BY <1>1
<1>9. jobs[1] = Head(jobs)
  BY <1>4, <1>8, HeadTailProperties
<1> QED BY <1>1, <1>5, <1>6, <1>7, <1>8, <1>9 DEF Told, Follows, jobs, was

\* Every cascaded entry comes in the order.
LEMMA InOrderMeets ==
  ASSUME NEW n \in Nat, NEW ids \in SUBSET (1 .. n), NEW x \in ids
  PROVE  \E k \in 1 .. Cardinality(ids) : InOrder(ids)[k] = x
<1> DEFINE c == Cardinality(ids)
           s == InOrder(ids)
<1>1. IsFiniteSet(ids) /\ c \in Nat
  <2>1. IsFiniteSet(1 .. n)
    BY FS_Interval
  <2> QED BY <2>1, FS_Subset, FS_CardinalityType
<1>2. \E f \in [1 .. c -> ids] : \A a, b \in 1 .. c : a < b => f[a] < f[b]
  BY RisingExists DEF Rising
<1>3. s \in [1 .. c -> ids] /\ \A a, b \in 1 .. c : a < b => s[a] < s[b]
  BY <1>2 DEF InOrder
<1> HIDE DEF s
<1>4. \A y \in ids : y \in Nat
  OBVIOUS
<1>5. Cardinality(1 .. c) = c
  BY <1>1, FS_Interval
<1> HIDE DEF c
<1>6. s \in Injection(1 .. c, ids)
  <2> SUFFICES ASSUME NEW a \in 1 .. c, NEW b \in 1 .. c, s[a] = s[b] PROVE a = b
    BY <1>3 DEF Injection, IsInjective
  <2>1. s[a] \in ids /\ s[b] \in ids
    BY <1>3
  <2>2. s[a] \in Nat /\ s[b] \in Nat
    BY <2>1, <1>4
  <2> QED BY <2>2, <1>1, <1>3
<1>7. s \in Surjection(1 .. c, ids)
  <2>1. Cardinality(1 .. c) = Cardinality(ids)
    BY <1>5 DEF c
  <2> QED BY <1>1, <1>6, <2>1, FS_Injection
<1> QED BY <1>7 DEF Surjection, s, c

----------------------------------------------------------------------------
(* What an undo has to do                                                  *)

\* All that an undo of i brings back is among these jobs.
AllDue(jobs, i) ==
  /\ log[i].op = "create_thing" => KindDue(jobs, "bin")
  /\ log[i].op = "move_thing" => KindDue(jobs, "put back")
  /\ log[i].op = "create_collection" => KindDue(jobs, "shelve")
  /\ log[i].op = "delete_collection" => KindDue(jobs, "reopen")
  /\ log[i].op \in {"update_collection", "update_thing", "delete_thing"} => PutDue(jobs, i)
  /\ log[i].op = "delete_thing" => \A j \in Cascades(i) : PutDue(jobs, j)

LEMMA AllDueReached ==
  ASSUME NEW jobs, NEW i, AllDue(jobs, i),
         log[i].op = "delete_thing" =>
           \A t \in BelowOnly(past[i].first, log[i].subject) :
             \E j \in Cascades(i) : log[j].subject = t /\ (snap[i] # NoSnap => snap[j] # NoSnap)
  PROVE  Reached(jobs, i)
BY DEF AllDue, Reached, PutAwaited

Commands(jobs, i) ==
  /\ AllDue(jobs, i)
  /\ \A m \in 1 .. Len(jobs) :
       /\ OfUndo(jobs[m], i, log)
       /\ jobs[m].do = "put" /\ jobs[m].of = i => m = 1

LEMMA UndoJobsTold ==
  ASSUME log \in Seq(LogRow \cup {Gone}), NEW i, Live(i), log[i] \in LogRow,
         log[i].op # "undo", log[i].parent < i
  PROVE  Commands(UndoJobs(i), i)
<1> DEFINE op == log[i].op
           s == log[i].subject
<1>1. Len(log) \in Nat /\ i \in 1 .. Len(log) /\ op \in Op /\ i \in Nat /\ log[i].parent \in Nat
  BY DEF Live, Ids, LogRow
<1>2. ASSUME NEW j PROVE Len(<<j>>) = 1 /\ <<j>>[1] = j /\ 1 .. 1 = {1} /\ 1 \in 1 .. 1
  OBVIOUS
<1>3. CASE op = "create_thing"
  <2> DEFINE j == Bin(s)
  <2>1. j.do = "bin" /\ j.subject = s
    BY DEF Bin
  <2>2. UndoJobs(i) = <<j>>
    BY <1>3 DEF UndoJobs
  <2> HIDE DEF j
  <2>3. OfUndo(j, i, log) /\ j.do # "put"
    BY <1>3, <2>1 DEF OfUndo
  <2>4. KindDue(<<j>>, "bin")
    BY <1>2, <2>1 DEF KindDue
  <2> QED BY <1>2, <1>3, <2>1, <2>2, <2>3, <2>4 DEF Commands, AllDue
<1>4. CASE op = "move_thing"
  <2> DEFINE j == PutBack(i)
  <2>1. j.do = "put back" /\ j.subject = s /\ j.from = log[i].from
    BY DEF PutBack
  <2>2. UndoJobs(i) = <<j>>
    BY <1>4 DEF UndoJobs
  <2> HIDE DEF j
  <2>3. OfUndo(j, i, log) /\ j.do # "put"
    BY <1>4, <2>1 DEF OfUndo
  <2>4. KindDue(<<j>>, "put back")
    BY <1>2, <2>1 DEF KindDue
  <2> QED BY <1>2, <1>4, <2>1, <2>2, <2>3, <2>4 DEF Commands, AllDue
<1>5. CASE op = "create_collection"
  <2> DEFINE j == Shelve(s)
  <2>1. j.do = "shelve" /\ j.subject = s
    BY DEF Shelve
  <2>2. UndoJobs(i) = <<j>>
    BY <1>5 DEF UndoJobs
  <2> HIDE DEF j
  <2>3. OfUndo(j, i, log) /\ j.do # "put"
    BY <1>5, <2>1 DEF OfUndo
  <2>4. KindDue(<<j>>, "shelve")
    BY <1>2, <2>1 DEF KindDue
  <2> QED BY <1>2, <1>5, <2>1, <2>2, <2>3, <2>4 DEF Commands, AllDue
<1>6. CASE op = "delete_collection"
  <2> DEFINE j == Reopen(s)
  <2>1. j.do = "reopen" /\ j.subject = s
    BY DEF Reopen
  <2>2. UndoJobs(i) = <<j>>
    BY <1>6 DEF UndoJobs
  <2> HIDE DEF j
  <2>3. OfUndo(j, i, log) /\ j.do # "put"
    BY <1>6, <2>1 DEF OfUndo
  <2>4. KindDue(<<j>>, "reopen")
    BY <1>2, <2>1 DEF KindDue
  <2> QED BY <1>2, <1>6, <2>1, <2>2, <2>3, <2>4 DEF Commands, AllDue
<1>7. /\ Put(i).do = "put" /\ Put(i).of = i /\ Put(i).child = (log[i].parent # 0)
      /\ \A x : Put(x).do = "put" /\ Put(x).of = x
  BY DEF Put
<1>8. CASE op \notin {"create_thing", "move_thing", "create_collection", "delete_collection"}
  <2>1. OfUndo(Put(i), i, log)
    BY <1>7, <1>8 DEF OfUndo
  <2>2. CASE op = "delete_thing"
    <3> DEFINE ids == Cascades(i)
               n == Cardinality(ids)
               g == [k \in 1 .. n |-> Put(InOrder(ids)[k])]
               jobs == <<Put(i)>> \o g
    <3>1. ids \in SUBSET (1 .. Len(log))
      BY DEF Cascades, Live, Ids
    <3>2. \A x \in ids : log[x] # Gone /\ log[x].parent = i /\ x # i
      BY <1>1 DEF Cascades, Live
    <3>3. n \in Nat /\ (\A k \in 1 .. n : InOrder(ids)[k] \in ids)
          /\ \A x \in ids : \E k \in 1 .. n : InOrder(ids)[k] = x
      <4> HIDE DEF ids
      <4> QED BY <3>1, <1>1, InOrderRises, InOrderMeets
    <3> HIDE DEF ids, n
    <3>4. \A k \in 1 .. n : g[k].do = "put" /\ g[k].of = InOrder(ids)[k]
      BY <1>7
    <3>5. Len(g) = n /\ g \in Seq({Put(x) : x \in ids})
      <4>1. g \in [1 .. n -> {Put(x) : x \in ids}]
        BY <3>3
      <4> HIDE DEF g
      <4> QED BY <4>1, <3>3, FunIsSeq
    <3> HIDE DEF g
    <3>6. /\ Len(jobs) = 1 + n
          /\ \A k \in 1 .. 1 + n : jobs[k] = IF k <= 1 THEN <<Put(i)>>[k] ELSE g[k - 1]
      <4> DEFINE puts == {Put(x) : x \in ids \cup {i}}
      <4>1. g \in Seq(puts)
        <5>1. \A k \in 1 .. n : g[k] \in puts
          BY <3>5, <3>3 DEF g
        <5>2. g = [k \in 1 .. n |-> g[k]]
          BY DEF g
        <5> HIDE DEF puts
        <5>3. g \in [1 .. n -> puts]
          BY <5>1, <5>2
        <5> QED BY <5>3, <3>3, FunIsSeq
      <4>2. <<Put(i)>> \in Seq(puts) /\ Len(<<Put(i)>>) = 1
        <5>1. Put(i) \in puts
          OBVIOUS
        <5> HIDE DEF puts
        <5> QED BY <5>1
      <4> HIDE DEF puts
      <4> QED BY <4>1, <4>2, <3>5, ConcatProperties
    <3> HIDE DEF jobs
    <3>7. 1 \in 1 .. Len(jobs) /\ jobs[1] = Put(i)
      BY <3>3, <3>6
    <3>8. ASSUME NEW k \in 1 .. n
          PROVE  k + 1 \in 1 .. Len(jobs) /\ jobs[k + 1] = g[k]
      <4>1. k + 1 \in 1 .. 1 + n /\ ~ (k + 1 <= 1) /\ (k + 1) - 1 = k
        BY <3>3
      <4> QED BY <4>1, <3>6
    <3>9. AllDue(jobs, i)
      <4>1. PutDue(jobs, i)
        BY <3>7, <1>7 DEF PutDue
      <4>2. ASSUME NEW x \in ids PROVE PutDue(jobs, x)
        <5>1. PICK k \in 1 .. n : InOrder(ids)[k] = x
          BY <3>3
        <5>2. jobs[k + 1].do = "put" /\ jobs[k + 1].of = x /\ k + 1 \in 1 .. Len(jobs)
          BY <5>1, <3>4, <3>8
        <5> QED BY <5>2 DEF PutDue
      <4> QED BY <4>1, <4>2, <2>2 DEF AllDue, ids
    <3>10. ASSUME NEW m \in 1 .. Len(jobs)
           PROVE  OfUndo(jobs[m], i, log) /\ (jobs[m].of = i => m = 1)
      <4>1. CASE m = 1
        BY <4>1, <3>7, <2>1
      <4>2. CASE m # 1
        <5>1. m - 1 \in 1 .. n /\ (m - 1) + 1 = m
          BY <4>2, <3>3, <3>6
        <5>2. jobs[m] = g[m - 1]
          BY <5>1, <3>8
        <5>3. jobs[m].do = "put" /\ jobs[m].of \in ids
          BY <5>1, <5>2, <3>3, <3>4
        <5> QED BY <5>3, <3>2, <2>2 DEF OfUndo
      <4> QED BY <4>1, <4>2
    <3>11. UndoJobs(i) = jobs
      BY <2>2 DEF UndoJobs, jobs, g, n, ids
    <3> QED BY <3>9, <3>10, <3>11 DEF Commands
  <2>3. CASE op # "delete_thing"
    <3>1. UndoJobs(i) = <<Put(i)>>
      BY <1>8, <2>3 DEF UndoJobs
    <3>2. PutDue(<<Put(i)>>, i)
      BY <1>2, <1>7 DEF PutDue
    <3> DEFINE one == <<Put(i)>>
    <3>3. Len(one) = 1 /\ one[1] = Put(i) /\ 1 .. 1 = {1}
      BY <1>2
    <3>4. AllDue(one, i)
      BY <1>8, <2>3, <3>2 DEF AllDue
    <3> HIDE DEF one
    <3>5. \A m \in 1 .. Len(one) : m = 1 /\ one[m] = Put(i)
      BY <3>3
    <3>6. Commands(one, i)
      BY <2>1, <3>4, <3>5 DEF Commands
    <3> QED BY <3>1, <3>6 DEF one
  <2> QED BY <2>2, <2>3
<1> QED BY <1>3, <1>4, <1>5, <1>6, <1>8

LEMMA UndoProgramTold ==
  ASSUME log \in Seq(LogRow \cup {Gone}), NEW i, Live(i), log[i] \in LogRow,
         Fits(log[i].op, log[i].subject), log[i].op # "undo", log[i].parent < i
  PROVE  LET jobs == UndoProgram(i)
         IN /\ ForUndo(jobs, i, log) /\ AllDue(jobs, i)
            /\ Len(jobs) \in Nat /\ \A k \in 1 .. Len(jobs) : ~ Logs(jobs[k])
            /\ jobs # <<>> /\ jobs[1] = Head(jobs) /\ ~ Logs(jobs[1])
<1> DEFINE a == UndoJobs(i)
           r == Record(log[i].subject)
           b == <<Mark, r>>
           n == Len(a)
           jobs == a \o b
<1>1. Undoing(a) /\ n >= 1 /\ Commands(a, i)
  BY UndoJobsUndo, UndoJobsTold
<1>2. a \in Seq(JobSet) /\ n \in Nat
  BY <1>1 DEF Undoing
<1>3. r \in JobSet /\ Mark \in JobSet /\ r.do = "record" /\ Mark.do = "mark"
  BY OtherJobs DEF Record, Mark, LogRow
<1> HIDE DEF a, r
<1>4. b \in Seq(JobSet) /\ Len(b) = 2 /\ b[1] = Mark /\ b[2] = r
  BY <1>3
<1> HIDE DEF b
<1>5. /\ jobs \in Seq(JobSet) /\ Len(jobs) = n + 2
      /\ \A k \in 1 .. n + 2 : jobs[k] = IF k <= n THEN a[k] ELSE b[k - n]
  <2>1. /\ jobs \in Seq(JobSet) /\ Len(jobs) = Len(a) + Len(b)
        /\ \A k \in 1 .. Len(a) + Len(b) : jobs[k] = IF k <= Len(a) THEN a[k] ELSE b[k - Len(a)]
    BY <1>2, <1>4, ConcatProperties
  <2> HIDE DEF jobs
  <2> QED BY <2>1, <1>4
<1> HIDE DEF jobs, n
<1>6. /\ \A k \in 1 .. n : k \in 1 .. Len(jobs) /\ jobs[k] = a[k]
      /\ jobs[n + 1] = Mark /\ jobs[n + 2] = r
      /\ \A k \in 1 .. Len(jobs) : k \in 1 .. n \/ k = n + 1 \/ k = n + 2
  <2>1. n + 1 \in 1 .. n + 2 /\ n + 2 \in 1 .. n + 2 /\ ~ (n + 1 <= n) /\ ~ (n + 2 <= n)
        /\ (n + 1) - n = 1 /\ (n + 2) - n = 2
    BY <1>2
  <2>2. jobs[n + 1] = Mark /\ jobs[n + 2] = r
    BY <1>4, <1>5, <2>1
  <2> QED BY <2>2, <1>2, <1>5
<1>7. ASSUME NEW k \in 1 .. n
      PROVE  /\ ~ Logs(jobs[k]) /\ OfUndo(jobs[k], i, log) /\ jobs[k].do # "mark"
             /\ jobs[k].do = "put" /\ jobs[k].of = i => k = 1
  BY <1>1, <1>6 DEF Undoing, Commands, n
<1>8. ForUndo(jobs, i, log)
  <2> SUFFICES ASSUME NEW m \in 1 .. Len(jobs)
               PROVE  /\ OfUndo(jobs[m], i, log)
                      /\ jobs[m].do = "put" /\ jobs[m].of = i =>
                           \A x \in 1 .. m - 1 : jobs[x].do # "put"
                      /\ jobs[m].do = "mark" =>
                           \A x \in m + 1 .. Len(jobs) : jobs[x].do = "record"
    BY DEF ForUndo
  <2>1. CASE m \in 1 .. n
    <3>1. m = 1 => 1 .. m - 1 = {}
      OBVIOUS
    <3> QED BY <2>1, <3>1, <1>7
  <2>2. CASE m = n + 1
    <3>1. \A x \in m + 1 .. Len(jobs) : x = n + 2
      BY <2>2, <1>2, <1>5
    <3> QED BY <2>2, <3>1, <1>3, <1>6 DEF OfUndo
  <2>3. CASE m = n + 2
    BY <2>3, <1>3, <1>6 DEF OfUndo
  <2> QED BY <2>1, <2>2, <2>3, <1>6
<1>9. AllDue(jobs, i)
  <2>1. \A kind : KindDue(a, kind) => KindDue(jobs, kind)
    BY <1>6 DEF KindDue, n
  <2>2. \A x : PutDue(a, x) => PutDue(jobs, x)
    BY <1>6 DEF PutDue, n
  <2> QED BY <2>1, <2>2, <1>1 DEF Commands, AllDue
<1>10. \A k \in 1 .. Len(jobs) : ~ Logs(jobs[k])
  BY <1>3, <1>6, <1>7 DEF Logs
<1>11. jobs # <<>> /\ 1 \in 1 .. Len(jobs)
  BY <1>2, <1>5
<1>12. jobs[1] = Head(jobs)
  BY <1>5, <1>11, HeadTailProperties
<1>13. UndoProgram(i) = jobs
  BY DEF UndoProgram, jobs, a, b, r
<1> QED BY <1>2, <1>5, <1>8, <1>9, <1>10, <1>11, <1>12, <1>13

----------------------------------------------------------------------------
(* What a step leaves as it was                                            *)

SameRow(i) ==
  /\ log'[i].op = log[i].op /\ log'[i].subject = log[i].subject /\ log'[i].from = log[i].from
  /\ log'[i].parent = log[i].parent /\ log'[i].time = log[i].time
  /\ log'[i].can => log[i].can

\* Entries are opened, marked, spoiled and cleaned up; those of a cascade are
\* not older than the root, and go no earlier.
Evolves ==
  /\ \A i \in Ids : /\ i \in Ids'
                    /\ Live(i)' => Live(i) /\ SameRow(i)
                    /\ past'[i].first = past[i].first
                    /\ past'[i].clean => past[i].clean
  /\ \A i, k \in Ids : Live(i) /\ log[i].parent = k /\ Live(k)' => Live(i)'
  /\ \A d \in T!AnyCollection : state[d] # "absent" => state'[d] # "absent"

\* Snapshots go by age.
SnapsStay ==
  /\ \A i \in Ids : snap'[i] # NoSnap => snap'[i] = snap[i]
  /\ \A i, j \in Ids : /\ snap'[i] # NoSnap
                       /\ snap[j] # NoSnap
                       /\ snap[i].time <= snap[j].time
                       => snap'[j] # NoSnap

LEMMA SameEvolves ==
  ASSUME Typed, log' = log, GhostsStay,
         \A d \in T!AnyCollection : state[d] # "absent" => state'[d] # "absent"
  PROVE  Evolves
<1>1. \A i \in Ids : GhostKept(i)
  BY DEF GhostsStay, Ids, Typed, TablesTyped
<1> QED BY <1>1 DEF Evolves, SameRow, GhostKept, Live, Ids

LEMMA SameSnapsStay ==
  ASSUME snap' = snap
  PROVE  SnapsStay
BY DEF SnapsStay

LEMMA GrownEvolves ==
  ASSUME Typed, NEW row \in LogRow, NEW ghost \in Ghost, Grows(row, ghost), state' = state,
         Fits(row.op, row.subject), row.time = now, row.parent = 0 \/ Live(row.parent)
  PROVE  Evolves /\ SnapsStay
<1>1. PICK id : id = Len(log) + 1
  OBVIOUS
<1>2. \A i \in Ids : /\ log'[i] = log[i] /\ snap'[i] = snap[i] /\ past'[i] = past[i]
                     /\ i \in Ids' /\ (Live(i)' <=> Live(i))
  BY <1>1, Grown
<1> QED BY <1>2 DEF Evolves, SameRow, SnapsStay

\* The parent of an entry that is kept is kept.
LEMMA ParentKept ==
  ASSUME Sane, Sane', Evolves, NEW i \in Ids, Live(i)', log[i].parent # 0
  PROVE  \E k \in Ids : log[i].parent = k /\ Live(k)' /\ SameRow(k)
<1>1. RowFits(i)' /\ RowFits(i) /\ Live(i) /\ SameRow(i)
  BY DEF Sane, Typed, RowsFit, Evolves
<1>2. PICK k : log[i].parent = k
  OBVIOUS
<1>3. Live(k) /\ Live(k)'
  BY <1>1, <1>2 DEF RowFits, SameRow
<1> QED BY <1>2, <1>3 DEF Evolves, Live

LEMMA RowStays ==
  ASSUME Sane, Sane', Evolves, NEW i \in Ids, RowTold(i)
  PROVE  RowTold(i)'
<1> SUFFICES ASSUME Live(i)' PROVE RowTold(i)'
  BY DEF RowTold
<1>1. /\ Live(i) /\ SameRow(i) /\ past'[i].first = past[i].first
      /\ past'[i].clean => past[i].clean
  BY DEF Evolves
<1>2. log[i].parent # 0 => log'[log'[i].parent].time <= log'[i].time
  <2> SUFFICES ASSUME log[i].parent # 0 PROVE log'[log'[i].parent].time <= log'[i].time
    OBVIOUS
  <2>1. PICK k \in Ids : log[i].parent = k /\ Live(k)' /\ SameRow(k)
    BY ParentKept
  <2> QED BY <2>1, <1>1 DEF SameRow, RowTold
<1>3. log[i].op = "create_collection" => state'[log[i].subject] # "absent"
  <2> SUFFICES ASSUME log[i].op = "create_collection" PROVE state'[log[i].subject] # "absent"
    OBVIOUS
  <2>1. log[i].subject \in T!AnyCollection
    BY <1>1, PlaceFacts DEF Sane, Typed, RowsFit, RowFits, Fits
  <2>2. state[log[i].subject] # "absent"
    BY <1>1 DEF RowTold
  <2> QED BY <2>1, <2>2 DEF Evolves
<1> QED BY <1>1, <1>2, <1>3 DEF RowTold, SameRow

LEMMA SnapStays ==
  ASSUME Sane, Sane', Evolves, NEW i \in Ids, SnapTold(i), snap'[i] # NoSnap => snap'[i] = snap[i]
  PROVE  SnapTold(i)'
<1> SUFFICES ASSUME snap'[i] # NoSnap PROVE SnapTold(i)'
  BY DEF SnapTold
<1>1. snap'[i] = snap[i] /\ i \in Ids'
  BY DEF Evolves
<1>2. Live(i)'
  BY <1>1 DEF Sane, Typed, RowsFit, SnapFits
<1>3. /\ Live(i) /\ SameRow(i) /\ past'[i].first = past[i].first
      /\ past'[i].clean => past[i].clean
  BY <1>2 DEF Evolves
<1>4. log[i].parent # 0 =>
        /\ log'[log'[i].parent].op = log[log[i].parent].op
        /\ past'[log'[i].parent].first = past[log[i].parent].first
  <2> SUFFICES ASSUME log[i].parent # 0
               PROVE  /\ log'[log'[i].parent].op = log[log[i].parent].op
                      /\ past'[log'[i].parent].first = past[log[i].parent].first
    OBVIOUS
  <2>1. PICK k \in Ids : log[i].parent = k /\ Live(k)' /\ SameRow(k)
    BY <1>2, ParentKept
  <2> QED BY <2>1, <1>3 DEF SameRow, Evolves
<1> QED BY <1>1, <1>3, <1>4 DEF SnapTold, SameRow

----------------------------------------------------------------------------
(* The callers that do nothing                                             *)

LEMMA ForUndoStays ==
  ASSUME Sane, Sane', Evolves, NEW jobs \in Seq(JobSet), PutsFrom(jobs, Len(log)),
         NEW i \in Ids, Live(i)', ForUndo(jobs, i, log)
  PROVE  ForUndo(jobs, i, log')
<1>1. Live(i) /\ SameRow(i) /\ i # 0
  BY TablesFacts DEF Evolves, Sane, Typed
<1>2. ASSUME NEW m \in 1 .. Len(jobs)
      PROVE  OfUndo(jobs[m], i, log')
  <2>1. OfUndo(jobs[m], i, log)
    BY DEF ForUndo
  <2>2. jobs[m].do = "put" => jobs[m].of \in Ids
    BY DEF PutsFrom, Ids
  <2>3. ASSUME jobs[m].do = "put", log[jobs[m].of] # Gone, log[jobs[m].of].parent = i
        PROVE  log'[jobs[m].of] # Gone /\ log'[jobs[m].of].parent = i
    <3>1. PICK k \in Ids : k = jobs[m].of
      BY <2>2, <2>3
    <3>2. Live(k) /\ log[k].parent = i
      BY <3>1, <2>3 DEF Live
    <3>3. Live(k)'
      BY <3>2 DEF Evolves
    <3>4. SameRow(k) /\ log'[k] # Gone
      BY <3>3 DEF Evolves, Live
    <3> QED BY <3>1, <3>2, <3>4 DEF SameRow
  <2> QED BY <2>1, <2>3, <1>1 DEF OfUndo, SameRow
<1> QED BY <1>2 DEF ForUndo

LEMMA HeadStays ==
  ASSUME Evolves, NEW jobs \in Seq(JobSet), NEW was, HeadTold(jobs, was, state)
  PROVE  HeadTold(jobs, was, state')
<1> SUFFICES ASSUME Len(jobs) >= 1, Own(jobs[1]), jobs[1].op = "create_collection"
             PROVE  state'[jobs[1].subject] # "absent"
  BY DEF HeadTold
<1>1. jobs[1] \in JobSet
  <2>1. Len(jobs) \in Nat /\ 1 \in 1 .. Len(jobs)
    OBVIOUS
  <2> QED BY <2>1, ElementOfSeq
<1>2. jobs[1].do = "note"
  BY <1>1, JobKinds DEF Own, JoinJob
<1>3. jobs[1].subject \in T!AnyCollection
  BY <1>1, <1>2, JobKinds, PlaceFacts DEF Fits
<1>4. state[jobs[1].subject] # "absent"
  BY DEF HeadTold
<1> QED BY <1>3, <1>4 DEF Evolves

LEMMA CallerStays ==
  ASSUME Sane, Sane', Evolves, NEW d \in Caller, CallerTold(d), Undisturbed(d),
         NEW i, i = call[d].last,
         i \in Ids /\ Keeping(d, i) /\ past'[i].clean => (snap'[i] = NoSnap => snap[i] = NoSnap)
  PROVE  CallerTold(d)'
<1>1. PICK r, u, jobs : r = call[d].root /\ u = call[d].undoing /\ jobs = call[d].jobs
  OBVIOUS
<1>2. /\ jobs \in Seq(JobSet) /\ PutsFrom(jobs, Len(log))
      /\ i \in {0} \cup Ids /\ r \in {0} \cup Ids /\ u \in {0} \cup Ids
  BY <1>1, CallFacts DEF Sane, Typed, CallsTyped, JobsFit
<1>3. /\ call'[d].jobs = jobs /\ call'[d].root = r /\ call'[d].last = i /\ call'[d].undoing = u
      /\ call'[d].was = call[d].was
      /\ (Busy(d)' <=> Busy(d)) /\ Todo(d)' = Todo(d)
  BY <1>1 DEF Undisturbed, Busy, Todo
<1>4. ~ Live(0) /\ ~ Live(0)'
  BY DEF Live, Ids
<1>5. Paired(jobs) /\ Told(jobs, call[d].was, state')
  BY <1>2, <1>1, HeadStays DEF CallerTold, Told
<1>6. u # 0 /\ Live(u)' => ForUndo(jobs, u, log')
  <2> SUFFICES ASSUME u # 0, Live(u)' PROVE ForUndo(jobs, u, log')
    OBVIOUS
  <2>1. u \in Ids
    BY <1>2
  <2>2. Live(u)
    BY <2>1 DEF Evolves
  <2>3. ForUndo(jobs, u, log)
    BY <1>1, <2>2 DEF CallerTold, UndoTold
  <2> QED BY <1>2, <2>1, <2>3, ForUndoStays
<1>7. ~ Busy(d) => u = 0 /\ r = 0
  BY <1>1 DEF CallerTold, UndoTold
<1>8. Busy(d) /\ Todo(d).do = "retitle" => u = 0
  BY <1>1 DEF CallerTold, UndoTold
<1>9. UndoTold(d)'
  <2> QED BY <1>3, <1>6, <1>7, <1>8 DEF UndoTold
<1>10. RootTold(d)'
  <2> SUFFICES ASSUME Busy(d), Live(r)', log'[r].op = "delete_thing"
               PROVE  /\ Follows(Todo(d)) => call[d].was = past'[r].first
                      /\ r > u
    <3> QED BY <1>3 DEF RootTold
  <2>1. r \in Ids
    BY <1>2, <1>4
  <2>2. Live(r) /\ SameRow(r) /\ past'[r].first = past[r].first
    BY <2>1 DEF Evolves
  <2> QED BY <1>1, <2>2 DEF CallerTold, RootTold, SameRow
<1>11. KeepTold(d)'
  <2> SUFFICES ASSUME Busy(d), Todo(d).do = "keep", Live(i)'
               PROVE  /\ log'[i].op \in {"update_thing", "move_thing", "delete_thing"}
                      /\ Todo(d).thing = log'[i].subject
                      /\ past'[i].clean /\ snap'[i] = NoSnap => call[d].was = past'[i].first
                      /\ log'[i].parent # 0 => log'[i].parent = r
                      /\ log'[i].op = "delete_thing" /\ log'[i].parent = 0 =>
                           /\ r = i
                           /\ \A t \in BelowOnly(past'[i].first, log'[i].subject) :
                                Pending(jobs, 1, t)
    <3> QED BY <1>3 DEF KeepTold
  <2>1. i \in Ids
    BY <1>2, <1>4
  <2>2. Live(i) /\ SameRow(i) /\ past'[i].first = past[i].first
        /\ (past'[i].clean => past[i].clean)
    BY <2>1 DEF Evolves
  <2>3. past'[i].clean => (snap'[i] = NoSnap => snap[i] = NoSnap)
    BY <2>1 DEF Keeping
  <2>4. KeepTold(d) /\ Live(call[d].last)
    BY <2>2 DEF CallerTold
  <2>5. /\ log[i].op \in {"update_thing", "move_thing", "delete_thing"}
        /\ Todo(d).thing = log[i].subject
        /\ past[i].clean /\ snap[i] = NoSnap => call[d].was = past[i].first
        /\ log[i].parent # 0 => log[i].parent = r
        /\ log[i].op = "delete_thing" /\ log[i].parent = 0 =>
             /\ r = i
             /\ \A t \in BelowOnly(past[i].first, log[i].subject) : Pending(jobs, 1, t)
    BY <1>1, <2>4 DEF KeepTold
  <2> QED BY <2>2, <2>3, <2>5 DEF SameRow
<1> QED BY <1>3, <1>5, <1>9, <1>10, <1>11, <1>1 DEF CallerTold

----------------------------------------------------------------------------
(* The families of deletions                                               *)

\* What d does has nothing to do with the cascade it writes, or that is given up.
Settled(d) ==
  \/ Undisturbed(d)
  \/ ~ Busy(d) \/ ~ Follows(Todo(d))
  \/ \A i \in Ids \cap {call[d].root, call[d].last} : ~ past'[i].clean

LEMMA FamilyStays ==
  ASSUME Sane, Sane', Evolves, SnapsStay, \A d \in Caller : CallerTold(d) /\ Settled(d),
         NEW i \in Ids, Family(i)
  PROVE  Family(i)'
<1> SUFFICES ASSUME Live(i)', past'[i].clean, log'[i].op = "delete_thing", log'[i].parent = 0,
                    NEW t \in BelowOnly(past'[i].first, log'[i].subject)
             PROVE  ToWrite(i, t)' \/ Written(i, t)'
  BY DEF Family
<1>1. Live(i) /\ past[i].clean /\ SameRow(i) /\ past'[i].first = past[i].first
  BY DEF Evolves
<1>2. ToWrite(i, t) \/ Written(i, t)
  BY <1>1 DEF Family, SameRow
<1>3. CASE ToWrite(i, t)
  <2>1. PICK d \in Caller : Busy(d) /\ call[d].root = i /\ Pending(call[d].jobs, 1, t)
    BY <1>3 DEF ToWrite
  <2>2. call[d].jobs \in Seq(JobSet) /\ call[d].jobs # <<>> /\ Todo(d) = call[d].jobs[1]
    BY <2>1, CallFacts, TodoFacts DEF Sane, Typed, Busy
  <2>3. Follows(Todo(d))
    BY <2>1, <2>2, PendingRest
  <2>4. Undisturbed(d)
    BY <2>1, <2>3 DEF Settled
  <2> QED BY <2>1, <2>4 DEF ToWrite, Undisturbed, Busy
<1>4. CASE Written(i, t)
  <2>1. PICK j \in Cascades(i) :
          /\ log[j].subject = t
          /\ snap[i] # NoSnap => IF snap[j] = NoSnap THEN KeepDue(j)
                                 ELSE snap[i].time <= snap[j].time
    BY <1>4 DEF Written
  <2>2. j \in Ids /\ Live(j) /\ log[j].parent = i /\ i # 0
    BY TablesFacts DEF Cascades, Sane, Typed
  <2>3. Live(j)'
    BY <2>2 DEF Evolves
  <2>4. SameRow(j) /\ j \in Ids'
    BY <2>2, <2>3 DEF Evolves
  <2>5. j \in Cascades(i)' /\ log'[j].subject = t
    BY <2>1, <2>2, <2>3, <2>4 DEF Cascades, SameRow
  <2>6. ASSUME snap'[i] # NoSnap
        PROVE  IF snap'[j] = NoSnap THEN KeepDue(j)' ELSE snap'[i].time <= snap'[j].time
    <3>1. snap'[i] = snap[i]
      BY <2>6 DEF SnapsStay
    <3>2. CASE snap[j] # NoSnap
      <4>1. snap[i].time <= snap[j].time
        BY <2>1, <2>6, <3>1, <3>2
      <4>2. snap'[j] # NoSnap /\ snap'[j] = snap[j]
        BY <2>2, <2>6, <3>2, <4>1 DEF SnapsStay
      <4> QED BY <3>1, <4>1, <4>2
    <3>3. CASE snap[j] = NoSnap
      <4>1. snap'[j] = NoSnap
        BY <2>2, <3>3 DEF SnapsStay
      <4>2. PICK d \in Caller : call[d].last = j /\ Busy(d) /\ Todo(d).do = "keep"
        BY <2>1, <2>6, <3>1, <3>3 DEF KeepDue
      <4>3. call[d].root = i
        <5>1. KeepTold(d) /\ Live(call[d].last)
          BY <2>2, <4>2 DEF CallerTold
        <5> QED BY <5>1, <2>2, <4>2 DEF KeepTold
      <4>4. Undisturbed(d)
        BY <4>2, <4>3 DEF Settled, Follows
      <4>5. KeepDue(j)'
        BY <4>2, <4>4 DEF KeepDue, Undisturbed, Busy, Todo
      <4> QED BY <4>1, <4>5
    <3> QED BY <3>2, <3>3
  <2> QED BY <2>5, <2>6 DEF Written
<1> QED BY <1>2, <1>3, <1>4

----------------------------------------------------------------------------
(* What is brought back stays so                                           *)

BackIn(m, old, t) ==
  /\ T!Home(m, t) = old.home
  /\ old.entries # {} => View(m, t).entries = old.entries

\* The step undoes nothing of what an undo of i has brought back.
Safe(i) ==
  LET s == log[i].subject
      first == past[i].first
  IN /\ log[i].op = "create_thing" /\ T!Home(meta, s) = Trash => T!Home(meta', s) = Trash
     /\ log[i].op = "move_thing" /\ T!Home(meta, s) = first[s].home =>
          T!Home(meta', s) = first[s].home
     /\ log[i].op = "create_collection" /\ state[s] = "archived" => state'[s] = "archived"
     /\ log[i].op = "delete_collection" /\ state[s] = "active" => state'[s] = "active"
     /\ log[i].op \in {"update_thing", "delete_thing"} =>
          \A y \in Thing : BackIn(meta, first[y], y) => BackIn(meta', first[y], y)

Lasts(i) ==
  /\ Live(i)'
  /\ Safe(i)
  /\ log[i].op = "delete_thing" => (snap'[i] # NoSnap <=> snap[i] # NoSnap)
  /\ \A j \in Cascades(i) : snap[j] # NoSnap => snap'[j] # NoSnap

\* What was due is still, or is done.
PutDone(old, i, x) ==
  /\ snap[x] # NoSnap => BackIn(meta', past[i].first[log[x].subject], log[x].subject)
  /\ x = i => snap[i] # NoSnap
  /\ x # i => ~ PutDue(old, i)

StillDue(old, new, i) ==
  LET s == log[i].subject
  IN /\ \A x \in Ids : PutDue(old, x) => PutDue(new, x) \/ PutDone(old, i, x)
     /\ KindDue(old, "bin") => KindDue(new, "bin") \/ T!Home(meta', s) = Trash
     /\ KindDue(old, "put back") =>
          KindDue(new, "put back") \/ T!Home(meta', s) = past[i].first[s].home
     /\ KindDue(old, "shelve") => KindDue(new, "shelve") \/ state'[s] = "archived"
     /\ KindDue(old, "reopen") => KindDue(new, "reopen") \/ state'[s] = "active"

LEMMA SameDue ==
  ASSUME NEW jobs, NEW i
  PROVE  StillDue(jobs, jobs, i)
BY DEF StillDue

LEMMA ReachedStays ==
  ASSUME Sane, Sane', Evolves, NEW i \in Ids, SnapTold(i), Lasts(i), NEW old, NEW new,
         StillDue(old, new, i), Reached(old, i)
  PROVE  Reached(new, i)'
<1> DEFINE s == log[i].subject
           first == past[i].first
<1>1. /\ Live(i) /\ Live(i)' /\ SameRow(i) /\ past'[i].first = past[i].first
      /\ i \in Ids'
  BY DEF Lasts, Evolves
<1>2. \A o, t : /\ Back(o, t) <=> BackIn(meta, o, t)
                /\ Back(o, t)' <=> BackIn(meta', o, t)
  BY DEF Back, BackIn
<1>3. Fits(log[i].op, s)
  BY <1>1 DEF Sane, Typed, RowsFit, RowFits
<1>4. ASSUME log[i].op = "update_collection"
      PROVE  PutDue(new, i)
  <2>1. PutDue(old, i)
    BY <1>4 DEF Reached
  <2>2. snap[i] = NoSnap
    BY <1>4 DEF SnapTold
  <2> QED BY <2>1, <2>2 DEF StillDue, PutDone
<1>5. ASSUME log[i].op = "update_thing"
      PROVE  PutDue(new, i) \/ BackIn(meta', first[s], s)
  <2>1. PutDue(old, i) \/ BackIn(meta, first[s], s)
    BY <1>2, <1>5 DEF Reached
  <2>2. s \in Thing
    BY <1>3, <1>5 DEF Fits
  <2>3. CASE PutDue(old, i)
    BY <2>3 DEF StillDue, PutDone
  <2>4. CASE BackIn(meta, first[s], s)
    BY <1>5, <2>2, <2>4 DEF Lasts, Safe
  <2> QED BY <2>1, <2>3, <2>4
<1>6. ASSUME log[i].op = "delete_thing"
      PROVE  PutDue(new, i) \/ (snap'[i] # NoSnap /\ BackIn(meta', first[s], s))
  <2>1. PutDue(old, i) \/ (snap[i] # NoSnap /\ BackIn(meta, first[s], s))
    BY <1>2, <1>6 DEF Reached
  <2>2. s \in Thing /\ (snap'[i] # NoSnap <=> snap[i] # NoSnap)
    BY <1>3, <1>6 DEF Fits, Lasts
  <2>3. CASE PutDue(old, i)
    BY <2>2, <2>3 DEF StillDue, PutDone
  <2>4. CASE snap[i] # NoSnap /\ BackIn(meta, first[s], s)
    BY <1>6, <2>2, <2>4 DEF Lasts, Safe
  <2> QED BY <2>1, <2>3, <2>4
<1>7. ASSUME log[i].op = "delete_thing", NEW t \in BelowOnly(first, s)
      PROVE  PutAwaited(new, i, t)' \/ BackIn(meta', first[t], t)
  <2>1. PutAwaited(old, i, t) \/ BackIn(meta, first[t], t)
    BY <1>2, <1>7 DEF Reached
  <2>2. t \in Thing
    BY DEF BelowOnly, BelowIn
  <2>3. CASE BackIn(meta, first[t], t)
    BY <1>7, <2>2, <2>3 DEF Lasts, Safe
  <2>4. CASE PutAwaited(old, i, t)
    <3>1. PICK j \in Cascades(i) : /\ log[j].subject = t /\ PutDue(old, j)
                                   /\ snap[i] # NoSnap => snap[j] # NoSnap
      BY <2>4 DEF PutAwaited
    <3>2. /\ j \in Ids /\ Live(j) /\ log[j].parent = i
          /\ (snap[j] # NoSnap => snap'[j] # NoSnap)
          /\ (snap'[i] # NoSnap <=> snap[i] # NoSnap)
      BY <1>7 DEF Cascades, Lasts
    <3>3. j # i
      <4>1. RowFits(j)
        BY <3>2 DEF Sane, Typed, RowsFit
      <4>2. log[j].parent < j /\ j \in Nat /\ i \in Nat
        BY <4>1, <3>2, TablesFacts DEF RowFits, Sane, Typed
      <4> QED BY <3>2, <4>2
    <3>4. Live(j)'
      BY <1>1, <3>2 DEF Evolves
    <3>5. SameRow(j) /\ j \in Ids'
      BY <3>2, <3>4 DEF Evolves
    <3>6. CASE PutDue(new, j)
      <4>1. j \in Cascades(i)' /\ log'[j].subject = t
        BY <3>1, <3>2, <3>4, <3>5 DEF Cascades, SameRow
      <4> QED BY <3>1, <3>2, <3>6, <4>1 DEF PutAwaited, PutDue
    <3>7. CASE PutDone(old, i, j)
      <4>1. ~ PutDue(old, i)
        BY <3>3, <3>7 DEF PutDone
      <4>2. snap[i] # NoSnap
        BY <1>7, <4>1 DEF Reached
      <4> QED BY <3>1, <3>7, <4>2 DEF PutDone
    <3> QED BY <3>1, <3>2, <3>6, <3>7 DEF StillDue
  <2> QED BY <2>1, <2>3, <2>4
<1>8. log[i].op = "create_thing" => KindDue(new, "bin") \/ T!Home(meta', s) = Trash
  BY DEF Reached, StillDue, Lasts, Safe
<1>9. log[i].op = "move_thing" => KindDue(new, "put back") \/ T!Home(meta', s) = first[s].home
  BY DEF Reached, StillDue, Lasts, Safe
<1>10. log[i].op = "create_collection" => KindDue(new, "shelve") \/ state'[s] = "archived"
  BY DEF Reached, StillDue, Lasts, Safe
<1>11. log[i].op = "delete_collection" => KindDue(new, "reopen") \/ state'[s] = "active"
  BY DEF Reached, StillDue, Lasts, Safe
<1>12. /\ KindDue(new, "bin")' = KindDue(new, "bin")
       /\ KindDue(new, "put back")' = KindDue(new, "put back")
       /\ KindDue(new, "shelve")' = KindDue(new, "shelve")
       /\ KindDue(new, "reopen")' = KindDue(new, "reopen")
       /\ PutDue(new, i)' = PutDue(new, i)
  BY DEF KindDue, PutDue
<1>13. PICK sub, old1 : sub = s /\ old1 = first
  OBVIOUS
<1>14. log'[i].op = log[i].op /\ log'[i].subject = sub /\ past'[i].first = old1
  BY <1>1, <1>13 DEF SameRow
<1> HIDE DEF s, first
<1> QED BY <1>2, <1>4, <1>5, <1>6, <1>7, <1>8, <1>9, <1>10, <1>11, <1>12, <1>13, <1>14 DEF Reached

----------------------------------------------------------------------------
(* Who is alone                                                            *)

\* Caller a goes on with jobs, and the others wait.
Goes(a, jobs, root, last, was) ==
  /\ \A d \in Caller \ {a} : call'[d] = call[d]
  /\ call'[a].jobs = jobs
  /\ jobs = <<>> => call'[a].root = 0 /\ call'[a].undoing = 0
  /\ jobs # <<>> => /\ call'[a].root = root /\ call'[a].last = last /\ call'[a].was = was
                    /\ call'[a].undoing = call[a].undoing
                    /\ call'[a].alone = call[a].alone

LEMMA ContinuesGoes ==
  ASSUME Typed, NEW a \in Caller, NEW jobs, NEW root, NEW last, NEW was,
         Continues(a, jobs, root, last, was)
  PROVE  Goes(a, jobs, root, last, was)
<1> DEFINE old == call[a]
           new == [old EXCEPT !.jobs = jobs, !.root = root, !.last = last, !.was = was]
<1>1. call \in [Caller -> CallRec] /\ old \in CallRec
  BY DEF Typed, CallsTyped
<1>2. call' = [call EXCEPT ![a] = IF jobs = <<>> THEN Idle ELSE new]
  BY DEF Continues
<1> HIDE DEF old
<1>3. /\ new.jobs = jobs /\ new.root = root /\ new.last = last /\ new.was = was
      /\ new.undoing = old.undoing /\ new.alone = old.alone
  BY <1>1 DEF CallRec
<1> HIDE DEF new
<1>4. \A d \in Caller \ {a} : call'[d] = call[d]
  BY <1>1, <1>2
<1>5. call'[a] = IF jobs = <<>> THEN Idle ELSE new
  BY <1>1, <1>2
<1> QED BY <1>3, <1>4, <1>5, IdleType DEF Goes, old

LEMMA AloneGoes ==
  ASSUME \A c \in Caller : AloneTold(c), NEW a \in Caller, Busy(a), NEW jobs, NEW root, NEW last,
         NEW was, Goes(a, jobs, root, last, was), Todo(a).do = "retitle" => jobs = <<>>,
         NEW c \in Caller
  PROVE  AloneTold(c)'
<1> SUFFICES ASSUME Busy(c)', call'[c].alone, call'[c].undoing # 0, NEW d \in Caller, Busy(d)'
             PROVE  Todo(d)'.do = "retitle" \/ call'[d].undoing = call'[c].undoing
  BY DEF AloneTold
<1>1. \A x \in Caller \ {a} : call'[x] = call[x]
  BY DEF Goes
<1>2. Busy(c) /\ call[c].alone /\ call'[c].undoing = call[c].undoing
  BY <1>1 DEF Goes, Busy
<1>3. AloneTold(c) /\ call[c].undoing # 0
  BY <1>2
<1>4. CASE d # a
  BY <1>1, <1>2, <1>3, <1>4 DEF AloneTold, Busy, Todo
<1>5. CASE d = a
  <2>1. jobs # <<>>
    BY <1>5 DEF Busy, Goes
  <2>2. Todo(a).do # "retitle" /\ call'[a].undoing = call[a].undoing
    BY <2>1 DEF Goes
  <2> QED BY <1>2, <1>3, <1>5, <2>2 DEF AloneTold
<1> QED BY <1>4, <1>5

\* What those that are alone have brought back.
LEMMA ProgressGoes ==
  ASSUME Sane, Sane', Faithful, Evolves, NEW a \in Caller, Busy(a), NEW jobs, NEW root, NEW last,
         NEW was, Goes(a, jobs, root, last, was), Todo(a).do = "retitle" => jobs = <<>>,
         \A i \in Ids : /\ Live(i) /\ past[i].clean /\ log[i].parent = 0
                        /\ Todo(a).do = "retitle" \/ call[a].undoing = i
                        => Lasts(i),
         \A i \in Ids : /\ Live(i) /\ past[i].clean /\ log[i].parent = 0
                        /\ call[a].undoing = i /\ KindDue(jobs, "mark")
                        => /\ KindDue(call[a].jobs, "mark")
                           /\ StillDue(call[a].jobs, jobs, i),
         NEW c \in Caller
  PROVE  Progress(c)'
<1> SUFFICES ASSUME Alone(c)' PROVE Progress(c)'
  BY DEF Progress
<1>1. PICK i : i = call[c].undoing
  OBVIOUS
<1>2. \A x \in Caller \ {a} : call'[x] = call[x]
  BY DEF Goes
<1>3. Busy(c) /\ call[c].alone /\ call'[c].undoing = i /\ i # 0
  BY <1>1, <1>2 DEF Goes, Busy, Alone
<1>4. i \in Ids
  BY <1>1, <1>3 DEF Sane, Typed, CallsTyped
<1>5. past[i].clean
  BY <1>3, <1>4 DEF Alone, Evolves
<1>6. Live(i) /\ log[i].parent = 0 /\ log[i].op # "undo"
      /\ (KindDue(call[c].jobs, "mark") => Reached(call[c].jobs, i))
  BY <1>1, <1>3, <1>5 DEF Faithful, Progress, Alone
<1>7. Todo(a).do = "retitle" \/ call[a].undoing = i
  BY <1>1, <1>3 DEF Faithful, AloneTold
<1>8. Lasts(i)
  BY <1>4, <1>5, <1>6, <1>7
<1>9. Live(i)' /\ SameRow(i)
  BY <1>4, <1>8 DEF Lasts, Evolves
<1>10. PICK js : js = call'[c].jobs
  OBVIOUS
<1>11. ASSUME KindDue(js, "mark") PROVE Reached(js, i)'
  <2>1. CASE c # a
    <3>1. js = call[c].jobs
      BY <1>2, <1>10, <2>1
    <3>2. Reached(js, i)
      BY <1>6, <1>11, <3>1
    <3> QED BY <1>4, <1>8, <3>2, SameDue, ReachedStays DEF Faithful
  <2>2. CASE c = a
    <3>1. js = jobs
      BY <1>10, <2>2 DEF Goes
    <3>2. PICK before : before = call[a].jobs
      OBVIOUS
    <3>3. KindDue(before, "mark") /\ StillDue(before, js, i)
      BY <1>1, <1>4, <1>5, <1>6, <1>11, <2>2, <3>1, <3>2
    <3>4. Reached(before, i)
      BY <1>6, <2>2, <3>2, <3>3
    <3> QED BY <1>4, <1>8, <3>3, <3>4, ReachedStays DEF Faithful
  <2> QED BY <2>1, <2>2
<1>12. KindDue(js, "mark")' = KindDue(js, "mark")
  BY DEF KindDue
<1> QED BY <1>3, <1>6, <1>9, <1>10, <1>11, <1>12 DEF Progress, SameRow

----------------------------------------------------------------------------
(* Jobs that write no log                                                  *)

\* The first job gives way to n others, which write the log.
Pushed(jobs, n, old) ==
  /\ n \in Nat /\ Len(old) \in Nat /\ Len(old) >= 1
  /\ Len(jobs) = n + Len(old) - 1
  /\ \A k \in 1 .. n : Logs(jobs[k])
  /\ \A k \in 1 .. Len(old) - 1 : jobs[n + k] = old[k + 1]

LEMMA PushedJobs ==
  ASSUME NEW jobs, NEW n, NEW old, Pushed(jobs, n, old)
  PROVE  /\ \A k \in 1 .. Len(jobs) : \/ k <= n /\ Logs(jobs[k])
                                      \/ /\ k > n /\ k - n + 1 \in 2 .. Len(old)
                                         /\ jobs[k] = old[k - n + 1]
         /\ \A m \in 2 .. Len(old) : /\ n + m - 1 \in 1 .. Len(jobs) /\ n + m - 1 > n
                                     /\ jobs[n + m - 1] = old[m]
<1>1. n \in Nat /\ Len(old) \in Nat /\ Len(jobs) = n + Len(old) - 1
  BY DEF Pushed
<1>2. ASSUME NEW k \in 1 .. Len(jobs), k > n
      PROVE  k - n + 1 \in 2 .. Len(old) /\ jobs[k] = old[k - n + 1]
  <2>1. k - n \in 1 .. Len(old) - 1 /\ n + (k - n) = k
    BY <1>1, <1>2
  <2>2. jobs[n + (k - n)] = old[(k - n) + 1]
    BY <2>1 DEF Pushed
  <2> QED BY <1>1, <2>1, <2>2
<1>3. ASSUME NEW m \in 2 .. Len(old)
      PROVE  /\ n + m - 1 \in 1 .. Len(jobs) /\ n + m - 1 > n
             /\ jobs[n + m - 1] = old[m]
  <2>1. m - 1 \in 1 .. Len(old) - 1 /\ (m - 1) + 1 = m /\ n + (m - 1) = n + m - 1
    BY <1>1
  <2>2. jobs[n + (m - 1)] = old[(m - 1) + 1]
    BY <2>1 DEF Pushed
  <2> QED BY <1>1, <2>1, <2>2
<1>4. \A k \in 1 .. Len(jobs) : k <= n => k \in 1 .. n
  BY <1>1
<1> QED BY <1>1, <1>2, <1>3, <1>4 DEF Pushed

LEMMA PushedForUndo ==
  ASSUME NEW jobs, NEW n, NEW old, Pushed(jobs, n, old), NEW i, NEW l, ForUndo(old, i, l)
  PROVE  ForUndo(jobs, i, l)
<1>1. n \in Nat /\ Len(old) \in Nat /\ Len(jobs) = n + Len(old) - 1
  BY DEF Pushed
<1>2. ASSUME NEW m \in 1 .. Len(jobs), m <= n
      PROVE  OfUndo(jobs[m], i, l) /\ jobs[m].do \notin {"put", "mark"}
  <2>1. Logs(jobs[m])
    BY <1>1, <1>2, PushedJobs
  <2> QED BY <2>1 DEF Logs, OfUndo
<1>3. ASSUME NEW m \in 1 .. Len(jobs), m > n
      PROVE  /\ OfUndo(jobs[m], i, l)
             /\ jobs[m].do = "put" /\ jobs[m].of = i => \A x \in 1 .. m - 1 : jobs[x].do # "put"
             /\ jobs[m].do = "mark" => \A x \in m + 1 .. Len(jobs) : jobs[x].do = "record"
  <2>1. PICK k \in 2 .. Len(old) : k = m - n + 1 /\ jobs[m] = old[k]
    BY <1>1, <1>3, PushedJobs
  <2>2. /\ OfUndo(old[k], i, l)
        /\ old[k].do = "put" /\ old[k].of = i => \A x \in 1 .. k - 1 : old[x].do # "put"
        /\ old[k].do = "mark" => \A x \in k + 1 .. Len(old) : old[x].do = "record"
    BY DEF ForUndo
  <2>3. ASSUME jobs[m].do = "put", jobs[m].of = i, NEW x \in 1 .. m - 1
        PROVE  jobs[x].do # "put"
    <3>1. x \in 1 .. Len(jobs)
      BY <1>1
    <3>2. CASE x <= n
      BY <1>2, <3>1, <3>2
    <3>3. CASE x > n
      <4>1. x - n + 1 \in 1 .. k - 1 /\ jobs[x] = old[x - n + 1]
        BY <1>1, <2>1, <3>1, <3>3, PushedJobs
      <4> QED BY <2>1, <2>2, <2>3, <4>1
    <3> QED BY <3>2, <3>3, <1>1
  <2>4. ASSUME jobs[m].do = "mark", NEW x \in m + 1 .. Len(jobs)
        PROVE  jobs[x].do = "record"
    <3>1. x \in 1 .. Len(jobs) /\ x > n
      BY <1>1, <1>3
    <3>2. ~ (x <= n)
      BY <1>1, <3>1
    <3>3. x - n + 1 \in 2 .. Len(old) /\ jobs[x] = old[x - n + 1]
      BY <3>1, <3>2, PushedJobs
    <3>4. x - n + 1 \in k + 1 .. Len(old) /\ jobs[x] = old[x - n + 1]
      BY <1>1, <2>1, <3>1, <3>3
    <3> QED BY <2>1, <2>2, <2>4, <3>4
  <2> QED BY <2>1, <2>2, <2>3, <2>4
<1>4. \A m \in 1 .. Len(jobs) : m <= n \/ m > n
  BY <1>1
<1> QED BY <1>2, <1>3, <1>4 DEF ForUndo

\* The job that an undo of i has done brings back what it is for.
Achieves(j, i) ==
  LET s == log[i].subject
      first == past[i].first
  IN /\ j.do = "bin" => T!Home(meta', s) = Trash
     /\ j.do = "put back" => T!Home(meta', s) = first[s].home
     /\ j.do = "shelve" => state'[s] = "archived"
     /\ j.do = "reopen" => state'[s] = "active"
     /\ j.do = "put" =>
          /\ snap[j.of] # NoSnap => BackIn(meta', first[log[j.of].subject], log[j.of].subject)
          /\ j.of = i => snap[i] # NoSnap

LEMMA PushedDue ==
  ASSUME NEW jobs, NEW n, NEW old, Pushed(jobs, n, old), NEW i, ForUndo(old, i, log),
         Achieves(old[1], i)
  PROVE  /\ StillDue(old, jobs, i)
         /\ KindDue(jobs, "mark") => KindDue(old, "mark")
<1>1. n \in Nat /\ Len(old) \in Nat /\ Len(old) >= 1
  BY DEF Pushed
<1>2. ASSUME NEW m \in 1 .. Len(old), m # 1
      PROVE  \E k \in 1 .. Len(jobs) : jobs[k] = old[m]
  <2>1. m \in 2 .. Len(old)
    BY <1>1, <1>2
  <2>2. n + m - 1 \in 1 .. Len(jobs) /\ jobs[n + m - 1] = old[m]
    BY <2>1, PushedJobs
  <2> QED BY <2>2
<1>3. ASSUME NEW x, PutDue(old, x)
      PROVE  PutDue(jobs, x) \/ PutDone(old, i, x)
  <2>1. PICK m \in 1 .. Len(old) : old[m].do = "put" /\ old[m].of = x
    BY <1>3 DEF PutDue
  <2>2. CASE m # 1
    BY <2>1, <2>2, <1>2 DEF PutDue
  <2>3. CASE m = 1
    <3>1. x # i => ~ PutDue(old, i)
      <4> SUFFICES ASSUME x # i, NEW y \in 1 .. Len(old), old[y].do = "put", old[y].of = i
                   PROVE  FALSE
        BY DEF PutDue
      <4>1. y # 1
        BY <2>1, <2>3
      <4>2. 1 \in 1 .. y - 1
        BY <1>1, <4>1
      <4> QED BY <2>1, <2>3, <4>2 DEF ForUndo
    <3> QED BY <2>1, <2>3, <3>1 DEF Achieves, PutDone
  <2> QED BY <2>2, <2>3
<1>4. ASSUME NEW kind, KindDue(old, kind)
      PROVE  KindDue(jobs, kind) \/ old[1].do = kind
  <2>1. PICK m \in 1 .. Len(old) : old[m].do = kind
    BY <1>4 DEF KindDue
  <2> QED BY <2>1, <1>2 DEF KindDue
<1>5. KindDue(jobs, "mark") => KindDue(old, "mark")
  <2> SUFFICES ASSUME NEW k \in 1 .. Len(jobs), jobs[k].do = "mark"
               PROVE  \E m \in 1 .. Len(old) : old[m].do = "mark"
    BY DEF KindDue
  <2>1. ~ Logs(jobs[k])
    BY DEF Logs
  <2>2. k - n + 1 \in 2 .. Len(old) /\ jobs[k] = old[k - n + 1]
    BY <2>1, PushedJobs
  <2>3. k - n + 1 \in 1 .. Len(old)
    BY <1>1, <2>2
  <2> QED BY <2>2, <2>3
<1>6. /\ KindDue(old, "bin") => KindDue(jobs, "bin") \/ T!Home(meta', log[i].subject) = Trash
      /\ KindDue(old, "put back") => \/ KindDue(jobs, "put back")
                                     \/ T!Home(meta', log[i].subject)
                                          = past[i].first[log[i].subject].home
      /\ KindDue(old, "shelve") =>
           KindDue(jobs, "shelve") \/ state'[log[i].subject] = "archived"
      /\ KindDue(old, "reopen") =>
           KindDue(jobs, "reopen") \/ state'[log[i].subject] = "active"
  BY <1>4 DEF Achieves
<1> QED BY <1>3, <1>5, <1>6 DEF StillDue

LEMMA RestPushed ==
  ASSUME CallsTyped, JobsFit, NEW a \in Caller, Busy(a)
  PROVE  Pushed(Rest(a), 0, call[a].jobs) /\ Todo(a) = call[a].jobs[1]
<1>1. /\ Todo(a) = call[a].jobs[1]
      /\ Len(call[a].jobs) \in Nat /\ Len(Rest(a)) = Len(call[a].jobs) - 1
      /\ \A k \in 1 .. Len(Rest(a)) : Rest(a)[k] = call[a].jobs[k + 1]
  BY TodoFacts
<1>2. Len(call[a].jobs) >= 1
  BY CallFacts, EmptySeq DEF Busy
<1>3. \A k \in 1 .. Len(call[a].jobs) - 1 : Rest(a)[0 + k] = call[a].jobs[k + 1]
  BY <1>1
<1> QED BY <1>1, <1>2, <1>3 DEF Pushed

LEMMA NewPushed ==
  ASSUME CallsTyped, JobsFit, NEW a \in Caller, Busy(a), NEW new, Logging(new)
  PROVE  Pushed(new \o Rest(a), Len(new), call[a].jobs)
<1> DEFINE jobs == new \o Rest(a)
           n == Len(new)
<1>1. /\ Len(call[a].jobs) \in Nat /\ Len(Rest(a)) = Len(call[a].jobs) - 1
      /\ \A k \in 1 .. Len(Rest(a)) : Rest(a)[k] = call[a].jobs[k + 1]
      /\ Rest(a) \in Seq(JobSet) /\ Sound(Rest(a)) /\ Calm(Rest(a))
      /\ PutsFrom(Rest(a), Len(log))
  BY TodoFacts
<1>2. Len(call[a].jobs) >= 1
  BY CallFacts, EmptySeq DEF Busy
<1>3. /\ n \in Nat /\ Len(jobs) = n + Len(Rest(a))
      /\ \A k \in 1 .. n : jobs[k] = new[k]
      /\ \A k \in 1 .. Len(Rest(a)) : jobs[n + k] = Rest(a)[k]
  BY <1>1, SoundConcat
<1> HIDE DEF jobs
<1>4. \A k \in 1 .. n : Logs(jobs[k])
  BY <1>3 DEF Logging
<1>5. \A k \in 1 .. Len(call[a].jobs) - 1 : jobs[n + k] = call[a].jobs[k + 1]
  BY <1>1, <1>3
<1>6. Len(jobs) = n + Len(call[a].jobs) - 1
  BY <1>1, <1>3
<1> QED BY <1>1, <1>2, <1>3, <1>4, <1>5, <1>6 DEF Pushed, jobs

LEMMA UndoGoes ==
  ASSUME Sane, Sane', Evolves, NEW a \in Caller, Busy(a), UndoTold(a), NEW jobs, NEW n,
         Pushed(jobs, n, call[a].jobs), NEW root, NEW last, NEW was, Goes(a, jobs, root, last, was)
  PROVE  UndoTold(a)'
<1>1. PICK u, old : u = call[a].undoing /\ old = call[a].jobs
  OBVIOUS
<1>2. u \in {0} \cup Ids /\ old \in Seq(JobSet) /\ PutsFrom(old, Len(log))
  BY <1>1, CallFacts DEF Sane, Typed, CallsTyped, JobsFit
<1>3. ASSUME u # 0, Live(u)' PROVE ForUndo(jobs, u, log')
  <2>1. Live(u) /\ u \in Ids
    BY <1>2, <1>3 DEF Evolves
  <2>2. ForUndo(old, u, log)
    BY <1>1, <1>3, <2>1 DEF UndoTold
  <2>3. ForUndo(old, u, log')
    BY <1>2, <1>3, <2>1, <2>2, ForUndoStays
  <2> QED BY <1>1, <2>3, PushedForUndo
<1>4. jobs # <<>> => Head(jobs).do # "retitle"
  <2> SUFFICES ASSUME jobs # <<>> PROVE Head(jobs).do # "retitle"
    OBVIOUS
  <2>1. jobs \in Seq(JobSet)
    <3>1. CallsTyped' /\ jobs = call'[a].jobs
      BY DEF Sane, Typed, Goes
    <3> QED BY <3>1 DEF CallsTyped, CallRec
  <2>2. Len(jobs) \in Nat /\ 1 \in 1 .. Len(jobs) /\ Head(jobs) = jobs[1]
    BY <2>1, EmptySeq, HeadTailProperties
  <2>3. CASE Logs(jobs[1])
    BY <2>2, <2>3 DEF Logs
  <2>4. CASE ~ Logs(jobs[1])
    <3>1. 1 - n + 1 \in 2 .. Len(old) /\ jobs[1] = old[1 - n + 1]
      BY <1>1, <2>2, <2>4, PushedJobs
    <3>2. PICK m \in 2 .. Len(old) : jobs[1] = old[m]
      BY <3>1
    <3>3. /\ Len(old) \in Nat /\ Len(Rest(a)) = Len(old) - 1
          /\ \A k \in 1 .. Len(Rest(a)) : Rest(a)[k] = old[k + 1]
          /\ Calm(Rest(a))
      BY <1>1, TodoFacts DEF Sane, Typed
    <3>4. m - 1 \in 1 .. Len(Rest(a)) /\ (m - 1) + 1 = m
      BY <3>3
    <3>5. Rest(a)[m - 1] = old[(m - 1) + 1]
      BY <3>3, <3>4
    <3> QED BY <2>2, <3>2, <3>3, <3>4, <3>5 DEF Calm
  <2> QED BY <2>3, <2>4
<1>5. /\ call'[a].jobs = jobs
      /\ jobs = <<>> => call'[a].root = 0 /\ call'[a].undoing = 0
      /\ jobs # <<>> => call'[a].undoing = u
  BY <1>1 DEF Goes
<1> QED BY <1>3, <1>4, <1>5 DEF UndoTold, Busy, Todo

\* All but what the step has made.
OldTold ==
  /\ OneHome'
  /\ \A c \in Caller : CallerTold(c)' /\ AloneTold(c)' /\ Progress(c)'
  /\ \A i \in Ids : RowTold(i)' /\ SnapTold(i)' /\ Family(i)'

LEMMA JobDone ==
  ASSUME Sane, Sane', Faithful, Evolves, \A i \in Ids : snap'[i] = snap[i], OneHome',
         NEW a \in Caller, Busy(a), ~ Logs(Todo(a)), Todo(a).do # "retitle",
         NEW jobs, NEW n, Pushed(jobs, n, call[a].jobs),
         NEW root, root \in {0, call[a].root}, NEW last, NEW was,
         Goes(a, jobs, root, last, was), Paired(jobs), Told(jobs, was, state'),
         jobs # <<>> => ~ Follows(Head(jobs)),
         \A i \in Ids : Live(i) /\ past[i].clean /\ log[i].parent = 0 /\ call[a].undoing = i
                        => Live(i)' /\ Safe(i) /\ Achieves(Todo(a), i)
  PROVE  OldTold
<1>1. SnapsStay
  BY DEF SnapsStay
<1>2. \A d \in Caller \ {a} : Undisturbed(d)
  BY DEF Goes, Undisturbed
<1>3. \A c \in Caller : CallerTold(c) /\ AloneTold(c)
  BY DEF Faithful
<1>4. ASSUME NEW i \in Ids PROVE RowTold(i)' /\ SnapTold(i)' /\ Family(i)'
  <2>1. RowTold(i)'
    BY RowStays DEF Faithful
  <2>2. SnapTold(i)'
    BY SnapStays DEF Faithful
  <2>3. \A d \in Caller : Settled(d)
    BY <1>2 DEF Settled, Follows, Logs
  <2>4. Family(i)'
    BY <1>1, <1>3, <2>3, FamilyStays DEF Faithful
  <2> QED BY <2>1, <2>2, <2>4
<1>5. ASSUME NEW c \in Caller \ {a} PROVE CallerTold(c)'
  <2>1. PICK i : i = call[c].last
    OBVIOUS
  <2> QED BY <1>2, <1>3, <2>1, CallerStays
<1>6. CallerTold(a)'
  <2>1. UndoTold(a)'
    BY <1>3, UndoGoes DEF CallerTold
  <2>2. KeepTold(a)'
    BY DEF KeepTold, Goes, Busy, Todo, Follows
  <2>3. RootTold(a)'
    <3>1. PICK r : r = call'[a].root
      OBVIOUS
    <3> SUFFICES ASSUME Busy(a)', Live(r)', log'[r].op = "delete_thing"
                 PROVE  r > call'[a].undoing /\ ~ Follows(Todo(a))'
      BY <3>1 DEF RootTold
    <3>2. jobs # <<>> /\ r = root /\ call'[a].undoing = call[a].undoing
          /\ ~ Follows(Todo(a))'
      BY <3>1 DEF Goes, Busy, Todo, Follows
    <3>3. r # 0
      BY DEF Live, Ids
    <3>4. r = call[a].root /\ r \in Ids
      BY <3>2, <3>3 DEF Sane, Typed, CallsTyped
    <3>5. Live(r) /\ SameRow(r)
      BY <3>4 DEF Evolves
    <3>6. RootTold(a)
      BY <1>3 DEF CallerTold
    <3> QED BY <3>2, <3>4, <3>5, <3>6 DEF RootTold, SameRow
  <2>4. call'[a].jobs = jobs /\ (jobs # <<>> => call'[a].was = was)
    BY DEF Goes
  <2>5. jobs = <<>> => Told(jobs, call'[a].was, state')
    BY DEF Told, HeadTold
  <2> QED BY <2>1, <2>2, <2>3, <2>4, <2>5 DEF CallerTold
<1>7. ASSUME NEW c \in Caller PROVE AloneTold(c)'
  BY <1>3, AloneGoes
<1>8. ASSUME NEW i \in Ids, Live(i), past[i].clean, log[i].parent = 0,
             Todo(a).do = "retitle" \/ call[a].undoing = i
      PROVE  Lasts(i)
  BY <1>8 DEF Lasts, Cascades
<1>9. ASSUME NEW i \in Ids, Live(i), past[i].clean, log[i].parent = 0, call[a].undoing = i
      PROVE  /\ KindDue(jobs, "mark") => KindDue(call[a].jobs, "mark")
             /\ StillDue(call[a].jobs, jobs, i)
  <2>1. i # 0
    BY TablesFacts DEF Sane, Typed
  <2>2. ForUndo(call[a].jobs, i, log)
    BY <1>3, <1>9, <2>1 DEF CallerTold, UndoTold
  <2>3. Achieves(call[a].jobs[1], i)
    BY <1>9, RestPushed DEF Sane, Typed
  <2> QED BY <2>2, <2>3, PushedDue
<1>10. ASSUME NEW c \in Caller PROVE Progress(c)'
  BY <1>8, <1>9, ProgressGoes
<1> QED BY <1>4, <1>5, <1>6, <1>7, <1>10 DEF OldTold

----------------------------------------------------------------------------
(* The jobs of an undo                                                     *)

LEMMA OldIsAll ==
  ASSUME OldTold, Len(log') = Len(log)
  PROVE  Faithful'
BY DEF OldTold, Faithful, Ids

LEMMA DocsStaySafe ==
  ASSUME docs' = docs, NEW i
  PROVE  Safe(i)
BY DEF docs, Safe, BackIn

LEMMA RestSilent ==
  ASSUME Sane, NEW a \in Caller, Busy(a), ~ Logs(Todo(a))
  PROVE  /\ \A k \in 1 .. Len(Rest(a)) : ~ Logs(Rest(a)[k])
         /\ Rest(a) \in Seq(JobSet) /\ Len(Rest(a)) \in Nat
         /\ Rest(a) # <<>> => ~ Follows(Head(Rest(a)))
<1>1. /\ Rest(a) \in Seq(JobSet) /\ Len(call[a].jobs) \in Nat
      /\ Len(Rest(a)) = Len(call[a].jobs) - 1
      /\ \A k \in 1 .. Len(Rest(a)) : Rest(a)[k] = call[a].jobs[k + 1]
  BY TodoFacts DEF Sane, Typed
<1>2. \A k \in 1 .. Len(call[a].jobs) : ~ Logs(call[a].jobs[k])
  BY LogsFirst DEF Sane
<1>3. ASSUME NEW k \in 1 .. Len(Rest(a)) PROVE ~ Logs(Rest(a)[k])
  <2>1. k + 1 \in 1 .. Len(call[a].jobs)
    BY <1>1
  <2> QED BY <2>1, <1>1, <1>2
<1>4. Len(Rest(a)) \in Nat
  BY <1>1
<1>5. Rest(a) # <<>> => ~ Follows(Head(Rest(a)))
  <2> SUFFICES ASSUME Rest(a) # <<>> PROVE ~ Follows(Head(Rest(a)))
    OBVIOUS
  <2>1. 1 \in 1 .. Len(Rest(a)) /\ Head(Rest(a)) = Rest(a)[1]
    BY <1>1, <1>4, EmptySeq, HeadTailProperties
  <2> QED BY <2>1, <1>3 DEF Follows, Logs
<1> QED BY <1>1, <1>3, <1>4, <1>5

\* A job that changes no documents, and leaves the others to do.
LEMMA RestDone ==
  ASSUME Sane, Sane', Faithful, Evolves, docs' = docs, \A i \in Ids : snap'[i] = snap[i],
         NEW a \in Caller, Busy(a), ~ Logs(Todo(a)), Todo(a).do # "retitle",
         NEW root \in {0, call[a].root}, NEW last, Continues(a, Rest(a), root, last, call[a].was),
         \A i \in Ids : Live(i) /\ past[i].clean /\ log[i].parent = 0 /\ call[a].undoing = i
                        => Live(i)' /\ Achieves(Todo(a), i)
  PROVE  OldTold
<1>1. /\ \A k \in 1 .. Len(Rest(a)) : ~ Logs(Rest(a)[k])
      /\ Len(Rest(a)) \in Nat /\ (Rest(a) # <<>> => ~ Follows(Head(Rest(a))))
  BY RestSilent
<1>2. PICK was, jobs : was = call[a].was /\ jobs = Rest(a)
  OBVIOUS
<1>3. Paired(jobs) /\ Told(jobs, was, state')
  BY <1>1, <1>2, SilentTold
<1>4. Pushed(jobs, 0, call[a].jobs)
  BY <1>2, RestPushed DEF Sane, Typed
<1>5. Goes(a, jobs, root, last, was)
  BY <1>2, ContinuesGoes DEF Sane
<1>6. OneHome'
  BY DEF Faithful, OneHome, T!OneHome, T!IsLive, docs
<1> QED BY <1>1, <1>2, <1>3, <1>4, <1>5, <1>6, DocsStaySafe, JobDone

\* One that leaves log entries to be written before the others.
LEMMA NewDone ==
  ASSUME Sane, Sane', Faithful, Evolves, OneHome', log' = log, snap' = snap,
         NEW a \in Caller, Busy(a), ~ Logs(Todo(a)), Todo(a).do # "retitle",
         NEW new, Logging(new), NEW was, Paired(new), Told(new, was, state'), new # <<>>,
         new[1] = Head(new), ~ Follows(new[1]),
         Continues(a, new \o Rest(a), call[a].root, call[a].last, was),
         \A i \in Ids : Live(i) /\ past[i].clean /\ log[i].parent = 0 /\ call[a].undoing = i
                        => Safe(i) /\ Achieves(Todo(a), i)
  PROVE  Faithful'
<1>1. /\ \A k \in 1 .. Len(Rest(a)) : ~ Logs(Rest(a)[k])
      /\ Rest(a) \in Seq(JobSet) /\ new \in Seq(JobSet)
  BY RestSilent DEF Logging
<1>2. PICK jobs, last, root :
        jobs = new \o Rest(a) /\ last = call[a].last /\ root = call[a].root
  OBVIOUS
<1>3. PICK st : st = state'
  OBVIOUS
<1>4. Paired(jobs) /\ Told(jobs, was, st)
  BY <1>1, <1>2, <1>3, ConcatTold
<1>5. Pushed(jobs, Len(new), call[a].jobs)
  BY <1>2, NewPushed DEF Sane, Typed
<1>6. Goes(a, jobs, root, last, was)
  BY <1>2, ContinuesGoes DEF Sane
<1>7. Head(jobs) = new[1]
  <2>1. Len(new) \in Nat /\ Len(new) >= 1 /\ Len(Rest(a)) \in Nat
    BY <1>1, EmptySeq, LenProperties
  <2>2. jobs \in Seq(JobSet) /\ 1 \in 1 .. Len(jobs) /\ jobs[1] = new[1]
    BY <1>1, <1>2, <2>1, ConcatProperties
  <2>3. jobs # <<>>
    BY <2>2
  <2> QED BY <2>2, <2>3, HeadTailProperties
<1>8. \A i : Live(i) => Live(i)'
  BY DEF Live, Ids
<1>9. \A i \in Ids : snap'[i] = snap[i]
  OBVIOUS
<1>10. root \in {0, call[a].root} /\ Told(jobs, was, state')
  BY <1>2, <1>3, <1>4
<1>11. OldTold
  BY <1>2, <1>4, <1>5, <1>6, <1>7, <1>8, <1>9, <1>10, JobDone
<1> QED BY <1>11, OldIsAll

\* An error ends what the caller was doing.
LEMMA EndDone ==
  ASSUME Sane, Sane', Faithful, Evolves, docs' = docs, log' = log, snap' = snap,
         NEW a \in Caller, Busy(a), ~ Logs(Todo(a)), Continues(a, <<>>, 0, 0, call[a].was)
  PROVE  Faithful'
<1>1. PICK was : was = call[a].was
  OBVIOUS
<1>2. PICK jobs : jobs = <<>>
  OBVIOUS
<1>3. Goes(a, jobs, 0, 0, was)
  BY <1>1, <1>2, ContinuesGoes DEF Sane
<1>4. SnapsStay /\ \A i \in Ids : i \in Ids' /\ (Live(i) => Live(i)')
  BY DEF SnapsStay, Live, Ids
<1>5. \A d \in Caller \ {a} : Undisturbed(d)
  BY <1>3 DEF Goes, Undisturbed
<1>6. \A c \in Caller : CallerTold(c) /\ AloneTold(c)
  BY DEF Faithful
<1>7. ASSUME NEW i \in Ids PROVE RowTold(i)' /\ SnapTold(i)' /\ Family(i)'
  <2>1. RowTold(i)'
    BY RowStays DEF Faithful
  <2>2. SnapTold(i)'
    BY SnapStays DEF Faithful
  <2>3. \A d \in Caller : Settled(d)
    BY <1>5 DEF Settled, Follows, Logs
  <2>4. Family(i)'
    BY <1>4, <1>6, <2>3, FamilyStays DEF Faithful
  <2> QED BY <2>1, <2>2, <2>4
<1>8. ASSUME NEW c \in Caller \ {a} PROVE CallerTold(c)'
  <2>1. PICK i : i = call[c].last
    OBVIOUS
  <2> QED BY <1>5, <1>6, <2>1, CallerStays
<1>9. CallerTold(a)'
  <2>1. call'[a].jobs = <<>> /\ call'[a].root = 0 /\ call'[a].undoing = 0
    BY <1>2, <1>3 DEF Goes
  <2>2. Len(<<>>) = 0 /\ 1 .. 0 = {}
    OBVIOUS
  <2>3. Paired(<<>>) /\ Told(<<>>, call'[a].was, state')
    BY <2>2, SilentTold
  <2> QED BY <2>1, <2>3 DEF CallerTold, UndoTold, KeepTold, RootTold, Busy
<1>10. ASSUME NEW c \in Caller PROVE AloneTold(c)'
  BY <1>2, <1>3, <1>6, AloneGoes
<1>11. ASSUME NEW c \in Caller PROVE Progress(c)'
  <2>1. \A i \in Ids : Live(i) => Lasts(i)
    BY <1>4, DocsStaySafe DEF Lasts, Cascades
  <2>2. ~ KindDue(jobs, "mark")
    BY <1>2 DEF KindDue
  <2> QED BY <1>2, <1>3, <2>1, <2>2, ProgressGoes
<1>12. OneHome'
  BY DEF Faithful, OneHome, T!OneHome, T!IsLive, docs
<1>13. OldTold
  BY <1>7, <1>8, <1>9, <1>10, <1>11, <1>12 DEF OldTold
<1> QED BY <1>13, OldIsAll

LEMMA EnsuredStays ==
  ASSUME NEW s, NEW cs, NEW d \in T!AnyCollection, s[d] # "absent"
  PROVE  T!Ensured(s, cs)[d] # "absent"
BY DEF T!Ensured

\* What the job of an undo of i says of i.
LEMMA JobOfUndo ==
  ASSUME Sane, Faithful, NEW a \in Caller, Busy(a), NEW i \in Ids, Live(i), call[a].undoing = i
  PROVE  OfUndo(Todo(a), i, log) /\ i \in Nat /\ i # 0
<1>1. i \in Nat /\ i # 0
  BY TablesFacts DEF Sane, Typed
<1>2. ForUndo(call[a].jobs, i, log)
  BY <1>1 DEF Faithful, CallerTold, UndoTold
<1>3. 1 \in 1 .. Len(call[a].jobs) /\ Todo(a) = call[a].jobs[1]
  <2>1. call[a].jobs \in Seq(JobSet) /\ call[a].jobs # <<>>
    BY CallFacts DEF Busy, Sane, Typed
  <2> QED BY <2>1, EmptySeq, HeadTailProperties DEF Todo
<1> QED BY <1>1, <1>2, <1>3 DEF ForUndo

LEMMA PutsTold ==
  ASSUME Sane, Sane', Faithful, NEW a \in Caller, Busy(a), ~ Logs(Todo(a)), Todo(a).do # "retitle",
         NEW t \in Thing, NEW d \in T!AnyCollection, NEW view \in ViewSet, Puts(a, t, d, view),
         \A i \in Ids : Live(i) /\ past[i].clean /\ log[i].parent = 0 /\ call[a].undoing = i
                        => Safe(i) /\ Achieves(Todo(a), i)
  PROVE  Faithful'
<1>1. /\ state' = T!Ensured(state, T!System) /\ log' = log /\ snap' = snap /\ past' = past
      /\ meta' = Upserted(t, d, ParentArg(view), view.entries # {}, view.entries)
      /\ Continues(a, UpsertJobs(t, meta') \o Rest(a), call[a].root, call[a].last, Views(meta))
  BY DEF Puts, Tables
<1>2. meta \in Documents /\ ParentArg(view) \in Thing \cup {Keep, Clear}
      /\ view.entries \in SUBSET Entry
  BY ParentArgType DEF Sane, Typed, DocsTyped, ViewSet
<1>3. Evolves
  <2>1. GhostsStay
    BY <1>1, SameGhostsStay DEF Sane, Typed
  <2> QED BY <1>1, <2>1, EnsuredStays, SameEvolves DEF Sane
<1>4. OneHome'
  <2>1. PICK listed \in BOOLEAN :
          meta' = Upserted(t, d, ParentArg(view), listed, view.entries)
    BY <1>1
  <2> QED BY <1>2, <2>1, UpsertHome DEF Faithful
<1>5. PICK m, st, was : m = meta' /\ st = state' /\ was = Views(meta)
  OBVIOUS
<1>6. PICK new : new = UpsertJobs(t, m)
  OBVIOUS
<1>7. Logging(new) /\ Paired(new) /\ Told(new, was, st) /\ new # <<>> /\ new[1] = Head(new)
      /\ ~ Follows(new[1])
  BY <1>2, <1>5, <1>6, UpsertLogs, UpsertTold
<1>8. Continues(a, new \o Rest(a), call[a].root, call[a].last, was)
  BY <1>1, <1>5, <1>6
<1>9. Told(new, was, state')
  BY <1>5, <1>7
<1> QED BY <1>1, <1>3, <1>4, <1>7, <1>8, <1>9, NewDone

\* After an upsert of an undo.
LEMMA PutHome ==
  ASSUME OneHome, meta \in Documents, NEW t \in Thing, NEW d \in T!AnyCollection,
         NEW view \in ViewSet, NEW a, Puts(a, t, d, view)
  PROVE  /\ T!Home(meta', t) = d
         /\ view.entries # {} => View(meta', t).entries = view.entries
         /\ \A x \in Thing \ {t} : View(meta', x) = View(meta, x)
<1>1. ParentArg(view) \in Thing \cup {Keep, Clear} /\ view.entries \in SUBSET Entry
  BY ParentArgType DEF ViewSet
<1>2. PICK listed \in BOOLEAN : /\ meta' = Upserted(t, d, ParentArg(view), listed, view.entries)
                                /\ listed = (view.entries # {})
  BY DEF Puts
<1> QED BY <1>1, <1>2, UpsertHome

LEMMA PutSnapshotTold ==
  ASSUME Sane, Sane', Faithful, NEW a \in Caller, Busy(a), PutSnapshot(a)
  PROVE  Faithful'
<1>1. PICK j : j = Todo(a)
  OBVIOUS
<1>2. j.do = "put" /\ ~ Logs(j) /\ j.of \in Ids /\ Possible(j)
  <2>1. j.do = "put" /\ Possible(j)
    BY <1>1 DEF PutSnapshot
  <2>2. j = call[a].jobs[1] /\ 1 \in 1 .. Len(call[a].jobs)
    BY <1>1, CallFacts, TodoFacts, EmptySeq DEF Busy, Sane, Typed
  <2> QED BY <2>1, <2>2 DEF Logs, Sane, Typed, JobsFit, PutsFrom, Ids
<1>3. PICK k \in Ids : k = j.of
  BY <1>2
<1>4. SnapTold(k) /\ snap[k] \in SnapSet
  BY TablesFacts DEF Faithful, Sane, Typed
<1>5. ASSUME NEW i \in Ids, Live(i), past[i].clean, log[i].parent = 0, call[a].undoing = i
      PROVE  /\ i \in Nat /\ i # 0
             /\ \/ k = i /\ ~ j.child /\ log[i].op \notin {"create_thing", "move_thing",
                                                "create_collection", "delete_collection"}
                \/ k # i /\ log[i].op = "delete_thing" /\ log[k].parent = i
  <2>1. OfUndo(j, i, log) /\ i \in Nat /\ i # 0
    BY <1>1, <1>5, JobOfUndo
  <2> QED BY <1>2, <1>3, <1>5, <2>1 DEF OfUndo
<1>6. CASE snap[k] = NoSnap
  <2>1. /\ docs' = docs /\ log' = log /\ snap' = snap /\ past' = past
        /\ Continues(a, Rest(a), call[a].root, call[a].last, call[a].was)
    BY <1>1, <1>3, <1>6 DEF PutSnapshot, Tables
  <2>2. Evolves
    <3>1. GhostsStay
      BY <2>1, SameGhostsStay DEF Sane, Typed
    <3> QED BY <2>1, <3>1, SameEvolves DEF Sane, docs
  <2>3. j.child
    BY <1>2, <1>3, <1>6 DEF Possible
  <2>4. ASSUME NEW i \in Ids, Live(i), past[i].clean, log[i].parent = 0, call[a].undoing = i
        PROVE  Live(i)' /\ Achieves(j, i)
    <3>1. k # i
      BY <1>5, <2>3, <2>4
    <3> QED BY <1>2, <1>3, <1>6, <2>1, <2>4, <3>1 DEF Achieves, Live, Ids
  <2>5. OldTold
    <3>1. PICK r, l : r = call[a].root /\ l = call[a].last
      OBVIOUS
    <3>2. r \in {0, call[a].root}
      BY <3>1
    <3> QED BY <1>1, <1>2, <2>1, <2>2, <2>4, <3>1, <3>2, RestDone
  <2> QED BY <2>1, <2>5, OldIsAll
<1>7. CASE snap[k] # NoSnap
  <2>1. PICK s : s = snap[k]
    OBVIOUS
  <2>2. s \in Snapshot /\ s.thing \in Thing /\ s.view \in ViewSet
    BY <1>4, <1>7, <2>1 DEF SnapSet, Snapshot
  <2>3. /\ log[k].op \in {"update_thing", "move_thing", "delete_thing"}
        /\ s.thing = log[k].subject
        /\ s.view.home \in T!AnyCollection
        /\ past[k].clean => s.view = past[k].first[s.thing]
        /\ log[k].parent # 0 /\ log[log[k].parent].op = "delete_thing" =>
             s.view = past[log[k].parent].first[s.thing]
    BY <1>4, <1>7, <2>1 DEF SnapTold
  <2>4. PICK t \in Thing, d \in T!AnyCollection, view \in ViewSet :
          t = s.thing /\ d = s.view.home /\ view = s.view
    BY <2>2, <2>3
  <2>5. Puts(a, t, d, view)
    BY <1>1, <1>3, <1>7, <2>1, <2>4 DEF PutSnapshot
  <2>6. /\ T!Home(meta', t) = d
        /\ view.entries # {} => View(meta', t).entries = view.entries
        /\ \A x \in Thing \ {t} : View(meta', x) = View(meta, x)
    BY <2>5, PutHome DEF Faithful, Sane, Typed, DocsTyped
  <2>7. ASSUME NEW i \in Ids, Live(i), past[i].clean, log[i].parent = 0, call[a].undoing = i
        PROVE  Safe(i) /\ Achieves(j, i)
    <3>1. /\ log[i].op \in {"update_thing", "delete_thing", "update_collection", "undo"}
          /\ view = past[i].first[t]
      <4>1. Live(i) /\ log[i].op \in Op
        BY <2>7, TablesFacts DEF Sane, Typed, LogRow
      <4>2. CASE k = i
        BY <1>5, <2>3, <2>4, <2>7, <4>1, <4>2
      <4>3. CASE k # i
        BY <1>5, <2>3, <2>4, <2>7, <4>1, <4>3
      <4> QED BY <4>2, <4>3
    <3>2. BackIn(meta', past[i].first[t], t)
      BY <2>4, <2>6, <3>1 DEF BackIn
    <3>3. ASSUME NEW y \in Thing, BackIn(meta, past[i].first[y], y)
          PROVE  BackIn(meta', past[i].first[y], y)
      <4>1. CASE y = t
        BY <3>2, <4>1
      <4>2. CASE y # t
        <5>1. View(meta', y) = View(meta, y)
          BY <2>6, <4>2
        <5>2. T!Home(meta', y) = T!Home(meta, y)
          BY <5>1 DEF View
        <5> QED BY <3>3, <5>1, <5>2 DEF BackIn
      <4> QED BY <4>1, <4>2
    <3>4. Safe(i)
      BY <3>1, <3>3 DEF Safe
    <3>5. t = log[k].subject
      BY <2>3, <2>4
    <3> QED BY <1>2, <1>3, <1>7, <3>2, <3>4, <3>5 DEF Achieves
  <2> QED BY <1>1, <1>2, <2>5, <2>7, PutsTold
<1> QED BY <1>6, <1>7
LEMMA PutThingBackTold ==
  ASSUME Sane, Sane', Faithful, NEW a \in Caller, Busy(a), PutThingBack(a)
  PROVE  Faithful'
<1>1. PICK j : j = Todo(a)
  OBVIOUS
<1>2. j.do = "put back" /\ ~ Logs(j) /\ Puts(a, j.subject, j.from, View(meta, j.subject))
  BY <1>1 DEF PutThingBack, Logs
<1>3. j.subject \in Thing /\ j.from \in From
  <2>1. j \in PutBackJob
    BY <1>1, <1>2, TodoFacts, JobKinds DEF Sane, Typed
  <2> QED BY <2>1 DEF PutBackJob
<1>4. j.from # NoCollection
  BY <1>1, <1>2 DEF Puts, Possible
<1>5. View(meta, j.subject) \in ViewSet
  BY <1>3, ViewType DEF Sane, Typed, DocsTyped
<1>6. PICK t \in Thing, d \in T!AnyCollection, view \in ViewSet :
        t = j.subject /\ d = j.from /\ view = View(meta, j.subject)
  BY <1>3, <1>4, <1>5 DEF From
<1>7. Puts(a, t, d, view)
  BY <1>2, <1>6
<1>8. T!Home(meta', t) = d
  BY <1>7, PutHome DEF Faithful, Sane, Typed, DocsTyped
<1>9. ASSUME NEW i \in Ids, Live(i), past[i].clean, log[i].parent = 0, call[a].undoing = i
      PROVE  Safe(i) /\ Achieves(j, i)
  <2>1. log[i].op = "move_thing" /\ j.subject = log[i].subject /\ j.from = log[i].from
    BY <1>1, <1>2, <1>9, JobOfUndo DEF OfUndo
  <2>2. log[i].from = past[i].first[log[i].subject].home
    BY <1>4, <1>9, <2>1 DEF Faithful, RowTold
  <2>3. T!Home(meta', log[i].subject) = past[i].first[log[i].subject].home
    BY <1>6, <1>8, <2>1, <2>2
  <2> QED BY <1>2, <2>1, <2>3 DEF Safe, Achieves
<1> QED BY <1>1, <1>2, <1>7, <1>9, PutsTold

\* What leaves the documents as they are, and the tables, only goes on.
LEMMA NothingDone ==
  ASSUME Sane, Sane', Faithful, docs' = docs, log' = log, snap' = snap, past' = past,
         NEW a \in Caller, Busy(a), ~ Logs(Todo(a)), Todo(a).do # "retitle",
         Continues(a, Rest(a), call[a].root, call[a].last, call[a].was),
         \A i \in Ids : Live(i) /\ past[i].clean /\ log[i].parent = 0 /\ call[a].undoing = i
                        => Achieves(Todo(a), i)
  PROVE  Faithful'
<1>1. Evolves
  <2>1. GhostsStay
    BY SameGhostsStay DEF Sane, Typed
  <2> QED BY <2>1, SameEvolves DEF Sane, docs
<1>2. \A i \in Ids : Live(i)' <=> Live(i)
  BY DEF Live, Ids
<1>3. PICK r, l : r = call[a].root /\ l = call[a].last
  OBVIOUS
<1>4. r \in {0, call[a].root}
  BY <1>3
<1>5. OldTold
  BY <1>1, <1>2, <1>3, <1>4, RestDone
<1> QED BY <1>5, OldIsAll

LEMMA DeletesCreatedTold ==
  ASSUME Sane, Sane', Faithful, NEW a \in Caller, Busy(a), DeletesCreated(a)
  PROVE  Faithful'
<1>1. PICK j, t : j = Todo(a) /\ t = j.subject
  OBVIOUS
<1>2. j.do = "bin" /\ ~ Logs(j) /\ log' = log /\ snap' = snap /\ past' = past
  BY <1>1 DEF DeletesCreated, Logs, Tables
<1>3. t \in Thing
  <2>1. j \in BinJob
    BY <1>1, <1>2, TodoFacts, JobKinds DEF Sane, Typed
  <2> QED BY <1>1, <2>1 DEF BinJob
<1>4. ASSUME NEW i \in Ids, Live(i), past[i].clean, log[i].parent = 0, call[a].undoing = i,
             T!Home(meta', t) = Trash
      PROVE  Safe(i) /\ Achieves(j, i)
  <2>1. log[i].op = "create_thing" /\ j.subject = log[i].subject
    BY <1>1, <1>2, <1>4, JobOfUndo DEF OfUndo
  <2> QED BY <1>1, <1>2, <1>4, <2>1 DEF Safe, Achieves
<1>5. CASE T!DeleteThing(t) /\ Continues(a, DeleteJobs(t) \o Rest(a), call[a].root,
                                         call[a].last, Views(meta))
  <2>1. /\ T!Exists(meta, t) /\ state' = T!Ensured(state, {Trash})
        /\ meta' = T!Cascaded(meta, t, Trash, Keep, TRUE)
    BY <1>5 DEF T!DeleteThing
  <2>2. PICK archive \in BOOLEAN : meta' = T!Cascaded(meta, t, Trash, Keep, archive)
    BY <2>1
  <2>3. meta \in Documents /\ Trash \in T!AnyCollection
    BY PlaceFacts DEF Sane, Typed, DocsTyped
  <2>4. OneHome' /\ T!Home(meta', t) = Trash
    BY <1>3, <2>2, <2>3, CascadeHome DEF Faithful
  <2>5. Evolves
    <3>1. GhostsStay
      BY <1>2, SameGhostsStay DEF Sane, Typed
    <3> QED BY <1>2, <2>1, <3>1, EnsuredStays, SameEvolves DEF Sane
  <2>6. PICK st, was, new : st = state' /\ was = Views(meta) /\ new = DeleteJobs(t)
    OBVIOUS
  <2>7. Logging(new) /\ Paired(new) /\ Told(new, was, st) /\ new # <<>> /\ new[1] = Head(new)
        /\ ~ Follows(new[1])
    BY <1>3, <2>1, <2>3, <2>6, DeleteLogs, DeleteTold
  <2>8. Continues(a, new \o Rest(a), call[a].root, call[a].last, was)
    BY <1>5, <2>6
  <2>9. Told(new, was, state')
    BY <2>6, <2>7
  <2>10. Todo(a).do # "retitle"
    BY <1>1, <1>2
  <2> QED BY <1>1, <1>2, <1>4, <2>4, <2>5, <2>7, <2>8, <2>9, <2>10, NewDone
<1>6. CASE /\ T!Home(meta, t) = Trash
           /\ Continues(a, Rest(a), call[a].root, call[a].last, call[a].was)
           /\ UNCHANGED docs
  <2>1. T!Home(meta', t) = Trash /\ docs' = docs
    BY <1>6 DEF docs
  <2> QED BY <1>1, <1>2, <1>4, <1>6, <2>1, NothingDone
<1> QED BY <1>1, <1>5, <1>6 DEF DeletesCreated

\* A change of a collection by an undo.
LEMMA CollectionDone ==
  ASSUME Sane, Sane', Faithful, NEW a \in Caller, Busy(a), Todo(a).do \in {"shelve", "reopen"},
         NEW op \in {"create_collection", "update_collection", "delete_collection"},
         NEW d \in Collection, meta' = meta,
         \A x \in T!AnyCollection : state[x] # "absent" => state'[x] # "absent",
         state'[d] # "absent",
         Continues(a, <<Note(op, d, NoCollection, FALSE, TRUE)>> \o Rest(a), call[a].root,
                   call[a].last, Views(meta)),
         log' = log, snap' = snap, past' = past,
         \A i \in Ids : Live(i) /\ past[i].clean /\ log[i].parent = 0 /\ call[a].undoing = i
                        => Safe(i) /\ Achieves(Todo(a), i)
  PROVE  Faithful'
<1>1. ~ Logs(Todo(a)) /\ Todo(a).do # "retitle"
  BY DEF Logs
<1>2. OneHome'
  BY DEF Faithful, OneHome, T!OneHome, T!IsLive
<1>3. Evolves
  <2>1. GhostsStay
    BY SameGhostsStay DEF Sane, Typed
  <2> QED BY <2>1, SameEvolves DEF Sane
<1>4. PICK st, was, new : st = state' /\ was = Views(meta)
                          /\ new = <<Note(op, d, NoCollection, FALSE, TRUE)>>
  OBVIOUS
<1>5. Logging(new)
  <2>1. op \in Op /\ d \in Subject /\ Fits(op, d) /\ NoCollection \in From /\ op # "delete_thing"
    BY DEF Op, Subject, Fits, From
  <2>2. PICK from \in From, can \in BOOLEAN : from = NoCollection /\ can = TRUE
    BY <2>1
  <2> QED BY <1>4, <2>1, <2>2, OneEntry
<1>6. Paired(new) /\ Told(new, was, st) /\ new # <<>> /\ new[1] = Head(new) /\ ~ Follows(new[1])
  <2>1. PICK from, can : from = NoCollection /\ can = TRUE
    OBVIOUS
  <2>2. op \notin {"undo", "delete_thing", "move_thing"} /\ st[d] # "absent"
    BY <1>4
  <2> QED BY <1>4, <2>1, <2>2, NoteTold
<1>7. Continues(a, new \o Rest(a), call[a].root, call[a].last, was)
  BY <1>4
<1>8. Told(new, was, state')
  BY <1>4, <1>6
<1> QED BY <1>1, <1>2, <1>3, <1>5, <1>6, <1>7, <1>8, NewDone

LEMMA ShelfSubject ==
  ASSUME Sane, NEW a \in Caller, Busy(a), Todo(a).do \in {"shelve", "reopen"}
  PROVE  Todo(a).subject \in Collection
<1>1. Todo(a) \in ShelfJob
  BY TodoFacts, JobKinds DEF Sane, Typed
<1> QED BY <1>1 DEF ShelfJob

LEMMA ArchivesCreatedTold ==
  ASSUME Sane, Sane', Faithful, NEW a \in Caller, Busy(a), ArchivesCreated(a)
  PROVE  Faithful'
<1>1. PICK j, d : j = Todo(a) /\ d = j.subject
  OBVIOUS
<1>2. j.do = "shelve" /\ ~ Logs(j) /\ log' = log /\ snap' = snap /\ past' = past
  BY <1>1 DEF ArchivesCreated, Logs, Tables
<1>3. d \in Collection
  BY <1>1, <1>2, ShelfSubject
<1>4. ASSUME NEW i \in Ids, Live(i), past[i].clean, log[i].parent = 0, call[a].undoing = i
      PROVE  log[i].op = "create_collection" /\ d = log[i].subject /\ state[d] # "absent"
  <2>1. log[i].op = "create_collection" /\ d = log[i].subject
    BY <1>1, <1>2, <1>4, JobOfUndo DEF OfUndo
  <2> QED BY <1>4, <2>1 DEF Faithful, RowTold
<1>5. CASE /\ T!DeleteCollection(d)
           /\ Continues(a, <<Note("delete_collection", d, NoCollection, FALSE, TRUE)>> \o Rest(a),
                        call[a].root, call[a].last, Views(meta))
  <2>1. meta' = meta /\ state' = [T!Ensured(state, T!System) EXCEPT ![d] = "archived"]
    BY <1>5 DEF T!DeleteCollection
  <2>2. d \in T!AnyCollection
    BY <1>3 DEF T!AnyCollection
  <2>3. /\ state'[d] = "archived"
        /\ \A x \in T!AnyCollection : state[x] # "absent" => state'[x] # "absent"
    BY <2>1, <2>2 DEF T!Ensured
  <2>4. ASSUME NEW i \in Ids, Live(i), past[i].clean, log[i].parent = 0, call[a].undoing = i
        PROVE  Safe(i) /\ Achieves(j, i)
    BY <1>2, <1>4, <2>3, <2>4 DEF Safe, Achieves
  <2>5. PICK op \in {"create_collection", "update_collection", "delete_collection"} :
          Continues(a, <<Note(op, d, NoCollection, FALSE, TRUE)>> \o Rest(a),
                    call[a].root, call[a].last, Views(meta))
    BY <1>5
  <2>6. state'[d] # "absent"
    BY <2>3
  <2> QED BY <1>1, <1>2, <1>3, <2>1, <2>3, <2>4, <2>5, <2>6, CollectionDone
<1>6. CASE /\ state[d] # "active" /\ UNCHANGED docs
           /\ Continues(a, Rest(a), call[a].root, call[a].last, call[a].was)
  <2>1. docs' = docs /\ state' = state
    BY <1>6 DEF docs
  <2>2. state[d] \in {"absent", "active", "archived"}
    BY <1>3 DEF Sane, Typed, DocsTyped, DocStates, T!AnyCollection
  <2>3. ASSUME NEW i \in Ids, Live(i), past[i].clean, log[i].parent = 0, call[a].undoing = i
        PROVE  Achieves(j, i)
    BY <1>2, <1>4, <1>6, <2>1, <2>2, <2>3 DEF Achieves
  <2> QED BY <1>1, <1>2, <1>6, <2>1, <2>3, NothingDone
<1> QED BY <1>1, <1>5, <1>6 DEF ArchivesCreated

LEMMA ReopensDeletedTold ==
  ASSUME Sane, Sane', Faithful, NEW a \in Caller, Busy(a), ReopensDeleted(a)
  PROVE  Faithful'
<1>1. PICK j, d : j = Todo(a) /\ d = j.subject
  OBVIOUS
<1>2. j.do = "reopen" /\ log' = log /\ snap' = snap /\ past' = past /\ T!UpsertCollection(d)
  BY <1>1 DEF ReopensDeleted, Tables
<1>3. d \in Collection
  BY <1>1, <1>2, ShelfSubject
<1>4. meta' = meta /\ state' = T!Ensured(state, T!System \cup {d})
  BY <1>2 DEF T!UpsertCollection
<1>5. /\ state'[d] = "active"
      /\ \A x \in T!AnyCollection : state[x] # "absent" => state'[x] # "absent"
  BY <1>3, <1>4 DEF T!Ensured, T!AnyCollection
<1>6. ASSUME NEW i \in Ids, Live(i), past[i].clean, log[i].parent = 0, call[a].undoing = i
      PROVE  Safe(i) /\ Achieves(j, i)
  <2>1. log[i].op = "delete_collection" /\ d = log[i].subject
    BY <1>1, <1>2, <1>6, JobOfUndo DEF OfUndo
  <2> QED BY <1>2, <1>5, <2>1 DEF Safe, Achieves
<1>7. PICK op \in {"create_collection", "update_collection", "delete_collection"} :
        Continues(a, <<Note(op, d, NoCollection, FALSE, TRUE)>> \o Rest(a),
                  call[a].root, call[a].last, Views(meta))
  BY <1>1 DEF ReopensDeleted
<1>8. state'[d] # "absent"
  BY <1>5
<1> QED BY <1>1, <1>2, <1>3, <1>4, <1>5, <1>6, <1>7, <1>8, CollectionDone

LEMMA EndsWithErrorTold ==
  ASSUME Sane, Sane', Faithful, NEW a \in Caller, Busy(a), EndsWithError(a)
  PROVE  Faithful'
<1>1. /\ ~ Possible(Todo(a)) /\ Continues(a, <<>>, 0, 0, call[a].was)
      /\ docs' = docs /\ log' = log /\ snap' = snap /\ past' = past
  BY DEF EndsWithError, Tables
<1>2. ~ Logs(Todo(a))
  BY <1>1 DEF Possible, Logs
<1>3. Evolves
  <2>1. GhostsStay
    BY <1>1, SameGhostsStay DEF Sane, Typed
  <2> QED BY <1>1, <2>1, SameEvolves DEF Sane, docs
<1> QED BY <1>1, <1>2, <1>3, EndDone

LEMMA MarkUndoneTold ==
  ASSUME Sane, Sane', Faithful, NEW a \in Caller, Busy(a), MarkUndone(a)
  PROVE  Faithful'
<1> DEFINE u == call[a].undoing
           row == [log[u] EXCEPT !.can = FALSE]
<1>1. /\ Todo(a).do = "mark" /\ docs' = docs /\ snap' = snap
      /\ log' = IF Live(u) THEN [log EXCEPT ![u].can = FALSE] ELSE log
      /\ past' = [past EXCEPT ![u].through = @ \/ Len(Rest(a)) = 1]
      /\ Continues(a, Rest(a), call[a].root, call[a].last, call[a].was)
  BY DEF MarkUndone
<1>2. ~ Logs(Todo(a))
  BY <1>1 DEF Logs
<1>3. /\ Len(log) \in Nat /\ Ids = 1 .. Len(log) /\ log \in Seq(RowSet)
      /\ past \in Seq(Ghost) /\ Len(past) = Len(log)
  BY TablesFacts DEF Sane, Typed, TablesTyped
<1>4. \A i \in Ids : past'[i].first = past[i].first /\ past'[i].clean = past[i].clean
  <2> SUFFICES ASSUME NEW i \in Ids
               PROVE  past'[i].first = past[i].first /\ past'[i].clean = past[i].clean
    OBVIOUS
  <2>1. CASE i = u
    <3> DEFINE old == past[u]
    <3>1. old \in Ghost
      BY <1>3, <2>1
    <3>2. past'[i] = [old EXCEPT !.through = old.through \/ Len(Rest(a)) = 1]
      BY <1>1, <1>3, <2>1
    <3> HIDE DEF old
    <3>3. LET g == [old EXCEPT !.through = old.through \/ Len(Rest(a)) = 1]
          IN g.first = old.first /\ g.clean = old.clean
      BY <3>1 DEF Ghost
    <3> QED BY <2>1, <3>2, <3>3 DEF old
  <2>2. CASE i # u
    BY <1>1, <1>3, <2>2
  <2> QED BY <2>1, <2>2
<1>5. ASSUME Live(u)
      PROVE  /\ u \in Ids /\ row # Gone /\ row.can = FALSE
             /\ \A f \in {"op", "subject", "from", "time", "parent"} : row[f] = log[u][f]
             /\ log' = [log EXCEPT ![u] = row]
  <2> DEFINE old == log[u]
  <2>1. u \in Ids /\ old \in LogRow
    BY <1>5, TablesFacts DEF Live, Sane, Typed
  <2>2. log' = [log EXCEPT ![u] = row]
    BY <1>1, <1>5
  <2> HIDE DEF old
  <2>3. LET r == [old EXCEPT !.can = FALSE]
        IN r \in LogRow /\ r.can = FALSE
           /\ \A f \in {"op", "subject", "from", "time", "parent"} : r[f] = old[f]
    BY <2>1 DEF LogRow
  <2>4. row \in LogRow /\ row.can = FALSE
        /\ \A f \in {"op", "subject", "from", "time", "parent"} : row[f] = log[u][f]
    BY <2>3 DEF old
  <2> HIDE DEF row
  <2>5. row # Gone
    <3>1. row.op \in Op /\ "gone" \notin Op
      BY <2>4 DEF LogRow, Op
    <3> QED BY <3>1 DEF Gone
  <2> QED BY <2>1, <2>2, <2>4, <2>5
<1> HIDE DEF row
<1>6. /\ Len(log') = Len(log) /\ Ids' = Ids
      /\ \A i \in Ids : log'[i] = IF i = u /\ Live(u) THEN row ELSE log[i]
  <2>1. CASE Live(u)
    BY <2>1, <1>3, <1>5 DEF Ids
  <2>2. CASE ~ Live(u)
    BY <2>2, <1>1, <1>3 DEF Ids
  <2> QED BY <2>1, <2>2
<1>7. \A i \in Ids : (Live(i)' <=> Live(i)) /\ (Live(i) => SameRow(i))
  BY <1>5, <1>6 DEF Live, SameRow
<1>8. Evolves
  BY <1>1, <1>4, <1>6, <1>7 DEF Evolves, docs
<1>9. \A i : Achieves(Todo(a), i)
  BY <1>1 DEF Achieves
<1>10. PICK r, l : r = call[a].root /\ l = call[a].last
  OBVIOUS
<1>11. r \in {0, call[a].root}
  BY <1>10
<1>12. OldTold
  BY <1>1, <1>2, <1>7, <1>8, <1>9, <1>10, <1>11, RestDone
<1> QED BY <1>6, <1>12, OldIsAll

\* An entry that is written tells of its change.
LEMMA NewIsTold ==
  ASSUME Typed, OldTold, NEW row \in LogRow, NEW ghost \in Ghost, Grows(row, ghost),
         Fits(row.op, row.subject), row.time = now, row.parent = 0 \/ Live(row.parent),
         NEW id, id = Len(log) + 1, RowTold(id)', Family(id)'
  PROVE  Faithful'
<1>1. (\A i \in Ids' : i \in Ids \/ i = id) /\ snap'[id] = NoSnap
  BY Grown
<1>2. SnapTold(id)'
  BY <1>1 DEF SnapTold
<1> QED BY <1>1, <1>2 DEF OldTold, Faithful

LEMMA RecordUndoTold ==
  ASSUME Sane, Sane', Faithful, NEW a \in Caller, Busy(a), RecordUndo(a)
  PROVE  Faithful'
<1> DEFINE s == Todo(a).subject
<1>1. /\ Todo(a).do = "record" /\ docs' = docs /\ now' = now
      /\ Entered([op |-> "undo", subject |-> s, from |-> NoCollection,
                  parent |-> 0, can |-> FALSE, time |-> now])
      /\ past' = Append(past, [first |-> call[a].was, clean |-> FALSE,
                               could |-> FALSE, through |-> FALSE])
      /\ Continues(a, Rest(a), 0, 0, call[a].was)
  BY DEF RecordUndo
<1>2. s \in Subject /\ ~ Logs(Todo(a))
  <2>1. Todo(a) \in RecordJob
    BY <1>1, TodoFacts, JobKinds DEF Sane, Typed
  <2> QED BY <1>1, <2>1 DEF RecordJob, Logs
<1>3. now \in Nat /\ Len(log) \in Nat /\ call[a].was \in [Thing -> ViewSet]
  BY TablesFacts, CallFacts DEF Sane, Typed
<1> HIDE DEF s
<1>4. PICK row \in LogRow : /\ Entered(row) /\ row.op = "undo" /\ row.subject = s
                            /\ row.time = now /\ row.parent = 0 /\ ~ row.can
  <2>1. [op |-> "undo", subject |-> s, from |-> NoCollection,
         parent |-> 0, can |-> FALSE, time |-> now] \in LogRow
    BY <1>2, <1>3 DEF LogRow, Op
  <2> QED BY <1>1, <2>1
<1>5. PICK ghost \in Ghost : past' = Append(past, ghost) /\ ~ ghost.clean
  <2> DEFINE was == call[a].was
  <2>1. was \in [Thing -> ViewSet]
    BY <1>3
  <2>2. past' = Append(past, [first |-> was, clean |-> FALSE, could |-> FALSE, through |-> FALSE])
    BY <1>1
  <2> HIDE DEF was
  <2>3. [first |-> was, clean |-> FALSE, could |-> FALSE, through |-> FALSE] \in Ghost
    BY <2>1 DEF Ghost
  <2> QED BY <2>2, <2>3
<1>6. Grows(row, ghost) /\ Fits(row.op, row.subject)
  BY <1>1, <1>4, <1>5 DEF Entered, Grows, Fits
<1>7. PICK id : id = Len(log) + 1
  OBVIOUS
<1>8. /\ \A i \in Ids : snap'[i] = snap[i] /\ (Live(i)' <=> Live(i))
      /\ log'[id] = row /\ past'[id] = ghost
  BY <1>4, <1>6, <1>7, Grown DEF Sane
<1>9. Evolves
  BY <1>1, <1>4, <1>6, GrownEvolves DEF Sane, docs
<1>10. \A i : Achieves(Todo(a), i)
  BY <1>1 DEF Achieves
<1>11. PICK r, l : r = 0 /\ l = 0
  OBVIOUS
<1>12. r \in {0, call[a].root} /\ Todo(a).do # "retitle"
  BY <1>1, <1>11
<1>13. OldTold
  BY <1>1, <1>2, <1>8, <1>9, <1>10, <1>11, <1>12, RestDone
<1>14. RowTold(id)' /\ Family(id)'
  BY <1>4, <1>5, <1>8 DEF RowTold, Family
<1> QED BY <1>4, <1>6, <1>7, <1>13, <1>14, NewIsTold DEF Sane

LEMMA TrimLogTold ==
  ASSUME Sane, Sane', Faithful, NEW a \in Caller, Busy(a), TrimLog(a)
  PROVE  Faithful'
<1>1. /\ Todo(a).do = "trim" /\ docs' = docs /\ snap' = snap /\ past' = past /\ now' = now
      /\ log' = IF Refused THEN log ELSE [i \in Ids |-> IF Old(i) THEN Gone ELSE log[i]]
      /\ Continues(a, Rest(a), 0, 0, call[a].was)
  BY DEF TrimLog
<1>2. Len(log) \in Nat /\ Ids = 1 .. Len(log) /\ now \in Nat
  BY TablesFacts DEF Sane, Typed
<1>3. Evolves /\ Len(log') = Len(log)
  <2>1. CASE Refused
    <3>1. log' = log /\ GhostsStay
      BY <1>1, <2>1, SameGhostsStay DEF Sane, Typed
    <3> QED BY <1>1, <3>1, SameEvolves DEF Sane, docs
  <2>2. CASE ~ Refused
    <3>1. log' = [i \in 1 .. Len(log) |-> IF Old(i) THEN Gone ELSE log[i]]
      BY <1>1, <1>2, <2>2
    <3>2. Len(log') = Len(log) /\ Ids' = Ids
      BY <1>2, <3>1 DEF Ids
    <3>3. \A i \in Ids : (Live(i)' <=> Live(i) /\ ~ Old(i)) /\ (Live(i)' => SameRow(i))
      BY <1>2, <3>1, <3>2 DEF Live, SameRow
    <3>4. ASSUME NEW i \in Ids, NEW k \in Ids, Live(i), log[i].parent = k, Live(k)'
          PROVE  Live(i)'
      <4>1. Live(k) /\ ~ Old(k) /\ k # 0
        BY <1>2, <3>3, <3>4
      <4>2. log[k].time <= log[i].time
        BY <3>4, <4>1 DEF Faithful, RowTold
      <4>3. log[k].time \in Nat /\ log[i].time \in Nat /\ Retention \in Nat
        BY <3>4, <4>1, TablesFacts, HistoryAssumption DEF Sane, Typed, LogRow
      <4>4. ~ (log[k].time + Retention < now)
        BY <4>1 DEF Old
      <4>5. ~ (log[i].time + Retention < now)
        BY <1>2, <4>2, <4>3, <4>4
      <4> QED BY <3>3, <3>4, <4>5 DEF Old
    <3> QED BY <1>1, <3>2, <3>3, <3>4 DEF Evolves, docs
  <2> QED BY <2>1, <2>2
<1>4. ~ Logs(Todo(a)) /\ Todo(a).do # "retitle"
  BY <1>1 DEF Logs
<1>5. ASSUME NEW i \in Ids, Live(i), call[a].undoing = i
      PROVE  FALSE
  BY <1>1, <1>5, JobOfUndo DEF OfUndo
<1>6. PICK r, l : r = 0 /\ l = 0
  OBVIOUS
<1>7. r \in {0, call[a].root}
  BY <1>6
<1>8. OldTold
  BY <1>1, <1>3, <1>4, <1>5, <1>6, <1>7, RestDone
<1> QED BY <1>3, <1>8, OldIsAll

\* What a command does to the calls when it begins.
LEMMA BeginsGives ==
  ASSUME CallsTyped, NEW a \in Caller, NEW jobs, NEW u, Begins(a, jobs, u)
  PROVE  /\ \A d \in Caller \ {a} : /\ Undisturbed(d)
                                    /\ call'[d].alone => call[d].alone /\ d \notin Disturbed(u)
         /\ call'[a].jobs = jobs /\ call'[a].root = 0 /\ call'[a].last = 0
         /\ call'[a].undoing = u /\ call'[a].was = Views(meta)
         /\ call'[a].alone => Disturbed(u) = {}
         /\ past' = Spoiled(Roots(Disturbed(u)))
<1> DEFINE rec == [jobs |-> jobs, root |-> 0, last |-> 0, undoing |-> u,
                   alone |-> Disturbed(u) = {}, was |-> Views(meta)]
           cs == NotAlone(Disturbed(u))
<1>1. call' = [cs EXCEPT ![a] = rec] /\ past' = Spoiled(Roots(Disturbed(u)))
  BY DEF Begins
<1>2. DOMAIN cs = Caller
  BY DEF NotAlone
<1>3. \A d \in Caller : /\ cs[d].jobs = call[d].jobs /\ cs[d].root = call[d].root
                        /\ cs[d].last = call[d].last /\ cs[d].undoing = call[d].undoing
                        /\ cs[d].was = call[d].was
  BY NotAloneFacts
<1>4. ASSUME NEW d \in Caller, cs[d].alone
      PROVE  call[d].alone /\ d \notin Disturbed(u)
  <2>1. call[d] \in CallRec
    BY CallFacts
  <2>2. CASE d \in Disturbed(u)
    <3> DEFINE r == call[d]
    <3>1. cs[d] = [r EXCEPT !.alone = FALSE]
      BY <2>2 DEF NotAlone
    <3> HIDE DEF r, cs
    <3>2. r \in CallRec
      BY <2>1 DEF r
    <3>3. ~ [r EXCEPT !.alone = FALSE].alone
      BY <3>2 DEF CallRec
    <3> QED BY <1>4, <3>1, <3>3
  <2>3. CASE d \notin Disturbed(u)
    <3>1. cs[d] = call[d]
      BY <2>3 DEF NotAlone
    <3> HIDE DEF cs
    <3> QED BY <1>4, <2>3, <3>1
  <2> QED BY <2>2, <2>3
<1>5. /\ rec.jobs = jobs /\ rec.root = 0 /\ rec.last = 0 /\ rec.undoing = u
      /\ rec.was = Views(meta) /\ (rec.alone <=> Disturbed(u) = {})
  OBVIOUS
<1> HIDE DEF rec, cs
<1>6. call'[a] = rec /\ \A d \in Caller \ {a} : call'[d] = cs[d]
  BY <1>1, <1>2
<1> QED BY <1>1, <1>3, <1>4, <1>5, <1>6 DEF Undisturbed

\* Who has a snapshot or an entry of a cascade of the deletion u to write does
\* not undo it.
LEMMA NotOfRoot ==
  ASSUME Sane, Faithful, NEW d \in Caller, Busy(d), Follows(Todo(d)), NEW u \in Ids, Live(u),
         log[u].op = "delete_thing", call[d].root = u
  PROVE  call[d].undoing # u
<1>1. call[d].root > call[d].undoing
  BY DEF Faithful, CallerTold, RootTold
<1>2. u \in Nat
  BY TablesFacts DEF Sane, Typed
<1> QED BY <1>1, <1>2

\* A deletion that is about to be undone alone has all of its cascade.
LEMMA CascadeThere ==
  ASSUME Sane, Faithful, NEW u \in Ids, Live(u), past[u].clean, log[u].parent = 0,
         log[u].op = "delete_thing",
         \A d \in Caller : Busy(d) /\ Follows(Todo(d)) => call[d].undoing = u,
         NEW t \in BelowOnly(past[u].first, log[u].subject)
  PROVE  \E j \in Cascades(u) : log[j].subject = t /\ (snap[u] # NoSnap => snap[j] # NoSnap)
<1>1. ~ ToWrite(u, t)
  <2> SUFFICES ASSUME NEW d \in Caller, Busy(d), call[d].root = u, Pending(call[d].jobs, 1, t)
               PROVE  FALSE
    BY DEF ToWrite
  <2>1. call[d].jobs \in Seq(JobSet) /\ call[d].jobs # <<>>
    BY CallFacts DEF Busy, Sane, Typed
  <2>2. Follows(Todo(d))
    <3>1. Follows(call[d].jobs[1])
      BY <2>1, PendingRest
    <3> QED BY <3>1, TodoFacts DEF Sane, Typed
  <2> QED BY <2>2, NotOfRoot
<1>2. Written(u, t)
  BY <1>1 DEF Faithful, Family
<1>3. PICK j \in Cascades(u) :
        /\ log[j].subject = t
        /\ snap[u] # NoSnap => IF snap[j] = NoSnap THEN KeepDue(j) ELSE snap[u].time <= snap[j].time
  BY <1>2 DEF Written
<1>4. Live(j) /\ log[j].parent = u /\ j \in Ids /\ u # 0
  BY <1>3, TablesFacts DEF Cascades, Sane, Typed
<1>5. ~ KeepDue(j)
  <2> SUFFICES ASSUME NEW d \in Caller, call[d].last = j, Busy(d), Todo(d).do = "keep"
               PROVE  FALSE
    BY DEF KeepDue
  <2>1. call[d].root = u
    BY <1>4 DEF Faithful, CallerTold, KeepTold
  <2>2. Follows(Todo(d))
    BY DEF Follows
  <2> QED BY <2>1, <2>2, NotOfRoot
<1> QED BY <1>3, <1>5

\* A command that begins, or an undo.
LEMMA BeginsTold ==
  ASSUME Sane, Sane', Faithful, NEW a \in Caller, ~ Busy(a) \/ Todo(a).do = "retitle",
         NEW jobs, NEW u \in {0} \cup Ids, Begins(a, jobs, u), log' = log,
         \A d \in T!AnyCollection : state[d] # "absent" => state'[d] # "absent",
         SnapsStay, OneHome', NEW was, was = Views(meta),
         Paired(jobs), Told(jobs, was, state'),
         jobs # <<>>, ~ Follows(Head(jobs)), Head(jobs).do # "retitle",
         u # 0 => /\ docs' = docs /\ snap' = snap /\ Live(u) /\ log[u].can
                  /\ ForUndo(jobs, u, log) /\ AllDue(jobs, u)
  PROVE  Faithful'
<1>1. /\ \A d \in Caller \ {a} : /\ Undisturbed(d)
                                 /\ call'[d].alone => call[d].alone /\ d \notin Disturbed(u)
      /\ call'[a].jobs = jobs /\ call'[a].root = 0 /\ call'[a].last = 0
      /\ call'[a].undoing = u /\ call'[a].was = was
      /\ call'[a].alone => Disturbed(u) = {}
      /\ past' = Spoiled(Roots(Disturbed(u)))
  BY BeginsGives DEF Sane, Typed
<1>2. GhostsStay /\ \A i \in Ids \cap Roots(Disturbed(u)) : ~ past'[i].clean
  BY <1>1, SpoiledStay DEF Sane, Typed
<1>3. Evolves
  BY <1>2, SameEvolves DEF Sane
<1>4. Ids' = Ids /\ (\A i : Live(i)' <=> Live(i)) /\ ~ Live(0) /\ Ids \subseteq Nat \ {0}
  BY TablesFacts DEF Live, Ids, Sane, Typed
<1>5. \A d \in Caller : call[d].undoing = 0 \/ call[d].undoing \in Ids
  BY DEF Sane, Typed, CallsTyped
<1>6. \A d \in Caller \ {a} : /\ call'[d].jobs = call[d].jobs
                              /\ call'[d].undoing = call[d].undoing
                              /\ Busy(d)' <=> Busy(d)
                              /\ Todo(d)' = Todo(d)
  BY <1>1 DEF Undisturbed, Busy, Todo
<1>7. \A d \in Caller : Busy(d) /\ Todo(d).do = "retitle" => call[d].undoing = 0
  BY DEF Faithful, CallerTold, UndoTold
<1>8. \A d \in Caller : Busy(d) /\ d \notin Disturbed(u) =>
                          Todo(d).do = "retitle" \/ (u # 0 /\ call[d].undoing = u)
  BY DEF Disturbed, Todo
<1>9. ASSUME NEW d \in Caller PROVE CallerTold(d)'
  <2>1. CASE d # a
    <3>1. PICK i : i = call[d].last
      OBVIOUS
    <3>2. ASSUME i \in Ids, Keeping(d, i), past'[i].clean
          PROVE  snap'[i] = NoSnap => snap[i] = NoSnap
      <4>1. CASE u # 0
        BY <4>1
      <4>2. CASE u = 0
        <5>1. d \in Disturbed(u)
          BY <3>2, <4>2 DEF Keeping, Disturbed, Todo
        <5>2. i \in Roots(Disturbed(u))
          BY <3>1, <3>2, <5>1 DEF Roots, Keeping
        <5> QED BY <1>2, <3>2, <5>2
      <4> QED BY <4>1, <4>2
    <3>3. Undisturbed(d) /\ CallerTold(d)
      BY <1>1, <2>1 DEF Faithful
    <3> QED BY <1>3, <3>1, <3>2, <3>3, CallerStays
  <2>2. CASE d = a
    <3>1. Busy(d)' /\ Todo(d)' = Head(jobs)
      BY <1>1, <2>2 DEF Busy, Todo
    <3>2. Paired(call'[d].jobs) /\ Told(call'[d].jobs, call'[d].was, state')
      BY <1>1, <2>2
    <3>3. UndoTold(d)'
      <4>1. ForUndo(jobs, u, log') \/ u = 0
        OBVIOUS
      <4> QED BY <1>1, <2>2, <3>1, <4>1 DEF UndoTold
    <3>4. KeepTold(d)'
      BY <3>1 DEF KeepTold, Follows
    <3>5. RootTold(d)'
      BY <1>1, <1>4, <2>2 DEF RootTold
    <3> QED BY <3>2, <3>3, <3>4, <3>5 DEF CallerTold
  <2> QED BY <2>1, <2>2
<1>10. ASSUME NEW d \in Caller, d # a, Busy(d)', call'[d].alone, call'[d].undoing # 0
       PROVE  Busy(d) /\ call[d].alone /\ u # 0 /\ call[d].undoing = u
  BY <1>1, <1>6, <1>7, <1>8, <1>10
<1>11. ASSUME NEW c \in Caller PROVE AloneTold(c)'
  <2> SUFFICES ASSUME Busy(c)', call'[c].alone, call'[c].undoing # 0, NEW d \in Caller, Busy(d)'
               PROVE  (Todo(d).do = "retitle")' \/ call'[d].undoing = call'[c].undoing
    BY DEF AloneTold
  <2>1. CASE c = a
    <3>1. CASE d = a
      BY <2>1, <3>1
    <3>2. CASE d # a
      <4>1. Busy(d) /\ d \notin Disturbed(u)
        BY <1>1, <1>6, <2>1, <3>2
      <4> QED BY <1>1, <1>6, <1>8, <2>1, <3>2, <4>1
    <3> QED BY <3>1, <3>2
  <2>2. CASE c # a
    <3>1. Busy(c) /\ call[c].alone /\ u # 0 /\ call[c].undoing = u
      BY <1>10, <2>2
    <3>2. CASE d = a
      BY <1>1, <1>6, <2>2, <3>1, <3>2
    <3>3. CASE d # a
      <4>1. Busy(d) /\ (Todo(d).do = "retitle" \/ call[d].undoing = call[c].undoing)
        BY <1>6, <3>1, <3>3 DEF Faithful, AloneTold
      <4> QED BY <1>6, <2>2, <3>3, <4>1
    <3> QED BY <3>2, <3>3
  <2> QED BY <2>1, <2>2
<1>12. ASSUME u # 0, past[u].clean, NEW old, Reached(old, u) PROVE Reached(old, u)'
  <2>1. u \in Ids /\ SnapTold(u) /\ docs' = docs /\ snap' = snap /\ Live(u)'
    BY <1>4, <1>12 DEF Faithful
  <2>2. Lasts(u)
    BY <2>1, DocsStaySafe DEF Lasts
  <2> QED BY <1>3, <1>12, <2>1, <2>2, SameDue, ReachedStays
<1>13. ASSUME NEW c \in Caller PROVE Progress(c)'
  <2> SUFFICES ASSUME Alone(c)' PROVE Progress(c)'
    BY DEF Progress
  <2>1. call'[c].undoing # 0 /\ Busy(c)' /\ call'[c].alone
    BY DEF Alone
  <2>2. PICK js : js = call'[c].jobs
    OBVIOUS
  <2>3. call'[c].undoing = u /\ u # 0 /\ u \in Ids
    BY <1>1, <1>10, <1>6, <2>1
  <2>4. past'[u].clean
    BY <2>3 DEF Alone
  <2>5. past[u].clean
    BY <1>3, <2>3, <2>4 DEF Evolves
  <2>6. /\ Live(u) /\ log[u].parent = 0 /\ log[u].op # "undo"
        /\ KindDue(js, "mark") => Reached(js, u)
    <3>1. CASE c = a
      <4>1. log[u].op # "undo" /\ log[u].parent = 0
        BY <2>3 DEF Faithful, RowTold
      <4>2. \A d \in Caller : Busy(d) /\ Follows(Todo(d)) => call[d].undoing = u
        <5> SUFFICES ASSUME NEW d \in Caller, Busy(d), Follows(Todo(d)) PROVE call[d].undoing = u
          OBVIOUS
        <5>1. Todo(d).do # "retitle" /\ d \notin Disturbed(u)
          BY <1>1, <2>1, <3>1 DEF Follows
        <5> QED BY <1>8, <5>1
      <4>3. log[u].op = "delete_thing" =>
              \A t \in BelowOnly(past[u].first, log[u].subject) :
                \E j \in Cascades(u) : log[j].subject = t /\ (snap[u] # NoSnap => snap[j] # NoSnap)
        BY <2>3, <2>5, <4>1, <4>2, CascadeThere
      <4>4. AllDue(jobs, u) /\ js = jobs
        BY <1>1, <2>2, <2>3, <3>1
      <4>5. Reached(jobs, u)
        BY <4>3, <4>4, AllDueReached
      <4> QED BY <2>3, <4>1, <4>4, <4>5
    <3>2. CASE c # a
      <4>1. Busy(c) /\ call[c].alone /\ call[c].undoing = u /\ js = call[c].jobs
        BY <1>6, <1>10, <2>1, <2>2, <3>2
      <4> QED BY <2>3, <2>5, <4>1 DEF Faithful, Progress, Alone
    <3> QED BY <3>1, <3>2
  <2>7. KindDue(js, "mark") => Reached(js, u)'
    BY <1>12, <2>3, <2>5, <2>6
  <2>8. KindDue(js, "mark")' = KindDue(js, "mark")
    BY DEF KindDue
  <2>9. Live(u)' /\ log'[u].parent = 0 /\ log'[u].op # "undo"
    BY <1>4, <2>6
  <2> QED BY <2>2, <2>3, <2>7, <2>8, <2>9 DEF Progress
<1>14. ASSUME NEW i \in Ids PROVE RowTold(i)' /\ SnapTold(i)' /\ Family(i)'
  <2>1. snap'[i] # NoSnap => snap'[i] = snap[i]
    BY DEF SnapsStay
  <2>2. \A d \in Caller : CallerTold(d) /\ Settled(d)
    BY <1>1 DEF Faithful, Settled, Follows
  <2>3. Family(i)'
    BY <1>3, <2>2, FamilyStays DEF Faithful
  <2> QED BY <1>3, <2>1, <2>3, RowStays, SnapStays DEF Faithful
<1>15. OldTold
  BY <1>9, <1>11, <1>13, <1>14 DEF OldTold
<1> QED BY <1>15, OldIsAll

\* A command whose change is to be logged.
LEMMA LogsBegin ==
  ASSUME Sane, Sane', Faithful, NEW a \in Caller, ~ Busy(a) \/ Todo(a).do = "retitle",
         NEW jobs, Logging(jobs), NEW was, was = Views(meta), Paired(jobs),
         NEW st, st = state', Told(jobs, was, st),
         jobs # <<>>, jobs[1] = Head(jobs), ~ Follows(jobs[1]), Begins(a, jobs, 0),
         log' = log, snap' = snap,
         \A d \in T!AnyCollection : state[d] # "absent" => state'[d] # "absent", OneHome'
  PROVE  Faithful'
<1>1. Head(jobs).do # "retitle"
  <2>1. jobs \in Seq(JobSet) /\ 1 \in 1 .. Len(jobs)
    BY EmptySeq DEF Logging
  <2> QED BY <2>1 DEF Logging, Logs
<1>2. PICK u : u = 0
  OBVIOUS
<1>3. u \in {0} \cup Ids /\ Begins(a, jobs, u) /\ (u = 0)
  BY <1>2
<1>4. SnapsStay
  BY SameSnapsStay
<1>5. Told(jobs, was, state')
  OBVIOUS
<1> QED BY <1>1, <1>3, <1>4, <1>5, BeginsTold

\* Wherever a thing goes to, it has one home at most.
LEMMA UpsertKeepsOne ==
  ASSUME OneHome, meta \in Documents, NEW t \in Thing, NEW d,
         NEW p \in Thing \cup {Keep, Clear}, NEW listed \in BOOLEAN,
         NEW entries \in SUBSET Entry, meta' = Upserted(t, d, p, listed, entries)
  PROVE  OneHome'
<1>1. CASE d \in T!AnyCollection
  BY <1>1, UpsertHome
<1>2. CASE d \notin T!AnyCollection
  <2> DEFINE m == T!Placed(meta, t, d, p, {})
  <2>1. meta' = m
    <3>1. DOMAIN m = T!AnyCollection
      BY DEF T!Placed
    <3>2. meta' = IF listed THEN [m EXCEPT ![d][t].entries = entries] ELSE m
      BY DEF Upserted
    <3>3. m = [c \in T!AnyCollection |-> m[c]]
      BY DEF T!Placed
    <3> HIDE DEF m
    <3> QED BY <1>2, <3>1, <3>2, <3>3
  <2>2. ASSUME NEW c \in T!AnyCollection, T!IsLive(meta', c, t)
        PROVE  T!IsLive(meta, c, t)
    <3>1. meta[c] \in [Thing -> T!Meta] /\ meta[c][t] \in T!Meta
      BY DEF Documents
    <3>2. CASE c = T!Home(meta, t)
      <4>1. meta'[c][t] = T!Tombstoned(meta[c][t])
        BY <1>2, <2>1, <3>1, <3>2 DEF T!Placed
      <4> QED BY <2>2, <3>1, <4>1 DEF T!Tombstoned, T!Meta, T!IsLive
    <3>3. CASE c # T!Home(meta, t)
      <4>1. meta'[c][t] = meta[c][t]
        BY <1>2, <2>1, <3>1, <3>3 DEF T!Placed
      <4> QED BY <2>2, <4>1 DEF T!IsLive
    <3> QED BY <3>2, <3>3
  <2>3. \A x \in Thing : LiveOnce(meta, x)
    BY DEF OneHome, T!OneHome, LiveOnce
  <2>4. LiveOnce(meta', t)
    BY <2>2, <2>3 DEF LiveOnce
  <2>5. \A x \in Thing \ {t} : SameEntries(meta, meta', x)
    BY UpsertedSame
  <2>6. \A x \in Thing : LiveOnce(meta', x)
    BY <2>3, <2>4, <2>5, SameOnce
  <2> QED BY <2>6 DEF OneHome, T!OneHome, LiveOnce
<1> QED BY <1>1, <1>2

LEMMA UpsertBegins ==
  ASSUME Sane, Sane', Faithful, NEW a \in Caller, ~ Busy(a) \/ Todo(a).do = "retitle",
         NEW t \in Thing, NEW d, NEW p \in Thing \cup {Keep, Clear},
         NEW listed \in BOOLEAN, NEW entries \in SUBSET Entry,
         state' = T!Ensured(state, T!System), meta' = Upserted(t, d, p, listed, entries),
         Begins(a, UpsertJobs(t, meta'), 0), log' = log, snap' = snap
  PROVE  Faithful'
<1>1. meta \in Documents
  BY DEF Sane, Typed, DocsTyped
<1>2. OneHome'
  BY <1>1, UpsertKeepsOne DEF Faithful
<1>3. PICK m, st, was, jobs : /\ m = meta' /\ st = state' /\ was = Views(meta)
                              /\ jobs = UpsertJobs(t, m)
  OBVIOUS
<1>4. Logging(jobs) /\ Paired(jobs) /\ Told(jobs, was, st) /\ jobs # <<>> /\ jobs[1] = Head(jobs)
      /\ ~ Follows(jobs[1])
  BY <1>1, <1>3, UpsertLogs, UpsertTold
<1>5. \A x \in T!AnyCollection : state[x] # "absent" => state'[x] # "absent"
  BY EnsuredStays
<1>6. Begins(a, jobs, 0)
  BY <1>3
<1> QED BY <1>2, <1>3, <1>4, <1>5, <1>6, LogsBegin

LEMMA PlacesAny == Places \subseteq T!AnyCollection
BY DEF Places, T!AnyCollection

LEMMA EditTold ==
  ASSUME Sane, Sane', Faithful, NEW a \in Caller, NEW t \in Thing, NEW d \in Places,
         NEW entries \in SUBSET Entry, NEW p \in Parents[t], Edit(a, t, d, p, entries)
  PROVE  Faithful'
<1>1. PICK listed \in BOOLEAN : meta' = Upserted(t, d, p, listed, entries)
  BY DEF Edit
<1>2. /\ state' = T!Ensured(state, T!System) /\ log' = log /\ snap' = snap
      /\ Begins(a, UpsertJobs(t, meta'), 0) /\ ~ Busy(a)
  BY DEF Edit, Starts, MayStart, Tables
<1>3. d \in T!AnyCollection /\ p \in Thing \cup {Keep, Clear}
  BY PlacesAny, HistoryAssumption
<1> QED BY <1>1, <1>2, <1>3, UpsertBegins

LEMMA RetitlesTold ==
  ASSUME Sane, Sane', Faithful, NEW a \in Caller, Busy(a), Retitles(a)
  PROVE  Faithful'
<1>1. PICK j : j = Todo(a)
  OBVIOUS
<1>2. /\ j.do = "retitle" /\ state' = T!Ensured(state, T!System)
      /\ meta' = Upserted(j.subject, j.view.home, ParentArg(j.view), FALSE, {})
      /\ Begins(a, UpsertJobs(j.subject, meta'), 0)
      /\ log' = log /\ snap' = snap /\ Possible(j)
  BY <1>1 DEF Retitles, Tables
<1>3. j.subject \in Thing /\ j.view \in ViewSet
  <2>1. j \in RetitleJob
    BY <1>1, <1>2, TodoFacts, JobKinds DEF Sane, Typed
  <2> QED BY <2>1 DEF RetitleJob
<1>4. ParentArg(j.view) \in Thing \cup {Keep, Clear}
  BY <1>3, ParentArgType
<1>5. PICK t, d, p : t = j.subject /\ d = j.view.home /\ p = ParentArg(j.view)
  OBVIOUS
<1>6. t \in Thing /\ p \in Thing \cup {Keep, Clear}
  BY <1>3, <1>4, <1>5
<1>7. PICK listed \in BOOLEAN, entries \in SUBSET Entry : meta' = Upserted(t, d, p, listed, entries)
  <2>1. meta' = Upserted(t, d, p, FALSE, {}) /\ FALSE \in BOOLEAN /\ {} \in SUBSET Entry
    BY <1>2, <1>5
  <2> QED BY <2>1
<1>8. Begins(a, UpsertJobs(t, meta'), 0)
  BY <1>2, <1>5
<1> QED BY <1>1, <1>2, <1>6, <1>7, <1>8, UpsertBegins

\* One entry to write, that does not open a deletion.
LEMMA NoteBegins ==
  ASSUME Sane, Sane', Faithful, NEW a \in Caller, ~ Busy(a),
         NEW op \in Op, op \notin {"undo", "delete_thing"}, NEW s \in Subject, Fits(op, s),
         NEW from \in From, NEW can \in BOOLEAN, NEW jobs,
         jobs = <<Note(op, s, from, FALSE, can)>>, Begins(a, jobs, 0),
         log' = log, snap' = snap,
         \A d \in T!AnyCollection : state[d] # "absent" => state'[d] # "absent", OneHome',
         op = "move_thing" /\ from # NoCollection => from = Views(meta)[s].home,
         op = "create_collection" => state'[s] # "absent"
  PROVE  Faithful'
<1>1. PICK st, was : st = state' /\ was = Views(meta)
  OBVIOUS
<1>2. Logging(jobs)
  BY OneEntry
<1>3. Paired(jobs) /\ Told(jobs, was, st) /\ jobs # <<>> /\ jobs[1] = Head(jobs)
      /\ ~ Follows(jobs[1])
  <2>1. op = "move_thing" /\ from # NoCollection => from = was[s].home
    BY <1>1
  <2>2. op = "create_collection" => st[s] # "absent"
    BY <1>1
  <2> QED BY <2>1, <2>2, NoteTold
<1> QED BY <1>1, <1>2, <1>3, LogsBegin

LEMMA MoveTold ==
  ASSUME Sane, Sane', Faithful, NEW a \in Caller, NEW t \in Thing, NEW d \in Places, Move(a, t, d)
  PROVE  Faithful'
<1>1. /\ T!Exists(meta, t) /\ state' = T!Ensured(state, {d} \cap T!System)
      /\ meta' = T!Placed(meta, t, d, Keep, T!Carried(meta, t, d))
      /\ log' = log /\ snap' = snap /\ ~ Busy(a)
      /\ Begins(a, <<Note("move_thing", t, T!Home(meta, t), FALSE, TRUE)>>, 0)
  BY DEF Move, T!MoveThing, Starts, MayStart, Tables
<1>2. d \in T!AnyCollection /\ meta \in Documents /\ T!Home(meta, t) \in From
  BY <1>1, PlacesAny, HomeFacts DEF From, Sane, Typed, DocsTyped
<1>3. OneHome'
  BY <1>1, <1>2, MoveHome DEF Faithful
<1>4. \A x \in T!AnyCollection : state[x] # "absent" => state'[x] # "absent"
  BY <1>1, EnsuredStays
<1>5. Views(meta)[t].home = T!Home(meta, t)
  BY DEF Views, View
<1>6. PICK op \in Op, s \in Subject, from \in From, can \in BOOLEAN :
        op = "move_thing" /\ s = t /\ from = T!Home(meta, t) /\ can = TRUE
  BY <1>2 DEF Op, Subject
<1>7. Fits(op, s) /\ op \notin {"undo", "delete_thing", "create_collection"}
  BY <1>6 DEF Fits
<1>8. Begins(a, <<Note(op, s, from, FALSE, can)>>, 0)
  BY <1>1, <1>6
<1> QED BY <1>1, <1>3, <1>4, <1>5, <1>6, <1>7, <1>8, NoteBegins

LEMMA DeleteTellsAll ==
  ASSUME Sane, Sane', Faithful, NEW a \in Caller, NEW t \in Thing, Delete(a, t)
  PROVE  Faithful'
<1>1. /\ T!Exists(meta, t) /\ state' = T!Ensured(state, {Trash})
      /\ meta' = T!Cascaded(meta, t, Trash, Keep, TRUE)
      /\ log' = log /\ snap' = snap /\ ~ Busy(a) /\ Begins(a, DeleteJobs(t), 0)
  BY DEF Delete, T!DeleteThing, Starts, MayStart, Tables
<1>2. PICK archive \in BOOLEAN : meta' = T!Cascaded(meta, t, Trash, Keep, archive)
  BY <1>1
<1>3. meta \in Documents /\ Trash \in T!AnyCollection
  BY PlaceFacts DEF Sane, Typed, DocsTyped
<1>4. OneHome'
  BY <1>2, <1>3, CascadeHome DEF Faithful
<1>5. \A x \in T!AnyCollection : state[x] # "absent" => state'[x] # "absent"
  BY <1>1, EnsuredStays
<1>6. PICK st, was, new : st = state' /\ was = Views(meta) /\ new = DeleteJobs(t)
  OBVIOUS
<1>7. Logging(new) /\ Paired(new) /\ Told(new, was, st) /\ new # <<>> /\ new[1] = Head(new)
      /\ ~ Follows(new[1])
  BY <1>1, <1>3, <1>6, DeleteLogs, DeleteTold
<1>8. Begins(a, new, 0)
  BY <1>1, <1>6
<1> QED BY <1>1, <1>4, <1>5, <1>6, <1>7, <1>8, LogsBegin

LEMMA RestoreTold ==
  ASSUME Sane, Sane', Faithful, NEW a \in Caller, NEW t \in Thing, Restore(a, t)
  PROVE  Faithful'
<1> DEFINE target == T!Origin(meta, t)
<1>1. /\ T!Exists(meta, t) /\ T!Shown(meta, t).from # NoCollection
      /\ meta' = T!Cascaded(meta, t, target, Keep, FALSE)
      /\ state' = T!Ensured(T!Ensured(state, {NoCollection} \cap T!System), {target} \cap T!System)
      /\ log' = log /\ snap' = snap /\ ~ Busy(a)
      /\ Begins(a, <<Note("move_thing", t, NoCollection, FALSE, TRUE)>>, 0)
  BY DEF Restore, T!RestoreThing, Starts, MayStart, Tables
<1>2. meta \in Documents /\ T!Shown(meta, t) \in T!Meta
  BY <1>1, HomeFacts DEF T!Shown, Sane, Typed, DocsTyped, Documents
<1>3. target \in T!AnyCollection
  BY <1>1, <1>2, PlaceFacts DEF T!Origin, T!Meta
<1> HIDE DEF target
<1>4. OneHome'
  <2>1. PICK archive \in BOOLEAN : meta' = T!Cascaded(meta, t, target, Keep, archive)
    BY <1>1
  <2> QED BY <1>2, <1>3, <2>1, CascadeHome DEF Faithful
<1>5. \A x \in T!AnyCollection : state[x] # "absent" => state'[x] # "absent"
  BY <1>1, EnsuredStays
<1>6. PICK op \in Op, s \in Subject, from \in From, can \in BOOLEAN :
        op = "move_thing" /\ s = t /\ from = NoCollection /\ can = TRUE
  BY DEF Op, Subject, From
<1>7. Fits(op, s) /\ op \notin {"undo", "delete_thing", "create_collection"}
  BY <1>6 DEF Fits
<1>8. Begins(a, <<Note(op, s, from, FALSE, can)>>, 0)
  BY <1>1, <1>6
<1> QED BY <1>1, <1>4, <1>5, <1>6, <1>7, <1>8, NoteBegins

LEMMA SetStatusTold ==
  ASSUME Sane, Sane', Faithful, NEW a \in Caller, NEW t \in Thing, NEW can \in BOOLEAN,
         SetStatus(a, t, can)
  PROVE  Faithful'
<1>1. /\ docs' = docs /\ log' = log /\ snap' = snap /\ ~ Busy(a)
      /\ Begins(a, <<Note("update_thing", t, NoCollection, FALSE, can)>>, 0)
  BY DEF SetStatus, Starts, MayStart, Tables
<1>2. OneHome'
  BY <1>1 DEF Faithful, OneHome, T!OneHome, T!IsLive, docs
<1>3. \A x \in T!AnyCollection : state[x] # "absent" => state'[x] # "absent"
  BY <1>1 DEF docs
<1>4. PICK op \in Op, s \in Subject, from \in From :
        op = "update_thing" /\ s = t /\ from = NoCollection
  BY DEF Op, Subject, From
<1>5. Fits(op, s) /\ op \notin {"undo", "delete_thing", "create_collection", "move_thing"}
  BY <1>4 DEF Fits
<1>6. Begins(a, <<Note(op, s, from, FALSE, can)>>, 0)
  BY <1>1, <1>4
<1> QED BY <1>1, <1>2, <1>3, <1>5, <1>6, NoteBegins

LEMMA CollectionTold ==
  ASSUME Sane, Sane', Faithful, NEW a \in Caller, NEW d \in Collection,
         UpsertCollection(a, d) \/ DeleteCollection(a, d)
  PROVE  Faithful'
<1>1. PICK op \in {"create_collection", "update_collection", "delete_collection"} :
        /\ Begins(a, <<Note(op, d, NoCollection, FALSE, TRUE)>>, 0)
        /\ op = "create_collection" => T!UpsertCollection(d)
  BY DEF UpsertCollection, DeleteCollection, Starts
<1>2. log' = log /\ snap' = snap /\ ~ Busy(a)
  BY DEF UpsertCollection, DeleteCollection, Starts, MayStart, Tables
<1>3. d \in T!AnyCollection
  BY DEF T!AnyCollection
<1>4. meta' = meta
  BY DEF UpsertCollection, DeleteCollection, T!UpsertCollection, T!DeleteCollection
<1>5. /\ T!UpsertCollection(d) => state'[d] # "absent"
      /\ \A x \in T!AnyCollection : state[x] # "absent" => state'[x] # "absent"
  <2>1. CASE T!UpsertCollection(d)
    BY <1>3, <2>1 DEF T!UpsertCollection, T!Ensured
  <2>2. CASE T!DeleteCollection(d)
    <3>1. state' = [T!Ensured(state, T!System) EXCEPT ![d] = "archived"]
      BY <2>2 DEF T!DeleteCollection
    <3> QED BY <1>3, <3>1 DEF T!Ensured
  <2> QED BY <2>1, <2>2 DEF UpsertCollection, DeleteCollection
<1>6. OneHome'
  BY <1>4 DEF Faithful, OneHome, T!OneHome, T!IsLive
<1>7. PICK from \in From, can \in BOOLEAN : from = NoCollection /\ can = TRUE
  BY DEF From
<1>8. op \in Op /\ d \in Subject /\ Fits(op, d) /\ op \notin {"undo", "delete_thing", "move_thing"}
  BY DEF Op, Subject, Fits
<1>9. Begins(a, <<Note(op, d, from, FALSE, can)>>, 0)
  BY <1>1, <1>7
<1> QED BY <1>1, <1>2, <1>5, <1>6, <1>8, <1>9, NoteBegins

LEMMA UndoBegins ==
  ASSUME Sane, Sane', Faithful, NEW a \in Caller, NEW i \in Ids, NEW resolved, Undo(a, i, resolved)
  PROVE  Faithful'
<1>1. /\ Live(i) /\ log[i].can /\ docs' = docs /\ log' = log /\ snap' = snap /\ ~ Busy(a)
      /\ Begins(a, UndoProgram(i), i)
  BY DEF Undo, Starts, MayStart, Tables
<1>2. log[i].op # "undo"
  BY <1>1 DEF Faithful, RowTold
<1>3. /\ log \in Seq(LogRow \cup {Gone}) /\ log[i] \in LogRow
      /\ Fits(log[i].op, log[i].subject) /\ log[i].parent < i
  BY <1>1, TablesFacts DEF Sane, Typed, TablesTyped, RowSet, RowsFit, RowFits
<1>4. PICK jobs, was, st : jobs = UndoProgram(i) /\ was = Views(meta) /\ st = state'
  OBVIOUS
<1>5. /\ ForUndo(jobs, i, log) /\ AllDue(jobs, i)
      /\ Len(jobs) \in Nat /\ \A k \in 1 .. Len(jobs) : ~ Logs(jobs[k])
      /\ jobs # <<>> /\ jobs[1] = Head(jobs) /\ ~ Logs(jobs[1])
  BY <1>1, <1>2, <1>3, <1>4, UndoProgramTold
<1>6. Paired(jobs) /\ Told(jobs, was, st)
  BY <1>5, SilentTold
<1>7. ~ Follows(Head(jobs))
  BY <1>5 DEF Follows, Logs
<1>8. Head(jobs).do # "retitle"
  <2>1. jobs \in Seq(JobSet)
    BY <1>1, <1>3, <1>4, UndoProgramFits
  <2>2. 1 \in 1 .. Len(jobs)
    BY <1>5, <2>1, EmptySeq
  <2> QED BY <1>5, <2>2 DEF ForUndo, OfUndo
<1>9. OneHome'
  BY <1>1 DEF Faithful, OneHome, T!OneHome, T!IsLive, docs
<1>10. /\ \A d \in T!AnyCollection : state[d] # "absent" => state'[d] # "absent"
       /\ Told(jobs, was, state') /\ Begins(a, jobs, i)
  BY <1>1, <1>4, <1>6 DEF docs
<1>11. SnapsStay
  BY <1>1, SameSnapsStay
<1> QED BY <1>1, <1>4, <1>5, <1>6, <1>7, <1>8, <1>9, <1>10, <1>11, BeginsTold

LEMMA CleanupTold ==
  ASSUME Sane, Sane', Faithful, NEW a \in Caller, Cleanup(a)
  PROVE  Faithful'
<1>1. /\ snap' = [i \in Ids |-> IF OldSnapshot(i) THEN NoSnap ELSE snap[i]]
      /\ docs' = docs /\ log' = log /\ ~ Busy(a) /\ Begins(a, <<Trim>>, 0)
  BY DEF Cleanup, Starts, MayStart
<1>2. PICK jobs, was, st, u : jobs = <<Trim>> /\ was = Views(meta) /\ st = state' /\ u = 0
  OBVIOUS
<1>3. Len(jobs) = 1 /\ jobs[1] = Trim /\ jobs # <<>> /\ Head(jobs) = Trim
  BY <1>2
<1>4. ~ Logs(Trim) /\ ~ Follows(Trim) /\ Trim.do # "retitle"
  BY DEF Trim, Logs, Follows
<1>5. Paired(jobs) /\ Told(jobs, was, st)
  <2>1. Len(jobs) \in Nat /\ \A k \in 1 .. Len(jobs) : ~ Logs(jobs[k])
    BY <1>3, <1>4
  <2> QED BY <2>1, SilentTold
<1>6. SnapsStay
  <2>1. ASSUME NEW i \in Ids, NEW j \in Ids, snap'[i] # NoSnap, snap[j] # NoSnap,
               snap[i].time <= snap[j].time
        PROVE  snap'[j] # NoSnap
    <3>1. ~ OldSnapshot(i) /\ snap[i] # NoSnap
      BY <1>1, <2>1
    <3>2. ~ (snap[i].time + Retention < now)
      BY <3>1 DEF OldSnapshot
    <3>3. snap[i].time \in Nat /\ snap[j].time \in Nat /\ now \in Nat /\ Retention \in Nat
      BY <2>1, <3>1, TablesFacts, HistoryAssumption DEF Sane, Typed, Snapshot
    <3>4. ~ (snap[j].time + Retention < now)
      BY <2>1, <3>2, <3>3
    <3> QED BY <1>1, <2>1, <3>4 DEF OldSnapshot
  <2> QED BY <1>1, <2>1 DEF SnapsStay
<1>7. OneHome'
  BY <1>1 DEF Faithful, OneHome, T!OneHome, T!IsLive, docs
<1>8. /\ \A d \in T!AnyCollection : state[d] # "absent" => state'[d] # "absent"
      /\ Told(jobs, was, state') /\ Begins(a, jobs, u) /\ u \in {0} \cup Ids
  BY <1>1, <1>2, <1>5 DEF docs
<1>9. ~ Follows(Head(jobs)) /\ Head(jobs).do # "retitle"
  BY <1>3, <1>4
<1> QED BY <1>1, <1>2, <1>3, <1>5, <1>6, <1>7, <1>8, <1>9, BeginsTold

----------------------------------------------------------------------------
(* Steps that write the log                                                *)

\* The jobs behind the next one.
LEMMA NextJobs ==
  ASSUME Sane, Faithful, NEW a \in Caller, Busy(a), NEW st
  PROVE  /\ call[a].jobs \in Seq(JobSet) /\ call[a].jobs # <<>>
         /\ 1 \in 1 .. Len(call[a].jobs) /\ Todo(a) = call[a].jobs[1]
         /\ Paired(Rest(a)) /\ Told(Rest(a), call[a].was, st)
         /\ \A t : /\ Pending(call[a].jobs, 2, t) => Pending(Rest(a), 1, t)
                   /\ Pending(call[a].jobs, 1, t) =>
                        \/ Pending(Rest(a), 1, t)
                        \/ Todo(a).do = "note" /\ Todo(a).child /\ Todo(a).subject = t
                   /\ Pending(call[a].jobs, 1, t) => Follows(Todo(a))
<1>1. call[a].jobs \in Seq(JobSet) /\ call[a].jobs # <<>>
  BY CallFacts DEF Busy, Sane, Typed
<1>2. 1 \in 1 .. Len(call[a].jobs) /\ Todo(a) = call[a].jobs[1]
  BY <1>1, TodoFacts, EmptySeq DEF Sane, Typed
<1>3. PICK was, old : was = call[a].was /\ old = state
  OBVIOUS
<1>4. Paired(call[a].jobs) /\ Told(call[a].jobs, was, old)
  BY <1>3 DEF Faithful, CallerTold
<1>5. Paired(Rest(a)) /\ Told(Rest(a), was, st)
  BY <1>1, <1>4, RestTold DEF Rest
<1> QED BY <1>1, <1>2, <1>3, <1>5, PendingRest DEF Rest

\* What the next but one says of the next.
LEMMA KeepBehind ==
  ASSUME Sane, Faithful, NEW a \in Caller, Busy(a), Rest(a) # <<>>, Head(Rest(a)).do = "keep"
  PROVE  NeedsKeep(Todo(a)) /\ Todo(a).subject = Head(Rest(a)).thing
<1>1. Todo(a) = call[a].jobs[1] /\ Rest(a) \in Seq(JobSet) /\ Len(call[a].jobs) \in Nat
      /\ Len(Rest(a)) = Len(call[a].jobs) - 1
      /\ \A k \in 1 .. Len(Rest(a)) : Rest(a)[k] = call[a].jobs[k + 1]
  BY TodoFacts DEF Sane, Typed
<1>2. 1 \in 1 .. Len(Rest(a)) /\ Head(Rest(a)) = Rest(a)[1]
  BY <1>1, EmptySeq, HeadTailProperties
<1>3. 2 \in 1 .. Len(call[a].jobs) /\ Head(Rest(a)) = call[a].jobs[2]
  BY <1>1, <1>2
<1>4. NeedsKeep(call[a].jobs[2 - 1]) /\ call[a].jobs[2 - 1].subject = call[a].jobs[2].thing
  BY <1>3 DEF Faithful, CallerTold, Paired
<1> QED BY <1>1, <1>3, <1>4

\* A caller has written to the log, or failed to.
LEMMA LogDone ==
  ASSUME Sane, Sane', Faithful, Evolves, docs' = docs,
         NEW a \in Caller, Busy(a), Logs(Todo(a)), NEW root, NEW last, NEW was, was = call[a].was,
         Goes(a, Rest(a), root, last, was),
         \A i \in Ids : snap'[i] = NoSnap => snap[i] = NoSnap,
         \A i \in Ids : Live(i) /\ past[i].clean /\ log[i].parent = 0 /\ call[a].undoing = i
           => /\ Live(i)'
              /\ log[i].op = "delete_thing" => (snap'[i] # NoSnap <=> snap[i] # NoSnap),
         KeepTold(a)', RootTold(a)', \A i \in Ids : SnapTold(i)' /\ Family(i)'
  PROVE  OldTold
<1>1. \A d \in Caller \ {a} : Undisturbed(d)
  BY DEF Goes, Undisturbed
<1>2. \A c \in Caller : CallerTold(c) /\ AloneTold(c)
  BY DEF Faithful
<1>3. Todo(a).do # "retitle"
  BY DEF Logs
<1>4. \A i \in Ids : RowTold(i)'
  BY RowStays DEF Faithful
<1>5. ASSUME NEW c \in Caller \ {a} PROVE CallerTold(c)'
  <2>1. PICK i : i = call[c].last
    OBVIOUS
  <2> QED BY <1>1, <1>2, <2>1, CallerStays
<1>6. Pushed(Rest(a), 0, call[a].jobs)
  BY RestPushed DEF Sane, Typed
<1>7. CallerTold(a)'
  <2>1. PICK jobs, n : jobs = Rest(a) /\ n = 0
    OBVIOUS
  <2>2. UndoTold(a)'
    BY <1>2, <1>6, <2>1, UndoGoes DEF CallerTold
  <2>3. PICK st : st = state'
    OBVIOUS
  <2>4. Paired(jobs) /\ Told(jobs, was, st)
    BY <2>1, <2>3, NextJobs
  <2>5. call'[a].jobs = jobs /\ (jobs # <<>> => call'[a].was = was)
    BY <2>1 DEF Goes
  <2>6. jobs = <<>> => Told(jobs, call'[a].was, state')
    BY DEF Told, HeadTold
  <2> QED BY <2>2, <2>3, <2>4, <2>5, <2>6 DEF CallerTold
<1>8. ASSUME NEW c \in Caller PROVE AloneTold(c)'
  <2>1. PICK jobs : jobs = Rest(a)
    OBVIOUS
  <2>2. Goes(a, jobs, root, last, was)
    BY <2>1
  <2> QED BY <1>2, <1>3, <2>2, AloneGoes
<1>9. ASSUME NEW i \in Ids, Live(i), past[i].clean, log[i].parent = 0,
             Todo(a).do = "retitle" \/ call[a].undoing = i
      PROVE  Lasts(i)
  <2>1. \A j \in Cascades(i) : j \in Ids
    BY DEF Cascades
  <2>2. Safe(i)
    BY DocsStaySafe
  <2> QED BY <1>3, <1>9, <2>1, <2>2 DEF Lasts
<1>10. ASSUME NEW i \in Ids, Live(i), past[i].clean, log[i].parent = 0, call[a].undoing = i
       PROVE  /\ KindDue(Rest(a), "mark") => KindDue(call[a].jobs, "mark")
              /\ StillDue(call[a].jobs, Rest(a), i)
  <2>1. i # 0
    BY TablesFacts DEF Sane, Typed
  <2>2. ForUndo(call[a].jobs, i, log)
    BY <1>2, <1>10, <2>1 DEF CallerTold, UndoTold
  <2>3. Achieves(call[a].jobs[1], i)
    BY RestPushed DEF Sane, Typed, Logs, Achieves
  <2> QED BY <1>6, <2>2, <2>3, PushedDue
<1>11. ASSUME NEW c \in Caller PROVE Progress(c)'
  <2>1. PICK jobs : jobs = Rest(a)
    OBVIOUS
  <2>2. Goes(a, jobs, root, last, was)
    BY <2>1
  <2>3. ASSUME NEW i \in Ids, Live(i), past[i].clean, log[i].parent = 0,
               call[a].undoing = i, KindDue(jobs, "mark")
        PROVE  KindDue(call[a].jobs, "mark") /\ StillDue(call[a].jobs, jobs, i)
    BY <1>10, <2>1, <2>3
  <2> QED BY <1>3, <1>9, <2>2, <2>3, ProgressGoes
<1>12. OneHome'
  BY DEF Faithful, OneHome, T!OneHome, T!IsLive, docs
<1> QED BY <1>4, <1>5, <1>7, <1>8, <1>11, <1>12 DEF OldTold

\* Within a cascade the entry of the root stays the same.
LEMMA RootGoes ==
  ASSUME Sane, Sane', Faithful, Evolves, NEW a \in Caller, Busy(a), NEW root, NEW last,
         NEW was, was = call[a].was, Goes(a, Rest(a), root, last, was),
         root = 0 \/ (root = call[a].root /\ Follows(Todo(a)))
  PROVE  RootTold(a)'
<1>1. PICK r : r = call'[a].root
  OBVIOUS
<1> SUFFICES ASSUME Busy(a)', Live(r)', log'[r].op = "delete_thing"
             PROVE  call'[a].was = past'[r].first /\ r > call'[a].undoing
  BY <1>1 DEF RootTold
<1>2. r = root /\ call'[a].undoing = call[a].undoing /\ call'[a].was = was
  BY <1>1 DEF Goes, Busy
<1>3. r # 0
  BY DEF Live, Ids
<1>4. r = call[a].root /\ r \in Ids /\ Follows(Todo(a))
  BY <1>2, <1>3 DEF Sane, Typed, CallsTyped
<1>5. Live(r) /\ SameRow(r) /\ past'[r].first = past[r].first
  BY <1>4 DEF Evolves
<1>6. RootTold(a)
  BY DEF Faithful, CallerTold
<1> QED BY <1>2, <1>4, <1>5, <1>6 DEF RootTold, SameRow

\* Without an entry there is no snapshot to write.
LEMMA KeepsNothing ==
  ASSUME NEW a \in Caller, NEW was, NEW root, NEW last, Goes(a, Rest(a), root, last, was),
         last = 0 \/ (Rest(a) # <<>> => Head(Rest(a)).do # "keep")
  PROVE  KeepTold(a)'
<1>1. PICK l : l = call'[a].last
  OBVIOUS
<1> SUFFICES ASSUME Busy(a)', Todo(a)'.do = "keep", Live(l)' PROVE FALSE
  BY <1>1 DEF KeepTold
<1>2. l = last /\ Rest(a) # <<>> /\ Todo(a)' = Head(Rest(a))
  BY <1>1 DEF Goes, Busy, Todo
<1> QED BY <1>2 DEF Live, Ids

LEMMA FailsTold ==
  ASSUME Sane, Sane', Faithful, NEW a \in Caller, Busy(a), Fails(a)
  PROVE  Faithful'
<1>1. PICK j, was, root : /\ j = Todo(a) /\ was = call[a].was
                          /\ root = IF j.do = "keep" \/ (j.do = "note" /\ j.child)
                                      THEN call[a].root ELSE 0
  OBVIOUS
<1>2. docs' = docs /\ log' = log /\ snap' = snap /\ past' = Spoiled(Roots({a}))
  BY DEF Fails, Tables
<1>3. GhostsStay /\ \A i \in Ids \cap Roots({a}) : ~ past'[i].clean
  BY <1>2, SpoiledStay DEF Sane, Typed
<1>4. Evolves
  BY <1>2, <1>3, SameEvolves DEF Sane, docs
<1>5. CASE ~ Logs(j)
  <2>1. Continues(a, <<>>, 0, 0, call[a].was)
    BY <1>1, <1>5 DEF Fails, Logs
  <2> QED BY <1>1, <1>2, <1>4, <1>5, <2>1, EndDone
<1>6. CASE Logs(j)
  <2>1. Continues(a, Rest(a), root, 0, was)
    BY <1>1, <1>6 DEF Fails, Logs
  <2>2. PICK last : last = 0
    OBVIOUS
  <2>3. Goes(a, Rest(a), root, last, was)
    <3>1. PICK jobs : jobs = Rest(a)
      OBVIOUS
    <3> QED BY <2>1, <2>2, <3>1, ContinuesGoes DEF Sane
  <2>4. KeepTold(a)'
    BY <2>2, <2>3, KeepsNothing
  <2>5. RootTold(a)'
    <3>1. root = 0 \/ (root = call[a].root /\ Follows(Todo(a)))
      BY <1>1 DEF Follows
    <3> QED BY <1>1, <1>4, <2>3, <3>1, RootGoes
  <2>6. ASSUME NEW i \in Ids PROVE SnapTold(i)' /\ Family(i)'
    <3>1. \A d \in Caller : Settled(d) /\ CallerTold(d)
      <4>1. \A d \in Caller \ {a} : Settled(d)
        BY <2>3 DEF Settled, Goes, Undisturbed
      <4>2. {call[a].root, call[a].last} \subseteq Roots({a})
        BY DEF Roots
      <4>3. Settled(a)
        BY <1>3, <4>2 DEF Settled
      <4> QED BY <4>1, <4>3 DEF Faithful
    <3>2. SnapsStay
      BY <1>2, SameSnapsStay
    <3>3. Family(i)'
      BY <1>4, <3>1, <3>2, FamilyStays DEF Faithful
    <3>4. SnapTold(i)'
      BY <1>2, <1>4, SnapStays DEF Faithful
    <3> QED BY <3>3, <3>4
  <2>7. \A i : Live(i)' <=> Live(i)
    BY <1>2 DEF Live, Ids
  <2>8. OldTold
    BY <1>1, <1>2, <1>4, <1>6, <2>3, <2>4, <2>5, <2>6, <2>7, LogDone
  <2> QED BY <1>2, <2>8, OldIsAll
<1> QED BY <1>5, <1>6

\* An update that joins an entry finds its snapshot there, or may not rely on
\* it.
LEMMA JoinsTold ==
  ASSUME Sane, Sane', Faithful, NEW a \in Caller, Busy(a), Todo(a).do = "join",
         docs' = docs, now' = now, NEW i \in Recent(Todo(a).subject),
         log' = log, snap' = snap, Opened(a, i, TRUE),
         Continues(a, Rest(a), i, i, call[a].was)
  PROVE  Faithful'
<1>1. PICK j, was : j = Todo(a) /\ was = call[a].was
  OBVIOUS
<1>2. i \in Ids /\ Live(i) /\ log[i].subject = j.subject /\ log[i].op = "update_thing"
      /\ log[i].time + Window >= now
  BY <1>1 DEF Recent
<1>3. Len(past) = Len(log) /\ past \in Seq(Ghost) /\ Len(log) \in Nat /\ Ids = 1 .. Len(log)
      /\ Ids \subseteq Nat
  BY TablesFacts DEF Sane, Typed, TablesTyped
<1>4. PICK clean \in BOOLEAN : past' = [past EXCEPT ![i].clean = clean]
                               /\ (clean => past[i].clean /\ Unshared(a))
  <2>1. ~ (i > Len(past)) /\ past[i] \in Ghost
    BY <1>2, <1>3
  <2>2. past' = [past EXCEPT ![i].clean = past[i].clean /\ Unshared(a)]
    BY <2>1 DEF Opened
  <2>3. (past[i].clean /\ Unshared(a)) \in BOOLEAN
    BY DEF Unshared
  <2> QED BY <2>2, <2>3
<1>5. GhostsStay /\ past'[i].clean = clean
  <2> DEFINE g == past[i]
             h == [g EXCEPT !.clean = clean]
  <2>1. g \in Ghost /\ i \in 1 .. Len(past)
    BY <1>2, <1>3
  <2>2. past' = [past EXCEPT ![i] = h]
    BY <1>4
  <2> HIDE DEF g
  <2>3. h \in Ghost /\ h.first = g.first /\ h.could = g.could /\ h.through = g.through
        /\ h.clean = clean
    BY <2>1 DEF Ghost
  <2> HIDE DEF h
  <2>4. past' \in Seq(Ghost) /\ Len(past') = Len(past)
    BY <1>3, <2>1, <2>2, <2>3
  <2>5. \A k \in 1 .. Len(past) : past'[k] = IF k = i THEN h ELSE past[k]
    BY <1>3, <2>2
  <2> QED BY <1>4, <2>1, <2>3, <2>4, <2>5 DEF GhostsStay, GhostKept, g
<1>6. Evolves
  BY <1>5, SameEvolves DEF Sane, docs
<1>7. PICK last, root : last = i /\ root = i
  OBVIOUS
<1>8. Goes(a, Rest(a), root, last, was)
  <2>1. PICK jobs : jobs = Rest(a)
    OBVIOUS
  <2>2. Continues(a, jobs, root, last, was)
    BY <1>1, <1>7, <2>1
  <2> QED BY <2>1, <2>2, ContinuesGoes DEF Sane
<1>9. ~ (past'[i].clean /\ snap[i] = NoSnap)
  <2> SUFFICES ASSUME past'[i].clean, snap[i] = NoSnap PROVE FALSE
    OBVIOUS
  <2>1. past[i].clean /\ Unshared(a)
    BY <1>4, <1>5
  <2>2. log[i].time + Retention >= now
    <3>1. log[i].time \in Nat /\ now \in Nat /\ Window \in Nat /\ Retention \in Nat
          /\ Window <= Retention
      BY <1>2, TablesFacts, HistoryAssumption DEF Sane, Typed, LogRow
    <3> QED BY <1>2, <3>1
  <2>3. KeepDue(i)
    BY <1>2, <2>1, <2>2 DEF Sane, SnapshotsDue, OwesSnapshot
  <2>4. PICK d \in Caller : Busy(d) /\ Todo(d).do = "keep"
    BY <2>3 DEF KeepDue
  <2>5. d # a
    BY <2>4
  <2> QED BY <2>1, <2>4, <2>5 DEF Unshared, Todo
<1>10. KeepTold(a)'
  <2>1. PICK l : l = call'[a].last
    OBVIOUS
  <2> SUFFICES ASSUME Busy(a)', Todo(a)'.do = "keep", Live(l)'
               PROVE  /\ log'[l].op \in {"update_thing", "move_thing", "delete_thing"}
                      /\ Todo(a)'.thing = log'[l].subject
                      /\ ~ (past'[l].clean /\ snap'[l] = NoSnap)
                      /\ log'[l].parent = 0
                      /\ log'[l].op # "delete_thing"
    BY <2>1 DEF KeepTold
  <2>2. l = i /\ Rest(a) # <<>> /\ Todo(a)' = Head(Rest(a))
    BY <1>7, <1>8, <2>1 DEF Goes, Busy, Todo
  <2>3. Todo(a)'.thing = j.subject
    BY <1>1, <2>2, KeepBehind
  <2>4. log[i].parent = 0
    BY <1>2 DEF Faithful, RowTold
  <2> QED BY <1>2, <1>9, <2>2, <2>3, <2>4
<1>11. RootTold(a)'
  <2>1. PICK r : r = call'[a].root
    OBVIOUS
  <2> SUFFICES ASSUME Busy(a)', log'[r].op = "delete_thing" PROVE FALSE
    BY <2>1 DEF RootTold
  <2>2. r = i
    BY <1>7, <1>8, <2>1 DEF Goes, Busy
  <2> QED BY <1>2, <2>2
<1>12. ASSUME NEW k \in Ids PROVE SnapTold(k)' /\ Family(k)'
  <2>1. \A d \in Caller : Settled(d) /\ CallerTold(d)
    BY <1>8 DEF Settled, Goes, Undisturbed, Follows, Faithful
  <2>2. SnapsStay
    BY SameSnapsStay
  <2>3. Family(k)'
    BY <1>6, <2>1, <2>2, FamilyStays DEF Faithful
  <2>4. SnapTold(k)'
    BY <1>6, SnapStays DEF Faithful
  <2> QED BY <2>3, <2>4
<1>13. (\A k : Live(k)' <=> Live(k)) /\ Logs(Todo(a))
  BY DEF Live, Ids, Logs
<1>14. OldTold
  BY <1>1, <1>6, <1>8, <1>10, <1>11, <1>12, <1>13, LogDone
<1> QED BY <1>14, OldIsAll

----------------------------------------------------------------------------
(* A new entry                                                             *)

\* Caller a writes the entry id, a root or below one.
Enters(a, row, ghost, root, id) ==
  LET j == Todo(a)
  IN /\ row \in LogRow /\ ghost \in Ghost /\ Grows(row, ghost) /\ Fits(row.op, row.subject)
     /\ id = Len(log) + 1
     /\ j.do \in {"note", "join"} /\ docs' = docs
     /\ row.op = j.op /\ row.subject = j.subject /\ row.time = now
     /\ row.op = "move_thing" => row.from = j.from
     /\ ghost.first = call[a].was
     /\ Own(j) => root = id /\ row.parent = 0
     /\ ~ Own(j) => root = call[a].root /\ row.parent = root /\ Live(root) /\ row.can = j.can
     /\ Goes(a, Rest(a), root, id, call[a].was)

\* What the job says of the entry.
LEMMA EntersTold ==
  ASSUME Sane, Faithful, NEW a \in Caller, Busy(a), NEW row, NEW ghost, NEW root, NEW id,
         Enters(a, row, ghost, root, id)
  PROVE  /\ row.op # "undo"
         /\ row.parent # 0 => ~ row.can /\ row.op = "delete_thing"
         /\ ~ Own(Todo(a)) => /\ root \in Nat /\ root # 0 /\ row.op = "delete_thing"
                              /\ NeedsKeep(Todo(a)) /\ Follows(Todo(a))
         /\ row.op = "move_thing" /\ row.from # NoCollection =>
              row.from = ghost.first[row.subject].home
         /\ row.op = "create_collection" => state[row.subject] # "absent"
         /\ row.op = "delete_thing" /\ row.parent = 0 =>
              \A t \in BelowOnly(ghost.first, row.subject) : Pending(Rest(a), 1, t)
         /\ row.op \in {"update_thing", "move_thing", "delete_thing"} \/ ~ NeedsKeep(Todo(a))
<1> DEFINE j == Todo(a)
<1>1. PICK was, jobs : was = call[a].was /\ jobs = call[a].jobs
  OBVIOUS
<1>2. j = jobs[1] /\ 1 \in 1 .. Len(jobs) /\ j \in JobSet
  BY <1>1, NextJobs, TodoFacts DEF Sane, Typed
<1>3. Told(jobs, was, state)
  BY <1>1 DEF Faithful, CallerTold
<1>4. JobTold(j, was) /\ HeadTold(jobs, was, state)
  BY <1>2, <1>3 DEF Told
<1>5. Len(jobs) >= 1
  BY <1>2
<1>6. j.do = "join" => j.op \in {"move_thing", "update_thing"}
  BY <1>2, JobKinds DEF JoinJob
<1>7. j.do \in {"note", "join"} /\ row.op = j.op /\ row.subject = j.subject /\ ghost.first = was
  BY <1>1 DEF Enters
<1>8. row.op # "undo"
  BY <1>4, <1>6, <1>7 DEF JobTold
<1>9. ~ Own(j) => j.child /\ j.do = "note" /\ ~ j.can /\ j.op = "delete_thing"
  <2>1. j.do = "note" /\ ~ Own(j) => j.child
    BY DEF Own
  <2> QED BY <1>4, <1>7, <2>1 DEF JobTold, Own
<1>10. row.parent # 0 => ~ Own(j) /\ ~ row.can /\ row.op = "delete_thing"
  BY <1>7, <1>9 DEF Enters
<1>11. ~ Own(j) => /\ root \in Nat /\ root # 0 /\ row.op = "delete_thing"
                   /\ NeedsKeep(j) /\ Follows(j)
  <2>1. ~ Own(j) => root \in Nat /\ root # 0
    BY TablesFacts DEF Enters, Live, Ids, Sane, Typed
  <2> QED BY <1>7, <1>9, <2>1 DEF NeedsKeep, Follows
<1>12. row.op = "move_thing" /\ row.from # NoCollection =>
         row.from = ghost.first[row.subject].home
  BY <1>2, <1>4, <1>5, <1>7, <1>9 DEF HeadTold, Enters
<1>13. row.op = "create_collection" => state[row.subject] # "absent"
  BY <1>2, <1>4, <1>5, <1>7, <1>9 DEF HeadTold
<1>14. ASSUME row.op = "delete_thing", row.parent = 0, NEW t \in BelowOnly(ghost.first, row.subject)
       PROVE  Pending(Rest(a), 1, t)
  <2>1. Own(j)
    BY <1>11, <1>14 DEF Enters
  <2>2. Pending(jobs, 2, t)
    BY <1>2, <1>4, <1>5, <1>7, <1>14, <2>1 DEF HeadTold
  <2> QED BY <1>1, <2>2, NextJobs
<1>15. row.op \in {"update_thing", "move_thing", "delete_thing"} \/ ~ NeedsKeep(j)
  BY <1>6, <1>7 DEF NeedsKeep
<1> QED BY <1>8, <1>10, <1>11, <1>12, <1>13, <1>14, <1>15

\* What is below an older deletion is still accounted for.
LEMMA EntersFamily ==
  ASSUME Sane, Sane', Faithful, NEW a \in Caller, Busy(a), NEW row, NEW ghost, NEW root, NEW id,
         Enters(a, row, ghost, root, id), NEW i \in Ids
  PROVE  Family(i)'
<1> DEFINE j == Todo(a)
<1>1. row \in LogRow /\ ghost \in Ghost /\ Grows(row, ghost) /\ row.time = now
      /\ (row.parent = 0 \/ Live(row.parent)) /\ Fits(row.op, row.subject)
      /\ id = Len(log) + 1 /\ Goes(a, Rest(a), root, id, call[a].was)
  BY DEF Enters
<1>2. /\ Live(id)' /\ log'[id] = row /\ snap'[id] = NoSnap
      /\ \A k \in Ids : log'[k] = log[k] /\ snap'[k] = snap[k] /\ past'[k] = past[k]
                        /\ (Live(k)' <=> Live(k))
  BY <1>1, Grown DEF Sane
<1> SUFFICES ASSUME Live(i)', past'[i].clean, log'[i].op = "delete_thing", log'[i].parent = 0,
                    NEW t \in BelowOnly(past'[i].first, log'[i].subject)
             PROVE  ToWrite(i, t)' \/ Written(i, t)'
  BY DEF Family
<1>3. ToWrite(i, t) \/ Written(i, t)
  BY <1>2 DEF Faithful, Family
<1>4. \A d \in Caller \ {a} : call'[d] = call[d]
  BY <1>1 DEF Goes
<1>5. ASSUME NEW k, KeepDue(k) PROVE KeepDue(k)'
  <2>1. PICK d \in Caller : call[d].last = k /\ Busy(d) /\ Todo(d).do = "keep"
    BY <1>5 DEF KeepDue
  <2>2. d # a
    BY <2>1 DEF Enters
  <2>3. call'[d] = call[d]
    BY <1>4, <2>2
  <2> QED BY <2>1, <2>3 DEF KeepDue, Busy, Todo
<1>6. CASE Written(i, t)
  <2>1. PICK k \in Cascades(i) :
          /\ log[k].subject = t
          /\ snap[i] # NoSnap => IF snap[k] = NoSnap THEN KeepDue(k) ELSE snap[i].time <= snap[k].time
    BY <1>6 DEF Written
  <2>2. k \in Ids /\ k \in Cascades(i)'
    BY <1>2 DEF Cascades, Live
  <2>3. snap[k] = NoSnap /\ snap[i] # NoSnap => KeepDue(k)'
    BY <1>5, <2>1
  <2> QED BY <1>2, <2>1, <2>2, <2>3 DEF Written
<1>7. CASE ToWrite(i, t)
  <2>1. PICK d \in Caller : Busy(d) /\ call[d].root = i /\ Pending(call[d].jobs, 1, t)
    BY <1>7 DEF ToWrite
  <2>2. CASE d # a
    <3>1. call'[d] = call[d]
      BY <1>4, <2>2
    <3> QED BY <2>1, <3>1 DEF ToWrite, Busy
  <2>3. CASE d = a
    <3>1. Follows(j) /\ (Pending(Rest(a), 1, t) \/ (j.do = "note" /\ j.child /\ j.subject = t))
      BY <2>1, <2>3, NextJobs
    <3>2. ~ Own(j)
      BY <3>1 DEF Own, Follows, Enters
    <3>3. root = i /\ row.parent = i /\ NeedsKeep(j)
      BY <2>1, <2>3, <3>2, EntersTold DEF Enters
    <3>4. CASE Pending(Rest(a), 1, t)
      <4>1. Rest(a) # <<>>
        BY <3>4 DEF Pending
      <4>2. Busy(a)' /\ call'[a].root = i /\ call'[a].jobs = Rest(a)
        BY <1>1, <3>3, <4>1 DEF Goes, Busy
      <4>3. PICK jobs : jobs = Rest(a)
        OBVIOUS
      <4>4. Pending(call'[a].jobs, 1, t)
        BY <3>4, <4>2
      <4> QED BY <4>2, <4>4 DEF ToWrite
    <3>5. CASE j.do = "note" /\ j.child /\ j.subject = t
      <4>1. Sound(call[a].jobs) /\ j = call[a].jobs[1] /\ 1 \in 1 .. Len(call[a].jobs)
        BY NextJobs DEF Sane, Typed, JobsFit
      <4>2. 1 < Len(call[a].jobs) /\ call[a].jobs[1 + 1].do = "keep"
        BY <3>3, <4>1 DEF Sound
      <4>3. Rest(a) \in Seq(JobSet) /\ Len(Rest(a)) = Len(call[a].jobs) - 1 /\ Len(call[a].jobs) \in Nat
            /\ \A n \in 1 .. Len(Rest(a)) : Rest(a)[n] = call[a].jobs[n + 1]
        BY TodoFacts DEF Sane, Typed
      <4>4. 1 \in 1 .. Len(Rest(a))
        BY <4>2, <4>3
      <4>5. Rest(a) # <<>> /\ Head(Rest(a)) = Rest(a)[1]
        BY <4>3, <4>4, EmptySeq, HeadTailProperties
      <4>6. Head(Rest(a)).do = "keep"
        BY <4>2, <4>3, <4>4, <4>5
      <4>7. KeepDue(id)'
        <5>1. call'[a].last = id /\ call'[a].jobs = Rest(a)
          BY <1>1, <4>5 DEF Goes
        <5> QED BY <4>5, <4>6, <5>1 DEF KeepDue, Busy, Todo
      <4>8. id \in Cascades(i)'
        BY <1>2, <3>3 DEF Cascades, Live
      <4>9. log'[id].subject = t
        BY <1>2, <3>5 DEF Enters
      <4> QED BY <1>2, <4>7, <4>8, <4>9 DEF Written
    <3> QED BY <3>1, <3>4, <3>5
  <2> QED BY <2>2, <2>3
<1> QED BY <1>3, <1>6, <1>7

LEMMA EntryTold ==
  ASSUME Sane, Sane', Faithful, NEW a \in Caller, Busy(a), NEW row, NEW ghost, NEW root, NEW id,
         Enters(a, row, ghost, root, id)
  PROVE  Faithful'
<1> DEFINE j == Todo(a)
<1>1. row \in LogRow /\ ghost \in Ghost /\ Grows(row, ghost) /\ row.time = now
      /\ (row.parent = 0 \/ Live(row.parent)) /\ Fits(row.op, row.subject)
      /\ id = Len(log) + 1 /\ Goes(a, Rest(a), root, id, call[a].was)
  BY DEF Enters
<1>2. /\ Live(id)' /\ log'[id] = row /\ snap'[id] = NoSnap /\ past'[id] = ghost
      /\ \A k \in Ids : log'[k] = log[k] /\ snap'[k] = snap[k] /\ past'[k] = past[k]
                        /\ (Live(k)' <=> Live(k))
  BY <1>1, Grown DEF Sane
<1>3. docs' = docs /\ state' = state
  BY DEF Enters, docs
<1>4. Evolves
  BY <1>1, <1>3, GrownEvolves DEF Sane
<1>5. PICK was : was = call[a].was
  OBVIOUS
<1>6. Goes(a, Rest(a), root, id, was)
  BY <1>1, <1>5
<1>7. RowTold(id)'
  <2>1. row.parent # 0 => log'[row.parent].time <= now
    BY <1>1, <1>2 DEF Live, Sane, Typed, RowsFit, RowFits
  <2>2. row.parent # 0 => log'[log'[id].parent].time <= log'[id].time
    BY <1>1, <1>2, <2>1
  <2>3. row.op = "move_thing" /\ row.from # NoCollection =>
         row.from = ghost.first[row.subject].home
    BY EntersTold
  <2>4. row.op = "create_collection" => state'[row.subject] # "absent"
    BY <1>3, EntersTold
  <2>5. row.op # "undo" /\ (row.parent # 0 => ~ row.can /\ row.op = "delete_thing")
    BY EntersTold
  <2> QED BY <1>2, <2>2, <2>3, <2>4, <2>5 DEF RowTold
<1>8. Rest(a) # <<>> => Busy(a)' /\ call'[a].root = root /\ call'[a].last = id /\ call'[a].was = was
                        /\ call'[a].undoing = call[a].undoing /\ call'[a].jobs = Rest(a)
  BY <1>6 DEF Goes, Busy
<1>9. Family(id)'
  <2> SUFFICES ASSUME row.op = "delete_thing", row.parent = 0,
                      NEW t \in BelowOnly(ghost.first, row.subject)
               PROVE  ToWrite(id, t)'
    BY <1>2 DEF Family
  <2>1. Pending(Rest(a), 1, t)
    BY EntersTold
  <2>2. Rest(a) # <<>> /\ root = id
    <3>1. Own(j)
      BY EntersTold DEF Enters
    <3> QED BY <2>1, <3>1 DEF Pending, Enters
  <2>3. Busy(a)' /\ call'[a].root = id /\ Pending(call'[a].jobs, 1, t)
    BY <1>8, <2>1, <2>2
  <2> QED BY <2>3 DEF ToWrite
<1>10. KeepTold(a)'
  <2>1. PICK l, r : l = call'[a].last /\ r = call'[a].root
    OBVIOUS
  <2> SUFFICES ASSUME Busy(a)', Todo(a)'.do = "keep", Live(l)'
               PROVE  /\ log'[l].op \in {"update_thing", "move_thing", "delete_thing"}
                      /\ Todo(a)'.thing = log'[l].subject
                      /\ call'[a].was = past'[l].first
                      /\ log'[l].parent # 0 => log'[l].parent = r
                      /\ log'[l].op = "delete_thing" /\ log'[l].parent = 0 =>
                           /\ r = l
                           /\ \A t \in BelowOnly(past'[l].first, log'[l].subject) :
                                Pending(call'[a].jobs, 1, t)
    BY <2>1 DEF KeepTold
  <2>2. Rest(a) # <<>> /\ l = id /\ r = root /\ call'[a].was = was /\ call'[a].jobs = Rest(a)
        /\ Todo(a)' = Head(Rest(a))
    BY <1>6, <1>8, <2>1 DEF Goes, Busy, Todo
  <2>3. NeedsKeep(j) /\ j.subject = Head(Rest(a)).thing
    BY <2>2, KeepBehind
  <2>4. row.op \in {"update_thing", "move_thing", "delete_thing"} /\ row.subject = j.subject
        /\ ghost.first = was
    BY <1>5, <2>3, EntersTold DEF Enters
  <2>5. row.parent # 0 => row.parent = root
    BY EntersTold DEF Enters
  <2>6. row.parent = 0 => root = id
    BY EntersTold DEF Enters
  <2>7. row.op = "delete_thing" /\ row.parent = 0 =>
          \A t \in BelowOnly(ghost.first, row.subject) : Pending(Rest(a), 1, t)
    BY EntersTold
  <2> QED BY <1>2, <2>2, <2>3, <2>4, <2>5, <2>6, <2>7
<1>11. RootTold(a)'
  <2>1. CASE Own(j)
    <3>1. PICK r : r = call'[a].root
      OBVIOUS
    <3> SUFFICES ASSUME Busy(a)' PROVE call'[a].was = past'[r].first /\ r > call'[a].undoing
      BY <3>1 DEF RootTold
    <3>2. Rest(a) # <<>> /\ r = id
      BY <1>6, <1>8, <2>1, <3>1 DEF Goes, Busy, Enters
    <3>3. ghost.first = was
      BY <1>5 DEF Enters
    <3>4. call[a].undoing \in {0} \cup Ids /\ Len(log) \in Nat /\ Ids = 1 .. Len(log)
      BY TablesFacts DEF Sane, Typed, CallsTyped
    <3>5. id > call[a].undoing
      BY <1>1, <3>4
    <3> QED BY <1>2, <1>8, <3>2, <3>3, <3>5
  <2>2. CASE ~ Own(j)
    <3>1. root = call[a].root /\ Follows(j)
      BY <2>2, EntersTold DEF Enters
    <3> QED BY <1>4, <1>5, <1>6, <3>1, RootGoes
  <2> QED BY <2>1, <2>2
<1>12. ASSUME NEW i \in Ids PROVE SnapTold(i)' /\ Family(i)'
  <2>1. SnapTold(i)'
    BY <1>2, <1>4, SnapStays DEF Faithful
  <2> QED BY <2>1, EntersFamily
<1>13. Logs(j)
  BY DEF Logs, Enters
<1>14. OldTold
  BY <1>2, <1>3, <1>4, <1>5, <1>6, <1>10, <1>11, <1>12, <1>13, LogDone
<1> QED BY <1>1, <1>7, <1>9, <1>14, NewIsTold DEF Sane

LEMMA JoinRecentTold ==
  ASSUME Sane, Sane', Faithful, NEW a \in Caller, Busy(a), JoinRecent(a)
  PROVE  Faithful'
<1> DEFINE j == Todo(a)
<1>1. j.do = "join" /\ docs' = docs /\ now' = now
  BY DEF JoinRecent
<1>2. CASE Recent(j.subject) = {}
  <2>1. PICK id : id = Len(log) + 1
    OBVIOUS
  <2> DEFINE from == IF j.op = "move_thing" THEN j.from ELSE NoCollection
  <2>2. j \in JoinJob
    BY <1>1, TodoFacts, JobKinds DEF Sane, Typed
  <2>3. from \in From /\ Len(log) \in Nat /\ now \in Nat
    BY <2>2, TablesFacts DEF Sane, Typed, JoinJob, From
  <2>4. PICK can \in BOOLEAN, kept \in BOOLEAN :
          /\ Entered([op |-> j.op, subject |-> j.subject, time |-> now, parent |-> 0,
                      from |-> from, can |-> can])
          /\ Opened(a, id, kept)
          /\ Continues(a, Rest(a), id, id, call[a].was)
    BY <1>2, <2>1 DEF JoinRecent
  <2>5. j.op = "move_thing" => from = j.from
    OBVIOUS
  <2> HIDE DEF from
  <2>6. /\ [op |-> j.op, subject |-> j.subject, time |-> now, parent |-> 0,
            from |-> from, can |-> can] \in LogRow
        /\ Fits(j.op, j.subject)
    BY <2>2, <2>3 DEF JoinJob, LogRow, From, Op, Subject, Fits
  <2>7. PICK row \in LogRow : /\ Entered(row) /\ row.op = j.op /\ row.subject = j.subject
                              /\ row.time = now /\ row.parent = 0 /\ row.from = from
    BY <2>4, <2>6
  <2>8. PICK ghost \in Ghost : Grows(row, ghost) /\ ghost.first = call[a].was
    BY <1>1, <2>1, <2>4, <2>7, EntryOpened DEF Sane
  <2>9. Goes(a, Rest(a), id, id, call[a].was)
    <3>1. PICK jobs, was : jobs = Rest(a) /\ was = call[a].was
      OBVIOUS
    <3> QED BY <2>4, <3>1, ContinuesGoes DEF Sane
  <2>10. Own(j)
    BY <1>1 DEF Own
  <2>11. Enters(a, row, ghost, id, id)
    BY <1>1, <2>1, <2>5, <2>6, <2>7, <2>8, <2>9, <2>10 DEF Enters
  <2>12. PICK root : root = id
    OBVIOUS
  <2>13. Enters(a, row, ghost, root, id)
    BY <2>11, <2>12
  <2> QED BY <2>13, EntryTold
<1>3. CASE Recent(j.subject) # {}
  <2>1. PICK i \in Recent(j.subject) : /\ log' = log /\ snap' = snap
                                       /\ Opened(a, i, TRUE)
                                       /\ Continues(a, Rest(a), i, i, call[a].was)
    BY <1>3 DEF JoinRecent, Tables
  <2> QED BY <1>1, <2>1, JoinsTold
<1> QED BY <1>2, <1>3

LEMMA WriteNoteTold ==
  ASSUME Sane, Sane', Faithful, NEW a \in Caller, Busy(a), WriteNote(a)
  PROVE  Faithful'
<1> DEFINE j == Todo(a)
           r == call[a].root
           skipped == j.child /\ ~ Live(r)
<1>1. j.do = "note" /\ docs' = docs /\ now' = now
  BY DEF WriteNote
<1>2. j \in NoteJob /\ Fits(j.op, j.subject)
  BY <1>1, TodoFacts, JobKinds DEF Sane, Typed
<1>3. r \in {0} \cup Ids /\ call[a].was \in [Thing -> ViewSet]
  BY CallFacts DEF Sane, Typed, CallsTyped
<1>4. CASE skipped
  <2>1. /\ log' = log /\ snap' = snap /\ past' = past
        /\ Continues(a, Rest(a), 0, 0, call[a].was)
    BY <1>4 DEF WriteNote, Tables
  <2>2. PICK root, last, was : root = 0 /\ last = 0 /\ was = call[a].was
    OBVIOUS
  <2>3. Goes(a, Rest(a), root, last, was)
    <3>1. PICK jobs : jobs = Rest(a)
      OBVIOUS
    <3>2. Continues(a, jobs, root, last, was)
      BY <2>1, <2>2, <3>1
    <3> QED BY <3>1, <3>2, ContinuesGoes DEF Sane
  <2>4. Evolves
    BY <1>1, <2>1, SameGhostsStay, SameEvolves DEF Sane, Typed, docs
  <2>5. KeepTold(a)'
    BY <2>2, <2>3, KeepsNothing
  <2>6. RootTold(a)'
    BY <2>2, <2>3, <2>4, RootGoes
  <2>7. ASSUME NEW i \in Ids PROVE SnapTold(i)' /\ Family(i)'
    <3>1. SnapTold(i)'
      BY <2>1, <2>4, SnapStays DEF Faithful
    <3>2. ASSUME NEW k \in Ids, Live(k), NEW t, ToWrite(k, t)
          PROVE  ToWrite(k, t)'
      <4>1. PICK d \in Caller : Busy(d) /\ call[d].root = k /\ Pending(call[d].jobs, 1, t)
        BY <3>2 DEF ToWrite
      <4>2. d # a
        <5> SUFFICES ASSUME d = a PROVE FALSE
          OBVIOUS
        <5> QED BY <1>4, <3>2, <4>1
      <4>3. call'[d] = call[d]
        BY <2>3, <4>2 DEF Goes
      <4> QED BY <4>1, <4>3 DEF ToWrite, Busy
    <3>3. ASSUME NEW k, KeepDue(k) PROVE KeepDue(k)'
      <4>1. PICK d \in Caller : call[d].last = k /\ Busy(d) /\ Todo(d).do = "keep"
        BY <3>3 DEF KeepDue
      <4>2. call'[d] = call[d]
        BY <1>1, <2>3, <4>1 DEF Goes
      <4> QED BY <4>1, <4>2 DEF KeepDue, Busy, Todo
    <3>4. Family(i)'
      <4> SUFFICES ASSUME Live(i), past[i].clean, log[i].op = "delete_thing", log[i].parent = 0,
                          NEW t \in BelowOnly(past[i].first, log[i].subject)
                   PROVE  ToWrite(i, t)' \/ Written(i, t)'
        BY <2>1 DEF Family, Live, Ids
      <4>1. ToWrite(i, t) \/ Written(i, t)
        BY DEF Faithful, Family
      <4>2. Cascades(i)' = Cascades(i)
        BY <2>1 DEF Cascades, Live, Ids
      <4>3. Written(i, t) => Written(i, t)'
        BY <2>1, <3>3, <4>2 DEF Written
      <4> QED BY <3>2, <4>1, <4>3
    <3> QED BY <3>1, <3>4
  <2>8. (\A k : Live(k)' <=> Live(k)) /\ Logs(Todo(a))
    BY <1>1, <2>1 DEF Live, Ids, Logs
  <2>9. OldTold
    BY <1>1, <2>1, <2>2, <2>3, <2>4, <2>5, <2>6, <2>7, <2>8, LogDone
  <2> QED BY <2>1, <2>9, OldIsAll
<1>5. CASE ~ skipped
  <2>1. PICK id : id = Len(log) + 1
    OBVIOUS
  <2>2. PICK parent, root : /\ parent = IF j.child THEN r ELSE 0
                            /\ root = IF j.child THEN r ELSE id
    OBVIOUS
  <2> DEFINE kept == j.op # "update_thing"
  <2>3. parent \in Nat /\ (parent = 0 \/ Live(parent)) /\ Len(log) \in Nat /\ now \in Nat
    BY <1>3, <1>5, <2>2, TablesFacts DEF Sane, Typed
  <2>4. /\ Entered([op |-> j.op, subject |-> j.subject, from |-> j.from, time |-> now,
                    parent |-> parent, can |-> j.can])
        /\ Opened(a, id, kept)
        /\ Continues(a, Rest(a), root, id, call[a].was)
    BY <1>5, <2>1, <2>2 DEF WriteNote
  <2>5. kept \in BOOLEAN
    OBVIOUS
  <2> HIDE DEF kept
  <2>6. [op |-> j.op, subject |-> j.subject, from |-> j.from, time |-> now,
         parent |-> parent, can |-> j.can] \in LogRow
    BY <1>2, <2>3 DEF NoteJob, LogRow, From
  <2>7. PICK row \in LogRow : /\ Entered(row) /\ row.op = j.op /\ row.subject = j.subject
                              /\ row.from = j.from /\ row.time = now /\ row.parent = parent
                              /\ row.can = j.can
    BY <2>4, <2>6
  <2>8. PICK ghost \in Ghost : Grows(row, ghost) /\ ghost.first = call[a].was
    BY <1>1, <2>1, <2>4, <2>5, <2>7, EntryOpened DEF Sane
  <2>9. Goes(a, Rest(a), root, id, call[a].was)
    <3>1. PICK jobs, was : jobs = Rest(a) /\ was = call[a].was
      OBVIOUS
    <3> QED BY <2>4, <3>1, ContinuesGoes DEF Sane
  <2>10. Own(j) <=> ~ j.child
    BY <1>1 DEF Own
  <2>11. /\ Own(j) => root = id /\ row.parent = 0
         /\ ~ Own(j) => root = call[a].root /\ row.parent = root /\ Live(root) /\ row.can = j.can
    BY <1>5, <2>2, <2>7, <2>10
  <2>12. Enters(a, row, ghost, root, id)
    BY <1>1, <1>2, <2>1, <2>7, <2>8, <2>9, <2>11 DEF Enters
  <2> QED BY <2>12, EntryTold
<1> QED BY <1>4, <1>5

LEMMA KeepSnapshotTold ==
  ASSUME Sane, Sane', Faithful, NEW a \in Caller, Busy(a), KeepSnapshot(a)
  PROVE  Faithful'
<1> DEFINE j == Todo(a)
           s == Kept(call[a].last, j.thing, j.view)
<1>1. /\ j.do = "keep" /\ docs' = docs /\ log' = log /\ now' = now /\ past' = past
      /\ snap' = IF Live(call[a].last) THEN [snap EXCEPT ![call[a].last] = s] ELSE snap
      /\ Continues(a, Rest(a), call[a].root, call[a].last, call[a].was)
  BY DEF KeepSnapshot
<1>2. PICK i, root, was : i = call[a].last /\ root = call[a].root /\ was = call[a].was
  OBVIOUS
<1>3. j.thing \in Thing /\ j.view \in ViewSet
  <2>1. j \in KeepJob
    BY <1>1, TodoFacts, JobKinds DEF Sane, Typed
  <2> QED BY <2>1 DEF KeepJob
<1>4. /\ Len(log) \in Nat /\ now \in Nat /\ Ids = 1 .. Len(log)
      /\ snap \in Seq(SnapSet) /\ Len(snap) = Len(log)
  BY TablesFacts DEF Sane, Typed, TablesTyped
<1>5. PICK fresh \in BOOLEAN : fresh <=> Live(i) /\ snap[i] = NoSnap
  OBVIOUS
<1>6. PICK new : new = [thing |-> j.thing, view |-> j.view, time |-> now]
  OBVIOUS
<1>7. new # NoSnap /\ new.thing = j.thing /\ new.view = j.view /\ new.time = now
  <2>1. new \in Snapshot
    BY <1>3, <1>4, <1>6 DEF Snapshot
  <2> QED BY <1>6, <2>1, SnapshotAssumption
<1>8. \A k \in Ids : snap'[k] = IF k = i /\ fresh THEN new ELSE snap[k]
  <2>1. CASE Live(i)
    <3>1. s = IF fresh THEN new ELSE snap[i]
      BY <1>2, <1>5, <1>6, <2>1 DEF Kept
    <3> HIDE DEF s
    <3>2. snap' = [snap EXCEPT ![i] = s]
      BY <1>1, <1>2, <2>1
    <3> QED BY <1>4, <3>1, <3>2
  <2>2. CASE ~ Live(i)
    BY <1>1, <1>2, <1>5, <2>2
  <2> QED BY <2>1, <2>2
<1> HIDE DEF s
<1>9. fresh => i \in Ids /\ Live(i)
  BY <1>5 DEF Live
<1>10. \A k : (Live(k)' <=> Live(k)) /\ (Cascades(k)' = Cascades(k))
  BY <1>1 DEF Live, Ids, Cascades
<1>11. Evolves
  BY <1>1, SameGhostsStay, SameEvolves DEF Sane, Typed, docs
<1>12. Goes(a, Rest(a), root, i, was)
  <2>1. PICK jobs : jobs = Rest(a)
    OBVIOUS
  <2>2. Continues(a, jobs, root, i, was)
    BY <1>1, <1>2, <2>1
  <2> QED BY <2>1, <2>2, ContinuesGoes DEF Sane
\* The snapshot that is written.
<1>13. JobTold(j, was)
  <2>1. Told(call[a].jobs, was, state)
    BY <1>2 DEF Faithful, CallerTold
  <2>2. j = call[a].jobs[1] /\ 1 \in 1 .. Len(call[a].jobs)
    BY NextJobs
  <2> QED BY <2>1, <2>2 DEF Told
<1>14. KeepTold(a) /\ RootTold(a)
  BY DEF Faithful, CallerTold
<1>15. ASSUME fresh
       PROVE  /\ log[i].op \in {"update_thing", "move_thing", "delete_thing"}
              /\ j.thing = log[i].subject
              /\ past[i].clean => was = past[i].first
              /\ log[i].parent # 0 => log[i].parent = root
              /\ log[i].op = "delete_thing" /\ log[i].parent = 0 =>
                   /\ root = i
                   /\ \A t \in BelowOnly(past[i].first, log[i].subject) :
                        Pending(call[a].jobs, 1, t)
  BY <1>1, <1>2, <1>5, <1>9, <1>14, <1>15 DEF KeepTold
<1>16. ASSUME NEW k \in Ids PROVE SnapTold(k)'
  <2>1. CASE k = i /\ fresh
    <3>1. snap'[k] = new /\ Live(k)
      BY <1>8, <1>9, <2>1
    <3>2. new.view = was[new.thing] /\ new.view.home \in T!AnyCollection
      BY <1>1, <1>7, <1>13 DEF JobTold
    <3>3. ASSUME log[k].parent # 0, log[log[k].parent].op = "delete_thing"
          PROVE  was = past[log[k].parent].first
      <4>1. log[k].parent = root
        BY <1>15, <2>1, <3>3
      <4>2. Live(root)
        BY <3>1, <3>3, <4>1 DEF Sane, Typed, RowsFit, RowFits
      <4>3. Follows(j)
        BY <1>1 DEF Follows
      <4> QED BY <1>2, <1>14, <3>3, <4>1, <4>2, <4>3 DEF RootTold
    <3> QED BY <1>1, <1>7, <1>15, <2>1, <3>1, <3>2, <3>3 DEF SnapTold
  <2>2. CASE ~ (k = i /\ fresh)
    BY <1>8, <1>11, <2>2, SnapStays DEF Faithful
  <2> QED BY <2>1, <2>2
\* What is below a deletion.
<1>17. ASSUME NEW k, NEW t, ToWrite(k, t) PROVE ToWrite(k, t)'
  <2>1. PICK d \in Caller : Busy(d) /\ call[d].root = k /\ Pending(call[d].jobs, 1, t)
    BY <1>17 DEF ToWrite
  <2>2. CASE d # a
    <3>1. call'[d] = call[d]
      BY <1>12, <2>2 DEF Goes
    <3> QED BY <2>1, <3>1 DEF ToWrite, Busy
  <2>3. CASE d = a
    <3>1. Pending(Rest(a), 1, t)
      BY <1>1, <2>1, <2>3, NextJobs
    <3>2. Rest(a) # <<>>
      BY <3>1 DEF Pending
    <3>3. Busy(a)' /\ call'[a].root = k /\ call'[a].jobs = Rest(a)
      BY <1>2, <1>12, <2>1, <2>3, <3>2 DEF Goes, Busy
    <3>4. Pending(call'[a].jobs, 1, t)
      BY <3>1, <3>3
    <3> QED BY <3>3, <3>4 DEF ToWrite
  <2> QED BY <2>2, <2>3
<1>18. ASSUME NEW k \in Ids PROVE Family(k)'
  <2> SUFFICES ASSUME Live(k), past[k].clean, log[k].op = "delete_thing", log[k].parent = 0,
                      NEW t \in BelowOnly(past[k].first, log[k].subject)
               PROVE  ToWrite(k, t)' \/ Written(k, t)'
    BY <1>1, <1>10 DEF Family
  <2>1. ToWrite(k, t) \/ Written(k, t)
    BY DEF Faithful, Family
  <2>2. CASE k = i /\ fresh
    <3>1. root = k /\ Pending(call[a].jobs, 1, t)
      BY <1>15, <2>2
    <3>2. ToWrite(k, t)
      BY <1>2, <3>1 DEF ToWrite
    <3> QED BY <1>17, <3>2
  <2>3. CASE ~ (k = i /\ fresh) /\ Written(k, t)
    <3>1. PICK x \in Cascades(k) :
            /\ log[x].subject = t
            /\ snap[k] # NoSnap => IF snap[x] = NoSnap THEN KeepDue(x) ELSE snap[k].time <= snap[x].time
      BY <2>3 DEF Written
    <3>2. x \in Ids /\ Live(x) /\ x \in Cascades(k)' /\ snap'[k] = snap[k]
      BY <1>8, <1>10, <2>3 DEF Cascades
    <3>3. CASE x = i /\ fresh
      <4>1. snap'[x] = new
        BY <1>8, <3>2, <3>3
      <4>2. snap[k] # NoSnap => snap[k].time <= now
        BY DEF Sane, Typed, RowsFit, SnapFits
      <4> QED BY <1>1, <1>7, <3>1, <3>2, <4>1, <4>2 DEF Written
    <3>4. CASE ~ (x = i /\ fresh)
      <4>1. snap'[x] = snap[x]
        BY <1>8, <3>2, <3>4
      <4>2. ASSUME snap[x] = NoSnap, KeepDue(x) PROVE KeepDue(x)'
        <5>1. PICK d \in Caller : call[d].last = x /\ Busy(d) /\ Todo(d).do = "keep"
          BY <4>2 DEF KeepDue
        <5>2. d # a
          BY <1>2, <1>5, <3>2, <3>4, <4>2, <5>1
        <5>3. call'[d] = call[d]
          BY <1>12, <5>2 DEF Goes
        <5> QED BY <5>1, <5>3 DEF KeepDue, Busy, Todo
      <4> QED BY <1>1, <3>1, <3>2, <4>1, <4>2 DEF Written
    <3> QED BY <3>3, <3>4
  <2>4. CASE ToWrite(k, t)
    BY <1>17, <2>4
  <2> QED BY <2>1, <2>2, <2>3, <2>4
<1>19. KeepTold(a)'
  <2>1. Rest(a) # <<>> => Head(Rest(a)).do # "keep"
    BY <1>1, KeepBehind DEF NeedsKeep
  <2> QED BY <1>12, <2>1, KeepsNothing
<1>20. RootTold(a)'
  <2>1. Follows(j)
    BY <1>1 DEF Follows
  <2> QED BY <1>2, <1>11, <1>12, <2>1, RootGoes
<1>21. ASSUME NEW k \in Ids, Live(k), past[k].clean, log[k].parent = 0, call[a].undoing = k
       PROVE  /\ Live(k)'
              /\ log[k].op = "delete_thing" => (snap'[k] # NoSnap <=> snap[k] # NoSnap)
  <2>1. ASSUME log[k].op = "delete_thing", k = i, fresh PROVE FALSE
    <3>1. root = k
      BY <1>15, <1>21, <2>1
    <3>2. Follows(j)
      BY <1>1 DEF Follows
    <3> QED BY <1>2, <1>21, <2>1, <3>1, <3>2, NotOfRoot
  <2> QED BY <1>8, <1>10, <1>21, <2>1
<1>22. (\A k \in Ids : snap'[k] = NoSnap => snap[k] = NoSnap) /\ Logs(j)
  BY <1>1, <1>5, <1>8 DEF Logs
<1>23. OldTold
  BY <1>1, <1>2, <1>11, <1>12, <1>16, <1>18, <1>19, <1>20, <1>21, <1>22, LogDone
<1> QED BY <1>1, <1>23, OldIsAll

----------------------------------------------------------------------------
(* Steps that write nothing                                                *)

\* Some callers go on as before; the others have nothing to tell.
LEMMA AsideTold ==
  ASSUME Sane, Sane', Faithful, OneHome', Evolves, log' = log, snap' = snap,
         NEW others \in SUBSET Caller,
         \A d \in others : /\ Undisturbed(d) /\ (call'[d].alone => call[d].alone)
                           /\ Busy(d) /\ call'[d].alone /\ call[d].undoing # 0 => docs' = docs,
         \A d \in Caller \ others : /\ CallerTold(d)' /\ Settled(d) /\ call'[d].undoing = 0
                                    /\ Busy(d)' => Todo(d)'.do = "retitle"
  PROVE  Faithful'
<1>1. Ids' = Ids /\ (\A i : Live(i)' <=> Live(i)) /\ SnapsStay
  BY SameSnapsStay DEF Live, Ids
<1>2. \A d \in others : /\ call'[d].jobs = call[d].jobs /\ call'[d].undoing = call[d].undoing
                        /\ (Busy(d)' <=> Busy(d)) /\ Todo(d)' = Todo(d)
  BY DEF Undisturbed, Busy, Todo
<1>3. ASSUME NEW i \in Ids PROVE RowTold(i)' /\ SnapTold(i)' /\ Family(i)'
  <2>1. \A d \in Caller : CallerTold(d) /\ Settled(d)
    BY DEF Faithful, Settled
  <2>2. RowTold(i)'
    BY RowStays DEF Faithful
  <2>3. SnapTold(i)'
    BY SnapStays DEF Faithful
  <2>4. Family(i)'
    BY <1>1, <2>1, FamilyStays DEF Faithful
  <2> QED BY <2>2, <2>3, <2>4
<1>4. ASSUME NEW c \in Caller PROVE CallerTold(c)'
  <2>1. CASE c \in others
    <3>1. PICK i : i = call[c].last
      OBVIOUS
    <3>2. CallerTold(c) /\ Undisturbed(c)
      BY <2>1 DEF Faithful
    <3> QED BY <3>1, <3>2, CallerStays
  <2> QED BY <2>1
<1>5. ASSUME NEW c \in Caller PROVE AloneTold(c)'
  <2> SUFFICES ASSUME Busy(c)', call'[c].alone, call'[c].undoing # 0, NEW d \in Caller, Busy(d)'
               PROVE  (Todo(d).do = "retitle")' \/ call'[d].undoing = call'[c].undoing
    BY DEF AloneTold
  <2>1. c \in others
    OBVIOUS
  <2>2. Busy(c) /\ call[c].alone /\ call[c].undoing # 0
    BY <1>2, <2>1
  <2>3. CASE d \in others
    <3>1. Busy(d) /\ (Todo(d).do = "retitle" \/ call[d].undoing = call[c].undoing)
      BY <1>2, <2>2, <2>3 DEF Faithful, AloneTold
    <3> QED BY <1>2, <2>1, <2>3, <3>1
  <2> QED BY <2>3
<1>6. ASSUME NEW c \in Caller PROVE Progress(c)'
  <2> SUFFICES ASSUME Alone(c)' PROVE Progress(c)'
    BY DEF Progress
  <2>1. PICK i, jobs : i = call'[c].undoing /\ jobs = call'[c].jobs
    OBVIOUS
  <2>2. Busy(c)' /\ call'[c].alone /\ i # 0 /\ past'[i].clean
    BY <2>1 DEF Alone
  <2>3. c \in others
    BY <2>1, <2>2
  <2>4. Busy(c) /\ call[c].alone /\ call[c].undoing = i /\ call[c].jobs = jobs
    BY <1>2, <2>1, <2>3, <2>2
  <2>5. i \in Ids
    BY <2>4, <2>2 DEF Sane, Typed, CallsTyped
  <2>6. past[i].clean
    BY <2>5, <2>2 DEF Evolves
  <2>7. /\ Live(i) /\ log[i].parent = 0 /\ log[i].op # "undo"
        /\ KindDue(jobs, "mark") => Reached(jobs, i)
    BY <2>4, <2>6, <2>2 DEF Faithful, Progress, Alone
  <2>8. Lasts(i)
    <3>1. docs' = docs
      BY <2>3, <2>4, <2>2
    <3>2. Safe(i)
      BY <3>1, DocsStaySafe
    <3> QED BY <1>1, <2>7, <3>2 DEF Lasts
  <2>9. KindDue(jobs, "mark") => Reached(jobs, i)'
    BY <2>5, <2>7, <2>8, SameDue, ReachedStays DEF Faithful
  <2>10. KindDue(jobs, "mark")' = KindDue(jobs, "mark")
    BY DEF KindDue
  <2>11. Live(i)' /\ log'[i].parent = 0 /\ log'[i].op # "undo"
    BY <1>1, <2>7
  <2> QED BY <2>1, <2>9, <2>10, <2>11 DEF Progress
<1> QED BY <1>1, <1>3, <1>4, <1>5, <1>6 DEF Faithful

LEMMA RenameTold ==
  ASSUME Sane, Sane', Faithful, NEW a \in Caller, NEW t \in Thing, Rename(a, t)
  PROVE  Faithful'
<1>1. PICK j : j = Retitle(t)
  OBVIOUS
<1>2. /\ ~ Busy(a) /\ docs' = docs /\ log' = log /\ snap' = snap /\ past' = past
      /\ call' = [call EXCEPT ![a].jobs = <<j>>]
  BY <1>1 DEF Rename, Tables, MayStart
<1>3. /\ \A d \in Caller \ {a} : call'[d] = call[d]
      /\ call'[a].jobs = <<j>> /\ call'[a].undoing = call[a].undoing
      /\ call'[a].root = call[a].root
  <2> DEFINE s == [call[a] EXCEPT !.jobs = <<j>>]
  <2>1. call \in [Caller -> CallRec] /\ call[a] \in CallRec
    BY DEF Sane, Typed, CallsTyped
  <2>2. call' = [call EXCEPT ![a] = s]
    BY <1>2
  <2>3. s.jobs = <<j>> /\ s.undoing = call[a].undoing /\ s.root = call[a].root
    BY <2>1 DEF CallRec
  <2> HIDE DEF s
  <2> QED BY <2>1, <2>2, <2>3
<1>4. j.do = "retitle" /\ ~ Logs(j)
  BY <1>1 DEF Retitle, Logs
<1>5. call[a].undoing = 0 /\ call[a].root = 0
  BY <1>2 DEF Faithful, CallerTold, UndoTold
<1>6. Busy(a)' /\ Todo(a)' = j
  BY <1>3 DEF Busy, Todo
<1>7. CallerTold(a)'
  <2>1. PICK jobs, was, st : jobs = <<j>> /\ was = call'[a].was /\ st = state'
    OBVIOUS
  <2>2. Paired(jobs) /\ Told(jobs, was, st)
    <3>1. Len(jobs) \in Nat /\ \A k \in 1 .. Len(jobs) : ~ Logs(jobs[k])
      BY <1>4, <2>1
    <3> QED BY <3>1, SilentTold
  <2>3. UndoTold(a)'
    BY <1>3, <1>5, <1>6 DEF UndoTold
  <2>4. KeepTold(a)'
    BY <1>4, <1>6 DEF KeepTold
  <2>5. RootTold(a)'
    BY <1>3, <1>5 DEF RootTold, Live, Ids
  <2> QED BY <1>3, <2>1, <2>2, <2>3, <2>4, <2>5 DEF CallerTold
<1>8. Evolves
  BY <1>2, SameGhostsStay, SameEvolves DEF Sane, Typed, docs
<1>9. OneHome'
  BY <1>2 DEF Faithful, OneHome, T!OneHome, T!IsLive, docs
<1>10. PICK others \in SUBSET Caller : others = Caller \ {a}
  OBVIOUS
<1>11. ASSUME NEW d \in others
       PROVE  /\ Undisturbed(d) /\ (call'[d].alone => call[d].alone)
              /\ Busy(d) /\ call'[d].alone /\ call[d].undoing # 0 => docs' = docs
  BY <1>2, <1>3, <1>10 DEF Undisturbed
<1>12. ASSUME NEW d \in Caller \ others
       PROVE  /\ CallerTold(d)' /\ Settled(d) /\ call'[d].undoing = 0
              /\ Busy(d)' => Todo(d)'.do = "retitle"
  <2>1. d = a
    BY <1>10
  <2> QED BY <1>2, <1>3, <1>4, <1>5, <1>6, <1>7, <2>1 DEF Settled
<1> QED BY <1>2, <1>8, <1>9, <1>11, <1>12, AsideTold

LEMMA RemoteTold ==
  ASSUME Sane, Sane', Faithful, NEW t \in Thing, NEW d \in Places, NEW entries \in SUBSET Entry,
         Remote(t, d, entries)
  PROVE  Faithful'
<1>1. /\ state' = state /\ log' = log /\ snap' = snap
      /\ meta' = Upserted(t, d, Keep, TRUE, entries)
      /\ call' = NotAlone(Disturbed(0)) /\ past' = Spoiled(Roots(Caller))
  BY DEF Remote, Tables
<1>2. OneHome'
  <2>1. PICK p \in Thing \cup {Keep, Clear}, listed \in BOOLEAN : p = Keep /\ listed = TRUE
    OBVIOUS
  <2>2. meta' = Upserted(t, d, p, listed, entries)
    BY <1>1, <2>1
  <2> QED BY <2>2, UpsertKeepsOne DEF Faithful, Sane, Typed, DocsTyped
<1>3. Evolves
  <2>1. GhostsStay
    BY <1>1, SpoiledStay DEF Sane, Typed
  <2> QED BY <1>1, <2>1, SameEvolves DEF Sane
<1>4. ASSUME NEW c \in Caller
      PROVE  /\ Undisturbed(c) /\ (call'[c].alone => call[c].alone)
             /\ Busy(c) /\ call'[c].alone /\ call[c].undoing # 0 => docs' = docs
  <2>1. Undisturbed(c)
    BY <1>1, NotAloneFacts DEF Undisturbed, Sane, Typed
  <2>2. call[c] \in CallRec
    BY DEF Sane, Typed, CallsTyped
  <2>3. c \notin Disturbed(0) => call'[c].alone = call[c].alone
    BY <1>1 DEF NotAlone
  <2>4. c \in Disturbed(0) => ~ call'[c].alone
    <3> DEFINE r == call[c]
               s == [r EXCEPT !.alone = FALSE]
    <3>1. c \in Disturbed(0) => call'[c] = s
      BY <1>1 DEF NotAlone
    <3>2. r \in CallRec
      BY <2>2
    <3> HIDE DEF r
    <3>3. s.alone = FALSE
      BY <3>2 DEF CallRec
    <3> QED BY <3>1, <3>3
  <2>5. Busy(c) /\ c \notin Disturbed(0) => Todo(c).do = "retitle"
    BY DEF Disturbed, Todo
  <2>6. Busy(c) /\ Todo(c).do = "retitle" => call[c].undoing = 0
    BY DEF Faithful, CallerTold, UndoTold
  <2> QED BY <2>1, <2>3, <2>4, <2>5, <2>6
<1>5. PICK others \in SUBSET Caller : others = Caller
  OBVIOUS
<1>6. \A c \in Caller \ others : /\ CallerTold(c)' /\ Settled(c) /\ call'[c].undoing = 0
                                 /\ Busy(c)' => Todo(c)'.do = "retitle"
  BY <1>5
<1> QED BY <1>1, <1>2, <1>3, <1>4, <1>6, AsideTold

LEMMA CrashTold ==
  ASSUME Sane, Sane', Faithful, Crash
  PROVE  Faithful'
<1>1. /\ call' = [c \in Caller |-> Idle] /\ past' = Spoiled(Roots(Caller))
      /\ docs' = docs /\ log' = log /\ snap' = snap
  BY DEF Crash, Tables
<1>2. GhostsStay /\ \A i \in Ids \cap Roots(Caller) : ~ past'[i].clean
  BY <1>1, SpoiledStay DEF Sane, Typed
<1>3. Evolves
  BY <1>1, <1>2, SameEvolves DEF Sane, docs
<1>4. OneHome'
  BY <1>1 DEF Faithful, OneHome, T!OneHome, T!IsLive, docs
<1>5. ASSUME NEW d \in Caller
      PROVE  /\ CallerTold(d)' /\ Settled(d) /\ call'[d].undoing = 0
             /\ Busy(d)' => Todo(d)'.do = "retitle"
  <2>1. call'[d].jobs = <<>> /\ call'[d].root = 0 /\ call'[d].undoing = 0 /\ ~ Busy(d)'
    BY <1>1, IdleType DEF Busy
  <2>2. CallerTold(d)'
    <3>1. PICK jobs, was, st : jobs = <<>> /\ was = call'[d].was /\ st = state'
      OBVIOUS
    <3>2. Paired(jobs) /\ Told(jobs, was, st)
      <4>1. Len(jobs) \in Nat /\ \A k \in 1 .. Len(jobs) : ~ Logs(jobs[k])
        BY <3>1
      <4> QED BY <4>1, SilentTold
    <3>3. UndoTold(d)' /\ KeepTold(d)' /\ RootTold(d)'
      BY <2>1 DEF UndoTold, KeepTold, RootTold
    <3> QED BY <2>1, <3>1, <3>2, <3>3 DEF CallerTold
  <2>3. Settled(d)
    <3>1. Busy(d) => {call[d].root, call[d].last} \subseteq Roots(Caller)
      BY DEF Roots
    <3> QED BY <1>2, <3>1 DEF Settled
  <2> QED BY <2>1, <2>2, <2>3
<1>6. PICK others \in SUBSET Caller : others = {}
  OBVIOUS
<1>7. \A d \in others : /\ Undisturbed(d) /\ (call'[d].alone => call[d].alone)
                        /\ Busy(d) /\ call'[d].alone /\ call[d].undoing # 0 => docs' = docs
  BY <1>6
<1> QED BY <1>1, <1>3, <1>4, <1>5, <1>7, AsideTold

\* The clock, and steps of no part of this.
LEMMA NothingTold ==
  ASSUME Sane, Sane', Faithful, docs' = docs, log' = log, snap' = snap, call' = call, past' = past
  PROVE  Faithful'
<1>1. Evolves
  BY SameGhostsStay, SameEvolves DEF Sane, Typed, docs
<1>2. OneHome'
  BY DEF Faithful, OneHome, T!OneHome, T!IsLive, docs
<1>3. \A d \in Caller : Undisturbed(d) /\ (call'[d].alone => call[d].alone)
  BY DEF Undisturbed
<1>4. PICK others \in SUBSET Caller : others = Caller
  OBVIOUS
<1>5. \A c \in Caller \ others : /\ CallerTold(c)' /\ Settled(c) /\ call'[c].undoing = 0
                                 /\ Busy(c)' => Todo(c)'.do = "retitle"
  BY <1>4
<1> QED BY <1>1, <1>2, <1>3, <1>5, AsideTold

LEMMA InitTold ==
  ASSUME Init
  PROVE  Faithful
<1>1. PICK there \in Seeds, known \in SUBSET Collection :
        meta = [d \in T!AnyCollection |-> [t \in Thing |->
             IF d = Drafts /\ t \in there
               THEN [there |-> "live", from |-> NoCollection, entries |-> Entry,
                     parent |-> IF \E p \in Parents[t] : p \in there
                                  THEN CHOOSE p \in Parents[t] : p \in there
                                  ELSE NoThing]
               ELSE T!Blank]]
  BY DEF Init
<1>2. OneHome
  <2>1. \A d \in T!AnyCollection, t \in Thing : T!IsLive(meta, d, t) => d = Drafts
    BY <1>1 DEF T!IsLive, T!Blank
  <2> QED BY <2>1 DEF OneHome, T!OneHome
<1>3. Ids = {} /\ call = [d \in Caller |-> Idle]
  BY DEF Init, Ids
<1>4. ASSUME NEW c \in Caller PROVE CallerTold(c) /\ AloneTold(c) /\ Progress(c)
  <2>1. call[c].jobs = <<>> /\ call[c].root = 0 /\ call[c].undoing = 0 /\ ~ Busy(c)
    BY <1>3, IdleType DEF Busy
  <2>2. PICK jobs, was, st : jobs = <<>> /\ was = call[c].was /\ st = state
    OBVIOUS
  <2>3. Paired(jobs) /\ Told(jobs, was, st)
    <3>1. Len(jobs) \in Nat /\ \A k \in 1 .. Len(jobs) : ~ Logs(jobs[k])
      BY <2>2
    <3> QED BY <3>1, SilentTold
  <2>4. UndoTold(c) /\ KeepTold(c) /\ RootTold(c)
    BY <2>1 DEF UndoTold, KeepTold, RootTold
  <2> QED BY <2>1, <2>2, <2>3, <2>4 DEF CallerTold, AloneTold, Progress, Alone
<1> QED BY <1>2, <1>3, <1>4 DEF Faithful

----------------------------------------------------------------------------
(* The theorem                                                             *)

LEMMA JobTellsAll ==
  ASSUME Sane, Sane', Faithful, NEW c \in Caller, Job(c)
  PROVE  Faithful'
<1>1. Busy(c)
  BY DEF Job
<1>2. CASE WriteNote(c)
  BY <1>1, <1>2, WriteNoteTold
<1>3. CASE JoinRecent(c)
  BY <1>1, <1>3, JoinRecentTold
<1>4. CASE KeepSnapshot(c)
  BY <1>1, <1>4, KeepSnapshotTold
<1>5. CASE PutSnapshot(c)
  BY <1>1, <1>5, PutSnapshotTold
<1>6. CASE PutThingBack(c)
  BY <1>1, <1>6, PutThingBackTold
<1>7. CASE Retitles(c)
  BY <1>1, <1>7, RetitlesTold
<1>8. CASE EndsWithError(c)
  BY <1>1, <1>8, EndsWithErrorTold
<1>9. CASE DeletesCreated(c)
  BY <1>1, <1>9, DeletesCreatedTold
<1>10. CASE ArchivesCreated(c)
  BY <1>1, <1>10, ArchivesCreatedTold
<1>11. CASE ReopensDeleted(c)
  BY <1>1, <1>11, ReopensDeletedTold
<1>12. CASE MarkUndone(c)
  BY <1>1, <1>12, MarkUndoneTold
<1>13. CASE RecordUndo(c)
  BY <1>1, <1>13, RecordUndoTold
<1>14. CASE TrimLog(c)
  BY <1>1, <1>14, TrimLogTold
<1>15. CASE Fails(c)
  BY <1>1, <1>15, FailsTold
<1> QED BY <1>2, <1>3, <1>4, <1>5, <1>6, <1>7, <1>8, <1>9, <1>10, <1>11, <1>12, <1>13, <1>14,
           <1>15 DEF Job

LEMMA CommandTellsAll ==
  ASSUME Sane, Sane', Faithful, NEW c \in Caller, Command(c)
  PROVE  Faithful'
<1>1. ASSUME NEW t \in Thing, NEW d \in Places, NEW entries \in SUBSET Entry,
             NEW p \in Parents[t], Edit(c, t, d, p, entries)
      PROVE  Faithful'
  BY <1>1, EditTold
<1>2. ASSUME NEW t \in Thing, NEW d \in Places, Move(c, t, d)
      PROVE  Faithful'
  BY <1>2, MoveTold
<1>3. ASSUME NEW t \in Thing, Rename(c, t) \/ Delete(c, t) \/ Restore(c, t)
      PROVE  Faithful'
  BY <1>3, RenameTold, DeleteTellsAll, RestoreTold
<1>4. ASSUME NEW t \in Thing, NEW can \in BOOLEAN, SetStatus(c, t, can)
      PROVE  Faithful'
  BY <1>4, SetStatusTold
<1>5. ASSUME NEW d \in Collection, UpsertCollection(c, d) \/ DeleteCollection(c, d)
      PROVE  Faithful'
  BY <1>5, CollectionTold
<1>6. ASSUME NEW i \in Ids, NEW resolved \in BOOLEAN, Undo(c, i, resolved)
      PROVE  Faithful'
  BY <1>6, UndoBegins
<1>7. CASE Cleanup(c)
  BY <1>7, CleanupTold
<1> QED BY <1>1, <1>2, <1>3, <1>4, <1>5, <1>6, <1>7 DEF Command

LEMMA NextTellsAll ==
  ASSUME Sane, Known, Faithful, [Next]_vars
  PROVE  Faithful'
<1>1. Sane'
  BY NextKeeps
<1>2. ASSUME NEW c \in Caller, Command(c) PROVE Faithful'
  BY <1>1, <1>2, CommandTellsAll
<1>3. ASSUME NEW c \in Caller, Job(c) PROVE Faithful'
  BY <1>1, <1>3, JobTellsAll
<1>4. ASSUME NEW t \in Thing, NEW d \in Places, NEW entries \in SUBSET Entry, Remote(t, d, entries)
      PROVE  Faithful'
  BY <1>1, <1>4, RemoteTold
<1>5. CASE Crash
  BY <1>1, <1>5, CrashTold
<1>6. CASE Tick
  BY <1>1, <1>6, NothingTold DEF Tick, Tables
<1>7. CASE UNCHANGED vars
  BY <1>1, <1>7, NothingTold DEF vars, docs
<1> QED BY <1>2, <1>3, <1>4, <1>5, <1>6, <1>7 DEF Next

\* The inductive invariant of undo: the log, the snapshots and the jobs that are
\* left tell what there was before each change, and an undo has put back what is
\* no longer among its jobs.
THEOREM LogIsFaithful == Spec => []Faithful
<1>1. Init => Faithful
  BY InitTold
<1>2. (Sane /\ Known) /\ Faithful /\ [Next]_vars => Faithful'
  BY NextTellsAll
<1> QED BY <1>1, <1>2, HistoryInvariant, PTL DEF Spec

\* An undo that nobody disturbs has, when it comes to its mark, brought back
\* what there was before the first change of its entry, whatever edits joined
\* the entry, whatever was cleaned up, and whatever crashed before the undo
\* began; two undos of one entry may run beside each other.
THEOREM UndoBringsBack == Spec => []UndoTakesBack
<1>1. Sane /\ Faithful => UndoTakesBack
  <2> SUFFICES ASSUME Sane, Faithful, NEW c \in Caller, NEW i, i = call[c].undoing,
                      Undoes(c), call[c].alone, past[i].clean
               PROVE  LET first == past[i].first
                          s == log[i].subject
                      IN CASE log[i].op = "create_thing" -> T!Home(meta, s) = Trash
                           [] log[i].op = "delete_thing" ->
                                \A t \in BelowIn(first, s) : Back(first[t], t)
                           [] log[i].op = "update_thing" -> Back(first[s], s)
                           [] log[i].op = "move_thing" -> T!Home(meta, s) = first[s].home
                           [] log[i].op = "create_collection" -> state[s] = "archived"
                           [] OTHER -> state[s] = "active"
    BY DEF UndoTakesBack
  <2> DEFINE first == past[i].first
             s == log[i].subject
  <2>1. PICK jobs : jobs = call[c].jobs
    OBVIOUS
  <2>2. Alone(c) /\ Busy(c) /\ i # 0 /\ Todo(c).do = "mark"
    BY DEF Undoes, Alone
  <2>3. Live(i) /\ log[i].op # "undo" /\ (KindDue(jobs, "mark") => Reached(jobs, i))
    BY <2>1, <2>2 DEF Faithful, Progress
  <2>4. 1 \in 1 .. Len(jobs) /\ jobs[1].do = "mark" /\ Len(jobs) \in Nat
    BY <2>1, <2>2, NextJobs, TodoFacts DEF Sane, Typed
  <2>5. Reached(jobs, i)
    BY <2>3, <2>4 DEF KindDue
  <2>6. ForUndo(jobs, i, log)
    BY <2>1, <2>2, <2>3 DEF Faithful, CallerTold, UndoTold
  <2>7. \A m \in 1 .. Len(jobs) : jobs[m].do \in {"mark", "record"}
    <3> SUFFICES ASSUME NEW m \in 1 .. Len(jobs), m # 1 PROVE jobs[m].do = "record"
      BY <2>4
    <3>1. m \in 2 .. Len(jobs)
      BY <2>4
    <3>2. \A x \in 1 + 1 .. Len(jobs) : jobs[x].do = "record"
      BY <2>4, <2>6 DEF ForUndo
    <3> QED BY <3>1, <3>2
  <2>8. ~ KindDue(jobs, "bin") /\ ~ KindDue(jobs, "put back") /\ ~ KindDue(jobs, "shelve")
        /\ ~ KindDue(jobs, "reopen") /\ \A j : ~ PutDue(jobs, j)
    BY <2>7 DEF KindDue, PutDue
  <2>9. \A t : ~ PutAwaited(jobs, i, t)
    BY <2>8 DEF PutAwaited
  <2>10. log[i].op = "delete_thing" => \A t \in BelowIn(first, s) : Back(first[t], t)
    <3>1. log[i].op = "delete_thing" =>
            Back(first[s], s) /\ \A t \in BelowOnly(first, s) : Back(first[t], t)
      BY <2>5, <2>8, <2>9 DEF Reached
    <3> QED BY <3>1 DEF BelowOnly
  <2>11. log[i].op = "update_thing" => Back(first[s], s)
    BY <2>5, <2>8 DEF Reached
  <2>12. /\ log[i].op = "create_thing" => T!Home(meta, s) = Trash
         /\ log[i].op = "move_thing" => T!Home(meta, s) = first[s].home
         /\ log[i].op = "create_collection" => state[s] = "archived"
         /\ log[i].op = "delete_collection" => state[s] = "active"
         /\ log[i].op # "update_collection"
    BY <2>5, <2>8 DEF Reached
  <2>13. log[i].op \in Op
    BY <2>3, TablesFacts DEF Live, Sane, Typed, LogRow
  <2> QED BY <2>3, <2>10, <2>11, <2>12, <2>13 DEF Op
<1> QED BY <1>1, HistoryInvariant, LogIsFaithful, PTL

=============================================================================
