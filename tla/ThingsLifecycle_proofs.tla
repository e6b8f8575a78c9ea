----------------------- MODULE ThingsLifecycle_proofs -----------------------
(***************************************************************************)
(* Theorems about the commands on collections and things, by themselves    *)
(* and given by paths, for any things, collections and content entries.    *)
(*                                                                         *)
(* For each thing a command does one of three: it lets the thing be, it    *)
(* changes content entries, or it makes the thing go to a collection.      *)
(* Goes says what the third does to the entries of the thing; one lemma    *)
(* shows that it keeps the invariant, and one per command that it is what  *)
(* the command does.                                                       *)
(*                                                                         *)
(* What a restore brings back depends on walks along parents; Above is     *)
(* shown to be a least closed set, and the rest reasons about such sets.   *)
(***************************************************************************)
EXTENDS VirtualPaths, Integers, FiniteSetTheorems, TLAPS

Documents == [AnyCollection -> [Thing -> Meta]]

\* The parts of the invariant that speak of one thing.
LiveOnce(m, x) == \A c, d \in AnyCollection : IsLive(m, c, x) /\ IsLive(m, d, x) => c = d
Archived(m, x) == \A c \in AnyCollection :
                    m[c][x].from # NoCollection => c = Trash /\ IsLive(m, c, x)
Good(m, x) == LiveOnce(m, x) /\ Archived(m, x)

\* Between m and n, the thing x is let be; only its content entries change; it
\* goes to c with archive attribute f.
Stays(m, n, x) == \A d \in AnyCollection : n[d][x] = m[d][x]
Edited(m, n, x) == \A d \in AnyCollection :
                     n[d][x].there = m[d][x].there /\ n[d][x].from = m[d][x].from
Goes(m, n, x, c, f) ==
  /\ n[c][x].there = "live"
  /\ n[c][x].from = f
  /\ \A d \in AnyCollection \ {c} :
       n[d][x] = IF d = Home(m, x) THEN Tombstoned(m[d][x]) ELSE m[d][x]

LEMMA SystemInAll == Drafts \in AnyCollection /\ Trash \in AnyCollection
                     /\ System \subseteq AnyCollection /\ NoCollection \notin AnyCollection
BY LifecycleAssumption DEF AnyCollection, System

LEMMA TombstonedFacts ==
  ASSUME NEW e \in Meta
  PROVE  Tombstoned(e) \in Meta /\ Tombstoned(e).there = "dead"
         /\ Tombstoned(e).from = NoCollection
BY DEF Meta, Tombstoned

LEMMA HomeFacts ==
  ASSUME NEW m, NEW x
  PROVE  /\ Exists(m, x) => Home(m, x) \in AnyCollection /\ IsLive(m, Home(m, x), x)
         /\ Home(m, x) \in AnyCollection \cup {NoCollection}
         /\ \A c \in AnyCollection : IsLive(m, c, x) => Exists(m, x)
BY SystemInAll DEF Home, Exists

LEMMA HomeIsOnly ==
  ASSUME NEW m, NEW x, NEW c \in AnyCollection, LiveOnce(m, x), IsLive(m, c, x)
  PROVE  Home(m, x) = c
BY HomeFacts DEF LiveOnce

LEMMA StaysGood ==
  ASSUME NEW m, NEW n, NEW x, Good(m, x), Stays(m, n, x) \/ Edited(m, n, x)
  PROVE  Good(n, x) /\ Home(n, x) = Home(m, x) /\ (Exists(m, x) => Exists(n, x))
<1>1. \A d \in AnyCollection : IsLive(n, d, x) = IsLive(m, d, x)
                               /\ n[d][x].from = m[d][x].from
  BY DEF Stays, Edited, IsLive
<1>2. Good(n, x)
  BY <1>1 DEF Good, LiveOnce, Archived
<1>3. CASE Exists(m, x)
  BY <1>1, <1>2, <1>3, HomeFacts, HomeIsOnly DEF Good
<1>4. CASE ~ Exists(m, x)
  <2>1. ~ Exists(n, x)
    <3>1. SUFFICES ASSUME Exists(n, x) PROVE FALSE
      OBVIOUS
    <3>2. Home(n, x) \in AnyCollection /\ IsLive(n, Home(n, x), x)
      BY <3>1, HomeFacts
    <3>3. IsLive(m, Home(n, x), x)
      BY <1>1, <3>2
    <3> QED BY <1>4, <3>2, <3>3, HomeFacts
  <2> QED BY <1>2, <1>4, <2>1 DEF Exists
<1> QED BY <1>2, <1>3, <1>4

LEMMA GoesGood ==
  ASSUME NEW m \in Documents, NEW n, NEW x \in Thing, NEW c \in AnyCollection, NEW f,
         Good(m, x), Goes(m, n, x, c, f), f # NoCollection => c = Trash
  PROVE  Good(n, x) /\ Home(n, x) = c /\ Exists(n, x)
<1>1. IsLive(n, c, x) /\ n[c][x].from = f
  BY DEF Goes, IsLive
<1>2. ASSUME NEW d \in AnyCollection, d # c
      PROVE  ~ IsLive(n, d, x) /\ n[d][x].from = NoCollection
  <2>1. m[d][x] \in Meta
    BY DEF Documents
  <2>2. CASE d = Home(m, x)
    <3>1. n[d][x] = Tombstoned(m[d][x])
      BY <1>2, <2>2 DEF Goes
    <3> QED BY <2>1, <3>1, TombstonedFacts DEF IsLive
  <2>3. CASE d # Home(m, x)
    <3>1. n[d][x] = m[d][x]
      BY <1>2, <2>3 DEF Goes
    <3>2. ~ IsLive(m, d, x)
      BY <2>3, HomeIsOnly DEF Good
    <3> QED BY <3>1, <3>2 DEF IsLive, Good, Archived
  <2> QED BY <2>2, <2>3
<1>3. Good(n, x)
  BY <1>1, <1>2 DEF Good, LiveOnce, Archived
<1> QED BY <1>1, <1>3, HomeIsOnly, HomeFacts DEF Good

----------------------------------------------------------------------------
(* What the operators of the commands do                                   *)

States == [AnyCollection -> {"absent", "active", "archived"}]

LEMMA EnsuredFacts ==
  ASSUME NEW s \in States, NEW cs
  PROVE  /\ Ensured(s, cs) \in States
         /\ \A c \in AnyCollection :
              /\ s[c] # "absent" => Ensured(s, cs)[c] # "absent"
              /\ s[c] # "archived" => Ensured(s, cs)[c] # "archived"
              /\ c \in cs => Ensured(s, cs)[c] = "active"
BY DEF States, Ensured

LEMMA PatchedType ==
  ASSUME NEW old \in Thing \cup {NoThing}, NEW p \in ParentArg \cup {NoThing}
  PROVE  Patched(old, p) \in Thing \cup {NoThing}
BY DEF Patched, ParentArg

LEMMA UpsertedFacts ==
  ASSUME NEW e \in Meta, NEW p \in ParentArg, NEW more \in SUBSET Entry
  PROVE  LET u == [Upserted(e, p) EXCEPT !.entries = @ \cup more]
         IN u \in Meta /\ u.there = "live" /\ u.from = e.from
<1>1. Patched(e.parent, p) \in Thing \cup {NoThing}
  BY PatchedType DEF Meta
<1> QED BY <1>1 DEF Upserted, Meta

LEMMA PlacedGoes ==
  ASSUME NEW m \in Documents, NEW t \in Thing, NEW c \in AnyCollection,
         NEW p \in ParentArg, NEW more \in SUBSET Entry
  PROVE  LET n == Placed(m, t, c, p, more)
         IN /\ n \in Documents
            /\ Goes(m, n, t, c, m[c][t].from)
            /\ \A x \in Thing \ {t} : Stays(m, n, x)
<1> DEFINE n == Placed(m, t, c, p, more)
           u == [Upserted(m[c][t], p) EXCEPT !.entries = @ \cup more]
<1>1. /\ m[c][t] \in Meta
      /\ \A d \in AnyCollection : m[d] \in [Thing -> Meta] /\ m[d][t] \in Meta
  BY DEF Documents
<1>2. u \in Meta /\ u.there = "live" /\ u.from = m[c][t].from
  BY <1>1, UpsertedFacts
<1>3. n = [d \in AnyCollection |-> [m[d] EXCEPT ![t] =
             IF d = c THEN u ELSE IF d = Home(m, t) THEN Tombstoned(m[d][t]) ELSE m[d][t]]]
  BY <1>1 DEF Placed
<1> HIDE DEF u, n
<1>4. \A d \in AnyCollection :
        (IF d = c THEN u ELSE IF d = Home(m, t) THEN Tombstoned(m[d][t]) ELSE m[d][t]) \in Meta
  BY <1>1, <1>2, TombstonedFacts
<1>5. n \in Documents
  BY <1>1, <1>3, <1>4 DEF Documents
<1>6. \A d \in AnyCollection :
        n[d][t] = IF d = c THEN u ELSE IF d = Home(m, t) THEN Tombstoned(m[d][t]) ELSE m[d][t]
  BY <1>1, <1>3
<1>7. Goes(m, n, t, c, m[c][t].from)
  BY <1>2, <1>6 DEF Goes
<1>8. \A x \in Thing \ {t} : Stays(m, n, x)
  BY <1>1, <1>3 DEF Stays
<1> QED BY <1>5, <1>7, <1>8 DEF n

Moved(m, root) == {root} \cup Descendants(m, root)

LEMMA CascadedGoes ==
  ASSUME NEW m \in Documents, NEW root \in Thing, NEW c \in AnyCollection,
         NEW p \in ParentArg, NEW archive \in BOOLEAN, Exists(m, root)
  PROVE  LET n == Cascaded(m, root, c, p, archive)
         IN /\ n \in Documents
            /\ \A x \in Moved(m, root) :
                 /\ Goes(m, n, x, c, IF archive THEN Home(m, x) ELSE NoCollection)
                 /\ n[c][x].entries = m[c][x].entries \cup Carried(m, x, c)
            /\ \A x \in Thing \ Moved(m, root) : Stays(m, n, x)
<1> DEFINE n == Cascaded(m, root, c, p, archive)
           u(x) == CascadedEntry(m, x, root, c, p, archive)
           v(d, x) == IF x \in Moved(m, root) /\ d = c THEN u(x)
                      ELSE IF x \in Moved(m, root) /\ d = Home(m, x) THEN Tombstoned(m[d][x])
                      ELSE m[d][x]
<1>1. \A d \in AnyCollection, x \in Thing : m[d][x] \in Meta
  BY DEF Documents
<1>2. Moved(m, root) \subseteq Thing /\ \A x \in Moved(m, root) : Exists(m, x)
  BY DEF Moved, Descendants
<1>3. ASSUME NEW x \in Moved(m, root)
      PROVE  /\ u(x) \in Meta
             /\ u(x).there = "live"
             /\ u(x).from = IF archive THEN Home(m, x) ELSE NoCollection
             /\ u(x).entries = m[c][x].entries \cup Carried(m, x, c)
  <2>1. x \in Thing /\ Home(m, x) \in AnyCollection
    BY <1>2, HomeFacts
  <2>2. Shown(m, x) \in Meta /\ m[c][x] \in Meta
    BY <1>1, <2>1 DEF Shown
  <2>3. Patched(m[c][x].parent, IF x = root THEN p ELSE Shown(m, x).parent)
          \in Thing \cup {NoThing}
    <3>1. m[c][x].parent \in Thing \cup {NoThing}
          /\ Shown(m, x).parent \in Thing \cup {NoThing}
      BY <2>2 DEF Meta
    <3>2. (IF x = root THEN p ELSE Shown(m, x).parent) \in ParentArg \cup {NoThing}
      BY <3>1 DEF ParentArg
    <3> QED BY <3>1, <3>2, PatchedType
  <2>4. m[c][x].entries \cup Carried(m, x, c) \in SUBSET Entry
    BY <2>2 DEF Meta, Carried
  <2>5. (IF archive THEN Home(m, x) ELSE NoCollection) \in AnyCollection \cup {NoCollection}
    BY <2>1
  <2> QED BY <2>3, <2>4, <2>5 DEF CascadedEntry, Meta
<1>4. n = [d \in AnyCollection |-> [x \in Thing |-> v(d, x)]]
  BY DEF Cascaded, Moved
<1> HIDE DEF u, n
<1>5. \A d \in AnyCollection, x \in Thing : v(d, x) \in Meta
  BY <1>1, <1>3, TombstonedFacts
<1>6. \A d \in AnyCollection, x \in Thing : n[d][x] = v(d, x)
  BY <1>4
<1>7. n \in Documents
  <2> HIDE DEF v
  <2> QED BY <1>4, <1>5 DEF Documents
<1>8. \A x \in Moved(m, root) :
        /\ Goes(m, n, x, c, IF archive THEN Home(m, x) ELSE NoCollection)
        /\ n[c][x].entries = m[c][x].entries \cup Carried(m, x, c)
  BY <1>2, <1>3, <1>6 DEF Goes
<1>9. \A x \in Thing \ Moved(m, root) : Stays(m, n, x)
  BY <1>6 DEF Stays
<1> QED BY <1>7, <1>8, <1>9 DEF n

----------------------------------------------------------------------------
(* What a command has to do                                                *)

Arrives(x, c) ==
  /\ Goes(meta, meta', x, c, meta'[c][x].from)
  /\ state'[c] # "absent"
  /\ meta'[c][x].from # NoCollection =>
       /\ c = Trash
       /\ Exists(meta, x) => \/ Shown(meta, x).from # NoCollection
                             \/ Shown(meta, x).entries \subseteq meta'[c][x].entries

\* No document goes, and the system collections are not archived.
StateGrows ==
  /\ state' \in States
  /\ \A c \in AnyCollection : state[c] # "absent" => state'[c] # "absent"
  /\ \A c \in System : state'[c] # "archived"

Handled(x) == \/ Stays(meta, meta', x)
              \/ Edited(meta, meta', x)
              \/ \E c \in AnyCollection : Arrives(x, c)

\* No entry of n names its own thing as the parent.
Apart(n) == \A x \in Thing, c \in AnyCollection : n[c][x].parent # x

Proper == /\ meta' \in Documents
          /\ Apart(meta')
          /\ made' \in Nat
          /\ StateGrows
          /\ \A x \in Thing : Handled(x)

\* The two action properties for one thing.
Kept(t) ==
  /\ Exists(meta, t) => Exists(meta', t)
  /\ Exists(meta, t) /\ Shown(meta, t).from = NoCollection
     /\ Exists(meta', t) /\ Shown(meta', t).from # NoCollection
     => Shown(meta, t).entries \subseteq Shown(meta', t).entries

LEMMA InductiveSays ==
  ASSUME Inductive
  PROVE  meta \in Documents /\ state \in States /\ made \in Nat
         /\ Apart(meta)
         /\ \A x \in Thing : Good(meta, x)
BY DEF Inductive, TypeOK, OneHome, ArchivedInTrash, NoOwnParent, Documents, States, Good,
       LiveOnce, Archived, Apart

LEMMA ProperKeeps ==
  ASSUME Inductive, Proper
  PROVE  Inductive' /\ \A t \in Thing : Kept(t)
<1>1. meta \in Documents /\ \A x \in Thing : Good(meta, x)
  BY InductiveSays
<1>2. ASSUME NEW x \in Thing
      PROVE  /\ Good(meta', x)
             /\ Kept(x)
             /\ \A d \in AnyCollection : IsLive(meta', d, x) => state'[d] # "absent"
  <2>1. CASE Stays(meta, meta', x) \/ Edited(meta, meta', x)
    <3>1. Good(meta', x) /\ Home(meta', x) = Home(meta, x)
          /\ (Exists(meta, x) => Exists(meta', x))
      BY <1>1, <2>1, StaysGood
    <3>2. \A d \in AnyCollection : /\ meta'[d][x].from = meta[d][x].from
                                   /\ IsLive(meta', d, x) => IsLive(meta, d, x)
      BY <2>1 DEF Stays, Edited, IsLive
    <3>3. Kept(x)
      BY <3>1, <3>2, HomeFacts DEF Kept, Shown
    <3>4. \A d \in AnyCollection : IsLive(meta, d, x) => state[d] # "absent"
      BY DEF Inductive, LiveInDocument
    <3> QED BY <3>1, <3>2, <3>3, <3>4 DEF Proper, StateGrows
  <2>2. ASSUME NEW c \in AnyCollection, Arrives(x, c)
        PROVE  /\ Good(meta', x)
               /\ Kept(x)
               /\ \A d \in AnyCollection : IsLive(meta', d, x) => state'[d] # "absent"
    <3>1. Good(meta', x) /\ Home(meta', x) = c /\ Exists(meta', x)
      BY <1>1, <2>2, GoesGood DEF Arrives
    <3>2. Kept(x)
      BY <2>2, <3>1 DEF Kept, Shown, Arrives
    <3>3. \A d \in AnyCollection : IsLive(meta', d, x) => d = c
      BY <3>1, HomeIsOnly DEF Good
    <3> QED BY <2>2, <3>1, <3>2, <3>3 DEF Arrives
  <2> QED BY <2>1, <2>2 DEF Proper, Handled
<1>3. TypeOK'
  BY DEF Proper, StateGrows, TypeOK, Documents, States
<1>4. OneHome' /\ ArchivedInTrash'
  BY <1>2 DEF Good, LiveOnce, Archived, OneHome, ArchivedInTrash
<1>5. LiveInDocument' /\ SystemStays'
  BY <1>2 DEF LiveInDocument, Proper, StateGrows, SystemStays
<1>6. NoOwnParent'
  BY DEF Proper, Apart, NoOwnParent
<1> QED BY <1>2, <1>3, <1>4, <1>5, <1>6 DEF Inductive

----------------------------------------------------------------------------
(* Each command does it                                                    *)

\* The documents that commands make.
LEMMA EnsuredGrows ==
  ASSUME Inductive, NEW cs, state' = Ensured(state, cs)
  PROVE  StateGrows
BY InductiveSays, EnsuredFacts, SystemInAll DEF StateGrows, Inductive, SystemStays

LEMMA EnsuredTwice ==
  ASSUME Inductive, NEW cs, NEW ds, state' = Ensured(Ensured(state, cs), ds)
  PROVE  StateGrows
<1>1. Ensured(state, cs) \in States
  BY InductiveSays, EnsuredFacts
<1> QED
  BY <1>1, InductiveSays, EnsuredFacts, SystemInAll DEF StateGrows, Inductive, SystemStays

LEMMA MakesType ==
  ASSUME Inductive, NEW listed, NEW new, Makes(listed, new)
  PROVE  made' \in Nat
BY InductiveSays DEF Makes

\* A valid parent is another thing, and what is kept was another.
LEMMA PatchedApart ==
  ASSUME NEW t \in Thing, NEW old, old # t, NEW p, p # t
  PROVE  Patched(old, p) # t
BY LifecycleAssumption DEF Patched

LEMMA PlacedApart ==
  ASSUME NEW m \in Documents, Apart(m), NEW t \in Thing, NEW c \in AnyCollection,
         NEW p \in ParentArg, NEW more \in SUBSET Entry, ValidParent(m, c, t, p),
         NEW n, n = Placed(m, t, c, p, more)
  PROVE  Apart(n)
<1> SUFFICES ASSUME NEW x \in Thing, NEW d \in AnyCollection PROVE n[d][x].parent # x
  BY DEF Apart
<1>1. m[d] \in [Thing -> Meta] /\ m[d][x] \in Meta /\ m[d][x].parent # x
  BY DEF Documents, Apart
<1>2. CASE x = t /\ d = c
  <2>1. Patched(m[d][x].parent, p) # x
    BY <1>1, <1>2, PatchedApart DEF ValidParent
  <2>2. n[d][x] = [Upserted(m[d][x], p) EXCEPT !.entries = @ \cup more]
    BY <1>1, <1>2 DEF Placed
  <2> QED BY <2>1, <2>2 DEF Upserted
<1>3. CASE x = t /\ d # c
  <2>1. n[d][x] = Tombstoned(m[d][x]) \/ n[d][x] = m[d][x]
    BY <1>1, <1>3 DEF Placed
  <2> QED BY <1>1, <2>1 DEF Tombstoned, Meta
<1>4. CASE x # t
  BY <1>1, <1>4 DEF Placed
<1> QED BY <1>2, <1>3, <1>4

\* A thing that is placed in a collection that exists arrives there; its
\* content entries may be set besides.
LEMMA PlacedArrives ==
  ASSUME Inductive, NEW t \in Thing, NEW c \in AnyCollection, NEW p \in ParentArg,
         NEW more \in SUBSET Entry, NEW data \in SUBSET Entry, NEW n,
         n = Placed(meta, t, c, p, more),
         meta' = n \/ meta' = [n EXCEPT ![c][t].entries = data],
         ValidParent(meta, c, t, p), state'[c] # "absent"
  PROVE  meta' \in Documents /\ Apart(meta') /\ \A x \in Thing : Handled(x)
<1>1. meta \in Documents /\ Good(meta, t)
  BY InductiveSays
<1>2. /\ n \in Documents
      /\ Goes(meta, n, t, c, meta[c][t].from)
      /\ \A x \in Thing \ {t} : Stays(meta, n, x)
  BY <1>1, PlacedGoes
<1>3. /\ meta' \in Documents
      /\ meta'[c][t].there = n[c][t].there /\ meta'[c][t].from = n[c][t].from
      /\ meta'[c][t].parent = n[c][t].parent
      /\ \A d \in AnyCollection, x \in Thing :
           (d # c \/ x # t) => meta'[d][x] = n[d][x]
  <2>1. CASE meta' = n
    BY <1>2, <2>1
  <2>2. CASE meta' = [n EXCEPT ![c][t].entries = data]
    <3> DEFINE e == [n[c][t] EXCEPT !.entries = data]
    <3>1. n[c][t] \in Meta /\ n[c] \in [Thing -> Meta]
      BY <1>2 DEF Documents
    <3>2. e \in Meta /\ e.there = n[c][t].there /\ e.from = n[c][t].from
          /\ e.parent = n[c][t].parent
      BY <3>1 DEF Meta
    <3>3. meta' = [n EXCEPT ![c] = [n[c] EXCEPT ![t] = e]]
      BY <1>2, <2>2, <3>1 DEF Documents
    <3> HIDE DEF e
    <3> QED BY <1>2, <3>1, <3>2, <3>3 DEF Documents
  <2> QED BY <2>1, <2>2
<1>4. Goes(meta, meta', t, c, meta'[c][t].from)
  BY <1>2, <1>3 DEF Goes
<1>5. meta'[c][t].from # NoCollection => c = Trash /\ Shown(meta, t).from # NoCollection
  <2>1. SUFFICES ASSUME meta'[c][t].from # NoCollection
                 PROVE  c = Trash /\ Shown(meta, t).from # NoCollection
    OBVIOUS
  <2>2. meta[c][t].from # NoCollection
    BY <1>2, <1>3, <2>1 DEF Goes
  <2>3. c = Trash /\ IsLive(meta, c, t)
    BY <1>1, <2>2 DEF Good, Archived
  <2>4. Home(meta, t) = c
    BY <1>1, <2>3, HomeIsOnly DEF Good
  <2> QED BY <2>2, <2>3, <2>4 DEF Shown
<1>6. Arrives(t, c)
  BY <1>4, <1>5 DEF Arrives
<1>7. \A x \in Thing \ {t} : Stays(meta, meta', x)
  BY <1>2, <1>3 DEF Stays
<1>8. Apart(n)
  BY <1>1, PlacedApart, InductiveSays
<1>9. Apart(meta')
  BY <1>3, <1>8 DEF Apart
<1> QED BY <1>3, <1>6, <1>7, <1>9 DEF Handled

LEMMA UpsertThingProper ==
  ASSUME Inductive, NEW t \in Thing, NEW c \in AnyCollection, NEW p \in ParentArg,
         NEW listed \in BOOLEAN, NEW data \in SUBSET Entry, UpsertThing(t, c, p, listed, data)
  PROVE  Proper
<1>1. StateGrows
  BY EnsuredGrows DEF UpsertThing
<1>2. state'[c] # "absent" /\ ValidParent(meta, c, t, p)
  BY DEF UpsertThing
<1>3. made' \in Nat
  BY MakesType DEF UpsertThing
<1> DEFINE n == Placed(meta, t, c, p, {})
<1>4. meta' = n \/ meta' = [n EXCEPT ![c][t].entries = data]
  BY DEF UpsertThing
<1>5. n = Placed(meta, t, c, p, {}) /\ {} \in SUBSET Entry
  OBVIOUS
<1> HIDE DEF n
<1>6. meta' \in Documents /\ Apart(meta') /\ \A x \in Thing : Handled(x)
  BY <1>2, <1>4, <1>5, PlacedArrives
<1> QED BY <1>1, <1>3, <1>6 DEF Proper

LEMMA CarriedType ==
  ASSUME Inductive, NEW t \in Thing, Exists(meta, t), NEW c
  PROVE  Carried(meta, t, c) \in SUBSET Entry
<1>1. Shown(meta, t) \in Meta
  BY InductiveSays, HomeFacts DEF Shown, Documents
<1> QED BY <1>1 DEF Carried, Meta

LEMMA MoveThingProper ==
  ASSUME Inductive, NEW t \in Thing, NEW c \in AnyCollection, NEW p \in ParentArg,
         MoveThing(t, c, p)
  PROVE  Proper
<1>1. StateGrows
  BY EnsuredGrows DEF MoveThing
<1>2. state'[c] # "absent" /\ ValidParent(meta, c, t, p)
  BY DEF MoveThing
<1>3. made' \in Nat
  BY InductiveSays DEF MoveThing
<1>4. Carried(meta, t, c) \in SUBSET Entry
  BY CarriedType DEF MoveThing
<1>5. meta' = Placed(meta, t, c, p, Carried(meta, t, c))
  BY DEF MoveThing
<1>6. meta' \in Documents /\ Apart(meta') /\ \A x \in Thing : Handled(x)
  BY <1>2, <1>4, <1>5, PlacedArrives
<1> QED BY <1>1, <1>3, <1>6 DEF Proper

\* What is below the root gets the parent that it shows.
LEMMA CascadedApart ==
  ASSUME NEW m \in Documents, Apart(m), NEW root \in Thing, NEW c \in AnyCollection,
         NEW p \in ParentArg, NEW archive, ValidParent(m, c, root, p), Exists(m, root),
         NEW n, n = Cascaded(m, root, c, p, archive)
  PROVE  Apart(n)
<1> SUFFICES ASSUME NEW x \in Thing, NEW d \in AnyCollection PROVE n[d][x].parent # x
  BY DEF Apart
<1>1. m[d][x] \in Meta /\ m[d][x].parent # x
  BY DEF Documents, Apart
<1>2. CASE x \in Moved(m, root) /\ d = c
  <2> DEFINE q == IF x = root THEN p ELSE Shown(m, x).parent
  <2>1. q # x
    <3>1. CASE x = root
      BY <3>1, LifecycleAssumption DEF ValidParent
    <3>2. CASE x # root
      <4>1. Exists(m, x)
        BY <1>2, <3>2 DEF Moved, Descendants
      <4> QED BY <3>2, <4>1, HomeFacts DEF Shown, Apart
    <3> QED BY <3>1, <3>2
  <2>2. n[d][x].parent = Patched(m[d][x].parent, q)
    BY <1>2 DEF Cascaded, CascadedEntry, Moved
  <2> HIDE DEF q
  <2> QED BY <1>1, <2>1, <2>2, PatchedApart
<1>3. CASE ~ (x \in Moved(m, root) /\ d = c)
  <2>1. n[d][x] = Tombstoned(m[d][x]) \/ n[d][x] = m[d][x]
    BY <1>3 DEF Cascaded, Moved
  <2> QED BY <1>1, <2>1 DEF Tombstoned, Meta
<1> QED BY <1>2, <1>3

\* A cascade into the trash archives; any other takes the archive attributes.
LEMMA CascadeArrives ==
  ASSUME Inductive, NEW t \in Thing, Exists(meta, t), NEW c \in AnyCollection,
         NEW p \in ParentArg, NEW archive \in BOOLEAN, archive => c = Trash,
         ValidParent(meta, c, t, p),
         meta' = Cascaded(meta, t, c, p, archive), state'[c] # "absent"
  PROVE  meta' \in Documents /\ Apart(meta') /\ \A x \in Thing : Handled(x)
<1>1. meta \in Documents
  BY InductiveSays
<1>2. /\ meta' \in Documents
      /\ \A x \in Moved(meta, t) :
           /\ Goes(meta, meta', x, c, IF archive THEN Home(meta, x) ELSE NoCollection)
           /\ meta'[c][x].entries = meta[c][x].entries \cup Carried(meta, x, c)
      /\ \A x \in Thing \ Moved(meta, t) : Stays(meta, meta', x)
  BY <1>1, CascadedGoes
<1>3. ASSUME NEW x \in Moved(meta, t)
      PROVE  Arrives(x, c)
  <2>1. Goes(meta, meta', x, c, meta'[c][x].from)
    BY <1>2, <1>3 DEF Goes
  <2>2. meta'[c][x].from # NoCollection => c = Trash
    BY <1>2, <1>3 DEF Goes
  <2>3. Shown(meta, x).entries \subseteq meta'[c][x].entries
    BY <1>2, <1>3 DEF Carried, Shown
  <2> QED BY <2>1, <2>2, <2>3 DEF Arrives
<1>4. Apart(meta')
  BY <1>1, InductiveSays, CascadedApart
<1> QED BY <1>2, <1>3, <1>4 DEF Handled

LEMMA DeleteThingProper ==
  ASSUME Inductive, NEW t \in Thing, DeleteThing(t)
  PROVE  Proper
<1>1. StateGrows
  BY EnsuredGrows DEF DeleteThing
<1>2. state'[Trash] # "absent"
  BY InductiveSays, EnsuredFacts, SystemInAll DEF DeleteThing
<1>3. made' \in Nat
  BY InductiveSays DEF DeleteThing
<1>4. Keep \in ParentArg /\ Exists(meta, t) /\ meta' = Cascaded(meta, t, Trash, Keep, TRUE)
  BY DEF DeleteThing, ParentArg
<1>6. ValidParent(meta, Trash, t, Keep)
  BY DEF DeleteThing, CanCascade
<1>5. meta' \in Documents /\ Apart(meta') /\ \A x \in Thing : Handled(x)
  BY <1>2, <1>4, <1>6, SystemInAll, CascadeArrives
<1> QED BY <1>1, <1>3, <1>5 DEF Proper

LEMMA RestoreThingProper ==
  ASSUME Inductive, NEW t \in Thing, NEW c \in AnyCollection \cup {NoCollection},
         NEW p \in ParentArg, RestoreThing(t, c, p)
  PROVE  Proper
<1> DEFINE s == Ensured(state, {c} \cap System)
           target == IF c = NoCollection THEN Origin(meta, t) ELSE c
<1>1. /\ Exists(meta, t) /\ Shown(meta, t).from # NoCollection
      /\ c # NoCollection => s[c] = "active"
      /\ state' = Ensured(s, {target} \cap System)
      /\ meta' = Cascaded(meta, t, target, p, FALSE)
      /\ made' = made
      /\ ValidParent(meta, target, t, p)
  BY DEF RestoreThing, CanCascade
<1>2. s \in States
  BY InductiveSays, EnsuredFacts
<1>3. Shown(meta, t).from \in AnyCollection
  BY <1>1, InductiveSays, HomeFacts DEF Shown, Documents, Meta
<1>4. target \in AnyCollection
  BY <1>3, SystemInAll DEF Origin
<1>5. state'[target] # "absent"
  <2>1. CASE c # NoCollection
    <3>1. target = c /\ s[target] # "absent"
      BY <1>1, <2>1
    <3> HIDE DEF s, target
    <3> QED BY <1>1, <1>2, <1>4, <3>1, EnsuredFacts
  <2>2. CASE c = NoCollection
    <3>1. target = Origin(meta, t)
      BY <2>2
    <3>2. CASE state[Shown(meta, t).from] = "active"
      <4>1. state[target] # "absent"
        BY <3>1, <3>2 DEF Origin
      <4>2. s[target] # "absent"
        BY <1>4, <4>1, InductiveSays, EnsuredFacts
      <4> HIDE DEF s, target
      <4> QED BY <1>1, <1>2, <1>4, <4>2, EnsuredFacts
    <3>3. CASE state[Shown(meta, t).from] # "active"
      <4>1. target = Drafts /\ target \in {target} \cap System
        BY <3>1, <3>3 DEF Origin, System
      <4> HIDE DEF s, target
      <4> QED BY <1>1, <1>2, <1>4, <4>1, EnsuredFacts
    <3> QED BY <3>2, <3>3
  <2> QED BY <2>1, <2>2
<1>6. StateGrows
  BY <1>1, EnsuredTwice
<1> HIDE DEF s, target
<1>7. meta' \in Documents /\ Apart(meta') /\ \A x \in Thing : Handled(x)
  BY <1>1, <1>4, <1>5, CascadeArrives
<1> QED BY <1>1, <1>6, <1>7, InductiveSays DEF Proper

LEMMA EntriesEdited ==
  ASSUME Inductive, NEW t \in Thing, Exists(meta, t), NEW es \in SUBSET Entry,
         meta' = [meta EXCEPT ![Home(meta, t)][t].entries = es],
         state' = state, made' \in Nat
  PROVE  Proper
<1> DEFINE h == Home(meta, t)
           e == [meta[h][t] EXCEPT !.entries = es]
<1>1. h \in AnyCollection /\ meta \in Documents
  BY InductiveSays, HomeFacts
<1>2. meta[h][t] \in Meta /\ meta[h] \in [Thing -> Meta]
  BY <1>1 DEF Documents
<1>3. e \in Meta /\ e.there = meta[h][t].there /\ e.from = meta[h][t].from
  BY <1>2 DEF Meta
<1>4. meta' = [meta EXCEPT ![h] = [meta[h] EXCEPT ![t] = e]]
  BY <1>1, <1>2 DEF Documents
<1> HIDE DEF h, e
<1>5. meta' \in Documents
  <2> DEFINE row == [meta[h] EXCEPT ![t] = e]
  <2>1. row \in [Thing -> Meta]
    BY <1>2, <1>3
  <2>2. meta' = [meta EXCEPT ![h] = row]
    BY <1>4
  <2> HIDE DEF row
  <2> QED BY <1>1, <2>1, <2>2 DEF Documents
<1>8. Apart(meta')
  <2>1. e.parent = meta[h][t].parent
    BY <1>2 DEF e, Meta
  <2> QED BY <1>1, <1>2, <1>4, <2>1, InductiveSays DEF Documents, Apart
<1>6. \A x \in Thing : Edited(meta, meta', x)
  BY <1>1, <1>2, <1>3, <1>4 DEF Edited, Documents
<1>7. StateGrows
  BY InductiveSays DEF StateGrows, Inductive, SystemStays
<1> QED BY <1>5, <1>6, <1>7, <1>8 DEF Proper, Handled

LEMMA ContentEntryProper ==
  ASSUME Inductive, NEW t \in Thing, NEW e \in Entry,
         AddContentEntry(t, e) \/ DeleteContentEntry(t, e)
  PROVE  Proper
<1>1. Exists(meta, t) => meta[Home(meta, t)][t] \in Meta
  BY InductiveSays, HomeFacts DEF Documents
<1> DEFINE old == meta[Home(meta, t)][t].entries
<1>2. Exists(meta, t) => old \in SUBSET Entry
  BY <1>1 DEF Meta
<1>3. CASE AddContentEntry(t, e)
  <2>1. /\ Exists(meta, t) /\ state' = state /\ made' \in Nat
        /\ meta' = [meta EXCEPT ![Home(meta, t)][t].entries = old \cup {e}]
    BY <1>3, MakesType DEF AddContentEntry
  <2>2. old \cup {e} \in SUBSET Entry
    BY <1>2, <2>1
  <2> HIDE DEF old
  <2> QED BY <2>1, <2>2, EntriesEdited
<1>4. CASE DeleteContentEntry(t, e)
  <2>1. /\ Exists(meta, t) /\ state' = state /\ made' \in Nat
        /\ meta' = [meta EXCEPT ![Home(meta, t)][t].entries = old \ {e}]
    BY <1>4, InductiveSays DEF DeleteContentEntry
  <2>2. old \ {e} \in SUBSET Entry
    BY <1>2, <2>1
  <2> HIDE DEF old
  <2> QED BY <2>1, <2>2, EntriesEdited
<1> QED BY <1>3, <1>4

LEMMA CollectionProper ==
  ASSUME Inductive, NEW c \in Collection,
         \/ UpsertCollection(c) \/ EnsureAppCollection(c)
         \/ DeleteCollection(c) \/ RestoreCollection(c)
  PROVE  Proper
<1>1. meta' = meta /\ made' = made
  BY DEF UpsertCollection, EnsureAppCollection, DeleteCollection, RestoreCollection
<1>2. StateGrows
  <2>1. CASE UpsertCollection(c) \/ EnsureAppCollection(c) \/ RestoreCollection(c)
    BY <2>1, EnsuredGrows DEF UpsertCollection, EnsureAppCollection, RestoreCollection
  <2>2. CASE DeleteCollection(c)
    <3> DEFINE s == Ensured(state, System)
    <3>1. s \in States /\ state' = [s EXCEPT ![c] = "archived"]
      BY <2>2, InductiveSays, EnsuredFacts DEF DeleteCollection
    <3>2. \A d \in AnyCollection : /\ state[d] # "absent" => s[d] # "absent"
                                   /\ d \in System => s[d] = "active"
      BY InductiveSays, EnsuredFacts
    <3>3. c \in AnyCollection /\ c \notin System
      BY LifecycleAssumption DEF AnyCollection, System
    <3> HIDE DEF s
    <3> QED BY <3>1, <3>2, <3>3, SystemInAll DEF StateGrows, States
  <2> QED BY <2>1, <2>2
<1> QED BY <1>1, <1>2, InductiveSays DEF Proper, Handled, Stays

LEMMA NextProper ==
  ASSUME Inductive, Next
  PROVE  Proper
<1>1. CASE \E t \in Thing, c \in AnyCollection, p \in ParentArg, data \in SUBSET Entry :
             UpsertThing(t, c, p, TRUE, data)
  BY <1>1, UpsertThingProper
<1>2. CASE \E t \in Thing, c \in AnyCollection, p \in ParentArg : UpsertThing(t, c, p, FALSE, {})
  <2>1. {} \in SUBSET Entry
    OBVIOUS
  <2> QED BY <1>2, <2>1, UpsertThingProper
<1>3. CASE \E t \in Thing, c \in AnyCollection, p \in ParentArg : MoveThing(t, c, p)
  BY <1>3, MoveThingProper
<1>4. CASE \E t \in Thing : DeleteThing(t)
  BY <1>4, DeleteThingProper
<1>5. CASE \E t \in Thing, c \in AnyCollection \cup {NoCollection}, p \in ParentArg :
             RestoreThing(t, c, p)
  BY <1>5, RestoreThingProper
<1>6. CASE \E t \in Thing, e \in Entry : AddContentEntry(t, e) \/ DeleteContentEntry(t, e)
  BY <1>6, ContentEntryProper
<1>7. CASE \E c \in Collection : \/ UpsertCollection(c) \/ EnsureAppCollection(c)
                                 \/ DeleteCollection(c) \/ RestoreCollection(c)
  BY <1>7, CollectionProper
<1> QED BY <1>1, <1>2, <1>3, <1>4, <1>5, <1>6, <1>7 DEF Next

LEMMA InitInductive == Init => Inductive
<1> SUFFICES ASSUME Init PROVE Inductive
  OBVIOUS
<1>1. Blank \in Meta /\ Blank.there = "no" /\ Blank.from = NoCollection
  BY DEF Blank, Meta
<1>2. \A c \in AnyCollection, t \in Thing : meta[c][t] = Blank
  BY DEF Init
<1>3. TypeOK
  <2>1. state \in [AnyCollection -> {"absent", "active", "archived"}] /\ made \in Nat
    BY DEF Init
  <2>2. meta \in [AnyCollection -> [Thing -> Meta]]
    BY <1>1 DEF Init
  <2> QED BY <2>1, <2>2 DEF TypeOK
<1>4. \A c \in AnyCollection, t \in Thing : ~ IsLive(meta, c, t) /\ meta[c][t].from = NoCollection
  BY <1>1, <1>2 DEF IsLive
<1>6. NoOwnParent
  BY <1>2, LifecycleAssumption DEF Blank, NoOwnParent
<1>5. SystemStays
  BY SystemInAll DEF Init, SystemStays
<1> QED BY <1>3, <1>4, <1>5, <1>6 DEF Inductive, OneHome, LiveInDocument, ArchivedInTrash

LEMMA StepInductive == Inductive /\ [Next]_vars => Inductive'
<1> SUFFICES ASSUME Inductive, [Next]_vars PROVE Inductive'
  OBVIOUS
<1>1. CASE Next
  BY <1>1, NextProper, ProperKeeps
<1>2. CASE UNCHANGED vars
  BY <1>2 DEF vars, Inductive, TypeOK, OneHome, LiveInDocument, ArchivedInTrash,
              SystemStays, NoOwnParent, IsLive
<1> QED BY <1>1, <1>2

----------------------------------------------------------------------------
(* Walks along parents                                                     *)

LEMMA LeastNatural ==
  ASSUME NEW S \in SUBSET Nat, S # {}
  PROVE  \E n \in S : \A m \in S : n <= m
<1> DEFINE Below(n) == 0..(n - 1)
           T == {Below(n) : n \in S}
<1>1. IsWellFoundedOn(StrictSubsetOrdering(Nat), FiniteSubsetsOf(Nat))
  BY FS_StrictSubsetOrderingWellFounded
<1>2. T \subseteq FiniteSubsetsOf(Nat) /\ T # {}
  <2>1. ASSUME NEW n \in S PROVE Below(n) \in FiniteSubsetsOf(Nat)
    <3>1. n \in Int /\ n - 1 \in Int
      OBVIOUS
    <3>2. IsFiniteSet(Below(n)) /\ Below(n) \in SUBSET Nat
      BY <3>1, FS_Interval
    <3> QED
      BY <3>2 DEF FiniteSubsetsOf
  <2> QED
    BY <2>1
<1>3. PICK x \in T : \A y \in T : <<y, x>> \notin StrictSubsetOrdering(Nat)
  <2> HIDE DEF T
  <2> QED
    BY <1>1, <1>2, WFMin
<1>4. PICK n \in S : x = Below(n)
  BY <1>3
<1>5. ASSUME NEW m \in S, m < n PROVE FALSE
  <2>1. Below(m) \subseteq Below(n) /\ Below(m) # Below(n)
    BY <1>5
  <2>2. Below(m) \in SUBSET Nat /\ Below(n) \in SUBSET Nat
    OBVIOUS
  <2>3. <<Below(m), Below(n)>> \in StrictSubsetOrdering(Nat)
    <3> HIDE DEF Below
    <3> QED
      BY <2>1, <2>2 DEF StrictSubsetOrdering
  <2> QED
    BY <2>3, <1>3, <1>4
<1> QED
  BY <1>5

\* w is the walk from t of n steps: what it has come by after each.
Further(f, s) == s \cup ({f[x] : x \in s} \cap Thing)
Walks(w, n, f, t) ==
  w = [i \in 0 .. n |-> IF i = 0 THEN {f[t]} \cap Thing ELSE Further(f, w[i - 1])]

LEMMA WalkExists ==
  ASSUME NEW f, NEW t
  PROVE  \A n \in Nat : \E w : Walks(w, n, f, t)
<1> DEFINE Bad == {n \in Nat : ~\E w : Walks(w, n, f, t)}
<1>1. CASE Bad # {}
  <2>1. PICK n \in Bad : \A m \in Bad : n <= m
    <3> HIDE DEF Bad
    <3>1. Bad \in SUBSET Nat
      BY DEF Bad
    <3> QED
      BY <1>1, <3>1, LeastNatural
  <2>2. n # 0
    <3>1. Walks([i \in 0 .. 0 |-> {f[t]} \cap Thing], 0, f, t)
      BY DEF Walks
    <3> QED
      BY <3>1
  <2>3. PICK w : Walks(w, n - 1, f, t)
    BY <2>1, <2>2
  <2> DEFINE v == [i \in 0 .. n |-> IF i = n THEN Further(f, w[n - 1]) ELSE w[i]]
  <2>4. ASSUME NEW i \in 0 .. n
        PROVE  v[i] = IF i = 0 THEN {f[t]} \cap Thing ELSE Further(f, v[i - 1])
    <3>1. CASE i = n
      BY <3>1, <2>2
    <3>2. CASE i # n /\ i = 0
      BY <3>2, <2>2, <2>3 DEF Walks
    <3>3. CASE i # n /\ i # 0
      <4>1. i \in 0 .. n - 1 /\ i - 1 \in 0 .. n - 1 /\ i - 1 # n
        BY <3>3
      <4>2. v[i] = w[i] /\ v[i - 1] = w[i - 1]
        BY <3>3, <4>1
      <4>3. w[i] = Further(f, w[i - 1])
        BY <2>3, <3>3, <4>1 DEF Walks
      <4> QED
        BY <3>3, <4>2, <4>3
    <3> QED
      BY <3>1, <3>2, <3>3
  <2>5. Walks(v, n, f, t)
    <3>1. v = [i \in 0 .. n |-> v[i]]
      OBVIOUS
    <3> HIDE DEF v
    <3> QED
      BY <3>1, <2>4 DEF Walks
  <2> QED
    BY <2>5, <2>1
<1> QED
  BY <1>1

\* Whatever has the parent of t and, with every thing, its parent.
UpClosed(f, t, s) ==
  /\ f[t] \in Thing => f[t] \in s
  /\ \A x \in s : f[x] \in Thing => f[x] \in s

\* A walk that has not come to its end by the n-th step has met more than n
\* things.
LEMMA WalkGrows ==
  ASSUME NEW f, NEW t, NEW N \in Nat, NEW w, Walks(w, N, f, t), NEW S, UpClosed(f, t, S)
  PROVE  \A n \in 0 .. N :
           /\ w[n] \subseteq Thing
           /\ w[n] \subseteq S
           /\ f[t] \in Thing => f[t] \in w[n]
           /\ UpClosed(f, t, w[n]) \/ Cardinality(w[n]) > n
<1> DEFINE Ok(n) == /\ w[n] \subseteq Thing
                    /\ w[n] \subseteq S
                    /\ f[t] \in Thing => f[t] \in w[n]
                    /\ UpClosed(f, t, w[n]) \/ Cardinality(w[n]) > n
           Bad == {n \in 0 .. N : ~Ok(n)}
<1>1. w[0] = {f[t]} \cap Thing
      /\ \A n \in 1 .. N : w[n] = Further(f, w[n - 1])
  <2>1. \A i \in 0 .. N : w[i] = IF i = 0 THEN {f[t]} \cap Thing ELSE Further(f, w[i - 1])
    BY DEF Walks
  <2>2. 0 \in 0 .. N /\ \A n \in 1 .. N : n \in 0 .. N /\ n # 0
    OBVIOUS
  <2> QED
    BY <2>1, <2>2
<1>2. Ok(0)
  <2>1. CASE f[t] \in Thing
    <3>1. w[0] = {f[t]}
      BY <1>1, <2>1
    <3>2. Cardinality(w[0]) = 1
      BY <3>1, FS_Singleton
    <3> QED
      BY <2>1, <3>1, <3>2 DEF UpClosed
  <2>2. CASE f[t] \notin Thing
    BY <1>1, <2>2 DEF UpClosed
  <2> QED
    BY <2>1, <2>2
<1>3. ASSUME NEW n \in 1 .. N, Ok(n - 1) PROVE Ok(n)
  <2>1. w[n] = w[n - 1] \cup ({f[x] : x \in w[n - 1]} \cap Thing)
    BY <1>1 DEF Further
  <2>2. w[n] \subseteq Thing /\ w[n - 1] \subseteq w[n] /\ (f[t] \in Thing => f[t] \in w[n])
    BY <1>3, <2>1
  <2>3. w[n] \subseteq S
    BY <1>3, <2>1 DEF UpClosed
  <2>4. CASE UpClosed(f, t, w[n - 1])
    <3>1. w[n] = w[n - 1]
      BY <2>1, <2>4 DEF UpClosed
    <3> QED
      BY <2>2, <2>3, <2>4, <3>1
  <2>5. CASE ~UpClosed(f, t, w[n - 1])
    <3>1. w[n] # w[n - 1]
      BY <1>3, <2>1, <2>5 DEF UpClosed
    <3>2. IsFiniteSet(w[n]) /\ IsFiniteSet(w[n - 1])
      BY <1>3, <2>2, LifecycleAssumption, FS_Subset
    <3>3. Cardinality(w[n]) \in Nat /\ Cardinality(w[n - 1]) \in Nat
      BY <3>2, FS_CardinalityType
    <3>4. Cardinality(w[n - 1]) < Cardinality(w[n])
      BY <2>2, <3>1, <3>2, <3>3, FS_Subset
    <3>5. Cardinality(w[n - 1]) > n - 1
      BY <1>3, <2>5
    <3>6. Cardinality(w[n]) > n
      BY <3>3, <3>4, <3>5
    <3> QED
      BY <2>2, <2>3, <3>6
  <2> QED
    BY <2>4, <2>5
<1>4. CASE Bad # {}
  <2>1. PICK n \in Bad : \A m \in Bad : n <= m
    <3>1. Bad \in SUBSET Nat
      OBVIOUS
    <3> HIDE DEF Bad
    <3> QED
      BY <1>4, <3>1, LeastNatural
  <2>2. n # 0
    BY <1>2, <2>1
  <2>3. n \in 1 .. N /\ n - 1 \in 0 .. N /\ n - 1 < n
    BY <2>2
  <2>4. Ok(n - 1)
    BY <2>1, <2>3
  <2> HIDE DEF Ok
  <2> QED
    BY <1>3, <2>1, <2>3, <2>4
<1> QED
  BY <1>4

\* Above is the least set that has the parent of t and, with every thing, its
\* parent: as many steps as there are things bring a walk to its end.
LEMMA AboveIsClosed ==
  ASSUME NEW f, NEW t
  PROVE  /\ Above(f, t) \subseteq Thing
         /\ UpClosed(f, t, Above(f, t))
         /\ \A S : UpClosed(f, t, S) => Above(f, t) \subseteq S
<1> DEFINE N == Cardinality(Thing)
           W == CHOOSE w : Walks(w, N, f, t)
<1>1. N \in Nat
  BY LifecycleAssumption, FS_CardinalityType
<1>2. Walks(W, N, f, t)
  BY <1>1, WalkExists
<1>3. Above(f, t) = W[N]
  BY DEF Above, Walks, Further
<1> HIDE DEF W
<1>4. UpClosed(f, t, Thing)
  BY DEF UpClosed
<1>5. W[N] \subseteq Thing /\ (UpClosed(f, t, W[N]) \/ Cardinality(W[N]) > N)
  <2> HIDE DEF N
  <2> QED
    BY <1>1, <1>2, <1>4, WalkGrows
<1>6. Cardinality(W[N]) \in Nat /\ Cardinality(W[N]) <= N
  BY <1>5, LifecycleAssumption, FS_Subset, FS_CardinalityType
<1>7. UpClosed(f, t, W[N])
  <2> HIDE DEF N
  <2> QED
    BY <1>1, <1>5, <1>6
<1>8. ASSUME NEW S, UpClosed(f, t, S) PROVE W[N] \subseteq S
  <2> HIDE DEF N
  <2>1. N \in 0 .. N
    BY <1>1
  <2> QED
    BY <1>1, <1>2, <1>8, <2>1, WalkGrows
<1> QED
  BY <1>3, <1>5, <1>7, <1>8

\* Two walks that part nowhere come by the same things.
LEMMA SameWalk ==
  ASSUME NEW f, NEW g, NEW t, \A x \in Above(f, t) \cup {t} : g[x] = f[x]
  PROVE  Above(g, t) = Above(f, t)
<1>1. UpClosed(g, t, Above(f, t))
  BY AboveIsClosed DEF UpClosed
<1>2. Above(g, t) \subseteq Above(f, t)
  BY <1>1, AboveIsClosed
<1>3. UpClosed(f, t, Above(g, t))
  BY <1>2, AboveIsClosed DEF UpClosed
<1> QED
  BY <1>2, <1>3, AboveIsClosed

\* What is above a thing above t is above t.
LEMMA AboveTransitive ==
  ASSUME NEW f, NEW t, NEW x \in Above(f, t)
  PROVE  Above(f, x) \subseteq Above(f, t)
<1>1. UpClosed(f, x, Above(f, t))
  BY AboveIsClosed DEF UpClosed
<1> QED
  BY <1>1, AboveIsClosed

\* A walk that may end earlier comes by no more.
LEMMA ShorterWalk ==
  ASSUME NEW f, NEW g, NEW t, \A x \in Thing \cup {t} : g[x] \in Thing => g[x] = f[x]
  PROVE  Above(g, t) \subseteq Above(f, t)
<1>1. UpClosed(g, t, Above(f, t))
  BY AboveIsClosed DEF UpClosed
<1> QED
  BY <1>1, AboveIsClosed

\* Giving another parent to t changes nothing in who is below t.
LEMMA BelowAsBefore ==
  ASSUME NEW f, NEW g, NEW t, NEW x, x # t, \A y \in Thing \cup {x} : y # t => g[y] = f[y],
         t \in Above(f, x)
  PROVE  t \in Above(g, x)
<1>1. SUFFICES ASSUME t \notin Above(g, x) PROVE FALSE
  OBVIOUS
<1>2. \A y \in Above(g, x) \cup {x} : f[y] = g[y]
  BY <1>1, AboveIsClosed
<1>3. Above(f, x) = Above(g, x)
  BY <1>2, SameWalk
<1> QED
  BY <1>1, <1>3

----------------------------------------------------------------------------
(* A restore                                                               *)

\* What a cascade writes: the entries of what it moves, in the collection they
\* go to and in the one they leave.
Written(m, root, c, n, x) ==
  /\ x = root => n[c][x].parent = Patched(m[c][x].parent, Keep)
  /\ x # root => n[c][x].parent = Patched(m[c][x].parent, Shown(m, x).parent)
  /\ n[c][x].entries = m[c][x].entries \cup Carried(m, x, c)
  /\ \A d \in AnyCollection : d # c /\ d = Home(m, x) => n[d][x] = Tombstoned(m[d][x])
Writes(m, root, c, n) == \A x \in Moved(m, root) : Written(m, root, c, n, x)

LEMMA CascadeWrites ==
  ASSUME NEW m, NEW root \in Thing, NEW c \in AnyCollection, NEW archive,
         NEW n, n = Cascaded(m, root, c, Keep, archive)
  PROVE  Writes(m, root, c, n)
<1> SUFFICES ASSUME NEW x \in Moved(m, root) PROVE Written(m, root, c, n, x)
  BY DEF Writes
<1>1. x \in Thing
  BY DEF Moved, Descendants
<1>2. n[c][x].parent = Patched(m[c][x].parent, IF x = root THEN Keep ELSE Shown(m, x).parent)
  BY <1>1 DEF Cascaded, Moved, CascadedEntry
<1>3. x = root => n[c][x].parent = Patched(m[c][x].parent, Keep)
  BY <1>2
<1>4. x # root => n[c][x].parent = Patched(m[c][x].parent, Shown(m, x).parent)
  BY <1>2
<1>5. n[c][x].entries = m[c][x].entries \cup Carried(m, x, c)
  BY <1>1 DEF Cascaded, Moved, CascadedEntry
<1>6. \A d \in AnyCollection : d # c /\ d = Home(m, x) => n[d][x] = Tombstoned(m[d][x])
  BY <1>1 DEF Cascaded, Moved
<1> QED
  BY <1>3, <1>4, <1>5, <1>6 DEF Written

AllGood(m) == \A x \in Thing : Good(m, x)

\* Between m and n, root and all below it have gone to c.
Relocated(m, root, c, archive, n) ==
  /\ n \in Documents /\ AllGood(n)
  /\ \A x \in Thing : Exists(n, x) <=> Exists(m, x)
  /\ \A x \in Moved(m, root) : Home(n, x) = c /\ Shown(n, x) = n[c][x]
  /\ \A x \in Moved(m, root) : archive => n[c][x].from = Home(m, x)
  /\ \A x \in Moved(m, root) : ~ archive => n[c][x].from = NoCollection
  /\ \A x \in Thing \ Moved(m, root) : Home(n, x) = Home(m, x) /\ Stays(m, n, x)

LEMMA CascadeRelocates ==
  ASSUME NEW m \in Documents, AllGood(m), NEW root \in Thing, Exists(m, root),
         NEW c \in AnyCollection, NEW p \in ParentArg,
         NEW archive, archive \in BOOLEAN, archive => c = Trash,
         NEW n, n = Cascaded(m, root, c, p, archive)
  PROVE  Relocated(m, root, c, archive, n)
<1>1. /\ n \in Documents
      /\ \A x \in Moved(m, root) :
           Goes(m, n, x, c, IF archive THEN Home(m, x) ELSE NoCollection)
      /\ \A x \in Thing \ Moved(m, root) : Stays(m, n, x)
  BY CascadedGoes
<1>2. ASSUME NEW x \in Moved(m, root)
      PROVE  /\ x \in Thing /\ Good(n, x) /\ Exists(n, x) /\ Exists(m, x)
             /\ Home(n, x) = c /\ Shown(n, x) = n[c][x]
             /\ n[c][x].from = IF archive THEN Home(m, x) ELSE NoCollection
  <2>1. x \in Thing /\ Exists(m, x)
    BY DEF Moved, Descendants
  <2> DEFINE from == IF archive THEN Home(m, x) ELSE NoCollection
  <2>2. Goes(m, n, x, c, from) /\ (from # NoCollection => c = Trash)
    BY <1>1
  <2>3. n[c][x].from = from
    BY <2>2 DEF Goes
  <2>4. Good(n, x) /\ Home(n, x) = c /\ Exists(n, x)
    <3> HIDE DEF from
    <3> QED
      BY <2>1, <2>2, GoesGood DEF AllGood
  <2> QED
    BY <2>1, <2>3, <2>4 DEF Shown
<1>3. ASSUME NEW x \in Thing \ Moved(m, root)
      PROVE  Good(n, x) /\ (Exists(n, x) <=> Exists(m, x)) /\ Home(n, x) = Home(m, x)
  <2>1. Good(n, x) /\ Home(n, x) = Home(m, x)
    BY <1>1, StaysGood DEF AllGood
  <2> QED
    BY <2>1 DEF Exists
<1> QED
  BY <1>1, <1>2, <1>3 DEF AllGood, Relocated

LEMMA BinnedRelocates ==
  ASSUME NEW m \in Documents, AllGood(m), NEW root \in Thing, Exists(m, root),
         NEW n, n = Cascaded(m, root, Trash, Keep, TRUE)
  PROVE  Relocated(m, root, Trash, TRUE, n) /\ Writes(m, root, Trash, n)
<1>1. PICK a \in BOOLEAN : a /\ n = Cascaded(m, root, Trash, Keep, a)
  OBVIOUS
<1>2. Keep \in ParentArg /\ Trash \in AnyCollection
  BY SystemInAll DEF ParentArg
<1>3. Relocated(m, root, Trash, a, n)
  BY <1>1, <1>2, CascadeRelocates
<1>4. Writes(m, root, Trash, n)
  BY <1>1, <1>2, CascadeWrites
<1> QED
  BY <1>1, <1>3, <1>4 DEF Relocated

LEMMA ReturnRelocates ==
  ASSUME NEW m \in Documents, AllGood(m), NEW root \in Thing, Exists(m, root),
         NEW c \in AnyCollection, NEW n, n = Cascaded(m, root, c, Keep, FALSE)
  PROVE  Relocated(m, root, c, FALSE, n) /\ Writes(m, root, c, n)
<1>1. PICK a \in BOOLEAN : ~ a /\ n = Cascaded(m, root, c, Keep, a)
  OBVIOUS
<1>2. Keep \in ParentArg /\ (a => c = Trash)
  BY <1>1 DEF ParentArg
<1>3. Relocated(m, root, c, a, n)
  BY <1>1, <1>2, CascadeRelocates
<1>4. Writes(m, root, c, n)
  BY <1>1, CascadeWrites
<1> QED
  BY <1>1, <1>3, <1>4 DEF Relocated

LEMMA RestoreGoesThere ==
  ASSUME Inductive
  PROVE  RestoreReaches
<1> SUFFICES ASSUME NEW t \in Thing, Exists(meta, t), Shown(meta, t).from # NoCollection
             PROVE  LET to == Origin(meta, t)
                        back == Cascaded(meta, t, to, Keep, FALSE)
                    IN
                    /\ Ensured(state, {to} \cap System)[to] = "active"
                    /\ to = Trash => Shown(meta, t).from = Trash
                    /\ \A x \in {t} \cup Descendants(meta, t) :
                         Home(back, x) = to /\ Shown(back, x).from = NoCollection
  BY DEF RestoreReaches
<1> DEFINE to == Origin(meta, t)
           back == Cascaded(meta, t, to, Keep, FALSE)
<1>1. meta \in Documents /\ state \in States /\ AllGood(meta)
  BY InductiveSays DEF AllGood
<1>2. Shown(meta, t).from \in AnyCollection
  BY <1>1, HomeFacts DEF Shown, Documents, Meta
<1>3. to \in AnyCollection /\ (to = Trash => Shown(meta, t).from = Trash)
  BY <1>2, SystemInAll, LifecycleAssumption DEF Origin
<1>4. Ensured(state, {to} \cap System)[to] = "active"
  <2>1. CASE to \in System
    BY <1>1, <1>3, <2>1, EnsuredFacts
  <2>2. CASE to \notin System
    <3>1. state[to] = "active"
      BY <2>2 DEF Origin, System
    <3> QED
      BY <1>3, <3>1 DEF Ensured
  <2> QED
    BY <2>1, <2>2
<1>5. Relocated(meta, t, to, FALSE, back)
  BY <1>1, <1>3, ReturnRelocates
<1>6. \A x \in Moved(meta, t) : Home(back, x) = to /\ Shown(back, x).from = NoCollection
  BY <1>5 DEF Relocated
<1> QED
  BY <1>3, <1>4, <1>6 DEF Moved

\* t and all below it, in one collection, have been deleted.
Deleted(m, t, home, gone) ==
  /\ m \in Documents /\ AllGood(m)
  /\ m[Trash][t].parent # t
  /\ t \in Thing /\ Exists(m, t)
  /\ home = Home(m, t) /\ home # Trash
  /\ \A x \in Moved(m, t) : Home(m, x) = home
  /\ CanCascade(m, t, Trash, Keep, TRUE)
  /\ gone = Cascaded(m, t, Trash, Keep, TRUE)

\* What is below a thing has a parent.
LEMMA BelowHasParent ==
  ASSUME NEW f, NEW t, NEW x, t \in Above(f, x)
  PROVE  f[x] \in Thing
<1>1. f[x] \notin Thing => UpClosed(f, x, {})
  BY DEF UpClosed
<1> QED
  BY <1>1, AboveIsClosed

\* In the trash all that is below t has the parent it had; t has that of its
\* old entry there.
LEMMA DeletedEntries ==
  ASSUME NEW m, NEW t, NEW home, NEW gone, Deleted(m, t, home, gone),
         NEW x \in Moved(m, t)
  PROVE  /\ x \in Thing /\ Exists(m, x) /\ IsLive(m, home, x) /\ Shown(m, x) = m[home][x]
         /\ Shown(gone, x) = gone[Trash][x] /\ IsLive(gone, Trash, x)
         /\ gone[Trash][x].from = home
         /\ gone[Trash][x].parent = IF x = t THEN m[Trash][t].parent ELSE m[home][x].parent
         /\ x # t => m[home][x].parent \in Thing
         /\ gone[home][x] = Tombstoned(m[home][x])
         /\ m[home][x].entries \subseteq gone[Trash][x].entries
<1>1. x \in Thing /\ Exists(m, x) /\ Home(m, x) = home
  BY DEF Deleted, Moved, Descendants
<1>2. home \in AnyCollection /\ IsLive(m, home, x) /\ Shown(m, x) = m[home][x]
  BY <1>1, HomeFacts DEF Shown
<1>3. /\ Trash \in AnyCollection /\ Trash # home
      /\ t \in Thing /\ gone = Cascaded(m, t, Trash, Keep, TRUE)
      /\ Relocated(m, t, Trash, TRUE, gone)
      /\ Writes(m, t, Trash, gone)
  BY SystemInAll, BinnedRelocates DEF Deleted
<1>4. /\ Home(gone, x) = Trash
      /\ Shown(gone, x) = gone[Trash][x]
      /\ gone[Trash][x].from = home
      /\ Exists(gone, x)
  BY <1>1, <1>3 DEF Relocated
<1>5. IsLive(gone, Trash, x)
  BY <1>4, HomeFacts
<1>6. /\ x = t => gone[Trash][x].parent = Patched(m[Trash][x].parent, Keep)
      /\ x # t => gone[Trash][x].parent = Patched(m[Trash][x].parent, Shown(m, x).parent)
      /\ gone[Trash][x].entries = m[Trash][x].entries \cup Carried(m, x, Trash)
      /\ gone[home][x] = Tombstoned(m[home][x])
  <2>1. Written(m, t, Trash, gone, x)
    BY <1>3 DEF Writes
  <2> QED
    BY <1>1, <1>2, <1>3, <2>1 DEF Written
<1>7. x # t => m[home][x].parent \in Thing
  <2>1. SUFFICES ASSUME x # t PROVE m[home][x].parent \in Thing
    OBVIOUS
  <2>2. t \in Above(TreeParents(m), x)
    BY <2>1 DEF Moved, Descendants
  <2>3. TreeParents(m)[x] \in Thing
    BY <2>2, BelowHasParent
  <2> QED
    BY <1>1, <1>2, <2>3 DEF TreeParents
<1>8. gone[Trash][x].parent = IF x = t THEN m[Trash][t].parent ELSE m[home][x].parent
  <2>2. CASE x = t
    BY <1>6, <2>2, LifecycleAssumption DEF Patched
  <2>3. CASE x # t
    BY <1>2, <1>6, <1>7, <2>3, LifecycleAssumption DEF Patched
  <2> QED
    BY <2>2, <2>3
<1>9. m[home][x].entries \subseteq gone[Trash][x].entries
  <2>1. Carried(m, x, Trash) = m[home][x].entries
    BY <1>1, <1>2, <1>3 DEF Carried
  <2>2. gone[Trash][x].entries = m[Trash][x].entries \cup Carried(m, x, Trash)
    BY <1>6
  <2> QED
    BY <2>1, <2>2
<1> QED
  BY <1>1, <1>2, <1>4, <1>5, <1>6, <1>7, <1>8, <1>9

\* The same things are below t as before, and t is not.
LEMMA DeletedBelow ==
  ASSUME NEW m, NEW t, NEW home, NEW gone, Deleted(m, t, home, gone)
  PROVE  /\ t \notin Above(TreeParents(m), t)
         /\ Descendants(gone, t) = Descendants(m, t)
         /\ t \notin Descendants(gone, t)
<1> DEFINE f == TreeParents(m)
           g == TreeParents(gone)
           below == Descendants(m, t)
           old == m[Trash][t].parent
           walk == DocParents(gone, Trash)
<1>1. /\ m \in Documents /\ t \in Thing /\ Exists(m, t) /\ old # t
      /\ AllGood(m)
      /\ gone = Cascaded(m, t, Trash, Keep, TRUE)
      /\ CanCascade(m, t, Trash, Keep, TRUE)
  BY DEF Deleted
<1>2. t \in Moved(m, t) /\ below \subseteq Moved(m, t)
  BY DEF Moved
<1>3. Relocated(m, t, Trash, TRUE, gone)
  BY <1>1, BinnedRelocates
<1>4. /\ \A x \in Thing : Exists(gone, x) <=> Exists(m, x)
      /\ \A x \in Thing \ Moved(m, t) : Home(gone, x) = Home(m, x) /\ Stays(m, gone, x)
  BY <1>3 DEF Relocated
<1>5. g[t] = old /\ walk[t] = old
  <2>1. Shown(gone, t) = gone[Trash][t] /\ IsLive(gone, Trash, t)
        /\ gone[Trash][t].parent = old
    BY <1>2, DeletedEntries
  <2> QED
    BY <1>1, <1>4, <2>1 DEF TreeParents, DocParents
<1>6. ASSUME NEW x \in Thing, x # t PROVE g[x] = f[x]
  <2>1. CASE x \in Moved(m, t)
    <3>1. /\ Exists(m, x) /\ Shown(m, x) = m[home][x]
          /\ Shown(gone, x) = gone[Trash][x]
          /\ gone[Trash][x].parent = m[home][x].parent
      BY <1>6, <2>1, DeletedEntries
    <3> QED
      BY <1>4, <3>1 DEF TreeParents
  <2>2. CASE x \notin Moved(m, t)
    <3>1. Home(gone, x) = Home(m, x) /\ Stays(m, gone, x)
      BY <1>4, <2>2
    <3>2. Exists(m, x) => Shown(gone, x) = Shown(m, x)
      BY <3>1, HomeFacts DEF Shown, Stays
    <3> QED
      BY <1>4, <3>2 DEF TreeParents
  <2> QED
    BY <2>1, <2>2
<1>7. t \notin Above(f, t)
  BY <1>1 DEF CanCascade, Descendants
<1>8. old \in Thing => old \notin below
  <2>1. SUFFICES ASSUME old \in Thing, old \in below PROVE FALSE
    OBVIOUS
  <2>2. below \cap Above(walk, t) = {}
    BY <1>1, <2>1 DEF CanCascade
  <2>3. old \in Above(walk, t)
    BY <1>5, <2>1, AboveIsClosed DEF UpClosed
  <2> QED
    BY <2>1, <2>2, <2>3
<1> HIDE DEF walk
<1>9. t \notin Above(g, t)
  <2>1. SUFFICES ASSUME t \in Above(g, t) PROVE FALSE
    OBVIOUS
  <2>2. old \in Thing
    BY <1>5, <2>1, BelowHasParent
  <2>3. UpClosed(g, t, {old} \cup Above(g, old))
    <3>1. UpClosed(g, old, Above(g, old))
      BY AboveIsClosed
    <3> QED
      BY <1>5, <3>1 DEF UpClosed
  <2>4. t \in Above(g, old)
    BY <1>1, <2>1, <2>3, AboveIsClosed
  <2>5. t \in Above(f, old)
    BY <1>1, <1>6, <2>2, <2>4, BelowAsBefore
  <2>6. Exists(m, old)
    <3>1. f[old] \in Thing
      BY <2>5, BelowHasParent
    <3> QED
      BY <2>2, <3>1, LifecycleAssumption DEF TreeParents
  <2> QED
    BY <1>8, <2>2, <2>5, <2>6 DEF Descendants
<1>10. ASSUME NEW x \in Thing PROVE t \in Above(f, x) <=> t \in Above(g, x)
  <2>1. CASE x = t
    BY <1>7, <1>9, <2>1
  <2>2. CASE x # t
    <3>1. /\ \A y \in Thing \cup {x} : y # t => g[y] = f[y]
          /\ \A y \in Thing \cup {x} : y # t => f[y] = g[y]
      BY <1>6
    <3> HIDE DEF f, g
    <3> QED
      BY <2>2, <3>1, BelowAsBefore
  <2> QED
    BY <2>1, <2>2
<1> QED
  BY <1>4, <1>7, <1>9, <1>10 DEF Descendants

\* Between m and back, t and all below it have gone and come back to home.
CameBack(m, t, home, back) ==
  /\ \A x \in Moved(m, t) :
       /\ Home(back, x) = home
       /\ IsLive(back, home, x)
       /\ Shown(back, x) = back[home][x]
       /\ back[home][x].parent = m[home][x].parent
       /\ m[home][x].entries \subseteq back[home][x].entries
  /\ \A x \in Thing \ Moved(m, t) : Stays(m, back, x)

\* The documents after a deletion and a restore.
LEMMA DeletedComesBack ==
  ASSUME NEW m, NEW t, NEW home, NEW gone, Deleted(m, t, home, gone),
         NEW back, back = Cascaded(gone, t, home, Keep, FALSE)
  PROVE  CameBack(m, t, home, back)
<1>1. /\ m \in Documents /\ t \in Thing /\ Exists(m, t)
      /\ AllGood(m)
      /\ gone = Cascaded(m, t, Trash, Keep, TRUE)
      /\ home = Home(m, t) /\ home # Trash
  BY DEF Deleted
<1>2. home \in AnyCollection /\ Relocated(m, t, Trash, TRUE, gone)
  BY <1>1, HomeFacts, BinnedRelocates
<1>3. Moved(gone, t) = Moved(m, t)
  BY DeletedBelow DEF Moved
<1>4. /\ gone \in Documents
      /\ AllGood(gone)
      /\ Exists(gone, t)
      /\ \A x \in Moved(m, t) : Home(gone, x) = Trash
      /\ \A x \in Thing : Exists(gone, x) <=> Exists(m, x)
      /\ \A x \in Thing \ Moved(m, t) : Stays(m, gone, x)
  BY <1>1, <1>2 DEF Relocated, Moved
<1>5. /\ \A x \in Thing : Exists(back, x) <=> Exists(gone, x)
      /\ \A x \in Moved(gone, t) : Home(back, x) = home /\ Shown(back, x) = back[home][x]
      /\ \A x \in Thing \ Moved(gone, t) : Stays(gone, back, x)
      /\ Writes(gone, t, home, back)
  <2>1. Relocated(gone, t, home, FALSE, back) /\ Writes(gone, t, home, back)
    BY <1>1, <1>2, <1>4, ReturnRelocates
  <2> QED
    BY <2>1 DEF Relocated
<1>6. ASSUME NEW x \in Moved(m, t)
      PROVE  /\ Home(back, x) = home
             /\ IsLive(back, home, x)
             /\ Shown(back, x) = back[home][x]
             /\ back[home][x].parent = m[home][x].parent
             /\ m[home][x].entries \subseteq back[home][x].entries
  <2>1. /\ x \in Thing /\ Exists(m, x)
        /\ Shown(gone, x) = gone[Trash][x]
        /\ gone[Trash][x].parent = IF x = t THEN m[Trash][t].parent ELSE m[home][x].parent
        /\ x # t => m[home][x].parent \in Thing
        /\ gone[home][x] = Tombstoned(m[home][x])
    BY <1>6, DeletedEntries
  <2>2. Exists(gone, x)
    BY <1>4, <2>1
  <2>3. Home(back, x) = home /\ Shown(back, x) = back[home][x] /\ IsLive(back, home, x)
    BY <1>3, <1>5, <2>1, <2>2, HomeFacts
  <2>4. /\ x = t => back[home][x].parent = Patched(gone[home][x].parent, Keep)
        /\ x # t => back[home][x].parent = Patched(gone[home][x].parent, Shown(gone, x).parent)
        /\ back[home][x].entries = gone[home][x].entries \cup Carried(gone, x, home)
    <3>1. Written(gone, t, home, back, x)
      BY <1>3, <1>5 DEF Writes
    <3> QED
      BY <3>1 DEF Written
  <2>5. m[home][x] \in Meta
    BY <1>1, <1>2, <2>1 DEF Documents
  <2>6. gone[home][x].parent = m[home][x].parent /\ gone[home][x].entries = m[home][x].entries
    BY <2>1, <2>5 DEF Tombstoned, Meta
  <2>8. back[home][x].parent = m[home][x].parent
    <3>1. CASE x = t
      BY <2>4, <2>6, <3>1, LifecycleAssumption DEF Patched
    <3>2. CASE x # t
      BY <2>1, <2>4, <2>6, <3>2, LifecycleAssumption DEF Patched
    <3> QED
      BY <3>1, <3>2
  <2>9. back[home][x].entries = m[home][x].entries \cup Carried(gone, x, home)
    BY <2>4, <2>6
  <2> QED
    BY <2>3, <2>8, <2>9
<1>7. \A x \in Thing \ Moved(m, t) : Stays(m, back, x)
  BY <1>3, <1>4, <1>5 DEF Stays
<1> QED
  BY <1>6, <1>7 DEF CameBack

\* The restore finds every parent valid, as the walk from t is the one it was.
LEMMA DeletedCanComeBack ==
  ASSUME NEW m, NEW t, NEW home, NEW gone, Deleted(m, t, home, gone),
         Ends(DocParents(m, home), t)
  PROVE  CanCascade(gone, t, home, Keep, FALSE)
<1> DEFINE f == TreeParents(m)
           walk == DocParents(m, home)
<1> PICK back : back = Cascaded(gone, t, home, Keep, FALSE)
  OBVIOUS
<1>1. t \notin Above(f, t) /\ Descendants(gone, t) = Descendants(m, t)
      /\ t \notin Descendants(gone, t)
  BY DeletedBelow
<1>2. ValidParent(gone, home, t, Keep)
  BY LifecycleAssumption DEF ValidParent
<1>3. m \in Documents /\ AllGood(m) /\ home \in AnyCollection
  BY HomeFacts DEF Deleted
<1>4. DocParents(back, home) = walk
  <2>2. CameBack(m, t, home, back)
    BY DeletedComesBack
  <2>1. ASSUME NEW x \in Thing
        PROVE  /\ IsLive(back, home, x) <=> IsLive(m, home, x)
               /\ back[home][x].parent = m[home][x].parent
    <3>1. CASE x \in Moved(m, t)
      <4>1. IsLive(m, home, x)
        BY <3>1, DeletedEntries
      <4>2. IsLive(back, home, x) /\ back[home][x].parent = m[home][x].parent
        BY <2>2, <3>1 DEF CameBack
      <4> QED
        BY <4>1, <4>2
    <3>2. CASE x \notin Moved(m, t)
      <4>1. Stays(m, back, x)
        BY <2>2, <3>2 DEF CameBack
      <4> QED
        BY <1>3, <4>1 DEF Stays, IsLive
    <3> QED
      BY <3>1, <3>2
  <2> QED
    BY <2>1 DEF DocParents
<1>5. Above(walk, t) \subseteq Above(f, t)
  <2>1. ASSUME NEW x \in Thing, walk[x] \in Thing PROVE walk[x] = f[x]
    <3>1. IsLive(m, home, x) /\ walk[x] = m[home][x].parent
      BY <2>1, LifecycleAssumption DEF DocParents
    <3>2. Home(m, x) = home /\ Exists(m, x)
      BY <1>3, <3>1, HomeIsOnly, HomeFacts DEF AllGood, Good
    <3> QED
      BY <3>1, <3>2 DEF TreeParents, Shown
  <2>2. t \in Thing
    BY DEF Deleted
  <2> HIDE DEF walk, f
  <2> QED
    BY <2>1, <2>2, ShorterWalk
<1>6. Descendants(m, t) \cap Above(walk, t) = {}
  <2>1. SUFFICES ASSUME NEW x \in Descendants(m, t), x \in Above(walk, t) PROVE FALSE
    OBVIOUS
  <2>2. t \in Above(f, x) /\ x \in Above(f, t)
    BY <1>5, <2>1 DEF Descendants
  <2> QED
    BY <1>1, <2>2, AboveTransitive
<1> QED
  BY <1>1, <1>2, <1>4, <1>6 DEF CanCascade

LEMMA RestoreUndoes ==
  ASSUME Inductive
  PROVE  RoundTrip
<1> SUFFICES ASSUME NEW t \in Thing,
                    Exists(meta, t), Home(meta, t) # Trash, state[Home(meta, t)] = "active",
                    \A x \in Moved(meta, t) : Home(meta, x) = Home(meta, t),
                    CanCascade(meta, t, Trash, Keep, TRUE),
                    Ends(DocParents(meta, Home(meta, t)), t)
             PROVE  LET home == Home(meta, t)
                        gone == Cascaded(meta, t, Trash, Keep, TRUE)
                        back == Cascaded(gone, t, home, Keep, FALSE)
                    IN
                    /\ Shown(gone, t).from = home
                    /\ CanCascade(gone, t, home, Keep, FALSE)
                    /\ \A x \in Moved(meta, t) :
                         /\ Home(back, x) = home
                         /\ Shown(back, x).parent = Shown(meta, x).parent
                         /\ Shown(meta, x).entries \subseteq Shown(back, x).entries
  BY DEF RoundTrip, Moved
<1> DEFINE home == Home(meta, t)
           gone == Cascaded(meta, t, Trash, Keep, TRUE)
           back == Cascaded(gone, t, home, Keep, FALSE)
<1>1. Deleted(meta, t, home, gone)
  BY InductiveSays, SystemInAll DEF Deleted, AllGood, Apart
<1> HIDE DEF gone
<1>2. Shown(gone, t).from = home
  <2>1. t \in Moved(meta, t)
    BY DEF Moved
  <2> HIDE DEF home
  <2> QED BY <1>1, <2>1, DeletedEntries
<1>3. CanCascade(gone, t, home, Keep, FALSE)
  BY <1>1, DeletedCanComeBack
<1>4. CameBack(meta, t, home, back)
  BY <1>1, DeletedComesBack
<1> HIDE DEF back
<1>5. ASSUME NEW x \in Moved(meta, t)
      PROVE  /\ Home(back, x) = home
             /\ Shown(back, x).parent = Shown(meta, x).parent
             /\ Shown(meta, x).entries \subseteq Shown(back, x).entries
  <2>1. Shown(meta, x) = meta[home][x]
    BY <1>5 DEF Shown
  <2> HIDE DEF home
  <2> QED BY <1>4, <1>5, <2>1 DEF CameBack
<1> QED BY <1>2, <1>3, <1>5 DEF gone, back

----------------------------------------------------------------------------
(* Paths                                                                   *)

\* The parent argument that a call decodes is one that a command may have.
LEMMA OptionalParent ==
  ASSUME NEW parent \in Thing \cup {NoThing}
  PROVE  Optional(parent) \in ParentArg
BY DEF Optional, ParentArg

\* Naming a thing anew writes it to a collection there is, under a parent there
\* may be.
LEMMA RenameIsUpsert ==
  ASSUME Inductive, NEW t \in Thing, RenameThing(t)
  PROVE  \E c \in AnyCollection, p \in ParentArg : UpsertThing(t, c, p, FALSE, {})
<1>1. Home(meta, t) \in AnyCollection
  BY DEF RenameThing, Exists, Home
<1>2. Shown(meta, t).parent \in Thing \cup {NoThing}
  BY <1>1 DEF Shown, Inductive, TypeOK, Meta
<1> QED BY <1>1, <1>2, OptionalParent DEF RenameThing

\* Each call on a path takes a step that some command takes.
LEMMA PathCommandIsCommand ==
  ASSUME Inductive, PathCommand
  PROVE  Next
<1>1. CASE CreateAt
  <2>1. CASE \E c \in Collection : UpsertCollection(c)
    BY <2>1 DEF Next
  <2>2. CASE \E dir \in ThingsDir, t \in Thing :
               UpsertThing(t, dir.collection, Optional(dir.thing), FALSE, {})
    <3>1. PICK dir \in ThingsDir, t \in Thing :
            UpsertThing(t, dir.collection, Optional(dir.thing), FALSE, {})
      BY <2>2
    <3>2. dir.collection \in AnyCollection /\ Optional(dir.thing) \in ParentArg
      BY OptionalParent DEF ThingsDir
    <3> QED BY <3>1, <3>2 DEF Next
  <2>3. CASE \E t \in Thing, e \in Entry : AddContentEntry(t, e)
    BY <2>3 DEF Next
  <2> QED BY <1>1, <2>1, <2>2, <2>3 DEF CreateAt
<1>2. CASE EditAt
  <2>1. CASE \E c \in Collection : RenameCollection(c)
    BY <2>1 DEF RenameCollection, Next
  <2>2. CASE \E t \in Thing : RenameThing(t)
    BY <2>2, RenameIsUpsert DEF Next
  <2> QED BY <1>2, <2>1, <2>2 DEF EditAt
<1>3. CASE DeleteAt
  BY <1>3 DEF DeleteAt, Next
<1>4. CASE MoveAlong
  <2>1. PICK t \in Thing, to \in ThingsDir : MoveThing(t, to.collection, Optional(to.thing))
    BY <1>4 DEF MoveAlong
  <2>2. to.collection \in AnyCollection /\ Optional(to.thing) \in ParentArg
    BY OptionalParent DEF ThingsDir
  <2> QED BY <2>1, <2>2 DEF Next
<1> QED BY <1>1, <1>2, <1>3, <1>4 DEF PathCommand

----------------------------------------------------------------------------
(* Theorems                                                                *)

\* The commands keep the inductive invariant: each thing is live in at most
\* one collection, in a document that exists; what is archived is in the trash.
THEOREM LifecycleInductive == Spec => []Inductive
BY InitInductive, StepInductive, PTL DEF Spec

\* Documents, things and content entries keep their types.
THEOREM LifecycleTypeCorrect == Spec => []TypeOK
<1>1. Inductive => TypeOK
  BY DEF Inductive
<1> QED BY <1>1, LifecycleInductive, PTL

\* No command makes a thing disappear.
THEOREM NothingDisappears == Spec => ThingsStay
<1>1. Inductive /\ [Next]_vars => [\A t \in Thing : Exists(meta, t) => Exists(meta', t)]_vars
  <2> SUFFICES ASSUME Inductive, Next
               PROVE  \A t \in Thing : Exists(meta, t) => Exists(meta', t)
    OBVIOUS
  <2> QED BY NextProper, ProperKeeps DEF Kept
<1> QED BY <1>1, LifecycleInductive, PTL DEF Spec, ThingsStay

\* No content entry is left behind by a deletion.
THEOREM EntriesGoAlong == Spec => ArchiveKeepsEntries
<1> DEFINE A == \A t \in Thing :
             LET archived == Exists(meta, t) /\ Shown(meta, t).from = NoCollection
                             /\ Exists(meta', t) /\ Shown(meta', t).from # NoCollection
             IN archived => Shown(meta, t).entries \subseteq Shown(meta', t).entries
<1>1. Inductive /\ [Next]_vars => [A]_vars
  <2> SUFFICES ASSUME Inductive, Next PROVE A
    OBVIOUS
  <2> QED BY NextProper, ProperKeeps DEF Kept
<1> QED BY <1>1, LifecycleInductive, PTL DEF Spec, ArchiveKeepsEntries

\* A restore without a target reaches all it should, wherever the thing and
\* what is below it came from and whatever has become of that collection since.
THEOREM RestoreGoesHome == Spec => []RestoreReaches
<1>1. Inductive => RestoreReaches
  BY RestoreGoesThere
<1> QED BY <1>1, LifecycleInductive, PTL

\* However many things are below a thing, restoring it after a deletion finds
\* each parent valid and puts all back where it was, with what it had.
THEOREM RestoreUndoesDeletion == Spec => []RoundTrip
<1>1. Inductive => RoundTrip
  BY RestoreUndoes
<1> QED BY <1>1, LifecycleInductive, PTL

\* Agents that use paths do nothing that a user with commands could not do:
\* every behaviour with paths is one of the commands alone.
THEOREM PathsAreCommands == PathSpec => Spec
<1>1. Inductive /\ [Next \/ PathCommand]_vars => [Next]_vars
  BY PathCommandIsCommand
<1> QED BY <1>1, InitInductive, StepInductive, PTL DEF PathSpec, Spec

\* However old the paths are that agents use, a thing is live in at most one
\* collection, in a document that exists, and what is archived is in the trash.
THEOREM PathsInductive == PathSpec => []Inductive
BY PathsAreCommands, LifecycleInductive, PTL

\* No call on a path makes a thing disappear, not even one that creates a thing
\* under a name in use.
THEOREM PathsLoseNothing == PathSpec => ThingsStay
BY PathsAreCommands, NothingDisappears, PTL

\* Where agents use paths too, a restore reaches all it should, and undoes the
\* deletion it follows.
THEOREM PathsRestore == PathSpec => [](RestoreReaches /\ RoundTrip)
BY PathsAreCommands, RestoreGoesHome, RestoreUndoesDeletion, PTL

=============================================================================
