-------------------------- MODULE LocalData_proofs --------------------------
(* Theorems about LocalData, for any users, keys, calls, operations and    *)
(* bounds.                                                                 *)
EXTENDS LocalData, Integers, FiniteSetTheorems, SequenceTheorems, TLAPS

Owner == User \cup {None}
Rows == [Table -> [Key -> Owner \cup {Absent}]]

Statement ==
  [does : {"put", "del", "take", "event", "fetch"},
   table : Table \cup {"things_local_events"},
   keys : SUBSET Key,
   arg : Owner \cup {"changed", "data_wiped"}]

\* A statement that stores what is handed to it stores an owner.
Stores(s) == s.does = "take" => s.arg \in Owner

Transaction == {tx \in Seq(Statement) : \A i \in 1..Len(tx) : Stores(tx[i])}

----------------------------------------------------------------------------
(* Induction over the natural numbers                                      *)

LEMMA LeastNatural ==
  ASSUME NEW S \in SUBSET Nat, S # {}
  PROVE  \E n \in S : \A m \in S : n <= m
<1> DEFINE Below(n) == 0..(n - 1)
           T == {Below(n) : n \in S}
<1>1. IsWellFoundedOn(StrictSubsetOrdering(Nat), FiniteSubsetsOf(Nat))
  BY FS_StrictSubsetOrderingWellFounded
<1>2. T \subseteq FiniteSubsetsOf(Nat) /\ T # {}
  <2>1. ASSUME NEW n \in S PROVE Below(n) \in FiniteSubsetsOf(Nat)
    <3>1. n \in Int /\ n - 1 \in Int
      OBVIOUS
    <3>2. IsFiniteSet(Below(n)) /\ Below(n) \in SUBSET Nat
      BY <3>1, FS_Interval
    <3> QED
      BY <3>2 DEF FiniteSubsetsOf
  <2> QED
    BY <2>1
<1>3. PICK x \in T : \A y \in T : <<y, x>> \notin StrictSubsetOrdering(Nat)
  <2> HIDE DEF T
  <2> QED
    BY <1>1, <1>2, WFMin
<1>4. PICK n \in S : x = Below(n)
  BY <1>3
<1>5. ASSUME NEW m \in S, m < n PROVE FALSE
  <2>1. Below(m) \subseteq Below(n) /\ Below(m) # Below(n)
    BY <1>5
  <2>2. Below(m) \in SUBSET Nat /\ Below(n) \in SUBSET Nat
    OBVIOUS
  <2>3. <<Below(m), Below(n)>> \in StrictSubsetOrdering(Nat)
    <3> HIDE DEF Below
    <3> QED
      BY <2>1, <2>2 DEF StrictSubsetOrdering
  <2> QED
    BY <2>3, <1>3, <1>4
<1> QED
  BY <1>5

----------------------------------------------------------------------------
(* The rows after a transaction                                            *)

\* The recursive definition of After says what it looks like it says.
Runs(f, n, r, tx) ==
  f = [i \in 0..n |-> IF i = 0 THEN r ELSE Effect(f[i - 1], tx[i])]

LEMMA RunsExist ==
  ASSUME NEW r, NEW tx
  PROVE  \A n \in Nat : \E f : Runs(f, n, r, tx)
<1> DEFINE Bad == {n \in Nat : ~\E f : Runs(f, n, r, tx)}
<1>1. CASE Bad # {}
  <2>1. PICK n \in Bad : \A m \in Bad : n <= m
    <3> HIDE DEF Bad
    <3>1. Bad \in SUBSET Nat
      BY DEF Bad
    <3> QED
      BY <1>1, <3>1, LeastNatural
  <2>2. n # 0
    <3>1. Runs([i \in 0..0 |-> r], 0, r, tx)
      BY DEF Runs
    <3> QED
      BY <3>1
  <2>3. PICK f : Runs(f, n - 1, r, tx)
    BY <2>1, <2>2
  <2> DEFINE g == [i \in 0..n |-> IF i = n THEN Effect(f[n - 1], tx[n]) ELSE f[i]]
  <2>4. ASSUME NEW i \in 0..n
        PROVE  g[i] = IF i = 0 THEN r ELSE Effect(g[i - 1], tx[i])
    <3>1. CASE i = n
      BY <3>1, <2>2
    <3>2. CASE i # n
      BY <3>2, <2>2, <2>3 DEF Runs
    <3> QED
      BY <3>1, <3>2
  <2>5. Runs(g, n, r, tx)
    <3>1. g = [i \in 0..n |-> g[i]]
      OBVIOUS
    <3> HIDE DEF g
    <3> QED
      BY <3>1, <2>4 DEF Runs
  <2> QED
    BY <2>5, <2>1
<1> QED
  BY <1>1

LEMMA AfterRuns ==
  ASSUME NEW r, NEW tx, Len(tx) \in Nat
  PROVE  /\ After(r, tx)[0] = r
         /\ \A i \in 1..Len(tx) :
              After(r, tx)[i] = Effect(After(r, tx)[i - 1], tx[i])
<1>1. \E f : Runs(f, Len(tx), r, tx)
  BY RunsExist
<1>2. Runs(After(r, tx), Len(tx), r, tx)
  BY <1>1 DEF Runs, After
<1> QED
  BY <1>2 DEF Runs

\* A property of the rows that every statement keeps holds after them all.
LEMMA AfterInvariant ==
  ASSUME NEW r, NEW tx, Len(tx) \in Nat, NEW S, r \in S,
         ASSUME NEW i \in 1..Len(tx), NEW q \in S PROVE Effect(q, tx[i]) \in S
  PROVE  After(r, tx)[Len(tx)] \in S
<1> DEFINE R == After(r, tx)
           Bad == {n \in 0..Len(tx) : R[n] \notin S}
<1>1. R[0] = r /\ \A i \in 1..Len(tx) : R[i] = Effect(R[i - 1], tx[i])
  BY AfterRuns
<1> HIDE DEF R
<1>2. CASE Bad # {}
  <2>1. PICK n \in Bad : \A m \in Bad : n <= m
    <3>1. Bad \in SUBSET Nat
      OBVIOUS
    <3> HIDE DEF Bad
    <3> QED
      BY <1>2, <3>1, LeastNatural
  <2>2. n # 0
    BY <1>1, <2>1
  <2>3. n \in 1..Len(tx) /\ n - 1 \in 0..Len(tx) /\ n - 1 < n
    BY <2>2
  <2>4. R[n - 1] \in S
    BY <2>1, <2>3
  <2>5. R[n] \in S
    BY <2>3, <2>4, <1>1
  <2> QED
    BY <2>5, <2>1
<1>3. CASE Bad = {}
  <2>1. R[Len(tx)] \in S
    BY <1>3
  <2> QED
    BY <2>1 DEF R
<1> QED
  BY <1>2, <1>3

LEMMA NoRowIsNobodys == Absent \notin Owner
  BY LocalDataAssumption DEF Owner

\* What one statement does to a row.
LEMMA EffectOfOne ==
  ASSUME NEW r \in Rows, NEW s \in Statement, Stores(s)
  PROVE  /\ Effect(r, s) \in Rows
         /\ \A t \in Table, k \in Key :
              r[t][k] = Absent /\ Effect(r, s)[t][k] # Absent =>
                s.does = "put" /\ s.table = t
         /\ \A t \in Table, k \in Key :
              r[t][k] # Absent /\ Effect(r, s)[t][k] = Absent =>
                /\ s.does = "del" /\ k \in s.keys
                /\ s.table = t \/ <<t, s.table>> \in Cascading
         /\ \A t \in Table, k \in Key :
              s.does = "del" /\ s.table = t /\ k \in s.keys =>
                Effect(r, s)[t][k] = Absent
<1>1. CASE s.table \notin Table
  BY <1>1 DEF Effect, Rows
<1>2. CASE s.table \in Table /\ s.does = "put"
  <2> DEFINE q == [k \in Key |-> IF k \in s.keys /\ r[s.table][k] = Absent
                                 THEN None ELSE r[s.table][k]]
  <2>1. Effect(r, s) = [r EXCEPT ![s.table] = q]
    BY <1>2 DEF Effect
  <2>2. q \in [Key -> Owner \cup {Absent}]
    BY <1>2 DEF Rows, Owner
  <2>3. \A k \in Key : r[s.table][k] # Absent => q[k] # Absent
    BY <1>2
  <2> HIDE DEF q
  <2>4. Effect(r, s) \in Rows
    BY <1>2, <2>1, <2>2 DEF Rows
  <2>5. \A t \in Table : Effect(r, s)[t] = IF t = s.table THEN q ELSE r[t]
    BY <2>1 DEF Rows
  <2> QED
    BY <1>2, <2>3, <2>4, <2>5
<1>3. CASE s.table \in Table /\ s.does = "del"
  <2> DEFINE q(t) == IF t = s.table \/ <<t, s.table>> \in Cascading
                     THEN [k \in Key |-> IF k \in s.keys /\ r[s.table][k] # Absent
                                         THEN Absent ELSE r[t][k]]
                     ELSE r[t]
  <2>1. Effect(r, s) = [t \in Table |-> q(t)]
    BY <1>3 DEF Effect
  <2>2. ASSUME NEW t \in Table
        PROVE  /\ q(t) \in [Key -> Owner \cup {Absent}]
               /\ \A k \in Key : r[t][k] = Absent => q(t)[k] = Absent
               /\ \A k \in Key :
                    r[t][k] # Absent /\ q(t)[k] = Absent =>
                      k \in s.keys /\ (s.table = t \/ <<t, s.table>> \in Cascading)
               /\ \A k \in Key : s.table = t /\ k \in s.keys => q(t)[k] = Absent
    BY DEF Rows
  <2>3. \A t \in Table : Effect(r, s)[t] = q(t)
    BY <2>1
  <2> HIDE DEF q
  <2>4. Effect(r, s) \in Rows
    BY <2>1, <2>2 DEF Rows
  <2>5. ASSUME NEW t \in Table, NEW k \in Key
        PROVE  /\ r[t][k] = Absent => Effect(r, s)[t][k] = Absent
               /\ r[t][k] # Absent /\ Effect(r, s)[t][k] = Absent =>
                    k \in s.keys /\ (s.table = t \/ <<t, s.table>> \in Cascading)
               /\ s.table = t /\ k \in s.keys => Effect(r, s)[t][k] = Absent
    BY <2>2, <2>3
  <2> QED
    BY <1>3, <2>4, <2>5
<1>4. CASE s.table \in Table /\ s.does = "take"
  <2> DEFINE q == [k \in Key |-> IF r[s.table][k] = None THEN s.arg ELSE r[s.table][k]]
  <2>1. Effect(r, s) = [r EXCEPT ![s.table] = q]
    BY <1>4 DEF Effect
  <2>2. s.arg \in Owner /\ s.arg # Absent /\ None # Absent
    BY <1>4, NoRowIsNobodys DEF Stores, Owner
  <2>3. q \in [Key -> Owner \cup {Absent}]
    BY <1>4, <2>2 DEF Rows
  <2>4. \A k \in Key : q[k] = Absent <=> r[s.table][k] = Absent
    BY <1>4, <2>2
  <2> HIDE DEF q
  <2>5. Effect(r, s) \in Rows
    BY <1>4, <2>1, <2>3 DEF Rows
  <2>6. \A t \in Table : Effect(r, s)[t] = IF t = s.table THEN q ELSE r[t]
    BY <2>1 DEF Rows
  <2> QED
    BY <1>4, <2>4, <2>5, <2>6
<1>5. CASE s.table \in Table /\ s.does \in {"event", "fetch"}
  <2>1. Effect(r, s) = r
    BY <1>5 DEF Effect
  <2> QED
    BY <1>5, <2>1
<1> QED
  BY <1>1, <1>2, <1>3, <1>4, <1>5 DEF Statement

\* Rows of a table come with an insert; a row goes with a delete of its table
\* or of a parent of it.
Fresh(tx, t) == \E s \in Inserts(tx) : s.table = t

Erases(tx, t, k) ==
  \E i \in 1..Len(tx) :
    /\ tx[i].does = "del" /\ k \in tx[i].keys
    /\ tx[i].table = t \/ <<t, tx[i].table>> \in Cascading

\* What a transaction does to a row: it comes with an insert, and goes with a
\* delete of its table or of a parent of it.
LEMMA EffectOfAll ==
  ASSUME NEW r \in Rows, NEW tx \in Transaction,
         NEW z, z = After(r, tx)[Len(tx)]
  PROVE  /\ z \in Rows
         /\ \A t \in Table, k \in Key :
              r[t][k] = Absent /\ z[t][k] # Absent =>
                Fresh(tx, t)
         /\ \A t \in Table, k \in Key :
              r[t][k] # Absent /\ z[t][k] = Absent =>
                Erases(tx, t, k)
<1> DEFINE Fits(q) == \A t \in Table, k \in Key :
                        /\ r[t][k] = Absent /\ q[t][k] # Absent => Fresh(tx, t)
                        /\ r[t][k] # Absent /\ q[t][k] = Absent => Erases(tx, t, k)
           S == {q \in Rows : Fits(q)}
<1>1. Len(tx) \in Nat /\ \A i \in 1..Len(tx) : tx[i] \in Statement /\ Stores(tx[i])
  BY DEF Transaction
<1>2. \A i \in 1..Len(tx) : tx[i] \in ToSet(tx)
  BY DEF ToSet, Transaction
<1>3. r \in S
  OBVIOUS
<1>4. ASSUME NEW i \in 1..Len(tx), NEW q \in S PROVE Effect(q, tx[i]) \in S
  <2> DEFINE s == tx[i]
             p == Effect(q, s)
  <2>1. s \in Statement /\ Stores(s)
    BY <1>1
  <2>2. s.does = "put" => Fresh(tx, s.table)
    BY <1>2 DEF Inserts, Fresh
  <2>3. ASSUME NEW t \in Table, NEW k \in Key, s.does = "del", k \in s.keys,
               s.table = t \/ <<t, s.table>> \in Cascading
        PROVE  Erases(tx, t, k)
    BY <2>3 DEF Erases
  <2> HIDE DEF s
  <2>4. p \in Rows /\ \A t \in Table, k \in Key :
              /\ q[t][k] = Absent /\ p[t][k] # Absent => s.does = "put" /\ s.table = t
              /\ q[t][k] # Absent /\ p[t][k] = Absent =>
                   /\ s.does = "del" /\ k \in s.keys
                   /\ s.table = t \/ <<t, s.table>> \in Cascading
    BY <2>1, EffectOfOne
  <2> HIDE DEF p
  <2>5. Fits(p)
    BY <2>2, <2>3, <2>4
  <2> QED
    BY <2>4, <2>5 DEF p, s
<1>5. After(r, tx)[Len(tx)] \in S
  <2> HIDE DEF S
  <2> QED
    BY <1>1, <1>3, <1>4, AfterInvariant
<1> QED
  BY <1>5

----------------------------------------------------------------------------
(* The event journal and its watcher                                       *)

\* Ids are given in ascending order and never again; the cursor is an id the
\* watcher has seen.
JournalTyped ==
  /\ IsFiniteSet(events)
  /\ \A e \in events : e.id \in Nat /\ e.id <= lastId
  /\ lastId \in Nat
  /\ cursor \in Nat /\ cursor <= lastId

JournalInvariant == JournalTyped /\ NothingBehindCursor

\* What a step may do to the journal besides acknowledging it.
Logs ==
  \/ UNCHANGED <<events, lastId, seen>>
  \/ events' = {} /\ UNCHANGED <<lastId, seen>>
  \/ /\ lastId' = NextId
     /\ \E kind : events' = events \cup {[id |-> NextId, kind |-> kind]}
     /\ seen' = seen \ {NextId}

LEMMA GreatestOfFinite ==
  ASSUME NEW S \in SUBSET Nat, S # {}, NEW b \in Nat, \A x \in S : x <= b
  PROVE  Max(S) \in S /\ \A x \in S : x <= Max(S)
<1> DEFINE T == {b - x : x \in S}
<1>1. T \in SUBSET Nat /\ T # {}
  <2>1. \A x \in S : b - x \in Nat
    OBVIOUS
  <2> QED
    BY <2>1
<1>2. PICK n \in T : \A m \in T : n <= m
  <2> HIDE DEF T
  <2> QED
    BY <1>1, LeastNatural
<1>3. PICK x \in S : n = b - x
  BY <1>2
<1>4. \A y \in S : x >= y
  BY <1>2, <1>3
<1> QED
  BY <1>4 DEF Max

LEMMA LogsKeepJournal ==
  ASSUME JournalInvariant, Logs, cursor' = cursor
  PROVE  JournalInvariant'
<1>1. CASE UNCHANGED <<events, lastId, seen>>
  BY <1>1 DEF JournalInvariant, JournalTyped, NothingBehindCursor
<1>2. CASE events' = {} /\ UNCHANGED <<lastId, seen>>
  BY <1>2, FS_EmptySet DEF JournalInvariant, JournalTyped, NothingBehindCursor
<1>3. ASSUME NEW kind, lastId' = NextId, seen' = seen \ {NextId},
             events' = events \cup {[id |-> NextId, kind |-> kind]}
      PROVE  JournalInvariant'
  <2> DEFINE new == [id |-> NextId, kind |-> kind]
  <2>1. new.id = lastId + 1 /\ lastId' = lastId + 1 /\ NextId = lastId + 1
    BY <1>3 DEF NextId
  <2>2. events' = events \cup {new}
    BY <1>3
  <2> HIDE DEF new
  <2>3. IsFiniteSet(events')
    BY <2>2, FS_AddElement DEF JournalInvariant, JournalTyped
  <2>4. JournalTyped'
    BY <2>1, <2>2, <2>3 DEF JournalInvariant, JournalTyped
  <2>5. NothingBehindCursor'
    BY <1>3, <2>1, <2>2, <2>4 DEF JournalInvariant, JournalTyped, NothingBehindCursor
  <2> QED
    BY <2>4, <2>5 DEF JournalInvariant
<1> QED
  BY <1>1, <1>2, <1>3 DEF Logs

\* What the watcher fetches is a page without a gap: an event up to the last
\* of the page was seen before or is in the page.
LEMMA WatchKeepsJournal ==
  ASSUME JournalInvariant, Watch
  PROVE  JournalInvariant'
<1> DEFINE later == {e \in events : e.id > cursor}
           upTo(n) == {f \in later : f.id <= n}
           page == Since(cursor, Page)
           ids == {e.id : e \in page}
<1>1. /\ page # {}
      /\ seen' = seen \cup ids
      /\ cursor' = Max(ids)
      /\ UNCHANGED <<events, lastId>>
  BY DEF Watch, journal
<1>2. page = {e \in later : Cardinality(upTo(e.id)) <= Page}
  BY DEF Since
<1>3. Max(ids) \in ids /\ \A n \in ids : n <= Max(ids)
  <2>1. ids \in SUBSET Nat /\ ids # {} /\ lastId \in Nat /\ \A x \in ids : x <= lastId
    BY <1>1, <1>2 DEF JournalInvariant, JournalTyped
  <2> HIDE DEF ids
  <2> QED
    BY <2>1, GreatestOfFinite
<1>4. PICK m \in page : Max(ids) = m.id
  BY <1>3
<1>5. m \in events /\ cursor' = m.id /\ m.id \in Nat /\ m.id <= lastId
  BY <1>1, <1>2, <1>4 DEF JournalInvariant, JournalTyped
<1>6. JournalTyped'
  BY <1>1, <1>5 DEF JournalInvariant, JournalTyped
<1>7. ASSUME NEW e \in events, e.id <= m.id, e.id > cursor
      PROVE  e \in page
  <2>1. e.id \in Nat
    BY DEF JournalInvariant, JournalTyped
  <2>2. upTo(e.id) \subseteq upTo(m.id)
    BY <1>5, <1>7, <2>1 DEF JournalInvariant, JournalTyped
  <2>3. IsFiniteSet(upTo(m.id))
    <3>1. upTo(m.id) \subseteq events
      OBVIOUS
    <3> HIDE DEF upTo
    <3> QED
      BY <3>1, FS_Subset DEF JournalInvariant, JournalTyped
  <2>4. Cardinality(upTo(e.id)) <= Cardinality(upTo(m.id))
    <3> HIDE DEF upTo
    <3> QED
      BY <2>2, <2>3, FS_Subset
  <2>5. /\ Cardinality(upTo(e.id)) \in Nat /\ Cardinality(upTo(m.id)) \in Nat
    <3> HIDE DEF upTo
    <3> QED
      BY <2>2, <2>3, FS_Subset, FS_CardinalityType
  <2>6. Cardinality(upTo(m.id)) <= Page
    BY <1>2
  <2>7. Cardinality(upTo(e.id)) <= Page
    BY <2>4, <2>5, <2>6, LocalDataAssumption
  <2>8. e \in later
    BY <1>7
  <2> HIDE DEF upTo, later
  <2> QED
    BY <1>2, <2>7, <2>8
<1>8. NothingBehindCursor'
  <2> SUFFICES ASSUME NEW e \in events, e.id <= m.id
               PROVE  e.id \in seen' /\ e.id <= lastId
    BY <1>1, <1>5 DEF NothingBehindCursor
  <2>1. CASE e.id <= cursor
    BY <1>1, <2>1 DEF JournalInvariant, NothingBehindCursor
  <2>2. CASE e.id > cursor
    <3>1. e \in page
      BY <2>2, <1>7
    <3>2. e.id \in ids
      BY <3>1
    <3> QED
      BY <1>1, <3>2 DEF JournalInvariant, JournalTyped
  <2> QED
    BY <2>1, <2>2 DEF JournalInvariant, JournalTyped
<1> QED
  BY <1>6, <1>8 DEF JournalInvariant

LEMMA AckKeepsJournal ==
  ASSUME JournalInvariant, Ack
  PROVE  JournalInvariant'
<1>1. events' \subseteq events /\ UNCHANGED <<lastId, cursor, seen>>
  BY DEF Ack, watcher
<1>2. IsFiniteSet(events')
  BY <1>1, FS_Subset DEF JournalInvariant, JournalTyped
<1> QED
  BY <1>1, <1>2 DEF JournalInvariant, JournalTyped, NothingBehindCursor

LEMMA CommitLogs ==
  ASSUME NEW c, NEW op, NEW arg, NEW by, NEW i, Commit(c, op, arg, by, i)
  PROVE  Logs
<1> DEFINE tx == Program(op, arg)[i]
<1>1. IF tx[1].table # "things_local_events" THEN UNCHANGED <<journal, seen>>
      ELSE IF tx[1].does = "event"
      THEN /\ lastId' = NextId
           /\ events' = events \cup {[id |-> NextId, kind |-> tx[1].arg]}
           /\ seen' = seen \ {NextId}
      ELSE events' = {} /\ UNCHANGED <<lastId, seen>>
  BY DEF Commit
<1> HIDE DEF tx
<1> QED
  BY <1>1 DEF Logs, journal

LEMMA StepsKeepJournal ==
  ASSUME JournalInvariant, [Next]_vars
  PROVE  JournalInvariant'
<1>1. ASSUME NEW c \in Call, NEW op \in Ops, NEW k \in Key, Start(c, op, k)
      PROVE  JournalInvariant'
  BY <1>1, CommitLogs, LogsKeepJournal DEF Start
<1>2. ASSUME NEW c \in Call, NEW u \in User, SignIn(c, u)
      PROVE  JournalInvariant'
  BY <1>2, CommitLogs, LogsKeepJournal DEF SignIn
<1>3. ASSUME NEW c \in Call, NEW op \in {"wipe", "wipe_and_notify"}, SignOut(c, op)
      PROVE  JournalInvariant'
  BY <1>3, CommitLogs, LogsKeepJournal DEF SignOut
<1>4. ASSUME NEW c \in Call, Step(c)
      PROVE  JournalInvariant'
  BY <1>4, CommitLogs, LogsKeepJournal DEF Step
<1>5. ASSUME UNCHANGED <<journal, watcher>>
      PROVE  JournalInvariant'
  BY <1>5 DEF journal, watcher, JournalInvariant, JournalTyped, NothingBehindCursor
<1>6. ASSUME NEW c \in Call, Refused(c) \/ Fails(c)
      PROVE  JournalInvariant'
  BY <1>5, <1>6 DEF Refused, Fails
<1>7. CASE Restart
  BY <1>5, <1>7 DEF Restart
<1>8. CASE UNCHANGED vars
  BY <1>5, <1>8 DEF vars
<1> QED
  BY <1>1, <1>2, <1>3, <1>4, <1>6, <1>7, <1>8, WatchKeepsJournal, AckKeepsJournal
  DEF Next

\* The journal a watcher follows never holds an event behind its cursor: what
\* list_things_local_events_since has not returned has an id beyond all it has
\* returned, whatever is acknowledged or wiped in between.
THEOREM NothingIsBehindTheCursor == Spec => []NothingBehindCursor
<1>1. Init => JournalInvariant
  BY FS_EmptySet DEF Init, JournalInvariant, JournalTyped, NothingBehindCursor
<1>2. JournalInvariant /\ [Next]_vars => JournalInvariant'
  BY StepsKeepJournal
<1>3. JournalInvariant => NothingBehindCursor
  BY DEF JournalInvariant
<1> QED
  BY <1>1, <1>2, <1>3, PTL DEF Spec

----------------------------------------------------------------------------
(* The transactions of a call                                              *)

Proper(p) == p \in Seq(Transaction) /\ Len(p) \in Nat \ {0}

\* No chat session is deleted.
KeepsSessions(p) ==
  \A i \in 1..Len(p) : \A j \in 1..Len(p[i]) :
    p[i][j].does = "del" => p[i][j].table # "chat_sessions"

\* A call of a single transaction inserts no snapshot: only a command on
\* things does, after it has logged the change.
LogsFirst(p) ==
  Len(p) = 1 => \A j \in 1..Len(p[1]) :
    p[1][j].does = "put" => p[1][j].table # "things_content_snapshots"

Ordinary(p) == Proper(p) /\ KeepsSessions(p) /\ LogsFirst(p)

OrdinaryStatement(s) ==
  /\ s \in Statement /\ Stores(s)
  /\ s.does = "del" => s.table # "chat_sessions"
  /\ s.does = "put" => s.table # "things_content_snapshots"

LEMMA StatementsTyped ==
  /\ None \in Owner
  /\ \A t \in Table, k \in Key :
       /\ Put(t, k) \in Statement /\ Stores(Put(t, k))
       /\ Put(t, k).does = "put" /\ Put(t, k).table = t /\ Put(t, k).keys = {k}
       /\ Del(t, k) \in Statement /\ Stores(Del(t, k))
       /\ Del(t, k).does = "del" /\ Del(t, k).table = t /\ Del(t, k).keys = {k}
       /\ Fetch(t, k) \in Statement /\ Stores(Fetch(t, k))
       /\ Fetch(t, k).does = "fetch" /\ Fetch(t, k).table = t
  /\ \A t \in Table \cup {"things_local_events"} :
       /\ Sweep(t) \in Statement /\ Stores(Sweep(t))
       /\ Sweep(t).does = "del" /\ Sweep(t).table = t /\ Sweep(t).keys = Key
  /\ \A t \in Table, u \in User :
       /\ Take(t, u) \in Statement /\ Stores(Take(t, u))
       /\ Take(t, u).does = "take" /\ Take(t, u).table = t
  /\ \A kind \in {"changed", "data_wiped"} :
       /\ Event(kind) \in Statement /\ Stores(Event(kind))
       /\ Event(kind).does = "event" /\ Event(kind).table = "things_local_events"
<1>1. None \in Owner /\ User \subseteq Owner
  BY DEF Owner
<1>2. ASSUME NEW t \in Table, NEW k \in Key
      PROVE  /\ Put(t, k) \in Statement /\ Stores(Put(t, k))
             /\ Put(t, k).does = "put" /\ Put(t, k).table = t /\ Put(t, k).keys = {k}
             /\ Del(t, k) \in Statement /\ Stores(Del(t, k))
             /\ Del(t, k).does = "del" /\ Del(t, k).table = t /\ Del(t, k).keys = {k}
             /\ Fetch(t, k) \in Statement /\ Stores(Fetch(t, k))
             /\ Fetch(t, k).does = "fetch" /\ Fetch(t, k).table = t
  BY <1>1 DEF Put, Del, Fetch, Statement, Stores
<1>3. ASSUME NEW t \in Table \cup {"things_local_events"}
      PROVE  /\ Sweep(t) \in Statement /\ Stores(Sweep(t))
             /\ Sweep(t).does = "del" /\ Sweep(t).table = t /\ Sweep(t).keys = Key
  BY <1>1 DEF Sweep, Statement, Stores
<1>4. ASSUME NEW t \in Table, NEW u \in User
      PROVE  /\ Take(t, u) \in Statement /\ Stores(Take(t, u))
             /\ Take(t, u).does = "take" /\ Take(t, u).table = t
  BY <1>1 DEF Take, Statement, Stores
<1>5. ASSUME NEW kind \in {"changed", "data_wiped"}
      PROVE  /\ Event(kind) \in Statement /\ Stores(Event(kind))
             /\ Event(kind).does = "event" /\ Event(kind).table = "things_local_events"
  BY DEF Event, Statement, Stores
<1> QED
  BY <1>1, <1>2, <1>3, <1>4, <1>5

LEMMA OrdinaryTransaction ==
  ASSUME NEW tx \in Seq(Statement), \A j \in 1..Len(tx) : OrdinaryStatement(tx[j])
  PROVE  Ordinary(<<tx>>)
BY DEF Ordinary, Proper, KeepsSessions, LogsFirst, OrdinaryStatement, Transaction

LEMMA OrdinaryAlone ==
  ASSUME NEW s, OrdinaryStatement(s)
  PROVE  Ordinary(<<Alone(s)>>)
<1>1. <<s>> \in Seq(Statement) /\ \A j \in 1..Len(<<s>>) : OrdinaryStatement(<<s>>[j])
  BY DEF OrdinaryStatement
<1> QED
  BY <1>1, OrdinaryTransaction DEF Alone

LEMMA OrdinaryPair ==
  ASSUME NEW s1, NEW s2, OrdinaryStatement(s1), OrdinaryStatement(s2)
  PROVE  Ordinary(<<<<s1, s2>>>>)
<1>1. /\ <<s1, s2>> \in Seq(Statement)
      /\ \A j \in 1..Len(<<s1, s2>>) : OrdinaryStatement(<<s1, s2>>[j])
  BY DEF OrdinaryStatement
<1> QED
  BY <1>1, OrdinaryTransaction

\* Statements that delete no session and insert no snapshot.
LEMMA OrdinaryStatements ==
  /\ \A t \in Table \ {"things_content_snapshots"}, k \in Key :
       OrdinaryStatement(Put(t, k))
  /\ \A t \in Table \ {"chat_sessions"}, k \in Key : OrdinaryStatement(Del(t, k))
  /\ \A t \in Table, k \in Key : OrdinaryStatement(Fetch(t, k))
  /\ \A t \in Table \ {"chat_sessions"} : OrdinaryStatement(Sweep(t))
BY StatementsTyped DEF OrdinaryStatement

LEMMA SingleCallsAreOrdinary ==
  ASSUME NEW k \in Key,
         NEW op \in {"set_kv", "delete_kv", "upsert_session", "upsert_message",
                     "delete_messages", "upsert_runtime_state",
                     "delete_runtime_state", "create_version", "delete_version",
                     "create_dataset", "add_to_dataset", "remove_from_dataset",
                     "notify", "delete_notifications", "cache_location",
                     "delete_location", "clear_locations", "save_actors"}
  PROVE  Ordinary(Program(op, k))
<1> DEFINE Puts == {"internal_kv", "chat_sessions", "chat_messages",
                    "chat_runtime_state", "agent_versions", "eval_datasets",
                    "eval_dataset_sessions", "notifications", "location_cache",
                    "things_actor_meta"}
           Dels == {"internal_kv", "chat_messages", "chat_runtime_state",
                    "agent_versions", "eval_dataset_sessions", "notifications",
                    "location_cache"}
<1>1. /\ \A t \in Puts : Ordinary(<<Alone(Put(t, k))>>)
      /\ \A t \in Dels : Ordinary(<<Alone(Del(t, k))>>)
      /\ Ordinary(<<Alone(Sweep("location_cache"))>>)
  <2>1. /\ Puts \subseteq Table \ {"things_content_snapshots"}
        /\ Dels \subseteq Table \ {"chat_sessions"}
        /\ "location_cache" \in Table \ {"chat_sessions"}
    BY DEF Table
  <2> HIDE DEF Puts, Dels
  <2> QED
    BY <2>1, OrdinaryStatements, OrdinaryAlone
<1>2. \/ \E t \in Puts : Program(op, k) = <<Alone(Put(t, k))>>
      \/ \E t \in Dels : Program(op, k) = <<Alone(Del(t, k))>>
      \/ Program(op, k) = <<Alone(Sweep("location_cache"))>>
  BY DEF Program, SetInternalKv, DeleteInternalKv, UpsertChatSession,
         UpsertChatMessageJson, DeleteChatMessages, UpsertChatRuntimeStateJson,
         DeleteChatRuntimeState, CreateAgentVersion, DeleteAgentVersion,
         CreateEvalDataset, AddSessionToDataset, RemoveSessionFromDataset,
         InsertNotification, DeleteNotificationsByCategory, SetLocationCache,
         DeleteLocationCache, ClearLocationCache, UpsertThingsActorMetaBatch
<1> QED
  BY <1>1, <1>2

LEMMA PairCallsAreOrdinary ==
  ASSUME NEW k \in Key,
         NEW op \in {"save_document", "delete_document", "delete_documents",
                     "create_run", "save_evals"}
  PROVE  Ordinary(Program(op, k))
<1>1. \E s1, s2 : /\ OrdinaryStatement(s1) /\ OrdinaryStatement(s2)
                  /\ Program(op, k) = <<<<s1, s2>>>>
  <2>1. {"crdt_documents", "internal_kv", "eval_dataset_runs",
         "eval_dataset_run_items", "eval_dataset_run_evals"}
        \subseteq Table \ {"chat_sessions", "things_content_snapshots"}
    BY DEF Table
  <2>2. CASE op = "save_document"
    BY <2>1, <2>2, OrdinaryStatements DEF Program, SaveCrdtDocument
  <2>3. CASE op = "delete_document"
    BY <2>1, <2>3, OrdinaryStatements DEF Program, DeleteCrdtDocument
  <2>4. CASE op = "delete_documents"
    BY <2>1, <2>4, OrdinaryStatements DEF Program, DeleteAllCrdtDocuments
  <2>5. CASE op = "create_run"
    BY <2>1, <2>5, OrdinaryStatements DEF Program, CreateEvalDatasetRun
  <2>6. CASE op = "save_evals"
    BY <2>1, <2>6, OrdinaryStatements DEF Program, SaveEvalDatasetRunEvals
  <2> QED
    BY <2>2, <2>3, <2>4, <2>5, <2>6
<1> QED
  BY <1>1, OrdinaryPair

LEMMA DeletingDatasetIsOrdinary ==
  ASSUME NEW k \in Key
  PROVE  Ordinary(Program("delete_dataset", k))
<1> DEFINE d1 == Del("eval_dataset_run_evals", k)
           d2 == Del("eval_dataset_run_items", k)
           d3 == Del("eval_dataset_runs", k)
           d4 == Del("eval_dataset_sessions", k)
           d5 == Del("eval_datasets", k)
           tx == <<d1, d2, d3, d4, d5>>
<1>1. Program("delete_dataset", k) = <<tx>>
  BY DEF Program, DeleteEvalDataset
<1>2. /\ OrdinaryStatement(d1) /\ OrdinaryStatement(d2) /\ OrdinaryStatement(d3)
      /\ OrdinaryStatement(d4) /\ OrdinaryStatement(d5)
  BY OrdinaryStatements DEF Table
<1> HIDE DEF d1, d2, d3, d4, d5
<1>3. tx \in Seq(Statement) /\ \A j \in 1..Len(tx) : OrdinaryStatement(tx[j])
  BY <1>2 DEF OrdinaryStatement
<1> HIDE DEF tx
<1> QED
  BY <1>1, <1>3, OrdinaryTransaction

LEMMA SeriesAreProper ==
  ASSUME NEW n \in Nat \ {0}, NEW w \in [1..n -> Transaction]
  PROVE  Proper(w) /\ Len(w) = n
BY DEF Proper

LEMMA OneMore ==
  ASSUME NEW S, NEW s \in Seq(S), NEW e \in S, NEW n \in Nat, Len(s) = n
  PROVE  /\ s \o <<e>> \in Seq(S)
         /\ Len(s \o <<e>>) = n + 1
         /\ \A i \in 1..n : (s \o <<e>>)[i] = s[i]
         /\ (s \o <<e>>)[n + 1] = e
<1>1. s \o <<e>> = Append(s, e)
  OBVIOUS
<1> QED
  BY <1>1, AppendProperties

LEMMA ExecutingIsOrdinary ==
  ASSUME NEW k \in Key
  PROVE  Ordinary(Program("execute_action", k))
<1> DEFINE s1 == Fetch("actions", k)
           s2 == Put("action_invocations", k)
           p == <<<<s1>>, <<s2>>>>
<1>1. Program("execute_action", k) = p
  BY DEF Program, ExecuteActionNow, Alone
<1>2. OrdinaryStatement(s1) /\ OrdinaryStatement(s2)
  BY OrdinaryStatements DEF Table
<1> HIDE DEF s1, s2
<1>3. <<s1>> \in Transaction /\ <<s2>> \in Transaction
  BY <1>2 DEF OrdinaryStatement, Transaction
<1>4. Proper(p) /\ Len(p) = 2
  BY <1>3 DEF Proper
<1>5. KeepsSessions(p)
  BY <1>2 DEF KeepsSessions, OrdinaryStatement
<1> QED
  BY <1>1, <1>4, <1>5 DEF Ordinary, LogsFirst

LEMMA ThingsCommandIsOrdinary ==
  ASSUME NEW k \in Key
  PROVE  Ordinary(Program("things_command", k))
<1> DEFINE s1 == Put("crdt_documents", k)
           s2 == Put("internal_kv", k)
           s3 == Event("changed")
           s4 == Put("things_change_log", k)
           s5 == Put("things_content_snapshots", k)
           t1 == <<s1, s2>>
           p2 == <<t1>> \o <<<<s3>>>>
           p3 == p2 \o <<<<s4>>>>
           p4 == p3 \o <<<<s5>>>>
           Kept(t) == /\ t \in Transaction
                      /\ \A j \in 1..Len(t) : t[j].does # "del"
<1>1. Program("things_command", k) = p4
  BY DEF Program, ThingsCommand, SaveCrdtDocument, InsertThingsChangeLog,
         InsertThingsContentSnapshot, Alone
<1>2. \A s \in {s1, s2, s3, s4, s5} : s \in Statement /\ Stores(s) /\ s.does # "del"
  BY StatementsTyped DEF Table
<1> HIDE DEF s1, s2, s3, s4, s5
<1>3. Kept(t1) /\ Kept(<<s3>>) /\ Kept(<<s4>>) /\ Kept(<<s5>>)
  BY <1>2 DEF Transaction
<1> DEFINE Good == {t \in Transaction : Kept(t)}
<1>4. t1 \in Good /\ <<s3>> \in Good /\ <<s4>> \in Good /\ <<s5>> \in Good
  BY <1>3
<1> HIDE DEF Good, t1, p2, p3, p4
<1>5. <<t1>> \in Seq(Good) /\ Len(<<t1>>) = 1
  BY <1>4
<1>6. p2 \in Seq(Good) /\ Len(p2) > 1
  BY <1>4, <1>5, ConcatProperties DEF p2
<1>7. p3 \in Seq(Good) /\ Len(p3) > 1
  BY <1>4, <1>6, ConcatProperties DEF p3
<1>8. p4 \in Seq(Good) /\ Len(p4) > 1 /\ Len(p4) \in Nat
  BY <1>4, <1>7, ConcatProperties DEF p4
<1>9. \A i \in 1..Len(p4) : p4[i] \in Transaction /\ Kept(p4[i])
  BY <1>8 DEF Good
<1>10. Proper(p4)
  BY <1>8, <1>9 DEF Proper, Good
<1>11. KeepsSessions(p4)
  BY <1>8, <1>9 DEF KeepsSessions
<1>12. LogsFirst(p4)
  BY <1>8 DEF LogsFirst
<1> QED
  BY <1>1, <1>10, <1>11, <1>12 DEF Ordinary

LEMMA CallsAreOrdinary ==
  ASSUME NEW k \in Key, NEW op \in Operation \ {"delete_session"}
  PROVE  Ordinary(Program(op, k))
BY SingleCallsAreOrdinary, PairCallsAreOrdinary, DeletingDatasetIsOrdinary,
   ExecutingIsOrdinary, ThingsCommandIsOrdinary
DEF Operation

\* The session goes last, after its messages.
LEMMA DeletingSession ==
  ASSUME NEW k \in Key
  PROVE  LET p == Program("delete_session", k)
         IN  /\ Proper(p) /\ Len(p) = 4
             /\ p[2] = <<Del("chat_messages", k)>>
             /\ p[4] = <<Del("chat_sessions", k)>>
             /\ \A i \in 1..3 : \A j \in 1..Len(p[i]) : p[i][j].table # "chat_sessions"
<1> DEFINE s1 == Del("eval_dataset_sessions", k)
           s2 == Del("chat_messages", k)
           s3 == Del("chat_runtime_state", k)
           s4 == Del("chat_sessions", k)
           p == <<<<s1>>, <<s2>>, <<s3>>, <<s4>>>>
<1>1. Program("delete_session", k) = p
  BY DEF Program, DeleteChatSession, Alone
<1>2. \A s \in {s1, s2, s3, s4} : s \in Statement /\ Stores(s)
  BY StatementsTyped DEF Table
<1>3. \A s \in {s1, s2, s3} : s.table # "chat_sessions"
  BY StatementsTyped DEF Table
<1>4. p[2] = <<s2>> /\ p[4] = <<s4>> /\ Len(p) = 4
  OBVIOUS
<1> HIDE DEF s1, s2, s3, s4
<1>5. /\ <<s1>> \in Transaction /\ <<s2>> \in Transaction
      /\ <<s3>> \in Transaction /\ <<s4>> \in Transaction
  BY <1>2 DEF Transaction
<1>6. Proper(p)
  BY <1>5 DEF Proper
<1>7. \A i \in 1..3 : \A j \in 1..Len(p[i]) : p[i][j].table # "chat_sessions"
  BY <1>3
<1> QED
  BY <1>1, <1>4, <1>6, <1>7 DEF s2, s4

\* The tables of a wipe in their order.
LEMMA WipeOrderFacts ==
  /\ Len(WipeOrder) \in Nat \ {0} /\ Len(WipeOrder) > 7
  /\ \A i \in 1..Len(WipeOrder) :
       /\ WipeOrder[i] \in Table \cup {"things_local_events"}
       /\ WipeOrder[i] = "chat_sessions" => i = 4
       /\ WipeOrder[i] = "things_change_log" => i = 7
  /\ \A t \in Wiped : \E i \in 1..Len(WipeOrder) : WipeOrder[i] = t
  /\ WipeOrder[3] = "chat_messages"
  /\ WipeOrder[6] = "things_content_snapshots"
<1>1. Len(WipeOrder) = 14
  BY DEF WipeOrder
<1>2. \A i \in 1..14 :
        /\ WipeOrder[i] \in Table \cup {"things_local_events"}
        /\ WipeOrder[i] = "chat_sessions" => i = 4
        /\ WipeOrder[i] = "things_change_log" => i = 7
  BY DEF WipeOrder, Table
<1>3. \A t \in Wiped : \E i \in 1..14 : WipeOrder[i] = t
  <2>1. Wiped = {WipeOrder[i] : i \in DOMAIN WipeOrder}
    BY DEF Wiped, ToSet
  <2>2. DOMAIN WipeOrder = 1..14
    BY DEF WipeOrder
  <2> QED
    BY <2>1, <2>2
<1>4. WipeOrder[3] = "chat_messages" /\ WipeOrder[6] = "things_content_snapshots"
  BY DEF WipeOrder
<1> QED
  BY <1>1, <1>2, <1>3, <1>4

Wipe == {"wipe", "wipe_and_notify"}

LEMMA WipingCalls ==
  ASSUME NEW op \in Wipe, NEW arg
  PROVE  LET p == Program(op, arg)
         IN  /\ Proper(p) /\ Len(p) >= Len(WipeOrder)
             /\ \A i \in 1..Len(WipeOrder) : p[i] = <<Sweep(WipeOrder[i])>>
             /\ \A i \in 1..Len(p) : i > Len(WipeOrder) => p[i] = <<Event("data_wiped")>>
<1> DEFINE n == Len(WipeOrder)
           f == [i \in 1..n |-> Sweep(WipeOrder[i])]
           w == [i \in 1..n |-> <<f[i]>>]
<1>1. WipeAllData = w
  BY WipeOrderFacts DEF WipeAllData, EachAlone
<1>2. n \in Nat \ {0} /\ \A i \in 1..n : f[i] \in Statement /\ Stores(f[i])
  BY WipeOrderFacts, StatementsTyped
<1> HIDE DEF n
<1>3. w \in [1..n -> Transaction]
  <2> HIDE DEF f
  <2>1. \A i \in 1..n : <<f[i]>> \in Transaction
    BY <1>2 DEF Transaction
  <2> QED
    BY <2>1
<1>4. \A i \in 1..n : w[i] = <<Sweep(WipeOrder[i])>>
  OBVIOUS
<1> HIDE DEF w, f
<1>5. Proper(w) /\ Len(w) = n
  BY <1>2, <1>3, SeriesAreProper
<1>6. CASE op = "wipe"
  <2>1. Program(op, arg) = w
    BY <1>1, <1>6 DEF Program
  <2>2. \A i \in 1..Len(w) : ~ (i > n)
    BY <1>2, <1>5
  <2> QED
    BY <2>1, <2>2, <1>2, <1>4, <1>5 DEF n
<1>7. CASE op = "wipe_and_notify"
  <2> DEFINE e == <<Event("data_wiped")>>
             p == w \o <<e>>
  <2>1. Program(op, arg) = p
    BY <1>1, <1>7 DEF Program, WipeAllDataAndNotify, Alone
  <2>2. e \in Transaction
    BY StatementsTyped DEF Transaction
  <2> HIDE DEF e
  <2>3. /\ p \in Seq(Transaction)
        /\ Len(p) = n + 1
        /\ \A i \in 1..n : p[i] = w[i]
        /\ p[n + 1] = e
    BY <1>2, <1>5, <2>2, OneMore DEF Proper
  <2> HIDE DEF p
  <2>4. Proper(p) /\ Len(p) >= n /\ \A i \in 1..Len(p) : i > n => p[i] = e
    BY <1>2, <2>3 DEF Proper
  <2> QED
    BY <2>1, <2>3, <2>4, <1>4 DEF e, n
<1> QED
  BY <1>6, <1>7 DEF Wipe

LEMMA Claiming ==
  ASSUME NEW u \in User
  PROVE  Ordinary(Program("claim", u)) /\ Len(Program("claim", u)) > 1
<1> DEFINE n == Len(ClaimOrder)
           f == [i \in 1..n |-> Take(ClaimOrder[i], u)]
           w == [i \in 1..n |-> <<f[i]>>]
<1>1. n \in Nat \ {0} /\ n > 1 /\ \A i \in 1..n : ClaimOrder[i] \in Table
  BY DEF ClaimOrder, Table
<1>2. Program("claim", u) = w
  BY <1>1 DEF Program, ClaimAnonymousData, EachAlone
<1>3. \A i \in 1..n : f[i] \in Statement /\ Stores(f[i]) /\ f[i].does = "take"
  BY <1>1, StatementsTyped
<1> HIDE DEF f, n
<1>4. w \in [1..n -> Transaction]
  <2>1. \A i \in 1..n : <<f[i]>> \in Transaction
    BY <1>3 DEF Transaction
  <2> QED
    BY <2>1
<1>5. \A i \in 1..n : \A j \in 1..Len(w[i]) : w[i][j].does = "take"
  BY <1>3
<1> HIDE DEF w
<1>6. Proper(w) /\ Len(w) = n
  BY <1>1, <1>4, SeriesAreProper
<1>7. KeepsSessions(w) /\ LogsFirst(w)
  BY <1>1, <1>5, <1>6 DEF KeepsSessions, LogsFirst
<1> QED
  BY <1>1, <1>2, <1>6, <1>7 DEF Ordinary

----------------------------------------------------------------------------
(* What is true of the rows in every state                                 *)

Takes(op, arg) ==
  \/ op \in Ops /\ arg \in Key
  \/ op = "claim" /\ arg \in User
  \/ op \in Wipe /\ arg = None

UnderWay(x) ==
  /\ Takes(x.op, x.arg)
  /\ x.by \in Owner
  /\ x.at \in 1..Len(Program(x.op, x.arg))

CallsTyped ==
  /\ call = [c \in Call |-> call[c]]
  /\ \A c \in Call : call[c] = Idle \/ UnderWay(call[c])
  /\ lonely \subseteq Call

RowsTyped ==
  /\ rows \in Rows
  /\ author \in [Table -> [Key -> Owner]]
  /\ spared \subseteq Table \X Key
  /\ strays \subseteq Key
  /\ signedIn \in Owner

\* Nobody is the author of a row that is not there.
NoRowNoAuthor == \A t \in Table, k \in Key : ~Has(t, k) => author[t][k] = None

\* What a wipe has swept is empty but for what was written while it ran.
SweptTablesSpared ==
  \A c \in Call :
    call[c].op \in Wipe =>
      \A i \in 1..Len(WipeOrder), k \in Key :
        i < call[c].at /\ WipeOrder[i] \in Table /\ Has(WipeOrder[i], k)
          => <<WipeOrder[i], k>> \in spared

\* Past the messages, a deletion or a wipe has left none but strays.
MessagesAreStrays ==
  \A c \in Call, k \in Key :
    /\ \/ call[c].op = "delete_session" /\ call[c].at > 2 /\ k = call[c].arg
       \/ call[c].op \in Wipe /\ call[c].at > 3
    /\ Has("chat_messages", k)
    => k \in strays

\* Nothing else runs beside a lonely call, and past the snapshots no single
\* transaction brings one back.
LonelyCallsAlone ==
  \A c \in lonely :
    /\ \A d \in Call \ {c} : ~Busy(d)
    /\ call[c].op \in Wipe /\ call[c].at > 6 =>
         \A k \in Key : ~Has("things_content_snapshots", k)

RowsInvariant ==
  /\ CallsTyped /\ RowsTyped
  /\ NoRowNoAuthor
  /\ SweptTablesSpared /\ OthersRowsAreGone
  /\ MessagesAreStrays /\ MessagesHaveSession
  /\ LonelyCallsAlone

\* All programs are made of well-formed transactions.
LEMMA TakenCalls ==
  ASSUME NEW op, NEW arg, Takes(op, arg)
  PROVE  LET p == Program(op, arg)
         IN  /\ Proper(p)
             /\ op # "delete_session" /\ op \notin Wipe => KeepsSessions(p)
             /\ LogsFirst(p)
             /\ op = "delete_session" => arg \in Key
<1>1. CASE op \in Ops /\ arg \in Key
  <2>1. op \in Operation /\ op \notin Wipe
    BY <1>1, OperationsAssumption DEF Operation, Wipe
  <2>2. CASE op # "delete_session"
    BY <1>1, <2>1, <2>2, CallsAreOrdinary DEF Ordinary
  <2>3. CASE op = "delete_session"
    BY <1>1, <2>3, DeletingSession DEF LogsFirst
  <2> QED
    BY <2>2, <2>3
<1>2. CASE op = "claim" /\ arg \in User
  BY <1>2, Claiming DEF Ordinary
<1>3. CASE op \in Wipe /\ arg = None
  <2>1. Proper(Program(op, arg)) /\ Len(Program(op, arg)) # 1
    BY <1>3, WipingCalls, WipeOrderFacts DEF Proper
  <2> QED
    BY <1>3, <2>1 DEF LogsFirst, Wipe
<1> QED
  BY <1>1, <1>2, <1>3 DEF Takes

Late(by) == Wiping \/ by # signedIn

\* A message is a stray when its session was not there or about to go.
Astray(k) ==
  \/ ~Has("chat_sessions", k) \/ Wiping
  \/ \E d \in Call : call[d].op = "delete_session"

\* The row keeps its author, or is the transaction's.
KeepsAuthor(t, k) == author'[t][k] = author[t][k]
GetsAuthor(t, k, by) == author'[t][k] = by \/ (Has(t, k) /\ KeepsAuthor(t, k))

\* What a committed transaction does to the rows and what is recorded of them.
LEMMA CommitData ==
  ASSUME RowsTyped,
         NEW c \in Call, NEW op, NEW arg, NEW by \in Owner, Takes(op, arg),
         NEW i \in 1..Len(Program(op, arg)),
         NEW tx, tx = Program(op, arg)[i],
         Commit(c, op, arg, by, i)
  PROVE  /\ tx \in Transaction
         /\ rows' \in Rows
         /\ author' \in [Table -> [Key -> Owner]]
         /\ spared' \subseteq Table \X Key
         /\ strays' \subseteq Key
         /\ \A t \in Table, k \in Key :
              ~Has(t, k)' => author'[t][k] = None
         /\ \A t \in Table, k \in Key :
              Has(t, k)' /\ ~Fresh(tx, t) => Has(t, k)
         /\ \A t \in Table, k \in Key :
              Has(t, k)' /\ ~Fresh(tx, t) => KeepsAuthor(t, k)
         /\ \A t \in Table, k \in Key :
              Has(t, k)' /\ Fresh(tx, t) => GetsAuthor(t, k, by)
         /\ \A t \in Table, k \in Key :
              Has(t, k)' /\ <<t, k>> \in spared => <<t, k>> \in spared'
         /\ \A t \in Table, k \in Key :
              Has(t, k)' /\ Fresh(tx, t) /\ Late(by) => <<t, k>> \in spared'
         /\ \A t \in Table, k \in Key :
              Has(t, k) /\ ~Has(t, k)' => Erases(tx, t, k)
         /\ \A k \in Key :
              Has("chat_messages", k)' /\ k \in strays => k \in strays'
         /\ \A k \in Key :
              Has("chat_messages", k)' /\ Fresh(tx, "chat_messages") /\ Astray(k) => k \in strays'
<1> DEFINE after == Present(rows')
           new == {<<s.table, k>> : s \in Inserts(tx), k \in Key} \cap after
<1>1. tx \in Transaction
  BY TakenCalls DEF Proper
<1>2. rows \in Rows /\ rows' = After(rows, tx)[Len(tx)]
  BY DEF RowsTyped, Commit
<1>3. Records(tx, by)
  BY DEF Commit
<1>31. author' = [t \in Table |-> [k \in Key |->
                    IF <<t, k>> \notin after THEN None
                    ELSE IF <<t, k>> \in new /\ (~Has(t, k) \/ by # None)
                    THEN by ELSE author[t][k]]]
  BY <1>3 DEF Records
<1>32. spared' = after \cap (spared \cup IF Late(by) THEN new ELSE {})
  BY <1>3 DEF Records, Late
<1>33. strays' = {k \in Key : <<"chat_messages", k>> \in after /\
          \/ k \in strays
          \/ <<"chat_messages", k>> \in new /\ Astray(k)}
  BY <1>3 DEF Records, Astray
<1>4. /\ rows' \in Rows
      /\ \A t \in Table, k \in Key :
           /\ ~Has(t, k) /\ Has(t, k)' => Fresh(tx, t)
           /\ Has(t, k) /\ ~Has(t, k)' =>
                Erases(tx, t, k)
  <2>1. /\ rows' \in Rows
        /\ \A t \in Table, k \in Key :
             rows[t][k] = Absent /\ rows'[t][k] # Absent =>
               Fresh(tx, t)
        /\ \A t \in Table, k \in Key :
             rows[t][k] # Absent /\ rows'[t][k] = Absent =>
               Erases(tx, t, k)
    BY <1>1, <1>2, EffectOfAll
  <2> QED
    BY <2>1 DEF Has
<1>5. \A t \in Table, k \in Key :
        /\ <<t, k>> \in after <=> Has(t, k)'
        /\ <<t, k>> \in new <=> Has(t, k)' /\ Fresh(tx, t)
  BY DEF Present, Has, Fresh
<1>6. after \subseteq Table \X Key /\ "chat_messages" \in Table
  BY DEF Present, Table
<1> HIDE DEF after, new
<1>7. \A t \in Table, k \in Key :
        author'[t][k] = IF ~Has(t, k)' THEN None
                        ELSE IF Fresh(tx, t) /\ (~Has(t, k) \/ by # None)
                        THEN by ELSE author[t][k]
  BY <1>31, <1>5
<1>8. author' \in [Table -> [Key -> Owner]]
  <2>1. \A t \in Table, k \in Key : author[t][k] \in Owner
    BY DEF RowsTyped
  <2>2. None \in Owner
    BY DEF Owner
  <2> QED
    BY <1>31, <2>1, <2>2
<1>9. ASSUME NEW t \in Table, NEW k \in Key, Has(t, k)'
      PROVE  <<t, k>> \in spared \/ (Late(by) /\ Fresh(tx, t)) => <<t, k>> \in spared'
  <2>1. <<t, k>> \in after
    BY <1>5, <1>9
  <2>2. CASE <<t, k>> \in spared
    BY <2>1, <2>2, <1>32
  <2>3. CASE Late(by) /\ Fresh(tx, t)
    <3>1. <<t, k>> \in new
      BY <1>5, <1>9, <2>3
    <3> QED
      BY <2>1, <2>3, <3>1, <1>32
  <2> QED
    BY <2>2, <2>3
<1>10. ASSUME NEW k \in Key, Has("chat_messages", k)'
       PROVE  k \in strays \/ (Fresh(tx, "chat_messages") /\ Astray(k)) => k \in strays'
  BY <1>33, <1>5, <1>6, <1>10
<1>11. spared' \subseteq Table \X Key /\ strays' \subseteq Key
  BY <1>32, <1>33, <1>6
<1>12. \A t \in Table, k \in Key :
         ~Has(t, k)' => author'[t][k] = None
  BY <1>7 DEF KeepsAuthor, GetsAuthor
<1>13. \A t \in Table, k \in Key :
         Has(t, k)' /\ ~Fresh(tx, t) => Has(t, k)
  BY <1>4
<1>14. \A t \in Table, k \in Key :
         Has(t, k)' /\ ~Fresh(tx, t) => KeepsAuthor(t, k)
  BY <1>4, <1>7 DEF KeepsAuthor, GetsAuthor
<1>15. \A t \in Table, k \in Key :
         Has(t, k)' /\ Fresh(tx, t) =>
           GetsAuthor(t, k, by)
  BY <1>7 DEF KeepsAuthor, GetsAuthor
<1>16. \A t \in Table, k \in Key :
         Has(t, k)' /\ <<t, k>> \in spared => <<t, k>> \in spared'
  BY <1>9
<1>17. \A t \in Table, k \in Key :
         Has(t, k)' /\ Fresh(tx, t) /\ Late(by) => <<t, k>> \in spared'
  BY <1>9
<1>18. \A t \in Table, k \in Key :
         Has(t, k) /\ ~Has(t, k)' => Erases(tx, t, k)
  BY <1>4
<1>19. \A k \in Key :
         Has("chat_messages", k)' /\ k \in strays => k \in strays'
  BY <1>10
<1>20. \A k \in Key :
         Has("chat_messages", k)' /\ Fresh(tx, "chat_messages") /\ Astray(k) => k \in strays'
  BY <1>10
<1> QED
  BY <1>1, <1>4, <1>8, <1>11,
     <1>12, <1>13, <1>14, <1>15, <1>16, <1>17, <1>18, <1>19, <1>20

\* A transaction of one delete leaves no row of its keys.
LEMMA DeleteAlone ==
  ASSUME RowsTyped,
         NEW c \in Call, NEW op, NEW arg, NEW by, NEW i,
         NEW s \in Statement, Program(op, arg)[i] = <<s>>,
         s.does = "del", s.table \in Table,
         Commit(c, op, arg, by, i)
  PROVE  \A k \in s.keys : ~Has(s.table, k)'
<1>1. rows \in Rows /\ rows' = After(rows, <<s>>)[1]
  BY DEF RowsTyped, Commit
<1>2. After(rows, <<s>>)[1] = Effect(rows, s)
  <2>1. Len(<<s>>) = 1 /\ <<s>>[1] = s
    OBVIOUS
  <2> DEFINE tx == <<s>>
  <2> HIDE DEF tx
  <2>2. After(rows, tx)[0] = rows /\ After(rows, tx)[1] = Effect(After(rows, tx)[0], tx[1])
    BY <2>1, AfterRuns DEF tx
  <2> QED
    BY <2>1, <2>2 DEF tx
<1>3. Stores(s) /\ s.keys \subseteq Key
  BY DEF Stores, Statement
<1>4. \A t \in Table, k \in Key :
        s.does = "del" /\ s.table = t /\ k \in s.keys => Effect(rows, s)[t][k] = Absent
  BY <1>1, <1>3, EffectOfOne
<1> QED
  BY <1>1, <1>2, <1>3, <1>4 DEF Has

\* Where a call is after a transaction, and who is alone.
LEMMA CommitCall ==
  ASSUME CallsTyped,
         NEW c \in Call, NEW op, NEW arg, NEW by \in Owner, Takes(op, arg),
         NEW i \in 1..Len(Program(op, arg)),
         Commit(c, op, arg, by, i)
  PROVE  LET n == Len(Program(op, arg))
         IN  /\ call' = [call EXCEPT ![c] =
                           IF i = n THEN Idle
                           ELSE [op |-> op, arg |-> arg, by |-> by, at |-> i + 1]]
             /\ lonely' = IF i = n THEN lonely \ {c}
                          ELSE IF i > 1 THEN lonely
                          ELSE IF \E d \in Call : Busy(d) THEN {} ELSE {c}
             /\ CallsTyped'
<1> DEFINE n == Len(Program(op, arg))
           x == [op |-> op, arg |-> arg, by |-> by, at |-> i + 1]
<1>1. n \in Nat \ {0}
  BY TakenCalls DEF Proper
<1>2. i # n => UnderWay(x)
  BY <1>1 DEF UnderWay
<1>3. /\ call' = [call EXCEPT ![c] = IF i = n THEN Idle ELSE x]
      /\ lonely' = IF i = n THEN lonely \ {c}
                   ELSE IF i > 1 THEN lonely
                   ELSE IF \E d \in Call : Busy(d) THEN {} ELSE {c}
  BY DEF Commit
<1> HIDE DEF x, n
<1>4. /\ \A d \in Call : call'[d] = IF d = c THEN (IF i = n THEN Idle ELSE x) ELSE call[d]
      /\ call' = [d \in Call |-> call'[d]]
  BY <1>3 DEF CallsTyped
<1>5. \A d \in Call : call'[d] = Idle \/ UnderWay(call'[d])
  BY <1>2, <1>4 DEF CallsTyped
<1>6. \A d \in Call : UnderWay(call'[d]) => UnderWay(call[d])'
  BY DEF UnderWay, Takes
<1>7. CallsTyped'
  BY <1>3, <1>4, <1>5, <1>6 DEF CallsTyped
<1> QED
  BY <1>3, <1>7 DEF n, x

----------------------------------------------------------------------------
(* A committed transaction keeps the invariant of the rows                 *)

\* The call is idle and starts, or goes on from where it is.
StartsOrGoesOn(c, op, arg, i) ==
  \/ call[c] = Idle /\ i = 1
  \/ call[c].op = op /\ call[c].arg = arg /\ call[c].at = i

LEMMA IdleTakesNothing ==
  ASSUME NEW arg
  PROVE  ~Takes("idle", arg)
BY OperationsAssumption DEF Takes, Operation, Wipe

LEMMA GoesOn ==
  ASSUME NEW c \in Call, NEW op, NEW arg, NEW i, StartsOrGoesOn(c, op, arg, i), i # 1
  PROVE  call[c].op = op /\ call[c].arg = arg /\ call[c].at = i
BY DEF StartsOrGoesOn

\* A wipe inserts nothing.
LEMMA WipeBringsNothing ==
  ASSUME NEW op \in Wipe, NEW arg, NEW i \in 1..Len(Program(op, arg)), NEW t
  PROVE  ~Fresh(Program(op, arg)[i], t)
<1>1. \E s : Program(op, arg)[i] = <<s>> /\ s.does # "put"
  <2>1. CASE i <= Len(WipeOrder)
    <3>1. i \in 1..Len(WipeOrder)
      BY <2>1, WipingCalls, WipeOrderFacts DEF Proper
    <3>2. Program(op, arg)[i] = <<Sweep(WipeOrder[i])>>
      BY <3>1, WipingCalls
    <3>3. Sweep(WipeOrder[i]).does = "del"
      BY DEF Sweep
    <3> QED
      BY <3>2, <3>3
  <2>2. CASE ~(i <= Len(WipeOrder))
    <3>1. i > Len(WipeOrder)
      BY <2>2, WipingCalls, WipeOrderFacts DEF Proper
    <3>2. Program(op, arg)[i] = <<Event("data_wiped")>>
      BY <3>1, WipingCalls
    <3>3. Event("data_wiped").does = "event"
      BY DEF Event
    <3> QED
      BY <3>2, <3>3
  <2> QED
    BY <2>1, <2>2
<1>2. PICK s : Program(op, arg)[i] = <<s>> /\ s.does # "put"
  BY <1>1
<1>3. ToSet(<<s>>) = {s}
  BY DEF ToSet
<1> QED
  BY <1>2, <1>3 DEF Fresh, Inserts

\* What a wipe sweeps is gone.
LEMMA Sweeping ==
  ASSUME RowsTyped,
         NEW c \in Call, NEW op \in Wipe, NEW arg, NEW by,
         NEW i \in 1..Len(WipeOrder), WipeOrder[i] \in Table,
         Commit(c, op, arg, by, i)
  PROVE  \A k \in Key : ~Has(WipeOrder[i], k)'
<1> DEFINE s == Sweep(WipeOrder[i])
<1>1. Program(op, arg)[i] = <<s>>
  BY WipingCalls
<1>2. s \in Statement /\ s.does = "del" /\ s.table = WipeOrder[i] /\ s.keys = Key
  BY StatementsTyped
<1> HIDE DEF s
<1> QED
  BY <1>1, <1>2, DeleteAlone

LEMMA CommitSweeps ==
  ASSUME RowsInvariant,
         NEW c \in Call, NEW op, NEW arg, NEW by \in Owner, Takes(op, arg),
         NEW i \in 1..Len(Program(op, arg)),
         StartsOrGoesOn(c, op, arg, i),
         Commit(c, op, arg, by, i)
  PROVE  /\ SweptTablesSpared'
         /\ op \in Wipe =>
              \A j \in 1..Len(WipeOrder), k \in Key :
                j <= i /\ WipeOrder[j] \in Table /\ Has(WipeOrder[j], k)'
                  => <<WipeOrder[j], k>> \in spared'
<1> DEFINE tx == Program(op, arg)[i]
<1>1. RowsTyped /\ CallsTyped /\ SweptTablesSpared
  BY DEF RowsInvariant
<1>2. \A t \in Table, k \in Key :
        Has(t, k)' /\ ~Fresh(tx, t) => Has(t, k)
  BY <1>1, CommitData
<1>21. \A t \in Table, k \in Key :
        Has(t, k)' /\ <<t, k>> \in spared => <<t, k>> \in spared'
  BY <1>1, CommitData
<1>3. \A t \in Table, k \in Key :
        Has(t, k)' /\ Fresh(tx, t) /\ Wiping => <<t, k>> \in spared'
  BY <1>1, CommitData DEF Late
<1> HIDE DEF tx
<1>4. ASSUME NEW d \in Call, call[d].op \in Wipe,
             NEW j \in 1..Len(WipeOrder), NEW k \in Key, j < call[d].at,
             WipeOrder[j] \in Table, Has(WipeOrder[j], k)'
      PROVE  <<WipeOrder[j], k>> \in spared'
  <2>1. CASE Fresh(tx, WipeOrder[j])
    <3>1. Wiping
      BY <1>4 DEF Wiping, Wipe
    <3> QED
      BY <1>3, <1>4, <2>1, <3>1
  <2>2. CASE ~Fresh(tx, WipeOrder[j])
    <3>1. Has(WipeOrder[j], k)
      BY <1>2, <1>4, <2>2
    <3>2. <<WipeOrder[j], k>> \in spared
      BY <1>1, <1>4, <3>1 DEF SweptTablesSpared
    <3> QED
      BY <1>21, <1>4, <3>2
  <2> QED
    BY <2>1, <2>2
<1>5. ASSUME op \in Wipe,
             NEW j \in 1..Len(WipeOrder), NEW k \in Key, j <= i,
             WipeOrder[j] \in Table, Has(WipeOrder[j], k)'
      PROVE  <<WipeOrder[j], k>> \in spared'
  <2>1. CASE j = i
    BY <1>1, <1>5, <2>1, Sweeping
  <2>2. CASE j # i
    <3>1. j < i /\ i # 1
      BY <1>5, <2>2, WipeOrderFacts, WipingCalls DEF Proper
    <3>2. call[c].op = op /\ call[c].at = i
      BY <3>1, GoesOn
    <3> QED
      BY <1>4, <1>5, <3>1, <3>2
  <2> QED
    BY <2>1, <2>2
<1>6. call' = [call EXCEPT ![c] =
                 IF i = Len(Program(op, arg)) THEN Idle
                 ELSE [op |-> op, arg |-> arg, by |-> by, at |-> i + 1]]
  BY <1>1, CommitCall
<1>7. ASSUME NEW d \in Call, call'[d].op \in Wipe,
             NEW j \in 1..Len(WipeOrder), NEW k \in Key, j < call'[d].at,
             WipeOrder[j] \in Table, Has(WipeOrder[j], k)'
      PROVE  <<WipeOrder[j], k>> \in spared'
  <2>1. CASE d # c
    <3>1. call'[d] = call[d]
      BY <1>1, <1>6, <2>1 DEF CallsTyped
    <3> QED
      BY <1>4, <1>7, <3>1
  <2>2. CASE d = c
    <3>1. call'[c].op = op /\ call'[c].at = i + 1
      BY <1>1, <1>6, <1>7, <2>2 DEF CallsTyped, Idle, Wipe
    <3>2. op \in Wipe /\ j <= i
      BY <1>7, <2>2, <3>1, WipeOrderFacts, TakenCalls DEF Proper
    <3> QED
      BY <1>5, <1>7, <3>2
  <2> QED
    BY <2>1, <2>2
<1>8. SweptTablesSpared'
  BY <1>7 DEF SweptTablesSpared
<1> QED
  BY <1>5, <1>8

LEMMA CommitOthers ==
  ASSUME RowsInvariant,
         NEW c \in Call, NEW op, NEW arg, NEW by \in Owner, Takes(op, arg),
         NEW i \in 1..Len(Program(op, arg)),
         StartsOrGoesOn(c, op, arg, i),
         Commit(c, op, arg, by, i),
         signedIn' = signedIn \/ signedIn = None \/ Wiping'
  PROVE  OthersRowsAreGone'
<1> DEFINE tx == Program(op, arg)[i]
<1> SUFFICES ASSUME ~Wiping', NEW t \in Wiped \ {"things_local_events"},
                    NEW k \in Key, Has(t, k)', <<t, k>> \notin spared'
             PROVE  author'[t][k] \in {None, signedIn'}
  BY DEF OthersRowsAreGone
<1>1. RowsTyped /\ CallsTyped /\ OthersRowsAreGone
  BY DEF RowsInvariant
<1>2. PICK j \in 1..Len(WipeOrder) : WipeOrder[j] = t
  BY WipeOrderFacts
<1>3. t \in Table
  BY <1>2, WipeOrderFacts
<1>6. \A r \in Table, q \in Key : Has(r, q)' /\ ~Fresh(tx, r) => Has(r, q)
  BY <1>1, CommitData
<1>61. \A r \in Table, q \in Key :
        Has(r, q)' /\ ~Fresh(tx, r) => KeepsAuthor(r, q)
  BY <1>1, CommitData
<1>7. \A r \in Table, q \in Key :
        Has(r, q)' /\ <<r, q>> \in spared => <<r, q>> \in spared'
  BY <1>1, CommitData
<1>8. \A r \in Table, q \in Key :
        Has(r, q)' /\ Fresh(tx, r) =>
          GetsAuthor(r, q, by)
  BY <1>1, CommitData
<1>9. \A r \in Table, q \in Key :
        Has(r, q)' /\ Fresh(tx, r) /\ Late(by) => <<r, q>> \in spared'
  BY <1>1, CommitData
<1> HIDE DEF tx
<1>4. CASE Wiping
  <2>1. PICK d \in Call : call[d].op \in Wipe
    BY <1>4 DEF Wiping, Wipe
  <2>2. call' = [call EXCEPT ![c] =
                   IF i = Len(Program(op, arg)) THEN Idle
                   ELSE [op |-> op, arg |-> arg, by |-> by, at |-> i + 1]]
    BY <1>1, CommitCall
  <2>3. d = c
    <3>1. d # c => call'[d] = call[d]
      BY <1>1, <2>2 DEF CallsTyped
    <3> QED
      BY <2>1, <3>1 DEF Wiping, Wipe
  <2>4. call[c] # Idle
    BY <2>1, <2>3 DEF Idle, Wipe
  <2>5. op \in Wipe
    BY <2>1, <2>3, <2>4 DEF StartsOrGoesOn
  <2>6. i = Len(Program(op, arg))
    <3>1. i # Len(Program(op, arg)) => call'[c].op = op
      BY <1>1, <2>2 DEF CallsTyped
    <3> QED
      BY <2>5, <3>1 DEF Wiping, Wipe
  <2>7. j <= i
    BY <2>5, <2>6, WipingCalls, WipeOrderFacts DEF Proper
  <2>8. WipeOrder[j] \in Table /\ Has(WipeOrder[j], k)'
    BY <1>2, <1>3
  <2>9. <<WipeOrder[j], k>> \in spared'
    BY <2>5, <2>7, <2>8, CommitSweeps
  <2> QED
    BY <1>2, <2>9
<1>5. CASE ~Wiping
  <2>1. signedIn' = signedIn \/ signedIn = None
    OBVIOUS
  <2>2. /\ ~Fresh(tx, t) => Has(t, k) /\ KeepsAuthor(t, k)
        /\ Fresh(tx, t) => GetsAuthor(t, k, by)
        /\ Fresh(tx, t) => ~Late(by)
        /\ <<t, k>> \notin spared
    BY <1>3, <1>6, <1>61, <1>7, <1>8, <1>9
  <2>3. Has(t, k) /\ <<t, k>> \notin spared => author[t][k] \in {None, signedIn}
    BY <1>1, <1>5 DEF OthersRowsAreGone
  <2>4. author'[t][k] \in {None, signedIn}
    BY <2>2, <2>3 DEF Late, KeepsAuthor, GetsAuthor
  <2> QED
    BY <2>1, <2>4
<1> QED
  BY <1>4, <1>5

LEMMA CommitMessages ==
  ASSUME RowsInvariant,
         NEW c \in Call, NEW op, NEW arg, NEW by \in Owner, Takes(op, arg),
         NEW i \in 1..Len(Program(op, arg)),
         StartsOrGoesOn(c, op, arg, i),
         Commit(c, op, arg, by, i)
  PROVE  MessagesAreStrays' /\ MessagesHaveSession'
<1> DEFINE tx == Program(op, arg)[i]
           msgs == "chat_messages"
<1>1. RowsTyped /\ CallsTyped /\ MessagesAreStrays /\ MessagesHaveSession
  BY DEF RowsInvariant
<1>2. msgs \in Table /\ "chat_sessions" \in Table
  BY DEF Table
<1>3. \A k \in Key : Has(msgs, k)' => (k \in strays => k \in strays')
  BY <1>1, CommitData
<1>4. \A k \in Key : Has(msgs, k)' /\ Fresh(tx, msgs) /\ Astray(k) => k \in strays'
  BY <1>1, CommitData
<1>5. \A k \in Key : Has(msgs, k)' /\ ~Fresh(tx, msgs) => Has(msgs, k)
  BY <1>1, <1>2, CommitData
<1> HIDE DEF tx, msgs
<1>6. ASSUME NEW d \in Call, NEW k \in Key, Has(msgs, k)',
             \/ call[d].op = "delete_session" /\ call[d].at > 2 /\ k = call[d].arg
             \/ call[d].op \in Wipe /\ call[d].at > 3
      PROVE  k \in strays'
  <2>1. Astray(k)
    BY <1>6 DEF Astray, Wiping, Wipe
  <2>2. CASE Fresh(tx, msgs)
    BY <1>4, <1>6, <2>1, <2>2
  <2>3. CASE ~Fresh(tx, msgs)
    <3>1. Has(msgs, k)
      BY <1>5, <1>6, <2>3
    <3>2. k \in strays
      BY <1>1, <1>6, <3>1 DEF MessagesAreStrays, msgs
    <3> QED
      BY <1>3, <1>6, <3>2
  <2> QED
    BY <2>2, <2>3
<1>7. ASSUME op = "delete_session", i > 2, Has(msgs, arg)'
      PROVE  arg \in strays'
  <2>1. call[c].op = op /\ call[c].arg = arg /\ call[c].at = i /\ arg \in Key
    BY <1>7, GoesOn, TakenCalls
  <2> QED
    BY <1>6, <1>7, <2>1
<1>8. ASSUME op \in Wipe, i > 3, NEW k \in Key, Has(msgs, k)'
      PROVE  k \in strays'
  <2>1. call[c].op = op /\ call[c].at = i
    BY <1>8, GoesOn
  <2> QED
    BY <1>6, <1>8, <2>1
<1>9. MessagesAreStrays'
  <2> SUFFICES ASSUME NEW d \in Call, NEW k \in Key, Has(msgs, k)',
                      \/ call'[d].op = "delete_session" /\ call'[d].at > 2 /\ k = call'[d].arg
                      \/ call'[d].op \in Wipe /\ call'[d].at > 3
               PROVE  k \in strays'
    BY DEF MessagesAreStrays, msgs
  <2>1. call' = [call EXCEPT ![c] =
                   IF i = Len(Program(op, arg)) THEN Idle
                   ELSE [op |-> op, arg |-> arg, by |-> by, at |-> i + 1]]
    BY <1>1, CommitCall
  <2>2. CASE d # c
    <3>1. call'[d] = call[d]
      BY <1>1, <2>1, <2>2 DEF CallsTyped
    <3> QED
      BY <1>6, <3>1
  <2>3. CASE d = c
    <3>1. call'[c].op = op /\ call'[c].at = i + 1 /\ call'[c].arg = arg
      BY <1>1, <2>1, <2>3 DEF CallsTyped, Idle, Wipe
    <3>2. i \in Nat
      BY TakenCalls DEF Proper
    <3>3. CASE op = "delete_session" /\ k = arg /\ i >= 2
      <4>1. CASE i = 2
        <5>1. tx = <<Del(msgs, arg)>> /\ arg \in Key
          BY <3>3, <4>1, DeletingSession, TakenCalls DEF tx, msgs
        <5>2. /\ Del(msgs, arg) \in Statement /\ Del(msgs, arg).does = "del"
              /\ Del(msgs, arg).table = msgs /\ Del(msgs, arg).keys = {arg}
          BY <1>2, <5>1, StatementsTyped
        <5>3. ~Has(msgs, arg)'
          BY <1>1, <1>2, <5>1, <5>2, DeleteAlone DEF tx
        <5> QED
          BY <3>3, <5>3
      <4>2. CASE i > 2
        BY <1>7, <3>3, <4>2
      <4> QED
        BY <3>2, <3>3, <4>1, <4>2
    <3>4. CASE op \in Wipe /\ i >= 3
      <4>1. CASE i = 3
        <5>1. 3 \in 1..Len(WipeOrder) /\ WipeOrder[3] = msgs
          BY WipeOrderFacts DEF msgs
        <5>2. ~Has(msgs, k)'
          BY <1>1, <1>2, <3>4, <4>1, <5>1, Sweeping
        <5> QED
          BY <5>2
      <4>2. CASE i > 3
        BY <1>8, <3>4, <4>2
      <4> QED
        BY <3>2, <3>4, <4>1, <4>2
    <3> QED
      BY <2>3, <3>1, <3>2, <3>3, <3>4
  <2> QED
    BY <2>2, <2>3
<1>10. ASSUME NEW k \in Key, k \notin strays', Has(msgs, k)', ~Has("chat_sessions", k)'
       PROVE  FALSE
  <2>1. Has("chat_sessions", k)
    <3>1. CASE Fresh(tx, msgs)
      BY <1>4, <1>10, <3>1 DEF Astray
    <3>2. CASE ~Fresh(tx, msgs)
      BY <1>1, <1>3, <1>5, <1>10, <3>2 DEF MessagesHaveSession, msgs
    <3> QED
      BY <3>1, <3>2
  <2>2. Erases(tx, "chat_sessions", k)
    BY <1>1, <1>2, <1>10, <2>1, CommitData DEF tx
  <2>3. PICK j \in 1..Len(tx) : /\ tx[j].does = "del" /\ k \in tx[j].keys
                                /\ tx[j].table = "chat_sessions"
    BY <2>2 DEF Erases, Cascading
  <2>4. op = "delete_session" \/ op \in Wipe
    BY <2>3, TakenCalls DEF KeepsSessions, tx
  <2>5. CASE op = "delete_session"
    <3>1. arg \in Key
      BY <2>5, TakenCalls
    <3>2. i = 4
      <4>1. i \in 1..4
        BY <2>5, <3>1, DeletingSession
      <4>2. i \notin 1..3
        BY <2>3, <2>5, <3>1, DeletingSession DEF tx
      <4> QED
        BY <4>1, <4>2
    <3>3. tx = <<Del("chat_sessions", arg)>>
      BY <2>5, <3>1, <3>2, DeletingSession DEF tx
    <3>4. k = arg
      BY <1>2, <2>3, <3>1, <3>3, StatementsTyped
    <3> QED
      BY <1>7, <1>10, <2>5, <3>2, <3>4
  <2>6. CASE op \in Wipe
    <3>1. i = 4
      <4>1. CASE i <= Len(WipeOrder)
        <5>1. i \in 1..Len(WipeOrder)
          BY <4>1, WipeOrderFacts
        <5>2. tx = <<Sweep(WipeOrder[i])>>
          BY <2>6, <5>1, WipingCalls DEF tx
        <5>3. WipeOrder[i] = "chat_sessions"
          BY <2>3, <5>2 DEF Sweep
        <5> QED
          BY <5>1, <5>3, WipeOrderFacts
      <4>2. CASE ~(i <= Len(WipeOrder))
        <5>1. i > Len(WipeOrder)
          BY <4>2, WipeOrderFacts
        <5>2. tx = <<Event("data_wiped")>>
          BY <2>6, <5>1, WipingCalls DEF tx
        <5> QED
          BY <2>3, <5>2 DEF Event
      <4> QED
        BY <4>1, <4>2
    <3> QED
      BY <1>8, <1>10, <2>6, <3>1
  <2> QED
    BY <2>4, <2>5, <2>6
<1>11. MessagesHaveSession'
  BY <1>10 DEF MessagesHaveSession, msgs
<1> QED
  BY <1>9, <1>11

LEMMA CommitLonely ==
  ASSUME RowsInvariant,
         NEW c \in Call, NEW op, NEW arg, NEW by \in Owner, Takes(op, arg),
         NEW i \in 1..Len(Program(op, arg)),
         StartsOrGoesOn(c, op, arg, i),
         Commit(c, op, arg, by, i)
  PROVE  LonelyCallsAlone'
<1> DEFINE tx == Program(op, arg)[i]
           n == Len(Program(op, arg))
           snaps == "things_content_snapshots"
<1>1. RowsTyped /\ CallsTyped /\ LonelyCallsAlone
  BY DEF RowsInvariant
<1>2. /\ call' = [call EXCEPT ![c] =
                    IF i = n THEN Idle
                    ELSE [op |-> op, arg |-> arg, by |-> by, at |-> i + 1]]
      /\ lonely' = IF i = n THEN lonely \ {c}
                   ELSE IF i > 1 THEN lonely
                   ELSE IF \E d \in Call : Busy(d) THEN {} ELSE {c}
  BY <1>1, CommitCall
<1>3. \A d \in Call : d # c => call'[d] = call[d]
  BY <1>1, <1>2 DEF CallsTyped
<1>4. \A d \in Call : d # c => (Busy(d)' <=> Busy(d))
  BY <1>3 DEF Busy, Idle
<1>5. \A k \in Key : Has(snaps, k)' /\ ~Fresh(tx, snaps) => Has(snaps, k)
  <2>1. snaps \in Table
    BY DEF Table
  <2> QED
    BY <1>1, <2>1, CommitData
<1>6. i \in Nat /\ n \in Nat \ {0}
  BY TakenCalls DEF Proper
<1>7. i # 1 => Busy(c) /\ call[c].op = op /\ call[c].at = i
  <2>1. i # 1 => call[c].op = op /\ call[c].at = i
    BY GoesOn
  <2> QED
    BY <2>1, IdleTakesNothing DEF Busy, Idle
<1>8. n = 1 => ~Fresh(tx, snaps)
  <2>1. SUFFICES ASSUME n = 1, NEW s \in Inserts(tx), s.table = snaps
                 PROVE  FALSE
    BY DEF Fresh
  <2>2. i = 1
    BY <2>1, <1>6
  <2>3. PICK j \in 1..Len(tx) : s = tx[j]
    <3>1. Proper(Program(op, arg))
      BY TakenCalls
    <3>2. tx \in Seq(Statement)
      BY <3>1 DEF Proper, Transaction
    <3> HIDE DEF tx
    <3>3. s \in {tx[j] : j \in DOMAIN tx}
      BY <2>1 DEF Inserts, ToSet
    <3> QED
      BY <3>2, <3>3
  <2>4. s.does = "put"
    BY <2>1 DEF Inserts
  <2> QED
    BY <2>1, <2>2, <2>3, <2>4, TakenCalls DEF LogsFirst
<1>9. \A t : op \in Wipe => ~Fresh(tx, t)
  BY WipeBringsNothing
<1>10. op \in Wipe /\ i = 6 => \A k \in Key : ~Has(snaps, k)'
  <2>1. 6 \in 1..Len(WipeOrder) /\ WipeOrder[6] = snaps /\ snaps \in Table
    BY WipeOrderFacts DEF Table
  <2> QED
    BY <1>1, <2>1, Sweeping
<1> HIDE DEF tx, n, snaps
<1>11. ASSUME NEW d \in lonely'
       PROVE  /\ \A e \in Call \ {d} : ~Busy(e)'
              /\ call'[d].op \in Wipe /\ call'[d].at > 6 =>
                   \A k \in Key : ~Has(snaps, k)'
  <2>1. CASE i = n
    <3>1. d \in lonely /\ d # c
      BY <1>2, <1>11, <2>1
    <3>2. ~Busy(c)
      BY <1>1, <3>1 DEF LonelyCallsAlone
    <3>3. n = 1
      BY <1>7, <2>1, <3>2
    <3>4. call'[c] = Idle
      BY <1>1, <1>2, <2>1 DEF CallsTyped
    <3>5. \A e \in Call \ {d} : ~Busy(e)'
      BY <1>1, <1>4, <3>1, <3>4 DEF LonelyCallsAlone, Busy, Idle
    <3>6. d \in Call /\ call'[d] = call[d]
      BY <1>1, <1>3, <3>1 DEF CallsTyped
    <3>7. call[d].op \in Wipe /\ call[d].at > 6 => \A k \in Key : ~Has(snaps, k)
      BY <1>1, <3>1 DEF LonelyCallsAlone, snaps
    <3> QED
      BY <1>5, <1>8, <3>3, <3>5, <3>6, <3>7
  <2>2. CASE i # n /\ i > 1
    <3>1. d \in lonely /\ Busy(c)
      BY <1>2, <1>6, <1>7, <1>11, <2>2
    <3>2. d = c
      BY <1>1, <3>1 DEF LonelyCallsAlone, CallsTyped
    <3>3. \A e \in Call \ {c} : ~Busy(e)'
      BY <1>1, <1>4, <3>1, <3>2 DEF LonelyCallsAlone
    <3>4. call'[c].op = op /\ call'[c].at = i + 1 /\ call[c].op = op /\ call[c].at = i
      BY <1>1, <1>2, <1>7, <2>2 DEF CallsTyped
    <3>5. op \in Wipe /\ i > 6 => \A k \in Key : ~Has(snaps, k)
      BY <1>1, <3>1, <3>2, <3>4 DEF LonelyCallsAlone, snaps
    <3>6. op \in Wipe /\ i + 1 > 6 => \A k \in Key : ~Has(snaps, k)'
      BY <1>5, <1>6, <1>9, <1>10, <3>5
    <3> QED
      BY <3>2, <3>3, <3>4, <3>6
  <2>3. CASE i # n /\ ~(i > 1)
    <3>1. d = c /\ \A e \in Call : ~Busy(e)
      BY <1>2, <1>11, <2>3
    <3>2. i = 1
      BY <1>6, <2>3
    <3>3. call'[c].at = 2
      BY <1>1, <1>2, <2>3, <3>2 DEF CallsTyped
    <3> QED
      BY <1>4, <3>1, <3>3
  <2> QED
    BY <2>1, <2>2, <2>3
<1> QED
  BY <1>11 DEF LonelyCallsAlone, snaps

LEMMA CommitKeepsRows ==
  ASSUME RowsInvariant,
         NEW c \in Call, NEW op, NEW arg, NEW by \in Owner, Takes(op, arg),
         NEW i \in 1..Len(Program(op, arg)),
         StartsOrGoesOn(c, op, arg, i),
         Commit(c, op, arg, by, i),
         signedIn' \in Owner,
         signedIn' = signedIn \/ signedIn = None \/ Wiping'
  PROVE  RowsInvariant'
<1>1. RowsTyped /\ CallsTyped
  BY DEF RowsInvariant
<1>2. CallsTyped'
  BY <1>1, CommitCall
<1>3. /\ rows' \in Rows
      /\ author' \in [Table -> [Key -> Owner]]
      /\ spared' \subseteq Table \X Key
      /\ strays' \subseteq Key
  BY <1>1, CommitData
<1>4. RowsTyped'
  BY <1>3 DEF RowsTyped, Rows, Owner
<1>5. NoRowNoAuthor'
  <2>1. \A t \in Table, k \in Key : ~Has(t, k)' => author'[t][k] = None
    BY <1>1, CommitData
  <2> QED
    BY <2>1 DEF NoRowNoAuthor
<1>6. SweptTablesSpared'
  BY CommitSweeps
<1>7. OthersRowsAreGone'
  BY CommitOthers
<1>8. MessagesAreStrays' /\ MessagesHaveSession'
  BY CommitMessages
<1>9. LonelyCallsAlone'
  BY CommitLonely
<1> QED
  BY <1>2, <1>4, <1>5, <1>6, <1>7, <1>8, <1>9 DEF RowsInvariant

----------------------------------------------------------------------------
(* Calls that stop half way keep it too                                    *)

LEMMA StoppingKeepsRows ==
  ASSUME RowsInvariant,
         NEW cs \in SUBSET Call, Spares(cs),
         call' = [d \in Call |-> IF d \in cs THEN Idle ELSE call[d]],
         lonely' \subseteq lonely \ cs,
         UNCHANGED <<author, strays, signedIn>>,
         rows' \in Rows,
         \A t \in Table, k \in Key : Has(t, k) => Has(t, k)',
         \A t \in Table, k \in Key : Has(t, k)' => Has(t, k) \/ (t = "actions" /\ cs = Call)
  PROVE  RowsInvariant'
<1>1. /\ CallsTyped /\ RowsTyped /\ NoRowNoAuthor /\ SweptTablesSpared /\ OthersRowsAreGone
      /\ MessagesAreStrays /\ MessagesHaveSession /\ LonelyCallsAlone
  BY DEF RowsInvariant
<1>2. \A d \in Call : call'[d] = Idle \/ (d \notin cs /\ call'[d] = call[d])
  OBVIOUS
<1>3. Idle.op \notin Wipe /\ Idle.op # "delete_session"
  BY DEF Idle, Wipe
<1>4. "chat_messages" \in Table /\ "chat_sessions" \in Table /\ "things_content_snapshots" \in Table
  BY DEF Table
<1>5. \A t \in Table, k \in Key : <<t, k>> \in Present(rows) <=> Has(t, k)
  BY DEF Present, Has
<1>6. Present(rows) \subseteq Table \X Key
  BY DEF Present
<1>7. (\E d \in cs : call[d].op \in Wipe) => spared' = Present(rows)
  BY DEF Spares, Wipe
<1>8. (~\E d \in cs : call[d].op \in Wipe) => spared' = spared
  BY DEF Spares, Wipe
<1>9. CallsTyped'
  <2>1. call' = [d \in Call |-> call'[d]]
    OBVIOUS
  <2>2. \A d \in Call : call'[d] = Idle \/ UnderWay(call'[d])
    BY <1>1, <1>2 DEF CallsTyped
  <2>3. \A d \in Call : UnderWay(call'[d]) => UnderWay(call[d])'
    BY DEF UnderWay, Takes
  <2> QED
    BY <1>1, <2>1, <2>2, <2>3 DEF CallsTyped
<1>10. RowsTyped'
  <2>1. spared' \subseteq Table \X Key
    BY <1>1, <1>6, <1>7, <1>8 DEF RowsTyped
  <2> QED
    BY <1>1, <2>1 DEF RowsTyped, Rows, Owner
<1>11. NoRowNoAuthor'
  BY <1>1 DEF NoRowNoAuthor
<1>12. SweptTablesSpared'
  <2> SUFFICES ASSUME NEW d \in Call, call'[d].op \in Wipe,
                      NEW i \in 1..Len(WipeOrder), NEW k \in Key, i < call'[d].at,
                      WipeOrder[i] \in Table, Has(WipeOrder[i], k)'
               PROVE  <<WipeOrder[i], k>> \in spared'
    BY DEF SweptTablesSpared
  <2>1. d \notin cs /\ call'[d] = call[d]
    BY <1>2, <1>3
  <2>2. Has(WipeOrder[i], k)
    BY <2>1
  <2>3. <<WipeOrder[i], k>> \in spared
    BY <1>1, <2>1, <2>2 DEF SweptTablesSpared
  <2>4. <<WipeOrder[i], k>> \in Present(rows)
    BY <1>5, <2>2
  <2> QED
    BY <1>7, <1>8, <2>3, <2>4
<1>13. OthersRowsAreGone'
  <2> SUFFICES ASSUME ~Wiping', NEW t \in Wiped \ {"things_local_events"}, NEW k \in Key,
                      Has(t, k)', <<t, k>> \notin spared'
               PROVE  author[t][k] \in {None, signedIn}
    BY DEF OthersRowsAreGone
  <2>1. t \in Table
    BY WipeOrderFacts
  <2>2. CASE ~Has(t, k)
    BY <1>1, <2>1, <2>2 DEF NoRowNoAuthor
  <2>3. CASE Has(t, k) /\ \E d \in cs : call[d].op \in Wipe
    BY <1>5, <1>7, <2>1, <2>3
  <2>4. CASE Has(t, k) /\ ~\E d \in cs : call[d].op \in Wipe
    <3>1. <<t, k>> \notin spared
      BY <1>8, <2>4
    <3>2. ~Wiping
      BY <2>4 DEF Wiping, Wipe
    <3> QED
      BY <1>1, <2>4, <3>1, <3>2 DEF OthersRowsAreGone
  <2> QED
    BY <2>2, <2>3, <2>4
<1>14. MessagesAreStrays'
  <2> SUFFICES ASSUME NEW d \in Call, NEW k \in Key, Has("chat_messages", k)',
                      \/ call'[d].op = "delete_session" /\ call'[d].at > 2 /\ k = call'[d].arg
                      \/ call'[d].op \in Wipe /\ call'[d].at > 3
               PROVE  k \in strays
    BY DEF MessagesAreStrays
  <2>1. call'[d] = call[d]
    BY <1>2, <1>3
  <2>2. Has("chat_messages", k)
    BY <1>4
  <2> QED
    BY <1>1, <2>1, <2>2 DEF MessagesAreStrays
<1>15. MessagesHaveSession'
  BY <1>1, <1>4 DEF MessagesHaveSession
<1>16. LonelyCallsAlone'
  <2> SUFFICES ASSUME NEW d \in lonely'
               PROVE  /\ \A e \in Call \ {d} : ~Busy(e)'
                      /\ call'[d].op \in Wipe /\ call'[d].at > 6 =>
                           \A k \in Key : ~Has("things_content_snapshots", k)'
    BY DEF LonelyCallsAlone
  <2>1. d \in lonely /\ d \in Call /\ d \notin cs
    BY <1>1 DEF CallsTyped
  <2>2. call'[d] = call[d]
    BY <2>1
  <2>3. \A e \in Call : Busy(e)' => Busy(e)
    BY <1>2 DEF Busy, Idle
  <2>4. \A k \in Key : Has("things_content_snapshots", k)' => Has("things_content_snapshots", k)
    BY <1>4
  <2> QED
    BY <1>1, <2>1, <2>2, <2>3, <2>4 DEF LonelyCallsAlone
<1> QED
  BY <1>9, <1>10, <1>11, <1>12, <1>13, <1>14, <1>15, <1>16 DEF RowsInvariant

----------------------------------------------------------------------------
(* Every step keeps the invariant of the rows                              *)

LEMMA StartKeepsRows ==
  ASSUME RowsInvariant, NEW c \in Call, NEW op \in Ops, NEW k \in Key, Start(c, op, k)
  PROVE  RowsInvariant'
<1>1. RowsTyped
  BY DEF RowsInvariant
<1>2. signedIn \in Owner
  BY <1>1 DEF RowsTyped
<1>3. Takes(op, k)
  BY DEF Takes
<1>4. 1 \in 1..Len(Program(op, k))
  BY <1>3, TakenCalls DEF Proper
<1>5. Commit(c, op, k, signedIn, 1) /\ signedIn' = signedIn
  BY DEF Start
<1>6. StartsOrGoesOn(c, op, k, 1)
  BY DEF StartsOrGoesOn, Start, Busy
<1> QED
  BY <1>2, <1>3, <1>4, <1>5, <1>6, CommitKeepsRows

LEMMA SignInKeepsRows ==
  ASSUME RowsInvariant, NEW c \in Call, NEW u \in User, SignIn(c, u)
  PROVE  RowsInvariant'
<1>1. u \in Owner /\ signedIn' = u /\ signedIn = None
  BY DEF Owner, SignIn
<1>2. Takes("claim", u)
  BY DEF Takes
<1>3. 1 \in 1..Len(Program("claim", u))
  BY <1>2, TakenCalls DEF Proper
<1>4. Commit(c, "claim", u, u, 1)
  BY DEF SignIn
<1>5. StartsOrGoesOn(c, "claim", u, 1)
  BY DEF StartsOrGoesOn, SignIn, Busy
<1> QED
  BY <1>1, <1>2, <1>3, <1>4, <1>5, CommitKeepsRows

LEMMA SignOutKeepsRows ==
  ASSUME RowsInvariant, NEW c \in Call, NEW op \in Wipe, SignOut(c, op)
  PROVE  RowsInvariant'
<1>1. None \in Owner /\ signedIn' = None
  BY DEF Owner, SignOut
<1>2. Takes(op, None)
  BY DEF Takes
<1>3. 1 \in 1..Len(Program(op, None)) /\ Len(Program(op, None)) # 1
  BY WipingCalls, WipeOrderFacts DEF Proper
<1>4. Commit(c, op, None, None, 1)
  BY DEF SignOut
<1>5. StartsOrGoesOn(c, op, None, 1)
  BY DEF StartsOrGoesOn, SignOut, Busy
<1>6. CallsTyped
  BY DEF RowsInvariant
<1> DEFINE n == Len(Program(op, None))
<1>7. call' = [call EXCEPT ![c] =
                 IF 1 = n THEN Idle ELSE [op |-> op, arg |-> None, by |-> None, at |-> 1 + 1]]
  BY <1>4 DEF Commit
<1>71. n # 1
  BY <1>3
<1> HIDE DEF n
<1>8. Wiping'
  <2>1. call'[c].op = op
    BY <1>6, <1>7, <1>71 DEF CallsTyped
  <2> QED
    BY <2>1 DEF Wiping, Wipe
<1> QED
  BY <1>1, <1>2, <1>3, <1>4, <1>5, <1>8, CommitKeepsRows

LEMMA StepKeepsRows ==
  ASSUME RowsInvariant, NEW c \in Call, Step(c)
  PROVE  RowsInvariant'
<1>1. RowsTyped /\ CallsTyped
  BY DEF RowsInvariant
<1>2. UnderWay(call[c])
  BY <1>1 DEF CallsTyped, Step, Busy
<1>3. signedIn \in Owner /\ signedIn' = signedIn
  BY <1>1 DEF RowsTyped, Step
<1>4. Commit(c, call[c].op, call[c].arg, call[c].by, call[c].at)
  BY DEF Step
<1>5. StartsOrGoesOn(c, call[c].op, call[c].arg, call[c].at)
  BY DEF StartsOrGoesOn
<1> QED
  BY <1>2, <1>3, <1>4, <1>5, CommitKeepsRows DEF UnderWay

LEMMA StopKeepsRows ==
  ASSUME RowsInvariant, NEW c \in Call, Refused(c) \/ Fails(c)
  PROVE  RowsInvariant'
<1>1. RowsTyped /\ CallsTyped
  BY DEF RowsInvariant
<1>2. /\ call' = [call EXCEPT ![c] = Idle]
      /\ lonely' = lonely \ {c}
      /\ Spares({c})
      /\ UNCHANGED <<rows, author, strays, signedIn>>
  BY DEF Refused, Fails
<1>3. call' = [d \in Call |-> IF d \in {c} THEN Idle ELSE call[d]]
  BY <1>1, <1>2 DEF CallsTyped
<1>4. rows' \in Rows
  BY <1>1, <1>2 DEF RowsTyped
<1>5. \A t \in Table, k \in Key : Has(t, k)' <=> Has(t, k)
  BY <1>2 DEF Has
<1> QED
  BY <1>2, <1>3, <1>4, <1>5, StoppingKeepsRows

LEMMA Seeding ==
  ASSUME NEW r \in Rows
  PROVE  /\ SeedBuiltinActions(r) \in Rows
         /\ \A t \in Table, k \in Key :
              r[t][k] # Absent => SeedBuiltinActions(r)[t][k] # Absent
         /\ \A t \in Table, k \in Key :
              SeedBuiltinActions(r)[t][k] # Absent => r[t][k] # Absent \/ t = "actions"
<1> DEFINE a == "actions"
           f == [k \in Key |-> IF r[a][k] = Absent THEN None ELSE r[a][k]]
           z == [r EXCEPT ![a] = f]
<1>1. SeedBuiltinActions(r) = z
  BY DEF SeedBuiltinActions
<1>2. a \in Table
  BY DEF Table
<1> HIDE DEF a
<1>3. f \in [Key -> Owner \cup {Absent}] /\ \A k \in Key : f[k] # Absent
  BY <1>2, NoRowIsNobodys DEF Rows, Owner
<1> HIDE DEF f
<1>4. z \in Rows /\ \A t \in Table : z[t] = IF t = a THEN f ELSE r[t]
  BY <1>2, <1>3 DEF Rows
<1> HIDE DEF z
<1>5. \A t \in Table, k \in Key : r[t][k] # Absent => z[t][k] # Absent
  BY <1>3, <1>4
<1>6. \A t \in Table, k \in Key : z[t][k] # Absent => r[t][k] # Absent \/ t = a
  BY <1>4
<1> QED
  BY <1>1, <1>4, <1>5, <1>6 DEF a

LEMMA RestartKeepsRows ==
  ASSUME RowsInvariant, Restart
  PROVE  RowsInvariant'
<1>1. RowsTyped /\ CallsTyped
  BY DEF RowsInvariant
<1>2. /\ call' = [c \in Call |-> Idle]
      /\ lonely' = {}
      /\ Spares(Call)
      /\ rows' = SeedBuiltinActions(rows)
      /\ UNCHANGED <<author, strays, signedIn>>
  BY DEF Restart
<1>3. call' = [d \in Call |-> IF d \in Call THEN Idle ELSE call[d]]
  BY <1>2
<1>4. rows \in Rows
  BY <1>1 DEF RowsTyped
<1>5. rows' \in Rows
  BY <1>2, <1>4, Seeding
<1>6. \A t \in Table, k \in Key : Has(t, k) => Has(t, k)'
  BY <1>2, <1>4, Seeding DEF Has
<1>7. \A t \in Table, k \in Key : Has(t, k)' => Has(t, k) \/ (t = "actions" /\ Call = Call)
  BY <1>2, <1>4, Seeding DEF Has
<1> QED
  BY <1>2, <1>3, <1>5, <1>6, <1>7, StoppingKeepsRows

LEMMA StepsKeepRows ==
  ASSUME RowsInvariant, [Next]_vars
  PROVE  RowsInvariant'
<1>1. ASSUME UNCHANGED <<data, call, signedIn, lonely>>
      PROVE  RowsInvariant'
  <2>1. UNCHANGED <<rows, author, spared, strays, call, signedIn, lonely>>
    BY <1>1 DEF data
  <2>2. CallsTyped' /\ RowsTyped'
    BY <2>1 DEF RowsInvariant, CallsTyped, RowsTyped, UnderWay, Takes, Rows, Owner
  <2>3. \A t, k : Has(t, k)' <=> Has(t, k)
    BY <2>1 DEF Has
  <2>4. Wiping' <=> Wiping
    BY <2>1 DEF Wiping
  <2>5. NoRowNoAuthor' /\ OthersRowsAreGone' /\ SweptTablesSpared'
    BY <2>1, <2>3, <2>4
    DEF RowsInvariant, NoRowNoAuthor, OthersRowsAreGone, SweptTablesSpared
  <2>6. MessagesAreStrays' /\ MessagesHaveSession'
    BY <2>1, <2>3 DEF RowsInvariant, MessagesAreStrays, MessagesHaveSession
  <2>7. LonelyCallsAlone'
    BY <2>1, <2>3 DEF RowsInvariant, LonelyCallsAlone, Busy
  <2> QED
    BY <2>2, <2>5, <2>6, <2>7 DEF RowsInvariant
<1>2. CASE \E c \in Call, op \in Ops, k \in Key : Start(c, op, k)
  BY <1>2, StartKeepsRows
<1>3. CASE \E c \in Call, u \in User : SignIn(c, u)
  BY <1>3, SignInKeepsRows
<1>4. CASE \E c \in Call, op \in {"wipe", "wipe_and_notify"} : SignOut(c, op)
  BY <1>4, SignOutKeepsRows DEF Wipe
<1>5. CASE \E c \in Call : Step(c) \/ Refused(c) \/ Fails(c)
  BY <1>5, StepKeepsRows, StopKeepsRows
<1>6. CASE Restart
  BY <1>6, RestartKeepsRows
<1>7. CASE Watch \/ Ack
  BY <1>1, <1>7 DEF Watch, Ack
<1>8. CASE UNCHANGED vars
  BY <1>1, <1>8 DEF vars
<1> QED
  BY <1>2, <1>3, <1>4, <1>5, <1>6, <1>7, <1>8 DEF Next

LEMMA InitialRows ==
  ASSUME Init
  PROVE  RowsInvariant
<1> DEFINE r == [t \in Table |-> [k \in Key |-> IF t \in Used THEN None ELSE Absent]]
<1>1. r \in Rows
  BY DEF Rows, Owner
<1>2. \A t \in Table, k \in Key : r[t][k] # Absent => t \in Used
  OBVIOUS
<1>3. rows = SeedBuiltinActions(r)
  BY DEF Init
<1> HIDE DEF r
<1>4. rows \in Rows
  BY <1>1, <1>3, Seeding
<1>5. \A t \in Table, k \in Key : Has(t, k) => t \in Used \/ t = "actions"
  BY <1>1, <1>2, <1>3, Seeding DEF Has
<1>6. RowsTyped
  BY <1>4 DEF Init, RowsTyped, Owner
<1>7. \A c \in Call : call[c] = Idle
  BY DEF Init
<1>8. CallsTyped
  BY <1>7 DEF Init, CallsTyped
<1>9. Idle.op \notin Wipe /\ Idle.op # "delete_session"
  BY DEF Idle, Wipe
<1>10. SweptTablesSpared /\ MessagesAreStrays
  BY <1>7, <1>9 DEF SweptTablesSpared, MessagesAreStrays
<1>11. NoRowNoAuthor /\ LonelyCallsAlone
  BY DEF Init, NoRowNoAuthor, LonelyCallsAlone
<1>12. OthersRowsAreGone
  <2>1. \A t \in Wiped : t \in Table \cup {"things_local_events"}
    BY WipeOrderFacts
  <2> QED
    BY <2>1 DEF Init, OthersRowsAreGone
<1>13. MessagesHaveSession
  BY DEF Init, MessagesHaveSession
<1> QED
  BY <1>6, <1>8, <1>10, <1>11, <1>12, <1>13 DEF RowsInvariant

----------------------------------------------------------------------------
(* What the invariant is for                                               *)

\* No statement is refused in a wipe past the snapshots while there are none.
LEMMA SweepIsPermitted ==
  ASSUME RowsInvariant,
         NEW i \in 1..Len(WipeOrder),
         i = 7 => \A k \in Key : ~Has("things_content_snapshots", k)
  PROVE  Permitted(rows, Sweep(WipeOrder[i]))
<1> DEFINE s == Sweep(WipeOrder[i])
<1>1. s.does = "del" /\ s.table = WipeOrder[i]
  BY DEF Sweep
<1>2. WipeOrder[i] = "things_change_log" => i = 7
  BY WipeOrderFacts
<1>3. s.keys = Key
  BY DEF Sweep
<1> HIDE DEF s
<1> QED
  BY <1>1, <1>2, <1>3 DEF Permitted, Restricting, Has, s

LEMMA OneStatementCommits ==
  ASSUME NEW r, NEW s, Permitted(r, s)
  PROVE  Commits(r, <<s>>)
<1> DEFINE tx == <<s>>
<1>1. Len(tx) = 1 /\ tx[1] = s
  OBVIOUS
<1> HIDE DEF tx
<1>2. After(r, tx)[0] = r
  BY <1>1, AfterRuns
<1>3. \A i \in 1..Len(tx) : i = 1
  BY <1>1
<1> QED
  BY <1>1, <1>2, <1>3 DEF Commits, tx

LEMMA LonelyWipesGo ==
  ASSUME RowsInvariant
  PROVE  WipeGoesThrough
<1> SUFFICES ASSUME NEW c \in lonely, call[c].op \in Wipe
             PROVE  Commits(rows, Program(call[c].op, call[c].arg)[call[c].at])
  BY DEF WipeGoesThrough, Wipe
<1> DEFINE op == call[c].op
           p == Program(op, call[c].arg)
           i == call[c].at
<1>1. CallsTyped /\ LonelyCallsAlone
  BY DEF RowsInvariant
<1>2. c \in Call /\ call[c] # Idle
  BY <1>1 DEF CallsTyped, Idle, Wipe
<1>3. i \in 1..Len(p)
  BY <1>1, <1>2 DEF CallsTyped, UnderWay
<1>4. Len(p) \in Nat /\ Len(WipeOrder) \in Nat
  BY WipingCalls, WipeOrderFacts DEF Proper
<1>5. CASE i <= Len(WipeOrder)
  <2>1. i \in 1..Len(WipeOrder)
    BY <1>3, <1>4, <1>5
  <2>2. p[i] = <<Sweep(WipeOrder[i])>>
    BY <2>1, WipingCalls
  <2>3. i = 7 => \A k \in Key : ~Has("things_content_snapshots", k)
    BY <1>1 DEF LonelyCallsAlone
  <2>4. Permitted(rows, Sweep(WipeOrder[i]))
    BY <2>1, <2>3, SweepIsPermitted
  <2> QED
    BY <2>2, <2>4, OneStatementCommits
<1>6. CASE ~(i <= Len(WipeOrder))
  <2>1. i > Len(WipeOrder)
    BY <1>3, <1>4, <1>6
  <2>2. p[i] = <<Event("data_wiped")>>
    BY <1>3, <2>1, WipingCalls
  <2>3. Permitted(rows, Event("data_wiped"))
    BY DEF Permitted, Event, Table
  <2> QED
    BY <2>2, <2>3, OneStatementCommits
<1> QED
  BY <1>5, <1>6

\* After a wipe nothing of a user who has signed out is left in the tables it
\* sweeps, but for rows of calls that were under way and of wipes that failed.
THEOREM OthersRowsGo == Spec => []OthersRowsAreGone
<1>1. Init => RowsInvariant
  BY InitialRows
<1>2. RowsInvariant /\ [Next]_vars => RowsInvariant'
  BY StepsKeepRows
<1>3. RowsInvariant => OthersRowsAreGone
  BY DEF RowsInvariant
<1> QED
  BY <1>1, <1>2, <1>3, PTL DEF Spec

\* Deleting a chat session takes several transactions: wherever it stops, no
\* message is left without its session.
THEOREM MessagesKeepTheirSession == Spec => []MessagesHaveSession
<1>1. Init => RowsInvariant
  BY InitialRows
<1>2. RowsInvariant /\ [Next]_vars => RowsInvariant'
  BY StepsKeepRows
<1>3. RowsInvariant => MessagesHaveSession
  BY DEF RowsInvariant
<1> QED
  BY <1>1, <1>2, <1>3, PTL DEF Spec

\* No foreign key stops a wipe that nothing runs beside, whatever the state of
\* the tables it finds.
THEOREM WipesGoThrough == Spec => []WipeGoesThrough
<1>1. Init => RowsInvariant
  BY InitialRows
<1>2. RowsInvariant /\ [Next]_vars => RowsInvariant'
  BY StepsKeepRows
<1>3. RowsInvariant => WipeGoesThrough
  BY LonelyWipesGo
<1> QED
  BY <1>1, <1>2, <1>3, PTL DEF Spec

=============================================================================
