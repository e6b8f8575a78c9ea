----------------------------- MODULE Automerge -----------------------------
(***************************************************************************)
(* The part of the automerge library that remi-things-crdt relies on: a    *)
(* document is the set of the operations known to it, and merging is their *)
(* union.  An operation creates a value under a key of a map object, or an *)
(* element of a list object; it is named <<counter, actor>>, and names are *)
(* ordered by counter first.  A later write hides the values its author    *)
(* saw, so writes made concurrently stay side by side under one key: Get   *)
(* returns the latest of them, GetAll every one in the order of the names. *)
(*                                                                         *)
(*   ops   the operations, by name; an overwritten one is dropped, an      *)
(*         erased list element is kept, for others stand after it          *)
(*   gone  the names of those overwritten or erased                        *)
(*   top   the highest counter, from which the next name is made           *)
(***************************************************************************)
EXTENDS Naturals, Sequences, SequencesExt

Root == <<0, 0>>

NewDoc == [ops |-> <<>>, gone |-> {}, top |-> 0]

Before(i, j) == i[1] < j[1] \/ (i[1] = j[1] /\ i[2] < j[2])

(* The names of a set as a sequence; SubSeq has TLC work it out once. *)
InOrder(S) ==
  LET kth(k) == CHOOSE i \in S : Cardinality({j \in S : Before(j, i)}) = k - 1
  IN  SubSeq([k \in 1 .. Cardinality(S) |-> kth(k)], 1, Cardinality(S))

Op(obj, key, val, after) == [obj |-> obj, key |-> key, val |-> val, after |-> after]

Without(ops, hidden) == [i \in DOMAIN ops \ hidden |-> ops[i]]

Write(d, a, op, hides) ==
  LET new == <<d.top + 1, a>>
  IN
  [ops  |-> [i \in {new} \cup (DOMAIN d.ops \ hides) |-> IF i = new THEN op ELSE d.ops[i]],
   gone |-> d.gone \cup hides,
   top  |-> d.top + 1]

(* Maps.  The value of a key that holds an object is the name of the       *)
(* operation that made it.                                                 *)
Values(d, obj, key) ==
  {i \in DOMAIN d.ops : d.ops[i].obj = obj /\ d.ops[i].key = key}

Has(d, obj, key) == Values(d, obj, key) # {}

Newest(found) == CHOOSE i \in found : \A j \in found \ {i} : Before(j, i)

Get(d, obj, key) == Newest(Values(d, obj, key))

GetAll(d, obj, key) == InOrder(Values(d, obj, key))

Scalar(d, obj, key, default) ==
  LET found == Values(d, obj, key)
  IN  IF found = {} THEN default ELSE d.ops[Newest(found)].val

Keys(d, obj) == {d.ops[i].key : i \in {j \in DOMAIN d.ops : d.ops[j].obj = obj}}

(* Writing the value a key already holds, unopposed, is no operation.      *)
Put(d, a, obj, key, val) ==
  LET old == Values(d, obj, key)
  IN  IF \E i \in old : old = {i} /\ d.ops[i].val = val
      THEN d
      ELSE Write(d, a, Op(obj, key, val, Root), old)

PutObject(d, a, obj, key) == Write(d, a, Op(obj, key, "object", Root), Values(d, obj, key))

Delete(d, obj, key) ==
  LET old == Values(d, obj, key)
  IN  IF old = {} THEN d
      ELSE [ops |-> Without(d.ops, old), gone |-> d.gone \cup old, top |-> d.top + 1]

(* Lists and texts.  An element follows the one it was inserted after; of  *)
(* several inserted at one place the latest comes first.                   *)
Inserted(d, list) == {i \in DOMAIN d.ops : d.ops[i].obj = list /\ d.ops[i].key = ""}

Ordered(d, list) ==
  LET all == Inserted(d, list)
      from[p \in all \cup {Root}] ==
        LET next == Reverse(InOrder({i \in all : d.ops[i].after = p}))
        IN  FlattenSeq([k \in DOMAIN next |-> <<next[k]>> \o from[next[k]]])
  IN  from[Root]

(* The elements of a sequence that are in the set S. *)
Only(seq, S) ==
  LET at == {k \in DOMAIN seq : seq[k] \in S}
      kth(n) == CHOOSE k \in at : Cardinality({j \in at : j < k}) = n - 1
  IN  SubSeq([n \in 1 .. Cardinality(at) |-> seq[kth(n)]], 1, Cardinality(at))

Elements(d, list) == Only(Ordered(d, list), Inserted(d, list) \ d.gone)

(* insert(list, index): index counts from zero and is at most the length.  *)
Insert(d, a, list, index, val) ==
  Write(d, a, Op(list, "", val, IF index = 0 THEN Root ELSE Elements(d, list)[index]), {})

Erase(d, elements) ==
  IF elements = {} THEN d
  ELSE [ops |-> d.ops, gone |-> d.gone \cup elements, top |-> d.top + 1]

(* Two documents merge unless one name stands for two operations.          *)
Agree(d, e) == \A i \in DOMAIN d.ops \cap DOMAIN e.ops : d.ops[i] = e.ops[i]

Merge(d, e) ==
  LET all == [i \in DOMAIN d.ops \cup DOMAIN e.ops |-> IF i \in DOMAIN d.ops THEN d.ops[i] ELSE e.ops[i]]
      gone == d.gone \cup e.gone
  IN  [ops  |-> Without(all, {i \in gone \cap DOMAIN all : all[i].key # ""}),
       gone |-> gone,
       top  |-> IF d.top > e.top THEN d.top ELSE e.top]
=============================================================================
