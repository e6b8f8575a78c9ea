------------------------ MODULE UserServices_proofs ------------------------
(***************************************************************************)
(* Theorems about UserServices, for any users, calls, configurations and   *)
(* bounds: a profile that is answered is that of a user who was signed in  *)
(* meanwhile, and no worker is left serving an older session.              *)
(***************************************************************************)
EXTENDS UserServices, TLAPS

----------------------------------------------------------------------------
(* The profile calls                                                       *)

Someone == User \cup {NoUser}

Profiled == [user : Someone, name : Nat, avatar : Nat]

CallRow == [op : {"get", "refresh", "update", "upload"},
            pc : Waiting \cup {"new", "done", "failed"},
            gen : Nat, as : Someone, id : Someone, got : Profiled, late : BOOLEAN]

ProfileType ==
  /\ user \in Someone
  /\ cache \in Profiled
  /\ generation \in Nat
  /\ profiles \in [User -> [name : Nat, avatar : Nat]]
  /\ calls \in [Call -> CallRow]
  /\ during \in [Call -> SUBSET User]

\* What a call holds belongs to one of the users d.
Right(r, d) ==
  /\ r.pc \in {"sent", "sentSet"} => r.as \in d
  /\ r.pc = "read" => r.id \in d
  /\ r.pc \in {"check", "store", "own", "paint", "done"} => r.got.user \in d

HoldsOwn == \A c \in Call : Right(calls[c], during[c])

\* Who is signed in is among those a running call has met.
MeetsUser == \A c \in Call : Running(c) /\ user # NoUser => user \in during[c]

ProfileInductive == ProfileType /\ HoldsOwn /\ MeetsUser

LEMMA ProfileStarts ==
  ASSUME ProfileInit
  PROVE  ProfileInductive
<1> USE UserAssumption, ProfileAssumption
<1>1. NoEntry \in Profiled
  BY DEF NoEntry, Profiled, Someone
<1>2. Fresh("get", "new") \in CallRow
  BY <1>1 DEF Fresh, CallRow, Someone
<1>3. ProfileType
  BY <1>1, <1>2 DEF ProfileInit, ProfileType, Someone
<1>4. \A c \in Call : calls[c].pc = "new"
  BY DEF ProfileInit, Fresh
<1> QED BY <1>3, <1>4 DEF ProfileInit, ProfileInductive, HoldsOwn, Right, MeetsUser, Running, Waiting

\* A step of a running call that leaves it with something of its own.
LEMMA CallGoesOn ==
  ASSUME ProfileInductive, NEW c \in Call, Running(c),
         NEW r \in CallRow, Right(r, during[c]), Becomes(c, r),
         user' = user, during' = during,
         cache' \in Profiled, generation' = generation,
         profiles' \in [User -> [name : Nat, avatar : Nat]]
  PROVE  ProfileInductive'
<1>1. calls' = [calls EXCEPT ![c] = r] /\ calls \in [Call -> CallRow]
  BY DEF Becomes, ProfileInductive, ProfileType
<1>2. calls' \in [Call -> CallRow]
  BY <1>1
<1>3. ProfileType'
  BY <1>2 DEF ProfileInductive, ProfileType
<1>4. \A d \in Call : calls'[d] = IF d = c THEN r ELSE calls[d]
  BY <1>1
<1>5. HoldsOwn'
  BY <1>4 DEF ProfileInductive, HoldsOwn
<1>6. MeetsUser'
  BY <1>4 DEF ProfileInductive, MeetsUser, Running
<1> QED BY <1>3, <1>5, <1>6 DEF ProfileInductive

LEMMA CallRowOf ==
  ASSUME ProfileInductive, NEW c \in Call
  PROVE  /\ calls[c] \in CallRow
         /\ calls[c].got \in Profiled
         /\ calls[c].op \in {"get", "refresh", "update", "upload"}
         /\ during[c] \subseteq User
         /\ Right(calls[c], during[c])
         /\ Running(c) /\ user # NoUser => user \in during[c]
         /\ user \in Someone /\ cache \in Profiled /\ generation \in Nat
         /\ profiles \in [User -> [name : Nat, avatar : Nat]]
<1> QED BY DEF ProfileInductive, ProfileType, HoldsOwn, MeetsUser, CallRow

\* A call that ends, with what it got.
LEMMA CallEnds ==
  ASSUME ProfileInductive, NEW c \in Call, Running(c),
         NEW pc \in {"done", "failed"}, NEW got \in Profiled,
         pc = "done" => got.user \in during[c], Ends(c, pc, got),
         user' = user, during' = during,
         cache' \in Profiled, generation' = generation,
         profiles' \in [User -> [name : Nat, avatar : Nat]]
  PROVE  ProfileInductive'
<1> DEFINE f == Fresh(calls[c].op, pc)
<1> DEFINE r == [f EXCEPT !.got = got]
<1>1. Becomes(c, r)
  BY DEF Ends
<1>2. calls[c].op \in {"get", "refresh", "update", "upload"} /\ NoEntry \in Profiled
  BY CallRowOf DEF NoEntry, Profiled, Someone
<1>3. f \in CallRow /\ f.pc = pc
  BY <1>2 DEF Fresh, CallRow, Someone, Waiting
<1> HIDE DEF f
<1>4. r \in CallRow /\ r.pc = pc /\ r.got = got
  BY <1>3 DEF CallRow
<1> HIDE DEF r
<1>5. Right(r, during[c])
  BY <1>4 DEF Right
<1> QED BY <1>1, <1>4, <1>5, CallGoesOn

LEMMA EntryOf ==
  ASSUME ProfileInductive, NEW u \in User
  PROVE  /\ Entry(u) \in Profiled /\ Entry(u).user = u
         /\ [Entry(u) EXCEPT !.name = @ + 1] \in Profiled
         /\ [Entry(u) EXCEPT !.name = @ + 1].user = u
         /\ [Entry(u) EXCEPT !.avatar = @ + 1] \in Profiled
         /\ [Entry(u) EXCEPT !.avatar = @ + 1].user = u
<1>1. profiles[u].name \in Nat /\ profiles[u].avatar \in Nat
  BY DEF ProfileInductive, ProfileType
<1>2. [Entry(u) EXCEPT !.name = @ + 1]
      = [user |-> u, name |-> profiles[u].name + 1, avatar |-> profiles[u].avatar]
  BY DEF Entry
<1>3. [Entry(u) EXCEPT !.avatar = @ + 1]
      = [user |-> u, name |-> profiles[u].name, avatar |-> profiles[u].avatar + 1]
  BY DEF Entry
<1> QED BY <1>1, <1>2, <1>3 DEF Entry, Profiled, Someone

----------------------------------------------------------------------------
LEMMA StartKeeps ==
  ASSUME ProfileInductive, NEW c \in Call, Start(c)
  PROVE  ProfileInductive'
<1>1. PICK op \in Calls[c] :
        /\ calls' = [d \in Call |->
             IF d = c THEN Fresh(op, First(op))
             ELSE [calls[d] EXCEPT !.late = @ \/ (op = "update" /\ At(d, "store"))]]
        /\ generation' = IF op = "update" THEN generation + 1 ELSE generation
        /\ during' = [during EXCEPT ![c] = {user} \ {NoUser}]
        /\ UNCHANGED <<user, signOut, cache, profiles, signs>>
  BY DEF Start
<1>2. op \in {"get", "refresh", "update", "upload"}
  BY ProfileAssumption
<1>3. First(op) \in {"look", "load", "ask"}
  BY <1>2 DEF First
<1>4. NoEntry \in Profiled
  BY DEF NoEntry, Profiled, Someone
<1>5. Fresh(op, First(op)) \in CallRow /\ Fresh(op, First(op)).pc = First(op)
  BY <1>2, <1>3, <1>4 DEF Fresh, CallRow, Someone, Waiting
<1>6. \A d \in Call : \A l \in BOOLEAN :
        LET r == [calls[d] EXCEPT !.late = l]
        IN r \in CallRow /\ r.pc = calls[d].pc /\ r.as = calls[d].as
           /\ r.id = calls[d].id /\ r.got = calls[d].got
  BY CallRowOf DEF CallRow
<1>7. \A d \in Call \ {c} :
        /\ calls'[d] \in CallRow /\ calls'[d].pc = calls[d].pc /\ calls'[d].as = calls[d].as
        /\ calls'[d].id = calls[d].id /\ calls'[d].got = calls[d].got
        /\ during'[d] = during[d]
  <2> TAKE d \in Call \ {c}
  <2> DEFINE l == calls[d].late \/ (op = "update" /\ At(d, "store"))
  <2>1. l \in BOOLEAN
    BY CallRowOf DEF CallRow
  <2>2. calls'[d] = [calls[d] EXCEPT !.late = l]
    BY <1>1
  <2>3. during'[d] = during[d]
    BY <1>1 DEF ProfileInductive, ProfileType
  <2> HIDE DEF l
  <2> QED BY <1>6, <2>1, <2>2, <2>3
<1>8. calls'[c] = Fresh(op, First(op)) /\ during'[c] = {user} \ {NoUser}
  BY <1>1 DEF ProfileInductive, ProfileType
<1>9. ProfileType'
  <2>1. calls' \in [Call -> CallRow]
    <3>1. \A d \in Call : calls'[d] \in CallRow
      BY <1>5, <1>7, <1>8
    <3>2. calls' = [d \in Call |-> calls'[d]]
      BY <1>1
    <3> QED BY <3>1, <3>2
  <2>2. during' \in [Call -> SUBSET User]
    BY <1>1 DEF ProfileInductive, ProfileType, Someone
  <2> QED BY <1>1, <2>1, <2>2 DEF ProfileInductive, ProfileType
<1>10. HoldsOwn'
  BY <1>3, <1>5, <1>7, <1>8 DEF ProfileInductive, HoldsOwn, Right
<1>11. MeetsUser'
  BY <1>1, <1>7, <1>8 DEF ProfileInductive, MeetsUser, Running
<1> QED BY <1>9, <1>10, <1>11 DEF ProfileInductive

\* A step that only moves a call on.
LEMMA MoveOn ==
  ASSUME ProfileInductive, NEW c \in Call, Running(c),
         NEW pc \in {"load", "askSet", "store"}, Goes(c, pc),
         pc = "store" => calls[c].pc = "check",
         UNCHANGED <<user, cache, generation, profiles, during>>
  PROVE  ProfileInductive'
<1> DEFINE r == [calls[c] EXCEPT !.pc = pc]
<1>1. calls[c] \in CallRow /\ Right(calls[c], during[c])
  BY CallRowOf
<1>2. r \in CallRow /\ r.pc = pc /\ r.got = calls[c].got
  BY <1>1 DEF CallRow, Waiting
<1>3. Becomes(c, r)
  BY DEF Goes
<1>4. ProfileType
  BY DEF ProfileInductive
<1> HIDE DEF r
<1>5. Right(r, during[c])
  BY <1>1, <1>2 DEF Right
<1> QED BY <1>2, <1>3, <1>4, <1>5, CallGoesOn DEF ProfileType

LEMMA ReadsUserKeeps ==
  ASSUME ProfileInductive, NEW c \in Call, ReadsUser(c)
  PROVE  ProfileInductive'
<1>1. Running(c)
  BY DEF ReadsUser, At, Running, Waiting
<1>2. CASE user = NoUser
  BY <1>1, <1>2, MoveOn DEF ReadsUser
<1>3. CASE user # NoUser
  <2> DEFINE r == [calls[c] EXCEPT !.id = user, !.pc = "read"]
  <2>1. calls[c] \in CallRow /\ user \in Someone /\ user \in during[c] /\ ProfileType
    BY <1>1, <1>3, CallRowOf DEF ProfileInductive
  <2>2. r \in CallRow /\ r.pc = "read" /\ r.id = user
    BY <2>1 DEF CallRow, Waiting
  <2>3. Becomes(c, r)
    BY <1>3 DEF ReadsUser
  <2> HIDE DEF r
  <2>4. Right(r, during[c])
    BY <2>1, <2>2 DEF Right
  <2> QED BY <1>1, <2>1, <2>2, <2>3, <2>4, CallGoesOn DEF ReadsUser, ProfileType
<1> QED BY <1>2, <1>3

LEMMA ReadsCacheKeeps ==
  ASSUME ProfileInductive, NEW c \in Call, ReadsCache(c)
  PROVE  ProfileInductive'
<1>1. Running(c) /\ calls[c].pc = "read"
  BY DEF ReadsCache, At, Running, Waiting
<1>2. CASE Hit(c)
  <2>1. cache.user \in during[c] /\ ProfileType
    BY <1>1, <1>2, CallRowOf DEF Hit, Right, ProfileInductive
  <2> QED BY <1>1, <1>2, <2>1, CallEnds DEF ReadsCache, ProfileType
<1>3. CASE ~Hit(c)
  BY <1>1, <1>3, MoveOn DEF ReadsCache
<1> QED BY <1>2, <1>3

LEMMA LoadsGenerationKeeps ==
  ASSUME ProfileInductive, NEW c \in Call, LoadsGeneration(c)
  PROVE  ProfileInductive'
<1> DEFINE u == Updating
<1> DEFINE r == [calls[c] EXCEPT !.gen = generation, !.late = u, !.pc = "ask"]
<1>1. Running(c) /\ Becomes(c, r)
  BY DEF LoadsGeneration, At, Running, Waiting
<1>2. calls[c] \in CallRow /\ generation \in Nat /\ ProfileType
  BY CallRowOf DEF ProfileInductive
<1>3. u \in BOOLEAN
  BY DEF Updating
<1> HIDE DEF u
<1>4. r \in CallRow /\ r.pc = "ask"
  BY <1>2, <1>3 DEF CallRow, Waiting
<1> HIDE DEF r
<1>5. Right(r, during[c])
  BY <1>4 DEF Right
<1> QED BY <1>1, <1>2, <1>4, <1>5, CallGoesOn DEF LoadsGeneration, ProfileType

LEMMA SendsKeeps ==
  ASSUME ProfileInductive, NEW c \in Call, Sends(c)
  PROVE  ProfileInductive'
<1>1. Running(c) /\ ProfileType
  BY DEF Sends, Running, Waiting, ProfileInductive
<1>2. CASE user = NoUser
  <2>1. NoEntry \in Profiled
    BY DEF NoEntry, Profiled, Someone
  <2> QED BY <1>1, <1>2, <2>1, CallEnds DEF Sends, ProfileType
<1>3. CASE user # NoUser
  <2> DEFINE pc == IF At(c, "ask") THEN "sent" ELSE "sentSet"
  <2> DEFINE r == [calls[c] EXCEPT !.as = user, !.pc = pc]
  <2>1. calls[c] \in CallRow /\ user \in Someone /\ user \in during[c]
    BY <1>1, <1>3, CallRowOf
  <2>2. Becomes(c, r) /\ pc \in {"sent", "sentSet"}
    BY <1>3 DEF Sends
  <2> HIDE DEF pc
  <2>3. r \in CallRow /\ r.pc = pc /\ r.as = user
    BY <2>1, <2>2 DEF CallRow, Waiting
  <2> HIDE DEF r
  <2>4. Right(r, during[c])
    BY <2>1, <2>2, <2>3 DEF Right
  <2> QED BY <1>1, <2>2, <2>3, <2>4, CallGoesOn DEF Sends, ProfileType
<1> QED BY <1>2, <1>3

\* A reply that is taken over, with the token dropped or kept.
LEMMA TakesReply ==
  ASSUME ProfileInductive, NEW c \in Call, Running(c),
         NEW got \in Profiled, got.user \in during[c],
         NEW pc \in {"check", "store", "own"},
         \/ Becomes(c, [calls[c] EXCEPT !.got = got, !.as = NoUser, !.pc = pc])
         \/ Becomes(c, [calls[c] EXCEPT !.got = got, !.pc = pc]),
         UNCHANGED <<user, cache, generation, during>>,
         profiles' \in [User -> [name : Nat, avatar : Nat]]
  PROVE  ProfileInductive'
<1> DEFINE d == [calls[c] EXCEPT !.got = got, !.as = NoUser, !.pc = pc]
           k == [calls[c] EXCEPT !.got = got, !.pc = pc]
<1>1. calls[c] \in CallRow /\ ProfileType /\ NoUser \in Someone
  BY CallRowOf DEF ProfileInductive, Someone
<1>2. /\ d \in CallRow /\ d.pc = pc /\ d.got = got
      /\ k \in CallRow /\ k.pc = pc /\ k.got = got
  BY <1>1 DEF CallRow, Waiting
<1>3. Becomes(c, d) \/ Becomes(c, k)
  OBVIOUS
<1> HIDE DEF d, k
<1>4. Right(d, during[c]) /\ Right(k, during[c])
  BY <1>2 DEF Right
<1> QED BY <1>1, <1>2, <1>3, <1>4, CallGoesOn DEF ProfileType

\* The server's side of a request for user u.
LEMMA ProfilesKept ==
  ASSUME ProfileInductive, NEW u \in User
  PROVE  /\ [profiles EXCEPT ![u].name = @ + 1] \in [User -> [name : Nat, avatar : Nat]]
         /\ [profiles EXCEPT ![u].avatar = @ + 1] \in [User -> [name : Nat, avatar : Nat]]
<1> DEFINE n == [profiles[u] EXCEPT !.name = @ + 1]
           a == [profiles[u] EXCEPT !.avatar = @ + 1]
<1>1. profiles[u] \in [name : Nat, avatar : Nat]
      /\ profiles \in [User -> [name : Nat, avatar : Nat]]
  BY DEF ProfileInductive, ProfileType
<1>2. n \in [name : Nat, avatar : Nat] /\ a \in [name : Nat, avatar : Nat]
  BY <1>1
<1>3. /\ [profiles EXCEPT ![u].name = @ + 1] = [profiles EXCEPT ![u] = n]
      /\ [profiles EXCEPT ![u].avatar = @ + 1] = [profiles EXCEPT ![u] = a]
  BY <1>1
<1> HIDE DEF n, a
<1> QED BY <1>1, <1>2, <1>3

LEMMA ServedKeeps ==
  ASSUME ProfileInductive, NEW c \in Call, Served(c)
  PROVE  ProfileInductive'
<1> DEFINE u == calls[c].as
<1>1. Running(c) /\ calls[c].pc \in {"sent", "sentSet"}
  BY DEF Served, At, Running, Waiting
<1>2. calls[c] \in CallRow /\ u \in during[c] /\ u \in User /\ u \in Someone /\ ProfileType
  BY <1>1, CallRowOf DEF Right, ProfileInductive, Someone
<1>3. /\ Entry(u) \in Profiled /\ Entry(u).user = u
      /\ [Entry(u) EXCEPT !.name = @ + 1] \in Profiled
      /\ [Entry(u) EXCEPT !.name = @ + 1].user = u
      /\ [Entry(u) EXCEPT !.avatar = @ + 1] \in Profiled
      /\ [Entry(u) EXCEPT !.avatar = @ + 1].user = u
  BY <1>2, EntryOf
<1>4. UNCHANGED <<user, cache, generation, during>>
  BY DEF Served
<1> HIDE DEF u
<1>5. CASE profiles' = profiles
           /\ Becomes(c, [calls[c] EXCEPT !.got = Entry(u), !.as = NoUser, !.pc = "check"])
  BY <1>1, <1>2, <1>3, <1>4, <1>5, TakesReply DEF ProfileType
<1>6. CASE profiles' = [profiles EXCEPT ![u].name = @ + 1]
           /\ Becomes(c, [calls[c] EXCEPT !.got = [Entry(u) EXCEPT !.name = @ + 1], !.pc = "store"])
  <2> DEFINE g == [Entry(u) EXCEPT !.name = @ + 1]
  <2>1. g \in Profiled /\ g.user = u /\ Becomes(c, [calls[c] EXCEPT !.got = g, !.pc = "store"])
    BY <1>3, <1>6
  <2> HIDE DEF g
  <2>2. profiles' \in [User -> [name : Nat, avatar : Nat]]
    BY <1>2, <1>6, ProfilesKept
  <2> QED BY <1>1, <1>2, <1>4, <2>1, <2>2, TakesReply
<1>7. CASE profiles' = profiles /\ Goes(c, "askSet")
  BY <1>1, <1>4, <1>7, MoveOn
<1>8. CASE profiles' = [profiles EXCEPT ![u].avatar = @ + 1]
           /\ Becomes(c, [calls[c] EXCEPT !.got = [Entry(u) EXCEPT !.avatar = @ + 1], !.pc = "own"])
  <2> DEFINE g == [Entry(u) EXCEPT !.avatar = @ + 1]
  <2>1. g \in Profiled /\ g.user = u /\ Becomes(c, [calls[c] EXCEPT !.got = g, !.pc = "own"])
    BY <1>3, <1>8
  <2> HIDE DEF g
  <2>2. profiles' \in [User -> [name : Nat, avatar : Nat]]
    BY <1>2, <1>8, ProfilesKept
  <2> QED BY <1>1, <1>2, <1>4, <2>1, <2>2, TakesReply
<1> QED BY <1>5, <1>6, <1>7, <1>8 DEF Served, u

LEMMA FailsKeeps ==
  ASSUME ProfileInductive, NEW c \in Call, Fails(c)
  PROVE  ProfileInductive'
<1> DEFINE u == calls[c].as
<1>1. Running(c) /\ ProfileType /\ NoEntry \in Profiled
  BY DEF Fails, Running, Waiting, ProfileInductive, NoEntry, Profiled, Someone
<1>2. calls[c].pc \in {"sent", "sentSet"} => u \in User
  BY CallRowOf DEF Right
<1>3. \/ profiles' = profiles
      \/ u \in User /\ profiles' = [profiles EXCEPT ![u].name = @ + 1]
      \/ u \in User /\ profiles' = [profiles EXCEPT ![u].avatar = @ + 1]
  BY <1>2 DEF Fails, At
<1>4. Ends(c, "failed", NoEntry) /\ UNCHANGED <<user, cache, generation, during>>
  BY DEF Fails
<1> HIDE DEF u
<1>5. profiles' \in [User -> [name : Nat, avatar : Nat]]
  BY <1>1, <1>3, ProfilesKept DEF ProfileType
<1> QED BY <1>1, <1>4, <1>5, CallEnds DEF ProfileType

LEMMA ComparesKeeps ==
  ASSUME ProfileInductive, NEW c \in Call, Compares(c)
  PROVE  ProfileInductive'
<1>1. Running(c) /\ calls[c].pc = "check" /\ ProfileType
  BY DEF Compares, At, Running, Waiting, ProfileInductive
<1>2. CASE Unraised(c)
  BY <1>1, <1>2, MoveOn DEF Compares
<1>3. CASE ~Unraised(c)
  <2>1. calls[c].got \in Profiled /\ calls[c].got.user \in during[c]
    BY <1>1, CallRowOf DEF Right
  <2> QED BY <1>1, <1>3, <2>1, CallEnds DEF Compares, ProfileType
<1> QED BY <1>2, <1>3

LEMMA StoresKeeps ==
  ASSUME ProfileInductive, NEW c \in Call, Stores(c)
  PROVE  ProfileInductive'
<1>1. Running(c) /\ calls[c].pc = "store" /\ ProfileType
  BY DEF Stores, At, Running, Waiting, ProfileInductive
<1>2. calls[c].got \in Profiled /\ calls[c].got.user \in during[c]
  BY <1>1, CallRowOf DEF Right
<1> QED BY <1>1, <1>2, CallEnds DEF Stores, ProfileType

LEMMA OwnsKeeps ==
  ASSUME ProfileInductive, NEW c \in Call, Owns(c)
  PROVE  ProfileInductive'
<1>1. Running(c) /\ calls[c].pc = "own" /\ ProfileType
  BY DEF Owns, At, Running, Waiting, ProfileInductive
<1>2. calls[c] \in CallRow /\ calls[c].got \in Profiled
      /\ calls[c].got.user \in during[c] /\ user \in Someone
  BY <1>1, CallRowOf DEF Right
<1>3. CASE user = NoUser
  BY <1>1, <1>2, <1>3, CallEnds DEF Owns, ProfileType
<1>4. CASE user # NoUser
  <2> DEFINE r == [calls[c] EXCEPT !.id = user, !.pc = "paint"]
  <2>1. r \in CallRow /\ r.pc = "paint" /\ r.got = calls[c].got
    BY <1>2 DEF CallRow, Waiting
  <2>2. Becomes(c, r)
    BY <1>4 DEF Owns
  <2> HIDE DEF r
  <2>3. Right(r, during[c])
    BY <1>2, <2>1 DEF Right
  <2> QED BY <1>1, <2>1, <2>2, <2>3, CallGoesOn DEF Owns, ProfileType
<1> QED BY <1>3, <1>4

LEMMA PaintsKeeps ==
  ASSUME ProfileInductive, NEW c \in Call, Paints(c)
  PROVE  ProfileInductive'
<1>1. Running(c) /\ calls[c].pc = "paint" /\ ProfileType
  BY DEF Paints, At, Running, Waiting, ProfileInductive
<1>2. calls[c].got \in Profiled /\ calls[c].got.user \in during[c]
  BY <1>1, CallRowOf DEF Right
<1>3. cache' \in Profiled
  <2>1. cache \in Profiled /\ calls[c].got.avatar \in Nat
    BY <1>1, <1>2 DEF ProfileType, Profiled
  <2>2. [cache EXCEPT !.avatar = calls[c].got.avatar] \in Profiled
    BY <2>1 DEF Profiled
  <2> QED BY <2>1, <2>2 DEF Paints
<1> QED BY <1>1, <1>2, <1>3, CallEnds DEF Paints, ProfileType

LEMMA SignsKeep ==
  ASSUME ProfileInductive, SignStep \/ ConfiguresAgain
  PROVE  ProfileInductive'
<1>1. ASSUME NEW u \in User, SignIn(u) PROVE ProfileInductive'
  <2>1. \A c \in Call : during'[c] = IF Running(c) THEN during[c] \cup {u} ELSE during[c]
    BY <1>1 DEF SignIn
  <2>2. during' \in [Call -> SUBSET User]
    BY <1>1 DEF SignIn, ProfileInductive, ProfileType
  <2>3. ProfileType'
    BY <1>1, <2>2 DEF SignIn, ProfileInductive, ProfileType, Someone
  <2>4. \A c \in Call : during[c] \subseteq during'[c]
    BY <2>1
  <2>5. HoldsOwn'
    BY <1>1, <2>4 DEF SignIn, ProfileInductive, HoldsOwn, Right
  <2>6. MeetsUser'
    BY <1>1, <2>1 DEF SignIn, MeetsUser, Running
  <2> QED BY <2>3, <2>5, <2>6 DEF ProfileInductive
<1>2. CASE SignOut \/ ClearRaises \/ ClearEmpties \/ ConfiguresAgain
  <2>1. /\ user' \in {user, NoUser}
        /\ cache' \in {cache, NoEntry}
        /\ generation' \in {generation, generation + 1}
        /\ UNCHANGED <<profiles, calls, during>>
    BY <1>2 DEF SignOut, ClearRaises, ClearEmpties, ConfiguresAgain
  <2>2. NoEntry \in Profiled
    BY DEF NoEntry, Profiled, Someone
  <2>3. ProfileType'
    BY <2>1, <2>2 DEF ProfileInductive, ProfileType, Someone
  <2>4. HoldsOwn' /\ MeetsUser'
    BY <2>1 DEF ProfileInductive, HoldsOwn, MeetsUser, Running
  <2> QED BY <2>3, <2>4 DEF ProfileInductive
<1> QED BY <1>1, <1>2 DEF SignStep

LEMMA ProfileStepKeeps ==
  ASSUME ProfileInductive, NEW c \in Call, ProfileStep(c)
  PROVE  ProfileInductive'
<1> QED
  BY StartKeeps, ReadsUserKeeps, ReadsCacheKeeps, LoadsGenerationKeeps, SendsKeeps,
     ServedKeeps, FailsKeeps, ComparesKeeps, StoresKeeps, OwnsKeeps, PaintsKeeps
  DEF ProfileStep

LEMMA ProfileUnchanged ==
  ASSUME ProfileInductive, UNCHANGED pvars
  PROVE  ProfileInductive'
<1> QED BY DEF pvars, ProfileInductive, ProfileType, HoldsOwn, MeetsUser, Running

(* The inductive invariant of the profile calls: what a call has read, sent *)
(* or got belongs to a user who was signed in while it ran.                 *)
THEOREM ProfilesInductive == Spec => []ProfileInductive
<1>1. Init => ProfileInductive
  BY ProfileStarts DEF Init
<1>2. ProfileInductive /\ [Next]_vars => ProfileInductive'
  <2> SUFFICES ASSUME ProfileInductive, [Next]_vars PROVE ProfileInductive'
    OBVIOUS
  <2>1. CASE Profile
    BY <2>1, ProfileStepKeeps, SignsKeep DEF Profile
  <2>2. CASE Channel
    BY <2>2, ProfileUnchanged DEF Channel
  <2>3. CASE SignStep
    BY <2>3, SignsKeep
  <2>4. CASE UNCHANGED vars
    BY <2>4, ProfileUnchanged DEF vars
  <2> QED BY <2>1, <2>2, <2>3, <2>4 DEF Next
<1> QED BY <1>1, <1>2, PTL DEF Spec

(* Whatever calls, sign-ins and sign-outs overlap, profile_get and          *)
(* profile_refresh answer with the profile of a user who was signed in      *)
(* while they ran.                                                          *)
THEOREM AnswersAreOwn == Spec => []AnswersOfTheUser
<1>1. ProfileInductive => AnswersOfTheUser
  BY DEF ProfileInductive, HoldsOwn, Right, AnswersOfTheUser, At
<1> QED BY <1>1, ProfilesInductive, PTL

----------------------------------------------------------------------------
(* The versions of a profile                                               *)

\* A refresh that may still store, or is about to.
Storing(r, g) ==
  /\ r.op \in {"get", "refresh"}
  /\ r.pc \in {"ask", "sent", "check", "store"}
  /\ ~r.late
  /\ r.pc = "store" \/ r.gen = g

Got(r) == r.pc \in {"check", "store"}

NoNewerThanServer ==
  /\ cache.user \in User => cache.name <= profiles[cache.user].name
  /\ \A c \in Call : Got(calls[c]) => calls[c].got.name <= profiles[calls[c].got.user].name

PastGenerations == \A c \in Call : calls[c].gen <= generation

\* While a refresh may store, no update runs, and what it got is the latest.
StoresLatest ==
  \A c \in Call : Storing(calls[c], generation) =>
    /\ ~Updating
    /\ Got(calls[c]) => calls[c].got.name = profiles[calls[c].got.user].name

Versions == NoNewerThanServer /\ PastGenerations /\ StoresLatest

LEMMA VersionsStart ==
  ASSUME ProfileInit
  PROVE  Versions
<1>1. \A c \in Call : calls[c].pc = "new" /\ calls[c].gen = 0
  BY DEF ProfileInit, Fresh
<1>2. cache.user \notin User
  BY UserAssumption DEF ProfileInit, NoEntry
<1>3. generation = 0
  BY DEF ProfileInit
<1> QED BY <1>1, <1>2, <1>3
  DEF Versions, NoNewerThanServer, PastGenerations, StoresLatest, Storing, Got

\* A running call becomes r; only an update changes a name.
LEMMA VersionsGoOn ==
  ASSUME ProfileInductive, ProfileInductive', Versions,
         NEW c \in Call, Running(c), NEW r \in CallRow, Becomes(c, r),
         r.op = calls[c].op, r.gen <= generation, generation' = generation,
         \A u \in User : profiles[u].name <= profiles'[u].name,
         calls[c].op = "update" \/ \A u \in User : profiles'[u].name = profiles[u].name,
         cache'.user \in User => cache'.name <= profiles'[cache'.user].name,
         Got(r) => r.got.name <= profiles'[r.got.user].name,
         Storing(r, generation) =>
           /\ ~Updating
           /\ Got(r) => r.got.name = profiles'[r.got.user].name
  PROVE  Versions'
<1>1. \A d \in Call : calls'[d] = IF d = c THEN r ELSE calls[d]
  BY DEF Becomes, ProfileInductive, ProfileType
<1>2. \A d \in Call : Got(calls[d]) => /\ calls[d].got.user \in User
                                       /\ calls[d].got.name \in Nat
  BY CallRowOf DEF Got, Right, Profiled
<1>3. \A u \in User : profiles[u].name \in Nat /\ profiles'[u].name \in Nat
  BY DEF ProfileInductive, ProfileType
<1>4. NoNewerThanServer'
  <2> SUFFICES ASSUME NEW d \in Call, Got(calls'[d])
               PROVE  calls'[d].got.name <= profiles'[calls'[d].got.user].name
    BY DEF NoNewerThanServer
  <2>1. CASE d = c
    BY <1>1, <2>1
  <2>2. CASE d # c
    <3>1. calls'[d] = calls[d] /\ calls[d].got.name <= profiles[calls[d].got.user].name
      BY <1>1, <2>2 DEF Versions, NoNewerThanServer
    <3> QED BY <1>2, <1>3, <3>1
  <2> QED BY <2>1, <2>2
<1>5. PastGenerations'
  BY <1>1 DEF Versions, PastGenerations
<1>6. Updating' => Updating
  BY <1>1 DEF Updating, Running
<1>7. ASSUME NEW d \in Call, Storing(calls'[d], generation')
      PROVE  /\ ~Updating'
             /\ Got(calls'[d]) => calls'[d].got.name = profiles'[calls'[d].got.user].name
  <2>1. CASE d = c
    BY <1>1, <1>6, <1>7, <2>1
  <2>2. CASE d # c
    <3>1. calls'[d] = calls[d] /\ Storing(calls[d], generation)
      BY <1>1, <1>7, <2>2
    <3>2. ~Updating /\ (Got(calls[d]) => calls[d].got.name = profiles[calls[d].got.user].name)
      BY <3>1 DEF Versions, StoresLatest
    <3>3. \A u \in User : profiles'[u].name = profiles[u].name
      BY <3>2 DEF Updating
    <3> QED BY <1>2, <1>6, <3>1, <3>2, <3>3
  <2> QED BY <2>1, <2>2
<1> QED BY <1>4, <1>5, <1>7 DEF Versions, StoresLatest

\* What holds of a running call before its step.
LEMMA VersionsOf ==
  ASSUME ProfileInductive, Versions, NEW c \in Call
  PROVE  /\ calls[c].gen \in Nat /\ calls[c].gen <= generation /\ generation \in Nat
         /\ Got(calls[c]) => /\ calls[c].got.user \in User
                             /\ calls[c].got.name <= profiles[calls[c].got.user].name
         /\ Storing(calls[c], generation) => ~Updating
         /\ Storing(calls[c], generation) /\ Got(calls[c]) =>
              calls[c].got.name = profiles[calls[c].got.user].name
         /\ cache.user \in User => cache.name <= profiles[cache.user].name
         /\ \A u \in User : profiles[u].name \in Nat
<1> QED BY CallRowOf
  DEF CallRow, Versions, NoNewerThanServer, PastGenerations, StoresLatest, Got, Right,
      ProfileInductive, ProfileType

\* A call that does not get anything new leaves the names as they are.
LEMMA VersionsQuiet ==
  ASSUME ProfileInductive, ProfileInductive', Versions,
         NEW c \in Call, Running(c), NEW r \in CallRow, Becomes(c, r),
         r.op = calls[c].op, r.gen <= generation,
         UNCHANGED <<cache, generation, profiles>>,
         ~Got(r), Storing(r, generation) => ~Updating
  PROVE  Versions'
<1>1. \A u \in User : profiles[u].name \in Nat
  BY VersionsOf
<1>2. cache'.user \in User => cache'.name <= profiles'[cache'.user].name
  BY VersionsOf
<1>3. \A u \in User : profiles[u].name <= profiles'[u].name /\ profiles'[u].name = profiles[u].name
  BY <1>1
<1> QED BY <1>2, <1>3, VersionsGoOn

\* A call that ends holds nothing back; it may have changed the cache or, when
\* it fails, the server.
LEMMA VersionsEnd ==
  ASSUME ProfileInductive, ProfileInductive', Versions,
         NEW c \in Call, Running(c), NEW pc \in {"done", "failed"}, NEW got \in Profiled,
         Ends(c, pc, got), generation' = generation,
         \A u \in User : profiles[u].name <= profiles'[u].name,
         calls[c].op = "update" \/ \A u \in User : profiles'[u].name = profiles[u].name,
         cache'.user \in User => cache'.name <= profiles'[cache'.user].name
  PROVE  Versions'
<1> DEFINE f == Fresh(calls[c].op, pc)
<1> DEFINE r == [f EXCEPT !.got = got]
<1>1. Becomes(c, r)
  BY DEF Ends
<1>2. calls[c].op \in {"get", "refresh", "update", "upload"} /\ NoEntry \in Profiled
  BY CallRowOf DEF NoEntry, Profiled, Someone
<1>3. f \in CallRow /\ f.pc = pc /\ f.op = calls[c].op /\ f.gen = 0
  BY <1>2 DEF Fresh, CallRow, Someone, Waiting
<1> HIDE DEF f
<1>4. r \in CallRow /\ r.pc = pc /\ r.op = calls[c].op /\ r.gen = 0
  BY <1>3 DEF CallRow
<1> HIDE DEF r
<1>5. ~Got(r) /\ ~Storing(r, generation) /\ r.gen <= generation
  BY <1>4, VersionsOf DEF Got, Storing
<1> QED BY <1>1, <1>4, <1>5, VersionsGoOn

LEMMA VersionsSame ==
  ASSUME ProfileInductive, Versions, UNCHANGED <<cache, profiles>>
  PROVE  /\ \A u \in User : profiles[u].name <= profiles'[u].name
         /\ \A u \in User : profiles'[u].name = profiles[u].name
         /\ cache'.user \in User => cache'.name <= profiles'[cache'.user].name
<1>1. \A u \in User : profiles[u].name \in Nat
  BY DEF ProfileInductive, ProfileType
<1> QED BY <1>1 DEF Versions, NoNewerThanServer

LEMMA VersionsMoveOn ==
  ASSUME ProfileInductive, ProfileInductive', Versions,
         NEW c \in Call, Running(c), NEW pc \in {"load", "askSet"}, Goes(c, pc),
         UNCHANGED <<cache, generation, profiles>>
  PROVE  Versions'
<1> DEFINE r == [calls[c] EXCEPT !.pc = pc]
<1>1. calls[c] \in CallRow /\ calls[c].gen <= generation
  BY CallRowOf, VersionsOf
<1>2. r \in CallRow /\ r.pc = pc /\ r.op = calls[c].op /\ r.gen = calls[c].gen
  BY <1>1 DEF CallRow, Waiting
<1>3. Becomes(c, r)
  BY DEF Goes
<1> HIDE DEF r
<1>4. ~Got(r) /\ ~Storing(r, generation)
  BY <1>2 DEF Got, Storing
<1> QED BY <1>1, <1>2, <1>3, <1>4, VersionsQuiet

LEMMA LooksKeepVersions ==
  ASSUME ProfileInductive, ProfileInductive', Versions, NEW c \in Call,
         ReadsUser(c) \/ ReadsCache(c)
  PROVE  Versions'
<1>1. CASE ReadsUser(c)
  <2>1. Running(c) /\ UNCHANGED <<cache, generation, profiles>>
    BY <1>1 DEF ReadsUser, At, Running, Waiting
  <2>2. CASE user = NoUser
    BY <1>1, <2>1, <2>2, VersionsMoveOn DEF ReadsUser
  <2>3. CASE user # NoUser
    <3> DEFINE r == [calls[c] EXCEPT !.id = user, !.pc = "read"]
    <3>1. calls[c] \in CallRow /\ calls[c].gen <= generation /\ user \in Someone
      BY CallRowOf, VersionsOf
    <3>2. r \in CallRow /\ r.pc = "read" /\ r.op = calls[c].op /\ r.gen = calls[c].gen
      BY <3>1 DEF CallRow, Waiting
    <3>3. Becomes(c, r)
      BY <1>1, <2>3 DEF ReadsUser
    <3> HIDE DEF r
    <3>4. ~Got(r) /\ ~Storing(r, generation)
      BY <3>2 DEF Got, Storing
    <3> QED BY <2>1, <3>1, <3>2, <3>3, <3>4, VersionsQuiet
  <2> QED BY <2>2, <2>3
<1>2. CASE ReadsCache(c)
  <2>1. Running(c) /\ UNCHANGED <<cache, generation, profiles>> /\ cache \in Profiled
    BY <1>2, CallRowOf DEF ReadsCache, At, Running, Waiting
  <2>2. CASE Hit(c)
    BY <1>2, <2>1, <2>2, VersionsEnd, VersionsSame DEF ReadsCache
  <2>3. CASE ~Hit(c)
    BY <1>2, <2>1, <2>3, VersionsMoveOn DEF ReadsCache
  <2> QED BY <2>2, <2>3
<1> QED BY <1>1, <1>2

LEMMA AsksKeepVersions ==
  ASSUME ProfileInductive, ProfileInductive', Versions, NEW c \in Call,
         LoadsGeneration(c) \/ Sends(c)
  PROVE  Versions'
<1>1. CASE LoadsGeneration(c)
  <2> DEFINE u == Updating
  <2> DEFINE r == [calls[c] EXCEPT !.gen = generation, !.late = u, !.pc = "ask"]
  <2>1. Running(c) /\ Becomes(c, r) /\ UNCHANGED <<cache, generation, profiles>>
    BY <1>1 DEF LoadsGeneration, At, Running, Waiting
  <2>2. calls[c] \in CallRow /\ generation \in Nat
    BY CallRowOf
  <2>3. u \in BOOLEAN /\ (Updating => u)
    BY DEF Updating
  <2> HIDE DEF u
  <2>4. r \in CallRow /\ r.pc = "ask" /\ r.op = calls[c].op /\ r.gen = generation
    BY <2>2, <2>3 DEF CallRow, Waiting
  <2>5. u => r.late
    BY <2>2, <2>3 DEF CallRow
  <2> HIDE DEF r
  <2>6. ~Got(r) /\ (Storing(r, generation) => ~Updating) /\ r.gen <= generation
    BY <2>2, <2>3, <2>4, <2>5 DEF Got, Storing
  <2> QED BY <2>1, <2>4, <2>6, VersionsQuiet
<1>2. CASE Sends(c)
  <2>1. Running(c) /\ UNCHANGED <<cache, generation, profiles>>
    BY <1>2 DEF Sends, Running, Waiting
  <2>2. CASE user = NoUser
    <3>1. NoEntry \in Profiled
      BY DEF NoEntry, Profiled, Someone
    <3> QED BY <1>2, <2>1, <2>2, <3>1, VersionsEnd, VersionsSame DEF Sends
  <2>3. CASE user # NoUser
    <3> DEFINE pc == IF At(c, "ask") THEN "sent" ELSE "sentSet"
    <3> DEFINE r == [calls[c] EXCEPT !.as = user, !.pc = pc]
    <3>1. calls[c] \in CallRow /\ user \in Someone /\ calls[c].gen <= generation
      BY CallRowOf, VersionsOf
    <3>2. Becomes(c, r) /\ pc \in {"sent", "sentSet"}
          /\ (pc = "sent" => calls[c].pc = "ask")
      BY <1>2, <2>3 DEF Sends, At
    <3> HIDE DEF pc
    <3>3. /\ r \in CallRow /\ r.pc = pc /\ r.op = calls[c].op /\ r.gen = calls[c].gen
          /\ r.late = calls[c].late
      BY <3>1, <3>2 DEF CallRow, Waiting
    <3> HIDE DEF r
    <3>4. ~Got(r) /\ (Storing(r, generation) => Storing(calls[c], generation))
      BY <3>2, <3>3 DEF Got, Storing
    <3> QED BY <2>1, <3>1, <3>2, <3>3, <3>4, VersionsOf, VersionsQuiet
  <2> QED BY <2>2, <2>3
<1> QED BY <1>1, <1>2

\* The names after the server has done its part for user u.
LEMMA NamesGrow ==
  ASSUME ProfileInductive, NEW u \in User
  PROVE  /\ \A v \in User : [profiles EXCEPT ![u].name = @ + 1][v].name
                            = IF v = u THEN profiles[u].name + 1 ELSE profiles[v].name
         /\ \A v \in User : [profiles EXCEPT ![u].avatar = @ + 1][v].name = profiles[v].name
         /\ \A v \in User : profiles[v].name \in Nat
<1> DEFINE n == [profiles[u] EXCEPT !.name = @ + 1]
           a == [profiles[u] EXCEPT !.avatar = @ + 1]
<1>1. profiles[u] \in [name : Nat, avatar : Nat]
      /\ profiles \in [User -> [name : Nat, avatar : Nat]]
  BY DEF ProfileInductive, ProfileType
<1>2. n.name = profiles[u].name + 1 /\ a.name = profiles[u].name
  BY <1>1
<1>3. /\ [profiles EXCEPT ![u].name = @ + 1] = [profiles EXCEPT ![u] = n]
      /\ [profiles EXCEPT ![u].avatar = @ + 1] = [profiles EXCEPT ![u] = a]
  BY <1>1
<1> HIDE DEF n, a
<1> QED BY <1>1, <1>2, <1>3

LEMMA ServedKeepsVersions ==
  ASSUME ProfileInductive, ProfileInductive', Versions, NEW c \in Call, Served(c)
  PROVE  Versions'
<1> DEFINE u == calls[c].as
<1>1. Running(c) /\ calls[c].pc \in {"sent", "sentSet"} /\ UNCHANGED <<cache, generation>>
  BY DEF Served, At, Running, Waiting
<1>2. calls[c] \in CallRow /\ u \in User /\ NoUser \in Someone /\ calls[c].gen <= generation
  BY <1>1, CallRowOf, VersionsOf DEF Right, Someone
<1>3. /\ Entry(u) \in Profiled
      /\ [Entry(u) EXCEPT !.name = @ + 1] \in Profiled
      /\ [Entry(u) EXCEPT !.avatar = @ + 1] \in Profiled
  BY <1>2, EntryOf
<1>4. /\ Entry(u).user = u /\ Entry(u).name = profiles[u].name
      /\ [Entry(u) EXCEPT !.name = @ + 1].user = u
      /\ [Entry(u) EXCEPT !.name = @ + 1].name = profiles[u].name + 1
  BY <1>2, EntryOf DEF Entry
<1>5. CASE /\ calls[c].pc = "sent" /\ calls[c].op \in {"get", "refresh"}
           /\ profiles' = profiles
           /\ Becomes(c, [calls[c] EXCEPT !.got = Entry(u), !.as = NoUser, !.pc = "check"])
  <2> DEFINE g == Entry(u)
  <2> HIDE DEF g
  <2> DEFINE r == [calls[c] EXCEPT !.got = g, !.as = NoUser, !.pc = "check"]
  <2>1. g \in Profiled /\ g.user = u /\ g.name = profiles[u].name /\ Becomes(c, r)
    BY <1>3, <1>4, <1>5 DEF g
  <2>2. /\ r \in CallRow /\ r.pc = "check" /\ r.op = calls[c].op /\ r.gen = calls[c].gen
        /\ r.late = calls[c].late /\ r.got = g
    BY <1>2, <2>1 DEF CallRow, Waiting
  <2> HIDE DEF r, u
  <2>3. Storing(r, generation) => Storing(calls[c], generation)
    BY <1>5, <2>2 DEF Storing
  <2>4. Storing(r, generation) => ~Updating
    BY <2>3, VersionsOf
  <2>5. r.got.name <= profiles'[r.got.user].name /\ r.got.name = profiles'[r.got.user].name
    BY <1>2, <1>5, <2>1, <2>2, NamesGrow
  <2> QED BY <1>1, <1>2, <1>5, <2>1, <2>2, <2>4, <2>5, VersionsSame, VersionsGoOn
<1>6. CASE /\ calls[c].op = "update"
           /\ profiles' = [profiles EXCEPT ![u].name = @ + 1]
           /\ Becomes(c, [calls[c] EXCEPT !.got = [Entry(u) EXCEPT !.name = @ + 1], !.pc = "store"])
  <2> DEFINE g == [Entry(u) EXCEPT !.name = @ + 1]
  <2> DEFINE r == [calls[c] EXCEPT !.got = g, !.pc = "store"]
  <2>1. g \in Profiled /\ g.user = u /\ g.name = profiles[u].name + 1 /\ Becomes(c, r)
    BY <1>3, <1>4, <1>6
  <2> HIDE DEF g
  <2>2. /\ r \in CallRow /\ r.pc = "store" /\ r.op = calls[c].op /\ r.gen = calls[c].gen
        /\ r.got = g
    BY <1>2, <2>1 DEF CallRow, Waiting
  <2> HIDE DEF r, u
  <2>3. \A v \in User : profiles[v].name <= profiles'[v].name
    BY <1>2, <1>6, NamesGrow
  <2>4. r.got.name <= profiles'[r.got.user].name
    BY <1>2, <1>6, <2>1, <2>2, NamesGrow
  <2>5. cache'.user \in User => cache'.name <= profiles'[cache'.user].name
    BY <1>1, <2>3, VersionsOf, CallRowOf, NamesGrow, <1>2, <1>6 DEF Profiled
  <2>6. ~Storing(r, generation)
    BY <1>6, <2>2 DEF Storing
  <2> QED BY <1>1, <1>2, <1>6, <2>1, <2>2, <2>3, <2>4, <2>5, <2>6, VersionsGoOn
<1>7. CASE profiles' = profiles /\ Goes(c, "askSet")
  BY <1>1, <1>7, VersionsMoveOn
<1>8. CASE profiles' = [profiles EXCEPT ![u].avatar = @ + 1]
           /\ Becomes(c, [calls[c] EXCEPT !.got = [Entry(u) EXCEPT !.avatar = @ + 1], !.pc = "own"])
  <2> DEFINE g == [Entry(u) EXCEPT !.avatar = @ + 1]
  <2> DEFINE r == [calls[c] EXCEPT !.got = g, !.pc = "own"]
  <2>1. g \in Profiled /\ Becomes(c, r)
    BY <1>3, <1>8
  <2> HIDE DEF g
  <2>2. r \in CallRow /\ r.pc = "own" /\ r.op = calls[c].op /\ r.gen = calls[c].gen
    BY <1>2, <2>1 DEF CallRow, Waiting
  <2> HIDE DEF r, u
  <2>3. \A v \in User : profiles[v].name <= profiles'[v].name /\ profiles'[v].name = profiles[v].name
    BY <1>2, <1>8, NamesGrow
  <2>4. cache'.user \in User => cache'.name <= profiles'[cache'.user].name
    BY <1>1, <2>3, VersionsOf
  <2>5. ~Got(r) /\ ~Storing(r, generation)
    BY <2>2 DEF Got, Storing
  <2> QED BY <1>1, <1>2, <2>1, <2>2, <2>3, <2>4, <2>5, VersionsGoOn
<1> QED BY <1>5, <1>6, <1>7, <1>8 DEF Served, At

LEMMA FailsKeepsVersions ==
  ASSUME ProfileInductive, ProfileInductive', Versions, NEW c \in Call, Fails(c)
  PROVE  Versions'
<1> DEFINE u == calls[c].as
<1>1. Running(c) /\ NoEntry \in Profiled /\ Ends(c, "failed", NoEntry)
      /\ UNCHANGED <<cache, generation>>
  BY DEF Fails, Running, Waiting, NoEntry, Profiled, Someone
<1>2. calls[c].pc \in {"sent", "sentSet"} => u \in User
  BY CallRowOf DEF Right
<1>3. \/ profiles' = profiles
      \/ u \in User /\ calls[c].op = "update" /\ profiles' = [profiles EXCEPT ![u].name = @ + 1]
      \/ u \in User /\ profiles' = [profiles EXCEPT ![u].avatar = @ + 1]
  BY <1>2 DEF Fails, At
<1> HIDE DEF u
<1>4. /\ \A v \in User : profiles[v].name <= profiles'[v].name
      /\ calls[c].op = "update" \/ \A v \in User : profiles'[v].name = profiles[v].name
      /\ \A v \in User : profiles[v].name \in Nat /\ profiles'[v].name \in Nat
  BY <1>3, NamesGrow, VersionsOf DEF ProfileInductive, ProfileType
<1>5. cache'.user \in User => cache'.name <= profiles'[cache'.user].name
  BY <1>1, <1>4, VersionsOf, CallRowOf DEF Profiled
<1> QED BY <1>1, <1>4, <1>5, VersionsEnd

LEMMA ComparesKeepsVersions ==
  ASSUME ProfileInductive, ProfileInductive', Versions, NEW c \in Call, Compares(c)
  PROVE  Versions'
<1>1. Running(c) /\ calls[c].pc = "check" /\ UNCHANGED <<cache, generation, profiles>>
      /\ calls[c] \in CallRow /\ calls[c].got \in Profiled /\ calls[c].gen <= generation
  BY CallRowOf, VersionsOf DEF Compares, At, Running, Waiting
<1>2. CASE Unraised(c)
  <2> DEFINE r == [calls[c] EXCEPT !.pc = "store"]
  <2>1. Becomes(c, r)
    BY <1>2 DEF Compares, Goes
  <2>2. /\ r \in CallRow /\ r.pc = "store" /\ r.op = calls[c].op /\ r.gen = calls[c].gen
        /\ r.late = calls[c].late /\ r.got = calls[c].got
    BY <1>1 DEF CallRow, Waiting
  <2> HIDE DEF r
  <2>3. Storing(r, generation) => Storing(calls[c], generation)
    BY <1>1, <1>2, <2>2 DEF Storing, Unraised
  <2>4. Got(calls[c])
    BY <1>1 DEF Got
  <2> QED BY <1>1, <2>1, <2>2, <2>3, <2>4, VersionsOf, VersionsSame, VersionsGoOn
<1>3. CASE ~Unraised(c)
  BY <1>1, <1>3, VersionsEnd, VersionsSame DEF Compares
<1> QED BY <1>2, <1>3

LEMMA StoresKeepsVersions ==
  ASSUME ProfileInductive, ProfileInductive', Versions, NEW c \in Call,
         Stores(c) \/ Owns(c) \/ Paints(c)
  PROVE  Versions'
<1>1. /\ calls[c] \in CallRow /\ calls[c].got \in Profiled /\ calls[c].gen <= generation
      /\ \A u \in User : profiles[u].name \in Nat
  BY CallRowOf, VersionsOf
<1>2. CASE Stores(c)
  <2>1. Running(c) /\ Got(calls[c]) /\ UNCHANGED <<generation, profiles>>
        /\ cache' = calls[c].got
    BY <1>2 DEF Stores, At, Running, Waiting, Got
  <2>2. /\ \A u \in User : profiles[u].name <= profiles'[u].name
        /\ \A u \in User : profiles'[u].name = profiles[u].name
    BY <1>1, <2>1
  <2>3. cache'.user \in User => cache'.name <= profiles'[cache'.user].name
    BY <2>1, VersionsOf
  <2> QED BY <1>1, <1>2, <2>1, <2>2, <2>3, VersionsEnd DEF Stores
<1>3. CASE Owns(c)
  <2>1. Running(c) /\ UNCHANGED <<cache, generation, profiles>>
    BY <1>3 DEF Owns, At, Running, Waiting
  <2>2. CASE user = NoUser
    BY <1>1, <1>3, <2>1, <2>2, VersionsEnd, VersionsSame DEF Owns
  <2>3. CASE user # NoUser
    <3> DEFINE r == [calls[c] EXCEPT !.id = user, !.pc = "paint"]
    <3>1. user \in Someone
      BY CallRowOf
    <3>2. r \in CallRow /\ r.pc = "paint" /\ r.op = calls[c].op /\ r.gen = calls[c].gen
      BY <1>1, <3>1 DEF CallRow, Waiting
    <3>3. Becomes(c, r)
      BY <1>3, <2>3 DEF Owns
    <3> HIDE DEF r
    <3>4. ~Got(r) /\ ~Storing(r, generation)
      BY <3>2 DEF Got, Storing
    <3> QED BY <1>1, <2>1, <3>2, <3>3, <3>4, VersionsQuiet
  <2> QED BY <2>2, <2>3
<1>4. CASE Paints(c)
  <2>1. Running(c) /\ UNCHANGED <<generation, profiles>> /\ cache \in Profiled
    BY <1>4, CallRowOf DEF Paints, At, Running, Waiting
  <2>2. cache'.user = cache.user /\ cache'.name = cache.name
    <3>1. LET n == [cache EXCEPT !.avatar = calls[c].got.avatar]
          IN n.user = cache.user /\ n.name = cache.name
      BY <2>1 DEF Profiled
    <3> QED BY <1>4, <3>1 DEF Paints
  <2>3. /\ \A u \in User : profiles[u].name <= profiles'[u].name
        /\ \A u \in User : profiles'[u].name = profiles[u].name
    BY <1>1, <2>1
  <2>4. cache'.user \in User => cache'.name <= profiles'[cache'.user].name
    BY <2>1, <2>2, VersionsOf
  <2> QED BY <1>1, <1>4, <2>1, <2>3, <2>4, VersionsEnd DEF Paints
<1> QED BY <1>2, <1>3, <1>4

\* An update that begins takes their chance from the refreshes that have not
\* compared yet, and is too late for one that has.
LEMMA StartKeepsVersions ==
  ASSUME ProfileInductive, ProfileInductive', Versions, NEW c \in Call, Start(c)
  PROVE  Versions'
<1>1. PICK op \in Calls[c] :
        /\ calls[c].pc = "new"
        /\ calls' = [d \in Call |->
             IF d = c THEN Fresh(op, First(op))
             ELSE [calls[d] EXCEPT !.late = @ \/ (op = "update" /\ At(d, "store"))]]
        /\ generation' = IF op = "update" THEN generation + 1 ELSE generation
        /\ UNCHANGED <<cache, profiles>>
  BY DEF Start, At
<1>2. op \in {"get", "refresh", "update", "upload"}
  BY ProfileAssumption
<1> DEFINE n == Fresh(op, First(op))
<1>3. n.gen = 0 /\ n.op = op /\ n.pc = First(op)
  BY DEF Fresh
<1>4. calls'[c] = n
  BY <1>1
<1> HIDE DEF n
<1>5. ~Got(n) /\ ~Storing(n, generation')
  BY <1>2, <1>3 DEF First, Got, Storing
<1>6. \A d \in Call \ {c} :
        /\ calls'[d].pc = calls[d].pc /\ calls'[d].op = calls[d].op
        /\ calls'[d].gen = calls[d].gen /\ calls'[d].got = calls[d].got
        /\ ~calls'[d].late => ~calls[d].late /\ ~(op = "update" /\ calls[d].pc = "store")
  <2> TAKE d \in Call \ {c}
  <2> DEFINE l == calls[d].late \/ (op = "update" /\ At(d, "store"))
  <2>1. calls[d] \in CallRow /\ l \in BOOLEAN
        /\ (~l => ~calls[d].late /\ ~(op = "update" /\ calls[d].pc = "store"))
    BY CallRowOf DEF CallRow, At
  <2>2. calls'[d] = [calls[d] EXCEPT !.late = l]
    BY <1>1
  <2> HIDE DEF l
  <2>3. /\ calls'[d].pc = calls[d].pc /\ calls'[d].op = calls[d].op
        /\ calls'[d].gen = calls[d].gen /\ calls'[d].got = calls[d].got
        /\ calls'[d].late = l
    BY <2>1, <2>2 DEF CallRow
  <2> QED BY <2>1, <2>3
<1>7. \A d \in Call : calls[d].gen \in Nat /\ calls[d].gen <= generation /\ generation \in Nat
  BY VersionsOf
<1>8. generation <= generation' /\ generation' \in Nat
  BY <1>1, <1>7 DEF ProfileInductive, ProfileType
<1>9. NoNewerThanServer'
  BY <1>1, <1>4, <1>5, <1>6 DEF Versions, NoNewerThanServer, Got
<1>10. PastGenerations'
  <2> SUFFICES ASSUME NEW d \in Call PROVE calls'[d].gen <= generation'
    BY DEF PastGenerations
  <2> QED BY <1>3, <1>4, <1>6, <1>7, <1>8
<1>11. ASSUME NEW d \in Call, Storing(calls'[d], generation')
       PROVE  /\ ~Updating'
              /\ Got(calls'[d]) => calls'[d].got.name = profiles'[calls'[d].got.user].name
  <2>1. d # c
    BY <1>4, <1>5, <1>11
  <2>2. /\ calls[d].op \in {"get", "refresh"}
        /\ calls[d].pc \in {"ask", "sent", "check", "store"}
        /\ ~calls[d].late /\ ~(op = "update" /\ calls[d].pc = "store")
        /\ calls[d].pc = "store" \/ calls[d].gen = generation'
    BY <1>6, <1>11, <2>1 DEF Storing
  <2>3. op # "update"
    BY <1>1, <1>7, <2>2
  <2>4. Storing(calls[d], generation)
    BY <1>1, <2>2, <2>3 DEF Storing
  <2>5. ~Updating'
    <3>1. ~Updating
      BY <2>4, VersionsOf
    <3> QED BY <1>3, <1>4, <1>6, <2>3, <3>1 DEF Updating, Running
  <2>6. Got(calls'[d]) => calls'[d].got.name = profiles'[calls'[d].got.user].name
    BY <1>1, <1>6, <2>1, <2>4, VersionsOf DEF Got
  <2> QED BY <2>5, <2>6
<1> QED BY <1>9, <1>10, <1>11 DEF Versions, StoresLatest

LEMMA SignsKeepVersions ==
  ASSUME ProfileInductive, Versions, SignStep \/ ConfiguresAgain
  PROVE  Versions'
<1>1. /\ UNCHANGED <<profiles, calls>>
      /\ cache' \in {cache, NoEntry}
      /\ generation' \in {generation, generation + 1}
  BY DEF SignStep, SignIn, SignOut, ClearRaises, ClearEmpties, ConfiguresAgain
<1>2. \A c \in Call : calls[c].gen \in Nat /\ calls[c].gen <= generation /\ generation \in Nat
  BY VersionsOf
<1>3. NoNewerThanServer'
  <2>1. NoEntry.user \notin User
    BY UserAssumption DEF NoEntry
  <2> QED BY <1>1, <2>1 DEF Versions, NoNewerThanServer
<1>4. PastGenerations'
  BY <1>1, <1>2 DEF PastGenerations
<1>5. \A c \in Call : Storing(calls[c], generation') => Storing(calls[c], generation)
  BY <1>1, <1>2 DEF Storing
<1>6. StoresLatest'
  BY <1>1, <1>5 DEF Versions, StoresLatest, Updating, Running
<1> QED BY <1>3, <1>4, <1>6 DEF Versions

(* The generation does its work: as long as a refresh may still store, no  *)
(* update runs, and the refresh has the latest profile of its user.        *)
THEOREM VersionsInductive == Spec => []Versions
<1>1. Init => Versions
  BY VersionsStart DEF Init
<1>2. Versions /\ ProfileInductive /\ ProfileInductive' /\ [Next]_vars => Versions'
  <2> SUFFICES ASSUME Versions, ProfileInductive, ProfileInductive', [Next]_vars
               PROVE  Versions'
    OBVIOUS
  <2>1. ASSUME NEW c \in Call, ProfileStep(c) PROVE Versions'
    BY <2>1, StartKeepsVersions, LooksKeepVersions, AsksKeepVersions, ServedKeepsVersions,
       FailsKeepsVersions, ComparesKeepsVersions, StoresKeepsVersions DEF ProfileStep
  <2>2. ASSUME UNCHANGED pvars PROVE Versions'
    BY <2>2 DEF pvars, Versions, NoNewerThanServer, PastGenerations, StoresLatest, Updating, Running
  <2>3. CASE Profile
    BY <2>1, <2>3, SignsKeepVersions DEF Profile
  <2>4. CASE Channel
    BY <2>2, <2>4 DEF Channel
  <2>5. CASE SignStep
    BY <2>5, SignsKeepVersions
  <2>6. CASE UNCHANGED vars
    BY <2>2, <2>6 DEF vars
  <2> QED BY <2>3, <2>4, <2>5, <2>6 DEF Next
<1> QED BY <1>1, <1>2, ProfilesInductive, PTL DEF Spec

(* Whatever refreshes and updates overlap, an older profile does not take   *)
(* the place of a newer one of the same user, but for the two cases that    *)
(* the property leaves out.                                                 *)
THEOREM OlderRefreshesLose == Spec => []OlderRefreshOverwritesNothing
<1>1. ProfileInductive /\ Versions => OlderRefreshOverwritesNothing
  <2> SUFFICES ASSUME ProfileInductive, Versions, NEW c \in Call,
                      At(c, "store"), calls[c].op \in {"get", "refresh"}, ~calls[c].late,
                      cache.user = calls[c].got.user
               PROVE  cache.name <= calls[c].got.name
    BY DEF OlderRefreshOverwritesNothing
  <2>1. Storing(calls[c], generation) /\ Got(calls[c])
    BY DEF Storing, Got, At
  <2> QED BY <2>1, VersionsOf
<1> QED BY <1>1, ProfilesInductive, VersionsInductive, PTL

----------------------------------------------------------------------------
(* The workers                                                             *)

WorkerRow == [user : User, config : Config, cancelled : BOOLEAN, token : Someone,
              pc : {"connecting", "joining", "joined", "waiting"}]

\* Numbers are given once, in the order of the commands.
WorkersType ==
  /\ commands \in Nat
  /\ current \in 0 .. commands
  /\ config \in Config \cup {NoConfig}
  /\ stream \in Someone
  /\ DOMAIN workers \subseteq 1 .. commands
  /\ workers \in [DOMAIN workers -> WorkerRow]

WorkersInductive == user \in Someone /\ WorkersType /\ OneWorker

LEMMA WorkersStart ==
  ASSUME ProfileInit, RealtimeInit
  PROVE  WorkersInductive
<1> QED BY DEF ProfileInit, RealtimeInit, WorkersInductive, WorkersType, OneWorker, Someone

\* The tasks that are left after a command, all of them told to end.
LEMMA StoppedAll ==
  ASSUME WorkersInductive
  PROVE  /\ DOMAIN Stopped = DOMAIN workers
         /\ Stopped \in [DOMAIN workers -> WorkerRow]
         /\ \A w \in DOMAIN workers : Stopped[w].cancelled
<1> SUFFICES ASSUME NEW w \in DOMAIN workers
             PROVE  Stopped[w] \in WorkerRow /\ Stopped[w].cancelled
  BY DEF Stopped
<1>1. workers[w] \in WorkerRow
  BY DEF WorkersInductive, WorkersType
<1>2. CASE w = current
  <2> DEFINE r == [workers[w] EXCEPT !.cancelled = TRUE]
  <2>1. r \in WorkerRow /\ r.cancelled
    BY <1>1 DEF WorkerRow
  <2>2. Stopped[w] = r
    BY <1>2 DEF Stopped
  <2> HIDE DEF r
  <2> QED BY <2>1, <2>2
<1>3. CASE w # current
  BY <1>1, <1>3 DEF Stopped, WorkersInductive, OneWorker
<1> QED BY <1>2, <1>3

LEMMA RestartKeeps ==
  ASSUME WorkersInductive, NEW c \in Config \cup {NoConfig}, NEW u \in Someone,
         commands' = commands + 1, config' = c, stream' = u, Restart(c, u),
         user' = user
  PROVE  WorkersInductive'
<1> DEFINE n == commands + 1
<1>1. n \in Nat /\ n \notin DOMAIN workers /\ n >= 1 /\ DOMAIN workers \subseteq 1 .. n
      /\ user' \in Someone
  BY DEF WorkersInductive, WorkersType
<1>2. CASE c # NoConfig /\ u # NoUser
  <2> DEFINE r == [user |-> u, config |-> c, cancelled |-> FALSE, token |-> NoUser,
                   pc |-> "connecting"]
  <2>1. c \in Config /\ u \in User /\ NoUser \in Someone
    BY <1>2 DEF Someone
  <2>2. r \in WorkerRow /\ r.user = u /\ r.config = c
    BY <2>1 DEF WorkerRow
  <2>3. /\ current' = n
        /\ workers' = [w \in DOMAIN workers \cup {n} |-> IF w = n THEN r ELSE Stopped[w]]
    BY <1>2 DEF Restart
  <2> HIDE DEF r
  <2>4. /\ DOMAIN workers' = DOMAIN workers \cup {n}
        /\ workers' \in [DOMAIN workers \cup {n} -> WorkerRow]
        /\ workers'[n] = r
        /\ \A w \in DOMAIN workers : workers'[w] = Stopped[w]
    BY <1>1, <2>2, <2>3, StoppedAll
  <2>5. WorkersType'
    BY <1>1, <2>3, <2>4 DEF WorkersType
  <2>6. OneWorker'
    BY <2>2, <2>3, <2>4, StoppedAll DEF OneWorker
  <2> QED BY <1>1, <2>5, <2>6 DEF WorkersInductive
<1>3. CASE ~(c # NoConfig /\ u # NoUser)
  <2>1. current' = 0 /\ workers' = Stopped
    BY <1>3 DEF Restart
  <2>2. WorkersType'
    BY <1>1, <2>1, StoppedAll DEF WorkersType
  <2>3. OneWorker'
    BY <2>1, StoppedAll DEF OneWorker
  <2> QED BY <1>1, <2>2, <2>3 DEF WorkersInductive
<1> QED BY <1>2, <1>3

LEMMA ManagerKeeps ==
  ASSUME WorkersInductive, ManagerStep, user' = user
  PROVE  WorkersInductive'
<1>1. ASSUME NEW c \in Config \cup {NoConfig}, Configure(c) PROVE WorkersInductive'
  <2>1. stream \in Someone
    BY DEF WorkersInductive, WorkersType
  <2> QED BY <1>1, <2>1, RestartKeeps DEF Configure, Command
<1>2. ASSUME NEW u \in User, StartUserStream(u) PROVE WorkersInductive'
  <2>1. config \in Config \cup {NoConfig} /\ u \in Someone
    BY DEF WorkersInductive, WorkersType, Someone
  <2> QED BY <1>2, <2>1, RestartKeeps DEF StartUserStream, Command
<1>3. CASE Stop
  <2>1. /\ commands' = commands + 1 /\ stream' = NoUser /\ current' = 0
        /\ workers' = Stopped /\ config' = config
    BY <1>3 DEF Stop, Command
  <2>2. commands' \in Nat /\ DOMAIN workers \subseteq 1 .. commands'
    BY <2>1 DEF WorkersInductive, WorkersType
  <2>3. WorkersType'
    BY <2>1, <2>2, StoppedAll DEF WorkersInductive, WorkersType, Someone
  <2>4. OneWorker'
    BY <2>1, StoppedAll DEF OneWorker
  <2> QED BY <2>3, <2>4 DEF WorkersInductive
<1> QED BY <1>1, <1>2, <1>3 DEF ManagerStep

\* A step of a worker that stays there, for the same session.
LEMMA WorkerGoesOn ==
  ASSUME WorkersInductive, NEW w \in DOMAIN workers, NEW r \in WorkerRow, Step(w, r),
         r.user = workers[w].user, r.config = workers[w].config,
         r.cancelled = workers[w].cancelled, user' = user
  PROVE  WorkersInductive'
<1>1. workers' = [workers EXCEPT ![w] = r] /\ workers \in [DOMAIN workers -> WorkerRow]
      /\ UNCHANGED <<config, stream, current, commands>>
  BY DEF Step, WorkersInductive, WorkersType
<1>2. DOMAIN workers' = DOMAIN workers /\ workers' \in [DOMAIN workers -> WorkerRow]
      /\ \A v \in DOMAIN workers : workers'[v] = IF v = w THEN r ELSE workers[v]
  BY <1>1
<1>3. WorkersType'
  BY <1>1, <1>2 DEF WorkersInductive, WorkersType
<1>4. OneWorker'
  BY <1>1, <1>2 DEF WorkersInductive, OneWorker
<1> QED BY <1>3, <1>4 DEF WorkersInductive

LEMMA WorkerEnds ==
  ASSUME WorkersInductive, NEW w, workers' = Without(w),
         UNCHANGED <<config, stream, current, commands>>, user' = user
  PROVE  WorkersInductive'
<1>1. /\ DOMAIN workers' = DOMAIN workers \ {w}
      /\ workers' \in [DOMAIN workers \ {w} -> WorkerRow]
      /\ \A v \in DOMAIN workers \ {w} : workers'[v] = workers[v]
  BY DEF Without, WorkersInductive, WorkersType
<1> QED BY <1>1 DEF WorkersInductive, WorkersType, OneWorker

LEMMA WorkerStepKeeps ==
  ASSUME WorkersInductive, NEW w \in DOMAIN workers, WorkerStep(w), user' = user
  PROVE  WorkersInductive'
<1>1. workers[w] \in WorkerRow /\ user \in Someone
  BY DEF WorkersInductive, WorkersType
<1>2. CASE Returns(w) \/ Vanishes(w)
  BY <1>2, WorkerEnds DEF Returns, Vanishes
<1>3. CASE Connects(w)
  <2> DEFINE k == IF user # NoUser THEN user ELSE workers[w].user
             r == [workers[w] EXCEPT !.pc = "joining", !.token = k]
  <2>1. k \in Someone
    BY <1>1 DEF WorkerRow, Someone
  <2>2. Step(w, r)
    BY <1>3 DEF Connects
  <2> HIDE DEF k
  <2>3. /\ r \in WorkerRow /\ r.user = workers[w].user /\ r.config = workers[w].config
        /\ r.cancelled = workers[w].cancelled
    BY <1>1, <2>1 DEF WorkerRow
  <2> HIDE DEF r
  <2> QED BY <2>2, <2>3, WorkerGoesOn
<1>4. CASE Joins(w) \/ JoinTimesOut(w) \/ Errs(w) \/ WakesUp(w)
  <2>1. PICK pc \in {"connecting", "joining", "joined", "waiting"} :
          Step(w, [workers[w] EXCEPT !.pc = pc])
    BY <1>4 DEF Joins, JoinTimesOut, Errs, WakesUp
  <2> DEFINE r == [workers[w] EXCEPT !.pc = pc]
  <2>2. /\ r \in WorkerRow /\ r.user = workers[w].user /\ r.config = workers[w].config
        /\ r.cancelled = workers[w].cancelled
    BY <1>1 DEF WorkerRow
  <2>3. Step(w, r)
    BY <2>1
  <2> HIDE DEF r
  <2> QED BY <2>2, <2>3, WorkerGoesOn
<1>5. CASE Beats(w)
  <2> DEFINE r == [workers[w] EXCEPT !.token = user]
  <2>1. /\ r \in WorkerRow /\ r.user = workers[w].user /\ r.config = workers[w].config
        /\ r.cancelled = workers[w].cancelled
    BY <1>1 DEF WorkerRow
  <2>2. Step(w, r)
    BY <1>5 DEF Beats
  <2> HIDE DEF r
  <2> QED BY <2>1, <2>2, WorkerGoesOn
<1> QED BY <1>2, <1>3, <1>4, <1>5 DEF WorkerStep

LEMMA WorkersUnchanged ==
  ASSUME WorkersInductive, UNCHANGED rvars, user' \in Someone
  PROVE  WorkersInductive'
<1> QED BY DEF rvars, WorkersInductive, WorkersType, OneWorker

(* The inductive invariant of the workers: numbers are not given again, and *)
(* whoever is not told to end is the manager's current worker.              *)
THEOREM WorkersAreTracked == Spec => []WorkersInductive
<1>1. Init => WorkersInductive
  BY WorkersStart DEF Init
<1>2. WorkersInductive /\ ProfileInductive' /\ [Next]_vars => WorkersInductive'
  <2> SUFFICES ASSUME WorkersInductive, ProfileInductive', [Next]_vars
               PROVE  WorkersInductive'
    OBVIOUS
  <2>1. user' \in Someone
    BY DEF ProfileInductive, ProfileType
  <2>2. CASE Profile
    BY <2>1, <2>2, WorkersUnchanged DEF Profile
  <2>3. CASE Channel
    BY <2>3, ManagerKeeps, WorkerStepKeeps DEF Channel, pvars
  <2>4. CASE SignStep /\ UNCHANGED rvars
    BY <2>1, <2>4, WorkersUnchanged
  <2>5. CASE UNCHANGED vars
    BY <2>1, <2>5, WorkersUnchanged DEF vars
  <2> QED BY <2>2, <2>3, <2>4, <2>5 DEF Next
<1> QED BY <1>1, <1>2, ProfilesInductive, PTL DEF Spec

(* However configurations and sessions come and go, no worker is left       *)
(* running for an older one.                                                *)
THEOREM NoStrayWorker == Spec => []OneWorker
<1>1. WorkersInductive => OneWorker
  BY DEF WorkersInductive
<1> QED BY <1>1, WorkersAreTracked, PTL
=============================================================================
