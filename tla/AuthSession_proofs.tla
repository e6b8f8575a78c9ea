-------------------------- MODULE AuthSession_proofs --------------------------
(* Theorems about AuthSession, for any users, overlapping calls and bounds. *)
EXTENDS AuthSession, TLAPS

Writing == {"persist", "clearStore"}

\* What LockHeld asks of the call that holds the lock.
Holds(c) ==
  /\ c.op \in {"token", "restore"}
  /\ c.at \in {"recheck", "refresh", "refreshCall", "refreshSet", "persist"}
  /\ c.at \in {"refreshSet", "persist"} => c.pair # 0

\* What LockHeld asks of a call that wants the lock.
Asks(c) == c.at \in {"check", "lock"} => c.op \in {"token", "restore"}

\* A step of call t: the other calls stay where they are, and the lock is
\* kept, dropped or taken by t.
Moves(t) ==
  \E c \in Call :
    /\ task' = [task EXCEPT ![t] = c]
    /\ lock' = lock \/ lock' = None \/ lock' = t
    /\ lock' = t => Holds(c)
    /\ Asks(c)

\* The part of TypeOK that is neither about the calls nor about the lock.
DataTyped ==
  /\ issued \in Seq([user : User, session : Nat])
  /\ live \subseteq 1..Len(issued)
  /\ expired \subseteq 1..Len(issued)
  /\ memory \in Credentials
  /\ store \in Credentials

FlagsTyped ==
  /\ restored \in BOOLEAN
  /\ loggedOut \in BOOLEAN
  /\ torn \in BOOLEAN

----------------------------------------------------------------------------
(* The calls and the lock                                                  *)

LEMMA NoneIsNoTask == ASSUME NEW t \in Task PROVE t # None
  BY AuthAssumption

LEMMA IdleCall == Idle \in Call /\ Idle.at = "idle"
  BY DEF Idle, Call, Operation, Point, Credentials

LEMMA MovesTyped ==
  ASSUME TypeOK, NEW t \in Task, Moves(t)
  PROVE  task' \in [Task -> Call] /\ lock' \in Task \cup {None} /\ LockHeld'
<1>1. PICK c \in Call : /\ task' = [task EXCEPT ![t] = c]
                        /\ lock' = lock \/ lock' = None \/ lock' = t
                        /\ lock' = t => Holds(c)
                        /\ Asks(c)
  BY DEF Moves
<1>2. task \in [Task -> Call] /\ lock \in Task \cup {None}
  BY DEF TypeOK
<1>3. task' \in [Task -> Call] /\ lock' \in Task \cup {None}
  BY <1>1, <1>2
<1>4. ASSUME NEW u \in Task, lock' = u PROVE Holds(task'[u])
  <2>1. CASE u = t
    BY <1>1, <1>2, <1>4, <2>1
  <2>2. CASE u # t
    <3>1. lock = u
      BY <1>1, <1>4, <2>2, NoneIsNoTask
    <3>2. Holds(task[u])
      BY <3>1 DEF TypeOK, LockHeld, Holds
    <3>3. QED  BY <1>1, <1>2, <2>2, <3>2
  <2>3. QED  BY <2>1, <2>2
<1>5. ASSUME NEW u \in Task PROVE Asks(task'[u])
  <2>1. Asks(task[u])
    BY DEF TypeOK, LockHeld, Asks
  <2>2. QED  BY <1>1, <1>2, <2>1
<1>6. LockHeld'
  BY <1>4, <1>5 DEF LockHeld, Holds, Asks
<1>7. QED  BY <1>3, <1>6

LEMMA GoesMoves ==
  ASSUME TypeOK, NEW t \in Task, NEW at \in Point, Goes(t, at),
         lock' = lock \/ lock' = None,
         lock = t /\ lock' = lock => Holds([task[t] EXCEPT !.at = at]),
         at \in {"check", "lock"} => task[t].op \in {"token", "restore"}
  PROVE  Moves(t)
<1> DEFINE c == [task[t] EXCEPT !.at = at]
<1>1. task \in [Task -> Call]
  BY DEF TypeOK
<1>2. c \in Call
  BY <1>1 DEF Call
<1>3. task' = [task EXCEPT ![t] = c]
  BY <1>1 DEF Goes
<1>4. lock' = t => Holds(c)
  BY NoneIsNoTask
<1>5. Asks(c)
  BY <1>1 DEF Asks, Call
<1>6. QED  BY <1>2, <1>3, <1>4, <1>5 DEF Moves

LEMMA GoesWithMoves ==
  ASSUME TypeOK, NEW t \in Task, NEW at \in Point \ {"check", "lock"}, NEW p \in Nat,
         GoesWith(t, at, p), lock' = lock,
         lock = t => Holds([task[t] EXCEPT !.at = at, !.pair = p])
  PROVE  Moves(t)
<1> DEFINE c == [task[t] EXCEPT !.at = at, !.pair = p]
<1>1. task \in [Task -> Call]
  BY DEF TypeOK
<1>2. c \in Call
  BY <1>1 DEF Call
<1>3. task' = [task EXCEPT ![t] = c]
  BY <1>1 DEF GoesWith
<1>4. Asks(c)
  BY <1>1 DEF Asks, Call
<1>5. QED  BY <1>2, <1>3, <1>4 DEF Moves

LEMMA CredsMoves ==
  ASSUME TypeOK, NEW t \in Task, NEW at \in Point \ {"check", "lock"}, NEW x \in Credentials,
         task' = [task EXCEPT ![t].at = at, ![t].creds = x], lock' = lock,
         lock = t => Holds([task[t] EXCEPT !.at = at, !.creds = x])
  PROVE  Moves(t)
<1> DEFINE c == [task[t] EXCEPT !.at = at, !.creds = x]
<1>1. task \in [Task -> Call]
  BY DEF TypeOK
<1>2. c \in Call
  BY <1>1 DEF Call
<1>3. task' = [task EXCEPT ![t] = c]
  BY <1>1
<1>4. Asks(c)
  BY <1>1 DEF Asks, Call
<1>5. QED  BY <1>2, <1>3, <1>4 DEF Moves

LEMMA ReturnsMoves ==
  ASSUME TypeOK, NEW t \in Task, Returns(t) PROVE Moves(t)
<1>1. lock' = None \/ (lock' = lock /\ lock' # t)
  BY DEF Returns, Released
<1>2. QED  BY <1>1, IdleCall, NoneIsNoTask DEF Returns, Moves, Asks

\* Only a call for a token, or a restore, holds the lock.
LEMMA NoLock ==
  ASSUME TypeOK, NEW t \in Task,
         \/ task[t].op \notin {"token", "restore"}
         \/ task[t].at \notin {"recheck", "refresh", "refreshCall", "refreshSet", "persist"}
         \/ task[t].at \in {"refreshSet", "persist"} /\ task[t].pair = 0
  PROVE  lock # t
  BY DEF TypeOK, LockHeld

LEMMA RefreshDoneMoves ==
  ASSUME TypeOK, NEW t \in Task, RefreshDone(t) PROVE Moves(t)
<1>1. CASE task[t].op = "logout"
  <2>1. lock # t
    BY <1>1, NoLock
  <2>2. Goes(t, "logoutAgain") /\ lock' = lock
    BY <1>1 DEF RefreshDone
  <2>3. QED  BY <2>1, <2>2, GoesMoves DEF Point
<1>2. CASE task[t].op # "logout"
  BY <1>2, ReturnsMoves DEF RefreshDone
<1>3. QED  BY <1>1, <1>2

LEMMA RefreshFailedMoves ==
  ASSUME TypeOK, NEW t \in Task, NEW rejected, RefreshFailed(t, rejected)
  PROVE  Moves(t)
<1>1. CASE task[t].op = "logout" \/ (task[t].op = "restore" /\ rejected)
  <2>1. Goes(t, "clear") /\ lock' = Released(t)
    BY <1>1 DEF RefreshFailed
  <2>2. lock' = None \/ (lock' = lock /\ lock # t)
    BY <2>1 DEF Released
  <2>3. ~(lock = t /\ lock' = lock)
    BY <2>2, NoneIsNoTask
  <2>4. QED  BY <2>1, <2>2, <2>3, GoesMoves DEF Point
<1>2. CASE ~(task[t].op = "logout" \/ (task[t].op = "restore" /\ rejected))
  BY <1>2, ReturnsMoves DEF RefreshFailed
<1>3. QED  BY <1>1, <1>2

----------------------------------------------------------------------------
(* The steps move one call                                                 *)

LEMMA StartMoves ==
  ASSUME TypeOK, NEW t \in Task, NEW op \in Operation, Start(t, op)
  PROVE  Moves(t)
<1> DEFINE at == CASE op = "login" -> "loginCall"
                   [] op = "logout" -> "logoutCall"
                   [] op = "refresh" -> "refreshCall"
                   [] op = "token" -> "check"
                   [] op = "clear" -> "clear"
           reads == op \in {"logout", "refresh"}
           p == IF reads THEN memory.pair ELSE 0
           c == [Idle EXCEPT !.op = op, !.at = at, !.pair = p]
<1>1. at \in Point
  BY DEF Operation, Point
<1>2. p \in Nat
  BY DEF Start, TypeOK, Credentials, LoggedIn
<1>3. task' = [task EXCEPT ![t] = c] /\ lock' = lock
  BY DEF Start
<1>4. c \in Call
  BY <1>1, <1>2, IdleCall DEF Idle, Call
<1>5. lock # t
  BY NoLock DEF Start
<1>6. Asks(c)
  BY DEF Operation, Asks, Idle
<1>7. QED
  <2> HIDE DEF c
  <2>1. QED  BY <1>3, <1>4, <1>5, <1>6 DEF Moves

LEMMA RestoreMoves ==
  ASSUME TypeOK, NEW t \in Task, Restore(t) PROVE Moves(t)
<1> DEFINE c == [Idle EXCEPT !.op = "restore", !.at = "set", !.creds = store]
<1>1. task' = [task EXCEPT ![t] = c] /\ lock' = lock
  BY DEF Restore
<1>2. c \in Call
  BY DEF TypeOK, Idle, Call, Point
<1>3. lock # t
  BY NoLock DEF Restore
<1>4. Asks(c)
  BY DEF Asks, Idle
<1>5. QED  BY <1>1, <1>2, <1>3, <1>4 DEF Moves

LEMMA LoginMoves ==
  ASSUME TypeOK, NEW t \in Task, NEW u \in User, LoginCall(t, u)
  PROVE  Moves(t)
<1>1. Creds(u, NewPair) \in Credentials
  BY DEF TypeOK, Creds, Credentials, NewPair
<1>2. lock # t
  BY NoLock DEF LoginCall
<1>3. QED  BY <1>1, <1>2, CredsMoves DEF LoginCall, Point

LEMMA LoginFailsMoves ==
  ASSUME TypeOK, NEW t \in Task, LoginFails(t)
  PROVE  Moves(t)
  BY ReturnsMoves DEF LoginFails

LEMMA SetMoves ==
  ASSUME TypeOK, NEW t \in Task, SetCredentials(t) PROVE Moves(t)
<1>1. lock # t
  BY NoLock DEF SetCredentials
<1>2. QED  BY <1>1, GoesMoves DEF SetCredentials, Point

LEMMA RefreshReadMoves ==
  ASSUME TypeOK, NEW t \in Task, RefreshRead(t) PROVE Moves(t)
<1>1. CASE LoggedIn
  <2>1. GoesWith(t, "refreshCall", memory.pair) /\ lock' = lock /\ task[t].at = "refresh"
    BY <1>1 DEF RefreshRead
  <2>2. memory.pair \in Nat
    BY <1>1 DEF TypeOK, LoggedIn, Credentials
  <2>3. lock = t => Holds([task[t] EXCEPT !.at = "refreshCall", !.pair = memory.pair])
    BY <2>1 DEF TypeOK, LockHeld, Holds, Call
  <2>4. QED  BY <2>1, <2>2, <2>3, GoesWithMoves DEF Point
<1>2. CASE ~LoggedIn
  BY <1>2, RefreshFailedMoves DEF RefreshRead
<1>3. QED  BY <1>1, <1>2

LEMMA RefreshCallMoves ==
  ASSUME TypeOK, NEW t \in Task, RefreshCall(t) \/ RefreshCallFails(t)
  PROVE  Moves(t)
<1>1. CASE RefreshCall(t)
  <2>1. CASE task[t].pair \in live
    <3>1. GoesWith(t, "refreshSet", NewPair) /\ lock' = lock /\ task[t].at = "refreshCall"
      BY <1>1, <2>1 DEF RefreshCall
    <3>2. NewPair \in Nat /\ NewPair # 0
      BY DEF TypeOK, NewPair
    <3>3. lock = t => Holds([task[t] EXCEPT !.at = "refreshSet", !.pair = NewPair])
      BY <3>1, <3>2 DEF TypeOK, LockHeld, Holds, Call
    <3>4. QED  BY <3>1, <3>2, <3>3, GoesWithMoves DEF Point
  <2>2. CASE task[t].pair \notin live
    BY <1>1, <2>2, RefreshFailedMoves DEF RefreshCall
  <2>3. QED  BY <2>1, <2>2
<1>2. CASE RefreshCallFails(t)
  BY <1>2, RefreshFailedMoves DEF RefreshCallFails
<1>3. QED  BY <1>1, <1>2

LEMMA RefreshSetMoves ==
  ASSUME TypeOK, NEW t \in Task, RefreshSet(t) PROVE Moves(t)
<1>1. CASE LoggedIn
  <2> DEFINE x == Creds(memory.user, task[t].pair)
  <2>1. /\ task' = [task EXCEPT ![t].at = "persist", ![t].creds = x]
        /\ lock' = lock
        /\ task[t].at = "refreshSet"
    BY <1>1 DEF RefreshSet
  <2>2. x \in Credentials
    BY <1>1 DEF TypeOK, LoggedIn, Credentials, Creds, Call
  <2>3. lock = t => Holds([task[t] EXCEPT !.at = "persist", !.creds = x])
    BY <2>1 DEF TypeOK, LockHeld, Holds, Call
  <2>4. QED
    <3> HIDE DEF x
    <3>1. QED  BY <2>1, <2>2, <2>3, CredsMoves DEF Point
<1>2. CASE ~LoggedIn
  BY <1>2, RefreshDoneMoves DEF RefreshSet
<1>3. QED  BY <1>1, <1>2

LEMMA PersistMoves ==
  ASSUME TypeOK, NEW t \in Task, Persist(t) \/ PersistFails(t) PROVE Moves(t)
<1>1. CASE task[t].op = "restore" /\ task[t].pair = 0
  <2>1. Goes(t, "check") /\ lock' = lock /\ task[t].at = "persist"
    BY <1>1 DEF Persist, PersistFails
  <2>2. lock # t
    BY <1>1, <2>1, NoLock
  <2>3. QED  BY <1>1, <2>1, <2>2, GoesMoves DEF Point
<1>2. CASE ~(task[t].op = "restore" /\ task[t].pair = 0)
  BY <1>2, RefreshDoneMoves, RefreshFailedMoves DEF Persist, PersistFails
<1>3. QED  BY <1>1, <1>2

LEMMA AcquireMoves ==
  ASSUME TypeOK, NEW t \in Task, Acquire(t) PROVE Moves(t)
<1> DEFINE c == [task[t] EXCEPT !.at = "recheck"]
<1>1. task[t] \in Call /\ task[t].op \in {"token", "restore"}
  BY DEF TypeOK, LockHeld, Acquire
<1>2. c \in Call /\ Holds(c) /\ Asks(c)
  BY <1>1 DEF Call, Point, Holds, Asks
<1>3. task' = [task EXCEPT ![t] = c] /\ lock' = t
  BY DEF Acquire, Goes, TypeOK
<1>4. QED  BY <1>2, <1>3 DEF Moves

LEMMA CheckMoves ==
  ASSUME TypeOK, NEW t \in Task, Check(t) \/ Recheck(t) PROVE Moves(t)
<1>1. CASE Fresh
  BY <1>1, ReturnsMoves DEF Check, Recheck
<1>2. CASE Check(t) /\ ~Fresh
  <2>1. lock # t
    BY <1>2, NoLock DEF Check
  <2>2. task[t].op \in {"token", "restore"}
    BY <1>2 DEF Check, TypeOK, LockHeld
  <2>3. QED  BY <1>2, <2>1, <2>2, GoesMoves DEF Check, Point
<1>3. CASE Recheck(t) /\ ~Fresh
  <2>1. Goes(t, "refresh") /\ lock' = lock /\ task[t].at = "recheck"
    BY <1>3 DEF Recheck
  <2>2. lock = t => Holds([task[t] EXCEPT !.at = "refresh"])
    BY <2>1 DEF TypeOK, LockHeld, Holds, Call
  <2>3. QED  BY <2>1, <2>2, GoesMoves DEF Point
<1>4. QED  BY <1>1, <1>2, <1>3

LEMMA LogoutMoves ==
  ASSUME TypeOK, NEW t \in Task,
         LogoutCall(t) \/ LogoutCallFails(t) \/ LogoutAgain(t)
  PROVE  Moves(t)
<1>1. lock # t
  BY NoLock DEF LogoutCall, LogoutCallFails, LogoutAgain
<1>2. CASE LogoutCall(t)
  BY <1>1, <1>2, GoesMoves DEF LogoutCall, Point
<1>3. CASE LogoutCallFails(t)
  BY <1>1, <1>3, GoesMoves, ReturnsMoves DEF LogoutCallFails, Point
<1>4. CASE LogoutAgain(t)
  BY <1>1, <1>4, GoesMoves DEF LogoutAgain, Point
<1>5. QED  BY <1>2, <1>3, <1>4

LEMMA ClearMoves ==
  ASSUME TypeOK, NEW t \in Task, Clear(t) \/ ClearStore(t) \/ ClearStoreFails(t)
  PROVE  Moves(t)
<1>1. CASE Clear(t)
  <2>1. lock # t
    BY <1>1, NoLock DEF Clear
  <2>2. QED  BY <1>1, <2>1, GoesMoves DEF Clear, Point
<1>2. CASE ClearStore(t) \/ ClearStoreFails(t)
  BY <1>2, ReturnsMoves DEF ClearStore, ClearStoreFails
<1>3. QED  BY <1>1, <1>2

----------------------------------------------------------------------------
(* The data                                                                *)

LEMMA DataOfTypeOK == TypeOK => DataTyped
  BY DEF TypeOK, DataTyped

LEMMA Issued ==
  ASSUME DataTyped, NEW u \in User, NEW n \in Nat, Issue(u, n)
  PROVE  /\ issued' \in Seq([user : User, session : Nat])
         /\ NewPair \in 1..Len(issued')
         /\ 1..Len(issued) \subseteq 1..Len(issued')
<1> DEFINE r == [user |-> u, session |-> n]
<1>1. r \in [user : User, session : Nat]
  OBVIOUS
<1>2. issued' = Append(issued, r)
  BY DEF Issue
<1> HIDE DEF r
<1>3. issued' \in Seq([user : User, session : Nat]) /\ Len(issued') = Len(issued) + 1
  BY <1>1, <1>2 DEF DataTyped
<1>4. Len(issued) \in Nat
  BY DEF DataTyped
<1>5. QED  BY <1>3, <1>4 DEF NewPair

\* A refresh token that works belongs to a session of a user.
LEMMA OfASession ==
  ASSUME DataTyped, NEW p \in live
  PROVE  issued[p].user \in User /\ issued[p].session \in Nat
<1>1. issued \in Seq([user : User, session : Nat]) /\ p \in 1..Len(issued)
  BY DEF DataTyped
<1>2. issued[p] \in [user : User, session : Nat]
  <2> DEFINE R == [user : User, session : Nat]
  <2>1. issued \in Seq(R) /\ p \in 1..Len(issued)
    BY <1>1
  <2> HIDE DEF R
  <2>2. issued[p] \in R
    BY <2>1
  <2>3. QED  BY <2>2 DEF R
<1>3. QED  BY <1>2

LEMMA Untouched ==
  ASSUME DataTyped, UNCHANGED <<issued, expired, memory, store>>, live' \subseteq live
  PROVE  DataTyped'
  BY DEF DataTyped

LEMMA IssuedData ==
  ASSUME DataTyped, NEW u \in User, NEW n \in Nat, Issue(u, n),
         live' \subseteq live \cup {NewPair}, UNCHANGED <<expired, memory, store>>
  PROVE  DataTyped'
<1>1. live' \subseteq 1..Len(issued') /\ expired' \subseteq 1..Len(issued')
  BY Issued DEF DataTyped
<1>2. QED  BY <1>1, Issued DEF DataTyped

LEMMA LoginData ==
  ASSUME DataTyped, NEW t \in Task, NEW u \in User, LoginCall(t, u)
  PROVE  DataTyped'
<1>1. NewPair \in Nat
  BY DEF DataTyped, NewPair
<1>2. QED  BY <1>1, IssuedData DEF LoginCall

LEMMA RefreshData ==
  ASSUME DataTyped, NEW t \in Task, RefreshCall(t) \/ RefreshCallFails(t)
  PROVE  DataTyped'
<1> DEFINE old == task[t].pair
<1>1. UNCHANGED <<expired, memory, store>>
  BY DEF RefreshCall, RefreshCallFails
<1>2. CASE UNCHANGED server
  BY <1>1, <1>2 DEF DataTyped, server
<1>3. \/ UNCHANGED server
      \/ /\ old \in live
         /\ Issue(issued[old].user, issued[old].session)
         /\ live' = (live \ {old}) \cup {NewPair}
  BY DEF RefreshCall, RefreshCallFails
<1>4. QED  BY <1>1, <1>2, <1>3, OfASession, IssuedData

LEMMA MemoryData ==
  ASSUME TypeOK, NEW t \in Task,
         SetCredentials(t) \/ RefreshSet(t) \/ Clear(t)
  PROVE  DataTyped'
<1>1. UNCHANGED <<issued, live, expired, store>>
  BY DEF SetCredentials, RefreshSet, Clear, server
<1>2. task[t] \in Call
  BY DEF TypeOK
<1>3. CASE SetCredentials(t)
  <2>1. memory' \in Credentials
    BY <1>2, <1>3 DEF SetCredentials, Call
  <2>2. QED  BY <1>1, <2>1, DataOfTypeOK DEF DataTyped
<1>4. CASE RefreshSet(t)
  <2>1. CASE LoggedIn
    <3> DEFINE x == Creds(memory.user, task[t].pair)
    <3>1. x \in Credentials
      BY <1>2, <2>1 DEF TypeOK, LoggedIn, Credentials, Creds, Call
    <3>2. memory' = x
      BY <1>4, <2>1 DEF RefreshSet
    <3>3. memory' \in Credentials
      BY <3>1, <3>2
    <3>4. QED  BY <1>1, <3>3, DataOfTypeOK DEF DataTyped
  <2>2. CASE ~LoggedIn
    BY <1>1, <1>4, <2>2, DataOfTypeOK DEF RefreshSet, DataTyped
  <2>3. QED  BY <2>1, <2>2
<1>5. CASE Clear(t)
  BY <1>1, <1>5, DataOfTypeOK DEF Clear, DataTyped, Credentials
<1>6. QED  BY <1>3, <1>4, <1>5

LEMMA StoreData ==
  ASSUME TypeOK, NEW t \in Task,
         Persist(t) \/ PersistFails(t) \/ ClearStore(t) \/ ClearStoreFails(t)
  PROVE  DataTyped'
<1>1. UNCHANGED <<issued, live, expired, memory>>
  BY DEF Persist, PersistFails, ClearStore, ClearStoreFails, server
<1>2. store' \in Credentials
  BY DEF Persist, PersistFails, ClearStore, ClearStoreFails, TypeOK, Call, Credentials
<1>3. QED  BY <1>1, <1>2, DataOfTypeOK DEF DataTyped

LEMMA OtherData ==
  ASSUME DataTyped, NEW t \in Task,
         \/ \E op \in Operation : Start(t, op)
         \/ Restore(t) \/ LoginFails(t) \/ RefreshRead(t)
         \/ Check(t) \/ Acquire(t) \/ Recheck(t)
         \/ LogoutCall(t) \/ LogoutCallFails(t) \/ LogoutAgain(t)
  PROVE  DataTyped'
<1>1. UNCHANGED <<issued, expired, memory, store>>
  BY DEF Start, Restore, LoginFails, RefreshRead, Check, Acquire, Recheck, LogoutCall,
         LogoutCallFails, LogoutAgain, server
<1>2. live' \subseteq live
  BY DEF Start, Restore, LoginFails, RefreshRead, Check, Acquire, Recheck, LogoutCall,
         LogoutCallFails, LogoutAgain, server, End
<1>3. QED  BY <1>1, <1>2, Untouched

\* The flags are written with Boolean values.
LEMMA FlagsStay ==
  ASSUME TypeOK, [Next]_vars
  PROVE  FlagsTyped'
<1> USE DEF FlagsTyped, TypeOK
<1>1. CASE UNCHANGED vars
  BY <1>1 DEF vars, aux
<1>2. ASSUME NEW t \in Task, NEW op \in Operation, Start(t, op) PROVE FlagsTyped'
  BY <1>2 DEF Start, aux
<1>3. ASSUME NEW t \in Task, Restore(t) PROVE FlagsTyped'
  BY <1>3 DEF Restore, aux
<1>4. ASSUME NEW t \in Task, Step(t) PROVE FlagsTyped'
  <2>1. (torn \/ Unsaved # {}) \in BOOLEAN
    OBVIOUS
  <2>2. ASSUME NEW u \in User, LoginCall(t, u) PROVE FlagsTyped'
    BY <2>2 DEF LoginCall, aux
  <2>3. CASE SetCredentials(t)
    BY <2>1, <2>3 DEF SetCredentials, Writes
  <2>4. CASE RefreshRead(t) \/ RefreshCall(t) \/ Persist(t)
    BY <2>4 DEF RefreshRead, RefreshCall, Persist, aux
  <2>5. CASE RefreshSet(t)
    BY <2>1, <2>5 DEF RefreshSet, Writes
  <2>6. CASE Check(t) \/ Acquire(t) \/ Recheck(t)
    BY <2>6 DEF Check, Acquire, Recheck, aux
  <2>7. CASE LogoutCall(t) \/ LogoutAgain(t) \/ ClearStore(t)
    BY <2>7 DEF LogoutCall, LogoutAgain, ClearStore, aux
  <2>8. CASE Clear(t)
    BY <2>1, <2>8 DEF Clear, Writes
  <2>9. QED  BY <1>4, <2>2, <2>3, <2>4, <2>5, <2>6, <2>7, <2>8 DEF Step
<1>5. ASSUME NEW t \in Task, Failure(t) PROVE FlagsTyped'
  <2>1. CASE LoginFails(t) \/ RefreshCallFails(t) \/ LogoutCallFails(t)
    BY <2>1 DEF LoginFails, RefreshCallFails, LogoutCallFails, aux
  <2>2. CASE PersistFails(t) \/ ClearStoreFails(t)
    BY <2>2 DEF PersistFails, ClearStoreFails
  <2>3. QED  BY <1>5, <2>1, <2>2 DEF Failure
<1>6. ASSUME NEW p \in 1..Len(issued), Expire(p) PROVE FlagsTyped'
  BY <1>6 DEF Expire, aux
<1>7. CASE Crash
  <2>1. (loggedOut /\ Unsaved = {}) \in BOOLEAN
    OBVIOUS
  <2>2. QED  BY <1>7, <2>1 DEF Crash
<1>8. QED  BY <1>1, <1>2, <1>3, <1>4, <1>5, <1>6, <1>7 DEF Next

LEMMA TypesOfSteps ==
  ASSUME TypeOK, NEW t \in Task, Step(t) \/ Failure(t)
  PROVE  Moves(t) /\ DataTyped'
<1> USE DataOfTypeOK
<1>1. ASSUME NEW u \in User, LoginCall(t, u) PROVE Moves(t) /\ DataTyped'
  BY <1>1, LoginMoves, LoginData
<1>2. CASE LoginFails(t)
  BY <1>2, LoginFailsMoves, OtherData
<1>3. CASE SetCredentials(t)
  BY <1>3, SetMoves, MemoryData
<1>4. CASE RefreshRead(t)
  BY <1>4, RefreshReadMoves, OtherData
<1>5. CASE RefreshCall(t) \/ RefreshCallFails(t)
  BY <1>5, RefreshCallMoves, RefreshData
<1>6. CASE RefreshSet(t)
  BY <1>6, RefreshSetMoves, MemoryData
<1>7. CASE Persist(t) \/ PersistFails(t)
  BY <1>7, PersistMoves, StoreData
<1>8. CASE Check(t) \/ Recheck(t)
  BY <1>8, CheckMoves, OtherData
<1>9. CASE Acquire(t)
  BY <1>9, AcquireMoves, OtherData
<1>10. CASE LogoutCall(t) \/ LogoutCallFails(t) \/ LogoutAgain(t)
  BY <1>10, LogoutMoves, OtherData
<1>11. CASE Clear(t)
  BY <1>11, ClearMoves, MemoryData
<1>12. CASE ClearStore(t) \/ ClearStoreFails(t)
  BY <1>12, ClearMoves, StoreData
<1>13. QED
  BY <1>1, <1>2, <1>3, <1>4, <1>5, <1>6, <1>7, <1>8, <1>9, <1>10, <1>11, <1>12
  DEF Step, Failure

LEMMA TypesStay == TypeOK /\ [Next]_vars => TypeOK'
<1> SUFFICES ASSUME TypeOK, [Next]_vars PROVE TypeOK'
  OBVIOUS
<1>1. FlagsTyped'
  BY FlagsStay
<1>2. ASSUME NEW t \in Task, Moves(t), DataTyped' PROVE TypeOK'
  BY <1>1, <1>2, MovesTyped DEF TypeOK, DataTyped, FlagsTyped
<1>3. CASE UNCHANGED vars
  BY <1>3 DEF TypeOK, LockHeld, vars, server, aux
<1>4. ASSUME NEW t \in Task, NEW op \in Operation, Start(t, op) PROVE TypeOK'
  BY <1>2, <1>4, StartMoves, OtherData, DataOfTypeOK
<1>5. ASSUME NEW t \in Task, Restore(t) PROVE TypeOK'
  BY <1>2, <1>5, RestoreMoves, OtherData, DataOfTypeOK
<1>6. ASSUME NEW t \in Task, Step(t) \/ Failure(t) PROVE TypeOK'
  BY <1>2, <1>6, TypesOfSteps
<1>7. ASSUME NEW p \in 1..Len(issued), Expire(p) PROVE TypeOK'
  <2>1. UNCHANGED <<issued, live, memory, store, lock, task>>
    BY <1>7 DEF Expire, server
  <2>2. expired' \subseteq 1..Len(issued')
    BY <1>7, <2>1 DEF Expire, TypeOK
  <2>3. QED  BY <1>1, <2>1, <2>2 DEF TypeOK, LockHeld, FlagsTyped
<1>8. CASE Crash
  <2>1. UNCHANGED <<issued, live, expired, store>> /\ memory' = None /\ lock' = None
    BY <1>8 DEF Crash, server
  <2>2. task' = [t \in Task |-> Idle]
    BY <1>8 DEF Crash
  <2>3. task' \in [Task -> Call]
    BY <2>2, IdleCall
  <2>4. LockHeld'
    BY <2>1, <2>2, IdleCall, NoneIsNoTask DEF LockHeld
  <2>5. QED  BY <1>1, <2>1, <2>3, <2>4 DEF TypeOK, Credentials, FlagsTyped
<1>9. QED  BY <1>3, <1>4, <1>5, <1>6, <1>7, <1>8 DEF Next

LEMMA TypesInit == Init => TypeOK
<1> SUFFICES ASSUME Init PROVE TypeOK
  OBVIOUS
<1>1. task \in [Task -> Call] /\ LockHeld /\ lock = None /\ memory = None
  BY IdleCall, NoneIsNoTask DEF Init, LockHeld
<1> DEFINE Rest == /\ memory \in Credentials
                   /\ expired \subseteq 1..Len(issued)
                   /\ FlagsTyped
<1>2. Rest
  BY <1>1 DEF Init, Credentials, FlagsTyped
<1>3. CASE issued = <<>> /\ live = {} /\ store = None
  <2>1. issued \in Seq([user : User, session : Nat]) /\ live \subseteq 1..Len(issued)
    BY <1>3
  <2>2. store \in Credentials
    BY <1>3 DEF Credentials
  <2>3. QED  BY <1>1, <1>2, <2>1, <2>2 DEF TypeOK, FlagsTyped
<1>4. ASSUME NEW u \in User, issued = <<[user |-> u, session |-> 1]>>, live = {1},
             store = Creds(u, 1)
      PROVE  TypeOK
  <2>1. issued \in Seq([user : User, session : Nat]) /\ Len(issued) = 1
    BY <1>4
  <2>2. store \in Credentials
    BY <1>4 DEF Creds, Credentials
  <2>3. live \subseteq 1..Len(issued)
    BY <1>4, <2>1
  <2>4. QED  BY <1>1, <1>2, <2>1, <2>2, <2>3 DEF TypeOK, FlagsTyped
<1>5. QED  BY <1>3, <1>4 DEF Init

(* AuthClient and its callers, auth.rs: credentials and tasks keep their   *)
(* types, and the refresh lock is held by nobody but a call that will     *)
(* release it.                                                             *)
THEOREM AuthTypeCorrect == Spec => []TypeOK
<1>1. QED  BY TypesInit, TypesStay, PTL DEF Spec

----------------------------------------------------------------------------
(* The store follows the memory                                            *)

\* A step of a call that is not a writer before it or after it, and that
\* leaves memory and store alone.
LEMMA BesideWriters ==
  ASSUME Inductive, NEW t \in Task, Moves(t), UNCHANGED <<memory, store, aux>>,
         task[t].at \notin Writing, task'[t].at \notin Writing
  PROVE  Inductive'
<1>1. PICK c \in Call : task' = [task EXCEPT ![t] = c]
  BY DEF Moves
<1>2. ASSUME NEW u \in Task PROVE task'[u] = task[u] \/ u = t
  BY <1>1
<1>3. UNCHANGED <<memory, store, loggedOut, torn>>
  BY DEF aux
<1>4. Unsaved' = Unsaved
  BY <1>2 DEF Unsaved, Writing
<1>5. ASSUME NEW u \in Task, task'[u].at \in Writing PROVE task'[u] = task[u]
  BY <1>2, <1>5
<1>6. QED
  BY <1>3, <1>4, <1>5
  DEF Inductive, MemoryStaysLoggedOut, SavesFollowMemory, LoggedIn, Writing

\* A call writes the memory, as the only one that has something to save.
LEMMA WriterWrites ==
  ASSUME Inductive, NEW t \in Task, Moves(t), Writes(t),
         task'[t].at \in Writing,
         task'[t].at = "persist" => task'[t].creds = memory',
         task'[t].at = "clearStore" => memory' = None,
         loggedOut' => memory' = None
  PROVE  Inductive'
<1>1. PICK c \in Call : task' = [task EXCEPT ![t] = c]
  BY DEF Moves
<1>2. ASSUME NEW u \in Task PROVE task'[u] = task[u] \/ u = t
  BY <1>1
<1>3. ASSUME ~torn' PROVE Unsaved' = {t}
  <2>1. Unsaved = {}
    BY <1>3 DEF Writes
  <2>2. QED  BY <1>2, <2>1 DEF Unsaved, Writing
<1>4. ASSUME ~torn', NEW u \in Task, task'[u].at \in Writing PROVE u = t
  BY <1>3, <1>4 DEF Unsaved, Writing
<1>5. SavesFollowMemory'
  BY <1>3, <1>4 DEF SavesFollowMemory, Writing
<1>6. QED  BY <1>5 DEF Inductive, MemoryStaysLoggedOut, LoggedIn

\* The one that had something to save has saved it.
LEMMA WriterSaves ==
  ASSUME Inductive, NEW t \in Task, Moves(t), UNCHANGED <<memory, aux>>,
         task[t].at \in Writing, task'[t].at \notin Writing,
         task[t].at = "persist" => store' = task[t].creds,
         task[t].at = "clearStore" => store' = None
  PROVE  Inductive'
<1>1. PICK c \in Call : task' = [task EXCEPT ![t] = c]
  BY DEF Moves
<1>2. ASSUME NEW u \in Task PROVE task'[u] = task[u] \/ u = t
  BY <1>1
<1>3. UNCHANGED <<memory, loggedOut, torn>>
  BY DEF aux
<1>4. ASSUME ~torn' PROVE Unsaved' = {} /\ store' = memory'
  <2>1. /\ \A u, v \in Unsaved : u = v
        /\ task[t].at = "persist" => task[t].creds = memory
        /\ task[t].at = "clearStore" => memory = None
    BY <1>3, <1>4 DEF Inductive, SavesFollowMemory
  <2>2. t \in Unsaved
    BY DEF Unsaved, Writing
  <2>3. Unsaved' = {}
    BY <1>2, <2>1, <2>2 DEF Unsaved, Writing
  <2>4. QED  BY <1>3, <2>1, <2>3 DEF Writing
<1>5. SavesFollowMemory'
  BY <1>4 DEF SavesFollowMemory, Unsaved
<1>6. QED
  BY <1>3, <1>5 DEF Inductive, MemoryStaysLoggedOut, LoggedIn

\* A save that failed is excused.
LEMMA WriterFails ==
  ASSUME Inductive, torn' = TRUE, memory' = memory,
         loggedOut' = loggedOut \/ loggedOut' = FALSE
  PROVE  Inductive'
  BY DEF Inductive, MemoryStaysLoggedOut, SavesFollowMemory, LoggedIn

LEMMA Returned ==
  ASSUME TypeOK, NEW t \in Task, Returns(t)
  PROVE  task'[t].at \notin Writing
<1>1. task \in [Task -> Call]
  BY DEF TypeOK
<1>2. QED  BY <1>1, IdleCall DEF Returns, Writing

LEMMA Gone ==
  ASSUME TypeOK, NEW t \in Task, NEW at \in Point, Goes(t, at)
  PROVE  task'[t] = [task[t] EXCEPT !.at = at] /\ task'[t].at = at
<1>1. task \in [Task -> Call]
  BY DEF TypeOK
<1>2. task'[t] = [task[t] EXCEPT !.at = at]
  BY <1>1 DEF Goes
<1>3. task[t] \in Call
  BY <1>1
<1>4. QED  BY <1>2, <1>3 DEF Call

LEMMA Refreshed ==
  ASSUME TypeOK, NEW t \in Task, RefreshDone(t) \/ RefreshFailed(t, TRUE) \/ RefreshFailed(t, FALSE)
  PROVE  task'[t].at \notin Writing
<1>1. Returns(t) \/ Goes(t, "logoutAgain") \/ Goes(t, "clear")
  BY DEF RefreshDone, RefreshFailed
<1>2. CASE Returns(t)
  BY <1>2, Returned
<1>3. CASE Goes(t, "logoutAgain")
  BY <1>3, Gone DEF Writing, Point
<1>4. CASE Goes(t, "clear")
  BY <1>4, Gone DEF Writing, Point
<1>5. QED  BY <1>1, <1>2, <1>3, <1>4

LEMMA InductiveStart ==
  ASSUME TypeOK, Inductive, NEW t \in Task,
         (\E op \in Operation : Start(t, op)) \/ Restore(t)
  PROVE  Inductive'
<1>1. Moves(t)
  BY StartMoves, RestoreMoves
<1>2. UNCHANGED <<memory, store, aux>> /\ task[t].at \notin Writing
  BY DEF Start, Restore, Writing
<1>3. ASSUME NEW op \in Operation, Start(t, op) PROVE task'[t].at \notin Writing
  <2> DEFINE at == CASE op = "login" -> "loginCall"
                     [] op = "logout" -> "logoutCall"
                     [] op = "refresh" -> "refreshCall"
                     [] op = "token" -> "check"
                     [] op = "clear" -> "clear"
             p == IF op \in {"logout", "refresh"} THEN memory.pair ELSE 0
             c == [Idle EXCEPT !.op = op, !.at = at, !.pair = p]
  <2>1. task' = [task EXCEPT ![t] = c]
    BY <1>3 DEF Start
  <2>2. at \notin Writing
    BY DEF Operation, Writing
  <2>3. c.at = at
    BY DEF Idle
  <2>4. task'[t] = c
    <3> HIDE DEF c
    <3>1. QED  BY <2>1 DEF TypeOK
  <2> HIDE DEF c, at
  <2>5. QED  BY <2>2, <2>3, <2>4
<1>4. ASSUME Restore(t) PROVE task'[t].at \notin Writing
  <2> DEFINE c == [Idle EXCEPT !.op = "restore", !.at = "set", !.creds = store]
  <2>1. task' = [task EXCEPT ![t] = c] /\ c.at = "set"
    BY <1>4 DEF Restore, Idle
  <2>2. task'[t] = c
    <3> HIDE DEF c
    <3>1. QED  BY <2>1 DEF TypeOK
  <2>3. QED  BY <2>1, <2>2 DEF Writing
<1>5. task'[t].at \notin Writing
  BY <1>3, <1>4
<1>6. QED  BY <1>1, <1>2, <1>5, BesideWriters

LEMMA InductiveWrite ==
  ASSUME TypeOK, Inductive, NEW t \in Task, SetCredentials(t) \/ Clear(t)
  PROVE  Inductive'
<1>1. Moves(t)
  BY SetMoves, ClearMoves
<1>2. task \in [Task -> Call]
  BY DEF TypeOK
<1>3. CASE SetCredentials(t)
  <2>1. task'[t] = [task[t] EXCEPT !.at = "persist"] /\ task'[t].at = "persist"
    BY <1>3, Gone DEF SetCredentials, Point
  <2>2. task'[t].creds = task[t].creds
    BY <1>2, <2>1 DEF Call
  <2>3. memory' = task[t].creds /\ loggedOut' = FALSE /\ Writes(t)
    BY <1>3 DEF SetCredentials
  <2>4. QED  BY <1>1, <2>1, <2>2, <2>3, WriterWrites DEF Writing
<1>4. CASE Clear(t)
  <2>1. task'[t].at = "clearStore"
    BY <1>4, Gone DEF Clear, Point
  <2>2. memory' = None /\ Writes(t)
    BY <1>4 DEF Clear
  <2>3. QED  BY <1>1, <2>1, <2>2, WriterWrites DEF Writing
<1>5. QED  BY <1>3, <1>4

LEMMA InductiveRefreshSet ==
  ASSUME TypeOK, Inductive, NEW t \in Task, RefreshSet(t)
  PROVE  Inductive'
<1>1. Moves(t)
  BY RefreshSetMoves
<1>2. task[t].at = "refreshSet" /\ loggedOut' = loggedOut
  BY DEF RefreshSet
<1>3. CASE LoggedIn
  <2> DEFINE x == Creds(memory.user, task[t].pair)
  <2>1. memory' = x /\ Writes(t) /\ task' = [task EXCEPT ![t].at = "persist", ![t].creds = x]
    BY <1>3 DEF RefreshSet
  <2> HIDE DEF x
  <2>2. task'[t].at = "persist" /\ task'[t].creds = x
    BY <2>1 DEF TypeOK, Call
  <2>3. ~loggedOut'
    BY <1>2, <1>3 DEF Inductive, MemoryStaysLoggedOut
  <2>4. QED  BY <1>1, <2>1, <2>2, <2>3, WriterWrites DEF Writing
<1>4. CASE ~LoggedIn
  <2>1. UNCHANGED <<memory, torn, store>> /\ RefreshDone(t)
    BY <1>4 DEF RefreshSet
  <2>2. task'[t].at \notin Writing
    BY <2>1, Refreshed
  <2>3. QED  BY <1>1, <1>2, <2>1, <2>2, BesideWriters DEF aux, Writing
<1>5. QED  BY <1>3, <1>4

LEMMA InductiveSave ==
  ASSUME TypeOK, Inductive, NEW t \in Task, Persist(t) \/ ClearStore(t)
  PROVE  Inductive'
<1>1. Moves(t) /\ UNCHANGED <<memory, aux>>
  BY PersistMoves, ClearMoves DEF Persist, ClearStore
<1>2. CASE Persist(t)
  <2>1. task[t].at = "persist" /\ store' = task[t].creds
    BY <1>2 DEF Persist
  <2>2. Goes(t, "check") \/ RefreshDone(t)
    BY <1>2 DEF Persist
  <2>3. task'[t].at \notin Writing
    <3>1. CASE Goes(t, "check")
      BY <3>1, Gone DEF Writing, Point
    <3>2. CASE RefreshDone(t)
      BY <3>2, Refreshed
    <3>3. QED  BY <2>2, <3>1, <3>2
  <2>4. QED  BY <1>1, <2>1, <2>3, WriterSaves DEF Writing
<1>3. CASE ClearStore(t)
  <2>1. task[t].at = "clearStore" /\ store' = None /\ Returns(t)
    BY <1>3 DEF ClearStore
  <2>2. QED  BY <1>1, <2>1, Returned, WriterSaves DEF Writing
<1>4. QED  BY <1>2, <1>3

LEMMA InductiveSaveFails ==
  ASSUME TypeOK, Inductive, NEW t \in Task, PersistFails(t) \/ ClearStoreFails(t)
  PROVE  Inductive'
  BY WriterFails DEF PersistFails, ClearStoreFails

\* The steps that only read the memory, or talk to the server.
LEMMA InductiveOther ==
  ASSUME TypeOK, Inductive, NEW t \in Task,
         \/ LoginFails(t) \/ RefreshRead(t) \/ RefreshCall(t) \/ RefreshCallFails(t)
         \/ Check(t) \/ Acquire(t) \/ Recheck(t)
         \/ LogoutCall(t) \/ LogoutCallFails(t) \/ LogoutAgain(t)
  PROVE  Inductive'
<1>1. Moves(t)
  BY LoginFailsMoves, RefreshReadMoves, RefreshCallMoves, CheckMoves, AcquireMoves, LogoutMoves
<1>2. UNCHANGED <<memory, store, aux>>
  BY DEF LoginFails, RefreshRead, RefreshCall, RefreshCallFails, Check, Acquire, Recheck,
         LogoutCall, LogoutCallFails, LogoutAgain
<1>3. task[t].at \notin Writing
  BY DEF LoginFails, RefreshRead, RefreshCall, RefreshCallFails, Check, Acquire, Recheck,
         LogoutCall, LogoutCallFails, LogoutAgain, Writing
<1>4. \/ Returns(t) \/ RefreshFailed(t, TRUE) \/ RefreshFailed(t, FALSE)
      \/ \E at \in Point \ Writing : Goes(t, at)
      \/ \E at \in Point \ Writing, p \in {memory.pair, NewPair} : GoesWith(t, at, p)
  BY DEF LoginFails, RefreshRead, RefreshCall, RefreshCallFails, Check, Acquire, Recheck,
         LogoutCall, LogoutCallFails, LogoutAgain, Point, Writing
<1>5. task'[t].at \notin Writing
  <2>1. ASSUME NEW at \in Point \ Writing, Goes(t, at) PROVE task'[t].at \notin Writing
    BY <2>1, Gone
  <2>2. ASSUME NEW at \in Point \ Writing, NEW p, GoesWith(t, at, p)
        PROVE  task'[t].at \notin Writing
    BY <2>2 DEF TypeOK, Call, GoesWith
  <2>3. QED  BY <1>4, <2>1, <2>2, Returned, Refreshed
<1>6. QED  BY <1>1, <1>2, <1>3, <1>5, BesideWriters

LEMMA InductiveLogin ==
  ASSUME TypeOK, Inductive, NEW t \in Task, NEW u \in User, LoginCall(t, u)
  PROVE  Inductive'
<1>1. Moves(t)
  BY LoginMoves
<1>2. UNCHANGED <<memory, store, aux>> /\ task[t].at \notin Writing
  BY DEF LoginCall, Writing
<1>3. task'[t].at = "set"
  BY DEF LoginCall, TypeOK, Call
<1>4. QED  BY <1>1, <1>2, <1>3, BesideWriters DEF Writing

LEMMA InductiveStays == TypeOK /\ Inductive /\ [Next]_vars => Inductive'
<1> SUFFICES ASSUME TypeOK, Inductive, [Next]_vars PROVE Inductive'
  OBVIOUS
<1>1. ASSUME UNCHANGED <<memory, store, task, aux>> PROVE Inductive'
  BY <1>1 DEF Inductive, MemoryStaysLoggedOut, SavesFollowMemory, LoggedIn, Unsaved, aux
<1>2. ASSUME NEW t \in Task, Step(t) \/ Failure(t) PROVE Inductive'
  BY <1>2, InductiveLogin, InductiveWrite, InductiveRefreshSet, InductiveSave,
     InductiveSaveFails, InductiveOther DEF Step, Failure
<1>3. CASE Crash
  <2>1. memory' = None /\ store' = store /\ torn' = torn /\ task' = [t \in Task |-> Idle]
    BY <1>3 DEF Crash
  <2>2. loggedOut' <=> loggedOut /\ Unsaved = {}
    BY <1>3 DEF Crash
  <2>3. \A t \in Task : task'[t].at = "idle"
    BY <2>1, IdleCall
  <2>4. ASSUME ~torn', loggedOut' PROVE store' = memory'
    BY <2>1, <2>2, <2>4
    DEF Inductive, MemoryStaysLoggedOut, SavesFollowMemory, LoggedIn
  <2>5. SavesFollowMemory'
    BY <2>1, <2>3, <2>4 DEF SavesFollowMemory, Unsaved, LoggedIn
  <2>6. QED  BY <2>1, <2>5 DEF Inductive, MemoryStaysLoggedOut, LoggedIn
<1>4. QED  BY <1>1, <1>2, <1>3, InductiveStart DEF Next, vars, Expire

LEMMA InductiveInit == Init => Inductive
  BY DEF Init, Inductive, MemoryStaysLoggedOut, SavesFollowMemory, LoggedIn, Unsaved, Idle

\* The inductive invariant of auth.rs holds in every reachable state.
THEOREM AuthInductive == Spec => []Inductive
<1>1. QED  BY AuthTypeCorrect, InductiveInit, InductiveStays, PTL DEF Spec

(* AuthClient::refresh_token, auth.rs:397: a refresh whose reply comes     *)
(* after a logout has cleared the memory does not log the user in again,   *)
(* however many calls are on their way.                                    *)
THEOREM LogoutStays == Spec => []MemoryStaysLoggedOut
<1>1. Inductive => MemoryStaysLoggedOut
  BY DEF Inductive
<1>2. QED  BY <1>1, AuthInductive, PTL

(* When all calls have returned the secure store holds the session of the  *)
(* memory, unless two calls had written the memory before the first saved. *)
THEOREM StoreFollowsMemory == Spec => []SettledStoreMatches
<1>1. Inductive => SettledStoreMatches
  BY DEF Inductive, SavesFollowMemory, SettledStoreMatches, Quiet, Unsaved
<1>2. QED  BY <1>1, AuthInductive, PTL

----------------------------------------------------------------------------
(* Callers that only ask for tokens                                        *)

TokenCallsOnly == called \subseteq {"token"} /\ faults = 0 /\ crashes = 0

Refreshing == {"recheck", "refresh", "refreshCall", "refreshSet"}

\* They refresh under the lock.
Allowed(c) ==
  /\ c.op \in {"token", "restore"}
  /\ c.at \in {"idle", "set", "check", "lock", "persist"} \cup Refreshing

AllAllowed ==
  \A t \in Task : Allowed(task[t]) /\ (task[t].at \in Refreshing => lock = t)

\* The session is restored once, and nothing comes into memory before.
OneRestore ==
  \A t \in Task : task[t].at = "set" =>
    /\ restored /\ ~LoggedIn
    /\ task[t].creds # None /\ task[t].creds.pair \in live
    /\ \A u \in Task : task[u].at = "set" => t = u

NotYetRestored == ~restored => ~LoggedIn /\ (store # None => store.pair \in live)

\* The pair a call refreshes is that of the memory, and has not been used; a
\* used one stays there only while its successor is on its way.
PairsInUse ==
  \A t \in Task :
    /\ task[t].at \in {"refreshCall", "refreshSet", "persist"} => LoggedIn
    /\ task[t].at = "refreshCall" => task[t].pair = memory.pair /\ task[t].pair \in live
    /\ task[t].at = "refreshSet" => task[t].pair \in live

MemoryIsLive ==
  LoggedIn => /\ restored
              /\ memory.pair \in live \/ \E t \in Task : task[t].at = "refreshSet"

TokensInductive == AllAllowed /\ OneRestore /\ NotYetRestored /\ PairsInUse /\ MemoryIsLive

NeverReusedInductive ==
  /\ faults \in Nat /\ crashes \in Nat
  /\ TokenCallsOnly => TokensInductive

\* A step of t that leaves memory and tokens alone, and the store until the
\* session is restored, and neither sets credentials nor comes with a pair.
LEMMA TokensBeside ==
  ASSUME TypeOK, TokensInductive, NEW t \in Task, NEW c,
         task' = [task EXCEPT ![t] = c],
         UNCHANGED <<memory, live, restored>>,
         store' = store \/ restored,
         Allowed(c), c.at \notin {"set", "refreshSet", "persist"},
         task[t].at # "refreshSet" \/ ~LoggedIn,
         c.at \in Refreshing => lock' = t,
         \A u \in Task : u # t /\ lock = u => lock' = u,
         c.at = "refreshCall" => LoggedIn /\ c.pair = memory.pair /\ c.pair \in live
  PROVE  TokensInductive'
<1>1. \A u \in Task : task'[u] = IF u = t THEN c ELSE task[u]
  BY DEF TypeOK
<1>2. LoggedIn' <=> LoggedIn
  BY DEF LoggedIn
<1>3. AllAllowed'
  BY <1>1 DEF TokensInductive, AllAllowed, Allowed
<1>4. OneRestore'
  BY <1>1, <1>2 DEF TokensInductive, OneRestore
<1>5. NotYetRestored'
  BY <1>2 DEF TokensInductive, NotYetRestored
<1>6. PairsInUse'
  BY <1>1, <1>2 DEF TokensInductive, PairsInUse
<1>7. MemoryIsLive'
  BY <1>1, <1>2 DEF TokensInductive, MemoryIsLive
<1>8. QED  BY <1>3, <1>4, <1>5, <1>6, <1>7 DEF TokensInductive

LEMMA TokensStart ==
  ASSUME TypeOK, TokensInductive, NEW t \in Task, Start(t, "token")
  PROVE  TokensInductive'
<1> DEFINE c == [Idle EXCEPT !.op = "token", !.at = "check", !.pair = 0]
<1>1. /\ task[t].at = "idle"
      /\ task' = [task EXCEPT ![t] = c]
      /\ UNCHANGED <<memory, store, live, restored, lock>>
  BY DEF Start, server
<1>2. c.op = "token" /\ c.at = "check"
  BY DEF Idle
<1> HIDE DEF c
<1>3. QED  BY <1>1, <1>2, TokensBeside DEF Allowed, Refreshing

LEMMA TokensRestore ==
  ASSUME TypeOK, TokensInductive, NEW t \in Task, Restore(t)
  PROVE  TokensInductive'
<1> DEFINE c == [Idle EXCEPT !.op = "restore", !.at = "set", !.creds = store]
<1>1. /\ ~restored /\ restored' = TRUE
      /\ store # None
      /\ task' = [task EXCEPT ![t] = c]
      /\ UNCHANGED <<memory, store, live, lock>>
  BY DEF Restore, server
<1>2. c.op = "restore" /\ c.at = "set" /\ c.creds = store
  BY DEF Idle
<1> HIDE DEF c
<1>3. \A u \in Task : task'[u] = IF u = t THEN c ELSE task[u]
  BY <1>1 DEF TypeOK
<1>4. ~LoggedIn /\ ~LoggedIn' /\ store.pair \in live
  BY <1>1 DEF TokensInductive, NotYetRestored, LoggedIn
<1>5. \A u \in Task : task[u].at # "set"
  BY <1>1 DEF TokensInductive, OneRestore
<1>6. AllAllowed'
  BY <1>1, <1>2, <1>3 DEF TokensInductive, AllAllowed, Allowed, Refreshing
<1>7. OneRestore'
  BY <1>1, <1>2, <1>3, <1>4, <1>5 DEF OneRestore
<1>8. NotYetRestored' /\ MemoryIsLive'
  BY <1>1, <1>4 DEF NotYetRestored, MemoryIsLive
<1>9. PairsInUse'
  BY <1>1, <1>2, <1>3, <1>4 DEF TokensInductive, PairsInUse
<1>10. QED  BY <1>6, <1>7, <1>8, <1>9 DEF TokensInductive

LEMMA TokensSet ==
  ASSUME TypeOK, TokensInductive, NEW t \in Task, SetCredentials(t)
  PROVE  TokensInductive'
<1>1. /\ task[t].at = "set"
      /\ memory' = task[t].creds
      /\ task' = [task EXCEPT ![t].at = "persist"]
      /\ UNCHANGED <<store, live, lock, restored>>
  BY DEF SetCredentials, Goes, server
<1>2. \A u \in Task : u # t => task'[u] = task[u]
  BY <1>1 DEF TypeOK
<1>3. task'[t].op = task[t].op /\ task'[t].at = "persist"
  BY <1>1 DEF TypeOK, Call
<1>4. /\ restored /\ ~LoggedIn
      /\ memory' # None /\ memory'.pair \in live
      /\ \A u \in Task : task[u].at = "set" => t = u
  BY <1>1 DEF TokensInductive, OneRestore
<1>5. LoggedIn' /\ \A u \in Task : task[u].at \notin {"refreshCall", "refreshSet"}
  BY <1>4 DEF TokensInductive, PairsInUse, LoggedIn
<1>6. AllAllowed'
  BY <1>1, <1>2, <1>3 DEF TokensInductive, AllAllowed, Allowed, Refreshing
<1>7. OneRestore'
  BY <1>2, <1>3, <1>4 DEF OneRestore
<1>8. NotYetRestored' /\ MemoryIsLive'
  BY <1>1, <1>4 DEF NotYetRestored, MemoryIsLive
<1>9. PairsInUse'
  BY <1>2, <1>3, <1>5 DEF PairsInUse
<1>10. QED  BY <1>6, <1>7, <1>8, <1>9 DEF TokensInductive

LEMMA TokensRefreshCall ==
  ASSUME TypeOK, TokensInductive, NEW t \in Task, RefreshCall(t)
  PROVE  TokensInductive'
<1>1. /\ task[t].at = "refreshCall" /\ task[t].pair \in live
      /\ LoggedIn /\ lock = t
  BY DEF TokensInductive, PairsInUse, AllAllowed, RefreshCall, Refreshing
<1>2. /\ task' = [task EXCEPT ![t].at = "refreshSet", ![t].pair = NewPair]
      /\ live' = (live \ {task[t].pair}) \cup {NewPair}
      /\ UNCHANGED <<memory, store, lock, restored>>
  BY <1>1 DEF RefreshCall, GoesWith
<1>3. \A u \in Task : u # t => task'[u] = task[u]
  BY <1>2 DEF TypeOK
<1>4. task'[t].op = task[t].op /\ task'[t].at = "refreshSet" /\ task'[t].pair = NewPair
  BY <1>2 DEF TypeOK, Call
<1>5. LoggedIn' /\ restored
  BY <1>1, <1>2 DEF TokensInductive, MemoryIsLive, LoggedIn
<1>6. \A u \in Task : task[u].at \in Refreshing => u = t
  BY <1>1 DEF TokensInductive, AllAllowed
<1>7. AllAllowed'
  BY <1>1, <1>2, <1>3, <1>4 DEF TokensInductive, AllAllowed, Allowed, Refreshing
<1>8. OneRestore'
  BY <1>1, <1>3, <1>4 DEF TokensInductive, OneRestore
<1>9. NotYetRestored' /\ MemoryIsLive'
  BY <1>2, <1>4, <1>5 DEF NotYetRestored, MemoryIsLive
<1>10. PairsInUse'
  <2>1. NewPair \in live'
    BY <1>2
  <2>2. \A u \in Task : u # t => task[u].at \notin {"refreshCall", "refreshSet"}
    BY <1>6 DEF Refreshing
  <2>3. QED  BY <1>3, <1>4, <1>5, <2>1, <2>2 DEF PairsInUse
<1>11. QED  BY <1>7, <1>8, <1>9, <1>10 DEF TokensInductive

LEMMA TokensRefreshSet ==
  ASSUME TypeOK, TokensInductive, NEW t \in Task, RefreshSet(t)
  PROVE  TokensInductive'
<1>1. /\ task[t].at = "refreshSet" /\ task[t].pair \in live
      /\ LoggedIn /\ lock = t
  BY DEF TokensInductive, PairsInUse, AllAllowed, RefreshSet, Refreshing
<1> DEFINE x == Creds(memory.user, task[t].pair)
<1>2. /\ memory' = x
      /\ task' = [task EXCEPT ![t].at = "persist", ![t].creds = x]
      /\ UNCHANGED <<store, live, lock, restored>>
  BY <1>1 DEF RefreshSet, server
<1>3. x.pair = task[t].pair /\ x # None
  <2>1. memory \in [user : User, pair : Nat] /\ task[t].pair \in Nat
    BY <1>1 DEF TypeOK, Credentials, LoggedIn, Call
  <2>2. x \in [user : User, pair : Nat] /\ x.pair = task[t].pair
    BY <2>1 DEF Creds
  <2>3. QED  BY <2>2, AuthAssumption
<1> HIDE DEF x
<1>4. \A u \in Task : u # t => task'[u] = task[u]
  BY <1>2 DEF TypeOK
<1>5. task'[t].op = task[t].op /\ task'[t].at = "persist"
  BY <1>2 DEF TypeOK, Call
<1>6. LoggedIn' /\ restored
  BY <1>1, <1>2, <1>3 DEF TokensInductive, MemoryIsLive, LoggedIn
<1>7. \A u \in Task : task[u].at \in Refreshing => u = t
  BY <1>1 DEF TokensInductive, AllAllowed
<1>8. AllAllowed'
  BY <1>1, <1>2, <1>4, <1>5 DEF TokensInductive, AllAllowed, Allowed, Refreshing
<1>9. OneRestore'
  BY <1>1, <1>4, <1>5 DEF TokensInductive, OneRestore
<1>10. NotYetRestored' /\ MemoryIsLive'
  BY <1>1, <1>2, <1>3, <1>6 DEF NotYetRestored, MemoryIsLive
<1>11. PairsInUse'
  BY <1>2, <1>4, <1>5, <1>6, <1>7 DEF TokensInductive, PairsInUse, Refreshing
<1>12. QED  BY <1>8, <1>9, <1>10, <1>11 DEF TokensInductive

LEMMA TokensReturn ==
  ASSUME TypeOK, TokensInductive, NEW t \in Task, Returns(t),
         UNCHANGED <<memory, live, restored>>,
         store' = store \/ restored,
         task[t].at # "refreshSet" \/ ~LoggedIn
  PROVE  TokensInductive'
<1>1. task' = [task EXCEPT ![t] = Idle]
  BY DEF Returns
<1>2. \A u \in Task : u # t /\ lock = u => lock' = u
  BY DEF Returns, Released
<1>3. Idle.op = "token" /\ Idle.at = "idle"
  BY DEF Idle
<1>4. QED  BY <1>1, <1>2, <1>3, TokensBeside DEF Allowed, Refreshing

\* A call that goes on to another point, keeping the lock or taking it.
LEMMA TokensGo ==
  ASSUME TypeOK, TokensInductive, NEW t \in Task,
         NEW at \in {"check", "lock", "recheck", "refresh"}, Goes(t, at),
         UNCHANGED <<memory, live, restored>>,
         store' = store \/ restored,
         task[t].at # "refreshSet",
         lock' = lock \/ lock = None,
         at \in {"recheck", "refresh"} => lock' = t
  PROVE  TokensInductive'
<1> DEFINE c == [task[t] EXCEPT !.at = at]
<1>1. task' = [task EXCEPT ![t] = c]
  BY DEF Goes, TypeOK
<1>2. c.op = task[t].op /\ c.at = at
  BY DEF TypeOK, Call
<1> HIDE DEF c
<1>3. Allowed(c) /\ c.at \notin {"set", "refreshSet", "persist", "refreshCall"}
  BY <1>2 DEF TokensInductive, AllAllowed, Allowed, Refreshing
<1>4. c.at \in Refreshing => lock' = t
  BY <1>2 DEF Refreshing
<1>5. \A u \in Task : u # t /\ lock = u => lock' = u
  BY NoneIsNoTask
<1>6. QED  BY <1>1, <1>3, <1>4, <1>5, TokensBeside

LEMMA TokensRefreshRead ==
  ASSUME TypeOK, TokensInductive, NEW t \in Task, RefreshRead(t)
  PROVE  TokensInductive'
<1>1. /\ task[t].at = "refresh" /\ lock = t /\ Allowed(task[t])
      /\ UNCHANGED <<memory, store, live, restored>>
  BY DEF TokensInductive, AllAllowed, RefreshRead, Refreshing, server
<1>2. CASE LoggedIn
  <2> DEFINE c == [task[t] EXCEPT !.at = "refreshCall", !.pair = memory.pair]
  <2>1. task' = [task EXCEPT ![t] = c] /\ lock' = lock
    BY <1>2 DEF RefreshRead, GoesWith, TypeOK
  <2>2. c.op = task[t].op /\ c.at = "refreshCall" /\ c.pair = memory.pair
    BY DEF TypeOK, Call
  <2> HIDE DEF c
  <2>3. memory.pair \in live
    <3>1. \A u \in Task : task[u].at = "refreshSet" => lock = u
      BY DEF TokensInductive, AllAllowed, Refreshing
    <3>2. \A u \in Task : task[u].at # "refreshSet"
      BY <1>1, <3>1
    <3>3. QED  BY <1>2, <3>2 DEF TokensInductive, MemoryIsLive
  <2>4. Allowed(c)
    BY <1>1, <2>2 DEF Allowed, Refreshing
  <2>5. QED  BY <1>1, <1>2, <2>1, <2>2, <2>3, <2>4, TokensBeside
<1>3. CASE ~LoggedIn
  <2>1. Returns(t)
    BY <1>1, <1>3 DEF RefreshRead, RefreshFailed, Allowed
  <2>2. QED  BY <1>1, <2>1, TokensReturn
<1>4. QED  BY <1>2, <1>3

LEMMA TokensPersist ==
  ASSUME TypeOK, TokensInductive, NEW t \in Task, Persist(t)
  PROVE  TokensInductive'
<1>1. /\ task[t].at = "persist" /\ LoggedIn /\ Allowed(task[t])
      /\ UNCHANGED <<memory, live, restored>>
  BY DEF TokensInductive, AllAllowed, PairsInUse, Persist, server
<1>2. restored
  BY <1>1 DEF TokensInductive, MemoryIsLive
<1>3. \/ Goes(t, "check") /\ lock' = lock
      \/ Returns(t)
  BY <1>1 DEF Persist, RefreshDone, Allowed
<1>4. CASE Goes(t, "check") /\ lock' = lock
  BY <1>1, <1>2, <1>4, TokensGo
<1>5. CASE Returns(t)
  BY <1>1, <1>2, <1>5, TokensReturn
<1>6. QED  BY <1>3, <1>4, <1>5

LEMMA TokensLock ==
  ASSUME TypeOK, TokensInductive, NEW t \in Task, Check(t) \/ Acquire(t) \/ Recheck(t)
  PROVE  TokensInductive'
<1>1. UNCHANGED <<memory, store, live, restored>> /\ task[t].at # "refreshSet"
  BY DEF Check, Acquire, Recheck, server
<1>2. CASE Check(t)
  <2>1. Returns(t) \/ (Goes(t, "lock") /\ lock' = lock)
    BY <1>2 DEF Check
  <2>2. QED  BY <1>1, <2>1, TokensReturn, TokensGo
<1>3. CASE Acquire(t)
  <2>1. Goes(t, "recheck") /\ lock = None /\ lock' = t
    BY <1>3 DEF Acquire
  <2>2. QED  BY <1>1, <2>1, TokensGo
<1>4. CASE Recheck(t)
  <2>1. lock = t
    BY <1>4 DEF Recheck, TokensInductive, AllAllowed, Refreshing
  <2>2. Returns(t) \/ (Goes(t, "refresh") /\ lock' = lock)
    BY <1>4 DEF Recheck
  <2>3. QED  BY <1>1, <2>1, <2>2, TokensReturn, TokensGo
<1>5. QED  BY <1>2, <1>3, <1>4

LEMMA TokensStay ==
  TypeOK /\ NeverReusedInductive /\ [Next]_vars => NeverReusedInductive'
<1> SUFFICES ASSUME TypeOK, NeverReusedInductive, [Next]_vars PROVE NeverReusedInductive'
  OBVIOUS
<1>1. /\ faults' = faults \/ faults' = faults + 1
      /\ crashes' = crashes \/ crashes' = crashes + 1
      /\ called \subseteq called'
  BY DEF Next, vars, Start, Restore, Step, Failure, Expire, Crash, Fault, bounds,
         LoginCall, SetCredentials, RefreshRead, RefreshCall, RefreshSet, Persist, Check,
         Acquire, Recheck, LogoutCall, LogoutAgain, Clear, ClearStore, LoginFails,
         RefreshCallFails, PersistFails, LogoutCallFails, ClearStoreFails
<1>2. faults' \in Nat /\ crashes' \in Nat
  BY <1>1 DEF NeverReusedInductive
<1>3. ASSUME TokenCallsOnly' PROVE TokensInductive'
  <2>1. /\ TokenCallsOnly /\ TokensInductive
        /\ faults' = faults /\ crashes' = crashes /\ called' \subseteq {"token"}
    BY <1>1, <1>3 DEF NeverReusedInductive, TokenCallsOnly
  <2>2. \A t \in Task : Allowed(task[t])
    BY <2>1 DEF TokensInductive, AllAllowed
  <2>3. ASSUME NEW t \in Task, NEW op \in Operation, Start(t, op) PROVE TokensInductive'
    <3>1. op = "token"
      BY <2>1, <2>3 DEF Start
    <3>2. QED  BY <2>1, <2>3, <3>1, TokensStart
  <2>4. ASSUME NEW t \in Task, Step(t) PROVE TokensInductive'
    <3>1. /\ \A u \in User : ~LoginCall(t, u)
          /\ ~LogoutCall(t) /\ ~LogoutAgain(t) /\ ~Clear(t) /\ ~ClearStore(t)
      BY <2>2 DEF LoginCall, LogoutCall, LogoutAgain, Clear, ClearStore, Allowed, Refreshing
    <3>2. QED
      BY <2>1, <2>4, <3>1, TokensSet, TokensRefreshRead, TokensRefreshCall,
         TokensRefreshSet, TokensPersist, TokensLock DEF Step
  <2>5. ASSUME NEW t \in Task, Failure(t) PROVE FALSE
    <3>1. faults' = faults + 1
      BY <2>5 DEF Failure, Fault, LoginFails, RefreshCallFails, PersistFails,
                  LogoutCallFails, ClearStoreFails
    <3>2. QED  BY <2>1, <3>1 DEF NeverReusedInductive
  <2>6. ASSUME UNCHANGED <<memory, store, live, restored, lock, task>>
        PROVE  TokensInductive'
    BY <2>1, <2>6 DEF TokensInductive, AllAllowed, OneRestore, NotYetRestored, PairsInUse,
                      MemoryIsLive, LoggedIn
  <2>7. ASSUME NEW p \in 1..Len(issued), Expire(p) PROVE TokensInductive'
    BY <2>6, <2>7 DEF Expire, server
  <2>8. CASE UNCHANGED vars
    BY <2>6, <2>8 DEF vars, server
  <2>9. ~Crash
    BY <2>1 DEF Crash, NeverReusedInductive
  <2>10. QED
    BY <2>1, <2>3, <2>4, <2>5, <2>7, <2>8, <2>9, TokensRestore DEF Next
<1>4. QED  BY <1>2, <1>3 DEF NeverReusedInductive

LEMMA TokensInit == Init => NeverReusedInductive
<1> SUFFICES ASSUME Init PROVE NeverReusedInductive
  OBVIOUS
<1>1. \A t \in Task : task[t].op = "token" /\ task[t].at = "idle"
  BY DEF Init, Idle
<1>2. ~LoggedIn /\ ~restored /\ faults = 0 /\ crashes = 0
  BY DEF Init, LoggedIn
<1>3. store # None => store.pair \in live
  BY DEF Init, Creds
<1>4. QED
  BY <1>1, <1>2, <1>3
  DEF NeverReusedInductive, TokensInductive, AllAllowed, Allowed, OneRestore, NotYetRestored,
      PairsInUse, MemoryIsLive, Refreshing

(* AuthClient::get_access_token_auto_refresh, auth.rs:418: however many    *)
(* callers ask for a token at once, after a restore or during one, none    *)
(* presents a refresh token the server has already exchanged, as they look *)
(* at the memory again once they hold the lock (auth.rs:432).              *)
THEOREM TokensAreUsedOnce == Spec => []NeverReused
<1>1. NeverReusedInductive => NeverReused
  BY DEF NeverReusedInductive, TokenCallsOnly, TokensInductive, PairsInUse, NeverReused
<1>2. QED  BY <1>1, AuthTypeCorrect, TokensInit, TokensStay, PTL DEF Spec

=============================================================================
