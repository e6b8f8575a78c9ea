----------------------------- MODULE AuthSession -----------------------------
(***************************************************************************)
(* The user session of the SDK (remi-client-sdk/src/auth.rs): credentials  *)
(* in memory, a copy in the host's secure store, calls of the host that    *)
(* overlap at every await, and the authentication server.                  *)
(*                                                                         *)
(* An access token and its refresh token are one pair, numbered in the     *)
(* order the server issues them.  A refresh token works once.              *)
(***************************************************************************)
EXTENDS Naturals, Sequences

CONSTANTS
  User,
  Task,        \* asynchronous calls that may run at the same time
  Ops,         \* operations the host calls
  None,        \* no credentials, no task
  MaxCalls,    \* bound on the calls made
  MaxFaults,   \* bound on failures of the network, the server and the store
  MaxCrashes   \* bound on deaths of the process

Operation == {"login", "logout", "refresh", "token", "clear"}

ASSUME AuthAssumption ==
  /\ None \notin User \cup Task
  /\ None \notin [user : User, pair : Nat]
  /\ Ops \subseteq Operation
  /\ MaxCalls \in Nat
  /\ MaxFaults \in Nat
  /\ MaxCrashes \in Nat

VARIABLES
  issued,     \* the server: [user, session] of every pair issued
  live,       \* the server: pairs whose refresh token still works
  expired,    \* pairs whose access token is about to expire
  memory,     \* AuthClient.credentials: [user, pair] or None
  store,      \* SecureSessionStore: likewise
  lock,       \* AuthClient.refresh_lock: the task that holds it or None
  task,       \* [Task -> what that call is doing]
  restored,   \* the persisted session was restored in this process
  loggedOut,  \* (auxiliary) cleared by a logout, and no credentials set since
  torn,       \* (auxiliary) two calls wrote the memory before the first of
              \* them had saved, or one could not save
  calls,
  called,     \* the operations called so far
  faults,
  crashes

server == <<issued, live>>
bounds == <<calls, called, faults, crashes>>
aux == <<loggedOut, torn>>
vars == <<server, expired, memory, store, lock, task, restored, aux, bounds>>

Creds(u, p) == [user |-> u, pair |-> p]
LoggedIn == memory # None

Idle == [op |-> "token", at |-> "idle", creds |-> None, pair |-> 0]

Fault == faults < MaxFaults /\ faults' = faults + 1

\* The server issues the next pair.
Issue(u, session) == issued' = Append(issued, [user |-> u, session |-> session])
NewPair == Len(issued) + 1

\* The task goes on at another point, with what it has read or received.
Goes(t, at) == task' = [task EXCEPT ![t].at = at]
GoesWith(t, at, p) == task' = [task EXCEPT ![t].at = at, ![t].pair = p]

\* A write of the memory, next to a call that has yet to save its own.
Unsaved == {t \in Task : task[t].at \in {"persist", "clearStore"}}
Writes(t) == torn' = (torn \/ Unsaved # {})

\* The call returns; the guard of the refresh lock is dropped with it.
Released(t) == IF lock = t THEN None ELSE lock
Returns(t) ==
  /\ task' = [task EXCEPT ![t] = Idle]
  /\ lock' = Released(t)

----------------------------------------------------------------------------
(* Starting a call                                                         *)

Start(t, op) ==
  /\ op \in Ops
  /\ task[t].at = "idle"
  /\ calls < MaxCalls
  /\ calls' = calls + 1
  /\ called' = called \cup {op}
  /\ LET At == CASE op = "login" -> "loginCall"
                 [] op = "logout" -> "logoutCall"
                 [] op = "refresh" -> "refreshCall"
                 [] op = "token" -> "check"
                 [] op = "clear" -> "clear"
         Reads == op \in {"logout", "refresh"}
     IN /\ Reads => LoggedIn
        /\ task' = [task EXCEPT ![t] =
                      [Idle EXCEPT !.op = op, !.at = At,
                                   !.pair = IF Reads THEN memory.pair ELSE 0]]
  /\ UNCHANGED <<server, expired, memory, store, lock, restored, aux, faults, crashes>>

\* configure_auth_client and auth_set_secure_session_store restore what the
\* store holds, once in the life of a process.
Restore(t) ==
  /\ ~restored
  /\ restored' = TRUE
  /\ task[t].at = "idle"
  /\ store # None
  /\ task' = [task EXCEPT ![t] = [Idle EXCEPT !.op = "restore", !.at = "set", !.creds = store]]
  /\ UNCHANGED <<server, expired, memory, store, lock, aux, bounds>>

----------------------------------------------------------------------------
(* Login                                                                   *)

LoginCall(t, u) ==
  /\ task[t].at = "loginCall"
  /\ Issue(u, NewPair)
  /\ live' = live \cup {NewPair}
  /\ task' = [task EXCEPT ![t].at = "set", ![t].creds = Creds(u, NewPair)]
  /\ UNCHANGED <<expired, memory, store, lock, restored, aux, bounds>>

LoginFails(t) ==
  /\ task[t].at = "loginCall"
  /\ Fault
  /\ Returns(t)
  /\ UNCHANGED <<server, expired, memory, store, restored, aux, calls, called, crashes>>

\* A login, or a restore, takes its credentials into memory.
SetCredentials(t) ==
  /\ task[t].at = "set"
  /\ memory' = task[t].creds
  /\ Goes(t, "persist")
  /\ loggedOut' = FALSE
  /\ Writes(t)
  /\ UNCHANGED <<server, expired, store, lock, restored, bounds>>

----------------------------------------------------------------------------
(* Refresh                                                                 *)

\* The refresh is done: a logout tries again with the new access token.
RefreshDone(t) ==
  IF task[t].op = "logout" THEN Goes(t, "logoutAgain") /\ UNCHANGED lock
                           ELSE Returns(t)

\* Mutant: the lock is not released by a refresh that fails.
RefreshFailedHolding(t, rejected) ==
  /\ IF task[t].op = "logout" \/ (task[t].op = "restore" /\ rejected)
     THEN Goes(t, "clear")
     ELSE task' = [task EXCEPT ![t] = Idle]
  /\ UNCHANGED lock

\* The refresh failed: a logout and a rejected restore clear the session.
RefreshFailed(t, rejected) ==
  IF task[t].op = "logout" \/ (task[t].op = "restore" /\ rejected)
  THEN Goes(t, "clear") /\ lock' = Released(t)
  ELSE Returns(t)

RefreshRead(t) ==
  /\ task[t].at = "refresh"
  /\ IF LoggedIn
     THEN GoesWith(t, "refreshCall", memory.pair) /\ UNCHANGED lock
     ELSE RefreshFailed(t, FALSE)
  /\ UNCHANGED <<server, expired, memory, store, restored, aux, bounds>>

\* The server exchanges the refresh token, or finds it used or ended.
RefreshCall(t) ==
  LET old == task[t].pair IN
  /\ task[t].at = "refreshCall"
  /\ IF old \in live
     THEN /\ Issue(issued[old].user, issued[old].session)
          /\ live' = (live \ {old}) \cup {NewPair}
          /\ GoesWith(t, "refreshSet", NewPair)
          /\ UNCHANGED lock
     ELSE /\ RefreshFailed(t, TRUE)
          /\ UNCHANGED server
  /\ UNCHANGED <<expired, memory, store, restored, aux, bounds>>

\* The request is lost, or the reply to it.
RefreshCallFails(t) ==
  LET old == task[t].pair IN
  /\ task[t].at = "refreshCall"
  /\ Fault
  /\ \/ UNCHANGED server
     \/ /\ old \in live
        /\ Issue(issued[old].user, issued[old].session)
        /\ live' = (live \ {old}) \cup {NewPair}
  /\ RefreshFailed(t, FALSE)
  /\ UNCHANGED <<expired, memory, store, restored, aux, calls, called, crashes>>

\* Mutant: the refresh logs in again.
RefreshSetAlways(t) ==
  /\ task[t].at = "refreshSet"
  /\ LET creds == Creds(IF LoggedIn THEN memory.user ELSE issued[task[t].pair].user,
                        task[t].pair)
     IN memory' = creds /\ task' = [task EXCEPT ![t].at = "persist", ![t].creds = creds]
  /\ Writes(t)
  /\ UNCHANGED <<server, expired, store, lock, restored, loggedOut, bounds>>

\* The new pair goes into whatever session is in memory by then.
RefreshSet(t) ==
  /\ task[t].at = "refreshSet"
  /\ IF LoggedIn
     THEN LET creds == Creds(memory.user, task[t].pair) IN
          /\ memory' = creds
          /\ task' = [task EXCEPT ![t].at = "persist", ![t].creds = creds]
          /\ Writes(t)
          /\ UNCHANGED lock
     ELSE UNCHANGED <<memory, torn>> /\ RefreshDone(t)
  /\ UNCHANGED <<server, expired, store, restored, loggedOut, bounds>>

\* Mutant: a refreshed session is not saved.
PersistOnlyLogins(t) ==
  /\ task[t].at = "persist"
  /\ store' = IF task[t].pair = 0 THEN task[t].creds ELSE store
  /\ IF task[t].op = "restore" /\ task[t].pair = 0
     THEN Goes(t, "check") /\ UNCHANGED lock
     ELSE RefreshDone(t)
  /\ UNCHANGED <<server, expired, memory, restored, aux, bounds>>

\* Save to the store; a restore that has just set its credentials goes on to
\* validate them.
Persist(t) ==
  /\ task[t].at = "persist"
  /\ store' = task[t].creds
  /\ IF task[t].op = "restore" /\ task[t].pair = 0
     THEN Goes(t, "check") /\ UNCHANGED lock
     ELSE RefreshDone(t)
  /\ UNCHANGED <<server, expired, memory, restored, aux, bounds>>

PersistFails(t) ==
  /\ task[t].at = "persist"
  /\ Fault
  /\ IF task[t].op = "restore" /\ task[t].pair = 0
     THEN Goes(t, "check") /\ UNCHANGED lock
     ELSE RefreshFailed(t, FALSE)
  /\ torn' = TRUE
  /\ UNCHANGED <<server, expired, memory, store, restored, loggedOut, calls, called, crashes>>

----------------------------------------------------------------------------
(* An access token, refreshed when it is about to expire                   *)

Fresh == LoggedIn /\ memory.pair \notin expired

Check(t) ==
  /\ task[t].at = "check"
  /\ IF Fresh THEN Returns(t) ELSE Goes(t, "lock") /\ UNCHANGED lock
  /\ UNCHANGED <<server, expired, memory, store, restored, aux, bounds>>

\* Mutant: the refreshes are not serialized.
AcquireAnyway(t) ==
  /\ task[t].at = "lock"
  /\ lock' = t
  /\ Goes(t, "recheck")
  /\ UNCHANGED <<server, expired, memory, store, restored, aux, bounds>>

Acquire(t) ==
  /\ task[t].at = "lock"
  /\ lock = None
  /\ lock' = t
  /\ Goes(t, "recheck")
  /\ UNCHANGED <<server, expired, memory, store, restored, aux, bounds>>

Recheck(t) ==
  /\ task[t].at = "recheck"
  /\ IF Fresh THEN Returns(t) ELSE Goes(t, "refresh") /\ UNCHANGED lock
  /\ UNCHANGED <<server, expired, memory, store, restored, aux, bounds>>

----------------------------------------------------------------------------
(* Logout                                                                  *)

\* The server ends a session: none of its refresh tokens works any more.
End(p) == live' = {q \in live : issued[q].session # issued[p].session}

LogoutCall(t) ==
  LET p == task[t].pair IN
  /\ task[t].at = "logoutCall"
  /\ \/ p \in expired /\ Goes(t, "refresh") /\ UNCHANGED live
     \/ End(p) /\ Goes(t, "clear")
  /\ UNCHANGED <<issued, expired, memory, store, lock, restored, aux, bounds>>

\* A backend without logout lets the session be cleared here only; after any
\* other error, the server's work done or not, the session is kept.
LogoutCallFails(t) ==
  /\ task[t].at = "logoutCall"
  /\ Fault
  /\ \/ Goes(t, "clear") /\ UNCHANGED <<live, lock>>
     \/ Returns(t) /\ (UNCHANGED live \/ End(task[t].pair))
  /\ UNCHANGED <<issued, expired, memory, store, restored, aux, calls, called, crashes>>

\* The second try clears the session whatever comes of it.
LogoutAgain(t) ==
  /\ task[t].at = "logoutAgain"
  /\ End(task[t].pair) \/ UNCHANGED live
  /\ Goes(t, "clear")
  /\ UNCHANGED <<issued, expired, memory, store, lock, restored, aux, bounds>>

Clear(t) ==
  /\ task[t].at = "clear"
  /\ memory' = None
  /\ Goes(t, "clearStore")
  /\ loggedOut' = TRUE
  /\ Writes(t)
  /\ UNCHANGED <<server, expired, store, lock, restored, bounds>>

ClearStore(t) ==
  /\ task[t].at = "clearStore"
  /\ store' = None
  /\ Returns(t)
  /\ UNCHANGED <<server, expired, memory, restored, aux, bounds>>

\* The logout returns an error.
ClearStoreFails(t) ==
  /\ task[t].at = "clearStore"
  /\ Fault
  /\ Returns(t)
  /\ loggedOut' = FALSE
  /\ torn' = TRUE
  /\ UNCHANGED <<server, expired, memory, store, restored, calls, called, crashes>>

----------------------------------------------------------------------------

Expire(p) ==
  /\ p \notin expired
  /\ expired' = expired \cup {p}
  /\ UNCHANGED <<server, memory, store, lock, task, restored, aux, bounds>>

\* The process dies; a logout that had not returned is not one.
Crash ==
  /\ crashes < MaxCrashes
  /\ crashes' = crashes + 1
  /\ memory' = None
  /\ lock' = None
  /\ task' = [t \in Task |-> Idle]
  /\ restored' = FALSE
  /\ loggedOut' = (loggedOut /\ Unsaved = {})
  /\ UNCHANGED <<server, expired, store, torn, calls, called, faults>>

\* The process starts, with a session of an earlier life in the store or none.
Init ==
  /\ \/ issued = <<>> /\ live = {} /\ store = None
     \/ \E u \in User : /\ issued = <<[user |-> u, session |-> 1]>>
                        /\ live = {1}
                        /\ store = Creds(u, 1)
  /\ expired = {}
  /\ memory = None
  /\ lock = None
  /\ task = [t \in Task |-> Idle]
  /\ restored = FALSE
  /\ loggedOut = FALSE
  /\ torn = FALSE
  /\ calls = 0
  /\ called = {}
  /\ faults = 0
  /\ crashes = 0

Step(t) ==
  \/ \E u \in User : LoginCall(t, u)
  \/ SetCredentials(t)
  \/ RefreshRead(t)
  \/ RefreshCall(t)
  \/ RefreshSet(t)
  \/ Persist(t)
  \/ Check(t)
  \/ Acquire(t)
  \/ Recheck(t)
  \/ LogoutCall(t)
  \/ LogoutAgain(t)
  \/ Clear(t)
  \/ ClearStore(t)

Failure(t) ==
  \/ LoginFails(t)
  \/ RefreshCallFails(t)
  \/ PersistFails(t)
  \/ LogoutCallFails(t)
  \/ ClearStoreFails(t)

Next ==
  \/ \E t \in Task, op \in Operation : Start(t, op)
  \/ \E t \in Task : Restore(t) \/ Step(t) \/ Failure(t)
  \/ \E p \in 1..Len(issued) : Expire(p)
  \/ Crash

Spec == Init /\ [][Next]_vars

----------------------------------------------------------------------------
(* Properties                                                              *)

Point ==
  {"idle", "loginCall", "set", "refresh", "refreshCall", "refreshSet", "persist",
   "check", "lock", "recheck", "logoutCall", "logoutAgain", "clear", "clearStore"}
Credentials == [user : User, pair : Nat] \cup {None}

Call ==
  [op : Operation \cup {"restore"}, at : Point, creds : Credentials, pair : Nat]

\* The lock is asked for, and held, by calls that want a token; its holder is
\* about to return one.
LockHeld ==
  /\ \A t \in Task : task[t].at \in {"check", "lock"} => task[t].op \in {"token", "restore"}
  /\ \A t \in Task : lock = t =>
       /\ task[t].op \in {"token", "restore"}
       /\ task[t].at \in {"recheck", "refresh", "refreshCall", "refreshSet", "persist"}
       /\ task[t].at \in {"refreshSet", "persist"} => task[t].pair # 0

\* Types, and a lock that no call leaves behind.
TypeOK ==
  /\ issued \in Seq([user : User, session : Nat])
  /\ live \subseteq 1..Len(issued)
  /\ expired \subseteq 1..Len(issued)
  /\ memory \in Credentials
  /\ store \in Credentials
  /\ lock \in Task \cup {None}
  /\ task \in [Task -> Call]
  /\ restored \in BOOLEAN
  /\ loggedOut \in BOOLEAN
  /\ torn \in BOOLEAN
  /\ LockHeld

Quiet == \A t \in Task : task[t].at = "idle"

\* Callers that only ask for tokens never present a refresh token twice,
\* however many ask at once: whoever gets the lock late finds the new token.
\* (A reply that was lost, or a pair that was not saved, is presented again.)
NeverReused ==
  called \subseteq {"token"} /\ faults = 0 /\ crashes = 0 =>
  \A t \in Task : task[t].at = "refreshCall" => task[t].pair \in live

\* When all calls have returned the store holds what the memory holds, so
\* that a restart finds the session that was in use and none after a logout;
\* unless two calls wrote the memory before the first of them had saved.
SettledStoreMatches ==
  Quiet /\ ~torn /\ (LoggedIn \/ loggedOut) => store = memory

\* A logout in memory is not undone by a refresh that was on its way.
MemoryStaysLoggedOut == loggedOut => ~LoggedIn

\* Why the store follows the memory: as long as writers of the memory save one
\* after the other, the one that has yet to save holds what is in memory.
SavesFollowMemory ==
  ~torn =>
    /\ \A t, u \in Unsaved : t = u
    /\ \A t \in Task : task[t].at = "persist" => task[t].creds = memory
    /\ \A t \in Task : task[t].at = "clearStore" => memory = None
    /\ Unsaved = {} /\ (LoggedIn \/ loggedOut) => store = memory

\* The inductive invariant behind SettledStoreMatches.
Inductive == MemoryStaysLoggedOut /\ SavesFollowMemory

=============================================================================
