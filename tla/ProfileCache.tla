---------------------------- MODULE ProfileCache ----------------------------
(***************************************************************************)
(* The profile of the signed-in user and its process-wide cache            *)
(* (remi-client-sdk/src/profile.rs).  Calls of the host run concurrently;  *)
(* every await is a step of its own, and the user may sign in and out      *)
(* between any two of them.                                                *)
(*                                                                         *)
(* A generation is raised when an update begins, when the cache is cleared *)
(* and when the client is configured again; a refresh stores what it got   *)
(* only if the generation is still the one it began with.                  *)
(***************************************************************************)
EXTENDS Credentials, Naturals, FiniteSets

CONSTANTS
  Call,          \* the calls the host makes, each once
  Calls,         \* [Call -> what the call may be, a set of operations]
  MaxSignIns,    \* bound on sign-ins
  MaxRaises      \* bound on sign-outs and on configurations after the first

ASSUME ProfileAssumption ==
  /\ Calls \in [Call -> SUBSET {"get", "refresh", "update", "upload"}]
  /\ MaxSignIns \in Nat
  /\ MaxRaises \in Nat

VARIABLES
  signOut,     \* how far clear_credentials has come
  cache,       \* PROFILE_CACHE
  generation,  \* PROFILE_CACHE_GENERATION
  profiles,    \* [User -> [name, avatar]]: the profiles on the server
  calls,       \* what each call is doing
  during,      \* (auxiliary) the users signed in while each call has run
  signs        \* [in, out]: sign-ins, sign-outs and configurations so far

pvars == <<user, signOut, cache, generation, profiles, calls, during, signs>>

NoEntry == [user |-> NoUser, name |-> 0, avatar |-> 0]

\* as: whose token the request carries; id: the user id last read; late
\* (auxiliary): the generation could not tell the call of an update, which ran
\* when the call loaded it or began after the call compared it.
Fresh(op, pc) ==
  [op |-> op, pc |-> pc, gen |-> 0, as |-> NoUser, id |-> NoUser, got |-> NoEntry, late |-> FALSE]

Waiting == {"look", "read", "load", "ask", "sent", "askSet", "sentSet", "check", "store", "own", "paint"}
Running(c) == calls[c].pc \in Waiting

ProfileInit ==
  /\ user = NoUser
  /\ signOut = "no"
  /\ cache = NoEntry
  /\ generation = 0
  /\ profiles = [u \in User |-> [name |-> 0, avatar |-> 0]]
  /\ calls = [c \in Call |-> Fresh("get", "new")]
  /\ during = [c \in Call |-> {}]
  /\ signs = [in |-> 0, out |-> 0]

Entry(u) == [user |-> u, name |-> profiles[u].name, avatar |-> profiles[u].avatar]

----------------------------------------------------------------------------
(* Signing in and out                                                      *)

\* Logging in replaces the credentials; nothing clears the cache.
SignIn(u) ==
  /\ signs.in < MaxSignIns
  /\ user # u
  /\ user' = u
  /\ signs' = [signs EXCEPT !.in = @ + 1]
  /\ during' = [c \in Call |-> IF Running(c) THEN during[c] \cup {u} ELSE during[c]]
  /\ UNCHANGED <<signOut, cache, generation, profiles, calls>>

SignOut ==
  /\ user # NoUser /\ signOut = "no"
  /\ signs.out < MaxRaises
  /\ user' = NoUser
  /\ signOut' = "raise"
  /\ signs' = [signs EXCEPT !.out = @ + 1]
  /\ UNCHANGED <<cache, generation, profiles, calls, during>>

\* profile_clear_cache.
ClearRaises ==
  /\ signOut = "raise"
  /\ generation' = generation + 1
  /\ signOut' = "clear"
  /\ UNCHANGED <<user, cache, profiles, calls, during, signs>>

ClearEmpties ==
  /\ signOut = "clear"
  /\ cache' = NoEntry
  /\ signOut' = "no"
  /\ UNCHANGED <<user, generation, profiles, calls, during, signs>>

\* configure_profile_client: the requests under way keep the client they have.
ConfiguresAgain ==
  /\ signs.out < MaxRaises
  /\ signs' = [signs EXCEPT !.out = @ + 1]
  /\ generation' = generation + 1
  /\ UNCHANGED <<user, signOut, cache, profiles, calls, during>>

----------------------------------------------------------------------------
(* The calls                                                               *)

Becomes(c, r) == calls' = [calls EXCEPT ![c] = r]
Goes(c, pc) == Becomes(c, [calls[c] EXCEPT !.pc = pc])

\* The call returns got; what it remembered is gone.
Ends(c, pc, got) == Becomes(c, [Fresh(calls[c].op, pc) EXCEPT !.got = got])
At(c, pc) == calls[c].pc = pc

Updating == \E c \in Call : Running(c) /\ calls[c].op = "update"

First(op) == CASE op = "get" -> "look" [] op = "refresh" -> "load" [] OTHER -> "ask"

\* Mutant: an update raises the generation only when it stores.
StartUnraised(c) ==
  \E op \in Calls[c] :
    /\ At(c, "new")
    /\ calls' = [d \in Call |->
         IF d = c THEN Fresh(op, First(op))
         ELSE [calls[d] EXCEPT !.late = @ \/ (op = "update" /\ At(d, "store"))]]
    /\ during' = [during EXCEPT ![c] = {user} \ {NoUser}]
    /\ UNCHANGED <<user, signOut, cache, generation, profiles, signs>>

Start(c) ==
  \E op \in Calls[c] :
    /\ At(c, "new")
    /\ calls' = [d \in Call |->
         IF d = c THEN Fresh(op, First(op))
         ELSE [calls[d] EXCEPT !.late = @ \/ (op = "update" /\ At(d, "store"))]]
    /\ generation' = IF op = "update" THEN generation + 1 ELSE generation
    /\ during' = [during EXCEPT ![c] = {user} \ {NoUser}]
    /\ UNCHANGED <<user, signOut, cache, profiles, signs>>

\* profile_cache_get_for_current_user: who is signed in ...
ReadsUser(c) ==
  /\ At(c, "look")
  /\ IF user = NoUser THEN Goes(c, "load")
     ELSE Becomes(c, [calls[c] EXCEPT !.id = user, !.pc = "read"])
  /\ UNCHANGED <<user, signOut, cache, generation, profiles, during, signs>>

\* Mutant: any entry will do.
AnyEntryHits(c) == cache # NoEntry

\* ... and whether the entry is theirs.
Hit(c) == cache.user = calls[c].id

ReadsCache(c) ==
  /\ At(c, "read")
  /\ IF Hit(c)
     THEN Ends(c, "done", cache)
     ELSE Goes(c, "load")
  /\ UNCHANGED <<user, signOut, cache, generation, profiles, during, signs>>

LoadsGeneration(c) ==
  /\ At(c, "load")
  /\ Becomes(c, [calls[c] EXCEPT !.gen = generation, !.late = Updating, !.pc = "ask"])
  /\ UNCHANGED <<user, signOut, cache, generation, profiles, during, signs>>

\* authed_request: the token of whoever is signed in now.
Sends(c) ==
  /\ calls[c].pc \in {"ask", "askSet"}
  /\ IF user = NoUser THEN Ends(c, "failed", NoEntry)
     ELSE Becomes(c, [calls[c] EXCEPT !.as = user,
                                      !.pc = IF At(c, "ask") THEN "sent" ELSE "sentSet"])
  /\ UNCHANGED <<user, signOut, cache, generation, profiles, during, signs>>

\* The server answers for the token's user.  An upload has then only got its
\* URL; a second request makes it the avatar.
Served(c) ==
  LET u == calls[c].as
  IN  /\ \/ /\ At(c, "sent") /\ calls[c].op \in {"get", "refresh"}
            /\ profiles' = profiles
            /\ Becomes(c, [calls[c] EXCEPT !.got = Entry(u), !.as = NoUser, !.pc = "check"])
         \/ /\ At(c, "sent") /\ calls[c].op = "update"
            /\ profiles' = [profiles EXCEPT ![u].name = @ + 1]
            /\ Becomes(c, [calls[c] EXCEPT !.got = [Entry(u) EXCEPT !.name = @ + 1], !.pc = "store"])
         \/ /\ At(c, "sent") /\ calls[c].op = "upload"
            /\ profiles' = profiles
            /\ Goes(c, "askSet")
         \/ /\ At(c, "sentSet")
            /\ profiles' = [profiles EXCEPT ![u].avatar = @ + 1]
            /\ Becomes(c, [calls[c] EXCEPT !.got = [Entry(u) EXCEPT !.avatar = @ + 1], !.pc = "own"])
      /\ UNCHANGED <<user, signOut, cache, generation, during, signs>>

\* No client, no channel, an error of the server, or a timeout after which the
\* server may have done its part.
Fails(c) ==
  LET u == calls[c].as
  IN  /\ calls[c].pc \in {"ask", "sent", "askSet", "sentSet"}
      /\ Ends(c, "failed", NoEntry)
      /\ \/ profiles' = profiles
         \/ /\ At(c, "sent") /\ calls[c].op = "update"
            /\ profiles' = [profiles EXCEPT ![u].name = @ + 1]
         \/ /\ At(c, "sentSet")
            /\ profiles' = [profiles EXCEPT ![u].avatar = @ + 1]
      /\ UNCHANGED <<user, signOut, cache, generation, during, signs>>

Unraised(c) == generation = calls[c].gen

Compares(c) ==
  /\ At(c, "check")
  /\ IF Unraised(c)
     THEN Goes(c, "store")
     ELSE Ends(c, "done", calls[c].got)
  /\ UNCHANGED <<user, signOut, cache, generation, profiles, during, signs>>

\* profile_cache_set.
Stores(c) ==
  /\ At(c, "store")
  /\ cache' = calls[c].got
  /\ Ends(c, "done", calls[c].got)
  /\ UNCHANGED <<user, signOut, generation, profiles, during, signs>>

\* profile_cache_update_avatar_for_current_user.
Owns(c) ==
  /\ At(c, "own")
  /\ IF user = NoUser THEN Ends(c, "done", calls[c].got)
     ELSE Becomes(c, [calls[c] EXCEPT !.id = user, !.pc = "paint"])
  /\ UNCHANGED <<user, signOut, cache, generation, profiles, during, signs>>

Paints(c) ==
  /\ At(c, "paint")
  /\ cache' = IF cache # NoEntry /\ Hit(c) THEN [cache EXCEPT !.avatar = calls[c].got.avatar]
              ELSE cache
  /\ Ends(c, "done", calls[c].got)
  /\ UNCHANGED <<user, signOut, generation, profiles, during, signs>>

ProfileStep(c) ==
  \/ Start(c) \/ ReadsUser(c) \/ ReadsCache(c) \/ LoadsGeneration(c) \/ Sends(c)
  \/ Served(c) \/ Fails(c) \/ Compares(c) \/ Stores(c) \/ Owns(c) \/ Paints(c)

SignStep ==
  \/ \E u \in User : SignIn(u)
  \/ SignOut \/ ClearRaises \/ ClearEmpties

----------------------------------------------------------------------------
(* Properties                                                              *)

(* profile_get and profile_refresh answer with the profile of a user who   *)
(* was signed in while they ran, however sign-ins, sign-outs, late answers *)
(* and the one process-wide entry interleave.                              *)
AnswersOfTheUser ==
  \A c \in Call :
    At(c, "done") /\ calls[c].op \in {"get", "refresh"} => calls[c].got.user \in during[c]

(* A refresh does not put an older profile in the place of what an update  *)
(* has stored (profile.rs:312), but for an update that was already running *)
(* when the refresh began or that began after it had compared.             *)
OlderRefreshOverwritesNothing ==
  \A c \in Call :
    At(c, "store") /\ calls[c].op \in {"get", "refresh"} /\ ~calls[c].late =>
      (cache.user = calls[c].got.user => cache.name <= calls[c].got.name)
=============================================================================
