------------------------------ MODULE Realtime ------------------------------
(***************************************************************************)
(* The realtime channel of the signed-in user                              *)
(* (remi-client-sdk/src/realtime.rs).  The manager, behind one mutex,      *)
(* keeps a configuration and a session and, while it has both, a worker: a *)
(* task that connects, joins the user's topic, forwards its events, and    *)
(* connects again after every error.  A worker is stopped by cancelling    *)
(* its token and aborting its task, neither of which is waited for.  What  *)
(* a joined worker forwards to the host changes nothing here.              *)
(***************************************************************************)
EXTENDS Credentials, Naturals, FiniteSets

CONSTANTS
  Config, NoConfig,
  Unparsable,      \* the configurations whose URL does not parse
  MaxCommands      \* bound on calls of the manager

ASSUME RealtimeAssumption ==
  /\ NoConfig \notin Config
  /\ Unparsable \subseteq Config
  /\ MaxCommands \in Nat

VARIABLES
  config,     \* RealtimeState.config
  stream,     \* the user of RealtimeState.session
  current,    \* the worker of run_token and run_task, 0 for none
  workers,    \* the tasks that have not ended, by number: whom each serves,
              \* whose token its channel was last given and how far it is
  commands    \* calls of the manager so far

rvars == <<config, stream, current, workers, commands>>

RealtimeInit ==
  /\ config = NoConfig
  /\ stream = NoUser
  /\ current = 0
  /\ workers = [w \in {} |-> 0]
  /\ commands = 0

Without(w) == [v \in DOMAIN workers \ {w} |-> workers[v]]

----------------------------------------------------------------------------
(* The manager                                                             *)

\* stop_worker: the tasks that are left, the current one told to end.
Stopped ==
  [w \in DOMAIN workers |->
    IF w = current THEN [workers[w] EXCEPT !.cancelled = TRUE] ELSE workers[w]]

\* Mutant: the running worker is left alone when there is nothing to start.
RestartOnlyToStart(c, u) ==
  IF c # NoConfig /\ u # NoUser
  THEN /\ current' = commands + 1
       /\ workers' = [w \in DOMAIN workers \cup {commands + 1} |->
            IF w = commands + 1
            THEN [user |-> u, config |-> c, cancelled |-> FALSE, token |-> NoUser, pc |-> "connecting"]
            ELSE Stopped[w]]
  ELSE /\ current' = 0
       /\ workers' = workers

\* restart_worker_if_possible, with the configuration and session given.
Restart(c, u) ==
  IF c # NoConfig /\ u # NoUser
  THEN /\ current' = commands + 1
       /\ workers' = [w \in DOMAIN workers \cup {commands + 1} |->
            IF w = commands + 1
            THEN [user |-> u, config |-> c, cancelled |-> FALSE, token |-> NoUser, pc |-> "connecting"]
            ELSE Stopped[w]]
  ELSE /\ current' = 0
       /\ workers' = Stopped

Command ==
  /\ commands < MaxCommands
  /\ commands' = commands + 1

\* configure; an incomplete configuration is refused and changes nothing.
Configure(c) ==
  /\ Command
  /\ config' = c
  /\ Restart(c, stream)
  /\ UNCHANGED stream

StartUserStream(u) ==
  /\ Command
  /\ stream' = u
  /\ Restart(config, u)
  /\ UNCHANGED config

Stop ==
  /\ Command
  /\ stream' = NoUser
  /\ current' = 0
  /\ workers' = Stopped
  /\ UNCHANGED config

----------------------------------------------------------------------------
(* A worker.  One that is cancelled may still finish what it was doing     *)
(* when it was aborted, up to its next await.                              *)

Step(w, r) ==
  /\ workers' = [workers EXCEPT ![w] = r]
  /\ UNCHANGED <<config, stream, current, commands>>

Alive(w) == w \in DOMAIN workers /\ ~workers[w].cancelled

\* No URL to connect to: the worker returns, and the manager is not told.
Returns(w) ==
  /\ Alive(w)
  /\ workers[w].config \in Unparsable
  /\ workers' = Without(w)
  /\ UNCHANGED <<config, stream, current, commands>>

\* The token of whoever is signed in, else the one of the session.
Connects(w) ==
  /\ Alive(w)
  /\ workers[w].pc = "connecting"
  /\ workers[w].config \notin Unparsable
  /\ Step(w, [workers[w] EXCEPT !.pc = "joining",
                                !.token = IF user # NoUser THEN user ELSE workers[w].user])

\* The server lets the token's user into their own topic only.
Joins(w) ==
  /\ Alive(w)
  /\ workers[w].pc = "joining"
  /\ workers[w].token = workers[w].user
  /\ Step(w, [workers[w] EXCEPT !.pc = "joined"])

\* Mutant: a join that is not answered ends the worker.
JoinTimeoutEnds(w) ==
  /\ Alive(w)
  /\ workers[w].pc = "joining"
  /\ workers' = Without(w)
  /\ UNCHANGED <<config, stream, current, commands>>

\* Ten seconds without an answer to the join.
JoinTimesOut(w) ==
  /\ Alive(w)
  /\ workers[w].pc = "joining"
  /\ Step(w, [workers[w] EXCEPT !.pc = "waiting"])

\* A refused connection, a rejected join, a closed channel, a frame that does
\* not parse, an error of reading or writing.
Errs(w) ==
  /\ Alive(w)
  /\ workers[w].pc # "waiting"
  /\ workers[w].config \notin Unparsable
  /\ Step(w, [workers[w] EXCEPT !.pc = "waiting"])

WakesUp(w) ==
  /\ Alive(w)
  /\ workers[w].pc = "waiting"
  /\ Step(w, [workers[w] EXCEPT !.pc = "connecting"])

\* The heartbeat hands over a changed token.
Beats(w) ==
  /\ Alive(w)
  /\ workers[w].pc \in {"joining", "joined"}
  /\ user # NoUser /\ user # workers[w].token
  /\ Step(w, [workers[w] EXCEPT !.token = user])

Vanishes(w) ==
  /\ w \in DOMAIN workers
  /\ workers[w].cancelled
  /\ workers' = Without(w)
  /\ UNCHANGED <<config, stream, current, commands>>

WorkerStep(w) ==
  \/ Returns(w)
  \/ Connects(w) \/ Joins(w) \/ JoinTimesOut(w) \/ Errs(w)
  \/ WakesUp(w) \/ Beats(w) \/ Vanishes(w)

ManagerStep ==
  \/ \E c \in Config \cup {NoConfig} : Configure(c)
  \/ \E u \in User : StartUserStream(u)
  \/ Stop

\* tokio runs every task, and a network that is tried again and again is
\* there again and again.  Only the worker that is not cancelled needs it.
WorkerFairness ==
  /\ WF_rvars(\E w \in DOMAIN workers : JoinTimesOut(w))
  /\ WF_rvars(\E w \in DOMAIN workers : WakesUp(w))
  /\ SF_rvars(\E w \in DOMAIN workers : Connects(w))
  /\ SF_rvars(\E w \in DOMAIN workers : Joins(w))

----------------------------------------------------------------------------
(* Properties                                                              *)

(* However configurations and sessions come and go, no worker is left      *)
(* running for an older one: those that may still connect serve the        *)
(* session and configuration the manager was given last, and there is one. *)
OneWorker ==
  \A w \in DOMAIN workers :
    ~workers[w].cancelled =>
      /\ w = current
      /\ workers[w].user = stream
      /\ workers[w].config = config

\* A session is to be served while its user, or nobody, is signed in.
Wanted == config \in Config \ Unparsable /\ stream # NoUser /\ user \in {stream, NoUser}

Serving == current \in DOMAIN workers /\ workers[current].pc = "joined"

(* A manager with a configuration (that parses) and a session is joined to the channel   *)
(* again and again, whatever was refused, rejected or dropped before.      *)
LastSessionServed == []<>(Wanted => Serving)
=============================================================================
