---------------------------- MODULE AgentSession ----------------------------
(***************************************************************************)
(* internal/mcp: the session of an agent, one scenario that stays open     *)
(* while the agent tries steps in it (session.go; runner/session.go), as   *)
(* the requests of the agent, which the server handles concurrently, start *)
(* it, use it, start it over and end it.  With an axx host (module Host)   *)
(* the session leases its services there and has the host's turn until it  *)
(* ends; scenarios_run runs `axx run`, which needs the turn too.           *)
(*                                                                         *)
(* A request is of one kind: "try" and "restart" are steps_try, "tool" a   *)
(* tool of a pack, "run" scenarios_run and "end" the server's own end().   *)
(* `axx up` through the env tool is not modelled.                          *)
(***************************************************************************)
EXTENDS Naturals, FiniteSets

CONSTANTS Requests,
          Kinds      \* the kinds of requests that are made

ASSUME KindsAssumption == Kinds \subseteq {"try", "restart", "tool", "run", "end"}
ASSUME RequestsAssumption == 0 \notin Requests /\ IsFiniteSet(Requests)

VARIABLES
  kind,      \* of each request
  hosted,    \* whether an axx host serves the project
  pc,        \* where each request is
  mine,      \* the session that live returned to it
  mu,        \* agentSession.mu: the request that holds it, or 0
  cur,       \* agentSession.s, 0 for nil
  sessions,  \* how many were made; a session is its number
  scenario,  \* of each session: "none", "open", "closing", "closed"
  smu,       \* Session.mu of each session: the request that holds it, or 0
  engine,    \* the sessions whose engine, and context, are not closed
  turn       \* who has the host's turn: a session, a request that runs, or 0

const == <<kind, hosted>>
vars == <<const, pc, mine, mu, cur, sessions, scenario, smu, engine, turn>>

\* Each request makes at most one session.  Sessions and requests are told
\* apart in turn by the tag.
Ids == 1..Cardinality(Requests)
Session(i) == <<"session", i>>
Run(r) == <<"run", r>>
NoTurn == <<"none", 0>>

\* The holder of mu is ending the session, or making one.
Ending == {"end", "closing", "cancel", "close engine"}
Making == {"open", "init"}
Places == Ending \cup Making \cup
          {"call", "live", "got", "running", "tool", "end call", "queue", "holding",
           "returned"}

TypeOK ==
  /\ kind \in [Requests -> Kinds] /\ hosted \in BOOLEAN
  /\ pc \in [Requests -> Places]
  /\ mine \in [Requests -> Ids \cup {0}]
  /\ mu \in Requests \cup {0}
  /\ \A r \in Requests : pc[r] \in Ending \cup Making \cup {"live"} <=> mu = r
  /\ sessions \in 0..Cardinality(Requests) /\ cur \in 0..sessions
  /\ scenario \in [Ids -> {"none", "open", "closing", "closed"}]
  /\ smu \in [Ids -> Requests \cup {0}]
  /\ engine \subseteq Ids
  /\ turn \in {NoTurn} \cup {Session(i) : i \in Ids} \cup {Run(r) : r \in Requests}

Init ==
  /\ kind \in [Requests -> Kinds] /\ hosted \in BOOLEAN
  /\ pc = [r \in Requests |-> "call"] /\ mine = [r \in Requests |-> 0]
  /\ mu = 0 /\ cur = 0 /\ sessions = 0
  /\ scenario = [i \in Ids |-> "none"] /\ smu = [i \in Ids |-> 0]
  /\ engine = {} /\ turn = NoTurn

To(r, place) == pc' = [pc EXCEPT ![r] = place]
\* Return from live, or from end, with mu unlocked.
Unlock(r, place) == To(r, place) /\ mu' = 0

-----------------------------------------------------------------------------
(* live, end and endLocked *)

\* The lock is taken: by live (with the session ended first, on a restart) or
\* by end.
Lock(r) ==
  /\ pc[r] = "call" /\ kind[r] # "run" /\ mu = 0
  /\ mu' = r
  /\ To(r, IF kind[r] \in {"restart", "end"} THEN "end" ELSE "live")
  /\ UNCHANGED <<const, mine, cur, sessions, scenario, smu, engine, turn>>

\* Where a request goes on once endLocked returned.
ended(r) == CASE kind[r] = "restart" -> To(r, "live") /\ mu' = mu
              [] kind[r] = "run"     -> Unlock(r, "queue")
              [] OTHER               -> Unlock(r, "returned")

(* The bug closes the scenario while steps run in it. *)
Close_NoLock(r) ==
  /\ pc[r] = "end"
  /\ IF cur = 0 THEN ended(r) /\ UNCHANGED <<scenario, smu>>
     ELSE /\ scenario' = [scenario EXCEPT ![cur] = "closing"]
          /\ To(r, "closing")
          /\ UNCHANGED <<mu, smu>>
  /\ UNCHANGED <<const, mine, cur, sessions, engine, turn>>

\* Session.Close, behind the steps that run: the After hooks and the cleanup.
Close(r) ==
  /\ pc[r] = "end"
  /\ IF cur = 0 THEN ended(r) /\ UNCHANGED <<scenario, smu>>
     ELSE /\ smu[cur] = 0
          /\ smu' = [smu EXCEPT ![cur] = r]
          /\ scenario' = [scenario EXCEPT ![cur] = "closing"]
          /\ To(r, "closing")
          /\ mu' = mu
  /\ UNCHANGED <<const, mine, cur, sessions, engine, turn>>

Closed(r) ==
  /\ pc[r] = "closing"
  /\ smu' = [smu EXCEPT ![cur] = 0]
  /\ scenario' = [scenario EXCEPT ![cur] = "closed"]
  /\ To(r, "cancel")
  /\ UNCHANGED <<const, mine, mu, cur, sessions, engine, turn>>

\* cancel, and lease.Stop: it waits until the host stopped the services.
StopLease(r) ==
  /\ pc[r] = "cancel"
  /\ turn' = IF turn = Session(cur) THEN NoTurn ELSE turn
  /\ To(r, "close engine")
  /\ UNCHANGED <<const, mine, mu, cur, sessions, scenario, smu, engine>>

CloseEngine(r) ==
  /\ pc[r] = "close engine"
  /\ engine' = engine \ {cur}
  /\ cur' = 0
  /\ ended(r)
  /\ UNCHANGED <<const, mine, sessions, scenario, smu, turn>>

\* live: the session there is, or a new engine (which may not load).
Live(r) ==
  /\ pc[r] = "live"
  /\ \/ /\ cur # 0
        /\ mine' = [mine EXCEPT ![r] = cur]
        /\ Unlock(r, "got")
        /\ UNCHANGED <<sessions, engine>>
     \/ /\ cur = 0
        /\ sessions' = sessions + 1 /\ engine' = engine \cup {sessions'}
        /\ To(r, "open") /\ UNCHANGED <<mu, mine>>
     \/ /\ cur = 0
        /\ Unlock(r, "returned") /\ UNCHANGED <<mine, sessions, engine>>
  /\ UNCHANGED <<const, cur, scenario, smu, turn>>

\* hostServices: it waits for the host's turn, which holds mu meanwhile.
Open(r) ==
  /\ pc[r] = "open"
  /\ IF hosted THEN turn = NoTurn /\ turn' = Session(sessions) ELSE turn' = turn
  /\ To(r, "init")
  /\ UNCHANGED <<const, mine, mu, cur, sessions, scenario, smu, engine>>

\* e.Init, runner.New and the Before hooks.
Started(r) ==
  /\ pc[r] = "init"
  /\ cur' = sessions
  /\ scenario' = [scenario EXCEPT ![sessions] = "open"]
  /\ mine' = [mine EXCEPT ![r] = sessions]
  /\ Unlock(r, "got")
  /\ UNCHANGED <<const, sessions, smu, engine, turn>>

(* The bug returns the error and keeps the services. *)
NotStarted_KeepsLease(r) ==
  /\ pc[r] \in Making
  /\ engine' = engine \ {sessions}
  /\ Unlock(r, "returned")
  /\ UNCHANGED <<const, mine, cur, sessions, scenario, smu, turn>>

(* The bug returns the error without unlocking. *)
NotStarted_KeepsLock(r) ==
  /\ pc[r] \in Making
  /\ turn' = IF turn = Session(sessions) THEN NoTurn ELSE turn
  /\ engine' = engine \ {sessions}
  /\ To(r, "returned")
  /\ UNCHANGED <<const, mine, mu, cur, sessions, scenario, smu>>

\* The host refuses, or one of them fails: what was started is stopped.  (A
\* scenario whose Before hook failed is closed before any request sees it.)
NotStarted(r) ==
  /\ pc[r] \in Making
  /\ turn' = IF turn = Session(sessions) THEN NoTurn ELSE turn
  /\ engine' = engine \ {sessions}
  /\ Unlock(r, "returned")
  /\ UNCHANGED <<const, mine, cur, sessions, scenario, smu>>

-----------------------------------------------------------------------------
(* What the requests do with the session, and scenarios_run *)

\* Arguments that are not valid, or a restart with no steps.
NoSteps(r) ==
  /\ \/ pc[r] = "call" /\ kind[r] \in {"try", "restart", "tool"}
     \/ pc[r] = "got" /\ kind[r] = "restart"
  /\ To(r, "returned")
  /\ UNCHANGED <<const, mine, mu, cur, sessions, scenario, smu, engine, turn>>

\* Session.Run, once other steps are done.
StepsStart(r) ==
  /\ pc[r] = "got" /\ kind[r] \in {"try", "restart"} /\ smu[mine[r]] = 0
  /\ smu' = [smu EXCEPT ![mine[r]] = r]
  /\ To(r, "running")
  /\ UNCHANGED <<const, mine, mu, cur, sessions, scenario, engine, turn>>

StepsDone(r) ==
  /\ pc[r] = "running"
  /\ smu' = [smu EXCEPT ![mine[r]] = 0]
  /\ To(r, "returned")
  /\ UNCHANGED <<const, mine, mu, cur, sessions, scenario, engine, turn>>

\* packTool: t.Run, with no lock.
Tool(r) ==
  /\ kind[r] = "tool"
  /\ \/ pc[r] = "got" /\ To(r, "tool")
     \/ pc[r] = "tool" /\ To(r, "returned")
  /\ UNCHANGED <<const, mine, mu, cur, sessions, scenario, smu, engine, turn>>

\* hostLeased, and end if it is (with the lock taken again).
hostLeased(r) ==
  /\ pc[r] = "call" /\ kind[r] = "run" /\ mu = 0
  /\ IF turn = Session(cur) THEN To(r, "end call") ELSE To(r, "queue")
  /\ UNCHANGED <<const, mine, mu, cur, sessions, scenario, smu, engine, turn>>

EndCall(r) ==
  /\ pc[r] = "end call" /\ mu = 0
  /\ mu' = r
  /\ To(r, "end")
  /\ UNCHANGED <<const, mine, cur, sessions, scenario, smu, engine, turn>>

\* `axx run`, which the host makes wait for its turn.
RunStarts(r) ==
  /\ pc[r] = "queue"
  /\ IF hosted THEN turn = NoTurn /\ turn' = Run(r) ELSE turn' = turn
  /\ To(r, "holding")
  /\ UNCHANGED <<const, mine, mu, cur, sessions, scenario, smu, engine>>

RunDone(r) ==
  /\ pc[r] = "holding"
  /\ turn' = IF hosted THEN NoTurn ELSE turn
  /\ To(r, "returned")
  /\ UNCHANGED <<const, mine, mu, cur, sessions, scenario, smu, engine>>

-----------------------------------------------------------------------------
\* What a request does when nothing fails, and what it does then.
Handle(r) ==
  \/ Lock(r) \/ Close(r) \/ Closed(r) \/ StopLease(r) \/ CloseEngine(r)
  \/ Live(r) \/ Open(r) \/ Started(r)
  \/ StepsStart(r) \/ StepsDone(r) \/ Tool(r)
  \/ hostLeased(r) \/ EndCall(r) \/ RunStarts(r) \/ RunDone(r)

Fail(r) == NoSteps(r) \/ NotStarted(r)

Next == \E r \in Requests : Handle(r) \/ Fail(r)
Spec == Init /\ [][Next]_vars

\* A goroutine that can go on does; the steps, hooks, tools and runs it calls
\* come back (their timeouts are StepClock's and Scheduler's).
FairSpec == Spec /\ \A r \in Requests : WF_vars(Handle(r))

-----------------------------------------------------------------------------
(* Properties *)

\* An engine that is open, and the services leased for it, are those of the
\* agent's session or of one that is being made: whichever requests raced, and
\* whatever failed, the next end closes all there is (endLocked sees only
\* agentSession's fields).
NothingLeaked ==
  \A i \in Ids :
    /\ i \in engine => i = cur \/ (i = sessions /\ mu # 0 /\ pc[mu] \in Making)
    /\ turn = Session(i) => i \in engine

\* A session's steps run alone: not beside those of another request, nor while
\* the session's After hooks and cleanup run (Session.mu).
StepsAlone ==
  \A r \in Requests : pc[r] = "running" =>
    /\ scenario[mine[r]] # "closing"
    /\ \A q \in Requests \ {r} : pc[q] = "running" => mine[q] # mine[r]

\* Every request is answered, except a run that waits for the turn of a
\* session that was started after the run looked for one.
RequestsReturn ==
  \A r \in Requests : <>[](pc[r] = "returned"
                              \/ (pc[r] = "queue" /\ cur # 0 /\ turn = Session(cur)))

=============================================================================
