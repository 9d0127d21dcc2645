------------------------------ MODULE Services ------------------------------
(***************************************************************************)
(* The service lifecycle of one run: Manager.Start, startService, publish,  *)
(* Stop and stopService of internal/lifecycle/manager.go and process.go.    *)
(*                                                                         *)
(* Start runs a goroutine for each service it has to start.  It waits for   *)
(* the ready channels of the services it depends on, launches the service,  *)
(* publishes it in Manager.up and waits until it is ready; the first error  *)
(* cancels the others.  Stop runs a goroutine for each service that is up,  *)
(* dependents first.  What the state file is told is StateFile's subject.   *)
(***************************************************************************)
EXTENDS Integers, Sequences, FiniteSets, SequencesExt

CONSTANTS
  N,          \* services are numbered in the order axx.yaml declares them
  Graphs,     \* what the services' dependsOn may say
  Enabled,    \* the services that are not disabled
  Attach,     \* Options.Attach: the developer runs these
  MaxStarts   \* bound: how often the Manager's Start is called

Services == 1..N

\* Only declared services, and no cycle: they can be ranked.
validateGraph(g) ==
  /\ g \in [Services -> SUBSET Services]
  /\ \E rank \in [Services -> Services] :
       \A s \in Services : \A d \in g[s] : rank[d] < rank[s]

ASSUME ServicesAssumption ==
  /\ N \in Nat
  /\ \A g \in Graphs : validateGraph(g)
  /\ Enabled \subseteq Services
  /\ Attach \subseteq Services
  /\ MaxStarts \in Nat

VARIABLES
  dependsOn, \* services.<name>.dependsOn
  phase,    \* what the Manager is called to do
  starts,   \* how often Start was called
  todo,     \* Start: the services it has to start
  at,       \* Start: where each service's goroutine is
  ready,    \* the services found ready since they were launched or attached
  ctxDone,  \* Start's context is cancelled
  first,    \* Start: a service failed, and the others were cancelled
  up,       \* Manager.up
  after,    \* service.after
  alive,    \* the services axx launched whose processes run
  owed,     \* the services launched whose cleanup has not run since
  stopAt,   \* Stop: where each service's goroutine is
  errs,     \* the services a Stop returned an error for
  result    \* what the last Start returned

startVars == <<starts, todo, at, ctxDone, first>>
stopVars == <<stopAt, errs>>
vars == <<dependsOn, phase, startVars, ready, up, after, alive, owed, stopVars, result>>

TypeOK ==
  /\ dependsOn \in Graphs
  /\ phase \in {"idle", "starting", "stopping"}
  /\ starts \in 0..MaxStarts
  /\ todo \in SUBSET Enabled
  /\ at \in [Services -> {"out", "waiting", "going", "launched", "published",
                          "ready", "quit", "failed"}]
  /\ ready \in SUBSET Range(up)
  /\ ctxDone \in BOOLEAN
  /\ first \in BOOLEAN
  /\ up \in Seq(Enabled) /\ Len(up) = Cardinality(Range(up))
  /\ after \in [Services -> SUBSET Services]
  /\ alive \in SUBSET (Services \ Attach)
  /\ owed \in SUBSET (Services \ Attach)
  /\ stopAt \in [Services -> {"out", "waiting", "terminated", "stopped"}]
  /\ errs \in SUBSET (Services \ Attach)
  /\ result \in {"none", "ok", "refused", "error"}

Init ==
  /\ dependsOn \in Graphs
  /\ phase = "idle"
  /\ starts = 0
  /\ todo = {}
  /\ at = [s \in Services |-> "out"]
  /\ ready = {}
  /\ ctxDone = FALSE
  /\ first = FALSE
  /\ up = <<>>
  /\ after = [s \in Services |-> {}]
  /\ alive = {}
  /\ owed = {}
  /\ stopAt = [s \in Services |-> "out"]
  /\ errs = {}
  /\ result = "none"

-----------------------------------------------------------------------------
\* usesDependsOn: without any dependency, services start one after another.
graph == \E s \in Services : dependsOn[s] # {}

withDependencies_Direct(names) ==
  (names \union UNION {dependsOn[s] : s \in names}) \intersect Enabled

\* The enabled services among names and, transitively, the enabled services
\* they depend on: the least set that has the ones and is closed under the
\* other.
withDependencies(names) ==
  {s \in Enabled :
     \A S \in SUBSET Enabled :
       (names \intersect Enabled \subseteq S
          /\ \A x \in S : dependsOn[x] \intersect Enabled \subseteq S) => s \in S}

\* The services this one's goroutine waits for: the channels in `ready`, which
\* has one for each service of todo.
deps(s) ==
  IF graph THEN dependsOn[s] \intersect todo
  ELSE {t \in todo : t < s /\ \A u \in todo : u < s => u <= t}

\* runCtx.Err() # nil
cancelled == ctxDone \/ first

\* Start(ctx, names): what is up already is left alone.
Start(names) ==
  /\ phase = "idle"
  /\ starts < MaxStarts
  /\ starts' = starts + 1
  /\ ctxDone' = FALSE
  /\ first' = FALSE
  /\ todo' = withDependencies(names) \ Range(up)
  /\ at' = [s \in Services |-> IF s \in todo' THEN "waiting" ELSE "out"]
  /\ phase' = IF todo' = {} THEN "idle" ELSE "starting"
  /\ result' = IF todo' = {} THEN "ok" ELSE "none"
  /\ UNCHANGED <<dependsOn, ready, up, after, alive, owed, stopVars>>

\* It returns an error before anything is launched, and leaves what is up alone:
\* a name is unknown, or an earlier run was not cleaned up.
StartRefused ==
  /\ phase = "idle"
  /\ starts < MaxStarts
  /\ starts' = starts + 1
  /\ ctxDone' = FALSE
  /\ first' = FALSE
  /\ todo' = {}
  /\ at' = [s \in Services |-> "out"]
  /\ result' = "refused"
  /\ UNCHANGED <<dependsOn, phase, ready, up, after, alive, owed, stopVars>>

\* The goroutine of s gives up waiting, or finds the start cancelled.
Quit(s) ==
  /\ at[s] = "waiting"
  /\ cancelled
  /\ at' = [at EXCEPT ![s] = "quit"]
  /\ UNCHANGED <<dependsOn, phase, starts, todo, ctxDone, first, ready, up, after, alive,
                 owed, stopVars, result>>

\* All it depends on is ready and nothing failed: startService begins.
Go(s) ==
  /\ at[s] = "waiting"
  /\ \A d \in deps(s) : at[d] = "ready"
  /\ ~cancelled
  /\ at' = [at EXCEPT ![s] = "going"]
  /\ UNCHANGED <<dependsOn, phase, starts, todo, ctxDone, first, ready, up, after, alive,
                 owed, stopVars, result>>

\* launch starts the process; a cancelled start no longer matters to it.
Launch(s) ==
  /\ at[s] = "going"
  /\ s \notin Attach
  /\ at' = [at EXCEPT ![s] = "launched"]
  /\ alive' = alive \union {s}
  /\ owed' = owed \union {s}
  /\ UNCHANGED <<dependsOn, phase, starts, todo, ctxDone, first, ready, up, after,
                 stopVars, result>>

fail_KeepGoing(s) ==
  /\ at' = [at EXCEPT ![s] = "failed"]
  /\ UNCHANGED first

\* startService returned an error: the first one cancels the other goroutines.
fail(s) ==
  /\ at' = [at EXCEPT ![s] = "failed"]
  /\ first' = TRUE

\* No such directory, no command, or the process could not be started.
LaunchFails(s) ==
  /\ at[s] = "going"
  /\ s \notin Attach
  /\ fail(s)
  /\ UNCHANGED <<dependsOn, phase, starts, todo, ctxDone, ready, up, after, alive, owed,
                 stopVars, result>>

\* s is up: Stop will stop it, before the services it started after.
publish(s) ==
  /\ at[s] = "launched" \/ (at[s] = "going" /\ s \in Attach)
  /\ at' = [at EXCEPT ![s] = "published"]
  /\ after' = [after EXCEPT ![s] =
                 IF graph THEN dependsOn[s] \intersect Range(up)
                 ELSE IF up = <<>> THEN {} ELSE {Last(up)}]
  /\ up' = Append(up, s)
  /\ UNCHANGED <<dependsOn, phase, starts, todo, ctxDone, first, ready, alive, owed,
                 stopVars, result>>

\* awaitReady returned nil and the goroutine closes its ready channel.  A check
\* may still pass after the start was cancelled.
Ready(s) ==
  /\ at[s] = "published"
  /\ at' = [at EXCEPT ![s] = "ready"]
  /\ ready' = ready \union {s}
  /\ UNCHANGED <<dependsOn, phase, starts, todo, ctxDone, first, up, after, alive, owed,
                 stopVars, result>>

\* awaitReady returned an error: the service exited, its checks did not pass in
\* time, or the start was cancelled.
NotReady(s) ==
  /\ at[s] = "published"
  /\ fail(s)
  /\ UNCHANGED <<dependsOn, phase, starts, todo, ctxDone, ready, up, after, alive, owed,
                 stopVars, result>>

\* Ctrl-C while services start.
Interrupt ==
  /\ phase = "starting"
  /\ ~ctxDone
  /\ ctxDone' = TRUE
  /\ UNCHANGED <<dependsOn, phase, starts, todo, at, first, ready, up, after, alive, owed,
                 stopVars, result>>

\* Stop looks at what is up and starts its goroutines.
beginStop ==
  /\ phase' = "stopping"
  /\ stopAt' = [s \in Services |-> IF s \in Range(up) THEN "waiting" ELSE "out"]
  /\ UNCHANGED errs

StartOver_Early ==
  /\ phase = "starting"
  /\ (\E s \in todo : at[s] = "failed")
       \/ \A s \in todo : at[s] \in {"ready", "quit", "failed"}
  /\ IF ~first /\ ~ctxDone
     THEN phase' = "idle" /\ result' = "ok" /\ UNCHANGED stopVars
     ELSE /\ result' = "error"
          /\ IF up = <<>> THEN phase' = "idle" /\ UNCHANGED stopVars ELSE beginStop
  /\ UNCHANGED <<dependsOn, startVars, ready, up, after, alive, owed>>

StartOver_FirstOnly ==
  /\ phase = "starting"
  /\ \A s \in todo : at[s] \in {"ready", "quit", "failed"}
  /\ IF ~first
     THEN phase' = "idle" /\ result' = "ok" /\ UNCHANGED stopVars
     ELSE /\ result' = "error"
          /\ IF up = <<>> THEN phase' = "idle" /\ UNCHANGED stopVars ELSE beginStop
  /\ UNCHANGED <<dependsOn, startVars, ready, up, after, alive, owed>>

\* wg.Wait has returned: Start returns nil, or stops everything that is up,
\* services of earlier Starts included.
StartOver ==
  /\ phase = "starting"
  /\ \A s \in todo : at[s] \in {"ready", "quit", "failed"}
  /\ IF ~first /\ ~ctxDone
     THEN phase' = "idle" /\ result' = "ok" /\ UNCHANGED stopVars
     ELSE /\ result' = "error"
          /\ IF up = <<>> THEN phase' = "idle" /\ UNCHANGED stopVars ELSE beginStop
  /\ UNCHANGED <<dependsOn, startVars, ready, up, after, alive, owed>>

-----------------------------------------------------------------------------
\* Stop, called by who called Start.
Stop ==
  /\ phase = "idle"
  /\ up # <<>>
  /\ beginStop
  /\ UNCHANGED <<dependsOn, startVars, ready, up, after, alive, owed, result>>

\* The services whose stopped channels the goroutine of s waits for.
dependents(s) == {t \in Services : stopAt[t] # "out" /\ s \in after[t]}

terminate_Now(s, ok) ==
  /\ stopAt[s] = "waiting"
  /\ stopAt' = [stopAt EXCEPT ![s] = "terminated"]
  /\ alive' = IF s \in Attach \/ ~ok THEN alive ELSE alive \ {s}
  /\ errs' = IF s \in Attach \/ ok \/ s \notin alive THEN errs ELSE errs \union {s}
  /\ UNCHANGED <<dependsOn, phase, startVars, ready, up, after, owed, result>>

\* stopService until its cleanup: the stop signal, the grace period, SIGKILL.
\* It is not ok when the processes could not be killed.
terminate(s, ok) ==
  /\ stopAt[s] = "waiting"
  /\ \A t \in dependents(s) : stopAt[t] = "stopped"
  /\ stopAt' = [stopAt EXCEPT ![s] = "terminated"]
  /\ alive' = IF s \in Attach \/ ~ok THEN alive ELSE alive \ {s}
  /\ errs' = IF s \in Attach \/ ok \/ s \notin alive THEN errs ELSE errs \union {s}
  /\ UNCHANGED <<dependsOn, phase, startVars, ready, up, after, owed, result>>

cleanup_LaunchedOnly(s, ok) ==
  /\ stopAt[s] = "terminated"
  /\ s \notin Attach
  /\ stopAt' = [stopAt EXCEPT ![s] = "stopped"]
  /\ owed' = IF ok THEN owed \ {s} ELSE owed
  /\ errs' = IF ok THEN errs ELSE errs \union {s}
  /\ UNCHANGED <<dependsOn, phase, startVars, ready, up, after, alive, result>>

\* The rest of it: the cleanup runs whatever became of the service.
cleanup(s, ok) ==
  /\ stopAt[s] = "terminated"
  /\ stopAt' = [stopAt EXCEPT ![s] = "stopped"]
  /\ owed' = IF ok THEN owed \ {s} ELSE owed
  /\ errs' = IF s \in Attach \/ ok THEN errs ELSE errs \union {s}
  /\ UNCHANGED <<dependsOn, phase, startVars, ready, up, after, alive, result>>

\* All goroutines of Stop have returned.
StopOver ==
  /\ phase = "stopping"
  /\ \A s \in Services : stopAt[s] \in {"out", "stopped"}
  /\ phase' = "idle"
  /\ up' = <<>>
  /\ ready' = {}
  /\ UNCHANGED <<dependsOn, startVars, after, alive, owed, stopVars, result>>

\* A service's processes end on their own: it crashed, or it was a launcher.
Exits(s) ==
  /\ s \in alive
  /\ alive' = alive \ {s}
  /\ UNCHANGED <<dependsOn, phase, startVars, ready, up, after, owed, stopVars, result>>

startStep(s) ==
  \/ Quit(s) \/ Go(s) \/ Launch(s) \/ LaunchFails(s) \/ publish(s)
  \/ Ready(s) \/ NotReady(s)

stopStep(s) == \E ok \in BOOLEAN : terminate(s, ok) \/ cleanup(s, ok)

Next ==
  \/ \E names \in SUBSET Services : Start(names)
  \/ StartRefused
  \/ \E s \in Services : startStep(s) \/ stopStep(s) \/ Exits(s)
  \/ Interrupt
  \/ StartOver
  \/ Stop
  \/ StopOver

Spec == Init /\ [][Next]_vars

\* Every goroutine goes on: processes start or fail to, readiness has a
\* timeout, the stop signal a grace period, and cleanups return.
FairSpec ==
  /\ Spec
  /\ \A s \in Services : WF_vars(startStep(s)) /\ WF_vars(stopStep(s))
  /\ WF_vars(StartOver)
  /\ WF_vars(StopOver)

-----------------------------------------------------------------------------
\* What s needs to be ready before it starts.
needed(s) == IF graph THEN dependsOn[s] \intersect Enabled ELSE {t \in todo : t < s}

\* A service's command runs only once every enabled service it depends on was
\* ready, also when that one was started by an earlier Start; without dependsOn,
\* once all that are declared before it were.
StartsAfterDependencies ==
  phase = "starting" =>
    \A s \in todo :
      at[s] \in {"going", "launched", "published", "ready"} => needed(s) \subseteq ready

\* What is up while no Start or Stop is going is everything a Start that
\* returned nil was asked for, and all of it was ready: a Start that failed after
\* it began to launch leaves nothing up.
StartedMeansReady ==
  phase = "idle" /\ up # <<>> =>
    result \in {"ok", "refused"} /\ todo \subseteq Range(up) /\ Range(up) \subseteq ready

\* The services that s is to be stopped before.
startedBefore(s) ==
  IF graph THEN dependsOn[s] \intersect Range(up)
  ELSE {t \in Range(up) : \E i, j \in DOMAIN up : i < j /\ up[i] = t /\ up[j] = s}

\* A service is stopped only after the services that depend on it (without
\* dependsOn, those started later), so these shut down while what they need
\* still runs.
StopsBeforeDependencies ==
  phase = "stopping" =>
    \A s \in Range(up) : \A d \in startedBefore(s) :
      stopAt[d] \in {"terminated", "stopped"} => stopAt[s] = "stopped"

\* A start that failed or was interrupted, and a Stop, leave nothing that axx
\* launched running and no cleanup undone, but what the Stop returned errors of.
NothingLeftBehind ==
  phase = "idle" /\ up = <<>> => alive \union owed \subseteq errs

\* Start returns: its goroutines do not wait for each other for ever.
StartReturns == phase = "starting" ~> phase # "starting"

\* Stop returns.
StopReturns == phase = "stopping" ~> phase = "idle"

=============================================================================
