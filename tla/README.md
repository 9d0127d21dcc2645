# TLA+ models of axx

axx runs Gherkin acceptance tests against real systems: it starts the services a
project declares, runs scenarios in parallel workers, gives every step and hook a
time limit, takes down what scenarios set up, and stops the services again. This
directory has TLA+ modules of the parts of axx whose correctness depends on the
order of things: timers against holds, workers against fail-fast, services against
failures, processes against a file they share, runs against a host that serves one of
them at a time, scenarios against a pool of devices, an agent's requests against its one
session, `axx up` against `axx down`. TLC checks each module on a small instance; TLAPS
proves the safety properties of all of them for every value of the constants.

`PROJECT.json` is the index: components, runs, the lines each definition models, a
mutant for each property, findings, hazards and theorems.

## 1. The system

How a run goes (`internal/cli/run.go`): the engine loads packs and configuration
(`Prepare`), the lifecycle manager starts the services (`Manager.Start`), the packs
are initialised, the runner runs the suite (`Runner.Run`), the exit code is computed
from its result, the services are stopped (`Manager.Stop`, also after Ctrl-C) and
the engine is closed.

| Part | State | Operations | What is hard |
|---|---|---|---|
| **Step clock** `internal/runner/stepclock.go` | remaining time, deadline, number of holds, timer, error; one mutex | `newStepContext`, `hold`, its release, `finish`, `cancel`, `Deadline`; a timer callback and a goroutine watching the parent | the callback races a hold; nested and repeated releases; the parent ends at any moment |
| **Timed call** `withTimeout` of `internal/runner/scenario.go` | the goroutine of the step's code, two nested selects, the grace period | call, return, give up, abandon | step code that hangs; error, deadline and interrupt at the same moment |
| **Scenario** `runScenario`, `execStep`, `execHook` and `core/scenario.go` | results so far, `failed`, the sink, the closers, state keys | Before hooks, steps with BeforeStep and AfterStep hooks, After hooks, `OnClose`, `StateKey.Of`, `Close` | failures at every place; abandoned code that runs beside the rest |
| **Suite run** `Runner.Run` of `internal/runner/runner.go` | workers, an unbuffered channel, results under a mutex, `notRun`, `runCtx` | dispatch, record, report, fail-fast, serial phase for exclusive scenarios, AfterRun | interrupts and fail-fast at any moment; exclusive scenarios; nothing may be lost |
| **Service lifecycle** `internal/lifecycle/manager.go`, `process.go`, `graph.go`, `wait.go` | `Manager.up`, ready and stopped channels, processes | `Start`, `launch`, `publish`, `awaitReady`, `Stop`, `stopService`, `cleanup` | a goroutine for each service; one fails while others start; stop order |
| **State file** `internal/lifecycle/state.go` | `.axx/run/state.json`, what a manager inherited and could not clean | `saveStateLocked`, `Reap`, `statusOf`, `checkEarlierRuns`, `axx down` | processes killed anywhere; several processes and no lock |
| **Host** `internal/host/server.go`, `approvals.go` | whose turn it is, the open question, approvals (a bounded list on disk) and refusals | serve a run, ask, approve, start and stop its services, stop the host | one run at a time; a newer question replaces one being answered; answers that come late |
| **Device pools** `packs/mobile` | devices free, in use, starting; console ports | `lease`, `start`, `release`, `close`, and what a scenario does around them | the limit; failures while starting; a close while a device starts; two leases by one scenario |
| **Agent session** `internal/mcp/session.go`, `internal/runner/session.go` | the session, its engine, its lease of the host's services; two mutexes | `live`, `end`, `Session.Run`, `Session.Close`, tools, `scenarios_run` | concurrent requests; a mutex held while waiting for the host |
| **Up and down** `internal/cli/up.go` | `up.json`, a stop file, a supervisor process | `axx up`, its supervisor, `axx down` | files without locks, signals, kills |
| Suite state `core/suite.go` | values made once and shared | `Cached` | |
| Engine `internal/engine` | packs, registry, suite | `Prepare`, `Init`, `Close` | an error half way |
| Messages and reporters `internal/runner/messages.go`, `internal/report` | what was sent | started and finished messages | the two must agree with the result |
| Matching, Gherkin, configuration, lint, language server, fixtures, Java compatibility, model stubs, protocol packs | none that outlives a call, or that of a remote system | | text and data formats |

How they interact: `Run` hands a scenario to a worker, which runs it with
`runScenario`; every step and hook of it goes through `withTimeout`, which makes a
step clock and lends it to `Scenario.Hold` for the duration of the call. A context
that ends (an interrupt, fail-fast, the scenario's own timeout) ends the clock
through its parent. Packs register closers with `OnClose`. `Manager.publish` and
`stopService` write the state file, which the next process, whichever it is, reads.
Where an axx host serves a project, runs and agent sessions take turns there instead of
starting services themselves. A step that needs a device leases one with its clock held.

What makes them correct:

- *clock and call*: a step times out after its own time, holds left out; only then
  and always then; and nothing a step does can keep the run from ending;
- *scenario*: what was set up is taken down, no step runs on a failed state, and
  "passed" means that all of it passed;
- *suite*: every scenario has one result or is counted as not run, exclusive ones
  run alone, and exit code 0 means that everything ran;
- *services*: they start after what they need, stop before it, a start that returned
  nil has everything ready and one that failed leaves nothing behind, and both
  return;
- *state file*: what still runs, or was not cleaned up, is on record whoever is
  killed, and a run starts from a clean slate;
- *host*: a run is let in only with a definition the person approved, one run at a time
  has services, and every run gets an end, answered or not;
- *device pools*: never more devices than allowed, none given to two scenarios, lost or left
  running, no two running emulators at one serial, and a lease that can be given is given;
- *agent session*: no engine and no lease is forgotten, steps run alone, and the server
  answers every request;
- *up and down*: what an `axx down` found is stopped when it returns, a supervisor stops
  only when it is asked to, and does when its own handler gets a signal.

## 2. Modules

| Module | Models | Kind |
|---|---|---|
| `StepClock` | `stepContext` | component |
| `TimedCall` | `withTimeout`, around a step clock (EXTENDS `StepClock`) | composition |
| `Suite` | what a run promises | abstract specification |
| `Scheduler` | `Runner.Run`, shown to implement `Suite` | component, refinement |
| `ScenarioRun` | `runScenario`, `core.Scenario`'s closers and state keys | component |
| `Services` | `Manager.Start` and `Stop` | component |
| `StateFile` | the state file and the processes that use it | component, with crashes |
| `Turns` | what a host promises | abstract specification |
| `Host` | `Server.handle`, `ask`, `approved`, `Serve`; the approvals; shown to implement `Turns` | component, refinement |
| `DevicePool` | the pools of the mobile packs and the scenarios that lease from them | component |
| `AgentSession` | the MCP server's session, its requests, and the turn of a `Host` | component |
| `UpDown` | `axx up`, its supervisor and `axx down` | component, with crashes |
| `RunnerProofs` (the clock, the call and the run), `ScenarioRunProofs`, `ServicesProofs`, `StateFileProofs`, `HostProofs`, `DevicePoolProofs`, `AgentSessionProofs`, `UpDownProofs` | | theorems |
| `MC*` | instances for TLC | |

An operator whose name has a suffix after an underscore (`Hold_StopsAgain`) is a
mutated form of the definition it is named after, for use in place of it; nothing
refers to it otherwise.

### StepClock

`err`, `remaining`, `deadline`, `holds` and `timer` are the fields of `stepContext`.
Every method takes the mutex, so each is one action: `Hold`, `Release` (the function
`hold` returned; `token` is its `sync.Once` and whether it does anything), `Cancel`.
The timer is two actions because it is two in Go: `TimerFires` starts the callback's
goroutine and `Expire` is that goroutine taking the lock, any time later; stopping a
timer that fired does not stop the callback. `Watch` is the goroutine that waits for
the parent. Time is counted in ticks, `ran` is a history variable that counts those
for which the clock was not held. `MaxLate` and `MaxHeld` bound time.

### TimedCall

`fn` is the goroutine of the step's code: it may return, hold, release, or do
nothing for ever. A hold may come from any code that has the scenario, also that of an
earlier step that was abandoned, and as late as after the call returned. `OuterDone`, `OuterCtxDone`, `InnerDone` and `InnerGraceOver` are
the cases of the two selects, each enabled when its channel is ready; when two are,
either may be taken. The deferred calls of `withTimeout` (cancel, and taking the
clock away from `Scenario.Hold`) are part of returning.

### Suite and Scheduler

`Suite` says that scenarios run at most once, that exclusive ones run alone and after
the rest, and that the run ends with nothing running. `Scheduler` has `Run` itself
(`main`: the dispatch loop, its select, wg.Wait, the serial phase, the result,
AfterRun, Finish), the workers (`on`, `state`) and the context. A scenario is named
by its place in the run's order; any subset may be exclusive. `record` is three
actions since the mutexes it takes are released in between. `SelectSend` and
`SelectDone` are the two cases of the select: the send may win although `runCtx` is
done. `SerialCheck` and `SerialRun` are the look at `runCtx` and the start of an exclusive
scenario, which an interrupt may come between. A scenario maps to Suite's "running" until `record` has appended, reported and
acted on fail-fast.

### ScenarioRun

`at` is the result `runScenario` is at. A call of step or hook code is
`<<result, role>>`, where the BeforeStep hooks, and the AfterStep hooks, of a step are
one call each. `withTimeout` gives what the call returned or abandons it, and then
the call may go on (`abandoned`), register closers and use state keys. `settle` is what
`runScenario` does with every result. `StateKey.Of` is two actions, since init runs
without the lock: `OfLooks` and `OfStores`, which looks again. `Close` takes the closers;
`CloserRuns` runs one; `CleanupDone` makes a result of their errors and the
scenario's status.

### Services

`at` is where the goroutine of each service to be started is, `stopAt` the same for
Stop. `Go` and `Launch` are separate since the start may be cancelled between the
check and the launch; so are `Launch` and `publish`. `Ready` and `NotReady` are the
outcomes of `awaitReady`; a service may exit at any time (`Exits`). `dependsOn` is
chosen once, among `Graphs`. `StartRefused` is a Start that returns an error before it
launches anything. `graph` is `usesDependsOn`: when no service names a
dependency, they start in the order declared and stop in reverse. `withDependencies`
is stated as the least closed set, which is what the code's recursion computes.

### StateFile

`file` is the content of `state.json`, with its pid and its entries; an empty file
stands for a missing one. A run checks for earlier runs, reaps what they left, starts
services one after another, and stops them in reverse. Reading the file and writing it
are separate steps where they are in the code (`load` and `publish`; `ReapReads`,
`ReapStops`, `ReapCleans`, `ReapWrites`). `Kill` may come between any two; the
services of a killed process may go on or get a death signal. `alive` has services
with any process, `lead` those whose first one (the recorded pid) runs: they differ
for launchers. `Overlap`, `StopOutcomes` and `ReapOutcomes` say what is assumed: one
process at a time or several, and whether stopping may fail.

### Host

`pc` is where `handle` is for each run; `turn` is the channel of one that the run whose
turn it is fills. `questions` are the goroutines of `ask`, each with the definition it is
about, whether it was replaced, and what the person said; `open` is `Server.open`. The
person may answer at any time or never (`Answer`, external), and between the answer and
its effect (`Check`, `Settle`) a newer question may take its place. `list` is the
approvals on disk, at most `Kept` of them; `yes` is a history variable: the definitions
the person said yes to, or that were current when they started the host. A definition has
a key (its configuration) and a text, so that two runs may differ in either. `def` is what
`define` read and the person saw, `started` what `mgr.Start` read when it was their turn:
`axx.yaml` is read once, but compose files and executables are read again then, so any
definition of the same key may be what starts. Starting and stopping
services are one step each: `Services` has their inside.

`Turns` is what `internal/host/doc.go` says of a host, as far as the code keeps it: runs are
served one at a time, each let in with a definition, as it was read when its turn came, that
the person approved, and none when the host is over. A run of
`Host` is served from before its services are started until they are stopped (`Up`), and
queued from the moment it connects until then.

### DevicePool

The Android pool, and the iOS pool where it differs: `Release` gives a device back or
deletes it, as `pool.release` of the iOS pack does with a simulator that has photos. A scenario leases
(`lease`: a free device, one more if there is `Room`, or wait), boots (`boot1`, `Booted`,
`StartFails`, each with its clean-up), may have a device started afresh (`Afresh`), sets
the app up (`Begin`, `BeginFails`), uses it, and gives its devices back one by one
(`Release`, `Deleted`), while its code goes on if it was abandoned. `taken` are the console
ports of the emulators that run; the port of one that exited is free again. A device is
reached by its serial, `emulator-<port>`, whatever became of its emulator (`AtSerial`): `Begin`
asks for an emulator there, not for the device's own. `Apps` is how many apps a
scenario drives, each with a device of its own. Emulators exit on their own or because
`emu kill` of another device went to their serial (`Exits`),
scenarios are interrupted and their steps abandoned, and `close` comes at the end of the
run. Waiting for `p.changed` is a place a lease stays in until a `signal`.

### AgentSession

A request has a kind: `steps_try` with or without a restart, a pack's tool,
`scenarios_run`, the server's end. `mu` is the mutex of `agentSession`, `smu` that of each
`Session`. Making a session is three steps (the engine, the host's turn, Init and the
Before hooks), each of which may fail (`NotStarted`); ending one is four. `turn` stands
for the whole of `Host`: a session has it from `Open` to `StopLease`, a run of
`scenarios_run` while it lasts.

### UpDown

Commands and supervisors interleave at every read, write and removal of `up.json` and of
the stop file. `os.WriteFile` is `Truncate` and `Write`; a file removed between the two is
written to no directory (`linked`). `signals` is FALSE on Windows, where a signal does
nothing and only the stop file is left. What a signal does depends on where the supervisor
is (`Deliver`): it ends a process that has not come to `Main`, is lost between there and
up.go:251, and is kept in `signalled` from then on. A supervisor may fail, be signalled or be
killed at any place. `Reap` is what `StateFile` has in detail: it stops every service on record.

## 3. Runs

| Run | Shows | Instance and why it is enough |
|---|---|---|
| `timed_call` | `ExpiryIsEarned`, `ExpiryNotLost`, `TimeoutIsEarned`, `HungStepReturns`, `EndOfRunReturns` | two holds, so they nest, follow each other and are released in any order; a limit of 2 ticks, so a hold falls before, in and after it; callbacks up to 2 ticks late; a parent without a deadline, and one whose deadline falls before or after the step's own as the holds have it |
| `scheduler` | `NothingLost`, `SuccessMeansAllRan`, `AfterRunSeesAll`, `RunReturns`, `KeepsPromise` | 4 scenarios with every choice of exclusive ones, so there are more scenarios than workers and two in each phase; 2 workers; fail-fast; statuses on both sides of each line the code draws |
| `scenario_run` | `CleanupRuns`, `TeardownRuns`, `StopsAtFailure`, `PassedMeansClean`, `OneState`, `ScenarioEnds` | a Before hook, two steps, an After hook: something before and after every kind of failure; every way a step can resolve; closers of steps and hooks, and a state key that two calls use at once; normal and dry runs |
| `services` | `StartsAfterDependencies`, `StartedMeansReady`, `StopsBeforeDependencies`, `NothingLeftBehind`, `StartReturns`, `StopReturns` | 3 services in four shapes of dependency, one of them attached; two Starts, so one finds services up; every subset may be asked for |
| `state_file` | `Recorded`, `CleanSlate`, `NoStaleEntry` | three runs and an `axx down`, one at a time and each killed anywhere; two services, the second a launcher with a cleanup, so that runs are killed with entries that must be reaped and with entries the next run inherits; a Reap may fail to stop one. Three runs, so one inherits what an earlier one inherited |
| `host` | `OnlyApproved`, `WaiterKeepsQuestion`, `RunEnds`, `KeepsPromise` | two runs, so one waits for the other's turn and one's question replaces the other's; two definitions of one configuration and one of another; one approval kept, so the list is at its limit from the first answer |
| `device_pool` | `AtMostMax`, `OwnDevice`, `NoneLeft`, `NoneLost`, `LeaseReturns` | two scenarios with an app each, a pool of one or two devices, so they share one or start two at once; two ports, as many as can be needed; three devices over the run, so one that failed or was deleted is replaced while both scenarios go on |
| `agent_session` | `NothingLeaked`, `StepsAlone`, `RequestsReturn` | three requests of any of the five kinds at once, with a host and without: one to use a session, one to end it and one to start the next |
| `up_down` | `DownStops`, `NoStaleStop`, `SignalEnds` | two `axx up` and one `axx down`, the least with a supervisor that is replaced and a stop file that outlives its own; a second `axx down` does not fit the time of a run |

`CHECK_DEADLOCK` is off everywhere because every one of these ends: a call returns, a
scenario is over, a process ends, the last request was answered. That they do end where
they must is what the liveness properties check: `HungStepReturns`, `EndOfRunReturns`,
`RunReturns`, `ScenarioEnds`, `StartReturns`, `StopReturns`, `RunEnds`, `LeaseReturns`,
`RequestsReturn` and `SignalEnds`.

### Fairness

- `timed_call`: time goes on, Go runs timers, their callbacks and the goroutine that
  watches the parent, and a select with a ready channel proceeds. Nothing is assumed
  of the step's code. `HungStepReturns` has a premise: a hold that is never released
  keeps the step's own clock standing, as its documentation says; `EndOfRunReturns`
  has none.
- `scheduler`: weak fairness of `Run`, and of each worker, whose scenario returns
  because of the two properties above.
- `scenario_run`: weak fairness of `runScenario`, and that closers return (they have
  no time limit in the code). Abandoned code may go on for ever.
- `services`: weak fairness of every goroutine of Start and Stop: readiness has a
  timeout, and so has the wait for a process that is stopped.
- `host`: weak fairness of every handler, of the timer that gives up on an answer and of
  Serve; a run that has its services leaves at some point. Nothing is assumed of the
  person.
- `device_pool`: weak fairness of each scenario's own steps: booting and the commands to a
  device have time limits. Nothing interrupts a scenario for certain.
- `agent_session`: weak fairness of each request; steps, tools and runs come back. Mutexes
  need no more, since requests are finitely many. `RequestsReturn` allows one wait: a run
  of `scenarios_run` behind a session that was started after it looked for one, which
  lasts until the agent ends that session.
- `up_down`: weak fairness of every process. Kills, failures and Ctrl-C need not happen,
  and the wait of `axx down` has a time limit in the code.

### Where the code and what is said of it differ

Three runs check what a comment or a guide says and TLC finds it violated; each is a
finding in `PROJECT.json` with its quotation.

| Run | What TLC shows |
|---|---|
| `device_wait` | a scenario that drives two apps has one device and waits for another, with its step's clock stopped: with one device, or as many such scenarios as devices, the wait never ends |
| `up_exits` | a supervisor all of whose services have exited goes on, and `axx up` reports them as up |
| `reap_race` | a run that cleans up stops the services of one that began meanwhile |

### Observations

What the models also show, without a run of its own:

- An abandoned step that registers a closer after `Close` took the list leaves it there for
  ever: `CleanupRuns` says that only such code can. A cleanup that fails is part of the
  result and of no message, so readers of the messages stream see a scenario of passed
  steps. What the cleanup logs goes to the last result that is not Skipped, which may be an
  undefined step that never ran.
- What an axx host starts may differ from what the person approved. `define` reads the
  definition when the run's turn comes (server.go:428), the wait for the answer may take a
  minute, and `mgr.Start` (461) runs the compose files and executables that are on disk by
  then; nothing reads them with the definition or compares them. `internal/host/doc.go:14`
  says "Only a definition the person approved starts". `OnlyApproved` therefore speaks of
  services that were started from the definition that was read (`started[r] = def[r]`), and
  without that premise TLC violates it; `Turns` promises only what a run is let in with.
- Two scenarios may drive one emulator. Once an emulator exits its port is free
  (pool.go:290) and the next emulator takes it, while the device of the one that exited stays
  free or leased with the same serial, and `begin` does not look at `d.exited`.
  pool.go:24 says of a device "One scenario at a time has it", which is so of the pool's
  devices and not of what answers at their serials. `OwnDevice` says what does hold: no
  device is given to two scenarios, and while a device's own emulator runs nothing else
  answers for it.
- A signal to a supervisor may be lost: `cli.Main` handles SIGINT and SIGTERM for every command
  (root.go:28), and what it cancels is not what the supervisor waits for, until it has a
  handler of its own (up.go:251). An `axx up` interrupted that early returns and leaves a
  supervisor that goes on to start the services; `axx down` stops it later. `SignalEnds` is
  about signals to the supervisor's own handler.
- After the context of a run is done one scenario may still start, and it may be an exclusive
  one: `StopsStarting` says that it is one in all.
- `Recorded` and `CleanSlate` hold in `state_file` under the assumptions of that run, and
  TLC violates them with others: with `Overlap = TRUE` two runs at once rewrite the file
  without each other's services; with `StopOutcomes = {"gone", "error"}` a service that
  could not be killed is no longer on record; with a launcher that has no cleanup
  (`Launchers = {1}`, `HasCleanup = {}`) its other processes are not seen by the next run,
  since the recorded pid is gone. With `Overlap = TRUE` it violates `NoStaleEntry` too: an
  `axx down` that could not stop a service writes it back when its run has stopped it since.
- A request that got its session from `live` runs its steps in it also when another request
  closed it in between: `Session.Run` looks at no flag. `StepsAlone` says that the steps
  never run beside the cleanup. The env tool's `axx up` waits for the host's turn even when
  the agent's own session has it; `scenarios_run` ends that session first.
- `up.json` may be missing while a supervisor runs: `liveUp` removes a file it finds half
  written, and a supervisor removes whatever file is there as it ends. `axx down` then finds
  no supervisor to signal, but stops the services on record.

## 4. Proofs

TLAPS proves, for every value of the constants that the assumptions admit
(`ClockAssumption`, `GraceAssumption`, `RunAssumption`, `ScenarioAssumption`,
`ServicesAssumption`, `StateAssumption`, `RunsAssumption`, `KeptAssumption`, `MaxAssumption`,
`FiniteAssumption`, `NoDevAssumption`, `KindsAssumption`, `RequestsAssumption`,
`UpDownAssumption`; TLC evaluates them too):

| Theorem | Says |
|---|---|
| `ClockTypeCorrect`, `ExpiryEarned`, `ExpiryKept`, `DeadlineCorrect`, `HeldClockStands` | the clock's properties, for any limit, any finite set of holds, any parent |
| `CallTypeCorrect`, `TimeoutEarned` | the same clock inside `withTimeout`: a timeout is reported only of a step that used its whole time |
| `RunTypeCorrect`, `RunLosesNothing`, `ExclusiveRunsAlone`, `RunStopsStarting` | the suite's bookkeeping, for any number of scenarios and workers |
| `RunSuccessMeansAllRan`, `RunAfterRunSeesAll` | what exit code 0 and the AfterRun hooks may rely on, whatever interrupts the run |
| `RunKeepsPromise` | `Spec => Promise!Spec`: Run implements Suite |
| `ScenarioTypeCorrect`, `ScenarioStopsAtFailure`, `ScenarioTeardownRuns`, `ScenarioCleanupRuns`, `ScenarioPassedMeansClean`, `ScenarioOneState` | a scenario, for any number of hooks and steps, whichever register closers or use the state key |
| `ServicesTypeCorrect`, `ServicesStartAfterDependencies`, `ServicesStartedMeansReady`, `ServicesStopBeforeDependencies`, `ServicesLeaveNothingBehind` | Start and Stop, for any number of services, any acyclic dependencies, and any number of Starts |
| `StateTypeCorrect` | the form of the state file, for any number of processes that overlap and are killed anywhere |
| `StateRecorded` | `Recorded`, if `~Overlap` and `StopOutcomes \subseteq {"gone"}` |
| `StateCleanSlate` | `CleanSlate`, if besides `Launchers \subseteq HasCleanup` |
| `StateNoStaleEntry` | `NoStaleEntry`, if `~Overlap`, whatever stopping and cleaning up result in |
| `HostTypeCorrect`, `HostStartsApproved`, `HostServesOne`, `HostKeepsQuestion`, `HostForgetsOldest` | the host, for any runs and definitions and any limit on the approvals kept |
| `HostKeepsPromise` | `Spec => Promise!Spec`: the host implements Turns |
| `PoolTypeCorrect`, `PoolAtMostMax`, `PoolOwnDevice`, `PoolNoneLeft`, `PoolNoneLost` | the pools, for any number of scenarios and devices, of apps for each, and any limit |
| `SessionTypeCorrect`, `SessionLeaksNothing`, `SessionStepsAlone` | the agent's session, for any finite set of requests |
| `UpTypeCorrect`, `UpStopsWhenAsked`, `DownStopsFound` | `axx up` and `axx down`, for any number of either |

*The clock.* `ExpiryIsEarned` is not inductive: whether an expiry is earned depends on
what the timer was armed for. `ClockInv` adds that the count of holds is that of the
tokens held (`HoldsCounted`); that the timer is armed exactly while the clock runs, and
one that fired has its callback on the way unless a hold had it ignored (`TimerPhases`);
that callbacks exist only once the limit is used up (`FiredIsLate`); and that what is
left of the limit lies in the deadline while the clock runs and in `remaining` while it
is held (`AllowanceKept`). The step that needs them all is the release of the last hold:
it arms the timer for what remains, which is right because the first hold kept exactly
that. Counting holds needs the cardinality facts of FiniteSetTheorems.

*The call.* `CallInv` adds `EndHasCause`: in the grace period the context has ended, and
before the call returned a context that was cancelled has a parent that ended.
`withTimeout` reads the parent's error to tell a timeout from an interrupt, and the
parent may end after the clock did; with `ClockInv` it follows that in no such order is a
timeout reported of a step that had time left.

*The run.* `RunInv` says for each place `Run` can be in which scenarios may be in which
state (`PhaseInv`), who runs them (`PlaceInv`), what `appended`, `dispatched` and
`notRun` count (`CountInv`: cardinalities of sets of scenarios, so that a step that moves
one scenario changes each by one or not at all), and that after `runCtx` is done the
dispatcher has at most one more scenario to give (`LateInv`). `NothingLost` is
`CountInv` and `PhaseInv` at the places after the serial phase; `StopsStarting` is
`LateInv` at `SelectSend` and `SerialRun`; the refinement maps each step of `Run` to one of Suite or to a
stutter, and rests on `PhaseInv` for what runs beside an exclusive scenario.

Exit code 0 also needs to know why a scenario did not run. `CauseInv` follows that: `runCtx`
is done only because the caller's context is, which the result tells of (`interrupted`), or
because a scenario that failed is among the results and the run fails fast. Either makes the
exit code other than 0; `WorstIs` has what the run's status says of its scenarios.

*The scenario.* `ScenarioInv` says which call `runScenario` may be waiting for at each
result (`LiveInv`), that a step's BeforeStep hooks are answered by its AfterStep hooks before
the step is left (`CalledInv`), and that while `failed` is not set all results so far passed
(`StatusInv`). `AbandonedInv` says that abandoned code has a result that did not pass, or is
about to have one once the AfterStep hooks return. From these comes `CloseInv`: after `Close`
took the closers, what is registered is of code that did not pass, so a scenario that passed
has left nothing behind. The proof brought out a premise: no closer registers a closer. One
that did, while `Close` runs, would have it left behind by a scenario that passed.
`ScenarioAssumption` says it, and no pack of the repository does it.

*The services.* `DepsInv` is what makes the start order right although a goroutine waits only
for services of its own Start: what a service depends on is started with it, or was ready
before, since `withDependencies` is closed and an earlier Start that returned nil has
everything ready (`ReadyInv`, `StartedMeansReady`). Without dependencies a goroutine waits
only for the one declared before it, and that all before it are ready follows by going back to
the first that is not: the least-number principle, from WellFoundedInduction, which takes a
set and so is in the prover's reach. The same argument from the other end gives the stop order,
since each service is stopped before its predecessor only (`AfterInv`, `OrderInv`). `LeftInv`
follows what runs, or has its cleanup to come: it is up, about to be, or an error told of it.

*The state file.* `FileInv` needs no premise: entries are about services that were
published, by processes that read the file first (`EntryInv`, `LoadInv`), and nobody has two
entries about one service (`UniqueInv`), which is why the file `saved` writes has none. The
rest needs one process at a time (`AloneInv`). `RecordInv` then adds who knows what: a process
that will rewrite the file has in its memory all that is left (`KnownInv`), a Reap in `todo`
and `kept`, a run in what it inherited, what it could not clean up and what is up. A rewrite
so loses nothing, and a kill loses nothing either, since the file still has what it had.
`StoppedInv` says that an entry without a pid is of a service that does not run, which is what
a Stop that fails would break. `CleanSlate` follows from what `checkEarlierRuns` reads: without
a launcher that has no cleanup, what is left is seen as left (`LeadInv`), and a Reap that did
not fail has kept nothing (`KeptInv`). For `NoStaleEntry` the invariant speaks only of
histories in which nobody was killed: then what is on file while nobody has services up is
what could not be cleaned up (`FailedInv`), so a Reap has nothing to stop, and a run inherits
nothing (`OwnInv`). Each premise is one without which TLC violates the property (section 3,
*Observations*). `LeftAlone` has no theorem: it is about processes that overlap, and fails
when they do (`reap_race`).

*The host.* `OnlyApproved` has to follow an answer through the three steps it takes: `yes` to
a question counts for the text of that question (`ApprovedInv`), which is the text of the run
that waits for it (`RunInv`), and the list on disk has only such texts. A question is replaced
by another run's only if that run has the turn, and the one that waits has it
(`OneRunAtATime`); with `OpenInv` this is `WaiterKeepsQuestion`. The step that starts services
chooses what is on disk, and the property follows where that is what was read.
`HostKeepsPromise` maps a run
whose services may be up to one that is served; the step that starts them is the only one
that needs the invariant, `OneRunAtATime` for nobody else being served and `ApprovedInv` for
what it serves. All others are one step of Turns or none. `HostForgetsOldest` is an action
property: `add` drops an entry only from a full list, for a text that it did not have.

*The pools.* A device is free, in use, being deleted, or in the hand of the code that starts
it or sets it up, and these are apart (`HandInv`, `ApartInv`, `DeletingInv`). `AtMostMax` counts emulators, the
pool counts devices and starts: an emulator that runs is one of the pool's, or whoever
started it has it in hand (`RunningInv`) and is one of `starts`, and those two together are
at most `max` (`CountInv`). That needs `starts` to be the number of scenarios that start one,
which `TypeOK` says, and that a device in hand is none of the pool's until start is over
(`OutsideInv`), so that none is counted twice. `PortsInv` says that no two emulators that run
have the same port, though a port is free until its emulator binds it, which with `ApartInv`
is `OwnDevice`; devices whose emulator exited keep the port they had, and it says nothing of
those. After close only
abandoned code has a device (`FateInv`, `ClosedInv`), which is `NoneLeft`.

*The agent's session.* `NothingLeaked` holds because every request that makes or ends a
session does it under `agentSession.mu`, so `SessionInv` says what the holder of `mu` knows
at each of its places: that there is a session to end, or that there is none and the last
one numbered is being made (`HolderInv`), and that a session has no turn before it opens its
lease and after it cancelled it (`TurnInv`). `StepsInv` says the same of `Session.mu`: who
runs steps or closes the session holds it. That a new session finds a number within the
bounds of the model comes from counting: no request makes two, so there are at most as many
as requests past making one (`Made`).

*Up and down.* `NoStaleStop` needs `StopInv`: an `up.stop` that is there when a supervisor
looks for it was written since that supervisor removed the old one. `DownStops` has to
exclude that services start after `Reap`: `FoundInv` says that `up.json`, and so an
`axx down`, names only supervisors that are done starting, and `LaunchInv` that none is
launched twice.

`DeadlineIsAllowance`, `NeverExpiresHeld`, `ExclusiveAlone`, `StopsStarting`,
`OneRunAtATime` (which `KeepsPromise` has besides) and the
`TypeOK` of these modules are proved and no run repeats them.

Only model-checked: liveness, which needs fairness and ENABLED, which the prover has not.
The two overlaps of section 3, `reap_race` and the others, are counterexamples, which only
TLC can give.

## 5. What is not modelled

- Time is discrete, and durations are the smallest that show each order of events.
- `Runner.Run`: choosing hooks by tag expression, shuffling (any order is covered by any
  choice of exclusive scenarios), progress reports, counting steps.
- `ScenarioRun`: retries of an assertion inside a step are the pack's code; the wording
  of errors; the scenario's own timeout is the parent of the clock in `TimedCall`. Which
  result logs and attachments go to, and the messages, are left out.
- `Services`: output of services, debug ports, environment variables; readiness checks
  are their outcome.
- `StateFile`: disk errors, files written by another version, pids that were reused. The
  window between a service's start and the write that records it is there in the model
  (`published` is set by that write), and `Recorded` speaks only of what comes after it.
- `Host`: the wire format, the token, tunnels to the services and the lines a run reports;
  a handler that cannot write to its connection.
- `DevicePool`: what is done on a device succeeds or fails; the emulator that `seeCamera`
  starts again in the middle of a scenario; the desktop packs, which have no pool.
- `AgentSession`: the env tool, and the tools that only read files.
- `UpDown`: an axx host that serves the project (`up` then leases there), two `axx down` at
  once, and pids that were reused.
- The suite's cache (`core/suite.go`) is a `sync.Once` for each key, and keeps failures as its
  comment says; the engine is a sequence of calls. Neither has states of its own to explore.
- Parsing, matching, linting, formatting, data generation, Java compatibility, the editor
  server and the protocol clients: pure text or data, or I/O of a step.

## 6. Plan

Done: clock, call, suite, scheduler, scenario with its state keys, services, state file,
host, device pools, agent session, up and down; proofs of the safety properties of all of
them. Next, most important first:

1. `AgentSession` with the whole of `Host` in place of `turn`, or with `Turns`, which `Host`
   implements, and the env tool.
2. The phases of `axx run` with their deferred calls, around `Services` and `Scheduler` as
   they promise to behave.
3. An abstract specification of the state file (what is left, and who knows of it), which
   `StateFile` implements for one process at a time.

## 7. How to run

    tlc -config MCServices.cfg MCServices      # model-check
    tlapm RunnerProofs.tla                     # check the proofs
