------------------------------ MODULE StateFile ------------------------------
(***************************************************************************)
(* The state file of a project, .axx/run/state.json, and the axx processes  *)
(* that read and rewrite it: saveStateLocked, Reap, statusOf and            *)
(* checkEarlierRuns of internal/lifecycle/state.go, called by runs that     *)
(* start and stop services (Services) and by `axx down`.  Nothing locks the *)
(* file.  A process may be killed between any two steps.                    *)
(*                                                                         *)
(* A run starts services 1..K one after another; <<r, k>> is the one that   *)
(* run r started.  A launcher is a service whose first process exits and    *)
(* leaves others of its process group running.                              *)
(***************************************************************************)
EXTENDS Integers, Sequences, FiniteSets, SequencesExt

CONSTANTS
  Runs,          \* processes of `axx run` and `axx up`
  Downs,         \* processes of `axx down`
  NoRun,         \* no process: pid 0
  K,             \* how many services a run starts
  HasCleanup,    \* the services with a cleanup
  Launchers,     \* the services that are launchers
  Overlap,       \* whether one process may begin while another is going
  StopOutcomes,  \* how the terminate of a Stop may end
  ReapOutcomes   \* how the terminate of a Reap may end

Axx == Runs \union Downs
Svc == 1..K
Instances == Runs \X Svc

ASSUME StateAssumption ==
  /\ Runs \intersect Downs = {}
  /\ NoRun \notin Axx
  /\ K \in Nat
  /\ HasCleanup \subseteq Svc
  /\ Launchers \subseteq Svc
  /\ Overlap \in BOOLEAN
  /\ StopOutcomes \subseteq {"gone", "error"}
  /\ ReapOutcomes \subseteq {"gone", "error"}

VARIABLES
  file,      \* the state file: runState.PID and its services; none when empty
  pc,        \* what each process is doing
  started,   \* how many services each run launched
  up,        \* Manager.up: the services published and not stopped
  loaded,    \* Manager.stateLoaded
  inherited, \* Manager.inherited
  unclean,   \* Manager.unclean
  reap,      \* Reap: the entries to go, those kept, and whether one failed
  alive,     \* the services with a process that runs
  lead,      \* those whose first process does
  dirty,     \* those launched whose cleanup has not succeeded since
  published  \* history: the services that were published

managers == <<started, up, loaded, inherited, unclean>>
services == <<alive, lead, dirty>>
vars == <<file, pc, managers, reap, services, published>>

\* stateService, of which only a service whose cleanup failed has no pid.
Entry(i, owner, failed) == [svc |-> i, owner |-> owner, failed |-> failed]
Entries == [svc : Instances, owner : Runs \union {NoRun}, failed : BOOLEAN]

\* The entry of a stopped service whose cleanup failed.
uncleaned(i) == Entry(i, NoRun, TRUE)

NoFile == [pid |-> NoRun, services |-> <<>>]
NoReap == [todo |-> <<>>, kept |-> <<>>, failed |-> FALSE]

TypeOK ==
  /\ file \in [pid : Runs \union {NoRun}, services : Seq(Entries)]
  /\ pc \in [Axx -> {"new", "checking", "reading", "reaping", "reaped", "starting",
                     "launched", "stopping", "stopped", "ended", "killed"}]
  /\ started \in [Runs -> 0..K]
  /\ up \in [Runs -> Seq(Svc)]
  /\ loaded \in [Runs -> BOOLEAN]
  /\ inherited \in [Runs -> Seq(Entries)]
  /\ unclean \in [Runs -> Seq(Entries)]
  /\ reap \in [Axx -> [todo : Seq(Entries), kept : Seq(Entries), failed : BOOLEAN]]
  /\ lead \subseteq alive /\ alive \subseteq Instances
  /\ dirty \subseteq Instances
  /\ published \subseteq Instances
  /\ \A e, f \in DOMAIN file.services :
       file.services[e].svc = file.services[f].svc => e = f

Init ==
  /\ file = NoFile
  /\ pc = [r \in Axx |-> "new"]
  /\ started = [r \in Runs |-> 0]
  /\ up = [r \in Runs |-> <<>>]
  /\ loaded = [r \in Runs |-> FALSE]
  /\ inherited = [r \in Runs |-> <<>>]
  /\ unclean = [r \in Runs |-> <<>>]
  /\ reap = [r \in Axx |-> NoReap]
  /\ alive = {}
  /\ lead = {}
  /\ dirty = {}
  /\ published = {}

\* proc.ProcessAlive of an axx process.
Going(r) == pc[r] \notin {"new", "ended", "killed"}

goto(r, to) == pc' = [pc EXCEPT ![r] = to]

\* A process begins: a run with what earlier runs left, `axx down` with Reap.
Begin(r) ==
  /\ pc[r] = "new"
  /\ Overlap \/ \A q \in Axx : ~Going(q)
  /\ goto(r, IF r \in Runs THEN "checking" ELSE "reading")
  /\ UNCHANGED <<file, managers, reap, services, published>>

-----------------------------------------------------------------------------
\* The process that an entry of file f belongs to.
ownerOf(f, e) == IF e.owner = NoRun /\ ~e.failed THEN f.pid ELSE e.owner

\* statusOf: what the file says of a service.
stateOf(f, e) ==
  LET owner == ownerOf(f, e) IN
  IF e.failed THEN "not cleaned up"
  ELSE IF owner # NoRun /\ Going(owner) THEN "running"
  ELSE IF e.svc \in lead THEN "left over"
  ELSE IF e.svc[2] \in HasCleanup THEN "not cleaned up"
  ELSE "gone"

states(f) == {stateOf(f, e) : e \in Range(f.services)}

checkEarlierRuns_LeftOverOnly(r) ==
  /\ pc[r] = "checking"
  /\ goto(r, IF "left over" \notin states(file) THEN "starting"
             ELSE IF "running" \in states(file) THEN "ended"
             ELSE "reading")
  /\ UNCHANGED <<file, managers, reap, services, published>>

\* checkEarlierRuns: nothing left, or left beside a run still going (it refuses
\* to start), or left by runs that are gone (it reaps).
checkEarlierRuns(r) ==
  /\ pc[r] = "checking"
  /\ goto(r, IF states(file) \intersect {"left over", "not cleaned up"} = {}
             THEN "starting"
             ELSE IF "running" \in states(file) THEN "ended"
             ELSE "reading")
  /\ UNCHANGED <<file, managers, reap, services, published>>

\* What follows a Reap: the run starts, unless it failed.
reapOver(r, failed) == goto(r, IF r \in Downs \/ failed THEN "ended" ELSE "starting")

\* Reap reads the file, again.
ReapReads(r) ==
  /\ pc[r] = "reading"
  /\ IF file.services = <<>> THEN reapOver(r, FALSE) /\ UNCHANGED reap
     ELSE /\ goto(r, "reaping")
          /\ reap' = [reap EXCEPT ![r] = [NoReap EXCEPT !.todo = file.services]]
  /\ UNCHANGED <<file, managers, services, published>>

\* The entry at hand is done with: it is dropped, or keep goes on record.
entryOver(r, keep, failed) ==
  reap' = [reap EXCEPT ![r] = [todo |-> Front(@.todo),
                               kept |-> keep \o @.kept,
                               failed |-> @.failed \/ failed]]

\* The last entry to go: its process group is stopped if it runs, whoever its
\* owner is.  One that cannot be stopped is kept, with no owner.
ReapStops(r, outcome) ==
  /\ pc[r] = "reaping"
  /\ reap[r].todo # <<>>
  /\ LET e == Last(reap[r].todo)
         stops == ~e.failed /\ e.svc \in alive
     IN /\ IF stops /\ outcome = "gone"
           THEN alive' = alive \ {e.svc} /\ lead' = lead \ {e.svc}
           ELSE UNCHANGED <<alive, lead>>
        /\ IF stops /\ outcome = "error"
           THEN entryOver(r, <<[e EXCEPT !.owner = NoRun]>>, TRUE) /\ UNCHANGED pc
           ELSE IF e.failed \/ e.svc[2] \in HasCleanup
           THEN goto(r, "reaped") /\ UNCHANGED reap
           ELSE entryOver(r, <<>>, FALSE) /\ UNCHANGED pc
  /\ UNCHANGED <<file, managers, dirty, published>>

\* Then its cleanup runs.
ReapCleans(r, ok) ==
  /\ pc[r] = "reaped"
  /\ LET i == Last(reap[r].todo).svc
     IN /\ entryOver(r, IF ok THEN <<>> ELSE <<uncleaned(i)>>, ~ok)
        /\ dirty' = IF ok THEN dirty \ {i} ELSE dirty
  /\ goto(r, "reaping")
  /\ UNCHANGED <<file, managers, alive, lead, published>>

ReapWrites_NotRemoved(r) ==
  /\ pc[r] = "reaping"
  /\ reap[r].todo = <<>>
  /\ file' = IF reap[r].kept = <<>> THEN file
             ELSE [pid |-> NoRun, services |-> reap[r].kept]
  /\ reapOver(r, reap[r].failed)
  /\ UNCHANGED <<managers, reap, services, published>>

\* The file is rewritten with what was kept, or removed.
ReapWrites(r) ==
  /\ pc[r] = "reaping"
  /\ reap[r].todo = <<>>
  /\ file' = [pid |-> NoRun, services |-> reap[r].kept]
  /\ reapOver(r, reap[r].failed)
  /\ UNCHANGED <<managers, reap, services, published>>

-----------------------------------------------------------------------------
saved_NoUnclean(r, inh, uncl, ups) ==
  LET own == [n \in DOMAIN ups |-> Entry(<<r, ups[n]>>, r, FALSE)]
  IN IF inh \o own = <<>> THEN NoFile ELSE [pid |-> r, services |-> inh \o own]

\* saveStateLocked: the file with the entries inherited, those whose cleanup
\* failed and those of services that are up; none when there is no entry.
saved(r, inh, uncl, ups) ==
  LET own == [n \in DOMAIN ups |-> Entry(<<r, ups[n]>>, r, FALSE)]
      all == inh \o uncl \o own
  IN IF all = <<>> THEN NoFile ELSE [pid |-> r, services |-> all]

\* startService launches the next service.
launch(r) ==
  /\ pc[r] = "starting"
  /\ started[r] < K
  /\ started' = [started EXCEPT ![r] = @ + 1]
  /\ LET i == <<r, started[r] + 1>>
     IN /\ alive' = alive \union {i}
        /\ lead' = lead \union {i}
        /\ dirty' = IF i[2] \in HasCleanup THEN dirty \union {i} ELSE dirty
  /\ goto(r, "launched")
  /\ UNCHANGED <<file, up, loaded, inherited, unclean, reap, published>>

\* saveStateLocked's first call reads what the file has.
load(r) ==
  /\ pc[r] = "launched"
  /\ ~loaded[r]
  /\ loaded' = [loaded EXCEPT ![r] = TRUE]
  /\ inherited' = [inherited EXCEPT ![r] =
       [n \in DOMAIN file.services |->
          [file.services[n] EXCEPT !.owner = ownerOf(file, file.services[n])]]]
  /\ UNCHANGED <<file, pc, started, up, unclean, reap, services, published>>

\* The service is up and the file rewritten.
publish(r) ==
  /\ pc[r] = "launched"
  /\ loaded[r]
  /\ up' = [up EXCEPT ![r] = Append(@, started[r])]
  /\ published' = published \union {<<r, started[r]>>}
  /\ file' = saved(r, inherited[r], unclean[r], up'[r])
  /\ goto(r, "starting")
  /\ UNCHANGED <<started, loaded, inherited, unclean, reap, services>>

\* The run is over, or its start failed.
Stop(r) ==
  /\ pc[r] = "starting"
  /\ goto(r, IF up[r] = <<>> THEN "ended" ELSE "stopping")
  /\ UNCHANGED <<file, managers, reap, services, published>>

\* stopService: the processes are terminated.
stopService(r, outcome) ==
  /\ pc[r] = "stopping"
  /\ up[r] # <<>>
  /\ LET i == <<r, Last(up[r])>>
     IN IF outcome = "gone" THEN alive' = alive \ {i} /\ lead' = lead \ {i}
        ELSE i \in alive /\ UNCHANGED <<alive, lead>>
  /\ goto(r, "stopped")
  /\ UNCHANGED <<file, managers, reap, dirty, published>>

\* The rest of it: the cleanup runs, the service is done with, and the file is
\* rewritten.  A service that could not be terminated is done with too.
stopCleanup(r, ok) ==
  /\ pc[r] = "stopped"
  /\ ok \/ Last(up[r]) \in HasCleanup
  /\ LET i == <<r, Last(up[r])>>
     IN /\ dirty' = IF ok THEN dirty \ {i} ELSE dirty
        /\ unclean' = IF ok THEN unclean
                      ELSE [unclean EXCEPT ![r] = Append(@, uncleaned(i))]
  /\ up' = [up EXCEPT ![r] = Front(@)]
  /\ file' = saved(r, inherited[r], unclean'[r], up'[r])
  /\ goto(r, "stopping")
  /\ UNCHANGED <<started, loaded, inherited, reap, alive, lead, published>>

\* All are stopped: Stop rewrites the file once more.
StopOver(r) ==
  /\ pc[r] = "stopping"
  /\ up[r] = <<>>
  /\ file' = saved(r, inherited[r], unclean[r], <<>>)
  /\ goto(r, "ended")
  /\ UNCHANGED <<managers, reap, services, published>>

-----------------------------------------------------------------------------
\* The process is killed or crashes.  Its services may go on, or (on Linux,
\* where they get a death signal) end, launchers' other processes excepted.
Kill(r) ==
  /\ Going(r)
  /\ goto(r, "killed")
  /\ \E dead \in SUBSET {i \in alive : i[1] = r} :
       /\ lead' = lead \ dead
       /\ alive' = alive \ {i \in dead : i[2] \notin Launchers}
  /\ UNCHANGED <<file, managers, reap, dirty, published>>

\* A service's first process ends on its own; a launcher's others go on.
Exits(i) ==
  /\ i \in lead
  /\ lead' = lead \ {i}
  /\ alive' = IF i[2] \in Launchers THEN alive ELSE alive \ {i}
  /\ UNCHANGED <<file, pc, managers, reap, dirty, published>>

Reap(r) ==
  \/ ReapReads(r)
  \/ \E o \in ReapOutcomes : ReapStops(r, o)
  \/ \E ok \in BOOLEAN : ReapCleans(r, ok)
  \/ ReapWrites(r)

Run(r) ==
  \/ checkEarlierRuns(r)
  \/ launch(r) \/ load(r) \/ publish(r)
  \/ Stop(r) \/ StopOver(r)
  \/ \E o \in StopOutcomes : stopService(r, o)
  \/ \E ok \in BOOLEAN : stopCleanup(r, ok)

Next ==
  \/ \E r \in Axx : Begin(r) \/ Reap(r) \/ Kill(r)
  \/ \E r \in Runs : Run(r)
  \/ \E i \in Instances : Exits(i)

Spec == Init /\ [][Next]_vars

-----------------------------------------------------------------------------
\* A service that runs, or was not cleaned up.
Left(i) == i \in published /\ (i \in alive \/ i \in dirty)

\* The comment on saveStateLocked: the file has the services that are running or
\* not cleaned up yet; whichever process is killed, and whenever, `axx down`
\* knows of them.
Recorded ==
  \A i \in Instances : Left(i) => \E n \in DOMAIN file.services : file.services[n].svc = i

\* The comment on checkEarlierRuns and the guide on services: a run starts its
\* services from a clean slate, with nothing of an earlier run still running or
\* not cleaned up.
CleanSlate ==
  \A r \in Runs :
    pc[r] \in {"starting", "launched", "stopping", "stopped"} =>
      \A i \in Instances : i[1] # r => ~Left(i)

\* When processes ended in order, the file has only what is really left: no
\* cleanup is run again, and no process stopped that is not one of ours.
NoStaleEntry ==
  (\A r \in Axx : pc[r] \in {"new", "ended"}) =>
    \A n \in DOMAIN file.services : Left(file.services[n].svc)

\* The guide on services: what belongs to a run still going is left alone.  No
\* process but the run itself stops its services.
LeftAlone ==
  [][\A r \in Axx : \A o \in ReapOutcomes :
       ReapStops(r, o) =>
         \A i \in alive \ alive' : ~Going(i[1])]_vars

=============================================================================
