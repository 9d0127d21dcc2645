----------------------------- MODULE DevicePool -----------------------------
(***************************************************************************)
(* packs/mobile: the pool of devices of one kind that the scenarios of a   *)
(* run lease (android/pool.go; ios/pool.go has the same lease and signal,  *)
(* and deletes a simulator that a scenario put photos in).  A scenario     *)
(* that drives several apps leases a device for each, one after the other, *)
(* and gives all of them back as it ends (core/app.go, stopAll).  Emulators*)
(* may exit by themselves, steps may be interrupted, and a step that does  *)
(* not return in time is abandoned: its code goes on while its scenario,   *)
(* and in the end the run, are taken down.                                 *)
(*                                                                         *)
(* A device is its emulator's process and console port, which is what adb  *)
(* knows it by.  What is done on it (adb, the UiAutomator2 server)         *)
(* succeeds or fails, and fails once the context of its step is done.  An  *)
(* emulator started again in the middle of a scenario (seeCamera) is not   *)
(* modelled.                                                               *)
(***************************************************************************)
EXTENDS Naturals, FiniteSets

CONSTANTS Scenarios,
          Apps,      \* how many devices a scenario leases, at most
          Max,       \* the setting devices, at most
          Ports,     \* the console ports
          Devices    \* bound: the devices the run may start

ASSUME AppsAssumption == Apps \in Nat
ASSUME MaxAssumption == Max \in Nat \ {0}
ASSUME FiniteAssumption == IsFiniteSet(Devices) /\ IsFiniteSet(Scenarios)

NoDev == 0
ASSUME NoDevAssumption == NoDev \notin Devices

VARIABLES
  max, free, all, starts, closed,  \* the fields of pool
  closing,      \* the devices close still has to stop
  port,         \* device.port
  emu,          \* the emulator of a device: "none", "booting", "up" or "exited"
  pc,           \* where each scenario is
  dev,          \* the device a scenario has in hand, before its app runs
  has,          \* the devices its apps run on
  deleting,     \* the device a scenario took off the pool and is stopping
  interrupted,  \* scenarios whose context is done
  abandoned     \* scenarios that ended while their step's code went on

pool == <<max, free, all, starts, closed, closing>>
emulators == <<port, emu>>
fate == <<interrupted, abandoned>>
hands == <<has, deleting>>
vars == <<pool, emulators, pc, dev, hands, fate>>

Leasing == {"look", "waiting", "boot", "booting", "boot again", "booting again", "setup"}
Beginning == {"begin", "afresh", "booting afresh", "ready"}
Places == Leasing \cup Beginning \cup {"idle", "using", "end", "over"}

Unused == {d \in Devices : emu[d] = "none"}
Running(d) == emu[d] \in {"booting", "up"}

(* The bug gives the port back once the emulator is up. *)
taken_Booting == {port[d] : d \in {e \in Devices : emu[e] = "booting"}}

\* consolePorts.taken: the goroutine that waits for an emulator gives its port
\* back as it exits.
taken == {port[d] : d \in {e \in Devices : Running(e)}}
\* The emulators that may answer adb for a device: it goes by the serial
\* emulator-<port>, and d.exited is not looked at.
AtSerial(d) == {e \in Devices : Running(e) /\ port[e] = port[d]}
\* The devices a scenario has.
Uses(s) == has[s] \cup (IF pc[s] \in Beginning THEN {dev[s]} ELSE {})

TypeOK ==
  /\ max \in 1..Max
  /\ free \subseteq Devices /\ all \subseteq Devices
  /\ starts = Cardinality({s \in Scenarios : pc[s] \in Leasing \ {"look", "waiting"}})
  /\ closed \in BOOLEAN /\ closing \subseteq Devices
  /\ port \in [Devices -> Ports \cup {0}]
  /\ emu \in [Devices -> {"none", "booting", "up", "exited"}]
  /\ pc \in [Scenarios -> Places]
  /\ dev \in [Scenarios -> Devices \cup {NoDev}]
  /\ has \in [Scenarios -> SUBSET Devices]
  /\ deleting \in [Scenarios -> Devices \cup {NoDev}]
  /\ interrupted \subseteq Scenarios /\ abandoned \subseteq interrupted

Init ==
  /\ max \in 1..Max
  /\ free = {} /\ all = {} /\ starts = 0 /\ closed = FALSE /\ closing = {}
  /\ port = [d \in Devices |-> 0] /\ emu = [d \in Devices |-> "none"]
  /\ pc = [s \in Scenarios |-> "idle"] /\ dev = [s \in Scenarios |-> NoDev]
  /\ has = [s \in Scenarios |-> {}] /\ deleting = [s \in Scenarios |-> NoDev]
  /\ interrupted = {} /\ abandoned = {}

-----------------------------------------------------------------------------
(* lease *)

To(s, place) == pc' = [pc EXCEPT ![s] = place]

\* signal closes p.changed: each lease that waits looks again.  s goes on to
\* place meanwhile.
woken(t) == IF pc[t] = "waiting" THEN "look" ELSE pc[t]
signal(s, place) == pc' = [t \in Scenarios |-> IF t = s THEN place ELSE woken(t)]

\* A scenario's app is not running yet: device starts it.
Lease(s) ==
  /\ pc[s] \in {"idle", "using"} /\ ~ closed /\ s \notin interrupted
  /\ Cardinality(has[s]) < Apps
  /\ To(s, "look")
  /\ UNCHANGED <<pool, emulators, dev, hands, fate>>

(* The bug counts the devices that are there, not those on their way. *)
Room_AllOnly == Cardinality(all) < max

\* The pool may have one more.
Room == Cardinality(all) + starts < max

\* One turn of lease's loop, under p.mu, up to what it waits for.
lease(s) ==
  /\ pc[s] = "look"
  /\ \/ /\ closed
        /\ To(s, "end")
        /\ UNCHANGED <<free, starts, dev>>
     \/ /\ ~ closed
        /\ \E d \in free : free' = free \ {d} /\ dev' = [dev EXCEPT ![s] = d]
        /\ To(s, "begin")
        /\ starts' = starts
     \/ /\ ~ closed /\ free = {} /\ Room
        /\ starts' = starts + 1
        /\ To(s, "boot")
        /\ UNCHANGED <<free, dev>>
     \/ /\ ~ closed /\ free = {} /\ ~ Room
        /\ To(s, "waiting")
        /\ UNCHANGED <<free, starts, dev>>
  /\ UNCHANGED <<max, all, closed, closing, emulators, hands, fate>>

\* select: the context is done.
WaitEnds(s) ==
  /\ pc[s] = "waiting" /\ s \in interrupted
  /\ To(s, "end")
  /\ UNCHANGED <<pool, emulators, dev, hands, fate>>

\* start is over: d joins the pool, or nothing does.
started(s, d) ==
  /\ starts' = starts - 1
  /\ all' = all \cup d
  /\ signal(s, IF d = {} THEN "end" ELSE "begin")
  /\ UNCHANGED <<max, free, closed, closing, hands, fate>>

\* boot1 up to cmd.Start: the emulator has a port that no other has.
boot(s, d) ==
  /\ \E p \in Ports \ taken : port' = [port EXCEPT ![d] = p]
  /\ emu' = [emu EXCEPT ![d] = "booting"]
  /\ dev' = [dev EXCEPT ![s] = d]

\* start calls boot1, for a new device; the retry is of the same one.  It
\* fails without a port, or on a cancelled context or a file it cannot write.
boot1(s) ==
  /\ pc[s] \in {"boot", "boot again"}
  /\ \/ /\ Ports \ taken # {}
        /\ IF pc[s] = "boot" THEN /\ Unused # {} /\ boot(s, CHOOSE d \in Unused : TRUE)
           ELSE boot(s, dev[s])
        /\ To(s, IF pc[s] = "boot" THEN "booting" ELSE "booting again")
        /\ UNCHANGED <<pool, hands, fate>>
     \/ /\ dev' = [dev EXCEPT ![s] = NoDev]
        /\ started(s, {})
        /\ UNCHANGED emulators

\* waitBooted returns.
Booted(s) ==
  /\ pc[s] \in {"booting", "booting again"}
  /\ emu[dev[s]] = "booting" /\ s \notin interrupted
  /\ emu' = [emu EXCEPT ![dev[s]] = "up"]
  /\ To(s, "setup")
  /\ UNCHANGED <<pool, port, dev, hands, fate>>

\* <-d.exited: the emulator stopped as it started, and is started once more.
StoppedStarting(s) ==
  /\ pc[s] \in {"booting", "booting again"} /\ emu[dev[s]] = "exited"
  /\ IF pc[s] = "booting" THEN To(s, "boot again") /\ UNCHANGED <<pool, dev, hands, fate>>
     ELSE dev' = [dev EXCEPT ![s] = NoDev] /\ started(s, {})
  /\ UNCHANGED emulators

(* The bug leaves the emulator running when the device cannot be set up. *)
StartFails_NoStop(s) ==
  /\ pc[s] \in {"booting", "booting again", "setup"}
  /\ dev' = [dev EXCEPT ![s] = NoDev]
  /\ started(s, {})
  /\ UNCHANGED emulators

\* waitBooted, settle or ensureServer fail: d.stop, and lease returns the error.
StartFails(s) ==
  /\ pc[s] \in {"booting", "booting again", "setup"}
  /\ emu' = [emu EXCEPT ![dev[s]] = "exited"]
  /\ dev' = [dev EXCEPT ![s] = NoDev]
  /\ started(s, {})
  /\ port' = port

StartOver(s) ==
  /\ pc[s] = "setup" /\ s \notin interrupted
  /\ started(s, {dev[s]})
  /\ UNCHANGED <<emulators, dev>>

-----------------------------------------------------------------------------
(* The scenario's app on its device *)

\* bootAfresh: the emulator is stopped and started again, cold, for the camera.
Afresh(s) ==
  /\ pc[s] = "begin"
  /\ emu' = [emu EXCEPT ![dev[s]] = "exited"]
  /\ To(s, "afresh")
  /\ UNCHANGED <<pool, port, dev, hands, fate>>

AfreshBoots(s) ==
  /\ pc[s] = "afresh"
  /\ Ports \ taken # {} /\ boot(s, dev[s])
  /\ To(s, "booting afresh")
  /\ UNCHANGED <<pool, hands, fate>>

AfreshOver(s) ==
  /\ pc[s] = "booting afresh" /\ emu[dev[s]] = "booting" /\ s \notin interrupted
  /\ emu' = [emu EXCEPT ![dev[s]] = "up"]
  /\ To(s, "ready")
  /\ UNCHANGED <<pool, port, dev, hands, fate>>

\* begin: the app's session starts, on whatever emulator answers at the serial,
\* and device keeps the app for stopAll.
Begin(s) ==
  /\ pc[s] \in {"begin", "ready"} /\ s \notin interrupted /\ AtSerial(dev[s]) # {}
  /\ has' = [has EXCEPT ![s] = @ \cup {dev[s]}]
  /\ dev' = [dev EXCEPT ![s] = NoDev]
  /\ To(s, "using")
  /\ UNCHANGED <<pool, emulators, deleting, fate>>

(* The bug forgets the device of an app that cannot be started. *)
BeginFails_Keeps(s) ==
  /\ pc[s] \in Beginning
  /\ emu' = IF pc[s] # "booting afresh" THEN emu
            ELSE [emu EXCEPT ![dev[s]] = "exited"]
  /\ dev' = [dev EXCEPT ![s] = NoDev]
  /\ To(s, "end")
  /\ UNCHANGED <<pool, port, hands, fate>>

\* It cannot be started, or bootAfresh failed and stopped what it started:
\* releaseDevice.
BeginFails(s) ==
  /\ pc[s] \in Beginning
  /\ emu' = IF pc[s] # "booting afresh" THEN emu
            ELSE [emu EXCEPT ![dev[s]] = "exited"]
  /\ free' = free \cup {dev[s]}
  /\ dev' = [dev EXCEPT ![s] = NoDev]
  /\ signal(s, "end")
  /\ UNCHANGED <<max, all, starts, closed, closing, port, hands, fate>>

\* The scenario's steps are over.
Done(s) ==
  /\ pc[s] = "using"
  /\ To(s, "end")
  /\ UNCHANGED <<pool, emulators, dev, hands, fate>>

\* stopAll runs: the steps are over, or were given up on.
Ending(s) == (pc[s] = "end" \/ s \in abandoned) /\ deleting[s] = NoDev

(* The bug gives the device back without a signal. *)
Release_Silent(s) ==
  /\ Ending(s)
  /\ \E d \in has[s] : /\ free' = free \cup {d}
                       /\ has' = [has EXCEPT ![s] = @ \ {d}]
  /\ UNCHANGED <<max, all, starts, closed, closing, emulators, pc, dev, deleting, fate>>

\* stopAll, for one of its apps: release, to the free devices, or off the pool
\* to be deleted (a simulator with photos).
Release(s) ==
  /\ Ending(s)
  /\ \E d \in has[s] :
       /\ has' = [has EXCEPT ![s] = @ \ {d}]
       /\ \/ free' = free \cup {d} /\ UNCHANGED <<all, deleting>>
          \/ all' = all \ {d} /\ deleting' = [deleting EXCEPT ![s] = d] /\ free' = free
  /\ pc' = [t \in Scenarios |-> woken(t)]
  /\ UNCHANGED <<max, starts, closed, closing, emulators, dev, fate>>

Deleted(s) ==
  /\ deleting[s] # NoDev
  /\ emu' = [emu EXCEPT ![deleting[s]] = "exited"]
  /\ deleting' = [deleting EXCEPT ![s] = NoDev]
  /\ UNCHANGED <<pool, port, pc, dev, has, fate>>

TornDown(s) == has[s] = {} /\ deleting[s] = NoDev

Over(s) ==
  /\ pc[s] = "end" /\ TornDown(s)
  /\ To(s, "over")
  /\ UNCHANGED <<pool, emulators, dev, hands, fate>>

-----------------------------------------------------------------------------
(* What happens to it *)

\* The scenario's timeout, or the end of the run: not the step's own, which is
\* held while lease waits (module StepClock).
Interrupt(s) ==
  /\ pc[s] \notin {"idle", "over"} /\ s \notin interrupted
  /\ interrupted' = interrupted \cup {s}
  /\ UNCHANGED <<pool, emulators, pc, dev, hands, abandoned>>

\* withTimeout gives up on the step, and the scenario is taken down (Release)
\* while its code goes on: stopAll knows nothing of the device that is getting.
Abandon(s) ==
  /\ s \in interrupted \ abandoned
  /\ pc[s] \in Leasing \cup Beginning
  /\ abandoned' = abandoned \cup {s}
  /\ UNCHANGED <<pool, emulators, pc, dev, hands, interrupted>>

\* An emulator exits: by itself, or because of another device's stop, whose
\* `emu kill` goes by the serial too.
Exits(d) ==
  /\ Running(d)
  /\ emu' = [emu EXCEPT ![d] = "exited"]
  /\ UNCHANGED <<pool, port, pc, dev, hands, fate>>

\* close, as the suite is closed: every scenario is over, or abandoned and taken
\* down.
close ==
  /\ ~ closed
  /\ \A s \in Scenarios : pc[s] \in {"idle", "over"} \/ (s \in abandoned /\ TornDown(s))
  /\ closed' = TRUE /\ closing' = all
  /\ all' = {} /\ free' = {}
  /\ pc' = [s \in Scenarios |-> woken(s)]
  /\ UNCHANGED <<max, starts, emulators, dev, hands, fate>>

Stopped(d) ==
  /\ d \in closing
  /\ closing' = closing \ {d}
  /\ emu' = [emu EXCEPT ![d] = "exited"]
  /\ UNCHANGED <<max, free, all, starts, closed, port, pc, dev, hands, fate>>

Step(s) ==
  \/ lease(s) \/ WaitEnds(s)
  \/ boot1(s) \/ Booted(s) \/ StoppedStarting(s) \/ StartFails(s) \/ StartOver(s)
  \/ AfreshBoots(s) \/ AfreshOver(s) \/ Begin(s) \/ BeginFails(s)
  \/ Done(s) \/ Release(s) \/ Deleted(s) \/ Over(s)

Next ==
  \/ \E s \in Scenarios : Step(s) \/ Lease(s) \/ Afresh(s) \/ Interrupt(s) \/ Abandon(s)
  \/ \E d \in Devices : Exits(d) \/ Stopped(d)
  \/ close

Spec == Init /\ [][Next]_vars

\* The scenarios' code goes on: booting and the device's commands have time
\* limits.  Nothing else has to happen, and a scenario need not lease again.
FairSpec == Spec /\ \A s \in Scenarios : WF_vars(Step(s))

-----------------------------------------------------------------------------
(* Properties *)

(* At most max emulators run, those left out that are being deleted or
   stopped at the end, whatever fails, stops by itself or is started again. *)
AtMostMax ==
  ~ closed =>
    Cardinality({d \in Devices : Running(d) /\ \A s \in Scenarios : deleting[s] # d}) <= max

(* No other scenario has a scenario's device, and the pool does not count it as
   free (lease); and as long as its own emulator runs that is the only one at
   its serial: two scenarios drive one emulator only if that of one of them
   exited (consolePort, releasePort). *)
OwnDevice ==
  \A s \in Scenarios : \A d \in Uses(s) :
    /\ ~ closed => d \notin free
    /\ \A t \in Scenarios \ {s} : d \notin Uses(t)
    /\ Running(d) => AtSerial(d) = {d}

(* Once close is over no emulator runs but those an abandoned step has just
   started and is about to stop (close, start). *)
NoneLeft ==
  closed /\ closing = {} =>
    \A d \in Devices : Running(d) =>
      \E s \in abandoned : dev[s] = d /\ pc[s] # "over"

(* No device is lost to the pool: each one it counts is free, or in the hands
   of a scenario that will give it back (release, BeginFails). *)
NoneLost ==
  ~ closed => all = free \cup UNION {Uses(s) : s \in Scenarios}

(* Every scenario that waits for a device gets one or an error, though its
   clock is stopped meanwhile (lease under Scenario.Hold). *)
LeaseReturns ==
  \A s \in Scenarios : pc[s] = "look" ~> pc[s] \in {"using", "over"}
=============================================================================
