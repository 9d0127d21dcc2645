---------------------------- MODULE UpDownProofs ----------------------------
(***************************************************************************)
(* For any number of `axx up` and `axx down`, interrupted, failing and      *)
(* killed anywhere: a supervisor stops only when it is asked to, and what   *)
(* an `axx down` found is stopped, and stays so, when it returns.           *)
(***************************************************************************)
EXTENDS UpDown, TLAPS

\* The places of a supervisor that has written up.json, or is gone.
Late == {"ready", "stopping", "remove up", "remove stop", "gone"}
\* Those in which it looks for up.stop, now or later.
Looking == {"starting", "start done", "writing", "ready"}

\* A supervisor is launched once, by its own command.
LaunchInv ==
  \A u \in Ups : pc[u] \in {"new", "stale", "launch"} => sup[u] = "none"

\* up.json, and so an `axx down`, names only supervisors that have started
\* their services.
FoundInv ==
  /\ upFile \in Ups => sup[upFile] \in Late
  /\ \A d \in Downs : seen[d] # 0 => sup[seen[d]] \in Late

\* An up.stop that is there when a supervisor looks was written for it too.
StopInv == stopFile => \A u \in Ups : sup[u] \in Looking => u \in asked

UpInv == TypeOK /\ LaunchInv /\ FoundInv /\ StopInv /\ NoStaleStop /\ DownStops

-----------------------------------------------------------------------------
LEMMA UpInit == Init => UpInv
<1> SUFFICES ASSUME Init PROVE UpInv
  OBVIOUS
<1>1. TypeOK /\ LaunchInv /\ FoundInv /\ StopInv
  BY UpDownAssumption DEF Init, TypeOK, LaunchInv, FoundInv, StopInv, Looking, Commands, NoFile
<1>2. NoStaleStop /\ DownStops
  BY DEF Init, NoStaleStop, DownStops, Commands
<1> QED
  BY <1>1, <1>2 DEF UpInv

LEMMA liveUpKeeps ==
  ASSUME UpInv, NEW c \in Commands, liveUp(c)
  PROVE  UpInv'
<1> USE UpDownAssumption DEF Commands, NoFile, Partial, files, history
<1>a. TypeOK /\ LaunchInv /\ FoundInv /\ StopInv /\ NoStaleStop /\ DownStops
  BY DEF UpInv
<1>1. TypeOK'
  BY <1>a DEF liveUp, Go, alive, TypeOK
<1>2. LaunchInv' /\ FoundInv'
  BY <1>a DEF liveUp, Go, alive, TypeOK, LaunchInv, FoundInv, Late
<1>3. StopInv' /\ NoStaleStop'
  BY <1>a DEF liveUp, Go, alive, TypeOK, StopInv, NoStaleStop, Looking
<1>4. DownStops'
  BY <1>a DEF liveUp, Go, alive, TypeOK, FoundInv, DownStops, Late
<1> QED
  BY <1>1, <1>2, <1>3, <1>4 DEF UpInv

LEMMA RemoveStaleKeeps ==
  ASSUME UpInv, NEW c \in Commands, RemoveStale(c)
  PROVE  UpInv'
<1> USE UpDownAssumption DEF Commands, NoFile, Partial, files, history
<1>a. TypeOK /\ LaunchInv /\ FoundInv /\ StopInv /\ NoStaleStop /\ DownStops
  BY DEF UpInv
<1>1. TypeOK'
  BY <1>a DEF RemoveStale, Go, RemoveUp, TypeOK
<1>2. LaunchInv' /\ FoundInv'
  BY <1>a DEF RemoveStale, Go, RemoveUp, TypeOK, LaunchInv, FoundInv, Late
<1>3. StopInv' /\ NoStaleStop'
  BY <1>a DEF RemoveStale, Go, RemoveUp, TypeOK, StopInv, NoStaleStop, Looking, alive
<1>4. DownStops'
  BY <1>a DEF RemoveStale, Go, RemoveUp, TypeOK, FoundInv, DownStops, Late
<1> QED
  BY <1>1, <1>2, <1>3, <1>4 DEF UpInv

LEMMA LaunchKeeps ==
  ASSUME UpInv, NEW c \in Commands, Launch(c)
  PROVE  UpInv'
<1> USE UpDownAssumption DEF Commands, NoFile, Partial, files, history
<1>a. TypeOK /\ LaunchInv /\ FoundInv /\ StopInv /\ NoStaleStop /\ DownStops
  BY DEF UpInv
<1>1. TypeOK'
  BY <1>a DEF Launch, Go, SupGo, TypeOK
<1>2. LaunchInv' /\ FoundInv'
  BY <1>a DEF Launch, Go, SupGo, TypeOK, LaunchInv, FoundInv, Late
<1>3. StopInv' /\ NoStaleStop'
  BY <1>a DEF Launch, Go, SupGo, TypeOK, StopInv, NoStaleStop, Looking, alive
<1>4. DownStops'
  BY <1>a DEF Launch, Go, SupGo, TypeOK, FoundInv, DownStops, Late
<1> QED
  BY <1>1, <1>2, <1>3, <1>4 DEF UpInv

LEMMA UpReturnsKeeps ==
  ASSUME UpInv, NEW c \in Commands, UpReturns(c)
  PROVE  UpInv'
<1> USE UpDownAssumption DEF Commands, NoFile, Partial, files, history
<1>a. TypeOK /\ LaunchInv /\ FoundInv /\ StopInv /\ NoStaleStop /\ DownStops
  BY DEF UpInv
<1>1. TypeOK'
  BY <1>a DEF UpReturns, Go, TypeOK
<1>2. LaunchInv' /\ FoundInv'
  BY <1>a DEF UpReturns, Go, TypeOK, LaunchInv, FoundInv, Late
<1>3. StopInv' /\ NoStaleStop'
  BY <1>a DEF UpReturns, Go, TypeOK, StopInv, NoStaleStop, Looking, alive
<1>4. DownStops'
  BY <1>a DEF UpReturns, Go, TypeOK, FoundInv, DownStops, Late
<1> QED
  BY <1>1, <1>2, <1>3, <1>4 DEF UpInv

\* A signal changes what a supervisor does only if that was just launched.
LEMMA DeliverMoves ==
  ASSUME TypeOK, NEW u \in Ups, Deliver(u)
  PROVE  /\ sup' \in [Ups -> {"none", "launched", "begin", "starting", "start done",
                             "writing", "ready", "stopping", "remove up",
                             "remove stop", "gone"}]
         /\ \A v \in Ups : sup'[v] = sup[v] \/ (sup[v] = "launched" /\ sup'[v] = "gone")
         /\ signalled \subseteq signalled' /\ signalled' \subseteq Ups
BY DEF Deliver, TypeOK

\* The step of a command that sends one.
LEMMA DeliverKeeps ==
  ASSUME UpInv, NEW c \in Commands, NEW u \in Ups, Deliver(u),
         UNCHANGED <<signals, seen, files, running, history>>,
         NEW place \in {"waiting", "interrupted"},
         pc' = [pc EXCEPT ![c] = place],
         c \in Downs => pc[c] \in {"signal", "waiting"}
  PROVE  UpInv'
<1> USE UpDownAssumption DEF Commands, files, history
<1>a. TypeOK /\ LaunchInv /\ FoundInv /\ StopInv /\ NoStaleStop /\ DownStops
  BY DEF UpInv
<1>b. /\ sup' \in [Ups -> {"none", "launched", "begin", "starting", "start done",
                          "writing", "ready", "stopping", "remove up",
                          "remove stop", "gone"}]
      /\ \A v \in Ups : sup'[v] = sup[v] \/ (sup[v] = "launched" /\ sup'[v] = "gone")
      /\ signalled \subseteq signalled' /\ signalled' \subseteq Ups
  BY <1>a, DeliverMoves
<1>1. TypeOK'
  BY <1>a, <1>b DEF TypeOK
<1>2. LaunchInv' /\ FoundInv'
  BY <1>a, <1>b DEF TypeOK, LaunchInv, FoundInv, Late
<1>3. StopInv' /\ NoStaleStop'
  BY <1>a, <1>b DEF TypeOK, StopInv, NoStaleStop, Looking
<1>4. DownStops'
  BY <1>a DEF TypeOK, DownStops
<1> QED
  BY <1>1, <1>2, <1>3, <1>4 DEF UpInv

LEMMA InterruptedKeeps ==
  ASSUME UpInv, NEW c \in Commands, Interrupted(c)
  PROVE  UpInv'
<1> USE UpDownAssumption DEF Commands, NoFile, Partial, files, history
<1>a. TypeOK /\ LaunchInv /\ FoundInv /\ StopInv /\ NoStaleStop /\ DownStops
  BY DEF UpInv
<1>1. CASE c \in Ups
  <2>1. /\ Deliver(c) /\ UNCHANGED <<signals, seen, files, running, history>>
        /\ pc' = [pc EXCEPT ![c] = "interrupted"] /\ pc[c] = "waiting"
    BY <1>1 DEF Interrupted, Go
  <2> QED
    BY <1>1, <2>1, DeliverKeeps
<1>2. CASE c \notin Ups
  <2>1. TypeOK'
    BY <1>a, <1>2 DEF Interrupted, Go, TypeOK
  <2>2. LaunchInv' /\ FoundInv'
    BY <1>a, <1>2 DEF Interrupted, Go, TypeOK, LaunchInv, FoundInv, Late
  <2>3. StopInv' /\ NoStaleStop'
    BY <1>a, <1>2 DEF Interrupted, TypeOK, StopInv, NoStaleStop, Looking
  <2>4. DownStops'
    BY <1>a, <1>2 DEF Interrupted, Go, TypeOK, DownStops
  <2> QED
    BY <2>1, <2>2, <2>3, <2>4 DEF UpInv
<1> QED
  BY <1>1, <1>2

LEMMA WriteStopKeeps ==
  ASSUME UpInv, NEW c \in Commands, WriteStop(c)
  PROVE  UpInv'
<1> USE UpDownAssumption DEF Commands, NoFile, Partial, files, history
<1>a. TypeOK /\ LaunchInv /\ FoundInv /\ StopInv /\ NoStaleStop /\ DownStops
  BY DEF UpInv
<1>1. TypeOK'
  BY <1>a DEF WriteStop, Go, alive, TypeOK
<1>2. LaunchInv' /\ FoundInv'
  BY <1>a DEF WriteStop, Go, alive, TypeOK, LaunchInv, FoundInv, Late
<1>3. StopInv' /\ NoStaleStop'
  BY <1>a DEF WriteStop, Go, alive, TypeOK, StopInv, NoStaleStop, Looking
<1>4. DownStops'
  BY <1>a DEF WriteStop, Go, alive, TypeOK, FoundInv, DownStops, Late
<1> QED
  BY <1>1, <1>2, <1>3, <1>4 DEF UpInv

LEMMA signalTermKeeps ==
  ASSUME UpInv, NEW c \in Commands, signalTerm(c)
  PROVE  UpInv'
<1>1. seen[c] \in Ups
  BY DEF UpInv, signalTerm, TypeOK
<1>2. UNCHANGED <<signals, seen, files, running, history>> /\ Deliver(seen[c])
  BY DEF signalTerm
<1>3. pc' = [pc EXCEPT ![c] = "waiting"] /\ pc[c] = "signal" /\ c \in Downs
  BY DEF signalTerm, Go
<1> QED
  BY <1>1, <1>2, <1>3, DeliverKeeps

LEMMA WaitOverKeeps ==
  ASSUME UpInv, NEW c \in Commands, WaitOver(c)
  PROVE  UpInv'
<1> USE UpDownAssumption DEF Commands, NoFile, Partial, files, history
<1>a. TypeOK /\ LaunchInv /\ FoundInv /\ StopInv /\ NoStaleStop /\ DownStops
  BY DEF UpInv
<1>1. TypeOK'
  BY <1>a DEF WaitOver, Go, TypeOK
<1>2. LaunchInv' /\ FoundInv'
  BY <1>a DEF WaitOver, Go, TypeOK, LaunchInv, FoundInv, Late
<1>3. StopInv' /\ NoStaleStop'
  BY <1>a DEF WaitOver, Go, TypeOK, StopInv, NoStaleStop, Looking, alive
<1>4. DownStops'
  BY <1>a DEF WaitOver, Go, TypeOK, FoundInv, DownStops, Late
<1> QED
  BY <1>1, <1>2, <1>3, <1>4 DEF UpInv

LEMMA DownRemovesUpKeeps ==
  ASSUME UpInv, NEW c \in Commands, DownRemovesUp(c)
  PROVE  UpInv'
<1> USE UpDownAssumption DEF Commands, NoFile, Partial, files, history
<1>a. TypeOK /\ LaunchInv /\ FoundInv /\ StopInv /\ NoStaleStop /\ DownStops
  BY DEF UpInv
<1>1. TypeOK'
  BY <1>a DEF DownRemovesUp, Go, RemoveUp, TypeOK
<1>2. LaunchInv' /\ FoundInv'
  BY <1>a DEF DownRemovesUp, Go, RemoveUp, TypeOK, LaunchInv, FoundInv, Late
<1>3. StopInv' /\ NoStaleStop'
  BY <1>a DEF DownRemovesUp, Go, RemoveUp, TypeOK, StopInv, NoStaleStop, Looking, alive
<1>4. DownStops'
  BY <1>a DEF DownRemovesUp, Go, RemoveUp, TypeOK, FoundInv, DownStops, Late
<1> QED
  BY <1>1, <1>2, <1>3, <1>4 DEF UpInv

LEMMA DownRemovesStopKeeps ==
  ASSUME UpInv, NEW c \in Commands, DownRemovesStop(c)
  PROVE  UpInv'
<1> USE UpDownAssumption DEF Commands, NoFile, Partial, files, history
<1>a. TypeOK /\ LaunchInv /\ FoundInv /\ StopInv /\ NoStaleStop /\ DownStops
  BY DEF UpInv
<1>1. TypeOK'
  BY <1>a DEF DownRemovesStop, Go, TypeOK
<1>2. LaunchInv' /\ FoundInv'
  BY <1>a DEF DownRemovesStop, Go, TypeOK, LaunchInv, FoundInv, Late
<1>3. StopInv' /\ NoStaleStop'
  BY <1>a DEF DownRemovesStop, Go, TypeOK, StopInv, NoStaleStop, Looking, alive
<1>4. DownStops'
  BY <1>a DEF DownRemovesStop, Go, TypeOK, FoundInv, DownStops, Late
<1> QED
  BY <1>1, <1>2, <1>3, <1>4 DEF UpInv

LEMMA ReapKeeps ==
  ASSUME UpInv, NEW c \in Commands, Reap(c)
  PROVE  UpInv'
<1> USE UpDownAssumption DEF Commands, NoFile, Partial, files, history
<1>a. TypeOK /\ LaunchInv /\ FoundInv /\ StopInv /\ NoStaleStop /\ DownStops
  BY DEF UpInv
<1>1. TypeOK'
  BY <1>a DEF Reap, Go, TypeOK
<1>2. LaunchInv' /\ FoundInv'
  BY <1>a DEF Reap, Go, TypeOK, LaunchInv, FoundInv, Late
<1>3. StopInv' /\ NoStaleStop'
  BY <1>a DEF Reap, Go, TypeOK, StopInv, NoStaleStop, Looking, alive
<1>4. DownStops'
  BY <1>a DEF Reap, Go, TypeOK, FoundInv, DownStops, Late
<1> QED
  BY <1>1, <1>2, <1>3, <1>4 DEF UpInv

LEMMA MainKeeps ==
  ASSUME UpInv, NEW u \in Ups, Main(u)
  PROVE  UpInv'
<1> USE UpDownAssumption DEF Commands, NoFile, Partial, files, history
<1>a. TypeOK /\ LaunchInv /\ FoundInv /\ StopInv /\ NoStaleStop /\ DownStops
  BY DEF UpInv
<1>1. TypeOK'
  BY <1>a DEF Main, SupGo, TypeOK
<1>2. LaunchInv' /\ FoundInv'
  BY <1>a DEF Main, SupGo, TypeOK, LaunchInv, FoundInv, Late
<1>3. StopInv' /\ NoStaleStop'
  BY <1>a DEF Main, SupGo, TypeOK, StopInv, NoStaleStop, Looking, alive
<1>4. DownStops'
  BY <1>a DEF Main, SupGo, TypeOK, FoundInv, DownStops, Late
<1> QED
  BY <1>1, <1>2, <1>3, <1>4 DEF UpInv

LEMMA BeginKeeps ==
  ASSUME UpInv, NEW u \in Ups, Begin(u)
  PROVE  UpInv'
<1> USE UpDownAssumption DEF Commands, NoFile, Partial, files, history
<1>a. TypeOK /\ LaunchInv /\ FoundInv /\ StopInv /\ NoStaleStop /\ DownStops
  BY DEF UpInv
<1>1. TypeOK'
  BY <1>a DEF Begin, SupGo, TypeOK
<1>2. LaunchInv' /\ FoundInv'
  BY <1>a DEF Begin, SupGo, TypeOK, LaunchInv, FoundInv, Late
<1>3. StopInv' /\ NoStaleStop'
  BY <1>a DEF Begin, SupGo, TypeOK, StopInv, NoStaleStop, Looking, alive
<1>4. DownStops'
  BY <1>a DEF Begin, SupGo, TypeOK, FoundInv, DownStops, Late
<1> QED
  BY <1>1, <1>2, <1>3, <1>4 DEF UpInv

LEMMA StartedKeeps ==
  ASSUME UpInv, NEW u \in Ups, Started(u)
  PROVE  UpInv'
<1> USE UpDownAssumption DEF Commands, NoFile, Partial, files, history
<1>a. TypeOK /\ LaunchInv /\ FoundInv /\ StopInv /\ NoStaleStop /\ DownStops
  BY DEF UpInv
<1>1. TypeOK'
  BY <1>a DEF Started, SupGo, TypeOK
<1>2. LaunchInv' /\ FoundInv'
  BY <1>a DEF Started, SupGo, TypeOK, LaunchInv, FoundInv, Late
<1>3. StopInv' /\ NoStaleStop'
  BY <1>a DEF Started, SupGo, TypeOK, StopInv, NoStaleStop, Looking, alive
<1>4. DownStops'
  BY <1>a DEF Started, SupGo, TypeOK, FoundInv, DownStops, Late
<1> QED
  BY <1>1, <1>2, <1>3, <1>4 DEF UpInv

LEMMA TruncateKeeps ==
  ASSUME UpInv, NEW u \in Ups, Truncate(u)
  PROVE  UpInv'
<1> USE UpDownAssumption DEF Commands, NoFile, Partial, files, history
<1>a. TypeOK /\ LaunchInv /\ FoundInv /\ StopInv /\ NoStaleStop /\ DownStops
  BY DEF UpInv
<1>b. upFile' = Partial /\ Partial # NoFile /\ Partial \notin Ups
  <2>1. upFile' = Partial
    BY DEF Truncate
  <2>2. Partial \notin Nat /\ Ups \subseteq Nat
    OBVIOUS
  <2> QED BY <2>1, <2>2
<1>c. sup' = [sup EXCEPT ![u] = "writing"] /\ linked' = linked \cup {u}
  BY DEF Truncate, SupGo
<1>1. TypeOK'
  <2> HIDE DEF NoFile, Partial
  <2> QED BY <1>a, <1>b, <1>c DEF Truncate, TypeOK
<1>2. LaunchInv' /\ FoundInv'
  <2> HIDE DEF NoFile, Partial
  <2>1. sup[u] = "start done"
    BY DEF Truncate
  <2> QED BY <1>a, <1>b, <1>c, <2>1 DEF Truncate, TypeOK, LaunchInv, FoundInv, Late
<1>3. StopInv' /\ NoStaleStop'
  BY <1>a DEF Truncate, SupGo, TypeOK, StopInv, NoStaleStop, Looking, alive
<1>4. DownStops'
  BY <1>a DEF Truncate, SupGo, TypeOK, FoundInv, DownStops, Late
<1> QED
  BY <1>1, <1>2, <1>3, <1>4 DEF UpInv

LEMMA WriteKeeps ==
  ASSUME UpInv, NEW u \in Ups, Write(u)
  PROVE  UpInv'
<1> USE UpDownAssumption DEF Commands, NoFile, Partial, files, history
<1>a. TypeOK /\ LaunchInv /\ FoundInv /\ StopInv /\ NoStaleStop /\ DownStops
  BY DEF UpInv
<1>1. TypeOK'
  BY <1>a DEF Write, SupGo, TypeOK
<1>2. LaunchInv' /\ FoundInv'
  BY <1>a DEF Write, SupGo, TypeOK, LaunchInv, FoundInv, Late
<1>3. StopInv' /\ NoStaleStop'
  BY <1>a DEF Write, SupGo, TypeOK, StopInv, NoStaleStop, Looking, alive
<1>4. DownStops'
  BY <1>a DEF Write, SupGo, TypeOK, FoundInv, DownStops, Late
<1> QED
  BY <1>1, <1>2, <1>3, <1>4 DEF UpInv

LEMMA WaitKeeps ==
  ASSUME UpInv, NEW u \in Ups, Wait(u)
  PROVE  UpInv'
<1> USE UpDownAssumption DEF Commands, NoFile, Partial, files, history
<1>a. TypeOK /\ LaunchInv /\ FoundInv /\ StopInv /\ NoStaleStop /\ DownStops
  BY DEF UpInv
<1>1. TypeOK'
  BY <1>a DEF Wait, SupGo, TypeOK
<1>2. LaunchInv' /\ FoundInv'
  BY <1>a DEF Wait, SupGo, TypeOK, LaunchInv, FoundInv, Late
<1>3. StopInv' /\ NoStaleStop'
  BY <1>a DEF Wait, SupGo, TypeOK, StopInv, NoStaleStop, Looking, alive
<1>4. DownStops'
  BY <1>a DEF Wait, SupGo, TypeOK, FoundInv, DownStops, Late
<1> QED
  BY <1>1, <1>2, <1>3, <1>4 DEF UpInv

LEMMA StopServicesKeeps ==
  ASSUME UpInv, NEW u \in Ups, StopServices(u)
  PROVE  UpInv'
<1> USE UpDownAssumption DEF Commands, NoFile, Partial, files, history
<1>a. TypeOK /\ LaunchInv /\ FoundInv /\ StopInv /\ NoStaleStop /\ DownStops
  BY DEF UpInv
<1>1. TypeOK'
  BY <1>a DEF StopServices, SupGo, TypeOK
<1>2. LaunchInv' /\ FoundInv'
  BY <1>a DEF StopServices, SupGo, TypeOK, LaunchInv, FoundInv, Late
<1>3. StopInv' /\ NoStaleStop'
  BY <1>a DEF StopServices, SupGo, TypeOK, StopInv, NoStaleStop, Looking, alive
<1>4. DownStops'
  BY <1>a DEF StopServices, SupGo, TypeOK, FoundInv, DownStops, Late
<1> QED
  BY <1>1, <1>2, <1>3, <1>4 DEF UpInv

LEMMA SupRemovesUpKeeps ==
  ASSUME UpInv, NEW u \in Ups, SupRemovesUp(u)
  PROVE  UpInv'
<1> USE UpDownAssumption DEF Commands, NoFile, Partial, files, history
<1>a. TypeOK /\ LaunchInv /\ FoundInv /\ StopInv /\ NoStaleStop /\ DownStops
  BY DEF UpInv
<1>1. TypeOK'
  BY <1>a DEF SupRemovesUp, SupGo, RemoveUp, TypeOK
<1>2. LaunchInv' /\ FoundInv'
  BY <1>a DEF SupRemovesUp, SupGo, RemoveUp, TypeOK, LaunchInv, FoundInv, Late
<1>3. StopInv' /\ NoStaleStop'
  BY <1>a DEF SupRemovesUp, SupGo, RemoveUp, TypeOK, StopInv, NoStaleStop, Looking, alive
<1>4. DownStops'
  BY <1>a DEF SupRemovesUp, SupGo, RemoveUp, TypeOK, FoundInv, DownStops, Late
<1> QED
  BY <1>1, <1>2, <1>3, <1>4 DEF UpInv

LEMMA SupRemovesStopKeeps ==
  ASSUME UpInv, NEW u \in Ups, SupRemovesStop(u)
  PROVE  UpInv'
<1> USE UpDownAssumption DEF Commands, NoFile, Partial, files, history
<1>a. TypeOK /\ LaunchInv /\ FoundInv /\ StopInv /\ NoStaleStop /\ DownStops
  BY DEF UpInv
<1>1. TypeOK'
  BY <1>a DEF SupRemovesStop, SupGo, TypeOK
<1>2. LaunchInv' /\ FoundInv'
  BY <1>a DEF SupRemovesStop, SupGo, TypeOK, LaunchInv, FoundInv, Late
<1>3. StopInv' /\ NoStaleStop'
  BY <1>a DEF SupRemovesStop, SupGo, TypeOK, StopInv, NoStaleStop, Looking, alive
<1>4. DownStops'
  BY <1>a DEF SupRemovesStop, SupGo, TypeOK, FoundInv, DownStops, Late
<1> QED
  BY <1>1, <1>2, <1>3, <1>4 DEF UpInv

LEMMA SupFailsKeeps ==
  ASSUME UpInv, NEW u \in Ups, SupFails(u)
  PROVE  UpInv'
<1> USE UpDownAssumption DEF Commands, NoFile, Partial, files, history
<1>a. TypeOK /\ LaunchInv /\ FoundInv /\ StopInv /\ NoStaleStop /\ DownStops
  BY DEF UpInv
<1>1. TypeOK'
  BY <1>a DEF SupFails, SupGo, TypeOK
<1>2. LaunchInv' /\ FoundInv'
  BY <1>a DEF SupFails, SupGo, TypeOK, LaunchInv, FoundInv, Late
<1>3. StopInv' /\ NoStaleStop'
  BY <1>a DEF SupFails, SupGo, TypeOK, StopInv, NoStaleStop, Looking, alive
<1>4. DownStops'
  BY <1>a DEF SupFails, SupGo, TypeOK, FoundInv, DownStops, Late
<1> QED
  BY <1>1, <1>2, <1>3, <1>4 DEF UpInv

LEMMA KilledKeeps ==
  ASSUME UpInv, NEW u \in Ups, Killed(u)
  PROVE  UpInv'
<1> USE UpDownAssumption DEF Commands, NoFile, Partial, files, history
<1>a. TypeOK /\ LaunchInv /\ FoundInv /\ StopInv /\ NoStaleStop /\ DownStops
  BY DEF UpInv
<1>1. TypeOK'
  BY <1>a DEF Killed, SupGo, alive, TypeOK
<1>2. LaunchInv' /\ FoundInv'
  BY <1>a DEF Killed, SupGo, alive, TypeOK, LaunchInv, FoundInv, Late
<1>3. StopInv' /\ NoStaleStop'
  BY <1>a DEF Killed, SupGo, alive, TypeOK, StopInv, NoStaleStop, Looking
<1>4. DownStops'
  BY <1>a DEF Killed, SupGo, alive, TypeOK, FoundInv, DownStops, Late
<1> QED
  BY <1>1, <1>2, <1>3, <1>4 DEF UpInv

LEMMA ServicesExitKeeps ==
  ASSUME UpInv, NEW u \in Ups, ServicesExit(u)
  PROVE  UpInv'
<1> USE UpDownAssumption DEF Commands, NoFile, Partial, files, history
<1>a. TypeOK /\ LaunchInv /\ FoundInv /\ StopInv /\ NoStaleStop /\ DownStops
  BY DEF UpInv
<1>1. TypeOK'
  BY <1>a DEF ServicesExit, SupGo, TypeOK
<1>2. LaunchInv' /\ FoundInv'
  BY <1>a DEF ServicesExit, SupGo, TypeOK, LaunchInv, FoundInv, Late
<1>3. StopInv' /\ NoStaleStop'
  BY <1>a DEF ServicesExit, SupGo, TypeOK, StopInv, NoStaleStop, Looking, alive
<1>4. DownStops'
  BY <1>a DEF ServicesExit, SupGo, TypeOK, FoundInv, DownStops, Late
<1> QED
  BY <1>1, <1>2, <1>3, <1>4 DEF UpInv

LEMMA UpStep == UpInv /\ [Next]_vars => UpInv'
<1> SUFFICES ASSUME UpInv, [Next]_vars PROVE UpInv'
  OBVIOUS
<1>1. ASSUME NEW c \in Commands, Command(c) PROVE UpInv'
  BY <1>1, liveUpKeeps, RemoveStaleKeeps, LaunchKeeps, UpReturnsKeeps,
     WriteStopKeeps, signalTermKeeps, WaitOverKeeps, DownRemovesUpKeeps, DownRemovesStopKeeps, ReapKeeps DEF Command
<1>2. ASSUME NEW c \in Commands, Interrupted(c) PROVE UpInv'
  BY <1>2, InterruptedKeeps
<1>3. ASSUME NEW u \in Ups, Supervise(u) PROVE UpInv'
  BY <1>3, MainKeeps, BeginKeeps, StartedKeeps, TruncateKeeps, WriteKeeps, WaitKeeps,
     StopServicesKeeps, SupRemovesUpKeeps, SupRemovesStopKeeps DEF Supervise
<1>4. ASSUME NEW u \in Ups, SupFails(u) \/ Killed(u) \/ ServicesExit(u) PROVE UpInv'
  BY <1>4, SupFailsKeeps, KilledKeeps, ServicesExitKeeps
<1>5. CASE UNCHANGED vars
  BY <1>5 DEF UpInv, TypeOK, LaunchInv, FoundInv, StopInv, NoStaleStop, DownStops,
              vars, files, history
<1> QED
  BY <1>1, <1>2, <1>3, <1>4, <1>5 DEF Next

\* The commands and supervisors of up.go keep UpInv.
THEOREM UpInvariant == Spec => []UpInv
BY UpInit, UpStep, PTL DEF Spec

-----------------------------------------------------------------------------
\* The commands and supervisors of up.go keep the types of what they share.
THEOREM UpTypeCorrect == Spec => []TypeOK
<1>1. UpInv => TypeOK
  BY DEF UpInv
<1> QED
  BY <1>1, UpInvariant, PTL

\* However many `axx up` and `axx down` interleave: a supervisor leaves its wait
\* loop only for a signal or for an up.stop written since it was launched.
THEOREM UpStopsWhenAsked == Spec => []NoStaleStop
<1>1. UpInv => NoStaleStop
  BY DEF UpInv
<1> QED
  BY <1>1, UpInvariant, PTL

\* However many interleave, and whoever is killed: the services of the
\* supervisor an `axx down` found do not run when it has returned, then or later.
THEOREM DownStopsFound == Spec => []DownStops
<1>1. UpInv => DownStops
  BY DEF UpInv
<1> QED
  BY <1>1, UpInvariant, PTL
=============================================================================
