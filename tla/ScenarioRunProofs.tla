-------------------------- MODULE ScenarioRunProofs --------------------------
(***************************************************************************)
(* What runScenario promises of one scenario, for any number of hooks and   *)
(* steps, whatever the calls return, how many of them are abandoned, and    *)
(* when the abandoned code registers closers or uses a state key.           *)
(***************************************************************************)
EXTENDS ScenarioRun, SequenceTheorems, TLAPS

\* What step and hook code is called as.
Code == Roles \ {"close"}

\* The call runScenario waits for is one of the result at hand.
LiveInv ==
  \/ live = NoCall
  \/ live = <<Cleanup, "close">> /\ at = Cleanup
  \/ /\ live \in called /\ live[1] = at /\ ~dryRun
     /\ \/ live[2] = "hook" /\ IsBefore(at) /\ ~failed
        \/ live[2] = "hook" /\ IsAfter(at)
        \/ /\ live[2] \in {"beforeStep", "run", "afterStep"} /\ IsStep(at) /\ ~failed
           /\ match[at] \in {"badArguments", "ok"}

\* What was called, and that a step's AfterStep hooks come while it is at hand.
CalledInv ==
  /\ called \subseteq Hooked \X Code
  /\ \A i \in Hooked :
       <<i, "beforeStep">> \in called /\ <<i, "afterStep">> \notin called
         => live = <<i, "beforeStep">> \/ live = <<i, "run">>
  /\ ~dryRun => \A i \in Hooked : IsAfter(i) /\ i < at => <<i, "hook">> \in called

\* The results so far have their status, and passed unless failed says so.
StatusInv ==
  /\ \A i \in Hooked : i < at => status[i] \in Passed..Failed
  /\ \A i \in Results : i >= at => status[i] = NoStatus
  /\ at <= NBefore + NSteps + 1 /\ ~failed /\ ~dryRun
       => \A i \in 1..(at - 1) : status[i] = Passed

\* Abandoned code has failed its result, or is about to.
AbandonedInv ==
  /\ abandoned \subseteq called
  /\ \A c \in abandoned :
       \/ c[1] < at /\ status[c[1]] # Passed
       \/ c[1] = at /\ live = <<at, "afterStep">> /\ err # "nil"
  /\ \A c \in making : Running(c)

\* After Close only abandoned code registers closers.
CloseInv ==
  /\ live = <<Cleanup, "close">> \/ Over =>
       \A c \in Range(closers) : c[1] \in Hooked /\ status[c[1]] # Passed
  /\ Over => /\ cleaned = Range(taken) /\ outcome = worst(status)
             /\ closeErr => status[Cleanup] = Failed

ScenarioInv ==
  /\ TypeOK /\ LiveInv /\ CalledInv /\ StatusInv /\ AbandonedInv /\ CloseInv /\ OneState

-----------------------------------------------------------------------------
(* Numbers, calls and sequences *)

LEMMA Numbers ==
  /\ NBefore \in Nat /\ NSteps \in Nat /\ NAfter \in Nat
  /\ Cleanup \in Nat /\ Cleanup \in Results /\ Cleanup \notin Hooked
  /\ Hooked \subseteq Results /\ Hooked \subseteq Nat /\ Results \subseteq Nat
  /\ Cleanup >= 1 /\ \A i \in Hooked : i < Cleanup /\ i >= 1
BY ScenarioAssumption DEF Cleanup, Hooked, Results

\* A result is of one kind.
LEMMA Kinds ==
  ASSUME NEW i \in 1..(Cleanup + 1)
  PROVE  /\ i \in Nat
         /\ IsBefore(i) \/ IsStep(i) \/ IsAfter(i) <=> i \in Hooked
         /\ IsBefore(i) => ~ IsStep(i) /\ ~ IsAfter(i)
         /\ IsStep(i) => ~ IsAfter(i)
         /\ i \in Hooked => i + 1 \in 1..(Cleanup + 1) /\ i < Cleanup
         /\ IsBefore(i) \/ IsStep(i) <=> i <= NBefore + NSteps
BY ScenarioAssumption DEF Cleanup, Hooked, IsBefore, IsStep, IsAfter

LEMMA CallsAre ==
  /\ NoCall \notin Calls /\ NoCall[1] = 0 /\ NoCall[2] = "hook"
  /\ Closing \subseteq Hooked \X Code /\ Keyed \subseteq Closing
  /\ Hooked \X Code \subseteq Calls
  /\ <<Cleanup, "close">> \in Calls /\ <<Cleanup, "close">> \notin Hooked \X Code
  /\ NoCall # <<Cleanup, "close">>
<1>1. 0 \notin Results /\ Cleanup # 0 /\ Hooked \subseteq Results /\ Cleanup \in Results
      /\ Cleanup \notin Hooked
  BY ScenarioAssumption DEF Results, Hooked, Cleanup
<1> QED
  BY <1>1, ScenarioAssumption DEF NoCall, Calls, Code, Roles

LEMMA LiveIs ==
  ASSUME LiveInv, CalledInv
  PROVE  /\ \A c \in called : c[1] \in Hooked /\ c[2] \in Code /\ c = <<c[1], c[2]>>
         /\ live \in called =>
              /\ live[1] = at /\ at \in Hooked /\ ~dryRun
              /\ \/ live[2] = "hook" /\ IsBefore(at) /\ ~failed
                 \/ live[2] = "hook" /\ IsAfter(at)
                 \/ /\ live[2] \in {"beforeStep", "run", "afterStep"} /\ IsStep(at) /\ ~failed
                    /\ match[at] \in {"badArguments", "ok"}
         /\ live \notin called => live = NoCall \/ live = <<Cleanup, "close">>
<1>1. \A c \in called : c[1] \in Hooked /\ c[2] \in Code /\ c = <<c[1], c[2]>>
  BY DEF CalledInv
<1>2. NoCall \notin called /\ <<Cleanup, "close">> \notin called
  BY CallsAre DEF CalledInv
<1> QED
  BY <1>1, <1>2 DEF LiveInv

LEMMA AppendRange ==
  ASSUME NEW S, NEW q \in Seq(S), NEW c \in S
  PROVE  Append(q, c) \in Seq(S) /\ Range(Append(q, c)) = Range(q) \cup {c}
<1>1. Append(q, c) \in Seq(S)
  BY AppendProperties
<1>2. \A x : x \in Range(Append(q, c)) <=> x \in Range(q) \/ x = c
  BY AppendProperties, LenProperties DEF Range
<1> QED
  BY <1>1, <1>2

LEMMA ReverseRange ==
  ASSUME NEW S, NEW q \in Seq(S)
  PROVE  Reverse(q) \in Seq(S) /\ Range(Reverse(q)) = Range(q)
<1>1. /\ Len(q) \in Nat /\ DOMAIN q = 1..Len(q)
      /\ Reverse(q) = [i \in 1..Len(q) |-> q[Len(q) - i + 1]]
  BY LenProperties DEF Reverse
<1>2. \A i \in 1..Len(q) : Len(q) - i + 1 \in 1..Len(q) /\ q[i] \in S
  BY <1>1, ElementOfSeq
<1>3. Reverse(q) \in Seq(S)
  BY <1>1, <1>2, SeqDef
<1>4. \A i \in 1..Len(q) : q[i] \in Range(Reverse(q))
  <2> TAKE i \in 1..Len(q)
  <2> DEFINE j == Len(q) - i + 1
  <2>1. j \in 1..Len(q) /\ Len(q) - j + 1 = i
    BY <1>1
  <2> HIDE DEF j
  <2>2. Reverse(q)[j] = q[i] /\ j \in DOMAIN Reverse(q)
    BY <1>1, <2>1
  <2> QED
    BY <2>2 DEF Range
<1>5. \A i \in 1..Len(q) : Reverse(q)[i] \in Range(q)
  BY <1>1, <1>2 DEF Range
<1> QED
  BY <1>1, <1>3, <1>4, <1>5 DEF Range

\* worst is the worst of the results' statuses.
LEMMA WorstIs ==
  ASSUME NEW st \in [Results -> Statuses]
  PROVE  worst(st) \in Passed..Failed /\ \A i \in Results : st[i] <= worst(st)
<1> DEFINE Is(s) == s = Passed \/ \E i \in Results : st[i] = s
           Worse(s) == \E i \in Results : st[i] > s
<1>1. \A i \in Results : st[i] \in -1..5
  BY DEF Statuses, NoStatus, Failed
<1>2. \A s \in 0..5 : Worse(s) => \E r \in (s + 1)..5 : Is(r)
  BY <1>1
<1>3. \A s \in 0..5 : ~ Worse(s) => \A i \in Results : st[i] <= s
  BY <1>1
<1>4. Is(0) /\ ~ Worse(5)
  BY <1>1 DEF Passed
<1> HIDE DEF Is, Worse
<1>5. \E s \in 0..5 : Is(s) /\ ~ Worse(s)
  <2>1. \/ Is(5) \/ (Is(4) /\ ~ Is(5)) \/ (Is(3) /\ ~ Is(4) /\ ~ Is(5))
        \/ (Is(2) /\ ~ Is(3) /\ ~ Is(4) /\ ~ Is(5))
        \/ (Is(1) /\ ~ Is(2) /\ ~ Is(3) /\ ~ Is(4) /\ ~ Is(5))
        \/ (Is(0) /\ ~ Is(1) /\ ~ Is(2) /\ ~ Is(3) /\ ~ Is(4) /\ ~ Is(5))
    BY <1>4
  <2> QED
    BY <1>2, <1>4, <2>1
<1>6. \E s \in Passed..Failed :
         /\ s = Passed \/ \E i \in Results : st[i] = s
         /\ \A i \in Results : st[i] <= s
  BY <1>3, <1>5 DEF Is, Passed, Failed
<1> QED
  BY <1>6 DEF worst

LEMMA StatusOfIs ==
  ASSUME NEW e \in Errors
  PROVE  statusOf(e) \in Passed..Failed /\ (statusOf(e) = Passed <=> e = "nil")
BY DEF Errors, statusOf, Passed, Pending, Skipped, Failed

LEMMA ScenarioInit == Init => ScenarioInv
<1> SUFFICES ASSUME Init PROVE ScenarioInv
  OBVIOUS
<1>1. TypeOK
  <2>1. 1 \in 1..(Cleanup + 1) /\ NoStatus \in Statuses /\ "nil" \in Errors
    BY Numbers DEF Statuses, NoStatus, Failed, Errors
  <2>2. <<>> \in Seq(Closing) /\ match \in [Results -> Matches]
    BY EmptySeq DEF Init
  <2> QED
    BY <2>1, <2>2 DEF Init, TypeOK
<1>2. LiveInv /\ CalledInv /\ AbandonedInv
  BY Numbers DEF Init, LiveInv, CalledInv, AbandonedInv
<1>3. StatusInv
  BY Numbers DEF Init, StatusInv
<1>4. live # <<Cleanup, "close">> /\ ~ Over
  BY Numbers, CallsAre DEF Init, Over
<1>5. Range(closers) = {} /\ Range(taken) = {}
  BY DEF Init, Range
<1> QED
  BY <1>1, <1>2, <1>3, <1>4, <1>5 DEF ScenarioInv, CloseInv, OneState, Init

-----------------------------------------------------------------------------
(* runScenario goes on to the next result, or makes a call *)

\* settle, and what it needs: a status that tells of abandoned code, and no
\* hook left out.
Settles(s) ==
  /\ at \in Hooked /\ s \in Passed..Failed /\ settle(s)
  /\ err' \in Errors
  /\ abandoned' = abandoned \/ (abandoned' = abandoned \cup {live} /\ live \in called)
  /\ \A c \in abandoned' : c[1] = at => s # Passed
  /\ live \in making => live \in abandoned'
  /\ <<at, "beforeStep">> \in called => <<at, "afterStep">> \in called
  /\ IsAfter(at) /\ ~dryRun => <<at, "hook">> \in called
  /\ live # <<Cleanup, "close">>
  /\ UNCHANGED <<dryRun, match, state, making, got, closers, taken, cleaned, closeErr,
                 called, outcome>>

LEMMA SettlesKeeps ==
  ASSUME ScenarioInv, NEW s, Settles(s)
  PROVE  ScenarioInv'
<1>a. TypeOK /\ LiveInv /\ CalledInv /\ StatusInv /\ AbandonedInv /\ CloseInv /\ OneState
  BY DEF ScenarioInv
<1>b. /\ at \in Hooked /\ s \in Passed..Failed /\ at' = at + 1 /\ live' = NoCall
      /\ status' = [status EXCEPT ![at] = s]
      /\ failed' = (failed \/ (s # Passed /\ matters))
      /\ UNCHANGED <<dryRun, match, state, making, got, closers, taken, cleaned, closeErr,
                     called, outcome>>
  BY DEF Settles, settle
<1>c. /\ at \in 1..(Cleanup + 1) /\ at + 1 \in 1..(Cleanup + 1) /\ at < Cleanup
      /\ at \in Results /\ s \in Statuses /\ at \in Nat
  BY <1>b, Numbers, Kinds DEF TypeOK, Statuses, Passed, NoStatus, Failed
<1>d. status'[at] = s /\ \A i \in Results \ {at} : status'[i] = status[i]
  BY <1>a, <1>b, <1>c DEF TypeOK
<1>1. TypeOK'
  <2>1. abandoned' \in SUBSET Calls /\ err' \in Errors
    BY <1>a, CallsAre DEF Settles, TypeOK, CalledInv
  <2>2. failed' \in BOOLEAN /\ status' \in [Results -> Statuses]
    BY <1>a, <1>b, <1>c DEF TypeOK
  <2> QED
    BY <1>a, <1>b, <1>c, <2>1, <2>2 DEF TypeOK
<1>2. LiveInv'
  BY <1>b DEF LiveInv
<1>3. CalledInv'
  <2>1. \A i \in Hooked : <<i, "beforeStep">> \in called => <<i, "afterStep">> \in called
    <3> SUFFICES ASSUME NEW i \in Hooked, <<i, "beforeStep">> \in called,
                        <<i, "afterStep">> \notin called
                 PROVE  FALSE
      OBVIOUS
    <3>1. live = <<i, "beforeStep">> \/ live = <<i, "run">>
      BY <1>a DEF CalledInv
    <3>2. i = at
      BY <1>a, <3>1, Numbers DEF LiveInv, NoCall
    <3> QED
      BY <3>2 DEF Settles
  <2>2. ~dryRun => \A i \in Hooked : IsAfter(i) /\ i < at + 1 => <<i, "hook">> \in called
    BY <1>a, <1>c, Numbers DEF CalledInv, Settles
  <2> QED
    BY <1>a, <1>b, <2>1, <2>2 DEF CalledInv
<1>4. StatusInv'
  <2>1. \A i \in Hooked : i < at + 1 => status'[i] \in Passed..Failed
    BY <1>a, <1>b, <1>c, <1>d, Numbers DEF StatusInv
  <2>2. \A i \in Results : i >= at + 1 => status'[i] = NoStatus
    BY <1>a, <1>c, <1>d, Numbers DEF StatusInv
  <2>3. ASSUME at + 1 <= NBefore + NSteps + 1, ~ failed', ~ dryRun
        PROVE  \A i \in 1..at : status'[i] = Passed
    <3>1. matters
      BY <1>c, <2>3, Kinds, Numbers DEF matters
    <3>2. s = Passed /\ ~ failed
      BY <1>a, <1>b, <2>3, <3>1 DEF TypeOK
    <3>3. \A i \in 1..(at - 1) : status[i] = Passed
      BY <1>a, <1>c, <2>3, <3>2, Numbers DEF StatusInv
    <3>4. \A i \in 1..(at - 1) : i \in Results \ {at}
      BY <1>c, Numbers DEF Results
    <3> QED
      BY <1>c, <1>d, <3>2, <3>3, <3>4
  <2> QED
    BY <1>b, <1>c, <2>1, <2>2, <2>3 DEF StatusInv
<1>5. AbandonedInv'
  <2>1. abandoned \subseteq called /\ abandoned' \subseteq called
    BY <1>a DEF AbandonedInv, Settles
  <2>2. \A c \in abandoned' : \/ c \in abandoned /\ c[1] < at /\ status[c[1]] # Passed
                              \/ c[1] = at
    BY <1>a, LiveIs DEF AbandonedInv, Settles
  <2>3. \A c \in abandoned' : c[1] \in Hooked /\ (c[1] = at => s # Passed)
    BY <1>a, <2>1, LiveIs DEF Settles
  <2>4. \A c \in abandoned' : c[1] < at + 1 /\ status'[c[1]] # Passed
    <3> SUFFICES ASSUME NEW c \in abandoned' PROVE c[1] < at + 1 /\ status'[c[1]] # Passed
      OBVIOUS
    <3> DEFINE i == c[1]
    <3>1. i \in Hooked /\ i \in Results /\ i \in Nat
      BY <2>3, Numbers
    <3>2. (i < at /\ status[i] # Passed) \/ (i = at /\ s # Passed)
      BY <2>2, <2>3
    <3> HIDE DEF i
    <3>3. i < at + 1 /\ status'[i] # Passed
      BY <1>c, <1>d, <3>1, <3>2
    <3> QED
      BY <3>3 DEF i
  <2>5. \A c \in making : c \in abandoned'
    BY <1>a DEF AbandonedInv, Running, Settles
  <2> QED
    BY <1>b, <2>1, <2>4, <2>5 DEF AbandonedInv, Running
<1>6. CloseInv'
  BY <1>b, <1>c, Numbers, CallsAre DEF CloseInv, Over
<1>7. OneState'
  BY <1>a, <1>b DEF OneState
<1> QED
  BY <1>1, <1>2, <1>3, <1>4, <1>5, <1>6, <1>7 DEF ScenarioInv

\* A call of the result at hand.
Makes(role) ==
  /\ at \in Hooked /\ role \in Code /\ call(role) /\ ~dryRun
  /\ \/ role = "hook" /\ IsBefore(at) /\ ~failed
     \/ role = "hook" /\ IsAfter(at)
     \/ /\ role \in {"beforeStep", "run", "afterStep"} /\ IsStep(at) /\ ~failed
        /\ match[at] \in {"badArguments", "ok"}
  /\ err' \in Errors
  /\ abandoned' = abandoned \/ (abandoned' = abandoned \cup {live} /\ live \in called)
  /\ \A c \in abandoned' : c[1] = at => role = "afterStep" /\ err' # "nil"
  /\ live \in making => live \in abandoned'
  /\ live[2] = "beforeStep" => role # "beforeStep"
  /\ live[2] = "run" => role = "afterStep"
  /\ live # <<Cleanup, "close">>
  /\ UNCHANGED <<dryRun, match, at, failed, status, state, making, got, closers, taken,
                 cleaned, closeErr, outcome>>

LEMMA MakesKeeps ==
  ASSUME ScenarioInv, NEW role, Makes(role)
  PROVE  ScenarioInv'
<1>a. TypeOK /\ LiveInv /\ CalledInv /\ StatusInv /\ AbandonedInv /\ CloseInv /\ OneState
  BY DEF ScenarioInv
<1>b. /\ at \in Hooked /\ role \in Code /\ live' = <<at, role>>
      /\ called' = called \cup {<<at, role>>}
      /\ UNCHANGED <<dryRun, match, at, failed, status, state, making, got, closers, taken,
                     cleaned, closeErr, outcome>>
  BY DEF Makes, call
<1>c. <<at, role>> \in Hooked \X Code /\ <<at, role>> \in Calls
  BY <1>b, CallsAre
<1>1. TypeOK'
  <2>1. abandoned' \in SUBSET Calls /\ err' \in Errors
    BY <1>a, CallsAre DEF Makes, TypeOK, CalledInv
  <2> QED
    BY <1>a, <1>b, <1>c, <2>1 DEF TypeOK
<1>2. LiveInv'
  BY <1>b DEF LiveInv, Makes, IsBefore, IsStep, IsAfter
<1>3. CalledInv'
  <2>1. ASSUME NEW i \in Hooked, <<i, "beforeStep">> \in called', <<i, "afterStep">> \notin called'
        PROVE  live' = <<i, "beforeStep">> \/ live' = <<i, "run">>
    <3>1. CASE <<i, "beforeStep">> \in called
      <4>1. live = <<i, "beforeStep">> \/ live = <<i, "run">>
        BY <1>a, <1>b, <2>1, <3>1 DEF CalledInv
      <4>2. i = at
        BY <1>a, <4>1, Numbers DEF LiveInv, NoCall
      <4>3. role # "afterStep"
        BY <1>b, <2>1, <4>2
      <4>4. live[2] \in {"beforeStep", "run"}
        BY <4>1
      <4>5. role # "beforeStep"
        BY <4>3, <4>4 DEF Makes
      <4>6. live \in called
        BY <1>a, <4>4, LiveIs, CallsAre
      <4>7. IsStep(at)
        BY <1>a, <4>4, <4>6, LiveIs
      <4>8. role # "hook"
        BY <1>a, <4>7, Kinds DEF Makes, TypeOK
      <4> QED
        BY <1>b, <4>2, <4>3, <4>5, <4>8 DEF Code, Roles
    <3>2. CASE <<i, "beforeStep">> \notin called
      BY <1>b, <2>1, <3>2
    <3> QED
      BY <3>1, <3>2
  <2> QED
    BY <1>a, <1>b, <1>c, <2>1 DEF CalledInv, IsAfter
<1>4. StatusInv'
  BY <1>a, <1>b DEF StatusInv
<1>5. AbandonedInv'
  <2>1. abandoned' \subseteq called'
    BY <1>a, <1>b DEF AbandonedInv, Makes
  <2>2. \A c \in abandoned' : \/ c \in abandoned /\ c[1] < at /\ status[c[1]] # Passed
                              \/ c[1] = at
    BY <1>a, LiveIs DEF AbandonedInv, Makes
  <2>3. \A c \in abandoned' : c[1] = at => live' = <<at, "afterStep">> /\ err' # "nil"
    BY <1>b DEF Makes
  <2>4. \A c \in making : c \in abandoned'
    BY <1>a DEF AbandonedInv, Running, Makes
  <2> QED
    BY <1>b, <2>1, <2>2, <2>3, <2>4 DEF AbandonedInv, Running
<1>6. CloseInv'
  BY <1>b, <1>c, Numbers, CallsAre DEF CloseInv, Over
<1>7. OneState'
  BY <1>a, <1>b DEF OneState
<1> QED
  BY <1>1, <1>2, <1>3, <1>4, <1>5, <1>6, <1>7 DEF ScenarioInv

-----------------------------------------------------------------------------
(* The actions of runScenario *)

\* Code of the result at hand was abandoned only if its AfterStep hooks run.
LEMMA AtHand ==
  ASSUME ScenarioInv
  PROVE  \A c \in abandoned : c[1] = at => live = <<at, "afterStep">> /\ err # "nil"
<1>1. TypeOK /\ LiveInv /\ CalledInv /\ AbandonedInv
  BY DEF ScenarioInv
<1> SUFFICES ASSUME NEW c \in abandoned, c[1] = at
             PROVE  live = <<at, "afterStep">> /\ err # "nil"
  OBVIOUS
<1>2. at \in Nat
  BY <1>1, Numbers DEF TypeOK
<1> QED
  BY <1>1, <1>2 DEF AbandonedInv

\* A result that is left out, or whose step does not match: nothing is called.
LEMMA LeftOutSettles ==
  ASSUME ScenarioInv, HookSkipped \/ StepUnmatched \/ StepSkipped
  PROVE  \E s : Settles(s)
<1>a. TypeOK /\ LiveInv /\ CalledInv /\ AbandonedInv
  BY DEF ScenarioInv
<1>1. PICK s \in {Skipped, Undefined, Ambiguous} : settle(s)
  BY DEF HookSkipped, StepUnmatched, StepSkipped
<1>2. /\ UNCHANGED <<dryRun, match, abandoned, err, state, making, got, closers, taken,
                     cleaned, closeErr, called, outcome>>
      /\ IsBefore(at) \/ IsStep(at) \/ (IsAfter(at) /\ dryRun)
  BY DEF HookSkipped, StepUnmatched, StepSkipped, closeVars, keyVars
<1>3. at \in Hooked /\ (IsAfter(at) => dryRun)
  BY <1>a, <1>2, Kinds DEF TypeOK
<1>4. live \notin called
  BY <1>a, LiveIs, Kinds DEF TypeOK, HookSkipped, StepUnmatched, StepSkipped
<1>5. live = NoCall
  BY <1>a, <1>3, <1>4, LiveIs, Numbers, CallsAre DEF LiveInv
<1>6. \A c \in abandoned : c[1] # at
  BY <1>5, AtHand DEF NoCall
<1>7. live \notin making
  BY <1>a, <1>5, CallsAre DEF TypeOK
<1>8. <<at, "beforeStep">> \in called => <<at, "afterStep">> \in called
  BY <1>a, <1>3, <1>5 DEF CalledInv, NoCall
<1>9. s \in Passed..Failed /\ s # Passed
  BY <1>1 DEF Passed, Failed, Skipped, Undefined, Ambiguous
<1>10. live # <<Cleanup, "close">>
  BY <1>5, CallsAre
<1> QED
  BY <1>a, <1>1, <1>2, <1>3, <1>6, <1>7, <1>8, <1>9, <1>10 DEF Settles, TypeOK

\* A hook, or a step that runs, begins.
LEMMA BeginsMakes ==
  ASSUME ScenarioInv, HookStarts \/ StepStarts
  PROVE  \E role : Makes(role)
<1>a. TypeOK /\ LiveInv /\ CalledInv /\ AbandonedInv
  BY DEF ScenarioInv
<1>1. /\ live = NoCall /\ ~dryRun
      /\ UNCHANGED <<dryRun, match, at, abandoned, failed, status, state, making, got,
                     closers, taken, cleaned, closeErr, outcome>>
      /\ IsBefore(at) \/ IsStep(at) \/ IsAfter(at)
  BY DEF HookStarts, StepStarts, closeVars, keyVars
<1>2. at \in Hooked
  BY <1>a, <1>1, Kinds DEF TypeOK
<1>3. \A c \in abandoned : c[1] # at
  BY <1>1, AtHand DEF NoCall
<1>4. live \notin making /\ live[2] = "hook" /\ live # <<Cleanup, "close">>
  BY <1>a, <1>1, CallsAre DEF TypeOK
<1>5. err' \in Errors
  BY <1>a DEF HookStarts, StepStarts, TypeOK, Errors
<1>6. CASE HookStarts
  <2>1. Makes("hook")
    BY <1>1, <1>2, <1>3, <1>4, <1>5, <1>6 DEF Makes, HookStarts, Code, Roles
  <2> QED
    BY <2>1
<1>7. CASE StepStarts
  <2> DEFINE r == IF match[at] = "ok" THEN "beforeStep" ELSE "afterStep"
  <2>1. Makes(r)
    BY <1>1, <1>2, <1>3, <1>4, <1>5, <1>7 DEF Makes, StepStarts, Code, Roles
  <2> QED
    BY <2>1
<1> QED
  BY <1>6, <1>7

\* A call is over, by its error or as one that is abandoned.
LEMMA AfterKeeps ==
  ASSUME ScenarioInv, NEW e \in Errors, live \in called, after(e),
         \/ abandoned' = abandoned /\ live \notin making
         \/ abandoned' = abandoned \cup {live} /\ e # "nil",
         UNCHANGED <<dryRun, match, state, making, got, closers, taken, cleaned, closeErr,
                     outcome>>
  PROVE  ScenarioInv'
<1>a. TypeOK /\ LiveInv /\ CalledInv /\ AbandonedInv
  BY DEF ScenarioInv
<1>b. /\ live[1] = at /\ at \in Hooked /\ ~dryRun /\ live[2] \in Code
      /\ live = <<at, live[2]>> /\ live # <<Cleanup, "close">>
      /\ live[2] # "hook" => IsStep(at) /\ ~failed /\ match[at] \in {"badArguments", "ok"}
  BY <1>a, LiveIs, CallsAre DEF CalledInv
<1>c. \A c \in abandoned : c[1] = at => live[2] = "afterStep" /\ err # "nil"
  BY AtHand
<1>d. live \in making => live \in abandoned'
  OBVIOUS
<1>1. CASE live[2] = "hook"
  <2>1. settle(statusOf(e)) /\ UNCHANGED <<err, called>>
    BY <1>1 DEF after
  <2>2. statusOf(e) \in Passed..Failed /\ (statusOf(e) = Passed <=> e = "nil")
    BY StatusOfIs
  <2>3. \A c \in abandoned' : c[1] = at => e # "nil"
    BY <1>1, <1>c
  <2>4. <<at, "beforeStep">> \in called => <<at, "afterStep">> \in called
    BY <1>a, <1>b, <1>1 DEF CalledInv
  <2>5. Settles(statusOf(e))
    BY <1>a, <1>b, <1>d, <1>1, <2>1, <2>2, <2>3, <2>4 DEF Settles, TypeOK
  <2> QED
    BY <2>5, SettlesKeeps
<1>2. CASE live[2] = "beforeStep" /\ e = "nil"
  <2>1. call("run") /\ UNCHANGED <<at, err, failed, status>>
    BY <1>2 DEF after
  <2>2. Makes("run")
    BY <1>a, <1>b, <1>c, <1>d, <1>2, <2>1 DEF Makes, TypeOK, Code, Roles
  <2> QED
    BY <2>2, MakesKeeps
<1>3. CASE live[2] = "run" \/ (live[2] = "beforeStep" /\ e # "nil")
  <2>1. call("afterStep") /\ err' = e /\ UNCHANGED <<at, failed, status>>
    BY <1>3 DEF after
  <2>2. \A c \in abandoned' : c[1] = at => e # "nil"
    BY <1>3, <1>c
  <2>3. Makes("afterStep")
    BY <1>b, <1>d, <1>3, <2>1, <2>2 DEF Makes, Code, Roles
  <2> QED
    BY <2>3, MakesKeeps
<1>4. CASE live[2] = "afterStep"
  <2> DEFINE final == IF err = "nil" THEN e ELSE err
  <2>1. settle(statusOf(final)) /\ err' = "nil" /\ UNCHANGED called
    BY <1>4 DEF after
  <2>2. final \in Errors
    BY <1>a DEF TypeOK
  <2>3. statusOf(final) \in Passed..Failed /\ (statusOf(final) = Passed <=> final = "nil")
    BY <2>2, StatusOfIs
  <2>4. \A c \in abandoned' : c[1] = at => final # "nil"
    BY <1>c
  <2>5. IsStep(at) /\ ~ IsAfter(at) /\ <<at, "afterStep">> \in called
    BY <1>a, <1>b, <1>4, Kinds DEF TypeOK
  <2> HIDE DEF final
  <2>6. Settles(statusOf(final))
    BY <1>b, <1>d, <2>1, <2>3, <2>4, <2>5 DEF Settles, Errors
  <2> QED
    BY <2>6, SettlesKeeps
<1> QED
  BY <1>b, <1>1, <1>2, <1>3, <1>4 DEF Code, Roles

-----------------------------------------------------------------------------
(* Closers and state *)

\* A step that only lets go of abandoned code, or registers a closer or makes
\* state for code that runs.
LEMMA BesideKeeps ==
  ASSUME ScenarioInv, TypeOK', OneState',
         abandoned' \subseteq abandoned, \A c \in making' : Running(c)',
         \A c \in Range(closers') : c \in Range(closers) \/ (c \in Closing /\ Running(c)),
         UNCHANGED <<dryRun, match, at, live, err, failed, status, taken, cleaned,
                     closeErr, called, outcome>>
  PROVE  ScenarioInv'
<1>a. TypeOK /\ LiveInv /\ CalledInv /\ StatusInv /\ AbandonedInv /\ CloseInv
  BY DEF ScenarioInv
<1>1. LiveInv' /\ CalledInv' /\ StatusInv'
  BY <1>a DEF LiveInv, CalledInv, StatusInv, IsBefore, IsStep, IsAfter
<1>2. AbandonedInv'
  BY <1>a DEF AbandonedInv
<1>3. CloseInv'
  <2>1. ASSUME live = <<Cleanup, "close">> \/ Over, NEW c \in Range(closers')
        PROVE  c[1] \in Hooked /\ status[c[1]] # Passed
    <3>1. CASE c \in Range(closers)
      BY <1>a, <2>1, <3>1 DEF CloseInv
    <3>2. CASE c \in Closing /\ Running(c)
      <4>1. live = <<Cleanup, "close">> \/ live = NoCall
        BY <1>a, <2>1, LiveIs, Numbers DEF Over
      <4>2. c \in abandoned /\ c[1] \in Hooked
        BY <3>2, <4>1, CallsAre DEF Running
      <4>3. live # <<at, "afterStep">>
        BY <4>1 DEF NoCall
      <4> QED
        BY <1>a, <4>2, <4>3 DEF AbandonedInv
    <3> QED
      BY <3>1, <3>2
  <2> QED
    BY <1>a, <2>1 DEF CloseInv, Over
<1> QED
  BY <1>1, <1>2, <1>3 DEF ScenarioInv

LEMMA AbandonedReturnsKeeps ==
  ASSUME ScenarioInv, NEW d, AbandonedReturns(d)
  PROVE  ScenarioInv'
<1>1. /\ d \notin making /\ abandoned' = abandoned \ {d}
      /\ UNCHANGED <<dryRun, match, at, live, err, failed, status, state, making, got,
                     closers, taken, cleaned, closeErr, called, outcome>>
  BY DEF AbandonedReturns, closeVars, keyVars
<1>2. TypeOK' /\ OneState'
  BY <1>1 DEF ScenarioInv, TypeOK, OneState
<1>3. \A c \in making' : Running(c)'
  BY <1>1 DEF ScenarioInv, AbandonedInv, Running
<1> QED
  BY <1>1, <1>2, <1>3, BesideKeeps

LEMMA OnCloseKeeps ==
  ASSUME ScenarioInv, NEW d, OnClose(d)
  PROVE  ScenarioInv'
<1>1. /\ d \in Closing \ Keyed /\ Running(d) /\ closers' = Append(closers, d)
      /\ UNCHANGED <<dryRun, match, at, live, abandoned, err, failed, status, state,
                     making, got, taken, cleaned, closeErr, called, outcome>>
  BY DEF OnClose, keyVars
<1>2. closers' \in Seq(Closing) /\ Range(closers') = Range(closers) \cup {d}
  BY <1>1, AppendRange DEF ScenarioInv, TypeOK
<1>3. TypeOK'
  BY <1>1, <1>2 DEF ScenarioInv, TypeOK
<1>4. OneState'
  BY <1>1, <1>2 DEF ScenarioInv, OneState
<1>5. \A c \in making' : Running(c)'
  BY <1>1 DEF ScenarioInv, AbandonedInv, Running
<1> QED
  BY <1>1, <1>2, <1>3, <1>4, <1>5, BesideKeeps

LEMMA OfLooksKeeps ==
  ASSUME ScenarioInv, NEW d, OfLooks(d)
  PROVE  ScenarioInv'
<1>1. /\ d \in Keyed /\ Running(d)
      /\ \/ state # NoCall /\ got' = [got EXCEPT ![d] = state] /\ making' = making
         \/ making' = making \cup {d} /\ got' = got
      /\ UNCHANGED <<dryRun, match, at, live, abandoned, err, failed, status, state,
                     closers, taken, cleaned, closeErr, called, outcome>>
  BY DEF OfLooks
<1>2. TypeOK'
  BY <1>1 DEF ScenarioInv, TypeOK
<1>3. OneState'
  BY <1>1 DEF ScenarioInv, OneState, TypeOK
<1>4. \A c \in making' : Running(c)'
  BY <1>1 DEF ScenarioInv, AbandonedInv, Running
<1> QED
  BY <1>1, <1>2, <1>3, <1>4, BesideKeeps

LEMMA OfStoresKeeps ==
  ASSUME ScenarioInv, NEW d, OfStores(d)
  PROVE  ScenarioInv'
<1>a. TypeOK /\ OneState /\ AbandonedInv
  BY DEF ScenarioInv
<1>1. /\ d \in making /\ making' = making \ {d} /\ got' = [got EXCEPT ![d] = state']
      /\ \/ state # NoCall /\ state' = state /\ closers' = closers
         \/ state = NoCall /\ state' = d /\ closers' = Append(closers, d)
      /\ UNCHANGED <<dryRun, match, at, live, abandoned, err, failed, status, taken,
                     cleaned, closeErr, called, outcome>>
  BY DEF OfStores
<1>2. d \in Keyed /\ d \in Closing /\ Running(d) /\ NoCall \notin Keyed
  BY <1>a, <1>1, CallsAre DEF TypeOK, AbandonedInv
<1>b. /\ closers \in Seq(Closing) /\ Append(closers, d) \in Seq(Closing)
      /\ Range(Append(closers, d)) = Range(closers) \cup {d}
  BY <1>a, <1>2, AppendRange DEF TypeOK
<1>3. /\ closers' \in Seq(Closing)
      /\ closers' = closers \/ Range(closers') = Range(closers) \cup {d}
  BY <1>1, <1>b
<1>4. TypeOK'
  BY <1>a, <1>1, <1>2, <1>3 DEF TypeOK
<1>5. OneState'
  <2>1. CASE state # NoCall
    BY <1>a, <1>1, <2>1 DEF OneState, TypeOK
  <2>2. CASE state = NoCall
    <3>1. Range(closers') = Range(closers) \cup {d}
      BY <1>1, <1>b, <2>2
    <3>2. \A c \in Keyed : got[c] = NoCall /\ c \notin Range(closers) \cup Range(taken)
      BY <1>a, <1>2, <2>2 DEF OneState
    <3> QED
      BY <1>a, <1>1, <2>2, <3>1, <3>2 DEF OneState, TypeOK
  <2> QED
    BY <2>1, <2>2
<1>6. \A c \in making' : Running(c)'
  BY <1>a, <1>1 DEF AbandonedInv, Running
<1> QED
  BY <1>1, <1>2, <1>3, <1>4, <1>5, <1>6, BesideKeeps

LEMMA CloseKeeps ==
  ASSUME ScenarioInv, Close
  PROVE  ScenarioInv'
<1>a. TypeOK /\ LiveInv /\ CalledInv /\ StatusInv /\ AbandonedInv /\ CloseInv /\ OneState
  BY DEF ScenarioInv
<1>b. /\ at = Cleanup /\ live = NoCall /\ live' = <<Cleanup, "close">>
      /\ taken' = Reverse(closers) /\ closers' = <<>>
      /\ UNCHANGED <<dryRun, match, at, abandoned, err, failed, status, state, making, got,
                     cleaned, closeErr, called, outcome>>
  BY DEF Close, keyVars
<1>c. /\ taken' \in Seq(Closing) /\ Range(taken') = Range(closers)
      /\ closers' \in Seq(Closing) /\ Range(closers') = {}
  <2>1. closers \in Seq(Closing) /\ Range(<<>>) = {} /\ <<>> \in Seq(Closing)
    BY <1>a, EmptySeq DEF TypeOK, Range
  <2>2. Reverse(closers) \in Seq(Closing) /\ Range(Reverse(closers)) = Range(closers)
    BY <2>1, ReverseRange
  <2> QED
    BY <1>b, <2>1, <2>2
<1>1. TypeOK'
  BY <1>a, <1>b, <1>c, CallsAre DEF TypeOK
<1>2. LiveInv'
  BY <1>b DEF LiveInv
<1>3. CalledInv'
  BY <1>a, <1>b DEF CalledInv, NoCall
<1>4. StatusInv'
  BY <1>a, <1>b DEF StatusInv
<1>5. AbandonedInv'
  <2>1. live \notin making
    BY <1>a, <1>b, CallsAre DEF TypeOK
  <2>2. live # <<at, "afterStep">>
    BY <1>b DEF NoCall
  <2> QED
    BY <1>a, <1>b, <2>1, <2>2 DEF AbandonedInv, Running
<1>6. CloseInv'
  BY <1>b, <1>c, Numbers DEF CloseInv, Over
<1>7. OneState'
  BY <1>a, <1>b, <1>c DEF OneState
<1> QED
  BY <1>1, <1>2, <1>3, <1>4, <1>5, <1>6, <1>7 DEF ScenarioInv

LEMMA CloserRunsKeeps ==
  ASSUME ScenarioInv, NEW fails \in BOOLEAN, CloserRuns(fails)
  PROVE  ScenarioInv'
<1>a. TypeOK /\ LiveInv /\ CalledInv /\ StatusInv /\ AbandonedInv /\ CloseInv /\ OneState
  BY DEF ScenarioInv
<1>b. /\ live = <<Cleanup, "close">> /\ closeErr' \in BOOLEAN
      /\ \E k \in DOMAIN taken : cleaned' = cleaned \cup {taken[k]}
      /\ UNCHANGED <<dryRun, match, at, live, abandoned, err, failed, status, state,
                     making, got, closers, taken, called, outcome>>
  BY <1>a DEF CloserRuns, keyVars, TypeOK
<1>c. at = Cleanup
  BY <1>a, <1>b, CallsAre DEF LiveInv, CalledInv
<1>1. TypeOK'
  <2>1. \A k \in DOMAIN taken : taken[k] \in Closing
    BY <1>a, LenProperties, ElementOfSeq DEF TypeOK
  <2> QED
    BY <1>a, <1>b, <2>1 DEF TypeOK
<1>2. LiveInv' /\ CalledInv' /\ StatusInv'
  BY <1>a, <1>b DEF LiveInv, CalledInv, StatusInv, IsBefore, IsStep, IsAfter
<1>3. AbandonedInv' /\ OneState'
  BY <1>a, <1>b DEF AbandonedInv, Running, OneState
<1>4. CloseInv'
  BY <1>a, <1>b, <1>c, Numbers DEF CloseInv, Over
<1> QED
  BY <1>1, <1>2, <1>3, <1>4 DEF ScenarioInv

LEMMA CleanupDoneKeeps ==
  ASSUME ScenarioInv, CleanupDone
  PROVE  ScenarioInv'
<1>a. TypeOK /\ LiveInv /\ CalledInv /\ StatusInv /\ AbandonedInv /\ CloseInv /\ OneState
  BY DEF ScenarioInv
<1>b. /\ live = <<Cleanup, "close">> /\ cleaned = Range(taken)
      /\ status' = IF closeErr THEN [status EXCEPT ![Cleanup] = Failed] ELSE status
      /\ outcome' = worst(status') /\ live' = NoCall /\ at' = Cleanup + 1
      /\ UNCHANGED <<dryRun, match, abandoned, err, failed, state, making, got, closers,
                     taken, cleaned, closeErr, called>>
  BY DEF CleanupDone, CloseOver, closeVars, keyVars
<1>c. at = Cleanup
  BY <1>a, <1>b, CallsAre DEF LiveInv, CalledInv
<1>d. /\ status' \in [Results -> Statuses] /\ \A i \in Hooked : status'[i] = status[i]
      /\ closeErr => status'[Cleanup] = Failed
  BY <1>a, <1>b, Numbers DEF TypeOK, Statuses, NoStatus, Failed
<1>1. TypeOK'
  <2>1. outcome' \in Statuses
    BY <1>b, <1>d, WorstIs DEF Statuses, Passed, NoStatus, Failed
  <2>2. Cleanup + 1 \in 1..(Cleanup + 1)
    BY Numbers
  <2> QED
    BY <1>a, <1>b, <1>d, <2>1, <2>2 DEF TypeOK
<1>2. LiveInv'
  BY <1>b DEF LiveInv
<1>3. CalledInv'
  <2>1. \A i \in Hooked : i < at
    BY <1>c, Numbers
  <2> QED
    BY <1>a, <1>b, <2>1, CallsAre DEF CalledInv
<1>4. StatusInv'
  <2>1. \A i \in Hooked : i < at
    BY <1>c, Numbers
  <2>2. \A i \in Results : ~ (i >= Cleanup + 1)
    BY Numbers DEF Results
  <2>3. ~ (Cleanup + 1 <= NBefore + NSteps + 1)
    BY ScenarioAssumption DEF Cleanup
  <2> QED
    BY <1>a, <1>b, <1>d, <2>1, <2>2, <2>3 DEF StatusInv
<1>5. AbandonedInv'
  <2>1. live \notin making
    BY <1>a, <1>b, CallsAre DEF TypeOK
  <2>2. \A c \in abandoned : c[1] \in Hooked /\ c[1] < at /\ status[c[1]] # Passed
    BY <1>a, <1>b, LiveIs DEF AbandonedInv
  <2>3. \A c \in abandoned : c[1] < at' /\ status'[c[1]] # Passed
    <3> SUFFICES ASSUME NEW c \in abandoned PROVE c[1] < at' /\ status'[c[1]] # Passed
      OBVIOUS
    <3>1. c[1] \in Nat /\ c[1] < Cleanup /\ Cleanup \in Nat
      BY <2>2, Numbers
    <3> QED
      BY <1>b, <1>d, <2>2, <3>1
  <2> QED
    BY <1>a, <1>b, <2>1, <2>3 DEF AbandonedInv, Running
<1>6. CloseInv'
  BY <1>a, <1>b, <1>d DEF CloseInv
<1>7. OneState'
  BY <1>a, <1>b DEF OneState
<1> QED
  BY <1>1, <1>2, <1>3, <1>4, <1>5, <1>6, <1>7 DEF ScenarioInv

-----------------------------------------------------------------------------
(* The invariant, and what it shows *)

LEMMA ScenarioStep ==
  ASSUME ScenarioInv, [Next]_vars
  PROVE  ScenarioInv'
<1>1. CASE HookSkipped \/ StepUnmatched \/ StepSkipped
  BY <1>1, LeftOutSettles, SettlesKeeps
<1>2. CASE HookStarts \/ StepStarts
  BY <1>2, BeginsMakes, MakesKeeps
<1>3. CASE CallAbandoned
  <2>1. "error" \in Errors /\ "error" # "nil"
    BY DEF Errors
  <2>2. /\ live \in called /\ after("error") /\ abandoned' = abandoned \cup {live}
        /\ UNCHANGED <<dryRun, match, state, making, got, closers, taken, cleaned,
                       closeErr, outcome>>
    BY <1>3 DEF CallAbandoned, closeVars, keyVars
  <2> QED
    BY <2>1, <2>2, AfterKeeps
<1>4. ASSUME NEW e \in Errors, CallReturns(e) PROVE ScenarioInv'
  <2>1. /\ live \in called /\ live \notin making /\ after(e) /\ abandoned' = abandoned
        /\ UNCHANGED <<dryRun, match, state, making, got, closers, taken, cleaned,
                       closeErr, outcome>>
    BY <1>4 DEF CallReturns, closeVars, keyVars
  <2> QED
    BY <2>1, AfterKeeps
<1>5. CASE Close \/ CleanupDone \/ \E fails \in BOOLEAN : CloserRuns(fails)
  BY <1>5, CloseKeeps, CleanupDoneKeeps, CloserRunsKeeps
<1>6. CASE (\E c \in Calls : AbandonedReturns(c)) \/ (\E c \in Closing : OnClose(c))
  BY <1>6, AbandonedReturnsKeeps, OnCloseKeeps
<1>7. CASE \E c \in Keyed : OfLooks(c) \/ OfStores(c)
  BY <1>7, OfLooksKeeps, OfStoresKeeps
<1>8. CASE UNCHANGED vars
  <2>1. TypeOK' /\ OneState' /\ \A c \in making' : Running(c)'
    BY <1>8 DEF ScenarioInv, TypeOK, OneState, AbandonedInv, Running, vars
  <2> QED
    BY <1>8, <2>1, BesideKeeps DEF vars
<1> QED
  BY <1>1, <1>2, <1>3, <1>4, <1>5, <1>6, <1>7, <1>8 DEF Next, runScenario

(* In every scenario, as runScenario takes it from its Before hooks to its
   cleanup, the inductive invariant holds. *)
THEOREM ScenarioInvariant == Spec => []ScenarioInv
<1>1. Init => ScenarioInv
  BY ScenarioInit
<1>2. ScenarioInv /\ [Next]_vars => ScenarioInv'
  BY ScenarioStep
<1> QED
  BY <1>1, <1>2, PTL DEF Spec

(* The variables of runScenario, core.Scenario and its results have their
   types. *)
THEOREM ScenarioTypeCorrect == Spec => []TypeOK
<1>1. ScenarioInv => TypeOK
  BY DEF ScenarioInv
<1> QED
  BY <1>1, ScenarioInvariant, PTL

(* StateKey.Of gives every caller the same value, with one closer. *)
THEOREM ScenarioOneState == Spec => []OneState
<1>1. ScenarioInv => OneState
  BY DEF ScenarioInv
<1> QED
  BY <1>1, ScenarioInvariant, PTL

(* execStep calls no step code after a result that did not pass. *)
THEOREM ScenarioStopsAtFailure == Spec => []StopsAtFailure
<1>1. ASSUME ScenarioInv, live[2] \in {"beforeStep", "run"}
      PROVE  \A i \in 1..(at - 1) : status[i] = Passed
  <2>1. TypeOK /\ LiveInv /\ CalledInv /\ StatusInv
    BY <1>1 DEF ScenarioInv
  <2>2. live \in called
    BY <1>1, <2>1, LiveIs, CallsAre
  <2>3. IsStep(at) /\ ~failed /\ ~dryRun
    BY <1>1, <2>1, <2>2, LiveIs
  <2>4. at <= NBefore + NSteps + 1
    BY <2>1, <2>3, Kinds, Numbers DEF TypeOK
  <2> QED
    BY <2>1, <2>3, <2>4 DEF StatusInv
<1> QED
  BY <1>1, ScenarioInvariant, PTL DEF StopsAtFailure

(* AfterStep hooks follow BeforeStep hooks, and After hooks run, whatever
   execStep and execHook met with. *)
THEOREM ScenarioTeardownRuns == Spec => []TeardownRuns
<1>1. ASSUME ScenarioInv PROVE TeardownRuns
  <2>1. TypeOK /\ LiveInv /\ CalledInv
    BY <1>1 DEF ScenarioInv
  <2>2. ASSUME NEW i \in Hooked, <<i, "beforeStep">> \in called, at > i
        PROVE  <<i, "afterStep">> \in called
    <3>1. CASE live = <<i, "beforeStep">> \/ live = <<i, "run">>
      <4>1. live \in called
        BY <2>1, <3>1, LiveIs, CallsAre
      <4>2. i = at
        BY <2>1, <3>1, <4>1, LiveIs
      <4> QED
        BY <2>2, <4>2, Numbers
    <3> QED
      BY <2>1, <2>2, <3>1 DEF CalledInv
  <2>3. Over => \A i \in Hooked : i < at
    BY Numbers DEF Over
  <2> QED
    BY <2>1, <2>2, <2>3 DEF TeardownRuns, CalledInv
<1> QED
  BY <1>1, ScenarioInvariant, PTL

(* Close runs every closer it took, and only code that was abandoned, in a
   result that did not pass, leaves one behind. *)
THEOREM ScenarioCleanupRuns == Spec => []CleanupRuns
<1>1. ScenarioInv => CleanupRuns
  BY DEF ScenarioInv, CloseInv, CleanupRuns
<1> QED
  BY <1>1, ScenarioInvariant, PTL

(* ScenarioResult.Status is Passed only if all of it passed, the cleanup too,
   and nothing was left behind. *)
THEOREM ScenarioPassedMeansClean == Spec => []PassedMeansClean
<1>1. ASSUME ScenarioInv, Over, outcome = Passed
      PROVE  /\ abandoned = {} /\ closers = <<>>
             /\ ~closeErr
             /\ \A i \in Hooked : status[i] = Passed
  <2>1. TypeOK /\ LiveInv /\ CalledInv /\ StatusInv /\ AbandonedInv /\ CloseInv
    BY <1>1 DEF ScenarioInv
  <2>2. \A i \in Results : status[i] \in Statuses /\ status[i] <= Passed
    BY <1>1, <2>1, WorstIs DEF CloseInv, TypeOK
  <2>3. \A i \in Hooked : i < at /\ i \in Results
    BY <1>1, Numbers DEF Over
  <2>4. \A i \in Hooked : status[i] = Passed
    BY <2>1, <2>2, <2>3 DEF StatusInv, Passed, Failed
  <2>5. ~closeErr
    BY <1>1, <2>1, <2>2, Numbers DEF CloseInv, Passed, Failed
  <2>6. live = NoCall
    BY <1>1, <2>1, LiveIs, Numbers DEF Over, LiveInv
  <2>7. abandoned = {}
    <3>1. \A c \in abandoned : c[1] \in Hooked
      BY <2>1, LiveIs DEF AbandonedInv
    <3>2. live # <<at, "afterStep">>
      BY <2>6 DEF NoCall
    <3> QED
      BY <2>1, <2>4, <3>1, <3>2 DEF AbandonedInv
  <2>8. Range(closers) = {}
    BY <1>1, <2>1, <2>4 DEF CloseInv
  <2>9. closers = <<>>
    <3>1. Len(closers) \in Nat /\ DOMAIN closers = 1..Len(closers)
      BY <2>1, LenProperties DEF TypeOK
    <3>2. DOMAIN closers = {}
      BY <2>8 DEF Range
    <3>3. Len(closers) = 0
      BY <3>1, <3>2
    <3> QED
      BY <2>1, <3>3, EmptySeq DEF TypeOK
  <2> QED
    BY <2>4, <2>5, <2>7, <2>9
<1> QED
  BY <1>1, ScenarioInvariant, PTL DEF PassedMeansClean
=============================================================================
