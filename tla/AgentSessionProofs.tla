------------------------- MODULE AgentSessionProofs -------------------------
(***************************************************************************)
(* Whatever number of requests race, and whichever of them fail, the        *)
(* agent's session leaks no engine and no lease, and its steps run alone.   *)
(* The inductive invariant says what the holder of agentSession.mu knows at *)
(* each place of live and endLocked, what Session.mu protects, and that no  *)
(* request makes a second session.                                          *)
(***************************************************************************)
EXTENDS AgentSession, FiniteSetTheorems, TLAPS

\* The requests that may make a session, and those of them past doing so.
Makers == {"try", "restart", "tool"}
Made == {r \in Requests : kind[r] \in Makers /\ pc[r] \notin Ending \cup {"call", "live"}}

\* What the holder of mu knows of the session there is.
HolderInv ==
  \A r \in Requests :
    /\ pc[r] \in {"closing", "cancel", "close engine"} => cur # 0
    /\ pc[r] \in Making => cur = 0 /\ sessions # 0 /\ sessions \in engine
    /\ pc[r] \in Making \cup {"live"} => kind[r] \in Makers
    /\ pc[r] = "end call" => kind[r] = "run"

\* Until its lease is stopped a session may have the turn, and one that is
\* about to ask for it has not.
TurnInv ==
  \A r \in Requests :
    /\ pc[r] = "close engine" => turn # Session(cur)
    /\ pc[r] = "open" => \A i \in Ids : turn # Session(i)

\* Session.mu: who runs steps or closes the session holds it.
StepsInv ==
  /\ \A r \in Requests :
       /\ pc[r] \in {"got", "running", "tool"} => mine[r] # 0
       /\ pc[r] = "running" => smu[mine[r]] = r
       /\ pc[r] = "closing" => smu[cur] = r
  /\ \A i \in Ids : scenario[i] = "closing" => mu # 0 /\ pc[mu] = "closing" /\ cur = i

SessionInv ==
  /\ TypeOK /\ sessions <= Cardinality(Made)
  /\ HolderInv /\ TurnInv /\ NothingLeaked /\ StepsInv

-----------------------------------------------------------------------------
LEMMA IdsType == Cardinality(Requests) \in Nat /\ Ids \subseteq Nat \ {0}
BY RequestsAssumption, FS_CardinalityType DEF Ids

\* Who has the turn is told apart.
LEMMA Turns ==
  /\ \A i, q : Session(i) # Run(q)
  /\ \A i : Session(i) # NoTurn
  /\ \A i, j : Session(i) = Session(j) => i = j
<1>1. ASSUME NEW i, NEW q PROVE Session(i) # Run(q) /\ Session(i) # NoTurn
  <2>1. Session(i)[1] = "session" /\ Run(q)[1] = "run" /\ NoTurn[1] = "none"
    BY DEF Session, Run, NoTurn
  <2> QED
    BY <2>1
<1>2. ASSUME NEW i, NEW j, Session(i) = Session(j) PROVE i = j
  <2>1. Session(i)[2] = i /\ Session(j)[2] = j
    BY DEF Session
  <2> QED
    BY <1>2, <2>1
<1> QED
  BY <1>1, <1>2

LEMMA NumbersAreIds ==
  ASSUME TypeOK
  PROVE  /\ sessions \in Nat /\ cur \in Nat
         /\ cur # 0 => cur \in Ids
         /\ sessions # 0 => sessions \in Ids
BY IdsType DEF TypeOK, Ids

\* A step that makes no session, and takes no request back, keeps the count.
LEMMA CountKept ==
  ASSUME SessionInv, sessions' = sessions, Made \subseteq Made'
  PROVE  sessions' <= Cardinality(Made')
<1>1. IsFiniteSet(Made')
  <2>1. Made' \subseteq Requests
    BY DEF Made
  <2> QED
    BY <2>1, RequestsAssumption, FS_Subset
<1>2. Cardinality(Made) <= Cardinality(Made')
  BY <1>1, FS_Subset
<1>3. Cardinality(Made) \in Nat /\ Cardinality(Made') \in Nat
  BY <1>1, FS_Subset, FS_CardinalityType
<1>4. sessions \in Nat
  BY NumbersAreIds DEF SessionInv
<1>5. sessions <= Cardinality(Made)
  BY DEF SessionInv
<1> QED
  BY <1>2, <1>3, <1>4, <1>5

\* Where a request goes on once endLocked returned: live with mu, or it gives
\* mu back.
LEMMA EndedGoesOn ==
  ASSUME NEW r \in Requests, ended(r)
  PROVE  \E p \in {"live", "queue", "returned"} :
           /\ pc' = [pc EXCEPT ![r] = p]
           /\ p = "live" => kind[r] = "restart" /\ mu' = mu
           /\ p # "live" => mu' = 0
<1>1. CASE kind[r] = "restart"
  BY <1>1 DEF ended, To
<1>2. CASE kind[r] = "run"
  BY <1>2 DEF ended, To, Unlock
<1>3. CASE kind[r] \notin {"restart", "run"}
  BY <1>3 DEF ended, To, Unlock
<1> QED
  BY <1>1, <1>2, <1>3

LEMMA SessionInit == Init => SessionInv
<1> SUFFICES ASSUME Init PROVE SessionInv
  OBVIOUS
<1>1. TypeOK
  BY IdsType, RequestsAssumption DEF Init, TypeOK, Places, Ending, Making, NoTurn
<1>2. Made = {} /\ Cardinality(Made) = 0
  BY FS_EmptySet DEF Init, Made
<1>3. HolderInv /\ TurnInv /\ NothingLeaked /\ StepsInv
  BY DEF Init, HolderInv, TurnInv, NothingLeaked, StepsInv, Making, NoTurn, Session
<1> QED
  BY <1>1, <1>2, <1>3 DEF Init, SessionInv

-----------------------------------------------------------------------------
\* The parts of the invariant a proof about one action needs.
LEMMA Parts ==
  ASSUME SessionInv
  PROVE  /\ TypeOK /\ HolderInv /\ TurnInv /\ NothingLeaked /\ StepsInv
         /\ kind \in [Requests -> Kinds] /\ hosted \in BOOLEAN /\ pc \in [Requests -> Places]
         /\ mine \in [Requests -> Ids \cup {0}]
         /\ smu \in [Ids -> Requests \cup {0}]
         /\ scenario \in [Ids -> {"none", "open", "closing", "closed"}]
         /\ mu \in Requests \cup {0}
         /\ \A q \in Requests : pc[q] \in Ending \cup Making \cup {"live"} <=> mu = q
         /\ sessions \in 0..Cardinality(Requests) /\ cur \in 0..sessions
         /\ engine \subseteq Ids
         /\ turn \in {NoTurn} \cup {Session(i) : i \in Ids} \cup {Run(q) : q \in Requests}
BY DEF SessionInv, TypeOK

\* A request that does not hold mu moves on, and at most takes the turn for a
\* run or gives it back.
LEMMA MoveKeeps ==
  ASSUME SessionInv, NEW r \in Requests, pc[r] \in {"call", "got", "tool", "queue", "holding"},
         NEW p \in {"tool", "end call", "queue", "holding", "returned"},
         p = "tool" => pc[r] = "got",
         p = "end call" => kind[r] = "run",
         pc' = [pc EXCEPT ![r] = p],
         turn' \in {turn, NoTurn, Run(r)},
         UNCHANGED <<const, mine, mu, cur, sessions, scenario, smu, engine>>
  PROVE  SessionInv'
<1> USE RequestsAssumption DEF Ending, Making
<1>1. TypeOK'
  <2>1. pc' \in [Requests -> Places]
    BY Parts DEF Places
  <2>2. \A q \in Requests : pc'[q] \in Ending \cup Making \cup {"live"} <=> mu' = q
    BY Parts
  <2>3. turn' \in {NoTurn} \cup {Session(i) : i \in Ids} \cup {Run(q) : q \in Requests}
    BY Parts
  <2> QED
    BY <2>1, <2>2, <2>3, Parts DEF TypeOK, const
<1>2. sessions' <= Cardinality(Made')
  <2>1. Made \subseteq Made'
    BY Parts DEF const, Made
  <2> QED
    BY <2>1, CountKept
<1>3. HolderInv'
  BY Parts DEF HolderInv, const
<1>4. TurnInv' /\ NothingLeaked'
  BY Parts, Turns DEF TurnInv, NothingLeaked
<1>5. StepsInv'
  BY Parts DEF StepsInv
<1> QED
  BY <1>1, <1>2, <1>3, <1>4, <1>5 DEF SessionInv

LEMMA NoStepsKeeps ==
  ASSUME SessionInv, NEW r \in Requests, NoSteps(r)
  PROVE  SessionInv'
BY MoveKeeps DEF NoSteps, To

LEMMA ToolKeeps ==
  ASSUME SessionInv, NEW r \in Requests, Tool(r)
  PROVE  SessionInv'
BY MoveKeeps DEF Tool, To

LEMMA hostLeasedKeeps ==
  ASSUME SessionInv, NEW r \in Requests, hostLeased(r)
  PROVE  SessionInv'
BY MoveKeeps DEF hostLeased, To

LEMMA RunStartsKeeps ==
  ASSUME SessionInv, NEW r \in Requests, RunStarts(r)
  PROVE  SessionInv'
BY MoveKeeps DEF RunStarts, To

LEMMA RunDoneKeeps ==
  ASSUME SessionInv, NEW r \in Requests, RunDone(r)
  PROVE  SessionInv'
BY MoveKeeps DEF RunDone, To

LEMMA LockKeeps ==
  ASSUME SessionInv, NEW r \in Requests, Lock(r)
  PROVE  SessionInv'
<1> USE RequestsAssumption DEF Ending, Making
<1>a. /\ sessions \in Nat /\ cur \in Nat /\ 0 \notin Ids
      /\ cur # 0 => cur \in Ids
      /\ sessions # 0 => sessions \in Ids
  BY IdsType, NumbersAreIds DEF SessionInv
<1>1. TypeOK'
  BY <1>a, Parts, IdsType DEF Lock, To, const, TypeOK, HolderInv, Places, NoTurn
<1>2. sessions' <= Cardinality(Made')
  <2>1. Made \subseteq Made'
    BY Parts DEF Lock, To, const, HolderInv, Made, Makers, Places
  <2>2. sessions' = sessions
    BY DEF Lock
  <2> QED
    BY <2>1, <2>2, CountKept
<1>3. HolderInv'
  BY <1>a, Parts, KindsAssumption DEF Lock, To, const, HolderInv, Makers
<1>4. TurnInv'
  BY <1>a, Parts, Turns DEF Lock, To, HolderInv, TurnInv, NothingLeaked
<1>5. NothingLeaked'
  BY <1>a, Parts, Turns DEF Lock, To, HolderInv, TurnInv, NothingLeaked
<1>6. StepsInv'
  BY <1>a, Parts DEF Lock, To, HolderInv, StepsInv
<1> QED
  BY <1>1, <1>2, <1>3, <1>4, <1>5, <1>6 DEF SessionInv

LEMMA CloseKeeps ==
  ASSUME SessionInv, NEW r \in Requests, Close(r)
  PROVE  SessionInv'
<1> USE RequestsAssumption DEF Ending, Making
<1>a. /\ sessions \in Nat /\ cur \in Nat /\ 0 \notin Ids
      /\ cur # 0 => cur \in Ids
      /\ sessions # 0 => sessions \in Ids
  BY IdsType, NumbersAreIds DEF SessionInv
<1>1. CASE cur = 0
  <2>1. ended(r) /\ UNCHANGED <<const, mine, cur, sessions, scenario, smu, engine, turn>>
    BY <1>1 DEF Close
  <2>2. PICK p \in {"live", "queue", "returned"} :
          /\ pc' = [pc EXCEPT ![r] = p]
          /\ p = "live" => kind[r] = "restart" /\ mu' = mu
          /\ p # "live" => mu' = 0
    BY <2>1, EndedGoesOn
  <2>3. pc[r] = "end" /\ mu = r
    BY Parts DEF Close
  <2> HIDE DEF Ending, Making
  <2>4. \A q \in Requests : pc'[q] \in Ending \cup Making \cup {"live"} <=> mu' = q
    BY <2>2, <2>3, Parts DEF Ending, Making
  <2>5. TypeOK'
    <3>1. pc' \in [Requests -> Places] /\ mu' \in Requests \cup {0}
      BY <2>2, Parts DEF Places
    <3> QED
      BY <2>1, <2>4, <3>1, Parts DEF TypeOK, const
  <2>6. sessions' <= Cardinality(Made')
    <3>1. Made \subseteq Made'
      BY <2>1, <2>2, <2>3, Parts DEF const, Made, Ending
    <3> QED
      BY <2>1, <3>1, CountKept
  <2>7. HolderInv'
    BY <2>1, <2>2, Parts DEF HolderInv, Makers, Making, const
  <2>8. TurnInv' /\ NothingLeaked'
    BY <1>1, <2>1, <2>2, <2>3, Parts DEF TurnInv, NothingLeaked, Making
  <2>9. StepsInv'
    BY <1>1, <2>1, <2>2, <2>3, <1>a, Parts DEF StepsInv
  <2> QED
    BY <2>5, <2>6, <2>7, <2>8, <2>9 DEF SessionInv
<1>2. CASE cur # 0
  <2>1. /\ pc[r] = "end" /\ mu = r /\ cur \in Ids /\ smu[cur] = 0
        /\ pc' = [pc EXCEPT ![r] = "closing"] /\ mu' = mu
        /\ smu' = [smu EXCEPT ![cur] = r]
        /\ scenario' = [scenario EXCEPT ![cur] = "closing"]
        /\ UNCHANGED <<const, mine, cur, sessions, engine, turn>>
    BY <1>2, <1>a, Parts DEF Close, To
  <2>2. TypeOK'
    <3>1. /\ pc' \in [Requests -> Places]
          /\ smu' \in [Ids -> Requests \cup {0}]
          /\ scenario' \in [Ids -> {"none", "open", "closing", "closed"}]
      BY <2>1, Parts DEF Places
    <3>2. \A q \in Requests : pc'[q] \in Ending \cup Making \cup {"live"} <=> mu' = q
      BY <2>1, Parts
    <3> QED
      BY <2>1, <3>1, <3>2, Parts DEF TypeOK, const
  <2>3. sessions' <= Cardinality(Made')
    <3>1. Made \subseteq Made'
      BY <2>1, Parts DEF const, Made
    <3> QED
      BY <2>1, <3>1, CountKept
  <2>4. HolderInv'
    BY <1>2, <2>1, Parts DEF HolderInv, Makers, const
  <2>5. TurnInv' /\ NothingLeaked'
    BY <2>1, Parts DEF TurnInv, NothingLeaked
  <2>6. StepsInv'
    <3>1. ASSUME NEW q \in Requests
          PROVE  /\ pc'[q] \in {"got", "running", "tool"} => mine'[q] # 0
                 /\ pc'[q] = "running" => smu'[mine'[q]] = q
                 /\ pc'[q] = "closing" => smu'[cur'] = q
      <4>1. CASE q = r
        BY <4>1, <2>1, Parts
      <4>2. CASE q # r
        <5>1. pc'[q] = pc[q] /\ mine'[q] = mine[q] /\ pc[q] # "closing"
          BY <4>2, <2>1, Parts
        <5>2. pc[q] = "running" => smu[mine[q]] = q /\ mine[q] \in Ids /\ mine[q] # cur
          BY <2>1, <1>a, Parts DEF StepsInv
        <5>3. pc[q] \in {"got", "running", "tool"} => mine[q] # 0
          BY Parts DEF StepsInv
        <5> QED
          BY <5>1, <5>2, <5>3, <2>1, Parts
      <4> QED
        BY <4>1, <4>2
    <3>2. ASSUME NEW i \in Ids, scenario'[i] = "closing"
          PROVE  mu' # 0 /\ pc'[mu'] = "closing" /\ cur' = i
      BY <2>1, <3>2, Parts DEF StepsInv
    <3> QED
      BY <3>1, <3>2 DEF StepsInv
  <2> QED
    BY <2>2, <2>3, <2>4, <2>5, <2>6 DEF SessionInv
<1> QED
  BY <1>1, <1>2

LEMMA ClosedKeeps ==
  ASSUME SessionInv, NEW r \in Requests, Closed(r)
  PROVE  SessionInv'
<1> USE RequestsAssumption DEF Ending, Making
<1>a. /\ sessions \in Nat /\ cur \in Nat /\ 0 \notin Ids
      /\ cur # 0 => cur \in Ids
      /\ sessions # 0 => sessions \in Ids
  BY IdsType, NumbersAreIds DEF SessionInv
<1>1. TypeOK'
  BY <1>a, Parts, IdsType DEF Closed, To, const, TypeOK, HolderInv, Places, NoTurn
<1>2. sessions' <= Cardinality(Made')
  <2>1. Made \subseteq Made'
    BY Parts DEF Closed, To, const, HolderInv, Made, Makers, Places
  <2>2. sessions' = sessions
    BY DEF Closed
  <2> QED
    BY <2>1, <2>2, CountKept
<1>3. HolderInv'
  BY <1>a, Parts, KindsAssumption DEF Closed, To, const, HolderInv, Makers
<1>4. TurnInv'
  BY <1>a, Parts, Turns DEF Closed, To, HolderInv, TurnInv, NothingLeaked
<1>5. NothingLeaked'
  BY <1>a, Parts, Turns DEF Closed, To, HolderInv, TurnInv, NothingLeaked
<1>6. StepsInv'
  <2>a. cur \in Ids /\ smu[cur] = r /\ mu = r
    BY <1>a, Parts DEF Closed, HolderInv, StepsInv
  <2>b. /\ pc' = [pc EXCEPT ![r] = "cancel"] /\ mine' = mine
        /\ smu' = [smu EXCEPT ![cur] = 0]
    BY DEF Closed, To
  <2>1. ASSUME NEW q \in Requests
        PROVE  /\ pc'[q] \in {"got", "running", "tool"} => mine'[q] # 0
               /\ pc'[q] = "running" => smu'[mine'[q]] = q
               /\ pc'[q] = "closing" => smu'[cur'] = q
    <3>1. CASE q = r
      BY <3>1, <2>b, Parts
    <3>2. CASE q # r
      <4>1. pc'[q] = pc[q] /\ mine'[q] = mine[q] /\ pc[q] # "closing"
        BY <3>2, <2>a, <2>b, Parts
      <4>2. pc[q] = "running" => smu[mine[q]] = q /\ mine[q] \in Ids /\ mine[q] # cur
        BY <3>2, <2>a, <1>a, Parts DEF StepsInv
      <4>3. pc[q] \in {"got", "running", "tool"} => mine[q] # 0
        BY Parts DEF StepsInv
      <4> QED
        BY <4>1, <4>2, <4>3, <2>a, <2>b, Parts
    <3> QED
      BY <3>1, <3>2
  <2>2. ASSUME NEW i \in Ids, scenario'[i] = "closing"
        PROVE  mu' # 0 /\ pc'[mu'] = "closing" /\ cur' = i
    BY <2>2, <1>a, Parts DEF Closed, To, HolderInv, StepsInv
  <2> QED
    BY <2>1, <2>2 DEF StepsInv
<1> QED
  BY <1>1, <1>2, <1>3, <1>4, <1>5, <1>6 DEF SessionInv

LEMMA StopLeaseKeeps ==
  ASSUME SessionInv, NEW r \in Requests, StopLease(r)
  PROVE  SessionInv'
<1> USE RequestsAssumption DEF Ending, Making
<1>a. /\ sessions \in Nat /\ cur \in Nat /\ 0 \notin Ids
      /\ cur # 0 => cur \in Ids
      /\ sessions # 0 => sessions \in Ids
  BY IdsType, NumbersAreIds DEF SessionInv
<1>1. TypeOK'
  BY <1>a, Parts, IdsType DEF StopLease, To, const, TypeOK, HolderInv, Places, NoTurn
<1>2. sessions' <= Cardinality(Made')
  <2>1. Made \subseteq Made'
    BY Parts DEF StopLease, To, const, HolderInv, Made, Makers, Places
  <2>2. sessions' = sessions
    BY DEF StopLease
  <2> QED
    BY <2>1, <2>2, CountKept
<1>3. HolderInv'
  BY <1>a, Parts, KindsAssumption DEF StopLease, To, const, HolderInv, Makers
<1>4. TurnInv'
  BY <1>a, Parts, Turns DEF StopLease, To, HolderInv, TurnInv, NothingLeaked
<1>5. NothingLeaked'
  BY <1>a, Parts, Turns DEF StopLease, To, HolderInv, TurnInv, NothingLeaked
<1>6. StepsInv'
  BY <1>a, Parts DEF StopLease, To, HolderInv, StepsInv
<1> QED
  BY <1>1, <1>2, <1>3, <1>4, <1>5, <1>6 DEF SessionInv

LEMMA CloseEngineKeeps ==
  ASSUME SessionInv, NEW r \in Requests, CloseEngine(r)
  PROVE  SessionInv'
<1> USE RequestsAssumption DEF Ending, Making
<1>a. /\ sessions \in Nat /\ cur \in Nat /\ 0 \notin Ids
      /\ cur # 0 => cur \in Ids
      /\ sessions # 0 => sessions \in Ids
  BY IdsType, NumbersAreIds DEF SessionInv
<1>1. /\ pc[r] = "close engine" /\ mu = r /\ cur \in Ids
      /\ ended(r) /\ engine' = engine \ {cur} /\ cur' = 0
      /\ UNCHANGED <<const, mine, sessions, scenario, smu, turn>>
  BY <1>a, Parts DEF CloseEngine, HolderInv
<1>2. PICK p \in {"live", "queue", "returned"} :
        /\ pc' = [pc EXCEPT ![r] = p]
        /\ p = "live" => kind[r] = "restart" /\ mu' = mu
        /\ p # "live" => mu' = 0
  BY <1>1, EndedGoesOn
<1>3. TypeOK'
  <2>1. pc' \in [Requests -> Places] /\ mu' \in Requests \cup {0}
    BY <1>1, <1>2, Parts DEF Places
  <2>2. \A q \in Requests : pc'[q] \in Ending \cup Making \cup {"live"} <=> mu' = q
    BY <1>1, <1>2, Parts
  <2>3. cur' \in 0..sessions'
    <3>1. cur' = 0 /\ sessions' = sessions
      BY <1>1
    <3> QED
      BY <3>1, <1>a
  <2>4. engine' \subseteq Ids
    BY <1>1, Parts
  <2> QED
    BY <1>1, <2>1, <2>2, <2>3, <2>4, Parts DEF TypeOK, const
<1>4. sessions' <= Cardinality(Made')
  <2>1. Made \subseteq Made'
    BY <1>1, <1>2, Parts DEF const, Made
  <2> QED
    BY <1>1, <2>1, CountKept
<1>5. HolderInv'
  <2>1. ASSUME NEW q \in Requests
        PROVE  pc'[q] \notin {"closing", "cancel", "close engine"} \cup Making
    BY <1>1, <1>2, Parts
  <2>2. ASSUME NEW q \in Requests
        PROVE  /\ pc'[q] = "live" => kind'[q] \in Makers
               /\ pc'[q] = "end call" => kind'[q] = "run"
    BY <1>1, <1>2, Parts DEF HolderInv, Makers, const
  <2> QED
    BY <2>1, <2>2 DEF HolderInv
<1>6. NothingLeaked'
  <2>1. engine' = {}
    BY <1>1, Parts DEF NothingLeaked
  <2>2. \A i \in Ids : turn # Session(i)
    BY <1>1, Parts DEF NothingLeaked, TurnInv
  <2> QED
    BY <1>1, <2>1, <2>2 DEF NothingLeaked
<1>7. TurnInv'
  BY <1>1, <1>2, Parts DEF TurnInv
<1>8. StepsInv'
  <2>1. ASSUME NEW i \in Ids PROVE scenario[i] # "closing"
    BY <1>1, Parts DEF StepsInv
  <2>2. ASSUME NEW q \in Requests PROVE pc'[q] # "closing"
    BY <1>1, <1>2, Parts
  <2>3. ASSUME NEW q \in Requests
        PROVE  /\ pc'[q] \in {"got", "running", "tool"} => mine'[q] # 0
               /\ pc'[q] = "running" => smu'[mine'[q]] = q
    BY <1>1, <1>2, Parts DEF StepsInv
  <2> QED
    BY <1>1, <2>1, <2>2, <2>3 DEF StepsInv
<1> QED
  BY <1>3, <1>4, <1>5, <1>6, <1>7, <1>8 DEF SessionInv

LEMMA LiveKeeps ==
  ASSUME SessionInv, NEW r \in Requests, Live(r)
  PROVE  SessionInv'
<1> USE RequestsAssumption DEF Ending, Making
<1>a. /\ sessions \in Nat /\ cur \in Nat /\ 0 \notin Ids
      /\ cur # 0 => cur \in Ids
      /\ sessions # 0 => sessions \in Ids
  BY IdsType, NumbersAreIds DEF SessionInv
<1>b. pc[r] = "live" /\ mu = r /\ kind[r] \in Makers
  BY Parts DEF Live, HolderInv
<1>c. Made' \subseteq Requests /\ IsFiniteSet(Made')
  BY FS_Subset DEF Made
<1>1. CASE /\ cur # 0
           /\ mine' = [mine EXCEPT ![r] = cur]
           /\ pc' = [pc EXCEPT ![r] = "got"] /\ mu' = 0
           /\ UNCHANGED <<const, cur, sessions, scenario, smu, engine, turn>>
  <2>1. TypeOK'
    <3>1. pc' \in [Requests -> Places] /\ mine' \in [Requests -> Ids \cup {0}]
      BY <1>1, <1>a, Parts DEF Places
    <3>2. \A q \in Requests : pc'[q] \in Ending \cup Making \cup {"live"} <=> mu' = q
      BY <1>1, <1>b, Parts
    <3> QED
      BY <1>1, <3>1, <3>2, Parts DEF TypeOK, const
  <2>2. sessions' <= Cardinality(Made')
    <3>1. Made \subseteq Made'
      BY <1>1, <1>b, Parts DEF const, Made
    <3> QED
      BY <1>1, <3>1, CountKept
  <2>3. HolderInv' /\ TurnInv'
    BY <1>1, <1>b, Parts DEF HolderInv, TurnInv, Makers, const
  <2>4. NothingLeaked'
    BY <1>1, <1>b, Parts DEF NothingLeaked
  <2>5. StepsInv'
    BY <1>1, <1>b, Parts DEF StepsInv
  <2> QED
    BY <2>1, <2>2, <2>3, <2>4, <2>5 DEF SessionInv
<1>2. CASE /\ cur = 0
           /\ sessions' = sessions + 1 /\ engine' = engine \cup {sessions'}
           /\ pc' = [pc EXCEPT ![r] = "open"]
           /\ UNCHANGED <<const, mu, mine, cur, scenario, smu, turn>>
  <2>1. sessions' <= Cardinality(Made')
    <3>1. r \notin Made /\ Made \cup {r} \subseteq Made' /\ IsFiniteSet(Made)
      <4>1. r \notin Made /\ Made \subseteq Requests
        BY <1>b DEF Made
      <4>2. Made \cup {r} \subseteq Made'
        BY <1>2, <1>b, Parts DEF const, Made
      <4> QED
        BY <4>1, <4>2, FS_Subset
    <3>2. Cardinality(Made \cup {r}) = Cardinality(Made) + 1
      BY <3>1, FS_AddElement
    <3>3. Cardinality(Made \cup {r}) <= Cardinality(Made')
      BY <3>1, <1>c, FS_Subset
    <3>4. Cardinality(Made) \in Nat /\ Cardinality(Made') \in Nat
      BY <3>1, <1>c, FS_CardinalityType
    <3>5. sessions <= Cardinality(Made)
      BY DEF SessionInv
    <3> QED
      BY <1>2, <1>a, <3>2, <3>3, <3>4, <3>5
  <2>2. sessions' \in Ids /\ sessions' \in 0..Cardinality(Requests)
    <3>1. Cardinality(Made') <= Cardinality(Requests)
      BY <1>c, FS_Subset
    <3>2. Cardinality(Made') \in Nat
      BY <1>c, FS_CardinalityType
    <3> QED
      BY <1>2, <1>a, <2>1, <3>1, <3>2, IdsType DEF Ids
  <2>3. TypeOK'
    <3>1. pc' \in [Requests -> Places] /\ engine' \subseteq Ids
      BY <1>2, <2>2, Parts DEF Places
    <3>2. \A q \in Requests : pc'[q] \in Ending \cup Making \cup {"live"} <=> mu' = q
      BY <1>2, <1>b, Parts
    <3>3. cur' \in 0..sessions'
      BY <1>2, <1>a
    <3> QED
      BY <1>2, <2>2, <3>1, <3>2, <3>3, Parts DEF TypeOK, const
  <2>4. engine = {} /\ \A i \in Ids : turn # Session(i)
    BY <1>2, <1>a, <1>b, Parts DEF NothingLeaked
  <2>5. HolderInv'
    <3>1. sessions' # 0
      BY <1>2, <1>a
    <3> QED
      BY <1>2, <1>b, <3>1, Parts DEF HolderInv, Makers, const
  <2>6. TurnInv' /\ NothingLeaked'
    BY <1>2, <1>b, <2>4, Parts DEF TurnInv, NothingLeaked
  <2>7. StepsInv'
    BY <1>2, <1>b, Parts DEF StepsInv
  <2> QED
    BY <2>1, <2>3, <2>5, <2>6, <2>7 DEF SessionInv
<1>3. CASE /\ cur = 0
           /\ pc' = [pc EXCEPT ![r] = "returned"] /\ mu' = 0
           /\ UNCHANGED <<const, mine, cur, sessions, scenario, smu, engine, turn>>
  <2>1. TypeOK'
    <3>1. pc' \in [Requests -> Places]
      BY <1>3, Parts DEF Places
    <3>2. \A q \in Requests : pc'[q] \in Ending \cup Making \cup {"live"} <=> mu' = q
      BY <1>3, <1>b, Parts
    <3> QED
      BY <1>3, <3>1, <3>2, Parts DEF TypeOK, const
  <2>2. sessions' <= Cardinality(Made')
    <3>1. Made \subseteq Made'
      BY <1>3, <1>b, Parts DEF const, Made
    <3> QED
      BY <1>3, <3>1, CountKept
  <2>3. HolderInv' /\ TurnInv'
    BY <1>3, <1>b, Parts DEF HolderInv, TurnInv, Makers, const
  <2>4. NothingLeaked'
    BY <1>3, <1>b, Parts DEF NothingLeaked
  <2>5. StepsInv'
    BY <1>3, <1>b, Parts DEF StepsInv
  <2> QED
    BY <2>1, <2>2, <2>3, <2>4, <2>5 DEF SessionInv
<1> QED
  BY <1>1, <1>2, <1>3 DEF Live, To, Unlock

LEMMA OpenKeeps ==
  ASSUME SessionInv, NEW r \in Requests, Open(r)
  PROVE  SessionInv'
<1> USE RequestsAssumption DEF Ending, Making
<1>a. /\ sessions \in Nat /\ cur \in Nat /\ 0 \notin Ids
      /\ cur # 0 => cur \in Ids
      /\ sessions # 0 => sessions \in Ids
  BY IdsType, NumbersAreIds DEF SessionInv
<1>1. TypeOK'
  <2>1. kind' \in [Requests -> Kinds] /\ hosted' \in BOOLEAN /\ pc' \in [Requests -> Places]
    BY Parts DEF Open, To, const, Places
  <2>2. mine' \in [Requests -> Ids \cup {0}]
    BY <1>a, Parts DEF Open, To, HolderInv
  <2>3. scenario' \in [Ids -> {"none", "open", "closing", "closed"}]
    BY <1>a, Parts DEF Open, To, HolderInv
  <2>4. smu' \in [Ids -> Requests \cup {0}]
    BY <1>a, Parts DEF Open, To, HolderInv
  <2>5. mu' \in Requests \cup {0}
    BY Parts DEF Open, To
  <2>6. \A q \in Requests : pc'[q] \in Ending \cup Making \cup {"live"} <=> mu' = q
    BY Parts DEF Open, To
  <2>7. sessions' \in 0..Cardinality(Requests) /\ cur' \in 0..sessions'
    BY <1>a, IdsType, Parts DEF Open, To
  <2>8. engine' \subseteq Ids
    BY Parts DEF Open, To
  <2>9. turn' \in {NoTurn} \cup {Session(i) : i \in Ids} \cup {Run(q) : q \in Requests}
    BY <1>a, Parts DEF Open, To, HolderInv
  <2> QED
    BY <2>1, <2>2, <2>3, <2>4, <2>5, <2>6, <2>7, <2>8, <2>9 DEF TypeOK
<1>2. sessions' <= Cardinality(Made')
  <2>1. Made \subseteq Made'
    BY Parts DEF Open, To, const, HolderInv, Made, Makers, Places
  <2>2. sessions' = sessions
    BY DEF Open
  <2> QED
    BY <2>1, <2>2, CountKept
<1>3. HolderInv'
  BY <1>a, Parts, KindsAssumption DEF Open, To, const, HolderInv, Makers
<1>4. TurnInv'
  BY <1>a, Parts, Turns DEF Open, To, HolderInv, TurnInv, NothingLeaked
<1>5. NothingLeaked'
  BY <1>a, Parts, Turns DEF Open, To, HolderInv, TurnInv, NothingLeaked
<1>6. StepsInv'
  BY <1>a, Parts DEF Open, To, HolderInv, StepsInv
<1> QED
  BY <1>1, <1>2, <1>3, <1>4, <1>5, <1>6 DEF SessionInv

LEMMA StartedKeeps ==
  ASSUME SessionInv, NEW r \in Requests, Started(r)
  PROVE  SessionInv'
<1> USE RequestsAssumption DEF Ending, Making
<1>a. /\ sessions \in Nat /\ cur \in Nat /\ 0 \notin Ids
      /\ cur # 0 => cur \in Ids
      /\ sessions # 0 => sessions \in Ids
  BY IdsType, NumbersAreIds DEF SessionInv
<1>1. TypeOK'
  <2>1. kind' \in [Requests -> Kinds] /\ hosted' \in BOOLEAN /\ pc' \in [Requests -> Places]
    BY Parts DEF Started, To, Unlock, const, Places
  <2>2. mine' \in [Requests -> Ids \cup {0}]
    BY <1>a, Parts DEF Started, To, Unlock, HolderInv
  <2>3. scenario' \in [Ids -> {"none", "open", "closing", "closed"}]
    BY <1>a, Parts DEF Started, To, Unlock, HolderInv
  <2>4. smu' \in [Ids -> Requests \cup {0}]
    BY <1>a, Parts DEF Started, To, Unlock, HolderInv
  <2>5. mu' \in Requests \cup {0}
    BY Parts DEF Started, To, Unlock
  <2>6. \A q \in Requests : pc'[q] \in Ending \cup Making \cup {"live"} <=> mu' = q
    BY Parts DEF Started, To, Unlock
  <2>7. sessions' \in 0..Cardinality(Requests) /\ cur' \in 0..sessions'
    <3>1. sessions' = sessions /\ cur' = sessions
      BY DEF Started
    <3>2. sessions' \in 0..Cardinality(Requests)
      BY <3>1, Parts
    <3>3. cur' \in 0..sessions'
      BY <3>1, <1>a
    <3> QED
      BY <3>2, <3>3
  <2>8. engine' \subseteq Ids
    BY Parts DEF Started, To, Unlock
  <2>9. turn' \in {NoTurn} \cup {Session(i) : i \in Ids} \cup {Run(q) : q \in Requests}
    BY <1>a, Parts DEF Started, To, Unlock, HolderInv
  <2> QED
    BY <2>1, <2>2, <2>3, <2>4, <2>5, <2>6, <2>7, <2>8, <2>9 DEF TypeOK
<1>2. sessions' <= Cardinality(Made')
  <2>1. Made \subseteq Made'
    BY Parts DEF Started, To, Unlock, const, HolderInv, Made, Makers, Places
  <2>2. sessions' = sessions
    BY DEF Started
  <2> QED
    BY <2>1, <2>2, CountKept
<1>3. HolderInv'
  BY <1>a, Parts, KindsAssumption DEF Started, To, Unlock, const, HolderInv, Makers
<1>4. TurnInv'
  BY <1>a, Parts, Turns DEF Started, To, Unlock, HolderInv, TurnInv, NothingLeaked
<1>5. NothingLeaked'
  BY <1>a, Parts, Turns DEF Started, To, Unlock, HolderInv, TurnInv, NothingLeaked
<1>6. StepsInv'
  <2>1. ASSUME NEW q \in Requests
        PROVE  /\ pc'[q] \in {"got", "running", "tool"} => mine'[q] # 0
               /\ pc'[q] = "running" => smu'[mine'[q]] = q
               /\ pc'[q] = "closing" => smu'[cur'] = q
    BY <1>a, Parts DEF Started, To, Unlock, HolderInv, StepsInv
  <2>2. ASSUME NEW i \in Ids, scenario'[i] = "closing"
        PROVE  mu' # 0 /\ pc'[mu'] = "closing" /\ cur' = i
    BY <2>2, <1>a, Parts DEF Started, To, Unlock, HolderInv, StepsInv
  <2> QED
    BY <2>1, <2>2 DEF StepsInv
<1> QED
  BY <1>1, <1>2, <1>3, <1>4, <1>5, <1>6 DEF SessionInv

LEMMA NotStartedKeeps ==
  ASSUME SessionInv, NEW r \in Requests, NotStarted(r)
  PROVE  SessionInv'
<1> USE RequestsAssumption DEF Ending, Making
<1>a. /\ sessions \in Nat /\ cur \in Nat /\ 0 \notin Ids
      /\ cur # 0 => cur \in Ids
      /\ sessions # 0 => sessions \in Ids
  BY IdsType, NumbersAreIds DEF SessionInv
<1>1. TypeOK'
  BY <1>a, Parts, IdsType DEF NotStarted, To, Unlock, const, TypeOK, HolderInv, Places, NoTurn
<1>2. sessions' <= Cardinality(Made')
  <2>1. Made \subseteq Made'
    BY Parts DEF NotStarted, To, Unlock, const, HolderInv, Made, Makers, Places
  <2>2. sessions' = sessions
    BY DEF NotStarted
  <2> QED
    BY <2>1, <2>2, CountKept
<1>3. HolderInv'
  BY <1>a, Parts, KindsAssumption DEF NotStarted, To, Unlock, const, HolderInv, Makers
<1>4. TurnInv'
  BY <1>a, Parts, Turns DEF NotStarted, To, Unlock, HolderInv, TurnInv, NothingLeaked
<1>5. NothingLeaked'
  BY <1>a, Parts, Turns DEF NotStarted, To, Unlock, HolderInv, TurnInv, NothingLeaked
<1>6. StepsInv'
  BY <1>a, Parts DEF NotStarted, To, Unlock, HolderInv, StepsInv
<1> QED
  BY <1>1, <1>2, <1>3, <1>4, <1>5, <1>6 DEF SessionInv

LEMMA StepsStartKeeps ==
  ASSUME SessionInv, NEW r \in Requests, StepsStart(r)
  PROVE  SessionInv'
<1> USE RequestsAssumption DEF Ending, Making
<1>a. /\ sessions \in Nat /\ cur \in Nat /\ 0 \notin Ids
      /\ cur # 0 => cur \in Ids
      /\ sessions # 0 => sessions \in Ids
  BY IdsType, NumbersAreIds DEF SessionInv
<1>1. TypeOK'
  <2>1. kind' \in [Requests -> Kinds] /\ hosted' \in BOOLEAN /\ pc' \in [Requests -> Places]
    BY Parts DEF StepsStart, To, const, Places
  <2>2. mine' \in [Requests -> Ids \cup {0}]
    BY <1>a, Parts DEF StepsStart, To, HolderInv
  <2>3. scenario' \in [Ids -> {"none", "open", "closing", "closed"}]
    BY <1>a, Parts DEF StepsStart, To, HolderInv
  <2>4. smu' \in [Ids -> Requests \cup {0}]
    BY <1>a, Parts DEF StepsStart, To, HolderInv
  <2>5. mu' \in Requests \cup {0}
    BY Parts DEF StepsStart, To
  <2>6. \A q \in Requests : pc'[q] \in Ending \cup Making \cup {"live"} <=> mu' = q
    BY Parts DEF StepsStart, To
  <2>7. sessions' \in 0..Cardinality(Requests) /\ cur' \in 0..sessions'
    BY <1>a, IdsType, Parts DEF StepsStart, To
  <2>8. engine' \subseteq Ids
    BY Parts DEF StepsStart, To
  <2>9. turn' \in {NoTurn} \cup {Session(i) : i \in Ids} \cup {Run(q) : q \in Requests}
    BY <1>a, Parts DEF StepsStart, To, HolderInv
  <2> QED
    BY <2>1, <2>2, <2>3, <2>4, <2>5, <2>6, <2>7, <2>8, <2>9 DEF TypeOK
<1>2. sessions' <= Cardinality(Made')
  <2>1. Made \subseteq Made'
    BY Parts DEF StepsStart, To, const, HolderInv, Made, Makers, Places
  <2>2. sessions' = sessions
    BY DEF StepsStart
  <2> QED
    BY <2>1, <2>2, CountKept
<1>3. HolderInv'
  BY <1>a, Parts, KindsAssumption DEF StepsStart, To, const, HolderInv, Makers
<1>4. TurnInv'
  BY <1>a, Parts, Turns DEF StepsStart, To, HolderInv, TurnInv, NothingLeaked
<1>5. NothingLeaked'
  BY <1>a, Parts, Turns DEF StepsStart, To, HolderInv, TurnInv, NothingLeaked
<1>6. StepsInv'
  <2>a. mine[r] \in Ids /\ smu[mine[r]] = 0 /\ pc[r] = "got"
    BY <1>a, Parts DEF StepsStart, StepsInv
  <2>b. /\ pc' = [pc EXCEPT ![r] = "running"] /\ mine' = mine /\ cur' = cur
        /\ smu' = [smu EXCEPT ![mine[r]] = r]
    BY DEF StepsStart, To
  <2>1. ASSUME NEW q \in Requests
        PROVE  /\ pc'[q] \in {"got", "running", "tool"} => mine'[q] # 0
               /\ pc'[q] = "running" => smu'[mine'[q]] = q
               /\ pc'[q] = "closing" => smu'[cur'] = q
    <3>1. CASE q = r
      BY <3>1, <2>a, <2>b, <1>a, Parts
    <3>2. CASE q # r
      <4>1. pc'[q] = pc[q] /\ mine'[q] = mine[q]
        BY <3>2, <2>b, Parts
      <4>2. pc[q] = "running" => smu[mine[q]] = q /\ mine[q] \in Ids /\ mine[q] # mine[r]
        <5>1. pc[q] = "running" => smu[mine[q]] = q /\ mine[q] # 0
          BY Parts DEF StepsInv
        <5>2. mine[q] \in Ids \cup {0}
          BY Parts
        <5> QED
          BY <5>1, <5>2, <2>a
      <4>3. pc[q] = "closing" => smu[cur] = q /\ cur \in Ids /\ cur # mine[r]
        BY <2>a, <1>a, Parts DEF StepsInv, HolderInv
      <4>4. pc[q] \in {"got", "running", "tool"} => mine[q] # 0
        BY Parts DEF StepsInv
      <4> QED
        BY <4>1, <4>2, <4>3, <4>4, <2>a, <2>b, Parts
    <3> QED
      BY <3>1, <3>2
  <2>2. ASSUME NEW i \in Ids, scenario'[i] = "closing"
        PROVE  mu' # 0 /\ pc'[mu'] = "closing" /\ cur' = i
    BY <2>2, <1>a, Parts DEF StepsStart, To, HolderInv, StepsInv
  <2> QED
    BY <2>1, <2>2 DEF StepsInv
<1> QED
  BY <1>1, <1>2, <1>3, <1>4, <1>5, <1>6 DEF SessionInv

LEMMA StepsDoneKeeps ==
  ASSUME SessionInv, NEW r \in Requests, StepsDone(r)
  PROVE  SessionInv'
<1> USE RequestsAssumption DEF Ending, Making
<1>a. /\ sessions \in Nat /\ cur \in Nat /\ 0 \notin Ids
      /\ cur # 0 => cur \in Ids
      /\ sessions # 0 => sessions \in Ids
  BY IdsType, NumbersAreIds DEF SessionInv
<1>1. TypeOK'
  BY <1>a, Parts, IdsType DEF StepsDone, To, const, TypeOK, HolderInv, Places, NoTurn
<1>2. sessions' <= Cardinality(Made')
  <2>1. Made \subseteq Made'
    BY Parts DEF StepsDone, To, const, HolderInv, Made, Makers, Places
  <2>2. sessions' = sessions
    BY DEF StepsDone
  <2> QED
    BY <2>1, <2>2, CountKept
<1>3. HolderInv'
  BY <1>a, Parts, KindsAssumption DEF StepsDone, To, const, HolderInv, Makers
<1>4. TurnInv'
  BY <1>a, Parts, Turns DEF StepsDone, To, HolderInv, TurnInv, NothingLeaked
<1>5. NothingLeaked'
  BY <1>a, Parts, Turns DEF StepsDone, To, HolderInv, TurnInv, NothingLeaked
<1>6. StepsInv'
  <2>1. ASSUME NEW q \in Requests
        PROVE  /\ pc'[q] \in {"got", "running", "tool"} => mine'[q] # 0
               /\ pc'[q] = "running" => smu'[mine'[q]] = q
               /\ pc'[q] = "closing" => smu'[cur'] = q
    BY <1>a, Parts DEF StepsDone, To, HolderInv, StepsInv
  <2>2. ASSUME NEW i \in Ids, scenario'[i] = "closing"
        PROVE  mu' # 0 /\ pc'[mu'] = "closing" /\ cur' = i
    BY <2>2, <1>a, Parts DEF StepsDone, To, HolderInv, StepsInv
  <2> QED
    BY <2>1, <2>2 DEF StepsInv
<1> QED
  BY <1>1, <1>2, <1>3, <1>4, <1>5, <1>6 DEF SessionInv

LEMMA EndCallKeeps ==
  ASSUME SessionInv, NEW r \in Requests, EndCall(r)
  PROVE  SessionInv'
<1> USE RequestsAssumption DEF Ending, Making
<1>a. /\ sessions \in Nat /\ cur \in Nat /\ 0 \notin Ids
      /\ cur # 0 => cur \in Ids
      /\ sessions # 0 => sessions \in Ids
  BY IdsType, NumbersAreIds DEF SessionInv
<1>1. TypeOK'
  BY <1>a, Parts, IdsType DEF EndCall, To, const, TypeOK, HolderInv, Places, NoTurn
<1>2. sessions' <= Cardinality(Made')
  <2>1. Made \subseteq Made'
    BY Parts DEF EndCall, To, const, HolderInv, Made, Makers, Places
  <2>2. sessions' = sessions
    BY DEF EndCall
  <2> QED
    BY <2>1, <2>2, CountKept
<1>3. HolderInv'
  BY <1>a, Parts, KindsAssumption DEF EndCall, To, const, HolderInv, Makers
<1>4. TurnInv'
  BY <1>a, Parts, Turns DEF EndCall, To, HolderInv, TurnInv, NothingLeaked
<1>5. NothingLeaked'
  BY <1>a, Parts, Turns DEF EndCall, To, HolderInv, TurnInv, NothingLeaked
<1>6. StepsInv'
  BY <1>a, Parts DEF EndCall, To, HolderInv, StepsInv
<1> QED
  BY <1>1, <1>2, <1>3, <1>4, <1>5, <1>6 DEF SessionInv

LEMMA SessionStep == SessionInv /\ [Next]_vars => SessionInv'
<1> SUFFICES ASSUME SessionInv, [Next]_vars PROVE SessionInv'
  OBVIOUS
<1>1. ASSUME NEW r \in Requests, Handle(r) PROVE SessionInv'
  BY <1>1, LockKeeps, CloseKeeps, ClosedKeeps, StopLeaseKeeps, CloseEngineKeeps,
     LiveKeeps, OpenKeeps, StartedKeeps, StepsStartKeeps, StepsDoneKeeps, ToolKeeps,
     hostLeasedKeeps, EndCallKeeps, RunStartsKeeps, RunDoneKeeps DEF Handle
<1>2. ASSUME NEW r \in Requests, Fail(r) PROVE SessionInv'
  BY <1>2, NoStepsKeeps, NotStartedKeeps DEF Fail
<1>3. CASE UNCHANGED vars
  <2>1. TypeOK' /\ Made' = Made
    BY <1>3 DEF SessionInv, TypeOK, vars, const, Made
  <2>2. HolderInv' /\ TurnInv' /\ NothingLeaked' /\ StepsInv'
    BY <1>3 DEF SessionInv, HolderInv, TurnInv, NothingLeaked, StepsInv, vars, const
  <2> QED
    BY <1>3, <2>1, <2>2 DEF SessionInv, vars
<1> QED
  BY <1>1, <1>2, <1>3 DEF Next

\* The agent's session keeps SessionInv: what the holder of agentSession.mu
\* knows, and what Session.mu protects, at every place of every request.
THEOREM SessionInvariant == Spec => []SessionInv
BY SessionInit, SessionStep, PTL DEF Spec

-----------------------------------------------------------------------------
\* live, endLocked, Session.Run and Session.Close keep the types of the
\* session, and mu is held exactly by the request that makes or ends it.
THEOREM SessionTypeCorrect == Spec => []TypeOK
<1>1. SessionInv => TypeOK
  BY DEF SessionInv
<1> QED
  BY <1>1, SessionInvariant, PTL

\* For any number of requests, whichever fail: an open engine, and the services
\* leased for it, are those of the session that end closes, or of the one live
\* is making.
THEOREM SessionLeaksNothing == Spec => []NothingLeaked
<1>1. SessionInv => NothingLeaked
  BY DEF SessionInv
<1> QED
  BY <1>1, SessionInvariant, PTL

\* For any number of requests: steps run beside no other steps of their session
\* and not while it is closed, because each of them holds Session.mu.
THEOREM SessionStepsAlone == Spec => []StepsAlone
<1>1. ASSUME SessionInv PROVE StepsAlone
  <2>1. ASSUME NEW r \in Requests, pc[r] = "running"
        PROVE  smu[mine[r]] = r /\ mine[r] \in Ids
    <3>1. smu[mine[r]] = r /\ mine[r] # 0
      BY <1>1, <2>1, Parts DEF StepsInv
    <3>2. mine[r] \in Ids \cup {0}
      BY <1>1, Parts
    <3> QED
      BY <3>1, <3>2
  <2>2. ASSUME NEW r \in Requests, pc[r] = "running", scenario[mine[r]] = "closing"
        PROVE  FALSE
    <3>1. mu # 0 /\ pc[mu] = "closing" /\ cur = mine[r]
      BY <1>1, <2>1, <2>2, Parts DEF StepsInv
    <3>2. smu[cur] = mu
      BY <1>1, <3>1, Parts DEF StepsInv
    <3> QED
      BY <2>1, <2>2, <3>1, <3>2
  <2> QED
    BY <2>1, <2>2 DEF StepsAlone
<1> QED
  BY <1>1, SessionInvariant, PTL
=============================================================================
