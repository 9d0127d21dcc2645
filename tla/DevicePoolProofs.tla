-------------------------- MODULE DevicePoolProofs --------------------------
(***************************************************************************)
(* For any number of scenarios, devices, apps and ports, whatever fails,   *)
(* exits, is interrupted or abandoned: the pool has at most max emulators, *)
(* no scenario has another's device, and none is lost or left running.     *)
(***************************************************************************)
EXTENDS DevicePool, FiniteSetTheorems, TLAPS

\* start is going on, and counted in pool.starts.
Starting == {"boot", "booting", "boot again", "booting again", "setup"}
\* The scenario's code has a device in hand.
Hand(s) == pc[s] \in {"booting", "boot again", "booting again", "setup"} \cup Beginning
\* That device is not one of the pool's.
Outside(s) == pc[s] \in {"booting", "boot again", "booting again", "setup"}
\* It is one of the pool's.
Inside(s) == pc[s] \in Beginning
\* Its emulator was started by the code that has it in hand.
Boots(s) == pc[s] \in {"booting", "booting again", "setup", "booting afresh"}
\* The scenario has not begun, or is over.
Ended(s) == pc[s] \in {"idle", "over"}
\* Code that was abandoned is at one of these places, or over.
Goes(s) == pc[s] \in Leasing \cup Beginning \cup {"end", "over"}

\* A device in hand was started, and a scenario that has none has none.
HandInv ==
  \A s \in Scenarios :
    IF Hand(s) THEN dev[s] \in Devices /\ emu[dev[s]] # "none" ELSE dev[s] = NoDev

\* Devices in hand, in use and free are apart.
ApartInv ==
  \A s \in Scenarios :
    /\ has[s] \cap free = {}
    /\ \A t \in Scenarios \ {s} : has[s] \cap has[t] = {}
    /\ Hand(s) => /\ dev[s] \notin free
                  /\ \A t \in Scenarios : dev[s] \notin has[t]
                  /\ \A t \in Scenarios \ {s} : Hand(t) => dev[s] # dev[t]

\* The pool's devices were started.
KnownInv ==
  /\ \A d \in free : emu[d] # "none"
  /\ \A s \in Scenarios : \A d \in has[s] : emu[d] # "none"

\* No two emulators that run have the same port.
PortsInv == \A d, e \in Devices : Running(d) /\ Running(e) /\ port[d] = port[e] => d = e

\* A device being deleted is not the pool's any more, and nobody else's.
DeletingInv ==
  \A s \in Scenarios : deleting[s] # NoDev =>
    /\ emu[deleting[s]] # "none"
    /\ deleting[s] \notin all \cup free
    /\ \A t \in Scenarios :
         /\ deleting[s] \notin has[t]
         /\ Hand(t) => dev[t] # deleting[s]
         /\ t # s => deleting[t] # deleting[s]

\* An emulator that runs is one of the pool's, is being deleted, or whoever
\* started it has it in hand.
RunningInv ==
  \A d \in Devices : Running(d) =>
    \/ d \in all \cup closing
    \/ \E s \in Scenarios : (dev[s] = d /\ Boots(s)) \/ deleting[s] = d

\* A device joins the pool when start is over, and leaves it to be deleted.
OutsideInv == \A s \in Scenarios : Outside(s) => dev[s] \notin all

\* The devices there are and those on their way.
CountInv == ~ closed => Cardinality(all) + starts <= max

\* What is over has no device, and the pool closes once no scenario has one but
\* in the hand of code that was abandoned.
FateInv ==
  \A s \in Scenarios :
    /\ Ended(s) => TornDown(s)
    /\ s \in abandoned => Goes(s)
    /\ closed => (s \in abandoned \/ Ended(s)) /\ TornDown(s)

\* The pool is empty once it is closed.
ClosedInv == IF closed THEN all = {} ELSE closing = {}

PoolInv ==
  /\ TypeOK /\ HandInv /\ ApartInv /\ KnownInv /\ PortsInv /\ RunningInv
  /\ OutsideInv /\ DeletingInv /\ CountInv /\ FateInv /\ ClosedInv /\ NoneLost

-----------------------------------------------------------------------------
(* Who moves, and how many start *)

\* s goes on to place; a lease that waits may look again meanwhile.
Moves(s, place) ==
  /\ pc' \in [Scenarios -> Places] /\ pc'[s] = place
  /\ \A t \in Scenarios \ {s} :
       pc'[t] = pc[t] \/ (pc[t] = "waiting" /\ pc'[t] = "look")

LEMMA ToMoves ==
  ASSUME TypeOK, NEW s \in Scenarios, NEW place \in Places, To(s, place)
  PROVE  Moves(s, place)
BY DEF To, Moves, TypeOK

LEMMA SignalMoves ==
  ASSUME TypeOK, NEW s \in Scenarios, NEW place \in Places, signal(s, place)
  PROVE  Moves(s, place)
<1>1. "look" \in Places
  BY DEF Places, Leasing
<1> QED
  BY <1>1 DEF signal, woken, Moves, TypeOK

StartingNow == {s \in Scenarios : pc[s] \in Starting}

LEMMA CountIs ==
  /\ starts = Cardinality({s \in Scenarios : pc[s] \in Leasing \ {"look", "waiting"}})
       <=> starts = Cardinality(StartingNow)
  /\ IsFiniteSet(StartingNow)
<1>1. Leasing \ {"look", "waiting"} = Starting
  BY DEF Leasing, Starting
<1> QED
  BY <1>1, FiniteAssumption, FS_Subset DEF StartingNow

\* pool.starts counts the scenarios in start, as one of them goes on.
LEMMA StartsCount ==
  ASSUME TypeOK, NEW s \in Scenarios, NEW place, Moves(s, place),
         starts' = IF pc[s] \in Starting
                   THEN IF place \in Starting THEN starts ELSE starts - 1
                   ELSE IF place \in Starting THEN starts + 1 ELSE starts
  PROVE  /\ starts \in Nat /\ starts' \in Nat
         /\ starts' = Cardinality({t \in Scenarios : pc'[t] \in Leasing \ {"look", "waiting"}})
<1>1. starts = Cardinality(StartingNow) /\ IsFiniteSet(StartingNow)
  BY CountIs DEF TypeOK
<1>2. StartingNow' = IF place \in Starting THEN StartingNow \cup {s} ELSE StartingNow \ {s}
  BY DEF StartingNow, Moves, Starting
<1>3. s \in StartingNow <=> pc[s] \in Starting
  BY DEF StartingNow
<1>4. starts \in Nat
  BY <1>1, FS_CardinalityType
<1>5. starts' = Cardinality(StartingNow') /\ IsFiniteSet(StartingNow')
  BY <1>1, <1>2, <1>3, <1>4, FS_AddElement, FS_RemoveElement
<1>6. {t \in Scenarios : pc'[t] \in Leasing \ {"look", "waiting"}} = StartingNow'
  BY DEF StartingNow, Starting, Leasing
<1> QED
  BY <1>4, <1>5, <1>6, FS_CardinalityType

LEMMA CountsAre ==
  ASSUME PoolInv
  PROVE  /\ IsFiniteSet(all) /\ Cardinality(all) \in Nat
         /\ starts \in Nat /\ max \in Nat
<1>1. IsFiniteSet(all)
  BY FiniteAssumption, FS_Subset DEF PoolInv, TypeOK
<1>2. starts \in Nat
  BY CountIs, FS_CardinalityType DEF PoolInv, TypeOK
<1>3. max \in Nat
  BY MaxAssumption DEF PoolInv, TypeOK
<1> QED
  BY <1>1, <1>2, <1>3, FS_CardinalityType

LEMMA PoolInit == Init => PoolInv
<1> SUFFICES ASSUME Init PROVE PoolInv
  OBVIOUS
<1>1. {s \in Scenarios : pc[s] \in Leasing \ {"look", "waiting"}} = {}
  BY DEF Init, Leasing
<1>2. TypeOK
  BY <1>1, FS_EmptySet, MaxAssumption DEF Init, TypeOK, Places
<1>3. HandInv /\ ApartInv /\ KnownInv /\ PortsInv /\ RunningInv /\ OutsideInv
  BY DEF Init, HandInv, ApartInv, KnownInv, PortsInv, RunningInv, OutsideInv, Running,
     Hand, Outside, Beginning
<1>5. DeletingInv
  BY DEF Init, DeletingInv
<1>4. CountInv /\ FateInv /\ ClosedInv /\ NoneLost
  BY FS_EmptySet, MaxAssumption DEF Init, CountInv, FateInv, TornDown, ClosedInv, NoneLost, Uses, Beginning
<1> QED
  BY <1>2, <1>3, <1>4, <1>5 DEF PoolInv

-----------------------------------------------------------------------------
(* What a step of s changes *)

\* A scenario is at a place like the one it was at.
Stays(t) ==
  /\ (Hand(t)' <=> Hand(t)) /\ (Outside(t)' <=> Outside(t)) /\ (Inside(t)' <=> Inside(t))
  /\ (Boots(t)' <=> Boots(t)) /\ (Ended(t)' <=> Ended(t)) /\ (Goes(t)' <=> Goes(t))

OthersStay(s) == \A t \in Scenarios \ {s} : Stays(t)

LEMMA MovesLeaves ==
  ASSUME NEW s \in Scenarios, NEW place, Moves(s, place)
  PROVE  OthersStay(s)
BY DEF Moves, OthersStay, Stays, Hand, Outside, Inside, Boots, Ended, Goes, Beginning, Leasing

\* An emulator that runs after the step is the pool's, in the hand of s, or
\* was running in another's.
LEMMA RunningKept ==
  ASSUME PoolInv, NEW s \in Scenarios, OthersStay(s), deleting' = deleting,
         \A t \in Scenarios \ {s} : dev'[t] = dev[t],
         \A d \in Devices : Running(d)' =>
           \/ d \in all' \cup closing'
           \/ dev'[s] = d /\ Boots(s)'
           \/ Running(d) /\ d \notin all \cup closing /\ ~ (dev[s] = d /\ Boots(s))
  PROVE  RunningInv'
<1> SUFFICES ASSUME NEW d \in Devices, Running(d)'
             PROVE  \/ d \in all' \cup closing'
                    \/ \E t \in Scenarios : (dev'[t] = d /\ Boots(t)') \/ deleting'[t] = d
  BY DEF RunningInv
<1>1. CASE d \in all' \cup closing' \/ (dev'[s] = d /\ Boots(s)')
  BY <1>1
<1>2. CASE Running(d) /\ d \notin all \cup closing /\ ~ (dev[s] = d /\ Boots(s))
  <2>1. PICK t \in Scenarios : (dev[t] = d /\ Boots(t)) \/ deleting[t] = d
    BY <1>2 DEF PoolInv, RunningInv
  <2>2. (dev'[t] = d /\ Boots(t)') \/ deleting'[t] = d
    BY <1>2, <2>1 DEF OthersStay, Stays
  <2> QED
    BY <2>2
<1> QED
  BY <1>1, <1>2

\* A step that deletes nothing keeps what is being deleted apart.
LEMMA DeletingKept ==
  ASSUME PoolInv, NEW s \in Scenarios, OthersStay(s), deleting' = deleting,
         \A t \in Scenarios \ {s} : dev'[t] = dev[t] /\ has'[t] = has[t],
         \A d \in Devices : emu[d] # "none" => emu'[d] # "none",
         \A t \in Scenarios : deleting[t] # NoDev =>
           deleting[t] \notin all' \cup free' \cup has'[s] /\ (Hand(s)' => dev'[s] # deleting[t])
  PROVE  DeletingInv'
<1> SUFFICES ASSUME NEW t \in Scenarios, deleting[t] # NoDev
             PROVE  /\ emu'[deleting[t]] # "none"
                    /\ deleting[t] \notin all' \cup free'
                    /\ \A u \in Scenarios : /\ deleting[t] \notin has'[u]
                                            /\ Hand(u)' => dev'[u] # deleting[t]
                                            /\ u # t => deleting[u] # deleting[t]
  BY DEF DeletingInv
<1>1. /\ deleting[t] \in Devices /\ emu[deleting[t]] # "none"
      /\ \A u \in Scenarios : /\ deleting[t] \notin has[u]
                              /\ Hand(u) => dev[u] # deleting[t]
                              /\ u # t => deleting[u] # deleting[t]
  BY DEF PoolInv, TypeOK, DeletingInv
<1>2. \A u \in Scenarios \ {s} : Hand(u)' => Hand(u) /\ dev'[u] = dev[u]
  BY DEF OthersStay, Stays
<1>3. \A u \in Scenarios : deleting[t] \notin has'[u] /\ (Hand(u)' => dev'[u] # deleting[t])
  BY <1>1, <1>2
<1> QED
  BY <1>1, <1>3

\* The devices the other scenarios use.
Others(s) == UNION {Uses(t) : t \in Scenarios \ {s}}

LEMMA UsesSplit ==
  ASSUME NEW s \in Scenarios
  PROVE  UNION {Uses(t) : t \in Scenarios} = Uses(s) \cup Others(s)
BY DEF Others

LEMMA UsesIs ==
  ASSUME NEW s
  PROVE  Uses(s) = has[s] \cup (IF Inside(s) THEN {dev[s]} ELSE {})
BY DEF Uses, Inside

LEMMA OthersApart ==
  ASSUME PoolInv, NEW s \in Scenarios
  PROVE  Uses(s) \cap Others(s) = {}
<1>1. \A t \in Scenarios : Inside(t) => Hand(t)
  BY DEF Inside, Hand
<1>2. \A t \in Scenarios \ {s} : Uses(s) \cap Uses(t) = {}
  BY <1>1, UsesIs DEF PoolInv, ApartInv
<1> QED
  BY <1>2 DEF Others

LEMMA OthersKept ==
  ASSUME NEW s \in Scenarios, OthersStay(s),
         \A t \in Scenarios \ {s} : dev'[t] = dev[t] /\ has'[t] = has[t]
  PROVE  Others(s)' = Others(s)
<1>1. \A t \in Scenarios \ {s} : Uses(t)' = Uses(t)
  BY DEF OthersStay, Stays, Uses, Inside
<1> QED
  BY <1>1 DEF Others

LEMMA NoneLostKept ==
  ASSUME PoolInv, NEW s \in Scenarios, OthersStay(s),
         \A t \in Scenarios \ {s} : dev'[t] = dev[t] /\ has'[t] = has[t],
         ~ closed' => all' = free' \cup Uses(s)' \cup Others(s)
  PROVE  NoneLost'
<1>1. Others(s)' = Others(s)
  BY OthersKept
<1>2. UNION {Uses(t)' : t \in Scenarios} = Uses(s)' \cup Others(s)'
  BY DEF Others
<1> QED
  BY <1>1, <1>2 DEF NoneLost

\* The pool's devices were started, those in use too.
LEMMA PoolKnown ==
  ASSUME PoolInv
  PROVE  \A d \in all : emu[d] # "none"
<1>1. \A t \in Scenarios : Inside(t) => Hand(t)
  BY DEF Inside, Hand
<1>2. \A t \in Scenarios : \A d \in Uses(t) : emu[d] # "none"
  BY <1>1, UsesIs DEF PoolInv, KnownInv, HandInv
<1> QED
  BY <1>2 DEF PoolInv, NoneLost, KnownInv, ClosedInv

\* The pool is open to a scenario that goes on and was not interrupted.
LEMMA StillOpen ==
  ASSUME PoolInv, NEW s \in Scenarios, s \notin interrupted, ~ Ended(s)
  PROVE  ~ closed
BY DEF PoolInv, TypeOK, FateInv

-----------------------------------------------------------------------------
(* The steps of a scenario *)

LEMMA LeaseKeeps ==
  ASSUME PoolInv, NEW s \in Scenarios, Lease(s)
  PROVE  PoolInv'
<1>a. /\ TypeOK /\ HandInv /\ ApartInv /\ KnownInv /\ PortsInv /\ RunningInv
      /\ OutsideInv /\ DeletingInv /\ CountInv /\ FateInv /\ ClosedInv /\ NoneLost
  BY DEF PoolInv
<1>d. /\ pc[s] \in {"idle", "using"}
      /\ s \notin interrupted /\ ~ closed
      /\ UNCHANGED <<max, free, all, starts, closed, closing, port, emu, dev, has, deleting, interrupted, abandoned>>
  BY DEF Lease, pool, emulators, hands, fate
<1>b. Moves(s, "look")
  BY <1>a, ToMoves DEF Lease, pool, emulators, hands, fate, Places, Leasing, Beginning
<1>c. /\ OthersStay(s)
      /\ ~ Hand(s) /\ ~ Outside(s) /\ ~ Inside(s) /\ ~ Boots(s) /\ ~ Goes(s)
      /\ ~ Hand(s)' /\ ~ Outside(s)' /\ ~ Inside(s)' /\ ~ Boots(s)' /\ ~ Ended(s)' /\ Goes(s)'
  BY <1>b, <1>d, MovesLeaves DEF Moves, Hand, Outside, Inside, Boots, Ended, Goes, Beginning, Leasing
<1>e. starts' = Cardinality({t \in Scenarios : pc'[t] \in Leasing \ {"look", "waiting"}})
  BY <1>a, <1>b, <1>d, StartsCount DEF Starting
<1>f. /\ Uses(s) = has[s] \cup (IF Inside(s) THEN {dev[s]} ELSE {})
      /\ Uses(s)' = has'[s] \cup (IF Inside(s)' THEN {dev'[s]} ELSE {})
      /\ Uses(s) \cap Others(s) = {}
      /\ ~ closed => all = free \cup Uses(s) \cup Others(s)
  BY <1>a, UsesIs, OthersApart, UsesSplit DEF NoneLost, Uses, Inside
<1>1. TypeOK'
  BY <1>a, <1>b, <1>d, <1>e DEF TypeOK, Moves
<1>2. HandInv'
  BY <1>a, <1>c, <1>d DEF HandInv, OthersStay, Stays, TypeOK
<1>3. ApartInv'
  BY <1>a, <1>c, <1>d DEF ApartInv, OthersStay, Stays, TypeOK
<1>4. KnownInv'
  BY <1>a, <1>c, <1>d DEF KnownInv, HandInv, TypeOK
<1>5. PortsInv'
  BY <1>a, <1>d DEF PortsInv, Running, TypeOK
<1>6. RunningInv'
  BY <1>a, <1>c, <1>d, RunningKept DEF Running, HandInv, TypeOK
<1>7. OutsideInv'
  BY <1>a, <1>c, <1>d DEF OutsideInv, OthersStay, Stays, HandInv, TypeOK
<1>8. CountInv'
  BY <1>a, <1>d DEF CountInv
<1>9. FateInv'
  BY <1>a, <1>c, <1>d DEF FateInv, TornDown, OthersStay, Stays, TypeOK
<1>10. ClosedInv'
  BY <1>a, <1>d DEF ClosedInv
<1>11. NoneLost'
  BY <1>a, <1>c, <1>d, <1>f, NoneLostKept DEF TypeOK
<1>12. DeletingInv'
  BY <1>a, <1>c, <1>d, DeletingKept DEF DeletingInv, TypeOK
<1> QED
  BY <1>1, <1>2, <1>3, <1>4, <1>5, <1>6, <1>7, <1>8, <1>9, <1>10, <1>11, <1>12 DEF PoolInv

LEMMA WaitEndsKeeps ==
  ASSUME PoolInv, NEW s \in Scenarios, WaitEnds(s)
  PROVE  PoolInv'
<1>a. /\ TypeOK /\ HandInv /\ ApartInv /\ KnownInv /\ PortsInv /\ RunningInv
      /\ OutsideInv /\ DeletingInv /\ CountInv /\ FateInv /\ ClosedInv /\ NoneLost
  BY DEF PoolInv
<1>d. /\ pc[s] = "waiting"
      /\ UNCHANGED <<max, free, all, starts, closed, closing, port, emu, dev, has, deleting, interrupted, abandoned>>
  BY DEF WaitEnds, pool, emulators, hands, fate
<1>b. Moves(s, "end")
  BY <1>a, ToMoves DEF WaitEnds, pool, emulators, hands, fate, Places, Leasing, Beginning
<1>c. /\ OthersStay(s)
      /\ ~ Hand(s) /\ ~ Outside(s) /\ ~ Inside(s) /\ ~ Boots(s) /\ ~ Ended(s) /\ Goes(s)
      /\ ~ Hand(s)' /\ ~ Outside(s)' /\ ~ Inside(s)' /\ ~ Boots(s)' /\ ~ Ended(s)' /\ Goes(s)'
  BY <1>b, <1>d, MovesLeaves DEF Moves, Hand, Outside, Inside, Boots, Ended, Goes, Beginning, Leasing
<1>e. starts' = Cardinality({t \in Scenarios : pc'[t] \in Leasing \ {"look", "waiting"}})
  BY <1>a, <1>b, <1>d, StartsCount DEF Starting
<1>f. /\ Uses(s) = has[s] \cup (IF Inside(s) THEN {dev[s]} ELSE {})
      /\ Uses(s)' = has'[s] \cup (IF Inside(s)' THEN {dev'[s]} ELSE {})
      /\ Uses(s) \cap Others(s) = {}
      /\ ~ closed => all = free \cup Uses(s) \cup Others(s)
  BY <1>a, UsesIs, OthersApart, UsesSplit DEF NoneLost, Uses, Inside
<1>1. TypeOK'
  BY <1>a, <1>b, <1>d, <1>e DEF TypeOK, Moves
<1>2. HandInv'
  BY <1>a, <1>c, <1>d DEF HandInv, OthersStay, Stays, TypeOK
<1>3. ApartInv'
  BY <1>a, <1>c, <1>d DEF ApartInv, OthersStay, Stays, TypeOK
<1>4. KnownInv'
  BY <1>a, <1>c, <1>d DEF KnownInv, HandInv, TypeOK
<1>5. PortsInv'
  BY <1>a, <1>d DEF PortsInv, Running, TypeOK
<1>6. RunningInv'
  BY <1>a, <1>c, <1>d, RunningKept DEF Running, HandInv, TypeOK
<1>7. OutsideInv'
  BY <1>a, <1>c, <1>d DEF OutsideInv, OthersStay, Stays, HandInv, TypeOK
<1>8. CountInv'
  BY <1>a, <1>d DEF CountInv
<1>9. FateInv'
  BY <1>a, <1>c, <1>d DEF FateInv, TornDown, OthersStay, Stays, TypeOK
<1>10. ClosedInv'
  BY <1>a, <1>d DEF ClosedInv
<1>11. NoneLost'
  BY <1>a, <1>c, <1>d, <1>f, NoneLostKept DEF TypeOK
<1>12. DeletingInv'
  BY <1>a, <1>c, <1>d, DeletingKept DEF DeletingInv, TypeOK
<1> QED
  BY <1>1, <1>2, <1>3, <1>4, <1>5, <1>6, <1>7, <1>8, <1>9, <1>10, <1>11, <1>12 DEF PoolInv

LEMMA DoneKeeps ==
  ASSUME PoolInv, NEW s \in Scenarios, Done(s)
  PROVE  PoolInv'
<1>a. /\ TypeOK /\ HandInv /\ ApartInv /\ KnownInv /\ PortsInv /\ RunningInv
      /\ OutsideInv /\ DeletingInv /\ CountInv /\ FateInv /\ ClosedInv /\ NoneLost
  BY DEF PoolInv
<1>d. /\ pc[s] = "using"
      /\ UNCHANGED <<max, free, all, starts, closed, closing, port, emu, dev, has, deleting, interrupted, abandoned>>
  BY DEF Done, pool, emulators, hands, fate
<1>b. Moves(s, "end")
  BY <1>a, ToMoves DEF Done, pool, emulators, hands, fate, Places, Leasing, Beginning
<1>c. /\ OthersStay(s)
      /\ ~ Hand(s) /\ ~ Outside(s) /\ ~ Inside(s) /\ ~ Boots(s) /\ ~ Ended(s) /\ ~ Goes(s)
      /\ ~ Hand(s)' /\ ~ Outside(s)' /\ ~ Inside(s)' /\ ~ Boots(s)' /\ ~ Ended(s)' /\ Goes(s)'
  BY <1>b, <1>d, MovesLeaves DEF Moves, Hand, Outside, Inside, Boots, Ended, Goes, Beginning, Leasing
<1>e. starts' = Cardinality({t \in Scenarios : pc'[t] \in Leasing \ {"look", "waiting"}})
  BY <1>a, <1>b, <1>d, StartsCount DEF Starting
<1>f. /\ Uses(s) = has[s] \cup (IF Inside(s) THEN {dev[s]} ELSE {})
      /\ Uses(s)' = has'[s] \cup (IF Inside(s)' THEN {dev'[s]} ELSE {})
      /\ Uses(s) \cap Others(s) = {}
      /\ ~ closed => all = free \cup Uses(s) \cup Others(s)
  BY <1>a, UsesIs, OthersApart, UsesSplit DEF NoneLost, Uses, Inside
<1>1. TypeOK'
  BY <1>a, <1>b, <1>d, <1>e DEF TypeOK, Moves
<1>2. HandInv'
  BY <1>a, <1>c, <1>d DEF HandInv, OthersStay, Stays, TypeOK
<1>3. ApartInv'
  BY <1>a, <1>c, <1>d DEF ApartInv, OthersStay, Stays, TypeOK
<1>4. KnownInv'
  BY <1>a, <1>c, <1>d DEF KnownInv, HandInv, TypeOK
<1>5. PortsInv'
  BY <1>a, <1>d DEF PortsInv, Running, TypeOK
<1>6. RunningInv'
  BY <1>a, <1>c, <1>d, RunningKept DEF Running, HandInv, TypeOK
<1>7. OutsideInv'
  BY <1>a, <1>c, <1>d DEF OutsideInv, OthersStay, Stays, HandInv, TypeOK
<1>8. CountInv'
  BY <1>a, <1>d DEF CountInv
<1>9. FateInv'
  BY <1>a, <1>c, <1>d DEF FateInv, TornDown, OthersStay, Stays, TypeOK
<1>10. ClosedInv'
  BY <1>a, <1>d DEF ClosedInv
<1>11. NoneLost'
  BY <1>a, <1>c, <1>d, <1>f, NoneLostKept DEF TypeOK
<1>12. DeletingInv'
  BY <1>a, <1>c, <1>d, DeletingKept DEF DeletingInv, TypeOK
<1> QED
  BY <1>1, <1>2, <1>3, <1>4, <1>5, <1>6, <1>7, <1>8, <1>9, <1>10, <1>11, <1>12 DEF PoolInv

LEMMA OverKeeps ==
  ASSUME PoolInv, NEW s \in Scenarios, Over(s)
  PROVE  PoolInv'
<1>a. /\ TypeOK /\ HandInv /\ ApartInv /\ KnownInv /\ PortsInv /\ RunningInv
      /\ OutsideInv /\ DeletingInv /\ CountInv /\ FateInv /\ ClosedInv /\ NoneLost
  BY DEF PoolInv
<1>d. /\ pc[s] = "end"
      /\ TornDown(s)
      /\ UNCHANGED <<max, free, all, starts, closed, closing, port, emu, dev, has, deleting, interrupted, abandoned>>
  BY DEF Over, pool, emulators, hands, fate
<1>b. Moves(s, "over")
  BY <1>a, ToMoves DEF Over, pool, emulators, hands, fate, Places, Leasing, Beginning
<1>c. /\ OthersStay(s)
      /\ ~ Hand(s) /\ ~ Outside(s) /\ ~ Inside(s) /\ ~ Boots(s) /\ ~ Ended(s) /\ Goes(s)
      /\ ~ Hand(s)' /\ ~ Outside(s)' /\ ~ Inside(s)' /\ ~ Boots(s)' /\ Ended(s)' /\ Goes(s)'
  BY <1>b, <1>d, MovesLeaves DEF Moves, Hand, Outside, Inside, Boots, Ended, Goes, Beginning, Leasing
<1>e. starts' = Cardinality({t \in Scenarios : pc'[t] \in Leasing \ {"look", "waiting"}})
  BY <1>a, <1>b, <1>d, StartsCount DEF Starting
<1>f. /\ Uses(s) = has[s] \cup (IF Inside(s) THEN {dev[s]} ELSE {})
      /\ Uses(s)' = has'[s] \cup (IF Inside(s)' THEN {dev'[s]} ELSE {})
      /\ Uses(s) \cap Others(s) = {}
      /\ ~ closed => all = free \cup Uses(s) \cup Others(s)
  BY <1>a, UsesIs, OthersApart, UsesSplit DEF NoneLost, Uses, Inside
<1>1. TypeOK'
  BY <1>a, <1>b, <1>d, <1>e DEF TypeOK, Moves
<1>2. HandInv'
  BY <1>a, <1>c, <1>d DEF HandInv, OthersStay, Stays, TypeOK
<1>3. ApartInv'
  BY <1>a, <1>c, <1>d DEF ApartInv, OthersStay, Stays, TypeOK
<1>4. KnownInv'
  BY <1>a, <1>c, <1>d DEF KnownInv, HandInv, TypeOK
<1>5. PortsInv'
  BY <1>a, <1>d DEF PortsInv, Running, TypeOK
<1>6. RunningInv'
  BY <1>a, <1>c, <1>d, RunningKept DEF Running, HandInv, TypeOK
<1>7. OutsideInv'
  BY <1>a, <1>c, <1>d DEF OutsideInv, OthersStay, Stays, HandInv, TypeOK
<1>8. CountInv'
  BY <1>a, <1>d DEF CountInv
<1>9. FateInv'
  BY <1>a, <1>c, <1>d DEF FateInv, TornDown, OthersStay, Stays, TypeOK
<1>10. ClosedInv'
  BY <1>a, <1>d DEF ClosedInv
<1>11. NoneLost'
  BY <1>a, <1>c, <1>d, <1>f, NoneLostKept DEF TypeOK
<1>12. DeletingInv'
  BY <1>a, <1>c, <1>d, DeletingKept DEF DeletingInv, TypeOK
<1> QED
  BY <1>1, <1>2, <1>3, <1>4, <1>5, <1>6, <1>7, <1>8, <1>9, <1>10, <1>11, <1>12 DEF PoolInv

LEMMA BootedKeeps ==
  ASSUME PoolInv, NEW s \in Scenarios, Booted(s)
  PROVE  PoolInv'
<1>a. /\ TypeOK /\ HandInv /\ ApartInv /\ KnownInv /\ PortsInv /\ RunningInv
      /\ OutsideInv /\ DeletingInv /\ CountInv /\ FateInv /\ ClosedInv /\ NoneLost
  BY DEF PoolInv
<1>d. /\ pc[s] \in {"booting", "booting again"}
      /\ emu[dev[s]] = "booting"
      /\ emu' = [emu EXCEPT ![dev[s]] = "up"]
      /\ UNCHANGED <<max, free, all, starts, closed, closing, port, dev, has, deleting, interrupted, abandoned>>
  BY DEF Booted, pool, emulators, hands, fate
<1>b. Moves(s, "setup")
  BY <1>a, ToMoves DEF Booted, pool, emulators, hands, fate, Places, Leasing, Beginning
<1>c. /\ OthersStay(s)
      /\ Hand(s) /\ Outside(s) /\ ~ Inside(s) /\ Boots(s) /\ ~ Ended(s) /\ Goes(s)
      /\ Hand(s)' /\ Outside(s)' /\ ~ Inside(s)' /\ Boots(s)' /\ ~ Ended(s)' /\ Goes(s)'
  BY <1>b, <1>d, MovesLeaves DEF Moves, Hand, Outside, Inside, Boots, Ended, Goes, Beginning, Leasing
<1>e. starts' = Cardinality({t \in Scenarios : pc'[t] \in Leasing \ {"look", "waiting"}})
  BY <1>a, <1>b, <1>d, StartsCount DEF Starting
<1>f. /\ Uses(s) = has[s] \cup (IF Inside(s) THEN {dev[s]} ELSE {})
      /\ Uses(s)' = has'[s] \cup (IF Inside(s)' THEN {dev'[s]} ELSE {})
      /\ Uses(s) \cap Others(s) = {}
      /\ ~ closed => all = free \cup Uses(s) \cup Others(s)
  BY <1>a, UsesIs, OthersApart, UsesSplit DEF NoneLost, Uses, Inside
<1>1. TypeOK'
  BY <1>a, <1>b, <1>d, <1>e DEF TypeOK, Moves
<1>2. HandInv'
  BY <1>a, <1>c, <1>d DEF HandInv, OthersStay, Stays, TypeOK
<1>3. ApartInv'
  BY <1>a, <1>c, <1>d DEF ApartInv, OthersStay, Stays, TypeOK
<1>4. KnownInv'
  BY <1>a, <1>c, <1>d DEF KnownInv, HandInv, TypeOK
<1>5. PortsInv'
  BY <1>a, <1>d DEF PortsInv, Running, TypeOK
<1>6. RunningInv'
  BY <1>a, <1>c, <1>d, RunningKept DEF Running, HandInv, TypeOK
<1>7. OutsideInv'
  BY <1>a, <1>c, <1>d DEF OutsideInv, OthersStay, Stays, HandInv, TypeOK
<1>8. CountInv'
  BY <1>a, <1>d DEF CountInv
<1>9. FateInv'
  BY <1>a, <1>c, <1>d DEF FateInv, TornDown, OthersStay, Stays, TypeOK
<1>10. ClosedInv'
  BY <1>a, <1>d DEF ClosedInv
<1>11. NoneLost'
  BY <1>a, <1>c, <1>d, <1>f, NoneLostKept DEF TypeOK
<1>12. DeletingInv'
  BY <1>a, <1>c, <1>d, DeletingKept DEF DeletingInv, TypeOK
<1> QED
  BY <1>1, <1>2, <1>3, <1>4, <1>5, <1>6, <1>7, <1>8, <1>9, <1>10, <1>11, <1>12 DEF PoolInv

LEMMA AfreshKeeps ==
  ASSUME PoolInv, NEW s \in Scenarios, Afresh(s)
  PROVE  PoolInv'
<1>a. /\ TypeOK /\ HandInv /\ ApartInv /\ KnownInv /\ PortsInv /\ RunningInv
      /\ OutsideInv /\ DeletingInv /\ CountInv /\ FateInv /\ ClosedInv /\ NoneLost
  BY DEF PoolInv
<1>d. /\ pc[s] = "begin"
      /\ emu' = [emu EXCEPT ![dev[s]] = "exited"]
      /\ UNCHANGED <<max, free, all, starts, closed, closing, port, dev, has, deleting, interrupted, abandoned>>
  BY DEF Afresh, pool, emulators, hands, fate
<1>b. Moves(s, "afresh")
  BY <1>a, ToMoves DEF Afresh, pool, emulators, hands, fate, Places, Leasing, Beginning
<1>c. /\ OthersStay(s)
      /\ Hand(s) /\ ~ Outside(s) /\ Inside(s) /\ ~ Boots(s) /\ ~ Ended(s) /\ Goes(s)
      /\ Hand(s)' /\ ~ Outside(s)' /\ Inside(s)' /\ ~ Boots(s)' /\ ~ Ended(s)' /\ Goes(s)'
  BY <1>b, <1>d, MovesLeaves DEF Moves, Hand, Outside, Inside, Boots, Ended, Goes, Beginning, Leasing
<1>e. starts' = Cardinality({t \in Scenarios : pc'[t] \in Leasing \ {"look", "waiting"}})
  BY <1>a, <1>b, <1>d, StartsCount DEF Starting
<1>f. /\ Uses(s) = has[s] \cup (IF Inside(s) THEN {dev[s]} ELSE {})
      /\ Uses(s)' = has'[s] \cup (IF Inside(s)' THEN {dev'[s]} ELSE {})
      /\ Uses(s) \cap Others(s) = {}
      /\ ~ closed => all = free \cup Uses(s) \cup Others(s)
  BY <1>a, UsesIs, OthersApart, UsesSplit DEF NoneLost, Uses, Inside
<1>1. TypeOK'
  BY <1>a, <1>b, <1>d, <1>e DEF TypeOK, Moves
<1>2. HandInv'
  BY <1>a, <1>c, <1>d DEF HandInv, OthersStay, Stays, TypeOK
<1>3. ApartInv'
  BY <1>a, <1>c, <1>d DEF ApartInv, OthersStay, Stays, TypeOK
<1>4. KnownInv'
  BY <1>a, <1>c, <1>d DEF KnownInv, HandInv, TypeOK
<1>5. PortsInv'
  BY <1>a, <1>d DEF PortsInv, Running, TypeOK
<1>6. RunningInv'
  BY <1>a, <1>c, <1>d, RunningKept DEF Running, HandInv, TypeOK
<1>7. OutsideInv'
  BY <1>a, <1>c, <1>d DEF OutsideInv, OthersStay, Stays, HandInv, TypeOK
<1>8. CountInv'
  BY <1>a, <1>d DEF CountInv
<1>9. FateInv'
  BY <1>a, <1>c, <1>d DEF FateInv, TornDown, OthersStay, Stays, TypeOK
<1>10. ClosedInv'
  BY <1>a, <1>d DEF ClosedInv
<1>11. NoneLost'
  BY <1>a, <1>c, <1>d, <1>f, NoneLostKept DEF TypeOK
<1>12. DeletingInv'
  BY <1>a, <1>c, <1>d, DeletingKept DEF DeletingInv, TypeOK
<1> QED
  BY <1>1, <1>2, <1>3, <1>4, <1>5, <1>6, <1>7, <1>8, <1>9, <1>10, <1>11, <1>12 DEF PoolInv

LEMMA AfreshOverKeeps ==
  ASSUME PoolInv, NEW s \in Scenarios, AfreshOver(s)
  PROVE  PoolInv'
<1>a. /\ TypeOK /\ HandInv /\ ApartInv /\ KnownInv /\ PortsInv /\ RunningInv
      /\ OutsideInv /\ DeletingInv /\ CountInv /\ FateInv /\ ClosedInv /\ NoneLost
  BY DEF PoolInv
<1>d. /\ pc[s] = "booting afresh"
      /\ emu[dev[s]] = "booting" /\ s \notin interrupted
      /\ emu' = [emu EXCEPT ![dev[s]] = "up"]
      /\ UNCHANGED <<max, free, all, starts, closed, closing, port, dev, has, deleting, interrupted, abandoned>>
  BY DEF AfreshOver, pool, emulators, hands, fate
<1>b. Moves(s, "ready")
  BY <1>a, ToMoves DEF AfreshOver, pool, emulators, hands, fate, Places, Leasing, Beginning
<1>c. /\ OthersStay(s)
      /\ Hand(s) /\ ~ Outside(s) /\ Inside(s) /\ Boots(s) /\ ~ Ended(s) /\ Goes(s)
      /\ Hand(s)' /\ ~ Outside(s)' /\ Inside(s)' /\ ~ Boots(s)' /\ ~ Ended(s)' /\ Goes(s)'
  BY <1>b, <1>d, MovesLeaves DEF Moves, Hand, Outside, Inside, Boots, Ended, Goes, Beginning, Leasing
<1>e. starts' = Cardinality({t \in Scenarios : pc'[t] \in Leasing \ {"look", "waiting"}})
  BY <1>a, <1>b, <1>d, StartsCount DEF Starting
<1>f. /\ Uses(s) = has[s] \cup (IF Inside(s) THEN {dev[s]} ELSE {})
      /\ Uses(s)' = has'[s] \cup (IF Inside(s)' THEN {dev'[s]} ELSE {})
      /\ Uses(s) \cap Others(s) = {}
      /\ ~ closed => all = free \cup Uses(s) \cup Others(s)
  BY <1>a, UsesIs, OthersApart, UsesSplit DEF NoneLost, Uses, Inside
<1>1. TypeOK'
  BY <1>a, <1>b, <1>d, <1>e DEF TypeOK, Moves
<1>2. HandInv'
  BY <1>a, <1>c, <1>d DEF HandInv, OthersStay, Stays, TypeOK
<1>3. ApartInv'
  BY <1>a, <1>c, <1>d DEF ApartInv, OthersStay, Stays, TypeOK
<1>4. KnownInv'
  BY <1>a, <1>c, <1>d DEF KnownInv, HandInv, TypeOK
<1>5. PortsInv'
  BY <1>a, <1>d DEF PortsInv, Running, TypeOK
<1>6. RunningInv'
  <2>1. dev[s] \in all
    BY <1>c, <1>d, <1>f, StillOpen
  <2> QED
    BY <1>a, <1>c, <1>d, <2>1, RunningKept DEF Running, HandInv, TypeOK
<1>7. OutsideInv'
  BY <1>a, <1>c, <1>d DEF OutsideInv, OthersStay, Stays, HandInv, TypeOK
<1>8. CountInv'
  BY <1>a, <1>d DEF CountInv
<1>9. FateInv'
  BY <1>a, <1>c, <1>d DEF FateInv, TornDown, OthersStay, Stays, TypeOK
<1>10. ClosedInv'
  BY <1>a, <1>d DEF ClosedInv
<1>11. NoneLost'
  BY <1>a, <1>c, <1>d, <1>f, NoneLostKept DEF TypeOK
<1>12. DeletingInv'
  BY <1>a, <1>c, <1>d, DeletingKept DEF DeletingInv, TypeOK
<1> QED
  BY <1>1, <1>2, <1>3, <1>4, <1>5, <1>6, <1>7, <1>8, <1>9, <1>10, <1>11, <1>12 DEF PoolInv

\* lease: the pool is closed.
LeaseEnds(s) ==
  /\ pc[s] = "look" /\ To(s, "end")
  /\ UNCHANGED <<max, free, all, starts, closed, closing, port, emu, dev, has, deleting, interrupted, abandoned>>

LEMMA LeaseEndsKeeps ==
  ASSUME PoolInv, NEW s \in Scenarios, LeaseEnds(s)
  PROVE  PoolInv'
<1>a. /\ TypeOK /\ HandInv /\ ApartInv /\ KnownInv /\ PortsInv /\ RunningInv
      /\ OutsideInv /\ DeletingInv /\ CountInv /\ FateInv /\ ClosedInv /\ NoneLost
  BY DEF PoolInv
<1>d. /\ pc[s] = "look"
      /\ UNCHANGED <<max, free, all, starts, closed, closing, port, emu, dev, has, deleting, interrupted, abandoned>>
  BY DEF LeaseEnds, pool, emulators, hands, fate
<1>b. Moves(s, "end")
  BY <1>a, ToMoves DEF LeaseEnds, pool, emulators, hands, fate, Places, Leasing, Beginning
<1>c. /\ OthersStay(s)
      /\ ~ Hand(s) /\ ~ Outside(s) /\ ~ Inside(s) /\ ~ Boots(s) /\ ~ Ended(s) /\ Goes(s)
      /\ ~ Hand(s)' /\ ~ Outside(s)' /\ ~ Inside(s)' /\ ~ Boots(s)' /\ ~ Ended(s)' /\ Goes(s)'
  BY <1>b, <1>d, MovesLeaves DEF Moves, Hand, Outside, Inside, Boots, Ended, Goes, Beginning, Leasing
<1>e. starts' = Cardinality({t \in Scenarios : pc'[t] \in Leasing \ {"look", "waiting"}})
  BY <1>a, <1>b, <1>d, StartsCount DEF Starting
<1>f. /\ Uses(s) = has[s] \cup (IF Inside(s) THEN {dev[s]} ELSE {})
      /\ Uses(s)' = has'[s] \cup (IF Inside(s)' THEN {dev'[s]} ELSE {})
      /\ Uses(s) \cap Others(s) = {}
      /\ ~ closed => all = free \cup Uses(s) \cup Others(s)
  BY <1>a, UsesIs, OthersApart, UsesSplit DEF NoneLost, Uses, Inside
<1>1. TypeOK'
  BY <1>a, <1>b, <1>d, <1>e DEF TypeOK, Moves
<1>2. HandInv'
  BY <1>a, <1>c, <1>d DEF HandInv, OthersStay, Stays, TypeOK
<1>3. ApartInv'
  BY <1>a, <1>c, <1>d DEF ApartInv, OthersStay, Stays, TypeOK
<1>4. KnownInv'
  BY <1>a, <1>c, <1>d DEF KnownInv, HandInv, TypeOK
<1>5. PortsInv'
  BY <1>a, <1>d DEF PortsInv, Running, TypeOK
<1>6. RunningInv'
  BY <1>a, <1>c, <1>d, RunningKept DEF Running, HandInv, TypeOK
<1>7. OutsideInv'
  BY <1>a, <1>c, <1>d DEF OutsideInv, OthersStay, Stays, HandInv, TypeOK
<1>8. CountInv'
  BY <1>a, <1>d DEF CountInv
<1>9. FateInv'
  BY <1>a, <1>c, <1>d DEF FateInv, TornDown, OthersStay, Stays, TypeOK
<1>10. ClosedInv'
  BY <1>a, <1>d DEF ClosedInv
<1>11. NoneLost'
  BY <1>a, <1>c, <1>d, <1>f, NoneLostKept DEF TypeOK
<1>12. DeletingInv'
  BY <1>a, <1>c, <1>d, DeletingKept DEF DeletingInv, TypeOK
<1> QED
  BY <1>1, <1>2, <1>3, <1>4, <1>5, <1>6, <1>7, <1>8, <1>9, <1>10, <1>11, <1>12 DEF PoolInv

\* lease: there is no room.
LeaseWaits(s) ==
  /\ pc[s] = "look" /\ To(s, "waiting")
  /\ UNCHANGED <<max, free, all, starts, closed, closing, port, emu, dev, has, deleting, interrupted, abandoned>>

LEMMA LeaseWaitsKeeps ==
  ASSUME PoolInv, NEW s \in Scenarios, LeaseWaits(s)
  PROVE  PoolInv'
<1>a. /\ TypeOK /\ HandInv /\ ApartInv /\ KnownInv /\ PortsInv /\ RunningInv
      /\ OutsideInv /\ DeletingInv /\ CountInv /\ FateInv /\ ClosedInv /\ NoneLost
  BY DEF PoolInv
<1>d. /\ pc[s] = "look"
      /\ UNCHANGED <<max, free, all, starts, closed, closing, port, emu, dev, has, deleting, interrupted, abandoned>>
  BY DEF LeaseWaits, pool, emulators, hands, fate
<1>b. Moves(s, "waiting")
  BY <1>a, ToMoves DEF LeaseWaits, pool, emulators, hands, fate, Places, Leasing, Beginning
<1>c. /\ OthersStay(s)
      /\ ~ Hand(s) /\ ~ Outside(s) /\ ~ Inside(s) /\ ~ Boots(s) /\ ~ Ended(s) /\ Goes(s)
      /\ ~ Hand(s)' /\ ~ Outside(s)' /\ ~ Inside(s)' /\ ~ Boots(s)' /\ ~ Ended(s)' /\ Goes(s)'
  BY <1>b, <1>d, MovesLeaves DEF Moves, Hand, Outside, Inside, Boots, Ended, Goes, Beginning, Leasing
<1>e. starts' = Cardinality({t \in Scenarios : pc'[t] \in Leasing \ {"look", "waiting"}})
  BY <1>a, <1>b, <1>d, StartsCount DEF Starting
<1>f. /\ Uses(s) = has[s] \cup (IF Inside(s) THEN {dev[s]} ELSE {})
      /\ Uses(s)' = has'[s] \cup (IF Inside(s)' THEN {dev'[s]} ELSE {})
      /\ Uses(s) \cap Others(s) = {}
      /\ ~ closed => all = free \cup Uses(s) \cup Others(s)
  BY <1>a, UsesIs, OthersApart, UsesSplit DEF NoneLost, Uses, Inside
<1>1. TypeOK'
  BY <1>a, <1>b, <1>d, <1>e DEF TypeOK, Moves
<1>2. HandInv'
  BY <1>a, <1>c, <1>d DEF HandInv, OthersStay, Stays, TypeOK
<1>3. ApartInv'
  BY <1>a, <1>c, <1>d DEF ApartInv, OthersStay, Stays, TypeOK
<1>4. KnownInv'
  BY <1>a, <1>c, <1>d DEF KnownInv, HandInv, TypeOK
<1>5. PortsInv'
  BY <1>a, <1>d DEF PortsInv, Running, TypeOK
<1>6. RunningInv'
  BY <1>a, <1>c, <1>d, RunningKept DEF Running, HandInv, TypeOK
<1>7. OutsideInv'
  BY <1>a, <1>c, <1>d DEF OutsideInv, OthersStay, Stays, HandInv, TypeOK
<1>8. CountInv'
  BY <1>a, <1>d DEF CountInv
<1>9. FateInv'
  BY <1>a, <1>c, <1>d DEF FateInv, TornDown, OthersStay, Stays, TypeOK
<1>10. ClosedInv'
  BY <1>a, <1>d DEF ClosedInv
<1>11. NoneLost'
  BY <1>a, <1>c, <1>d, <1>f, NoneLostKept DEF TypeOK
<1>12. DeletingInv'
  BY <1>a, <1>c, <1>d, DeletingKept DEF DeletingInv, TypeOK
<1> QED
  BY <1>1, <1>2, <1>3, <1>4, <1>5, <1>6, <1>7, <1>8, <1>9, <1>10, <1>11, <1>12 DEF PoolInv

\* lease: a free device.
LeaseTakes(s, d) ==
  /\ pc[s] = "look" /\ ~ closed /\ To(s, "begin")
  /\ free' = free \ {d} /\ dev' = [dev EXCEPT ![s] = d]
  /\ UNCHANGED <<max, all, starts, closed, closing, port, emu, has, deleting, interrupted, abandoned>>

LEMMA LeaseTakesKeeps ==
  ASSUME PoolInv, NEW s \in Scenarios, NEW d \in free, LeaseTakes(s, d)
  PROVE  PoolInv'
<1>a. /\ TypeOK /\ HandInv /\ ApartInv /\ KnownInv /\ PortsInv /\ RunningInv
      /\ OutsideInv /\ DeletingInv /\ CountInv /\ FateInv /\ ClosedInv /\ NoneLost
  BY DEF PoolInv
<1>d. /\ pc[s] = "look"
      /\ ~ closed
      /\ free' = free \ {d} /\ dev' = [dev EXCEPT ![s] = d]
      /\ UNCHANGED <<max, all, starts, closed, closing, port, emu, has, deleting, interrupted, abandoned>>
  BY DEF LeaseTakes, pool, emulators, hands, fate
<1>b. Moves(s, "begin")
  BY <1>a, ToMoves DEF LeaseTakes, pool, emulators, hands, fate, Places, Leasing, Beginning
<1>c. /\ OthersStay(s)
      /\ ~ Hand(s) /\ ~ Outside(s) /\ ~ Inside(s) /\ ~ Boots(s) /\ ~ Ended(s) /\ Goes(s)
      /\ Hand(s)' /\ ~ Outside(s)' /\ Inside(s)' /\ ~ Boots(s)' /\ ~ Ended(s)' /\ Goes(s)'
  BY <1>b, <1>d, MovesLeaves DEF Moves, Hand, Outside, Inside, Boots, Ended, Goes, Beginning, Leasing
<1>e. starts' = Cardinality({t \in Scenarios : pc'[t] \in Leasing \ {"look", "waiting"}})
  BY <1>a, <1>b, <1>d, StartsCount DEF Starting
<1>f. /\ Uses(s) = has[s] \cup (IF Inside(s) THEN {dev[s]} ELSE {})
      /\ Uses(s)' = has'[s] \cup (IF Inside(s)' THEN {dev'[s]} ELSE {})
      /\ Uses(s) \cap Others(s) = {}
      /\ ~ closed => all = free \cup Uses(s) \cup Others(s)
  BY <1>a, UsesIs, OthersApart, UsesSplit DEF NoneLost, Uses, Inside
<1>1. TypeOK'
  BY <1>a, <1>b, <1>d, <1>e DEF TypeOK, Moves
<1>2. HandInv'
  BY <1>a, <1>c, <1>d DEF HandInv, OthersStay, Stays, KnownInv, TypeOK
<1>3. ApartInv'
  BY <1>a, <1>c, <1>d DEF ApartInv, OthersStay, Stays, TypeOK
<1>4. KnownInv'
  BY <1>a, <1>c, <1>d DEF KnownInv, HandInv, TypeOK
<1>5. PortsInv'
  BY <1>a, <1>d DEF PortsInv, Running, TypeOK
<1>6. RunningInv'
  BY <1>a, <1>c, <1>d, RunningKept DEF Running, HandInv, TypeOK
<1>7. OutsideInv'
  BY <1>a, <1>c, <1>d DEF OutsideInv, OthersStay, Stays, HandInv, TypeOK
<1>8. CountInv'
  BY <1>a, <1>d DEF CountInv
<1>9. FateInv'
  BY <1>a, <1>c, <1>d DEF FateInv, TornDown, OthersStay, Stays, TypeOK
<1>10. ClosedInv'
  BY <1>a, <1>d DEF ClosedInv
<1>11. NoneLost'
  BY <1>a, <1>c, <1>d, <1>f, NoneLostKept DEF TypeOK
<1>12. DeletingInv'
  BY <1>a, <1>c, <1>d, DeletingKept DEF DeletingInv, TypeOK
<1> QED
  BY <1>1, <1>2, <1>3, <1>4, <1>5, <1>6, <1>7, <1>8, <1>9, <1>10, <1>11, <1>12 DEF PoolInv

\* lease: there is room for one more.
LeaseStarts(s) ==
  /\ pc[s] = "look" /\ Room /\ To(s, "boot")
  /\ starts' = starts + 1
  /\ UNCHANGED <<max, free, all, closed, closing, port, emu, dev, has, deleting, interrupted, abandoned>>

LEMMA LeaseStartsKeeps ==
  ASSUME PoolInv, NEW s \in Scenarios, LeaseStarts(s)
  PROVE  PoolInv'
<1>a. /\ TypeOK /\ HandInv /\ ApartInv /\ KnownInv /\ PortsInv /\ RunningInv
      /\ OutsideInv /\ DeletingInv /\ CountInv /\ FateInv /\ ClosedInv /\ NoneLost
  BY DEF PoolInv
<1>d. /\ pc[s] = "look"
      /\ Room /\ starts' = starts + 1
      /\ UNCHANGED <<max, free, all, closed, closing, port, emu, dev, has, deleting, interrupted, abandoned>>
  BY DEF LeaseStarts, pool, emulators, hands, fate
<1>b. Moves(s, "boot")
  BY <1>a, ToMoves DEF LeaseStarts, pool, emulators, hands, fate, Places, Leasing, Beginning
<1>c. /\ OthersStay(s)
      /\ ~ Hand(s) /\ ~ Outside(s) /\ ~ Inside(s) /\ ~ Boots(s) /\ ~ Ended(s) /\ Goes(s)
      /\ ~ Hand(s)' /\ ~ Outside(s)' /\ ~ Inside(s)' /\ ~ Boots(s)' /\ ~ Ended(s)' /\ Goes(s)'
  BY <1>b, <1>d, MovesLeaves DEF Moves, Hand, Outside, Inside, Boots, Ended, Goes, Beginning, Leasing
<1>e. starts' = Cardinality({t \in Scenarios : pc'[t] \in Leasing \ {"look", "waiting"}})
  BY <1>a, <1>b, <1>d, StartsCount DEF Starting
<1>f. /\ Uses(s) = has[s] \cup (IF Inside(s) THEN {dev[s]} ELSE {})
      /\ Uses(s)' = has'[s] \cup (IF Inside(s)' THEN {dev'[s]} ELSE {})
      /\ Uses(s) \cap Others(s) = {}
      /\ ~ closed => all = free \cup Uses(s) \cup Others(s)
  BY <1>a, UsesIs, OthersApart, UsesSplit DEF NoneLost, Uses, Inside
<1>1. TypeOK'
  BY <1>a, <1>b, <1>d, <1>e DEF TypeOK, Moves
<1>2. HandInv'
  BY <1>a, <1>c, <1>d DEF HandInv, OthersStay, Stays, TypeOK
<1>3. ApartInv'
  BY <1>a, <1>c, <1>d DEF ApartInv, OthersStay, Stays, TypeOK
<1>4. KnownInv'
  BY <1>a, <1>c, <1>d DEF KnownInv, HandInv, TypeOK
<1>5. PortsInv'
  BY <1>a, <1>d DEF PortsInv, Running, TypeOK
<1>6. RunningInv'
  BY <1>a, <1>c, <1>d, RunningKept DEF Running, HandInv, TypeOK
<1>7. OutsideInv'
  BY <1>a, <1>c, <1>d DEF OutsideInv, OthersStay, Stays, HandInv, TypeOK
<1>8. CountInv'
  BY <1>a, <1>d, CountsAre DEF CountInv, Room
<1>9. FateInv'
  BY <1>a, <1>c, <1>d DEF FateInv, TornDown, OthersStay, Stays, TypeOK
<1>10. ClosedInv'
  BY <1>a, <1>d DEF ClosedInv
<1>11. NoneLost'
  BY <1>a, <1>c, <1>d, <1>f, NoneLostKept DEF TypeOK
<1>12. DeletingInv'
  BY <1>a, <1>c, <1>d, DeletingKept DEF DeletingInv, TypeOK
<1> QED
  BY <1>1, <1>2, <1>3, <1>4, <1>5, <1>6, <1>7, <1>8, <1>9, <1>10, <1>11, <1>12 DEF PoolInv

\* boot1, of a new device, at port p.
BootsNew(s, d, p) ==
  /\ pc[s] = "boot" /\ To(s, "booting")
  /\ port' = [port EXCEPT ![d] = p] /\ emu' = [emu EXCEPT ![d] = "booting"]
  /\ dev' = [dev EXCEPT ![s] = d]
  /\ UNCHANGED <<max, free, all, starts, closed, closing, has, deleting, interrupted, abandoned>>

LEMMA BootsNewKeeps ==
  ASSUME PoolInv, NEW s \in Scenarios, NEW d \in Unused, NEW p \in Ports \ taken,
         BootsNew(s, d, p)
  PROVE  PoolInv'
<1>a. /\ TypeOK /\ HandInv /\ ApartInv /\ KnownInv /\ PortsInv /\ RunningInv
      /\ OutsideInv /\ DeletingInv /\ CountInv /\ FateInv /\ ClosedInv /\ NoneLost
  BY DEF PoolInv
<1>d. /\ pc[s] = "boot"
      /\ d \in Devices /\ emu[d] = "none" /\ p \in Ports \ taken
      /\ port' = [port EXCEPT ![d] = p] /\ emu' = [emu EXCEPT ![d] = "booting"]
      /\ dev' = [dev EXCEPT ![s] = d]
      /\ UNCHANGED <<max, free, all, starts, closed, closing, has, deleting, interrupted, abandoned>>
  BY DEF BootsNew, Unused, pool, emulators, hands, fate
<1>b. Moves(s, "booting")
  BY <1>a, ToMoves DEF BootsNew, Unused, pool, emulators, hands, fate, Places, Leasing, Beginning
<1>c. /\ OthersStay(s)
      /\ ~ Hand(s) /\ ~ Outside(s) /\ ~ Inside(s) /\ ~ Boots(s) /\ ~ Ended(s) /\ Goes(s)
      /\ Hand(s)' /\ Outside(s)' /\ ~ Inside(s)' /\ Boots(s)' /\ ~ Ended(s)' /\ Goes(s)'
  BY <1>b, <1>d, MovesLeaves DEF Moves, Hand, Outside, Inside, Boots, Ended, Goes, Beginning, Leasing
<1>e. starts' = Cardinality({t \in Scenarios : pc'[t] \in Leasing \ {"look", "waiting"}})
  BY <1>a, <1>b, <1>d, StartsCount DEF Starting
<1>f. /\ Uses(s) = has[s] \cup (IF Inside(s) THEN {dev[s]} ELSE {})
      /\ Uses(s)' = has'[s] \cup (IF Inside(s)' THEN {dev'[s]} ELSE {})
      /\ Uses(s) \cap Others(s) = {}
      /\ ~ closed => all = free \cup Uses(s) \cup Others(s)
  BY <1>a, UsesIs, OthersApart, UsesSplit DEF NoneLost, Uses, Inside
<1>1. TypeOK'
  BY <1>a, <1>b, <1>d, <1>e DEF TypeOK, Moves
<1>2. HandInv'
  BY <1>a, <1>c, <1>d DEF HandInv, OthersStay, Stays, TypeOK
<1>3. ApartInv'
  BY <1>a, <1>c, <1>d DEF ApartInv, OthersStay, Stays, HandInv, KnownInv, TypeOK
<1>4. KnownInv'
  BY <1>a, <1>c, <1>d DEF KnownInv, HandInv, TypeOK
<1>5. PortsInv'
  BY <1>a, <1>d DEF PortsInv, Running, taken, TypeOK
<1>6. RunningInv'
  BY <1>a, <1>c, <1>d, RunningKept DEF Running, HandInv, TypeOK
<1>7. OutsideInv'
  BY <1>a, <1>c, <1>d, PoolKnown DEF OutsideInv, OthersStay, Stays, HandInv, TypeOK
<1>8. CountInv'
  BY <1>a, <1>d DEF CountInv
<1>9. FateInv'
  BY <1>a, <1>c, <1>d DEF FateInv, TornDown, OthersStay, Stays, TypeOK
<1>10. ClosedInv'
  BY <1>a, <1>d DEF ClosedInv
<1>11. NoneLost'
  BY <1>a, <1>c, <1>d, <1>f, NoneLostKept DEF TypeOK
<1>12. DeletingInv'
  BY <1>a, <1>c, <1>d, DeletingKept DEF DeletingInv, TypeOK
<1> QED
  BY <1>1, <1>2, <1>3, <1>4, <1>5, <1>6, <1>7, <1>8, <1>9, <1>10, <1>11, <1>12 DEF PoolInv

\* boot1, once more.
BootsAgain(s, p) ==
  /\ pc[s] = "boot again" /\ To(s, "booting again")
  /\ port' = [port EXCEPT ![dev[s]] = p] /\ emu' = [emu EXCEPT ![dev[s]] = "booting"]
  /\ UNCHANGED <<max, free, all, starts, closed, closing, dev, has, deleting, interrupted, abandoned>>

LEMMA BootsAgainKeeps ==
  ASSUME PoolInv, NEW s \in Scenarios, NEW p \in Ports \ taken, BootsAgain(s, p)
  PROVE  PoolInv'
<1>a. /\ TypeOK /\ HandInv /\ ApartInv /\ KnownInv /\ PortsInv /\ RunningInv
      /\ OutsideInv /\ DeletingInv /\ CountInv /\ FateInv /\ ClosedInv /\ NoneLost
  BY DEF PoolInv
<1>d. /\ pc[s] = "boot again"
      /\ p \in Ports \ taken
      /\ port' = [port EXCEPT ![dev[s]] = p] /\ emu' = [emu EXCEPT ![dev[s]] = "booting"]
      /\ UNCHANGED <<max, free, all, starts, closed, closing, dev, has, deleting, interrupted, abandoned>>
  BY DEF BootsAgain, pool, emulators, hands, fate
<1>b. Moves(s, "booting again")
  BY <1>a, ToMoves DEF BootsAgain, pool, emulators, hands, fate, Places, Leasing, Beginning
<1>c. /\ OthersStay(s)
      /\ Hand(s) /\ Outside(s) /\ ~ Inside(s) /\ ~ Boots(s) /\ ~ Ended(s) /\ Goes(s)
      /\ Hand(s)' /\ Outside(s)' /\ ~ Inside(s)' /\ Boots(s)' /\ ~ Ended(s)' /\ Goes(s)'
  BY <1>b, <1>d, MovesLeaves DEF Moves, Hand, Outside, Inside, Boots, Ended, Goes, Beginning, Leasing
<1>e. starts' = Cardinality({t \in Scenarios : pc'[t] \in Leasing \ {"look", "waiting"}})
  BY <1>a, <1>b, <1>d, StartsCount DEF Starting
<1>f. /\ Uses(s) = has[s] \cup (IF Inside(s) THEN {dev[s]} ELSE {})
      /\ Uses(s)' = has'[s] \cup (IF Inside(s)' THEN {dev'[s]} ELSE {})
      /\ Uses(s) \cap Others(s) = {}
      /\ ~ closed => all = free \cup Uses(s) \cup Others(s)
  BY <1>a, UsesIs, OthersApart, UsesSplit DEF NoneLost, Uses, Inside
<1>1. TypeOK'
  BY <1>a, <1>b, <1>d, <1>e DEF TypeOK, Moves
<1>2. HandInv'
  BY <1>a, <1>c, <1>d DEF HandInv, OthersStay, Stays, TypeOK
<1>3. ApartInv'
  BY <1>a, <1>c, <1>d DEF ApartInv, OthersStay, Stays, TypeOK
<1>4. KnownInv'
  BY <1>a, <1>c, <1>d DEF KnownInv, HandInv, TypeOK
<1>5. PortsInv'
  BY <1>a, <1>d DEF PortsInv, Running, taken, TypeOK
<1>6. RunningInv'
  BY <1>a, <1>c, <1>d, RunningKept DEF Running, HandInv, TypeOK
<1>7. OutsideInv'
  BY <1>a, <1>c, <1>d DEF OutsideInv, OthersStay, Stays, HandInv, TypeOK
<1>8. CountInv'
  BY <1>a, <1>d DEF CountInv
<1>9. FateInv'
  BY <1>a, <1>c, <1>d DEF FateInv, TornDown, OthersStay, Stays, TypeOK
<1>10. ClosedInv'
  BY <1>a, <1>d DEF ClosedInv
<1>11. NoneLost'
  BY <1>a, <1>c, <1>d, <1>f, NoneLostKept DEF TypeOK
<1>12. DeletingInv'
  BY <1>a, <1>c, <1>d, DeletingKept DEF DeletingInv, TypeOK
<1> QED
  BY <1>1, <1>2, <1>3, <1>4, <1>5, <1>6, <1>7, <1>8, <1>9, <1>10, <1>11, <1>12 DEF PoolInv

\* bootAfresh starts the emulator again.
BootsAfresh(s, p) ==
  /\ pc[s] = "afresh" /\ To(s, "booting afresh")
  /\ port' = [port EXCEPT ![dev[s]] = p] /\ emu' = [emu EXCEPT ![dev[s]] = "booting"]
  /\ UNCHANGED <<max, free, all, starts, closed, closing, dev, has, deleting, interrupted, abandoned>>

LEMMA BootsAfreshKeeps ==
  ASSUME PoolInv, NEW s \in Scenarios, NEW p \in Ports \ taken, BootsAfresh(s, p)
  PROVE  PoolInv'
<1>a. /\ TypeOK /\ HandInv /\ ApartInv /\ KnownInv /\ PortsInv /\ RunningInv
      /\ OutsideInv /\ DeletingInv /\ CountInv /\ FateInv /\ ClosedInv /\ NoneLost
  BY DEF PoolInv
<1>d. /\ pc[s] = "afresh"
      /\ p \in Ports \ taken
      /\ port' = [port EXCEPT ![dev[s]] = p] /\ emu' = [emu EXCEPT ![dev[s]] = "booting"]
      /\ UNCHANGED <<max, free, all, starts, closed, closing, dev, has, deleting, interrupted, abandoned>>
  BY DEF BootsAfresh, pool, emulators, hands, fate
<1>b. Moves(s, "booting afresh")
  BY <1>a, ToMoves DEF BootsAfresh, pool, emulators, hands, fate, Places, Leasing, Beginning
<1>c. /\ OthersStay(s)
      /\ Hand(s) /\ ~ Outside(s) /\ Inside(s) /\ ~ Boots(s) /\ ~ Ended(s) /\ Goes(s)
      /\ Hand(s)' /\ ~ Outside(s)' /\ Inside(s)' /\ Boots(s)' /\ ~ Ended(s)' /\ Goes(s)'
  BY <1>b, <1>d, MovesLeaves DEF Moves, Hand, Outside, Inside, Boots, Ended, Goes, Beginning, Leasing
<1>e. starts' = Cardinality({t \in Scenarios : pc'[t] \in Leasing \ {"look", "waiting"}})
  BY <1>a, <1>b, <1>d, StartsCount DEF Starting
<1>f. /\ Uses(s) = has[s] \cup (IF Inside(s) THEN {dev[s]} ELSE {})
      /\ Uses(s)' = has'[s] \cup (IF Inside(s)' THEN {dev'[s]} ELSE {})
      /\ Uses(s) \cap Others(s) = {}
      /\ ~ closed => all = free \cup Uses(s) \cup Others(s)
  BY <1>a, UsesIs, OthersApart, UsesSplit DEF NoneLost, Uses, Inside
<1>1. TypeOK'
  BY <1>a, <1>b, <1>d, <1>e DEF TypeOK, Moves
<1>2. HandInv'
  BY <1>a, <1>c, <1>d DEF HandInv, OthersStay, Stays, TypeOK
<1>3. ApartInv'
  BY <1>a, <1>c, <1>d DEF ApartInv, OthersStay, Stays, TypeOK
<1>4. KnownInv'
  BY <1>a, <1>c, <1>d DEF KnownInv, HandInv, TypeOK
<1>5. PortsInv'
  BY <1>a, <1>d DEF PortsInv, Running, taken, TypeOK
<1>6. RunningInv'
  BY <1>a, <1>c, <1>d, RunningKept DEF Running, HandInv, TypeOK
<1>7. OutsideInv'
  BY <1>a, <1>c, <1>d DEF OutsideInv, OthersStay, Stays, HandInv, TypeOK
<1>8. CountInv'
  BY <1>a, <1>d DEF CountInv
<1>9. FateInv'
  BY <1>a, <1>c, <1>d DEF FateInv, TornDown, OthersStay, Stays, TypeOK
<1>10. ClosedInv'
  BY <1>a, <1>d DEF ClosedInv
<1>11. NoneLost'
  BY <1>a, <1>c, <1>d, <1>f, NoneLostKept DEF TypeOK
<1>12. DeletingInv'
  BY <1>a, <1>c, <1>d, DeletingKept DEF DeletingInv, TypeOK
<1> QED
  BY <1>1, <1>2, <1>3, <1>4, <1>5, <1>6, <1>7, <1>8, <1>9, <1>10, <1>11, <1>12 DEF PoolInv

\* boot1 fails.
BootEnds(s) ==
  /\ pc[s] = "boot" /\ signal(s, "end")
  /\ dev' = [dev EXCEPT ![s] = NoDev] /\ starts' = starts - 1
  /\ UNCHANGED <<max, free, all, closed, closing, port, emu, has, deleting, interrupted, abandoned>>

LEMMA BootEndsKeeps ==
  ASSUME PoolInv, NEW s \in Scenarios, BootEnds(s)
  PROVE  PoolInv'
<1>a. /\ TypeOK /\ HandInv /\ ApartInv /\ KnownInv /\ PortsInv /\ RunningInv
      /\ OutsideInv /\ DeletingInv /\ CountInv /\ FateInv /\ ClosedInv /\ NoneLost
  BY DEF PoolInv
<1>d. /\ pc[s] = "boot"
      /\ dev' = [dev EXCEPT ![s] = NoDev] /\ starts' = starts - 1
      /\ UNCHANGED <<max, free, all, closed, closing, port, emu, has, deleting, interrupted, abandoned>>
  BY DEF BootEnds, pool, emulators, hands, fate
<1>b. Moves(s, "end")
  BY <1>a, SignalMoves DEF BootEnds, pool, emulators, hands, fate, Places, Leasing, Beginning
<1>c. /\ OthersStay(s)
      /\ ~ Hand(s) /\ ~ Outside(s) /\ ~ Inside(s) /\ ~ Boots(s) /\ ~ Ended(s) /\ Goes(s)
      /\ ~ Hand(s)' /\ ~ Outside(s)' /\ ~ Inside(s)' /\ ~ Boots(s)' /\ ~ Ended(s)' /\ Goes(s)'
  BY <1>b, <1>d, MovesLeaves DEF Moves, Hand, Outside, Inside, Boots, Ended, Goes, Beginning, Leasing
<1>e. starts' = Cardinality({t \in Scenarios : pc'[t] \in Leasing \ {"look", "waiting"}})
  BY <1>a, <1>b, <1>d, StartsCount DEF Starting
<1>f. /\ Uses(s) = has[s] \cup (IF Inside(s) THEN {dev[s]} ELSE {})
      /\ Uses(s)' = has'[s] \cup (IF Inside(s)' THEN {dev'[s]} ELSE {})
      /\ Uses(s) \cap Others(s) = {}
      /\ ~ closed => all = free \cup Uses(s) \cup Others(s)
  BY <1>a, UsesIs, OthersApart, UsesSplit DEF NoneLost, Uses, Inside
<1>1. TypeOK'
  BY <1>a, <1>b, <1>d, <1>e DEF TypeOK, Moves
<1>2. HandInv'
  BY <1>a, <1>c, <1>d DEF HandInv, OthersStay, Stays, TypeOK
<1>3. ApartInv'
  BY <1>a, <1>c, <1>d DEF ApartInv, OthersStay, Stays, TypeOK
<1>4. KnownInv'
  BY <1>a, <1>c, <1>d DEF KnownInv, HandInv, TypeOK
<1>5. PortsInv'
  BY <1>a, <1>d DEF PortsInv, Running, TypeOK
<1>6. RunningInv'
  BY <1>a, <1>c, <1>d, RunningKept DEF Running, HandInv, TypeOK
<1>7. OutsideInv'
  BY <1>a, <1>c, <1>d DEF OutsideInv, OthersStay, Stays, TypeOK
<1>8. CountInv'
  <2>1. UNCHANGED <<max, all, closed>> /\ starts' = starts - 1
    BY <1>d
  <2>2. CountInv
    BY <1>a
  <2> QED
    BY <2>1, <2>2, CountsAre DEF CountInv
<1>9. FateInv'
  BY <1>a, <1>c, <1>d DEF FateInv, TornDown, OthersStay, Stays, TypeOK
<1>10. ClosedInv'
  BY <1>a, <1>d DEF ClosedInv
<1>11. NoneLost'
  BY <1>a, <1>c, <1>d, <1>f, NoneLostKept DEF TypeOK
<1>12. DeletingInv'
  BY <1>a, <1>c, <1>d, DeletingKept DEF DeletingInv, TypeOK
<1> QED
  BY <1>1, <1>2, <1>3, <1>4, <1>5, <1>6, <1>7, <1>8, <1>9, <1>10, <1>11, <1>12 DEF PoolInv

\* boot1 fails, the second time.
BootAgainEnds(s) ==
  /\ pc[s] = "boot again" /\ signal(s, "end")
  /\ dev' = [dev EXCEPT ![s] = NoDev] /\ starts' = starts - 1
  /\ UNCHANGED <<max, free, all, closed, closing, port, emu, has, deleting, interrupted, abandoned>>

LEMMA BootAgainEndsKeeps ==
  ASSUME PoolInv, NEW s \in Scenarios, BootAgainEnds(s)
  PROVE  PoolInv'
<1>a. /\ TypeOK /\ HandInv /\ ApartInv /\ KnownInv /\ PortsInv /\ RunningInv
      /\ OutsideInv /\ DeletingInv /\ CountInv /\ FateInv /\ ClosedInv /\ NoneLost
  BY DEF PoolInv
<1>d. /\ pc[s] = "boot again"
      /\ dev' = [dev EXCEPT ![s] = NoDev] /\ starts' = starts - 1
      /\ UNCHANGED <<max, free, all, closed, closing, port, emu, has, deleting, interrupted, abandoned>>
  BY DEF BootAgainEnds, pool, emulators, hands, fate
<1>b. Moves(s, "end")
  BY <1>a, SignalMoves DEF BootAgainEnds, pool, emulators, hands, fate, Places, Leasing, Beginning
<1>c. /\ OthersStay(s)
      /\ Hand(s) /\ Outside(s) /\ ~ Inside(s) /\ ~ Boots(s) /\ ~ Ended(s) /\ Goes(s)
      /\ ~ Hand(s)' /\ ~ Outside(s)' /\ ~ Inside(s)' /\ ~ Boots(s)' /\ ~ Ended(s)' /\ Goes(s)'
  BY <1>b, <1>d, MovesLeaves DEF Moves, Hand, Outside, Inside, Boots, Ended, Goes, Beginning, Leasing
<1>e. starts' = Cardinality({t \in Scenarios : pc'[t] \in Leasing \ {"look", "waiting"}})
  BY <1>a, <1>b, <1>d, StartsCount DEF Starting
<1>f. /\ Uses(s) = has[s] \cup (IF Inside(s) THEN {dev[s]} ELSE {})
      /\ Uses(s)' = has'[s] \cup (IF Inside(s)' THEN {dev'[s]} ELSE {})
      /\ Uses(s) \cap Others(s) = {}
      /\ ~ closed => all = free \cup Uses(s) \cup Others(s)
  BY <1>a, UsesIs, OthersApart, UsesSplit DEF NoneLost, Uses, Inside
<1>1. TypeOK'
  BY <1>a, <1>b, <1>d, <1>e DEF TypeOK, Moves
<1>2. HandInv'
  BY <1>a, <1>c, <1>d DEF HandInv, OthersStay, Stays, TypeOK
<1>3. ApartInv'
  BY <1>a, <1>c, <1>d DEF ApartInv, OthersStay, Stays, TypeOK
<1>4. KnownInv'
  BY <1>a, <1>c, <1>d DEF KnownInv, HandInv, TypeOK
<1>5. PortsInv'
  BY <1>a, <1>d DEF PortsInv, Running, TypeOK
<1>6. RunningInv'
  BY <1>a, <1>c, <1>d, RunningKept DEF Running, HandInv, TypeOK
<1>7. OutsideInv'
  BY <1>a, <1>c, <1>d DEF OutsideInv, OthersStay, Stays, TypeOK
<1>8. CountInv'
  <2>1. UNCHANGED <<max, all, closed>> /\ starts' = starts - 1
    BY <1>d
  <2>2. CountInv
    BY <1>a
  <2> QED
    BY <2>1, <2>2, CountsAre DEF CountInv
<1>9. FateInv'
  BY <1>a, <1>c, <1>d DEF FateInv, TornDown, OthersStay, Stays, TypeOK
<1>10. ClosedInv'
  BY <1>a, <1>d DEF ClosedInv
<1>11. NoneLost'
  BY <1>a, <1>c, <1>d, <1>f, NoneLostKept DEF TypeOK
<1>12. DeletingInv'
  BY <1>a, <1>c, <1>d, DeletingKept DEF DeletingInv, TypeOK
<1> QED
  BY <1>1, <1>2, <1>3, <1>4, <1>5, <1>6, <1>7, <1>8, <1>9, <1>10, <1>11, <1>12 DEF PoolInv

\* The emulator stops a second time as it starts.
BootingAgainEnds(s) ==
  /\ pc[s] = "booting again" /\ signal(s, "end")
  /\ emu[dev[s]] = "exited"
  /\ dev' = [dev EXCEPT ![s] = NoDev] /\ starts' = starts - 1
  /\ UNCHANGED <<max, free, all, closed, closing, port, emu, has, deleting, interrupted, abandoned>>

LEMMA BootingAgainEndsKeeps ==
  ASSUME PoolInv, NEW s \in Scenarios, BootingAgainEnds(s)
  PROVE  PoolInv'
<1>a. /\ TypeOK /\ HandInv /\ ApartInv /\ KnownInv /\ PortsInv /\ RunningInv
      /\ OutsideInv /\ DeletingInv /\ CountInv /\ FateInv /\ ClosedInv /\ NoneLost
  BY DEF PoolInv
<1>d. /\ pc[s] = "booting again"
      /\ emu[dev[s]] = "exited"
      /\ dev' = [dev EXCEPT ![s] = NoDev] /\ starts' = starts - 1
      /\ UNCHANGED <<max, free, all, closed, closing, port, emu, has, deleting, interrupted, abandoned>>
  BY DEF BootingAgainEnds, pool, emulators, hands, fate
<1>b. Moves(s, "end")
  BY <1>a, SignalMoves DEF BootingAgainEnds, pool, emulators, hands, fate, Places, Leasing, Beginning
<1>c. /\ OthersStay(s)
      /\ Hand(s) /\ Outside(s) /\ ~ Inside(s) /\ Boots(s) /\ ~ Ended(s) /\ Goes(s)
      /\ ~ Hand(s)' /\ ~ Outside(s)' /\ ~ Inside(s)' /\ ~ Boots(s)' /\ ~ Ended(s)' /\ Goes(s)'
  BY <1>b, <1>d, MovesLeaves DEF Moves, Hand, Outside, Inside, Boots, Ended, Goes, Beginning, Leasing
<1>e. starts' = Cardinality({t \in Scenarios : pc'[t] \in Leasing \ {"look", "waiting"}})
  BY <1>a, <1>b, <1>d, StartsCount DEF Starting
<1>f. /\ Uses(s) = has[s] \cup (IF Inside(s) THEN {dev[s]} ELSE {})
      /\ Uses(s)' = has'[s] \cup (IF Inside(s)' THEN {dev'[s]} ELSE {})
      /\ Uses(s) \cap Others(s) = {}
      /\ ~ closed => all = free \cup Uses(s) \cup Others(s)
  BY <1>a, UsesIs, OthersApart, UsesSplit DEF NoneLost, Uses, Inside
<1>1. TypeOK'
  BY <1>a, <1>b, <1>d, <1>e DEF TypeOK, Moves
<1>2. HandInv'
  BY <1>a, <1>c, <1>d DEF HandInv, OthersStay, Stays, TypeOK
<1>3. ApartInv'
  BY <1>a, <1>c, <1>d DEF ApartInv, OthersStay, Stays, TypeOK
<1>4. KnownInv'
  BY <1>a, <1>c, <1>d DEF KnownInv, HandInv, TypeOK
<1>5. PortsInv'
  BY <1>a, <1>d DEF PortsInv, Running, TypeOK
<1>6. RunningInv'
  BY <1>a, <1>c, <1>d, RunningKept DEF Running, HandInv, TypeOK
<1>7. OutsideInv'
  BY <1>a, <1>c, <1>d DEF OutsideInv, OthersStay, Stays, TypeOK
<1>8. CountInv'
  <2>1. UNCHANGED <<max, all, closed>> /\ starts' = starts - 1
    BY <1>d
  <2>2. CountInv
    BY <1>a
  <2> QED
    BY <2>1, <2>2, CountsAre DEF CountInv
<1>9. FateInv'
  BY <1>a, <1>c, <1>d DEF FateInv, TornDown, OthersStay, Stays, TypeOK
<1>10. ClosedInv'
  BY <1>a, <1>d DEF ClosedInv
<1>11. NoneLost'
  BY <1>a, <1>c, <1>d, <1>f, NoneLostKept DEF TypeOK
<1>12. DeletingInv'
  BY <1>a, <1>c, <1>d, DeletingKept DEF DeletingInv, TypeOK
<1> QED
  BY <1>1, <1>2, <1>3, <1>4, <1>5, <1>6, <1>7, <1>8, <1>9, <1>10, <1>11, <1>12 DEF PoolInv

\* The emulator stops as it starts.
BootingStops(s) ==
  /\ pc[s] = "booting" /\ To(s, "boot again")
  /\ emu[dev[s]] = "exited"
  /\ UNCHANGED <<max, free, all, starts, closed, closing, port, emu, dev, has, deleting, interrupted, abandoned>>

LEMMA BootingStopsKeeps ==
  ASSUME PoolInv, NEW s \in Scenarios, BootingStops(s)
  PROVE  PoolInv'
<1>a. /\ TypeOK /\ HandInv /\ ApartInv /\ KnownInv /\ PortsInv /\ RunningInv
      /\ OutsideInv /\ DeletingInv /\ CountInv /\ FateInv /\ ClosedInv /\ NoneLost
  BY DEF PoolInv
<1>d. /\ pc[s] = "booting"
      /\ emu[dev[s]] = "exited"
      /\ UNCHANGED <<max, free, all, starts, closed, closing, port, emu, dev, has, deleting, interrupted, abandoned>>
  BY DEF BootingStops, pool, emulators, hands, fate
<1>b. Moves(s, "boot again")
  BY <1>a, ToMoves DEF BootingStops, pool, emulators, hands, fate, Places, Leasing, Beginning
<1>c. /\ OthersStay(s)
      /\ Hand(s) /\ Outside(s) /\ ~ Inside(s) /\ Boots(s) /\ ~ Ended(s) /\ Goes(s)
      /\ Hand(s)' /\ Outside(s)' /\ ~ Inside(s)' /\ ~ Boots(s)' /\ ~ Ended(s)' /\ Goes(s)'
  BY <1>b, <1>d, MovesLeaves DEF Moves, Hand, Outside, Inside, Boots, Ended, Goes, Beginning, Leasing
<1>e. starts' = Cardinality({t \in Scenarios : pc'[t] \in Leasing \ {"look", "waiting"}})
  BY <1>a, <1>b, <1>d, StartsCount DEF Starting
<1>f. /\ Uses(s) = has[s] \cup (IF Inside(s) THEN {dev[s]} ELSE {})
      /\ Uses(s)' = has'[s] \cup (IF Inside(s)' THEN {dev'[s]} ELSE {})
      /\ Uses(s) \cap Others(s) = {}
      /\ ~ closed => all = free \cup Uses(s) \cup Others(s)
  BY <1>a, UsesIs, OthersApart, UsesSplit DEF NoneLost, Uses, Inside
<1>1. TypeOK'
  BY <1>a, <1>b, <1>d, <1>e DEF TypeOK, Moves
<1>2. HandInv'
  BY <1>a, <1>c, <1>d DEF HandInv, OthersStay, Stays, TypeOK
<1>3. ApartInv'
  BY <1>a, <1>c, <1>d DEF ApartInv, OthersStay, Stays, TypeOK
<1>4. KnownInv'
  BY <1>a, <1>c, <1>d DEF KnownInv, HandInv, TypeOK
<1>5. PortsInv'
  BY <1>a, <1>d DEF PortsInv, Running, TypeOK
<1>6. RunningInv'
  BY <1>a, <1>c, <1>d, RunningKept DEF Running, HandInv, TypeOK
<1>7. OutsideInv'
  BY <1>a, <1>c, <1>d DEF OutsideInv, OthersStay, Stays, HandInv, TypeOK
<1>8. CountInv'
  BY <1>a, <1>d DEF CountInv
<1>9. FateInv'
  BY <1>a, <1>c, <1>d DEF FateInv, TornDown, OthersStay, Stays, TypeOK
<1>10. ClosedInv'
  BY <1>a, <1>d DEF ClosedInv
<1>11. NoneLost'
  BY <1>a, <1>c, <1>d, <1>f, NoneLostKept DEF TypeOK
<1>12. DeletingInv'
  BY <1>a, <1>c, <1>d, DeletingKept DEF DeletingInv, TypeOK
<1> QED
  BY <1>1, <1>2, <1>3, <1>4, <1>5, <1>6, <1>7, <1>8, <1>9, <1>10, <1>11, <1>12 DEF PoolInv

LEMMA StartFailsKeeps ==
  ASSUME PoolInv, NEW s \in Scenarios, StartFails(s)
  PROVE  PoolInv'
<1>a. /\ TypeOK /\ HandInv /\ ApartInv /\ KnownInv /\ PortsInv /\ RunningInv
      /\ OutsideInv /\ DeletingInv /\ CountInv /\ FateInv /\ ClosedInv /\ NoneLost
  BY DEF PoolInv
<1>d. /\ pc[s] \in {"booting", "booting again", "setup"}
      /\ emu' = [emu EXCEPT ![dev[s]] = "exited"]
      /\ dev' = [dev EXCEPT ![s] = NoDev] /\ starts' = starts - 1
      /\ UNCHANGED <<max, free, all, closed, closing, port, has, deleting, interrupted, abandoned>>
  BY DEF StartFails, started, pool, emulators, hands, fate
<1>b. Moves(s, "end")
  BY <1>a, SignalMoves DEF StartFails, started, pool, emulators, hands, fate, Places, Leasing, Beginning
<1>c. /\ OthersStay(s)
      /\ Hand(s) /\ Outside(s) /\ ~ Inside(s) /\ Boots(s) /\ ~ Ended(s) /\ Goes(s)
      /\ ~ Hand(s)' /\ ~ Outside(s)' /\ ~ Inside(s)' /\ ~ Boots(s)' /\ ~ Ended(s)' /\ Goes(s)'
  BY <1>b, <1>d, MovesLeaves DEF Moves, Hand, Outside, Inside, Boots, Ended, Goes, Beginning, Leasing
<1>e. starts' = Cardinality({t \in Scenarios : pc'[t] \in Leasing \ {"look", "waiting"}})
  BY <1>a, <1>b, <1>d, StartsCount DEF Starting
<1>f. /\ Uses(s) = has[s] \cup (IF Inside(s) THEN {dev[s]} ELSE {})
      /\ Uses(s)' = has'[s] \cup (IF Inside(s)' THEN {dev'[s]} ELSE {})
      /\ Uses(s) \cap Others(s) = {}
      /\ ~ closed => all = free \cup Uses(s) \cup Others(s)
  BY <1>a, UsesIs, OthersApart, UsesSplit DEF NoneLost, Uses, Inside
<1>1. TypeOK'
  BY <1>a, <1>b, <1>d, <1>e DEF TypeOK, Moves
<1>2. HandInv'
  BY <1>a, <1>c, <1>d DEF HandInv, OthersStay, Stays, TypeOK
<1>3. ApartInv'
  BY <1>a, <1>c, <1>d DEF ApartInv, OthersStay, Stays, TypeOK
<1>4. KnownInv'
  BY <1>a, <1>c, <1>d DEF KnownInv, HandInv, TypeOK
<1>5. PortsInv'
  BY <1>a, <1>d DEF PortsInv, Running, TypeOK
<1>6. RunningInv'
  BY <1>a, <1>c, <1>d, RunningKept DEF Running, HandInv, TypeOK
<1>7. OutsideInv'
  BY <1>a, <1>c, <1>d DEF OutsideInv, OthersStay, Stays, TypeOK
<1>8. CountInv'
  <2>1. UNCHANGED <<max, all, closed>> /\ starts' = starts - 1
    BY <1>d
  <2>2. CountInv
    BY <1>a
  <2> QED
    BY <2>1, <2>2, CountsAre DEF CountInv
<1>9. FateInv'
  BY <1>a, <1>c, <1>d DEF FateInv, TornDown, OthersStay, Stays, TypeOK
<1>10. ClosedInv'
  BY <1>a, <1>d DEF ClosedInv
<1>11. NoneLost'
  BY <1>a, <1>c, <1>d, <1>f, NoneLostKept DEF TypeOK
<1>12. DeletingInv'
  BY <1>a, <1>c, <1>d, DeletingKept DEF DeletingInv, TypeOK
<1> QED
  BY <1>1, <1>2, <1>3, <1>4, <1>5, <1>6, <1>7, <1>8, <1>9, <1>10, <1>11, <1>12 DEF PoolInv

LEMMA StartOverKeeps ==
  ASSUME PoolInv, NEW s \in Scenarios, StartOver(s)
  PROVE  PoolInv'
<1>a. /\ TypeOK /\ HandInv /\ ApartInv /\ KnownInv /\ PortsInv /\ RunningInv
      /\ OutsideInv /\ DeletingInv /\ CountInv /\ FateInv /\ ClosedInv /\ NoneLost
  BY DEF PoolInv
<1>d. /\ pc[s] = "setup"
      /\ s \notin interrupted
      /\ all' = all \cup {dev[s]} /\ starts' = starts - 1
      /\ UNCHANGED <<max, free, closed, closing, port, emu, dev, has, deleting, interrupted, abandoned>>
  BY DEF StartOver, started, pool, emulators, hands, fate
<1>b. Moves(s, "begin")
  BY <1>a, SignalMoves DEF StartOver, started, pool, emulators, hands, fate, Places, Leasing, Beginning
<1>c. /\ OthersStay(s)
      /\ Hand(s) /\ Outside(s) /\ ~ Inside(s) /\ Boots(s) /\ ~ Ended(s) /\ Goes(s)
      /\ Hand(s)' /\ ~ Outside(s)' /\ Inside(s)' /\ ~ Boots(s)' /\ ~ Ended(s)' /\ Goes(s)'
  BY <1>b, <1>d, MovesLeaves DEF Moves, Hand, Outside, Inside, Boots, Ended, Goes, Beginning, Leasing
<1>e. starts' = Cardinality({t \in Scenarios : pc'[t] \in Leasing \ {"look", "waiting"}})
  BY <1>a, <1>b, <1>d, StartsCount DEF Starting
<1>f. /\ Uses(s) = has[s] \cup (IF Inside(s) THEN {dev[s]} ELSE {})
      /\ Uses(s)' = has'[s] \cup (IF Inside(s)' THEN {dev'[s]} ELSE {})
      /\ Uses(s) \cap Others(s) = {}
      /\ ~ closed => all = free \cup Uses(s) \cup Others(s)
  BY <1>a, UsesIs, OthersApart, UsesSplit DEF NoneLost, Uses, Inside
<1>1. TypeOK'
  BY <1>a, <1>b, <1>c, <1>d, <1>e DEF TypeOK, Moves, HandInv
<1>2. HandInv'
  BY <1>a, <1>c, <1>d DEF HandInv, OthersStay, Stays, TypeOK
<1>3. ApartInv'
  BY <1>a, <1>c, <1>d DEF ApartInv, OthersStay, Stays, TypeOK
<1>4. KnownInv'
  BY <1>a, <1>c, <1>d DEF KnownInv, HandInv, TypeOK
<1>5. PortsInv'
  BY <1>a, <1>d DEF PortsInv, Running, TypeOK
<1>6. RunningInv'
  BY <1>a, <1>c, <1>d, RunningKept DEF Running, HandInv, TypeOK
<1>7. OutsideInv'
  <2>1. \A t \in Scenarios : Outside(t) => Hand(t)
    BY DEF Outside, Hand
  <2> QED
    BY <1>a, <1>c, <1>d, <2>1 DEF OutsideInv, OthersStay, Stays, ApartInv
<1>8. CountInv'
  <2>1. dev[s] \notin all
    BY <1>a, <1>c DEF OutsideInv
  <2>2. Cardinality(all') = Cardinality(all) + 1
    BY <1>d, <2>1, CountsAre, FS_AddElement
  <2> QED
    BY <1>a, <1>d, <2>2, CountsAre DEF CountInv
<1>9. FateInv'
  BY <1>a, <1>c, <1>d DEF FateInv, TornDown, OthersStay, Stays, TypeOK
<1>10. ClosedInv'
  BY <1>a, <1>c, <1>d, StillOpen DEF ClosedInv
<1>11. NoneLost'
  BY <1>a, <1>c, <1>d, <1>f, NoneLostKept DEF TypeOK
<1>12. DeletingInv'
  BY <1>a, <1>c, <1>d, DeletingKept DEF DeletingInv, TypeOK
<1> QED
  BY <1>1, <1>2, <1>3, <1>4, <1>5, <1>6, <1>7, <1>8, <1>9, <1>10, <1>11, <1>12 DEF PoolInv

LEMMA BeginKeeps ==
  ASSUME PoolInv, NEW s \in Scenarios, Begin(s)
  PROVE  PoolInv'
<1>a. /\ TypeOK /\ HandInv /\ ApartInv /\ KnownInv /\ PortsInv /\ RunningInv
      /\ OutsideInv /\ DeletingInv /\ CountInv /\ FateInv /\ ClosedInv /\ NoneLost
  BY DEF PoolInv
<1>d. /\ pc[s] \in {"begin", "ready"}
      /\ s \notin interrupted
      /\ has' = [has EXCEPT ![s] = has[s] \cup {dev[s]}] /\ dev' = [dev EXCEPT ![s] = NoDev]
      /\ UNCHANGED <<max, free, all, starts, closed, closing, port, emu, deleting, interrupted, abandoned>>
  BY DEF Begin, pool, emulators, hands, fate
<1>b. Moves(s, "using")
  BY <1>a, ToMoves DEF Begin, pool, emulators, hands, fate, Places, Leasing, Beginning
<1>c. /\ OthersStay(s)
      /\ Hand(s) /\ ~ Outside(s) /\ Inside(s) /\ ~ Boots(s) /\ ~ Ended(s) /\ Goes(s)
      /\ ~ Hand(s)' /\ ~ Outside(s)' /\ ~ Inside(s)' /\ ~ Boots(s)' /\ ~ Ended(s)' /\ ~ Goes(s)'
  BY <1>b, <1>d, MovesLeaves DEF Moves, Hand, Outside, Inside, Boots, Ended, Goes, Beginning, Leasing
<1>e. starts' = Cardinality({t \in Scenarios : pc'[t] \in Leasing \ {"look", "waiting"}})
  BY <1>a, <1>b, <1>d, StartsCount DEF Starting
<1>f. /\ Uses(s) = has[s] \cup (IF Inside(s) THEN {dev[s]} ELSE {})
      /\ Uses(s)' = has'[s] \cup (IF Inside(s)' THEN {dev'[s]} ELSE {})
      /\ Uses(s) \cap Others(s) = {}
      /\ ~ closed => all = free \cup Uses(s) \cup Others(s)
  BY <1>a, UsesIs, OthersApart, UsesSplit DEF NoneLost, Uses, Inside
<1>1. TypeOK'
  BY <1>a, <1>b, <1>c, <1>d, <1>e DEF TypeOK, Moves, HandInv
<1>2. HandInv'
  BY <1>a, <1>c, <1>d DEF HandInv, OthersStay, Stays, TypeOK
<1>3. ApartInv'
  BY <1>a, <1>c, <1>d DEF ApartInv, OthersStay, Stays, TypeOK
<1>4. KnownInv'
  BY <1>a, <1>c, <1>d DEF KnownInv, HandInv, TypeOK
<1>5. PortsInv'
  BY <1>a, <1>d DEF PortsInv, Running, TypeOK
<1>6. RunningInv'
  BY <1>a, <1>c, <1>d, RunningKept DEF Running, HandInv, TypeOK
<1>7. OutsideInv'
  BY <1>a, <1>c, <1>d DEF OutsideInv, OthersStay, Stays, HandInv, TypeOK
<1>8. CountInv'
  BY <1>a, <1>d DEF CountInv
<1>9. FateInv'
  BY <1>a, <1>c, <1>d, StillOpen DEF FateInv, TornDown, OthersStay, Stays, TypeOK
<1>10. ClosedInv'
  BY <1>a, <1>d DEF ClosedInv
<1>11. NoneLost'
  BY <1>a, <1>c, <1>d, <1>f, NoneLostKept DEF TypeOK
<1>12. DeletingInv'
  BY <1>a, <1>c, <1>d, DeletingKept DEF DeletingInv, TypeOK
<1> QED
  BY <1>1, <1>2, <1>3, <1>4, <1>5, <1>6, <1>7, <1>8, <1>9, <1>10, <1>11, <1>12 DEF PoolInv

LEMMA BeginFailsKeeps ==
  ASSUME PoolInv, NEW s \in Scenarios, BeginFails(s)
  PROVE  PoolInv'
<1>a. /\ TypeOK /\ HandInv /\ ApartInv /\ KnownInv /\ PortsInv /\ RunningInv
      /\ OutsideInv /\ DeletingInv /\ CountInv /\ FateInv /\ ClosedInv /\ NoneLost
  BY DEF PoolInv
<1>d. /\ pc[s] \in {"begin", "afresh", "booting afresh", "ready"}
      /\ emu' = IF pc[s] # "booting afresh" THEN emu ELSE [emu EXCEPT ![dev[s]] = "exited"]
      /\ free' = free \cup {dev[s]} /\ dev' = [dev EXCEPT ![s] = NoDev]
      /\ UNCHANGED <<max, all, starts, closed, closing, port, has, deleting, interrupted, abandoned>>
  BY DEF BeginFails, Beginning, pool, emulators, hands, fate
<1>b. Moves(s, "end")
  BY <1>a, SignalMoves DEF BeginFails, Beginning, pool, emulators, hands, fate, Places, Leasing, Beginning
<1>c. /\ OthersStay(s)
      /\ Hand(s) /\ ~ Outside(s) /\ Inside(s) /\ ~ Ended(s) /\ Goes(s)
      /\ ~ Hand(s)' /\ ~ Outside(s)' /\ ~ Inside(s)' /\ ~ Boots(s)' /\ ~ Ended(s)' /\ Goes(s)'
  BY <1>b, <1>d, MovesLeaves DEF Moves, Hand, Outside, Inside, Boots, Ended, Goes, Beginning, Leasing
<1>e. starts' = Cardinality({t \in Scenarios : pc'[t] \in Leasing \ {"look", "waiting"}})
  BY <1>a, <1>b, <1>d, StartsCount DEF Starting
<1>f. /\ Uses(s) = has[s] \cup (IF Inside(s) THEN {dev[s]} ELSE {})
      /\ Uses(s)' = has'[s] \cup (IF Inside(s)' THEN {dev'[s]} ELSE {})
      /\ Uses(s) \cap Others(s) = {}
      /\ ~ closed => all = free \cup Uses(s) \cup Others(s)
  BY <1>a, UsesIs, OthersApart, UsesSplit DEF NoneLost, Uses, Inside
<1>1. TypeOK'
  BY <1>a, <1>b, <1>c, <1>d, <1>e DEF TypeOK, Moves, HandInv
<1>2. HandInv'
  <2>1. \A d \in Devices : emu[d] # "none" => emu'[d] # "none"
    BY <1>a, <1>d DEF TypeOK
  <2> QED
    BY <1>a, <1>c, <1>d, <2>1 DEF HandInv, OthersStay, Stays, TypeOK
<1>3. ApartInv'
  <2>1. has' = has /\ free' = free \cup {dev[s]} /\ \A t \in Scenarios \ {s} : dev'[t] = dev[t]
    BY <1>a, <1>d DEF TypeOK
  <2> QED
    BY <1>a, <1>c, <2>1 DEF ApartInv, OthersStay, Stays
<1>4. KnownInv'
  BY <1>a, <1>c, <1>d DEF KnownInv, HandInv, TypeOK
<1>5. PortsInv'
  BY <1>a, <1>d DEF PortsInv, Running, TypeOK
<1>6. RunningInv'
  <2>1. Boots(s) => pc[s] = "booting afresh"
    BY <1>d DEF Boots
  <2> QED
    BY <1>a, <1>c, <1>d, <2>1, RunningKept DEF Running, HandInv, TypeOK
<1>7. OutsideInv'
  BY <1>a, <1>c, <1>d DEF OutsideInv, OthersStay, Stays, HandInv, TypeOK
<1>8. CountInv'
  BY <1>a, <1>d DEF CountInv
<1>9. FateInv'
  BY <1>a, <1>c, <1>d DEF FateInv, TornDown, OthersStay, Stays, TypeOK
<1>10. ClosedInv'
  BY <1>a, <1>d DEF ClosedInv
<1>11. NoneLost'
  BY <1>a, <1>c, <1>d, <1>f, NoneLostKept DEF TypeOK
<1>12. DeletingInv'
  BY <1>a, <1>c, <1>d, DeletingKept DEF DeletingInv, TypeOK
<1> QED
  BY <1>1, <1>2, <1>3, <1>4, <1>5, <1>6, <1>7, <1>8, <1>9, <1>10, <1>11, <1>12 DEF PoolInv

-----------------------------------------------------------------------------
(* The actions of a step that have alternatives *)

LEMMA leaseKeeps ==
  ASSUME PoolInv, NEW s \in Scenarios, lease(s)
  PROVE  PoolInv'
<1>1. CASE closed
  BY <1>1, LeaseEndsKeeps DEF lease, LeaseEnds, emulators, hands, fate
<1>2. CASE ~ closed /\ free # {}
  <2>1. PICK d \in free : LeaseTakes(s, d)
    BY <1>2 DEF lease, LeaseTakes, emulators, hands, fate
  <2> QED
    BY <2>1, LeaseTakesKeeps
<1>3. CASE ~ closed /\ free = {} /\ Room
  BY <1>3, LeaseStartsKeeps DEF lease, LeaseStarts, emulators, hands, fate
<1>4. CASE ~ closed /\ free = {} /\ ~ Room
  BY <1>4, LeaseWaitsKeeps DEF lease, LeaseWaits, emulators, hands, fate
<1> QED
  BY <1>1, <1>2, <1>3, <1>4

LEMMA boot1Keeps ==
  ASSUME PoolInv, NEW s \in Scenarios, boot1(s)
  PROVE  PoolInv'
<1>d. dev \in [Scenarios -> Devices \cup {NoDev}]
  BY DEF PoolInv, TypeOK
<1>1. CASE /\ Unused # {} /\ pc[s] = "boot" /\ boot(s, CHOOSE d \in Unused : TRUE)
           /\ To(s, "booting") /\ UNCHANGED <<pool, hands, fate>>
  <2>1. PICK d \in Unused : boot(s, d)
    BY <1>1
  <2>2. PICK p \in Ports \ taken : BootsNew(s, d, p)
    BY <1>1, <2>1 DEF boot, BootsNew, pool, hands, fate
  <2> QED
    BY <2>1, <2>2, BootsNewKeeps
<1>2. CASE /\ pc[s] = "boot again" /\ boot(s, dev[s])
           /\ To(s, "booting again") /\ UNCHANGED <<pool, hands, fate>>
  <2>1. dev' = dev
    BY <1>2, <1>d DEF boot
  <2>2. PICK p \in Ports \ taken : BootsAgain(s, p)
    BY <1>2, <2>1 DEF boot, BootsAgain, pool, hands, fate
  <2> QED
    BY <2>2, BootsAgainKeeps
<1>3. CASE dev' = [dev EXCEPT ![s] = NoDev] /\ started(s, {}) /\ UNCHANGED emulators
  <2>1. pc[s] = "boot" => BootEnds(s)
    BY <1>3 DEF started, BootEnds, emulators, hands, fate
  <2>2. pc[s] = "boot again" => BootAgainEnds(s)
    BY <1>3 DEF started, BootAgainEnds, emulators, hands, fate
  <2> QED
    BY <2>1, <2>2, BootEndsKeeps, BootAgainEndsKeeps DEF boot1
<1> QED
  BY <1>1, <1>2, <1>3 DEF boot1

LEMMA StoppedStartingKeeps ==
  ASSUME PoolInv, NEW s \in Scenarios, StoppedStarting(s)
  PROVE  PoolInv'
<1>1. pc[s] = "booting" => BootingStops(s)
  BY DEF StoppedStarting, BootingStops, pool, emulators, hands, fate
<1>2. pc[s] = "booting again" => BootingAgainEnds(s)
  BY DEF StoppedStarting, BootingAgainEnds, started, emulators, hands, fate
<1> QED
  BY <1>1, <1>2, BootingStopsKeeps, BootingAgainEndsKeeps DEF StoppedStarting

LEMMA AfreshBootsKeeps ==
  ASSUME PoolInv, NEW s \in Scenarios, AfreshBoots(s)
  PROVE  PoolInv'
<1>1. dev' = dev
  BY DEF AfreshBoots, boot, PoolInv, TypeOK
<1>2. PICK p \in Ports \ taken : BootsAfresh(s, p)
  BY <1>1 DEF AfreshBoots, boot, BootsAfresh, pool, hands, fate
<1> QED
  BY <1>2, BootsAfreshKeeps

-----------------------------------------------------------------------------
(* What happens to a scenario, a device and the pool *)

\* Leases that wait may look again; nobody goes anywhere else.
Wakes ==
  /\ pc' \in [Scenarios -> Places]
  /\ \A t \in Scenarios : pc'[t] = pc[t] \/ (pc[t] = "waiting" /\ pc'[t] = "look")

LEMMA WakesStay ==
  ASSUME Wakes
  PROVE  \A t \in Scenarios : Stays(t)
BY DEF Wakes, Stays, Hand, Outside, Inside, Boots, Ended, Goes, Beginning, Leasing

LEMMA WakesCount ==
  ASSUME TypeOK, Wakes, starts' = starts
  PROVE  starts' = Cardinality({t \in Scenarios : pc'[t] \in Leasing \ {"look", "waiting"}})
<1>1. {t \in Scenarios : pc'[t] \in Leasing \ {"look", "waiting"}}
        = {t \in Scenarios : pc[t] \in Leasing \ {"look", "waiting"}}
  BY DEF Wakes
<1> QED
  BY <1>1 DEF TypeOK

\* release, to the free devices.
ReleaseFrees(s, d) ==
  /\ Ending(s) /\ pc' = [t \in Scenarios |-> woken(t)]
  /\ has' = [has EXCEPT ![s] = has[s] \ {d}] /\ free' = free \cup {d}
  /\ UNCHANGED <<max, all, starts, closed, closing, port, emu, dev, deleting, interrupted, abandoned>>

LEMMA ReleaseFreesKeeps ==
  ASSUME PoolInv, NEW s \in Scenarios, NEW d \in has[s], ReleaseFrees(s, d)
  PROVE  PoolInv'
<1>a. /\ TypeOK /\ HandInv /\ ApartInv /\ KnownInv /\ PortsInv /\ RunningInv
      /\ OutsideInv /\ DeletingInv /\ CountInv /\ FateInv /\ ClosedInv /\ NoneLost
  BY DEF PoolInv
<1>d. /\ has' = [has EXCEPT ![s] = has[s] \ {d}] /\ free' = free \cup {d}
      /\ UNCHANGED <<max, all, starts, closed, closing, port, emu, dev, deleting, interrupted, abandoned>>
  BY DEF ReleaseFrees
<1>b. Wakes
  <2>1. "look" \in Places
    BY DEF Places, Leasing
  <2> QED
    BY <1>a, <2>1 DEF ReleaseFrees, woken, Wakes, TypeOK
<1>c. /\ \A t \in Scenarios : Stays(t)
      /\ ~ closed
  BY <1>a, <1>b, WakesStay DEF FateInv, TornDown
<1>1. TypeOK'
  BY <1>a, <1>b, <1>d, WakesCount DEF TypeOK, Wakes
<1>2. HandInv'
  BY <1>a, <1>c, <1>d DEF HandInv, Stays
<1>3. ApartInv'
  BY <1>a, <1>c, <1>d DEF ApartInv, Stays, TypeOK
<1>4. KnownInv' /\ PortsInv'
  BY <1>a, <1>d DEF KnownInv, PortsInv, Running, TypeOK
<1>5. RunningInv' /\ OutsideInv'
  BY <1>a, <1>c, <1>d DEF RunningInv, OutsideInv, Running, Stays
<1>6. DeletingInv'
  BY <1>a, <1>c, <1>d DEF DeletingInv, Stays, TypeOK
<1>7. CountInv' /\ ClosedInv'
  BY <1>a, <1>d DEF CountInv, ClosedInv
<1>8. FateInv'
  BY <1>a, <1>c, <1>d DEF FateInv, TornDown, Stays, TypeOK
<1>9. NoneLost'
  <2>1. OthersStay(s) /\ (Inside(s)' <=> Inside(s))
    BY <1>c DEF OthersStay, Stays
  <2>2. /\ Uses(s) = has[s] \cup (IF Inside(s) THEN {dev[s]} ELSE {})
        /\ Uses(s)' = has'[s] \cup (IF Inside(s)' THEN {dev'[s]} ELSE {})
        /\ ~ closed => all = free \cup Uses(s) \cup Others(s)
    BY <1>a, UsesIs, UsesSplit DEF NoneLost, Uses, Inside
  <2> QED
    BY <1>a, <1>d, <2>1, <2>2, NoneLostKept DEF TypeOK
<1> QED
  BY <1>1, <1>2, <1>3, <1>4, <1>5, <1>6, <1>7, <1>8, <1>9 DEF PoolInv

\* release, off the pool.
ReleaseDeletes(s, d) ==
  /\ Ending(s) /\ pc' = [t \in Scenarios |-> woken(t)]
  /\ has' = [has EXCEPT ![s] = has[s] \ {d}]
  /\ all' = all \ {d} /\ deleting' = [deleting EXCEPT ![s] = d]
  /\ UNCHANGED <<max, free, starts, closed, closing, port, emu, dev, interrupted, abandoned>>

LEMMA ReleaseDeletesKeeps ==
  ASSUME PoolInv, NEW s \in Scenarios, NEW d \in has[s], ReleaseDeletes(s, d)
  PROVE  PoolInv'
<1>a. /\ TypeOK /\ HandInv /\ ApartInv /\ KnownInv /\ PortsInv /\ RunningInv
      /\ OutsideInv /\ DeletingInv /\ CountInv /\ FateInv /\ ClosedInv /\ NoneLost
  BY DEF PoolInv
<1>d. /\ deleting[s] = NoDev
      /\ has' = [has EXCEPT ![s] = has[s] \ {d}]
      /\ all' = all \ {d} /\ deleting' = [deleting EXCEPT ![s] = d]
      /\ UNCHANGED <<max, free, starts, closed, closing, port, emu, dev, interrupted, abandoned>>
  BY DEF ReleaseDeletes, Ending
<1>b. Wakes
  <2>1. "look" \in Places
    BY DEF Places, Leasing
  <2> QED
    BY <1>a, <2>1 DEF ReleaseDeletes, woken, Wakes, TypeOK
<1>c. /\ \A t \in Scenarios : Stays(t)
      /\ ~ closed /\ ~ Ended(s)
  BY <1>a, <1>b, WakesStay DEF FateInv, TornDown
<1>e. /\ d \in Devices /\ d # NoDev /\ d \notin free /\ emu[d] # "none"
      /\ \A t \in Scenarios : (t # s => d \notin has[t]) /\ (Hand(t) => dev[t] # d)
      /\ \A t \in Scenarios : deleting[t] # d
  BY <1>a, NoDevAssumption DEF TypeOK, ApartInv, KnownInv, DeletingInv
<1>1. TypeOK'
  BY <1>a, <1>b, <1>d, <1>e, WakesCount DEF TypeOK, Wakes
<1>2. HandInv'
  BY <1>a, <1>c, <1>d DEF HandInv, Stays
<1>3. ApartInv'
  BY <1>a, <1>c, <1>d DEF ApartInv, Stays, TypeOK
<1>4. KnownInv' /\ PortsInv'
  BY <1>a, <1>d DEF KnownInv, PortsInv, Running, TypeOK
<1>5. RunningInv'
  <2>1. deleting'[s] = d /\ \A t \in Scenarios : deleting[t] # NoDev => deleting'[t] = deleting[t]
    BY <1>a, <1>d DEF TypeOK
  <2> QED
    BY <1>a, <1>c, <1>d, <2>1, NoDevAssumption DEF RunningInv, Running, Stays
<1>6. OutsideInv'
  BY <1>a, <1>c, <1>d DEF OutsideInv, Stays
<1>7. DeletingInv'
  <2>1. deleting'[s] = d /\ \A t \in Scenarios \ {s} : deleting'[t] = deleting[t]
    BY <1>a, <1>d DEF TypeOK
  <2>2. \A t \in Scenarios : has'[t] = IF t = s THEN has[s] \ {d} ELSE has[t]
    BY <1>a, <1>d DEF TypeOK
  <2>3. \A t \in Scenarios : (Hand(t)' <=> Hand(t)) /\ dev'[t] = dev[t]
    BY <1>c, <1>d DEF Stays
  <2>4. emu' = emu /\ free' = free /\ all' = all \ {d}
    BY <1>d
  <2> QED
    BY <1>a, <1>e, <2>1, <2>2, <2>3, <2>4 DEF DeletingInv
<1>8. CountInv' /\ ClosedInv'
  <2>1. Cardinality(all') \in Nat /\ Cardinality(all') <= Cardinality(all)
    BY <1>d, CountsAre, FS_Subset, FS_CardinalityType
  <2> QED
    BY <1>a, <1>c, <1>d, <2>1, CountsAre DEF CountInv, ClosedInv
<1>9. FateInv'
  BY <1>a, <1>c, <1>d DEF FateInv, TornDown, Stays, TypeOK
<1>10. NoneLost'
  <2>1. OthersStay(s) /\ (Inside(s)' <=> Inside(s)) /\ (Inside(s) => Hand(s))
    BY <1>c DEF OthersStay, Stays, Inside, Hand
  <2>2. /\ Uses(s) = has[s] \cup (IF Inside(s) THEN {dev[s]} ELSE {})
        /\ Uses(s)' = has'[s] \cup (IF Inside(s)' THEN {dev'[s]} ELSE {})
        /\ Uses(s) \cap Others(s) = {}
        /\ ~ closed => all = free \cup Uses(s) \cup Others(s)
    BY <1>a, UsesIs, UsesSplit, OthersApart DEF NoneLost, Uses, Inside
  <2>3. d \notin Others(s) /\ Uses(s)' = Uses(s) \ {d}
    BY <1>a, <1>d, <1>e, <2>1, <2>2 DEF TypeOK
  <2> QED
    BY <1>a, <1>d, <1>e, <2>1, <2>2, <2>3, NoneLostKept DEF TypeOK
<1> QED
  BY <1>1, <1>2, <1>3, <1>4, <1>5, <1>6, <1>7, <1>8, <1>9, <1>10 DEF PoolInv

LEMMA ReleaseKeeps ==
  ASSUME PoolInv, NEW s \in Scenarios, Release(s)
  PROVE  PoolInv'
<1>1. PICK d \in has[s] : ReleaseFrees(s, d) \/ ReleaseDeletes(s, d)
  BY DEF Release, ReleaseFrees, ReleaseDeletes, emulators, fate
<1> QED
  BY <1>1, ReleaseFreesKeeps, ReleaseDeletesKeeps

LEMMA InterruptKeeps ==
  ASSUME PoolInv, NEW s \in Scenarios, Interrupt(s)
  PROVE  PoolInv'
<1>a. /\ TypeOK /\ HandInv /\ ApartInv /\ KnownInv /\ PortsInv /\ RunningInv
      /\ OutsideInv /\ DeletingInv /\ CountInv /\ FateInv /\ ClosedInv /\ NoneLost
  BY DEF PoolInv
<1>d. /\ interrupted' = interrupted \cup {s}
      /\ UNCHANGED <<max, free, all, starts, closed, closing, port, emu, pc, dev, has, deleting, abandoned>>
  BY DEF Interrupt, pool, emulators, hands
<1>1. TypeOK'
  BY <1>a, <1>d DEF TypeOK
<1>2. HandInv' /\ ApartInv' /\ OutsideInv' /\ DeletingInv'
  BY <1>a, <1>d DEF HandInv, ApartInv, OutsideInv, DeletingInv, Hand, Outside
<1>3. KnownInv' /\ PortsInv' /\ RunningInv'
  BY <1>a, <1>d DEF KnownInv, PortsInv, RunningInv, Running, Boots
<1>4. CountInv' /\ FateInv' /\ ClosedInv'
  BY <1>a, <1>d DEF CountInv, FateInv, TornDown, ClosedInv, Ended, Goes
<1>5. NoneLost'
  BY <1>a, <1>d DEF NoneLost, Uses
<1> QED
  BY <1>1, <1>2, <1>3, <1>4, <1>5 DEF PoolInv

LEMMA AbandonKeeps ==
  ASSUME PoolInv, NEW s \in Scenarios, Abandon(s)
  PROVE  PoolInv'
<1>a. /\ TypeOK /\ HandInv /\ ApartInv /\ KnownInv /\ PortsInv /\ RunningInv
      /\ OutsideInv /\ DeletingInv /\ CountInv /\ FateInv /\ ClosedInv /\ NoneLost
  BY DEF PoolInv
<1>d. /\ s \in interrupted /\ abandoned' = abandoned \cup {s} /\ Goes(s)
      /\ UNCHANGED <<max, free, all, starts, closed, closing, port, emu, pc, dev, has, deleting,
                     interrupted>>
  BY DEF Abandon, pool, emulators, hands, Goes
<1>1. TypeOK'
  BY <1>a, <1>d DEF TypeOK
<1>2. HandInv' /\ ApartInv' /\ OutsideInv' /\ DeletingInv'
  BY <1>a, <1>d DEF HandInv, ApartInv, OutsideInv, DeletingInv, Hand, Outside
<1>3. KnownInv' /\ PortsInv' /\ RunningInv'
  BY <1>a, <1>d DEF KnownInv, PortsInv, RunningInv, Running, Boots
<1>4. CountInv' /\ FateInv' /\ ClosedInv'
  BY <1>a, <1>d DEF CountInv, FateInv, TornDown, ClosedInv, Ended, Goes
<1>5. NoneLost'
  BY <1>a, <1>d DEF NoneLost, Uses
<1> QED
  BY <1>1, <1>2, <1>3, <1>4, <1>5 DEF PoolInv

\* An emulator that exits, or is stopped, disturbs nothing: fewer run.
LEMMA ExitKeeps ==
  ASSUME PoolInv, NEW d \in Devices, emu' = [emu EXCEPT ![d] = "exited"],
         closing' = closing \ {d} \/ closing' = closing,
         \A t \in Scenarios : deleting'[t] = deleting[t] \/ (deleting[t] = d /\ deleting'[t] = NoDev),
         deleting' \in [Scenarios -> Devices \cup {NoDev}],
         UNCHANGED <<max, free, all, starts, closed, port, pc, dev, has, interrupted, abandoned>>
  PROVE  PoolInv'
<1>a. /\ TypeOK /\ HandInv /\ ApartInv /\ KnownInv /\ PortsInv /\ RunningInv
      /\ OutsideInv /\ DeletingInv /\ CountInv /\ FateInv /\ ClosedInv /\ NoneLost
  BY DEF PoolInv
<1>1. TypeOK'
  BY <1>a DEF TypeOK
<1>2. \A e \in Devices : /\ emu[e] # "none" => emu'[e] # "none"
                         /\ Running(e)' => Running(e) /\ e # d
  BY <1>a DEF TypeOK, Running
<1>3. HandInv' /\ ApartInv' /\ OutsideInv'
  BY <1>a, <1>2 DEF HandInv, ApartInv, OutsideInv, Hand, Outside
<1>4. KnownInv' /\ PortsInv'
  BY <1>a, <1>2 DEF KnownInv, PortsInv, TypeOK
<1>5. RunningInv'
  BY <1>a, <1>2 DEF RunningInv, Boots
<1>6. CountInv' /\ FateInv' /\ ClosedInv'
  BY <1>a DEF CountInv, FateInv, TornDown, ClosedInv, Ended, Goes
<1>7. NoneLost'
  BY <1>a DEF NoneLost, Uses
<1>8. DeletingInv'
  <2>1. \A t \in Scenarios : deleting'[t] # NoDev => deleting'[t] = deleting[t] /\ deleting[t] \in Devices
    BY <1>a DEF TypeOK
  <2> QED
    BY <1>a, <1>2, <2>1 DEF DeletingInv, Hand
<1> QED
  BY <1>1, <1>3, <1>4, <1>5, <1>6, <1>7, <1>8 DEF PoolInv

LEMMA DeletedKeeps ==
  ASSUME PoolInv, NEW s \in Scenarios, Deleted(s)
  PROVE  PoolInv'
<1>1. /\ deleting \in [Scenarios -> Devices \cup {NoDev}]
      /\ deleting[s] \in Devices /\ deleting' = [deleting EXCEPT ![s] = NoDev]
  BY DEF Deleted, PoolInv, TypeOK
<1> QED
  BY <1>1, ExitKeeps DEF Deleted, pool, fate

LEMMA closeKeeps ==
  ASSUME PoolInv, close
  PROVE  PoolInv'
<1>a. /\ TypeOK /\ HandInv /\ ApartInv /\ KnownInv /\ PortsInv /\ RunningInv
      /\ OutsideInv /\ DeletingInv /\ CountInv /\ FateInv /\ ClosedInv /\ NoneLost
  BY DEF PoolInv
<1>d. /\ ~ closed /\ closed' = TRUE /\ closing' = all /\ all' = {} /\ free' = {}
      /\ \A t \in Scenarios : Ended(t) \/ (t \in abandoned /\ TornDown(t))
      /\ UNCHANGED <<max, starts, port, emu, dev, has, deleting, interrupted, abandoned>>
  BY DEF close, Ended, emulators, hands, fate
<1>b. Wakes
  <2>1. "look" \in Places
    BY DEF Places, Leasing
  <2> QED
    BY <1>a, <2>1 DEF close, woken, Wakes, TypeOK
<1>c. \A t \in Scenarios : Stays(t)
  BY <1>b, WakesStay
<1>1. TypeOK'
  BY <1>a, <1>b, <1>d, WakesCount DEF TypeOK, Wakes
<1>2. HandInv' /\ ApartInv' /\ OutsideInv'
  BY <1>a, <1>c, <1>d DEF HandInv, ApartInv, OutsideInv, Stays
<1>3. KnownInv' /\ PortsInv'
  BY <1>a, <1>d DEF KnownInv, PortsInv, Running
<1>4. RunningInv'
  BY <1>a, <1>c, <1>d DEF RunningInv, ClosedInv, Running, Stays
<1>5. CountInv' /\ ClosedInv' /\ NoneLost'
  BY <1>d DEF CountInv, ClosedInv, NoneLost
<1>6. FateInv'
  BY <1>a, <1>c, <1>d DEF FateInv, TornDown, Stays
<1>7. DeletingInv'
  BY <1>a, <1>c, <1>d DEF FateInv, TornDown, DeletingInv
<1> QED
  BY <1>1, <1>2, <1>3, <1>4, <1>5, <1>6, <1>7 DEF PoolInv

LEMMA PoolStutter ==
  ASSUME PoolInv, UNCHANGED vars
  PROVE  PoolInv'
<1>a. /\ TypeOK /\ HandInv /\ ApartInv /\ KnownInv /\ PortsInv /\ RunningInv
      /\ OutsideInv /\ DeletingInv /\ CountInv /\ FateInv /\ ClosedInv /\ NoneLost
  BY DEF PoolInv
<1>d. UNCHANGED <<max, free, all, starts, closed, closing, port, emu, pc, dev, has,
                  deleting, interrupted, abandoned>>
  BY DEF vars, pool, emulators, hands, fate
<1>1. TypeOK' /\ HandInv' /\ ApartInv' /\ OutsideInv' /\ DeletingInv'
  BY <1>a, <1>d DEF TypeOK, HandInv, ApartInv, OutsideInv, DeletingInv, Hand, Outside
<1>2. KnownInv' /\ PortsInv' /\ RunningInv'
  BY <1>a, <1>d DEF KnownInv, PortsInv, RunningInv, Running, Boots
<1>3. CountInv' /\ FateInv' /\ ClosedInv' /\ NoneLost'
  BY <1>a, <1>d DEF CountInv, FateInv, TornDown, ClosedInv, NoneLost, Uses, Ended, Goes
<1> QED
  BY <1>1, <1>2, <1>3 DEF PoolInv

-----------------------------------------------------------------------------
(* The invariant, and what it shows *)

LEMMA StepKeeps ==
  ASSUME PoolInv, NEW s \in Scenarios, Step(s)
  PROVE  PoolInv'
<1>1. CASE lease(s) \/ WaitEnds(s) \/ boot1(s) \/ Booted(s) \/ StoppedStarting(s)
  BY <1>1, leaseKeeps, WaitEndsKeeps, boot1Keeps, BootedKeeps, StoppedStartingKeeps
<1>2. CASE StartFails(s) \/ StartOver(s) \/ AfreshBoots(s) \/ AfreshOver(s)
  BY <1>2, StartFailsKeeps, StartOverKeeps, AfreshBootsKeeps, AfreshOverKeeps
<1>3. CASE Begin(s) \/ BeginFails(s) \/ Done(s) \/ Release(s) \/ Deleted(s) \/ Over(s)
  BY <1>3, BeginKeeps, BeginFailsKeeps, DoneKeeps, ReleaseKeeps, DeletedKeeps, OverKeeps
<1> QED
  BY <1>1, <1>2, <1>3 DEF Step

LEMMA PoolNext ==
  ASSUME PoolInv, [Next]_vars
  PROVE  PoolInv'
<1>1. CASE \E s \in Scenarios : Step(s) \/ Lease(s) \/ Afresh(s) \/ Interrupt(s) \/ Abandon(s)
  BY <1>1, StepKeeps, LeaseKeeps, AfreshKeeps, InterruptKeeps, AbandonKeeps
<1>2. ASSUME NEW d \in Devices, Exits(d) \/ Stopped(d)
      PROVE  PoolInv'
  <2>1. deleting \in [Scenarios -> Devices \cup {NoDev}]
    BY DEF PoolInv, TypeOK
  <2> QED
    BY <1>2, <2>1, ExitKeeps DEF Exits, Stopped, pool, hands, fate
<1>3. CASE close
  BY <1>3, closeKeeps
<1>4. CASE UNCHANGED vars
  BY <1>4, PoolStutter
<1> QED
  BY <1>1, <1>2, <1>3, <1>4 DEF Next

(* In every behaviour of the pool (lease, start, release, close and what its
   scenarios do meanwhile) the inductive invariant holds. *)
THEOREM PoolInvariant == Spec => []PoolInv
<1>1. Init => PoolInv
  BY PoolInit
<1>2. PoolInv /\ [Next]_vars => PoolInv'
  BY PoolNext
<1> QED
  BY <1>1, <1>2, PTL DEF Spec

(* The variables have their types, and pool.starts counts the scenarios in
   start. *)
THEOREM PoolTypeCorrect == Spec => []TypeOK
<1>1. PoolInv => TypeOK
  BY DEF PoolInv
<1> QED
  BY <1>1, PoolInvariant, PTL

(* No device is lost to the pool (release, releaseDevice): each one it counts
   is free or in the hands of a scenario. *)
THEOREM PoolNoneLost == Spec => []NoneLost
<1>1. PoolInv => NoneLost
  BY DEF PoolInv
<1> QED
  BY <1>1, PoolInvariant, PTL

(* No scenario has another's device, and as long as the emulator of a device in
   use runs it is the only one at the device's serial (lease, consolePort). *)
THEOREM PoolOwnDevice == Spec => []OwnDevice
<1>1. ASSUME PoolInv PROVE OwnDevice
  <2>1. \A s \in Scenarios : Inside(s) => Hand(s)
    BY DEF Inside, Hand
  <2>2. ApartInv /\ PortsInv /\ HandInv /\ TypeOK
    BY <1>1 DEF PoolInv
  <2>3. \A s \in Scenarios : Uses(s) \subseteq Devices /\ Uses(s) \cap free = {}
    BY <2>1, <2>2, UsesIs DEF ApartInv, HandInv, TypeOK
  <2>4. \A s, t \in Scenarios : s # t => Uses(s) \cap Uses(t) = {}
    BY <2>1, <2>2, UsesIs DEF ApartInv
  <2>5. \A d \in Devices : Running(d) => AtSerial(d) = {d}
    BY <2>2 DEF PortsInv, AtSerial
  <2> QED
    BY <2>3, <2>4, <2>5 DEF OwnDevice
<1> QED
  BY <1>1, PoolInvariant, PTL

(* Once close is over no emulator runs but those in the hands of code that was
   abandoned (close, start). *)
THEOREM PoolNoneLeft == Spec => []NoneLeft
<1>1. ASSUME PoolInv PROVE NoneLeft
  <2>1. \A s \in Scenarios : Boots(s) => ~ Ended(s) /\ pc[s] # "over"
    BY DEF Boots, Ended
  <2> QED
    BY <1>1, <2>1, NoDevAssumption DEF PoolInv, RunningInv, ClosedInv, FateInv, TornDown, NoneLeft
<1> QED
  BY <1>1, PoolInvariant, PTL

\* The devices that starting scenarios have in hand are no more than those.
LEMMA HandsBound ==
  ASSUME PoolInv
  PROVE  LET H == {dev[s] : s \in StartingNow}
         IN  IsFiniteSet(H) /\ Cardinality(H) \in Nat /\ Cardinality(H) <= starts
<1> DEFINE H == {dev[s] : s \in StartingNow}
           f == [s \in StartingNow |-> dev[s]]
<1>1. IsFiniteSet(StartingNow) /\ starts = Cardinality(StartingNow)
  BY CountIs DEF PoolInv, TypeOK
<1>2. f \in Surjection(StartingNow, H)
  BY DEF Surjection
<1> HIDE DEF H, f
<1>3. IsFiniteSet(H) /\ Cardinality(H) <= Cardinality(StartingNow)
  BY <1>1, <1>2, FS_Surjection
<1>4. Cardinality(H) \in Nat
  BY <1>3, FS_CardinalityType
<1> QED
  BY <1>1, <1>3, <1>4 DEF H

(* At most max emulators run, those being deleted aside (lease counts the
   devices there are and those on their way before it starts one more). *)
THEOREM PoolAtMostMax == Spec => []AtMostMax
<1>1. ASSUME PoolInv, ~ closed
      PROVE  Cardinality({d \in Devices : Running(d) /\ \A s \in Scenarios : deleting[s] # d}) <= max
  <2> DEFINE H == {dev[s] : s \in StartingNow}
             R == {d \in Devices : Running(d) /\ \A s \in Scenarios : deleting[s] # d}
  <2>1. closing = {} /\ Cardinality(all) + starts <= max
    BY <1>1 DEF PoolInv, ClosedInv, CountInv
  <2>2. \A s \in Scenarios : Boots(s) => s \in StartingNow \/ Inside(s)
    BY DEF Boots, StartingNow, Starting, Inside, Beginning
  <2>3. \A s \in Scenarios : Inside(s) => dev[s] \in all
    BY <1>1, UsesIs DEF PoolInv, NoneLost
  <2>4. R \subseteq all \cup H
    BY <1>1, <2>1, <2>2, <2>3 DEF PoolInv, RunningInv
  <2>5. IsFiniteSet(H) /\ Cardinality(H) \in Nat /\ Cardinality(H) <= starts
    BY <1>1, HandsBound
  <2>6. IsFiniteSet(all) /\ Cardinality(all) \in Nat /\ starts \in Nat /\ max \in Nat
    BY <1>1, CountsAre
  <2> HIDE DEF H, R
  <2>7. /\ IsFiniteSet(all \cup H) /\ Cardinality(all \cup H) \in Nat
        /\ Cardinality(all \cup H) <= Cardinality(all) + Cardinality(H)
    <3>1. /\ IsFiniteSet(all \cup H) /\ IsFiniteSet(all \cap H)
          /\ Cardinality(all \cup H) = Cardinality(all) + Cardinality(H) - Cardinality(all \cap H)
      BY <2>5, <2>6, FS_Union, FS_Intersection
    <3> QED
      BY <2>5, <2>6, <3>1, FS_CardinalityType
  <2>8. Cardinality(R) \in Nat /\ Cardinality(R) <= Cardinality(all \cup H)
    BY <2>4, <2>7, FS_Subset, FS_CardinalityType
  <2>9. Cardinality(R) <= max
    BY <2>1, <2>5, <2>6, <2>7, <2>8
  <2> QED
    BY <2>9 DEF R
<1> QED
  BY <1>1, PoolInvariant, PTL DEF AtMostMax
=============================================================================
