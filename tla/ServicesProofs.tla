--------------------------- MODULE ServicesProofs ---------------------------
(***************************************************************************)
(* Manager.Start and Stop keep the order of dependencies and leave nothing  *)
(* behind, for any number of services and any graph without a cycle,        *)
(* whatever fails, exits by itself, is attached or is interrupted.          *)
(***************************************************************************)
EXTENDS Services, FiniteSetTheorems, SequenceTheorems, WellFoundedInduction, TLAPS

\* A service is up once.
NoDup == \A i, j \in DOMAIN up : up[i] = up[j] => i = j

\* Where the goroutines of a Start are, and what ended them.
StartInv ==
  \A s \in Services :
    /\ at[s] = "out" <=> s \notin todo
    /\ at[s] \in {"waiting", "going", "launched"} => s \notin Range(up)
    /\ at[s] = "published" => s \in Range(up)
    /\ at[s] = "launched" => s \notin Attach
    /\ at[s] = "failed" => first
    /\ at[s] = "quit" => cancelled
    /\ phase # "starting" => at[s] \in {"out", "ready", "quit", "failed"}

\* While services start, what is up is ready, or the Start will tell of it.
ReadyInv ==
  phase = "starting" =>
    /\ \A s \in Services : at[s] = "ready" => s \in ready
    /\ \A s \in Range(up) : s \in ready \/ at[s] \in {"published", "failed"}

\* What a service needs is started with it, or was ready before.
DepsInv ==
  phase = "starting" /\ graph =>
    \A s \in todo : dependsOn[s] \cap Enabled \subseteq todo \cup ready

\* What a service is stopped before: all it depends on, or its predecessor.
AfterInv ==
  /\ graph => \A s \in Range(up) : dependsOn[s] \cap Enabled \subseteq after[s]
  /\ ~graph => \A j \in 2..Len(up) : up[j - 1] \in after[up[j]]

\* Where the goroutines of a Stop are.
StopInv ==
  \A s \in Services :
    /\ phase # "stopping" => stopAt[s] \in {"out", "stopped"}
    /\ phase = "stopping" => (stopAt[s] # "out" <=> s \in Range(up))

\* Dependents, or later services, are stopped first.
OrderInv ==
  phase = "stopping" =>
    /\ graph => \A s \in Range(up) : \A d \in dependsOn[s] \cap Range(up) :
                  stopAt[d] \in {"terminated", "stopped"} => stopAt[s] = "stopped"
    /\ ~graph => \A i, j \in DOMAIN up :
                   i < j /\ stopAt[up[i]] \in {"terminated", "stopped"}
                     => stopAt[up[j]] = "stopped"

\* What runs or has its cleanup to come is up, or an error told of it.
LeftInv ==
  /\ \A s \in alive \cup owed : s \in errs \/ s \in Range(up) \/ at[s] = "launched"
  /\ phase = "stopping" => \A s \in Services :
       /\ stopAt[s] \in {"terminated", "stopped"} /\ s \in alive => s \in errs
       /\ stopAt[s] = "stopped" /\ s \in owed => s \in errs

ServicesInv ==
  /\ TypeOK /\ NoDup /\ StartInv /\ ReadyInv /\ DepsInv /\ StartsAfterDependencies
  /\ StartedMeansReady /\ AfterInv /\ StopInv /\ OrderInv /\ LeftInv

-----------------------------------------------------------------------------
(* Numbers, sequences and the graph *)

LEMMA Least ==
  ASSUME NEW T, T \subseteq Nat, T # {}
  PROVE  \E x \in T : \A y \in T : x <= y
<1> DEFINE R == OpToRel(<, Nat)
<1>1. IsWellFoundedOn(R, Nat)
  BY NatLessThanWellFounded
<1>2. \A x, y \in Nat : <<y, x>> \in R <=> y < x
  BY DEF OpToRel
<1> HIDE DEF R
<1>3. PICK x \in T : \A y \in T : ~ (<<y, x>> \in R)
  BY <1>1, WFMin
<1>4. \A y \in T : ~ (y < x) /\ y \in Nat /\ x \in Nat
  BY <1>2, <1>3
<1> QED
  BY <1>4

LEMMA Greatest ==
  ASSUME NEW n \in Nat, NEW T, T \subseteq 1..n, T # {}
  PROVE  \E x \in T : \A y \in T : y <= x
<1> DEFINE D == {n - y : y \in T}
<1>1. \A y \in T : y \in Int /\ n - y \in Nat
  OBVIOUS
<1>2. D \subseteq Nat /\ D # {}
  BY <1>1
<1>3. PICK d \in D : \A e \in D : d <= e
  BY <1>2, Least
<1>4. PICK x \in T : d = n - x
  OBVIOUS
<1>5. \A y \in T : n - x <= n - y
  BY <1>3, <1>4
<1> QED
  BY <1>1, <1>5

\* Without dependsOn a service waits for the one before it, which waited for
\* those before that: all of them are ready.
LEMMA AllBefore ==
  ASSUME ServicesInv, ~graph, NEW s \in todo, \A d \in deps(s) : at[d] = "ready",
         phase = "starting"
  PROVE  \A t \in todo : t < s => t \in ready
<1> DEFINE T == {t \in todo : t < s}
<1>1. CASE T = {}
  BY <1>1
<1>2. CASE T # {}
  <2>1. N \in Nat /\ todo \subseteq 1..N
    BY ServicesAssumption DEF ServicesInv, TypeOK, Services
  <2>2. PICK p \in T : \A y \in T : y <= p
    BY <1>2, <2>1, Greatest
  <2>3. p \in deps(s)
    BY <2>2 DEF deps
  <2>4. at[p] = "ready" /\ p \in ready
    BY <2>1, <2>3 DEF ServicesInv, ReadyInv, Services
  <2>5. {t \in todo : t < p} \subseteq ready
    BY <2>1, <2>2, <2>4 DEF ServicesInv, StartsAfterDependencies, needed
  <2>6. \A t \in todo : t \in Int /\ p \in Int /\ s \in Int
    BY <2>1, <2>2
  <2> QED
    BY <2>2, <2>4, <2>5, <2>6
<1> QED
  BY <1>1, <1>2

\* withDependencies is closed under dependsOn.
LEMMA Closed ==
  ASSUME NEW names, NEW s \in withDependencies(names)
  PROVE  dependsOn[s] \cap Enabled \subseteq withDependencies(names)
BY DEF withDependencies

LEMMA UpIs ==
  ASSUME TypeOK
  PROVE  /\ up \in Seq(Enabled) /\ Len(up) \in Nat /\ DOMAIN up = 1..Len(up)
         /\ Range(up) = {up[i] : i \in 1..Len(up)}
         /\ \A i \in 1..Len(up) : up[i] \in Range(up)
         /\ Range(up) \subseteq Enabled /\ Enabled \subseteq Services
         /\ IsFiniteSet(Range(up)) /\ (up = <<>> <=> Range(up) = {})
<1>1. up \in Seq(Enabled) /\ Len(up) \in Nat /\ DOMAIN up = 1..Len(up)
  BY LenProperties DEF TypeOK
<1>2. \A i \in 1..Len(up) : up[i] \in Enabled
  BY <1>1, ElementOfSeq
<1>3. Enabled \subseteq Services /\ IsFiniteSet(Services)
  BY ServicesAssumption, FS_Interval DEF Services
<1>4. Range(up) \subseteq Enabled /\ Range(up) = {up[i] : i \in 1..Len(up)}
  BY <1>1, <1>2 DEF Range
<1>5. IsFiniteSet(Range(up))
  <2>1. Range(up) \subseteq Services
    BY <1>3, <1>4
  <2> QED
    BY <1>3, <2>1, FS_Subset
<1>6. up = <<>> <=> Range(up) = {}
  <2>1. up = <<>> <=> Len(up) = 0
    BY <1>1, EmptySeq
  <2>2. Len(up) = 0 <=> 1..Len(up) = {}
    BY <1>1
  <2> QED
    BY <1>4, <2>1, <2>2
<1> QED
  BY <1>1, <1>3, <1>4, <1>5, <1>6

LEMMA ServicesInit == Init => ServicesInv
<1> SUFFICES ASSUME Init PROVE ServicesInv
  OBVIOUS
<1>1. Len(up) = 0 /\ DOMAIN up = {} /\ Range(up) = {} /\ up \in Seq(Enabled)
  BY EmptySeq DEF Init, Range
<1>2. TypeOK
  <2>1. Cardinality(Range(up)) = 0
    BY <1>1, FS_EmptySet
  <2>2. 0 \in 0..MaxStarts
    BY ServicesAssumption
  <2>3. /\ at \in [Services -> {"out", "waiting", "going", "launched", "published",
                               "ready", "quit", "failed"}]
        /\ after \in [Services -> SUBSET Services]
        /\ stopAt \in [Services -> {"out", "waiting", "terminated", "stopped"}]
    BY DEF Init
  <2> QED
    BY <1>1, <2>1, <2>2, <2>3 DEF Init, TypeOK
<1>3. StartInv /\ ReadyInv /\ DepsInv /\ StartsAfterDependencies /\ StartedMeansReady
  BY DEF Init, StartInv, ReadyInv, DepsInv, StartsAfterDependencies, StartedMeansReady
<1>4. NoDup /\ AfterInv /\ StopInv /\ OrderInv /\ LeftInv
  BY <1>1 DEF Init, NoDup, AfterInv, StopInv, OrderInv, LeftInv
<1> QED
  BY <1>2, <1>3, <1>4 DEF ServicesInv

-----------------------------------------------------------------------------
(* The goroutines of Start *)

LEMMA QuitKeeps ==
  ASSUME ServicesInv, NEW s \in Services, Quit(s)
  PROVE  ServicesInv'
<1>a. /\ TypeOK /\ NoDup /\ StartInv /\ ReadyInv /\ DepsInv /\ StartsAfterDependencies
      /\ StartedMeansReady /\ AfterInv /\ StopInv /\ OrderInv /\ LeftInv
  BY DEF ServicesInv
<1>d. /\ at[s] = "waiting" /\ cancelled
      /\ at' = [at EXCEPT ![s] = "quit"]
      /\ UNCHANGED <<dependsOn, phase, starts, todo, ctxDone, first, ready, up, after, alive,
                     owed, stopAt, errs, result>>
  BY DEF Quit, startVars, stopVars
<1>g. graph' = graph /\ \A t : needed(t)' = needed(t)
  BY <1>d DEF graph, needed
<1>p. phase = "starting" /\ s \in todo
  BY <1>a, <1>d DEF StartInv
<1>1. TypeOK'
  BY <1>p, <1>a, <1>d DEF TypeOK
<1>2. NoDup'
  BY <1>p, <1>a, <1>d DEF NoDup
<1>3. StartInv'
  BY <1>p, <1>a, <1>d DEF StartInv, TypeOK, cancelled
<1>4. ReadyInv'
  BY <1>p, <1>a, <1>d DEF ReadyInv, TypeOK
<1>5. DepsInv'
  BY <1>p, <1>a, <1>d, <1>g DEF DepsInv
<1>6. StartsAfterDependencies'
  BY <1>p, <1>a, <1>d, <1>g DEF StartsAfterDependencies, TypeOK
<1>7. StartedMeansReady'
  BY <1>p, <1>a, <1>d DEF StartedMeansReady
<1>8. AfterInv'
  BY <1>p, <1>a, <1>d, <1>g DEF AfterInv
<1>9. StopInv'
  BY <1>p, <1>a, <1>d DEF StopInv, TypeOK
<1>10. OrderInv'
  BY <1>p, <1>a, <1>d, <1>g DEF OrderInv, TypeOK
<1>11. LeftInv'
  BY <1>p, <1>a, <1>d DEF LeftInv, TypeOK
<1> QED
  BY <1>1, <1>2, <1>3, <1>4, <1>5, <1>6, <1>7, <1>8, <1>9, <1>10, <1>11 DEF ServicesInv

LEMMA GoKeeps ==
  ASSUME ServicesInv, NEW s \in Services, Go(s)
  PROVE  ServicesInv'
<1>a. /\ TypeOK /\ NoDup /\ StartInv /\ ReadyInv /\ DepsInv /\ StartsAfterDependencies
      /\ StartedMeansReady /\ AfterInv /\ StopInv /\ OrderInv /\ LeftInv
  BY DEF ServicesInv
<1>d. /\ at[s] = "waiting" /\ \A d \in deps(s) : at[d] = "ready"
      /\ at' = [at EXCEPT ![s] = "going"]
      /\ UNCHANGED <<dependsOn, phase, starts, todo, ctxDone, first, ready, up, after, alive,
                     owed, stopAt, errs, result>>
  BY DEF Go, startVars, stopVars
<1>g. graph' = graph /\ \A t : needed(t)' = needed(t)
  BY <1>d DEF graph, needed
<1>p. phase = "starting" /\ s \in todo
  BY <1>a, <1>d DEF StartInv
<1>n. needed(s) \subseteq ready
  <2>1. CASE graph
    <3>1. dependsOn[s] \cap Enabled \subseteq todo \cup ready
      BY <1>a, <1>p, <2>1 DEF DepsInv
    <3>2. \A d \in dependsOn[s] \cap todo : d \in Services /\ at[d] = "ready"
      BY <1>a, <1>d, <2>1, UpIs DEF deps, TypeOK
    <3>3. \A d \in dependsOn[s] \cap todo : d \in ready
      BY <1>a, <1>p, <3>2 DEF ReadyInv
    <3> QED
      BY <2>1, <3>1, <3>3 DEF needed
  <2>2. CASE ~graph
    BY <1>d, <1>p, <2>2, AllBefore DEF needed
  <2> QED
    BY <2>1, <2>2
<1>1. TypeOK'
  BY <1>p, <1>a, <1>d DEF TypeOK
<1>2. NoDup'
  BY <1>p, <1>a, <1>d DEF NoDup
<1>3. StartInv'
  BY <1>p, <1>a, <1>d DEF StartInv, TypeOK, cancelled
<1>4. ReadyInv'
  BY <1>p, <1>a, <1>d DEF ReadyInv, TypeOK
<1>5. DepsInv'
  BY <1>p, <1>a, <1>d, <1>g DEF DepsInv
<1>6. StartsAfterDependencies'
  BY <1>a, <1>d, <1>g, <1>n DEF StartsAfterDependencies, TypeOK
<1>7. StartedMeansReady'
  BY <1>p, <1>a, <1>d DEF StartedMeansReady
<1>8. AfterInv'
  BY <1>p, <1>a, <1>d, <1>g DEF AfterInv
<1>9. StopInv'
  BY <1>p, <1>a, <1>d DEF StopInv, TypeOK
<1>10. OrderInv'
  BY <1>p, <1>a, <1>d, <1>g DEF OrderInv, TypeOK
<1>11. LeftInv'
  BY <1>p, <1>a, <1>d DEF LeftInv, TypeOK
<1> QED
  BY <1>1, <1>2, <1>3, <1>4, <1>5, <1>6, <1>7, <1>8, <1>9, <1>10, <1>11 DEF ServicesInv

LEMMA LaunchKeeps ==
  ASSUME ServicesInv, NEW s \in Services, Launch(s)
  PROVE  ServicesInv'
<1>a. /\ TypeOK /\ NoDup /\ StartInv /\ ReadyInv /\ DepsInv /\ StartsAfterDependencies
      /\ StartedMeansReady /\ AfterInv /\ StopInv /\ OrderInv /\ LeftInv
  BY DEF ServicesInv
<1>d. /\ at[s] = "going" /\ s \notin Attach
      /\ at' = [at EXCEPT ![s] = "launched"]
      /\ alive' = alive \cup {s} /\ owed' = owed \cup {s}
      /\ UNCHANGED <<dependsOn, phase, starts, todo, ctxDone, first, ready, up, after,
                     stopAt, errs, result>>
  BY DEF Launch, startVars, stopVars
<1>g. graph' = graph /\ \A t : needed(t)' = needed(t)
  BY <1>d DEF graph, needed
<1>p. phase = "starting" /\ s \in todo
  BY <1>a, <1>d DEF StartInv
<1>1. TypeOK'
  BY <1>p, <1>a, <1>d DEF TypeOK
<1>2. NoDup'
  BY <1>p, <1>a, <1>d DEF NoDup
<1>3. StartInv'
  BY <1>p, <1>a, <1>d DEF StartInv, TypeOK, cancelled
<1>4. ReadyInv'
  BY <1>p, <1>a, <1>d DEF ReadyInv, TypeOK
<1>5. DepsInv'
  BY <1>p, <1>a, <1>d, <1>g DEF DepsInv
<1>6. StartsAfterDependencies'
  BY <1>p, <1>a, <1>d, <1>g DEF StartsAfterDependencies, TypeOK
<1>7. StartedMeansReady'
  BY <1>p, <1>a, <1>d DEF StartedMeansReady
<1>8. AfterInv'
  BY <1>p, <1>a, <1>d, <1>g DEF AfterInv
<1>9. StopInv'
  BY <1>p, <1>a, <1>d DEF StopInv, TypeOK
<1>10. OrderInv'
  BY <1>p, <1>a, <1>d, <1>g DEF OrderInv, TypeOK
<1>11. LeftInv'
  BY <1>p, <1>a, <1>d DEF LeftInv, TypeOK
<1> QED
  BY <1>1, <1>2, <1>3, <1>4, <1>5, <1>6, <1>7, <1>8, <1>9, <1>10, <1>11 DEF ServicesInv

\* LaunchFails and NotReady.
LEMMA FailKeeps ==
  ASSUME ServicesInv, NEW s \in Services, fail(s),
         at[s] = "going" \/ at[s] = "published",
         UNCHANGED <<dependsOn, phase, starts, todo, ctxDone, ready, up, after, alive, owed,
                     stopVars,
                     result>>
  PROVE  ServicesInv'
<1>a. /\ TypeOK /\ NoDup /\ StartInv /\ ReadyInv /\ DepsInv /\ StartsAfterDependencies
      /\ StartedMeansReady /\ AfterInv /\ StopInv /\ OrderInv /\ LeftInv
  BY DEF ServicesInv
<1>d. /\ at[s] = "going" \/ at[s] = "published"
      /\ at' = [at EXCEPT ![s] = "failed"] /\ first' = TRUE
      /\ UNCHANGED <<dependsOn, phase, starts, todo, ctxDone, ready, up, after, alive, owed,
                     stopAt, errs, result>>
  BY DEF fail, startVars, stopVars
<1>g. graph' = graph /\ \A t : needed(t)' = needed(t)
  BY <1>d DEF graph, needed
<1>p. phase = "starting" /\ s \in todo
  BY <1>a, <1>d DEF StartInv
<1>1. TypeOK'
  BY <1>p, <1>a, <1>d DEF TypeOK
<1>2. NoDup'
  BY <1>p, <1>a, <1>d DEF NoDup
<1>3. StartInv'
  BY <1>p, <1>a, <1>d DEF StartInv, TypeOK, cancelled
<1>4. ReadyInv'
  BY <1>p, <1>a, <1>d DEF ReadyInv, TypeOK
<1>5. DepsInv'
  BY <1>p, <1>a, <1>d, <1>g DEF DepsInv
<1>6. StartsAfterDependencies'
  BY <1>p, <1>a, <1>d, <1>g DEF StartsAfterDependencies, TypeOK
<1>7. StartedMeansReady'
  BY <1>p, <1>a, <1>d DEF StartedMeansReady
<1>8. AfterInv'
  BY <1>p, <1>a, <1>d, <1>g DEF AfterInv
<1>9. StopInv'
  BY <1>p, <1>a, <1>d DEF StopInv, TypeOK
<1>10. OrderInv'
  BY <1>p, <1>a, <1>d, <1>g DEF OrderInv, TypeOK
<1>11. LeftInv'
  BY <1>p, <1>a, <1>d DEF LeftInv, TypeOK
<1> QED
  BY <1>1, <1>2, <1>3, <1>4, <1>5, <1>6, <1>7, <1>8, <1>9, <1>10, <1>11 DEF ServicesInv

LEMMA ReadyKeeps ==
  ASSUME ServicesInv, NEW s \in Services, Ready(s)
  PROVE  ServicesInv'
<1>a. /\ TypeOK /\ NoDup /\ StartInv /\ ReadyInv /\ DepsInv /\ StartsAfterDependencies
      /\ StartedMeansReady /\ AfterInv /\ StopInv /\ OrderInv /\ LeftInv
  BY DEF ServicesInv
<1>d. /\ at[s] = "published"
      /\ at' = [at EXCEPT ![s] = "ready"]
      /\ ready' = ready \cup {s}
      /\ UNCHANGED <<dependsOn, phase, starts, todo, ctxDone, first, up, after, alive, owed,
                     stopAt, errs, result>>
  BY DEF Ready, startVars, stopVars
<1>g. graph' = graph /\ \A t : needed(t)' = needed(t)
  BY <1>d DEF graph, needed
<1>p. phase = "starting" /\ s \in todo
  BY <1>a, <1>d DEF StartInv
<1>1. TypeOK'
  BY <1>a, <1>d DEF TypeOK, StartInv
<1>2. NoDup'
  BY <1>p, <1>a, <1>d DEF NoDup
<1>3. StartInv'
  BY <1>p, <1>a, <1>d DEF StartInv, TypeOK, cancelled
<1>4. ReadyInv'
  BY <1>p, <1>a, <1>d DEF ReadyInv, TypeOK
<1>5. DepsInv'
  BY <1>p, <1>a, <1>d, <1>g DEF DepsInv
<1>6. StartsAfterDependencies'
  BY <1>p, <1>a, <1>d, <1>g DEF StartsAfterDependencies, TypeOK
<1>7. StartedMeansReady'
  BY <1>p, <1>a, <1>d DEF StartedMeansReady
<1>8. AfterInv'
  BY <1>p, <1>a, <1>d, <1>g DEF AfterInv
<1>9. StopInv'
  BY <1>p, <1>a, <1>d DEF StopInv, TypeOK
<1>10. OrderInv'
  BY <1>p, <1>a, <1>d, <1>g DEF OrderInv, TypeOK
<1>11. LeftInv'
  BY <1>p, <1>a, <1>d DEF LeftInv, TypeOK
<1> QED
  BY <1>1, <1>2, <1>3, <1>4, <1>5, <1>6, <1>7, <1>8, <1>9, <1>10, <1>11 DEF ServicesInv

LEMMA InterruptKeeps ==
  ASSUME ServicesInv, Interrupt
  PROVE  ServicesInv'
<1>a. /\ TypeOK /\ NoDup /\ StartInv /\ ReadyInv /\ DepsInv /\ StartsAfterDependencies
      /\ StartedMeansReady /\ AfterInv /\ StopInv /\ OrderInv /\ LeftInv
  BY DEF ServicesInv
<1>d. /\ phase = "starting" /\ ctxDone' = TRUE
      /\ UNCHANGED <<dependsOn, phase, starts, todo, at, first, ready, up, after, alive,
                     owed, stopAt, errs, result>>
  BY DEF Interrupt, startVars, stopVars
<1>g. graph' = graph /\ \A t : needed(t)' = needed(t)
  BY <1>d DEF graph, needed
<1>1. TypeOK'
  BY <1>a, <1>d DEF TypeOK
<1>2. NoDup'
  BY <1>a, <1>d DEF NoDup
<1>3. StartInv'
  BY <1>a, <1>d DEF StartInv, TypeOK, cancelled
<1>4. ReadyInv'
  BY <1>a, <1>d DEF ReadyInv, TypeOK
<1>5. DepsInv'
  BY <1>a, <1>d, <1>g DEF DepsInv
<1>6. StartsAfterDependencies'
  BY <1>a, <1>d, <1>g DEF StartsAfterDependencies, TypeOK
<1>7. StartedMeansReady'
  BY <1>a, <1>d DEF StartedMeansReady
<1>8. AfterInv'
  BY <1>a, <1>d, <1>g DEF AfterInv
<1>9. StopInv'
  BY <1>a, <1>d DEF StopInv, TypeOK
<1>10. OrderInv'
  BY <1>a, <1>d, <1>g DEF OrderInv, TypeOK
<1>11. LeftInv'
  BY <1>a, <1>d DEF LeftInv, TypeOK
<1> QED
  BY <1>1, <1>2, <1>3, <1>4, <1>5, <1>6, <1>7, <1>8, <1>9, <1>10, <1>11 DEF ServicesInv

LEMMA ExitsKeeps ==
  ASSUME ServicesInv, NEW s \in Services, Exits(s)
  PROVE  ServicesInv'
<1>a. /\ TypeOK /\ NoDup /\ StartInv /\ ReadyInv /\ DepsInv /\ StartsAfterDependencies
      /\ StartedMeansReady /\ AfterInv /\ StopInv /\ OrderInv /\ LeftInv
  BY DEF ServicesInv
<1>d. /\ alive' = alive \ {s}
      /\ UNCHANGED <<dependsOn, phase, starts, todo, at, ctxDone, first, ready, up, after,
                     owed, stopAt, errs, result>>
  BY DEF Exits, startVars, stopVars
<1>g. graph' = graph /\ \A t : needed(t)' = needed(t)
  BY <1>d DEF graph, needed
<1>1. TypeOK'
  BY <1>a, <1>d DEF TypeOK
<1>2. NoDup'
  BY <1>a, <1>d DEF NoDup
<1>3. StartInv'
  BY <1>a, <1>d DEF StartInv, TypeOK, cancelled
<1>4. ReadyInv'
  BY <1>a, <1>d DEF ReadyInv, TypeOK
<1>5. DepsInv'
  BY <1>a, <1>d, <1>g DEF DepsInv
<1>6. StartsAfterDependencies'
  BY <1>a, <1>d, <1>g DEF StartsAfterDependencies, TypeOK
<1>7. StartedMeansReady'
  BY <1>a, <1>d DEF StartedMeansReady
<1>8. AfterInv'
  BY <1>a, <1>d, <1>g DEF AfterInv
<1>9. StopInv'
  BY <1>a, <1>d DEF StopInv, TypeOK
<1>10. OrderInv'
  BY <1>a, <1>d, <1>g DEF OrderInv, TypeOK
<1>11. LeftInv'
  BY <1>a, <1>d DEF LeftInv, TypeOK
<1> QED
  BY <1>1, <1>2, <1>3, <1>4, <1>5, <1>6, <1>7, <1>8, <1>9, <1>10, <1>11 DEF ServicesInv

LEMMA publishKeeps ==
  ASSUME ServicesInv, NEW s \in Services, publish(s)
  PROVE  ServicesInv'
<1>a. /\ TypeOK /\ NoDup /\ StartInv /\ ReadyInv /\ DepsInv /\ StartsAfterDependencies
      /\ StartedMeansReady /\ AfterInv /\ StopInv /\ OrderInv /\ LeftInv
  BY DEF ServicesInv
<1>d. /\ at[s] = "launched" \/ (at[s] = "going" /\ s \in Attach)
      /\ at' = [at EXCEPT ![s] = "published"]
      /\ after' = [after EXCEPT ![s] = IF graph THEN dependsOn[s] \cap Range(up)
                                    ELSE IF up = <<>> THEN {} ELSE {Last(up)}]
      /\ up' = Append(up, s)
      /\ UNCHANGED <<dependsOn, phase, starts, todo, ctxDone, first, ready, alive, owed,
                     stopAt, errs, result>>
  BY DEF publish, startVars, stopVars
<1>g. graph' = graph /\ \A t : needed(t)' = needed(t)
  BY <1>d DEF graph, needed
<1>p. phase = "starting" /\ s \in todo
  BY <1>a, <1>d DEF StartInv
<1>e. s \in Enabled /\ s \notin Range(up)
  BY <1>a, <1>d, <1>p DEF StartInv, TypeOK
<1>f. /\ up' \in Seq(Enabled) /\ Len(up') = Len(up) + 1 /\ DOMAIN up' = 1..(Len(up) + 1)
      /\ up'[Len(up) + 1] = s /\ \A i \in 1..Len(up) : up'[i] = up[i]
  BY <1>a, <1>d, <1>e, UpIs, AppendProperties, LenProperties
<1>u. Range(up') = Range(up) \cup {s}
  <2>1. Range(up') = {up'[i] : i \in 1..(Len(up) + 1)}
    BY <1>f DEF Range
  <2>2. Len(up) \in Nat /\ Range(up) = {up[i] : i \in 1..Len(up)}
    BY <1>a, UpIs
  <2>3. \A x : x \in Range(up') <=> x \in Range(up) \/ x = s
    BY <1>f, <2>1, <2>2
  <2> QED
    BY <2>3
<1>v. /\ after' \in [Services -> SUBSET Services]
      /\ \A t \in Services \ {s} : after'[t] = after[t]
      /\ graph => after'[s] = dependsOn[s] \cap Range(up)
      /\ ~graph /\ up # <<>> => up[Len(up)] \in after'[s]
  <2>1. Range(up) \subseteq Services /\ (up # <<>> => Last(up) = up[Len(up)] /\ up[Len(up)] \in Services)
    <3>1. up # <<>> => Len(up) \in 1..Len(up)
      BY <1>a, UpIs, EmptySeq
    <3> QED
      BY <1>a, <3>1, UpIs DEF Last
  <2> QED
    BY <1>a, <1>d, <2>1 DEF TypeOK
<1>1. TypeOK'
  <2>1. Len(up') = Cardinality(Range(up'))
    <3>1. IsFiniteSet(Range(up)) /\ Len(up) = Cardinality(Range(up))
      BY <1>a, UpIs DEF TypeOK
    <3>2. Cardinality(Range(up) \cup {s}) = Cardinality(Range(up)) + 1
      BY <1>e, <3>1, FS_AddElement
    <3> QED
      BY <1>f, <1>u, <3>1, <3>2
  <2>2. ready' \in SUBSET Range(up')
    BY <1>a, <1>d, <1>u DEF TypeOK
  <2> QED
    BY <1>a, <1>d, <1>f, <1>v, <2>1, <2>2 DEF TypeOK
<1>2. NoDup'
  <2> SUFFICES ASSUME NEW i \in 1..(Len(up) + 1), NEW j \in 1..(Len(up) + 1), up'[i] = up'[j]
               PROVE  i = j
    BY <1>f DEF NoDup
  <2>1. Len(up) \in Nat /\ DOMAIN up = 1..Len(up) /\ \A k \in 1..Len(up) : up[k] # s
    BY <1>a, <1>e, UpIs
  <2>2. CASE i = Len(up) + 1 \/ j = Len(up) + 1
    BY <1>f, <2>1, <2>2
  <2>3. CASE i \in 1..Len(up) /\ j \in 1..Len(up)
    BY <1>a, <1>f, <2>1, <2>3 DEF NoDup
  <2> QED
    BY <2>1, <2>2, <2>3
<1>3. StartInv'
  BY <1>a, <1>d, <1>p, <1>u DEF StartInv, TypeOK, cancelled
<1>4. ReadyInv'
  BY <1>a, <1>d, <1>p, <1>u DEF ReadyInv, TypeOK
<1>5. DepsInv'
  BY <1>p, <1>a, <1>d, <1>g DEF DepsInv
<1>6. StartsAfterDependencies'
  BY <1>p, <1>a, <1>d, <1>g DEF StartsAfterDependencies, TypeOK
<1>7. StartedMeansReady'
  BY <1>d, <1>p DEF StartedMeansReady
<1>8. AfterInv'
  <2>1. graph => dependsOn[s] \cap Enabled \subseteq Range(up)
    BY <1>a, <1>d, <1>p DEF StartsAfterDependencies, needed, TypeOK
  <2>2. ASSUME graph, NEW t \in Range(up') PROVE dependsOn[t] \cap Enabled \subseteq after'[t]
    BY <1>a, <1>u, <1>v, <2>1, <2>2, UpIs DEF AfterInv
  <2>3. ASSUME ~graph, NEW j \in 2..(Len(up) + 1) PROVE up'[j - 1] \in after'[up'[j]]
    <3>1. Len(up) \in Nat /\ \A k \in 1..Len(up) : up[k] # s /\ up[k] \in Services
      BY <1>a, <1>e, UpIs
    <3>2. CASE j = Len(up) + 1
      <4>1. up # <<>> /\ j - 1 = Len(up) /\ Len(up) \in 1..Len(up)
        BY <3>1, <3>2, EmptySeq
      <4> QED
        BY <1>f, <1>v, <2>3, <3>2, <4>1
    <3>3. CASE j # Len(up) + 1
      <4>1. j \in 2..Len(up) /\ j \in 1..Len(up) /\ j - 1 \in 1..Len(up)
        BY <3>1, <3>3
      <4>2. up[j - 1] \in after[up[j]]
        BY <1>a, <2>3, <4>1 DEF AfterInv
      <4> QED
        BY <1>f, <1>v, <3>1, <4>1, <4>2
    <3> QED
      BY <3>2, <3>3
  <2> QED
    BY <1>d, <1>f, <1>g, <2>2, <2>3 DEF AfterInv
<1>9. StopInv'
  BY <1>a, <1>d, <1>p DEF StopInv
<1>10. OrderInv'
  BY <1>d, <1>p DEF OrderInv
<1>11. LeftInv'
  BY <1>a, <1>d, <1>p, <1>u DEF LeftInv, TypeOK
<1> QED
  BY <1>1, <1>2, <1>3, <1>4, <1>5, <1>6, <1>7, <1>8, <1>9, <1>10, <1>11 DEF ServicesInv

-----------------------------------------------------------------------------
(* Start and Stop begin and end *)

LEMMA StartKeeps ==
  ASSUME ServicesInv, NEW names, Start(names)
  PROVE  ServicesInv'
<1>a. /\ TypeOK /\ NoDup /\ StartInv /\ ReadyInv /\ DepsInv /\ StartsAfterDependencies
      /\ StartedMeansReady /\ AfterInv /\ StopInv /\ OrderInv /\ LeftInv
  BY DEF ServicesInv
<1>d. /\ phase = "idle" /\ starts' \in 0..MaxStarts
      /\ todo' = withDependencies(names) \ Range(up) /\ ctxDone' = FALSE /\ first' = FALSE
      /\ at' = [s \in Services |-> IF s \in todo' THEN "waiting" ELSE "out"]
      /\ phase' = IF todo' = {} THEN "idle" ELSE "starting"
      /\ result' = IF todo' = {} THEN "ok" ELSE "none"
      /\ UNCHANGED <<dependsOn, ready, up, after, alive, owed, stopAt, errs>>
  BY <1>a, ServicesAssumption DEF Start, startVars, stopVars, TypeOK
<1>g. graph' = graph
  BY <1>d DEF graph, needed
<1>r. Range(up) \subseteq ready
  BY <1>a, <1>d, UpIs DEF StartedMeansReady
<1>w. withDependencies(names) \subseteq Enabled
  BY DEF withDependencies
<1>1. TypeOK'
  BY <1>a, <1>d, <1>w DEF TypeOK
<1>2. NoDup'
  BY <1>a, <1>d DEF NoDup
<1>3. StartInv'
  BY <1>a, <1>d DEF StartInv
<1>4. ReadyInv'
  BY <1>d, <1>r DEF ReadyInv
<1>5. DepsInv'
  BY <1>d, <1>r, Closed DEF DepsInv
<1>6. StartsAfterDependencies'
  BY <1>a, <1>d, <1>w, UpIs DEF StartsAfterDependencies
<1>7. StartedMeansReady'
  BY <1>d, <1>r DEF StartedMeansReady
<1>8. AfterInv'
  BY <1>a, <1>d, <1>g DEF AfterInv
<1>9. StopInv'
  BY <1>a, <1>d DEF StopInv
<1>10. OrderInv'
  BY <1>d DEF OrderInv
<1>11. LeftInv'
  BY <1>a, <1>d DEF LeftInv, StartInv, TypeOK
<1> QED
  BY <1>1, <1>2, <1>3, <1>4, <1>5, <1>6, <1>7, <1>8, <1>9, <1>10, <1>11 DEF ServicesInv

LEMMA StartRefusedKeeps ==
  ASSUME ServicesInv, StartRefused
  PROVE  ServicesInv'
<1>a. /\ TypeOK /\ NoDup /\ StartInv /\ ReadyInv /\ DepsInv /\ StartsAfterDependencies
      /\ StartedMeansReady /\ AfterInv /\ StopInv /\ OrderInv /\ LeftInv
  BY DEF ServicesInv
<1>d. /\ phase = "idle" /\ starts' \in 0..MaxStarts /\ todo' = {}
      /\ ctxDone' = FALSE /\ first' = FALSE /\ result' = "refused"
      /\ at' = [s \in Services |-> "out"]
      /\ UNCHANGED <<dependsOn, phase, ready, up, after, alive, owed, stopAt, errs>>
  BY <1>a, ServicesAssumption DEF StartRefused, stopVars, TypeOK
<1>g. graph' = graph
  BY <1>d DEF graph
<1>1. TypeOK'
  BY <1>a, <1>d DEF TypeOK
<1>2. NoDup'
  BY <1>a, <1>d DEF NoDup
<1>3. StartInv'
  BY <1>a, <1>d DEF StartInv
<1>4. ReadyInv' /\ DepsInv' /\ StartsAfterDependencies'
  BY <1>d DEF ReadyInv, DepsInv, StartsAfterDependencies
<1>5. StartedMeansReady'
  BY <1>a, <1>d, UpIs DEF StartedMeansReady
<1>6. AfterInv'
  BY <1>a, <1>d, <1>g DEF AfterInv
<1>7. StopInv' /\ OrderInv'
  BY <1>a, <1>d DEF StopInv, OrderInv
<1>8. LeftInv'
  BY <1>a, <1>d DEF LeftInv, StartInv, TypeOK
<1> QED
  BY <1>1, <1>2, <1>3, <1>4, <1>5, <1>6, <1>7, <1>8 DEF ServicesInv

\* Stop, or a Start that failed, stops what is up.
LEMMA BeginStopKeeps ==
  ASSUME ServicesInv, beginStop, phase # "stopping",
         \A s \in Services : at[s] \in {"out", "ready", "quit", "failed"},
         result' \in {"error", result},
         UNCHANGED <<dependsOn, startVars, ready, up, after, alive, owed>>
  PROVE  ServicesInv'
<1>a. /\ TypeOK /\ NoDup /\ StartInv /\ ReadyInv /\ DepsInv /\ StartsAfterDependencies
      /\ StartedMeansReady /\ AfterInv /\ StopInv /\ OrderInv /\ LeftInv
  BY DEF ServicesInv
<1>d. /\ phase' = "stopping" /\ result' \in {"error", result}
      /\ \A s \in Services : at[s] \in {"out", "ready", "quit", "failed"}
      /\ stopAt' = [s \in Services |-> IF s \in Range(up) THEN "waiting" ELSE "out"]
      /\ UNCHANGED <<dependsOn, starts, todo, at, ctxDone, first, ready, up, after, alive,
                     owed, errs>>
  BY DEF beginStop, startVars, stopVars
<1>g. graph' = graph /\ \A t : needed(t)' = needed(t)
  BY <1>d DEF graph, needed
<1>1. TypeOK'
  BY <1>a, <1>d DEF TypeOK
<1>2. NoDup'
  BY <1>a, <1>d DEF NoDup
<1>3. StartInv'
  BY <1>a, <1>d DEF StartInv, cancelled
<1>4. ReadyInv'
  BY <1>d DEF ReadyInv
<1>5. DepsInv'
  BY <1>d DEF DepsInv
<1>6. StartsAfterDependencies'
  BY <1>d DEF StartsAfterDependencies
<1>7. StartedMeansReady'
  BY <1>d DEF StartedMeansReady
<1>8. AfterInv'
  BY <1>a, <1>d, <1>g DEF AfterInv
<1>9. StopInv'
  BY <1>d DEF StopInv
<1>10. OrderInv'
  BY <1>a, <1>d, UpIs DEF OrderInv
<1>11. LeftInv'
  BY <1>a, <1>d DEF LeftInv
<1> QED
  BY <1>1, <1>2, <1>3, <1>4, <1>5, <1>6, <1>7, <1>8, <1>9, <1>10, <1>11 DEF ServicesInv

\* Start returns with nothing to stop.
LEMMA StartEndsKeeps ==
  ASSUME ServicesInv, phase = "starting", phase' = "idle",
         \A s \in Services : at[s] \in {"out", "ready", "quit", "failed"},
         result' \in {"ok", "error"}, StartedMeansReady',
         UNCHANGED <<dependsOn, startVars, ready, up, after, alive, owed, stopVars>>
  PROVE  ServicesInv'
<1>a. /\ TypeOK /\ NoDup /\ StartInv /\ ReadyInv /\ DepsInv /\ StartsAfterDependencies
      /\ StartedMeansReady /\ AfterInv /\ StopInv /\ OrderInv /\ LeftInv
  BY DEF ServicesInv
<1>d. /\ phase = "starting" /\ phase' = "idle" /\ result' \in {"ok", "error"}
      /\ \A s \in Services : at[s] \in {"out", "ready", "quit", "failed"}
      /\ UNCHANGED <<dependsOn, starts, todo, at, ctxDone, first, ready, up, after, alive,
                     owed, stopAt, errs>>
  BY DEF startVars, startVars, stopVars
<1>g. graph' = graph /\ \A t : needed(t)' = needed(t)
  BY <1>d DEF graph, needed
<1>1. TypeOK'
  BY <1>a, <1>d DEF TypeOK
<1>2. NoDup'
  BY <1>a, <1>d DEF NoDup
<1>3. StartInv'
  BY <1>a, <1>d DEF StartInv, cancelled
<1>4. ReadyInv'
  BY <1>d DEF ReadyInv
<1>5. DepsInv'
  BY <1>d DEF DepsInv
<1>6. StartsAfterDependencies'
  BY <1>d DEF StartsAfterDependencies
<1>7. StartedMeansReady'
  OBVIOUS
<1>8. AfterInv'
  BY <1>a, <1>d, <1>g DEF AfterInv
<1>9. StopInv'
  BY <1>a, <1>d DEF StopInv
<1>10. OrderInv'
  BY <1>d DEF OrderInv
<1>11. LeftInv'
  BY <1>a, <1>d DEF LeftInv, TypeOK
<1> QED
  BY <1>1, <1>2, <1>3, <1>4, <1>5, <1>6, <1>7, <1>8, <1>9, <1>10, <1>11 DEF ServicesInv

LEMMA StartOverKeeps ==
  ASSUME ServicesInv, StartOver
  PROVE  ServicesInv'
<1>a. TypeOK /\ StartInv /\ ReadyInv
  BY DEF ServicesInv
<1>1. /\ phase = "starting" /\ \A s \in todo : at[s] \in {"ready", "quit", "failed"}
      /\ UNCHANGED <<dependsOn, startVars, ready, up, after, alive, owed>>
  BY DEF StartOver
<1>2. \A s \in Services : at[s] \in {"out", "ready", "quit", "failed"}
  BY <1>a, <1>1 DEF StartInv
<1>3. CASE ~first /\ ~ctxDone
  <2>1. phase' = "idle" /\ result' = "ok" /\ UNCHANGED stopVars
    BY <1>3 DEF StartOver
  <2>2. \A s \in Services : at[s] \in {"out", "ready"}
    BY <1>a, <1>2, <1>3 DEF StartInv, cancelled
  <2>3. todo \subseteq ready /\ todo \subseteq Services
    BY <1>a, <1>1, <2>2, UpIs DEF StartInv, ReadyInv, TypeOK
  <2>4. todo \subseteq Range(up) /\ Range(up) \subseteq ready
    BY <1>a, <1>1, <2>2, <2>3, UpIs DEF ReadyInv, TypeOK
  <2>5. StartedMeansReady'
    BY <1>1, <2>1, <2>4 DEF StartedMeansReady, startVars
  <2> QED
    BY <1>1, <1>2, <2>1, <2>5, StartEndsKeeps
<1>4. CASE ~(~first /\ ~ctxDone) /\ up = <<>>
  <2>1. phase' = "idle" /\ result' = "error" /\ UNCHANGED stopVars
    BY <1>4 DEF StartOver
  <2>2. StartedMeansReady'
    BY <1>1, <1>4 DEF StartedMeansReady
  <2> QED
    BY <1>1, <1>2, <2>1, <2>2, StartEndsKeeps
<1>5. CASE ~(~first /\ ~ctxDone) /\ up # <<>>
  <2>1. beginStop /\ result' = "error"
    BY <1>5 DEF StartOver
  <2> QED
    BY <1>1, <1>2, <2>1, BeginStopKeeps
<1> QED
  BY <1>3, <1>4, <1>5

LEMMA StopKeeps ==
  ASSUME ServicesInv, Stop
  PROVE  ServicesInv'
<1>1. /\ phase = "idle" /\ beginStop
      /\ UNCHANGED <<dependsOn, startVars, ready, up, after, alive, owed, result>>
  BY DEF Stop
<1>2. \A s \in Services : at[s] \in {"out", "ready", "quit", "failed"}
  BY <1>1 DEF ServicesInv, StartInv
<1> QED
  BY <1>1, <1>2, BeginStopKeeps

-----------------------------------------------------------------------------
(* The goroutines of Stop *)

LEMMA terminateKeeps ==
  ASSUME ServicesInv, NEW s \in Services, NEW ok \in BOOLEAN, terminate(s, ok)
  PROVE  ServicesInv'
<1>a. /\ TypeOK /\ NoDup /\ StartInv /\ ReadyInv /\ DepsInv /\ StartsAfterDependencies
      /\ StartedMeansReady /\ AfterInv /\ StopInv /\ OrderInv /\ LeftInv
  BY DEF ServicesInv
<1>d. /\ stopAt[s] = "waiting" /\ \A t \in dependents(s) : stopAt[t] = "stopped"
      /\ stopAt' = [stopAt EXCEPT ![s] = "terminated"]
      /\ alive' = IF s \in Attach \/ ~ok THEN alive ELSE alive \ {s}
      /\ errs' = IF s \in Attach \/ ok \/ s \notin alive THEN errs ELSE errs \cup {s}
      /\ UNCHANGED <<dependsOn, phase, starts, todo, at, ctxDone, first, ready, up, after,
                     owed, result>>
  BY DEF terminate, startVars, stopVars
<1>g. graph' = graph /\ \A t : needed(t)' = needed(t)
  BY <1>d DEF graph, needed
<1>p. phase = "stopping" /\ s \in Range(up)
  BY <1>a, <1>d DEF StopInv
<1>1. TypeOK'
  BY <1>a, <1>d DEF TypeOK
<1>2. NoDup'
  BY <1>a, <1>d DEF NoDup
<1>3. StartInv'
  BY <1>a, <1>d DEF StartInv, TypeOK, cancelled
<1>4. ReadyInv'
  BY <1>a, <1>d DEF ReadyInv, TypeOK
<1>5. DepsInv'
  BY <1>a, <1>d, <1>g DEF DepsInv
<1>6. StartsAfterDependencies'
  BY <1>a, <1>d, <1>g DEF StartsAfterDependencies, TypeOK
<1>7. StartedMeansReady'
  BY <1>a, <1>d DEF StartedMeansReady
<1>8. AfterInv'
  BY <1>a, <1>d, <1>g DEF AfterInv
<1>9. StopInv'
  BY <1>a, <1>d DEF StopInv, TypeOK
<1>10. OrderInv'
  <2>1. \A t \in Services : t # s => stopAt'[t] = stopAt[t]
    BY <1>a, <1>d DEF TypeOK
  <2>2. \A t \in Range(up) : s \in after[t] => t \in Services /\ t # s /\ stopAt[t] = "stopped"
    BY <1>a, <1>d, <1>p, UpIs DEF dependents, StopInv
  <2>3. ASSUME graph, NEW t \in Range(up), NEW d \in dependsOn[t] \cap Range(up),
               stopAt'[d] \in {"terminated", "stopped"}
        PROVE  stopAt'[t] = "stopped"
    <3>1. t \in Services /\ d \in Services /\ d \in after[t]
      BY <1>a, <2>3, UpIs DEF AfterInv
    <3>2. stopAt[t] = "stopped"
      BY <1>a, <1>p, <2>1, <2>2, <2>3, <3>1 DEF OrderInv
    <3> QED
      BY <1>d, <2>1, <3>1, <3>2
  <2>4. ASSUME ~graph, NEW i \in 1..Len(up), NEW j \in 1..Len(up), i < j,
               stopAt'[up[i]] \in {"terminated", "stopped"}
        PROVE  stopAt'[up[j]] = "stopped"
    <3>1. up[i] \in Services /\ up[j] \in Services /\ DOMAIN up = 1..Len(up) /\ Len(up) \in Nat
      BY <1>a, UpIs
    <3>2. CASE up[i] # s
      <4>1. stopAt[up[j]] = "stopped"
        BY <1>a, <1>p, <2>1, <2>4, <3>1, <3>2 DEF OrderInv
      <4> QED
        BY <1>d, <2>1, <3>1, <4>1
    <3>3. CASE up[i] = s
      <4> DEFINE k == i + 1
      <4>1. k \in 1..Len(up) /\ k \in 2..Len(up) /\ k - 1 = i /\ (k = j \/ k < j)
        BY <2>4, <3>1
      <4> HIDE DEF k
      <4>2. up[i] \in after[up[k]]
        BY <1>a, <2>4, <4>1 DEF AfterInv
      <4>3. stopAt[up[k]] = "stopped"
        BY <1>a, <2>2, <3>3, <4>1, <4>2, UpIs
      <4>4. stopAt[up[j]] = "stopped"
        BY <1>a, <1>p, <2>4, <3>1, <4>1, <4>3 DEF OrderInv
      <4> QED
        BY <1>d, <2>1, <3>1, <4>4
    <3> QED
      BY <3>2, <3>3
  <2>5. DOMAIN up = 1..Len(up)
    BY <1>a, UpIs
  <2> QED
    BY <1>d, <1>g, <2>3, <2>4, <2>5 DEF OrderInv
<1>11. LeftInv'
  BY <1>a, <1>d DEF LeftInv, TypeOK
<1> QED
  BY <1>1, <1>2, <1>3, <1>4, <1>5, <1>6, <1>7, <1>8, <1>9, <1>10, <1>11 DEF ServicesInv

LEMMA cleanupKeeps ==
  ASSUME ServicesInv, NEW s \in Services, NEW ok \in BOOLEAN, cleanup(s, ok)
  PROVE  ServicesInv'
<1>a. /\ TypeOK /\ NoDup /\ StartInv /\ ReadyInv /\ DepsInv /\ StartsAfterDependencies
      /\ StartedMeansReady /\ AfterInv /\ StopInv /\ OrderInv /\ LeftInv
  BY DEF ServicesInv
<1>d. /\ stopAt[s] = "terminated"
      /\ stopAt' = [stopAt EXCEPT ![s] = "stopped"]
      /\ owed' = IF ok THEN owed \ {s} ELSE owed
      /\ errs' = IF s \in Attach \/ ok THEN errs ELSE errs \cup {s}
      /\ UNCHANGED <<dependsOn, phase, starts, todo, at, ctxDone, first, ready, up, after,
                     alive, result>>
  BY DEF cleanup, startVars, stopVars
<1>g. graph' = graph /\ \A t : needed(t)' = needed(t)
  BY <1>d DEF graph, needed
<1>p. phase = "stopping" /\ s \in Range(up)
  BY <1>a, <1>d DEF StopInv
<1>1. TypeOK'
  BY <1>a, <1>d DEF TypeOK
<1>2. NoDup'
  BY <1>a, <1>d DEF NoDup
<1>3. StartInv'
  BY <1>a, <1>d DEF StartInv, TypeOK, cancelled
<1>4. ReadyInv'
  BY <1>a, <1>d DEF ReadyInv, TypeOK
<1>5. DepsInv'
  BY <1>a, <1>d, <1>g DEF DepsInv
<1>6. StartsAfterDependencies'
  BY <1>a, <1>d, <1>g DEF StartsAfterDependencies, TypeOK
<1>7. StartedMeansReady'
  BY <1>a, <1>d DEF StartedMeansReady
<1>8. AfterInv'
  BY <1>a, <1>d, <1>g DEF AfterInv
<1>9. StopInv'
  BY <1>a, <1>d DEF StopInv, TypeOK
<1>10. OrderInv'
  <2>1. \A t \in Services : \/ stopAt'[t] = stopAt[t]
                            \/ stopAt[t] = "terminated" /\ stopAt'[t] = "stopped"
    <3>1. /\ stopAt[s] = "terminated" /\ stopAt'[s] = "stopped"
          /\ \A t \in Services \ {s} : stopAt'[t] = stopAt[t]
      BY <1>a, <1>d DEF TypeOK
    <3> TAKE t \in Services
    <3>2. CASE t = s
      BY <3>1, <3>2
    <3>3. CASE t # s
      BY <3>1, <3>3
    <3> QED
      BY <3>2, <3>3
  <2>2. Range(up) \subseteq Services /\ \A i \in DOMAIN up : up[i] \in Services
    BY <1>a, UpIs
  <2> QED
    BY <1>a, <1>d, <1>g, <2>1, <2>2 DEF OrderInv
<1>11. LeftInv'
  BY <1>a, <1>d DEF LeftInv, TypeOK
<1> QED
  BY <1>1, <1>2, <1>3, <1>4, <1>5, <1>6, <1>7, <1>8, <1>9, <1>10, <1>11 DEF ServicesInv

LEMMA StopOverKeeps ==
  ASSUME ServicesInv, StopOver
  PROVE  ServicesInv'
<1>a. /\ TypeOK /\ NoDup /\ StartInv /\ ReadyInv /\ DepsInv /\ StartsAfterDependencies
      /\ StartedMeansReady /\ AfterInv /\ StopInv /\ OrderInv /\ LeftInv
  BY DEF ServicesInv
<1>d. /\ phase = "stopping" /\ phase' = "idle"
      /\ \A s \in Services : stopAt[s] \in {"out", "stopped"}
      /\ up' = <<>> /\ ready' = {}
      /\ UNCHANGED <<dependsOn, starts, todo, at, ctxDone, first, after, alive, owed, stopAt,
                     errs, result>>
  BY DEF StopOver, startVars, stopVars
<1>g. graph' = graph /\ \A t : needed(t)' = needed(t)
  BY <1>d DEF graph, needed
<1>u. Len(up') = 0 /\ DOMAIN up' = {} /\ Range(up') = {} /\ up' \in Seq(Enabled)
  BY <1>d, EmptySeq DEF Range
<1>1. TypeOK'
  BY <1>a, <1>d, <1>u, FS_EmptySet DEF TypeOK
<1>2. NoDup'
  BY <1>u DEF NoDup
<1>3. StartInv'
  BY <1>a, <1>d, <1>u DEF StartInv, cancelled
<1>4. ReadyInv'
  BY <1>d DEF ReadyInv
<1>5. DepsInv'
  BY <1>d DEF DepsInv
<1>6. StartsAfterDependencies'
  BY <1>d DEF StartsAfterDependencies
<1>7. StartedMeansReady'
  BY <1>a, <1>d DEF StartedMeansReady
<1>8. AfterInv'
  BY <1>u DEF AfterInv
<1>9. StopInv'
  BY <1>d DEF StopInv
<1>10. OrderInv'
  BY <1>d DEF OrderInv
<1>11. LeftInv'
  BY <1>a, <1>d, <1>u, UpIs DEF LeftInv, StopInv, TypeOK
<1> QED
  BY <1>1, <1>2, <1>3, <1>4, <1>5, <1>6, <1>7, <1>8, <1>9, <1>10, <1>11 DEF ServicesInv

LEMMA StutterKeeps ==
  ASSUME ServicesInv, UNCHANGED vars
  PROVE  ServicesInv'
<1>a. /\ TypeOK /\ NoDup /\ StartInv /\ ReadyInv /\ DepsInv /\ StartsAfterDependencies
      /\ StartedMeansReady /\ AfterInv /\ StopInv /\ OrderInv /\ LeftInv
  BY DEF ServicesInv
<1>d. UNCHANGED <<dependsOn, phase, starts, todo, at, ctxDone, first, ready, up, after,
                  alive, owed, stopAt, errs, result>>
  BY DEF vars, startVars, stopVars
<1>g. graph' = graph /\ \A t : needed(t)' = needed(t)
  BY <1>d DEF graph, needed
<1>1. TypeOK'
  BY <1>a, <1>d DEF TypeOK
<1>2. NoDup'
  BY <1>a, <1>d DEF NoDup
<1>3. StartInv'
  BY <1>a, <1>d DEF StartInv, TypeOK, cancelled
<1>4. ReadyInv'
  BY <1>a, <1>d DEF ReadyInv, TypeOK
<1>5. DepsInv'
  BY <1>a, <1>d, <1>g DEF DepsInv
<1>6. StartsAfterDependencies'
  BY <1>a, <1>d, <1>g DEF StartsAfterDependencies, TypeOK
<1>7. StartedMeansReady'
  BY <1>a, <1>d DEF StartedMeansReady
<1>8. AfterInv'
  BY <1>a, <1>d, <1>g DEF AfterInv
<1>9. StopInv'
  BY <1>a, <1>d DEF StopInv, TypeOK
<1>10. OrderInv'
  BY <1>a, <1>d, <1>g DEF OrderInv, TypeOK
<1>11. LeftInv'
  BY <1>a, <1>d DEF LeftInv, TypeOK
<1> QED
  BY <1>1, <1>2, <1>3, <1>4, <1>5, <1>6, <1>7, <1>8, <1>9, <1>10, <1>11 DEF ServicesInv

-----------------------------------------------------------------------------
(* The invariant, and what it shows *)

LEMMA ServicesStep ==
  ASSUME ServicesInv, [Next]_vars
  PROVE  ServicesInv'
<1>1. ASSUME NEW s \in Services, startStep(s) PROVE ServicesInv'
  <2>1. CASE Quit(s) \/ Go(s) \/ Launch(s) \/ publish(s) \/ Ready(s)
    BY <2>1, QuitKeeps, GoKeeps, LaunchKeeps, publishKeeps, ReadyKeeps
  <2>2. CASE LaunchFails(s) \/ NotReady(s)
    BY <2>2, FailKeeps DEF LaunchFails, NotReady
  <2> QED
    BY <1>1, <2>1, <2>2 DEF startStep
<1>2. ASSUME NEW s \in Services, stopStep(s) \/ Exits(s) PROVE ServicesInv'
  BY <1>2, terminateKeeps, cleanupKeeps, ExitsKeeps DEF stopStep
<1>3. CASE (\E names \in SUBSET Services : Start(names)) \/ StartRefused
            \/ StartOver \/ Interrupt
  BY <1>3, StartKeeps, StartRefusedKeeps, StartOverKeeps, InterruptKeeps
<1>4. CASE Stop \/ StopOver \/ UNCHANGED vars
  BY <1>4, StopKeeps, StopOverKeeps, StutterKeeps
<1> QED
  BY <1>1, <1>2, <1>3, <1>4 DEF Next

(* In every behaviour of the Manager, through any number of calls of Start and
   Stop, the inductive invariant holds. *)
THEOREM ServicesInvariant == Spec => []ServicesInv
<1>1. Init => ServicesInv
  BY ServicesInit
<1>2. ServicesInv /\ [Next]_vars => ServicesInv'
  BY ServicesStep
<1> QED
  BY <1>1, <1>2, PTL DEF Spec

(* The Manager's variables have their types, and no service is up twice. *)
THEOREM ServicesTypeCorrect == Spec => []TypeOK
<1>1. ServicesInv => TypeOK
  BY DEF ServicesInv
<1> QED
  BY <1>1, ServicesInvariant, PTL

(* startService launches a command only once all it depends on, or all that is
   declared before it, was ready. *)
THEOREM ServicesStartAfterDependencies == Spec => []StartsAfterDependencies
<1>1. ServicesInv => StartsAfterDependencies
  BY DEF ServicesInv
<1> QED
  BY <1>1, ServicesInvariant, PTL

(* A Start that returned nil left what it was asked for up and ready. *)
THEOREM ServicesStartedMeansReady == Spec => []StartedMeansReady
<1>1. ServicesInv => StartedMeansReady
  BY DEF ServicesInv
<1> QED
  BY <1>1, ServicesInvariant, PTL

(* Stop stops a service only after those that depend on it, or were started
   later. *)
THEOREM ServicesStopBeforeDependencies == Spec => []StopsBeforeDependencies
<1>1. ASSUME ServicesInv, phase = "stopping", NEW s \in Range(up),
             NEW d \in startedBefore(s), stopAt[d] \in {"terminated", "stopped"}
      PROVE  stopAt[s] = "stopped"
  <2>1. TypeOK /\ NoDup /\ OrderInv
    BY <1>1 DEF ServicesInv
  <2>2. CASE graph
    BY <1>1, <2>1, <2>2 DEF OrderInv, startedBefore
  <2>3. CASE ~graph
    <3>1. PICK i \in DOMAIN up, j \in DOMAIN up : i < j /\ up[i] = d /\ up[j] = s
      BY <1>1, <2>3 DEF startedBefore
    <3> QED
      BY <1>1, <2>1, <2>3, <3>1 DEF OrderInv
  <2> QED
    BY <2>2, <2>3
<1>2. ServicesInv => StopsBeforeDependencies
  BY <1>1 DEF StopsBeforeDependencies
<1> QED
  BY <1>2, ServicesInvariant, PTL

(* A Stop, also that of a Start that failed or was interrupted, leaves nothing
   running and no cleanup undone but what it returned errors of. *)
THEOREM ServicesLeaveNothingBehind == Spec => []NothingLeftBehind
<1>1. ASSUME ServicesInv, phase = "idle", up = <<>>
      PROVE  alive \union owed \subseteq errs
  <2>1. TypeOK /\ StartInv /\ LeftInv
    BY <1>1 DEF ServicesInv
  <2>2. Range(up) = {} /\ alive \cup owed \subseteq Services
    BY <1>1, <2>1, UpIs DEF TypeOK
  <2> QED
    BY <1>1, <2>1, <2>2 DEF LeftInv, StartInv
<1> QED
  BY <1>1, ServicesInvariant, PTL DEF NothingLeftBehind
=============================================================================
