----------------------------- MODULE HostProofs -----------------------------
(***************************************************************************)
(* Whatever number of runs connect to a host, leave it and time out, and   *)
(* whenever the person answers: a run is let to its services only with an  *)
(* approved definition, one run at a time has services, and the run that   *)
(* waits for an answer is the one whose question is asked.                 *)
(***************************************************************************)
EXTENDS Host, SequenceTheorems, TLAPS

\* What was kept and what was said is what the person approved.
ApprovedInv ==
  /\ \A i \in DOMAIN list : list[i].text \in yes
  /\ \A q \in DOMAIN questions :
       questions[q].said = "yes" => questions[q].def.text \in yes

\* The open question is going on, and was not replaced.
OpenInv == open # 0 => questions[open].state # "done" /\ ~ questions[open].replaced

\* A run past define has its definition, and waits for a question about it.
RunInv ==
  \A r \in Runs :
    /\ HasTurn(r) /\ pc[r] # "define" => def[r] \in Definitions
    /\ pc[r] = "await" => /\ waits[r] # 0
                          /\ questions[waits[r]].def.text = def[r].text

\* A run is let in only with a definition, as define read it, that the person
\* approved.
ReadApproved == \A r \in Runs : Up(r) => def[r].text \in yes

\* Before Serve there is no question and no run.
NewInv ==
  serve = "none" => /\ questions = <<>> /\ open = 0
                    /\ \A r \in Runs : pc[r] = "new" /\ waits[r] = 0

HostInv ==
  /\ TypeOK /\ ApprovedInv /\ OpenInv /\ RunInv /\ NewInv
  /\ ReadApproved /\ OneRunAtATime /\ WaiterKeepsQuestion

USE DEF reads

-----------------------------------------------------------------------------
(* approvals.go *)

\* Each text is approved once.
Distinct(l) == \A i, j \in DOMAIN l : l[i].text = l[j].text => i = j

\* slices.DeleteFunc drops the entry for t and keeps the others.
LEMMA WithoutKeeps ==
  ASSUME list \in Seq(Definitions), Distinct(list), NEW t
  PROVE  /\ without(t) \in Seq(Definitions)
         /\ Len(without(t)) <= Len(list)
         /\ Distinct(without(t))
         /\ \A i \in DOMAIN without(t) :
              without(t)[i].text # t /\ \E j \in DOMAIN list : without(t)[i] = list[j]
         /\ has(t) => Len(without(t)) = Len(list) - 1
         /\ \A j \in DOMAIN list : list[j].text # t =>
              \E i \in DOMAIN without(t) : without(t)[i] = list[j]
<1>1. CASE ~ has(t)
  BY <1>1 DEF without, has, Distinct
<1>2. CASE has(t)
  <2> DEFINE k == CHOOSE i \in DOMAIN list : list[i].text = t
             w == without(t)
  <2>1. k \in 1..Len(list) /\ list[k].text = t
    BY <1>2 DEF has
  <2> HIDE DEF k
  <2>2. w = SubSeq(list, 1, k - 1) \o SubSeq(list, k + 1, Len(list))
    BY <1>2 DEF without, RemoveAt, k
  <2>3. /\ w \in Seq(Definitions) /\ Len(w) = Len(list) - 1
        /\ \A i \in 1..Len(w) : w[i] = IF i < k THEN list[i] ELSE list[i + 1]
    <3> DEFINE a == SubSeq(list, 1, k - 1)
               b == SubSeq(list, k + 1, Len(list))
    <3>1. /\ a \in Seq(Definitions) /\ Len(a) = k - 1
          /\ \A i \in 1..(k - 1) : a[i] = list[i]
      BY <2>1
    <3>2. /\ b \in Seq(Definitions) /\ Len(b) = Len(list) - k
          /\ \A i \in 1..(Len(list) - k) : b[i] = list[k + i]
      BY <2>1
    <3> HIDE DEF a, b
    <3>3. /\ a \o b \in Seq(Definitions) /\ Len(a \o b) = Len(a) + Len(b)
          /\ \A i \in 1..(Len(a) + Len(b)) :
               (a \o b)[i] = IF i <= Len(a) THEN a[i] ELSE b[i - Len(a)]
      BY <3>1, <3>2, ConcatProperties, Zenon
    <3>4. w = a \o b
      BY <2>2 DEF a, b
    <3> HIDE DEF w
    <3>5. w \in Seq(Definitions) /\ Len(w) = Len(list) - 1
      BY <2>1, <3>1, <3>2, <3>3, <3>4
    <3>6. ASSUME NEW i \in 1..Len(w)
          PROVE  w[i] = IF i < k THEN list[i] ELSE list[i + 1]
      <4>1. Len(list) \in Nat /\ i \in 1..(Len(a) + Len(b))
        BY <2>1, <3>1, <3>2, <3>5
      <4>2. w[i] = IF i <= Len(a) THEN a[i] ELSE b[i - Len(a)]
        BY <3>3, <3>4, <4>1
      <4>3. CASE i < k
        BY <2>1, <3>1, <4>1, <4>2, <4>3
      <4>4. CASE ~ (i < k)
        <5>1. i - (k - 1) \in 1..(Len(list) - k) /\ k + (i - (k - 1)) = i + 1
          BY <2>1, <3>1, <3>2, <4>1, <4>4
        <5> QED
          BY <2>1, <3>1, <3>2, <4>1, <4>2, <4>4, <5>1
      <4> QED
        BY <4>3, <4>4
    <3> QED
      BY <3>5, <3>6
  <2> HIDE DEF w
  <2>4. DOMAIN w = 1..Len(w) /\ Len(w) \in Nat
    BY <2>3
  <2>5. \A i \in DOMAIN w : w[i].text # t /\ \E j \in DOMAIN list : w[i] = list[j]
    BY <2>1, <2>3, <2>4 DEF Distinct
  <2>6. Distinct(w)
    BY <2>1, <2>3, <2>4 DEF Distinct
  <2>7. ASSUME NEW j \in DOMAIN list, list[j].text # t
        PROVE  \E i \in DOMAIN w : w[i] = list[j]
    <3>1. j \in 1..Len(list) /\ j # k /\ Len(list) \in Nat
      BY <2>1, <2>7
    <3>2. CASE j < k
      <4>1. j \in 1..Len(w) /\ w[j] = list[j]
        BY <2>1, <2>3, <3>1, <3>2
      <4> QED
        BY <2>4, <4>1
    <3>3. CASE ~ (j < k)
      <4>1. j - 1 \in 1..Len(w) /\ w[j - 1] = list[j]
        BY <2>1, <2>3, <3>1, <3>3
      <4> QED
        BY <2>4, <4>1
    <3> QED
      BY <3>2, <3>3
  <2> QED
    BY <2>3, <2>5, <2>6, <2>7 DEF w
<1> QED
  BY <1>1, <1>2

\* add keeps at most keptApprovals entries, each text once, and adds only d.
LEMMA AddKeeps ==
  ASSUME list \in Seq(Definitions), Distinct(list), NEW d \in Definitions
  PROVE  /\ add(d) \in Seq(Definitions) /\ Len(add(d)) <= Kept
         /\ Distinct(add(d))
         /\ \A i \in DOMAIN add(d) :
              add(d)[i] = d \/ \E j \in DOMAIN list : add(d)[i] = list[j]
<1> DEFINE w == without(d.text)
           l == Append(w, d)
<1>1. /\ w \in Seq(Definitions) /\ Distinct(w)
      /\ \A i \in DOMAIN w : w[i].text # d.text /\ \E j \in DOMAIN list : w[i] = list[j]
  BY WithoutKeeps
<1> HIDE DEF w
<1>2. /\ l \in Seq(Definitions) /\ Len(l) = Len(w) + 1
      /\ \A i \in 1..Len(w) : l[i] = w[i]
      /\ l[Len(w) + 1] = d
  BY <1>1
<1>3. DOMAIN w = 1..Len(w) /\ DOMAIN l = 1..(Len(w) + 1) /\ Len(w) \in Nat
  BY <1>1, <1>2
<1> HIDE DEF l
<1>4. Distinct(l)
  BY <1>1, <1>2, <1>3 DEF Distinct
<1>5. \A i \in DOMAIN l : l[i] = d \/ \E j \in DOMAIN list : l[i] = list[j]
  BY <1>1, <1>2, <1>3
<1>6. CASE Len(l) > Kept
  <2> DEFINE h == Len(l) - Kept
             m == SubSeq(l, h + 1, Len(l))
  <2>1. h \in Nat /\ Len(l) = h + Kept /\ Len(l) \in Nat
    BY <1>2, <1>3, <1>6, KeptAssumption
  <2>2. add(d) = m
    BY <1>6 DEF add, l, w
  <2> HIDE DEF h
  <2>3. /\ m \in Seq(Definitions) /\ Len(m) = Kept
        /\ \A i \in 1..Kept : m[i] = l[h + i]
    BY <1>2, <2>1, KeptAssumption
  <2> HIDE DEF m
  <2>4. DOMAIN m = 1..Kept /\ \A i \in 1..Kept : h + i \in DOMAIN l
    BY <1>2, <2>1, <2>3, KeptAssumption
  <2>5. Distinct(m)
    <3> SUFFICES ASSUME NEW i \in 1..Kept, NEW j \in 1..Kept, l[h + i].text = l[h + j].text
                 PROVE  i = j
      BY <2>3, <2>4 DEF Distinct
    <3>1. h + i = h + j
      BY <1>4, <2>4 DEF Distinct
    <3> QED
      BY <2>1, <3>1, KeptAssumption
  <2>6. \A i \in DOMAIN m : m[i] = d \/ \E j \in DOMAIN list : m[i] = list[j]
    BY <1>5, <2>3, <2>4
  <2> QED
    BY <2>2, <2>3, <2>5, <2>6, KeptAssumption
<1>7. CASE ~ (Len(l) > Kept)
  <2>1. add(d) = l
    BY <1>7 DEF add, l, w
  <2> QED
    BY <1>2, <1>4, <1>5, <1>7, <2>1, KeptAssumption
<1> QED
  BY <1>6, <1>7

\* What add drops is the oldest entry of a full list, for a text it did not have.
LEMMA AddForgets ==
  ASSUME list \in Seq(Definitions), Len(list) <= Kept, Distinct(list), NEW d \in Definitions,
         NEW j \in DOMAIN list, \A i \in DOMAIN add(d) : add(d)[i].text # list[j].text
  PROVE  j = 1 /\ Len(list) = Kept
<1> DEFINE w == without(d.text)
           l == Append(w, d)
<1>1. /\ w \in Seq(Definitions) /\ Len(w) <= Len(list)
      /\ has(d.text) => Len(w) = Len(list) - 1
      /\ list[j].text # d.text => \E i \in DOMAIN w : w[i] = list[j]
  BY WithoutKeeps
<1>2. ~ has(d.text) => w = list
  BY DEF without
<1>3. j \in 1..Len(list) /\ Len(list) \in Nat
  OBVIOUS
<1> HIDE DEF w
<1>4. /\ l \in Seq(Definitions) /\ Len(l) = Len(w) + 1 /\ Len(w) \in Nat
      /\ \A i \in 1..Len(w) : l[i] = w[i]
      /\ l[Len(w) + 1] = d /\ DOMAIN l = 1..(Len(w) + 1) /\ DOMAIN w = 1..Len(w)
  BY <1>1
<1> HIDE DEF l
<1>5. \E i \in DOMAIN l : l[i].text = list[j].text
  <2>1. Len(w) + 1 \in DOMAIN l /\ \A i \in DOMAIN w : i \in DOMAIN l
    BY <1>4
  <2> QED
    BY <1>1, <1>4, <2>1
<1>6. CASE Len(l) > Kept
  <2>1. Len(list) = Kept /\ ~ has(d.text) /\ w = list
    BY <1>1, <1>2, <1>3, <1>4, <1>6, KeptAssumption
  <2>2. Len(l) = Kept + 1 /\ Len(l) - Kept + 1 = 2
    BY <1>4, <2>1, KeptAssumption
  <2>3. add(d) = SubSeq(l, 2, Kept + 1)
    BY <1>6, <2>2 DEF add, l, w
  <2>4. \A i \in 1..Kept : i \in DOMAIN add(d) /\ add(d)[i] = l[i + 1]
    BY <1>4, <2>2, <2>3, KeptAssumption
  <2>5. CASE j # 1
    <3>1. j - 1 \in 1..Kept /\ (j - 1) + 1 = j /\ j \in 1..Len(w)
      BY <1>3, <2>1, <2>5, KeptAssumption
    <3>2. l[j] = list[j]
      BY <1>4, <2>1, <3>1
    <3> QED
      BY <2>4, <3>1, <3>2
  <2> QED
    BY <2>1, <2>5
<1>7. CASE ~ (Len(l) > Kept)
  <2>1. add(d) = l
    BY <1>7 DEF add, l, w
  <2> QED
    BY <1>5, <2>1
<1> QED
  BY <1>6, <1>7

-----------------------------------------------------------------------------
(* The specification *)

LEMMA HostInit == Init => HostInv
<1> SUFFICES ASSUME Init PROVE HostInv
  OBVIOUS
<1>1. PICK n \in 0..Kept : list \in [1..n -> Definitions]
  BY DEF Init
<1>2. list \in Seq(Definitions) /\ Len(list) = n /\ DOMAIN list = 1..n /\ n \in Nat
  BY <1>1, KeptAssumption
<1>3. TypeOK
  <2>1. Len(list) <= Kept
    BY <1>2, KeptAssumption
  <2>2. yes \subseteq Texts
    BY <1>1, <1>2 DEF Init, Texts
  <2>3. questions \in Seq(Question) /\ Len(questions) = 0
    BY DEF Init
  <2>4. open \in 0..Len(questions) /\ waits \in [Runs -> 0..Len(questions)]
    BY <2>3 DEF Init
  <2>5. \A i, j \in DOMAIN list : list[i].text = list[j].text => i = j
    BY DEF Init
  <2> QED
    BY <1>2, <2>1, <2>2, <2>3, <2>4, <2>5 DEF Init, TypeOK, Places
<1>4. ApprovedInv /\ OpenInv /\ NewInv
  BY DEF Init, ApprovedInv, OpenInv, NewInv
<1>5. RunInv /\ ReadApproved /\ OneRunAtATime /\ WaiterKeepsQuestion
  BY DEF Init, RunInv, ReadApproved, OneRunAtATime, WaiterKeepsQuestion, HasTurn, Up
<1> QED
  BY <1>3, <1>4, <1>5 DEF HostInv

\* handle returns, and gives its turn back if it had it.
LEMMA GoneKeeps ==
  ASSUME HostInv, NEW r \in Runs, pc[r] \notin {"new", "ended"}, gone(r), UNCHANGED others,
         turn' = IF HasTurn(r) THEN 0 ELSE turn
  PROVE  HostInv'
<1>a. /\ TypeOK /\ ApprovedInv /\ OpenInv /\ RunInv /\ NewInv
      /\ ReadApproved /\ OneRunAtATime /\ WaiterKeepsQuestion
  BY DEF HostInv
<1> USE DEF others, server, person
<1>b. turn' \in Runs \cup {0}
  BY <1>a DEF TypeOK
<1>1. TypeOK'
  BY <1>a, <1>b DEF gone, To, TypeOK, Places
<1>2. ApprovedInv' /\ OpenInv'
  BY <1>a DEF ApprovedInv, OpenInv
<1>3. RunInv'
  BY <1>a DEF gone, To, TypeOK, RunInv, HasTurn
<1>4. NewInv'
  BY <1>a DEF gone, To, TypeOK, NewInv
<1>5. ReadApproved' /\ OneRunAtATime' /\ WaiterKeepsQuestion'
  <2>1. \A q \in Runs \ {r} : pc'[q] = pc[q] /\ waits'[q] = waits[q] /\ def'[q] = def[q]
    BY <1>a DEF gone, To, TypeOK
  <2>2. pc'[r] = "ended"
    BY <1>a DEF gone, To, TypeOK
  <2>3. \A q \in Runs \ {r} : HasTurn(q) => ~ HasTurn(r)
    BY <1>a DEF OneRunAtATime
  <2> QED
    BY <1>a, <2>1, <2>2, <2>3 DEF ReadApproved, OneRunAtATime, WaiterKeepsQuestion, HasTurn, Up
<1> QED
  BY <1>1, <1>2, <1>3, <1>4, <1>5 DEF HostInv

\* A handler goes on to another place without asking.
LEMMA GoKeeps ==
  ASSUME HostInv, NEW r \in Runs, NEW place \in Places \ {"new", "await"}, Go(r, place),
         UNCHANGED others, serve # "none",
         HasTurn(r)' => HasTurn(r) /\ pc[r] # "define",
         Up(r)' => def[r].text \in yes
  PROVE  HostInv'
<1>a. /\ TypeOK /\ ApprovedInv /\ OpenInv /\ RunInv /\ NewInv
      /\ ReadApproved /\ OneRunAtATime /\ WaiterKeepsQuestion
  BY DEF HostInv
<1> USE DEF others, server, person, locals
<1>b. pc'[r] = place /\ \A q \in Runs \ {r} : pc'[q] = pc[q]
  BY <1>a DEF Go, To, TypeOK
<1>1. TypeOK'
  BY <1>a DEF Go, To, TypeOK, Places
<1>2. ApprovedInv' /\ OpenInv'
  BY <1>a DEF ApprovedInv, OpenInv
<1>3. RunInv'
  BY <1>a, <1>b DEF Go, RunInv, HasTurn
<1>4. NewInv'
  BY DEF NewInv
<1>5. ReadApproved' /\ OneRunAtATime' /\ WaiterKeepsQuestion'
  BY <1>a, <1>b DEF Go, ReadApproved, OneRunAtATime, WaiterKeepsQuestion, HasTurn, Up
<1> QED
  BY <1>1, <1>2, <1>3, <1>4, <1>5 DEF HostInv

LEMMA ServesRuns ==
  ASSUME HostInv, NEW r \in Runs, pc[r] # "new"
  PROVE  serve # "none"
BY DEF HostInv, NewInv

LEMMA ConnectKeeps ==
  ASSUME HostInv, NEW r \in Runs, Connect(r)
  PROVE  HostInv'
<1>1. PICK place \in {"take", "ended"} : Go(r, place)
  BY DEF Connect
<1>2. pc'[r] = place
  BY <1>1 DEF Go, To, HostInv, TypeOK
<1> QED
  BY <1>1, <1>2, GoKeeps DEF Connect, HasTurn, Up, Places

LEMMA LeaveKeeps ==
  ASSUME HostInv, NEW r \in Runs, Leave(r)
  PROVE  HostInv'
<1>a. /\ TypeOK /\ ApprovedInv /\ OpenInv /\ RunInv /\ NewInv
      /\ ReadApproved /\ OneRunAtATime /\ WaiterKeepsQuestion
  BY DEF HostInv
<1> USE DEF others, server, person, Leave
<1>1. TypeOK'
  BY <1>a DEF TypeOK
<1>2. ApprovedInv' /\ OpenInv'
  BY <1>a DEF ApprovedInv, OpenInv
<1>3. RunInv'
  BY <1>a DEF RunInv, HasTurn
<1>4. NewInv'
  BY <1>a DEF NewInv
<1>5. ReadApproved' /\ OneRunAtATime' /\ WaiterKeepsQuestion'
  BY <1>a DEF ReadApproved, OneRunAtATime, WaiterKeepsQuestion, HasTurn, Up
<1> QED
  BY <1>1, <1>2, <1>3, <1>4, <1>5 DEF HostInv

LEMMA takeKeeps ==
  ASSUME HostInv, NEW r \in Runs, take(r)
  PROVE  HostInv'
<1>a. /\ TypeOK /\ ApprovedInv /\ OpenInv /\ RunInv /\ NewInv
      /\ ReadApproved /\ OneRunAtATime /\ WaiterKeepsQuestion
  BY DEF HostInv
<1>b. serve # "none"
  BY ServesRuns DEF take
<1>c. CASE pc[r] = "take" /\ turn # 0 /\ Go(r, "wait")
  <2>1. pc'[r] = "wait"
    BY <1>a, <1>c DEF Go, To, TypeOK
  <2> QED
    BY <1>b, <1>c, <2>1, GoKeeps DEF take, HasTurn, Up, Places
<1>d. CASE pc[r] = "wait" /\ Done(r) /\ gone(r) /\ turn' = turn
  BY <1>d, GoneKeeps DEF take, HasTurn
<1>e. CASE /\ pc[r] \in {"take", "wait"} /\ turn = 0 /\ turn' = r /\ To(r, "define")
           /\ UNCHANGED locals
  <2> USE DEF others, server, person, locals
  <2>a. UNCHANGED <<others, locals>>
    BY <1>e DEF take
  <2>b. pc'[r] = "define" /\ \A q \in Runs \ {r} : pc'[q] = pc[q]
    BY <1>a, <1>e DEF To, TypeOK
  <2>c. \A q \in Runs : ~ HasTurn(q)
    BY <1>a, <1>e, RunsAssumption DEF OneRunAtATime
  <2>1. TypeOK'
    BY <1>a, <1>e, <2>a DEF To, TypeOK, Places
  <2>2. ApprovedInv' /\ OpenInv'
    BY <1>a, <2>a DEF ApprovedInv, OpenInv
  <2>3. RunInv'
    BY <1>a, <2>a, <2>b DEF RunInv, HasTurn
  <2>4. NewInv'
    BY <1>b, <2>a DEF NewInv
  <2>5. ReadApproved' /\ OneRunAtATime' /\ WaiterKeepsQuestion'
    BY <1>e, <2>a, <2>b, <2>c DEF ReadApproved, OneRunAtATime, WaiterKeepsQuestion, HasTurn, Up
  <2> QED
    BY <2>1, <2>2, <2>3, <2>4, <2>5 DEF HostInv
<1> QED
  BY <1>c, <1>d, <1>e DEF take

LEMMA defineKeeps ==
  ASSUME HostInv, NEW r \in Runs, define(r)
  PROVE  HostInv'
<1>a. /\ TypeOK /\ ApprovedInv /\ OpenInv /\ RunInv /\ NewInv
      /\ ReadApproved /\ OneRunAtATime /\ WaiterKeepsQuestion
  BY DEF HostInv
<1>b. CASE End(r)
  BY <1>b, GoneKeeps DEF define, End, HasTurn
<1>c. CASE ~ End(r)
  <2> USE DEF others, server, person
  <2>a. PICK d \in Definitions : def' = [def EXCEPT ![r] = d]
    BY <1>c DEF define
  <2>b. To(r, "has") /\ UNCHANGED <<turn, waits, left, others>>
    BY <1>c DEF define
  <2>d. started' = started
    BY <1>c DEF define
  <2>c. /\ pc'[r] = "has" /\ \A q \in Runs \ {r} : pc'[q] = pc[q]
        /\ def'[r] = d /\ \A q \in Runs \ {r} : def'[q] = def[q]
    BY <1>a, <2>a, <2>b DEF To, TypeOK
  <2>1. TypeOK'
    BY <1>a, <2>a, <2>b, <2>d DEF To, TypeOK, Places
  <2>2. ApprovedInv' /\ OpenInv'
    BY <1>a, <2>b DEF ApprovedInv, OpenInv
  <2>3. RunInv'
    BY <1>a, <2>b, <2>c DEF RunInv, HasTurn
  <2>4. NewInv'
    BY <2>b, ServesRuns DEF NewInv, define
  <2>5. ReadApproved' /\ OneRunAtATime' /\ WaiterKeepsQuestion'
    BY <1>a, <2>b, <2>c DEF ReadApproved, OneRunAtATime, WaiterKeepsQuestion, HasTurn, Up, define
  <2> QED
    BY <2>1, <2>2, <2>3, <2>4, <2>5 DEF HostInv
<1> QED
  BY <1>b, <1>c

LEMMA approvedBeforeKeeps ==
  ASSUME HostInv, NEW r \in Runs, approvedBefore(r)
  PROVE  HostInv'
<1>a. TypeOK /\ ApprovedInv /\ RunInv /\ ReadApproved
  BY DEF HostInv
<1>b. CASE End(r)
  BY <1>b, GoneKeeps DEF approvedBefore, End, HasTurn
<1>c. CASE ~ End(r)
  <2>1. PICK place \in {"start", "refused"} : Go(r, place)
    BY <1>c DEF approvedBefore
  <2>2. pc'[r] = place /\ def' = def
    BY <1>a, <2>1 DEF Go, To, TypeOK, locals
  <2>3. Up(r)' => def[r].text \in yes
    BY <1>a, <1>c, <2>1, <2>2 DEF approvedBefore, Up, has, ApprovedInv, Go, To, TypeOK
  <2>4. HasTurn(r) /\ pc[r] # "define" /\ UNCHANGED others /\ serve # "none"
    BY ServesRuns DEF approvedBefore, HasTurn
  <2>5. HostInv /\ place \in Places \ {"new", "await"}
    BY DEF Places
  <2> QED
    BY <2>1, <2>3, <2>4, <2>5, GoKeeps
<1> QED
  BY <1>b, <1>c

LEMMA refusedBeforeKeeps ==
  ASSUME HostInv, NEW r \in Runs, refusedBefore(r)
  PROVE  HostInv'
<1>a. TypeOK /\ ApprovedInv /\ RunInv /\ ReadApproved
  BY DEF HostInv
<1>b. CASE End(r)
  BY <1>b, GoneKeeps DEF refusedBefore, End, HasTurn
<1>c. CASE ~ End(r)
  <2>1. PICK place \in {"ask"} : Go(r, place)
    BY <1>c DEF refusedBefore
  <2>2. pc'[r] = place /\ def' = def
    BY <1>a, <2>1 DEF Go, To, TypeOK, locals
  <2>3. Up(r)' => def[r].text \in yes
    BY <1>a, <1>c, <2>1, <2>2 DEF refusedBefore, Up
  <2>4. HasTurn(r) /\ pc[r] # "define" /\ UNCHANGED others /\ serve # "none"
    BY ServesRuns DEF refusedBefore, HasTurn
  <2>5. HostInv /\ place \in Places \ {"new", "await"}
    BY DEF Places
  <2> QED
    BY <2>1, <2>3, <2>4, <2>5, GoKeeps
<1> QED
  BY <1>b, <1>c

LEMMA AnsweredKeeps ==
  ASSUME HostInv, NEW r \in Runs, Answered(r)
  PROVE  HostInv'
<1>a. TypeOK /\ ApprovedInv /\ RunInv /\ ReadApproved
  BY DEF HostInv
<1>b. CASE End(r)
  BY <1>b, GoneKeeps DEF Answered, End, HasTurn
<1>c. CASE ~ End(r)
  <2>1. PICK place \in {"start"} : Go(r, place)
    BY <1>c DEF Answered
  <2>2. pc'[r] = place /\ def' = def
    BY <1>a, <2>1 DEF Go, To, TypeOK, locals
  <2>3. Up(r)' => def[r].text \in yes
    <3>1. /\ pc[r] = "await" /\ questions[waits[r]].said = "yes"
          /\ waits[r] # 0 /\ questions[waits[r]].def.text = def[r].text
      BY <1>a, <1>c DEF Answered, RunInv
    <3>2. waits[r] \in DOMAIN questions
      BY <1>a, <3>1 DEF TypeOK
    <3> QED
      BY <1>a, <3>1, <3>2 DEF ApprovedInv
  <2>4. HasTurn(r) /\ pc[r] # "define" /\ UNCHANGED others /\ serve # "none"
    BY ServesRuns DEF Answered, HasTurn
  <2>5. HostInv /\ place \in Places \ {"new", "await"}
    BY DEF Places
  <2> QED
    BY <2>1, <2>3, <2>4, <2>5, GoKeeps
<1> QED
  BY <1>b, <1>c

LEMMA StartKeeps ==
  ASSUME HostInv, NEW r \in Runs, Start(r)
  PROVE  HostInv'
<1>a. /\ TypeOK /\ ApprovedInv /\ OpenInv /\ RunInv /\ NewInv
      /\ ReadApproved /\ OneRunAtATime /\ WaiterKeepsQuestion
  BY DEF HostInv
<1>b. CASE End(r)
  BY <1>b, GoneKeeps DEF Start, End, HasTurn
<1>c. CASE ~ End(r)
  <2> USE DEF others, server, person
  <2>a. PICK d \in Definitions : started' = [started EXCEPT ![r] = d]
    BY <1>c DEF Start
  <2>b. To(r, "started") /\ UNCHANGED <<turn, def, waits, left, others>>
    BY <1>c DEF Start
  <2>c. pc[r] = "start" /\ pc'[r] = "started" /\ \A q \in Runs \ {r} : pc'[q] = pc[q]
    BY <1>a, <2>b DEF Start, To, TypeOK
  <2>1. TypeOK'
    BY <1>a, <2>a, <2>b DEF To, TypeOK, Places
  <2>2. ApprovedInv' /\ OpenInv'
    BY <1>a, <2>b DEF ApprovedInv, OpenInv
  <2>3. RunInv'
    BY <1>a, <2>b, <2>c DEF RunInv, HasTurn
  <2>4. NewInv'
    BY <2>b, ServesRuns DEF NewInv, Start
  <2>5. ReadApproved' /\ OneRunAtATime' /\ WaiterKeepsQuestion'
    BY <1>a, <2>b, <2>c DEF ReadApproved, OneRunAtATime, WaiterKeepsQuestion, HasTurn, Up
  <2> QED
    BY <2>1, <2>2, <2>3, <2>4, <2>5 DEF HostInv
<1> QED
  BY <1>b, <1>c

LEMMA FinishKeeps ==
  ASSUME HostInv, NEW r \in Runs, Finish(r)
  PROVE  HostInv'
<1>a. TypeOK /\ ApprovedInv /\ RunInv /\ ReadApproved
  BY DEF HostInv
<1>b. CASE End(r)
  BY <1>b, GoneKeeps DEF Finish, End, HasTurn
<1>c. CASE ~ End(r)
  <2>1. PICK place \in {"stop"} : Go(r, place)
    BY <1>c DEF Finish
  <2>2. pc'[r] = place /\ def' = def
    BY <1>a, <2>1 DEF Go, To, TypeOK, locals
  <2>3. Up(r)' => def[r].text \in yes
    BY <1>a, <1>c, <2>1, <2>2 DEF Finish, Up, ReadApproved
  <2>4. HasTurn(r) /\ pc[r] # "define" /\ UNCHANGED others /\ serve # "none"
    BY ServesRuns DEF Finish, HasTurn
  <2>5. HostInv /\ place \in Places \ {"new", "await"}
    BY DEF Places
  <2> QED
    BY <2>1, <2>3, <2>4, <2>5, GoKeeps
<1> QED
  BY <1>b, <1>c

LEMMA GiveUpKeeps ==
  ASSUME HostInv, NEW r \in Runs, GiveUp(r)
  PROVE  HostInv'
BY GoneKeeps DEF GiveUp, End, HasTurn

LEMMA StopKeeps ==
  ASSUME HostInv, NEW r \in Runs, Stop(r)
  PROVE  HostInv'
BY GoneKeeps DEF Stop, End, HasTurn

LEMMA ServeEndsKeeps ==
  ASSUME HostInv, ServeEnds
  PROVE  HostInv'
<1>a. /\ TypeOK /\ ApprovedInv /\ OpenInv /\ RunInv /\ NewInv
      /\ ReadApproved /\ OneRunAtATime /\ WaiterKeepsQuestion
  BY DEF HostInv
<1>1. TypeOK'
  BY <1>a DEF ServeEnds, person, TypeOK
<1>2. ApprovedInv' /\ OpenInv'
  BY <1>a DEF ServeEnds, person, ApprovedInv, OpenInv
<1>3. RunInv'
  BY <1>a DEF ServeEnds, person, RunInv, HasTurn
<1>4. NewInv'
  BY <1>a DEF ServeEnds, person, NewInv
<1>5. ReadApproved' /\ OneRunAtATime' /\ WaiterKeepsQuestion'
  BY <1>a DEF ServeEnds, person, ReadApproved, OneRunAtATime, WaiterKeepsQuestion, HasTurn, Up
<1> QED
  BY <1>1, <1>2, <1>3, <1>4, <1>5 DEF HostInv

LEMMA DrainKeeps ==
  ASSUME HostInv, Drain
  PROVE  HostInv'
<1>a. /\ TypeOK /\ ApprovedInv /\ OpenInv /\ RunInv /\ NewInv
      /\ ReadApproved /\ OneRunAtATime /\ WaiterKeepsQuestion
  BY DEF HostInv
<1>1. TypeOK'
  BY <1>a DEF Drain, person, TypeOK
<1>2. ApprovedInv' /\ OpenInv'
  BY <1>a DEF Drain, person, ApprovedInv, OpenInv
<1>3. RunInv'
  BY <1>a DEF Drain, person, RunInv, HasTurn
<1>4. NewInv'
  BY <1>a DEF Drain, person, NewInv
<1>5. ReadApproved' /\ OneRunAtATime' /\ WaiterKeepsQuestion'
  BY <1>a DEF Drain, person, ReadApproved, OneRunAtATime, WaiterKeepsQuestion, HasTurn, Up
<1> QED
  BY <1>1, <1>2, <1>3, <1>4, <1>5 DEF HostInv

LEMMA ServeReturnsKeeps ==
  ASSUME HostInv, ServeReturns
  PROVE  HostInv'
<1>a. /\ TypeOK /\ ApprovedInv /\ OpenInv /\ RunInv /\ NewInv
      /\ ReadApproved /\ OneRunAtATime /\ WaiterKeepsQuestion
  BY DEF HostInv
<1>1. TypeOK'
  BY <1>a DEF ServeReturns, person, TypeOK
<1>2. ApprovedInv' /\ OpenInv'
  BY <1>a DEF ServeReturns, person, ApprovedInv, OpenInv
<1>3. RunInv'
  BY <1>a DEF ServeReturns, person, RunInv, HasTurn
<1>4. NewInv'
  BY <1>a DEF ServeReturns, person, NewInv
<1>5. ReadApproved' /\ OneRunAtATime' /\ WaiterKeepsQuestion'
  BY <1>a DEF ServeReturns, person, ReadApproved, OneRunAtATime, WaiterKeepsQuestion, HasTurn, Up
<1> QED
  BY <1>1, <1>2, <1>3, <1>4, <1>5 DEF HostInv

-----------------------------------------------------------------------------
(* The question *)

\* Question q gets on: nothing else of it changes than its state and answer.
GetsOn(q) ==
  /\ questions' \in Seq(Question) /\ Len(questions') = Len(questions)
  /\ \A p \in DOMAIN questions :
       /\ questions'[p].def = questions[p].def /\ questions'[p].replaced = questions[p].replaced
       /\ p # q => questions'[p] = questions[p]

LEMMA QuestionsAre ==
  ASSUME TypeOK
  PROVE  /\ DOMAIN questions = 1..Len(questions) /\ Len(questions) \in Nat
         /\ \A q \in DOMAIN questions : questions[q] \in Question
BY DEF TypeOK

\* It gets to state st, with answer a.
Becomes(q, st, a) ==
  questions' = [questions EXCEPT ![q] = [@ EXCEPT !.state = st, !.said = a]]

LEMMA BecomesGetsOn ==
  ASSUME TypeOK, NEW q \in DOMAIN questions,
         NEW st \in {"asked", "said", "settle", "done"}, NEW a \in {"none", "yes", "no"},
         Becomes(q, st, a)
  PROVE  GetsOn(q) /\ questions'[q].state = st /\ questions'[q].said = a
<1> DEFINE x == [questions[q] EXCEPT !.state = st, !.said = a]
<1>1. questions[q] \in Question /\ q \in 1..Len(questions)
  BY QuestionsAre
<1>2. /\ x \in Question /\ x.state = st /\ x.said = a
      /\ x.def = questions[q].def /\ x.replaced = questions[q].replaced
  BY <1>1 DEF Question
<1>3. questions' = [questions EXCEPT ![q] = x]
  BY DEF Becomes
<1> HIDE DEF x
<1>4. /\ questions' \in Seq(Question) /\ Len(questions') = Len(questions)
      /\ \A p \in 1..Len(questions) : questions'[p] = IF p = q THEN x ELSE questions[p]
  BY <1>1, <1>2, <1>3, ExceptSeq DEF TypeOK
<1> QED
  BY <1>1, <1>2, <1>4, QuestionsAre DEF GetsOn

\* A question that gets on keeps the invariant, if the person approved what
\* is approved by it, and it is not open once it is done.
LEMMA GetsOnKeeps ==
  ASSUME HostInv, NEW q \in DOMAIN questions, GetsOn(q),
         yes \subseteq yes', yes' \subseteq Texts,
         questions'[q].said = "yes" => questions[q].def.text \in yes',
         open' \in {0, open},
         open' = q => questions'[q].state # "done",
         list' \in Seq(Definitions), Len(list') <= Kept, Distinct(list'),
         \A i \in DOMAIN list' : list'[i].text \in yes',
         refused' \subseteq Texts,
         UNCHANGED <<server, turn, pc, reads, waits, left>>
  PROVE  HostInv'
<1>a. /\ TypeOK /\ ApprovedInv /\ OpenInv /\ RunInv /\ NewInv
      /\ ReadApproved /\ OneRunAtATime /\ WaiterKeepsQuestion
  BY DEF HostInv
<1>b. /\ DOMAIN questions = 1..Len(questions) /\ DOMAIN questions' = DOMAIN questions
      /\ Len(questions) \in Nat
  BY <1>a, QuestionsAre DEF GetsOn
<1>c. UNCHANGED <<serve, stopping>>
  BY DEF server
<1>d. \A r \in Runs : pc[r] = "await" => waits[r] \in DOMAIN questions
  BY <1>a, <1>b DEF RunInv, TypeOK
<1>1. TypeOK'
  <2>1. open' \in 0..Len(questions') /\ waits' \in [Runs -> 0..Len(questions')]
    BY <1>a, <1>b DEF TypeOK, GetsOn
  <2>2. list' \in Seq(Definitions) /\ Len(list') <= Kept
    OBVIOUS
  <2>3. \A i, j \in DOMAIN list' : list'[i].text = list'[j].text => i = j
    BY DEF Distinct
  <2> QED
    BY <1>a, <1>c, <2>1, <2>2, <2>3 DEF TypeOK, GetsOn
<1>2. ApprovedInv'
  BY <1>a, <1>b DEF ApprovedInv, GetsOn
<1>3. OpenInv'
  <2> SUFFICES ASSUME open' # 0
               PROVE  questions'[open'].state # "done" /\ ~ questions'[open'].replaced
    BY DEF OpenInv
  <2>1. open' = open /\ open \in DOMAIN questions
    BY <1>a, <1>b DEF TypeOK
  <2> QED
    BY <1>a, <2>1 DEF OpenInv, GetsOn
<1>4. RunInv'
  BY <1>a, <1>d DEF RunInv, HasTurn, GetsOn
<1>5. NewInv'
  BY <1>a, <1>b, <1>c DEF NewInv
<1>6. ReadApproved' /\ OneRunAtATime' /\ WaiterKeepsQuestion'
  BY <1>a, <1>d DEF ReadApproved, OneRunAtATime, WaiterKeepsQuestion, HasTurn, Up, GetsOn
<1> QED
  BY <1>1, <1>2, <1>3, <1>4, <1>5, <1>6 DEF HostInv

LEMMA QuestionText ==
  ASSUME TypeOK, NEW q \in DOMAIN questions
  PROVE  questions[q].def \in Definitions /\ questions[q].def.text \in Texts
BY QuestionsAre DEF Question, Texts

LEMMA AnswerKeeps ==
  ASSUME HostInv, NEW q \in DOMAIN questions, Answer(q)
  PROVE  HostInv'
<1>a. TypeOK /\ ApprovedInv /\ OpenInv
  BY DEF HostInv
<1>1. PICK a \in {"none", "yes", "no"} :
        /\ Becomes(q, "said", a)
        /\ yes \subseteq yes' /\ yes' \subseteq yes \cup {questions[q].def.text}
        /\ a = "yes" => questions[q].def.text \in yes'
  <2> DEFINE x == questions[q]
  <2>1. x \in Question
    BY <1>a, QuestionsAre
  <2>2. ASSUME NEW a \in {"yes", "no"},
               questions' = [questions EXCEPT ![q].state = "said", ![q].said = a],
               yes' = IF a = "yes" THEN yes \cup {x.def.text} ELSE yes
        PROVE  Becomes(q, "said", a)
    BY <2>2 DEF Becomes
  <2>3. ASSUME questions' = [questions EXCEPT ![q].state = "said"]
        PROVE  Becomes(q, "said", x.said) /\ x.said \in {"none", "yes", "no"}
    <3>1. [x EXCEPT !.state = "said"] = [x EXCEPT !.state = "said", !.said = x.said]
      BY <2>1 DEF Question
    <3> QED
      BY <2>1, <2>3, <3>1 DEF Becomes, Question
  <2>4. x.said = "yes" => x.def.text \in yes
    BY <1>a DEF ApprovedInv
  <2> HIDE DEF x
  <2>5. CASE \E a \in {"yes", "no"} :
               /\ questions' = [questions EXCEPT ![q].state = "said", ![q].said = a]
               /\ yes' = IF a = "yes" THEN yes \cup {x.def.text} ELSE yes
    BY <2>2, <2>5 DEF x
  <2>6. CASE questions' = [questions EXCEPT ![q].state = "said"] /\ yes' = yes
    BY <2>3, <2>4, <2>6 DEF x
  <2> QED
    BY <2>5, <2>6 DEF Answer, x
<1>2. GetsOn(q) /\ questions'[q].state = "said" /\ questions'[q].said = a
  BY <1>a, <1>1, BecomesGetsOn
<1>3. UNCHANGED <<server, list, refused, open, turn, pc, reads, waits, left>>
  BY DEF Answer
<1>4. yes \subseteq yes' /\ yes' \subseteq Texts
  BY <1>a, <1>1, QuestionText DEF TypeOK
<1>5. \A i \in DOMAIN list' : list'[i].text \in yes'
  BY <1>a, <1>3, <1>4 DEF ApprovedInv
<1>6. list' \in Seq(Definitions) /\ Len(list') <= Kept /\ Distinct(list') /\ refused' \subseteq Texts
  BY <1>a, <1>3 DEF TypeOK, Distinct
<1>7. questions'[q].said = "yes" => questions[q].def.text \in yes'
  BY <1>1, <1>2
<1> QED
  BY <1>2, <1>3, <1>4, <1>5, <1>6, <1>7, GetsOnKeeps

LEMMA CheckKeeps ==
  ASSUME HostInv, NEW q \in DOMAIN questions, Check(q)
  PROVE  HostInv'
<1>a. TypeOK /\ ApprovedInv /\ OpenInv
  BY DEF HostInv
<1> DEFINE a == IF NoLongerAsked(q) THEN "none" ELSE questions[q].said
<1>1. Becomes(q, "settle", a)
  BY DEF Check, Becomes
<1>2. a \in {"none", "yes", "no"}
  BY <1>a, QuestionsAre DEF Question
<1>3. a = "yes" => questions[q].def.text \in yes
  BY <1>a DEF ApprovedInv
<1> HIDE DEF a
<1>4. GetsOn(q) /\ questions'[q].state = "settle" /\ questions'[q].said = a
  BY <1>a, <1>1, <1>2, BecomesGetsOn
<1>5. UNCHANGED <<server, list, refused, open, turn, pc, reads, waits, left, yes>>
  BY DEF Check
<1>6. \A i \in DOMAIN list' : list'[i].text \in yes'
  BY <1>a, <1>5 DEF ApprovedInv
<1>7. /\ list' \in Seq(Definitions) /\ Len(list') <= Kept /\ Distinct(list')
      /\ refused' \subseteq Texts /\ yes' \subseteq Texts
  BY <1>a, <1>5 DEF TypeOK, Distinct
<1> QED
  BY <1>3, <1>4, <1>5, <1>6, <1>7, GetsOnKeeps

LEMMA SettleKeeps ==
  ASSUME HostInv, NEW q \in DOMAIN questions, Settle(q)
  PROVE  HostInv'
<1>a. TypeOK /\ ApprovedInv /\ OpenInv
  BY DEF HostInv
<1> DEFINE x == questions[q]
<1>1. x \in Question /\ x.def \in Definitions /\ x.def.text \in Texts
  BY <1>a, QuestionsAre, QuestionText
<1>2. Becomes(q, "done", x.said) /\ x.said \in {"none", "yes", "no"}
  <2>1. [x EXCEPT !.state = "done"] = [x EXCEPT !.state = "done", !.said = x.said]
    BY <1>1 DEF Question
  <2> QED
    BY <1>1, <2>1 DEF Becomes, Settle, Question
<1>3. x.said = "yes" => x.def.text \in yes
  BY <1>a DEF ApprovedInv
<1>4. GetsOn(q) /\ questions'[q].said = x.said
  BY <1>a, <1>2, BecomesGetsOn
<1>5. UNCHANGED <<server, turn, pc, reads, waits, left, yes>>
  BY DEF Settle
<1>6. open' \in {0, open} /\ open' # q
  <2>1. q # 0
    BY <1>a, QuestionsAre
  <2> QED
    BY <2>1 DEF Settle
<1>7. refused' \subseteq Texts /\ yes' \subseteq Texts
  BY <1>a, <1>1, <1>5 DEF Settle, TypeOK
<1>b. list \in Seq(Definitions) /\ Len(list) <= Kept /\ Distinct(list)
  BY <1>a DEF TypeOK, Distinct
<1>8. /\ list' \in Seq(Definitions) /\ Len(list') <= Kept /\ Distinct(list')
      /\ \A i \in DOMAIN list' : list'[i].text \in yes
  <2>1. CASE x.said = "yes"
    <3>1. list' = add(x.def)
      BY <2>1 DEF Settle
    <3>2. /\ list' \in Seq(Definitions) /\ Len(list') <= Kept /\ Distinct(list')
          /\ \A i \in DOMAIN list' : list'[i] = x.def \/ \E j \in DOMAIN list : list'[i] = list[j]
      BY <1>1, <1>b, <3>1, AddKeeps
    <3> QED
      BY <1>a, <1>3, <2>1, <3>2 DEF ApprovedInv
  <2>2. CASE x.said # "yes"
    <3>1. list' = list
      BY <2>2 DEF Settle
    <3> QED
      BY <1>a, <1>b, <3>1 DEF ApprovedInv
  <2> QED
    BY <2>1, <2>2
<1> HIDE DEF x
<1> QED
  BY <1>3, <1>4, <1>5, <1>6, <1>7, <1>8, GetsOnKeeps DEF x

-----------------------------------------------------------------------------
\* ask leaves every question there is as it was, replaced or not, and the one
\* that is open now is about d.
LEMMA AskGives ==
  ASSUME HostInv, NEW d \in Definitions
  PROVE  LET qs == ask(d)[1]
             o == ask(d)[2]
         IN /\ qs \in Seq(Question) /\ Len(qs) >= Len(questions) /\ o \in 1..Len(qs)
            /\ qs[o].def.text = d.text /\ qs[o].state # "done" /\ ~ qs[o].replaced
            /\ \A q \in 1..Len(qs) : qs[q].said = "yes" => qs[q].def.text \in yes
<1> DEFINE qs == ask(d)[1]
           o == ask(d)[2]
<1>a. TypeOK /\ ApprovedInv /\ OpenInv
  BY DEF HostInv
<1>b. /\ questions \in Seq(Question) /\ DOMAIN questions = 1..Len(questions)
      /\ Len(questions) \in Nat /\ open \in 0..Len(questions)
  BY <1>a, QuestionsAre DEF TypeOK
<1>1. CASE open # 0 /\ questions[open].def.text = d.text
  <2>1. qs = questions /\ o = open
    BY <1>1 DEF ask
  <2> QED
    BY <1>a, <1>b, <1>1, <2>1 DEF OpenInv, ApprovedInv
<1>2. CASE ~ (open # 0 /\ questions[open].def.text = d.text)
  <2> DEFINE b == IF open = 0 THEN questions ELSE [questions EXCEPT ![open].replaced = TRUE]
             n == NewQuestion(d)
  <2>1. qs = Append(b, n) /\ o = Len(b) + 1
    BY <1>2 DEF ask
  <2>2. /\ n \in Question /\ n.def = d /\ n.state = "asked" /\ n.said = "none"
        /\ n.replaced = FALSE
    BY DEF NewQuestion, Question
  <2>3. /\ b \in Seq(Question) /\ Len(b) = Len(questions)
        /\ \A q \in 1..Len(questions) : b[q].def = questions[q].def /\ b[q].said = questions[q].said
    <3>1. CASE open = 0
      BY <1>b, <3>1
    <3>2. CASE open # 0
      <4> DEFINE x == [questions[open] EXCEPT !.replaced = TRUE]
      <4>1. open \in 1..Len(questions) /\ questions[open] \in Question
        BY <1>b, <3>2
      <4>2. x \in Question /\ x.def = questions[open].def /\ x.said = questions[open].said
        BY <4>1 DEF Question
      <4>3. b = [questions EXCEPT ![open] = x]
        BY <3>2
      <4> HIDE DEF x, b
      <4> QED
        BY <1>b, <4>1, <4>2, <4>3, ExceptSeq
    <3> QED
      BY <3>1, <3>2
  <2> HIDE DEF b, n
  <2>4. /\ qs \in Seq(Question) /\ Len(qs) = Len(questions) + 1 /\ o = Len(qs)
        /\ qs[Len(questions) + 1] = n
        /\ \A q \in 1..Len(questions) : qs[q] = b[q]
    BY <1>b, <2>1, <2>2, <2>3, AppendProperties
  <2> HIDE DEF qs, o
  <2>5. \A q \in 1..Len(qs) : qs[q].said = "yes" => qs[q].def.text \in yes
    <3> SUFFICES ASSUME NEW q \in 1..Len(qs), qs[q].said = "yes"
                 PROVE  qs[q].def.text \in yes
      OBVIOUS
    <3>1. q \in 1..Len(questions)
      BY <1>b, <2>2, <2>4
    <3>2. questions[q].said = "yes" => questions[q].def.text \in yes
      BY <1>a, <1>b, <3>1 DEF ApprovedInv
    <3> QED
      BY <2>3, <2>4, <3>1, <3>2
  <2>6. /\ qs[o].def.text = d.text /\ qs[o].state # "done" /\ ~ qs[o].replaced
        /\ o \in 1..Len(qs) /\ Len(qs) >= Len(questions)
    BY <1>b, <2>2, <2>4
  <2> QED
    BY <2>4, <2>5, <2>6 DEF qs, o
<1> QED
  BY <1>1, <1>2

LEMMA AskKeeps ==
  ASSUME HostInv, NEW r \in Runs, Ask(r)
  PROVE  HostInv'
<1>a. /\ TypeOK /\ ApprovedInv /\ OpenInv /\ RunInv /\ NewInv
      /\ ReadApproved /\ OneRunAtATime /\ WaiterKeepsQuestion
  BY DEF HostInv
<1>b. def[r] \in Definitions /\ serve # "none" /\ turn = r
  BY <1>a, ServesRuns DEF Ask, RunInv, HasTurn, OneRunAtATime
<1>c. /\ questions' = ask(def[r])[1] /\ open' = ask(def[r])[2]
      /\ waits' = [waits EXCEPT ![r] = open'] /\ pc' = [pc EXCEPT ![r] = "await"]
      /\ UNCHANGED <<serve, stopping, list, refused, yes, turn, reads, left>>
  BY DEF Ask, To, server
<1>d. /\ questions' \in Seq(Question) /\ Len(questions') >= Len(questions)
      /\ open' \in 1..Len(questions')
      /\ questions'[open'].def.text = def[r].text
      /\ questions'[open'].state # "done" /\ ~ questions'[open'].replaced
      /\ \A q \in 1..Len(questions') : questions'[q].said = "yes" => questions'[q].def.text \in yes
  BY <1>b, <1>c, AskGives
<1>e. /\ pc'[r] = "await" /\ waits'[r] = open'
      /\ \A q \in Runs \ {r} : pc'[q] = pc[q] /\ ~ HasTurn(q)
  BY <1>a, <1>b, <1>c DEF TypeOK, OneRunAtATime
<1>1. TypeOK'
  <2>1. Len(questions) \in Nat /\ Len(questions') \in Nat
    BY <1>a, <1>d DEF TypeOK
  <2>2. open' \in 0..Len(questions') /\ waits' \in [Runs -> 0..Len(questions')]
    BY <1>a, <1>c, <1>d, <2>1 DEF TypeOK
  <2>3. pc' \in [Runs -> Places]
    BY <1>a, <1>c DEF TypeOK, Places
  <2> QED
    BY <1>a, <1>c, <1>d, <2>2, <2>3 DEF TypeOK
<1>2. ApprovedInv' /\ OpenInv'
  BY <1>a, <1>c, <1>d DEF ApprovedInv, OpenInv
<1>3. RunInv'
  BY <1>b, <1>c, <1>d, <1>e DEF RunInv, HasTurn
<1>4. NewInv'
  BY <1>b, <1>c DEF NewInv
<1>5. ReadApproved' /\ OneRunAtATime' /\ WaiterKeepsQuestion'
  BY <1>b, <1>c, <1>d, <1>e DEF ReadApproved, OneRunAtATime, WaiterKeepsQuestion, HasTurn, Up
<1> QED
  BY <1>1, <1>2, <1>3, <1>4, <1>5 DEF HostInv

LEMMA ServeKeeps ==
  ASSUME HostInv, NEW d \in Definitions, Serve(d)
  PROVE  HostInv'
<1>a. TypeOK /\ ApprovedInv /\ NewInv
  BY DEF HostInv
<1>b. /\ questions = <<>> /\ open = 0 /\ serve' = "serving"
      /\ \A r \in Runs : pc[r] = "new" /\ waits[r] = 0
      /\ UNCHANGED <<stopping, refused, turn, pc, reads, waits, left>>
  BY <1>a DEF Serve, NewInv
<1>c. list \in Seq(Definitions) /\ Len(list) <= Kept /\ Distinct(list)
  BY <1>a DEF TypeOK, Distinct
<1>1. /\ list' \in Seq(Definitions) /\ Len(list') <= Kept /\ Distinct(list')
      /\ yes' \subseteq Texts /\ \A i \in DOMAIN list' : list'[i].text \in yes'
  <2>1. CASE has(d.text) \/ last(d.key)
    BY <1>a, <1>c, <2>1 DEF Serve, TypeOK, ApprovedInv
  <2>2. CASE ~ (has(d.text) \/ last(d.key))
    <3>1. list' = add(d) /\ yes' = yes \cup {d.text}
      BY <2>2 DEF Serve
    <3>2. /\ list' \in Seq(Definitions) /\ Len(list') <= Kept /\ Distinct(list')
          /\ \A i \in DOMAIN list' : list'[i] = d \/ \E j \in DOMAIN list : list'[i] = list[j]
      BY <1>c, <3>1, AddKeeps
    <3> QED
      BY <1>a, <3>1, <3>2 DEF TypeOK, ApprovedInv, Texts
  <2> QED
    BY <2>1, <2>2
<1>2. /\ questions' \in Seq(Question) /\ open' \in 0..Len(questions') /\ Len(questions') \in Nat
      /\ \A q \in DOMAIN questions' : questions'[q].said # "yes"
      /\ open' # 0 => questions'[open'].state # "done" /\ ~ questions'[open'].replaced
  <2>1. CASE has(d.text) \/ ~ last(d.key)
    <3>1. questions' = <<>> /\ open' = 0
      BY <1>b, <2>1 DEF Serve
    <3>2. Len(<<>>) = 0 /\ DOMAIN <<>> = {} /\ <<>> \in Seq(Question)
      OBVIOUS
    <3> QED
      BY <3>1, <3>2
  <2>2. CASE ~ (has(d.text) \/ ~ last(d.key))
    <3> DEFINE n == NewQuestion(d)
    <3>1. questions' = <<n>> /\ open' = 1
      BY <2>2 DEF Serve
    <3>2. n \in Question /\ n.state = "asked" /\ n.said = "none" /\ n.replaced = FALSE
      BY DEF NewQuestion, Question
    <3> HIDE DEF n
    <3> QED
      BY <3>1, <3>2
  <2> QED
    BY <2>1, <2>2
<1>3. TypeOK'
  <2>1. waits' \in [Runs -> 0..Len(questions')]
    BY <1>a, <1>b, <1>2 DEF TypeOK
  <2> QED
    BY <1>a, <1>b, <1>1, <1>2, <2>1 DEF TypeOK, Distinct
<1>4. ApprovedInv' /\ OpenInv' /\ NewInv'
  BY <1>b, <1>1, <1>2 DEF ApprovedInv, OpenInv, NewInv
<1>5. RunInv' /\ ReadApproved' /\ OneRunAtATime' /\ WaiterKeepsQuestion'
  BY <1>b DEF RunInv, ReadApproved, OneRunAtATime, WaiterKeepsQuestion, HasTurn, Up
<1> QED
  BY <1>3, <1>4, <1>5 DEF HostInv

-----------------------------------------------------------------------------
LEMMA HostStep == HostInv /\ [Next]_vars => HostInv'
<1> SUFFICES ASSUME HostInv, [Next]_vars PROVE HostInv'
  OBVIOUS
<1>1. ASSUME NEW d \in Definitions, Serve(d) PROVE HostInv'
  BY <1>1, ServeKeeps
<1>2. CASE ServeEnds \/ Drain \/ ServeReturns
  BY <1>2, ServeEndsKeeps, DrainKeeps, ServeReturnsKeeps
<1>3. ASSUME NEW r \in Runs, Connect(r) \/ Leave(r) \/ Handle(r) PROVE HostInv'
  BY <1>3, ConnectKeeps, LeaveKeeps, takeKeeps, defineKeeps, approvedBeforeKeeps,
     refusedBeforeKeeps, AskKeeps, AnsweredKeeps, GiveUpKeeps, StartKeeps, FinishKeeps,
     StopKeeps DEF Handle
<1>4. ASSUME NEW q \in DOMAIN questions, Answer(q) \/ Check(q) \/ Settle(q) PROVE HostInv'
  BY <1>4, AnswerKeeps, CheckKeeps, SettleKeeps
<1>5. CASE UNCHANGED vars
  BY <1>5 DEF HostInv, TypeOK, ApprovedInv, OpenInv, RunInv, NewInv, ReadApproved,
     OneRunAtATime, WaiterKeepsQuestion, HasTurn, Up, vars, server, person
<1> QED
  BY <1>1, <1>2, <1>3, <1>4, <1>5 DEF Next

\* The host keeps HostInv: what the person said and what is kept of it, and
\* which question each run waits for.
THEOREM HostInvariant == Spec => []HostInv
BY HostInit, HostStep, PTL DEF Spec

-----------------------------------------------------------------------------
\* The host keeps its types: at most keptApprovals definitions are kept, each
\* once (approvals.add).
THEOREM HostTypeCorrect == Spec => []TypeOK
<1>1. HostInv => TypeOK
  BY DEF HostInv
<1> QED
  BY <1>1, HostInvariant, PTL

\* For any number of runs and definitions, and in whatever order questions are
\* asked, replaced, answered and settled: a run is let to its services only with
\* a definition, as define read it, that the person approved; so they approved
\* what the services are started from, unless the files behind it changed after
\* define (approved, ask, mgr.Start).
THEOREM HostStartsApproved == Spec => []OnlyApproved
<1>1. HostInv => OnlyApproved
  BY DEF HostInv, ReadApproved, OnlyApproved, Up
<1> QED
  BY <1>1, HostInvariant, PTL

\* For any number of runs: the services of two of them are never up at once
\* (take, and the deferred receive in handle).
THEOREM HostServesOne == Spec => []OneRunAtATime
<1>1. HostInv => OneRunAtATime
  BY DEF HostInv
<1> QED
  BY <1>1, HostInvariant, PTL

\* For any number of runs: nobody replaces the question a run waits for (ask).
THEOREM HostKeepsQuestion == Spec => []WaiterKeepsQuestion
<1>1. HostInv => WaiterKeepsQuestion
  BY DEF HostInv
<1> QED
  BY <1>1, HostInvariant, PTL

-----------------------------------------------------------------------------
(* What the host promises *)

PromiseStep == [Promise!Next]_(Promise!turnsVars)

\* A step that leaves the runs alone approves one definition more, or none.
LEMMA ApprovesPromise ==
  ASSUME NEW t \in Texts, yes' \in {yes, yes \cup {t}}, UNCHANGED <<pc, def>>,
         serve' = "returned" <=> serve = "returned"
  PROVE  PromiseStep
<1>1. \A r \in Runs : At(r)' = At(r) /\ ServedText(r)' = ServedText(r)
  BY DEF At, ServedText, Up
<1>2. CASE yes' = yes
  BY <1>1, <1>2 DEF PromiseStep, Promise!turnsVars
<1>3. CASE yes' = yes \cup {t}
  <2>1. Promise!Approve(t)
    BY <1>1, <1>3 DEF Promise!Approve
  <2> QED
    BY <2>1 DEF PromiseStep, Promise!Next
<1> QED
  BY <1>2, <1>3

\* A handler's step changes where its own run is, and no other's.
LEMMA OthersStay ==
  ASSUME TypeOK, NEW r \in Runs, NEW place, To(r, place),
         \A q \in Runs \ {r} : def'[q] = def[q]
  PROVE  /\ pc'[r] = place
         /\ \A q \in Runs \ {r} : At(q)' = At(q) /\ ServedText(q)' = ServedText(q)
<1>1. pc'[r] = place /\ \A q \in Runs \ {r} : pc'[q] = pc[q]
  BY DEF To, TypeOK
<1> QED
  BY <1>1 DEF At, ServedText, Up

\* A handler that returns leaves.
LEMMA GonePromise ==
  ASSUME TypeOK, NEW r \in Runs, gone(r), pc[r] \notin {"new", "ended"}, UNCHANGED <<serve, yes>>
  PROVE  PromiseStep
<1>1. To(r, "ended") /\ \A q \in Runs \ {r} : def'[q] = def[q]
  BY DEF gone, TypeOK
<1>2. pc'[r] = "ended" /\ \A q \in Runs \ {r} : At(q)' = At(q) /\ ServedText(q)' = ServedText(q)
  BY <1>1, OthersStay
<1>3. At(r)' = "over" /\ ServedText(r)' = NoDef.text /\ At(r) \in {"queued", "served"}
  BY <1>2 DEF At, ServedText, Up
<1>4. Promise!Leave(r)
  BY <1>2, <1>3 DEF Promise!Leave
<1> QED
  BY <1>4 DEF PromiseStep, Promise!Next

\* A handler that goes on stays queued or served, and is served the same.
LEMMA StaysPromise ==
  ASSUME TypeOK, NEW r \in Runs, NEW place, To(r, place),
         {pc[r], place} \cap {"new", "ended"} = {}, Up(r)' <=> Up(r), Up(r) => def'[r] = def[r],
         \A q \in Runs \ {r} : def'[q] = def[q], UNCHANGED <<serve, yes>>
  PROVE  PromiseStep
<1>1. pc'[r] = place /\ \A q \in Runs \ {r} : At(q)' = At(q) /\ ServedText(q)' = ServedText(q)
  BY OthersStay
<1>2. At(r)' = At(r) /\ ServedText(r)' = ServedText(r)
  BY <1>1 DEF At, ServedText, Up
<1>3. \A q \in Runs : At(q)' = At(q) /\ ServedText(q)' = ServedText(q)
  BY <1>1, <1>2
<1> QED
  BY <1>3 DEF PromiseStep, Promise!turnsVars

\* A handler gets to the start of the services: no other is served, since it is
\* this run's turn, and the definition read for it was approved.
LEMMA ServesPromise ==
  ASSUME HostInv, NEW r \in Runs, HasTurn(r), ~ Up(r), pc[r] # "define", Go(r, "start"),
         def[r].text \in yes, UNCHANGED <<serve, yes>>
  PROVE  PromiseStep
<1>1. TypeOK /\ OneRunAtATime /\ def[r] \in Definitions
  BY DEF HostInv, RunInv
<1>2. pc'[r] = "start" /\ \A q \in Runs \ {r} : At(q)' = At(q) /\ ServedText(q)' = ServedText(q)
  BY <1>1, OthersStay DEF Go, locals
<1>3. At(r) = "queued" /\ At(r)' = "served" /\ ServedText(r)' = def[r].text
  BY <1>2 DEF At, ServedText, Up, HasTurn, Go, locals
<1>4. \A q \in Runs : At(q) # "served"
  BY <1>1, <1>3 DEF At, OneRunAtATime, HasTurn, Up
<1>5. def[r].text \in Texts
  BY <1>1 DEF Texts
<1>6. Promise!Serve(r, def[r].text)
  BY <1>2, <1>3, <1>4 DEF Promise!Serve
<1> QED
  BY <1>5, <1>6 DEF PromiseStep, Promise!Next

LEMMA HandlePromise ==
  ASSUME HostInv, NEW r \in Runs, Connect(r) \/ Leave(r) \/ Handle(r)
  PROVE  PromiseStep
<1>a. TypeOK /\ ApprovedInv /\ RunInv
  BY DEF HostInv
<1> USE DEF others, server, person, locals
<1>1. CASE Connect(r)
  <2>1. PICK place \in {"take", "ended"} : To(r, place)
    BY <1>1 DEF Connect, Go
  <2>2. pc[r] = "new" /\ serve = "serving" /\ UNCHANGED <<serve, yes, def>>
    BY <1>1 DEF Connect, Go
  <2>3. pc'[r] = place /\ \A q \in Runs \ {r} : At(q)' = At(q) /\ ServedText(q)' = ServedText(q)
    BY <1>a, <2>1, <2>2, OthersStay
  <2>4. /\ At(r) = "away" /\ At(r)' \in {"queued", "over"}
        /\ ServedText(r)' = ServedText(r)
    BY <2>1, <2>2, <2>3 DEF At, ServedText, Up
  <2>5. Promise!Come(r)
    BY <2>2, <2>3, <2>4 DEF Promise!Come
  <2> QED
    BY <2>5 DEF PromiseStep, Promise!Next
<1>2. CASE Leave(r)
  <2>1. \A q \in Runs : At(q)' = At(q) /\ ServedText(q)' = ServedText(q)
    BY <1>2 DEF Leave, At, ServedText, Up
  <2> QED
    BY <1>2, <2>1 DEF Leave, PromiseStep, Promise!turnsVars
<1>3. CASE take(r)
  BY <1>a, <1>3, GonePromise, StaysPromise DEF take, Go, Up, To, TypeOK
<1>4. CASE define(r)
  <2>1. CASE End(r)
    BY <1>a, <1>4, <2>1, GonePromise DEF define, End
  <2>2. CASE To(r, "has") /\ \E d \in Definitions : def' = [def EXCEPT ![r] = d]
    <3>1. \A q \in Runs \ {r} : def'[q] = def[q]
      BY <1>a, <2>2 DEF TypeOK
    <3> QED
      BY <1>a, <1>4, <2>2, <3>1, StaysPromise DEF define, Up, To, TypeOK
  <2> QED
    BY <1>4, <2>1, <2>2 DEF define
<1>5. CASE approvedBefore(r)
  <2>1. CASE has(def[r].text)
    BY <1>a, <1>5, <2>1, ServesPromise DEF approvedBefore, has, ApprovedInv, HasTurn, Up
  <2>2. CASE ~ has(def[r].text)
    BY <1>a, <1>5, <2>2, StaysPromise DEF approvedBefore, Go, Up, To, TypeOK
  <2> QED
    BY <2>1, <2>2
<1>6. CASE refusedBefore(r)
  BY <1>a, <1>6, GonePromise, StaysPromise DEF refusedBefore, End, Go, Up, To, TypeOK
<1>7. CASE Ask(r)
  BY <1>a, <1>7, StaysPromise DEF Ask, Up, To, TypeOK
<1>8. CASE Answered(r)
  <2>1. CASE questions[waits[r]].said = "yes"
    <3>1. waits[r] \in DOMAIN questions
      BY <1>a, <1>8, QuestionsAre DEF Answered, RunInv, TypeOK
    <3>2. def[r].text \in yes
      BY <1>a, <1>8, <2>1, <3>1 DEF Answered, ApprovedInv, RunInv
    <3> QED
      BY <1>8, <2>1, <3>2, ServesPromise DEF Answered, HasTurn, Up
  <2>2. CASE questions[waits[r]].said # "yes"
    BY <1>a, <1>8, <2>2, GonePromise DEF Answered, End
  <2> QED
    BY <2>1, <2>2
<1>9. CASE GiveUp(r) \/ Stop(r)
  BY <1>a, <1>9, GonePromise DEF GiveUp, Stop, End
<1>10. CASE Start(r)
  BY <1>a, <1>10, GonePromise, StaysPromise DEF Start, End, Up, To, TypeOK
<1>11. CASE Finish(r)
  BY <1>a, <1>11, StaysPromise DEF Finish, Go, Up, To, TypeOK
<1> QED
  BY <1>1, <1>2, <1>3, <1>4, <1>5, <1>6, <1>7, <1>8, <1>9, <1>10, <1>11 DEF Handle

\* Approvals come from the person, and from Serve as it begins.
LEMMA HostPromise == HostInv /\ [Next]_vars => PromiseStep
<1> SUFFICES ASSUME HostInv, [Next]_vars PROVE PromiseStep
  OBVIOUS
<1>a. TypeOK
  BY DEF HostInv
<1> USE DEF server, person
<1>1. ASSUME NEW d \in Definitions, Serve(d) PROVE PromiseStep
  <2>1. d.text \in Texts /\ yes' \in {yes, yes \cup {d.text}} /\ UNCHANGED <<pc, def>>
    BY <1>1 DEF Serve, Texts
  <2> QED
    BY <1>1, <2>1, ApprovesPromise DEF Serve
<1>2. CASE ServeEnds \/ Drain
  <2>1. \A q \in Runs : At(q)' = At(q) /\ ServedText(q)' = ServedText(q)
    BY <1>2 DEF ServeEnds, Drain, At, ServedText, Up
  <2> QED
    BY <1>2, <2>1 DEF ServeEnds, Drain, PromiseStep, Promise!turnsVars
<1>3. CASE ServeReturns
  <2>1. \A q \in Runs : /\ At(q)' = At(q) /\ ServedText(q)' = ServedText(q)
                        /\ At(q) \in {"away", "over"}
    BY <1>3 DEF ServeReturns, At, ServedText, Up
  <2>2. Promise!End
    BY <1>3, <2>1 DEF ServeReturns, Promise!End
  <2> QED
    BY <2>2 DEF PromiseStep, Promise!Next
<1>4. ASSUME NEW r \in Runs, Connect(r) \/ Leave(r) \/ Handle(r) PROVE PromiseStep
  BY <1>4, HandlePromise
<1>5. ASSUME NEW q \in DOMAIN questions, Answer(q) \/ Check(q) \/ Settle(q) PROVE PromiseStep
  <2>1. questions[q].def.text \in Texts
    BY <1>a, QuestionText
  <2>2. /\ yes' \in {yes, yes \cup {questions[q].def.text}}
        /\ UNCHANGED <<serve, pc, def>>
    BY <1>5 DEF Answer, Check, Settle
  <2> QED
    BY <2>1, <2>2, ApprovesPromise
<1>6. CASE UNCHANGED vars
  <2>1. \A q \in Runs : At(q)' = At(q) /\ ServedText(q)' = ServedText(q)
    BY <1>6 DEF vars, At, ServedText, Up
  <2> QED
    BY <1>6, <2>1 DEF vars, PromiseStep, Promise!turnsVars
<1> QED
  BY <1>1, <1>2, <1>3, <1>4, <1>5, <1>6 DEF Next

\* The host implements Turns, for any number of runs and definitions: each step
\* of handle and Serve is one of Turns, or none.  The definition a run is let in
\* with is the one define read.
THEOREM HostKeepsPromise == Spec => KeepsPromise
<1>1. Init => Promise!Init
  <2> SUFFICES ASSUME Init PROVE Promise!Init
    OBVIOUS
  <2>1. yes \in SUBSET Texts
    BY HostInit DEF HostInv, TypeOK
  <2>2. \A r \in Runs : At(r) = "away" /\ ServedText(r) = NoDef.text
    BY DEF Init, At, ServedText, Up
  <2>3. serve # "returned"
    BY DEF Init
  <2> QED
    BY <2>1, <2>2, <2>3 DEF Promise!Init
<1>2. HostInv /\ [Next]_vars => [Promise!Next]_(Promise!turnsVars)
  BY HostPromise DEF PromiseStep
<1> QED
  BY <1>1, <1>2, HostInvariant, PTL DEF Spec, KeepsPromise, Promise!Spec

\* An approval is forgotten only when a newer one takes its place in a full
\* list, and it is the oldest then (approvals.add): a definition the person
\* approved starts without a question as long as keptApprovals allow.
THEOREM HostForgetsOldest ==
  Spec => [][\A j \in DOMAIN list : (\A i \in DOMAIN list' : list'[i].text # list[j].text) =>
               j = 1 /\ Len(list) = Kept]_vars
<1>1. ASSUME HostInv, Next, NEW j \in DOMAIN list,
             \A i \in DOMAIN list' : list'[i].text # list[j].text
      PROVE  j = 1 /\ Len(list) = Kept
  <2>1. list \in Seq(Definitions) /\ Len(list) <= Kept /\ Distinct(list) /\ TypeOK
    BY <1>1 DEF HostInv, TypeOK, Distinct
  <2>2. list' # list
    BY <1>1
  <2>3. \E d \in Definitions : list' = add(d)
    <3> SUFFICES ASSUME \A d \in Definitions : list' # add(d) PROVE list' = list
      BY <2>2
    <3>1. ASSUME NEW r \in Runs, Connect(r) \/ Leave(r) \/ Handle(r) PROVE list' = list
      BY <3>1 DEF Connect, Leave, Handle, take, define, approvedBefore, refusedBefore, Ask,
         Answered, GiveUp, Start, Finish, Stop, others, person
    <3>2. ASSUME NEW q \in DOMAIN questions, Answer(q) \/ Check(q) \/ Settle(q)
          PROVE  list' = list
      <4>1. questions[q].def \in Definitions
        BY <2>1, QuestionText
      <4> QED
        BY <3>2, <4>1 DEF Answer, Check, Settle
    <3>3. ASSUME NEW d \in Definitions, Serve(d) PROVE list' = list
      BY <3>3 DEF Serve
    <3>4. ServeEnds \/ Drain \/ ServeReturns => list' = list
      BY DEF ServeEnds, Drain, ServeReturns, person
    <3> QED
      BY <1>1, <3>1, <3>2, <3>3, <3>4 DEF Next
  <2> QED
    BY <1>1, <2>1, <2>3, AddForgets
<1>2. HostInv /\ [Next]_vars =>
        [\A j \in DOMAIN list : (\A i \in DOMAIN list' : list'[i].text # list[j].text) =>
           j = 1 /\ Len(list) = Kept]_vars
  BY <1>1
<1> QED
  BY <1>2, HostInvariant, PTL DEF Spec
=============================================================================
