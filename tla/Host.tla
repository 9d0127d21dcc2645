-------------------------------- MODULE Host --------------------------------
(***************************************************************************)
(* internal/host: a host serves the services of one project to the runs    *)
(* that connect to it, one run at a time, and lets a run to its services   *)
(* only with a definition of them that a person approved.  Modelled are    *)
(* the handler of a run (server.go, handle), the person's question         *)
(* (approved, ask), the turn (take), the approvals kept across restarts    *)
(* (approvals.go) and Serve.                                               *)
(*                                                                         *)
(* What a run sends (report lines, its result) and is told (messages,      *)
(* events) is left out, and so is the start of the services themselves     *)
(* (module Services): mgr.Start succeeds, or fails and leaves nothing.     *)
(***************************************************************************)
EXTENDS Naturals, Sequences, SequencesExt

CONSTANTS Runs,         \* the runs that may connect, each once
          Definitions,  \* records [key, text]: what define can return
          Kept          \* keptApprovals

ASSUME RunsAssumption == 0 \notin Runs
ASSUME DefinitionsAssumption ==
         \A d \in Definitions : DOMAIN d = {"key", "text"}
ASSUME KeptAssumption == Kept \in Nat \ {0}

VARIABLES
  serve,      \* Serve: "none" before it, "serving", "draining", "returned"
  stopping,   \* its context ended
  list,       \* approvals.list, oldest first; the file holds the same
  refused,    \* Server.refused, texts
  questions,  \* every question of this host's process, in the order asked
  open,       \* Server.open: an index of questions, 0 for nil
  turn,       \* the run that put its token into Server.turn, 0 for none
  pc,         \* where the handler of each run is
  def,        \* what define returned for each run
  started,    \* what its services were started from
  waits,      \* the question a run waits for, 0 for none
  left,       \* the runs that asked to stop or whose connection ended
  yes         \* history: the texts the person approved

person == <<list, refused, questions, open, yes>>
server == <<serve, stopping>>
reads == <<def, started>>
vars == <<server, person, turn, pc, reads, waits, left>>

Texts == {d.text : d \in Definitions}
NoDef == [key |-> "none", text |-> "none"]
Places == {"new", "take", "wait", "define", "has", "refused", "ask", "await",
           "start", "started", "stop", "ended"}
\* The handler is past take and has not returned.
HasTurn(r) == pc[r] \in {"define", "has", "refused", "ask", "await", "start",
                         "started", "stop"}
\* Services of the run may be up: its mgr.Start was called.
Up(r) == pc[r] \in {"start", "started", "stop"}

Question == [def : Definitions, state : {"asked", "said", "settle", "done"},
             said : {"none", "yes", "no"}, replaced : BOOLEAN]

TypeOK ==
  /\ serve \in {"none", "serving", "draining", "returned"}
  /\ stopping \in BOOLEAN
  /\ list \in Seq(Definitions) /\ Len(list) <= Kept
  /\ \A i, j \in DOMAIN list : list[i].text = list[j].text => i = j
  /\ refused \subseteq Texts /\ yes \subseteq Texts
  /\ questions \in Seq(Question)
  /\ open \in 0..Len(questions)
  /\ turn \in Runs \cup {0}
  /\ pc \in [Runs -> Places]
  /\ def \in [Runs -> Definitions \cup {NoDef}]
  /\ started \in [Runs -> Definitions \cup {NoDef}]
  /\ waits \in [Runs -> 0..Len(questions)]
  /\ left \subseteq Runs

\* loadApprovals: what was approved while earlier hosts served.
Init ==
  /\ serve = "none" /\ stopping = FALSE
  /\ \E n \in 0..Kept : list \in [1..n -> Definitions]
  /\ \A i, j \in DOMAIN list : list[i].text = list[j].text => i = j
  /\ refused = {} /\ questions = <<>> /\ open = 0
  /\ turn = 0 /\ left = {}
  /\ pc = [r \in Runs |-> "new"]
  /\ def = [r \in Runs |-> NoDef]
  /\ started = [r \in Runs |-> NoDef]
  /\ waits = [r \in Runs |-> 0]
  /\ yes = {list[i].text : i \in DOMAIN list}

-----------------------------------------------------------------------------
(* approvals.go *)

has(t) == \E i \in DOMAIN list : list[i].text = t

last(k) == \E i \in DOMAIN list : list[i].key = k

\* The list without the entry for text t, of which it has one at most (TypeOK).
without(t) ==
  IF has(t) THEN RemoveAt(list, CHOOSE i \in DOMAIN list : list[i].text = t) ELSE list

\* The list with d as its newest entry, the oldest dropped past the limit.
add(d) ==
  LET l == Append(without(d.text), d)
  IN  IF Len(l) > Kept THEN SubSeq(l, Len(l) - Kept + 1, Len(l)) ELSE l

-----------------------------------------------------------------------------
(* The question *)

Going(q) == questions[q].state # "done"
\* The context Approve was called with is done.
NoLongerAsked(q) == questions[q].replaced \/ stopping

NewQuestion(d) == [def |-> d, state |-> "asked", said |-> "none", replaced |-> FALSE]

\* ask, about d: the open question if it is about the same text, else a new
\* one in its place.  The result is the new value of <<questions, open>>.
ask(d) ==
  IF open # 0 /\ questions[open].def.text = d.text
  THEN <<questions, open>>
  ELSE LET qs == IF open = 0 THEN questions
                 ELSE [questions EXCEPT ![open].replaced = TRUE]
       IN  <<Append(qs, NewQuestion(d)), Len(qs) + 1>>

\* Approve returns: the person answered, or it gave up once no longer asked.
Answer(q) ==
  /\ questions[q].state = "asked"
  /\ \/ \E a \in {"yes", "no"} :
          /\ questions' = [questions EXCEPT ![q].state = "said", ![q].said = a]
          /\ yes' = IF a = "yes" THEN yes \cup {questions[q].def.text} ELSE yes
     \/ /\ NoLongerAsked(q)
        /\ questions' = [questions EXCEPT ![q].state = "said"]
        /\ yes' = yes
  /\ UNCHANGED <<server, list, refused, open, turn, pc, reads, waits, left>>

\* asked := err == nil && ctx.Err() == nil
Check(q) ==
  /\ questions[q].state = "said"
  /\ questions' = [questions EXCEPT ![q].state = "settle",
                     ![q].said = IF NoLongerAsked(q) THEN "none" ELSE @]
  /\ UNCHANGED <<server, list, refused, open, turn, pc, reads, waits, left, yes>>

(* The bug keeps an approval for the question that is open now. *)
Settle_OpenQuestion(q) ==
  /\ questions[q].state = "settle"
  /\ questions' = [questions EXCEPT ![q].state = "done"]
  /\ open' = IF open = q THEN 0 ELSE open
  /\ list' = IF questions[q].said = "yes" /\ open # 0
             THEN add(questions[open].def) ELSE list
  /\ refused' = refused
  /\ UNCHANGED <<server, turn, pc, reads, waits, left, yes>>

\* Under Server.mu: the answer is kept, for the text it was given about; then
\* q.done is closed.
Settle(q) ==
  /\ questions[q].state = "settle"
  /\ questions' = [questions EXCEPT ![q].state = "done"]
  /\ open' = IF open = q THEN 0 ELSE open
  /\ list' = IF questions[q].said = "yes" THEN add(questions[q].def) ELSE list
  /\ refused' = IF questions[q].said = "no" THEN refused \cup {questions[q].def.text}
                ELSE refused
  /\ UNCHANGED <<server, turn, pc, reads, waits, left, yes>>

-----------------------------------------------------------------------------
(* The handler of a run *)

locals == <<reads, waits, left>>
\* Every step of a handler but Ask leaves the person and Serve alone.
others == <<server, person>>

To(r, place) == pc' = [pc EXCEPT ![r] = place]
\* On to a place further down in handle.
Go(r, place) == To(r, place) /\ UNCHANGED <<turn, locals>>

\* runCtx is done: the run asked to stop, its connection ended, or the host
\* stops.
Done(r) == r \in left \/ stopping

\* handle returns, and its variables are gone.
gone(r) ==
  /\ To(r, "ended")
  /\ def' = [def EXCEPT ![r] = NoDef]
  /\ started' = [started EXCEPT ![r] = NoDef]
  /\ waits' = [waits EXCEPT ![r] = 0]
  /\ left' = left \ {r}

\* It returns from behind take: the deferred receive gives the turn back.
End(r) == gone(r) /\ turn' = 0

\* Accept, and the request is read; it is refused for its token or protocol
\* (or cannot be read), or the run is queued.
Connect(r) ==
  /\ serve = "serving" /\ pc[r] = "new"
  /\ Go(r, "take") \/ Go(r, "ended")
  /\ UNCHANGED others

\* The goroutine that reads what the run sends ends: cancel, close(done).
Leave(r) ==
  /\ pc[r] \notin {"new", "ended"} /\ r \notin left
  /\ left' = left \cup {r}
  /\ UNCHANGED <<others, turn, pc, reads, waits>>

\* take: the first select does not look at the context, the second takes
\* either case.
take(r) ==
  /\ \/ pc[r] \in {"take", "wait"} /\ turn = 0 /\ turn' = r /\ To(r, "define")
        /\ UNCHANGED locals
     \/ pc[r] = "take" /\ turn # 0 /\ Go(r, "wait")
     \/ pc[r] = "wait" /\ Done(r) /\ gone(r) /\ turn' = turn
  /\ UNCHANGED others

\* define: the configuration is loaded as it is now, or cannot be.
define(r) ==
  /\ pc[r] = "define"
  /\ \/ /\ \E d \in Definitions : def' = [def EXCEPT ![r] = d]
        /\ To(r, "has")
        /\ UNCHANGED <<turn, started, waits, left>>
     \/ End(r)
  /\ UNCHANGED others

\* approved, up to the question: three looks at the state, each under a lock
\* of its own.
approvedBefore(r) ==
  /\ pc[r] = "has"
  /\ Go(r, IF has(def[r].text) THEN "start" ELSE "refused")
  /\ UNCHANGED others

refusedBefore(r) ==
  /\ pc[r] = "refused"
  /\ IF def[r].text \in refused THEN End(r) ELSE Go(r, "ask")
  /\ UNCHANGED others

(* The bug lets the next run have its turn while this one waits. *)
Ask_LetsGo(r) ==
  /\ pc[r] = "ask"
  /\ LET a == ask(def[r]) IN questions' = a[1] /\ open' = a[2]
  /\ waits' = [waits EXCEPT ![r] = open']
  /\ To(r, "await") /\ turn' = 0
  /\ UNCHANGED <<server, list, refused, yes, reads, left>>

Ask(r) ==
  /\ pc[r] = "ask"
  /\ LET a == ask(def[r]) IN questions' = a[1] /\ open' = a[2]
  /\ waits' = [waits EXCEPT ![r] = open']
  /\ To(r, "await")
  /\ UNCHANGED <<server, list, refused, yes, turn, reads, left>>

\* The run waits: for the answer, s.wait at most, while it is connected.
Answered(r) ==
  /\ pc[r] = "await" /\ ~ Going(waits[r])
  /\ IF questions[waits[r]].said = "yes" THEN Go(r, "start") ELSE End(r)
  /\ UNCHANGED others

(* The bug waits for the answer, however long the person takes. *)
GiveUp_Never(r) ==
  /\ pc[r] = "await" /\ r \in left
  /\ End(r)
  /\ UNCHANGED others

GiveUp(r) ==
  /\ pc[r] = "await"
  /\ End(r)
  /\ UNCHANGED others

\* mgr.Start succeeds, or fails (and lifecycle.New may) and has stopped what
\* it started.  axx.yaml is as define loaded it, but compose files and
\* executables are as they are on disk now: what is started is a definition of
\* the same configuration, and nothing compares it with the one define read.
Start(r) ==
  /\ pc[r] = "start"
  /\ \/ /\ \E d \in Definitions :
             d.key = def[r].key /\ started' = [started EXCEPT ![r] = d]
        /\ To(r, "started")
        /\ UNCHANGED <<turn, def, waits, left>>
     \/ End(r)
  /\ UNCHANGED others

(* The bug lets the next run begin while the services are stopped. *)
Finish_EarlyTurn(r) ==
  /\ pc[r] = "started" /\ Done(r)
  /\ To(r, "stop") /\ turn' = 0
  /\ UNCHANGED <<others, locals>>

\* <-runCtx.Done(), and <-done unless the host stops.
Finish(r) ==
  /\ pc[r] = "started" /\ Done(r)
  /\ Go(r, "stop")
  /\ UNCHANGED others

\* mgr.Stop, with a context that the end of the host does not cancel.
Stop(r) ==
  /\ pc[r] = "stop"
  /\ End(r)
  /\ UNCHANGED others

-----------------------------------------------------------------------------
(* Serve *)

\* New and Serve: New reads the approvals and the definition, approves it if
\* none of its configuration was approved before, and Serve asks about it if
\* another was.
Serve(d) ==
  /\ serve = "none"
  /\ serve' = "serving"
  /\ IF has(d.text) \/ last(d.key) THEN UNCHANGED <<list, yes>>
     ELSE /\ list' = add(d)
          /\ yes' = yes \cup {d.text}
  /\ IF has(d.text) \/ ~ last(d.key) THEN UNCHANGED <<questions, open>>
     ELSE questions' = <<NewQuestion(d)>> /\ open' = 1
  /\ UNCHANGED <<stopping, refused, turn, pc, reads, waits, left>>

ServeEnds ==
  /\ serve = "serving" /\ ~ stopping
  /\ stopping' = TRUE
  /\ UNCHANGED <<serve, person, turn, pc, reads, waits, left>>

\* The listener is closed: no run connects from now on.
Drain ==
  /\ serve = "serving" /\ stopping
  /\ serve' = "draining"
  /\ UNCHANGED <<stopping, person, turn, pc, reads, waits, left>>

\* wg.Wait() is over.
ServeReturns ==
  /\ serve = "draining"
  /\ \A r \in Runs : pc[r] \in {"new", "ended"}
  /\ serve' = "returned"
  /\ UNCHANGED <<stopping, person, turn, pc, reads, waits, left>>

Handle(r) == \/ take(r) \/ define(r) \/ approvedBefore(r) \/ refusedBefore(r)
             \/ Ask(r) \/ Answered(r) \/ GiveUp(r) \/ Start(r) \/ Finish(r)
             \/ Stop(r)

Next ==
  \/ \E d \in Definitions : Serve(d)
  \/ ServeEnds \/ Drain \/ ServeReturns
  \/ \E r \in Runs : Connect(r) \/ Leave(r) \/ Handle(r)
  \/ \E q \in DOMAIN questions : Answer(q) \/ Check(q) \/ Settle(q)

Spec == Init /\ [][Next]_vars

\* The host's goroutines go on and its timer fires; a run that has its
\* services is over at some point.  Whether the person ever answers, whether a
\* run that waits is interrupted and when the host is stopped is open.
FairSpec ==
  /\ Spec
  /\ WF_vars(Drain) /\ WF_vars(ServeReturns)
  /\ \A r \in Runs : WF_vars(Handle(r)) /\ WF_vars(pc[r] = "started" /\ Leave(r))

-----------------------------------------------------------------------------
(* Properties *)

(* What a run's services were started from was approved by the person, or they
   started the host with it when none of that configuration had been approved
   (approved, New), unless compose files or executables changed since define
   read them.  An answer counts for the definition it was given about,
   whichever question is open by the time it is kept. *)
OnlyApproved ==
  \A r \in Runs :
    pc[r] \in {"started", "stop"} /\ started[r] = def[r] => started[r].text \in yes

(* Only one run has services at a time, from before they are started until
   they are stopped, and it is the run whose turn it is (handle, take). *)
OneRunAtATime ==
  \A r \in Runs : HasTurn(r) => turn = r

(* The question a run waits for is not replaced under it: only the run whose
   turn it is asks, so that the answer reaches it (approved, ask). *)
WaiterKeepsQuestion ==
  \A r \in Runs : pc[r] = "await" => ~ questions[waits[r]].replaced

(* Every run that connected gets its turn and an end, whether or not the
   person answers: no way out of handle keeps the turn (take, approved). *)
RunEnds == \A r \in Runs : pc[r] = "take" ~> pc[r] = "ended"

\* Where a run is for whom it is served: its services may be up when it is.  Its
\* text is that of the definition it was let in with.
At(r) == IF pc[r] = "new" THEN "away"
         ELSE IF pc[r] = "ended" THEN "over"
         ELSE IF Up(r) THEN "served" ELSE "queued"
ServedText(r) == IF Up(r) THEN def[r].text ELSE NoDef.text

(* The host keeps Turns: runs are let in one at a time, each with a definition,
   as define read it, that the person approved, and none once Serve has returned
   (handle, approved, Serve). *)
Promise == INSTANCE Turns WITH
  NoText <- NoDef.text,
  approved <- yes,
  at <- [r \in Runs |-> At(r)],
  text <- [r \in Runs |-> ServedText(r)],
  over <- serve = "returned"

KeepsPromise == Promise!Spec
=============================================================================
