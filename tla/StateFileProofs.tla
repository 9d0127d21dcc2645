-------------------------- MODULE StateFileProofs --------------------------
(***************************************************************************)
(* The state file tells of what axx processes left, for any number of runs  *)
(* and of `axx down`, each of which may be killed between any two steps.    *)
(*                                                                         *)
(* FileInv holds whatever processes overlap.  What the file is for needs    *)
(* one process at a time: then RecordInv, SlateInv and StaleInv say what    *)
(* the process that goes on knows at each of its places.                    *)
(***************************************************************************)
EXTENDS StateFile, SequenceTheorems, TLAPS

\* A process that has not come to its own services yet.
Fresh(r) == pc[r] \in {"new", "checking", "reading", "reaping", "reaped"}

\* A run that has services, or is about to.
Works(r) == pc[r] \in {"starting", "launched", "stopping", "stopped"}

\* The services that entries are about.
On(s) == {e.svc : e \in Range(s)}

\* No two entries are about the same service.
Unique(s) == \A m, n \in DOMAIN s : s[m].svc = s[n].svc => m = n

\* The services of r that are up.
Own(r) == {<<r, k>> : k \in Range(up[r])}

\* Every entry on file or in a process's memory.
AllEntries ==
  Range(file.services)
    \cup (UNION {Range(reap[r].todo) \cup Range(reap[r].kept) : r \in Axx})
    \cup (UNION {Range(inherited[r]) \cup Range(unclean[r]) : r \in Runs})

\* Entries are about services that were published, and name processes that have
\* read the file.
EntryInv ==
  /\ \A e \in AllEntries : /\ e.svc \in published
                           /\ e.owner # NoRun => loaded[e.owner]
  /\ file.pid # NoRun => loaded[file.pid]

\* Before a run reads the file nothing was published of it.
LoadInv ==
  \A r \in Runs :
    /\ Fresh(r) => ~loaded[r]
    /\ pc[r] \in {"stopping", "stopped"} => loaded[r]
    /\ ~loaded[r] => /\ up[r] = <<>> /\ inherited[r] = <<>> /\ unclean[r] = <<>>
                     /\ \A i \in published : i[1] # r

\* What each place has to work on.
PlaceInv ==
  /\ \A r \in Runs :
       /\ pc[r] = "launched" => started[r] \in Svc /\ <<r, started[r]>> \notin published
       /\ pc[r] = "stopped" => up[r] # <<>>
  /\ \A r \in Axx : pc[r] = "reaped" => reap[r].todo # <<>>
  /\ \A i \in published : i[2] <= started[i[1]]
  /\ \A i \in dirty : i[2] \in HasCleanup

\* No service has two entries.
UniqueInv ==
  /\ \A r \in Axx : /\ Unique(reap[r].todo) /\ Unique(reap[r].kept)
                    /\ On(reap[r].todo) \cap On(reap[r].kept) = {}
  /\ \A r \in Runs :
       /\ Unique(inherited[r]) /\ Unique(unclean[r])
       /\ \A m, n \in DOMAIN up[r] : up[r][m] = up[r][n] => m = n
       /\ Own(r) \subseteq published
       /\ On(unclean[r]) \cap Own(r) = {}
       /\ \A i \in On(unclean[r]) : i[1] = r
       /\ \A i \in On(inherited[r]) : i[1] # r

FileInv == TypeOK /\ EntryInv /\ LoadInv /\ PlaceInv /\ UniqueInv

-----------------------------------------------------------------------------
(* One process at a time *)

\* At most one process is going.
AloneInv == \A q, r \in Axx : Going(q) /\ Going(r) => q = r

\* A service that was stopped, or whose cleanup failed, does not run.
StoppedInv ==
  /\ \A e \in AllEntries : e.failed => e.svc \notin alive
  /\ \A r \in Axx : pc[r] = "reaped" => Last(reap[r].todo).svc \notin alive
  /\ \A r \in Runs : pc[r] = "stopped" => <<r, Last(up[r])>> \notin alive

\* Who rewrites the file knows of all that is left.
KnownInv ==
  /\ \A r \in Axx : pc[r] \in {"reaping", "reaped"} =>
       \A i \in Instances : Left(i) => i \in On(reap[r].todo) \cup On(reap[r].kept)
  /\ \A r \in Runs : Going(r) /\ loaded[r] =>
       \A i \in Instances : Left(i) => i \in On(inherited[r]) \cup On(unclean[r]) \cup Own(r)

RecordInv == FileInv /\ AloneInv /\ StoppedInv /\ KnownInv /\ Recorded

\* The first process of a service that is no launcher runs as long as the
\* service.
LeadInv == \A i \in alive \ lead : i[2] \in Launchers

\* A Reap that did not fail kept nothing.
KeptInv == \A r \in Axx : ~reap[r].failed => reap[r].kept = <<>>

SlateInv == RecordInv /\ LeadInv /\ KeptInv /\ CleanSlate

NoneKilled == \A r \in Axx : pc[r] # "killed"

\* Only cleanups that failed are on file while no run has services up, and only
\* they are before a Reap.
FailedInv ==
  /\ (\A r \in Axx : pc[r] \in {"new", "ended", "checking", "reading"}) =>
       On(file.services) \subseteq dirty
  /\ \A r \in Axx : pc[r] \in {"reaping", "reaped"} =>
       On(reap[r].todo) \cup On(reap[r].kept) \subseteq dirty

\* A run that has services inherits nothing, and the file has no more than its
\* own services.
OwnInv ==
  \A r \in Runs : Works(r) =>
    /\ inherited[r] = <<>>
    /\ On(unclean[r]) \subseteq dirty
    /\ On(file.services) \subseteq On(unclean[r]) \cup Own(r)
    /\ \A i \in Own(r) : i[2] \in HasCleanup => i \in dirty
    /\ pc[r] = "launched" /\ started[r] \in HasCleanup => <<r, started[r]>> \in dirty

\* While no process was killed.
StaleInv == FileInv /\ AloneInv /\ KeptInv /\ (NoneKilled => FailedInv /\ OwnInv)

-----------------------------------------------------------------------------
(* Sequences *)

LEMMA SeqIs ==
  ASSUME NEW S, NEW q \in Seq(S)
  PROVE  /\ Len(q) \in Nat /\ DOMAIN q = 1..Len(q)
         /\ \A n \in 1..Len(q) : q[n] \in S /\ q[n] \in Range(q)
         /\ Range(q) \subseteq S
         /\ q = <<>> <=> Range(q) = {}
         /\ q # <<>> => Len(q) >= 1 /\ Len(q) \in 1..Len(q)
<1>1. Len(q) \in Nat /\ DOMAIN q = 1..Len(q) /\ \A n \in 1..Len(q) : q[n] \in S
  BY LenProperties, ElementOfSeq
<1>2. \A x : x \in Range(q) <=> \E n \in 1..Len(q) : q[n] = x
  BY <1>1 DEF Range
<1>3. q = <<>> <=> Len(q) = 0
  BY EmptySeq
<1>4. Len(q) = 0 <=> Range(q) = {}
  <2>1. Len(q) # 0 => q[1] \in Range(q)
    BY <1>1, <1>2
  <2>2. Len(q) = 0 => 1..Len(q) = {}
    BY <1>1
  <2> QED
    BY <1>2, <2>1, <2>2
<1>5. q # <<>> => Len(q) >= 1
  BY EmptySeq
<1> QED
  BY <1>1, <1>2, <1>3, <1>4, <1>5

LEMMA EmptyIs ==
  /\ Range(<<>>) = {} /\ DOMAIN <<>> = {} /\ On(<<>>) = {} /\ Unique(<<>>)
  /\ \A S : <<>> \in Seq(S)
<1>1. \A S : <<>> \in Seq(S) /\ Len(<<>>) = 0
  BY EmptySeq
<1>2. DOMAIN <<>> = {}
  BY <1>1, LenProperties
<1> QED
  BY <1>1, <1>2 DEF Range, On, Unique

LEMMA BeforeLast ==
  ASSUME NEW k \in Nat
  PROVE  /\ \A n \in 1..k : n \in 1..(k - 1) \/ n = k
         /\ \A n \in 1..(k - 1) : n \in 1..k /\ n # k
OBVIOUS

LEMMA FrontIs ==
  ASSUME NEW S, NEW q \in Seq(S), q # <<>>
  PROVE  /\ Front(q) \in Seq(S) /\ Last(q) \in S /\ Last(q) \in Range(q)
         /\ Len(Front(q)) = Len(q) - 1 /\ DOMAIN Front(q) = 1..(Len(q) - 1)
         /\ \A n \in 1..(Len(q) - 1) : Front(q)[n] = q[n]
         /\ Range(q) = Range(Front(q)) \cup {Last(q)}
<1>1. /\ Len(q) \in Nat /\ Len(q) >= 1 /\ Len(q) \in 1..Len(q) /\ DOMAIN q = 1..Len(q)
      /\ \A n \in 1..Len(q) : q[n] \in S /\ q[n] \in Range(q)
  BY SeqIs
<1>2. /\ Front(q) \in Seq(S) /\ Len(Front(q)) = Len(q) - 1
      /\ \A n \in 1..(Len(q) - 1) : Front(q)[n] = q[n]
  <2>1. \A n \in 1..(Len(q) - 1) : q[n] \in S
    BY <1>1
  <2>2. 1 \in Int /\ Len(q) - 1 \in Int
    BY <1>1
  <2>3. /\ Front(q) \in Seq(S)
        /\ Len(Front(q)) = IF 1 <= Len(q) - 1 THEN Len(q) - 1 - 1 + 1 ELSE 0
        /\ \A n \in 1..(Len(q) - 1 - 1 + 1) : Front(q)[n] = q[1 + n - 1]
    BY <2>1, <2>2, SubSeqProperties DEF Front
  <2>4. PICK k \in Nat : k = Len(q) /\ k >= 1
    BY <1>1
  <2>5. k - 1 - 1 + 1 = k - 1 /\ \A n \in 1..(k - 1) : 1 + n - 1 = n
    BY <2>4
  <2>6. (IF 1 <= k - 1 THEN k - 1 - 1 + 1 ELSE 0) = k - 1
    BY <2>4
  <2> QED
    BY <2>3, <2>4, <2>5, <2>6
<1>3. DOMAIN Front(q) = 1..(Len(q) - 1)
  BY <1>2, LenProperties
<1>4. \A x : x \in Range(q) <=> x \in Range(Front(q)) \/ x = Last(q)
  <2>1. \A x : x \in Range(q) <=> \E n \in 1..Len(q) : q[n] = x
    BY <1>1 DEF Range
  <2>2. \A x : x \in Range(Front(q)) <=> \E n \in 1..(Len(q) - 1) : q[n] = x
    BY <1>2, <1>3 DEF Range
  <2>3. \A n \in 1..Len(q) : n \in 1..(Len(q) - 1) \/ n = Len(q)
    BY <1>1, BeforeLast
  <2>4. \A n \in 1..(Len(q) - 1) : n \in 1..Len(q)
    BY <1>1, BeforeLast
  <2> QED
    BY <1>1, <2>1, <2>2, <2>3, <2>4 DEF Last
<1> QED
  BY <1>1, <1>2, <1>3, <1>4 DEF Last

LEMMA AppendIs ==
  ASSUME NEW S, NEW q \in Seq(S), NEW x \in S
  PROVE  /\ Append(q, x) \in Seq(S) /\ Append(q, x) # <<>>
         /\ Len(Append(q, x)) = Len(q) + 1 /\ DOMAIN Append(q, x) = 1..(Len(q) + 1)
         /\ Append(q, x)[Len(q) + 1] = x
         /\ \A n \in 1..Len(q) : Append(q, x)[n] = q[n]
         /\ Range(Append(q, x)) = Range(q) \cup {x}
<1>1. Len(q) \in Nat /\ DOMAIN q = 1..Len(q)
  BY LenProperties
<1>2. /\ Append(q, x) \in Seq(S) /\ Len(Append(q, x)) = Len(q) + 1
      /\ Append(q, x)[Len(q) + 1] = x
      /\ \A n \in 1..Len(q) : Append(q, x)[n] = q[n]
  BY <1>1, AppendProperties
<1>3. DOMAIN Append(q, x) = 1..(Len(q) + 1)
  BY <1>2, LenProperties
<1>4. \A y : y \in Range(Append(q, x)) <=> y \in Range(q) \/ y = x
  <2>1. \A n \in 1..(Len(q) + 1) : n \in 1..Len(q) \/ n = Len(q) + 1
    BY <1>1
  <2>2. Len(q) + 1 \in 1..(Len(q) + 1) /\ \A n \in 1..Len(q) : n \in 1..(Len(q) + 1)
    BY <1>1
  <2> QED
    BY <1>1, <1>2, <1>3, <2>1, <2>2 DEF Range
<1>5. Append(q, x) # <<>>
  BY <1>1, <1>2, EmptySeq
<1> QED
  BY <1>2, <1>3, <1>4, <1>5

LEMMA ConcatIs ==
  ASSUME NEW S, NEW p \in Seq(S), NEW q \in Seq(S)
  PROVE  /\ p \o q \in Seq(S) /\ DOMAIN (p \o q) = 1..(Len(p) + Len(q))
         /\ \A n \in 1..Len(p) : (p \o q)[n] = p[n]
         /\ \A n \in 1..Len(q) : (p \o q)[Len(p) + n] = q[n]
         /\ Range(p \o q) = Range(p) \cup Range(q)
<1>1. /\ Len(p) \in Nat /\ DOMAIN p = 1..Len(p)
      /\ Len(q) \in Nat /\ DOMAIN q = 1..Len(q)
  BY LenProperties
<1>2. /\ p \o q \in Seq(S) /\ Len(p \o q) = Len(p) + Len(q)
      /\ \A n \in 1..(Len(p) + Len(q)) :
           (p \o q)[n] = IF n <= Len(p) THEN p[n] ELSE q[n - Len(p)]
  BY ConcatProperties
<1>3. DOMAIN (p \o q) = 1..(Len(p) + Len(q))
  BY <1>2, LenProperties
<1>4. \A n \in 1..Len(p) : n \in 1..(Len(p) + Len(q)) /\ (p \o q)[n] = p[n]
  BY <1>1, <1>2
<1>5. \A n \in 1..Len(q) : /\ Len(p) + n \in 1..(Len(p) + Len(q))
                           /\ (p \o q)[Len(p) + n] = q[n]
  <2> TAKE n \in 1..Len(q)
  <2>1. Len(p) + n \in 1..(Len(p) + Len(q)) /\ ~(Len(p) + n <= Len(p)) /\ Len(p) + n - Len(p) = n
    BY <1>1
  <2> QED
    BY <1>2, <2>1
<1>6. \A n \in 1..(Len(p) + Len(q)) :
        n \in 1..Len(p) \/ \E m \in 1..Len(q) : n = Len(p) + m
  <2> TAKE n \in 1..(Len(p) + Len(q))
  <2>1. CASE n <= Len(p)
    BY <1>1, <2>1
  <2>2. CASE ~(n <= Len(p))
    <3>1. n - Len(p) \in 1..Len(q) /\ n = Len(p) + (n - Len(p))
      BY <1>1, <2>2
    <3> QED
      BY <3>1
  <2> QED
    BY <2>1, <2>2
<1>7. \A x : x \in Range(p \o q) <=> x \in Range(p) \/ x \in Range(q)
  <2>1. \A x \in Range(p) : x \in Range(p \o q)
    BY <1>1, <1>3, <1>4 DEF Range
  <2>2. \A x \in Range(q) : x \in Range(p \o q)
    BY <1>1, <1>3, <1>5 DEF Range
  <2>3. ASSUME NEW n \in 1..(Len(p) + Len(q))
        PROVE  (p \o q)[n] \in Range(p) \cup Range(q)
    BY <1>1, <1>4, <1>5, <1>6 DEF Range
  <2>4. \A x \in Range(p \o q) : \E n \in 1..(Len(p) + Len(q)) : x = (p \o q)[n]
    BY <1>3 DEF Range
  <2> QED
    BY <2>1, <2>2, <2>3, <2>4
<1> QED
  BY <1>2, <1>3, <1>4, <1>5, <1>7

LEMMA OneIs ==
  ASSUME NEW S, NEW x \in S
  PROVE  <<x>> \in Seq(S) /\ Range(<<x>>) = {x} /\ DOMAIN <<x>> = {1} /\ <<x>>[1] = x
<1>1. <<x>> \in Seq(S) /\ DOMAIN <<x>> = {1} /\ <<x>>[1] = x
  OBVIOUS
<1> QED
  BY <1>1 DEF Range

\* Dropping the last entry, adding one, and putting two sequences together keep
\* entries about different services.
LEMMA UniqueFront ==
  ASSUME NEW q \in Seq(Entries), q # <<>>, Unique(q)
  PROVE  /\ Unique(Front(q)) /\ Last(q).svc \notin On(Front(q))
         /\ On(q) = On(Front(q)) \cup {Last(q).svc}
<1>1. /\ Len(q) \in Nat /\ Len(q) \in 1..Len(q) /\ DOMAIN q = 1..Len(q)
  BY SeqIs
<1>2. /\ DOMAIN Front(q) = 1..(Len(q) - 1) /\ \A n \in 1..(Len(q) - 1) : Front(q)[n] = q[n]
      /\ Range(q) = Range(Front(q)) \cup {Last(q)}
  BY FrontIs
<1>3. \A n \in 1..(Len(q) - 1) : n \in 1..Len(q) /\ n # Len(q)
  BY <1>1, BeforeLast
<1>4. Unique(Front(q))
  BY <1>1, <1>2, <1>3 DEF Unique
<1>5. \A e \in Range(Front(q)) : e.svc # Last(q).svc
  BY <1>1, <1>2, <1>3 DEF Unique, Range, Last
<1> QED
  BY <1>2, <1>4, <1>5 DEF On

LEMMA UniqueAppend ==
  ASSUME NEW q \in Seq(Entries), NEW e \in Entries, Unique(q), e.svc \notin On(q)
  PROVE  Unique(Append(q, e)) /\ On(Append(q, e)) = On(q) \cup {e.svc}
<1>1. Len(q) \in Nat /\ DOMAIN q = 1..Len(q) /\ \A n \in 1..Len(q) : q[n] \in Range(q)
  BY SeqIs
<1>2. /\ DOMAIN Append(q, e) = 1..(Len(q) + 1) /\ Append(q, e)[Len(q) + 1] = e
      /\ \A n \in 1..Len(q) : Append(q, e)[n] = q[n]
      /\ Range(Append(q, e)) = Range(q) \cup {e}
  BY AppendIs
<1>3. \A n \in 1..(Len(q) + 1) : n \in 1..Len(q) \/ n = Len(q) + 1
  BY <1>1
<1>4. \A n \in 1..Len(q) : q[n].svc # e.svc
  BY <1>1 DEF On
<1>5. Unique(Append(q, e))
  BY <1>1, <1>2, <1>3, <1>4 DEF Unique
<1> QED
  BY <1>2, <1>5 DEF On

LEMMA UniqueConcat ==
  ASSUME NEW p \in Seq(Entries), NEW q \in Seq(Entries), Unique(p), Unique(q),
         On(p) \cap On(q) = {}
  PROVE  Unique(p \o q) /\ On(p \o q) = On(p) \cup On(q)
<1>1. /\ Len(p) \in Nat /\ DOMAIN p = 1..Len(p) /\ \A n \in 1..Len(p) : p[n] \in Range(p)
      /\ Len(q) \in Nat /\ DOMAIN q = 1..Len(q) /\ \A n \in 1..Len(q) : q[n] \in Range(q)
  BY SeqIs
<1>2. /\ DOMAIN (p \o q) = 1..(Len(p) + Len(q))
      /\ \A n \in 1..Len(p) : (p \o q)[n] = p[n]
      /\ \A n \in 1..Len(q) : (p \o q)[Len(p) + n] = q[n]
      /\ Range(p \o q) = Range(p) \cup Range(q)
  BY ConcatIs
<1>3. \A n \in 1..(Len(p) + Len(q)) :
        n \in 1..Len(p) \/ \E m \in 1..Len(q) : n = Len(p) + m
  <2> TAKE n \in 1..(Len(p) + Len(q))
  <2>1. CASE n <= Len(p)
    BY <1>1, <2>1
  <2>2. CASE ~(n <= Len(p))
    <3>1. n - Len(p) \in 1..Len(q) /\ n = Len(p) + (n - Len(p))
      BY <1>1, <2>2
    <3> QED
      BY <3>1
  <2> QED
    BY <2>1, <2>2
<1>4. \A m \in 1..Len(p), n \in 1..Len(q) : p[m].svc # q[n].svc
  BY <1>1 DEF On
<1>5. ASSUME NEW m \in 1..(Len(p) + Len(q)), NEW n \in 1..(Len(p) + Len(q)),
             (p \o q)[m].svc = (p \o q)[n].svc
      PROVE  m = n
  <2>1. CASE m \in 1..Len(p) /\ n \in 1..Len(p)
    BY <1>1, <1>2, <1>5, <2>1 DEF Unique
  <2>2. CASE m \in 1..Len(p) /\ n \notin 1..Len(p)
    BY <1>2, <1>3, <1>4, <1>5, <2>2
  <2>3. CASE m \notin 1..Len(p) /\ n \in 1..Len(p)
    BY <1>2, <1>3, <1>4, <1>5, <2>3
  <2>4. CASE m \notin 1..Len(p) /\ n \notin 1..Len(p)
    <3>1. PICK x \in 1..Len(q) : m = Len(p) + x
      BY <1>3, <2>4
    <3>2. PICK y \in 1..Len(q) : n = Len(p) + y
      BY <1>3, <2>4
    <3>3. q[x].svc = q[y].svc
      BY <1>2, <1>5, <3>1, <3>2
    <3> QED
      BY <1>1, <3>1, <3>2, <3>3 DEF Unique
  <2> QED
    BY <2>1, <2>2, <2>3, <2>4
<1>6. Unique(p \o q)
  BY <1>2, <1>5 DEF Unique
<1> QED
  BY <1>2, <1>6 DEF On

-----------------------------------------------------------------------------
(* What is written *)

Places == {"new", "checking", "reading", "reaping", "reaped", "starting",
           "launched", "stopping", "stopped", "ended", "killed"}

\* What the entries of services ups of run r are.
OwnEntries(r, ups) == {Entry(<<r, k>>, r, FALSE) : k \in Range(ups)}

\* Those services.
Of(r, ups) == {<<r, k>> : k \in Range(ups)}

\* saveStateLocked writes what it is given, each service once.
LEMMA SavedIs ==
  ASSUME NEW r \in Runs, NEW inh \in Seq(Entries), NEW uncl \in Seq(Entries),
         NEW ups \in Seq(Svc)
  PROVE  /\ saved(r, inh, uncl, ups) \in [pid : Runs \union {NoRun}, services : Seq(Entries)]
         /\ saved(r, inh, uncl, ups).pid \in {r, NoRun}
         /\ \A e : e \in Range(saved(r, inh, uncl, ups).services) <=>
                    e \in Range(inh) \/ e \in Range(uncl) \/ e \in OwnEntries(r, ups)
         /\ \A i : i \in On(saved(r, inh, uncl, ups).services) <=>
                    i \in On(inh) \/ i \in On(uncl) \/ i \in Of(r, ups)
         /\ (/\ Unique(inh) /\ Unique(uncl) /\ On(inh) \cap On(uncl) = {}
             /\ \A m, n \in DOMAIN ups : ups[m] = ups[n] => m = n
             /\ \A k \in Range(ups) : <<r, k>> \notin On(inh) \cup On(uncl))
              => Unique(saved(r, inh, uncl, ups).services)
<1> DEFINE own == [n \in DOMAIN ups |-> Entry(<<r, ups[n]>>, r, FALSE)]
           head == inh \o uncl
           all == head \o own
           f == saved(r, inh, uncl, ups)
<1>1. /\ Len(ups) \in Nat /\ DOMAIN ups = 1..Len(ups)
      /\ \A n \in 1..Len(ups) : ups[n] \in Svc
  BY SeqIs
<1>2. \A n \in 1..Len(ups) : own[n] \in Entries /\ own[n].svc = <<r, ups[n]>>
  BY <1>1 DEF Entry, Entries, Instances
<1>3. own \in Seq(Entries)
  <2>1. own \in [1..Len(ups) -> Entries]
    BY <1>1, <1>2
  <2> QED
    BY <1>1, <2>1, SeqDef
<1>4. \A x : x \in Range(own) <=> \E n \in 1..Len(ups) : x = Entry(<<r, ups[n]>>, r, FALSE)
  BY <1>1 DEF Range
<1>5. \A x : x \in OwnEntries(r, ups) <=> \E n \in 1..Len(ups) : x = Entry(<<r, ups[n]>>, r, FALSE)
  BY <1>1 DEF OwnEntries, Range
<1>6. Range(own) = OwnEntries(r, ups)
  BY <1>4, <1>5
<1>7. On(own) = {<<r, k>> : k \in Range(ups)}
  <2>1. \A k : Entry(<<r, k>>, r, FALSE).svc = <<r, k>>
    BY DEF Entry
  <2>2. On(own) = {e.svc : e \in {Entry(<<r, k>>, r, FALSE) : k \in Range(ups)}}
    BY <1>6 DEF On, OwnEntries
  <2>3. \A x : x \in On(own) <=> \E k \in Range(ups) : x = Entry(<<r, k>>, r, FALSE).svc
    BY <2>2
  <2> QED
    BY <2>1, <2>3
<1>8. DOMAIN own = DOMAIN ups
  OBVIOUS
<1> HIDE DEF own
<1>9. head \in Seq(Entries) /\ Range(head) = Range(inh) \cup Range(uncl)
  BY ConcatIs
<1>10. /\ all \in Seq(Entries)
       /\ Range(all) = Range(inh) \cup Range(uncl) \cup OwnEntries(r, ups)
  <2> HIDE DEF head
  <2>1. all \in Seq(Entries) /\ Range(all) = Range(head) \cup Range(own)
    BY <1>3, <1>9, ConcatIs
  <2> QED
    BY <1>6, <1>9, <2>1
<1>11. On(all) = On(inh) \cup On(uncl) \cup {<<r, k>> : k \in Range(ups)}
  BY <1>6, <1>7, <1>10 DEF On
<1>12. f = IF all = <<>> THEN NoFile ELSE [pid |-> r, services |-> all]
  BY DEF saved, own
<1>13. f.services = all /\ f.pid \in {r, NoRun}
  BY <1>12 DEF NoFile
<1>14. f \in [pid : Runs \union {NoRun}, services : Seq(Entries)]
  BY <1>10, <1>12 DEF NoFile
<1>15. ASSUME Unique(inh), Unique(uncl), On(inh) \cap On(uncl) = {},
              \A m, n \in DOMAIN ups : ups[m] = ups[n] => m = n,
              \A k \in Range(ups) : <<r, k>> \notin On(inh) \cup On(uncl)
       PROVE  Unique(all)
  <2>1. Unique(head) /\ On(head) = On(inh) \cup On(uncl)
    BY <1>15, UniqueConcat
  <2>2. Unique(own)
    BY <1>1, <1>2, <1>8, <1>15 DEF Unique
  <2>3. On(head) \cap On(own) = {}
    BY <1>7, <1>15, <2>1
  <2> HIDE DEF head
  <2> QED
    BY <1>3, <1>9, <2>1, <2>2, <2>3, UniqueConcat
<1> HIDE DEF all, f
<1>16. \A e : e \in Range(f.services) <=>
              e \in Range(inh) \/ e \in Range(uncl) \/ e \in OwnEntries(r, ups)
  BY <1>10, <1>13
<1>17. \A i : i \in On(f.services) <=>
              i \in On(inh) \/ i \in On(uncl) \/ i \in Of(r, ups)
  BY <1>11, <1>13 DEF Of
<1>18. ASSUME Unique(inh), Unique(uncl), On(inh) \cap On(uncl) = {},
              \A m, n \in DOMAIN ups : ups[m] = ups[n] => m = n,
              \A k \in Range(ups) : <<r, k>> \notin On(inh) \cup On(uncl)
       PROVE  Unique(f.services)
  BY <1>13, <1>15, <1>18
<1> QED
  BY <1>13, <1>14, <1>16, <1>17, <1>18 DEF f

LEMMA InAll ==
  \A e : e \in AllEntries <=>
    \/ e \in Range(file.services)
    \/ \E r \in Axx : e \in Range(reap[r].todo) \/ e \in Range(reap[r].kept)
    \/ \E r \in Runs : e \in Range(inherited[r]) \/ e \in Range(unclean[r])
<1> DEFINE R == UNION {Range(reap[r].todo) \cup Range(reap[r].kept) : r \in Axx}
           M == UNION {Range(inherited[r]) \cup Range(unclean[r]) : r \in Runs}
<1>1. \A e : e \in R <=>
        \E r \in Axx : e \in Range(reap[r].todo) \/ e \in Range(reap[r].kept)
  OBVIOUS
<1>2. \A e : e \in M <=>
        \E r \in Runs : e \in Range(inherited[r]) \/ e \in Range(unclean[r])
  OBVIOUS
<1>3. AllEntries = Range(file.services) \cup R \cup M
  BY DEF AllEntries
<1> HIDE DEF R, M
<1> QED
  BY <1>1, <1>2, <1>3

LEMMA InAllNext ==
  \A e : e \in AllEntries' <=>
    \/ e \in Range(file'.services)
    \/ \E r \in Axx : e \in Range(reap'[r].todo) \/ e \in Range(reap'[r].kept)
    \/ \E r \in Runs : e \in Range(inherited'[r]) \/ e \in Range(unclean'[r])
<1> DEFINE R == UNION {Range(reap'[r].todo) \cup Range(reap'[r].kept) : r \in Axx}
           M == UNION {Range(inherited'[r]) \cup Range(unclean'[r]) : r \in Runs}
<1>1. \A e : e \in R <=>
        \E r \in Axx : e \in Range(reap'[r].todo) \/ e \in Range(reap'[r].kept)
  OBVIOUS
<1>2. \A e : e \in M <=>
        \E r \in Runs : e \in Range(inherited'[r]) \/ e \in Range(unclean'[r])
  OBVIOUS
<1>3. AllEntries' = Range(file'.services) \cup R \cup M
  BY DEF AllEntries
<1> HIDE DEF R, M
<1> QED
  BY <1>1, <1>2, <1>3

\* The types of what entries and places are about.
LEMMA TypeIs ==
  ASSUME TypeOK
  PROVE  /\ file.services \in Seq(Entries) /\ file.pid \in Runs \union {NoRun}
         /\ \A r \in Axx : reap[r].todo \in Seq(Entries) /\ reap[r].kept \in Seq(Entries)
         /\ \A r \in Runs : /\ inherited[r] \in Seq(Entries) /\ unclean[r] \in Seq(Entries)
                            /\ up[r] \in Seq(Svc) /\ started[r] \in 0..K
         /\ Unique(file.services)
BY DEF TypeOK, Unique

-----------------------------------------------------------------------------
(* FileInv, action by action *)

LEMMA FileInit == Init => FileInv
<1> SUFFICES ASSUME Init PROVE FileInv
  OBVIOUS
<1>1. \A S : <<>> \in Seq(S)
  BY EmptyIs
<1>2. file \in [pid : Runs \union {NoRun}, services : Seq(Entries)] /\ file.services = <<>>
  BY <1>1 DEF Init, NoFile
<1>3. TypeOK
  <2>1. reap \in [Axx -> [todo : Seq(Entries), kept : Seq(Entries), failed : BOOLEAN]]
    BY <1>1 DEF Init, NoReap
  <2>2. started \in [Runs -> 0..K]
    BY StateAssumption DEF Init
  <2> QED
    BY <1>1, <1>2, <2>1, <2>2, EmptyIs DEF Init, TypeOK
<1>4. AllEntries = {}
  <2>1. \A r \in Axx : reap[r].todo = <<>> /\ reap[r].kept = <<>>
    BY DEF Init, NoReap
  <2>2. \A r \in Runs : inherited[r] = <<>> /\ unclean[r] = <<>>
    BY DEF Init
  <2> QED
    BY <1>2, <2>1, <2>2, InAll, EmptyIs
<1>5. EntryInv
  BY <1>4 DEF Init, EntryInv, NoFile
<1>6. LoadInv /\ PlaceInv
  BY DEF Init, LoadInv, PlaceInv, Axx
<1>7. UniqueInv
  <2>1. \A r \in Runs : Own(r) = {}
    BY EmptyIs DEF Init, Own
  <2> QED
    BY <2>1, EmptyIs DEF Init, UniqueInv, NoReap
<1> QED
  BY <1>3, <1>5, <1>6, <1>7 DEF FileInv

\* A step that leaves entries alone and only goes on to places that ask for no
\* more than there is.
LEMMA PlaceKeeps ==
  ASSUME FileInv, pc' \in [Axx -> Places],
         UNCHANGED <<file, started, up, loaded, inherited, unclean, reap, published>>,
         lead' \subseteq alive', alive' \subseteq Instances,
         dirty' \subseteq dirty,
         \A r \in Runs : /\ Fresh(r)' => Fresh(r)
                         /\ pc'[r] \in {"stopping", "stopped"} => loaded[r]
                         /\ pc'[r] = "launched" => pc[r] = "launched"
                         /\ pc'[r] = "stopped" => up[r] # <<>>,
         \A r \in Axx : pc'[r] = "reaped" => reap[r].todo # <<>>
  PROVE  FileInv'
<1>1. TypeOK /\ EntryInv /\ LoadInv /\ PlaceInv /\ UniqueInv
  BY DEF FileInv
<1>2. TypeOK'
  BY <1>1 DEF TypeOK, Places
<1>3. AllEntries' = AllEntries
  BY InAll, InAllNext
<1>4. EntryInv'
  BY <1>1, <1>3 DEF EntryInv
<1>5. LoadInv'
  BY <1>1 DEF LoadInv
<1>6. PlaceInv'
  BY <1>1 DEF PlaceInv
<1>7. UniqueInv'
  <2>1. \A r \in Axx : /\ Unique(reap[r].todo)' /\ Unique(reap[r].kept)'
                       /\ On(reap[r].todo)' \cap On(reap[r].kept)' = {}
    BY <1>1 DEF UniqueInv
  <2>2. ASSUME NEW r \in Runs
        PROVE  /\ Unique(inherited[r])' /\ Unique(unclean[r])'
               /\ \A m, n \in DOMAIN up'[r] : up'[r][m] = up'[r][n] => m = n
               /\ Own(r)' \subseteq published'
               /\ On(unclean[r])' \cap Own(r)' = {}
               /\ \A i \in On(unclean[r])' : i[1] = r
               /\ \A i \in On(inherited[r])' : i[1] # r
    <3>1. Own(r)' = Own(r)
      BY DEF Own
    <3> QED
      BY <1>1, <3>1 DEF UniqueInv
  <2> QED
    BY <2>1, <2>2, Zenon DEF UniqueInv
<1> QED
  BY <1>2, <1>4, <1>5, <1>6, <1>7 DEF FileInv

LEMMA GoesTo ==
  ASSUME TypeOK, NEW r \in Axx, NEW to \in Places, goto(r, to)
  PROVE  /\ pc' \in [Axx -> Places] /\ pc'[r] = to
         /\ \A q \in Axx : q # r => pc'[q] = pc[q]
BY DEF goto, TypeOK, Places

LEMMA BeginKeeps ==
  ASSUME FileInv, NEW r \in Axx, Begin(r)
  PROVE  FileInv'
<1>1. TypeOK /\ LoadInv /\ PlaceInv
  BY DEF FileInv
<1>2. /\ pc[r] = "new" /\ goto(r, IF r \in Runs THEN "checking" ELSE "reading")
      /\ UNCHANGED <<file, started, up, loaded, inherited, unclean, reap, alive, lead, dirty, published>>
  BY DEF Begin, managers, services
<1>3. /\ pc' \in [Axx -> Places] /\ pc'[r] \in {"checking", "reading"}
      /\ \A q \in Axx : q # r => pc'[q] = pc[q]
  BY <1>1, <1>2, GoesTo DEF Places
<1>4. Runs \subseteq Axx
  BY DEF Axx
<1> QED
  BY <1>1, <1>2, <1>3, <1>4, PlaceKeeps DEF LoadInv, PlaceInv, Fresh, TypeOK

LEMMA checkEarlierRunsKeeps ==
  ASSUME FileInv, NEW r \in Runs, checkEarlierRuns(r)
  PROVE  FileInv'
<1>1. TypeOK /\ LoadInv /\ PlaceInv
  BY DEF FileInv
<1>2. /\ pc[r] = "checking" /\ \E to \in {"starting", "ended", "reading"} : goto(r, to)
      /\ UNCHANGED <<file, started, up, loaded, inherited, unclean, reap, alive, lead, dirty, published>>
  BY DEF checkEarlierRuns, managers, services
<1>3. Runs \subseteq Axx
  BY DEF Axx
<1>4. /\ pc' \in [Axx -> Places] /\ pc'[r] \in {"starting", "ended", "reading"}
      /\ \A q \in Axx : q # r => pc'[q] = pc[q]
  BY <1>1, <1>2, <1>3, GoesTo DEF Places
<1> QED
  BY <1>1, <1>2, <1>3, <1>4, PlaceKeeps DEF LoadInv, PlaceInv, Fresh, TypeOK

LEMMA StopKeeps ==
  ASSUME FileInv, NEW r \in Runs, Stop(r)
  PROVE  FileInv'
<1>1. TypeOK /\ LoadInv /\ PlaceInv
  BY DEF FileInv
<1>2. /\ pc[r] = "starting" /\ goto(r, IF up[r] = <<>> THEN "ended" ELSE "stopping")
      /\ UNCHANGED <<file, started, up, loaded, inherited, unclean, reap, alive, lead, dirty, published>>
  BY DEF Stop, managers, services
<1>3. Runs \subseteq Axx
  BY DEF Axx
<1>4. /\ pc' \in [Axx -> Places] /\ pc'[r] \in {"ended", "stopping"}
      /\ pc'[r] = "stopping" => up[r] # <<>>
      /\ \A q \in Axx : q # r => pc'[q] = pc[q]
  BY <1>1, <1>2, <1>3, GoesTo DEF Places
<1> QED
  BY <1>1, <1>2, <1>3, <1>4, PlaceKeeps DEF LoadInv, PlaceInv, Fresh, TypeOK

LEMMA stopServiceKeeps ==
  ASSUME FileInv, NEW r \in Runs, NEW outcome, stopService(r, outcome)
  PROVE  FileInv'
<1>1. TypeOK /\ LoadInv /\ PlaceInv
  BY DEF FileInv
<1>2. /\ pc[r] = "stopping" /\ up[r] # <<>> /\ goto(r, "stopped")
      /\ \/ \E i : alive' = alive \ {i} /\ lead' = lead \ {i}
         \/ UNCHANGED <<alive, lead>>
      /\ UNCHANGED <<file, started, up, loaded, inherited, unclean, reap, dirty, published>>
  BY DEF stopService, managers
<1>3. Runs \subseteq Axx
  BY DEF Axx
<1>4. /\ pc' \in [Axx -> Places] /\ pc'[r] = "stopped"
      /\ \A q \in Axx : q # r => pc'[q] = pc[q]
  BY <1>1, <1>2, <1>3, GoesTo DEF Places
<1>5. lead' \subseteq alive' /\ alive' \subseteq Instances
  BY <1>1, <1>2 DEF TypeOK
<1> QED
  BY <1>1, <1>2, <1>3, <1>4, <1>5, PlaceKeeps DEF LoadInv, PlaceInv, Fresh

LEMMA KillKeeps ==
  ASSUME FileInv, NEW r \in Axx, Kill(r)
  PROVE  FileInv'
<1>1. TypeOK /\ LoadInv /\ PlaceInv
  BY DEF FileInv
<1>2. /\ goto(r, "killed")
      /\ UNCHANGED <<file, started, up, loaded, inherited, unclean, reap, dirty, published>>
  BY DEF Kill, managers
<1>3. lead' \subseteq alive' /\ alive' \subseteq Instances
  BY <1>1 DEF Kill, TypeOK
<1>4. /\ pc' \in [Axx -> Places] /\ pc'[r] = "killed"
      /\ \A q \in Axx : q # r => pc'[q] = pc[q]
  BY <1>1, <1>2, GoesTo DEF Places
<1>5. Runs \subseteq Axx
  BY DEF Axx
<1> QED
  BY <1>1, <1>2, <1>3, <1>4, <1>5, PlaceKeeps DEF LoadInv, PlaceInv, Fresh

LEMMA ExitsKeeps ==
  ASSUME FileInv, NEW i \in Instances, Exits(i)
  PROVE  FileInv'
<1>1. TypeOK /\ LoadInv /\ PlaceInv
  BY DEF FileInv
<1>2. UNCHANGED <<file, pc, started, up, loaded, inherited, unclean, reap, dirty, published>>
  BY DEF Exits, managers
<1>3. lead' \subseteq alive' /\ alive' \subseteq Instances
  BY <1>1 DEF Exits, TypeOK
<1>4. Runs \subseteq Axx /\ pc' \in [Axx -> Places]
  BY <1>1, <1>2 DEF Axx, TypeOK, Places
<1> QED
  BY <1>1, <1>2, <1>3, <1>4, PlaceKeeps DEF LoadInv, PlaceInv, Fresh

\* A step of Reap that goes on with other entries to go and kept.
LEMMA ReapKeeps ==
  ASSUME FileInv, NEW r \in Axx,
         NEW rp \in [todo : Seq(Entries), kept : Seq(Entries), failed : BOOLEAN],
         reap' = [reap EXCEPT ![r] = rp], pc' \in [Axx -> Places],
         UNCHANGED <<file, started, up, loaded, inherited, unclean, published>>,
         lead' \subseteq alive', alive' \subseteq Instances, dirty' \subseteq dirty,
         Unique(rp.todo), Unique(rp.kept), On(rp.todo) \cap On(rp.kept) = {},
         \A e \in Range(rp.todo) \cup Range(rp.kept) :
           e.svc \in published /\ (e.owner # NoRun => loaded[e.owner]),
         pc[r] \in {"reading", "reaping", "reaped"}, pc'[r] \in {"reaping", "reaped"},
         pc'[r] = "reaped" => rp.todo # <<>>,
         \A q \in Axx : q # r => pc'[q] = pc[q]
  PROVE  FileInv'
<1>1. TypeOK /\ EntryInv /\ LoadInv /\ PlaceInv /\ UniqueInv /\ Runs \subseteq Axx
  BY DEF FileInv, Axx
<1>2. /\ reap' \in [Axx -> [todo : Seq(Entries), kept : Seq(Entries), failed : BOOLEAN]]
      /\ reap'[r] = rp /\ \A q \in Axx : q # r => reap'[q] = reap[q]
  BY <1>1 DEF TypeOK
<1>3. TypeOK'
  BY <1>1, <1>2 DEF TypeOK, Places
<1>4. \A e \in AllEntries' : e \in AllEntries \/ e \in Range(rp.todo) \cup Range(rp.kept)
  BY <1>2, InAll, InAllNext
<1>5. EntryInv'
  BY <1>1, <1>4 DEF EntryInv
<1>6. \A q \in Runs : /\ Fresh(q)' => Fresh(q)
                      /\ pc'[q] \in {"launched", "stopping", "stopped"} => pc'[q] = pc[q]
  BY <1>1 DEF Fresh
<1>7. LoadInv'
  BY <1>1, <1>6 DEF LoadInv
<1>8. PlaceInv'
  BY <1>1, <1>2, <1>6 DEF PlaceInv
<1>9. UniqueInv'
  <2>1. \A q \in Runs : Own(q)' = Own(q)
    BY DEF Own
  <2>2. \A q \in Axx : /\ Unique(reap'[q].todo) /\ Unique(reap'[q].kept)
                       /\ On(reap'[q].todo) \cap On(reap'[q].kept) = {}
    BY <1>1, <1>2 DEF UniqueInv
  <2>3. \A q \in Runs :
          /\ Unique(inherited'[q]) /\ Unique(unclean'[q])
          /\ \A m, n \in DOMAIN up'[q] : up'[q][m] = up'[q][n] => m = n
          /\ Own(q)' \subseteq published'
          /\ On(unclean'[q]) \cap Own(q)' = {}
          /\ \A i \in On(unclean'[q]) : i[1] = q
          /\ \A i \in On(inherited'[q]) : i[1] # q
    BY <1>1, <2>1 DEF UniqueInv
  <2> QED
    BY <2>2, <2>3 DEF UniqueInv
<1> QED
  BY <1>3, <1>5, <1>7, <1>8, <1>9 DEF FileInv

LEMMA ReapReadsKeeps ==
  ASSUME FileInv, NEW r \in Axx, ReapReads(r)
  PROVE  FileInv'
<1>1. TypeOK /\ EntryInv /\ LoadInv /\ PlaceInv /\ Runs \subseteq Axx
  BY DEF FileInv, Axx
<1>2. /\ pc[r] = "reading"
      /\ UNCHANGED <<file, started, up, loaded, inherited, unclean, alive, lead, dirty, published>>
  BY DEF ReapReads, managers, services
<1>3. CASE file.services = <<>>
  <2>1. UNCHANGED reap /\ \E to \in {"starting", "ended"} : goto(r, to)
    BY <1>3 DEF ReapReads, reapOver
  <2>2. /\ pc' \in [Axx -> Places] /\ pc'[r] \in {"starting", "ended"}
        /\ \A q \in Axx : q # r => pc'[q] = pc[q]
    BY <1>1, <2>1, GoesTo DEF Places
  <2> QED
    BY <1>1, <1>2, <2>1, <2>2, PlaceKeeps DEF LoadInv, PlaceInv, Fresh, TypeOK
<1>4. CASE file.services # <<>>
  <2> DEFINE rp == [todo |-> file.services, kept |-> <<>>, failed |-> FALSE]
  <2>1. goto(r, "reaping") /\ reap' = [reap EXCEPT ![r] = rp]
    BY <1>4 DEF ReapReads, NoReap
  <2>2. /\ pc' \in [Axx -> Places] /\ pc'[r] = "reaping"
        /\ \A q \in Axx : q # r => pc'[q] = pc[q]
    BY <1>1, <2>1, GoesTo DEF Places
  <2>3. rp \in [todo : Seq(Entries), kept : Seq(Entries), failed : BOOLEAN]
    BY <1>1, TypeIs, EmptyIs
  <2>4. /\ Unique(rp.todo) /\ Unique(rp.kept) /\ On(rp.todo) \cap On(rp.kept) = {}
        /\ Range(rp.todo) \cup Range(rp.kept) = Range(file.services)
    BY <1>1, TypeIs, EmptyIs
  <2>5. \A e \in Range(file.services) :
          e.svc \in published /\ (e.owner # NoRun => loaded[e.owner])
    BY <1>1, InAll DEF EntryInv
  <2>6. lead' \subseteq alive' /\ alive' \subseteq Instances /\ dirty' \subseteq dirty
    BY <1>1, <1>2 DEF TypeOK
  <2> HIDE DEF rp
  <2> QED
    BY <1>2, <2>1, <2>2, <2>3, <2>4, <2>5, <2>6, ReapKeeps
<1> QED
  BY <1>3, <1>4

\* The entries when the last one to go is dropped or kept.
LEMMA EntryOver ==
  ASSUME FileInv, NEW r \in Axx, reap[r].todo # <<>>,
         NEW keep \in Seq(Entries), Unique(keep), On(keep) \subseteq {Last(reap[r].todo).svc},
         NEW failed \in BOOLEAN
  PROVE  /\ Front(reap[r].todo) \in Seq(Entries) /\ keep \o reap[r].kept \in Seq(Entries)
         /\ Range(keep \o reap[r].kept) = Range(keep) \cup Range(reap[r].kept)
         /\ On(keep \o reap[r].kept) = On(keep) \cup On(reap[r].kept)
         /\ Range(Front(reap[r].todo)) \subseteq Range(reap[r].todo)
         /\ On(reap[r].todo) = On(Front(reap[r].todo)) \cup {Last(reap[r].todo).svc}
         /\ Last(reap[r].todo) \in Range(reap[r].todo)
         /\ Last(reap[r].todo).svc \notin On(Front(reap[r].todo)) \cup On(reap[r].kept)
         /\ Unique(Front(reap[r].todo)) /\ Unique(keep \o reap[r].kept)
         /\ On(Front(reap[r].todo)) \cap On(keep \o reap[r].kept) = {}
<1>1. TypeOK /\ UniqueInv
  BY DEF FileInv
<1>2. /\ reap[r].todo \in Seq(Entries) /\ reap[r].kept \in Seq(Entries)
      /\ Unique(reap[r].todo) /\ Unique(reap[r].kept)
      /\ On(reap[r].todo) \cap On(reap[r].kept) = {}
  BY <1>1, TypeIs DEF UniqueInv
<1>3. /\ Front(reap[r].todo) \in Seq(Entries)
      /\ Last(reap[r].todo) \in Range(reap[r].todo)
      /\ Range(reap[r].todo) = Range(Front(reap[r].todo)) \cup {Last(reap[r].todo)}
  BY <1>2, FrontIs
<1>4. /\ Unique(Front(reap[r].todo)) /\ Last(reap[r].todo).svc \notin On(Front(reap[r].todo))
      /\ On(reap[r].todo) = On(Front(reap[r].todo)) \cup {Last(reap[r].todo).svc}
  BY <1>2, UniqueFront
<1>5. On(keep) \cap On(reap[r].kept) = {}
  BY <1>2, <1>4
<1>6. /\ keep \o reap[r].kept \in Seq(Entries)
      /\ Range(keep \o reap[r].kept) = Range(keep) \cup Range(reap[r].kept)
      /\ Unique(keep \o reap[r].kept)
      /\ On(keep \o reap[r].kept) = On(keep) \cup On(reap[r].kept)
  BY <1>2, <1>5, ConcatIs, UniqueConcat
<1> QED
  BY <1>2, <1>3, <1>4, <1>6

LEMMA EntryOverKeeps ==
  ASSUME FileInv, NEW r \in Axx, reap[r].todo # <<>>, pc[r] \in {"reaping", "reaped"},
         NEW keep \in Seq(Entries), Unique(keep), On(keep) \subseteq {Last(reap[r].todo).svc},
         \A e \in Range(keep) : e.owner = NoRun,
         NEW failed \in BOOLEAN, entryOver(r, keep, failed),
         pc' \in [Axx -> Places], pc'[r] = "reaping",
         \A q \in Axx : q # r => pc'[q] = pc[q],
         UNCHANGED <<file, started, up, loaded, inherited, unclean, published>>,
         lead' \subseteq alive', alive' \subseteq Instances, dirty' \subseteq dirty
  PROVE  FileInv'
<1> DEFINE rp == [todo |-> Front(reap[r].todo), kept |-> keep \o reap[r].kept,
                  failed |-> reap[r].failed \/ failed]
<1>1. TypeOK /\ EntryInv
  BY DEF FileInv
<1>2. reap' = [reap EXCEPT ![r] = rp]
  BY <1>1 DEF entryOver, TypeOK
<1>3. /\ rp.todo \in Seq(Entries) /\ rp.kept \in Seq(Entries)
      /\ Range(rp.kept) = Range(keep) \cup Range(reap[r].kept)
      /\ Range(rp.todo) \subseteq Range(reap[r].todo)
      /\ Last(reap[r].todo) \in Range(reap[r].todo)
      /\ Unique(rp.todo) /\ Unique(rp.kept) /\ On(rp.todo) \cap On(rp.kept) = {}
  BY EntryOver
<1>4. rp \in [todo : Seq(Entries), kept : Seq(Entries), failed : BOOLEAN]
  BY <1>1, <1>3 DEF TypeOK
<1>5. \A e \in Range(reap[r].todo) \cup Range(reap[r].kept) :
        e.svc \in published /\ (e.owner # NoRun => loaded[e.owner])
  BY <1>1, InAll DEF EntryInv
<1>6. \A e \in Range(keep) : e.svc \in published /\ e.owner = NoRun
  BY <1>3, <1>5 DEF On
<1>7. \A e \in Range(rp.todo) \cup Range(rp.kept) :
        e.svc \in published /\ (e.owner # NoRun => loaded[e.owner])
  BY <1>3, <1>5, <1>6
<1> HIDE DEF rp
<1> QED
  BY <1>2, <1>3, <1>4, <1>7, ReapKeeps

LEMMA ReapStopsKeeps ==
  ASSUME FileInv, NEW r \in Axx, NEW outcome, ReapStops(r, outcome)
  PROVE  FileInv'
<1> DEFINE e == Last(reap[r].todo)
<1>1. TypeOK /\ LoadInv /\ PlaceInv /\ Runs \subseteq Axx
  BY DEF FileInv, Axx
<1>2. /\ pc[r] = "reaping" /\ reap[r].todo # <<>>
      /\ UNCHANGED <<file, started, up, loaded, inherited, unclean, dirty, published>>
      /\ \/ alive' = alive \ {e.svc} /\ lead' = lead \ {e.svc}
         \/ UNCHANGED <<alive, lead>>
      /\ \/ entryOver(r, <<[e EXCEPT !.owner = NoRun]>>, TRUE) /\ UNCHANGED pc
         \/ goto(r, "reaped") /\ UNCHANGED reap
         \/ entryOver(r, <<>>, FALSE) /\ UNCHANGED pc
  BY DEF ReapStops, managers
<1>3. lead' \subseteq alive' /\ alive' \subseteq Instances /\ dirty' \subseteq dirty
  BY <1>1, <1>2 DEF TypeOK
<1>4. e \in Entries
  BY <1>1, <1>2, TypeIs, FrontIs
<1>5. CASE entryOver(r, <<[e EXCEPT !.owner = NoRun]>>, TRUE) /\ UNCHANGED pc
  <2> DEFINE x == [e EXCEPT !.owner = NoRun]
  <2>1. x \in Entries /\ x.svc = e.svc /\ x.owner = NoRun
    BY <1>4 DEF Entries
  <2> HIDE DEF x
  <2>2. /\ <<x>> \in Seq(Entries) /\ Unique(<<x>>) /\ On(<<x>>) = {e.svc}
        /\ \A y \in Range(<<x>>) : y.owner = NoRun
    BY <2>1, OneIs DEF Unique, On
  <2>3. entryOver(r, <<x>>, TRUE) /\ pc' = pc /\ pc \in [Axx -> Places]
    BY <1>1, <1>5 DEF x, TypeOK, Places
  <2> QED
    BY <1>2, <1>3, <2>2, <2>3, EntryOverKeeps
<1>6. CASE entryOver(r, <<>>, FALSE) /\ UNCHANGED pc
  <2>1. pc' = pc /\ pc \in [Axx -> Places]
    BY <1>1, <1>6 DEF TypeOK, Places
  <2> QED
    BY <1>2, <1>3, <1>6, <2>1, EmptyIs, EntryOverKeeps
<1>7. CASE goto(r, "reaped") /\ UNCHANGED reap
  <2>1. /\ pc' \in [Axx -> Places] /\ pc'[r] = "reaped"
        /\ \A q \in Axx : q # r => pc'[q] = pc[q]
    BY <1>1, <1>7, GoesTo DEF Places
  <2> QED
    BY <1>1, <1>2, <1>3, <1>7, <2>1, PlaceKeeps DEF LoadInv, PlaceInv, Fresh
<1> QED
  BY <1>2, <1>5, <1>6, <1>7

LEMMA ReapCleansKeeps ==
  ASSUME FileInv, NEW r \in Axx, NEW ok \in BOOLEAN, ReapCleans(r, ok)
  PROVE  FileInv'
<1> DEFINE i == Last(reap[r].todo).svc
           keep == IF ok THEN <<>> ELSE <<uncleaned(i)>>
<1>1. TypeOK /\ PlaceInv
  BY DEF FileInv
<1>2. /\ pc[r] = "reaped" /\ goto(r, "reaping") /\ entryOver(r, keep, ~ok)
      /\ UNCHANGED <<file, started, up, loaded, inherited, unclean, alive, lead, published>>
      /\ dirty' \subseteq dirty
  BY DEF ReapCleans, managers
<1>3. lead' \subseteq alive' /\ alive' \subseteq Instances
  BY <1>1, <1>2 DEF TypeOK
<1>4. reap[r].todo # <<>>
  BY <1>1, <1>2 DEF PlaceInv
<1>5. i \in Instances
  <2>1. Last(reap[r].todo) \in Entries
    BY <1>1, <1>4, TypeIs, FrontIs
  <2> QED
    BY <2>1 DEF Entries
<1>6. /\ keep \in Seq(Entries) /\ Unique(keep) /\ On(keep) \subseteq {i}
      /\ \A e \in Range(keep) : e.owner = NoRun
  <2> DEFINE x == uncleaned(i)
  <2>1. x \in Entries /\ x.svc = i /\ x.owner = NoRun
    BY <1>5 DEF uncleaned, Entry, Entries
  <2> HIDE DEF x
  <2>2. /\ <<x>> \in Seq(Entries) /\ Unique(<<x>>) /\ On(<<x>>) = {i}
        /\ \A y \in Range(<<x>>) : y.owner = NoRun
    BY <2>1, OneIs DEF Unique, On
  <2>3. keep = <<>> \/ keep = <<x>>
    BY DEF x
  <2> HIDE DEF keep
  <2> QED
    BY <2>2, <2>3, EmptyIs
<1>7. /\ pc' \in [Axx -> Places] /\ pc'[r] = "reaping"
      /\ \A q \in Axx : q # r => pc'[q] = pc[q]
  BY <1>1, <1>2, GoesTo DEF Places
<1> HIDE DEF keep
<1> QED
  BY <1>2, <1>3, <1>4, <1>6, <1>7, EntryOverKeeps

LEMMA ReapWritesKeeps ==
  ASSUME FileInv, NEW r \in Axx, ReapWrites(r)
  PROVE  FileInv'
<1>1. TypeOK /\ EntryInv /\ LoadInv /\ PlaceInv /\ UniqueInv /\ Runs \subseteq Axx
  BY DEF FileInv, Axx
<1>2. /\ pc[r] = "reaping" /\ file' = [pid |-> NoRun, services |-> reap[r].kept]
      /\ \E to \in {"starting", "ended"} : goto(r, to)
      /\ UNCHANGED <<started, up, loaded, inherited, unclean, reap, alive, lead, dirty, published>>
  BY DEF ReapWrites, reapOver, managers, services
<1>3. /\ pc' \in [Axx -> Places] /\ pc'[r] \in {"starting", "ended"}
      /\ \A q \in Axx : q # r => pc'[q] = pc[q]
  BY <1>1, <1>2, GoesTo DEF Places
<1>4. /\ reap[r].kept \in Seq(Entries) /\ Unique(reap[r].kept)
  BY <1>1, TypeIs DEF UniqueInv
<1>5. TypeOK'
  BY <1>1, <1>2, <1>3, <1>4 DEF TypeOK, Places, Unique
<1>6. \A e \in AllEntries' : e \in AllEntries
  BY <1>2, InAll, InAllNext
<1>7. EntryInv'
  BY <1>1, <1>2, <1>6 DEF EntryInv
<1>8. LoadInv'
  BY <1>1, <1>2, <1>3 DEF LoadInv, Fresh
<1>9. PlaceInv'
  BY <1>1, <1>2, <1>3 DEF PlaceInv
<1>10. UniqueInv'
  <2>1. \A q \in Runs : Own(q)' = Own(q)
    BY <1>2 DEF Own
  <2> QED
    BY <1>1, <1>2, <2>1 DEF UniqueInv
<1> QED
  BY <1>5, <1>7, <1>8, <1>9, <1>10 DEF FileInv

\* A step of r that writes the file with services ups up and entries uncl of
\* failed cleanups.
LEMMA SaveKeeps ==
  ASSUME FileInv, NEW r \in Runs, NEW ups \in Seq(Svc), NEW uncl \in Seq(Entries),
         loaded[r], up' = [up EXCEPT ![r] = ups], unclean' = [unclean EXCEPT ![r] = uncl],
         file' = saved(r, inherited[r], uncl, ups),
         UNCHANGED <<started, loaded, inherited, reap, alive, lead>>,
         dirty' \subseteq dirty, published \subseteq published', published' \subseteq Instances,
         \A i \in published' \ published : i = <<r, started[r]>>,
         \A m, n \in DOMAIN ups : ups[m] = ups[n] => m = n,
         \A k \in Range(ups) : <<r, k>> \in published' /\ <<r, k>> \notin On(uncl),
         Unique(uncl),
         \A e \in Range(uncl) : /\ e.svc[1] = r /\ e.svc \in published
                                /\ e.owner # NoRun => loaded[e.owner],
         pc' \in [Axx -> Places], ~Fresh(r), pc'[r] \in {"starting", "stopping", "ended"},
         \A q \in Axx : q # r => pc'[q] = pc[q]
  PROVE  FileInv'
<1>1. TypeOK /\ EntryInv /\ LoadInv /\ PlaceInv /\ UniqueInv /\ Runs \subseteq Axx
  BY DEF FileInv, Axx
<1>2. /\ inherited[r] \in Seq(Entries) /\ Unique(inherited[r])
      /\ \A i \in On(inherited[r]) : i[1] # r
  BY <1>1, TypeIs DEF UniqueInv
<1>3. \A i \in On(uncl) : i[1] = r
  BY DEF On
<1>4. \A k : <<r, k>>[1] = r
  OBVIOUS
<1>5. On(inherited[r]) \cap On(uncl) = {} /\ \A k \in Range(ups) : <<r, k>> \notin On(inherited[r])
  BY <1>2, <1>3, <1>4
<1>6. /\ file' \in [pid : Runs \union {NoRun}, services : Seq(Entries)]
      /\ file'.pid \in {r, NoRun}
      /\ Range(file'.services) = Range(inherited[r]) \cup Range(uncl) \cup OwnEntries(r, ups)
      /\ Unique(file'.services)
  <2>1. \A k \in Range(ups) : <<r, k>> \notin On(inherited[r]) \cup On(uncl)
    BY <1>5
  <2> DEFINE f == saved(r, inherited[r], uncl, ups)
  <2>2. /\ f \in [pid : Runs \union {NoRun}, services : Seq(Entries)]
        /\ f.pid \in {r, NoRun}
        /\ Range(f.services) = Range(inherited[r]) \cup Range(uncl) \cup OwnEntries(r, ups)
    <3>1. PICK inh \in Seq(Entries) : inh = inherited[r]
      BY <1>2
    <3>2. f = saved(r, inh, uncl, ups)
      BY <3>1
    <3> HIDE DEF f
    <3>3. f \in [pid : Runs \union {NoRun}, services : Seq(Entries)]
      BY <3>2, SavedIs
    <3>4. f.pid \in {r, NoRun}
      BY <3>2, SavedIs
    <3>5. \A e : e \in Range(f.services) <=>
                  e \in Range(inh) \/ e \in Range(uncl) \/ e \in OwnEntries(r, ups)
      BY <3>2, SavedIs
    <3> QED
      BY <3>1, <3>2, <3>3, <3>4, <3>5
  <2>3. Unique(f.services)
    BY <1>2, <1>5, <2>1, SavedIs
  <2>4. file' = f
    OBVIOUS
  <2> HIDE DEF f
  <2> QED
    BY <2>2, <2>3, <2>4
<1>7. /\ up' \in [Runs -> Seq(Svc)] /\ up'[r] = ups /\ \A q \in Runs : q # r => up'[q] = up[q]
      /\ unclean' \in [Runs -> Seq(Entries)] /\ unclean'[r] = uncl
      /\ \A q \in Runs : q # r => unclean'[q] = unclean[q]
  BY <1>1 DEF TypeOK
<1>8. TypeOK'
  BY <1>1, <1>6, <1>7 DEF TypeOK, Places, Unique
<1>9. EntryInv'
  <2>1. \A e \in AllEntries' : e \in AllEntries \cup Range(uncl) \cup OwnEntries(r, ups)
    BY <1>6, <1>7, InAll, InAllNext
  <2>2. \A e \in OwnEntries(r, ups) : e.svc \in published' /\ e.owner = r
    BY DEF OwnEntries, Entry
  <2> QED
    BY <1>1, <1>6, <2>1, <2>2 DEF EntryInv
<1>10. LoadInv'
  <2>1. \A q \in Runs : Fresh(q)' => Fresh(q) /\ q # r
    BY <1>1 DEF Fresh
  <2>2. \A i \in published' : i \in published \/ i[1] = r
    BY <1>4
  <2>3. \A q \in Runs : pc'[q] \in {"stopping", "stopped"} => loaded'[q]
    BY <1>1 DEF LoadInv
  <2>4. \A q \in Runs : ~loaded'[q] =>
          /\ up'[q] = <<>> /\ inherited'[q] = <<>> /\ unclean'[q] = <<>>
          /\ \A i \in published' : i[1] # q
    BY <1>1, <1>7, <2>2 DEF LoadInv
  <2>5. \A q \in Runs : Fresh(q)' => ~loaded'[q]
    BY <1>1, <2>1 DEF LoadInv
  <2> QED
    BY <2>3, <2>4, <2>5 DEF LoadInv
<1>11. PlaceInv'
  <2>1. \A i \in published' : i[2] <= started[i[1]]
    <3>1. started[r] <= started[r] /\ <<r, started[r]>>[1] = r /\ <<r, started[r]>>[2] = started[r]
      BY <1>1, TypeIs
    <3> QED
      BY <1>1, <3>1 DEF PlaceInv
  <2>2. ASSUME NEW q \in Runs, pc'[q] = "launched"
        PROVE  started[q] \in Svc /\ <<q, started[q]>> \notin published'
    <3>1. q # r /\ pc[q] = "launched"
      BY <1>1, <2>2
    <3>2. <<q, started[q]>> # <<r, started[r]>>
      BY <3>1
    <3> QED
      BY <1>1, <3>1, <3>2 DEF PlaceInv
  <2>3. \A q \in Runs : pc'[q] = "stopped" => up'[q] # <<>>
    BY <1>1, <1>7 DEF PlaceInv
  <2>4. \A q \in Axx : pc'[q] = "reaped" => reap'[q].todo # <<>>
    BY <1>1 DEF PlaceInv
  <2>5. \A i \in dirty' : i[2] \in HasCleanup
    BY <1>1 DEF PlaceInv
  <2> QED
    BY <2>1, <2>2, <2>3, <2>4, <2>5 DEF PlaceInv
<1>12. UniqueInv'
  <2>1. \A q \in Runs : q # r => Own(q)' = Own(q)
    BY <1>7 DEF Own
  <2>2. Own(r)' = {<<r, k>> : k \in Range(ups)}
    BY <1>7 DEF Own
  <2>3. /\ Own(r)' \subseteq published' /\ On(uncl) \cap Own(r)' = {}
    BY <2>2
  <2>4. ASSUME NEW q \in Runs
        PROVE  /\ Unique(inherited'[q]) /\ Unique(unclean'[q])
               /\ \A m, n \in DOMAIN up'[q] : up'[q][m] = up'[q][n] => m = n
               /\ Own(q)' \subseteq published'
               /\ On(unclean'[q]) \cap Own(q)' = {}
               /\ \A i \in On(unclean'[q]) : i[1] = q
               /\ \A i \in On(inherited'[q]) : i[1] # q
    <3>1. CASE q = r
      BY <1>2, <1>3, <1>7, <2>3, <3>1
    <3>2. CASE q # r
      BY <1>1, <1>7, <2>1, <3>2 DEF UniqueInv
    <3> QED
      BY <3>1, <3>2
  <2>5. \A q \in Axx : /\ Unique(reap'[q].todo) /\ Unique(reap'[q].kept)
                       /\ On(reap'[q].todo) \cap On(reap'[q].kept) = {}
    BY <1>1 DEF UniqueInv
  <2> QED
    BY <2>4, <2>5 DEF UniqueInv
<1> QED
  BY <1>8, <1>9, <1>10, <1>11, <1>12 DEF FileInv

\* What r has up, when one more is or one is stopped.
LEMMA UpIs ==
  ASSUME FileInv, NEW r \in Runs
  PROVE  /\ up[r] \in Seq(Svc) /\ unclean[r] \in Seq(Entries) /\ Unique(unclean[r])
         /\ \A m, n \in DOMAIN up[r] : up[r][m] = up[r][n] => m = n
         /\ \A k \in Range(up[r]) : <<r, k>> \in published /\ <<r, k>> \notin On(unclean[r])
         /\ \A e \in Range(unclean[r]) : /\ e.svc[1] = r /\ e.svc \in published
                                         /\ e.owner # NoRun => loaded[e.owner]
<1>1. TypeOK /\ EntryInv /\ UniqueInv
  BY DEF FileInv
<1>2. /\ \A k \in Range(up[r]) : <<r, k>> \in Own(r)
      /\ \A e \in Range(unclean[r]) : e.svc \in On(unclean[r]) /\ e \in AllEntries
  BY InAll DEF Own, On
<1> QED
  BY <1>1, <1>2, TypeIs DEF UniqueInv, EntryInv

LEMMA publishKeeps ==
  ASSUME FileInv, NEW r \in Runs, publish(r)
  PROVE  FileInv'
<1> DEFINE k == started[r]
<1>1. TypeOK /\ PlaceInv /\ UniqueInv /\ Runs \subseteq Axx
  BY DEF FileInv, Axx
<1>2. /\ pc[r] = "launched" /\ loaded[r] /\ goto(r, "starting")
      /\ up' = [up EXCEPT ![r] = Append(up[r], k)]
      /\ published' = published \union {<<r, k>>}
      /\ file' = saved(r, inherited[r], unclean[r], up'[r])
      /\ UNCHANGED <<started, loaded, inherited, unclean, reap, alive, lead, dirty>>
  BY <1>1 DEF publish, services, TypeOK
<1>3. k \in Svc /\ <<r, k>> \notin published
  BY <1>1, <1>2 DEF PlaceInv
<1>4. /\ up[r] \in Seq(Svc) /\ unclean[r] \in Seq(Entries) /\ Unique(unclean[r])
      /\ \A m, n \in DOMAIN up[r] : up[r][m] = up[r][n] => m = n
      /\ \A l \in Range(up[r]) : <<r, l>> \in published /\ <<r, l>> \notin On(unclean[r])
      /\ \A e \in Range(unclean[r]) : /\ e.svc[1] = r /\ e.svc \in published
                                      /\ e.owner # NoRun => loaded[e.owner]
  BY UpIs
<1> DEFINE ups == Append(up[r], k)
<1>5. /\ ups \in Seq(Svc) /\ DOMAIN ups = 1..(Len(up[r]) + 1) /\ ups[Len(up[r]) + 1] = k
      /\ \A n \in 1..Len(up[r]) : ups[n] = up[r][n]
      /\ Range(ups) = Range(up[r]) \cup {k}
  BY <1>3, <1>4, AppendIs
<1>6. /\ Len(up[r]) \in Nat /\ DOMAIN up[r] = 1..Len(up[r])
      /\ \A n \in 1..Len(up[r]) : up[r][n] \in Range(up[r])
  BY <1>4, SeqIs
<1>7. k \notin Range(up[r]) /\ <<r, k>> \notin On(unclean[r])
  BY <1>3, <1>4 DEF On
<1>8. up'[r] = ups
  BY <1>1, <1>2 DEF TypeOK
<1> HIDE DEF ups
<1>9. \A m, n \in DOMAIN ups : ups[m] = ups[n] => m = n
  <2>1. \A n \in 1..(Len(up[r]) + 1) : n \in 1..Len(up[r]) \/ n = Len(up[r]) + 1
    BY <1>6
  <2> QED
    BY <1>4, <1>5, <1>6, <1>7, <2>1
<1>10. \A l \in Range(ups) : <<r, l>> \in published' /\ <<r, l>> \notin On(unclean[r])
  BY <1>2, <1>4, <1>5, <1>7
<1>11. /\ pc' \in [Axx -> Places] /\ pc'[r] = "starting"
       /\ \A q \in Axx : q # r => pc'[q] = pc[q]
  BY <1>1, <1>2, GoesTo DEF Places
<1>12. /\ published \subseteq published' /\ published' \subseteq Instances
       /\ \A i \in published' \ published : i = <<r, started[r]>>
  BY <1>1, <1>2, <1>3 DEF TypeOK, Instances
<1>13. up' = [up EXCEPT ![r] = ups] /\ unclean' = [unclean EXCEPT ![r] = unclean[r]]
  BY <1>1, <1>2 DEF ups, TypeOK
<1>14. ~Fresh(r) /\ file' = saved(r, inherited[r], unclean[r], ups) /\ dirty' \subseteq dirty
  BY <1>2, <1>8 DEF Fresh
<1> HIDE DEF k
<1> QED
  BY <1>2, <1>4, <1>5, <1>9, <1>10, <1>11, <1>12, <1>13, <1>14, SaveKeeps

LEMMA stopCleanupKeeps ==
  ASSUME FileInv, NEW r \in Runs, NEW ok \in BOOLEAN, stopCleanup(r, ok)
  PROVE  FileInv'
<1> DEFINE k == Last(up[r])
           i == <<r, k>>
           ups == Front(up[r])
           uncl == IF ok THEN unclean[r] ELSE Append(unclean[r], uncleaned(i))
<1>1. TypeOK /\ LoadInv /\ PlaceInv /\ Runs \subseteq Axx
  BY DEF FileInv, Axx
<1>2. /\ pc[r] = "stopped" /\ goto(r, "stopping") /\ dirty' \subseteq dirty
      /\ up' = [up EXCEPT ![r] = ups]
      /\ unclean' = [unclean EXCEPT ![r] = uncl]
      /\ file' = saved(r, inherited[r], unclean'[r], up'[r])
      /\ UNCHANGED <<started, loaded, inherited, reap, alive, lead, published>>
  BY <1>1 DEF stopCleanup, TypeOK
<1>3. up[r] # <<>> /\ loaded[r]
  BY <1>1, <1>2 DEF PlaceInv, LoadInv
<1>4. /\ up[r] \in Seq(Svc) /\ unclean[r] \in Seq(Entries) /\ Unique(unclean[r])
      /\ \A m, n \in DOMAIN up[r] : up[r][m] = up[r][n] => m = n
      /\ \A l \in Range(up[r]) : <<r, l>> \in published /\ <<r, l>> \notin On(unclean[r])
      /\ \A e \in Range(unclean[r]) : /\ e.svc[1] = r /\ e.svc \in published
                                      /\ e.owner # NoRun => loaded[e.owner]
  BY UpIs
<1> HIDE DEF k, i, ups, uncl
<1>5. /\ ups \in Seq(Svc) /\ k \in Svc /\ k \in Range(up[r])
      /\ DOMAIN ups = 1..(Len(up[r]) - 1)
      /\ \A n \in 1..(Len(up[r]) - 1) : ups[n] = up[r][n]
      /\ Range(up[r]) = Range(ups) \cup {k}
  <2>1. PICK q \in Seq(Svc) : q = up[r] /\ q # <<>>
    BY <1>3, <1>4
  <2>2. ups = Front(q) /\ k = Last(q)
    BY <2>1 DEF ups, k
  <2>3. /\ Front(q) \in Seq(Svc) /\ Last(q) \in Svc /\ Last(q) \in Range(q)
        /\ DOMAIN Front(q) = 1..(Len(q) - 1)
        /\ \A n \in 1..(Len(q) - 1) : Front(q)[n] = q[n]
        /\ Range(q) = Range(Front(q)) \cup {Last(q)}
    BY <2>1, FrontIs
  <2> QED
    BY <2>1, <2>2, <2>3
<1>6. Len(up[r]) \in Nat /\ DOMAIN up[r] = 1..Len(up[r]) /\ Len(up[r]) \in 1..Len(up[r])
  BY <1>3, <1>4, SeqIs
<1>7. \A n \in 1..(Len(up[r]) - 1) : n \in 1..Len(up[r]) /\ n # Len(up[r])
  BY <1>6, BeforeLast
<1>8. /\ \A m, n \in DOMAIN ups : ups[m] = ups[n] => m = n
      /\ k \notin Range(ups)
  <2>1. \A m, n \in DOMAIN ups : ups[m] = ups[n] => m = n
    BY <1>4, <1>5, <1>6, <1>7
  <2>2. k = up[r][Len(up[r])]
    BY DEF k, Last
  <2>3. \A n \in DOMAIN ups : ups[n] # k
    <3> TAKE n \in DOMAIN ups
    <3>1. n \in DOMAIN up[r] /\ n # Len(up[r]) /\ ups[n] = up[r][n] /\ Len(up[r]) \in DOMAIN up[r]
      BY <1>5, <1>6, <1>7
    <3> QED
      BY <1>4, <2>2, <3>1
  <2> QED
    BY <2>1, <2>3 DEF Range
<1>9. /\ uncl \in Seq(Entries) /\ Unique(uncl)
      /\ \A e \in Range(uncl) : /\ e.svc[1] = r /\ e.svc \in published
                                /\ e.owner # NoRun => loaded[e.owner]
      /\ On(uncl) \subseteq On(unclean[r]) \cup {i}
  <2> DEFINE x == uncleaned(i)
  <2>1. x \in Entries /\ x.svc = i /\ x.owner = NoRun /\ i[1] = r
    BY <1>5 DEF uncleaned, Entry, Entries, Instances, i, x
  <2>2. i \in published /\ i \notin On(unclean[r])
    BY <1>4, <1>5 DEF i
  <2> HIDE DEF x
  <2>3. CASE ok
    BY <1>4, <2>3 DEF uncl
  <2>4. CASE ~ok
    <3>1. uncl = Append(unclean[r], x)
      BY <2>4 DEF x, uncl
    <3>2. uncl \in Seq(Entries) /\ Range(uncl) = Range(unclean[r]) \cup {x}
      BY <1>4, <2>1, <3>1, AppendIs
    <3>3. Unique(uncl) /\ On(uncl) = On(unclean[r]) \cup {i}
      BY <1>4, <2>1, <2>2, <3>1, UniqueAppend
    <3> QED
      BY <1>4, <2>1, <2>2, <3>2, <3>3
  <2> QED
    BY <2>3, <2>4
<1>10. up'[r] = ups /\ unclean'[r] = uncl
  BY <1>1, <1>2 DEF TypeOK
<1>11. \A l \in Range(ups) : <<r, l>> \in published' /\ <<r, l>> \notin On(uncl)
  <2>1. \A l \in Range(ups) : <<r, l>> # i
    BY <1>8 DEF i
  <2> QED
    BY <1>2, <1>4, <1>5, <1>9, <2>1
<1>12. /\ pc' \in [Axx -> Places] /\ pc'[r] = "stopping"
       /\ \A q \in Axx : q # r => pc'[q] = pc[q]
  BY <1>1, <1>2, GoesTo DEF Places
<1>13. ~Fresh(r) /\ file' = saved(r, inherited[r], uncl, ups) /\ published' = published
  BY <1>2, <1>10 DEF Fresh
<1>14. published \subseteq Instances
  BY <1>1 DEF TypeOK
<1> HIDE DEF k, i, ups, uncl
<1>15. \A j \in published' \ published : j = <<r, started[r]>>
  BY <1>13
<1>16. published \subseteq published' /\ published' \subseteq Instances
  BY <1>13, <1>14
<1>17. \A e \in Range(uncl) : /\ e.svc[1] = r /\ e.svc \in published
                              /\ e.owner # NoRun => loaded[e.owner]
  BY <1>9
<1>18. /\ ups \in Seq(Svc) /\ uncl \in Seq(Entries) /\ Unique(uncl)
       /\ \A m, n \in DOMAIN ups : ups[m] = ups[n] => m = n
  BY <1>5, <1>8, <1>9
<1> QED
  BY <1>2, <1>3, <1>11, <1>12, <1>13, <1>15, <1>16, <1>17, <1>18, SaveKeeps

LEMMA StopOverKeeps ==
  ASSUME FileInv, NEW r \in Runs, StopOver(r)
  PROVE  FileInv'
<1>1. TypeOK /\ LoadInv /\ PlaceInv /\ Runs \subseteq Axx
  BY DEF FileInv, Axx
<1>2. /\ pc[r] = "stopping" /\ up[r] = <<>> /\ goto(r, "ended")
      /\ file' = saved(r, inherited[r], unclean[r], <<>>)
      /\ UNCHANGED <<started, up, loaded, inherited, unclean, reap, alive, lead, dirty, published>>
  BY DEF StopOver, managers, services
<1>3. loaded[r] /\ ~Fresh(r)
  BY <1>1, <1>2 DEF LoadInv, Fresh
<1>4. /\ up[r] \in Seq(Svc) /\ unclean[r] \in Seq(Entries) /\ Unique(unclean[r])
      /\ \A m, n \in DOMAIN up[r] : up[r][m] = up[r][n] => m = n
      /\ \A l \in Range(up[r]) : <<r, l>> \in published /\ <<r, l>> \notin On(unclean[r])
      /\ \A e \in Range(unclean[r]) : /\ e.svc[1] = r /\ e.svc \in published
                                      /\ e.owner # NoRun => loaded[e.owner]
  BY UpIs
<1>5. /\ pc' \in [Axx -> Places] /\ pc'[r] = "ended"
      /\ \A q \in Axx : q # r => pc'[q] = pc[q]
  BY <1>1, <1>2, GoesTo DEF Places
<1>6. /\ up' = [up EXCEPT ![r] = up[r]] /\ unclean' = [unclean EXCEPT ![r] = unclean[r]]
      /\ published \subseteq Instances
  BY <1>1, <1>2 DEF TypeOK
<1>7. file' = saved(r, inherited[r], unclean[r], up[r]) /\ published' = published /\ dirty' = dirty
  BY <1>2
<1> QED
  BY <1>2, <1>3, <1>4, <1>5, <1>6, <1>7, SaveKeeps

LEMMA launchKeeps ==
  ASSUME FileInv, NEW r \in Runs, launch(r)
  PROVE  FileInv'
<1> DEFINE i == <<r, started[r] + 1>>
<1>1. TypeOK /\ EntryInv /\ LoadInv /\ PlaceInv /\ UniqueInv /\ Runs \subseteq Axx
  BY DEF FileInv, Axx
<1>2. /\ pc[r] = "starting" /\ started[r] < K /\ goto(r, "launched")
      /\ started' = [started EXCEPT ![r] = started[r] + 1]
      /\ alive' = alive \union {i} /\ lead' = lead \union {i}
      /\ dirty' = IF i[2] \in HasCleanup THEN dirty \union {i} ELSE dirty
      /\ UNCHANGED <<file, up, loaded, inherited, unclean, reap, published>>
  BY <1>1 DEF launch, TypeOK
<1>3. /\ pc' \in [Axx -> Places] /\ pc'[r] = "launched"
      /\ \A q \in Axx : q # r => pc'[q] = pc[q]
  BY <1>1, <1>2, GoesTo DEF Places
<1>4. started[r] \in 0..K /\ K \in Nat
  BY <1>1, StateAssumption DEF TypeOK
<1>5. started[r] + 1 \in 0..K /\ started[r] + 1 \in Svc /\ ~(started[r] + 1 <= started[r])
  BY <1>2, <1>4 DEF Svc
<1>6. /\ started' \in [Runs -> 0..K] /\ started'[r] = started[r] + 1
      /\ \A q \in Runs : q # r => started'[q] = started[q]
  BY <1>1, <1>2, <1>5 DEF TypeOK
<1>7. i \in Instances /\ i[1] = r /\ i[2] = started[r] + 1
  BY <1>5 DEF Instances
<1>8. TypeOK'
  BY <1>1, <1>2, <1>3, <1>6, <1>7 DEF TypeOK, Places
<1>9. AllEntries' = AllEntries
  BY <1>2, InAll, InAllNext
<1>10. EntryInv'
  BY <1>1, <1>2, <1>9 DEF EntryInv
<1>11. LoadInv'
  BY <1>1, <1>2, <1>3 DEF LoadInv, Fresh
<1>12. PlaceInv'
  <2>1. i \notin published
    BY <1>1, <1>5, <1>7 DEF PlaceInv
  <2>2. \A j \in published : j[2] <= started'[j[1]]
    <3> TAKE j \in published
    <3>1. j[1] \in Runs /\ j[2] \in Nat /\ j[2] <= started[j[1]]
      BY <1>1 DEF TypeOK, PlaceInv, Instances, Svc
    <3> QED
      BY <1>4, <1>6, <3>1
  <2>3. \A j \in dirty' : j[2] \in HasCleanup
    BY <1>1, <1>2 DEF PlaceInv
  <2>4. \A q \in Runs : pc'[q] = "launched" =>
          started'[q] \in Svc /\ <<q, started'[q]>> \notin published
    <3> TAKE q \in Runs
    <3>1. CASE q = r
      BY <1>5, <1>6, <2>1, <3>1
    <3>2. CASE q # r
      BY <1>1, <1>3, <1>6, <3>2 DEF PlaceInv
    <3> QED
      BY <3>1, <3>2
  <2>5. /\ \A q \in Runs : pc'[q] = "stopped" => up'[q] # <<>>
        /\ \A q \in Axx : pc'[q] = "reaped" => reap'[q].todo # <<>>
    BY <1>1, <1>2, <1>3 DEF PlaceInv
  <2> QED
    BY <1>2, <2>2, <2>3, <2>4, <2>5 DEF PlaceInv
<1>13. UniqueInv'
  <2>1. \A q \in Runs : Own(q)' = Own(q)
    BY <1>2 DEF Own
  <2> QED
    BY <1>1, <1>2, <2>1 DEF UniqueInv
<1> QED
  BY <1>8, <1>10, <1>11, <1>12, <1>13 DEF FileInv

\* What a run inherits are the entries on file, with their owners.
LEMMA LoadedIs ==
  ASSUME TypeOK
  PROVE  LET inh == [n \in DOMAIN file.services |->
                       [file.services[n] EXCEPT !.owner = ownerOf(file, file.services[n])]]
         IN  /\ inh \in Seq(Entries) /\ Unique(inh) /\ On(inh) = On(file.services)
             /\ file.services = <<>> => inh = <<>>
             /\ \A e \in Range(inh) : \E f \in Range(file.services) :
                  /\ e.svc = f.svc /\ e.failed = f.failed
                  /\ e.owner \in {f.owner, file.pid}
<1> DEFINE F == file.services
           new(n) == [F[n] EXCEPT !.owner = ownerOf(file, F[n])]
           inh == [n \in DOMAIN F |-> new(n)]
<1>1. F \in Seq(Entries) /\ Unique(F) /\ file.pid \in Runs \union {NoRun}
  BY TypeIs
<1>2. /\ Len(F) \in Nat /\ DOMAIN F = 1..Len(F)
      /\ \A n \in 1..Len(F) : F[n] \in Entries /\ F[n] \in Range(F)
  BY <1>1, SeqIs
<1> HIDE DEF F
<1>3. \A n \in 1..Len(F) :
        /\ new(n) \in Entries /\ new(n).svc = F[n].svc /\ new(n).failed = F[n].failed
        /\ new(n).owner \in {F[n].owner, file.pid}
  BY <1>1, <1>2 DEF Entries, ownerOf
<1> HIDE DEF new
<1>4. inh \in [1..Len(F) -> Entries] /\ DOMAIN inh = 1..Len(F)
  BY <1>2, <1>3
<1>5. inh \in Seq(Entries)
  BY <1>2, <1>4, SeqDef
<1>6. \A n \in 1..Len(F) : inh[n] = new(n)
  BY <1>2
<1> HIDE DEF inh
<1>7. Unique(inh)
  BY <1>1, <1>2, <1>3, <1>4, <1>6 DEF Unique
<1>8. \A e : e \in Range(inh) <=> \E n \in 1..Len(F) : e = new(n)
  BY <1>4, <1>6 DEF Range
<1>9. \A e \in Range(inh) : \E f \in Range(F) :
        e.svc = f.svc /\ e.failed = f.failed /\ e.owner \in {f.owner, file.pid}
  BY <1>2, <1>3, <1>8
<1>10. \A f \in Range(F) : \E e \in Range(inh) : e.svc = f.svc
  <2> TAKE f \in Range(F)
  <2>1. PICK n \in 1..Len(F) : f = F[n]
    BY <1>2 DEF Range
  <2> QED
    BY <1>3, <1>8, <2>1
<1>11. On(inh) = On(F)
  BY <1>9, <1>10 DEF On
<1>12. F = <<>> => inh = <<>>
  <2>1. F = <<>> => Range(F) = {}
    BY <1>1, SeqIs
  <2>2. Range(inh) = {} => inh = <<>>
    BY <1>5, SeqIs
  <2> QED
    BY <1>9, <2>1, <2>2
<1> QED
  BY <1>5, <1>7, <1>9, <1>11, <1>12 DEF inh, new, F

LEMMA loadKeeps ==
  ASSUME FileInv, NEW r \in Runs, load(r)
  PROVE  FileInv'
<1> DEFINE inh == [n \in DOMAIN file.services |->
                     [file.services[n] EXCEPT !.owner = ownerOf(file, file.services[n])]]
<1>1. TypeOK /\ EntryInv /\ LoadInv /\ PlaceInv /\ UniqueInv /\ Runs \subseteq Axx
  BY DEF FileInv, Axx
<1>2. /\ pc[r] = "launched" /\ ~loaded[r]
      /\ loaded' = [loaded EXCEPT ![r] = TRUE]
      /\ inherited' = [inherited EXCEPT ![r] = inh]
      /\ UNCHANGED <<file, pc, started, up, unclean, reap, alive, lead, dirty, published>>
  BY DEF load, services
<1>3. /\ inh \in Seq(Entries) /\ Unique(inh) /\ On(inh) = On(file.services)
      /\ \A e \in Range(inh) : \E f \in Range(file.services) :
            e.svc = f.svc /\ e.failed = f.failed /\ e.owner \in {f.owner, file.pid}
  BY <1>1, LoadedIs
<1> HIDE DEF inh
<1>4. /\ loaded' \in [Runs -> BOOLEAN] /\ loaded'[r] /\ \A q \in Runs : q # r => loaded'[q] = loaded[q]
      /\ inherited' \in [Runs -> Seq(Entries)] /\ inherited'[r] = inh
      /\ \A q \in Runs : q # r => inherited'[q] = inherited[q]
  BY <1>1, <1>2, <1>3 DEF TypeOK
<1>5. TypeOK'
  BY <1>1, <1>2, <1>4 DEF TypeOK
<1>6. EntryInv'
  <2>1. \A e \in AllEntries' : e \in AllEntries \/ e \in Range(inh)
    BY <1>2, <1>4, InAll, InAllNext
  <2>2. \A f \in Range(file.services) : f \in AllEntries
    BY InAll
  <2>3. \A e \in AllEntries' : e.svc \in published /\ (e.owner # NoRun => loaded[e.owner])
    BY <1>1, <1>3, <2>1, <2>2 DEF EntryInv
  <2>4. \A e \in AllEntries' : e.owner \in Runs \union {NoRun}
    <3>1. \A e \in AllEntries' : e \in Entries
      <4>1. /\ Range(file'.services) \subseteq Entries
            /\ \A q \in Axx : Range(reap'[q].todo) \subseteq Entries /\ Range(reap'[q].kept) \subseteq Entries
            /\ \A q \in Runs : Range(inherited'[q]) \subseteq Entries /\ Range(unclean'[q]) \subseteq Entries
        BY <1>2, <1>4, <1>1, TypeIs, SeqIs
      <4> QED
        BY <4>1, InAllNext
    <3> QED
      BY <3>1 DEF Entries
  <2> QED
    BY <1>1, <1>2, <1>4, <2>3, <2>4 DEF EntryInv, TypeOK
<1>7. LoadInv'
  BY <1>1, <1>2, <1>4 DEF LoadInv, Fresh
<1>8. PlaceInv'
  BY <1>1, <1>2 DEF PlaceInv
<1>9. UniqueInv'
  <2>1. \A q \in Runs : Own(q)' = Own(q)
    BY <1>2 DEF Own
  <2>2. \A i \in On(inh) : i[1] # r
    <3>1. \A f \in Range(file.services) : f.svc \in published
      BY <1>1, InAll DEF EntryInv
    <3> QED
      BY <1>1, <1>2, <1>3, <3>1 DEF On, LoadInv
  <2>3. ASSUME NEW q \in Runs
        PROVE  /\ Unique(inherited'[q]) /\ Unique(unclean'[q])
               /\ \A m, n \in DOMAIN up'[q] : up'[q][m] = up'[q][n] => m = n
               /\ Own(q)' \subseteq published'
               /\ On(unclean'[q]) \cap Own(q)' = {}
               /\ \A i \in On(unclean'[q]) : i[1] = q
               /\ \A i \in On(inherited'[q]) : i[1] # q
    <3>1. Unique(inherited'[q]) /\ \A i \in On(inherited'[q]) : i[1] # q
      BY <1>1, <1>3, <1>4, <2>2 DEF UniqueInv
    <3> QED
      BY <1>1, <1>2, <2>1, <3>1 DEF UniqueInv
  <2>4. \A q \in Axx : /\ Unique(reap'[q].todo) /\ Unique(reap'[q].kept)
                       /\ On(reap'[q].todo) \cap On(reap'[q].kept) = {}
    BY <1>1, <1>2 DEF UniqueInv
  <2> QED
    BY <2>3, <2>4 DEF UniqueInv
<1> QED
  BY <1>5, <1>6, <1>7, <1>8, <1>9 DEF FileInv

LEMMA FileNext ==
  ASSUME FileInv, [Next]_vars
  PROVE  FileInv'
<1>1. CASE UNCHANGED vars
  <2>1. UNCHANGED <<file, pc, started, up, loaded, inherited, unclean, reap, alive, lead, dirty, published>>
    BY <1>1 DEF vars, managers, services
  <2>2. TypeOK /\ LoadInv /\ PlaceInv /\ Runs \subseteq Axx
    BY DEF FileInv, Axx
  <2>3. /\ pc' \in [Axx -> Places] /\ lead' \subseteq alive' /\ alive' \subseteq Instances
        /\ dirty' \subseteq dirty
    BY <2>1, <2>2 DEF TypeOK, Places
  <2> QED
    BY <2>1, <2>2, <2>3, PlaceKeeps DEF LoadInv, PlaceInv, Fresh
<1>2. CASE Next
  <2>1. CASE \E r \in Axx : Begin(r) \/ Kill(r)
    BY <2>1, BeginKeeps, KillKeeps
  <2>2. CASE \E r \in Axx : Reap(r)
    BY <2>2, ReapReadsKeeps, ReapStopsKeeps, ReapCleansKeeps, ReapWritesKeeps DEF Reap
  <2>3. CASE \E r \in Runs : Run(r)
    BY <2>3, checkEarlierRunsKeeps, launchKeeps, loadKeeps, publishKeeps, StopKeeps,
       StopOverKeeps, stopServiceKeeps, stopCleanupKeeps DEF Run
  <2>4. CASE \E i \in Instances : Exits(i)
    BY <2>4, ExitsKeeps
  <2> QED
    BY <1>2, <2>1, <2>2, <2>3, <2>4 DEF Next
<1> QED
  BY <1>1, <1>2


-----------------------------------------------------------------------------
(* One process at a time: nobody goes on but the one that is going, or one that
   begins when none is *)

LEMMA StepIs ==
  ASSUME TypeOK, [Next]_vars
  PROVE  \/ pc' = pc
         \/ \E r \in Axx : /\ pc[r] # "killed"
                           /\ Going(r) \/ Begin(r)
                           /\ \A q \in Axx : q # r => pc'[q] = pc[q]
<1>1. Runs \subseteq Axx
  BY DEF Axx
<1>2. ASSUME NEW r \in Axx, Begin(r)
      PROVE  pc[r] # "killed" /\ \A q \in Axx : q # r => pc'[q] = pc[q]
  BY <1>2, GoesTo DEF Begin, Places
<1>3. ASSUME NEW r \in Axx, Kill(r)
      PROVE  Going(r) /\ \A q \in Axx : q # r => pc'[q] = pc[q]
  BY <1>3, GoesTo DEF Kill, Places
<1>4. ASSUME NEW r \in Axx, Reap(r)
      PROVE  pc' = pc \/ (Going(r) /\ \A q \in Axx : q # r => pc'[q] = pc[q])
  <2>1. CASE ReapReads(r)
    BY <2>1, GoesTo DEF ReapReads, reapOver, Going, Places
  <2>2. CASE \E o \in ReapOutcomes : ReapStops(r, o)
    BY <2>2, GoesTo DEF ReapStops, Going, Places
  <2>3. CASE \E ok \in BOOLEAN : ReapCleans(r, ok)
    BY <2>3, GoesTo DEF ReapCleans, Going, Places
  <2>4. CASE ReapWrites(r)
    BY <2>4, GoesTo DEF ReapWrites, reapOver, Going, Places
  <2> QED
    BY <1>4, <2>1, <2>2, <2>3, <2>4 DEF Reap
<1>5. ASSUME NEW r \in Runs, Run(r)
      PROVE  pc' = pc \/ (Going(r) /\ \A q \in Axx : q # r => pc'[q] = pc[q])
  <2>1. CASE checkEarlierRuns(r)
    BY <1>1, <2>1, GoesTo DEF checkEarlierRuns, Going, Places
  <2>2. CASE launch(r)
    BY <1>1, <2>2, GoesTo DEF launch, Going, Places
  <2>3. CASE load(r)
    BY <2>3 DEF load
  <2>4. CASE publish(r)
    BY <1>1, <2>4, GoesTo DEF publish, Going, Places
  <2>5. CASE Stop(r)
    BY <1>1, <2>5, GoesTo DEF Stop, Going, Places
  <2>6. CASE StopOver(r)
    BY <1>1, <2>6, GoesTo DEF StopOver, Going, Places
  <2>7. CASE \E o \in StopOutcomes : stopService(r, o)
    BY <1>1, <2>7, GoesTo DEF stopService, Going, Places
  <2>8. CASE \E ok \in BOOLEAN : stopCleanup(r, ok)
    BY <1>1, <2>8, GoesTo DEF stopCleanup, Going, Places
  <2> QED
    BY <1>5, <2>1, <2>2, <2>3, <2>4, <2>5, <2>6, <2>7, <2>8 DEF Run
<1>6. CASE UNCHANGED vars
  BY <1>6 DEF vars
<1>7. CASE Next
  <2>1. CASE \E r \in Axx : Begin(r) \/ Kill(r)
    BY <1>2, <1>3, <2>1 DEF Going
  <2>2. CASE \E r \in Axx : Reap(r)
    BY <1>4, <2>2 DEF Going
  <2>3. CASE \E r \in Runs : Run(r)
    BY <1>1, <1>5, <2>3 DEF Going
  <2>4. CASE \E i \in Instances : Exits(i)
    BY <2>4 DEF Exits
  <2> QED
    BY <1>7, <2>1, <2>2, <2>3, <2>4 DEF Next
<1> QED
  BY <1>6, <1>7

LEMMA AloneNext ==
  ASSUME TypeOK, AloneInv, ~Overlap, [Next]_vars
  PROVE  AloneInv'
<1>1. CASE pc' = pc
  BY <1>1 DEF AloneInv, Going
<1>2. ASSUME NEW r \in Axx, Going(r) \/ Begin(r), \A q \in Axx : q # r => pc'[q] = pc[q]
      PROVE  AloneInv'
  <2>1. \A q \in Axx : q # r => ~Going(q)
    BY <1>2 DEF AloneInv, Begin
  <2>2. \A q \in Axx : q # r => ~Going(q)'
    BY <1>2, <2>1 DEF Going
  <2> QED
    BY <2>2 DEF AloneInv
<1> QED
  BY <1>1, <1>2, StepIs

\* Who was killed stays so.
LEMMA NoneKilledBefore ==
  ASSUME TypeOK, [Next]_vars, NoneKilled'
  PROVE  NoneKilled
BY StepIs DEF NoneKilled

\* Who is going is the only one.
LEMMA OnlyOne ==
  ASSUME AloneInv, NEW r \in Axx, Going(r)
  PROVE  \A q \in Axx : q # r =>
           /\ ~Going(q)
           /\ pc[q] \notin {"checking", "reading", "reaping", "reaped", "starting",
                            "launched", "stopping", "stopped"}
BY DEF AloneInv, Going

-----------------------------------------------------------------------------
(* RecordInv, action by action *)

\* A step that writes neither the file nor what a process remembers of it.
LEMMA QuietRecord ==
  ASSUME RecordInv, FileInv', AloneInv',
         UNCHANGED <<file, up, loaded, inherited, unclean, reap, published>>,
         alive' \subseteq alive, dirty' \subseteq dirty,
         \A r \in Axx : /\ pc'[r] \in {"reaping", "reaped"} => pc[r] \in {"reaping", "reaped"}
                        /\ pc'[r] = "reaped" => \/ pc[r] = "reaped"
                                                \/ Last(reap[r].todo).svc \notin alive',
         \A r \in Runs : /\ Going(r)' /\ loaded[r] => Going(r)
                         /\ pc'[r] = "stopped" => \/ pc[r] = "stopped"
                                                  \/ <<r, Last(up[r])>> \notin alive'
  PROVE  RecordInv'
<1>1. FileInv /\ AloneInv /\ StoppedInv /\ KnownInv /\ Recorded
  BY DEF RecordInv
<1>2. AllEntries' = AllEntries
  BY InAll, InAllNext
<1>3. StoppedInv'
  <2>1. \A e \in AllEntries' : e.failed => e.svc \notin alive'
    BY <1>1, <1>2 DEF StoppedInv
  <2>2. \A r \in Axx : pc'[r] = "reaped" => Last(reap'[r].todo).svc \notin alive'
    BY <1>1 DEF StoppedInv
  <2>3. \A r \in Runs : pc'[r] = "stopped" => <<r, Last(up'[r])>> \notin alive'
    BY <1>1 DEF StoppedInv
  <2> QED
    BY <2>1, <2>2, <2>3 DEF StoppedInv
<1>4. \A i : Left(i)' => Left(i)
  BY DEF Left
<1>5. KnownInv'
  <2>1. \A r \in Runs : Own(r)' = Own(r)
    BY DEF Own
  <2> QED
    BY <1>1, <1>4, <2>1 DEF KnownInv
<1>6. Recorded'
  BY <1>1, <1>4 DEF Recorded
<1> QED
  BY <1>1, <1>3, <1>5, <1>6 DEF RecordInv

LEMMA BeginRecord ==
  ASSUME RecordInv, FileInv', AloneInv', NEW r \in Axx, Begin(r)
  PROVE  RecordInv'
<1>1. TypeOK /\ LoadInv
  BY DEF RecordInv, FileInv
<1>2. /\ pc[r] = "new" /\ goto(r, IF r \in Runs THEN "checking" ELSE "reading")
      /\ UNCHANGED <<file, up, loaded, inherited, unclean, reap, alive, dirty, published>>
  BY DEF Begin, managers, services
<1>3. /\ pc'[r] \in {"checking", "reading"} /\ \A q \in Axx : q # r => pc'[q] = pc[q]
  BY <1>1, <1>2, GoesTo DEF Places
<1>4. r \in Runs => ~loaded[r]
  BY <1>1, <1>2 DEF LoadInv, Fresh
<1>5. Runs \subseteq Axx
  BY DEF Axx
<1> QED
  BY <1>2, <1>3, <1>4, <1>5, QuietRecord DEF Going

LEMMA checkEarlierRunsRecord ==
  ASSUME RecordInv, FileInv', AloneInv', NEW r \in Runs, checkEarlierRuns(r)
  PROVE  RecordInv'
<1>1. TypeOK /\ Runs \subseteq Axx
  BY DEF RecordInv, FileInv, Axx
<1>2. /\ pc[r] = "checking" /\ \E to \in {"starting", "ended", "reading"} : goto(r, to)
      /\ UNCHANGED <<file, up, loaded, inherited, unclean, reap, alive, dirty, published>>
  BY DEF checkEarlierRuns, managers, services
<1>3. /\ pc'[r] \in {"starting", "ended", "reading"} /\ \A q \in Axx : q # r => pc'[q] = pc[q]
  BY <1>1, <1>2, GoesTo DEF Places
<1> QED
  BY <1>1, <1>2, <1>3, QuietRecord DEF Going

LEMMA StopRecord ==
  ASSUME RecordInv, FileInv', AloneInv', NEW r \in Runs, Stop(r)
  PROVE  RecordInv'
<1>1. TypeOK /\ Runs \subseteq Axx
  BY DEF RecordInv, FileInv, Axx
<1>2. /\ pc[r] = "starting" /\ goto(r, IF up[r] = <<>> THEN "ended" ELSE "stopping")
      /\ UNCHANGED <<file, up, loaded, inherited, unclean, reap, alive, dirty, published>>
  BY DEF Stop, managers, services
<1>3. /\ pc'[r] \in {"ended", "stopping"} /\ \A q \in Axx : q # r => pc'[q] = pc[q]
  BY <1>1, <1>2, GoesTo DEF Places
<1> QED
  BY <1>1, <1>2, <1>3, QuietRecord DEF Going

\* Only one that is gone counts as stopped.
LEMMA stopServiceRecord ==
  ASSUME RecordInv, FileInv', AloneInv', NEW r \in Runs, stopService(r, "gone")
  PROVE  RecordInv'
<1>1. TypeOK /\ Runs \subseteq Axx
  BY DEF RecordInv, FileInv, Axx
<1>2. /\ pc[r] = "stopping" /\ goto(r, "stopped")
      /\ alive' = alive \ {<<r, Last(up[r])>>}
      /\ UNCHANGED <<file, up, loaded, inherited, unclean, reap, dirty, published>>
  BY DEF stopService, managers
<1>3. /\ pc'[r] = "stopped" /\ \A q \in Axx : q # r => pc'[q] = pc[q]
  BY <1>1, <1>2, GoesTo DEF Places
<1> QED
  BY <1>1, <1>2, <1>3, QuietRecord DEF Going

LEMMA KillRecord ==
  ASSUME RecordInv, FileInv', AloneInv', NEW r \in Axx, Kill(r)
  PROVE  RecordInv'
<1>1. TypeOK /\ Runs \subseteq Axx
  BY DEF RecordInv, FileInv, Axx
<1>2. /\ goto(r, "killed") /\ alive' \subseteq alive
      /\ UNCHANGED <<file, up, loaded, inherited, unclean, reap, dirty, published>>
  BY DEF Kill, managers
<1>3. /\ pc'[r] = "killed" /\ \A q \in Axx : q # r => pc'[q] = pc[q]
  BY <1>1, <1>2, GoesTo DEF Places
<1> QED
  BY <1>1, <1>2, <1>3, QuietRecord DEF Going

LEMMA ExitsRecord ==
  ASSUME RecordInv, FileInv', AloneInv', NEW i \in Instances, Exits(i)
  PROVE  RecordInv'
<1>1. /\ alive' \subseteq alive
      /\ UNCHANGED <<file, pc, up, loaded, inherited, unclean, reap, dirty, published>>
  BY DEF Exits, managers
<1> QED
  BY <1>1, QuietRecord DEF Going

\* A Reap that reads the file has all that is left to go.
LEMMA ReapReadsRecord ==
  ASSUME RecordInv, FileInv', AloneInv', NEW r \in Axx, ReapReads(r)
  PROVE  RecordInv'
<1>1. /\ TypeOK /\ LoadInv /\ StoppedInv /\ KnownInv /\ Recorded /\ AloneInv
      /\ Runs \subseteq Axx
  BY DEF RecordInv, FileInv, Axx
<1>2. /\ pc[r] = "reading"
      /\ UNCHANGED <<file, up, loaded, inherited, unclean, alive, dirty, published>>
  BY DEF ReapReads, managers, services
<1>3. CASE file.services = <<>>
  <2>1. UNCHANGED reap /\ \E to \in {"starting", "ended"} : goto(r, to)
    BY <1>3 DEF ReapReads, reapOver
  <2>2. /\ pc'[r] \in {"starting", "ended"} /\ \A q \in Axx : q # r => pc'[q] = pc[q]
    BY <1>1, <2>1, GoesTo DEF Places
  <2> QED
    BY <1>1, <1>2, <2>1, <2>2, QuietRecord DEF Going
<1>4. CASE file.services # <<>>
  <2>1. /\ goto(r, "reaping")
        /\ reap' = [reap EXCEPT ![r] = [todo |-> file.services, kept |-> <<>>, failed |-> FALSE]]
    BY <1>4 DEF ReapReads, NoReap
  <2>2. /\ pc'[r] = "reaping" /\ \A q \in Axx : q # r => pc'[q] = pc[q]
    BY <1>1, <2>1, GoesTo DEF Places
  <2>3. /\ reap'[r].todo = file.services /\ reap'[r].kept = <<>>
        /\ \A q \in Axx : q # r => reap'[q] = reap[q]
    BY <1>1, <2>1 DEF TypeOK
  <2>4. \A e \in AllEntries' : e \in AllEntries
    BY <1>2, <2>3, InAll, InAllNext, EmptyIs
  <2>5. StoppedInv'
    <3>1. \A e \in AllEntries' : e.failed => e.svc \notin alive'
      BY <1>1, <1>2, <2>4 DEF StoppedInv
    <3>2. \A q \in Axx : pc'[q] = "reaped" => Last(reap'[q].todo).svc \notin alive'
      BY <1>1, <1>2, <2>2, <2>3 DEF StoppedInv
    <3>3. \A q \in Runs : pc'[q] = "stopped" => <<q, Last(up'[q])>> \notin alive'
      BY <1>1, <1>2, <2>2 DEF StoppedInv
    <3> QED
      BY <3>1, <3>2, <3>3 DEF StoppedInv
  <2>6. \A i : Left(i)' => Left(i)
    BY <1>2 DEF Left
  <2>7. \A i \in Instances : Left(i) => i \in On(file.services)
    BY <1>1 DEF Recorded, On, Range
  <2>8. KnownInv'
    <3>1. \A q \in Runs : Own(q)' = Own(q)
      BY <1>2 DEF Own
    <3>2. \A q \in Axx : pc'[q] \in {"reaping", "reaped"} =>
            \A i \in Instances : Left(i)' => i \in On(reap'[q].todo) \cup On(reap'[q].kept)
      BY <1>1, <2>2, <2>3, <2>6, <2>7 DEF KnownInv
    <3>3. \A q \in Runs : Going(q)' /\ loaded'[q] => Going(q) /\ loaded[q]
      BY <1>1, <1>2, <2>2 DEF Going
    <3> QED
      BY <1>1, <1>2, <2>6, <3>1, <3>2, <3>3 DEF KnownInv
  <2>9. Recorded'
    BY <1>1, <1>2, <2>6 DEF Recorded
  <2> QED
    BY <2>5, <2>8, <2>9 DEF RecordInv
<1> QED
  BY <1>3, <1>4

\* A step of Reap that is done with an entry.
LEMMA EntryOverRecord ==
  ASSUME RecordInv, FileInv', AloneInv', NEW r \in Axx, reap[r].todo # <<>>,
         pc[r] \in {"reaping", "reaped"},
         NEW keep \in Seq(Entries), Unique(keep), On(keep) \subseteq {Last(reap[r].todo).svc},
         NEW failed \in BOOLEAN, entryOver(r, keep, failed),
         pc'[r] = "reaping", \A q \in Axx : q # r => pc'[q] = pc[q],
         UNCHANGED <<file, up, loaded, inherited, unclean, published>>,
         alive' \subseteq alive, dirty' \subseteq dirty,
         NEW j, j = Last(reap[r].todo).svc, Left(j)' => j \in On(keep),
         \A e \in Range(keep) : e.failed => e.svc \notin alive'
  PROVE  RecordInv'
<1>1. /\ FileInv /\ TypeOK /\ StoppedInv /\ KnownInv /\ Recorded /\ Runs \subseteq Axx
  BY DEF RecordInv, FileInv, Axx
<1>2. /\ reap'[r].todo = Front(reap[r].todo) /\ reap'[r].kept = keep \o reap[r].kept
      /\ \A q \in Axx : q # r => reap'[q] = reap[q]
  BY <1>1 DEF entryOver, TypeOK
<1>3. /\ Range(keep \o reap[r].kept) = Range(keep) \cup Range(reap[r].kept)
      /\ On(keep \o reap[r].kept) = On(keep) \cup On(reap[r].kept)
      /\ Range(Front(reap[r].todo)) \subseteq Range(reap[r].todo)
      /\ On(reap[r].todo) = On(Front(reap[r].todo)) \cup {Last(reap[r].todo).svc}
  BY <1>1, EntryOver
<1>4. \A e \in AllEntries' : e \in AllEntries \cup Range(keep)
  BY <1>2, <1>3, InAll, InAllNext
<1>5. StoppedInv'
  <2>1. \A e \in AllEntries' : e.failed => e.svc \notin alive'
    BY <1>1, <1>4 DEF StoppedInv
  <2>2. \A q \in Axx : pc'[q] = "reaped" => Last(reap'[q].todo).svc \notin alive'
    BY <1>1, <1>2 DEF StoppedInv
  <2>3. \A q \in Runs : pc'[q] = "stopped" => <<q, Last(up'[q])>> \notin alive'
    BY <1>1 DEF StoppedInv
  <2> QED
    BY <2>1, <2>2, <2>3 DEF StoppedInv
<1>6. \A i : Left(i)' => Left(i)
  BY DEF Left
<1>7. KnownInv'
  <2>1. \A q \in Runs : Own(q)' = Own(q)
    BY DEF Own
  <2>2. \A i \in Instances : Left(i)' => i \in On(reap'[r].todo) \cup On(reap'[r].kept)
    <3> SUFFICES ASSUME NEW i \in Instances, Left(i)'
                 PROVE  i \in On(reap'[r].todo) \cup On(reap'[r].kept)
      OBVIOUS
    <3>1. i \in On(reap[r].todo) \cup On(reap[r].kept)
      BY <1>1, <1>6 DEF KnownInv
    <3>2. i = Last(reap[r].todo).svc => i \in On(keep)
      OBVIOUS
    <3> QED
      BY <1>2, <1>3, <3>1, <3>2
  <2>3. \A q \in Runs : Going(q)' => Going(q)
    BY <1>1 DEF Going
  <2> QED
    BY <1>1, <1>2, <1>6, <2>1, <2>2, <2>3 DEF KnownInv
<1>8. Recorded'
  BY <1>1, <1>6 DEF Recorded
<1> QED
  BY <1>5, <1>7, <1>8 DEF RecordInv

LEMMA ReapStopsRecord ==
  ASSUME RecordInv, FileInv', AloneInv', NEW r \in Axx, NEW outcome \in ReapOutcomes,
         ReapStops(r, outcome)
  PROVE  RecordInv'
<1> DEFINE e == Last(reap[r].todo)
<1>1. /\ TypeOK /\ PlaceInv /\ StoppedInv /\ Runs \subseteq Axx
  BY DEF RecordInv, FileInv, Axx
<1>2. /\ pc[r] = "reaping" /\ reap[r].todo # <<>>
      /\ UNCHANGED <<file, up, loaded, inherited, unclean, dirty, published>>
      /\ alive' \subseteq alive
  BY DEF ReapStops, managers
<1>3. e \in Entries /\ e \in Range(reap[r].todo)
  BY <1>1, <1>2, TypeIs, FrontIs
<1>4. e.failed => e.svc \notin alive
  BY <1>1, <1>3, InAll DEF StoppedInv
<1>5. outcome \in {"gone", "error"}
  BY StateAssumption
<1>6. PICK j \in Instances : j = e.svc
  BY <1>3 DEF Entries
<1>7. CASE /\ ~e.failed /\ e.svc \in alive /\ outcome = "error"
           /\ entryOver(r, <<[e EXCEPT !.owner = NoRun]>>, TRUE) /\ UNCHANGED pc
  <2> DEFINE x == [e EXCEPT !.owner = NoRun]
  <2>1. x \in Entries /\ x.svc = e.svc /\ x.failed = e.failed
    BY <1>3 DEF Entries
  <2> HIDE DEF x
  <2>2. <<x>> \in Seq(Entries) /\ Unique(<<x>>) /\ On(<<x>>) = {e.svc} /\ Range(<<x>>) = {x}
    BY <2>1, OneIs DEF Unique, On
  <2>3. entryOver(r, <<x>>, TRUE) /\ pc' = pc /\ ~x.failed
    BY <1>7, <2>1 DEF x
  <2> QED
    BY <1>2, <1>6, <2>2, <2>3, EntryOverRecord
<1>8. CASE /\ e.svc \notin alive' /\ e.svc[2] \notin HasCleanup
           /\ entryOver(r, <<>>, FALSE) /\ UNCHANGED pc
  <2>1. j \notin alive' /\ j \notin dirty
    BY <1>1, <1>8, <1>6 DEF PlaceInv
  <2>2. ~Left(j)'
    BY <1>2, <2>1 DEF Left
  <2> QED
    BY <1>2, <1>8, <1>6, <2>2, EmptyIs, EntryOverRecord
<1>9. CASE e.svc \notin alive' /\ goto(r, "reaped") /\ UNCHANGED reap
  <2>1. /\ pc'[r] = "reaped" /\ \A q \in Axx : q # r => pc'[q] = pc[q]
    BY <1>1, <1>9, GoesTo DEF Places
  <2> QED
    BY <1>1, <1>2, <1>9, <2>1, QuietRecord DEF Going
<1>10. e.svc \notin alive' \/ (~e.failed /\ e.svc \in alive /\ outcome = "error")
  BY <1>4, <1>5 DEF ReapStops
<1> QED
  BY <1>7, <1>8, <1>9, <1>10 DEF ReapStops

LEMMA ReapCleansRecord ==
  ASSUME RecordInv, FileInv', AloneInv', NEW r \in Axx, NEW ok \in BOOLEAN, ReapCleans(r, ok)
  PROVE  RecordInv'
<1> DEFINE i == Last(reap[r].todo).svc
           keep == IF ok THEN <<>> ELSE <<uncleaned(i)>>
<1>1. TypeOK /\ PlaceInv /\ StoppedInv
  BY DEF RecordInv, FileInv
<1>2. /\ pc[r] = "reaped" /\ goto(r, "reaping") /\ entryOver(r, keep, ~ok)
      /\ UNCHANGED <<file, up, loaded, inherited, unclean, alive, published>>
      /\ dirty' \subseteq dirty /\ (ok => i \notin dirty')
  BY DEF ReapCleans, managers
<1>3. reap[r].todo # <<>> /\ i \notin alive
  BY <1>1, <1>2 DEF PlaceInv, StoppedInv
<1>4. i \in Instances
  <2>1. Last(reap[r].todo) \in Entries
    BY <1>1, <1>3, TypeIs, FrontIs
  <2> QED
    BY <2>1 DEF Entries
<1>5. /\ keep \in Seq(Entries) /\ Unique(keep) /\ On(keep) \subseteq {i}
      /\ (~ok => i \in On(keep))
      /\ \A x \in Range(keep) : x.failed => x.svc \notin alive'
  <2> DEFINE x == uncleaned(i)
  <2>1. x \in Entries /\ x.svc = i
    BY <1>4 DEF uncleaned, Entry, Entries
  <2> HIDE DEF x
  <2>2. <<x>> \in Seq(Entries) /\ Unique(<<x>>) /\ On(<<x>>) = {i} /\ Range(<<x>>) = {x}
    BY <2>1, OneIs DEF Unique, On
  <2>3. (ok /\ keep = <<>>) \/ keep = <<x>>
    BY DEF x
  <2> HIDE DEF keep
  <2> QED
    BY <1>2, <1>3, <2>1, <2>2, <2>3, EmptyIs
<1>6. PICK j \in Instances : j = i
  BY <1>4
<1>7. Left(j)' => j \in On(keep)
  BY <1>2, <1>3, <1>5, <1>6 DEF Left
<1>8. /\ pc'[r] = "reaping" /\ \A q \in Axx : q # r => pc'[q] = pc[q]
  BY <1>1, <1>2, GoesTo DEF Places
<1> HIDE DEF keep
<1> QED
  BY <1>2, <1>3, <1>5, <1>7, <1>8, <1>6, EntryOverRecord

LEMMA ReapWritesRecord ==
  ASSUME RecordInv, FileInv', AloneInv', NEW r \in Axx, ReapWrites(r)
  PROVE  RecordInv'
<1>1. /\ TypeOK /\ LoadInv /\ StoppedInv /\ KnownInv /\ Runs \subseteq Axx
  BY DEF RecordInv, FileInv, Axx
<1>2. /\ pc[r] = "reaping" /\ reap[r].todo = <<>> /\ file'.services = reap[r].kept
      /\ \E to \in {"starting", "ended"} : goto(r, to)
      /\ UNCHANGED <<up, loaded, inherited, unclean, reap, alive, dirty, published>>
  BY DEF ReapWrites, reapOver, managers, services
<1>3. /\ pc'[r] \in {"starting", "ended"} /\ \A q \in Axx : q # r => pc'[q] = pc[q]
  BY <1>1, <1>2, GoesTo DEF Places
<1>4. \A e \in AllEntries' : e \in AllEntries
  BY <1>2, InAll, InAllNext
<1>5. \A i : Left(i)' <=> Left(i)
  BY <1>2 DEF Left
<1>6. StoppedInv'
  BY <1>1, <1>2, <1>3, <1>4 DEF StoppedInv
<1>7. KnownInv'
  <2>1. \A q \in Runs : Own(q)' = Own(q)
    BY <1>2 DEF Own
  <2>2. r \in Runs => ~loaded[r]
    BY <1>1, <1>2 DEF LoadInv, Fresh
  <2>3. \A q \in Runs : Going(q)' /\ loaded'[q] => Going(q) /\ loaded[q]
    BY <1>1, <1>2, <1>3, <2>2 DEF Going
  <2>4. \A q \in Axx : pc'[q] \in {"reaping", "reaped"} => pc[q] = pc'[q]
    BY <1>3
  <2> QED
    BY <1>1, <1>2, <1>5, <2>1, <2>3, <2>4 DEF KnownInv
<1>8. Recorded'
  <2>1. \A i \in Instances : Left(i)' => i \in On(file'.services)
    BY <1>1, <1>2, <1>5, EmptyIs DEF KnownInv
  <2> QED
    BY <2>1 DEF Recorded, On, Range
<1> QED
  BY <1>6, <1>7, <1>8 DEF RecordInv

\* A service that was launched is not left before it is published, and nobody is
\* before a cleanup that could take it for one that was stopped.
LEMMA launchRecord ==
  ASSUME RecordInv, FileInv', AloneInv', NEW r \in Runs, launch(r)
  PROVE  RecordInv'
<1> DEFINE i == <<r, started[r] + 1>>
<1>1. /\ TypeOK /\ EntryInv /\ PlaceInv /\ AloneInv /\ StoppedInv /\ KnownInv /\ Recorded
      /\ Runs \subseteq Axx
  BY DEF RecordInv, FileInv, Axx
<1>2. /\ pc[r] = "starting" /\ goto(r, "launched") /\ alive' = alive \union {i}
      /\ dirty' \subseteq dirty \union {i}
      /\ UNCHANGED <<file, up, loaded, inherited, unclean, reap, published>>
  BY DEF launch
<1>3. /\ pc'[r] = "launched" /\ \A q \in Axx : q # r => pc'[q] = pc[q]
  BY <1>1, <1>2, GoesTo DEF Places
<1>4. i \notin published
  <2>1. ~(started[r] + 1 <= started[r]) /\ i[1] = r /\ i[2] = started[r] + 1
    BY <1>1, TypeIs
  <2> QED
    BY <1>1, <2>1 DEF PlaceInv
<1>5. \A q \in Axx : q # r => pc[q] \notin {"reaping", "reaped", "stopped"} /\ ~Going(q)
  BY <1>1, <1>2, OnlyOne DEF Going
<1>6. AllEntries' = AllEntries
  BY <1>2, InAll, InAllNext
<1>7. StoppedInv'
  <2>1. \A e \in AllEntries' : e.failed => e.svc \notin alive'
    BY <1>1, <1>2, <1>4, <1>6 DEF StoppedInv, EntryInv
  <2>2. \A q \in Axx : pc'[q] \notin {"reaped", "stopped"}
    BY <1>3, <1>5
  <2> QED
    BY <1>1, <2>1, <2>2 DEF StoppedInv
<1>8. \A j : Left(j)' => Left(j)
  BY <1>2, <1>4 DEF Left
<1>9. KnownInv'
  <2>1. \A q \in Runs : Own(q)' = Own(q)
    BY <1>2 DEF Own
  <2>2. \A q \in Runs : Going(q)' => Going(q)
    BY <1>1, <1>2, <1>3 DEF Going
  <2>3. \A q \in Axx : pc'[q] \notin {"reaping", "reaped"}
    BY <1>3, <1>5
  <2> QED
    BY <1>1, <1>2, <1>8, <2>1, <2>2, <2>3 DEF KnownInv
<1>10. Recorded'
  BY <1>1, <1>2, <1>8 DEF Recorded
<1> QED
  BY <1>7, <1>9, <1>10 DEF RecordInv

\* A run that reads the file knows of all that is left.
LEMMA loadRecord ==
  ASSUME RecordInv, FileInv', AloneInv', NEW r \in Runs, load(r)
  PROVE  RecordInv'
<1> DEFINE inh == [n \in DOMAIN file.services |->
                     [file.services[n] EXCEPT !.owner = ownerOf(file, file.services[n])]]
<1>1. TypeOK /\ StoppedInv /\ KnownInv /\ Recorded /\ Runs \subseteq Axx
  BY DEF RecordInv, FileInv, Axx
<1>2. /\ pc[r] = "launched"
      /\ loaded' = [loaded EXCEPT ![r] = TRUE]
      /\ inherited' = [inherited EXCEPT ![r] = inh]
      /\ UNCHANGED <<file, pc, up, unclean, reap, alive, dirty, published>>
  BY DEF load, services
<1>3. /\ On(inh) = On(file.services)
      /\ \A e \in Range(inh) : \E f \in Range(file.services) :
            e.svc = f.svc /\ e.failed = f.failed
  BY <1>1, LoadedIs
<1> HIDE DEF inh
<1>4. /\ \A q \in Runs : q # r => loaded'[q] = loaded[q] /\ inherited'[q] = inherited[q]
      /\ inherited'[r] = inh
  BY <1>1, <1>2 DEF TypeOK
<1>5. \A e \in AllEntries' : e \in AllEntries \/ e \in Range(inh)
  BY <1>2, <1>4, InAll, InAllNext
<1>6. \A i : Left(i)' <=> Left(i)
  BY <1>2 DEF Left
<1>7. StoppedInv'
  <2>1. \A f \in Range(file.services) : f.failed => f.svc \notin alive
    BY <1>1, InAll DEF StoppedInv
  <2>2. \A e \in AllEntries' : e.failed => e.svc \notin alive'
    BY <1>1, <1>2, <1>3, <1>5, <2>1 DEF StoppedInv
  <2> QED
    BY <1>1, <1>2, <2>2 DEF StoppedInv
<1>8. \A i \in Instances : Left(i) => i \in On(file.services)
  BY <1>1 DEF Recorded, On, Range
<1>9. KnownInv'
  <2>1. \A q \in Runs : Own(q)' = Own(q) /\ (Going(q)' <=> Going(q))
    BY <1>2 DEF Own, Going
  <2>2. \A i \in Instances : Left(i)' => i \in On(inherited'[r])
    BY <1>3, <1>4, <1>6, <1>8
  <2> QED
    BY <1>1, <1>2, <1>4, <1>6, <2>1, <2>2 DEF KnownInv
<1>10. Recorded'
  BY <1>1, <1>2, <1>6 DEF Recorded
<1> QED
  BY <1>7, <1>9, <1>10 DEF RecordInv

\* A step of r that writes the file with services ups up and entries uncl of
\* failed cleanups, which are all that is left.
LEMMA SaveRecord ==
  ASSUME RecordInv, FileInv', AloneInv', NEW r \in Runs, Going(r),
         NEW ups \in Seq(Svc), NEW uncl \in Seq(Entries),
         up' = [up EXCEPT ![r] = ups], unclean' = [unclean EXCEPT ![r] = uncl],
         file' = saved(r, inherited[r], uncl, ups),
         UNCHANGED <<loaded, inherited, reap, alive>>,
         pc'[r] \in {"starting", "stopping", "ended"}, \A q \in Axx : q # r => pc'[q] = pc[q],
         \A i \in Instances : Left(i)' =>
           i \in On(inherited[r]) \/ i \in On(uncl) \/ \E k \in Range(ups) : i = <<r, k>>,
         \A e \in Range(uncl) : e.failed => e.svc \notin alive
  PROVE  RecordInv'
<1>1. /\ TypeOK /\ AloneInv /\ StoppedInv /\ Runs \subseteq Axx
  BY DEF RecordInv, FileInv, Axx
<1>2. PICK inh \in Seq(Entries) : inh = inherited[r]
  BY <1>1, TypeIs
<1>3. /\ \A e : e \in Range(file'.services) <=>
                  e \in Range(inh) \/ e \in Range(uncl) \/ e \in OwnEntries(r, ups)
      /\ \A i : i \in On(file'.services) <=>
                  i \in On(inh) \/ i \in On(uncl) \/ i \in Of(r, ups)
  <2> DEFINE f == saved(r, inh, uncl, ups)
  <2>1. \A e : e \in Range(f.services) <=>
                e \in Range(inh) \/ e \in Range(uncl) \/ e \in OwnEntries(r, ups)
    BY SavedIs
  <2>2. \A i : i \in On(f.services) <=>
                i \in On(inh) \/ i \in On(uncl) \/ i \in Of(r, ups)
    BY SavedIs
  <2>3. file' = f
    BY <1>2
  <2> HIDE DEF f
  <2> QED
    BY <2>1, <2>2, <2>3
<1>4. /\ up'[r] = ups /\ unclean'[r] = uncl
      /\ \A q \in Runs : q # r => up'[q] = up[q] /\ unclean'[q] = unclean[q]
  BY <1>1 DEF TypeOK
<1>5. \A e \in AllEntries' : e \in AllEntries \cup Range(uncl) \cup OwnEntries(r, ups)
  BY <1>2, <1>3, <1>4, InAll, InAllNext
<1>6. \A q \in Axx : q # r => ~Going(q)' /\ pc'[q] \notin {"reaping", "reaped", "stopped"}
  BY <1>1, OnlyOne DEF Going
<1>7. StoppedInv'
  <2>1. \A e \in OwnEntries(r, ups) : ~e.failed
    BY DEF OwnEntries, Entry
  <2>2. \A e \in AllEntries' : e.failed => e.svc \notin alive'
    BY <1>1, <1>5, <2>1 DEF StoppedInv
  <2>3. \A q \in Axx : pc'[q] \notin {"reaped", "stopped"}
    BY <1>6
  <2> QED
    BY <1>1, <2>2, <2>3 DEF StoppedInv
<1>8. Own(r)' = {<<r, k>> : k \in Range(ups)}
  BY <1>4 DEF Own
<1>9. KnownInv'
  <2>1. \A i \in Instances : Left(i)' =>
          i \in On(inherited'[r]) \cup On(unclean'[r]) \cup Own(r)'
    BY <1>4, <1>8
  <2>2. \A q \in Axx : pc'[q] \notin {"reaping", "reaped"}
    BY <1>6
  <2> QED
    BY <1>1, <1>6, <2>1, <2>2 DEF KnownInv
<1>10. Recorded'
  <2>1. \A i \in Instances : Left(i)' => i \in On(file'.services)
    BY <1>2, <1>3 DEF Of
  <2> QED
    BY <2>1 DEF Recorded, On, Range
<1> QED
  BY <1>7, <1>9, <1>10 DEF RecordInv

LEMMA publishRecord ==
  ASSUME RecordInv, FileInv', AloneInv', NEW r \in Runs, publish(r)
  PROVE  RecordInv'
<1>1. /\ FileInv /\ TypeOK /\ PlaceInv /\ StoppedInv /\ KnownInv /\ Runs \subseteq Axx
  BY DEF RecordInv, FileInv, Axx
<1>2. /\ pc[r] = "launched" /\ loaded[r] /\ goto(r, "starting")
      /\ up' = [up EXCEPT ![r] = Append(up[r], started[r])]
      /\ published' = published \union {<<r, started[r]>>}
      /\ file' = saved(r, inherited[r], unclean[r], up'[r])
      /\ UNCHANGED <<loaded, inherited, unclean, reap, alive, dirty>>
  BY <1>1 DEF publish, services, TypeOK
<1>3. PICK k \in Svc : k = started[r]
  BY <1>1, <1>2 DEF PlaceInv
<1>4. up[r] \in Seq(Svc) /\ unclean[r] \in Seq(Entries)
  BY <1>1, TypeIs
<1>5. PICK ups \in Seq(Svc) : ups = Append(up[r], k) /\ Range(ups) = Range(up[r]) \cup {k}
  <2>1. /\ Append(up[r], k) \in Seq(Svc)
        /\ Range(Append(up[r], k)) = Range(up[r]) \cup {k}
    BY <1>3, <1>4, AppendIs
  <2> QED
    BY <2>1
<1>6. /\ up' = [up EXCEPT ![r] = ups] /\ unclean' = [unclean EXCEPT ![r] = unclean[r]]
      /\ file' = saved(r, inherited[r], unclean[r], ups)
  BY <1>1, <1>2, <1>3, <1>5 DEF TypeOK
<1>7. /\ pc'[r] = "starting" /\ \A q \in Axx : q # r => pc'[q] = pc[q]
  BY <1>1, <1>2, GoesTo DEF Places
<1>8. Going(r)
  BY <1>2 DEF Going
<1>9. \A i : Left(i)' => Left(i) \/ i = <<r, k>>
  BY <1>2, <1>3 DEF Left
<1>10. \A i \in Instances : Left(i)' =>
         i \in On(inherited[r]) \/ i \in On(unclean[r]) \/ \E l \in Range(ups) : i = <<r, l>>
  BY <1>1, <1>2, <1>5, <1>8, <1>9 DEF KnownInv, Own
<1>11. \A e \in Range(unclean[r]) : e.failed => e.svc \notin alive
  BY <1>1, InAll DEF StoppedInv
<1> QED
  BY <1>2, <1>4, <1>6, <1>7, <1>8, <1>10, <1>11, SaveRecord

LEMMA stopCleanupRecord ==
  ASSUME RecordInv, FileInv', AloneInv', NEW r \in Runs, NEW ok \in BOOLEAN, stopCleanup(r, ok)
  PROVE  RecordInv'
<1>1. /\ FileInv /\ TypeOK /\ LoadInv /\ PlaceInv /\ StoppedInv /\ KnownInv /\ Runs \subseteq Axx
  BY DEF RecordInv, FileInv, Axx
<1>2. /\ pc[r] = "stopped" /\ goto(r, "stopping")
      /\ dirty' = IF ok THEN dirty \ {<<r, Last(up[r])>>} ELSE dirty
      /\ unclean' = IF ok THEN unclean
                    ELSE [unclean EXCEPT ![r] = Append(unclean[r], uncleaned(<<r, Last(up[r])>>))]
      /\ up' = [up EXCEPT ![r] = Front(up[r])]
      /\ file' = saved(r, inherited[r], unclean'[r], up'[r])
      /\ UNCHANGED <<loaded, inherited, reap, alive, published>>
  BY <1>1 DEF stopCleanup, TypeOK
<1>3. up[r] # <<>> /\ loaded[r] /\ Going(r)
  BY <1>1, <1>2 DEF PlaceInv, LoadInv, Going
<1>4. up[r] \in Seq(Svc) /\ unclean[r] \in Seq(Entries)
  BY <1>1, TypeIs
<1>5. /\ Front(up[r]) \in Seq(Svc) /\ Last(up[r]) \in Svc
      /\ Range(up[r]) = Range(Front(up[r])) \cup {Last(up[r])}
  BY <1>3, <1>4, FrontIs
<1>6. PICK k \in Svc : k = Last(up[r])
  BY <1>5
<1>7. PICK ups \in Seq(Svc) : ups = Front(up[r]) /\ Range(up[r]) = Range(ups) \cup {k}
  BY <1>5, <1>6
<1>8. PICK i \in Instances : i = <<r, k>>
  BY DEF Instances
<1>9. i \notin alive
  BY <1>1, <1>2, <1>6, <1>8 DEF StoppedInv
<1>10. PICK x \in Entries : x = uncleaned(i) /\ x.svc = i
  <2>1. uncleaned(i) \in Entries /\ uncleaned(i).svc = i
    BY DEF uncleaned, Entry, Entries
  <2> QED
    BY <2>1
<1>11. PICK uncl \in Seq(Entries) :
         /\ uncl = IF ok THEN unclean[r] ELSE Append(unclean[r], x)
         /\ Range(uncl) \subseteq Range(unclean[r]) \cup {x}
         /\ Range(unclean[r]) \subseteq Range(uncl)
         /\ ok \/ x \in Range(uncl)
  <2>1. CASE ok
    BY <1>4, <2>1
  <2>2. CASE ~ok
    <3>1. /\ Append(unclean[r], x) \in Seq(Entries)
          /\ Range(Append(unclean[r], x)) = Range(unclean[r]) \cup {x}
      BY <1>4, AppendIs
    <3> QED
      BY <2>2, <3>1
  <2> QED
    BY <2>1, <2>2
<1>12. unclean' = [unclean EXCEPT ![r] = uncl]
  BY <1>1, <1>2, <1>6, <1>8, <1>10, <1>11 DEF TypeOK
<1>13. /\ up' = [up EXCEPT ![r] = ups]
       /\ file' = saved(r, inherited[r], uncl, ups)
  BY <1>1, <1>2, <1>7, <1>12 DEF TypeOK
<1>14. /\ pc'[r] = "stopping" /\ \A q \in Axx : q # r => pc'[q] = pc[q]
  BY <1>1, <1>2, GoesTo DEF Places
<1>15. \A j : Left(j)' => Left(j)
  BY <1>2 DEF Left
<1>16. ok => ~Left(i)'
  BY <1>2, <1>6, <1>8, <1>9 DEF Left
<1>17. On(unclean[r]) \subseteq On(uncl) /\ (ok \/ i \in On(uncl))
  BY <1>10, <1>11 DEF On
<1>18. \A j \in Instances : Left(j)' =>
         j \in On(inherited[r]) \/ j \in On(uncl) \/ \E l \in Range(ups) : j = <<r, l>>
  <2> SUFFICES ASSUME NEW j \in Instances, Left(j)'
               PROVE  j \in On(inherited[r]) \/ j \in On(uncl) \/ \E l \in Range(ups) : j = <<r, l>>
    OBVIOUS
  <2>1. j \in On(inherited[r]) \cup On(unclean[r]) \cup Own(r)
    BY <1>1, <1>3, <1>15 DEF KnownInv
  <2>2. j \in Own(r) => j = i \/ \E l \in Range(ups) : j = <<r, l>>
    BY <1>7, <1>8 DEF Own
  <2> QED
    BY <1>16, <1>17, <2>1, <2>2
<1>19. \A e \in Range(uncl) : e.failed => e.svc \notin alive
  BY <1>1, <1>9, <1>10, <1>11, InAll DEF StoppedInv
<1> QED
  BY <1>2, <1>3, <1>12, <1>13, <1>14, <1>18, <1>19, SaveRecord

LEMMA StopOverRecord ==
  ASSUME RecordInv, FileInv', AloneInv', NEW r \in Runs, StopOver(r)
  PROVE  RecordInv'
<1>1. /\ TypeOK /\ LoadInv /\ StoppedInv /\ KnownInv /\ Runs \subseteq Axx
  BY DEF RecordInv, FileInv, Axx
<1>2. /\ pc[r] = "stopping" /\ up[r] = <<>> /\ goto(r, "ended")
      /\ file' = saved(r, inherited[r], unclean[r], <<>>)
      /\ UNCHANGED <<up, loaded, inherited, unclean, reap, alive, dirty, published>>
  BY DEF StopOver, managers, services
<1>3. loaded[r] /\ Going(r)
  BY <1>1, <1>2 DEF LoadInv, Going
<1>4. up[r] \in Seq(Svc) /\ unclean[r] \in Seq(Entries)
  BY <1>1, TypeIs
<1>5. /\ up' = [up EXCEPT ![r] = up[r]] /\ unclean' = [unclean EXCEPT ![r] = unclean[r]]
      /\ file' = saved(r, inherited[r], unclean[r], up[r])
  BY <1>1, <1>2 DEF TypeOK
<1>6. /\ pc'[r] = "ended" /\ \A q \in Axx : q # r => pc'[q] = pc[q]
  BY <1>1, <1>2, GoesTo DEF Places
<1>7. \A i \in Instances : Left(i)' =>
        i \in On(inherited[r]) \/ i \in On(unclean[r]) \/ \E l \in Range(up[r]) : i = <<r, l>>
  BY <1>1, <1>2, <1>3 DEF KnownInv, Own, Left
<1>8. \A e \in Range(unclean[r]) : e.failed => e.svc \notin alive
  BY <1>1, InAll DEF StoppedInv
<1> QED
  BY <1>2, <1>3, <1>4, <1>5, <1>6, <1>7, <1>8, SaveRecord

LEMMA RecordInit == Init => RecordInv
<1> SUFFICES ASSUME Init PROVE RecordInv
  OBVIOUS
<1>1. FileInv
  BY FileInit
<1>2. /\ \A r \in Axx : pc[r] = "new" /\ reap[r].todo = <<>> /\ reap[r].kept = <<>>
      /\ \A r \in Runs : r \in Axx /\ inherited[r] = <<>> /\ unclean[r] = <<>>
      /\ alive = {} /\ published = {} /\ file.services = <<>>
  BY DEF Init, NoReap, NoFile, Axx
<1>3. AllEntries = {}
  BY <1>2, InAll, EmptyIs
<1> QED
  BY <1>1, <1>2, <1>3 DEF RecordInv, AloneInv, StoppedInv, KnownInv, Recorded, Left, Going

LEMMA RecordNext ==
  ASSUME ~Overlap, StopOutcomes \subseteq {"gone"}, RecordInv, [Next]_vars
  PROVE  RecordInv'
<1>1. FileInv' /\ AloneInv'
  BY FileNext, AloneNext DEF RecordInv, FileInv
<1>2. CASE UNCHANGED vars
  <2>1. UNCHANGED <<file, pc, up, loaded, inherited, unclean, reap, alive, dirty, published>>
    BY <1>2 DEF vars, managers, services
  <2> QED
    BY <1>1, <2>1, QuietRecord DEF Going
<1>3. CASE Next
  <2>1. CASE \E r \in Axx : Begin(r) \/ Kill(r)
    BY <1>1, <2>1, BeginRecord, KillRecord
  <2>2. CASE \E r \in Axx : Reap(r)
    BY <1>1, <2>2, ReapReadsRecord, ReapStopsRecord, ReapCleansRecord, ReapWritesRecord DEF Reap
  <2>3. CASE \E r \in Runs : Run(r)
    BY <1>1, <2>3, checkEarlierRunsRecord, launchRecord, loadRecord, publishRecord, StopRecord,
       StopOverRecord, stopServiceRecord, stopCleanupRecord DEF Run
  <2>4. CASE \E i \in Instances : Exits(i)
    BY <1>1, <2>4, ExitsRecord
  <2> QED
    BY <1>3, <2>1, <2>2, <2>3, <2>4 DEF Next
<1> QED
  BY <1>2, <1>3

-----------------------------------------------------------------------------
(* SlateInv *)

LEMMA LeadNext ==
  ASSUME TypeOK, LeadInv, [Next]_vars
  PROVE  LeadInv'
<1>1. CASE UNCHANGED <<alive, lead>>
  BY <1>1 DEF LeadInv
<1>2. ASSUME NEW i, alive' = alive \ {i}, lead' = lead \ {i}
      PROVE  LeadInv'
  BY <1>2 DEF LeadInv
<1>3. ASSUME NEW r \in Runs, launch(r)
      PROVE  LeadInv'
  BY <1>3 DEF launch, LeadInv
<1>4. ASSUME NEW r \in Axx, Kill(r)
      PROVE  LeadInv'
  BY <1>4 DEF Kill, LeadInv
<1>5. ASSUME NEW i \in Instances, Exits(i)
      PROVE  LeadInv'
  BY <1>5 DEF Exits, LeadInv
<1>6. ASSUME NEW r \in Axx, Reap(r)
      PROVE  LeadInv'
  <2>1. CASE \E o \in ReapOutcomes : ReapStops(r, o)
    BY <1>1, <1>2, <2>1 DEF ReapStops
  <2>2. CASE ReapReads(r) \/ (\E ok \in BOOLEAN : ReapCleans(r, ok)) \/ ReapWrites(r)
    BY <1>1, <2>2 DEF ReapReads, ReapCleans, ReapWrites, services
  <2> QED
    BY <1>6, <2>1, <2>2 DEF Reap
<1>7. ASSUME NEW r \in Runs, Run(r)
      PROVE  LeadInv'
  <2>1. CASE \E o \in StopOutcomes : stopService(r, o)
    BY <1>1, <1>2, <2>1 DEF stopService
  <2>2. CASE checkEarlierRuns(r) \/ load(r) \/ publish(r) \/ Stop(r) \/ StopOver(r)
    BY <1>1, <2>2 DEF checkEarlierRuns, load, publish, Stop, StopOver, services
  <2>3. CASE \E ok \in BOOLEAN : stopCleanup(r, ok)
    BY <1>1, <2>3 DEF stopCleanup
  <2> QED
    BY <1>3, <1>7, <2>1, <2>2, <2>3 DEF Run
<1>8. CASE UNCHANGED vars
  BY <1>1, <1>8 DEF vars, services
<1>9. CASE \E r \in Axx : Begin(r)
  BY <1>1, <1>9 DEF Begin, services
<1> QED
  BY <1>4, <1>5, <1>6, <1>7, <1>8, <1>9 DEF Next

LEMMA KeptNext ==
  ASSUME FileInv, KeptInv, [Next]_vars
  PROVE  KeptInv'
<1>1. TypeOK
  BY DEF FileInv
<1>2. CASE UNCHANGED reap
  BY <1>2 DEF KeptInv
<1>3. ASSUME NEW r \in Axx, NEW keep \in Seq(Entries), NEW failed \in BOOLEAN,
             entryOver(r, keep, failed), failed \/ keep = <<>>
      PROVE  KeptInv'
  <2>1. /\ reap'[r].kept = keep \o reap[r].kept /\ reap'[r].failed = (reap[r].failed \/ failed)
        /\ \A q \in Axx : q # r => reap'[q] = reap[q]
    BY <1>1, <1>3 DEF entryOver, TypeOK
  <2>2. keep = <<>> /\ reap[r].kept = <<>> => keep \o reap[r].kept = <<>>
    OBVIOUS
  <2> QED
    BY <1>3, <2>1, <2>2 DEF KeptInv
<1>4. ASSUME NEW r \in Axx, ReapReads(r)
      PROVE  KeptInv'
  <2>1. CASE reap' = [reap EXCEPT ![r] = [NoReap EXCEPT !.todo = file.services]]
    <3>1. reap'[r].kept = <<>> /\ \A q \in Axx : q # r => reap'[q] = reap[q]
      BY <1>1, <2>1 DEF NoReap, TypeOK
    <3> QED
      BY <3>1 DEF KeptInv
  <2> QED
    BY <1>2, <1>4, <2>1 DEF ReapReads
<1>5. ASSUME NEW r \in Axx, NEW o, ReapStops(r, o)
      PROVE  KeptInv'
  <2>1. Last(reap[r].todo) \in Entries
    BY <1>1, <1>5, TypeIs, FrontIs DEF ReapStops
  <2>2. PICK x \in Entries : x = [Last(reap[r].todo) EXCEPT !.owner = NoRun]
    BY <2>1 DEF Entries
  <2>3. <<x>> \in Seq(Entries) /\ <<>> \in Seq(Entries)
    BY OneIs, EmptyIs
  <2> QED
    BY <1>2, <1>3, <1>5, <2>2, <2>3 DEF ReapStops
<1>6. ASSUME NEW r \in Axx, NEW ok \in BOOLEAN, ReapCleans(r, ok)
      PROVE  KeptInv'
  <2>1. reap[r].todo # <<>>
    BY <1>6 DEF FileInv, PlaceInv, ReapCleans
  <2>2. Last(reap[r].todo).svc \in Instances
    <3>1. Last(reap[r].todo) \in Entries
      BY <1>1, <2>1, TypeIs, FrontIs
    <3> QED
      BY <3>1 DEF Entries
  <2>3. PICK x \in Entries : x = uncleaned(Last(reap[r].todo).svc)
    BY <2>2 DEF uncleaned, Entry, Entries
  <2>4. <<x>> \in Seq(Entries) /\ <<>> \in Seq(Entries)
    BY OneIs, EmptyIs
  <2>5. entryOver(r, IF ok THEN <<>> ELSE <<x>>, ~ok)
    BY <1>6, <2>3 DEF ReapCleans
  <2> QED
    BY <1>3, <2>4, <2>5
<1>7. ASSUME NEW r \in Axx, Begin(r) \/ Kill(r) \/ ReapWrites(r)
      PROVE  KeptInv'
  BY <1>2, <1>7 DEF Begin, Kill, ReapWrites
<1>8. ASSUME NEW r \in Runs, Run(r)
      PROVE  KeptInv'
  <2>1. UNCHANGED reap
    BY <1>8 DEF Run, checkEarlierRuns, launch, load, publish, Stop, StopOver, stopService, stopCleanup
  <2> QED
    BY <1>2, <2>1
<1>9. CASE UNCHANGED vars \/ \E i \in Instances : Exits(i)
  BY <1>2, <1>9 DEF vars, Exits
<1> QED
  BY <1>4, <1>5, <1>6, <1>7, <1>8, <1>9 DEF Next, Reap

\* What entries say of processes: none belongs to a process that looks at what
\* earlier runs left.
LEMMA NotRunning ==
  ASSUME FileInv, AloneInv, NEW r \in Runs, pc[r] = "checking", NEW e \in Range(file.services)
  PROVE  stateOf(file, e) # "running"
<1>1. TypeOK /\ EntryInv /\ LoadInv /\ r \in Axx
  BY DEF FileInv, Axx
<1>2. e \in Entries /\ e \in AllEntries
  BY <1>1, TypeIs, SeqIs, InAll
<1>3. ownerOf(file, e) \in Runs \cup {NoRun}
  BY <1>1, <1>2 DEF ownerOf, Entries, TypeOK
<1>4. ownerOf(file, e) # NoRun => loaded[ownerOf(file, e)]
  BY <1>1, <1>2 DEF ownerOf, EntryInv
<1>5. ~loaded[r]
  BY <1>1 DEF LoadInv, Fresh
<1>6. \A q \in Runs : q # r => ~Going(q)
  BY <1>1, OnlyOne DEF Going, Axx
<1>7. ownerOf(file, e) # NoRun => ~Going(ownerOf(file, e))
  BY <1>3, <1>4, <1>5, <1>6
<1> QED
  BY <1>7 DEF stateOf

\* A step that lets nobody come to its services leaves the slate clean.
LEMMA SlateKeeps ==
  ASSUME CleanSlate, \A r \in Runs : Works(r)' => Works(r),
         \A r \in Runs : Works(r) => \A i \in Instances : Left(i)' => Left(i) \/ i[1] = r
  PROVE  CleanSlate'
BY DEF CleanSlate, Works

LEMMA checkEarlierRunsSlate ==
  ASSUME Launchers \subseteq HasCleanup, SlateInv, NEW r \in Runs, checkEarlierRuns(r)
  PROVE  CleanSlate'
<1>1. /\ FileInv /\ TypeOK /\ PlaceInv /\ AloneInv /\ Recorded /\ LeadInv /\ CleanSlate
      /\ Runs \subseteq Axx
  BY DEF SlateInv, RecordInv, FileInv, Axx
<1>2. pc[r] = "checking" /\ UNCHANGED <<file, alive, dirty, published>>
  BY DEF checkEarlierRuns, services
<1>3. \A i : Left(i)' <=> Left(i)
  BY <1>2 DEF Left
<1>4. CASE states(file) \intersect {"left over", "not cleaned up"} = {}
  <2>1. ASSUME NEW i \in Instances, Left(i)
        PROVE  FALSE
    <3>1. PICK n \in DOMAIN file.services : file.services[n].svc = i
      BY <1>1, <2>1 DEF Recorded
    <3>2. PICK e \in Range(file.services) : e.svc = i
      BY <3>1 DEF Range
    <3>3. stateOf(file, e) \in states(file)
      BY DEF states
    <3>4. stateOf(file, e) \notin {"running", "left over", "not cleaned up"}
      BY <1>1, <1>2, <1>4, <3>3, NotRunning
    <3>5. i \notin lead /\ i[2] \notin HasCleanup
      BY <3>2, <3>4 DEF stateOf
    <3>6. i \notin dirty /\ i \notin alive
      BY <1>1, <3>5 DEF PlaceInv, LeadInv
    <3> QED
      BY <2>1, <3>6 DEF Left
  <2> QED
    BY <1>3, <2>1 DEF CleanSlate
<1>5. CASE states(file) \intersect {"left over", "not cleaned up"} # {}
  <2>1. \E to \in {"ended", "reading"} : goto(r, to)
    BY <1>5 DEF checkEarlierRuns
  <2>2. /\ pc'[r] \in {"ended", "reading"} /\ \A q \in Axx : q # r => pc'[q] = pc[q]
    BY <1>1, <2>1, GoesTo DEF Places
  <2> QED
    BY <1>1, <1>3, <2>2, SlateKeeps DEF Works
<1> QED
  BY <1>4, <1>5

LEMMA ReapSlate ==
  ASSUME SlateInv, NEW r \in Axx, Reap(r)
  PROVE  CleanSlate'
<1>1. /\ TypeOK /\ Recorded /\ KnownInv /\ KeptInv /\ CleanSlate /\ Runs \subseteq Axx
  BY DEF SlateInv, RecordInv, FileInv, Axx
<1>2. published' = published /\ alive' \subseteq alive /\ dirty' \subseteq dirty
  BY DEF Reap, ReapReads, ReapStops, ReapCleans, ReapWrites, services
<1>3. \A i : Left(i)' => Left(i)
  BY <1>2 DEF Left
<1>4. ASSUME \A q \in Axx : q # r => pc'[q] = pc[q],
             pc'[r] \in {"reaping", "reaped", "ended"} \/ pc'[r] = pc[r]
      PROVE  CleanSlate'
  BY <1>1, <1>3, <1>4, SlateKeeps DEF Works
<1>5. CASE ReapReads(r)
  <2>1. CASE file.services = <<>>
    <3>1. \A i \in Instances : ~Left(i)
      BY <1>1, <2>1, EmptyIs DEF Recorded
    <3> QED
      BY <1>3, <3>1 DEF CleanSlate
  <2>2. CASE file.services # <<>>
    <3>1. goto(r, "reaping")
      BY <1>5, <2>2 DEF ReapReads
    <3> QED
      BY <1>1, <1>4, <3>1, GoesTo DEF Places
  <2> QED
    BY <2>1, <2>2
<1>6. CASE \E o \in ReapOutcomes : ReapStops(r, o)
  <2>1. pc' = pc \/ goto(r, "reaped")
    BY <1>6 DEF ReapStops
  <2> QED
    BY <1>1, <1>4, <2>1, GoesTo DEF Places
<1>7. CASE \E ok \in BOOLEAN : ReapCleans(r, ok)
  <2>1. goto(r, "reaping")
    BY <1>7 DEF ReapCleans
  <2> QED
    BY <1>1, <1>4, <2>1, GoesTo DEF Places
<1>8. CASE ReapWrites(r)
  <2>1. CASE reap[r].failed
    <3>1. goto(r, "ended")
      BY <1>8, <2>1 DEF ReapWrites, reapOver
    <3> QED
      BY <1>1, <1>4, <3>1, GoesTo DEF Places
  <2>2. CASE ~reap[r].failed
    <3>1. pc[r] = "reaping" /\ reap[r].todo = <<>> /\ reap[r].kept = <<>>
      BY <1>1, <1>8, <2>2 DEF ReapWrites, KeptInv
    <3>2. \A i \in Instances : ~Left(i)
      BY <1>1, <3>1, EmptyIs DEF KnownInv
    <3> QED
      BY <1>3, <3>2 DEF CleanSlate
  <2> QED
    BY <2>1, <2>2
<1> QED
  BY <1>5, <1>6, <1>7, <1>8 DEF Reap

\* What a run itself launches and publishes is its own.
LEMMA RunSlate ==
  ASSUME SlateInv, NEW r \in Runs, Works(r),
         \A q \in Axx : q # r => pc'[q] = pc[q],
         \A i \in published' \ published : i[1] = r,
         \A i \in alive' \ alive : i[1] = r,
         \A i \in dirty' \ dirty : i[1] = r
  PROVE  CleanSlate'
<1>1. TypeOK /\ AloneInv /\ CleanSlate /\ Runs \subseteq Axx
  BY DEF SlateInv, RecordInv, FileInv, Axx
<1>2. \A q \in Runs : q # r => ~Works(q)
  BY <1>1, OnlyOne DEF Works, Going
<1>3. \A q \in Runs : Works(q)' => Works(q)
  BY <1>1 DEF Works
<1>4. \A i : Left(i)' => Left(i) \/ i[1] = r
  BY DEF Left
<1> QED
  BY <1>1, <1>2, <1>3, <1>4, SlateKeeps

LEMMA SlateInit == Init => SlateInv
<1> SUFFICES ASSUME Init PROVE SlateInv
  OBVIOUS
<1>1. /\ \A r \in Axx : pc[r] = "new" /\ reap[r].kept = <<>>
      /\ alive = {} /\ Runs \subseteq Axx
  BY DEF Init, NoReap, Axx
<1> QED
  BY <1>1, RecordInit DEF SlateInv, LeadInv, KeptInv, CleanSlate

LEMMA SlateNext ==
  ASSUME ~Overlap, StopOutcomes \subseteq {"gone"}, Launchers \subseteq HasCleanup,
         SlateInv, [Next]_vars
  PROVE  SlateInv'
<1>1. RecordInv /\ FileInv /\ TypeOK /\ LeadInv /\ KeptInv /\ CleanSlate /\ Runs \subseteq Axx
  BY DEF SlateInv, RecordInv, FileInv, Axx
<1>2. RecordInv' /\ LeadInv' /\ KeptInv'
  BY <1>1, RecordNext, LeadNext, KeptNext
<1>3. CleanSlate'
  <2>1. ASSUME UNCHANGED <<alive, dirty, published, pc>>
        PROVE  CleanSlate'
    BY <1>1, <2>1 DEF CleanSlate, Left
  <2>2. ASSUME NEW r \in Axx, Begin(r) \/ Kill(r)
        PROVE  CleanSlate'
    <3>1. published' = published /\ alive' \subseteq alive /\ dirty' = dirty
      BY <2>2 DEF Begin, Kill, services
    <3>2. \A i : Left(i)' => Left(i)
      BY <3>1 DEF Left
    <3>3. /\ pc'[r] \in {"checking", "reading", "killed"}
          /\ \A q \in Axx : q # r => pc'[q] = pc[q]
      BY <1>1, <2>2, GoesTo DEF Begin, Kill, Places
    <3> QED
      BY <1>1, <3>2, <3>3, SlateKeeps DEF Works
  <2>3. ASSUME NEW i \in Instances, Exits(i)
        PROVE  CleanSlate'
    <3>1. published' = published /\ alive' \subseteq alive /\ dirty' = dirty /\ pc' = pc
      BY <2>3 DEF Exits
    <3> QED
      BY <1>1, <3>1 DEF CleanSlate, Left
  <2>4. ASSUME NEW r \in Runs, Run(r), ~checkEarlierRuns(r)
        PROVE  CleanSlate'
    <3>1. Works(r)
      BY <2>4 DEF Run, launch, load, publish, Stop, StopOver, stopService, stopCleanup, Works
    <3>2. \A q \in Axx : q # r => pc'[q] = pc[q]
      <4>1. pc' = pc \/ \E to \in Places : goto(r, to)
        BY <2>4 DEF Run, launch, load, publish, Stop, StopOver, stopService, stopCleanup, Places
      <4> QED
        BY <1>1, <4>1, GoesTo
    <3>3. /\ \A i \in published' \ published : i[1] = r
          /\ \A i \in alive' \ alive : i[1] = r
          /\ \A i \in dirty' \ dirty : i[1] = r
      <4>1. CASE launch(r)
        BY <4>1 DEF launch
      <4>2. CASE publish(r)
        BY <4>2 DEF publish, services
      <4>3. CASE ~launch(r) /\ ~publish(r)
        <5>1. published' = published /\ alive' \subseteq alive /\ dirty' \subseteq dirty
          BY <2>4, <4>3 DEF Run, load, Stop, StopOver, stopService, stopCleanup, services
        <5> QED
          BY <5>1
      <4> QED
        BY <4>1, <4>2, <4>3
    <3> QED
      BY <3>1, <3>2, <3>3, RunSlate
  <2>5. CASE UNCHANGED vars
    BY <2>1, <2>5 DEF vars, services
  <2> QED
    BY <2>2, <2>3, <2>4, <2>5, checkEarlierRunsSlate, ReapSlate DEF Next
<1> QED
  BY <1>2, <1>3 DEF SlateInv

-----------------------------------------------------------------------------
(* StaleInv *)

LEMMA OthersRest ==
  ASSUME TypeOK, AloneInv, NoneKilled, NEW r \in Axx, Going(r)
  PROVE  \A q \in Axx : q # r => pc[q] \in {"new", "ended"}
BY OnlyOne DEF NoneKilled, Going

\* The places the process that goes on can be at after a step.
LEMMA AtRest ==
  ASSUME NEW r \in Axx, \A q \in Axx : q # r => pc'[q] \in {"new", "ended"},
         pc'[r] \in {"new", "ended", "checking", "reading"},
         On(file'.services) \subseteq dirty'
  PROVE  FailedInv' /\ OwnInv'
<1>1. Runs \subseteq Axx /\ \A q \in Axx : pc'[q] \in {"new", "ended", "checking", "reading"}
  BY DEF Axx
<1>2. FailedInv'
  BY <1>1 DEF FailedInv
<1>3. OwnInv'
  BY <1>1 DEF OwnInv, Works
<1> QED
  BY <1>2, <1>3

LEMMA AtReap ==
  ASSUME NEW r \in Axx, \A q \in Axx : q # r => pc'[q] \in {"new", "ended"},
         pc'[r] \in {"reaping", "reaped"},
         On(reap'[r].todo) \cup On(reap'[r].kept) \subseteq dirty'
  PROVE  FailedInv' /\ OwnInv'
<1>1. /\ Runs \subseteq Axx
      /\ \A q \in Axx : pc'[q] \in {"new", "ended", "reaping", "reaped"}
  BY DEF Axx
<1>2. FailedInv'
  <2>1. \A q \in Axx : pc'[q] \in {"reaping", "reaped"} => q = r
    OBVIOUS
  <2> QED
    BY <2>1 DEF FailedInv
<1>3. OwnInv'
  BY <1>1 DEF OwnInv, Works
<1> QED
  BY <1>2, <1>3

LEMMA AtWork ==
  ASSUME NEW r \in Runs, \A q \in Axx : q # r => pc'[q] \in {"new", "ended"},
         pc'[r] \in {"starting", "launched", "stopping", "stopped"},
         inherited'[r] = <<>>, On(unclean'[r]) \subseteq dirty',
         On(file'.services) \subseteq On(unclean'[r]) \cup Own(r)',
         \A i \in Own(r)' : i[2] \in HasCleanup => i \in dirty',
         pc'[r] = "launched" /\ started'[r] \in HasCleanup => <<r, started'[r]>> \in dirty'
  PROVE  FailedInv' /\ OwnInv'
<1>1. Runs \subseteq Axx
  BY DEF Axx
<1>2. FailedInv'
  BY <1>1 DEF FailedInv
<1>3. \A q \in Runs : Works(q)' => q = r
  BY <1>1 DEF Works
<1>4. OwnInv'
  BY <1>3 DEF OwnInv
<1> QED
  BY <1>2, <1>4

\* A run that comes to its services has none up and has read nothing.
LEMMA ComesToWork ==
  ASSUME FileInv, NEW r \in Runs, Fresh(r),
         \A q \in Axx : q # r => pc'[q] \in {"new", "ended"}, pc'[r] = "starting",
         UNCHANGED <<up, inherited, unclean>>, On(file'.services) = {}
  PROVE  FailedInv' /\ OwnInv'
<1>1. up[r] = <<>> /\ inherited[r] = <<>> /\ unclean[r] = <<>>
  BY DEF FileInv, LoadInv
<1>2. Own(r)' = {} /\ On(unclean'[r]) = {}
  BY <1>1, EmptyIs DEF Own
<1> QED
  BY <1>1, <1>2, AtWork

LEMMA BeginStale ==
  ASSUME ~Overlap, StaleInv, NoneKilled, NEW r \in Axx, Begin(r)
  PROVE  FailedInv' /\ OwnInv'
<1>1. TypeOK /\ FailedInv
  BY DEF StaleInv, FileInv
<1>2. /\ pc[r] = "new" /\ \A q \in Axx : ~Going(q)
      /\ goto(r, IF r \in Runs THEN "checking" ELSE "reading") /\ UNCHANGED <<file, dirty>>
  BY DEF Begin, services
<1>3. \A q \in Axx : pc[q] \in {"new", "ended"}
  BY <1>2 DEF Going, NoneKilled
<1>4. /\ pc'[r] \in {"checking", "reading"} /\ \A q \in Axx : q # r => pc'[q] = pc[q]
  BY <1>1, <1>2, GoesTo DEF Places
<1>5. On(file'.services) \subseteq dirty'
  BY <1>1, <1>2, <1>3 DEF FailedInv
<1> QED
  BY <1>3, <1>4, <1>5, AtRest

LEMMA checkEarlierRunsStale ==
  ASSUME StaleInv, NoneKilled, NEW r \in Runs, checkEarlierRuns(r)
  PROVE  FailedInv' /\ OwnInv'
<1>1. /\ FileInv /\ TypeOK /\ PlaceInv /\ AloneInv /\ FailedInv /\ Runs \subseteq Axx
  BY DEF StaleInv, FileInv, Axx
<1>2. pc[r] = "checking" /\ UNCHANGED <<file, up, inherited, unclean, dirty>>
  BY DEF checkEarlierRuns, services, managers
<1>3. \A q \in Axx : q # r => pc[q] \in {"new", "ended"}
  BY <1>1, <1>2, OthersRest DEF Going
<1>4. On(file.services) \subseteq dirty
  BY <1>1, <1>2, <1>3 DEF FailedInv
<1>5. CASE states(file) \intersect {"left over", "not cleaned up"} = {}
  <2>1. ASSUME NEW e \in Range(file.services)
        PROVE  FALSE
    <3>1. e.svc \in dirty
      BY <1>4 DEF On
    <3>2. e.svc[2] \in HasCleanup
      BY <1>1, <3>1 DEF PlaceInv
    <3>3. stateOf(file, e) \in {"running", "left over", "not cleaned up"}
      BY <3>2 DEF stateOf
    <3>4. stateOf(file, e) # "running" /\ stateOf(file, e) \in states(file)
      BY <1>1, <1>2, NotRunning DEF states
    <3> QED
      BY <1>5, <3>3, <3>4
  <2>2. On(file'.services) = {}
    BY <1>2, <2>1 DEF On
  <2>3. goto(r, "starting")
    BY <1>5 DEF checkEarlierRuns
  <2>4. pc'[r] = "starting" /\ \A q \in Axx : q # r => pc'[q] = pc[q]
    BY <1>1, <2>3, GoesTo DEF Places
  <2> QED
    BY <1>1, <1>2, <1>3, <2>2, <2>4, ComesToWork DEF Fresh
<1>6. CASE states(file) \intersect {"left over", "not cleaned up"} # {}
  <2>1. \E to \in {"ended", "reading"} : goto(r, to)
    BY <1>6 DEF checkEarlierRuns
  <2>2. /\ pc'[r] \in {"ended", "reading"} /\ \A q \in Axx : q # r => pc'[q] = pc[q]
    BY <1>1, <2>1, GoesTo DEF Places
  <2> QED
    BY <1>1, <1>2, <1>3, <1>4, <2>2, AtRest
<1> QED
  BY <1>5, <1>6

LEMMA ReapReadsStale ==
  ASSUME StaleInv, NoneKilled, NEW r \in Axx, ReapReads(r)
  PROVE  FailedInv' /\ OwnInv'
<1>1. /\ FileInv /\ TypeOK /\ AloneInv /\ FailedInv /\ Runs \subseteq Axx
  BY DEF StaleInv, FileInv, Axx
<1>2. pc[r] = "reading" /\ UNCHANGED <<file, up, inherited, unclean, dirty>>
  BY DEF ReapReads, services, managers
<1>3. \A q \in Axx : q # r => pc[q] \in {"new", "ended"}
  BY <1>1, <1>2, OthersRest DEF Going
<1>4. On(file.services) \subseteq dirty
  BY <1>1, <1>2, <1>3 DEF FailedInv
<1>5. CASE file.services = <<>>
  <2>1. On(file'.services) = {}
    BY <1>2, <1>5, EmptyIs
  <2>2. goto(r, IF r \in Downs THEN "ended" ELSE "starting")
    BY <1>5 DEF ReapReads, reapOver
  <2>3. /\ pc'[r] = IF r \in Downs THEN "ended" ELSE "starting"
        /\ \A q \in Axx : q # r => pc'[q] = pc[q]
    BY <1>1, <2>2, GoesTo DEF Places
  <2>4. CASE r \in Downs
    BY <1>3, <2>1, <2>3, <2>4, AtRest
  <2>5. CASE r \notin Downs
    BY <1>1, <1>2, <1>3, <2>1, <2>3, <2>5, ComesToWork DEF Fresh, Axx
  <2> QED
    BY <2>4, <2>5
<1>6. CASE file.services # <<>>
  <2>1. /\ goto(r, "reaping")
        /\ reap' = [reap EXCEPT ![r] = [todo |-> file.services, kept |-> <<>>, failed |-> FALSE]]
    BY <1>6 DEF ReapReads, NoReap
  <2>2. pc'[r] = "reaping" /\ \A q \in Axx : q # r => pc'[q] = pc[q]
    BY <1>1, <2>1, GoesTo DEF Places
  <2>3. reap'[r].todo = file.services /\ reap'[r].kept = <<>>
    BY <1>1, <2>1 DEF TypeOK
  <2> QED
    BY <1>2, <1>3, <1>4, <2>2, <2>3, EmptyIs, AtReap
<1> QED
  BY <1>5, <1>6

\* A step of Reap that is done with an entry keeps none but of cleanups that failed.
LEMMA EntryOverStale ==
  ASSUME StaleInv, NoneKilled, NEW r \in Axx, reap[r].todo # <<>>,
         pc[r] \in {"reaping", "reaped"},
         NEW keep \in Seq(Entries), Unique(keep), On(keep) \subseteq {Last(reap[r].todo).svc},
         NEW failed \in BOOLEAN, entryOver(r, keep, failed),
         pc'[r] = "reaping", \A q \in Axx : q # r => pc'[q] = pc[q],
         \/ dirty' = dirty
         \/ keep = <<>> /\ dirty' = dirty \ {Last(reap[r].todo).svc}
  PROVE  FailedInv' /\ OwnInv'
<1>1. /\ FileInv /\ TypeOK /\ AloneInv /\ FailedInv
  BY DEF StaleInv, FileInv
<1>2. reap'[r].todo = Front(reap[r].todo) /\ reap'[r].kept = keep \o reap[r].kept
  BY <1>1 DEF entryOver, TypeOK
<1>3. /\ On(keep \o reap[r].kept) = On(keep) \cup On(reap[r].kept)
      /\ On(reap[r].todo) = On(Front(reap[r].todo)) \cup {Last(reap[r].todo).svc}
      /\ Last(reap[r].todo).svc \notin On(Front(reap[r].todo)) \cup On(reap[r].kept)
  BY <1>1, EntryOver
<1>4. On(reap[r].todo) \cup On(reap[r].kept) \subseteq dirty
  BY <1>1 DEF FailedInv
<1>5. On(reap'[r].todo) \cup On(reap'[r].kept) \subseteq dirty'
  <2>1. CASE dirty' = dirty
    BY <1>2, <1>3, <1>4, <2>1
  <2>2. CASE keep = <<>> /\ dirty' = dirty \ {Last(reap[r].todo).svc}
    <3>1. On(keep) = {}
      BY <2>2, EmptyIs
    <3> QED
      BY <1>2, <1>3, <1>4, <2>2, <3>1
  <2> QED
    BY <2>1, <2>2
<1>6. \A q \in Axx : q # r => pc'[q] \in {"new", "ended"}
  BY <1>1, OthersRest DEF Going
<1> QED
  BY <1>5, <1>6, AtReap

LEMMA ReapStopsStale ==
  ASSUME StaleInv, NoneKilled, NEW r \in Axx, NEW outcome, ReapStops(r, outcome)
  PROVE  FailedInv' /\ OwnInv'
<1> DEFINE e == Last(reap[r].todo)
<1>1. /\ FileInv /\ TypeOK /\ AloneInv /\ FailedInv
  BY DEF StaleInv, FileInv
<1>2. /\ pc[r] = "reaping" /\ reap[r].todo # <<>> /\ dirty' = dirty
      /\ \/ entryOver(r, <<[e EXCEPT !.owner = NoRun]>>, TRUE) /\ UNCHANGED pc
         \/ goto(r, "reaped") /\ UNCHANGED reap
         \/ entryOver(r, <<>>, FALSE) /\ UNCHANGED pc
  BY DEF ReapStops
<1>3. PICK x \in Entries : x = [e EXCEPT !.owner = NoRun] /\ x.svc = e.svc
  <2>1. e \in Entries
    BY <1>1, <1>2, TypeIs, FrontIs
  <2>2. [e EXCEPT !.owner = NoRun] \in Entries /\ [e EXCEPT !.owner = NoRun].svc = e.svc
    BY <2>1 DEF Entries
  <2> QED
    BY <2>2
<1>4. CASE entryOver(r, <<[e EXCEPT !.owner = NoRun]>>, TRUE) /\ UNCHANGED pc
  <2>1. <<x>> \in Seq(Entries) /\ Unique(<<x>>) /\ On(<<x>>) = {x.svc}
    BY OneIs DEF Unique, On
  <2>2. <<x>> \in Seq(Entries) /\ Unique(<<x>>) /\ On(<<x>>) = {e.svc}
    BY <1>3, <2>1
  <2>3. entryOver(r, <<x>>, TRUE) /\ pc' = pc
    BY <1>3, <1>4
  <2> QED
    BY <1>2, <2>2, <2>3, EntryOverStale
<1>5. CASE entryOver(r, <<>>, FALSE) /\ UNCHANGED pc
  BY <1>2, <1>5, EmptyIs, EntryOverStale
<1>6. CASE goto(r, "reaped") /\ UNCHANGED reap
  <2>1. pc'[r] = "reaped" /\ \A q \in Axx : q # r => pc'[q] = pc[q]
    BY <1>1, <1>6, GoesTo DEF Places
  <2>2. \A q \in Axx : q # r => pc'[q] \in {"new", "ended"}
    BY <1>1, <1>2, <2>1, OthersRest DEF Going
  <2>3. On(reap'[r].todo) \cup On(reap'[r].kept) \subseteq dirty'
    BY <1>1, <1>2, <1>6 DEF FailedInv
  <2> QED
    BY <2>1, <2>2, <2>3, AtReap
<1> QED
  BY <1>2, <1>4, <1>5, <1>6

LEMMA ReapCleansStale ==
  ASSUME StaleInv, NoneKilled, NEW r \in Axx, NEW ok \in BOOLEAN, ReapCleans(r, ok)
  PROVE  FailedInv' /\ OwnInv'
<1> DEFINE i == Last(reap[r].todo).svc
<1>1. TypeOK /\ PlaceInv
  BY DEF StaleInv, FileInv
<1>2. /\ pc[r] = "reaped" /\ goto(r, "reaping")
      /\ entryOver(r, IF ok THEN <<>> ELSE <<uncleaned(i)>>, ~ok)
      /\ dirty' = IF ok THEN dirty \ {i} ELSE dirty
  BY DEF ReapCleans
<1>3. reap[r].todo # <<>>
  BY <1>1, <1>2 DEF PlaceInv
<1>4. PICK x \in Entries : x = uncleaned(i) /\ x.svc = i
  <2>1. Last(reap[r].todo) \in Entries
    BY <1>1, <1>3, TypeIs, FrontIs
  <2>2. i \in Instances
    BY <2>1 DEF Entries
  <2>3. uncleaned(i) \in Entries /\ uncleaned(i).svc = i
    BY <2>2 DEF uncleaned, Entry, Entries
  <2> QED
    BY <2>3
<1>5. pc'[r] = "reaping" /\ \A q \in Axx : q # r => pc'[q] = pc[q]
  BY <1>1, <1>2, GoesTo DEF Places
<1>6. CASE ok
  <2>1. entryOver(r, <<>>, FALSE) /\ dirty' = dirty \ {i}
    BY <1>2, <1>6
  <2> QED
    BY <1>2, <1>3, <1>5, <2>1, EmptyIs, EntryOverStale
<1>7. CASE ~ok
  <2>1. <<x>> \in Seq(Entries) /\ Unique(<<x>>) /\ On(<<x>>) = {i}
    BY <1>4, OneIs DEF Unique, On
  <2>2. entryOver(r, <<x>>, TRUE) /\ dirty' = dirty
    BY <1>2, <1>4, <1>7
  <2> QED
    BY <1>2, <1>3, <1>5, <2>1, <2>2, EntryOverStale
<1> QED
  BY <1>6, <1>7

LEMMA ReapWritesStale ==
  ASSUME StaleInv, NoneKilled, NEW r \in Axx, ReapWrites(r)
  PROVE  FailedInv' /\ OwnInv'
<1>1. FileInv /\ TypeOK /\ AloneInv /\ KeptInv /\ FailedInv
  BY DEF StaleInv, FileInv
<1>2. /\ pc[r] = "reaping" /\ file'.services = reap[r].kept
      /\ goto(r, IF r \in Downs \/ reap[r].failed THEN "ended" ELSE "starting")
      /\ UNCHANGED <<up, inherited, unclean, dirty>>
  BY DEF ReapWrites, reapOver, services, managers
<1>3. /\ pc'[r] = IF r \in Downs \/ reap[r].failed THEN "ended" ELSE "starting"
      /\ \A q \in Axx : q # r => pc'[q] = pc[q]
  BY <1>1, <1>2, GoesTo DEF Places
<1>4. \A q \in Axx : q # r => pc'[q] \in {"new", "ended"}
  BY <1>1, <1>2, <1>3, OthersRest DEF Going
<1>5. CASE r \in Downs \/ reap[r].failed
  <2>1. On(file'.services) \subseteq dirty'
    BY <1>1, <1>2 DEF FailedInv
  <2> QED
    BY <1>3, <1>4, <1>5, <2>1, AtRest
<1>6. CASE ~(r \in Downs \/ reap[r].failed)
  <2>1. On(file'.services) = {}
    BY <1>1, <1>2, <1>6, EmptyIs DEF KeptInv
  <2> QED
    BY <1>1, <1>2, <1>3, <1>4, <1>6, <2>1, ComesToWork DEF Fresh, Axx
<1> QED
  BY <1>5, <1>6

LEMMA launchStale ==
  ASSUME StaleInv, NoneKilled, NEW r \in Runs, launch(r)
  PROVE  FailedInv' /\ OwnInv'
<1>1. TypeOK /\ AloneInv /\ OwnInv /\ Runs \subseteq Axx
  BY DEF StaleInv, FileInv, Axx
<1>2. /\ pc[r] = "starting" /\ goto(r, "launched")
      /\ started' = [started EXCEPT ![r] = started[r] + 1]
      /\ started[r] + 1 \in HasCleanup => <<r, started[r] + 1>> \in dirty'
      /\ dirty \subseteq dirty'
      /\ UNCHANGED <<file, up, inherited, unclean>>
  BY <1>1 DEF launch, TypeOK
<1>3. pc'[r] = "launched" /\ \A q \in Axx : q # r => pc'[q] = pc[q]
  BY <1>1, <1>2, GoesTo DEF Places
<1>4. \A q \in Axx : q # r => pc'[q] \in {"new", "ended"}
  BY <1>1, <1>2, <1>3, OthersRest DEF Going
<1>5. started'[r] = started[r] + 1 /\ Own(r)' = Own(r)
  BY <1>1, <1>2 DEF TypeOK, Own
<1>6. /\ inherited[r] = <<>> /\ On(unclean[r]) \subseteq dirty
      /\ On(file.services) \subseteq On(unclean[r]) \cup Own(r)
      /\ \A i \in Own(r) : i[2] \in HasCleanup => i \in dirty
  BY <1>1, <1>2 DEF OwnInv, Works
<1> QED
  BY <1>2, <1>3, <1>4, <1>5, <1>6, AtWork

LEMMA loadStale ==
  ASSUME StaleInv, NoneKilled, NEW r \in Runs, load(r)
  PROVE  FailedInv' /\ OwnInv'
<1> DEFINE inh == [n \in DOMAIN file.services |->
                     [file.services[n] EXCEPT !.owner = ownerOf(file, file.services[n])]]
<1>1. TypeOK /\ LoadInv /\ AloneInv /\ OwnInv /\ Runs \subseteq Axx
  BY DEF StaleInv, FileInv, Axx
<1>2. /\ pc[r] = "launched" /\ ~loaded[r]
      /\ inherited' = [inherited EXCEPT ![r] = inh]
      /\ UNCHANGED <<file, pc, started, up, unclean, dirty>>
  BY DEF load, services
<1>3. up[r] = <<>> /\ unclean[r] = <<>>
  BY <1>1, <1>2 DEF LoadInv
<1>4. Own(r) = {} /\ On(unclean[r]) = {}
  BY <1>3, EmptyIs DEF Own
<1>5. /\ On(file.services) \subseteq On(unclean[r]) \cup Own(r)
      /\ started[r] \in HasCleanup => <<r, started[r]>> \in dirty
  BY <1>1, <1>2 DEF OwnInv, Works
<1>6. file.services = <<>>
  <2>1. \A e \in Range(file.services) : e.svc \in On(file.services)
    BY DEF On
  <2> QED
    BY <1>1, <1>4, <1>5, <2>1, TypeIs, SeqIs
<1>7. inh = <<>>
  BY <1>1, <1>6, LoadedIs
<1> HIDE DEF inh
<1>8. inherited'[r] = <<>>
  BY <1>1, <1>2, <1>7 DEF TypeOK
<1>9. Own(r)' = {}
  BY <1>2, <1>4 DEF Own
<1>10. \A q \in Axx : q # r => pc'[q] \in {"new", "ended"}
  BY <1>1, <1>2, OthersRest DEF Going
<1> QED
  BY <1>2, <1>4, <1>5, <1>8, <1>9, <1>10, AtWork

LEMMA publishStale ==
  ASSUME StaleInv, NoneKilled, NEW r \in Runs, publish(r)
  PROVE  FailedInv' /\ OwnInv'
<1>1. FileInv /\ TypeOK /\ PlaceInv /\ AloneInv /\ OwnInv /\ Runs \subseteq Axx
  BY DEF StaleInv, FileInv, Axx
<1>2. /\ pc[r] = "launched" /\ goto(r, "starting")
      /\ up' = [up EXCEPT ![r] = Append(up[r], started[r])]
      /\ file' = saved(r, inherited[r], unclean[r], up'[r])
      /\ UNCHANGED <<inherited, unclean, dirty>>
  BY <1>1 DEF publish, services, TypeOK
<1>3. PICK k \in Svc : k = started[r]
  BY <1>1, <1>2 DEF PlaceInv
<1>4. /\ inherited[r] = <<>> /\ On(unclean[r]) \subseteq dirty
      /\ \A i \in Own(r) : i[2] \in HasCleanup => i \in dirty
      /\ k \in HasCleanup => <<r, k>> \in dirty
  BY <1>1, <1>2, <1>3 DEF OwnInv, Works
<1>5. /\ Append(up[r], k) \in Seq(Svc)
      /\ Range(Append(up[r], k)) = Range(up[r]) \cup {k}
  BY <1>1, <1>3, TypeIs, AppendIs
<1>6. up'[r] = Append(up[r], k)
  BY <1>1, <1>2, <1>3 DEF TypeOK
<1>7. PICK ups \in Seq(Svc), uncl \in Seq(Entries), inh \in Seq(Entries) :
        ups = up'[r] /\ uncl = unclean[r] /\ inh = inherited[r]
  BY <1>1, <1>5, <1>6, TypeIs
<1>8. file' = saved(r, inh, uncl, ups)
  BY <1>2, <1>7
<1>9. \A i \in On(file'.services) : i \in On(inh) \/ i \in On(uncl) \/ i \in Of(r, ups)
  BY <1>8, SavedIs
<1>10. Own(r)' = Of(r, ups)
  BY <1>7 DEF Own, Of
<1>11. \A i \in Own(r)' : i \in Own(r) \/ i = <<r, k>>
  BY <1>5, <1>6 DEF Own
<1>12. On(file'.services) \subseteq On(unclean'[r]) \cup Own(r)'
  BY <1>2, <1>4, <1>7, <1>9, <1>10, EmptyIs
<1>13. pc'[r] = "starting" /\ \A q \in Axx : q # r => pc'[q] = pc[q]
  BY <1>1, <1>2, GoesTo DEF Places
<1>14. \A q \in Axx : q # r => pc'[q] \in {"new", "ended"}
  BY <1>1, <1>2, <1>13, OthersRest DEF Going
<1>15. \A i \in Own(r)' : i[2] \in HasCleanup => i \in dirty'
  BY <1>2, <1>4, <1>11
<1> QED
  BY <1>2, <1>4, <1>12, <1>13, <1>14, <1>15, AtWork

LEMMA StopStale ==
  ASSUME StaleInv, NoneKilled, NEW r \in Runs, Stop(r)
  PROVE  FailedInv' /\ OwnInv'
<1>1. TypeOK /\ AloneInv /\ OwnInv /\ Runs \subseteq Axx
  BY DEF StaleInv, FileInv, Axx
<1>2. /\ pc[r] = "starting" /\ goto(r, IF up[r] = <<>> THEN "ended" ELSE "stopping")
      /\ UNCHANGED <<file, up, inherited, unclean, dirty>>
  BY DEF Stop, services, managers
<1>3. /\ pc'[r] = IF up[r] = <<>> THEN "ended" ELSE "stopping"
      /\ \A q \in Axx : q # r => pc'[q] = pc[q]
  BY <1>1, <1>2, GoesTo DEF Places
<1>4. \A q \in Axx : q # r => pc'[q] \in {"new", "ended"}
  BY <1>1, <1>2, <1>3, OthersRest DEF Going
<1>5. /\ inherited[r] = <<>> /\ On(unclean[r]) \subseteq dirty
      /\ On(file.services) \subseteq On(unclean[r]) \cup Own(r)
      /\ \A i \in Own(r) : i[2] \in HasCleanup => i \in dirty
  BY <1>1, <1>2 DEF OwnInv, Works
<1>6. CASE up[r] = <<>>
  <2>1. Own(r) = {}
    BY <1>6, EmptyIs DEF Own
  <2> QED
    BY <1>1, <1>2, <1>3, <1>4, <1>5, <1>6, <2>1, AtRest
<1>7. CASE up[r] # <<>>
  <2>1. Own(r)' = Own(r)
    BY <1>2 DEF Own
  <2> QED
    BY <1>2, <1>3, <1>4, <1>5, <1>7, <2>1, AtWork
<1> QED
  BY <1>6, <1>7

LEMMA stopServiceStale ==
  ASSUME StaleInv, NoneKilled, NEW r \in Runs, NEW outcome, stopService(r, outcome)
  PROVE  FailedInv' /\ OwnInv'
<1>1. TypeOK /\ AloneInv /\ OwnInv /\ Runs \subseteq Axx
  BY DEF StaleInv, FileInv, Axx
<1>2. /\ pc[r] = "stopping" /\ goto(r, "stopped")
      /\ UNCHANGED <<file, up, inherited, unclean, dirty>>
  BY DEF stopService, managers
<1>3. pc'[r] = "stopped" /\ \A q \in Axx : q # r => pc'[q] = pc[q]
  BY <1>1, <1>2, GoesTo DEF Places
<1>4. \A q \in Axx : q # r => pc'[q] \in {"new", "ended"}
  BY <1>1, <1>2, <1>3, OthersRest DEF Going
<1>5. /\ inherited[r] = <<>> /\ On(unclean[r]) \subseteq dirty
      /\ On(file.services) \subseteq On(unclean[r]) \cup Own(r)
      /\ \A i \in Own(r) : i[2] \in HasCleanup => i \in dirty
  BY <1>1, <1>2 DEF OwnInv, Works
<1>6. Own(r)' = Own(r)
  BY <1>2 DEF Own
<1> QED
  BY <1>2, <1>3, <1>4, <1>5, <1>6, AtWork

\* A cleanup that failed leaves its service as it was: not cleaned up.
LEMMA stopCleanupStale ==
  ASSUME StaleInv, NoneKilled, NEW r \in Runs, NEW ok \in BOOLEAN, stopCleanup(r, ok)
  PROVE  FailedInv' /\ OwnInv'
<1>1. /\ FileInv /\ TypeOK /\ PlaceInv /\ UniqueInv /\ AloneInv /\ OwnInv /\ Runs \subseteq Axx
  BY DEF StaleInv, FileInv, Axx
<1>2. /\ pc[r] = "stopped" /\ goto(r, "stopping") /\ (ok \/ Last(up[r]) \in HasCleanup)
      /\ dirty' = IF ok THEN dirty \ {<<r, Last(up[r])>>} ELSE dirty
      /\ unclean' = IF ok THEN unclean
                    ELSE [unclean EXCEPT ![r] = Append(unclean[r], uncleaned(<<r, Last(up[r])>>))]
      /\ up' = [up EXCEPT ![r] = Front(up[r])]
      /\ file' = saved(r, inherited[r], unclean'[r], up'[r])
      /\ UNCHANGED inherited
  BY <1>1 DEF stopCleanup, TypeOK
<1>3. up[r] # <<>> /\ pc[r] = "stopped" /\ goto(r, "stopping")
  BY <1>1 DEF PlaceInv, stopCleanup
<1>4. /\ up[r] \in Seq(Svc) /\ unclean[r] \in Seq(Entries)
      /\ \A m, n \in DOMAIN up[r] : up[r][m] = up[r][n] => m = n
      /\ On(unclean[r]) \cap Own(r) = {}
  BY <1>1, TypeIs DEF UniqueInv
<1>5. /\ Front(up[r]) \in Seq(Svc) /\ Last(up[r]) \in Svc
      /\ Range(up[r]) = Range(Front(up[r])) \cup {Last(up[r])}
      /\ DOMAIN Front(up[r]) = 1..(Len(up[r]) - 1)
      /\ \A n \in 1..(Len(up[r]) - 1) : Front(up[r])[n] = up[r][n]
  BY <1>3, <1>4, FrontIs
<1>6. Last(up[r]) \notin Range(Front(up[r]))
  <2>1. Len(up[r]) \in Nat /\ DOMAIN up[r] = 1..Len(up[r]) /\ Len(up[r]) \in DOMAIN up[r]
    BY <1>3, <1>4, SeqIs
  <2>2. \A n \in 1..(Len(up[r]) - 1) : n \in DOMAIN up[r] /\ n # Len(up[r])
    BY <2>1, BeforeLast
  <2> QED
    BY <1>4, <1>5, <2>1, <2>2 DEF Range, Last
<1>7. PICK k \in Svc : k = Last(up[r])
  BY <1>5
<1>8. PICK ups \in Seq(Svc) :
        ups = Front(up[r]) /\ Range(up[r]) = Range(ups) \cup {k} /\ k \notin Range(ups)
  BY <1>5, <1>6, <1>7
<1>9. PICK i \in Instances : i = <<r, k>>
  BY DEF Instances
<1>10. i \in Own(r) /\ i \notin On(unclean[r])
  BY <1>4, <1>8, <1>9 DEF Own
<1>11. PICK x \in Entries : x = uncleaned(i) /\ x.svc = i
  <2>1. uncleaned(i) \in Entries /\ uncleaned(i).svc = i
    BY DEF uncleaned, Entry, Entries
  <2> QED
    BY <2>1
<1>12. PICK uncl \in Seq(Entries) :
         /\ uncl = IF ok THEN unclean[r] ELSE Append(unclean[r], x)
         /\ On(uncl) \subseteq On(unclean[r]) \cup {i} /\ (ok => i \notin On(uncl))
  <2>1. CASE ok
    BY <1>4, <1>10, <2>1
  <2>2. CASE ~ok
    <3>1. /\ Append(unclean[r], x) \in Seq(Entries)
          /\ Range(Append(unclean[r], x)) = Range(unclean[r]) \cup {x}
      BY <1>4, AppendIs
    <3>2. On(Append(unclean[r], x)) = On(unclean[r]) \cup {x.svc}
      BY <3>1 DEF On
    <3> QED
      BY <1>11, <2>2, <3>1, <3>2
  <2> QED
    BY <2>1, <2>2
<1>13. up'[r] = ups /\ unclean'[r] = uncl
  BY <1>1, <1>2, <1>7, <1>8, <1>9, <1>11, <1>12 DEF TypeOK
<1>14. /\ inherited[r] = <<>> /\ On(unclean[r]) \subseteq dirty
       /\ \A j \in Own(r) : j[2] \in HasCleanup => j \in dirty
  BY <1>1, <1>3 DEF OwnInv, Works
<1>15. Own(r)' = Of(r, ups) /\ Own(r)' \subseteq Own(r) \ {i}
  BY <1>8, <1>9, <1>13 DEF Own, Of
<1>16. dirty' = (IF ok THEN dirty \ {i} ELSE dirty) /\ (~ok => i \in dirty)
  <2>1. ~ok => i[2] \in HasCleanup
    BY <1>2, <1>7, <1>9
  <2> QED
    BY <1>2, <1>7, <1>9, <1>10, <1>14, <2>1
<1>17. On(unclean'[r]) \subseteq dirty'
  BY <1>12, <1>13, <1>14, <1>16
<1>18. \A j \in Own(r)' : j[2] \in HasCleanup => j \in dirty'
  BY <1>14, <1>15, <1>16
<1>19. PICK inh \in Seq(Entries) : inh = inherited[r]
  BY <1>1, TypeIs
<1>20. file' = saved(r, inh, uncl, ups)
  BY <1>2, <1>13, <1>19
<1>21. \A j \in On(file'.services) : j \in On(inh) \/ j \in On(uncl) \/ j \in Of(r, ups)
  BY <1>20, SavedIs
<1>22. On(file'.services) \subseteq On(unclean'[r]) \cup Own(r)'
  BY <1>13, <1>14, <1>15, <1>19, <1>21, EmptyIs
<1>23. pc'[r] = "stopping" /\ \A q \in Axx : q # r => pc'[q] = pc[q]
  BY <1>1, <1>3, GoesTo DEF Places
<1>24. \A q \in Axx : q # r => pc'[q] \in {"new", "ended"}
  BY <1>1, <1>3, <1>23, OthersRest DEF Going
<1> QED
  BY <1>2, <1>14, <1>17, <1>18, <1>22, <1>23, <1>24, AtWork

LEMMA StopOverStale ==
  ASSUME StaleInv, NoneKilled, NEW r \in Runs, StopOver(r)
  PROVE  FailedInv' /\ OwnInv'
<1>1. TypeOK /\ AloneInv /\ OwnInv /\ Runs \subseteq Axx
  BY DEF StaleInv, FileInv, Axx
<1>2. /\ pc[r] = "stopping" /\ goto(r, "ended")
      /\ file' = saved(r, inherited[r], unclean[r], <<>>) /\ dirty' = dirty
  BY DEF StopOver, services
<1>3. pc'[r] = "ended" /\ \A q \in Axx : q # r => pc'[q] = pc[q]
  BY <1>1, <1>2, GoesTo DEF Places
<1>4. \A q \in Axx : q # r => pc'[q] \in {"new", "ended"}
  BY <1>1, <1>2, <1>3, OthersRest DEF Going
<1>5. inherited[r] = <<>> /\ On(unclean[r]) \subseteq dirty
  BY <1>1, <1>2 DEF OwnInv, Works
<1>6. PICK ups \in Seq(Svc), uncl \in Seq(Entries), inh \in Seq(Entries) :
        ups = <<>> /\ uncl = unclean[r] /\ inh = inherited[r]
  BY <1>1, TypeIs, EmptyIs
<1>7. file' = saved(r, inh, uncl, ups)
  BY <1>2, <1>6
<1>8. \A i \in On(file'.services) : i \in On(inh) \/ i \in On(uncl) \/ i \in Of(r, ups)
  BY <1>7, SavedIs
<1>9. On(inh) = {} /\ Of(r, ups) = {}
  BY <1>5, <1>6, EmptyIs DEF Of
<1>10. On(file'.services) \subseteq dirty'
  BY <1>2, <1>5, <1>6, <1>8, <1>9
<1> QED
  BY <1>1, <1>3, <1>4, <1>10, AtRest

LEMMA StaleInit == Init => StaleInv
<1> SUFFICES ASSUME Init PROVE StaleInv
  OBVIOUS
<1>1. FileInv
  BY FileInit
<1>2. /\ \A r \in Axx : pc[r] = "new" /\ reap[r].kept = <<>>
      /\ file.services = <<>> /\ Runs \subseteq Axx
  BY DEF Init, NoReap, NoFile, Axx
<1>3. AloneInv /\ KeptInv
  BY <1>2 DEF AloneInv, KeptInv, Going
<1>4. FailedInv /\ OwnInv
  BY <1>2, EmptyIs DEF FailedInv, OwnInv, Works
<1> QED
  BY <1>1, <1>3, <1>4 DEF StaleInv

LEMMA StaleNext ==
  ASSUME ~Overlap, StaleInv, [Next]_vars
  PROVE  StaleInv'
<1>1. FileInv /\ TypeOK /\ AloneInv /\ KeptInv
  BY DEF StaleInv, FileInv
<1>2. FileInv' /\ AloneInv' /\ KeptInv'
  BY <1>1, FileNext, AloneNext, KeptNext
<1>3. ASSUME NoneKilled'
      PROVE  FailedInv' /\ OwnInv'
  <2>1. NoneKilled /\ FailedInv /\ OwnInv
    BY <1>1, <1>3, NoneKilledBefore DEF StaleInv
  <2>2. ASSUME UNCHANGED <<file, pc, started, up, inherited, unclean, reap, dirty>>
        PROVE  FailedInv' /\ OwnInv'
    <3>1. \A q \in Runs : Own(q)' = Own(q)
      BY <2>2 DEF Own
    <3>2. FailedInv'
      BY <2>1, <2>2 DEF FailedInv
    <3>3. OwnInv'
      BY <2>1, <2>2, <3>1 DEF OwnInv, Works
    <3> QED
      BY <3>2, <3>3
  <2>3. CASE UNCHANGED vars
    BY <2>2, <2>3 DEF vars, services, managers
  <2>4. ASSUME NEW r \in Axx, Kill(r)
        PROVE  FALSE
    BY <1>1, <1>3, <2>4, GoesTo DEF Kill, Places, NoneKilled
  <2>5. ASSUME NEW i \in Instances, Exits(i)
        PROVE  FailedInv' /\ OwnInv'
    BY <2>2, <2>5 DEF Exits, managers
  <2>6. ASSUME NEW r \in Axx, Reap(r)
        PROVE  FailedInv' /\ OwnInv'
    BY <2>1, <2>6, ReapReadsStale, ReapStopsStale, ReapCleansStale, ReapWritesStale DEF Reap
  <2>7. ASSUME NEW r \in Runs, Run(r)
        PROVE  FailedInv' /\ OwnInv'
    BY <2>1, <2>7, checkEarlierRunsStale, launchStale, loadStale, publishStale, StopStale,
       StopOverStale, stopServiceStale, stopCleanupStale DEF Run
  <2> QED
    BY <2>1, <2>3, <2>4, <2>5, <2>6, <2>7, BeginStale DEF Next
<1> QED
  BY <1>2, <1>3 DEF StaleInv

-----------------------------------------------------------------------------
(* The theorems *)

\* Whatever processes overlap and wherever they are killed, the file and what
\* each process remembers of it stay well formed, and no service has two
\* entries in the file saveStateLocked and Reap write.
THEOREM StateTypeCorrect == Spec => []TypeOK
<1>1. Init => FileInv
  BY FileInit
<1>2. FileInv /\ [Next]_vars => FileInv'
  BY FileNext
<1>3. FileInv => TypeOK
  BY DEF FileInv
<1> QED
  BY <1>1, <1>2, <1>3, PTL DEF Spec

\* One process at a time, and no Stop that leaves a process running: each
\* service that runs, or was not cleaned up, is in the file.
THEOREM StateRecorded ==
  ASSUME ~Overlap, StopOutcomes \subseteq {"gone"}
  PROVE  Spec => []Recorded
<1>1. Init => RecordInv
  BY RecordInit
<1>2. RecordInv /\ [Next]_vars => RecordInv'
  BY RecordNext
<1>3. RecordInv => Recorded
  BY DEF RecordInv
<1> QED
  BY <1>1, <1>2, <1>3, PTL DEF Spec

\* When launchers have a cleanup besides, a run that came past checkEarlierRuns
\* has its services to itself: nothing of an earlier run still runs, or was not
\* cleaned up.
THEOREM StateCleanSlate ==
  ASSUME ~Overlap, StopOutcomes \subseteq {"gone"}, Launchers \subseteq HasCleanup
  PROVE  Spec => []CleanSlate
<1>1. Init => SlateInv
  BY SlateInit
<1>2. SlateInv /\ [Next]_vars => SlateInv'
  BY SlateNext
<1>3. SlateInv => CleanSlate
  BY DEF SlateInv
<1> QED
  BY <1>1, <1>2, <1>3, PTL DEF Spec

\* One process at a time: when all ended in order, what the file has is left
\* indeed, and no later Reap cleans up again or stops what is not ours.
THEOREM StateNoStaleEntry ==
  ASSUME ~Overlap
  PROVE  Spec => []NoStaleEntry
<1>1. Init => StaleInv
  BY StaleInit
<1>2. StaleInv /\ [Next]_vars => StaleInv'
  BY StaleNext
<1>3. StaleInv => NoStaleEntry
  <2> SUFFICES ASSUME StaleInv, \A r \in Axx : pc[r] \in {"new", "ended"},
                      NEW n \in DOMAIN file.services
               PROVE  Left(file.services[n].svc)
    BY DEF NoStaleEntry
  <2>1. FailedInv /\ EntryInv
    BY DEF StaleInv, FileInv, NoneKilled
  <2>2. file.services[n] \in Range(file.services)
    BY DEF Range
  <2>3. file.services[n].svc \in On(file.services) /\ file.services[n] \in AllEntries
    BY <2>2, InAll DEF On
  <2> QED
    BY <2>1, <2>3 DEF FailedInv, EntryInv, Left
<1> QED
  BY <1>1, <1>2, <1>3, PTL DEF Spec

=============================================================================
