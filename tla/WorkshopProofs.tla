--------------------------- MODULE WorkshopProofs ---------------------------
(***************************************************************************)
(* Theorems about what surrounds the worlds: the router of model turns,    *)
(* updates of the application, backups, the growth of characters and the   *)
(* package library, each for all values of its constants; and about the    *)
(* five side by side, as TLC explores them (MCWorkshop).                   *)
(***************************************************************************)
EXTENDS MCWorkshop, FiniteSetTheorems, WellFoundedInduction, TLAPS

-----------------------------------------------------------------------------
(* The least member of a set of numbers *)

\* A set of numbers that is not empty has a least member.
LEMMA LeastMember ==
  ASSUME NEW S, S \subseteq Nat, S # {}
  PROVE  \E m \in S : \A n \in S : m <= n
<1> DEFINE R == OpToRel(<, Nat)
<1>1. IsWellFoundedOn(R, Nat)
  BY NatLessThanWellFounded
<1>2. PICK m \in S : \A n \in S : ~ (<<n, m>> \in R)
  BY <1>1, WFMin
<1>3. ASSUME NEW n \in S PROVE m <= n
  <2>1. <<n, m>> \in Nat \X Nat
    BY S \subseteq Nat
  <2>2. ~ (n < m)
    BY <1>2, <2>1 DEF OpToRel
  <2> QED
    BY <2>2, S \subseteq Nat
<1> QED
  BY <1>3


-----------------------------------------------------------------------------
(* The router of model turns *)

RightsIds  == {RightsOf[t] : t \in Asks} \cup {"none"}
WorkerType == [id : Nat, rights : RightsIds]

JobType ==
  [at : JobPlaces, in : 0 .. MaxAdapters, on : Nat, again : BOOLEAN, heard : BOOLEAN,
   seen : BOOLEAN, collided : BOOLEAN, threw : BOOLEAN, why : {"none", "passing", "denied"},
   alive : BOOLEAN, twice : BOOLEAN]

RoomTyped ==
  /\ entry \in [RouteIds -> 0 .. MaxAdapters]
  /\ made \in Seq({PrintOf[t] : t \in Asks})
  /\ Len(made) <= MaxAdapters
  /\ losses \in 0 .. MaxLosses

RunsTyped ==
  /\ worker \in [Adapters -> [Askers -> WorkerType]]
  /\ spawned \in Nat
  /\ line \in [Adapters -> [Askers -> Seq(Asks)]]
  /\ job \in [Asks -> JobType]

(* What holds of a turn by itself *)

\* Nothing of a turn has been seen when it is still to run, and what was seen was
\* heard in this run.
JobInOrder(r) ==
  /\ ~r.twice
  /\ r.seen => r.heard
  /\ r.at \in {"new", "entering", "queued", "resetting"} => ~r.seen
  /\ r.at \in {"queued", "running", "failed", "resetting"} => r.in \in Adapters

JobsInOrder == \A t \in Asks : JobInOrder(job[t])

(* The lines and the workers *)

LineOf(t) == line[job[t].in][AskerOf[t]]

\* A queued turn stands in its line, a running one at the head of it.
LinesInOrder ==
  \A t \in Asks :
    /\ job[t].at = "queued" => \E k \in 1 .. Len(LineOf(t)) : LineOf(t)[k] = t
    /\ job[t].at = "running" => LineOf(t) # << >> /\ LineOf(t)[1] = t

\* Workers have ids of their own, and none but spawned ones.
OwnWorkers ==
  /\ \A a \in Adapters, e \in Askers :
       /\ worker[a][e].id <= spawned
       /\ worker[a][e].id = 0 => worker[a][e].rights = "none"
  /\ \A a, b \in Adapters, e, f \in Askers :
       worker[a][e].id = worker[b][f].id /\ worker[a][e].id # 0 => a = b /\ e = f

\* The worker a turn runs on is that of its character in its adapter, or closed.
RunsAtHome ==
  \A t \in Asks :
    /\ job[t].on <= spawned
    /\ job[t].at = "running" =>
         /\ job[t].on # 0
         /\ \A a \in Adapters, e \in Askers :
              worker[a][e].id = job[t].on => a = job[t].in /\ e = AskerOf[t]

WorkersInOrder == OwnWorkers /\ RunsAtHome /\ OneRunPerWorker

RouterInv == RoomTyped /\ RunsTyped /\ JobsInOrder /\ LinesInOrder /\ WorkersInOrder

(***************************************************************************)
(* How a step changes the turns                                            *)
(***************************************************************************)

\* Whether its worker lives is all that closing changes of a turn.
Alike(r, s) ==
  /\ r.at = s.at /\ r.in = s.in /\ r.on = s.on
  /\ r.heard = s.heard /\ r.seen = s.seen /\ r.twice = s.twice

\* The turn t becomes r.
Becomes(t, r) ==
  /\ job' \in [Asks -> JobType]
  /\ Alike(job'[t], r)
  /\ \A u \in Asks \ {t} : Alike(job'[u], job[u])

\* Workers are closed, none is spawned.
Closing ==
  /\ spawned' = spawned
  /\ worker' \in [Adapters -> [Askers -> WorkerType]]
  /\ \A a \in Adapters, e \in Askers : worker'[a][e] \in {worker[a][e], NoWorker}

LEMMA Names ==
  /\ \A t \in Asks : AskerOf[t] \in Askers /\ ModelOf[t] \in RouteIds
  /\ \A t \in Asks : RightsOf[t] \in RightsIds /\ RightsOf[t] # "none"
  /\ NoWorker \in WorkerType
  /\ NoWorker.id = 0 /\ NoWorker.rights = "none"
BY RouterAssumption DEF Askers, RouteIds, RightsIds, WorkerType, NoWorker

LEMMA Fields ==
  ASSUME NEW r \in JobType
  PROVE  /\ r.at \in JobPlaces /\ r.in \in 0 .. MaxAdapters /\ r.on \in Nat
         /\ r.again \in BOOLEAN /\ r.heard \in BOOLEAN /\ r.seen \in BOOLEAN
         /\ r.collided \in BOOLEAN /\ r.threw \in BOOLEAN /\ r.alive \in BOOLEAN
         /\ r.twice \in BOOLEAN /\ r.why \in {"none", "passing", "denied"}
BY DEF JobType

LEMMA SameOrder ==
  ASSUME NEW r, NEW s, Alike(r, s), JobInOrder(s)
  PROVE  JobInOrder(r)
BY DEF Alike, JobInOrder

LEMMA ChangedJob ==
  ASSUME job \in [Asks -> JobType], NEW t \in Asks, NEW r \in JobType,
         job' = [job EXCEPT ![t] = r]
  PROVE  Becomes(t, r)
BY DEF Becomes, Alike

LEMMA CutJob ==
  ASSUME job \in [Asks -> JobType], NEW t \in Asks, NEW r \in JobType, NEW ids,
         job' = CutOff([job EXCEPT ![t] = r], ids)
  PROVE  Becomes(t, r)
<1> DEFINE J == [job EXCEPT ![t] = r]
<1>1. J \in [Asks -> JobType] /\ J[t] = r /\ \A u \in Asks \ {t} : J[u] = job[u]
  OBVIOUS
<1>2. job' = [u \in Asks |-> IF J[u].at = "running" /\ J[u].on \in ids
                             THEN [J[u] EXCEPT !.alive = FALSE] ELSE J[u]]
  BY DEF CutOff
<1> HIDE DEF J
<1>3. \A u \in Asks : [J[u] EXCEPT !.alive = FALSE] \in JobType
  BY ZenonT(40), <1>1 DEF JobType
<1>4. \A u \in Asks : Alike([J[u] EXCEPT !.alive = FALSE], J[u])
  BY <1>1 DEF JobType, Alike
<1>5. \A u \in Asks : job'[u] \in JobType /\ Alike(job'[u], J[u])
  BY ZenonT(40), <1>1, <1>2, <1>3, <1>4 DEF Alike
<1>6. job' \in [Asks -> JobType]
  BY <1>2, <1>5
<1> QED
  BY <1>1, <1>5, <1>6 DEF Becomes

(***************************************************************************)
(* What keeps turns, lines and workers in order                            *)
(***************************************************************************)

LEMMA OrderStays ==
  ASSUME JobsInOrder, NEW t \in Asks, NEW r, JobInOrder(r), Becomes(t, r)
  PROVE  JobsInOrder'
<1> SUFFICES ASSUME NEW u \in Asks PROVE JobInOrder(job'[u])
  BY DEF JobsInOrder, JobInOrder, Adapters
<1>1. CASE u = t
  BY <1>1, SameOrder DEF Becomes
<1>2. CASE u # t
  BY <1>2, SameOrder DEF Becomes, JobsInOrder
<1> QED
  BY <1>1, <1>2

\* As long as no run begins, workers stay where they are known to be.
LEMMA WorkersStay ==
  ASSUME RunsTyped, WorkersInOrder, Closing,
         job' \in [Asks -> JobType],
         \A u \in Asks : job'[u].on = job[u].on,
         \A u \in Asks : job'[u].at = "running" =>
                           job[u].at = "running" /\ job'[u].in = job[u].in
  PROVE  WorkersInOrder'
<1>1. OwnWorkers'
  <2>1. \A a \in Adapters, e \in Askers :
          worker[a][e].id \in Nat /\ worker'[a][e].id \in {worker[a][e].id, 0}
    BY Names DEF RunsTyped, WorkerType, Closing
  <2>2. ASSUME NEW a \in Adapters, NEW e \in Askers
        PROVE  /\ worker'[a][e].id <= spawned'
               /\ worker'[a][e].id = 0 => worker'[a][e].rights = "none"
    <3>1. CASE worker'[a][e] = worker[a][e]
      BY <3>1 DEF WorkersInOrder, OwnWorkers, Closing
    <3>2. CASE worker'[a][e] = NoWorker
      BY <3>2, Names DEF Closing, RunsTyped
    <3> QED
      BY <3>1, <3>2 DEF Closing
  <2>3. \A a, b \in Adapters, e, f \in Askers :
          worker'[a][e].id = worker'[b][f].id /\ worker'[a][e].id # 0 => a = b /\ e = f
    BY <2>1 DEF WorkersInOrder, OwnWorkers
  <2> QED
    BY <2>2, <2>3 DEF OwnWorkers
<1>2. RunsAtHome'
  BY Names DEF WorkersInOrder, RunsAtHome, Closing
<1>3. OneRunPerWorker'
  BY DEF WorkersInOrder, OneRunPerWorker
<1> QED
  BY <1>1, <1>2, <1>3 DEF WorkersInOrder

\* As long as nobody joins or leaves a line, and none but the queued run.
LEMMA LinesStay ==
  ASSUME LinesInOrder, line' = line,
         \A u \in Asks : job'[u].at \in {"queued", "running"} =>
                           job'[u].at = job[u].at /\ job'[u].in = job[u].in
  PROVE  LinesInOrder'
BY DEF LinesInOrder, LineOf

\* A turn that rests, or runs on where it is.
LEMMA RestKeeps ==
  ASSUME RouterInv, NEW t \in Asks, NEW r \in JobType, Becomes(t, r), JobInOrder(r),
         r.on = job[t].on,
         r.at \in {"queued", "running"} => r.at = job[t].at /\ r.in = job[t].in,
         line' = line, Closing, RoomTyped'
  PROVE  RouterInv'
<1>1. \A u \in Asks :
        /\ job'[u].on = job[u].on
        /\ job'[u].at \in {"queued", "running"} =>
             job'[u].at = job[u].at /\ job'[u].in = job[u].in
  BY DEF Becomes, Alike
<1>2. JobsInOrder'
  BY OrderStays DEF RouterInv
<1>3. LinesInOrder'
  BY <1>1, LinesStay DEF RouterInv
<1>4. WorkersInOrder'
  BY <1>1, WorkersStay DEF RouterInv, Becomes
<1>5. RunsTyped'
  BY DEF RouterInv, RunsTyped, Becomes, Closing
<1> QED
  BY <1>2, <1>3, <1>4, <1>5 DEF RouterInv

\* A turn that joins the line of its character in an adapter: who stands in a
\* line, or at its head, stays there.
LEMMA JoinKeeps ==
  ASSUME RouterInv, NEW t \in Asks, NEW r \in JobType, Becomes(t, r), JobInOrder(r),
         r.on = job[t].on, r.at = "queued",
         NEW a \in Adapters, r.in = a, Enqueued(t, a),
         worker' = worker, spawned' = spawned, RoomTyped'
  PROVE  RouterInv'
<1>1. /\ line \in [Adapters -> [Askers -> Seq(Asks)]]
      /\ AskerOf[t] \in Askers
      /\ LinesInOrder
  BY Names DEF RouterInv, RunsTyped
<1> DEFINE l == line[a][AskerOf[t]]
<1>2. /\ l \in Seq(Asks)
      /\ line' \in [Adapters -> [Askers -> Seq(Asks)]]
      /\ line'[a][AskerOf[t]] = Append(l, t)
      /\ \A b \in Adapters, e \in Askers :
           b # a \/ e # AskerOf[t] => line'[b][e] = line[b][e]
  BY <1>1 DEF Enqueued
<1>3. /\ Len(Append(l, t)) = Len(l) + 1
      /\ Len(l) \in Nat
      /\ Append(l, t)[Len(l) + 1] = t
      /\ \A k \in 1 .. Len(l) : Append(l, t)[k] = l[k]
      /\ l # << >> => Append(l, t) # << >> /\ Len(l) >= 1
  <2> HIDE DEF l
  <2>1. l \in Seq(Asks)
    BY <1>2
  <2>2. Len(Append(l, t)) = Len(l) + 1 /\ Len(l) \in Nat
    BY <2>1
  <2>3. Append(l, t)[Len(l) + 1] = t /\ \A k \in 1 .. Len(l) : Append(l, t)[k] = l[k]
    BY <2>1
  <2>4. l # << >> => Len(l) >= 1
    BY <2>1
  <2>5. Append(l, t) # << >>
    BY <2>1, <2>2
  <2> QED
    BY <2>2, <2>3, <2>4, <2>5
<1>4. LinesInOrder'
  <2> SUFFICES ASSUME NEW u \in Asks, job'[u].at \in {"queued", "running"}
               PROVE  /\ job'[u].at = "queued" =>
                           \E k \in 1 .. Len(line'[job'[u].in][AskerOf[u]]) :
                             line'[job'[u].in][AskerOf[u]][k] = u
                      /\ job'[u].at = "running" =>
                           /\ line'[job'[u].in][AskerOf[u]] # << >>
                           /\ line'[job'[u].in][AskerOf[u]][1] = u
    BY DEF LinesInOrder, LineOf
  <2>1. CASE u = t
    <3>1. job'[u].at = "queued" /\ line'[job'[u].in][AskerOf[u]] = Append(l, t)
      BY <1>2, <2>1 DEF Becomes, Alike
    <3>2. Len(l) + 1 \in 1 .. Len(Append(l, t))
      BY <1>3
    <3> QED
      BY <1>3, <2>1, <3>1, <3>2
  <2>2. CASE u # t
    <3>1. /\ job'[u].at = job[u].at /\ job'[u].in = job[u].in
          /\ AskerOf[u] \in Askers
          /\ job[u].in \in Adapters
      BY <2>2, Names DEF Becomes, Alike, RouterInv, JobsInOrder, JobInOrder
    <3>2. CASE job[u].in = a /\ AskerOf[u] = AskerOf[t]
      <4>1. LineOf(u) = l /\ line'[job'[u].in][AskerOf[u]] = Append(l, t)
        BY <1>2, <3>1, <3>2 DEF LineOf
      <4> HIDE DEF l
      <4> QED
        BY <1>1, <1>3, <3>1, <4>1, SMTT(40) DEF LinesInOrder
    <3>3. CASE job[u].in # a \/ AskerOf[u] # AskerOf[t]
      <4>1. line'[job'[u].in][AskerOf[u]] = LineOf(u)
        BY <1>2, <3>1, <3>3 DEF LineOf
      <4> QED
        BY <1>1, <3>1, <4>1 DEF LinesInOrder
    <3> QED
      BY <3>2, <3>3
  <2> QED
    BY <2>1, <2>2
<1>5. Closing
  BY DEF Closing, RouterInv, RunsTyped
<1>6. \A u \in Asks :
        /\ job'[u].on = job[u].on
        /\ job'[u].at = "running" => job[u].at = "running" /\ job'[u].in = job[u].in
  BY DEF Becomes, Alike
<1>7. WorkersInOrder'
  BY <1>5, <1>6, WorkersStay DEF RouterInv, Becomes
<1>8. JobsInOrder'
  BY OrderStays DEF RouterInv
<1>9. RunsTyped'
  BY <1>2 DEF RouterInv, RunsTyped, Becomes
<1> QED
  BY <1>4, <1>7, <1>8, <1>9 DEF RouterInv

\* A turn that has run leaves its line, of which it was the head; of the others in
\* that line none runs.
LEMMA LeaveKeeps ==
  ASSUME RouterInv, NEW t \in Asks, NEW r \in JobType, Becomes(t, r), JobInOrder(r),
         r.on = job[t].on, r.at \notin {"queued", "running"},
         job[t].at = "running", LeaveLine(t),
         worker' = worker, spawned' = spawned, RoomTyped'
  PROVE  RouterInv'
<1> DEFINE a == job[t].in
           l == line[a][AskerOf[t]]
<1>1. /\ line \in [Adapters -> [Askers -> Seq(Asks)]]
      /\ AskerOf[t] \in Askers
      /\ a \in Adapters
      /\ LinesInOrder
  BY Names DEF RouterInv, RunsTyped, JobsInOrder, JobInOrder
<1>2. l \in Seq(Asks) /\ l # << >> /\ l[1] = t
  BY <1>1 DEF LinesInOrder, LineOf
<1>3. /\ Tail(l) \in Seq(Asks)
      /\ Len(Tail(l)) = Len(l) - 1
      /\ Len(l) \in Nat
      /\ \A k \in 1 .. Len(l) - 1 : Tail(l)[k] = l[k + 1]
  BY <1>2
<1>4. /\ line' \in [Adapters -> [Askers -> Seq(Asks)]]
      /\ line'[a][AskerOf[t]] = Tail(l)
      /\ \A b \in Adapters, e \in Askers :
           b # a \/ e # AskerOf[t] => line'[b][e] = line[b][e]
  BY <1>1, <1>3 DEF LeaveLine
<1>5. LinesInOrder'
  <2> SUFFICES ASSUME NEW u \in Asks, job'[u].at \in {"queued", "running"}
               PROVE  /\ job'[u].at = "queued" =>
                           \E k \in 1 .. Len(line'[job'[u].in][AskerOf[u]]) :
                             line'[job'[u].in][AskerOf[u]][k] = u
                      /\ job'[u].at = "running" =>
                           /\ line'[job'[u].in][AskerOf[u]] # << >>
                           /\ line'[job'[u].in][AskerOf[u]][1] = u
    BY DEF LinesInOrder, LineOf
  <2>1. /\ u # t
        /\ job'[u].at = job[u].at /\ job'[u].in = job[u].in
    BY DEF Becomes, Alike
  <2>2. AskerOf[u] \in Askers /\ job[u].in \in Adapters
    BY <2>1, Names DEF RouterInv, JobsInOrder, JobInOrder
  <2>3. CASE job[u].in = a /\ AskerOf[u] = AskerOf[t]
    <3>1. LineOf(u) = l /\ line'[job'[u].in][AskerOf[u]] = Tail(l)
      BY <1>4, <2>1, <2>3 DEF LineOf
    <3> HIDE DEF l, a
    <3>2. job[u].at # "running"
      BY <1>1, <1>2, <2>1, <3>1 DEF LinesInOrder
    <3>3. PICK k \in 1 .. Len(l) : l[k] = u
      BY <1>1, <2>1, <3>1, <3>2 DEF LinesInOrder
    <3>4. k # 1
      BY <1>2, <2>1, <3>3
    <3>5. k - 1 \in 1 .. Len(Tail(l)) /\ Tail(l)[k - 1] = u
      BY <1>3, <3>3, <3>4
    <3> QED
      BY <2>1, <3>1, <3>2, <3>5
  <2>4. CASE job[u].in # a \/ AskerOf[u] # AskerOf[t]
    <3>1. line'[job'[u].in][AskerOf[u]] = LineOf(u)
      BY <1>4, <2>1, <2>2, <2>4 DEF LineOf
    <3> QED
      BY <1>1, <2>1, <3>1 DEF LinesInOrder
  <2> QED
    BY <2>3, <2>4
<1>6. Closing
  BY DEF Closing, RouterInv, RunsTyped
<1>7. \A u \in Asks :
        /\ job'[u].on = job[u].on
        /\ job'[u].at = "running" => job[u].at = "running" /\ job'[u].in = job[u].in
  BY DEF Becomes, Alike
<1>8. WorkersInOrder'
  BY <1>6, <1>7, WorkersStay DEF RouterInv, Becomes
<1>9. JobsInOrder'
  BY OrderStays DEF RouterInv
<1>10. RunsTyped'
  BY <1>4 DEF RouterInv, RunsTyped, Becomes
<1> QED
  BY <1>5, <1>8, <1>9, <1>10 DEF RouterInv

(***************************************************************************)
(* The actions                                                             *)
(***************************************************************************)

\* A run begins on its character's worker when that is nobody else's, on a new one
\* otherwise.
LEMMA RunKeeps ==
  ASSUME RouterInv, NEW t \in Asks, RunTurn(t)
  PROVE  RouterInv'
<1> DEFINE a == job[t].in
           e == AskerOf[t]
           stays == worker[a][e].rights = RightsOf[t]
           id == IF stays THEN worker[a][e].id ELSE spawned + 1
           cut == IF stays THEN {} ELSE {worker[a][e].id} \ {0}
           r == [job[t] EXCEPT !.at = "running", !.on = id, !.alive = TRUE, !.heard = FALSE,
                               !.collided = FALSE, !.twice = job[t].twice \/ job[t].seen]
<1>1. /\ job \in [Asks -> JobType]
      /\ worker \in [Adapters -> [Askers -> WorkerType]]
      /\ spawned \in Nat
      /\ line' = line
      /\ job[t].at = "queued" /\ NextInLine(t)
      /\ JobInOrder(job[t])
      /\ e \in Askers /\ RightsOf[t] \in RightsIds /\ RightsOf[t] # "none"
  BY Names DEF RouterInv, RunsTyped, RunTurn, JobsInOrder
<1>2. a \in Adapters /\ ~job[t].seen /\ ~job[t].twice
  BY <1>1 DEF JobInOrder
<1>3. /\ worker[a][e].id \in Nat
      /\ worker[a][e].id <= spawned
      /\ stays => worker[a][e].id # 0
  BY <1>1, <1>2 DEF WorkerType, RouterInv, WorkersInOrder, OwnWorkers
<1>4. /\ id \in Nat /\ id # 0
      /\ spawned' = (IF stays THEN spawned ELSE spawned + 1)
      /\ spawned' \in Nat /\ spawned <= spawned' /\ id <= spawned'
      /\ stays => id = worker[a][e].id
      /\ ~stays => id > spawned
  <2>1. spawned' = (IF stays THEN spawned ELSE spawned + 1)
    BY DEF RunTurn
  <2>2. CASE stays
    BY <1>1, <1>3, <2>1, <2>2
  <2>3. CASE ~stays
    BY <1>1, <1>3, <2>1, <2>3
  <2> QED
    BY <2>1, <2>2, <2>3
<1>5. /\ r \in JobType
      /\ r.at = "running" /\ r.in = a /\ r.on = id /\ r.heard = FALSE
      /\ r.seen = job[t].seen /\ r.twice = (job[t].twice \/ job[t].seen)
  BY ZenonT(40), <1>1, <1>4 DEF JobType, JobPlaces
<1>6. Becomes(t, r)
  <2>1. job' = CutOff([job EXCEPT ![t] = r], cut)
    BY DEF RunTurn
  <2> HIDE DEF r, cut
  <2> QED
    BY <1>1, <1>5, <2>1, CutJob
<1>7. /\ worker' \in [Adapters -> [Askers -> WorkerType]]
      /\ worker'[a][e].id = id /\ worker'[a][e].rights = RightsOf[t]
      /\ \A b \in Adapters, f \in Askers :
           b # a \/ f # e => worker'[b][f] = worker[b][f]
  <2> DEFINE w == [id |-> id, rights |-> RightsOf[t]]
  <2>1. worker' = [worker EXCEPT ![a][e] = w]
    BY DEF RunTurn, Spawned, Environment
  <2>2. w \in WorkerType /\ w.id = id /\ w.rights = RightsOf[t]
    BY <1>1, <1>4 DEF WorkerType
  <2> HIDE DEF w, id, a, e
  <2> QED
    BY <1>1, <1>2, <2>1, <2>2
<1> HIDE DEF r, id, stays, cut
<1>8. /\ job'[t].at = "running" /\ job'[t].in = a /\ job'[t].on = id
      /\ \A u \in Asks \ {t} : Alike(job'[u], job[u])
  BY <1>5, <1>6 DEF Becomes, Alike
<1>9. JobsInOrder'
  <2>1. JobInOrder(r)
    BY <1>2, <1>5 DEF JobInOrder
  <2> QED
    BY <1>6, <2>1, OrderStays DEF RouterInv
<1>10. LinesInOrder'
  <2>1. LineOf(t) # << >> /\ LineOf(t)[1] = t
    <3>1. line[a][e] \in Seq(Asks)
      BY <1>1, <1>2 DEF RouterInv, RunsTyped
    <3> QED
      BY <1>1, <3>1 DEF RouterInv, LinesInOrder, LineOf, NextInLine
  <2> QED
    BY SMTT(20), <1>1, <1>8, <2>1 DEF RouterInv, LinesInOrder, LineOf, Alike
<1>11. OwnWorkers'
  <2>1. \A b \in Adapters, f \in Askers :
          /\ worker[b][f].id <= spawned /\ worker[b][f].id \in Nat
          /\ worker[b][f].id = 0 => worker[b][f].rights = "none"
    BY <1>1 DEF WorkerType, RouterInv, WorkersInOrder, OwnWorkers
  <2>2. ASSUME NEW b \in Adapters, NEW f \in Askers
        PROVE  /\ worker'[b][f].id <= spawned'
               /\ worker'[b][f].id = 0 => worker'[b][f].rights = "none"
    <3>1. CASE b = a /\ f = e
      BY <1>4, <1>7, <3>1
    <3>2. CASE b # a \/ f # e
      BY <1>1, <1>4, <1>7, <2>1, <3>2
    <3> QED
      BY <3>1, <3>2
  <2>3. ASSUME NEW b \in Adapters, NEW c \in Adapters, NEW f \in Askers, NEW g \in Askers,
               worker'[b][f].id = worker'[c][g].id, worker'[b][f].id # 0
        PROVE  b = c /\ f = g
    <3>1. \A d \in Adapters, h \in Askers :
            worker[d][h].id = id => d = a /\ h = e
      BY <1>1, <1>2, <1>4, <2>1 DEF RouterInv, WorkersInOrder, OwnWorkers
    <3> QED
      BY <1>1, <1>2, <1>7, <2>3, <3>1 DEF RouterInv, WorkersInOrder, OwnWorkers
  <2> QED
    BY <2>2, <2>3 DEF OwnWorkers
<1>12. ASSUME NEW u \in Asks, u # t, job[u].at = "running" PROVE job[u].on # id
  <2>1. job[u].on <= spawned /\ job[u].on \in Nat
    BY <1>1, Fields DEF RouterInv, WorkersInOrder, RunsAtHome
  <2>2. CASE stays
    <3>1. job[u].on = id => LineOf(u) = LineOf(t)
      BY <1>1, <1>2, <1>4, <1>12, <2>2
         DEF RouterInv, WorkersInOrder, RunsAtHome, LineOf
    <3>2. LineOf(u)[1] = u /\ LineOf(t)[1] = t
      BY <1>1, <1>12 DEF RouterInv, LinesInOrder, NextInLine, LineOf
    <3> QED
      BY <1>12, <3>1, <3>2
  <2>3. CASE ~stays
    BY <1>1, <1>4, <2>1, <2>3
  <2> QED
    BY <2>2, <2>3
<1>13. RunsAtHome'
  <2> SUFFICES ASSUME NEW u \in Asks
               PROVE  /\ job'[u].on <= spawned'
                      /\ job'[u].at = "running" =>
                           /\ job'[u].on # 0
                           /\ \A b \in Adapters, f \in Askers :
                                worker'[b][f].id = job'[u].on => b = job'[u].in /\ f = AskerOf[u]
    BY DEF RunsAtHome
  <2>1. CASE u = t
    <3>1. \A b \in Adapters, f \in Askers : worker'[b][f].id = id => b = a /\ f = e
      BY <1>2, <1>4, <1>7, <1>11, <1>1 DEF OwnWorkers
    <3> QED
      BY <1>4, <1>8, <2>1, <3>1
  <2>2. CASE u # t
    <3>1. job[u].on <= spawned /\ job[u].on \in Nat
      BY <1>1, Fields DEF RouterInv, WorkersInOrder, RunsAtHome
    <3>2. job'[u].on = job[u].on /\ job'[u].at = job[u].at /\ job'[u].in = job[u].in
      BY <1>8, <2>2 DEF Alike
    <3>3. job'[u].on <= spawned'
      BY <1>1, <1>4, <3>1, <3>2
    <3>4. ASSUME job[u].at = "running", NEW b \in Adapters, NEW f \in Askers,
                 worker'[b][f].id = job[u].on
          PROVE  b = job[u].in /\ f = AskerOf[u]
      <4>1. job[u].on # id
        BY <1>12, <2>2, <3>4
      <4>2. worker[b][f].id = job[u].on
        BY <1>7, <3>4, <4>1
      <4> QED
        BY <3>4, <4>2 DEF RouterInv, WorkersInOrder, RunsAtHome
    <3> QED
      BY <3>2, <3>3, <3>4 DEF RouterInv, WorkersInOrder, RunsAtHome
  <2> QED
    BY <2>1, <2>2
<1>14. OneRunPerWorker'
  BY <1>8, <1>12 DEF RouterInv, WorkersInOrder, OneRunPerWorker, Alike
<1>15. RunsTyped'
  BY <1>1, <1>4, <1>6, <1>7 DEF RouterInv, RunsTyped, Becomes
<1>16. RoomTyped'
  BY DEF RunTurn, RouterInv, RoomTyped
<1> QED
  BY <1>9, <1>10, <1>11, <1>13, <1>14, <1>15, <1>16 DEF RouterInv, WorkersInOrder

\* A turn joins the line of the adapter its model has, or of a new one, or closes
\* the one of other settings and waits for that.
LEMMA FindKeeps ==
  ASSUME RouterInv, NEW t \in Asks, NEW was \in JobType, JobInOrder(was),
         was.at \in {"new", "entering", "resetting"}, was.on = job[t].on,
         spawned' = spawned, losses' = losses,
         \/ FindEntry(t, was)
         \/ CreateAdapter(t, was) /\ UNCHANGED worker
  PROVE  RouterInv'
<1> DEFINE m == ModelOf[t]
           n == Len(made) + 1
<1>1. /\ job \in [Asks -> JobType]
      /\ worker \in [Adapters -> [Askers -> WorkerType]]
      /\ entry \in [RouteIds -> 0 .. MaxAdapters]
      /\ made \in Seq({PrintOf[u] : u \in Asks})
      /\ Len(made) \in Nat /\ Len(made) <= MaxAdapters
      /\ losses \in 0 .. MaxLosses
      /\ MaxAdapters \in Nat
      /\ m \in RouteIds
  BY Names, RouterAssumption DEF RouterInv, RoomTyped, RunsTyped
<1>2. ASSUME NEW a \in Adapters
      PROVE  LET r == [was EXCEPT !.at = "queued", !.in = a]
             IN r \in JobType /\ r.at = "queued" /\ r.in = a /\ r.on = job[t].on /\ JobInOrder(r)
  <2> DEFINE r == [was EXCEPT !.at = "queued", !.in = a]
  <2>1. a \in 0 .. MaxAdapters
    BY <1>1 DEF Adapters
  <2>2. r \in JobType
    BY <2>1 DEF JobType, JobPlaces
  <2>3. /\ r.at = "queued" /\ r.in = a /\ r.on = was.on
        /\ r.seen = was.seen /\ r.heard = was.heard /\ r.twice = was.twice
    BY DEF JobType
  <2>4. JobInOrder(r)
    BY <2>3 DEF JobInOrder
  <2> QED
    BY <2>2, <2>3, <2>4
<1>3. CASE CreateAdapter(t, was) /\ UNCHANGED worker
  <2> DEFINE r == [was EXCEPT !.at = "queued", !.in = n]
  <2>1. n \in Adapters
    BY <1>1, <1>3 DEF CreateAdapter, Adapters
  <2>2. r \in JobType /\ r.at = "queued" /\ r.in = n /\ r.on = job[t].on /\ JobInOrder(r)
    BY <1>2, <2>1
  <2>3. job' = [job EXCEPT ![t] = r] /\ Enqueued(t, n) /\ worker' = worker
    BY <1>3 DEF CreateAdapter
  <2>4. made' = Append(made, PrintOf[t]) /\ entry' = [entry EXCEPT ![m] = n]
    BY <1>3 DEF CreateAdapter
  <2>5. RoomTyped'
    <3>1. made' \in Seq({PrintOf[u] : u \in Asks}) /\ Len(made') = n
      BY <1>1, <2>4
    <3>2. n \in 0 .. MaxAdapters
      BY <2>1 DEF Adapters
    <3>3. entry' \in [RouteIds -> 0 .. MaxAdapters]
      BY <1>1, <2>4, <3>2
    <3> QED
      BY <1>1, <3>1, <3>2, <3>3 DEF RoomTyped
  <2> HIDE DEF r, n, m
  <2>6. Becomes(t, r)
    BY <1>1, <2>2, <2>3, ChangedJob
  <2> QED
    BY <2>1, <2>2, <2>3, <2>5, <2>6, JoinKeeps
<1>4. ASSUME FindEntry(t, was), entry[m] # 0, made[entry[m]] = PrintOf[t]
      PROVE  RouterInv'
  <2> DEFINE a == entry[m]
             r == [was EXCEPT !.at = "queued", !.in = a]
  <2>1. a \in Adapters
    BY <1>1, <1>4 DEF Adapters
  <2>2. r \in JobType /\ r.at = "queued" /\ r.in = a /\ r.on = job[t].on /\ JobInOrder(r)
    BY <1>2, <2>1
  <2>3. /\ job' = [job EXCEPT ![t] = r] /\ Enqueued(t, a)
        /\ UNCHANGED <<entry, made, worker>>
    BY <1>4 DEF FindEntry
  <2>4. RoomTyped'
    BY <1>1, <2>3 DEF RoomTyped
  <2> HIDE DEF r, a, m
  <2>5. Becomes(t, r)
    BY <1>1, <2>2, <2>3, ChangedJob
  <2> QED
    BY <2>1, <2>2, <2>3, <2>4, <2>5, JoinKeeps
<1>5. ASSUME FindEntry(t, was), entry[m] # 0, made[entry[m]] # PrintOf[t]
      PROVE  RouterInv'
  <2> DEFINE a == entry[m]
             r == [was EXCEPT !.at = "entering"]
  <2>1. /\ r \in JobType /\ r.at = "entering" /\ r.on = job[t].on /\ r.in = was.in
        /\ JobInOrder(r)
    BY DEF JobType, JobPlaces, JobInOrder
  <2>2. /\ entry' = [entry EXCEPT ![m] = 0]
        /\ worker' = CloseAdapter(a)
        /\ job' = CutOff([job EXCEPT ![t] = r], WorkersOf(a))
        /\ UNCHANGED <<made, line>>
    BY <1>5 DEF FindEntry
  <2>3. RoomTyped'
    BY <1>1, <2>2 DEF RoomTyped
  <2>4. a \in Adapters
    BY <1>1, <1>5 DEF Adapters
  <2> HIDE DEF r, a, m
  <2>5. Closing
    BY <1>1, <2>2, <2>4, Names DEF Closing, CloseAdapter
  <2>6. Becomes(t, r)
    BY <1>1, <2>1, <2>2, CutJob
  <2> QED
    BY <2>1, <2>2, <2>3, <2>5, <2>6, RestKeeps
<1>6. FindEntry(t, was) /\ entry[m] = 0 => CreateAdapter(t, was) /\ UNCHANGED worker
  BY DEF FindEntry
<1> QED
  BY <1>3, <1>4, <1>5, <1>6

\* A turn is asked, waits for an adapter to close, or is tried once more.
LEMMA RouteKeeps ==
  ASSUME RouterInv, NEW t \in Asks, RouteTurn(t) \/ Entered(t) \/ TryAgain(t)
  PROVE  RouterInv'
<1>1. job \in [Asks -> JobType] /\ job[t] \in JobType /\ JobInOrder(job[t])
  BY DEF RouterInv, RunsTyped, JobsInOrder
<1>2. CASE RouteTurn(t) \/ Entered(t)
  BY <1>1, <1>2, FindKeeps DEF RouteTurn, Entered
<1>3. CASE TryAgain(t)
  <2> DEFINE was == [job[t] EXCEPT !.again = TRUE]
  <2>1. /\ was \in JobType /\ was.at = "resetting" /\ was.on = job[t].on
        /\ was.in = job[t].in /\ was.in \in Adapters
        /\ JobInOrder(was)
    BY <1>1, <1>3 DEF TryAgain, JobType, JobInOrder
  <2>2. CASE job[t].threw
    <3>1. FindEntry(t, was) /\ spawned' = spawned /\ losses' = losses
      BY <1>3, <2>2 DEF TryAgain
    <3> HIDE DEF was
    <3> QED
      BY <2>1, <3>1, FindKeeps
  <2>3. CASE ~job[t].threw
    <3> DEFINE r == [was EXCEPT !.at = "queued"]
    <3>1. /\ job' = [job EXCEPT ![t] = r] /\ Enqueued(t, job[t].in)
          /\ UNCHANGED <<entry, made, worker, spawned, losses>>
      BY <1>3, <2>3 DEF TryAgain
    <3> HIDE DEF was
    <3>2. /\ r \in JobType /\ r.at = "queued" /\ r.on = job[t].on /\ r.in = job[t].in
          /\ JobInOrder(r)
      BY <2>1 DEF JobType, JobPlaces, JobInOrder
    <3>3. RoomTyped'
      BY <3>1 DEF RouterInv, RoomTyped
    <3> HIDE DEF r
    <3>4. Becomes(t, r)
      BY <1>1, <3>1, <3>2, ChangedJob
    <3> QED
      BY <2>1, <3>1, <3>2, <3>3, <3>4, JoinKeeps
  <2> QED
    BY <2>2, <2>3
<1> QED
  BY <1>2, <1>3

\* What a worker notifies, and the run that it refuses and that is repeated while
\* nothing was heard of it.
LEMMA NoticeKeeps ==
  ASSUME RouterInv, NEW t \in Asks,
         (\E notice \in Notices : Notify(t, notice)) \/ Collision(t)
  PROVE  RouterInv'
<1>1. /\ job \in [Asks -> JobType] /\ job[t] \in JobType /\ JobInOrder(job[t])
      /\ worker \in [Adapters -> [Askers -> WorkerType]]
  BY DEF RouterInv, RunsTyped, JobsInOrder
<1>2. UNCHANGED <<entry, made, worker, spawned, line>> /\ job[t].at = "running"
  BY DEF Notify, Collision
<1>3. Closing
  BY <1>1, <1>2 DEF Closing
<1>4. RoomTyped'
  <2>1. losses' \in 0 .. MaxLosses
    BY RouterAssumption DEF Notify, Collision, RouterInv, RoomTyped
  <2> QED
    BY <1>2, <2>1 DEF RouterInv, RoomTyped
<1>5. CASE \E notice \in Notices : Notify(t, notice)
  <2>1. PICK notice \in Notices : Notify(t, notice)
    BY <1>5
  <2> DEFINE r == [job[t] EXCEPT !.heard = TRUE, !.seen = job[t].seen \/ notice \in Unsafe]
  <2>2. job' = [job EXCEPT ![t] = r]
    BY <1>1, <2>1 DEF Notify
  <2>3. /\ r \in JobType /\ r.at = "running" /\ r.on = job[t].on /\ r.in = job[t].in
        /\ JobInOrder(r)
    BY <1>1, <1>2 DEF JobType, JobInOrder
  <2> HIDE DEF r
  <2>4. Becomes(t, r)
    BY <1>1, <2>2, <2>3, ChangedJob
  <2> QED
    BY <1>2, <1>3, <1>4, <2>3, <2>4, RestKeeps
<1>6. CASE Collision(t)
  <2> DEFINE r == [job[t] EXCEPT !.collided = TRUE, !.twice = job[t].twice \/ job[t].seen]
  <2>1. job' = [job EXCEPT ![t] = r] /\ ~job[t].heard
    BY <1>1, <1>6 DEF Collision, MayRepeat
  <2>2. /\ r \in JobType /\ r.at = "running" /\ r.on = job[t].on /\ r.in = job[t].in
        /\ JobInOrder(r)
    BY <1>1, <1>2, <2>1 DEF JobType, JobInOrder
  <2> HIDE DEF r
  <2>3. Becomes(t, r)
    BY <1>1, <2>1, <2>2, ChangedJob
  <2> QED
    BY <1>2, <1>3, <1>4, <2>2, <2>3, RestKeeps
<1> QED
  BY <1>5, <1>6

\* A run ends, one way or the other.
LEMMA EndKeeps ==
  ASSUME RouterInv, NEW t \in Asks,
         \/ Succeed(t)
         \/ \E threw \in BOOLEAN, status \in Statuses, said \in Texts : Fail(t, threw, status, said)
  PROVE  RouterInv'
<1>1. job \in [Asks -> JobType] /\ job[t] \in JobType /\ JobInOrder(job[t])
  BY DEF RouterInv, RunsTyped, JobsInOrder
<1>2. /\ UNCHANGED <<entry, made, worker, spawned>>
      /\ job[t].at = "running" /\ LeaveLine(t)
  BY DEF Succeed, Fail
<1>3. RoomTyped'
  <2>1. losses \in 0 .. MaxLosses /\ MaxLosses \in Nat
    BY RouterAssumption DEF RouterInv, RoomTyped
  <2>2. losses' = losses \/ (losses < MaxLosses /\ losses' = losses + 1)
    BY DEF Succeed, Fail
  <2>3. losses' \in 0 .. MaxLosses
    BY <2>1, <2>2
  <2> QED
    BY <1>2, <2>3 DEF RouterInv, RoomTyped
<1>4. CASE Succeed(t)
  <2> DEFINE r == [job[t] EXCEPT !.at = "answered"]
  <2>1. job' = [job EXCEPT ![t] = r]
    BY <1>4 DEF Succeed
  <2>2. /\ r \in JobType /\ r.at = "answered" /\ r.on = job[t].on
        /\ JobInOrder(r)
    BY <1>1 DEF JobType, JobPlaces, JobInOrder
  <2> HIDE DEF r
  <2>3. Becomes(t, r)
    BY <1>1, <2>1, <2>2, ChangedJob
  <2> QED
    BY <1>2, <1>3, <2>2, <2>3, LeaveKeeps
<1>5. CASE \E threw \in BOOLEAN, status \in Statuses, said \in Texts : Fail(t, threw, status, said)
  <2>1. PICK threw \in BOOLEAN, status \in Statuses, said \in Texts : Fail(t, threw, status, said)
    BY <1>5
  <2>2. PICK why \in {"passing", "denied"} :
          job' = [job EXCEPT ![t].at = "failed", ![t].threw = threw, ![t].why = why]
    BY <2>1 DEF Fail
  <2> DEFINE r == [job[t] EXCEPT !.at = "failed", !.threw = threw, !.why = why]
  <2>3. job' = [job EXCEPT ![t] = r]
    BY <1>1, <2>2
  <2>4. /\ r \in JobType /\ r.at = "failed" /\ r.on = job[t].on
        /\ JobInOrder(r)
    BY <1>1, <1>2 DEF JobType, JobPlaces, JobInOrder
  <2> HIDE DEF r
  <2>5. Becomes(t, r)
    BY <1>1, <2>3, <2>4, ChangedJob
  <2> QED
    BY <1>2, <1>3, <2>4, <2>5, LeaveKeeps
<1> QED
  BY <1>4, <1>5

\* A failure is the turn's, or closes the worker for another attempt.
LEMMA FailureKeeps ==
  ASSUME RouterInv, NEW t \in Asks, ResetAgent(t) \/ GiveUpTurn(t)
  PROVE  RouterInv'
<1>1. /\ job \in [Asks -> JobType] /\ job[t] \in JobType /\ JobInOrder(job[t])
      /\ worker \in [Adapters -> [Askers -> WorkerType]]
      /\ AskerOf[t] \in Askers
  BY Names DEF RouterInv, RunsTyped, JobsInOrder
<1>2. /\ UNCHANGED <<entry, made, spawned, line, losses>>
      /\ job[t].at = "failed" /\ job[t].in \in Adapters
  BY <1>1 DEF ResetAgent, GiveUpTurn, JobInOrder
<1>3. RoomTyped'
  BY <1>2 DEF RouterInv, RoomTyped
<1>4. CASE ResetAgent(t)
  <2> DEFINE r == [job[t] EXCEPT !.at = "resetting"]
             ids == {worker[job[t].in][AskerOf[t]].id} \ {0}
  <2>1. /\ job' = CutOff([job EXCEPT ![t].at = "resetting"], ids)
        /\ worker' = CloseEmployee(job[t].in, AskerOf[t])
        /\ ~job[t].seen
    BY <1>4 DEF ResetAgent, SafeToRetry
  <2>2. job' = CutOff([job EXCEPT ![t] = r], ids)
    BY <2>1
  <2>3. /\ r \in JobType /\ r.at = "resetting" /\ r.on = job[t].on
        /\ JobInOrder(r)
    BY <1>1, <1>2, <2>1 DEF JobType, JobPlaces, JobInOrder
  <2>4. Closing
    BY <1>1, <1>2, <2>1, Names DEF Closing, CloseEmployee
  <2> HIDE DEF r, ids
  <2>5. Becomes(t, r)
    BY <1>1, <2>2, <2>3, CutJob
  <2> QED
    BY <1>2, <1>3, <2>3, <2>4, <2>5, RestKeeps
<1>5. CASE GiveUpTurn(t)
  <2> DEFINE r == [job[t] EXCEPT !.at = "lost"]
  <2>1. job' = [job EXCEPT ![t] = r] /\ worker' = worker
    BY <1>5 DEF GiveUpTurn
  <2>2. /\ r \in JobType /\ r.at = "lost" /\ r.on = job[t].on
        /\ JobInOrder(r)
    BY <1>1 DEF JobType, JobPlaces, JobInOrder
  <2>3. Closing
    BY <1>1, <1>2, <2>1 DEF Closing
  <2> HIDE DEF r
  <2>4. Becomes(t, r)
    BY <1>1, <2>1, <2>2, ChangedJob
  <2> QED
    BY <1>2, <1>3, <2>2, <2>3, <2>4, RestKeeps
<1> QED
  BY <1>4, <1>5

LEMMA InitRouter == RouterInit => RouterInv
<1> SUFFICES ASSUME RouterInit PROVE RouterInv
  OBVIOUS
<1>1. NewJob \in JobType /\ NewJob.at = "new" /\ NewJob.on = 0 /\ JobInOrder(NewJob)
  BY RouterAssumption DEF NewJob, JobType, JobPlaces, JobInOrder
<1>2. RoomTyped
  BY RouterAssumption DEF RouterInit, RoomTyped
<1>3. RunsTyped
  BY <1>1, Names DEF RouterInit, RunsTyped
<1>4. JobsInOrder /\ LinesInOrder
  BY <1>1 DEF RouterInit, JobsInOrder, LinesInOrder
<1>5. WorkersInOrder
  BY <1>1, Names DEF RouterInit, WorkersInOrder, OwnWorkers, RunsAtHome, OneRunPerWorker
<1> QED
  BY <1>2, <1>3, <1>4, <1>5 DEF RouterInv

LEMMA RouterStep == RouterInv /\ [RouterNext]_routerVars => RouterInv'
<1> SUFFICES ASSUME RouterInv, [RouterNext]_routerVars PROVE RouterInv'
  OBVIOUS
<1>1. CASE UNCHANGED routerVars
  BY SMTT(20), <1>1 DEF routerVars, RouterInv, RoomTyped, RunsTyped, JobsInOrder, LinesInOrder, LineOf,
              WorkersInOrder, OwnWorkers, RunsAtHome, OneRunPerWorker
<1>2. CASE RouterNext
  BY <1>2, RunKeeps, RouteKeeps, NoticeKeeps, EndKeeps, FailureKeeps DEF RouterNext
<1> QED
  BY <1>1, <1>2

(***************************************************************************)
(* Theorems                                                                *)
(***************************************************************************)

\* Every variable of the router and its adapters keeps its type.
THEOREM RouterTyped == RouterSpec => []RouterTypes
<1>1. RouterInv => RouterTypes
  BY Fields DEF RouterInv, RoomTyped, RunsTyped, RouterTypes, WorkerType, RightsIds
<1> QED
  BY <1>1, InitRouter, RouterStep, PTL DEF RouterSpec

\* What was seen of a turn is never said or done again, through the retry of the
\* router (runTurn), the repetition of the adapter (#runEmployeeTurnExclusive) and
\* the line between them; and no two runs share a worker, although failed turns
\* close workers while others wait, and adapters are closed and made anew
\* (#serializeByEmployee, #entry).
THEOREM TurnsStayKept == RouterSpec => []TurnsKept
<1>1. RouterInv => SeenRunsOnce
  BY DEF RouterInv, JobsInOrder, JobInOrder, SeenRunsOnce
<1>2. RouterInv => OneRunPerWorker
  BY DEF RouterInv, WorkersInOrder
<1>3. RouterTypes /\ SeenRunsOnce /\ OneRunPerWorker => TurnsKept
  BY DEF TurnsKept
<1> QED
  BY <1>1, <1>2, <1>3, RouterTyped, InitRouter, RouterStep, PTL DEF RouterSpec


-----------------------------------------------------------------------------
(* Updates of the application *)

\* A revision, or 0 for none
RevisionsOrNone == 0 .. MaxRevision

UpdateRecords ==
  [at : UpdatePlaces, head : RevisionsOrNone, target : RevisionsOrNone,
   candidate : RevisionsOrNone, fetched : BOOLEAN]

PageRecords ==
  [pending : {"none", "check", "apply"}, approved : BOOLEAN, behind : BOOLEAN, restart : BOOLEAN]

UpdateRows ==
  /\ published \in Revisions /\ tracking \in Revisions
  /\ checkout \in [base : Revisions, ahead : 0 .. MaxMeddles, dirty : BOOLEAN]
  /\ looking \in {"none", "fetch", "read"}
  /\ applying \in BOOLEAN
  /\ update \in UpdateRecords
  /\ worktrees \subseteq Revisions
  /\ page \in PageRecords
  /\ meddles \in 0 .. MaxMeddles
  /\ checkout.ahead <= meddles

\* The remote branch only grows, and so does what is known of it here: what is
\* looked at again after the build and found the same was not replaced meanwhile.
BranchGrows ==
  /\ tracking <= published
  /\ update.at \in {"worktree", "verify", "recheck"} => update.target <= tracking
  /\ update.at \in {"verify", "recheck"} =>
       update.target <= update.candidate /\ update.candidate <= tracking
  /\ update.at \in {"backup", "merge"} =>
       /\ update.candidate <= tracking
       /\ update.fetched \/ update.candidate = tracking
  /\ update.at \in {"recheck", "backup", "merge"} => update.candidate \in Buildable

UpdateInv == UpdateRows /\ BranchGrows /\ VerifiedIsMerged

LEMMA UpdateBounds ==
  /\ MaxRevision \in Nat /\ MaxRevision >= 1 /\ MaxMeddles \in Nat
  /\ 1 \in Revisions /\ 0 \in RevisionsOrNone /\ Revisions \subseteq RevisionsOrNone
  /\ 0 \in 0 .. MaxMeddles
BY UpdateAssumption DEF Revisions, RevisionsOrNone

LEMMA UpdateBegins ==
  /\ NoUpdate \in UpdateRecords /\ NoUpdate.at = "idle"
  /\ NoPage \in PageRecords
BY UpdateBounds DEF NoUpdate, NoPage, UpdateRecords, PageRecords, UpdatePlaces

LEMMA UpdateStarts == UpdateInit => UpdateInv
<1> SUFFICES ASSUME UpdateInit PROVE UpdateInv
  OBVIOUS
<1>0. /\ checkout \in [base : Revisions, ahead : 0 .. MaxMeddles, dirty : BOOLEAN]
      /\ checkout.ahead <= meddles
  BY UpdateBounds DEF UpdateInit
<1>1. UpdateRows
  BY <1>0, UpdateBounds, UpdateBegins DEF UpdateInit, UpdateRows
<1>2. BranchGrows /\ VerifiedIsMerged
  BY DEF UpdateInit, BranchGrows, NoUpdate, VerifiedIsMerged
<1> QED
  BY <1>1, <1>2 DEF UpdateInv

\* What an update that ends leaves
LEMMA UpdateConcludes ==
  ASSUME UpdateInv, NEW r \in BOOLEAN, Concluded(r), meddles' \in {meddles, meddles + 1},
         meddles' \in 0 .. MaxMeddles,
         UNCHANGED <<published, tracking, checkout, looking, merged>>
  PROVE  UpdateInv'
<1>1. NoUpdate \in UpdateRecords /\ NoUpdate.at = "idle"
  BY UpdateBegins
<1>2. page' \in PageRecords
  <2>1. (r /\ Clean /\ Behind(Status)) \in BOOLEAN
    OBVIOUS
  <2> QED
    BY <2>1 DEF Concluded, UpdateInv, UpdateRows, PageRecords
<1>0. checkout.ahead <= meddles /\ meddles \in Nat
      /\ checkout \in [base : Revisions, ahead : 0 .. MaxMeddles, dirty : BOOLEAN]
  BY UpdateBounds DEF UpdateInv, UpdateRows
<1>4. checkout'.ahead <= meddles'
  BY <1>0
<1>3. UpdateRows'
  BY <1>1, <1>2, <1>4 DEF UpdateInv, UpdateRows, Concluded
<1>5. (BranchGrows /\ VerifiedIsMerged)'
  BY <1>1 DEF UpdateInv, BranchGrows, VerifiedIsMerged, Concluded
<1> QED
  BY <1>3, <1>5 DEF UpdateInv

\* A fetch brings what was published, and marks the update.
LEMMA UpdateFetches ==
  ASSUME UpdateInv, Fetch
  PROVE  /\ update' \in UpdateRecords /\ tracking' \in Revisions
         /\ tracking' = published /\ tracking <= tracking'
         /\ update'.at = update.at /\ update'.target = update.target
         /\ update'.candidate = update.candidate
         /\ update.fetched => update'.fetched
         /\ tracking' # tracking => update'.fetched
<1>1. /\ update \in UpdateRecords /\ tracking \in Revisions /\ published \in Revisions
      /\ tracking <= published
  BY DEF UpdateInv, UpdateRows, BranchGrows
<1>2. (update.fetched \/ tracking # published) \in BOOLEAN
  BY <1>1 DEF UpdateRecords
<1> QED
  BY <1>1, <1>2 DEF Fetch, UpdateRecords

LEMMA UpdateStep == ASSUME UpdateInv, [UpdateNext]_updateVars PROVE UpdateInv'
<1> USE DEF asideVars
<1>t. /\ published \in Revisions /\ tracking \in Revisions
      /\ checkout \in [base : Revisions, ahead : 0 .. MaxMeddles, dirty : BOOLEAN]
      /\ update \in UpdateRecords /\ page \in PageRecords
      /\ worktrees \subseteq Revisions /\ meddles \in 0 .. MaxMeddles
      /\ checkout.ahead <= meddles
      /\ looking \in {"none", "fetch", "read"} /\ applying \in BOOLEAN
      /\ Revisions = 1 .. MaxRevision /\ Revisions \subseteq RevisionsOrNone
      /\ MaxRevision \in Nat /\ MaxRevision >= 1 /\ MaxMeddles \in Nat
  BY UpdateBounds DEF UpdateInv, UpdateRows, Revisions
<1>g. BranchGrows /\ VerifiedIsMerged
  BY DEF UpdateInv
<1>m. meddles' = meddles => meddles' \in {meddles, meddles + 1} /\ meddles' \in 0 .. MaxMeddles
  BY <1>t
\* The page asks, and is shown an answer
<1>p. ASSUME page' \in PageRecords, looking' \in {"none", "fetch", "read"}, update' = update,
             UNCHANGED <<published, tracking, checkout, applying, worktrees, merged, meddles>>
      PROVE  UpdateInv'
  <2>1. UpdateRows'
    BY <1>p, <1>t DEF UpdateRows
  <2> QED
    BY <1>p, <1>g, <2>1 DEF UpdateInv, BranchGrows, VerifiedIsMerged
\* The update goes on to another place
<1>u. ASSUME NEW place \in UpdatePlaces, update' = [update EXCEPT !.at = place],
             place \in {"worktree", "verify", "recheck"} => update.target <= tracking,
             place \in {"verify", "recheck"} =>
               update.target <= update.candidate /\ update.candidate <= tracking,
             place \in {"backup", "merge"} =>
               /\ update.candidate <= tracking
               /\ update.fetched \/ update.candidate = tracking,
             place \in {"recheck", "backup", "merge"} => update.candidate \in Buildable,
             UNCHANGED <<published, tracking, checkout, looking, applying, worktrees, merged,
                         page, meddles>>
      PROVE  UpdateInv'
  <2>1. /\ update' \in UpdateRecords /\ update'.at = place /\ update'.target = update.target
        /\ update'.candidate = update.candidate /\ update'.fetched = update.fetched
    BY <1>t, <1>u DEF UpdateRecords
  <2>2. UpdateRows'
    BY <1>u, <1>t, <2>1 DEF UpdateRows
  <2> QED
    BY <1>u, <1>g, <2>1, <2>2 DEF UpdateInv, BranchGrows, VerifiedIsMerged
<1>s. Shown(Status) \/ Shown(Unsupported) => page' \in PageRecords
  <2>1. Behind(Status) \in BOOLEAN /\ Behind(Unsupported) \in BOOLEAN
    BY DEF Behind
  <2> QED
    BY <1>t, <2>1, ZenonT(60) DEF Shown, PageRecords
<1>1. CASE Look \/ LookAside \/ LookRead \/ Approve
  <2>1. NoPage \in PageRecords
    BY DEF NoPage, PageRecords
  <2>2. page' \in PageRecords
    BY <1>1, <1>s, <1>t, <2>1 DEF Look, LookAside, LookRead, Approve, PageRecords
  <2> QED
    BY <1>1, <1>p, <1>t, <2>2 DEF Look, LookAside, LookRead, Approve
<1>2. CASE LookFetch
  <2>1. CASE Clean
    <3>1. Fetch /\ looking' = "read" /\ UNCHANGED page
      BY <1>2, <2>1 DEF LookFetch
    <3>2. UpdateRows'
      BY <1>2, <1>t, <3>1, UpdateFetches DEF LookFetch, UpdateRows
    <3>3. (BranchGrows /\ VerifiedIsMerged)'
      BY <1>2, <1>t, <1>g, <3>1, UpdateFetches
         DEF LookFetch, BranchGrows, VerifiedIsMerged, UpdateRecords, RevisionsOrNone
    <3> QED
      BY <3>2, <3>3 DEF UpdateInv
  <2>2. CASE ~Clean
    BY <1>2, <1>p, <1>s, <2>2 DEF LookFetch
  <2> QED
    BY <2>1, <2>2
<1>3. CASE Apply
  <2>a. update' \in UpdateRecords /\ update'.at = "fetch"
    BY <1>3, UpdateBegins DEF Apply, UpdateRecords, UpdatePlaces
  <2>b. page' \in PageRecords
    BY <1>3, <1>t DEF Apply, PageRecords
  <2>1. update' \in UpdateRecords /\ update'.at = "fetch" /\ page' \in PageRecords
    BY <2>a, <2>b
  <2>2. UpdateRows'
    BY <1>3, <1>t, <2>1 DEF Apply, UpdateRows
  <2> QED
    BY <1>3, <1>g, <2>1, <2>2 DEF Apply, UpdateInv, BranchGrows, VerifiedIsMerged
<1>4. CASE ApplyFetch
  <2>1. CASE Clean
    <3>1. /\ tracking' = published /\ update' = [update EXCEPT !.at = "read"]
          /\ UNCHANGED <<published, checkout, looking, applying, page, worktrees, merged, meddles>>
      BY <1>4, <2>1 DEF ApplyFetch
    <3>2. update' \in UpdateRecords /\ update'.at = "read"
      BY <1>t, <3>1 DEF UpdateRecords, UpdatePlaces
    <3>3. UpdateRows'
      BY <1>t, <3>1, <3>2 DEF UpdateRows
    <3> QED
      BY <1>g, <1>t, <3>1, <3>2, <3>3 DEF UpdateInv, BranchGrows, VerifiedIsMerged
  <2>2. CASE ~Clean
    BY <1>4, <1>m, <2>2, UpdateConcludes DEF ApplyFetch
  <2> QED
    BY <2>1, <2>2
<1>5. CASE ApplyRead
  <2>1. CASE Behind(Status)
    <3>1. /\ Status.head = checkout.base /\ Status.target = tracking
      BY <2>1 DEF Behind, Status, Unsupported
    <3>2. /\ update' = [update EXCEPT !.at = "worktree", !.head = checkout.base, !.target = tracking]
          /\ UNCHANGED <<published, tracking, checkout, looking, applying, page, worktrees, merged,
                         meddles>>
      BY <1>5, <2>1, <3>1 DEF ApplyRead
    <3>0. checkout.base \in RevisionsOrNone /\ tracking \in RevisionsOrNone
      BY <1>t
    <3>3. update' \in UpdateRecords /\ update'.at = "worktree" /\ update'.target = tracking
      BY <1>t, <3>0, <3>2 DEF UpdateRecords, UpdatePlaces
    <3>4. UpdateRows'
      BY <1>t, <3>2, <3>3 DEF UpdateRows
    <3> QED
      BY <1>g, <1>t, <3>2, <3>3, <3>4 DEF UpdateInv, BranchGrows, VerifiedIsMerged
  <2>2. CASE ~Behind(Status)
    BY <1>5, <1>m, <2>2, UpdateConcludes DEF ApplyRead
  <2> QED
    BY <2>1, <2>2
<1>6. CASE AddWorktree
  <2>1. /\ update' \in UpdateRecords /\ update'.at = "verify" /\ update'.candidate = tracking
        /\ update'.target = update.target /\ update.target <= tracking
    <3>1. tracking \in RevisionsOrNone
      BY <1>t
    <3>2. update' = [update EXCEPT !.at = "verify", !.candidate = tracking]
          /\ update.target <= tracking
      BY <1>6, <1>g DEF AddWorktree, BranchGrows
    <3> QED
      BY <1>t, <3>1, <3>2 DEF UpdateRecords, UpdatePlaces
  <2>2. UpdateRows'
    BY <1>6, <1>t, <2>1 DEF AddWorktree, UpdateRows
  <2> QED
    BY <1>6, <1>g, <1>t, <2>1, <2>2 DEF AddWorktree, UpdateInv, BranchGrows, VerifiedIsMerged
<1>7. CASE VerifyCandidate
  <2>1. CASE update.candidate \in Buildable
    <3>1. "recheck" \in UpdatePlaces
      BY DEF UpdatePlaces
    <3> QED
      BY <1>7, <1>g, <1>u, <2>1, <3>1 DEF VerifyCandidate, BranchGrows
  <2>2. CASE update.candidate \notin Buildable
    BY <1>7, <1>m, <2>2, UpdateConcludes DEF VerifyCandidate
  <2> QED
    BY <2>1, <2>2
<1>8. CASE Recheck
  <2>1. CASE Clean /\ Unchanged(Status)
    <3>1. tracking = update.target
      BY <2>1 DEF Unchanged, Status, Unsupported
    <3>2. update.candidate = tracking
      BY <1>8, <1>g, <1>t, <3>1 DEF Recheck, BranchGrows, UpdateRecords, RevisionsOrNone
    <3>3. /\ update' = [update EXCEPT !.at = "backup", !.fetched = FALSE]
          /\ UNCHANGED <<published, tracking, checkout, looking, applying, page, worktrees, merged,
                         meddles>>
      BY <1>8, <2>1 DEF Recheck
    <3>4. /\ update' \in UpdateRecords /\ update'.at = "backup"
          /\ update'.candidate = update.candidate
      BY <1>t, <3>3 DEF UpdateRecords, UpdatePlaces
    <3>5. UpdateRows'
      BY <1>t, <3>3, <3>4 DEF UpdateRows
    <3>6. update.candidate \in Buildable /\ tracking <= tracking
      BY <1>8, <1>g, <1>t DEF Recheck, BranchGrows
    <3> QED
      BY <1>g, <3>2, <3>3, <3>4, <3>5, <3>6 DEF UpdateInv, BranchGrows, VerifiedIsMerged
  <2>2. CASE ~(Clean /\ Unchanged(Status))
    BY <1>8, <1>m, <2>2, UpdateConcludes DEF Recheck
  <2> QED
    BY <2>1, <2>2
<1>9. CASE BackUp
  <2>1. "merge" \in UpdatePlaces
    BY DEF UpdatePlaces
  <2> QED
    BY <1>9, <1>g, <1>u, <2>1 DEF BackUp, BranchGrows
<1>10. CASE Merge
  <2>1. "prove" \in UpdatePlaces
    BY DEF UpdatePlaces
  <2>2. CASE /\ checkout.ahead = 0
             /\ checkout' = [checkout EXCEPT !.base = tracking]
             /\ merged' = merged \cup {[of |-> tracking, verified |-> update.candidate,
                                        fetched |-> update.fetched]}
             /\ update' = [update EXCEPT !.at = "prove"]
             /\ UNCHANGED <<applying, page, worktrees>>
    <3>1. /\ update' \in UpdateRecords /\ update'.at = "prove"
          /\ checkout' \in [base : Revisions, ahead : 0 .. MaxMeddles, dirty : BOOLEAN]
          /\ checkout'.ahead = checkout.ahead
      BY <1>t, <2>1, <2>2 DEF UpdateRecords
    <3>2. UpdateRows'
      BY <1>10, <1>t, <2>2, <3>1 DEF Merge, UpdateRows
    <3>3. VerifiedIsMerged'
      BY <1>10, <1>g, <2>2 DEF Merge, BranchGrows, VerifiedIsMerged
    <3> QED
      BY <1>10, <1>g, <2>2, <3>1, <3>2, <3>3 DEF Merge, UpdateInv, BranchGrows
  <2>3. CASE /\ update' = [update EXCEPT !.at = "prove"]
             /\ UNCHANGED <<applying, page, worktrees, checkout, merged>>
    BY <1>10, <1>u, <2>1, <2>3 DEF Merge
  <2>4. CASE Concluded(FALSE) /\ UNCHANGED <<checkout, merged>>
    BY <1>10, <1>m, <2>4, UpdateConcludes DEF Merge
  <2> QED
    BY <1>10, <2>2, <2>3, <2>4 DEF Merge
<1>11. CASE ProveInPlace
  <2>1. CASE checkout.base \in Buildable
    <3>1. "report" \in UpdatePlaces
      BY DEF UpdatePlaces
    <3> QED
      BY <1>11, <1>u, <2>1, <3>1 DEF ProveInPlace
  <2>2. CASE checkout.base \notin Buildable
    BY <1>11, <1>m, <2>2, UpdateConcludes DEF ProveInPlace
  <2> QED
    BY <2>1, <2>2
<1>12. CASE Report
  BY <1>12, <1>m, UpdateConcludes DEF Report
<1>13. CASE Publish
  <2>1. UpdateRows'
    BY <1>13, <1>t DEF Publish, UpdateRows
  <2> QED
    BY <1>13, <1>g, <1>t, <2>1 DEF Publish, UpdateInv, BranchGrows, VerifiedIsMerged
<1>14. CASE Meddle
  <2>m. meddles' = meddles + 1 /\ meddles' \in 0 .. MaxMeddles
    BY <1>14, <1>t DEF Meddle
  <2>1. CASE Fetch /\ checkout' = [checkout EXCEPT !.base = published]
    <3>1. UpdateRows'
      BY <1>14, <1>t, <2>1, <2>m, UpdateFetches DEF Meddle, UpdateRows
    <3>2. (BranchGrows /\ VerifiedIsMerged)'
      BY <1>14, <1>t, <1>g, <2>1, UpdateFetches
         DEF Meddle, BranchGrows, VerifiedIsMerged, UpdateRecords, RevisionsOrNone
    <3> QED
      BY <3>1, <3>2 DEF UpdateInv
  <2>2. CASE /\ UNCHANGED <<tracking, update>>
             /\ \/ checkout' = [checkout EXCEPT !.dirty = ~@]
                \/ checkout' = [checkout EXCEPT !.dirty = FALSE, !.ahead = @ + 1]
    <3>1. /\ checkout' \in [base : Revisions, ahead : 0 .. MaxMeddles, dirty : BOOLEAN]
          /\ checkout'.ahead <= meddles'
      <4>1. /\ checkout.ahead \in 0 .. MaxMeddles /\ checkout.ahead <= meddles'
            /\ checkout.ahead + 1 \in 0 .. MaxMeddles /\ checkout.ahead + 1 <= meddles'
        BY <1>t, <2>m
      <4>2. CASE checkout' = [checkout EXCEPT !.dirty = ~checkout.dirty]
        BY <1>t, <4>1, <4>2
      <4>3. CASE checkout' = [checkout EXCEPT !.dirty = FALSE, !.ahead = checkout.ahead + 1]
        BY <1>t, <4>1, <4>3
      <4> QED
        BY <2>2, <4>2, <4>3
    <3>2. UpdateRows'
      BY <1>14, <1>t, <2>2, <2>m, <3>1 DEF Meddle, UpdateRows
    <3> QED
      BY <1>14, <1>g, <2>2, <3>2 DEF Meddle, UpdateInv, BranchGrows, VerifiedIsMerged
  <2> QED
    BY <1>14, <2>1, <2>2 DEF Meddle
<1>15. CASE BreakUpdate
  <2>1. meddles' \in {meddles, meddles + 1} /\ meddles' \in 0 .. MaxMeddles
    BY <1>15, <1>t DEF BreakUpdate
  <2> QED
    BY <1>15, <2>1, UpdateConcludes DEF BreakUpdate
<1>16. CASE DieUpdating
  <2>1. NoUpdate \in UpdateRecords /\ NoUpdate.at = "idle" /\ NoPage \in PageRecords
    BY UpdateBegins
  <2>3. meddles' \in 0 .. MaxMeddles /\ checkout.ahead <= meddles'
    BY <1>16, <1>t DEF DieUpdating
  <2>2. UpdateRows'
    BY <1>16, <1>t, <2>1, <2>3 DEF DieUpdating, UpdateRows
  <2> QED
    BY <1>16, <1>g, <2>1, <2>2 DEF DieUpdating, UpdateInv, BranchGrows, VerifiedIsMerged
<1>17. CASE UNCHANGED updateVars
  BY <1>17 DEF updateVars, UpdateInv, UpdateRows, BranchGrows, VerifiedIsMerged
<1> QED
  BY <1>1, <1>2, <1>3, <1>4, <1>5, <1>6, <1>7, <1>8, <1>9, <1>10, <1>11, <1>12, <1>13, <1>14,
     <1>15, <1>16, <1>17 DEF UpdateNext

LEMMA UpdateHolds == UpdateInv => UpdateTypes /\ VerifiedIsMerged
  BY DEF UpdateInv, UpdateRows, UpdateTypes, UpdateRecords, PageRecords, RevisionsOrNone

\* What an update merges is what it built, or a later revision fetched between
\* the last look and the merge.  The look compares revisions and not the
\* worktree; that it is enough rests on the branch that only grows.
THEOREM UpdateMergesVerified == UpdateSpec => [](UpdateTypes /\ VerifiedIsMerged)
  BY UpdateHolds, UpdateStarts, UpdateStep, PTL DEF UpdateSpec


-----------------------------------------------------------------------------
(* Backups and restorations *)

\* A file that was written as a whole
WholeFiles == {<<v, v>> : v \in Versions}

BackupLine == [area : Areas, digest : Versions, got : Seq(Versions)]
BackupFile == [v : Versions, size : Sizes]

BackupCaptures ==
  [at : {"idle", "collecting", "next", "reading", "comparing"}, todo : SUBSET Areas,
   file : Areas \cup {0}, digest : Versions, size : Sizes, got : Seq(Versions)]
BackupBundles == [lines : Seq(BackupLine), open : BOOLEAN, closed : BOOLEAN]
StagedFiles == [Areas -> {Empty} \cup WholeFiles]
BackupMendings ==
  [at : {"idle", "staging", "swapping"}, next : Nat \ {0}, staged : StagedFiles,
   out : Areas \cup {0}]

BackupRows ==
  /\ kept \in [Areas -> BackupFile]
  /\ edits \in 0 .. MaxEdits
  /\ copied \in BackupFile
  /\ capture \in BackupCaptures
  /\ capture.at \in {"reading", "comparing"} => capture.file \in Areas
  /\ bundle \in BackupBundles
  /\ breaks \in 0 .. MaxBreaks

RestoreRows ==
  /\ fresh \in StagedFiles
  /\ mending \in BackupMendings
  /\ restored \subseteq Areas
  /\ \A a \in restored : fresh[a] # Empty

\* A bundle that is closed is not written any more.
ClosedIsDone == bundle.closed => capture.at \in {"idle", "collecting"}

\* What a restoration has read is staged until it is in its place; what is
\* taken out of the root is staged.
SwapLosesNothing ==
  /\ mending.at # "idle" => restored = {}
  /\ mending.at = "staging" =>
       /\ mending.out = 0
       /\ \A i \in DOMAIN bundle.lines :
            i < mending.next => mending.staged[bundle.lines[i].area] # Empty
       /\ mending.next <= Len(bundle.lines) + 1
  /\ mending.at = "swapping" =>
       /\ bundle.closed
       /\ mending.out # 0 => mending.staged[mending.out] # Empty
       /\ \A i \in DOMAIN bundle.lines :
            \/ mending.staged[bundle.lines[i].area] # Empty
            \/ fresh[bundle.lines[i].area] # Empty

BackupInv == BackupRows /\ RestoreRows /\ ClosedIsDone /\ SwapLosesNothing

LEMMA BackupBounds ==
  /\ 0 \in Versions /\ 1 \in Versions /\ 0 \notin Areas /\ DataArea \in Areas
  /\ 1 \in Sizes
  /\ \A e \in 0 .. MaxEdits : e < MaxEdits => e + 1 \in 0 .. MaxEdits /\ e + 2 \in Versions
  /\ \A b \in 0 .. MaxBreaks : b < MaxBreaks => b + 1 \in 0 .. MaxBreaks
  /\ 0 \in 0 .. MaxEdits /\ 0 \in 0 .. MaxBreaks
BY BackupAssumption DEF Versions, Sizes

LEMMA WholeIsFile ==
  \A f \in WholeFiles : f # Empty /\ f[1] = f[2] /\ f \in Versions \X Versions
BY DEF WholeFiles, Empty

LEMMA BackupBegins ==
  /\ NoFile \in BackupFile /\ NoCapture \in BackupCaptures /\ NoBundle \in BackupBundles
  /\ NoMending \in BackupMendings /\ Own \in WholeFiles
<1>1. NoFile \in BackupFile
  BY BackupBounds DEF NoFile, BackupFile
<1>2. NoCapture \in BackupCaptures
  BY BackupBounds DEF NoCapture, BackupCaptures
<1>3. NoBundle \in BackupBundles
  BY DEF NoBundle, BackupBundles
<1>4. [a \in Areas |-> << >>] \in StagedFiles
  BY DEF StagedFiles, Empty
<1>5. NoMending \in BackupMendings
  BY <1>4 DEF NoMending, BackupMendings
<1>6. Own \in WholeFiles
  BY BackupBounds DEF Own, WholeFiles
<1> QED
  BY <1>1, <1>2, <1>3, <1>5, <1>6

LEMMA LeastIsOne ==
  ASSUME NEW S, S \subseteq Areas, S # {}
  PROVE  Least(S) \in S
<1>1. \E m \in S : \A n \in S : m <= n
  BY LeastMember, BackupAssumption
<1> QED
  BY <1>1 DEF Least

LEMMA BackupStarts == BackupInit => BackupInv
<1> SUFFICES ASSUME BackupInit PROVE BackupInv
  OBVIOUS
<1>1. kept \in [Areas -> BackupFile]
  <2>1. NoFile \in BackupFile /\ [v |-> 1, size |-> 1] \in BackupFile
    BY BackupBegins, BackupBounds DEF BackupFile
  <2> QED
    BY <2>1 DEF BackupInit
<1>2. BackupRows
  BY <1>1, BackupBegins, BackupBounds DEF BackupInit, BackupRows, NoCapture
<1>3. RestoreRows
  BY BackupBegins DEF BackupInit, RestoreRows, StagedFiles
<1>4. ClosedIsDone /\ SwapLosesNothing
  BY DEF BackupInit, ClosedIsDone, SwapLosesNothing, NoCapture, NoMending
<1> QED
  BY <1>2, <1>3, <1>4 DEF BackupInv

\* What the server and a backup do is nothing to a restoration, as long as the
\* lines it reads stay and a closed bundle is left alone.
LEMMA CaptureKeepsRestore ==
  ASSUME BackupInv, BackupRows', ClosedIsDone', UNCHANGED freshVars,
         \/ mending.at = "idle"
         \/ bundle' = bundle
         \/ /\ ~bundle.closed
            /\ Len(bundle.lines) <= Len(bundle'.lines)
            /\ \A i \in DOMAIN bundle.lines : bundle'.lines[i] = bundle.lines[i]
  PROVE  BackupInv'
<1>1. RestoreRows'
  BY DEF BackupInv, RestoreRows, freshVars
<1>2. /\ bundle.lines \in Seq(BackupLine) /\ bundle'.lines \in Seq(BackupLine)
      /\ mending.next \in Nat \ {0}
  BY DEF BackupInv, BackupRows, RestoreRows, BackupBundles, BackupMendings
<1>3. SwapLosesNothing'
  <2>1. mending' = mending /\ fresh' = fresh /\ restored' = restored
    BY DEF freshVars
  <2>2. ASSUME mending.at = "staging"
        PROVE  /\ mending.out = 0
               /\ \A i \in DOMAIN bundle'.lines :
                    i < mending.next => mending.staged[bundle'.lines[i].area] # Empty
               /\ mending.next <= Len(bundle'.lines) + 1
    BY <1>2, <2>2 DEF BackupInv, SwapLosesNothing
  <2>3. ASSUME mending.at = "swapping"
        PROVE  bundle' = bundle
    BY <2>3 DEF BackupInv, SwapLosesNothing
  <2> QED
    BY <2>1, <2>2, <2>3 DEF BackupInv, SwapLosesNothing
<1> QED
  BY <1>1, <1>3 DEF BackupInv

\* What a restoration does is nothing to a backup.
LEMMA RestoreKeepsCapture ==
  ASSUME BackupInv, UNCHANGED <<kept, edits, captureVars>>, breaks' \in 0 .. MaxBreaks,
         RestoreRows', SwapLosesNothing'
  PROVE  BackupInv'
<1>1. BackupRows'
  BY DEF BackupInv, BackupRows, captureVars
<1>2. ClosedIsDone'
  BY DEF BackupInv, ClosedIsDone, captureVars
<1> QED
  BY <1>1, <1>2 DEF BackupInv

LEMMA CaptureStep ==
  ASSUME BackupInv,
         \/ \E a \in Areas :
              Edit(a, NoFile) \/ \E s \in Sizes : Edit(a, [v |-> edits + 2, size |-> s])
         \/ CopyDatabase \/ CollectSources \/ FileDigest \/ ReadChunk \/ CompareSize
         \/ CloseBundle \/ BreakBackup
  PROVE  BackupInv'
<1> USE DEF captureVars, freshVars
<1>t. /\ kept \in [Areas -> BackupFile] /\ edits \in 0 .. MaxEdits /\ copied \in BackupFile
      /\ capture \in BackupCaptures /\ bundle \in BackupBundles /\ breaks \in 0 .. MaxBreaks
      /\ capture.at \in {"reading", "comparing"} => capture.file \in Areas
  BY DEF BackupInv, BackupRows
<1>i. ClosedIsDone
  BY DEF BackupInv
<1>s. \A a \in Areas : SourceFile(a) \in BackupFile
  BY <1>t DEF SourceFile
<1>f. ASSUME FailedBackup, UNCHANGED <<kept, edits, freshVars>>, breaks' \in 0 .. MaxBreaks
      PROVE  BackupInv'
  <2>1. BackupRows' /\ ClosedIsDone'
    BY <1>f, <1>t, BackupBegins DEF FailedBackup, BackupRows, ClosedIsDone, NoCapture
  <2> QED
    BY <1>f, <2>1, CaptureKeepsRestore DEF FailedBackup
<1>1. ASSUME NEW a \in Areas, NEW file \in BackupFile, Edit(a, file)
      PROVE  BackupInv'
  <2>1. kept' \in [Areas -> BackupFile] /\ edits' \in 0 .. MaxEdits
    BY <1>1, <1>t, BackupBounds DEF Edit
  <2>2. BackupRows' /\ ClosedIsDone'
    BY <1>1, <1>t, <1>i, <2>1 DEF Edit, BackupRows, ClosedIsDone
  <2> QED
    BY <1>1, <2>2, CaptureKeepsRestore DEF Edit
<1>2. ASSUME NEW s \in Sizes, edits < MaxEdits
      PROVE  [v |-> edits + 2, size |-> s] \in BackupFile
  BY <1>2, <1>t, BackupBounds DEF BackupFile
<1>3. CASE CopyDatabase
  <2>1. capture' \in BackupCaptures /\ capture'.at = "collecting" /\ copied' \in BackupFile
    BY <1>3, <1>t, BackupBegins, BackupBounds DEF CopyDatabase, BackupCaptures
  <2>2. BackupRows' /\ ClosedIsDone'
    BY <1>3, <1>t, <2>1 DEF CopyDatabase, BackupRows, ClosedIsDone
  <2> QED
    BY <1>3, <2>2, CaptureKeepsRestore DEF CopyDatabase
<1>4. CASE CollectSources
  <2>1. capture' \in BackupCaptures /\ capture'.at = "next"
    BY <1>4, <1>t DEF CollectSources, BackupCaptures
  <2>2. bundle' \in BackupBundles /\ ~bundle'.closed
    BY <1>4, BackupBegins DEF CollectSources, BackupBundles, NoBundle
  <2>3. BackupRows' /\ ClosedIsDone'
    BY <1>4, <1>t, <2>1, <2>2 DEF CollectSources, BackupRows, ClosedIsDone
  <2> QED
    BY <1>4, <2>3, CaptureKeepsRestore DEF CollectSources
<1>5. CASE FileDigest
  <2> DEFINE a == Least(capture.todo)
             file == SourceFile(a)
  <2>1. capture.todo \subseteq Areas /\ capture.todo # {} /\ capture.at = "next"
    BY <1>5, <1>t DEF FileDigest, BackupCaptures
  <2>2. a \in Areas
    BY <2>1, LeastIsOne
  <2>3. file \in BackupFile
    BY <1>s, <2>2
  <2>4. \/ FailedBackup
        \/ /\ capture' = [capture EXCEPT !.at = "reading", !.todo = @ \ {a}, !.file = a,
                                         !.digest = file.v, !.size = file.size, !.got = << >>]
           /\ UNCHANGED <<copied, bundle>>
    BY <1>5 DEF FileDigest
  <2> HIDE DEF a, file
  <2>5. CASE FailedBackup
    BY <1>5, <1>f, <1>t, <2>5 DEF FileDigest
  <2>6. CASE /\ capture' = [capture EXCEPT !.at = "reading", !.todo = @ \ {a}, !.file = a,
                                         !.digest = file.v, !.size = file.size, !.got = << >>]
             /\ UNCHANGED <<copied, bundle>>
    <3>1. file.v \in Versions /\ file.size \in Sizes
      BY <2>3 DEF BackupFile
    <3>4. /\ capture.todo \ {a} \in SUBSET Areas /\ << >> \in Seq(Versions)
          /\ a \in Areas \cup {0}
      BY <2>1, <2>2
    <3>5. capture' = [at |-> "reading", todo |-> capture.todo \ {a}, file |-> a,
                      digest |-> file.v, size |-> file.size, got |-> << >>]
      BY <1>t, <2>6 DEF BackupCaptures
    <3>2. capture' \in BackupCaptures /\ capture'.at = "reading" /\ capture'.file = a
      BY <3>1, <3>4, <3>5 DEF BackupCaptures
    <3>3. BackupRows' /\ ClosedIsDone'
      BY <1>5, <1>t, <1>i, <2>1, <2>2, <2>6, <3>2 DEF FileDigest, BackupRows, ClosedIsDone
    <3> QED
      BY <1>5, <2>6, <3>3, CaptureKeepsRestore DEF FileDigest
  <2> QED
    BY <2>4, <2>5, <2>6
<1>6. CASE ReadChunk
  <2>1. PICK v \in {SourceFile(capture.file).v} \cup {capture.got[i] : i \in DOMAIN capture.got} :
          capture' = [capture EXCEPT !.got = Append(@, v),
                                     !.at = IF capture.got = << >> THEN "reading" ELSE "comparing"]
    BY <1>6 DEF ReadChunk
  <2>2. capture.at = "reading" /\ capture.file \in Areas /\ capture.got \in Seq(Versions)
    BY <1>6, <1>t DEF ReadChunk, BackupCaptures
  <2>3. v \in Versions
    BY <1>s, <2>1, <2>2 DEF BackupFile
  <2>4. /\ capture' \in BackupCaptures /\ capture'.file = capture.file
        /\ capture'.at \in {"reading", "comparing"}
    <3>1. Append(capture.got, v) \in Seq(Versions)
      BY <2>2, <2>3
    <3> QED
      BY <1>t, <2>1, <3>1 DEF BackupCaptures
  <2>5. BackupRows' /\ ClosedIsDone'
    BY <1>6, <1>t, <1>i, <2>2, <2>4 DEF ReadChunk, BackupRows, ClosedIsDone
  <2> QED
    BY <1>6, <2>5, CaptureKeepsRestore DEF ReadChunk
<1>7. CASE CompareSize
  <2> DEFINE entered == [area |-> capture.file, digest |-> capture.digest, got |-> capture.got]
  <2>1. CASE FailedBackup
    BY <1>7, <1>f, <1>t, <2>1 DEF CompareSize
  <2>2. CASE /\ capture' = [capture EXCEPT !.at = "next"]
             /\ bundle' = [bundle EXCEPT !.lines = Append(@, entered)]
             /\ UNCHANGED copied
    <3>1. capture.at = "comparing" /\ entered \in BackupLine /\ bundle.lines \in Seq(BackupLine)
      BY <1>7, <1>t DEF CompareSize, BackupLine, BackupCaptures, BackupBundles
    <3> HIDE DEF entered
    <3>2. /\ Append(bundle.lines, entered) \in Seq(BackupLine)
          /\ Len(Append(bundle.lines, entered)) = Len(bundle.lines) + 1
          /\ \A i \in DOMAIN bundle.lines : Append(bundle.lines, entered)[i] = bundle.lines[i]
      BY <3>1
    <3>3. /\ bundle' \in BackupBundles /\ bundle'.closed = bundle.closed
          /\ bundle'.lines = Append(bundle.lines, entered)
      BY <1>t, <2>2, <3>2 DEF BackupBundles
    <3>4. capture' \in BackupCaptures /\ capture'.at = "next"
      BY <1>t, <2>2 DEF BackupCaptures
    <3>5. ~bundle.closed
      BY <1>i, <3>1 DEF ClosedIsDone
    <3>6. BackupRows' /\ ClosedIsDone'
      BY <1>7, <1>t, <2>2, <3>3, <3>4, <3>5 DEF CompareSize, BackupRows, ClosedIsDone
    <3> QED
      BY <1>7, <3>1, <3>2, <3>3, <3>5, <3>6, CaptureKeepsRestore DEF CompareSize
  <2> QED
    BY <1>7, <2>1, <2>2 DEF CompareSize
<1>8. CASE CloseBundle
  <2>1. /\ bundle' \in BackupBundles /\ bundle'.lines = bundle.lines /\ ~bundle.closed
    BY <1>8, <1>t, <1>i DEF CloseBundle, BackupBundles, ClosedIsDone
  <2>2. BackupRows' /\ ClosedIsDone'
    BY <1>8, <1>t, <2>1, BackupBegins DEF CloseBundle, BackupRows, ClosedIsDone, NoCapture
  <2>3. bundle.lines \in Seq(BackupLine)
    BY <1>t DEF BackupBundles
  <2> QED
    BY <1>8, <2>1, <2>2, <2>3, CaptureKeepsRestore DEF CloseBundle
<1>9. CASE BreakBackup
  <2>1. breaks' \in 0 .. MaxBreaks
    BY <1>9, <1>t, BackupBounds DEF BreakBackup
  <2> QED
    BY <1>9, <1>f, <2>1 DEF BreakBackup
<1> QED
  BY <1>1, <1>2, <1>3, <1>4, <1>5, <1>6, <1>7, <1>8, <1>9, BackupBegins DEF Edit

LEMMA RestoreStep ==
  ASSUME BackupInv,
         \/ BeginRestore \/ StageFile \/ EndStaging \/ RemoveTop \/ RenameTop \/ EndRestore
         \/ BreakRestore \/ StartOnFresh
  PROVE  BackupInv'
<1>t. /\ fresh \in StagedFiles /\ mending \in BackupMendings /\ restored \subseteq Areas
      /\ \A a \in restored : fresh[a] # Empty
      /\ breaks \in 0 .. MaxBreaks /\ bundle \in BackupBundles
      /\ bundle.lines \in Seq(BackupLine) /\ mending.staged \in StagedFiles
      /\ mending.next \in Nat \ {0} /\ mending.out \in Areas \cup {0}
      /\ mending.at \in {"idle", "staging", "swapping"}
  BY DEF BackupInv, BackupRows, RestoreRows, BackupBundles, BackupMendings
<1>a. \A i \in DOMAIN bundle.lines : bundle.lines[i] \in BackupLine /\ bundle.lines[i].area \in Areas
  <2>1. \A i \in DOMAIN bundle.lines : bundle.lines[i] \in BackupLine
    BY <1>t
  <2> QED
    BY <2>1 DEF BackupLine
<1>i. SwapLosesNothing
  BY DEF BackupInv
<1>e. Empty \in {Empty} \cup WholeFiles /\ DataArea \in Areas /\ 0 \notin Areas
  BY BackupBounds
<1>f. ASSUME FailedRestore, UNCHANGED <<kept, edits, captureVars>>, breaks' \in 0 .. MaxBreaks
      PROVE  BackupInv'
  <2>1. NoMending.at = "idle" /\ NoMending \in BackupMendings
    BY BackupBegins DEF NoMending
  <2>2. RestoreRows'
    BY <1>f, <1>t, <2>1 DEF FailedRestore, RestoreRows
  <2>3. SwapLosesNothing'
    BY <1>f, <2>1 DEF FailedRestore, SwapLosesNothing
  <2> QED
    BY <1>f, <2>2, <2>3, RestoreKeepsCapture
<1>1. CASE BeginRestore
  <2>1. /\ mending' \in BackupMendings /\ mending'.at = "staging" /\ mending'.next = 1
        /\ mending'.out = 0
    BY <1>1, BackupBegins DEF BeginRestore, BackupMendings, NoMending
  <2>2. RestoreRows'
    BY <1>1, <1>t, <2>1 DEF BeginRestore, RestoreRows
  <2>3. SwapLosesNothing'
    <3>1. bundle' = bundle /\ \A i \in DOMAIN bundle.lines : ~(i < 1)
      BY <1>1, <1>t DEF BeginRestore, captureVars
    <3>2. 1 <= Len(bundle.lines) + 1
      BY <1>t
    <3> QED
      BY <1>1, <2>1, <3>1, <3>2 DEF BeginRestore, SwapLosesNothing
  <2> QED
    BY <1>1, <1>t, <2>2, <2>3, RestoreKeepsCapture DEF BeginRestore
<1>2. CASE StageFile
  <2> DEFINE entered == bundle.lines[mending.next]
  <2>1. /\ mending.at = "staging" /\ mending.next <= Len(bundle.lines)
        /\ UNCHANGED <<kept, edits, captureVars, breaks>>
    BY <1>2 DEF StageFile
  <2>2. mending.next \in DOMAIN bundle.lines /\ entered \in BackupLine
    BY <1>t, <2>1
  <2>3. \/ FailedRestore
        \/ /\ Verified(entered)
           /\ mending' = [mending EXCEPT !.next = @ + 1, !.staged[entered.area] = entered.got]
           /\ UNCHANGED <<fresh, restored>>
    BY <1>2 DEF StageFile
  <2> HIDE DEF entered
  <2>4. CASE FailedRestore
    BY <1>f, <1>t, <2>1, <2>4
  <2>5. CASE /\ Verified(entered)
             /\ mending' = [mending EXCEPT !.next = @ + 1, !.staged[entered.area] = entered.got]
             /\ UNCHANGED <<fresh, restored>>
    <3>1. entered.area \in Areas /\ entered.digest \in Versions /\ entered.got \in Seq(Versions)
      BY <2>2 DEF BackupLine
    <3>2. entered.got = <<entered.digest, entered.digest>>
      BY <2>5, <3>1 DEF Verified
    <3>3. entered.got \in WholeFiles
      BY <3>1, <3>2 DEF WholeFiles
    <3>4. /\ mending'.at = "staging" /\ mending'.next = mending.next + 1
          /\ mending'.staged = [mending.staged EXCEPT ![entered.area] = entered.got]
          /\ mending'.out = mending.out
          /\ mending' = [at |-> "staging", next |-> mending.next + 1,
                         staged |-> [mending.staged EXCEPT ![entered.area] = entered.got],
                         out |-> mending.out]
      BY <1>t, <2>1, <2>5 DEF BackupMendings
    <3>5. mending'.staged \in StagedFiles
      BY <1>t, <3>1, <3>3, <3>4 DEF StagedFiles
    <3>6. mending' \in BackupMendings
      BY <1>t, <3>4, <3>5 DEF BackupMendings
    <3>7. RestoreRows'
      BY <1>t, <2>5, <3>6 DEF RestoreRows
    <3>8. SwapLosesNothing'
      <4>1. bundle' = bundle /\ entered.got # Empty
        BY <2>1, <3>3, WholeIsFile DEF captureVars
      <4>2. ASSUME NEW i \in DOMAIN bundle.lines, i < mending.next + 1
            PROVE  mending'.staged[bundle.lines[i].area] # Empty
        <5>1. CASE i < mending.next
          <6>1. mending.staged[bundle.lines[i].area] # Empty
            BY <1>i, <2>1, <5>1 DEF SwapLosesNothing
          <6> QED
            BY <1>a, <1>t, <3>4, <4>1, <6>1 DEF StagedFiles
        <5>2. CASE i = mending.next
          <6>1. bundle.lines[i].area = entered.area
            BY <5>2 DEF entered
          <6> QED
            BY <1>t, <3>1, <3>4, <4>1, <6>1 DEF StagedFiles
        <5> QED
          BY <1>t, <4>2, <5>1, <5>2
      <4>3. mending.next + 1 <= Len(bundle.lines) + 1 /\ mending.out = 0 /\ restored = {}
        BY <1>i, <1>t, <2>1 DEF SwapLosesNothing
      <4> QED
        BY <2>5, <3>4, <4>1, <4>2, <4>3 DEF SwapLosesNothing
    <3> QED
      BY <1>t, <2>1, <3>7, <3>8, RestoreKeepsCapture
  <2> QED
    BY <2>3, <2>4, <2>5
<1>3. CASE EndStaging
  <2>1. CASE bundle.closed
    <3>1. /\ mending' = [mending EXCEPT !.at = "swapping"] /\ mending.at = "staging"
          /\ mending.next > Len(bundle.lines)
          /\ UNCHANGED <<fresh, restored, kept, edits, captureVars, breaks>>
      BY <1>3, <2>1 DEF EndStaging
    <3>2. /\ mending' \in BackupMendings /\ mending'.at = "swapping"
          /\ mending'.staged = mending.staged /\ mending'.out = mending.out
      BY <1>t, <3>1 DEF BackupMendings
    <3>3. RestoreRows'
      BY <1>t, <3>1, <3>2 DEF RestoreRows
    <3>4. SwapLosesNothing'
      <4>1. \A i \in DOMAIN bundle.lines : i < mending.next
        BY <1>t, <3>1
      <4>2. bundle' = bundle
        BY <3>1 DEF captureVars
      <4> QED
        BY <1>i, <2>1, <3>1, <3>2, <4>1, <4>2 DEF SwapLosesNothing
    <3> QED
      BY <1>t, <3>1, <3>3, <3>4, RestoreKeepsCapture
  <2>2. CASE ~bundle.closed
    BY <1>3, <1>f, <1>t, <2>2 DEF EndStaging
  <2> QED
    BY <2>1, <2>2
<1>4. CASE RemoveTop
  <2> DEFINE top == Least(Staged)
  <2>1. /\ mending.at = "swapping" /\ mending.out = 0 /\ Staged # {}
        /\ mending' = [mending EXCEPT !.out = top] /\ fresh' = [fresh EXCEPT ![top] = Empty]
        /\ UNCHANGED <<kept, edits, captureVars, restored, breaks>>
    BY <1>4 DEF RemoveTop
  <2>2. top \in Areas /\ mending.staged[top] # Empty
    <3>1. Staged \subseteq Areas
      BY DEF Staged
    <3>2. top \in Staged
      BY <2>1, <3>1, LeastIsOne
    <3> QED
      BY <3>2 DEF Staged
  <2> HIDE DEF top
  <2>3. /\ mending' \in BackupMendings /\ mending'.at = "swapping"
        /\ mending'.staged = mending.staged /\ mending'.out = top
    BY <1>t, <2>1, <2>2 DEF BackupMendings
  <2>4. fresh' \in StagedFiles /\ restored = {}
    BY <1>e, <1>i, <1>t, <2>1, <2>2 DEF StagedFiles, SwapLosesNothing
  <2>5. RestoreRows'
    BY <2>1, <2>3, <2>4 DEF RestoreRows
  <2>6. SwapLosesNothing'
    <3>1. \A a \in Areas : fresh[a] # Empty => fresh'[a] # Empty \/ a = top
      BY <1>t, <2>1, <2>2 DEF StagedFiles
    <3>2. bundle' = bundle
      BY <2>1 DEF captureVars
    <3> QED
      BY <1>a, <1>i, <2>1, <2>2, <2>3, <2>4, <3>1, <3>2 DEF SwapLosesNothing
  <2> QED
    BY <1>t, <2>1, <2>5, <2>6, RestoreKeepsCapture
<1>5. CASE RenameTop
  <2> DEFINE top == mending.out
  <2>1. /\ mending.at = "swapping" /\ top # 0
        /\ fresh' = [fresh EXCEPT ![top] = mending.staged[top]]
        /\ mending' = [mending EXCEPT !.out = 0, !.staged[top] = Empty]
        /\ UNCHANGED <<kept, edits, captureVars, restored, breaks>>
    BY <1>5 DEF RenameTop
  <2>2. top \in Areas /\ mending.staged[top] # Empty /\ restored = {}
    BY <1>i, <1>t, <2>1 DEF SwapLosesNothing
  <2>3. mending.staged[top] \in {Empty} \cup WholeFiles
    BY <1>t, <2>2 DEF StagedFiles
  <2> HIDE DEF top
  <2>4. /\ mending'.at = "swapping" /\ mending'.out = 0
        /\ mending'.staged = [mending.staged EXCEPT ![top] = Empty]
        /\ mending' = [at |-> "swapping", next |-> mending.next,
                       staged |-> [mending.staged EXCEPT ![top] = Empty], out |-> 0]
    BY <1>t, <2>1 DEF BackupMendings
  <2>5. fresh' \in StagedFiles /\ mending'.staged \in StagedFiles
    BY <1>e, <1>t, <2>1, <2>2, <2>3, <2>4 DEF StagedFiles
  <2>6. mending' \in BackupMendings
    BY <1>t, <2>4, <2>5 DEF BackupMendings
  <2>7. RestoreRows'
    BY <2>1, <2>2, <2>5, <2>6 DEF RestoreRows
  <2>8. SwapLosesNothing'
    <3>1. \A a \in Areas : /\ fresh[a] # Empty => fresh'[a] # Empty
                          /\ mending.staged[a] # Empty =>
                               mending'.staged[a] # Empty \/ fresh'[a] # Empty
      BY <1>t, <2>1, <2>2, <2>4 DEF StagedFiles
    <3>2. bundle' = bundle
      BY <2>1 DEF captureVars
    <3> QED
      BY <1>a, <1>i, <2>1, <2>2, <2>4, <3>1, <3>2 DEF SwapLosesNothing
  <2> QED
    BY <1>t, <2>1, <2>7, <2>8, RestoreKeepsCapture
<1>6. CASE EndRestore
  <2>1. /\ mending.at = "swapping" /\ Staged = {} /\ mending' = NoMending /\ fresh' = fresh
        /\ restored' = {bundle.lines[i].area : i \in DOMAIN bundle.lines}
        /\ UNCHANGED <<kept, edits, captureVars, breaks>>
    BY <1>6 DEF EndRestore
  <2>2. NoMending.at = "idle" /\ NoMending \in BackupMendings
    BY BackupBegins DEF NoMending
  <2>3. \A i \in DOMAIN bundle.lines : fresh[bundle.lines[i].area] # Empty
    <3>1. \A a \in Areas : mending.staged[a] = Empty
      BY <2>1 DEF Staged
    <3> QED
      BY <1>a, <1>i, <2>1, <3>1 DEF SwapLosesNothing
  <2>4. RestoreRows'
    BY <1>a, <1>t, <2>1, <2>2, <2>3 DEF RestoreRows
  <2>5. SwapLosesNothing'
    BY <2>1, <2>2 DEF SwapLosesNothing
  <2> QED
    BY <1>t, <2>1, <2>4, <2>5, RestoreKeepsCapture
<1>7. CASE BreakRestore
  <2>1. breaks' \in 0 .. MaxBreaks
    BY <1>7, <1>t, BackupBounds DEF BreakRestore
  <2> QED
    BY <1>7, <1>f, <2>1 DEF BreakRestore
<1>8. CASE StartOnFresh
  <2>1. /\ mending.at = "idle" /\ fresh' = [fresh EXCEPT ![DataArea] = Own]
        /\ UNCHANGED <<kept, edits, captureVars, mending, restored, breaks>>
    BY <1>8 DEF StartOnFresh
  <2>2. Own \in WholeFiles /\ Own # Empty
    BY BackupBegins, WholeIsFile
  <2>3. fresh' \in StagedFiles /\ \A a \in Areas : fresh[a] # Empty => fresh'[a] # Empty
    BY <1>e, <1>t, <2>1, <2>2 DEF StagedFiles
  <2>4. RestoreRows'
    BY <1>t, <2>1, <2>3 DEF RestoreRows
  <2>5. SwapLosesNothing'
    BY <2>1 DEF SwapLosesNothing
  <2> QED
    BY <1>t, <2>1, <2>4, <2>5, RestoreKeepsCapture
<1> QED
  BY <1>1, <1>2, <1>3, <1>4, <1>5, <1>6, <1>7, <1>8

LEMMA BackupStep == ASSUME BackupInv, [BackupNext]_backupVars PROVE BackupInv'
<1>1. CASE UNCHANGED backupVars
  BY <1>1 DEF backupVars, BackupInv, BackupRows, RestoreRows, ClosedIsDone, SwapLosesNothing
<1> QED
  BY <1>1, CaptureStep, RestoreStep DEF BackupNext

LEMMA BackupHolds == BackupInv => BackupTypes /\ RestoredIsWhole
<1> SUFFICES ASSUME BackupInv PROVE BackupTypes /\ RestoredIsWhole
  OBVIOUS
<1>t. BackupRows /\ RestoreRows
  BY DEF BackupInv
<1>1. \A a \in Areas : fresh[a] \in {Empty} \cup WholeFiles
  BY <1>t DEF RestoreRows, StagedFiles
<1>2. RestoredIsWhole
  BY <1>1, <1>t, WholeIsFile DEF RestoredIsWhole, RestoreRows
<1>3. fresh \in [Areas -> {Empty} \cup (Versions \X Versions)]
  BY <1>1, <1>t, WholeIsFile DEF RestoreRows, StagedFiles
<1>4. \A i \in DOMAIN bundle.lines : bundle.lines[i].area \in Areas
  <2>1. bundle.lines \in Seq(BackupLine)
    BY <1>t DEF BackupRows, BackupBundles
  <2>2. \A i \in DOMAIN bundle.lines : bundle.lines[i] \in BackupLine
    BY <2>1
  <2> QED
    BY <2>2 DEF BackupLine
<1>5. BackupTypes
  BY <1>3, <1>4, <1>t DEF BackupTypes, BackupRows, RestoreRows, BackupFile, BackupCaptures,
     BackupMendings
<1> QED
  BY <1>2, <1>5

\* Whatever was written while the backup was taken, and wherever a restoration
\* died, the root restored into holds whole files; and what a restoration
\* answers to have put in place is there.
THEOREM RestorationIsWhole == BackupSpec => [](BackupTypes /\ RestoredIsWhole)
BY BackupStarts, BackupStep, BackupHolds, PTL DEF BackupSpec


-----------------------------------------------------------------------------
(* The growth of characters *)

GrowthPages == [rev : Nat, of : SUBSET Turns]
GrowthWalks == [who : Folk \cup {"nobody"}, left : SUBSET Nat, marked : SUBSET Turns,
                noted : SUBSET Turns]

GrowthRows ==
  /\ told \in Seq([by : {"owner", "self"}, run : Turns])
  /\ closed \in Seq(Turns)
  /\ pruned \subseteq Turns
  /\ marks \in [Turns -> {0, 1}]
  /\ ownMarks \subseteq Turns
  /\ diary \in [Folk -> [Days -> GrowthPages]]
  /\ notes \in [Turns -> Nat]
  /\ proofs \in [Folk -> SUBSET Outcomes]
  /\ skill \in [Folk -> [rev : Nat, st : SkillStatuses]]
  /\ profile \in [Folk -> Nat]
  /\ bonds \in [Folk \X Folk -> Nat]
  /\ owed \subseteq Folk
  /\ walk \in GrowthWalks
  /\ booting \in BOOLEAN
  /\ writes \in 0 .. MaxWrites
  /\ deaths \in 0 .. MaxDeaths

\* A run ends once.
EndsOnce == \A i, j \in DOMAIN closed : closed[i] = closed[j] => i = j

\* What a projection under way remembers: which runs have their milestone,
\* which ones a journal names, and that it has dealt with the others it passed.
WalkKnows ==
  walk # NoWalk =>
    /\ walk.who \in Folk
    /\ walk.left \subseteq DOMAIN closed
    /\ \A i \in walk.left : ByOf[closed[i]] = walk.who
    /\ \A t \in Turns : ByOf[t] = walk.who /\ marks[t] = 1 => t \in walk.marked
    /\ walk.noted \subseteq Journaled(walk.who)
    /\ \A t \in Events : ByOf[t] = walk.who /\ Spoken(t) =>
         t \in Journaled(walk.who) \/ \E i \in walk.left : closed[i] = t

GrowthInv == GrowthRows /\ EndsOnce /\ WalkKnows

\* The runs of a character, as many as the projection reads milestones of
FewRuns ==
  \A c \in Folk : /\ IsFiniteSet({t \in Turns : ByOf[t] = c})
                  /\ Cardinality({t \in Turns : ByOf[t] = c}) <= ListLimit

LEMMA NearestIsLeft ==
  ASSUME walk.left \subseteq Nat, walk.left # {}
  PROVE  Nearest \in walk.left
<1>1. \E m \in walk.left : \A n \in walk.left : m <= n
  BY LeastMember
<1> QED
  BY <1>1 DEF Nearest

LEMMA GrowthStarts == GrowthInit => GrowthInv
<1> SUFFICES ASSUME GrowthInit PROVE GrowthInv
  OBVIOUS
<1>1. Blank \in GrowthPages
  BY DEF Blank, GrowthPages
<1>2. diary \in [Folk -> [Days -> GrowthPages]]
  BY <1>1 DEF GrowthInit
<1>3. walk \in GrowthWalks
  BY DEF GrowthInit, NoWalk, GrowthWalks
<1>4. /\ proofs \in [Folk -> SUBSET Outcomes]
      /\ skill \in [Folk -> [rev : Nat, st : SkillStatuses]]
      /\ profile \in [Folk -> Nat] /\ bonds \in [Folk \X Folk -> Nat]
  BY DEF GrowthInit, SkillStatuses
<1>5. 0 \in 0 .. MaxWrites /\ 0 \in 0 .. MaxDeaths
  BY GrowthAssumption
<1>8. /\ told \in Seq([by : {"owner", "self"}, run : Turns]) /\ closed \in Seq(Turns)
      /\ marks \in [Turns -> {0, 1}] /\ notes \in [Turns -> Nat]
  BY DEF GrowthInit
<1>6. GrowthRows
  BY <1>2, <1>3, <1>4, <1>5, <1>8 DEF GrowthInit, GrowthRows
<1>7. EndsOnce /\ WalkKnows
  BY DEF GrowthInit, EndsOnce, WalkKnows
<1> QED
  BY <1>6, <1>7 DEF GrowthInv

\* A projection reads the milestones of all the runs of its character when
\* they are not more than it reads at once.
LEMMA FewAreListed ==
  ASSUME FewRuns, EndsOnce, closed \in Seq(Turns), NEW c \in Folk
  PROVE  Listed(c) = Marked(c)
<1> DEFINE runs == {t \in Turns : ByOf[t] = c}
<1>1. IsFiniteSet(runs) /\ Cardinality(runs) <= ListLimit
  BY DEF FewRuns
<1>2. ASSUME NEW t \in Marked(c)
      PROVE  Cardinality({u \in Marked(c) : Before(t, u)}) < ListLimit
  <2> DEFINE later == {u \in Marked(c) : Before(t, u)}
  <2>1. t \in runs /\ later \subseteq runs
    BY <1>2 DEF Marked
  <2>2. ~Before(t, t)
    BY DEF Before, EndsOnce
  <2>3. later \subseteq runs \ {t}
    BY <2>1, <2>2
  <2> HIDE DEF later, runs
  <2>4. /\ IsFiniteSet(runs \ {t})
        /\ Cardinality(runs \ {t}) = Cardinality(runs) - 1
    BY <1>1, <2>1, FS_RemoveElement
  <2>5. Cardinality(later) <= Cardinality(runs \ {t})
    BY <2>3, <2>4, FS_Subset
  <2>6. /\ Cardinality(runs) \in Nat /\ Cardinality(later) \in Nat /\ ListLimit \in Nat
    <3>1. IsFiniteSet(later)
      BY <2>3, <2>4, FS_Subset
    <3> QED
      BY <1>1, <3>1, FS_CardinalityType, GrowthAssumption
  <2>7. Cardinality(later) < ListLimit
    BY <1>1, <2>4, <2>5, <2>6
  <2> QED
    BY <2>7 DEF later
<1> QED
  BY <1>2 DEF Listed

LEMMA GrowthStep ==
  ASSUME GrowthInv, FewRuns, [GrowthNext]_growthVars
  PROVE  GrowthInv'
<1> USE DEF dossierVars
<1>t. /\ told \in Seq([by : {"owner", "self"}, run : Turns]) /\ closed \in Seq(Turns)
      /\ pruned \subseteq Turns /\ marks \in [Turns -> {0, 1}] /\ ownMarks \subseteq Turns
      /\ diary \in [Folk -> [Days -> GrowthPages]] /\ notes \in [Turns -> Nat]
      /\ proofs \in [Folk -> SUBSET Outcomes]
      /\ skill \in [Folk -> [rev : Nat, st : SkillStatuses]]
      /\ profile \in [Folk -> Nat] /\ bonds \in [Folk \X Folk -> Nat]
      /\ owed \subseteq Folk /\ walk \in GrowthWalks /\ booting \in BOOLEAN
      /\ writes \in 0 .. MaxWrites /\ deaths \in 0 .. MaxDeaths
  BY DEF GrowthInv, GrowthRows
<1>i. EndsOnce /\ WalkKnows
  BY DEF GrowthInv
<1>n. NoWalk \in GrowthWalks
  BY DEF NoWalk, GrowthWalks
<1>e. Events \subseteq Turns
  BY <1>t DEF Events, Ended
\* While nobody is projected, anything may be written.
<1>q. ASSUME GrowthRows', EndsOnce', walk' = NoWalk
      PROVE  GrowthInv'
  BY <1>q DEF GrowthInv, WalkKnows
<1>1. ASSUME NEW t \in Turns, Ask(t) \/ Answer(t) \/ EndTurn(t) \/ Conclude(t)
      PROVE  GrowthInv'
  <2>1. walk' = NoWalk
    BY <1>1 DEF Ask, Answer, EndTurn, Conclude, Serving
  <2>2. told' \in Seq([by : {"owner", "self"}, run : Turns]) /\ closed' \in Seq(Turns)
    <3>1. \A b \in {"owner", "self"} :
            Append(told, [by |-> b, run |-> t]) \in Seq([by : {"owner", "self"}, run : Turns])
      BY <1>t
    <3>2. Append(closed, t) \in Seq(Turns)
      BY <1>t
    <3> QED
      BY <1>1, <1>t, <3>1, <3>2 DEF Ask, Answer, EndTurn, Conclude
  <2>3. owed' \subseteq Folk
    BY <1>1, <1>t, GrowthAssumption DEF Ask, Answer, EndTurn, Conclude
  <2>4. GrowthRows'
    BY <1>1, <1>n, <1>t, <2>1, <2>2, <2>3 DEF Ask, Answer, EndTurn, Conclude, GrowthRows
  <2>5. EndsOnce'
    <3>1. CASE EndTurn(t)
      <4>1. closed' = Append(closed, t) /\ \A i \in DOMAIN closed : closed[i] # t
        BY <1>t, <3>1 DEF EndTurn, Ended
      <4> QED
        BY <1>i, <1>t, <4>1 DEF EndsOnce
    <3>2. CASE closed' = closed
      BY <1>i, <3>2 DEF EndsOnce
    <3> QED
      BY <1>1, <3>1, <3>2 DEF Ask, Answer, Conclude
  <2> QED
    BY <1>q, <2>1, <2>4, <2>5
<1>2. ASSUME NEW c \in Folk, BeginWalk(c)
      PROVE  GrowthInv'
  <2> DEFINE left == {i \in DOMAIN closed : ByOf[closed[i]] = c /\ closed[i] \in Events}
  <2>1. /\ walk' = [who |-> c, left |-> left, marked |-> Listed(c), noted |-> Journaled(c)]
        /\ UNCHANGED <<told, closed, pruned, dossierVars, owed, booting, writes, deaths>>
    BY <1>2 DEF BeginWalk
  <2>2. left \subseteq Nat /\ Listed(c) \subseteq Turns /\ Journaled(c) \subseteq Turns
    <3>1. Journaled(c) \subseteq Turns
      BY <1>t DEF Journaled, GrowthPages
    <3> QED
      BY <1>t, <3>1 DEF Listed, Marked
  <2>3. walk' \in GrowthWalks
    BY <2>1, <2>2 DEF GrowthWalks
  <2>4. GrowthRows'
    BY <1>t, <2>1, <2>3 DEF GrowthRows
  <2>5. EndsOnce'
    BY <1>i, <2>1 DEF EndsOnce
  <2>6. \A t \in Turns : ByOf[t] = c /\ marks[t] = 1 => t \in Listed(c)
    BY <1>i, <1>t, FewAreListed DEF Marked
  <2>7. \A t \in Events : ByOf[t] = c => \E i \in left : closed[i] = t
    BY DEF Events, Ended
  <2>8. Events' = Events /\ \A t : Spoken(t)' = Spoken(t)
    BY <2>1 DEF Events, Ended, Spoken, At
  <2>9. Journaled(c)' = Journaled(c)
    BY <2>1 DEF Journaled
  <2> HIDE DEF left
  <2>10. /\ walk'.who = c /\ walk'.left = left /\ walk'.marked = Listed(c)
         /\ walk'.noted = Journaled(c)
    BY <2>1
  <2>11. left \subseteq DOMAIN closed /\ \A i \in left : ByOf[closed[i]] = c
    BY DEF left
  <2>12. WalkKnows'
    BY <1>2, <2>1, <2>6, <2>7, <2>8, <2>9, <2>10, <2>11 DEF WalkKnows
  <2> QED
    BY <2>4, <2>5, <2>12 DEF GrowthInv
\* What is known of the projection under way
<1>w. ASSUME walk # NoWalk
      PROVE  /\ walk.who \in Folk /\ walk.left \subseteq DOMAIN closed /\ walk.left \subseteq Nat
             /\ \A i \in walk.left : ByOf[closed[i]] = walk.who /\ closed[i] \in Turns
             /\ walk.left # {} => Nearest \in walk.left /\ Here \in Turns /\ ByOf[Here] = walk.who
             /\ walk.marked \subseteq Turns /\ walk.noted \subseteq Turns
  <2>1. /\ walk.who \in Folk /\ walk.left \subseteq DOMAIN closed
        /\ \A i \in walk.left : ByOf[closed[i]] = walk.who
    BY <1>i, <1>w DEF WalkKnows
  <2>2. walk.left \subseteq Nat /\ \A i \in walk.left : closed[i] \in Turns
    BY <1>t, <2>1
  <2>3. walk.left # {} => Nearest \in walk.left
    BY <2>2, NearestIsLeft
  <2> QED
    BY <1>t, <2>1, <2>2, <2>3 DEF Here, GrowthWalks
<1>l. walk.left # {} => walk # NoWalk
  BY DEF NoWalk
\* The projection goes past a run that says nothing, or that a journal names.
<1>p. ASSUME walk.left # {}, walk' = [walk EXCEPT !.left = Passed],
             ~Spoken(Here) \/ Here \in walk.noted,
             UNCHANGED <<told, closed, pruned, dossierVars, owed, booting, writes, deaths>>
      PROVE  GrowthInv'
  <2>1. /\ walk' \in GrowthWalks /\ walk'.who = walk.who /\ walk'.left = Passed
        /\ walk'.marked = walk.marked /\ walk'.noted = walk.noted
    BY <1>p, <1>t DEF GrowthWalks, Passed
  <2>2. GrowthRows'
    BY <1>p, <1>t, <2>1 DEF GrowthRows
  <2>3. EndsOnce'
    BY <1>i, <1>p DEF EndsOnce
  <2>4. Events' = Events /\ (\A t : Spoken(t)' = Spoken(t))
        /\ \A c : Journaled(c)' = Journaled(c)
    BY <1>p DEF Events, Ended, Spoken, At, Journaled
  <2>5. ASSUME NEW t \in Events, ByOf[t] = walk.who, Spoken(t)
        PROVE  t \in Journaled(walk.who) \/ \E i \in Passed : closed[i] = t
    <3>1. t \in Journaled(walk.who) \/ \E i \in walk.left : closed[i] = t
      BY <1>e, <1>i, <1>l, <1>p, <2>5 DEF WalkKnows
    <3>2. CASE t = Here
      BY <1>i, <1>l, <1>p, <2>5, <3>2 DEF WalkKnows
    <3> QED
      BY <3>1, <3>2 DEF Passed, Here
  <2>6. WalkKnows'
    <3>1. Passed \subseteq walk.left
      BY DEF Passed
    <3> QED
      BY <1>i, <1>l, <1>p, <2>1, <2>4, <2>5, <3>1 DEF WalkKnows
  <2> QED
    BY <2>2, <2>3, <2>6 DEF GrowthInv
<1>3. CASE Silent
  BY <1>3, <1>p DEF Silent
<1>4. CASE Mark
  <2>1. CASE Here \in pruned
    <3>1. owed' \subseteq Folk /\ walk' = NoWalk
      BY <1>4, <1>t, <2>1 DEF Mark, Refused
    <3>2. GrowthRows' /\ EndsOnce'
      BY <1>4, <1>i, <1>n, <1>t, <2>1, <3>1 DEF Mark, Refused, GrowthRows, EndsOnce
    <3> QED
      BY <1>q, <3>1, <3>2
  <2>2. CASE Here \notin pruned
    <3>1. /\ walk.left # {} /\ Here \notin walk.marked
          /\ marks' = [marks EXCEPT ![Here] = @ + 1]
          /\ walk' = [walk EXCEPT !.marked = @ \cup {Here}]
          /\ UNCHANGED <<told, closed, pruned, ownMarks, diary, notes, proofs, skill, profile, bonds,
                         owed, booting, writes, deaths>>
      BY <1>4, <2>2 DEF Mark, ToMark
    <3>2. Here \in Turns /\ ByOf[Here] = walk.who
      BY <1>l, <1>w, <3>1
    <3>3. marks[Here] = 0
      BY <1>i, <1>l, <1>t, <3>1, <3>2 DEF WalkKnows
    <3>4. marks' \in [Turns -> {0, 1}] /\ \A t \in Turns : marks'[t] = 1 => marks[t] = 1 \/ t = Here
      BY <1>t, <3>1, <3>2, <3>3
    <3>5. /\ walk' \in GrowthWalks /\ walk'.who = walk.who /\ walk'.left = walk.left
          /\ walk'.marked = walk.marked \cup {Here} /\ walk'.noted = walk.noted
      BY <1>t, <3>1, <3>2 DEF GrowthWalks
    <3>6. GrowthRows'
      BY <1>t, <3>1, <3>4, <3>5 DEF GrowthRows
    <3>7. EndsOnce'
      BY <1>i, <3>1 DEF EndsOnce
    <3>8. Events' = Events /\ (\A t : Spoken(t)' = Spoken(t))
          /\ \A c : Journaled(c)' = Journaled(c)
      BY <3>1 DEF Events, Ended, Spoken, At, Journaled
    <3>9. WalkKnows'
      BY <1>i, <1>l, <3>1, <3>4, <3>5, <3>8 DEF WalkKnows
    <3> QED
      BY <3>6, <3>7, <3>9 DEF GrowthInv
  <2> QED
    BY <2>1, <2>2
<1>5. CASE Note
  <2> DEFINE sheet == NewPage(walk.who, DayOf[Here], Here)
  <2>1. /\ walk.left # {} /\ Spoken(Here)
        /\ UNCHANGED <<told, closed, pruned, marks, ownMarks, proofs, skill, profile, bonds,
                       booting, writes, deaths>>
    BY <1>5 DEF Note
  <2>2. CASE Here \in walk.noted
    BY <1>5, <1>p, <2>1, <2>2 DEF Note
  <2>3. CASE Here \notin walk.noted /\ sheet.of \cap pruned # {}
    <3>1. owed' \subseteq Folk /\ walk' = NoWalk /\ diary' = diary /\ notes' = notes
      BY <1>5, <1>t, <2>3 DEF Note
    <3>2. GrowthRows' /\ EndsOnce'
      BY <1>i, <1>n, <1>t, <2>1, <3>1 DEF GrowthRows, EndsOnce
    <3> QED
      BY <1>q, <3>1, <3>2
  <2>4. CASE Here \notin walk.noted /\ ~(sheet.of \cap pruned # {})
    <3>1. /\ diary' = [diary EXCEPT ![walk.who][DayOf[Here]] = sheet]
          /\ notes' = [notes EXCEPT ![Here] = @ + 1]
          /\ walk' = [walk EXCEPT !.left = Passed, !.noted = @ \cup {Here}]
          /\ owed' = owed
      BY <1>5, <2>4 DEF Note
    <3>2. /\ Here \in Turns /\ ByOf[Here] = walk.who /\ walk.who \in Folk
          /\ DayOf[Here] \in Days
      BY <1>l, <1>w, <2>1, GrowthAssumption
    <3>3. sheet \in GrowthPages /\ diary[walk.who][DayOf[Here]].of \cup {Here} = sheet.of
      <4>1. diary[walk.who][DayOf[Here]] \in GrowthPages
        BY <1>t, <3>2
      <4> QED
        BY <3>2, <4>1 DEF NewPage, Page, GrowthPages
    <3> HIDE DEF sheet
    <3>4. diary' \in [Folk -> [Days -> GrowthPages]]
      BY <1>t, <3>1, <3>2, <3>3
    <3>5. Journaled(walk.who) \cup {Here} \subseteq Journaled(walk.who)'
      <4>1. \A d \in Days : diary[walk.who][d].of \subseteq diary'[walk.who][d].of
        BY <1>t, <3>1, <3>2, <3>3
      <4>2. Here \in diary'[walk.who][DayOf[Here]].of
        BY <1>t, <3>1, <3>2, <3>3
      <4>3. walk'.who = walk.who
        BY <1>t, <3>1 DEF GrowthWalks
      <4>4. ASSUME NEW t \in Journaled(walk.who) \cup {Here}
            PROVE  t \in Journaled(walk.who)'
        <5>1. PICK d \in Days : t \in diary'[walk.who][d].of
          BY <3>2, <4>1, <4>2 DEF Journaled
        <5> QED
          BY <4>3, <5>1 DEF Journaled
      <4> QED
        BY <4>4
    <3>6. notes' \in [Turns -> Nat]
      BY <1>t, <3>1, <3>2
    <3>7. /\ walk' \in GrowthWalks /\ walk'.who = walk.who /\ walk'.left = Passed
          /\ walk'.marked = walk.marked /\ walk'.noted = walk.noted \cup {Here}
      BY <1>t, <3>1, <3>2 DEF GrowthWalks, Passed
    <3>8. GrowthRows'
      BY <1>t, <2>1, <3>1, <3>4, <3>6, <3>7 DEF GrowthRows
    <3>9. EndsOnce'
      BY <1>i, <2>1 DEF EndsOnce
    <3>10. Events' = Events /\ \A t : Spoken(t)' = Spoken(t)
      BY <2>1 DEF Events, Ended, Spoken, At
    <3>11. ASSUME NEW t \in Events, ByOf[t] = walk.who, Spoken(t)
           PROVE  t \in Journaled(walk.who)' \/ \E i \in Passed : closed[i] = t
      <4>1. t \in Journaled(walk.who) \/ \E i \in walk.left : closed[i] = t
        BY <1>e, <1>i, <1>l, <2>1, <3>11 DEF WalkKnows
      <4> QED
        BY <3>5, <4>1 DEF Passed, Here
    <3>12. WalkKnows'
      <4>1. Passed \subseteq walk.left
        BY DEF Passed
      <4>2. walk.noted \subseteq Journaled(walk.who)
        BY <1>i, <1>l, <2>1 DEF WalkKnows
      <4> QED
        BY <1>i, <1>l, <2>1, <3>5, <3>7, <3>10, <3>11, <4>1, <4>2 DEF WalkKnows
    <3> QED
      BY <3>8, <3>9, <3>12 DEF GrowthInv
  <2> QED
    BY <2>2, <2>3, <2>4
<1>6. CASE EndWalk
  <2>1. walk' = NoWalk /\ owed' \subseteq Folk /\ booting' \in BOOLEAN
    BY <1>6, <1>t DEF EndWalk
  <2>2. GrowthRows' /\ EndsOnce'
    BY <1>6, <1>i, <1>n, <1>t, <2>1 DEF EndWalk, GrowthRows, EndsOnce
  <2> QED
    BY <1>q, <2>1, <2>2
\* The owner writes by hand.
<1>h. ASSUME ByHand, ownMarks' \subseteq Turns, diary' \in [Folk -> [Days -> GrowthPages]],
             proofs' \in [Folk -> SUBSET Outcomes],
             skill' \in [Folk -> [rev : Nat, st : SkillStatuses]], profile' \in [Folk -> Nat],
             bonds' \in [Folk \X Folk -> Nat], UNCHANGED <<marks, notes>>
      PROVE  GrowthInv'
  <2>1. walk' = NoWalk /\ writes' \in 0 .. MaxWrites
    BY <1>h, <1>t, GrowthAssumption DEF ByHand, Serving
  <2>2. GrowthRows' /\ EndsOnce'
    BY <1>h, <1>i, <1>n, <1>t, <2>1 DEF ByHand, GrowthRows, EndsOnce
  <2> QED
    BY <1>q, <2>1, <2>2
<1>7. ASSUME NEW c \in Folk, NEW d \in Days, WriteJournal(c, d)
      PROVE  GrowthInv'
  <2>1. PICK t \in Events : diary' = [diary EXCEPT ![c][d] = Page(c, d, {t})]
    BY <1>7 DEF WriteJournal
  <2>2. Page(c, d, {t}) \in GrowthPages
    <3>1. diary[c][d] \in GrowthPages
      BY <1>t
    <3> QED
      BY <1>e, <3>1 DEF Page, GrowthPages
  <2>3. diary' \in [Folk -> [Days -> GrowthPages]]
    BY <1>t, <2>1, <2>2
  <2> QED
    BY <1>7, <1>h, <1>t, <2>3 DEF WriteJournal
<1>8. CASE AppendMilestone
  <2>1. ownMarks' \subseteq Turns
    BY <1>8, <1>e, <1>t DEF AppendMilestone
  <2> QED
    BY <1>8, <1>h, <1>t, <2>1 DEF AppendMilestone
<1>9. ASSUME NEW c \in Folk, RecordEvidence(c) \/ ReviseSkill(c) \/ ReviseProfile(c)
      PROVE  GrowthInv'
  <2>1. CASE RecordEvidence(c)
    <3>1. proofs' \in [Folk -> SUBSET Outcomes]
      BY <1>t, <2>1 DEF RecordEvidence, Proved
    <3> QED
      BY <1>h, <1>t, <2>1, <3>1 DEF RecordEvidence
  <2>2. CASE ReviseSkill(c)
    <3>1. skill' \in [Folk -> [rev : Nat, st : SkillStatuses]]
      <4>1. PICK st \in SkillStatuses : skill' = Revised(c, st)
        BY <2>2 DEF ReviseSkill
      <4>2. [rev |-> skill[c].rev + 1, st |-> st] \in [rev : Nat, st : SkillStatuses]
        BY <1>t
      <4> QED
        BY <1>t, <4>1, <4>2 DEF Revised
    <3> QED
      BY <1>h, <1>t, <2>2, <3>1 DEF ReviseSkill
  <2>3. CASE ReviseProfile(c)
    <3>1. profile' \in [Folk -> Nat]
      BY <1>t, <2>3 DEF ReviseProfile, Rewritten
    <3> QED
      BY <1>h, <1>t, <2>3, <3>1 DEF ReviseProfile
  <2> QED
    BY <1>9, <2>1, <2>2, <2>3
<1>10. ASSUME NEW c \in Folk, NEW d \in Folk, Interact(c, d)
       PROVE  GrowthInv'
  <2>1. bonds' \in [Folk \X Folk -> Nat]
    <3>1. <<c, d>> \in Folk \X Folk /\ <<d, c>> \in Folk \X Folk
      OBVIOUS
    <3> DEFINE one == [bonds EXCEPT ![<<c, d>>] = bonds[<<c, d>>] + 1]
    <3>2. one \in [Folk \X Folk -> Nat]
      BY <1>t, <3>1
    <3>3. bonds' = [one EXCEPT ![<<d, c>>] = one[<<d, c>>] + 1]
      BY <1>10 DEF Interact
    <3> HIDE DEF one
    <3> QED
      BY <3>1, <3>2, <3>3
  <2> QED
    BY <1>10, <1>h, <1>t, <2>1 DEF Interact
<1>11. CASE Prune
  <2>1. /\ pruned \subseteq pruned' /\ pruned' \subseteq Turns
        /\ UNCHANGED <<told, closed, dossierVars, owed, walk, booting, writes, deaths>>
    BY <1>11, <1>t DEF Prune
  <2>2. GrowthRows' /\ EndsOnce'
    BY <1>i, <1>t, <2>1 DEF GrowthRows, EndsOnce
  <2>3. Events' \subseteq Events /\ (\A t : Spoken(t)' = Spoken(t))
        /\ \A c : Journaled(c)' = Journaled(c)
    BY <2>1 DEF Events, Ended, Spoken, At, Journaled
  <2>4. WalkKnows'
    BY <1>i, <2>1, <2>3 DEF WalkKnows
  <2> QED
    BY <2>2, <2>4 DEF GrowthInv
<1>12. CASE CrashInGrowth
  <2>1. walk' = NoWalk /\ owed' \subseteq Folk /\ deaths' \in 0 .. MaxDeaths
    BY <1>12, <1>t, GrowthAssumption DEF CrashInGrowth
  <2>2. GrowthRows' /\ EndsOnce'
    BY <1>12, <1>i, <1>n, <1>t, <2>1 DEF CrashInGrowth, GrowthRows, EndsOnce
  <2> QED
    BY <1>q, <2>1, <2>2
<1>13. CASE UNCHANGED growthVars
  <2>1. Events' = Events /\ (\A t : Spoken(t)' = Spoken(t))
        /\ \A c : Journaled(c)' = Journaled(c)
    BY <1>13 DEF growthVars, Events, Ended, Spoken, At, Journaled
  <2> QED
    BY <1>13, <2>1 DEF growthVars, GrowthInv, GrowthRows, EndsOnce, WalkKnows
<1> QED
  BY <1>1, <1>2, <1>3, <1>4, <1>5, <1>6, <1>7, <1>8, <1>9, <1>10, <1>11, <1>12, <1>13
     DEF GrowthNext

LEMMA GrowthHolds == GrowthInv => GrowthTypes /\ GrowthIsKept
<1> SUFFICES ASSUME GrowthInv PROVE GrowthTypes /\ GrowthIsKept
  OBVIOUS
<1>1. GrowthTypes
  BY DEF GrowthInv, GrowthRows, WalkKnows, GrowthTypes, GrowthPages
<1>2. \A t \in Turns : marks[t] <= 1
  <2>1. \A t \in Turns : marks[t] \in {0, 1}
    BY DEF GrowthInv, GrowthRows
  <2> QED
    BY <2>1
<1>3. walk # NoWalk /\ walk.left = {} => Written(walk.who)
  BY DEF GrowthInv, WalkKnows, Written
<1> QED
  BY <1>1, <1>2, <1>3 DEF GrowthIsKept


-----------------------------------------------------------------------------
(* The package library *)

LibraryCopies ==
  [at : StepsOfCopy, world : Worlds \cup Builds \cup {Absent}, release : Releases \cup {Absent},
   digest : Files, files : Files]
LibraryAsks ==
  [release : Releases \cup {Absent}, content : Files, active : (Releases \X Contents) \cup {Absent}]
LibraryRows ==
  [status : ShelfStatus, content : Files]

\* A release that is on the shelf has a content.
ShelvedHasContent ==
  \A r \in Releases : shelf[r].status # "absent" => shelf[r].content \in Contents

\* An installation is of the release it asked for; a build's is nobody else's.
AsksAreFixed ==
  \A i \in Installs : step[i] # "none" =>
    /\ asks[i].release \in Releases /\ asks[i].content \in Contents
    /\ i \in Builds => asks[i].release = MadeBy[i]
    /\ i \notin Builds => \A b \in Builds : asks[i].release # MadeBy[b]

\* An installation that has moved its files in has the directory to itself, unless
\* it found it taken.
Holding(i) == step[i] \in {"moved", "pointed", "clearing"}
HoldersAlone ==
  \A i \in Installs : Holding(i) /\ asks[i].release \notin collided =>
    /\ disk[asks[i].release] = asks[i].content
    /\ shelf[asks[i].release].status = "absent"
    /\ \A j \in Installs : Holding(j) /\ asks[j].release = asks[i].release => j = i

\* The files of a shelved release stay what they were, until a build that fails
\* takes them away.
ShelvedStays ==
  \A r \in Releases \ collided : shelf[r].status # "absent" =>
    \/ disk[r] = shelf[r].content
    \/ /\ disk[r] = Absent
       /\ \E b \in Builds : r = MadeBy[b] /\ step[b] \in {"compensated", "gone", "failed"}

OneActive == \A r \in Releases : IsActive(r) => \A q \in Same(r) \ {r} : ~IsActive(q)

\* What a build has come to, on the disk and on the shelf
BuildsStand ==
  /\ \A i \in Installs : step[i] \in {"building", "filling", "clean", "compensated"} => i \in Builds
  /\ \A b \in Builds :
       /\ MadeBy[b] \notin collided
       /\ step[b] \in {"none", "previewed", "staging", "staged", "refused"} =>
            disk[MadeBy[b]] = Absent /\ shelf[MadeBy[b]].status = "absent"
       /\ step[b] = "compensated" => disk[MadeBy[b]] = Absent
       /\ step[b] = "failed" => disk[MadeBy[b]] = Absent /\ ~IsActive(MadeBy[b])

\* The world of a build has the build's copy alone, and none once it failed.
WorldsStand ==
  \A b \in Builds, c \in Copies : copies[c].world = b =>
    /\ c = FilledBy[b]
    /\ step[b] \in {"filling", "done", "clean", "compensated", "failed", "gone"}
    /\ step[b] \in {"clean", "compensated", "failed"} =>
         rows[c] = "none" /\ folders[c] = "none" /\ copies[c].at \in {"over", "gone"}

\* A copy is of a shelved release, whose content it keeps.
CopiesStand ==
  \A c \in Copies :
    /\ copies[c].at = "none" => copies[c] = NoCopy /\ rows[c] = "none"
    /\ copies[c].at # "none" =>
         /\ copies[c].release \in Releases /\ copies[c].digest \in Contents
         /\ copies[c].release \notin collided =>
              /\ shelf[copies[c].release].status # "absent"
              /\ copies[c].digest = shelf[copies[c].release].content
              /\ copies[c].at \in {"copied", "placed"} \/ rows[c] # "none" =>
                   copies[c].files = copies[c].digest

LibraryInv ==
  /\ LibraryTypes /\ ShelvedHasContent /\ AsksAreFixed /\ HoldersAlone /\ ShelvedStays
  /\ OneActive /\ BuildsStand /\ WorldsStand /\ CopiesStand

LEMMA LibraryStarts == LibraryInit => LibraryInv
<1> SUFFICES ASSUME LibraryInit PROVE LibraryInv
  OBVIOUS
<1>1. LibraryTypes
  BY DEF LibraryInit, LibraryTypes, ShelfStatus, Files, StepsOfInstall, Receipts, StepsOfCopy,
     Unasked, NoCopy
<1>2. ShelvedHasContent /\ AsksAreFixed /\ HoldersAlone /\ ShelvedStays /\ OneActive
  BY DEF LibraryInit, ShelvedHasContent, AsksAreFixed, HoldersAlone, Holding, ShelvedStays,
     OneActive, IsActive
<1>3. BuildsStand /\ CopiesStand
  BY LibraryAssumption DEF LibraryInit, BuildsStand, CopiesStand, IsActive, NoCopy
<1>4. WorldsStand
  BY LibraryAssumption DEF LibraryInit, WorldsStand, NoCopy
<1> QED
  BY <1>1, <1>2, <1>3, <1>4 DEF LibraryInv

\* The places of an installation that nothing else depends on
StepsAlone ==
  {<<"previewed", "staging">>, <<"previewed", "refused">>, <<"staging", "staged">>,
   <<"staging", "failed">>, <<"moved", "pointed">>, <<"moved", "clearing">>,
   <<"pointed", "clearing">>, <<"building", "filling">>, <<"filling", "done">>}

LEMMA InstallGoesOn ==
  ASSUME LibraryInv, NEW i \in Installs, NEW s, InstallGoes(i, s), <<step[i], s>> \in StepsAlone,
         receipts' \in [Installs -> Receipts],
         UNCHANGED <<shelf, disk, asks, leaving, copies, rows, folders, verified, collided, killed>>
  PROVE  LibraryInv'
<1>1. /\ step \in [Installs -> StepsOfInstall] /\ s \in StepsOfInstall
      /\ step' = [step EXCEPT ![i] = s] /\ Builds \subseteq Installs
  BY LibraryAssumption DEF LibraryInv, LibraryTypes, InstallGoes, StepsAlone, StepsOfInstall
<1>2. \A j \in Installs : step'[j] = IF j = i THEN s ELSE step[j]
  BY <1>1
<1>3. LibraryTypes'
  BY <1>1 DEF LibraryInv, LibraryTypes
<1>4. ShelvedHasContent' /\ OneActive' /\ CopiesStand'
  BY DEF LibraryInv, ShelvedHasContent, OneActive, CopiesStand, IsActive, Same
<1>5. AsksAreFixed'
  BY <1>2 DEF LibraryInv, AsksAreFixed, StepsAlone
<1>6. HoldersAlone'
  <2>1. \A j \in Installs : Holding(j)' => Holding(j)
    BY <1>2 DEF Holding, StepsAlone
  <2> QED
    BY <2>1 DEF LibraryInv, HoldersAlone
<1>7. ShelvedStays'
  <2>1. step[i] \notin {"compensated", "gone", "failed"}
    BY DEF StepsAlone
  <2>2. \A b \in Builds : step[b] \in {"compensated", "gone", "failed"} => step'[b] = step[b]
    BY <1>1, <1>2, <2>1
  <2> QED
    BY <2>2 DEF LibraryInv, ShelvedStays
<1>8. BuildsStand'
  <2>1. \A j \in Installs : step'[j] \in {"building", "filling", "clean", "compensated"} => j \in Builds
    BY <1>2 DEF LibraryInv, BuildsStand, StepsAlone
  <2>2. ASSUME NEW b \in Builds
        PROVE  /\ MadeBy[b] \notin collided
               /\ step'[b] \in {"none", "previewed", "staging", "staged", "refused"} =>
                    disk[MadeBy[b]] = Absent /\ shelf[MadeBy[b]].status = "absent"
               /\ step'[b] = "compensated" => disk[MadeBy[b]] = Absent
               /\ step'[b] = "failed" => disk[MadeBy[b]] = Absent /\ ~IsActive(MadeBy[b])
    BY <1>1, <1>2 DEF LibraryInv, BuildsStand, StepsAlone, IsActive
  <2> QED
    BY <2>1, <2>2 DEF BuildsStand, IsActive
<1>9. WorldsStand'
  BY <1>1, <1>2 DEF LibraryInv, WorldsStand, StepsAlone
<1> QED
  BY <1>3, <1>4, <1>5, <1>6, <1>7, <1>8, <1>9 DEF LibraryInv

LEMMA InstallStepKeeps == ASSUME LibraryInv, NEW i \in Installs, InstallStep(i) PROVE LibraryInv'
<1>t. /\ shelf \in [Releases -> LibraryRows] /\ disk \in [Releases -> Files]
      /\ asks \in [Installs -> LibraryAsks] /\ step \in [Installs -> StepsOfInstall]
      /\ receipts \in [Installs -> Receipts] /\ collided \subseteq Releases
      /\ rows \in [Copies -> {"none", "active", "disabled"}]
      /\ folders \in [Copies -> {"none", "staging", "placed"}]
  BY DEF LibraryInv, LibraryTypes, LibraryRows, LibraryAsks
<1>i. /\ ShelvedHasContent /\ AsksAreFixed /\ HoldersAlone /\ ShelvedStays
      /\ OneActive /\ BuildsStand /\ WorldsStand /\ CopiesStand
  BY DEF LibraryInv
<1>b. Builds \subseteq Installs /\ \A b \in Builds : MadeBy[b] \in Releases
  BY LibraryAssumption
<1>a. Absent \notin Contents /\ Contents \subseteq Files /\ Absent \in Files
  BY LibraryAssumption DEF Files
<1>d. \A a, b \in Builds : MadeBy[a] = MadeBy[b] => a = b
  BY LibraryAssumption
<1>g. ASSUME NEW s, InstallGoes(i, s)
      PROVE  step' = [step EXCEPT ![i] = s] /\ \A j \in Installs : step'[j] = IF j = i THEN s ELSE step[j]
  BY <1>g, <1>t DEF InstallGoes
\* Nobody else moves in where a build does.
<1>o. ASSUME NEW j \in Installs, NEW b \in Builds, step[j] # "none", asks[j].release = MadeBy[b]
      PROVE  j = b
  BY <1>b, <1>d, <1>i, <1>o DEF AsksAreFixed
<1>1. CASE PreviewPackage(i)
  <2>1. PICK r \in Releases, k \in Contents :
          /\ IF i \in Builds THEN r = MadeBy[i] ELSE \A b \in Builds : r # MadeBy[b]
          /\ asks' = [asks EXCEPT ![i] = [release |-> r, content |-> k, active |-> ActiveDigest(r)]]
    BY <1>1 DEF PreviewPackage
  <2>2. /\ step[i] = "none" /\ step' = [step EXCEPT ![i] = "previewed"]
        /\ \A j \in Installs : step'[j] = IF j = i THEN "previewed" ELSE step[j]
        /\ UNCHANGED <<shelf, disk, receipts, leaving, copies, rows, folders, verified, collided, killed>>
    BY <1>1, <1>g DEF PreviewPackage
  <2>3. ActiveDigest(r) \in (Releases \X Contents) \cup {Absent}
    <3>1. CASE \E q \in Same(r) : IsActive(q)
      <4> DEFINE q == CHOOSE q \in Same(r) : IsActive(q)
      <4>1. q \in Same(r) /\ IsActive(q)
        BY <3>1
      <4>2. q \in Releases /\ shelf[q].content \in Contents
        BY <1>i, <4>1 DEF Same, IsActive, ShelvedHasContent
      <4>3. ActiveDigest(r) = <<q, shelf[q].content>>
        BY <3>1 DEF ActiveDigest
      <4> HIDE DEF q
      <4> QED
        BY <4>2, <4>3
    <3>2. CASE ~\E q \in Same(r) : IsActive(q)
      BY <3>2 DEF ActiveDigest
    <3> QED
      BY <3>1, <3>2
  <2>4. [release |-> r, content |-> k, active |-> ActiveDigest(r)] \in LibraryAsks
    BY <1>a, <2>3 DEF LibraryAsks
  <2>5. asks' \in [Installs -> LibraryAsks] /\ step' \in [Installs -> StepsOfInstall]
        /\ asks'[i].release = r /\ asks'[i].content = k
        /\ \A j \in Installs \ {i} : asks'[j] = asks[j]
    BY <1>t, <2>1, <2>2, <2>4 DEF StepsOfInstall
  <2>6. LibraryTypes'
    BY <2>2, <2>5 DEF LibraryInv, LibraryTypes, LibraryAsks
  <2>7. ShelvedHasContent' /\ OneActive' /\ CopiesStand'
    BY <1>i, <2>2 DEF ShelvedHasContent, OneActive, CopiesStand, IsActive, Same
  <2>8. AsksAreFixed'
    BY <1>i, <2>1, <2>2, <2>5 DEF AsksAreFixed
  <2>9. HoldersAlone'
    <3>1. \A j \in Installs : Holding(j)' => Holding(j) /\ j # i
      BY <2>2 DEF Holding
    <3> QED
      BY <1>i, <2>2, <2>5, <3>1 DEF HoldersAlone
  <2>10. ShelvedStays' /\ BuildsStand' /\ WorldsStand'
    BY <1>b, <1>i, <2>2 DEF ShelvedStays, BuildsStand, WorldsStand, IsActive
  <2> QED
    BY <2>6, <2>7, <2>8, <2>9, <2>10 DEF LibraryInv
<1>2. CASE BeginInstall(i) \/ Stage(i)
  <2>1. receipts' \in [Installs -> Receipts]
    BY <1>2, <1>t DEF BeginInstall, Stage, Receipts
  <2> QED
    BY <1>2, <2>1, InstallGoesOn DEF BeginInstall, Stage, StepsAlone
<1>3. CASE MoveIn(i)
  <2> DEFINE r == Release(i)
  <2>1. /\ step[i] = "staged" /\ r \in Releases /\ asks[i].content \in Contents
        /\ asks[i].release = r
        /\ UNCHANGED <<shelf, asks, receipts, leaving, copies, rows, folders, verified, killed>>
    BY <1>3, <1>i DEF MoveIn, AsksAreFixed, Release
  <2>2. CASE disk[r] = Absent
    <3>1. /\ disk' = [disk EXCEPT ![r] = asks[i].content] /\ collided' = collided
          /\ step' = [step EXCEPT ![i] = "moved"]
          /\ \A j \in Installs : step'[j] = IF j = i THEN "moved" ELSE step[j]
      BY <1>3, <1>g, <2>2 DEF MoveIn
    <3> HIDE DEF r
    <3>2. \A q \in Releases : disk'[q] = IF q = r THEN asks[i].content ELSE disk[q]
      BY <1>t, <2>1, <3>1
    <3>3. LibraryTypes'
      <4>1. disk' \in [Releases -> Files] /\ step' \in [Installs -> StepsOfInstall]
        BY <1>a, <1>t, <2>1, <3>1 DEF StepsOfInstall
      <4> QED
        BY <2>1, <3>1, <4>1 DEF LibraryInv, LibraryTypes
    <3>4. ShelvedHasContent' /\ OneActive' /\ CopiesStand' /\ AsksAreFixed' /\ WorldsStand'
      BY <1>b, <1>i, <2>1, <3>1 DEF ShelvedHasContent, OneActive, CopiesStand, IsActive, Same,
         AsksAreFixed, WorldsStand
    <3>5. r \notin collided => shelf[r].status = "absent"
      <4>1. ASSUME r \notin collided, shelf[r].status # "absent"
            PROVE  FALSE
        <5>1. disk[r] # shelf[r].content
          BY <1>a, <1>i, <2>1, <2>2, <4>1 DEF ShelvedHasContent
        <5>2. PICK b \in Builds : r = MadeBy[b] /\ step[b] \in {"compensated", "gone", "failed"}
          BY <1>i, <2>1, <4>1, <5>1 DEF ShelvedStays
        <5> QED
          BY <1>o, <2>1, <5>2
      <4> QED
        BY <4>1
    <3>6. \A j \in Installs : Holding(j) /\ asks[j].release = r => r \in collided
      <4>1. ASSUME NEW j \in Installs, Holding(j), asks[j].release = r
            PROVE  r \in collided
        <5>1. asks[j].content \in Contents
          BY <1>i, <4>1 DEF AsksAreFixed, Holding
        <5> QED
          BY <1>a, <1>i, <2>2, <4>1, <5>1 DEF HoldersAlone
      <4> QED
        BY <4>1
    <3>7. HoldersAlone'
      <4>1. \A j \in Installs : Holding(j)' => Holding(j) \/ j = i
        BY <3>1 DEF Holding
      <4>2. \A j \in Installs : Holding(j)' => asks[j].release \in Releases
        BY <1>i, <2>1, <3>1 DEF AsksAreFixed, Holding
      <4> QED
        BY <1>i, <2>1, <3>1, <3>2, <3>5, <3>6, <4>1, <4>2 DEF HoldersAlone
    <3>8. ShelvedStays'
      <4>1. \A q \in Releases \ collided : shelf[q].status # "absent" => q # r
        BY <3>5
      <4>2. \A b \in Builds : step[b] \in {"compensated", "gone", "failed"} => step'[b] = step[b]
        BY <1>b, <2>1, <3>1
      <4> QED
        BY <1>i, <2>1, <3>1, <3>2, <4>1, <4>2 DEF ShelvedStays
    <3>9. BuildsStand'
      <4>1. \A b \in Builds : b # i => MadeBy[b] # r
        BY <1>o, <2>1
      <4> QED
        BY <1>b, <1>i, <2>1, <3>1, <3>2, <4>1 DEF BuildsStand, IsActive
    <3> QED
      BY <3>3, <3>4, <3>7, <3>8, <3>9 DEF LibraryInv
  <2>3. CASE disk[r] # Absent
    <3>1. /\ disk' = disk /\ collided' = collided \cup {r}
          /\ step' = [step EXCEPT ![i] = "clearing"]
          /\ \A j \in Installs : step'[j] = IF j = i THEN "clearing" ELSE step[j]
      BY <1>3, <1>g, <2>3 DEF MoveIn
    <3> HIDE DEF r
    <3>3. LibraryTypes'
      <4>1. collided' \subseteq Releases /\ step' \in [Installs -> StepsOfInstall]
        BY <1>t, <2>1, <3>1 DEF StepsOfInstall
      <4> QED
        BY <2>1, <3>1, <4>1 DEF LibraryInv, LibraryTypes
    <3>4. ShelvedHasContent' /\ OneActive' /\ CopiesStand' /\ AsksAreFixed' /\ WorldsStand'
      BY <1>b, <1>i, <2>1, <3>1 DEF ShelvedHasContent, OneActive, CopiesStand, IsActive, Same,
         AsksAreFixed, WorldsStand
    <3>5. HoldersAlone'
      <4>1. \A j \in Installs : Holding(j)' => Holding(j) \/ j = i
        BY <3>1 DEF Holding
      <4> QED
        BY <1>i, <2>1, <3>1, <4>1 DEF HoldersAlone
    <3>6. ShelvedStays'
      <4>1. \A b \in Builds : step[b] \in {"compensated", "gone", "failed"} => step'[b] = step[b]
        BY <1>b, <2>1, <3>1
      <4> QED
        BY <1>i, <2>1, <3>1, <4>1 DEF ShelvedStays
    <3>7. BuildsStand'
      <4>1. i \notin Builds
        BY <1>i, <2>1, <2>3 DEF BuildsStand, AsksAreFixed
      <4>2. \A b \in Builds : MadeBy[b] # r
        BY <1>i, <2>1, <4>1 DEF AsksAreFixed
      <4> QED
        BY <1>b, <1>i, <2>1, <3>1, <4>1, <4>2 DEF BuildsStand, IsActive
    <3> QED
      BY <3>3, <3>4, <3>5, <3>6, <3>7 DEF LibraryInv
  <2> QED
    BY <2>2, <2>3
<1>4. CASE Point(i)
  BY <1>4, <1>t, InstallGoesOn DEF Point, StepsAlone
<1>5. CASE Complete(i)
  <2>1. CASE InstallGoes(i, "clearing") /\ UNCHANGED <<shelf, receipts>>
    BY <1>5, <1>t, <2>1, InstallGoesOn DEF Complete, StepsAlone
  <2>2. CASE /\ shelf' = Shelved(i) /\ receipts' = [receipts EXCEPT ![i] = "activated"]
             /\ InstallGoes(i, IF i \in Builds THEN "building" ELSE "done")
    <3> DEFINE r == Release(i)
               s == IF i \in Builds THEN "building" ELSE "done"
    <3>1. /\ step[i] = "pointed" /\ r \in Releases /\ asks[i].content \in Contents
          /\ asks[i].release = r /\ s \in {"building", "done"} /\ (s = "building" <=> i \in Builds)
          /\ UNCHANGED <<disk, asks, leaving, copies, rows, folders, verified, collided, killed>>
      BY <1>5, <1>i DEF Complete, AsksAreFixed, Release
    <3>2. /\ step' = [step EXCEPT ![i] = s]
          /\ \A j \in Installs : step'[j] = IF j = i THEN s ELSE step[j]
      BY <1>g, <2>2
    <3>3. /\ shelf'[r] = [status |-> "active", content |-> asks[i].content]
          /\ \A q \in Releases : shelf'[q] \in LibraryRows
          /\ \A q \in Releases \ {r} :
               /\ shelf'[q].content = shelf[q].content
               /\ (shelf'[q].status = "absent") <=> (shelf[q].status = "absent")
               /\ shelf'[q].status = "active" => IsActive(q) /\ q \notin Same(r)
      <4>1. \A q \in Releases : shelf'[q] =
              IF q = r THEN [status |-> "active", content |-> asks[i].content]
              ELSE IF q \in Same(r) /\ IsActive(q) THEN [shelf[q] EXCEPT !.status = "superseded"]
              ELSE shelf[q]
        BY <2>2 DEF Shelved
      <4>2. \A q \in Releases : shelf[q] \in LibraryRows
        BY <1>t
      <4> HIDE DEF r, s
      <4>3. shelf'[r] = [status |-> "active", content |-> asks[i].content]
        BY <3>1, <4>1
      <4>4. shelf'[r] \in LibraryRows
        BY <1>a, <3>1, <4>3 DEF LibraryRows, ShelfStatus
      <4>5. \A q \in Releases \ {r} :
              /\ shelf'[q].content = shelf[q].content
              /\ (shelf'[q].status = "absent") <=> (shelf[q].status = "absent")
              /\ shelf'[q].status = "active" => IsActive(q) /\ q \notin Same(r)
              /\ shelf'[q] \in LibraryRows
        BY <4>1, <4>2 DEF LibraryRows, ShelfStatus, IsActive
      <4> QED
        BY <4>3, <4>4, <4>5
    <3>4. DOMAIN shelf' = Releases /\ shelf' = [q \in Releases |-> shelf'[q]]
      BY <2>2 DEF Shelved
    <3> HIDE DEF r, s
    <3>5. LibraryTypes'
      <4>1. shelf' \in [Releases -> LibraryRows]
        BY <3>3, <3>4
      <4>2. receipts' \in [Installs -> Receipts] /\ step' \in [Installs -> StepsOfInstall]
        BY <1>t, <2>2, <3>1, <3>2 DEF Receipts, StepsOfInstall
      <4> QED
        BY <3>1, <4>1, <4>2 DEF LibraryInv, LibraryTypes, LibraryRows
    <3>6. ShelvedHasContent'
      BY <1>i, <3>1, <3>3 DEF ShelvedHasContent, IsActive
    <3>7. AsksAreFixed'
      BY <1>i, <3>1, <3>2 DEF AsksAreFixed
    <3>8. \A q \in Releases : shelf'[q].status = "absent" <=> (shelf[q].status = "absent" /\ q # r)
      BY <3>3 DEF IsActive
    <3>9. HoldersAlone'
      <4>1. \A j \in Installs : Holding(j)' => Holding(j) /\ j # i
        BY <3>1, <3>2 DEF Holding
      <4>2. \A j \in Installs : Holding(j) => asks[j].release \in Releases
        BY <1>i DEF AsksAreFixed, Holding
      <4>3. Holding(i)
        BY <3>1 DEF Holding
      <4> QED
        BY <1>i, <3>1, <3>8, <4>1, <4>2, <4>3 DEF HoldersAlone
    <3>10. ShelvedStays'
      <4>1. Holding(i)
        BY <3>1 DEF Holding
      <4>2. r \notin collided => disk[r] = shelf'[r].content
        BY <1>i, <3>1, <3>3, <4>1 DEF HoldersAlone
      <4>3. \A b \in Builds : step[b] \in {"compensated", "gone", "failed"} => step'[b] = step[b]
        BY <1>b, <3>1, <3>2
      <4> QED
        BY <1>i, <3>1, <3>3, <3>8, <4>2, <4>3 DEF ShelvedStays
    <3>11. OneActive'
      <4>1. \A q, p \in Releases : p \in Same(q) <=> PackageOf[p] = PackageOf[q]
        BY DEF Same
      <4>2. \A q \in Releases \ {r} : IsActive(q)' => IsActive(q) /\ q \notin Same(r)
        BY <3>3 DEF IsActive
      <4>3. \A q : Same(q) \subseteq Releases
        BY DEF Same
      <4> QED
        BY <1>i, <3>1, <4>1, <4>2, <4>3 DEF OneActive, Same
    <3>12. BuildsStand'
      <4>1. \A b \in Builds : b # i => MadeBy[b] # r
        BY <1>o, <3>1
      <4>2. \A b \in Builds : b # i => (IsActive(MadeBy[b])' => IsActive(MadeBy[b]))
        BY <1>b, <3>3, <4>1 DEF IsActive
      <4> QED
        BY <1>b, <1>i, <3>1, <3>2, <3>8, <4>1, <4>2 DEF BuildsStand
    <3>13. WorldsStand'
      BY <1>b, <1>i, <3>1, <3>2 DEF WorldsStand
    <3>14. CopiesStand'
      <4>1. Holding(i)
        BY <3>1 DEF Holding
      <4>2. r \notin collided => shelf[r].status = "absent"
        BY <1>i, <3>1, <4>1 DEF HoldersAlone
      <4> QED
        BY <1>i, <3>1, <3>3, <3>8, <4>2 DEF CopiesStand
    <3> QED
      BY <3>5, <3>6, <3>7, <3>9, <3>10, <3>11, <3>12, <3>13, <3>14 DEF LibraryInv
  <2> QED
    BY <1>5, <2>1, <2>2 DEF Complete
<1>6. CASE Clear(i) \/ Compensate(i)
  <2> DEFINE r == Release(i)
             s == IF step[i] = "clearing" THEN "failed" ELSE "compensated"
  <2>1. /\ step[i] \in {"clearing", "clean"} /\ r \in Releases /\ asks[i].release = r
        /\ (step[i] = "clearing" => s = "failed") /\ (step[i] = "clean" => s = "compensated")
        /\ s \in {"failed", "compensated"}
        /\ disk' = [disk EXCEPT ![r] = Absent]
        /\ UNCHANGED <<shelf, asks, leaving, copies, rows, folders, verified, collided, killed>>
    BY <1>6, <1>i DEF Clear, Compensate, AsksAreFixed, Release
  <2>2. /\ step' = [step EXCEPT ![i] = s]
        /\ \A j \in Installs : step'[j] = IF j = i THEN s ELSE step[j]
    BY <1>6, <1>g DEF Clear, Compensate
  <2> HIDE DEF r, s
  <2>3. \A q \in Releases : disk'[q] = IF q = r THEN Absent ELSE disk[q]
    BY <1>t, <2>1
  <2>4. LibraryTypes'
    <3>1. /\ disk' \in [Releases -> Files] /\ step' \in [Installs -> StepsOfInstall]
      BY <1>a, <1>t, <2>1, <2>2 DEF StepsOfInstall
    <3>2. receipts' \in [Installs -> Receipts]
      BY <1>6, <1>t DEF Clear, Compensate, Receipts
    <3> QED
      BY <2>1, <3>1, <3>2 DEF LibraryInv, LibraryTypes
  <2>5. ShelvedHasContent' /\ OneActive' /\ CopiesStand' /\ AsksAreFixed'
    BY <1>b, <1>i, <2>1, <2>2 DEF ShelvedHasContent, OneActive, CopiesStand, IsActive, Same,
       AsksAreFixed
  <2>6. WorldsStand'
    <3>1. step[i] = "clearing" => \A c \in Copies : i \in Builds => copies[c].world # i
      BY <1>i DEF WorldsStand
    <3> QED
      BY <1>b, <1>i, <2>1, <2>2, <3>1 DEF WorldsStand
  <2>7. step[i] = "clean" => i \in Builds /\ r = MadeBy[i]
    BY <1>i, <2>1 DEF BuildsStand, AsksAreFixed
  <2>8. \A j \in Installs : Holding(j) /\ j # i /\ asks[j].release = r => r \in collided
    <3>1. CASE step[i] = "clearing"
      BY <1>i, <2>1, <3>1 DEF HoldersAlone, Holding
    <3>2. CASE step[i] = "clean"
      BY <1>o, <2>7, <3>2 DEF Holding
    <3> QED
      BY <2>1, <3>1, <3>2
  <2>9. HoldersAlone'
    <3>1. \A j \in Installs : Holding(j)' => Holding(j) /\ j # i
      BY <2>1, <2>2 DEF Holding
    <3>2. \A j \in Installs : Holding(j) => asks[j].release \in Releases
      BY <1>i DEF AsksAreFixed, Holding
    <3> QED
      BY <1>i, <2>1, <2>3, <2>8, <3>1, <3>2 DEF HoldersAlone
  <2>10. ShelvedStays'
    <3>1. \A b \in Builds : step[b] \in {"compensated", "gone", "failed"} => step'[b] = step[b]
      BY <1>b, <2>1, <2>2
    <3>2. r \notin collided /\ shelf[r].status # "absent" =>
            \E b \in Builds : r = MadeBy[b] /\ step'[b] \in {"compensated", "gone", "failed"}
      <4>1. step[i] = "clearing" /\ r \notin collided => shelf[r].status = "absent"
        BY <1>i, <2>1 DEF HoldersAlone, Holding
      <4> QED
        BY <2>1, <2>2, <2>7, <4>1
    <3> QED
      BY <1>i, <2>1, <2>3, <3>1, <3>2 DEF ShelvedStays
  <2>11. BuildsStand'
    <3>1. ASSUME NEW b \in Builds
          PROVE  step'[b] = "failed" => disk'[MadeBy[b]] = Absent /\ ~IsActive(MadeBy[b])
      <4>1. CASE b = i
        <5>1. r = MadeBy[i]
          BY <1>i, <2>1, <3>1, <4>1 DEF AsksAreFixed
        <5>2. step[i] = "clearing" => shelf[r].status = "absent"
          BY <1>i, <2>1, <4>1, <5>1 DEF HoldersAlone, Holding, BuildsStand
        <5> QED
          BY <1>b, <2>1, <2>2, <2>3, <4>1, <5>1, <5>2 DEF IsActive
      <4>2. CASE b # i
        BY <1>b, <1>i, <2>2, <2>3, <4>2 DEF BuildsStand
      <4> QED
        BY <4>1, <4>2
    <3>2. \A b \in Builds : disk[MadeBy[b]] = Absent => disk'[MadeBy[b]] = Absent
      BY <1>b, <2>3
    <3>3. \A b \in Builds : step'[b] = "compensated" => disk'[MadeBy[b]] = Absent
      BY <1>b, <1>i, <2>1, <2>2, <2>3, <2>7 DEF BuildsStand
    <3>4. \A j \in Installs : step'[j] \in {"building", "filling", "clean", "compensated"} => j \in Builds
      BY <1>i, <2>1, <2>2, <2>7 DEF BuildsStand
    <3>5. \A b \in Builds :
            step'[b] \in {"none", "previewed", "staging", "staged", "refused"} => step'[b] = step[b]
      BY <1>b, <2>1, <2>2
    <3> QED
      BY <1>i, <2>1, <3>1, <3>2, <3>3, <3>4, <3>5 DEF BuildsStand, IsActive
  <2> QED
    BY <2>4, <2>5, <2>6, <2>9, <2>10, <2>11 DEF LibraryInv
<1>7. CASE BuildWorld(i) \/ FinishBuild(i)
  BY <1>7, <1>t, InstallGoesOn DEF BuildWorld, FinishBuild, StepsAlone
<1>8. CASE FailBuild(i)
  <2>1. /\ step[i] \in {"building", "filling"} /\ i \in Builds
        /\ step[i] = "filling" => copies[FilledBy[i]].at \in {"none", "over"}
        /\ rows' = WorldRolledBack(i) /\ folders' = WorldRemoved(i)
        /\ step' = [step EXCEPT ![i] = "clean"]
        /\ \A j \in Installs : step'[j] = IF j = i THEN "clean" ELSE step[j]
        /\ UNCHANGED <<shelf, disk, asks, receipts, leaving, copies, verified, collided, killed>>
    BY <1>8, <1>g, <1>i DEF FailBuild, BuildsStand
  <2>2. /\ \A c \in Copies : rows'[c] = IF copies[c].world = i THEN "none" ELSE rows[c]
        /\ \A c \in Copies : folders'[c] = IF copies[c].world = i THEN "none" ELSE folders[c]
    BY <2>1 DEF WorldRolledBack, WorldRemoved
  <2>3. LibraryTypes'
    <3>1. /\ rows' \in [Copies -> {"none", "active", "disabled"}]
          /\ folders' \in [Copies -> {"none", "staging", "placed"}]
      BY <1>t, <2>1 DEF WorldRolledBack, WorldRemoved
    <3>2. step' \in [Installs -> StepsOfInstall]
      BY <1>t, <2>1 DEF StepsOfInstall
    <3> QED
      BY <2>1, <3>1, <3>2 DEF LibraryInv, LibraryTypes
  <2>4. ShelvedHasContent' /\ OneActive' /\ AsksAreFixed'
    BY <1>i, <2>1 DEF ShelvedHasContent, OneActive, IsActive, Same, AsksAreFixed
  <2>5. HoldersAlone'
    <3>1. \A j \in Installs : Holding(j)' => Holding(j)
      BY <2>1 DEF Holding
    <3> QED
      BY <1>i, <2>1, <3>1 DEF HoldersAlone
  <2>6. ShelvedStays'
    <3>1. \A b \in Builds : step[b] \in {"compensated", "gone", "failed"} => step'[b] = step[b]
      BY <1>b, <2>1
    <3> QED
      BY <1>i, <2>1, <3>1 DEF ShelvedStays
  <2>7. BuildsStand'
    BY <1>b, <1>i, <2>1 DEF BuildsStand, IsActive
  <2>8. WorldsStand'
    <3>1. ASSUME NEW c \in Copies, copies[c].world = i
          PROVE  c = FilledBy[i] /\ step[i] = "filling" /\ copies[c].at = "over"
      <4>1. c = FilledBy[i] /\ step[i] = "filling"
        BY <1>i, <2>1, <3>1 DEF WorldsStand
      <4>2. copies[c].at # "none"
        BY <1>i, <2>1, <3>1, LibraryAssumption DEF CopiesStand, NoCopy
      <4> QED
        BY <2>1, <4>1, <4>2
    <3>2. \A b \in Builds, c \in Copies : b # i /\ copies[c].world = b =>
            step'[b] = step[b] /\ rows'[c] = rows[c] /\ folders'[c] = folders[c]
      BY <1>b, <2>1, <2>2
    <3> QED
      BY <1>b, <1>i, <2>1, <2>2, <3>1, <3>2 DEF WorldsStand
  <2>9. CopiesStand'
    BY <1>i, <2>1, <2>2 DEF CopiesStand
  <2> QED
    BY <2>3, <2>4, <2>5, <2>6, <2>7, <2>8, <2>9 DEF LibraryInv
<1>9. CASE CompensateRow(i)
  <2> DEFINE r == Release(i)
  <2>1. /\ step[i] = "compensated" /\ i \in Builds /\ r = MadeBy[i] /\ r \in Releases
        /\ step' = [step EXCEPT ![i] = "failed"]
        /\ \A j \in Installs : step'[j] = IF j = i THEN "failed" ELSE step[j]
        /\ UNCHANGED <<disk, asks, leaving, copies, rows, folders, verified, collided, killed>>
    BY <1>9, <1>b, <1>g, <1>i DEF CompensateRow, BuildsStand, AsksAreFixed, Release
  <2>2. /\ shelf' \in [Releases -> LibraryRows]
        /\ \A q \in Releases :
             /\ shelf'[q].content = shelf[q].content
             /\ (shelf'[q].status = "absent") <=> (shelf[q].status = "absent")
             /\ shelf'[q].status = "active" => IsActive(q) /\ q # r
    <3>1. CASE IsActive(r)
      <4>1. shelf' = [q \in Releases |-> IF q \in {r} /\ IsActive(q)
                                        THEN [shelf[q] EXCEPT !.status = "disabled"] ELSE shelf[q]]
        BY <1>9, <3>1 DEF CompensateRow, Disabled
      <4> HIDE DEF r
      <4>2. \A q \in Releases : shelf[q] \in LibraryRows
        BY <1>t
      <4>3. \A q \in Releases :
              /\ shelf'[q] \in LibraryRows
              /\ shelf'[q].content = shelf[q].content
              /\ (shelf'[q].status = "absent") <=> (shelf[q].status = "absent")
              /\ shelf'[q].status = "active" => IsActive(q) /\ q # r
        BY <3>1, <4>1, <4>2 DEF LibraryRows, ShelfStatus, IsActive
      <4> QED
        BY <4>1, <4>3
    <3>2. CASE ~IsActive(r)
      BY <1>9, <1>t, <3>2 DEF CompensateRow, IsActive
    <3> QED
      BY <3>1, <3>2
  <2>3. receipts' \in [Installs -> Receipts]
    BY <1>9, <1>t DEF CompensateRow, Receipts
  <2> HIDE DEF r
  <2>4. LibraryTypes'
    <3>1. step' \in [Installs -> StepsOfInstall]
      BY <1>t, <2>1 DEF StepsOfInstall
    <3> QED
      BY <2>1, <2>2, <2>3, <3>1 DEF LibraryInv, LibraryTypes, LibraryRows
  <2>5. ShelvedHasContent' /\ AsksAreFixed' /\ WorldsStand'
    BY <1>b, <1>i, <2>1, <2>2 DEF ShelvedHasContent, AsksAreFixed, WorldsStand
  <2>6. OneActive'
    <3>1. \A q : Same(q) \subseteq Releases
      BY DEF Same
    <3>2. \A q \in Releases : IsActive(q)' => IsActive(q)
      BY <2>2 DEF IsActive
    <3> QED
      BY <1>i, <3>1, <3>2 DEF OneActive, Same
  <2>7. HoldersAlone'
    <3>1. \A j \in Installs : Holding(j)' => Holding(j)
      BY <2>1 DEF Holding
    <3>2. \A j \in Installs : Holding(j) => asks[j].release \in Releases
      BY <1>i DEF AsksAreFixed, Holding
    <3> QED
      BY <1>i, <2>1, <2>2, <3>1, <3>2 DEF HoldersAlone
  <2>8. ShelvedStays'
    <3>1. \A b \in Builds : step[b] \in {"compensated", "gone", "failed"} =>
            step'[b] \in {"compensated", "gone", "failed"}
      BY <1>b, <2>1
    <3> QED
      BY <1>i, <2>1, <2>2, <3>1 DEF ShelvedStays
  <2>9. BuildsStand'
    BY <1>b, <1>i, <2>1, <2>2 DEF BuildsStand, IsActive
  <2>10. CopiesStand'
    BY <1>i, <2>1, <2>2 DEF CopiesStand
  <2> QED
    BY <2>4, <2>5, <2>6, <2>7, <2>8, <2>9, <2>10 DEF LibraryInv
<1> QED
  BY <1>1, <1>2, <1>3, <1>4, <1>5, <1>6, <1>7, <1>8, <1>9 DEF InstallStep

\* Copies move on; what the library and the builds keep is not touched.
LEMMA CopyStepKeeps == ASSUME LibraryInv, NEW c \in Copies, CopyStep(c) PROVE LibraryInv'
<1>t. /\ disk \in [Releases -> Files] /\ copies \in [Copies -> LibraryCopies]
      /\ shelf \in [Releases -> LibraryRows] /\ verified \subseteq Releases \X Contents
      /\ rows \in [Copies -> {"none", "active", "disabled"}]
      /\ folders \in [Copies -> {"none", "staging", "placed"}]
  BY DEF LibraryInv, LibraryTypes, LibraryCopies, LibraryRows
<1>i. ShelvedHasContent /\ ShelvedStays /\ WorldsStand /\ CopiesStand
  BY DEF LibraryInv
<1>a. Absent \notin Contents /\ Contents \subseteq Files /\ Absent \in Files
  BY LibraryAssumption DEF Files
<1>u. UNCHANGED <<shelf, disk, asks, step, receipts, leaving, collided, killed>>
  BY DEF CopyStep, BeginCopy, CheckCopy, CopyFiles, Place, Register, DisableCopy
\* It is enough to look at the copy that moves.
<1>f. ASSUME copies' \in [Copies -> LibraryCopies], verified' \subseteq Releases \X Contents,
             rows' \in [Copies -> {"none", "active", "disabled"}],
             folders' \in [Copies -> {"none", "staging", "placed"}],
             \A d \in Copies \ {c} :
               copies'[d] = copies[d] /\ rows'[d] = rows[d] /\ folders'[d] = folders[d],
             copies'[c].at # "none", copies'[c].release \in Releases, copies'[c].digest \in Contents,
             copies'[c].release \notin collided =>
               /\ shelf[copies'[c].release].status # "absent"
               /\ copies'[c].digest = shelf[copies'[c].release].content
               /\ copies'[c].at \in {"copied", "placed"} \/ rows'[c] # "none" =>
                    copies'[c].files = copies'[c].digest,
             \A b \in Builds : copies'[c].world = b =>
               /\ c = FilledBy[b]
               /\ step[b] \in {"filling", "done", "clean", "compensated", "failed", "gone"}
               /\ step[b] \in {"clean", "compensated", "failed"} =>
                    rows'[c] = "none" /\ folders'[c] = "none" /\ copies'[c].at \in {"over", "gone"}
      PROVE  LibraryInv'
  <2>2. LibraryTypes'
    BY <1>f, <1>u DEF LibraryInv, LibraryTypes, LibraryCopies
  <2>3. /\ ShelvedHasContent' /\ AsksAreFixed' /\ HoldersAlone' /\ ShelvedStays'
        /\ OneActive' /\ BuildsStand'
    BY <1>u DEF LibraryInv, ShelvedHasContent, AsksAreFixed, HoldersAlone, Holding, ShelvedStays,
       OneActive, Same, IsActive, BuildsStand
  <2>4. WorldsStand'
    BY <1>f, <1>i, <1>u DEF WorldsStand
  <2>5. CopiesStand'
    BY <1>f, <1>i, <1>u DEF CopiesStand
  <2> QED
    BY <2>2, <2>3, <2>4, <2>5 DEF LibraryInv
\* What the change of one copy is
<1>n. ASSUME NEW n \in LibraryCopies, copies' = [copies EXCEPT ![c] = n]
      PROVE  /\ copies' \in [Copies -> LibraryCopies] /\ copies'[c] = n
             /\ \A d \in Copies \ {c} : copies'[d] = copies[d]
  BY <1>n, <1>t
<1>x. ASSUME NEW x \in {"none", "active", "disabled"}, rows' = [rows EXCEPT ![c] = x]
      PROVE  /\ rows' \in [Copies -> {"none", "active", "disabled"}] /\ rows'[c] = x
             /\ \A d \in Copies \ {c} : rows'[d] = rows[d]
  BY <1>x, <1>t
<1>y. ASSUME NEW y \in {"none", "staging", "placed"}, folders' = [folders EXCEPT ![c] = y]
      PROVE  /\ folders' \in [Copies -> {"none", "staging", "placed"}] /\ folders'[c] = y
             /\ \A d \in Copies \ {c} : folders'[d] = folders[d]
  BY <1>y, <1>t
<1>k. copies[c] \in LibraryCopies /\ rows[c] \in {"none", "active", "disabled"}
      /\ folders[c] \in {"none", "staging", "placed"}
  BY <1>t
<1>1. CASE BeginCopy(c)
  <2>1. PICK r \in Releases, w \in Worlds \cup Builds :
          /\ shelf[r].status # "absent"
          /\ \A b \in Builds : (w = b \/ c = FilledBy[b]) =>
               w = b /\ c = FilledBy[b] /\ step[b] = "filling" /\ r = MadeBy[b]
          /\ copies' = [copies EXCEPT ![c] =
               [at |-> "checking", world |-> w, release |-> r, digest |-> shelf[r].content,
                files |-> Absent]]
    BY <1>1 DEF BeginCopy
  <2> DEFINE n == [at |-> "checking", world |-> w, release |-> r, digest |-> shelf[r].content,
                   files |-> Absent]
  <2>2. copies[c].at = "none" /\ rows[c] = "none" /\ UNCHANGED <<rows, folders, verified>>
    BY <1>1, <1>i DEF BeginCopy, CopiesStand
  <2>3. n \in LibraryCopies
    <3>1. shelf[r].content \in Files
      BY <1>a, <1>i, <2>1 DEF ShelvedHasContent
    <3> QED
      BY <1>a, <3>1 DEF LibraryCopies, StepsOfCopy
  <2>4. /\ n.at = "checking" /\ n.release = r /\ n.world = w /\ n.digest = shelf[r].content
        /\ copies' = [copies EXCEPT ![c] = n]
    BY <2>1
  <2> HIDE DEF n
  <2>5. /\ copies' \in [Copies -> LibraryCopies] /\ copies'[c] = n
        /\ \A d \in Copies \ {c} : copies'[d] = copies[d]
    BY <1>n, <2>3, <2>4
  <2> QED
    BY <1>f, <1>i, <1>t, <2>1, <2>2, <2>4, <2>5 DEF ShelvedHasContent
\* A copy under way: what it is of, and where its world is
<1>o. ASSUME copies[c].at # "none"
      PROVE  /\ copies[c].release \in Releases /\ copies[c].digest \in Contents
             /\ copies[c].release \notin collided =>
                  /\ shelf[copies[c].release].status # "absent"
                  /\ copies[c].digest = shelf[copies[c].release].content
                  /\ copies[c].at \in {"copied", "placed"} \/ rows[c] # "none" =>
                       copies[c].files = copies[c].digest
             /\ \A b \in Builds : copies[c].world = b =>
                  /\ c = FilledBy[b]
                  /\ step[b] \in {"filling", "done", "clean", "compensated", "failed", "gone"}
                  /\ step[b] \in {"clean", "compensated", "failed"} =>
                       rows[c] = "none" /\ folders[c] = "none" /\ copies[c].at \in {"over", "gone"}
  BY <1>i, <1>o DEF CopiesStand, WorldsStand
\* The copy as it is, at another place
<1>p. ASSUME NEW s \in StepsOfCopy
      PROVE  /\ [copies[c] EXCEPT !.at = s] \in LibraryCopies
             /\ [copies[c] EXCEPT !.at = s].at = s
             /\ [copies[c] EXCEPT !.at = s].world = copies[c].world
             /\ [copies[c] EXCEPT !.at = s].release = copies[c].release
             /\ [copies[c] EXCEPT !.at = s].digest = copies[c].digest
             /\ [copies[c] EXCEPT !.at = s].files = copies[c].files
             /\ CopyGoes(c, s) => copies' = [copies EXCEPT ![c] = [copies[c] EXCEPT !.at = s]]
  BY <1>k, <1>t, <1>p DEF LibraryCopies, CopyGoes
<1>2. CASE CheckCopy(c)
  <2>1. copies[c].at = "checking" /\ UNCHANGED <<rows, folders>>
    BY <1>2 DEF CheckCopy
  <2>2. PICK s \in {"copying", "over"} : CopyGoes(c, s)
    BY <1>2 DEF CheckCopy
  <2>3. verified' \subseteq Releases \X Contents
    <3>1. CASE UNCHANGED verified
      BY <1>t, <3>1
    <3>2. CASE verified' = verified \cup {<<copies[c].release, copies[c].digest>>}
      <4>1. copies[c].release \in Releases /\ copies[c].digest \in Files
        BY <1>k, <1>o, <2>1 DEF LibraryCopies
      <4>2. copies[c].digest \in Contents
        BY <1>o, <2>1
      <4> QED
        BY <1>t, <3>2, <4>1, <4>2
    <3> QED
      BY <1>2, <3>1, <3>2 DEF CheckCopy
  <2> DEFINE n == [copies[c] EXCEPT !.at = s]
  <2>4. /\ n \in LibraryCopies /\ n.at = s /\ n.world = copies[c].world
        /\ n.release = copies[c].release /\ n.digest = copies[c].digest
        /\ n.files = copies[c].files /\ copies' = [copies EXCEPT ![c] = n]
    BY <1>p, <2>2 DEF StepsOfCopy
  <2> HIDE DEF n
  <2>5. /\ copies' \in [Copies -> LibraryCopies] /\ copies'[c] = n
        /\ \A d \in Copies \ {c} : copies'[d] = copies[d]
    BY <1>n, <2>4
  <2> QED
    BY <1>f, <1>o, <1>t, <2>1, <2>2, <2>3, <2>4, <2>5
<1>3. CASE CopyFiles(c)
  <2>1. copies[c].at = "copying" /\ UNCHANGED <<rows, verified>>
    BY <1>3 DEF CopyFiles
  <2>2. CASE Copied(c)
    <3> DEFINE n == [copies[c] EXCEPT !.at = "copied", !.files = disk[copies[c].release]]
    <3>1. disk[copies[c].release] \in Files
      BY <1>o, <1>t, <2>1
    <3>2. /\ n \in LibraryCopies /\ n.at = "copied" /\ n.world = copies[c].world
          /\ n.release = copies[c].release /\ n.digest = copies[c].digest
          /\ n.files = disk[copies[c].release]
      BY <1>k, <3>1 DEF LibraryCopies, StepsOfCopy
    <3>3. copies' = [copies EXCEPT ![c] = n] /\ folders' = [folders EXCEPT ![c] = "staging"]
      BY <1>3, <1>t, <2>2 DEF CopyFiles
    <3> HIDE DEF n
    <3>4. copies[c].release \notin collided => n.files = n.digest
      BY <1>i, <1>o, <2>1, <2>2, <3>2 DEF ShelvedStays, Copied
    <3>5. /\ copies' \in [Copies -> LibraryCopies] /\ copies'[c] = n
          /\ \A d \in Copies \ {c} : copies'[d] = copies[d]
      BY <1>n, <3>2, <3>3
    <3>6. /\ folders' \in [Copies -> {"none", "staging", "placed"}]
          /\ \A d \in Copies \ {c} : folders'[d] = folders[d]
      BY <1>y, <3>3
    <3> QED
      BY <1>f, <1>o, <1>t, <2>1, <3>2, <3>4, <3>5, <3>6
  <2>3. CASE ~Copied(c)
    <3> DEFINE n == [copies[c] EXCEPT !.at = "over"]
    <3>1. /\ n \in LibraryCopies /\ n.at = "over" /\ n.world = copies[c].world
          /\ n.release = copies[c].release /\ n.digest = copies[c].digest
          /\ n.files = copies[c].files /\ copies' = [copies EXCEPT ![c] = n]
          /\ UNCHANGED folders
      BY <1>3, <1>p, <2>3 DEF StepsOfCopy, CopyFiles
    <3> HIDE DEF n
    <3>2. /\ copies' \in [Copies -> LibraryCopies] /\ copies'[c] = n
          /\ \A d \in Copies \ {c} : copies'[d] = copies[d]
      BY <1>n, <3>1
    <3> QED
      BY <1>f, <1>o, <1>t, <2>1, <3>1, <3>2
  <2> QED
    BY <2>2, <2>3
<1>4. CASE Place(c)
  <2> DEFINE n == [copies[c] EXCEPT !.at = "placed"]
  <2>1. /\ copies[c].at = "copied" /\ UNCHANGED <<rows, verified>>
        /\ folders' = [folders EXCEPT ![c] = "placed"]
        /\ n \in LibraryCopies /\ n.at = "placed" /\ n.world = copies[c].world
        /\ n.release = copies[c].release /\ n.digest = copies[c].digest
        /\ n.files = copies[c].files /\ copies' = [copies EXCEPT ![c] = n]
    BY <1>4, <1>p DEF StepsOfCopy, Place
  <2> HIDE DEF n
  <2>2. /\ copies' \in [Copies -> LibraryCopies] /\ copies'[c] = n
        /\ \A d \in Copies \ {c} : copies'[d] = copies[d]
    BY <1>n, <2>1
  <2>3. /\ folders' \in [Copies -> {"none", "staging", "placed"}]
        /\ \A d \in Copies \ {c} : folders'[d] = folders[d]
    BY <1>y, <2>1
  <2> QED
    BY <1>f, <1>o, <1>t, <2>1, <2>2, <2>3
<1>5. CASE Register(c)
  <2> DEFINE n == [copies[c] EXCEPT !.at = "over"]
  <2>1. /\ copies[c].at = "placed" /\ UNCHANGED verified
        /\ n \in LibraryCopies /\ n.at = "over" /\ n.world = copies[c].world
        /\ n.release = copies[c].release /\ n.digest = copies[c].digest
        /\ n.files = copies[c].files /\ copies' = [copies EXCEPT ![c] = n]
    BY <1>5, <1>p DEF StepsOfCopy, Register
  <2> HIDE DEF n
  <2>2. /\ copies' \in [Copies -> LibraryCopies] /\ copies'[c] = n
        /\ \A d \in Copies \ {c} : copies'[d] = copies[d]
    BY <1>n, <2>1
  <2>3. CASE Rivals(c) = {}
    <3>1. rows' = [rows EXCEPT ![c] = "active"] /\ UNCHANGED folders
      BY <1>5, <2>3 DEF Register
    <3>2. /\ rows' \in [Copies -> {"none", "active", "disabled"}]
          /\ \A d \in Copies \ {c} : rows'[d] = rows[d]
      BY <1>x, <3>1
    <3> QED
      BY <1>f, <1>o, <1>t, <2>1, <2>2, <3>1, <3>2
  <2>4. CASE Rivals(c) # {}
    <3>1. folders' = [folders EXCEPT ![c] = "none"] /\ UNCHANGED rows
      BY <1>5, <2>4 DEF Register
    <3>2. /\ folders' \in [Copies -> {"none", "staging", "placed"}]
          /\ \A d \in Copies \ {c} : folders'[d] = folders[d]
      BY <1>y, <3>1
    <3> QED
      BY <1>f, <1>o, <1>t, <2>1, <2>2, <3>1, <3>2
  <2> QED
    BY <2>3, <2>4
<1>6. CASE DisableCopy(c)
  <2>1. /\ rows[c] = "active" /\ rows' = [rows EXCEPT ![c] = "disabled"]
        /\ UNCHANGED <<copies, folders, verified>>
    BY <1>6 DEF DisableCopy
  <2>2. copies[c].at # "none"
    BY <1>i, <2>1 DEF CopiesStand
  <2>3. /\ rows' \in [Copies -> {"none", "active", "disabled"}] /\ rows'[c] = "disabled"
        /\ \A d \in Copies \ {c} : rows'[d] = rows[d]
    BY <1>x, <2>1
  <2> QED
    BY <1>f, <1>o, <1>t, <2>1, <2>2, <2>3
<1> QED
  BY <1>1, <1>2, <1>3, <1>4, <1>5, <1>6 DEF CopyStep

LEMMA RemovalKeeps ==
  ASSUME LibraryInv, NEW p \in Packages, BeginRemoval(p) \/ EndRemoval(p)
  PROVE  LibraryInv'
<1>t. /\ shelf \in [Releases -> LibraryRows] /\ copies \in [Copies -> LibraryCopies]
      /\ leaving \in [Packages -> Releases \cup {Absent}]
      /\ rows \in [Copies -> {"none", "active", "disabled"}]
  BY DEF LibraryInv, LibraryTypes, LibraryCopies, LibraryRows
<1>i. /\ ShelvedHasContent /\ AsksAreFixed /\ HoldersAlone /\ ShelvedStays
      /\ OneActive /\ BuildsStand /\ WorldsStand /\ CopiesStand
  BY DEF LibraryInv
<1>1. CASE BeginRemoval(p)
  <2>1. /\ leaving' \in [Packages -> Releases \cup {Absent}]
        /\ UNCHANGED <<shelf, disk, asks, step, receipts, copies, rows, folders, verified,
                       collided, killed>>
    BY <1>1, <1>t DEF BeginRemoval
  <2> QED
    BY <2>1 DEF LibraryInv, LibraryTypes, ShelvedHasContent, AsksAreFixed, HoldersAlone, Holding,
       ShelvedStays, OneActive, Same, IsActive, BuildsStand, WorldsStand, CopiesStand
<1>2. CASE EndRemoval(p)
  <2>1. /\ UNCHANGED <<disk, asks, step, receipts, copies, folders, verified, collided, killed>>
        /\ leaving' \in [Packages -> Releases \cup {Absent}]
        /\ shelf' = Disabled({leaving[p]})
    BY <1>2, <1>t DEF EndRemoval
  <2>2. /\ shelf' \in [Releases -> LibraryRows]
        /\ \A q \in Releases :
             /\ shelf'[q].content = shelf[q].content
             /\ (shelf'[q].status = "absent") <=> (shelf[q].status = "absent")
             /\ shelf'[q].status = "active" => IsActive(q)
    <3>1. shelf' = [q \in Releases |-> IF q \in {leaving[p]} /\ IsActive(q)
                                      THEN [shelf[q] EXCEPT !.status = "disabled"] ELSE shelf[q]]
      BY <2>1 DEF Disabled
    <3>2. \A q \in Releases : shelf[q] \in LibraryRows
      BY <1>t
    <3>3. \A q \in Releases :
            /\ shelf'[q] \in LibraryRows
            /\ shelf'[q].content = shelf[q].content
            /\ (shelf'[q].status = "absent") <=> (shelf[q].status = "absent")
            /\ shelf'[q].status = "active" => IsActive(q)
      BY <3>1, <3>2 DEF LibraryRows, ShelfStatus, IsActive
    <3> QED
      BY <3>1, <3>3
  <2>3. /\ rows' \in [Copies -> {"none", "active", "disabled"}]
        /\ \A c \in Copies : rows'[c] = "none" <=> rows[c] = "none"
    BY <1>2, <1>t DEF EndRemoval
  <2>4. LibraryTypes'
    BY <2>1, <2>2, <2>3 DEF LibraryInv, LibraryTypes, LibraryRows
  <2>5. ShelvedHasContent' /\ AsksAreFixed' /\ WorldsStand'
    <3>1. ShelvedHasContent'
      BY <1>i, <2>2 DEF ShelvedHasContent
    <3>2. AsksAreFixed'
      BY <1>i, <2>1 DEF AsksAreFixed
    <3>3. WorldsStand'
      BY <1>i, <2>1, <2>3 DEF WorldsStand
    <3> QED
      BY <3>1, <3>2, <3>3
  <2>6. OneActive'
    <3>1. \A q : Same(q) \subseteq Releases
      BY DEF Same
    <3>2. \A q \in Releases : IsActive(q)' => IsActive(q)
      BY <2>2 DEF IsActive
    <3> QED
      BY <1>i, <3>1, <3>2 DEF OneActive, Same
  <2>7. HoldersAlone'
    <3>1. \A j \in Installs : Holding(j) => asks[j].release \in Releases
      BY <1>i DEF AsksAreFixed, Holding
    <3> QED
      BY <1>i, <2>1, <2>2, <3>1 DEF HoldersAlone, Holding
  <2>8. ShelvedStays'
    BY <1>i, <2>1, <2>2 DEF ShelvedStays
  <2>9. BuildsStand'
    <3>1. \A b \in Builds : MadeBy[b] \in Releases
      BY LibraryAssumption
    <3> QED
      BY <1>i, <2>1, <2>2, <3>1 DEF BuildsStand, IsActive
  <2>10. CopiesStand'
    BY <1>i, <2>1, <2>2, <2>3, ZenonT(60) DEF CopiesStand
  <2> QED
    BY <2>4, <2>5, <2>6, <2>7, <2>8, <2>9, <2>10 DEF LibraryInv
<1> QED
  BY <1>1, <1>2

\* A death leaves no handler; what was settled stands.
LEMMA RestartKeeps == ASSUME LibraryInv, RestartLibrary PROVE LibraryInv'
<1>t. /\ copies \in [Copies -> LibraryCopies] /\ step \in [Installs -> StepsOfInstall]
      /\ folders \in [Copies -> {"none", "staging", "placed"}]
  BY DEF LibraryInv, LibraryTypes, LibraryCopies
<1>i. /\ ShelvedHasContent /\ AsksAreFixed /\ HoldersAlone /\ ShelvedStays
      /\ OneActive /\ BuildsStand /\ WorldsStand /\ CopiesStand
  BY DEF LibraryInv
<1>b. Builds \subseteq Installs
  BY LibraryAssumption
<1>u. UNCHANGED <<shelf, disk, asks, receipts, rows, collided>> /\ verified' = {} /\ killed' = TRUE
  BY DEF RestartLibrary
<1>1. \A j \in Installs : step'[j] = IF step[j] \in Settled THEN step[j] ELSE "gone"
  BY DEF RestartLibrary, Restarted
<1>2. \A c \in Copies :
        copies'[c] = IF copies[c].at \in {"none", "over"} THEN copies[c]
                     ELSE [copies[c] EXCEPT !.at = "gone"]
  BY DEF RestartLibrary
<1>3. \A c \in Copies :
        /\ copies'[c] \in LibraryCopies
        /\ copies'[c].world = copies[c].world /\ copies'[c].release = copies[c].release
        /\ copies'[c].digest = copies[c].digest /\ copies'[c].files = copies[c].files
        /\ copies[c].at = "none" => copies'[c] = copies[c]
        /\ copies'[c].at = "none" => copies[c].at = "none"
        /\ copies'[c].at \in {"none", "over", "gone"}
  <2> TAKE c \in Copies
  <2>1. copies[c] \in LibraryCopies
    BY <1>t
  <2>2. CASE copies[c].at \in {"none", "over"}
    BY <1>2, <2>1, <2>2
  <2>3. CASE copies[c].at \notin {"none", "over"}
    <3>1. copies'[c] = [copies[c] EXCEPT !.at = "gone"]
      BY <1>2, <2>3
    <3> QED
      BY <2>1, <2>3, <3>1 DEF LibraryCopies, StepsOfCopy
  <2> QED
    BY <2>2, <2>3
<1>4. \A c \in Copies : folders[c] = "none" => folders'[c] = "none"
  BY DEF RestartLibrary
<1>5. LibraryTypes'
  <2>1. copies' \in [Copies -> LibraryCopies]
    <3>1. copies' = [c \in Copies |-> copies'[c]]
      BY DEF RestartLibrary
    <3> QED
      BY <1>3, <3>1
  <2>2. /\ step' \in [Installs -> StepsOfInstall]
        /\ folders' \in [Copies -> {"none", "staging", "placed"}]
        /\ leaving' \in [Packages -> Releases \cup {Absent}]
    BY <1>t DEF RestartLibrary, Restarted, Settled, StepsOfInstall
  <2> QED
    BY <1>u, <2>1, <2>2 DEF LibraryInv, LibraryTypes, LibraryCopies
<1>6. ShelvedHasContent' /\ OneActive'
  BY <1>i, <1>u DEF ShelvedHasContent, OneActive, IsActive, Same
<1>7. AsksAreFixed'
  <2>1. \A j \in Installs : step'[j] # "none" => step[j] # "none"
    BY <1>1 DEF Settled
  <2> QED
    BY <1>i, <1>u, <2>1 DEF AsksAreFixed
<1>8. HoldersAlone'
  <2>1. \A j \in Installs : ~Holding(j)'
    BY <1>1 DEF Holding, Settled
  <2> QED
    BY <2>1 DEF HoldersAlone
<1>9. ShelvedStays'
  <2>1. \A b \in Builds : step[b] \in {"compensated", "gone", "failed"} =>
          step'[b] \in {"compensated", "gone", "failed"}
    BY <1>1, <1>b DEF Settled
  <2> QED
    BY <1>i, <1>u, <2>1 DEF ShelvedStays
<1>10. BuildsStand'
  <2>1. \A j \in Installs : step'[j] \in {"none", "done", "refused", "failed", "gone"}
    BY <1>1 DEF Settled
  <2>2. \A j \in Installs : step'[j] # "gone" => step'[j] = step[j]
    BY <1>1
  <2> QED
    BY <1>b, <1>i, <1>u, <2>1, <2>2 DEF BuildsStand, IsActive
<1>11. WorldsStand'
  <2>1. \A b \in Builds :
          /\ step[b] \in {"filling", "done", "clean", "compensated", "failed", "gone"} =>
               step'[b] \in {"done", "failed", "gone"}
          /\ step'[b] \in {"clean", "compensated", "failed"} => step[b] = "failed"
    BY <1>1, <1>b DEF Settled
  <2> QED
    BY <1>i, <1>u, <1>3, <1>4, <2>1 DEF WorldsStand
<1>12. CopiesStand'
  BY <1>i, <1>u, <1>3 DEF CopiesStand
<1> QED
  BY <1>5, <1>6, <1>7, <1>8, <1>9, <1>10, <1>11, <1>12 DEF LibraryInv

LEMMA LibraryStep == LibraryInv /\ [LibraryNext]_libraryVars => LibraryInv'
<1> SUFFICES ASSUME LibraryInv, [LibraryNext]_libraryVars PROVE LibraryInv'
  OBVIOUS
<1>1. CASE LibraryNext
  BY <1>1, InstallStepKeeps, CopyStepKeeps, RemovalKeeps, RestartKeeps DEF LibraryNext
<1>2. CASE UNCHANGED libraryVars
  BY <1>2 DEF libraryVars, LibraryInv, LibraryTypes, ShelvedHasContent, AsksAreFixed, HoldersAlone,
     Holding, ShelvedStays, OneActive, Same, IsActive, BuildsStand, WorldsStand, CopiesStand
<1> QED
  BY <1>1, <1>2

LEMMA LibraryHolds == LibraryInv => LibraryTypes /\ FilesMatchRows /\ FailedBuildLeavesNothing
<1> SUFFICES ASSUME LibraryInv PROVE FilesMatchRows /\ FailedBuildLeavesNothing
  BY DEF LibraryInv
<1>i. /\ ShelvedStays /\ OneActive /\ BuildsStand /\ WorldsStand /\ CopiesStand
  BY DEF LibraryInv
<1>b. \A b \in Builds : MadeBy[b] \in Releases
  BY LibraryAssumption
<1>1. \A r \in Releases \ (collided \cup Undone) : IsActive(r) => disk[r] = shelf[r].content
  BY <1>i DEF ShelvedStays, BuildsStand, Undone, IsActive
<1>2. \A c \in Copies :
        rows[c] = "active" /\ copies[c].release \notin collided => copies[c].files = copies[c].digest
  BY <1>i DEF CopiesStand
<1>3. FailedBuildLeavesNothing
  BY <1>i DEF FailedBuildLeavesNothing, BuildsStand, WorldsStand
<1> QED
  BY <1>1, <1>2, <1>3, <1>i DEF FilesMatchRows, OneActive

-----------------------------------------------------------------------------
(* The parts side by side *)

\* A step of the workshop is a step of one part and leaves the others alone.
LEMMA PartsStep ==
  [WorkshopNext]_workshopVars =>
    /\ [LibraryNext]_libraryVars /\ [GrowthNext]_growthVars /\ [BackupNext]_backupVars
    /\ [UpdateNext]_updateVars /\ [RouterNext]_routerVars
<1> SUFFICES ASSUME [WorkshopNext]_workshopVars
             PROVE  /\ [LibraryNext]_libraryVars /\ [GrowthNext]_growthVars
                    /\ [BackupNext]_backupVars /\ [UpdateNext]_updateVars /\ [RouterNext]_routerVars
  OBVIOUS
<1>1. CASE InLibrary
  BY <1>1 DEF InLibrary, NotLibrary
<1>2. CASE InGrowth
  BY <1>2 DEF InGrowth, NotGrowth
<1>3. CASE InBackup
  BY <1>3 DEF InBackup, NotBackup
<1>4. CASE InUpdate
  BY <1>4 DEF InUpdate, NotUpdate
<1>5. CASE InRouter
  BY <1>5 DEF InRouter, NotRouter
<1>6. CASE UNCHANGED workshopVars
  BY <1>6 DEF workshopVars
<1> QED
  BY <1>1, <1>2, <1>3, <1>4, <1>5, <1>6 DEF WorkshopNext

\* Installations, removals, copies for worlds and builds of the workshop may meet
\* at every await and the process may die: what the library offers as active is on
\* the disk as it was approved, what a world runs is the content it was pinned to,
\* and a build that failed leaves nothing (installReversible, WorldPackageInstanceService,
\* CreativeWorkshopService), but for the releases an activation found taken.
THEOREM LibraryKeepsFaith == WorkshopSpec => []LibraryStands
<1>1. WorkshopInit => LibraryInv
  BY LibraryStarts DEF WorkshopInit
<1>2. LibraryInv /\ [WorkshopNext]_workshopVars => LibraryInv'
  BY PartsStep, LibraryStep
<1>3. LibraryInv => LibraryStands
  BY LibraryHolds DEF LibraryStands
<1> QED
  BY <1>1, <1>2, <1>3, PTL DEF WorkshopSpec

\* However often a projection is repeated, wherever a death cut it off and whatever
\* the owner and the prune did in between: a run makes at most one milestone, and a
\* projection that goes through leaves every run of the character that ended and
\* spoke named by a journal (EmployeeActivityProjectionService), as long as a
\* character has no more runs than a list shows.
THEOREM GrowthRecordsOnce == FewRuns /\ WorkshopSpec => []GrowthStands
<1> SUFFICES ASSUME FewRuns
             PROVE  WorkshopSpec => []GrowthStands
  OBVIOUS
<1>1. WorkshopInit => GrowthInv
  BY GrowthStarts DEF WorkshopInit
<1>2. GrowthInv /\ [WorkshopNext]_workshopVars => GrowthInv'
  BY PartsStep, GrowthStep
<1>3. GrowthInv => GrowthStands
  BY GrowthHolds DEF GrowthStands
<1> QED
  BY <1>1, <1>2, <1>3, PTL DEF WorkshopSpec

\* A backup is taken while the files it copies change, and is restored over a
\* directory that failures leave half-swapped: what a restoration puts in place is
\* whole (local-backup-service.ts); and what an update merges is what it built and
\* tried, or, when the branch was fetched again between the last look and the
\* merge, a later revision (application-update-service.ts).
THEOREM UpkeepIsSound == WorkshopSpec => []UpkeepStands
<1>1. WorkshopInit => UpdateInv /\ BackupInv
  BY UpdateStarts, BackupStarts DEF WorkshopInit
<1>2. UpdateInv /\ BackupInv /\ [WorkshopNext]_workshopVars => UpdateInv' /\ BackupInv'
  BY PartsStep, UpdateStep, BackupStep
<1>3. UpdateInv /\ BackupInv => UpkeepStands
  BY UpdateHolds, BackupHolds DEF UpkeepStands
<1> QED
  BY <1>1, <1>2, <1>3, PTL DEF WorkshopSpec
=============================================================================
