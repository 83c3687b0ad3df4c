------------------------- MODULE TaskScheduleProofs -------------------------
(***************************************************************************)
(* Theorems about TaskSchedule, for every value of its constants.          *)
(***************************************************************************)
EXTENDS TaskSchedule, TLAPS

\* intervalAfter is after now, and at most one interval after it, for a slot
\* that is not in the future.
LEMMA IntervalAfterRange ==
  ASSUME NEW slot \in Nat, now \in Nat
  PROVE  /\ IntervalAfter(slot) \in Nat
         /\ IntervalAfter(slot) > now
         /\ slot <= now => IntervalAfter(slot) <= now + Every
         /\ slot > now => IntervalAfter(slot) = slot + Every
<1> USE ScheduleAssumption
<1>1. CASE slot + Every > now
  BY <1>1 DEF IntervalAfter
<1>2. CASE ~(slot + Every > now)
  <2> DEFINE q == (now - slot) \div Every
  <2>1. q \in Nat /\ Every * q <= now - slot /\ now - slot < Every * (q + 1)
    BY <1>2
  <2>2. Every * (q + 1) = Every * q + Every
    BY <2>1
  <2>3. IntervalAfter(slot) = slot + Every * (q + 1)
    BY <1>2 DEF IntervalAfter
  <2> QED
    BY <1>2, <2>1, <2>2, <2>3
<1> QED
  BY <1>1, <1>2

RowType == [status : {"none", "active", "paused", "completed", "deleted"},
            at : Times, next : Slots \cup {Never}, last : Times \cup {Never}]

LEMMA SlotRange ==
  ASSUME NEW slot \in Times, now \in Times PROVE IntervalAfter(slot) \in Slots
<1>1. slot \in Nat /\ now \in Nat /\ MaxTime \in Nat /\ Every \in Nat
  BY ScheduleAssumption DEF Times
<1>2. IntervalAfter(slot) \in Nat /\ IntervalAfter(slot) <= MaxTime + Every
  <2>1. CASE slot <= now
    BY <1>1, <2>1, IntervalAfterRange DEF Times
  <2>2. CASE slot > now
    BY <1>1, <2>2, IntervalAfterRange DEF Times
  <2> QED
    BY <1>1, <2>1, <2>2
<1> QED
  BY <1>1, <1>2 DEF Slots

LEMMA NextType ==
  ASSUME TypeOK, NEW s \in Schedules PROVE NextOccurrence(s) \in Slots
<1>1. row[s] \in RowType /\ now \in Times /\ Times \subseteq Slots
  BY ScheduleAssumption DEF TypeOK, RowType, Times, Slots
<1>2. row[s].at \in Times /\ row[s].last \in Times \cup {Never}
  BY <1>1 DEF RowType
<1> QED
  BY <1>1, <1>2, SlotRange DEF NextOccurrence

LEMMA AdvancedType ==
  ASSUME TypeOK, NEW s \in Schedules, NEW slot \in Times, NEW manual \in BOOLEAN
  PROVE  /\ Advanced(s, slot, manual) \in RowType
         /\ Advanced(s, slot, manual).status \in {"none", "deleted"} <=> ~Exists(s)
<1>1. row[s] \in RowType /\ now \in Times /\ IntervalAfter(slot) \in Slots
  BY SlotRange DEF TypeOK, RowType
<1>2. CASE ~Exists(s)
  BY <1>1, <1>2 DEF Advanced, Exists
<1>3. CASE Exists(s) /\ manual /\ s \notin Once
  BY <1>1, <1>3 DEF Advanced, Exists, RowType
<1>4. CASE Exists(s) /\ ~manual /\ s \notin Once
  BY <1>1, <1>4 DEF Advanced, Exists, RowType
<1>5. CASE Exists(s) /\ s \in Once
  BY <1>1, <1>5 DEF Advanced, Exists, RowType
<1> QED
  BY <1>2, <1>3, <1>4, <1>5

LEMMA InitType == Init => TypeOK
<1> SUFFICES ASSUME Init PROVE TypeOK
  OBVIOUS
<1>1. 0 \in Times /\ 0 \in 0 .. MaxCrashes
  BY ScheduleAssumption DEF Times
<1>2. [status |-> "none", at |-> 0, next |-> Never, last |-> Never] \in RowType
  BY <1>1 DEF RowType
<1> QED
  BY <1>1, <1>2 DEF Init, TypeOK, NoRuns, RowType

LEMMA BeginType ==
  ASSUME TypeOK, NEW s \in Schedules, NEW slot \in Times, NEW manual \in BOOLEAN,
         Begin(s, slot, manual)
  PROVE  /\ row' \in [Schedules -> RowType]
         /\ run' \in [Schedules -> [Times -> {"none", "running", "ended"}]]
         /\ flights' \subseteq [sched : Schedules, slot : Times, manual : BOOLEAN, began : Times]
<1>1. Advanced(s, slot, manual) \in RowType
  BY AdvancedType
<1>2. CASE /\ run' = [run EXCEPT ![s][slot] = "running"]
           /\ flights' = flights \cup {[sched |-> s, slot |-> slot, manual |-> manual, began |-> now]}
           /\ UNCHANGED row
  BY <1>2 DEF TypeOK, RowType
<1>3. CASE /\ run' = [run EXCEPT ![s][slot] = "ended"]
           /\ row' = [row EXCEPT ![s] = Advanced(s, slot, manual)]
           /\ UNCHANGED flights
  <2>1. row' \in [Schedules -> RowType]
    BY <1>1, <1>3 DEF TypeOK, RowType
  <2>2. run' \in [Schedules -> [Times -> {"none", "running", "ended"}]]
    BY <1>3 DEF TypeOK
  <2> QED
    BY <1>3, <2>1, <2>2 DEF TypeOK
<1> QED
  BY <1>2, <1>3 DEF Begin

\* Whatever run it is whose schedule is not advanced
LEMMA CutsAre ==
  ASSUME TypeOK, CutStep
  PROVE  \/ \E s \in Schedules, slot \in Times, manual \in BOOLEAN :
              Exists(s) /\ Cut(s, slot, manual)
         \/ CutRestart
<1>1. ASSUME NEW s \in Schedules, CutNow(s) PROVE Exists(s) /\ Cut(s, now, TRUE) /\ now \in Times
  BY <1>1 DEF CutNow, Runnable, TypeOK
<1>2. ASSUME NEW e \in Entries, CutDue(e)
      PROVE  /\ Exists(e.sched) /\ Cut(e.sched, e.slot, FALSE)
             /\ e.sched \in Schedules /\ e.slot \in Times
  BY <1>2 DEF CutDue, Startable, Entries
<1>3. ASSUME NEW f \in flights, CutFinish(f)
      PROVE  /\ Exists(f.sched) /\ Cut(f.sched, f.slot, f.manual)
             /\ f.sched \in Schedules /\ f.slot \in Times /\ f.manual \in BOOLEAN
  BY <1>3 DEF CutFinish, TypeOK
<1> QED
  BY <1>1, <1>2, <1>3 DEF CutStep

LEMMA StepType == ASSUME TypeOK, [Next]_vars PROVE TypeOK'
<1>r. row \in [Schedules -> RowType] /\ now \in Times
  BY DEF TypeOK, RowType
<1>t. /\ TypeOK' <=> /\ now' \in Times
                     /\ row' \in [Schedules -> RowType]
                     /\ run' \in [Schedules -> [Times -> {"none", "running", "ended"}]]
                     /\ flights' \subseteq [sched : Schedules, slot : Times, manual : BOOLEAN,
                                            began : Times]
                     /\ loop' \in {"idle", "next", "wait"}
                     /\ queue' \subseteq Entries
                     /\ up' \in BOOLEAN
                     /\ crashes' \in 0 .. MaxCrashes
                     /\ lost' \subseteq Entries
  BY DEF TypeOK, RowType
<1>1. ASSUME NEW s \in Schedules, NEW at \in Times, Create(s, at) PROVE TypeOK'
  <2>1. [status |-> "active", at |-> at, next |-> at, last |-> Never] \in RowType
    BY ScheduleAssumption DEF RowType, Slots, Times
  <2> QED
    BY <1>1, <1>r, <1>t, <2>1 DEF Create, TypeOK
<1>2. ASSUME NEW s \in Schedules, Pause(s) PROVE TypeOK'
  <2>1. row' \in [Schedules -> RowType]
    BY ZenonT(40), <1>2, <1>r DEF Pause, RowType
  <2> QED
    BY <1>2, <1>t, <2>1 DEF Pause, TypeOK
<1>3. ASSUME NEW s \in Schedules, Resume(s) PROVE TypeOK'
  <2>1. row' \in [Schedules -> RowType]
    BY ZenonT(40), <1>3, <1>r, NextType DEF Resume, RowType
  <2> QED
    BY <1>3, <1>t, <2>1 DEF Resume, TypeOK
<1>4. ASSUME NEW s \in Schedules, Delete(s) PROVE TypeOK'
  <2>1. row' \in [Schedules -> RowType]
    BY <1>4, <1>r DEF Delete, RowType
  <2> QED
    BY <1>4, <1>t, <2>1 DEF Delete, TypeOK, NoRuns
<1>5. ASSUME NEW s \in Schedules, RunNow(s) PROVE TypeOK'
  BY <1>5, <1>r, <1>t, BeginType DEF RunNow, Runnable, TypeOK
<1>6. CASE ListDue
  <2> DEFINE due == {[sched |-> s, slot |-> row[s].next] : s \in {x \in Schedules : Due(x)}}
  <2>1. due \subseteq Entries
    <3>1. \A s \in Schedules : Due(s) => row[s].next \in Times
      BY <1>r, ScheduleAssumption DEF Due, RowType, Slots, Times
    <3> QED
      BY <3>1 DEF Entries
  <2>2. queue' \subseteq due
    BY <1>6 DEF ListDue
  <2> HIDE DEF due
  <2> QED
    BY <1>6, <1>t, <2>1, <2>2 DEF ListDue, TypeOK
<1>7. ASSUME NEW e \in Entries, SkipDue(e) PROVE TypeOK'
  BY <1>7, <1>r, <1>t DEF SkipDue, TypeOK, GoOn
<1>8. ASSUME NEW e \in Entries, StartDue(e) PROVE TypeOK'
  <2>1. e.sched \in Schedules /\ e.slot \in Times
    BY DEF Entries
  <2> QED
    BY <1>8, <1>r, <1>t, <2>1, BeginType DEF StartDue, Startable, TypeOK, GoOn
<1>9. ASSUME NEW e \in Entries, RejectDue(e) PROVE TypeOK'
  BY <1>9, <1>r, <1>t DEF RejectDue, Die, Gone, TypeOK
<1>10. ASSUME NEW f \in flights, Finish(f) PROVE TypeOK'
  <2>1. f.sched \in Schedules /\ f.slot \in Times /\ f.manual \in BOOLEAN
    BY DEF TypeOK
  <2>2. Advanced(f.sched, f.slot, f.manual) \in RowType
    BY <2>1, AdvancedType
  <2> QED
    BY <1>10, <1>r, <1>t, <2>1, <2>2 DEF Finish, TypeOK, GoOn
<1>11. CASE Crash
  <2>1. crashes' \in 0 .. MaxCrashes
    BY <1>11, ScheduleAssumption DEF Crash, TypeOK
  <2> QED
    BY <1>11, <1>r, <1>t, <2>1 DEF Crash, Die, Gone, TypeOK
<1>c. \A s \in Schedules : Running(s) => Recovered(s) \in RowType
  <2> TAKE s \in Schedules
  <2> HAVE Running(s)
  <2>1. (CHOOSE t \in Times : run[s][t] = "running") \in Times
    BY DEF Running
  <2> QED
    BY <2>1, AdvancedType DEF Recovered
<1>12. CASE Restart
  <2>2. row' \in [Schedules -> RowType]
    BY <1>12, <1>r, <1>c DEF Restart
  <2>3. run' \in [Schedules -> [Times -> {"none", "running", "ended"}]]
    BY <1>12 DEF Restart, Interrupted, TypeOK
  <2> QED
    BY <1>12, <1>t, <2>2, <2>3 DEF Restart, TypeOK
<1>13. CASE Pass
  BY <1>13, <1>r, <1>t, ScheduleAssumption DEF Pass, TypeOK, Times
<1>14. CASE CutRestart
  <2>1. crashes' \in 0 .. MaxCrashes
    BY <1>14, ScheduleAssumption DEF CutRestart, TypeOK
  <2>2. row' \in [Schedules -> RowType]
    BY <1>14, <1>r, <1>c DEF CutRestart
  <2> QED
    BY <1>14, <1>t, <2>1, <2>2 DEF CutRestart, TypeOK
<1>15. ASSUME NEW s \in Schedules, NEW slot \in Times, NEW manual \in BOOLEAN, Cut(s, slot, manual)
       PROVE  TypeOK'
  <2>1. crashes' \in 0 .. MaxCrashes
    BY <1>15, ScheduleAssumption DEF Cut, TypeOK
  <2>2. run' \in [Schedules -> [Times -> {"none", "running", "ended"}]]
    BY <1>15 DEF Cut, TypeOK
  <2>3. lost' \subseteq Entries
    BY <1>15 DEF Cut, TypeOK, Entries
  <2> QED
    BY <1>15, <1>r, <1>t, <2>1, <2>2, <2>3 DEF Cut, Gone
<1>16. CASE UNCHANGED vars
  BY <1>16 DEF vars, TypeOK
<1> QED
  BY <1>1, <1>2, <1>3, <1>4, <1>5, <1>6, <1>7, <1>8, <1>9, <1>10, <1>11, <1>12, <1>13, <1>14,
     <1>15, <1>16, CutsAre DEF Next, LoopStep, EndRun

\* Every variable keeps its type; no slot lies further ahead than one interval.
THEOREM ScheduleTypes == Spec => []TypeOK
  BY InitType, StepType, PTL DEF Spec

-----------------------------------------------------------------------------
(* One run at a time, and none that nobody executes *)

\* The rows and the memory of the process agree: every execution has its running
\* row unless the schedule was deleted, and no running row is without one.
Agree ==
  /\ \A f \in flights : Exists(f.sched) => run[f.sched][f.slot] = "running"
  /\ \A s \in Schedules, t \in Times :
       run[s][t] = "running" /\ up => \E f \in flights : f.sched = s /\ f.slot = t
  /\ \A s \in Schedules, t \in Times : run[s][t] # "none" => Exists(s)
  /\ \A f \in flights : row[f.sched].status # "none"
  /\ ~up => flights = {} /\ loop = "idle"

RunInv == OneAtATime /\ Agree

LEMMA BeginInv ==
  ASSUME TypeOK, RunInv, up, NEW s \in Schedules, NEW slot \in Times, NEW manual \in BOOLEAN,
         Exists(s), ~Blocked(s, slot), Begin(s, slot, manual), up'
  PROVE  RunInv'
<1>1. \A f \in flights : f.sched \in Schedules /\ f.slot \in Times
  BY DEF TypeOK
<1>2. \A f \in flights : f.sched # s
  BY <1>1 DEF RunInv, Agree, Blocked, Running
<1>3. \A x \in Schedules, t \in Times : x # s \/ t # slot => run'[x][t] = run[x][t]
  BY DEF Begin, TypeOK
<1>4. \A x \in Schedules : Exists(x)' = Exists(x) /\ (row'[x].status = "none" => row[x].status = "none")
  <2>1. CASE UNCHANGED row
    BY <2>1 DEF Exists
  <2>2. CASE row' = [row EXCEPT ![s] = Advanced(s, slot, manual)]
    <3>1. Advanced(s, slot, manual).status \notin {"none", "deleted"}
      BY AdvancedType
    <3>2. /\ row'[s] = Advanced(s, slot, manual)
          /\ \A x \in Schedules : x # s => row'[x] = row[x]
      BY <2>2 DEF TypeOK
    <3> QED
      BY <3>1, <3>2 DEF Exists
  <2> QED
    BY <2>1, <2>2 DEF Begin
<1>5. CASE flights' = flights
  <2> DEFINE new == [sched |-> s, slot |-> slot, manual |-> manual, began |-> now]
  <2>1. new \notin flights
    BY <1>2
  <2>2. flights' # flights \cup {new}
    BY <1>5, <2>1
  <2>3. run'[s][slot] = "ended"
    BY <2>2 DEF Begin, TypeOK
  <2> QED
    BY <1>1, <1>2, <1>3, <1>4, <1>5, <2>3 DEF RunInv, OneAtATime, Agree
<1>6. CASE flights' # flights
  <2> DEFINE new == [sched |-> s, slot |-> slot, manual |-> manual, began |-> now]
  <2>1. flights' = flights \cup {new} /\ run'[s][slot] = "running" /\ new \in flights'
    BY <1>6 DEF Begin, TypeOK
  <2>2. new.sched = s /\ new.slot = slot
    OBVIOUS
  <2> HIDE DEF new
  <2>3. OneAtATime'
    BY <1>2, <2>1, <2>2 DEF RunInv, OneAtATime
  <2>4. Agree'
    <3>1. \A f \in flights' : Exists(f.sched)' => run'[f.sched][f.slot] = "running"
      BY <1>1, <1>2, <1>3, <1>4, <2>1, <2>2 DEF RunInv, Agree
    <3>2. \A x \in Schedules, t \in Times :
            run'[x][t] = "running" => \E f \in flights' : f.sched = x /\ f.slot = t
      BY <1>3, <2>1, <2>2 DEF RunInv, Agree
    <3>3. \A x \in Schedules, t \in Times : run'[x][t] # "none" => Exists(x)'
      BY <1>3, <1>4 DEF RunInv, Agree
    <3>4. \A f \in flights' : row'[f.sched].status # "none"
      BY <1>1, <1>4, <2>1, <2>2 DEF RunInv, Agree, Exists
    <3> QED
      BY <3>1, <3>2, <3>3, <3>4 DEF Agree
  <2> QED
    BY <2>3, <2>4 DEF RunInv
<1> QED
  BY <1>5, <1>6

LEMMA StepRun == ASSUME TypeOK, RunInv, [Next]_vars PROVE RunInv'
<1>f. \A f \in flights : f.sched \in Schedules /\ f.slot \in Times /\ f.manual \in BOOLEAN
  BY DEF TypeOK
\* Steps that leave the runs alone and neither create nor delete a schedule
<1>0. ASSUME UNCHANGED <<run, flights, up>>, loop' = loop \/ up,
             \A s \in Schedules : /\ Exists(s) => Exists(s)'
                                  /\ Exists(s)' => Exists(s) \/ row[s].status = "none"
                                  /\ row'[s].status = "none" => row[s].status = "none"
      PROVE  RunInv'
  BY <1>0, <1>f DEF RunInv, OneAtATime, Agree
<1>1. ASSUME NEW s \in Schedules, NEW at \in Times, Create(s, at) PROVE RunInv'
  BY <1>0, <1>1 DEF Create, Exists, TypeOK
<1>2. ASSUME NEW s \in Schedules, Pause(s) PROVE RunInv'
  BY <1>0, <1>2 DEF Pause, Exists, TypeOK
<1>3. ASSUME NEW s \in Schedules, Resume(s) PROVE RunInv'
  BY <1>0, <1>3 DEF Resume, Exists, TypeOK
<1>4. ASSUME NEW s \in Schedules, Delete(s) PROVE RunInv'
  <2>1. ~Exists(s)' /\ row'[s].status # "none" /\ \A t \in Times : run'[s][t] = "none"
    BY <1>4 DEF Delete, Exists, TypeOK, NoRuns
  <2>2. \A x \in Schedules : x # s => row'[x] = row[x] /\ run'[x] = run[x]
    BY <1>4 DEF Delete, TypeOK
  <2>3. UNCHANGED <<flights, up, loop>>
    BY <1>4 DEF Delete
  <2> QED
    BY <1>f, <2>1, <2>2, <2>3 DEF RunInv, OneAtATime, Agree, Exists
<1>5. ASSUME NEW s \in Schedules, RunNow(s) PROVE RunInv'
  BY <1>5, BeginInv DEF RunNow, Runnable, Served, TypeOK
<1>6. CASE ListDue
  BY <1>0, <1>6 DEF ListDue, Served, Exists
<1>7. ASSUME NEW e \in Entries, SkipDue(e) PROVE RunInv'
  <2>1. up
    BY <1>7 DEF SkipDue, Head, RunInv, Agree
  <2> QED
    BY <1>0, <1>7, <2>1 DEF SkipDue, Exists
<1>8. ASSUME NEW e \in Entries, StartDue(e) PROVE RunInv'
  <2>1. CASE up
    BY <1>8, <2>1, BeginInv DEF StartDue, Startable, Entries
  <2> QED
    BY <1>8, <2>1 DEF StartDue, Startable, Head, RunInv, Agree
<1>9. CASE Die
  BY <1>9 DEF Die, Gone, RunInv, OneAtATime, Agree, Exists
<1>10. ASSUME NEW f \in flights, Finish(f) PROVE RunInv'
  <2>1. flights' = flights \ {f} /\ up' = up
    BY <1>10 DEF Finish
  <2>2. \A x \in Schedules : Exists(x)' = Exists(x) /\ (row'[x].status = "none" => row[x].status = "none")
    <3>1. Advanced(f.sched, f.slot, f.manual).status \in {"none", "deleted"} <=> ~Exists(f.sched)
      BY <1>f, AdvancedType
    <3>2. row'[f.sched] = Advanced(f.sched, f.slot, f.manual)
      BY <1>10, <1>f DEF Finish, TypeOK
    <3>3. \A x \in Schedules : x # f.sched => row'[x] = row[x]
      BY <1>10 DEF Finish, TypeOK
    <3>4. row[f.sched].status # "none" /\ ~Exists(f.sched) => row'[f.sched] = row[f.sched]
      BY <3>2 DEF Advanced
    <3>5. row[f.sched].status # "none"
      BY DEF RunInv, Agree
    <3> QED
      BY <3>1, <3>2, <3>3, <3>4, <3>5 DEF Exists
  <2>3. \A x \in Schedules, t \in Times :
          /\ x # f.sched \/ t # f.slot => run'[x][t] = run[x][t]
          /\ run'[x][t] # "none" => run[x][t] # "none" \/ Exists(x)
    BY <1>10, <1>f DEF Finish, TypeOK
  <2>4. run'[f.sched][f.slot] # "running"
    BY <1>10, <1>f DEF Finish, TypeOK, RunInv, Agree
  <2>5. \A g \in flights' : g \in flights /\ g.sched # f.sched
    BY <2>1 DEF RunInv, OneAtATime
  <2>6. \A x \in Schedules, t \in Times :
          run'[x][t] = "running" /\ up' => \E g \in flights' : g.sched = x /\ g.slot = t
    BY <2>1, <2>3, <2>4 DEF RunInv, Agree
  <2> QED
    BY <1>f, <2>1, <2>2, <2>3, <2>5, <2>6 DEF RunInv, OneAtATime, Agree
<1>11. CASE Restart
  <2>1. flights = {} /\ flights' = {} /\ up'
    BY <1>11 DEF Restart, RunInv, Agree
  <2>2. \A x \in Schedules, t \in Times :
          run'[x][t] # "running" /\ (run'[x][t] # "none" => run[x][t] # "none")
    BY <1>11 DEF Restart, Interrupted, TypeOK
  <2>3. \A x \in Schedules : Exists(x) => Exists(x)'
    <3> TAKE x \in Schedules
    <3> DEFINE slot == CHOOSE t \in Times : run[x][t] = "running"
    <3>1. CASE Running(x)
      <4>1. slot \in Times
        BY <3>1 DEF Running
      <4>2. Advanced(x, slot, FALSE).status \in {"none", "deleted"} <=> ~Exists(x)
        BY <4>1, AdvancedType
      <4>3. row'[x] = Advanced(x, slot, FALSE)
        BY <1>11, <3>1 DEF Restart, Recovered
      <4> QED
        BY <4>2, <4>3 DEF Exists
    <3>2. CASE ~Running(x)
      BY <1>11, <3>2 DEF Restart, Exists
    <3> QED
      BY <3>1, <3>2
  <2> QED
    BY <2>1, <2>2, <2>3 DEF RunInv, OneAtATime, Agree
<1>12. CASE Pass \/ UNCHANGED vars
  BY <1>0, <1>12 DEF Pass, vars, Exists
<1>13. ASSUME NEW s \in Schedules, NEW slot \in Times, NEW manual \in BOOLEAN,
              Exists(s), Cut(s, slot, manual)
       PROVE  RunInv'
  <2>1. flights' = {} /\ ~up' /\ loop' = "idle" /\ row' = row
    BY <1>13 DEF Cut, Gone
  <2>2. \A x \in Schedules, t \in Times : run'[x][t] # "none" => run[x][t] # "none" \/ x = s
    BY <1>13 DEF Cut, TypeOK
  <2> QED
    BY <1>13, <2>1, <2>2 DEF RunInv, OneAtATime, Agree, Exists
<1>14. CASE CutRestart
  <2>1. UNCHANGED <<run, flights, up, loop>> /\ ~up
    BY <1>14 DEF CutRestart
  <2>2. \A x \in Schedules : Exists(x) => Exists(x)'
    <3> TAKE x \in Schedules
    <3> DEFINE slot == CHOOSE t \in Times : run[x][t] = "running"
    <3>1. CASE row'[x] = row[x]
      BY <3>1 DEF Exists
    <3>2. CASE row'[x] # row[x]
      <4>1. Running(x) /\ row'[x] = Advanced(x, slot, FALSE)
        BY <1>14, <3>2 DEF CutRestart, Recovered
      <4>2. slot \in Times
        BY <4>1 DEF Running
      <4>3. Advanced(x, slot, FALSE).status \in {"none", "deleted"} <=> ~Exists(x)
        BY <4>2, AdvancedType
      <4> QED
        BY <4>1, <4>3 DEF Exists
    <3> QED
      BY <3>1, <3>2
  <2>3. flights = {}
    BY <2>1 DEF RunInv, Agree
  <2> QED
    BY <2>1, <2>2, <2>3 DEF RunInv, OneAtATime, Agree
<1> QED
  BY <1>1, <1>2, <1>3, <1>4, <1>5, <1>6, <1>7, <1>8, <1>9, <1>10, <1>11, <1>12, <1>13, <1>14,
     CutsAre DEF Next, LoopStep, EndRun, Crash, RejectDue

LEMMA InitRun == Init => RunInv
<1> SUFFICES ASSUME Init PROVE RunInv
  OBVIOUS
<1>1. flights = {} /\ up
  BY DEF Init
<1>2. \A s \in Schedules, t \in Times : run[s][t] = "none"
  BY DEF Init, NoRuns
<1> QED
  BY <1>1, <1>2 DEF RunInv, OneAtATime, Agree

\* However the timer, the user and restarts interleave, a schedule is never
\* executed twice at the same time (#run returns the running row instead).
THEOREM OneRunAtATime == Spec => []OneAtATime
<1>1. RunInv => OneAtATime
  BY DEF RunInv
<1> QED
  BY InitType, StepType, InitRun, StepRun, <1>1, PTL DEF Spec

\* While the process lives every running row has an execution that will end it,
\* because #recoverInterruptedRuns ends the rows of a process that died.
THEOREM RunsAreAlive == Spec => []RunningIsAlive
<1>1. RunInv => RunningIsAlive
  BY DEF RunInv, Agree, RunningIsAlive
<1> QED
  BY InitType, StepType, InitRun, StepRun, <1>1, PTL DEF Spec

-----------------------------------------------------------------------------
(* What is planned next is free *)

\* Nothing ran in the future, nothing is listed before its time, what is planned
\* has not ended or was not advanced from, and a run by hand is not of the planned
\* slot.
FreeInv ==
  /\ \A s \in Schedules, t \in Times : t > now => run[s][t] = "none"
  /\ \A e \in queue : e.slot <= now
  /\ \A s \in Schedules : row[s].status = "active" /\ row[s].next \in Times /\ ~Lost(s) =>
       run[s][row[s].next] # "ended"
  /\ \A f \in flights : f.manual /\ row[f.sched].status = "active" =>
       row[f.sched].next # f.slot

LEMMA InitFree == Init => FreeInv
<1> SUFFICES ASSUME Init PROVE FreeInv
  OBVIOUS
<1>1. \A s \in Schedules : row[s].status = "none" /\ \A t \in Times : run[s][t] = "none"
  BY DEF Init, NoRuns
<1> QED
  BY <1>1 DEF Init, FreeInv

\* What a schedule plans after a run: as before, or something in the future.
LEMMA AdvancedNext ==
  ASSUME TypeOK, NEW s \in Schedules, NEW slot \in Times, NEW manual \in BOOLEAN,
         Advanced(s, slot, manual).status = "active"
  PROVE  /\ manual => /\ row[s].status = "active"
                      /\ Advanced(s, slot, manual).next = row[s].next
         /\ ~manual => Advanced(s, slot, manual).next \in Nat
                       /\ Advanced(s, slot, manual).next > now
<1>0. slot \in Nat /\ now \in Nat
  BY ScheduleAssumption DEF TypeOK, Times
<1>1. row[s] \in RowType /\ IntervalAfter(slot) \in Nat /\ IntervalAfter(slot) > now
  BY <1>0, IntervalAfterRange DEF TypeOK, RowType
<1>2. Exists(s) /\ s \notin Once
  BY <1>1 DEF Advanced, Exists, RowType
<1>3. CASE manual
  BY <1>1, <1>2, <1>3 DEF Advanced, RowType
<1>4. CASE ~manual
  BY <1>1, <1>2, <1>4 DEF Advanced, RowType
<1> QED
  BY <1>3, <1>4

\* A run that begins, or that is ended at once because the character is gone
LEMMA BeginFree ==
  ASSUME TypeOK, RunInv, FreeInv, NEW s \in Schedules, NEW slot \in Times, slot <= now,
         NEW manual \in BOOLEAN, Exists(s), ~Blocked(s, slot), Begin(s, slot, manual),
         manual => row[s].next # slot, now' = now, queue' \subseteq queue, lost' = lost
  PROVE  FreeInv'
<1>t. now \in Nat /\ Times \subseteq Nat /\ \A f \in flights : f.sched \in Schedules /\ f.slot \in Times
  BY ScheduleAssumption DEF TypeOK, Times
<1>1. \A f \in flights : f.sched # s
  BY <1>t DEF RunInv, Agree, Blocked, Running
<1>2. \A x \in Schedules, t \in Times : x # s \/ t # slot => run'[x][t] = run[x][t]
  BY DEF Begin, TypeOK
<1>3. \A x \in Schedules : x # s => row'[x] = row[x]
  BY DEF Begin, TypeOK
<1>4. (\A x \in Schedules, t \in Times : t > now => run'[x][t] = "none")
      /\ \A e \in queue' : e.slot <= now
  BY <1>t, <1>2 DEF FreeInv
<1>5. CASE /\ run' = [run EXCEPT ![s][slot] = "running"]
           /\ flights' = flights \cup {[sched |-> s, slot |-> slot, manual |-> manual, began |-> now]}
           /\ UNCHANGED row
  <2>1. run'[s][slot] = "running"
    BY <1>5 DEF TypeOK
  <2>2. \A x \in Schedules : row'[x].status = "active" /\ row'[x].next \in Times /\ ~Lost(x)' =>
          run'[x][row'[x].next] # "ended"
    BY <1>2, <1>5, <2>1 DEF FreeInv, Lost
  <2>3. \A f \in flights' : f.manual /\ row'[f.sched].status = "active" =>
          row'[f.sched].next # f.slot
    BY <1>5 DEF FreeInv
  <2> QED
    BY <1>4, <2>2, <2>3 DEF FreeInv
<1>6. CASE /\ run' = [run EXCEPT ![s][slot] = "ended"]
           /\ row' = [row EXCEPT ![s] = Advanced(s, slot, manual)]
           /\ UNCHANGED flights
  <2>1. row'[s] = Advanced(s, slot, manual)
    BY <1>6 DEF TypeOK
  <2>2. ASSUME row'[s].status = "active", row'[s].next \in Times, ~Lost(s)'
        PROVE  run'[s][row'[s].next] # "ended"
    <3>1. CASE manual
      <4>1. row[s].status = "active" /\ row'[s].next = row[s].next
        BY <2>1, <2>2, <3>1, AdvancedNext
      <4> QED
        BY <1>2, <2>2, <3>1, <4>1 DEF FreeInv, Lost
    <3>2. CASE ~manual
      <4>1. row'[s].next > now
        BY <2>1, <2>2, <3>2, AdvancedNext
      <4> QED
        BY <1>4, <2>2, <4>1
    <3> QED
      BY <3>1, <3>2
  <2>3. \A x \in Schedules : row'[x].status = "active" /\ row'[x].next \in Times /\ ~Lost(x)' =>
          run'[x][row'[x].next] # "ended"
    BY <1>2, <1>3, <2>2 DEF FreeInv, Lost
  <2>4. \A f \in flights' : f.manual /\ row'[f.sched].status = "active" =>
          row'[f.sched].next # f.slot
    BY <1>t, <1>1, <1>3, <1>6 DEF FreeInv
  <2> QED
    BY <1>4, <2>3, <2>4 DEF FreeInv
<1> QED
  BY <1>5, <1>6 DEF Begin

\* A resumed schedule plans the present, which did not run, or the future.
LEMMA ResumeFree ==
  ASSUME ~Coincide, TypeOK, RunInv, FreeInv, NEW s \in Schedules, Resume(s)
  PROVE  FreeInv'
<1>t. /\ now \in Times /\ Times \subseteq Nat /\ row[s] \in RowType
      /\ \A f \in flights : f.sched \in Schedules /\ f.slot \in Times
  BY ScheduleAssumption DEF TypeOK, RowType, Times
<1>1. \/ NextOccurrence(s) = now
      \/ NextOccurrence(s) \in Nat /\ NextOccurrence(s) > now
  <2>1. row[s].at \in Nat /\ (row[s].last # Never => row[s].last \in Nat)
    BY <1>t DEF RowType
  <2> QED
    BY <1>t, <2>1, IntervalAfterRange DEF NextOccurrence
<1>2. row'[s].status = "active" /\ row'[s].next = NextOccurrence(s)
  BY <1>t DEF Resume, TypeOK
<1>3. \A x \in Schedules : x # s => row'[x] = row[x]
  BY DEF Resume, TypeOK
<1>4. UNCHANGED <<now, run, flights, queue, lost>> /\ run[s][now] = "none" /\ Exists(s)
  BY DEF Resume
<1>5. \A t \in Times : t = NextOccurrence(s) => run[s][t] = "none"
  BY <1>t, <1>1, <1>4 DEF FreeInv
<1>6. \A f \in flights : f.sched = s => f.slot # NextOccurrence(s)
  <2> SUFFICES ASSUME NEW f \in flights, f.sched = s, f.slot = NextOccurrence(s) PROVE FALSE
    OBVIOUS
  <2>1. run[s][f.slot] = "running"
    BY <1>4 DEF RunInv, Agree
  <2> QED
    BY <1>t, <1>5, <2>1
<1> QED
  BY <1>t, <1>2, <1>3, <1>4, <1>5, <1>6 DEF FreeInv, Lost

LEMMA FinishFree ==
  ASSUME TypeOK, RunInv, FreeInv, NEW f \in flights, Finish(f) PROVE FreeInv'
<1> DEFINE s == f.sched
<1>t. /\ now \in Nat /\ Times \subseteq Nat
      /\ \A g \in flights : g.sched \in Schedules /\ g.slot \in Times /\ g.manual \in BOOLEAN
  BY ScheduleAssumption DEF TypeOK, Times
<1>1. /\ flights' = flights \ {f} /\ UNCHANGED <<now, queue, lost>>
      /\ \A g \in flights' : g.sched # s
  BY DEF Finish, RunInv, OneAtATime
<1>2. row'[s] = Advanced(s, f.slot, f.manual) /\ \A x \in Schedules : x # s => row'[x] = row[x]
  BY <1>t DEF Finish, TypeOK
<1>3. /\ \A x \in Schedules, t \in Times : x # s \/ t # f.slot => run'[x][t] = run[x][t]
      /\ \A x \in Schedules, t \in Times : run[x][t] = "none" => run'[x][t] = "none"
  BY <1>t DEF Finish, TypeOK, RunInv, Agree
<1>4. ASSUME row'[s].status = "active", row'[s].next \in Times, ~Lost(s)'
      PROVE  run'[s][row'[s].next] # "ended"
  <2>1. CASE f.manual
    <3>0. Advanced(s, f.slot, TRUE) = row'[s]
      <4>1. f.manual = TRUE
        BY <1>t, <2>1
      <4> QED
        BY <1>2, <4>1
    <3>1. row[s].status = "active" /\ row'[s].next = row[s].next
      <4>1. s \in Schedules /\ f.slot \in Times /\ TRUE \in BOOLEAN
        BY <1>t
      <4> QED
        BY <1>4, <3>0, <4>1, AdvancedNext
    <3>2. row[s].next # f.slot
      BY <2>1, <3>1 DEF FreeInv
    <3>3. row[s].next \in Times /\ run[s][row[s].next] # "ended"
      BY <1>t, <1>1, <1>4, <3>1 DEF FreeInv, Lost
    <3>4. run'[s][row[s].next] = run[s][row[s].next]
      BY <1>t, <1>3, <3>2, <3>3
    <3> QED
      BY <3>1, <3>3, <3>4
  <2>2. CASE ~f.manual
    <3>1. row'[s].next > now
      BY ZenonT(40), <1>t, <1>2, <1>4, <2>2, AdvancedNext
    <3>2. run[s][row'[s].next] = "none"
      BY <1>t, <1>4, <3>1 DEF FreeInv
    <3> QED
      BY <1>t, <1>3, <1>4, <3>2
  <2> QED
    BY <1>t, <2>1, <2>2
<1> HIDE DEF s
<1>5. \A x \in Schedules : row'[x].status = "active" /\ row'[x].next \in Times /\ ~Lost(x)' =>
        run'[x][row'[x].next] # "ended"
  BY <1>1, <1>2, <1>3, <1>4 DEF FreeInv, Lost
<1>6. \A g \in flights' : g.manual /\ row'[g.sched].status = "active" =>
        row'[g.sched].next # g.slot
  BY <1>t, <1>1, <1>2 DEF FreeInv
<1>7. (\A x \in Schedules, t \in Times : t > now' => run'[x][t] = "none")
      /\ \A e \in queue' : e.slot <= now'
  BY <1>1, <1>3 DEF FreeInv
<1> QED
  BY <1>5, <1>6, <1>7 DEF FreeInv

\* A recovery, of all or of some of the schedules that are interrupted
LEMMA RecoveryFree ==
  ASSUME TypeOK, RunInv, FreeInv, flights = {}, flights' = {}, UNCHANGED <<now, queue, lost>>,
         \A x \in Schedules : row'[x] = row[x] \/ (Running(x) /\ row'[x] = Recovered(x)),
         \A x \in Schedules, t \in Times :
           /\ run[x][t] = "none" => run'[x][t] = "none"
           /\ ~(Running(x) /\ row'[x] = Recovered(x)) => run'[x][t] = run[x][t]
  PROVE  FreeInv'
<1>1. now \in Nat /\ Times \subseteq Nat
  BY ScheduleAssumption DEF TypeOK, Times
<1>2. ASSUME NEW x \in Schedules, row'[x].status = "active", row'[x].next \in Times, ~Lost(x)'
      PROVE  run'[x][row'[x].next] # "ended"
  <2> DEFINE slot == CHOOSE t \in Times : run[x][t] = "running"
  <2>1. CASE Running(x) /\ row'[x] = Recovered(x)
    <3>1. slot \in Times
      BY <2>1 DEF Running
    <3>2. row'[x] = Advanced(x, slot, FALSE)
      BY <2>1 DEF Recovered
    <3> HIDE DEF slot
    <3>3. row'[x].next > now
      BY <1>2, <3>1, <3>2, AdvancedNext
    <3> QED
      BY <1>2, <3>3 DEF FreeInv
  <2>2. CASE ~(Running(x) /\ row'[x] = Recovered(x))
    <3>1. row'[x] = row[x] /\ run'[x][row[x].next] = run[x][row[x].next]
      BY <1>2, <2>2
    <3> QED
      BY <1>2, <3>1 DEF FreeInv, Lost
  <2> QED
    BY <2>1, <2>2
<1>3. (\A x \in Schedules, t \in Times : t > now' => run'[x][t] = "none")
      /\ \A e \in queue' : e.slot <= now'
  BY <1>1 DEF FreeInv
<1> QED
  BY <1>1, <1>2, <1>3 DEF FreeInv

LEMMA RestartFree ==
  ASSUME TypeOK, RunInv, FreeInv, Restart \/ CutRestart PROVE FreeInv'
<1>1. flights = {} /\ flights' = {} /\ UNCHANGED <<now, queue, lost>>
  BY DEF Restart, CutRestart, RunInv, Agree
<1>2. CASE Restart
  <2>1. \A x \in Schedules : row'[x] = IF Running(x) THEN Recovered(x) ELSE row[x]
    BY <1>2 DEF Restart
  <2>2. \A x \in Schedules, t \in Times :
          /\ run[x][t] = "none" => run'[x][t] = "none"
          /\ ~Running(x) => run'[x][t] = run[x][t]
    BY <1>2 DEF Restart, Interrupted, Running, TypeOK
  <2> QED
    BY <1>1, <2>1, <2>2, RecoveryFree
<1>3. CASE CutRestart
  <2>1. run' = run /\ \A x \in Schedules : row'[x] = row[x] \/ (Running(x) /\ row'[x] = Recovered(x))
    BY <1>3 DEF CutRestart
  <2> QED
    BY <1>1, <2>1, RecoveryFree
<1> QED
  BY <1>2, <1>3

\* The slot whose run ended without #advance is lost; a run by hand is of another
\* one than what is planned.
LEMMA CutFree ==
  ASSUME TypeOK, RunInv, FreeInv, NEW s \in Schedules, NEW slot \in Times, slot <= now,
         NEW manual \in BOOLEAN, manual /\ row[s].status = "active" => row[s].next # slot,
         Cut(s, slot, manual)
  PROVE  FreeInv'
<1>t. now \in Nat /\ Times \subseteq Nat
  BY ScheduleAssumption DEF TypeOK, Times
<1>1. flights' = {} /\ queue' = {} /\ UNCHANGED <<now, row>> /\ lost \subseteq lost'
  BY DEF Cut, Gone
<1>2. \A x \in Schedules, t \in Times : x # s \/ t # slot => run'[x][t] = run[x][t]
  BY DEF Cut, TypeOK
<1>3. ASSUME NEW x \in Schedules, row'[x].status = "active", row'[x].next \in Times, ~Lost(x)'
      PROVE  run'[x][row'[x].next] # "ended"
  <2>1. ~Lost(x) /\ run[x][row[x].next] # "ended"
    BY <1>1, <1>3 DEF Lost, FreeInv
  <2>2. x # s \/ row[x].next # slot
    <3>1. ~manual => [sched |-> s, slot |-> slot] \in lost'
      BY DEF Cut
    <3> QED
      BY <1>1, <1>3, <3>1 DEF Lost
  <2> QED
    BY <1>1, <1>2, <1>3, <2>1, <2>2
<1>4. \A x \in Schedules, t \in Times : t > now' => run'[x][t] = "none"
  BY <1>t, <1>1, <1>2 DEF FreeInv
<1> QED
  BY <1>1, <1>3, <1>4 DEF FreeInv

LEMMA StepFree ==
  ASSUME ~Coincide, TypeOK, RunInv, FreeInv, [Next]_vars PROVE FreeInv'
<1>t. /\ now \in Times /\ Times \subseteq Nat
      /\ \A f \in flights : f.sched \in Schedules /\ f.slot \in Times
  BY ScheduleAssumption DEF TypeOK, Times
\* Steps that begin and end nothing and plan nothing
<1>0. ASSUME UNCHANGED <<run, lost>>, flights' \subseteq flights, queue' \subseteq queue,
             now' \in Nat, now' >= now,
             \A s \in Schedules : row'[s].status = "active" => row'[s] = row[s]
      PROVE  FreeInv'
  <2>1. \A s \in Schedules, t \in Times : t > now' => run'[s][t] = "none"
    BY <1>0, <1>t DEF FreeInv
  <2>2. \A e \in queue' : e.slot <= now'
    <3>1. \A e \in queue : e.slot \in Nat
      BY <1>t DEF TypeOK, Entries
    <3> QED
      BY <1>0, <1>t, <3>1 DEF FreeInv
  <2>3. \A s \in Schedules : row'[s].status = "active" /\ row'[s].next \in Times /\ ~Lost(s)' =>
          run'[s][row'[s].next] # "ended"
    BY <1>0 DEF FreeInv, Lost
  <2>4. \A f \in flights' : f.manual /\ row'[f.sched].status = "active" =>
          row'[f.sched].next # f.slot
    BY <1>0, <1>t DEF FreeInv
  <2> QED
    BY <2>1, <2>2, <2>3, <2>4 DEF FreeInv
<1>1. ASSUME NEW s \in Schedules, NEW at \in Times, Create(s, at) PROVE FreeInv'
  <2>1. \A t \in Times : run[s][t] = "none"
    BY <1>1 DEF Create, RunInv, Agree, Exists
  <2>2. \A f \in flights : f.sched # s
    BY <1>1 DEF Create, RunInv, Agree
  <2>3. \A x \in Schedules : x # s => row'[x] = row[x]
    BY <1>1 DEF Create, TypeOK
  <2>4. UNCHANGED <<now, run, flights, queue, lost>>
    BY <1>1 DEF Create
  <2>5. \A x \in Schedules : row'[x].status = "active" /\ row'[x].next \in Times /\ ~Lost(x)' =>
          run'[x][row'[x].next] # "ended"
    BY <2>1, <2>3, <2>4 DEF FreeInv, Lost
  <2>6. \A f \in flights' : f.manual /\ row'[f.sched].status = "active" =>
          row'[f.sched].next # f.slot
    BY <1>t, <2>2, <2>3, <2>4 DEF FreeInv
  <2> QED
    BY <2>4, <2>5, <2>6 DEF FreeInv
<1>2. ASSUME NEW s \in Schedules, Pause(s) PROVE FreeInv'
  <2>1. \A x \in Schedules : row'[x].status = "active" => row'[x] = row[x]
    BY <1>2 DEF Pause, TypeOK
  <2>2. UNCHANGED <<now, run, flights, queue, lost>>
    BY <1>2 DEF Pause
  <2> QED
    BY <1>0, <1>t, <2>1, <2>2
<1>3. ASSUME NEW s \in Schedules, Resume(s) PROVE FreeInv'
  BY <1>3, ResumeFree
<1>4. ASSUME NEW s \in Schedules, Delete(s) PROVE FreeInv'
  <2>1. row'[s].status = "deleted" /\ \A t \in Times : run'[s][t] = "none"
    BY <1>4 DEF Delete, TypeOK, NoRuns
  <2>2. \A x \in Schedules : x # s => row'[x] = row[x] /\ run'[x] = run[x]
    BY <1>4 DEF Delete, TypeOK
  <2>3. UNCHANGED <<now, flights, queue, lost>>
    BY <1>4 DEF Delete
  <2> QED
    BY <1>t, <2>1, <2>2, <2>3 DEF FreeInv, Lost
<1>5. ASSUME NEW s \in Schedules, RunNow(s) PROVE FreeInv'
  <2>1. now \in Times /\ now <= now /\ TRUE \in BOOLEAN
    BY <1>t
  <2>2. Exists(s) /\ ~Blocked(s, now) /\ Begin(s, now, TRUE) /\ row[s].next # now
    BY <1>5 DEF RunNow, Runnable
  <2>3. now' = now /\ queue' \subseteq queue /\ lost' = lost
    BY <1>5 DEF RunNow
  <2> QED
    BY <2>1, <2>2, <2>3, BeginFree
<1>6. CASE ListDue
  <2> DEFINE due == {[sched |-> s, slot |-> row[s].next] : s \in {x \in Schedules : Due(x)}}
  <2>1. \A e \in due : e.slot <= now
    BY DEF Due
  <2>2. queue' \subseteq due
    BY <1>6 DEF ListDue
  <2> HIDE DEF due
  <2>3. UNCHANGED <<now, row, run, flights, lost>>
    BY <1>6 DEF ListDue
  <2> QED
    BY <2>1, <2>2, <2>3 DEF FreeInv, Lost
<1>7. ASSUME NEW e \in Entries, SkipDue(e) PROVE FreeInv'
  BY <1>0, <1>7, <1>t DEF SkipDue
<1>8. ASSUME NEW e \in Entries, StartDue(e) PROVE FreeInv'
  <2>1. e.sched \in Schedules /\ e.slot \in Times /\ e.slot <= now
    BY <1>8 DEF StartDue, Startable, Head, FreeInv, Entries
  <2> QED
    BY <1>8, <2>1, BeginFree DEF StartDue, Startable
<1>9. CASE Die
  BY <1>0, <1>9, <1>t DEF Die, Gone
<1>10. ASSUME NEW f \in flights, Finish(f) PROVE FreeInv'
  BY <1>10, FinishFree
<1>11. CASE Restart \/ CutRestart
  BY <1>11, RestartFree
<1>12. CASE Pass
  BY <1>0, <1>12, <1>t DEF Pass
<1>13. CASE UNCHANGED vars
  BY <1>0, <1>13, <1>t DEF vars
<1>14. ASSUME NEW s \in Schedules, CutNow(s) PROVE FreeInv'
  <2>1. row[s].next # now /\ Cut(s, now, TRUE)
    BY <1>14 DEF CutNow, Runnable
  <2>2. now <= now /\ TRUE \in BOOLEAN
    BY <1>t
  <2> QED
    BY <1>t, <2>1, <2>2, CutFree
<1>15. ASSUME NEW e \in Entries, CutDue(e) PROVE FreeInv'
  <2>1. e.sched \in Schedules /\ e.slot \in Times /\ e.slot <= now /\ Cut(e.sched, e.slot, FALSE)
    BY <1>15 DEF CutDue, Startable, Head, FreeInv, Entries
  <2> QED
    BY <2>1, CutFree
<1>16. ASSUME NEW f \in flights, CutFinish(f) PROVE FreeInv'
  <2>1. /\ f.sched \in Schedules /\ f.slot \in Times /\ f.manual \in BOOLEAN
        /\ Cut(f.sched, f.slot, f.manual) /\ Exists(f.sched)
    BY <1>16 DEF CutFinish, TypeOK
  <2>2. run[f.sched][f.slot] = "running"
    BY <2>1 DEF RunInv, Agree
  <2>3. f.slot <= now
    <3>1. run[f.sched][f.slot] # "none" /\ now \in Nat /\ f.slot \in Nat
      BY <1>t, <2>1, <2>2
    <3>2. ~(f.slot > now)
      BY <2>1, <3>1 DEF FreeInv
    <3> QED
      BY <3>1, <3>2
  <2>4. f.manual /\ row[f.sched].status = "active" => row[f.sched].next # f.slot
    BY DEF FreeInv
  <2> QED
    BY <2>1, <2>3, <2>4, CutFree
<1> QED
  BY <1>1, <1>2, <1>3, <1>4, <1>5, <1>6, <1>7, <1>8, <1>9, <1>10, <1>11, <1>12, <1>13, <1>14,
     <1>15, <1>16 DEF Next, LoopStep, EndRun, CutStep, Crash, RejectDue

\* The slot that is planned next has no run that ended, whose row would keep the
\* new one from being inserted and the schedule due for ever: #advance, a
\* resumption and the recovery at a start all plan an instant that is free.  A crash
\* between the end of a run and #advance, two commits, is excepted: the slot is lost.
\* When a run by hand may fall on the very instant of a slot this does not hold.
THEOREM PlannedIsFree == ASSUME ~Coincide PROVE Spec => []NextIsFree
<1>1. TypeOK /\ FreeInv => NextIsFree
  <2> SUFFICES ASSUME TypeOK, FreeInv, NEW s \in Schedules,
                      row[s].status = "active", row[s].next # Never, row[s].next <= now,
                      ~Lost(s)
               PROVE  run[s][row[s].next] \in {"none", "running"}
    BY DEF NextIsFree
  <2>1. row[s].next \in Slots /\ now \in Times
    BY DEF TypeOK
  <2>2. row[s].next \in Times
    BY <2>1, ScheduleAssumption DEF Slots, Times
  <2> QED
    BY <2>2 DEF TypeOK, FreeInv
<1> QED
  BY InitType, StepType, InitRun, StepRun, InitFree, StepFree, <1>1, PTL DEF Spec

-----------------------------------------------------------------------------
(* Once for every slot *)

\* A slot that was run is not run again: #run and #execute return the run they
\* find, whatever list the timer still works through and whoever asks, and the
\* recovery at a start ends runs only.  (Only the deletion of a schedule takes
\* its runs away.)
THEOREM RunOncePerSlot == Spec => OncePerSlot
<1> DEFINE Ended == \A s \in Schedules, t \in Times :
                      run[s][t] = "ended" => run'[s][t] \in {"ended", "none"}
<1>b. ASSUME TypeOK, NEW s \in Schedules, NEW slot \in Times, NEW manual \in BOOLEAN,
             ~Blocked(s, slot), Begin(s, slot, manual)
      PROVE  Ended
  BY <1>b DEF Begin, Blocked, TypeOK
<1>1. ASSUME TypeOK, [Next]_vars PROVE [Ended]_run
  <2> SUFFICES ASSUME Next PROVE Ended \/ run' = run
    BY <1>1 DEF vars
  <2>1. ASSUME NEW s \in Schedules, Delete(s) PROVE Ended
    BY <1>1, <2>1 DEF Delete, NoRuns, TypeOK
  <2>2. ASSUME NEW s \in Schedules, RunNow(s) PROVE Ended
    <3>1. now \in Times
      BY <1>1 DEF TypeOK
    <3> QED
      BY <1>1, <2>2, <1>b, <3>1 DEF RunNow, Runnable
  <2>3. ASSUME NEW e \in Entries, StartDue(e) PROVE Ended
    BY <1>1, <2>3, <1>b DEF StartDue, Startable, Entries
  <2>4. ASSUME NEW f \in flights, Finish(f) PROVE Ended
    BY <1>1, <2>4 DEF Finish, TypeOK
  <2>5. CASE Restart
    BY <1>1, <2>5 DEF Restart, Interrupted, TypeOK
  <2>6. ASSUME NEW s \in Schedules, NEW slot \in Times, NEW manual \in BOOLEAN,
               Cut(s, slot, manual)
        PROVE  Ended
    BY <1>1, <2>6 DEF Cut, TypeOK
  <2> HIDE DEF Ended
  <2>7. CASE CutStep
    <3>1. CutRestart => run' = run
      BY DEF CutRestart
    <3> QED
      BY <1>1, <2>6, <2>7, <3>1, CutsAre
  <2> QED
    BY <2>1, <2>2, <2>3, <2>4, <2>5, <2>7
       DEF Next, LoopStep, EndRun, Create, Pause, Resume, ListDue, SkipDue, RejectDue, Crash,
           Die, Pass
<1> QED
  BY InitType, StepType, <1>1, PTL DEF Spec, OncePerSlot
=============================================================================
