---------------------------- MODULE TaskSchedule ----------------------------
(***************************************************************************)
(* The task schedules of a world (task-schedule-service.ts): the user has  *)
(* a character run a prompt once or at an interval; a 5 s timer starts     *)
(* what is due, the user may start, pause, resume and delete meanwhile.    *)
(*                                                                         *)
(* A run awaits a whole model turn.  Between two awaits the handler has    *)
(* the process to itself, so starting a run (look for a running one,       *)
(* insert the row, ask the character) is one step and ending it another;   *)
(* but each of its statements is committed by itself, and the Cut steps    *)
(* are those in which the process dies between two of them.                *)
(* The timer's loop works through the list of rows it read when it began.  *)
(* Times count coarse instants; a run ends later than it begins.           *)
(***************************************************************************)
EXTENDS Naturals, FiniteSets

CONSTANTS
  Schedules,   \* the identities of schedules
  Once,        \* those of kind once; the others are of kind interval
  Every,       \* the interval
  Batch,       \* how many due schedules the timer takes at a time (20)
  Coincide,    \* may a run by hand, or a resumption, hit the instant of a slot?
  MaxTime,     \* bound of the clock
  MaxCrashes,  \* bound: crashes in a behaviour
  Never        \* no time

ASSUME ScheduleAssumption ==
  /\ Once \subseteq Schedules /\ Every \in Nat \ {0} /\ Batch \in Nat \ {0}
  /\ Coincide \in BOOLEAN /\ MaxTime \in Nat /\ MaxCrashes \in Nat /\ Never \notin Nat

VARIABLES
  now,      \* the clock
  row,      \* task_schedules
  run,      \* task_schedule_runs: the run of a schedule for a slot; ended is completed
            \* or failed, with which the schedule goes on alike
  flights,  \* the runs being executed by this process
  loop,     \* the loop of runDue: idle, on the processor (next), or awaiting a run
  queue,    \* what is left of the list it read, each with the slot read
  up,       \* the process lives
  crashes,  \* history: how often it did not
  lost      \* history: the slots whose run ended without #advance

vars == <<now, row, run, flights, loop, queue, up, crashes, lost>>

Times   == 0 .. MaxTime                 \* at which something happens
Slots   == 0 .. MaxTime + Every         \* for which something may be planned
Entries == [sched : Schedules, slot : Times]
NoRuns  == [t \in Times |-> "none"]

Exists(s)  == row[s].status \notin {"none", "deleted"}
Running(s) == \E t \in Times : run[s][t] = "running"

\* Requests and timers are served while the loop is not on the processor.
Served == up /\ loop # "next"

-----------------------------------------------------------------------------
(* Mutated forms of operators below *)

\* Blocked: looks for a run of that slot only.
MutBlocked(s, slot) == run[s][slot] # "none"
\* Blocked: looks for a running one only and trusts the row to be new.
MutUnchecked(s, slot) == Running(s)
\* IntervalAfter: one interval further, whatever the time.
MutOneFurther(slot) == slot + Every
\* IntervalAfter: one interval too many.
MutTooFar(slot) == slot + Every * ((now - slot) \div Every + 2)
\* Interrupted: the rows of interrupted runs are left as they are.
MutInterrupted(s) == run[s]

-----------------------------------------------------------------------------
(* Arithmetic of slots *)

\* intervalAfter: the first instant after now that is some intervals after slot
IntervalAfter(slot) ==
  IF slot + Every > now THEN slot + Every
  ELSE slot + Every * ((now - slot) \div Every + 1)

\* nextOccurrence, for a schedule that is resumed
NextOccurrence(s) ==
  LET r == row[s] IN
  IF s \in Once THEN IF r.at > now THEN r.at ELSE now
  ELSE IntervalAfter(IF r.last = Never THEN r.at ELSE r.last)

\* #advance: the row of s after its run for slot ended
Advanced(s, slot, manual) ==
  LET r == row[s] IN
  CASE ~Exists(s) -> r
    [] Exists(s) /\ manual /\ s \notin Once -> [r EXCEPT !.last = now]
    [] Exists(s) /\ ~manual /\ s \notin Once ->
         [r EXCEPT !.status = "active", !.next = IntervalAfter(slot), !.last = now]
    [] Exists(s) /\ s \in Once ->
         [r EXCEPT !.status = "completed", !.next = Never, !.last = now]

-----------------------------------------------------------------------------
(* The user *)

Create(s, at) ==
  /\ Served
  /\ row[s].status = "none"
  /\ at >= now
  /\ row' = [row EXCEPT ![s] = [status |-> "active", at |-> at, next |-> at, last |-> Never]]
  /\ UNCHANGED <<now, run, flights, loop, queue, up, crashes, lost>>

\* setStatus(paused)
Pause(s) ==
  /\ Served
  /\ Exists(s)
  /\ row' = [row EXCEPT ![s].status = "paused", ![s].next = Never]
  /\ UNCHANGED <<now, run, flights, loop, queue, up, crashes, lost>>

\* setStatus(active)
Resume(s) ==
  /\ Served
  /\ Exists(s)
  /\ Coincide \/ run[s][now] = "none"
  /\ row' = [row EXCEPT ![s].status = "active", ![s].next = NextOccurrence(s)]
  /\ UNCHANGED <<now, run, flights, loop, queue, up, crashes, lost>>

\* The rows of its runs are deleted with it, the run in flight is not stopped.
Delete(s) ==
  /\ Served
  /\ Exists(s)
  /\ row' = [row EXCEPT ![s].status = "deleted"]
  /\ run' = [run EXCEPT ![s] = NoRuns]
  /\ UNCHANGED <<now, flights, loop, queue, up, crashes, lost>>

-----------------------------------------------------------------------------
(* Runs *)

\* What keeps #run and #execute from a new run: one is running, or there is one
\* for this slot already, and it is returned instead.
Blocked(s, slot) == Running(s) \/ run[s][slot] # "none"

\* The run is inserted and the character asked, or it is not available any more.
Begin(s, slot, manual) ==
  \/ /\ run' = [run EXCEPT ![s][slot] = "running"]
     /\ flights' = flights \cup {[sched |-> s, slot |-> slot, manual |-> manual, began |-> now]}
     /\ UNCHANGED row
  \/ /\ run' = [run EXCEPT ![s][slot] = "ended"]
     /\ row' = [row EXCEPT ![s] = Advanced(s, slot, manual)]
     /\ UNCHANGED flights

Runnable(s) ==
  /\ Served
  /\ Exists(s)
  /\ ~Blocked(s, now)
  /\ Coincide \/ row[s].next # now

RunNow(s) ==
  /\ Runnable(s)
  /\ Begin(s, now, TRUE)
  /\ UNCHANGED <<now, loop, queue, up, crashes, lost>>

Due(s) == row[s].status = "active" /\ row[s].next # Never /\ row[s].next <= now

\* runDue lists the rows that are due, the earliest first, at most Batch.
ListDue ==
  /\ Served /\ loop = "idle"
  /\ LET due == {[sched |-> s, slot |-> row[s].next] : s \in {x \in Schedules : Due(x)}} IN
       /\ due # {}
       /\ \E taken \in SUBSET due :
            /\ Cardinality(taken) = IF Cardinality(due) < Batch THEN Cardinality(due) ELSE Batch
            /\ \A e \in taken, f \in due \ taken : e.slot <= f.slot
            /\ queue' = taken
  /\ loop' = "next"
  /\ UNCHANGED <<now, row, run, flights, up, crashes, lost>>

\* The earliest of the list, with random identities among equals
Head(e) == loop = "next" /\ e \in queue /\ \A f \in queue : e.slot <= f.slot

GoOn(rest) == IF rest = {} THEN "idle" ELSE "next"

\* A run is in the way, or the slot has had its run: pass over.
SkipDue(e) ==
  /\ Head(e)
  /\ Exists(e.sched) /\ Blocked(e.sched, e.slot)
  /\ queue' = queue \ {e}
  /\ loop' = GoOn(queue \ {e})
  /\ UNCHANGED <<now, row, run, flights, up, crashes, lost>>

Startable(e) == Head(e) /\ Exists(e.sched) /\ ~Blocked(e.sched, e.slot)

\* Start it as it was listed and await its end.
StartDue(e) ==
  /\ Startable(e)
  /\ Begin(e.sched, e.slot, FALSE)
  /\ queue' = queue \ {e}
  /\ loop' = IF flights' = flights THEN GoOn(queue \ {e}) ELSE "wait"
  /\ UNCHANGED <<now, up, crashes, lost>>

Over(f) == Served /\ f \in flights /\ (now > f.began \/ now = MaxTime)

\* The character's turn is over; the loop goes on at once if it awaited it.
Finish(f) ==
  /\ Over(f)
  /\ flights' = flights \ {f}
  /\ run' = IF Exists(f.sched) THEN [run EXCEPT ![f.sched][f.slot] = "ended"] ELSE run
  /\ row' = [row EXCEPT ![f.sched] = Advanced(f.sched, f.slot, f.manual)]
  /\ loop' = IF f.manual THEN loop ELSE GoOn(queue)
  /\ UNCHANGED <<now, queue, up, crashes, lost>>

-----------------------------------------------------------------------------
(* Crash and restart *)

Gone ==
  /\ flights' = {}
  /\ queue' = {}
  /\ loop' = "idle"
  /\ up' = FALSE
  /\ UNCHANGED now

Die == Gone /\ UNCHANGED <<row, run, lost>>

Crash == up /\ crashes < MaxCrashes /\ crashes' = crashes + 1 /\ Die

\* The process dies after the row of a run was ended and before #advance.  Of a run
\* by hand the schedule does not learn; of another the slot stays planned.
Cut(s, slot, manual) ==
  /\ crashes < MaxCrashes /\ crashes' = crashes + 1
  /\ Gone
  /\ run' = [run EXCEPT ![s][slot] = "ended"]
  /\ lost' = IF manual THEN lost ELSE lost \cup {[sched |-> s, slot |-> slot]}
  /\ UNCHANGED row

\* The run failed at once, for the character is not available, or its turn is over.
CutNow(s)    == Runnable(s) /\ Cut(s, now, TRUE)
CutDue(e)    == Startable(e) /\ Cut(e.sched, e.slot, FALSE)
CutFinish(f) == Over(f) /\ Exists(f.sched) /\ Cut(f.sched, f.slot, f.manual)

\* The schedule was deleted since it was listed: the row cannot be inserted, the
\* loop throws, and nothing catches what the timer's callback rejects with.
RejectDue(e) == Head(e) /\ ~Exists(e.sched) /\ Die /\ UNCHANGED crashes

\* #recoverInterruptedRuns: what ran has failed and its schedule is advanced, a
\* run by hand like any other.
Interrupted(s) == [t \in Times |-> IF run[s][t] = "running" THEN "ended" ELSE run[s][t]]

\* The row of a schedule whose run was interrupted
Recovered(s) == Advanced(s, CHOOSE t \in Times : run[s][t] = "running", FALSE)

Restart ==
  /\ ~up
  /\ up' = TRUE
  /\ run' = [s \in Schedules |-> Interrupted(s)]
  /\ row' = [s \in Schedules |-> IF Running(s) THEN Recovered(s) ELSE row[s]]
  /\ UNCHANGED <<now, flights, loop, queue, crashes, lost>>

\* It dies again when some schedules are advanced, before the runs are ended.
CutRestart ==
  /\ ~up /\ crashes < MaxCrashes /\ crashes' = crashes + 1
  /\ \E advanced \in SUBSET {s \in Schedules : Running(s)} \ {{}} :
       row' = [s \in Schedules |-> IF s \in advanced THEN Recovered(s) ELSE row[s]]
  /\ UNCHANGED <<now, run, flights, loop, queue, up, lost>>

Pass ==
  /\ loop # "next"
  /\ now < MaxTime
  /\ now' = now + 1
  /\ UNCHANGED <<row, run, flights, loop, queue, up, crashes, lost>>

-----------------------------------------------------------------------------
(* The specification *)

Init ==
  /\ now = 0
  /\ row = [s \in Schedules |-> [status |-> "none", at |-> 0, next |-> Never, last |-> Never]]
  /\ run = [s \in Schedules |-> NoRuns]
  /\ flights = {}
  /\ loop = "idle"
  /\ queue = {}
  /\ up = TRUE
  /\ crashes = 0
  /\ lost = {}

LoopStep  == ListDue \/ \E e \in Entries : SkipDue(e) \/ StartDue(e) \/ RejectDue(e)
EndRun(s) == \E f \in flights : f.sched = s /\ Finish(f)
CutStep ==
  \/ \E s \in Schedules : CutNow(s)
  \/ \E e \in Entries : CutDue(e)
  \/ \E f \in flights : CutFinish(f)
  \/ CutRestart

Next ==
  \/ \E s \in Schedules : \/ \E at \in Times : Create(s, at)
                          \/ Pause(s) \/ Resume(s) \/ Delete(s) \/ RunNow(s)
                          \/ EndRun(s)
  \/ LoopStep
  \/ Crash
  \/ CutStep
  \/ Restart
  \/ Pass

\* The timer fires, model turns have time-outs, time passes and the service is
\* started again.  Where the loop on the processor disables a step its fairness
\* is strong: Node runs every task in turn.
Fairness ==
  /\ WF_vars(LoopStep) /\ WF_vars(Restart)
  /\ \A s \in Schedules : SF_vars(EndRun(s))
  /\ SF_vars(Pass)

Spec     == Init /\ [][Next]_vars
FairSpec == Spec /\ Fairness

-----------------------------------------------------------------------------
(* Properties *)

\* Every variable has its type.
TypeOK ==
  /\ now \in Times
  /\ row \in [Schedules -> [status : {"none", "active", "paused", "completed", "deleted"},
                            at : Times, next : Slots \cup {Never}, last : Times \cup {Never}]]
  /\ run \in [Schedules -> [Times -> {"none", "running", "ended"}]]
  /\ flights \subseteq [sched : Schedules, slot : Times, manual : BOOLEAN, began : Times]
  /\ loop \in {"idle", "next", "wait"}
  /\ queue \subseteq Entries
  /\ up \in BOOLEAN
  /\ crashes \in 0 .. MaxCrashes
  /\ lost \subseteq Entries

\* A schedule is executed by one run at a time, by hand or by the timer.
OneAtATime == \A f, g \in flights : f.sched = g.sched => f = g

\* A running row has an execution behind it, after a restart too: a row that was
\* left running would keep its schedule from ever running again.
RunningIsAlive ==
  up => \A s \in Schedules, t \in Times :
          run[s][t] = "running" => \E f \in flights : f.sched = s /\ f.slot = t

\* The row still plans a slot whose run has ended, for the process died in between.
Lost(s) == [sched |-> s, slot |-> row[s].next] \in lost

\* What is planned next has not run yet: the row of that run could not be
\* inserted, and the schedule would stay due and be passed over for ever.  Only a
\* crash between the end of a run and #advance brings that about.
NextIsFree ==
  \A s \in Schedules :
    row[s].status = "active" /\ row[s].next # Never /\ row[s].next <= now /\ ~Lost(s) =>
      run[s][row[s].next] \in {"none", "running"}

\* The run for a slot is started once: neither a restart nor a list read long
\* ago repeats it.
OncePerSlot ==
  [][\A s \in Schedules, t \in Times :
       run[s][t] = "ended" => run'[s][t] \in {"ended", "none"}]_run

\* Due for ever, and passed over in every list: those that are listed before s
StuckBefore(s) == {x \in Schedules : Due(x) /\ Lost(x) /\ row[x].next <= row[s].next}

\* What is due is run (or paused or deleted), behind others and across restarts,
\* unless such a crash left it stuck, or enough others to fill the list before it.
DueIsRun ==
  \A s \in Schedules :
    Due(s) ~> ~Due(s) \/ Lost(s) \/ Cardinality(StuckBefore(s)) >= Batch

\* What is due is run, whatever happens.
NoneStuck ==
  \A s \in Schedules : Due(s) ~> ~Due(s)

\* A paused schedule stays so until the user resumes it.
PauseStands ==
  [][\A s \in Schedules :
       row[s].status = "paused" /\ row'[s].status = "active" => Resume(s)]_row

\* A schedule for once that ran by hand and is completed is not run again by
\* the timer: "only once at the given time".
OnceMeansOnce ==
  [][\A e \in Entries :
       StartDue(e) /\ e.sched \in Once => row[e.sched].status # "completed"]_vars

\* A schedule that is resumed before its first time still runs at that time.
FirstTimeKept ==
  [][\A s \in Schedules :
       Resume(s) /\ row[s].last = Never /\ now < row[s].at => row'[s].next = row[s].at]_row
=============================================================================
