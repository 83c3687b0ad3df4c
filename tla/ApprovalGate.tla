---------------------------- MODULE ApprovalGate ----------------------------
(***************************************************************************)
(* The approval gate of the server: how the external side effects that one *)
(* direct conversation turn proposes are reserved, approved, claimed,      *)
(* executed at most once and reported, and how the turn that waits for     *)
(* them is continued.                                                      *)
(*                                                                         *)
(*   character-skill-runtime.ts               prepare, decideApproval,     *)
(*                                            tick, #execute, recovery     *)
(*   turn-aware-approval-continuation-        direct, continueIfReady,     *)
(*   service.ts                               recover                      *)
(*   sqlite-store.ts                          the durable rows and their   *)
(*                                            compare-and-set updates      *)
(*                                                                         *)
(* The server is one Node process.  A handler runs without interruption    *)
(* until it awaits host I/O: the external call itself, the model turn that *)
(* answers the user, and, depending on the adapter, deleting an encrypted  *)
(* payload (MCP) or the preflight (web search).  Everywhere else `await`   *)
(* resumes in the same task, so only the handler that runs may step        *)
(* (MayRun); a crash, though, may fall between any two durable writes.  A  *)
(* handler works on its own copy of an action row and saves all of it.     *)
(*                                                                         *)
(* Modelled: one turn, whose proposals have distinct targets (so a policy  *)
(* for an exact target is named by its action), authorised by a skill      *)
(* grant, with risk external-side-effect, as every grant-authorised        *)
(* adapter of the repository proposes them.  World permissions, which      *)
(* gate the other kind of action, are not in this module.                  *)
(***************************************************************************)
EXTENDS Naturals

CONSTANTS
  Actions,        \* the skill actions the turn's prompt proposes
  ExactTarget,    \* those whose skill declares persistentApproval: exact-target
  Scheduled,      \* those the user asked for at a later time of day
  Payload,        \* those whose discard deletes a file (MCP arguments)
  Probed,         \* those whose preflight reads files (the world's packages)
  PreApproved,    \* those an approval policy may cover before the turn begins
  GrantMayChange, \* may the owner revoke and restore the skill grant meanwhile?
  MaxCrashes,     \* bound: process crashes in a behaviour
  MaxCalls,       \* bound: at which the count of external calls saturates
  NoAction        \* a handler that holds no action

ASSUME GateAssumption ==
  /\ ExactTarget \subseteq Actions
  /\ Scheduled \subseteq ExactTarget
  /\ Payload \subseteq Actions \ ExactTarget
  /\ Probed \subseteq Actions \ ExactTarget
  /\ PreApproved \subseteq ExactTarget
  /\ GrantMayChange \in BOOLEAN
  /\ MaxCrashes \in Nat
  /\ MaxCalls \in Nat \ {0, 1}
  /\ NoAction \notin Actions
  /\ Actions \cap {"direct", "tick", "recover"} = {}

VARIABLES
  \* durable rows (SQLite)
  action,    \* skill_actions: the row of each action
  request,   \* approval_requests: the status of the request for each action
  policies,  \* approval_policies not revoked, by the exact target they cover
  turn,      \* work_turns: the status of the turn
  granted,   \* the character is active and its revision grants the skill
  \* the clock
  due,       \* the scheduled time has come
  lapsed,    \* the time to live of the approval requests is over
  \* the memory of each handler, lost in a crash
  pc,        \* where it is
  cur,       \* the action it works on
  copy,      \* its copy of that action's row
  snap,      \* the rows it listed (tick) or holds for its result (direct)
  todo,      \* what is left of the list it iterates
  ready,     \* what is left of the ready actions it executes
  late,      \* was the scheduled time past when its `now` was read?
  ret,       \* where it goes on after the action it works on
  \* history
  calls,     \* external calls made for each action
  answer,    \* the statuses the final answer of the turn was composed from
  crashes

rows   == <<action, request, policies, turn, granted>>
clock  == <<due, lapsed>>
memory == <<cur, copy, snap, todo, ready, late, ret>>
hist   == <<calls, answer, crashes>>
vars   == <<rows, clock, pc, memory, hist>>

-----------------------------------------------------------------------------
(* Rows and handlers *)

Direct  == "direct"    \* the request that begins the turn
Tick    == "tick"      \* the 30 s timer; #ticking admits one at a time
Recover == "recover"   \* the recovery started with the server
\* The handler of the one decision an action's request can get is named by
\* the action.
Handlers == Actions \cup {Direct, Tick, Recover}

Statuses   == {"absent", "waiting-for-approval", "scheduled",
               "waiting-for-integration", "executed", "failed",
               "outcome-unknown", "rejected"}
ExecStates == {"none", "approved-ready", "executing", "settled"}
Rows       == [status: Statuses, exec: ExecStates, linked: BOOLEAN]

Places == {"idle", "prepare", "authorize", "authorized", "policy", "decided",
           "arm", "execute", "preflight", "calling", "discard", "expired", "due",
           "continue", "ready", "answer", "recover", "recovering"}

\* g is at rest or awaits host I/O.
Awaits(g) == \/ pc[g] \in {"idle", "calling", "answer"}
             \/ pc[g] = "preflight" /\ cur[g] \in Probed
             \/ pc[g] = "discard" /\ cur[g] \in Payload

\* h runs, or may go on: no other handler is between two awaits.
MayRun(h) == \A g \in Handlers \ {h} : Awaits(g)
Quiet     == \A g \in Handlers : Awaits(g)

Goto(h, place) == pc' = [pc EXCEPT ![h] = place]

\* A reusable policy matches only for a skill that allows one.
Matching(a) == a \in policies /\ a \in ExactTarget

-----------------------------------------------------------------------------
(* Mutated forms of operators below: what a plausible slip would make them *)

\* Reserved: the status of the row is one that the schema does not have.
MutReserved == [status |-> "reserved", exec |-> "none", linked |-> FALSE]
\* Approved: an action without a request needs no policy any more.
MutApproved(a, c) == c.linked => request[a] = "approved"
\* Claimable: the claim trusts the copy and does not compare the row.
MutClaimable(h) == copy[h].exec \in {"none", "approved-ready"}
\* Claimable: an armed row cannot be claimed.
MutClaimUnarmed(h) == copy[h].exec = "none" /\ action[cur[h]].exec = "none"
\* Expires: the update forgets status = 'pending'.
MutExpires(a) == lapsed /\ request[a] # "absent"
\* ReadyNow: scheduled actions are taken whatever their time.
MutReadyNow(rowsNow, isLate) == {a \in Actions : rowsNow[a].exec = "approved-ready"}
\* Undecided: every() written for some().
MutUndecided == \A a \in Actions : action[a].status = "waiting-for-approval"
\* Undecided: asks for a settled execution, which a refusal found by the timer
\* never has.
MutUnsettled == \E a \in Actions : action[a].exec # "settled"
\* MayResume: the status of the turn is not checked again.
MutMayResume == \A a \in Actions : action[a].exec # "executing"
\* Interrupted: the restart overlooks the attempts that had begun.
MutInterrupted(a) == action[a].status = "waiting-for-integration" /\ action[a].exec = "none"
\* Unsaved: every approved action, whatever became of it.
MutUnsavedAll(a) == action[a].linked /\ request[a] = "approved"
\* Unsaved: looks for rows that were armed already.
MutUnsaved(a) == /\ action[a].status = "waiting-for-approval"
                 /\ action[a].exec = "approved-ready"
                 /\ action[a].linked /\ request[a] = "approved"

-----------------------------------------------------------------------------
(* Returning from the work on one action *)

Absent   == [status |-> "absent", exec |-> "none", linked |-> FALSE]
Reserved == [status |-> "waiting-for-approval", exec |-> "none", linked |-> FALSE]

\* #isApproved, for the copy c of action a
Approved(a, c) == Matching(a) \/ (c.linked /\ request[a] = "approved")

\* h is done with its action, c is the object it goes on with.
Return(h, c) ==
  /\ Goto(h, ret[h])
  /\ cur' = [cur EXCEPT ![h] = NoAction]
  /\ copy' = [copy EXCEPT ![h] = Absent]
  /\ snap' = IF h = Direct THEN [snap EXCEPT ![h][cur[h]] = c] ELSE snap
  /\ UNCHANGED <<todo, ready, late, ret>>

\* saveSkillAction writes every mutable column of the copy, whatever the row
\* holds by now.
Save(h, c) == action' = [action EXCEPT ![cur[h]] = c]

SaveAndReturn(h, c) == Save(h, c) /\ Return(h, c)

-----------------------------------------------------------------------------
(* direct() and prepare() *)

\* reserve() makes the row durable before anything else happens.
Reserve(a) ==
  /\ pc[Direct] = "prepare"
  /\ MayRun(Direct)
  /\ a \in todo[Direct]
  /\ action' = [action EXCEPT ![a] = Reserved]
  /\ cur' = [cur EXCEPT ![Direct] = a]
  /\ copy' = [copy EXCEPT ![Direct] = Reserved]
  /\ todo' = [todo EXCEPT ![Direct] = @ \ {a}]
  /\ ret' = [ret EXCEPT ![Direct] = "prepare"]
  /\ Goto(Direct, "authorize")
  /\ UNCHANGED <<request, policies, turn, granted, clock, snap, ready, late, hist>>

\* #authorize with an exact-target policy in force
AuthorizeByPolicy ==
  /\ pc[Direct] = "authorize"
  /\ MayRun(Direct)
  /\ LET a == cur[Direct] IN
       /\ Matching(a)
       /\ copy' = [copy EXCEPT ![Direct].status =
                     IF a \in Scheduled THEN "scheduled" ELSE "waiting-for-integration"]
  /\ Goto(Direct, "authorized")
  /\ UNCHANGED <<rows, clock, cur, snap, todo, ready, late, ret, hist>>

\* #authorize otherwise: one pending request per action
RequestApproval ==
  /\ pc[Direct] = "authorize"
  /\ MayRun(Direct)
  /\ ~Matching(cur[Direct])
  /\ request' = [request EXCEPT ![cur[Direct]] = "pending"]
  /\ copy' = [copy EXCEPT ![Direct].linked = TRUE]
  /\ Goto(Direct, "authorized")
  /\ UNCHANGED <<action, policies, turn, granted, clock, cur, snap, todo, ready,
                 late, ret, hist>>

\* prepare() saves the authorised copy and goes on: nothing to do while it
\* waits, arm it for its time, or execute it at once.
SaveAuthorized ==
  /\ pc[Direct] = "authorized"
  /\ MayRun(Direct)
  /\ LET c == copy[Direct] IN
       \/ /\ c.status = "waiting-for-approval"
          /\ SaveAndReturn(Direct, c)
       \/ /\ c.status # "waiting-for-approval"
          /\ Save(Direct, c)
          /\ Goto(Direct, IF c.status = "scheduled" THEN "arm" ELSE "execute")
          /\ UNCHANGED memory
  /\ UNCHANGED <<request, policies, turn, granted, clock, hist>>

\* An action of the result still waits in the copy direct() holds: park the turn.
ParkTurn ==
  /\ pc[Direct] = "prepare"
  /\ MayRun(Direct)
  /\ todo[Direct] = {}
  /\ \E a \in Actions : snap[Direct][a].status = "waiting-for-approval"
  /\ turn = "running"
  /\ turn' = "waiting-approval"
  /\ Goto(Direct, "idle")
  /\ snap' = [snap EXCEPT ![Direct] = [a \in Actions |-> Absent]]
  /\ UNCHANGED <<action, request, policies, granted, clock, cur, copy, todo, ready,
                 late, ret, hist>>

\* Nothing waits: answer at once.
AnswerDirectly ==
  /\ pc[Direct] = "prepare"
  /\ MayRun(Direct)
  /\ todo[Direct] = {}
  /\ \A a \in Actions : snap[Direct][a].status # "waiting-for-approval"
  /\ answer' = [a \in Actions |-> snap[Direct][a].status]
  /\ snap' = [snap EXCEPT ![Direct] = [a \in Actions |-> Absent]]
  /\ Goto(Direct, "answer")
  /\ UNCHANGED <<rows, clock, cur, copy, todo, ready, late, ret, calls, crashes>>

-----------------------------------------------------------------------------
(* decideApproval(): the user's decision *)

\* The decision is made durable first; one that comes after the time to live
\* expires the request instead.
Decide(a, decision, persistent) ==
  /\ pc[a] = "idle"
  /\ Quiet
  /\ request[a] = "pending"
  /\ action[a].linked
  /\ decision = "approved" /\ persistent => a \in ExactTarget
  /\ LET outcome == IF lapsed THEN "expired" ELSE decision IN
       /\ request' = [request EXCEPT ![a] = outcome]
       /\ cur' = [cur EXCEPT ![a] = a]
       /\ ret' = [ret EXCEPT ![a] = "continue"]
       /\ late' = [late EXCEPT ![a] = due]
       /\ \/ /\ outcome # "approved"
             /\ copy' = [copy EXCEPT ![a] = [action[a] EXCEPT !.status = "rejected",
                                                              !.exec = "settled"]]
             /\ Goto(a, "discard")
          \/ /\ outcome = "approved"
             /\ copy' = [copy EXCEPT ![a] = action[a]]
             /\ Goto(a, IF persistent THEN "policy" ELSE "decided")
  /\ UNCHANGED <<action, policies, turn, granted, clock, snap, todo, ready, hist>>

\* An approval for more than once also becomes a policy.
GrantPolicy(a) ==
  /\ pc[a] = "policy"
  /\ MayRun(a)
  /\ policies' = policies \cup {a}
  /\ Goto(a, "decided")
  /\ UNCHANGED <<action, request, turn, granted, clock, memory, hist>>

\* The approved action is scheduled when its time is ahead, else on its way.
SaveDecision(a) ==
  /\ pc[a] = "decided"
  /\ MayRun(a)
  /\ LET c == [copy[a] EXCEPT !.status =
                 IF a \in Scheduled /\ ~late[a] THEN "scheduled"
                 ELSE "waiting-for-integration"] IN
       /\ Save(a, c)
       /\ copy' = [copy EXCEPT ![a] = c]
  /\ Goto(a, "arm")
  /\ UNCHANGED <<request, policies, turn, granted, clock, cur, snap, todo, ready,
                 late, ret, hist>>

-----------------------------------------------------------------------------
(* prepareSkillActionExecution and #execute, in whatever handler *)

\* The row becomes approved-ready unless an attempt began; the copy is the row.
Arm(h) ==
  /\ pc[h] = "arm"
  /\ MayRun(h)
  /\ action[cur[h]].exec \in {"none", "approved-ready"}
  /\ LET c == [action[cur[h]] EXCEPT !.exec = "approved-ready"] IN
       \/ /\ c.status = "scheduled"
          /\ SaveAndReturn(h, c)
       \/ /\ c.status # "scheduled"
          /\ Save(h, c)
          /\ copy' = [copy EXCEPT ![h] = c]
          /\ Goto(h, "execute")
          /\ UNCHANGED <<cur, snap, todo, ready, late, ret>>
  /\ UNCHANGED <<request, policies, turn, granted, clock, hist>>

\* The character is gone or its grant was revoked: nothing is executed.
RefuseUngranted(h) ==
  /\ pc[h] = "execute"
  /\ MayRun(h)
  /\ ~granted
  /\ copy' = [copy EXCEPT ![h].status = "failed"]
  /\ Goto(h, "discard")
  /\ UNCHANGED <<rows, clock, cur, snap, todo, ready, late, ret, hist>>

\* Neither the request nor a policy approves it any more.
RefuseUnapproved(h) ==
  /\ pc[h] = "execute"
  /\ MayRun(h)
  /\ granted
  /\ ~Approved(cur[h], copy[h])
  /\ SaveAndReturn(h, [copy[h] EXCEPT !.status = "waiting-for-approval"])
  /\ UNCHANGED <<request, policies, turn, granted, clock, hist>>

\* The registry has no adapter for the skill (an MCP catalogue not yet read).
RefuseNoAdapter(h) ==
  /\ pc[h] = "execute"
  /\ MayRun(h)
  /\ granted
  /\ Approved(cur[h], copy[h])
  /\ SaveAndReturn(h, [copy[h] EXCEPT !.status = "failed", !.exec = "settled"])
  /\ UNCHANGED <<request, policies, turn, granted, clock, hist>>

\* The checks hold: save the copy when its status changes, await the preflight.
StartPreflight(h) ==
  /\ pc[h] = "execute"
  /\ MayRun(h)
  /\ granted
  /\ Approved(cur[h], copy[h])
  /\ LET c == [copy[h] EXCEPT !.status = "waiting-for-integration"] IN
       /\ action' = IF copy[h].status = "waiting-for-integration" THEN action
                    ELSE [action EXCEPT ![cur[h]] = c]
       /\ copy' = [copy EXCEPT ![h] = c]
  /\ Goto(h, "preflight")
  /\ UNCHANGED <<request, policies, turn, granted, clock, cur, snap, todo, ready,
                 late, ret, hist>>

\* The integration is not available: settled without an external request.
PreflightRefuses(h) ==
  /\ pc[h] = "preflight"
  /\ MayRun(h)
  /\ SaveAndReturn(h, [copy[h] EXCEPT !.status = "waiting-for-integration",
                                      !.exec = "settled"])
  /\ UNCHANGED <<request, policies, turn, granted, clock, hist>>

\* What claimSkillActionExecution finds, after the row was armed when the copy
\* had not been.
Claimable(h) ==
  \/ copy[h].exec = "none" /\ action[cur[h]].exec \in {"none", "approved-ready"}
  \/ copy[h].exec = "approved-ready" /\ action[cur[h]].exec = "approved-ready"

\* The compare-and-set from approved-ready to executing succeeds: the request
\* leaves the process.
ClaimAndCall(h) ==
  /\ pc[h] = "preflight"
  /\ MayRun(h)
  /\ Claimable(h)
  /\ LET a == cur[h]
         c == [action[a] EXCEPT !.exec = "executing",
                                !.status = "waiting-for-integration"] IN
       /\ Save(h, c)
       /\ copy' = [copy EXCEPT ![h] = c]
       /\ calls' = [calls EXCEPT ![a] = IF @ < MaxCalls THEN @ + 1 ELSE @]
  /\ Goto(h, "calling")
  /\ UNCHANGED <<request, policies, turn, granted, clock, cur, snap, todo, ready,
                 late, ret, answer, crashes>>

\* The compare-and-set fails: another executor owns the attempt, save nothing.
LoseClaim(h) ==
  /\ pc[h] = "preflight"
  /\ MayRun(h)
  /\ copy[h].exec # "none"
  /\ ~Claimable(h)
  /\ Return(h, copy[h])
  /\ UNCHANGED <<rows, clock, hist>>

\* The adapter answers (an exception is outcome-unknown): settled.
Settle(h, result) ==
  /\ pc[h] = "calling"
  /\ MayRun(h)
  /\ SaveAndReturn(h, [copy[h] EXCEPT !.status = result, !.exec = "settled"])
  /\ UNCHANGED <<request, policies, turn, granted, clock, hist>>

\* The payload is gone: save the copy that was refused, rejected or expired.
Discarded(h) ==
  /\ pc[h] = "discard"
  /\ MayRun(h)
  /\ SaveAndReturn(h, copy[h])
  /\ UNCHANGED <<request, policies, turn, granted, clock, hist>>

-----------------------------------------------------------------------------
(* tick(): expiry and scheduled actions *)

\* expirePendingApprovals
Expires(a) == lapsed /\ request[a] = "pending"

\* Expire what is past its time to live and list what waits.
TickStart ==
  /\ pc[Tick] = "idle"
  /\ Quiet
  /\ request' = [a \in Actions |-> IF Expires(a) THEN "expired" ELSE request[a]]
  /\ todo' = [todo EXCEPT ![Tick] = {a \in Actions : action[a].status = "waiting-for-approval"}]
  /\ snap' = [snap EXCEPT ![Tick] = action]
  /\ late' = [late EXCEPT ![Tick] = due]
  /\ Goto(Tick, "expired")
  /\ UNCHANGED <<action, policies, turn, granted, clock, cur, copy, ready, ret, hist>>

\* An action of the list whose request expired is rejected, then its turn may
\* go on; the others are passed over.
ExpireNext(a) ==
  /\ pc[Tick] = "expired"
  /\ MayRun(Tick)
  /\ a \in todo[Tick]
  /\ todo' = [todo EXCEPT ![Tick] = @ \ {a}]
  /\ \/ /\ snap[Tick][a].linked /\ request[a] = "expired"
        /\ cur' = [cur EXCEPT ![Tick] = a]
        /\ copy' = [copy EXCEPT ![Tick] = [snap[Tick][a] EXCEPT !.status = "rejected"]]
        /\ ret' = [ret EXCEPT ![Tick] = "continue"]
        /\ Goto(Tick, "discard")
     \/ /\ ~(snap[Tick][a].linked /\ request[a] = "expired")
        /\ UNCHANGED <<pc, cur, copy, ret>>
  /\ UNCHANGED <<rows, clock, snap, ready, late, hist>>

\* The list is done: list the scheduled actions whose time had come.
ListDue ==
  /\ pc[Tick] = "expired"
  /\ MayRun(Tick)
  /\ todo[Tick] = {}
  /\ todo' = [todo EXCEPT ![Tick] =
                {a \in Actions : late[Tick] /\ action[a].status = "scheduled"}]
  /\ snap' = [snap EXCEPT ![Tick] = action]
  /\ Goto(Tick, "due")
  /\ UNCHANGED <<rows, clock, cur, copy, ready, late, ret, hist>>

\* Execute the row as it was listed.
ExecuteDue(a) ==
  /\ pc[Tick] = "due"
  /\ MayRun(Tick)
  /\ a \in todo[Tick]
  /\ todo' = [todo EXCEPT ![Tick] = @ \ {a}]
  /\ cur' = [cur EXCEPT ![Tick] = a]
  /\ copy' = [copy EXCEPT ![Tick] = snap[Tick][a]]
  /\ ret' = [ret EXCEPT ![Tick] = "due"]
  /\ Goto(Tick, "execute")
  /\ UNCHANGED <<rows, clock, snap, ready, late, hist>>

TickEnd ==
  /\ pc[Tick] = "due"
  /\ MayRun(Tick)
  /\ todo[Tick] = {}
  /\ snap' = [snap EXCEPT ![Tick] = [a \in Actions |-> Absent]]
  /\ late' = [late EXCEPT ![Tick] = FALSE]
  /\ Goto(Tick, "idle")
  /\ UNCHANGED <<rows, clock, cur, copy, todo, ready, ret, hist>>

-----------------------------------------------------------------------------
(* continueIfReady(): the turn goes on once every action is decided *)

\* tick() goes on with its list, the other handlers are done.
Back(h) == IF h = Tick THEN "expired" ELSE "idle"

Leave(h) ==
  /\ Goto(h, Back(h))
  /\ late' = IF h = Tick THEN late ELSE [late EXCEPT ![h] = FALSE]

\* The ready actions of a set of rows whose time is not ahead
ReadyNow(rowsNow, isLate) ==
  {a \in Actions : rowsNow[a].exec = "approved-ready" /\ (a \in Scheduled => isLate)}

Undecided == \E a \in Actions : action[a].status = "waiting-for-approval"
NoActions == \A a \in Actions : action[a].status = "absent"

\* Not waiting, or not everything is decided: nothing happens.
NotReady(h) ==
  /\ pc[h] = "continue"
  /\ MayRun(h)
  /\ turn # "waiting-approval" \/ NoActions \/ Undecided
  /\ Leave(h)
  /\ UNCHANGED <<rows, clock, cur, copy, snap, todo, ready, ret, hist>>

\* Everything is decided: the approved actions not yet executed come first.
CollectReady(h) ==
  /\ pc[h] = "continue"
  /\ MayRun(h)
  /\ turn = "waiting-approval" /\ ~NoActions /\ ~Undecided
  /\ ready' = [ready EXCEPT ![h] = ReadyNow(action, IF h = Tick THEN due ELSE late[h])]
  /\ Goto(h, "ready")
  /\ UNCHANGED <<rows, clock, cur, copy, snap, todo, late, ret, hist>>

\* executeReadyAction loads the row afresh.
ExecuteReady(h, a) ==
  /\ pc[h] \in {"ready", "recovering"}
  /\ MayRun(h)
  /\ a \in ready[h]
  /\ ready' = [ready EXCEPT ![h] = @ \ {a}]
  /\ cur' = [cur EXCEPT ![h] = a]
  /\ copy' = [copy EXCEPT ![h] = action[a]]
  /\ ret' = [ret EXCEPT ![h] = pc[h]]
  /\ Goto(h, "execute")
  /\ UNCHANGED <<rows, clock, snap, todo, late, hist>>

Executing == \E a \in Actions : action[a].exec = "executing"
MayResume == turn = "waiting-approval" /\ ~Executing

\* Another executor is inside the boundary, or the turn was resumed already.
NotResumed(h) ==
  /\ pc[h] = "ready"
  /\ MayRun(h)
  /\ ready[h] = {}
  /\ ~MayResume
  /\ Leave(h)
  /\ UNCHANGED <<rows, clock, cur, copy, snap, todo, ready, ret, hist>>

\* resumeWorkTurnAfterApproval: the same turn runs again and is answered from
\* the statuses just read.
Resume(h) ==
  /\ pc[h] = "ready"
  /\ MayRun(h)
  /\ ready[h] = {}
  /\ MayResume
  /\ turn' = "running"
  /\ answer' = [a \in Actions |-> action[a].status]
  /\ Goto(h, "answer")
  /\ UNCHANGED <<action, request, policies, granted, clock, memory, calls, crashes>>

\* The model turn ends; continueDirect or the caller's catch settles the turn.
Answered(h, result) ==
  /\ pc[h] = "answer"
  /\ MayRun(h)
  /\ turn = "running"
  /\ turn' = result
  /\ Leave(h)
  /\ UNCHANGED <<action, request, policies, granted, clock, cur, copy, snap, todo,
                 ready, ret, hist>>

\* The exception of a failed model turn also ends the tick that resumed it.
TickAborted ==
  /\ pc[Tick] = "answer"
  /\ MayRun(Tick)
  /\ turn = "running"
  /\ turn' = "failed"
  /\ todo' = [todo EXCEPT ![Tick] = {}]
  /\ snap' = [snap EXCEPT ![Tick] = [a \in Actions |-> Absent]]
  /\ late' = [late EXCEPT ![Tick] = FALSE]
  /\ Goto(Tick, "idle")
  /\ UNCHANGED <<action, request, policies, granted, clock, cur, copy, ready, ret,
                 hist>>

-----------------------------------------------------------------------------
(* Crash, restart and recovery *)

\* What recoverSkillActionsAfterRestart gives up: an attempt begun, or maybe.
Interrupted(a) == /\ action[a].status = "waiting-for-integration"
                  /\ action[a].exec \in {"executing", "none"}

\* The process dies and starts again.  Before it listens it fails the turn
\* that ran, and gives up on attempts that had begun or might have.
CrashRestart ==
  /\ crashes < MaxCrashes
  /\ crashes' = crashes + 1
  /\ turn' = IF turn = "running" THEN "failed" ELSE turn
  /\ action' = [a \in Actions |->
                  IF Interrupted(a)
                  THEN [action[a] EXCEPT !.status = "outcome-unknown", !.exec = "settled"]
                  ELSE action[a]]
  /\ pc' = [h \in Handlers |-> IF h = Recover THEN "recover" ELSE "idle"]
  /\ cur' = [h \in Handlers |-> NoAction]
  /\ copy' = [h \in Handlers |-> Absent]
  /\ snap' = [h \in Handlers |-> [a \in Actions |-> Absent]]
  /\ todo' = [h \in Handlers |-> {}]
  /\ ready' = [h \in Handlers |-> {}]
  /\ late' = [h \in Handlers |-> h = Recover /\ due]
  /\ ret' = [h \in Handlers |-> "idle"]
  /\ UNCHANGED <<request, policies, granted, clock, calls, answer>>

\* What reconcileApprovedSkillActions finds: approved, but the crash came first.
Unsaved(a) == /\ action[a].status = "waiting-for-approval"
              /\ action[a].exec = "none"
              /\ action[a].linked /\ request[a] = "approved"

\* recoverApprovedActions: an approval whose action was not saved is applied,
\* then the ready actions are listed.
Reconcile ==
  /\ pc[Recover] = "recover"
  /\ MayRun(Recover)
  /\ action' = [a \in Actions |->
                  IF Unsaved(a)
                  THEN [action[a] EXCEPT !.status = "waiting-for-integration",
                                         !.exec = "approved-ready"]
                  ELSE action[a]]
  /\ ready' = [ready EXCEPT ![Recover] = ReadyNow(action', late[Recover])]
  /\ Goto(Recover, "recovering")
  /\ UNCHANGED <<request, policies, turn, granted, clock, cur, copy, snap, todo, late,
                 ret, hist>>

\* The ready actions are executed: see to the turn that waits.
RecoverTurn ==
  /\ pc[Recover] = "recovering"
  /\ MayRun(Recover)
  /\ ready[Recover] = {}
  /\ Goto(Recover, "continue")
  /\ UNCHANGED <<rows, clock, memory, hist>>

-----------------------------------------------------------------------------
(* The owner and the clock *)

ChangeGrant ==
  /\ GrantMayChange
  /\ Quiet
  /\ granted' = ~granted
  /\ UNCHANGED <<action, request, policies, turn, clock, pc, memory, hist>>

RevokePolicy(a) ==
  /\ Quiet
  /\ a \in policies
  /\ policies' = policies \ {a}
  /\ UNCHANGED <<action, request, turn, granted, clock, pc, memory, hist>>

BecomeDue ==
  /\ Quiet
  /\ ~due /\ Scheduled # {}
  /\ due' = TRUE
  /\ UNCHANGED <<rows, lapsed, pc, memory, hist>>

Lapse ==
  /\ Quiet
  /\ ~lapsed
  /\ lapsed' = TRUE
  /\ UNCHANGED <<rows, due, pc, memory, hist>>

-----------------------------------------------------------------------------
(* The specification *)

\* beginDirect has just started the turn.
Init ==
  /\ action = [a \in Actions |-> Absent]
  /\ request = [a \in Actions |-> "absent"]
  /\ policies \in SUBSET PreApproved
  /\ turn = "running"
  /\ granted = TRUE
  /\ due = FALSE
  /\ lapsed = FALSE
  /\ pc = [h \in Handlers |-> IF h = Direct THEN "prepare" ELSE "idle"]
  /\ cur = [h \in Handlers |-> NoAction]
  /\ copy = [h \in Handlers |-> Absent]
  /\ snap = [h \in Handlers |-> [a \in Actions |-> Absent]]
  /\ todo = [h \in Handlers |-> IF h = Direct THEN Actions ELSE {}]
  /\ ready = [h \in Handlers |-> {}]
  /\ late = [h \in Handlers |-> FALSE]
  /\ ret = [h \in Handlers |-> "idle"]
  /\ calls = [a \in Actions |-> 0]
  /\ answer = [a \in Actions |-> "absent"]
  /\ crashes = 0

PrepareStep ==
  \/ \E a \in Actions : Reserve(a)
  \/ AuthorizeByPolicy
  \/ RequestApproval
  \/ SaveAuthorized
  \/ ParkTurn
  \/ AnswerDirectly

DecisionStep(a) == GrantPolicy(a) \/ SaveDecision(a)

TickStep ==
  \/ TickStart
  \/ \E a \in Actions : ExpireNext(a)
  \/ ListDue
  \/ \E a \in Actions : ExecuteDue(a)
  \/ TickAborted
  \/ TickEnd

ExecuteStep(h) ==
  \/ Arm(h)
  \/ RefuseUngranted(h)
  \/ RefuseUnapproved(h)
  \/ RefuseNoAdapter(h)
  \/ StartPreflight(h)
  \/ PreflightRefuses(h)
  \/ ClaimAndCall(h)
  \/ LoseClaim(h)
  \/ \E r \in {"executed", "failed", "outcome-unknown", "waiting-for-integration"} :
       Settle(h, r)
  \/ Discarded(h)

ContinueStep(h) ==
  \/ NotReady(h)
  \/ CollectReady(h)
  \/ \E a \in Actions : ExecuteReady(h, a)
  \/ NotResumed(h)
  \/ Resume(h)
  \/ \E r \in {"completed", "failed"} : Answered(h, r)

RecoverStep == Reconcile \/ RecoverTurn

UserStep ==
  \/ \E a \in Actions, d \in {"approved", "rejected"}, p \in BOOLEAN : Decide(a, d, p)
  \/ ChangeGrant
  \/ \E a \in Actions : RevokePolicy(a)

Next ==
  \/ PrepareStep
  \/ \E a \in Actions : DecisionStep(a)
  \/ TickStep
  \/ \E h \in Handlers : ExecuteStep(h) \/ ContinueStep(h)
  \/ RecoverStep
  \/ UserStep
  \/ BecomeDue
  \/ Lapse
  \/ CrashRestart

\* The program of one handler
HandlerStep(h) ==
  \/ h = Direct /\ PrepareStep
  \/ h \in Actions /\ DecisionStep(h)
  \/ h = Tick /\ TickStep
  \/ h = Recover /\ RecoverStep
  \/ ExecuteStep(h)
  \/ ContinueStep(h)

\* Node runs every task it has, every awaited operation ends (adapters and
\* model turns have time-outs), the timer fires and time passes.  Fairness is
\* strong because whoever is on the processor disables all the others; the
\* timer's 30 s leave each of them its turn.  The owner need not do anything.
Fairness ==
  /\ \A h \in Handlers : SF_vars(HandlerStep(h))
  /\ SF_vars(BecomeDue)
  /\ SF_vars(Lapse)

Spec     == Init /\ [][Next]_vars
FairSpec == Spec /\ Fairness

-----------------------------------------------------------------------------
(* Properties *)

\* Every variable has its type.
TypeOK ==
  /\ action \in [Actions -> Rows]
  /\ request \in [Actions -> {"absent", "pending", "approved", "rejected", "expired"}]
  /\ policies \subseteq Actions
  /\ turn \in {"running", "waiting-approval", "completed", "failed"}
  /\ granted \in BOOLEAN /\ due \in BOOLEAN /\ lapsed \in BOOLEAN
  /\ pc \in [Handlers -> Places]
  /\ cur \in [Handlers -> Actions \cup {NoAction}]
  /\ copy \in [Handlers -> Rows]
  /\ snap \in [Handlers -> [Actions -> Rows]]
  /\ todo \in [Handlers -> SUBSET Actions]
  /\ ready \in [Handlers -> SUBSET Actions]
  /\ late \in [Handlers -> BOOLEAN]
  /\ ret \in [Handlers -> Places]
  /\ calls \in [Actions -> 0 .. MaxCalls]
  /\ answer \in [Actions -> Statuses]
  /\ crashes \in 0 .. MaxCrashes

\* No action crosses the external boundary twice, whatever handlers, decisions
\* and restarts meet on it: the claim gives one executor the attempt.
AtMostOnce == \A a \in Actions : calls[a] <= 1

\* What the user rejected or let expire never leaves the process.
RefusedNeverCalled ==
  \A a \in Actions : request[a] \in {"rejected", "expired"} => calls[a] = 0

\* An action asked for at a later time is not executed before that time.
NeverEarly == \A a \in Scheduled : calls[a] > 0 => due

\* Every external call ends in a durable verdict: once no executor is inside
\* the boundary any more, not even one that a crash removed, the row is settled.
CallsRecorded ==
  \A a \in Actions :
    calls[a] > 0 /\ (\A h \in Handlers : ~(pc[h] = "calling" /\ cur[h] = a)) =>
      action[a].exec = "settled"

\* The life of an action as ExternalCall sees it.  A refusal found by the timer
\* is not marked settled, and may be saved over one that is: rejected is enough.
Concluded(r) == r.exec = "settled" \/ r.status = "rejected"
Phase(a) == IF calls[a] = 0
            THEN IF Concluded(action[a]) THEN "closed" ELSE "open"
            ELSE IF Concluded(action[a]) THEN "recorded" ELSE "called"

Boundary == INSTANCE ExternalCall WITH phase <- [a \in Actions |-> Phase(a)]

\* Each action is called at most once and only while nothing was concluded
\* about it, its verdict becomes durable, and nothing reopens it: no stale copy
\* that some handler saves takes an action back to before its call or verdict.
OneCallOneVerdict == Boundary!Spec

\* "Not approved, rejected, expired, or its grant revoked: it does not enter
\* the adapter", at the moment of the call, not of an earlier check.
AuthorizedWhenCalled ==
  [][\A a \in Actions :
       calls'[a] # calls[a] => granted /\ (Matching(a) \/ request[a] = "approved")]_calls

\* The turn is answered once: decisions, expiry and recovery may race to
\* resume it, one of them does.
AnsweredOnce ==
  [][(\E a \in Actions : answer[a] # "absent") => answer' = answer]_answer

\* The answer stands: an action it reports as ended, or not executed, is not
\* sent out afterwards.  Only a scheduled one may still be.
AnswerStands ==
  [][\A a \in Actions :
       calls'[a] # calls[a] => answer[a] \in {"absent", "scheduled"}]_calls

\* While an attempt is inside the boundary nobody but its executor (or a
\* restart) writes the row: "The caller must not persist its stale copy over
\* that attempt or its result."
AttemptOwned ==
  [][\A a \in Actions :
       /\ action[a].exec = "executing"
       /\ action'[a] # action[a]
       /\ crashes' = crashes
       => \E h \in Handlers : /\ pc[h] = "calling" /\ cur[h] = a
                              /\ pc'[h] # "calling"]_action

\* A turn is never parked without somebody to resume it: some action of it
\* still has a request that can be decided or will be found expired.  A crash
\* may leave one so parked; GateLostWakeup shows how.
NotStranded ==
  (crashes = 0 /\ turn = "waiting-approval" /\ \A h \in Handlers : pc[h] = "idle") =>
    \E a \in Actions : /\ action[a].status = "waiting-for-approval"
                       /\ action[a].linked
                       /\ request[a] \in {"pending", "expired"}

\* Approved, rejected or expired: the turn that waits is continued, unless the
\* process dies.
TurnContinues ==
  turn = "waiting-approval" ~> turn \in {"completed", "failed"} \/ crashes > 0

\* An approved action ends with a durable result, across restarts too.
ApprovedEnds ==
  \A a \in Actions : request[a] = "approved" ~> action[a].exec = "settled"
=============================================================================
