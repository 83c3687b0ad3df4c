-------------------------- MODULE WorldPermission --------------------------
(***************************************************************************)
(* World permissions at work: one turn of one character proposes actions   *)
(* that manage its world; an action whose permission the character lacks   *)
(* waits for the owner, who allows it once, grants the permission for good *)
(* or refuses, while the owner also promotes, demotes and archives, and    *)
(* the process dies and recovers                                           *)
(*                                                                         *)
(*   world-permission-request-service.ts   ensure, check, decide,          *)
(*                                         consumeOnce, expire, recovery   *)
(*   character-skill-runtime.ts            #execute, #checkWorldPermission,*)
(*                                         decideWorldPermission, recovery *)
(*   turn-aware-approval-continuation-     direct, continueIfReady,        *)
(*   service.ts                            recover                         *)
(*   world-management-adapter.ts           what the actions do             *)
(*                                                                         *)
(* As in ApprovalGate, handlers interleave only where one awaits host I/O: *)
(* an adapter that writes files, and the model turn of the answer.  The    *)
(* adapter call that changes an authority row awaits nothing.  A crash may *)
(* fall between any two durable writes.  These actions need no approval    *)
(* besides, their preflight and discard await nothing, and a handler's     *)
(* copy of a row is never older than the row (the claim returns it afresh),*)
(* so the rows stand for the copies.                                       *)
(***************************************************************************)
EXTENDS WorldAuthority

CONSTANTS
  Actor,       \* the character whose turn it is
  Actions,     \* the actions its prompt proposes
  Needs,       \* the permission each one requires
  Promotes,    \* the character an action makes an administrator, or Nobody
  Offers,      \* bound: the sets of permissions the owner assigns
  MaxDecisions,  \* bound: decisions of the owner about authority
  MaxDeaths      \* bound: process crashes in a behaviour

ASSUME PermissionAssumption ==
  /\ Actor \in Chars
  /\ Actions \cap {"direct", "recover"} = {}
  /\ Needs \in [Actions -> Permissions]
  /\ Promotes \in [Actions -> Chars \cup {Nobody}]
  /\ Offers \subseteq SUBSET Permissions
  /\ MaxDecisions \in Nat /\ MaxDeaths \in Nat

VARIABLES
  request,  \* world_permission_requests: the one of each action
  late,     \* the requests whose time to live is over
  action,   \* skill_actions: the row of each action
  turn,     \* work_turns: the status of the turn
  hand,     \* the memory of each handler, lost in a crash
  calls,    \* history: adapter calls made for each action
  changes, deaths

permissionVars == <<request, late, action, turn, hand, calls, changes, deaths>>
permitVars == <<authorityVars, permissionVars>>

\* The handler of the decision about an action's request is named by the action.
HandlerIds == Actions \cup {"direct", "recover"}

\* once: approved for this action, and not consumed yet; spent: consumed
Requests == {"none", "pending", "once", "spent", "persistent", "rejected", "expired"}
Results  == {"executed", "failed", "outcome-unknown"}
RowStatuses == {"absent", "waiting-for-approval", "waiting-for-integration", "rejected"} \cup Results
Execs    == {"none", "approved-ready", "executing", "settled"}
Rows     == [status : RowStatuses, exec : Execs]

Places == {"idle", "prepare", "execute", "asked", "calling", "called", "consumed",
           "granted", "allowed", "refused", "saved", "continue", "ready", "answering",
           "requests", "settle", "recovering"}
\* at: where it is; on: the action it works on; todo: what is left of the list it
\* goes through; back: where it goes after the action; home: after the turn;
\* got: what the adapter returned; heard: direct's actions left waiting; rest: the
\* actions the recovery read as waiting and has not looked at again
Hands == [at : Places, on : Actions \cup {Nobody}, todo : SUBSET Actions,
          back : Places, home : Places, got : Results \cup {"none"}, heard : SUBSET Actions,
          rest : SUBSET Actions]

IdleHand == [at |-> "idle", on |-> Nobody, todo |-> {}, back |-> "idle", home |-> "idle",
         got |-> "none", heard |-> {}, rest |-> {}]

PermissionTypes ==
  /\ AuthorityTypes
  /\ request \in [Actions -> Requests]
  /\ late \subseteq Actions
  /\ action \in [Actions -> Rows]
  /\ turn \in {"none", "running", "waiting", "over"}
  /\ hand \in [HandlerIds -> Hands]
  /\ calls \in [Actions -> 0 .. 2]
  /\ changes \in 0 .. MaxDecisions
  /\ deaths \in 0 .. MaxDeaths

\* The first character was recruited as the administrator.
First == CHOOSE c \in Chars : \A d \in Chars : c <= d

PermissionInit ==
  /\ staff = [c \in Chars |-> IF c <= Actor THEN "active" ELSE "absent"]
  /\ authority = [c \in Chars |-> IF c = First THEN NewAdmin ELSE NewMember]
  /\ decided = {}
  /\ adminPointer = First
  /\ request = [a \in Actions |-> "none"]
  /\ late = {}
  /\ action = [a \in Actions |-> [status |-> "absent", exec |-> "none"]]
  /\ turn = "none"
  /\ hand = [h \in HandlerIds |-> IdleHand]
  /\ calls = [a \in Actions |-> 0]
  /\ changes = 0 /\ deaths = 0

HandAt(h, place) == hand[h].at = place

\* h is at rest or awaits host I/O.
Awaits(h) == \/ hand[h].at \in {"idle", "answering"}
             \/ HandAt(h, "calling") /\ Promotes[hand[h].on] = Nobody

MayRun(h) == \A g \in HandlerIds \ {h} : Awaits(g)
Quiet     == \A g \in HandlerIds : Awaits(g)

\* Each lookup expires a pending request whose time is over.
Lapsed(a) == request[a] = "expired" \/ (request[a] = "pending" /\ a \in late)

-----------------------------------------------------------------------------
(* Mutated forms of operators below *)

\* Kept: the request is settled without asking whether the row took the grant.
MutKept(a) == TRUE
\* Unknown: the restart arms an interrupted attempt again.
MutUnknown == [status |-> "waiting-for-integration", exec |-> "approved-ready"]

-----------------------------------------------------------------------------
(* Requests *)

Expired(S) == [a \in Actions |-> IF a \in S /\ Lapsed(a) THEN "expired" ELSE request[a]]

\* check(): what holds for good counts first, and then no request is looked at.
Verdict(a) ==
  IF Holds(Actor, Needs[a]) \/ request[a] = "once" THEN "granted"
  ELSE IF request[a] \in {"rejected", "persistent"} THEN "rejected"
  ELSE IF Lapsed(a) THEN "expired" ELSE "pending"

LooksUp(a) == IF Holds(Actor, Needs[a]) THEN request ELSE Expired({a})

\* What a handler does next
Go(h, place) == hand' = [hand EXCEPT ![h].at = place]
Leave(h)     == hand' = [hand EXCEPT ![h].at = hand[h].back, ![h].on = Nobody, ![h].got = "none"]
Home(h)      == hand' = [hand EXCEPT ![h].at = hand[h].home, ![h].on = Nobody, ![h].todo = {}]
Take(h, a, place, back) ==
  hand' = [hand EXCEPT ![h].at = place, ![h].on = a, ![h].todo = @ \ {a}, ![h].back = back]

Set(a, status, exec) == action' = [action EXCEPT ![a] = [status |-> status, exec |-> exec]]

-----------------------------------------------------------------------------
(* direct() and prepare() *)

BeginTurn ==
  /\ turn = "none" /\ staff[Actor] = "active" /\ Quiet
  /\ turn' = "running"
  /\ hand' = [hand EXCEPT !["direct"] = [IdleHand EXCEPT !.at = "prepare", !.todo = Actions]]
  /\ UNCHANGED <<authorityVars, request, late, action, calls, changes, deaths>>

\* reserve(): the row of the next proposal
Reserve(a) ==
  /\ HandAt("direct", "prepare") /\ MayRun("direct")
  /\ a \in hand["direct"].todo
  /\ Set(a, "waiting-for-integration", "none")
  /\ Take("direct", a, "execute", "prepare")
  /\ UNCHANGED <<authorityVars, request, late, turn, calls, changes, deaths>>

\* The turn waits if an action did when prepare() left it, and is answered otherwise.
Prepared ==
  /\ HandAt("direct", "prepare") /\ MayRun("direct")
  /\ hand["direct"].todo = {}
  /\ IF hand["direct"].heard # {}
     THEN turn' = "waiting" /\ hand' = [hand EXCEPT !["direct"] = IdleHand]
     ELSE UNCHANGED turn /\ Go("direct", "answering")
  /\ UNCHANGED <<authorityVars, request, late, action, calls, changes, deaths>>

-----------------------------------------------------------------------------
(* #execute *)

Executing(h) == HandAt(h, "execute") /\ MayRun(h)

\* The character is gone, or the permission was refused: the row says so, and
\* its execution state stays as it was.
Refuse(h) ==
  LET a == hand[h].on IN
  /\ Executing(h)
  /\ IF staff[Actor] # "active" THEN Set(a, "failed", action[a].exec) /\ UNCHANGED request
     ELSE /\ Verdict(a) \in {"rejected", "expired"}
          /\ Set(a, "rejected", action[a].exec)
          /\ request' = LooksUp(a)
  /\ Leave(h)
  /\ UNCHANGED <<authorityVars, late, turn, calls, changes, deaths>>

\* The permission is missing: a request for it becomes durable, ...
Ask(h) ==
  LET a == hand[h].on IN
  /\ Executing(h) /\ staff[Actor] = "active"
  /\ Verdict(a) = "pending"
  /\ request' = [request EXCEPT ![a] = IF @ = "none" THEN "pending" ELSE @]
  /\ Go(h, "asked")
  /\ UNCHANGED <<authorityVars, late, action, turn, calls, changes, deaths>>

\* ... then the action waits.
Wait(h) ==
  LET a == hand[h].on IN
  /\ HandAt(h, "asked") /\ MayRun(h)
  /\ Set(a, "waiting-for-approval", action[a].exec)
  /\ hand' = [hand EXCEPT ![h].at = hand[h].back, ![h].on = Nobody,
                          ![h].heard = IF h = "direct" THEN @ \cup {a} ELSE @]
  /\ UNCHANGED <<authorityVars, request, late, turn, calls, changes, deaths>>

Granted(h) == Executing(h) /\ staff[Actor] = "active" /\ Verdict(hand[h].on) = "granted"

\* prepareSkillActionExecution
Arm(h) ==
  LET a == hand[h].on IN
  /\ Granted(h)
  /\ action[a].exec = "none"
  /\ Set(a, action[a].status, "approved-ready")
  /\ UNCHANGED <<authorityVars, request, late, turn, hand, calls, changes, deaths>>

\* claimSkillActionExecution and the call; an attempt another handler owns, or has
\* finished, is left to it.
Claim(h) ==
  LET a == hand[h].on IN
  /\ Granted(h)
  /\ action[a].exec # "none"
  /\ IF action[a].exec = "approved-ready"
     THEN /\ Set(a, "waiting-for-integration", "executing")
          /\ calls' = [calls EXCEPT ![a] = IF @ = 2 THEN 2 ELSE @ + 1]
          /\ Go(h, "calling")
     ELSE UNCHANGED <<action, calls>> /\ Leave(h)
  /\ UNCHANGED <<authorityVars, request, late, turn, changes, deaths>>

\* The adapter has done what the action asks (write a file, say), or fails, or
\* throws.
Called(h, result) ==
  /\ HandAt(h, "calling") /\ MayRun(h)
  /\ Promotes[hand[h].on] = Nobody
  /\ hand' = [hand EXCEPT ![h].at = "called", ![h].got = result]
  /\ UNCHANGED <<authorityVars, request, late, action, turn, calls, changes, deaths>>

\* managementActor: the owner for an action allowed once, the character otherwise
Granter(a) == IF request[a] = "once" THEN Nobody ELSE Actor

\* #updateAuthority of the adapter
Promote(h) ==
  LET a == hand[h].on
      c == Promotes[a]
      may == MayUpdate(Granter(a), c, "administrator", Recommended) IN
  /\ HandAt(h, "calling") /\ MayRun(h)
  /\ c # Nobody
  /\ IF may THEN Commit(c, "administrator", Recommended) ELSE UNCHANGED authorityVars
  /\ hand' = [hand EXCEPT ![h].at = "called", ![h].got = IF may THEN "executed" ELSE "failed"]
  /\ UNCHANGED <<request, late, action, turn, calls, changes, deaths>>

\* The permit is consumed, unless the permission is held for good by now.
Consume(h) ==
  LET a == hand[h].on IN
  /\ HandAt(h, "called") /\ MayRun(h)
  /\ request' = IF request[a] = "once" /\ ~Holds(Actor, Needs[a])
                THEN [request EXCEPT ![a] = "spent"] ELSE LooksUp(a)
  /\ Go(h, "consumed")
  /\ UNCHANGED <<authorityVars, late, action, turn, calls, changes, deaths>>

SaveResult(h) ==
  /\ HandAt(h, "consumed") /\ MayRun(h)
  /\ Set(hand[h].on, hand[h].got, "settled")
  /\ Leave(h)
  /\ UNCHANGED <<authorityVars, request, late, turn, calls, changes, deaths>>

Execute(h) ==
  \/ Refuse(h) \/ Ask(h) \/ Wait(h) \/ Arm(h) \/ Claim(h)
  \/ \E result \in Results : Called(h, result)
  \/ Promote(h) \/ Consume(h) \/ SaveResult(h)

-----------------------------------------------------------------------------
(* The owner decides about a request *)

MayDecide(a) == /\ Quiet /\ HandAt(a, "idle")
                /\ request[a] = "pending" /\ staff[Actor] = "active"

Decide(a, place) ==
  hand' = [hand EXCEPT ![a] = [IdleHand EXCEPT !.at = place, !.on = a]]

\* The time of the request is over: it expires, and the action is refused.
DecideLate(a) ==
  /\ MayDecide(a) /\ a \in late
  /\ request' = [request EXCEPT ![a] = "expired"]
  /\ Decide(a, "refused")
  /\ UNCHANGED <<authorityVars, late, action, turn, calls, changes, deaths>>

Reject(a) ==
  /\ MayDecide(a) /\ a \notin late
  /\ request' = [request EXCEPT ![a] = "rejected"]
  /\ Decide(a, "refused")
  /\ UNCHANGED <<authorityVars, late, action, turn, calls, changes, deaths>>

AllowOnce(a) ==
  /\ MayDecide(a) /\ a \notin late
  /\ request' = [request EXCEPT ![a] = "once"]
  /\ Decide(a, "allowed")
  /\ UNCHANGED <<authorityVars, late, action, turn, calls, changes, deaths>>

\* The permission is granted for good first, ...
Grant(a) ==
  LET row == authority[Actor] IN
  /\ MayDecide(a) /\ a \notin late
  /\ MayUpdate(Nobody, Actor, row.role, row.grants \cup {Needs[a]})
  /\ Commit(Actor, row.role, row.grants \cup {Needs[a]})
  /\ Decide(a, "granted")
  /\ UNCHANGED <<request, late, action, turn, calls, changes, deaths>>

\* ... and only if the row took it is the request settled: a member takes no
\* permission to manage.
Kept(a) == Holds(Actor, Needs[a])
SettleGrant(a) ==
  /\ HandAt(a, "granted") /\ MayRun(a)
  /\ IF Kept(a) THEN request' = [request EXCEPT ![a] = "persistent"] /\ Go(a, "allowed")
     ELSE UNCHANGED request /\ hand' = [hand EXCEPT ![a] = IdleHand]
  /\ UNCHANGED <<authorityVars, late, action, turn, calls, changes, deaths>>

\* decideWorldPermission: the action follows, ...
SaveRefusal(a) ==
  /\ HandAt(a, "refused") /\ MayRun(a)
  /\ Set(a, "rejected", "settled")
  /\ Go(a, "continue")
  /\ UNCHANGED <<authorityVars, request, late, turn, calls, changes, deaths>>

SaveAllowed(a) ==
  /\ HandAt(a, "allowed") /\ MayRun(a)
  /\ Set(a, "waiting-for-integration", action[a].exec)
  /\ Go(a, "saved")
  /\ UNCHANGED <<authorityVars, request, late, turn, calls, changes, deaths>>

\* ... and is armed; the store refuses an attempt that began already.
ArmAllowed(a) ==
  /\ HandAt(a, "saved") /\ MayRun(a)
  /\ IF action[a].exec \in {"none", "approved-ready"}
     THEN Set(a, action[a].status, "approved-ready") /\ Go(a, "continue")
     ELSE UNCHANGED action /\ hand' = [hand EXCEPT ![a] = IdleHand]
  /\ UNCHANGED <<authorityVars, request, late, turn, calls, changes, deaths>>

-----------------------------------------------------------------------------
(* continueIfReady *)

\* Something of the turn waits for the owner still.
Undecided == \/ \E a \in Actions : request[a] = "pending" /\ a \notin late
             \/ \E a \in Actions : action[a].status = "waiting-for-approval"

Continue(h) ==
  /\ HandAt(h, "continue") /\ MayRun(h)
  /\ request' = IF turn = "waiting" THEN Expired(Actions) ELSE request
  /\ IF turn = "waiting" /\ ~Undecided
     THEN hand' = [hand EXCEPT ![h].at = "ready",
                     ![h].todo = {a \in Actions : action[a].exec = "approved-ready"}]
     ELSE Home(h)
  /\ UNCHANGED <<authorityVars, late, action, turn, calls, changes, deaths>>

NextReady(h, a) ==
  /\ HandAt(h, "ready") /\ MayRun(h)
  /\ a \in hand[h].todo
  /\ Take(h, a, "execute", "ready")
  /\ UNCHANGED <<authorityVars, request, late, action, turn, calls, changes, deaths>>

\* Only one handler resumes the turn, and none while an action executes.
ResumeTurn(h) ==
  /\ HandAt(h, "ready") /\ MayRun(h)
  /\ hand[h].todo = {}
  /\ IF turn = "waiting" /\ \A a \in Actions : action[a].exec # "executing"
     THEN turn' = "running" /\ Go(h, "answering")
     ELSE UNCHANGED turn /\ Home(h)
  /\ UNCHANGED <<authorityVars, request, late, action, calls, changes, deaths>>

\* The model has answered the user, or failed.
Answer(h) ==
  /\ HandAt(h, "answering") /\ MayRun(h)
  /\ turn' = "over"
  /\ Home(h)
  /\ UNCHANGED <<authorityVars, request, late, action, calls, changes, deaths>>

-----------------------------------------------------------------------------
(* Crash and recovery *)

\* recoverSkillActionsAfterRestart: an attempt may have been under way.
CutOff(a) == /\ action[a].status = "waiting-for-integration"
                  /\ action[a].exec \in {"none", "executing"}

Unknown == [status |-> "outcome-unknown", exec |-> "settled"]

\* The process dies and starts again: rows are repaired, permissions of older
\* rows filled in, and the recovery of the turns begins.
KillServer ==
  /\ deaths < MaxDeaths
  /\ deaths' = deaths + 1
  /\ action' = [a \in Actions |->
       IF CutOff(a) THEN Unknown ELSE action[a]]
  /\ turn' = IF turn = "running" THEN "over" ELSE turn
  /\ Backfill
  /\ hand' = [h \in HandlerIds |-> IF h = "recover" THEN [IdleHand EXCEPT !.at = "requests"] ELSE IdleHand]
  /\ UNCHANGED <<request, late, calls, changes>>

\* expire and recoverPending: a grant whose request was not settled settles it.
Waits(a) == action[a].status \in {"waiting-for-approval", "waiting-for-integration"}

RecoverRequests ==
  /\ HandAt("recover", "requests") /\ MayRun("recover")
  /\ request' = [a \in Actions |->
       IF Lapsed(a) THEN "expired"
       ELSE IF request[a] = "pending" /\ Holds(Actor, Needs[a]) THEN "persistent" ELSE request[a]]
  /\ hand' = [hand EXCEPT !["recover"].at = "settle", !["recover"].rest = {a \in Actions : Waits(a)}]
  /\ UNCHANGED <<authorityVars, late, action, turn, calls, changes, deaths>>

\* Settles: the restart forgets what expired.
MutSettles(a) == Verdict(a) = "rejected" /\ request[a] = "persistent"

\* #settleExpiredWorldPermissionActions
Settles(a) == \/ Verdict(a) = "expired"
              \/ Verdict(a) = "pending" /\ request[a] = "spent"
              \/ Verdict(a) = "rejected" /\ request[a] = "persistent"

\* The next of the actions it read as waiting, with the request as it is now; the
\* turn of a settled one is continued before the next.
Settle(a) ==
  /\ HandAt("recover", "settle") /\ MayRun("recover")
  /\ a \in hand["recover"].rest
  /\ request' = LooksUp(a)
  /\ IF Settles(a)
     THEN /\ Set(a, IF request[a] = "spent" THEN "outcome-unknown" ELSE "rejected", "settled")
          /\ hand' = [hand EXCEPT !["recover"].at = "continue", !["recover"].home = "settle",
                                  !["recover"].rest = @ \ {a}]
     ELSE UNCHANGED action /\ hand' = [hand EXCEPT !["recover"].rest = @ \ {a}]
  /\ UNCHANGED <<authorityVars, late, turn, calls, changes, deaths>>

\* #prepareRecoveredWorldPermissionActions
ArmRecovered ==
  /\ HandAt("recover", "settle") /\ MayRun("recover")
  /\ hand["recover"].rest = {}
  /\ action' = [a \in Actions |->
       IF Waits(a) /\ action[a].exec \in {"none", "approved-ready"} /\ Verdict(a) = "granted"
       THEN [status |-> "waiting-for-integration", exec |-> "approved-ready"] ELSE action[a]]
  /\ hand' = [hand EXCEPT !["recover"].at = "recovering",
                !["recover"].todo = {a \in Actions : action'[a].exec = "approved-ready"}]
  /\ UNCHANGED <<authorityVars, request, late, turn, calls, changes, deaths>>

\* What is ready is executed, then the turn is continued if it waits.
NextRecovered(a) ==
  /\ HandAt("recover", "recovering") /\ MayRun("recover")
  /\ a \in hand["recover"].todo
  /\ Take("recover", a, "execute", "recovering")
  /\ UNCHANGED <<authorityVars, request, late, action, turn, calls, changes, deaths>>

Recovered ==
  /\ HandAt("recover", "recovering") /\ MayRun("recover")
  /\ hand["recover"].todo = {}
  /\ hand' = [hand EXCEPT !["recover"].at = "continue", !["recover"].home = "idle"]
  /\ UNCHANGED <<authorityVars, request, late, action, turn, calls, changes, deaths>>

-----------------------------------------------------------------------------
(* The owner, the clock *)

\* The time of a request passes.
Lapse(a) ==
  /\ request[a] = "pending" /\ a \notin late
  /\ late' = late \cup {a}
  /\ UNCHANGED <<authorityVars, request, action, turn, hand, calls, changes, deaths>>

\* The workbench lists the pending decisions, which expires the late ones.
List ==
  /\ Quiet
  /\ \E a \in Actions : Lapsed(a) /\ request[a] = "pending"
  /\ request' = Expired(Actions)
  /\ UNCHANGED <<authorityVars, late, action, turn, hand, calls, changes, deaths>>

ChangeAuthority ==
  /\ Quiet /\ changes < MaxDecisions
  /\ changes' = changes + 1
  /\ \E c \in Chars : \/ Recruit(c) \/ Archive(c) \/ Revive(c)
                      \/ \E role \in Roles, grants \in Offers : Assign(c, role, grants)
  /\ UNCHANGED <<request, late, action, turn, hand, calls, deaths>>

-----------------------------------------------------------------------------
Handle(h) == Execute(h) \/ Continue(h) \/ (\E a \in Actions : NextReady(h, a)) \/ ResumeTurn(h) \/ Answer(h)

Recovery == RecoverRequests \/ (\E a \in Actions : Settle(a) \/ NextRecovered(a))
            \/ ArmRecovered \/ Recovered

PermissionNext ==
  \/ BeginTurn \/ (\E a \in Actions : Reserve(a)) \/ Prepared
  \/ \E h \in HandlerIds : Handle(h)
  \/ \E a \in Actions :
       \/ DecideLate(a) \/ Reject(a) \/ AllowOnce(a) \/ Grant(a)
       \/ SettleGrant(a) \/ SaveRefusal(a) \/ SaveAllowed(a) \/ ArmAllowed(a)
       \/ Lapse(a)
  \/ Recovery \/ KillServer \/ List \/ ChangeAuthority

PermissionSpec == PermissionInit /\ [][PermissionNext]_permitVars

\* A handler that runs goes on, and what it awaits ends: adapters return and a
\* model turn has its time limit.  Nothing makes the owner decide.
Steps(h) ==
  \/ Handle(h)
  \/ h = "direct" /\ ((\E a \in Actions : Reserve(a)) \/ Prepared)
  \/ h = "recover" /\ Recovery
  \/ h \in Actions /\ (SettleGrant(h) \/ SaveRefusal(h) \/ SaveAllowed(h) \/ ArmAllowed(h))

PermissionFairSpec == PermissionSpec /\ \A h \in HandlerIds : WF_permitVars(Steps(h))

-----------------------------------------------------------------------------
(* Properties *)

\* A world with active characters has an active administrator, and its pointer
\* names one, whatever is recruited, demoted, archived or revived.
AdminRemains == Active # {} => adminPointer # Nobody /\ Administers(adminPointer)

\* An action is carried out at most once, whatever handlers, crashes and
\* recoveries meet.
AtMostOnce == \A a \in Actions : calls[a] <= 1

\* A request is settled as granted for good only if the row holds the grant at
\* that moment: a crash in between, or a member asking for a permission to
\* manage, leaves it open.
GrantedMeansHeld ==
  [][\A a \in Actions : request'[a] = "persistent" /\ request[a] # "persistent"
                          => Holds(Actor, Needs[a])']_permitVars

\* An action whose row says it was refused is not carried out later.
RefusedIsFinal ==
  [][\A a \in Actions : action[a].status = "rejected" => calls'[a] = calls[a]]_permitVars

\* What an adapter returned stays in the row.
OutcomeStands ==
  [][\A a \in Actions : action[a].status \in {"executed", "failed"} /\ action[a].exec = "settled"
                          => action'[a].status = action[a].status]_permitVars

\* A turn that waits when the process starts, with no request left to decide, is
\* answered: what expired, was revoked or may have been carried out is settled and
\* what was allowed is carried out first.  A refusal is the exception: ...
Recovering ==
  /\ turn = "waiting" /\ HandAt("recover", "requests")
  /\ \A a \in Actions : ~ request[a] \in {"pending", "rejected"} \/ Lapsed(a)

RecoveredTurnEnds == Recovering ~> turn # "waiting"

\* ... the turn of a refused request is answered, too.
RefusedTurnEnds ==
  (/\ turn = "waiting" /\ HandAt("recover", "requests")
   /\ \A a \in Actions : request[a] = "rejected") ~> turn # "waiting"
=============================================================================
