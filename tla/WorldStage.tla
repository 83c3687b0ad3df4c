----------------------------- MODULE WorldStage -----------------------------
(***************************************************************************)
(* The stage of a world: where each character stands and what it does,     *)
(* projected from the events of the world, and the ambient life that       *)
(* sends idle characters about.                                            *)
(*                                                                         *)
(*   projector.ts, world-runtime-service.ts   the projection of events     *)
(*   director.ts, semantics.ts                what an event makes one do   *)
(*   ambient-life-scheduler.ts, -runtime.ts, -executor.ts                  *)
(*   role-aware-ambient-life-service.ts       one tick of ambient life     *)
(*   ambient-coordinator.ts, ambient-policy.ts   who goes where            *)
(*   world-simulation-store.ts                presences, plans, leases     *)
(*                                                                         *)
(* The orchestrator appends events; a refresh, of any reader, folds those  *)
(* not seen yet into the entities and writes the presences; a tick reads   *)
(* presences, never events.  The slots are resolved without waiting, so    *)
(* nothing comes between the writes of a tick but the death of the         *)
(* process.  Characters and posts are numbers in the order of their        *)
(* names, which is also their rank; one scene, one world, one meeting at   *)
(* a time; a path is always found.  The bucket of time that picks a        *)
(* routine and the idle window are left open: any choice they allow may    *)
(* be taken, and any character passed over.  Gestures, cues, objects and   *)
(* lights are left out, and so is presence.reservedSlotId, which nothing   *)
(* reads.                                                                  *)
(***************************************************************************)
EXTENDS Naturals, FiniteSets
LOCAL INSTANCE Sequences

CONSTANTS
  Cast,        \* the characters, numbered
  Posts,       \* the slots of the scene, numbered from 1
  HomeOf,      \* the home of each character
  TaskPosts,   \* where work is done
  Seats,       \* of the meeting zone
  RestPosts,
  Rounds,      \* the posts each character may inspect
  Duration,    \* of an ambient plan
  Cooldown,    \* between two plans of a character
  Lease,       \* how long a reservation stands
  MaxPlans,    \* bound: ambient plans
  MaxClock,    \* bound: time
  MaxUnseen,   \* bound: events of a turn that no refresh has folded
  MaxReal,     \* bound: turns, meetings, archivings and settings
  MaxDeaths    \* bound: deaths of the process

ASSUME StageAssumption ==
  /\ Cast \subseteq Nat \ {0} /\ IsFiniteSet(Cast)
  /\ Posts \subseteq Nat \ {0} /\ IsFiniteSet(Posts)
  /\ HomeOf \in [Cast -> Posts]
  /\ TaskPosts \subseteq Posts /\ Seats \subseteq Posts /\ RestPosts \subseteq Posts
  /\ Rounds \in [Cast -> SUBSET Posts]
  /\ Duration \in Nat /\ Cooldown \in Nat /\ Lease \in Nat
  /\ Cooldown >= Duration   \* 180 s and 45 s, unless a world sets less than 45 s
  /\ Lease > Duration
  /\ MaxPlans \in Nat /\ MaxUnseen \in Nat /\ MaxClock \in Nat /\ MaxReal \in Nat /\ MaxDeaths \in Nat

VARIABLES
  duty,      \* employee_instances.status of each character
  turn,      \* characters with a turn under way
  meeting,   \* who takes part in the meeting under way
  pending,   \* the events after the sequence of the snapshot
  entity,    \* the entity of each character in the snapshot
  presence,  \* world_character_presence
  plans,     \* world_action_plans
  leases,    \* world_slot_reservations
  enabled,   \* world_ambient_life_settings.enabled
  tick,      \* the tick under way
  clock,
  spent      \* turns, meetings, archivings and settings so far; deaths so far

stageVars == <<duty, turn, meeting, pending, entity, presence, plans, leases, enabled, tick,
               clock, spent>>
tickVars  == <<plans, leases, tick>>
realVars  == <<duty, turn, meeting, spent>>

PlanIds  == 1 .. MaxPlans
Gone     == [at |-> 0, to |-> 0, planned |-> FALSE, session |-> FALSE, meeting |-> FALSE]
Unborn   == [state |-> "unborn", who |-> 0, post |-> 0, born |-> 0]
Idle     == [at |-> "idle", due |-> {}, made |-> {}, told |-> FALSE]
Live(i)  == plans[i].state \in {"queued", "running"}
Places   == Posts \cup {0}

StageTypes ==
  /\ duty \in [Cast -> {"available", "working", "blocked", "archived"}]
  /\ turn \subseteq Cast
  /\ meeting \subseteq Cast
  /\ entity \in [Cast -> [at : Places, to : Places, planned : BOOLEAN, session : BOOLEAN,
                          meeting : BOOLEAN]]
  /\ presence \in [Cast -> [at : Places, planned : BOOLEAN, session : BOOLEAN]]
  /\ plans \in [PlanIds -> [state : {"unborn", "queued", "running", "completed"},
                            who : Cast \cup {0}, post : Places, born : 0 .. MaxClock]]
  /\ leases \subseteq [plan : PlanIds, post : Posts, until : Nat]
  /\ enabled \in BOOLEAN
  /\ tick \in [at : {"idle", "closing", "releasing", "clearing", "telling", "deciding", "saving",
                     "leasing", "standing", "starting", "announcing"},
               due : SUBSET PlanIds, made : SUBSET PlanIds, told : BOOLEAN]
  /\ clock \in 0 .. MaxClock
  /\ spent \in [real : 0 .. MaxReal, deaths : 0 .. MaxDeaths]

StageInit ==
  /\ duty = [c \in Cast |-> "available"]
  /\ turn = {} /\ meeting = {} /\ pending = <<>>
  /\ entity = [c \in Cast |-> Gone]
  /\ presence = [c \in Cast |-> [at |-> 0, planned |-> FALSE, session |-> FALSE]]
  /\ plans = [i \in PlanIds |-> Unborn]
  /\ leases = {}
  /\ enabled = TRUE /\ tick = Idle /\ clock = 0
  /\ spent = [real |-> 0, deaths |-> 0]

-----------------------------------------------------------------------------
(* The projection.  e is the entities while events are folded into them.   *)

Least(S) == CHOOSE x \in S : \A y \in S : x <= y
Nth(S, k) == CHOOSE x \in S : Cardinality({y \in S : y <= x}) = k

Taken(e, except) == UNION {{e[c].at, e[c].to} : c \in Cast \ except}

\* settleAtTarget
Settle(b) == [b EXCEPT !.at = IF b.to = 0 THEN b.at ELSE b.to, !.to = 0]

\* moveEntityToSlot: the plan and the session are those of the move, or none
Move(b, post, planned, session) ==
  [b EXCEPT !.to = IF post = b.at THEN 0 ELSE post, !.planned = planned, !.session = session]

WorkPost(e, c) ==
  LET free == TaskPosts \ Taken(e, {c})
  IN  IF free = {} THEN HomeOf[c] ELSE Least(free)

\* What directWorldEvent makes of the events of a turn
Directed(e, c, kind) ==
  CASE kind \in {"task.started", "tool.started"} -> Move(e[c], WorkPost(e, c), TRUE, TRUE)
    [] kind \in {"task.completed", "turn.completed"} -> Move(Settle(e[c]), HomeOf[c], TRUE, TRUE)
    [] kind = "task.blocked" -> [Settle(e[c]) EXCEPT !.session = TRUE]
    [] OTHER -> [e[c] EXCEPT !.session = TRUE]

Gathered(e, who) ==
  LET free == Seats \ Taken(e, who)
      Place(c) == Cardinality({d \in who : d <= c})
  IN  [c \in Cast |->
        IF c \in who /\ e[c] # Gone /\ Place(c) <= Cardinality(free)
        THEN [Move(Settle(e[c]), Nth(free, Place(c)), TRUE, TRUE) EXCEPT !.meeting = TRUE]
        ELSE e[c]]

Dispersed(e, who) ==
  [c \in Cast |->
    IF e[c] # Gone /\ (c \in who \/ e[c].meeting)
    THEN Move([Settle(e[c]) EXCEPT !.meeting = FALSE], HomeOf[c], TRUE, TRUE)
    ELSE e[c]]

\* applyEvent
Apply(e, v) ==
  CASE v.kind = "meeting.started"  -> Gathered(e, v.who)
    [] v.kind = "meeting.finished" -> Dispersed(e, v.who)
    [] OTHER ->
         LET c == Least(v.who) IN
         CASE e[c] = Gone -> e
           [] v.kind = "ambient-start" ->
                [e EXCEPT ![c] = Move(Settle(@), v.post, TRUE, FALSE)]
           [] v.kind = "ambient-complete" ->
                [e EXCEPT ![c] = Move(Settle(@), HomeOf[c], FALSE, FALSE)]
           [] e[c].meeting ->
                [d \in Cast |-> IF e[d].meeting THEN [e[d] EXCEPT !.session = TRUE] ELSE e[d]]
           [] OTHER -> [e EXCEPT ![c] = Directed(e, c, v.kind)]

\* Who is archived leaves; who is new stands where its presence says, or at home.
Employed ==
  [c \in Cast |->
    CASE duty[c] = "archived" -> Gone
      [] entity[c] # Gone     -> entity[c]
      [] OTHER -> [Gone EXCEPT !.at = IF presence[c].at = 0 THEN HomeOf[c] ELSE presence[c].at,
                               !.planned = presence[c].planned,
                               !.session = presence[c].session]]

Folded ==
  LET f[n \in 0 .. Len(pending)] == IF n = 0 THEN Employed ELSE Apply(f[n - 1], pending[n])
  IN  f[Len(pending)]

Standing(b) == [at |-> b.at, planned |-> b.planned, session |-> b.session]
Unexpired   == {l \in leases : l.until > clock}

\* #project: the snapshot, then #syncPresences
Projected ==
  /\ leases' = Unexpired
  /\ entity' = Folded
  /\ presence' = [c \in Cast |-> Standing(entity'[c])]
  /\ pending' = <<>>

TickIdle == tick.at = "idle"

Refresh ==
  /\ TickIdle
  /\ Projected
  /\ UNCHANGED <<realVars, plans, enabled, tick, clock>>

Event(kind, who, post) == [kind |-> kind, who |-> who, post |-> post]
Say(events) == pending' = pending \o events

-----------------------------------------------------------------------------
(* Real work: turns and meetings of the orchestrator, and the roster.      *)

Spend == spent.real < MaxReal /\ spent' = [spent EXCEPT !.real = @ + 1]
Others == UNCHANGED <<entity, presence, plans, leases, enabled, tick, clock>>

StartTurn(c) ==
  /\ TickIdle /\ Spend
  /\ c \notin turn /\ duty[c] # "archived"
  /\ turn' = turn \cup {c}
  /\ duty' = [duty EXCEPT ![c] = "working"]
  /\ Say(<<Event("task.started", {c}, 0)>>)
  /\ UNCHANGED meeting /\ Others

\* #persistRuntimeEvent
Report(c, kind) ==
  /\ TickIdle
  /\ c \in turn /\ Len(pending) < MaxUnseen
  /\ Say(<<Event(kind, {c}, 0)>>)
  /\ UNCHANGED realVars /\ Others

EndTurn(c) ==
  /\ TickIdle
  /\ c \in turn
  /\ turn' = turn \ {c}
  /\ \/ /\ duty' = [duty EXCEPT ![c] = "available"]
        /\ Say(<<Event("task.completed", {c}, 0)>>)
     \/ /\ duty' = [duty EXCEPT ![c] = "blocked"]
        /\ Say(<<Event("turn.failed", {c}, 0), Event("task.blocked", {c}, 0)>>)
  /\ UNCHANGED <<meeting, spent>> /\ Others

StartMeeting(who) ==
  /\ TickIdle /\ Spend
  /\ meeting = {} /\ Cardinality(who) > 1
  /\ \A c \in who : duty[c] # "archived"
  /\ meeting' = who
  /\ Say(<<Event("meeting.started", who, 0)>>)
  /\ UNCHANGED <<duty, turn>> /\ Others

FinishMeeting ==
  /\ TickIdle
  /\ meeting # {} /\ meeting \cap turn = {}
  /\ meeting' = {}
  /\ Say(<<Event("meeting.finished", meeting, 0)>>)
  /\ UNCHANGED <<duty, turn, spent>> /\ Others

\* Of one that is not at work
Archive(c) ==
  /\ TickIdle /\ Spend
  /\ c \notin turn /\ duty[c] # "archived"
  /\ duty' = [duty EXCEPT ![c] = "archived"]
  /\ UNCHANGED <<turn, meeting, pending>> /\ Others

Toggle ==
  /\ TickIdle /\ Spend
  /\ enabled' = ~enabled
  /\ UNCHANGED <<duty, turn, meeting, pending, entity, presence, plans, leases, tick, clock>>

-----------------------------------------------------------------------------
(* One tick of ambient life: close what is due, decide, write the plans,   *)
(* their leases and presences, start them, publish.                        *)

Goes(at) == tick' = [tick EXCEPT !.at = at]
TickKeeps == UNCHANGED <<realVars, enabled, clock>>

\* completeDue
\* Mutated form: only plans that run fall due.
MutDuePlans == {i \in PlanIds : plans[i].state = "running" /\ clock - plans[i].born >= Duration}
DuePlans == {i \in PlanIds : Live(i) /\ clock - plans[i].born >= Duration}

BeginTick ==
  /\ TickIdle /\ enabled
  /\ leases' = Unexpired
  /\ tick' = [Idle EXCEPT !.at = IF DuePlans = {} THEN "deciding" ELSE "closing", !.due = DuePlans]
  /\ UNCHANGED <<pending, entity, presence, plans>> /\ TickKeeps

\* #requireCharacter throws for one that is archived, and the tick with it.
CloseNext ==
  /\ tick.at = "closing"
  /\ LET i == Least(tick.due) IN
     IF duty[plans[i].who] = "archived"
     THEN tick' = Idle /\ UNCHANGED plans
     ELSE plans' = [plans EXCEPT ![i].state = "completed"] /\ Goes("releasing")
  /\ UNCHANGED <<pending, entity, presence, leases>> /\ TickKeeps

ReleaseNext ==
  /\ tick.at = "releasing"
  /\ leases' = {l \in leases : l.plan # Least(tick.due)}
  /\ Goes("clearing")
  /\ UNCHANGED <<pending, entity, presence, plans>> /\ TickKeeps

ClearNext ==
  /\ tick.at = "clearing"
  /\ presence' = [presence EXCEPT ![plans[Least(tick.due)].who].planned = FALSE]
  /\ Goes("telling")
  /\ UNCHANGED <<pending, entity, plans, leases>> /\ TickKeeps

TellNext ==
  /\ tick.at = "telling"
  /\ LET i == Least(tick.due) IN
     /\ Say(<<Event("ambient-complete", {plans[i].who}, 0)>>)
     /\ tick' = [tick EXCEPT !.due = @ \ {i}, !.told = TRUE,
                             !.at = IF tick.due = {i} THEN "deciding" ELSE "closing"]
  /\ UNCHANGED <<entity, presence, plans, leases>> /\ TickKeeps

\* loadSlots: of several that stand at a post the last one is seen
Available(c, post) ==
  LET there == {d \in Cast : presence[d].at = post}
  IN  /\ there = {} \/ \A d \in there : d <= c
      /\ there = {} \/ c \in there
      /\ \A l \in leases : l.post = post => plans[l.plan].who = c

\* Mutated form: of the earlier plans only those that have ended count.
MutRested(c) ==
  \A i \in PlanIds :
    plans[i].who = c /\ plans[i].state = "completed" => clock - plans[i].born >= Cooldown
Rested(c) == \A i \in PlanIds : plans[i].who = c => clock - plans[i].born >= Cooldown

Eligible(c) ==
  /\ duty[c] = "available" /\ presence[c].at # 0
  /\ ~presence[c].planned /\ ~presence[c].session
  /\ Rested(c)

\* decideAmbientBehavior: home first; else a rest, a round, or its post.
Choices(c, reserved) ==
  LET Open(post) == Available(c, post) /\ post \notin reserved
      rests  == {p \in RestPosts : Open(p)}
      rounds == {p \in Rounds[c] : Open(p) /\ p # presence[c].at}
  IN  IF presence[c].at # HomeOf[c] /\ Open(HomeOf[c])
      THEN {HomeOf[c]}
      ELSE (IF rests = {} THEN {} ELSE {Least(rests)})
           \cup (IF rounds # {} THEN rounds
                 ELSE IF Open(HomeOf[c]) THEN {HomeOf[c]} ELSE {})

FreeIds == {i \in PlanIds : plans[i].state = "unborn"}

\* coordinateAmbientLife; a plan is written down with its tick, not yet saved
Decide ==
  /\ tick.at = "deciding"
  /\ \E who \in SUBSET {c \in Cast : Eligible(c)} :
     \E to \in [who -> Posts] :
       /\ Cardinality(who) <= Cardinality(FreeIds)
       /\ who # {} => clock + Duration <= MaxClock
       /\ \A c \in who : to[c] \in Choices(c, {to[d] : d \in {d \in who : d < c}})
       /\ LET Of(i) == Nth(who, Cardinality({j \in FreeIds : j <= i}))
              made  == {i \in FreeIds : Cardinality({j \in FreeIds : j <= i}) <= Cardinality(who)}
          IN  /\ plans' = [i \in PlanIds |->
                             IF i \in made
                             THEN [state |-> "unborn", who |-> Of(i), post |-> to[Of(i)], born |-> clock]
                             ELSE plans[i]]
              /\ tick' = CASE made # {} -> [tick EXCEPT !.at = "saving", !.made = made]
                           [] tick.told -> [tick EXCEPT !.at = "announcing"]
                           [] OTHER     -> Idle
  /\ UNCHANGED <<pending, entity, presence, leases>> /\ TickKeeps

Unsaved == {i \in tick.made : plans[i].state = "unborn"}
Queued  == {i \in tick.made : plans[i].state = "queued"}

SavePlan ==
  /\ tick.at = "saving"
  /\ plans' = [plans EXCEPT ![Least(Unsaved)].state = "queued"]
  /\ Goes(IF Cardinality(Unsaved) = 1 THEN "leasing" ELSE "saving")
  /\ UNCHANGED <<pending, entity, presence, leases>> /\ TickKeeps

\* One transaction, under the unique index of world and slot
SaveLeases ==
  /\ tick.at = "leasing"
  /\ LET new == {[plan |-> i, post |-> plans[i].post, until |-> clock + Lease] : i \in tick.made} IN
     IF \E n \in new, l \in leases \cup new : l.post = n.post /\ l.plan # n.plan
     THEN leases' = {l \in leases : l.plan \notin tick.made} /\ tick' = Idle
     ELSE leases' = leases \cup new /\ Goes("standing")
  /\ UNCHANGED <<pending, entity, presence, plans>> /\ TickKeeps

SavePresences ==
  /\ tick.at = "standing"
  /\ presence' = [c \in Cast |->
       IF \E i \in tick.made : plans[i].who = c
       THEN [presence[c] EXCEPT !.planned = TRUE, !.session = FALSE]
       ELSE presence[c]]
  /\ Goes("starting")
  /\ UNCHANGED <<pending, entity, plans, leases>> /\ TickKeeps

\* start: a plan runs, then its event is appended
RunPlan ==
  /\ tick.at = "starting" /\ Queued # {}
  /\ plans' = [plans EXCEPT ![Least(Queued)].state = "running"]
  /\ tick' = [tick EXCEPT !.at = "announcing", !.due = {Least(Queued)}]
  /\ UNCHANGED <<pending, entity, presence, leases>> /\ TickKeeps

TellStart ==
  /\ tick.at = "announcing" /\ tick.due # {}
  /\ LET i == Least(tick.due) IN
     Say(<<Event("ambient-start", {plans[i].who}, plans[i].post)>>)
  /\ tick' = [tick EXCEPT !.due = {}, !.at = IF Queued = {} THEN "announcing" ELSE "starting"]
  /\ UNCHANGED <<entity, presence, plans, leases>> /\ TickKeeps

\* publishCurrent
Publish ==
  /\ tick.at = "announcing" /\ tick.due = {}
  /\ Projected
  /\ tick' = Idle
  /\ UNCHANGED plans /\ TickKeeps

TickStep ==
  \/ BeginTick \/ CloseNext \/ ReleaseNext \/ ClearNext \/ TellNext \/ Decide
  \/ SavePlan \/ SaveLeases \/ SavePresences \/ RunPlan \/ TellStart \/ Publish

-----------------------------------------------------------------------------
(* What was not saved of a tick is lost; a turn ends with the process and  *)
(* its character stays as it was; a meeting never finishes.                *)

\* The time between the death and the next start passes afterwards.
RestartStage ==
  /\ tick.at # "idle" \/ turn # {} \/ meeting # {}
  /\ spent.deaths < MaxDeaths
  /\ spent' = [spent EXCEPT !.deaths = @ + 1]
  /\ plans' = [i \in PlanIds |-> IF plans[i].state = "unborn" THEN Unborn ELSE plans[i]]
  /\ turn' = {} /\ meeting' = {} /\ tick' = Idle
  /\ UNCHANGED <<duty, pending, entity, presence, leases, enabled, clock>>

PassTime ==
  /\ tick.at = "idle" /\ clock < MaxClock
  /\ clock' = clock + 1
  /\ UNCHANGED <<realVars, pending, entity, presence, plans, leases, enabled, tick>>

StageNext ==
  \/ Refresh
  \/ \E c \in Cast :
       \/ StartTurn(c) \/ EndTurn(c) \/ Archive(c)
       \/ \E kind \in {"turn.started", "tool.started", "turn.completed"} : Report(c, kind)
  \/ \E who \in SUBSET Cast : StartMeeting(who)
  \/ FinishMeeting
  \/ Toggle
  \/ TickStep
  \/ RestartStage \/ PassTime

\* A timer fires every thirty seconds while the process runs, and between
\* two ticks time passes.
StageFairness == WF_stageVars(TickStep) /\ SF_stageVars(PassTime)
StageSpec     == StageInit /\ [][StageNext]_stageVars /\ StageFairness

-----------------------------------------------------------------------------
(* Properties *)

\* Two ambient plans that run are never of the same character, nor for the
\* same post, whatever died between the writes of a tick.
PlansApart ==
  \A i, j \in PlanIds :
    i # j /\ plans[i].state = "running" /\ plans[j].state = "running"
    => plans[i].who # plans[j].who /\ plans[i].post # plans[j].post

\* Every plan that was saved ends, even one a death kept from starting: once no
\* more are made none is live for ever, unless its world is disabled or one of
\* its characters archived.
NoneLive ==
  enabled /\ (\A c \in Cast : duty[c] # "archived") => \A i \in PlanIds : ~Live(i)

PlansEnd == <>[]NoneLive

\* docs/architecture/role-aware-ambient-life.md: a character in a peer
\* conversation never receives an ambient plan.  Violated: a tick reads the
\* presences, which nothing has written since the meeting was announced.
NoneInMeeting ==
  [][\A i \in PlanIds : plans[i].state = "unborn" /\ plans'[i].state = "queued"
       => plans[i].who \notin meeting]_stageVars

=============================================================================
