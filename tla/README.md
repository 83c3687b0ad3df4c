# A TLA+ model of dsh-cyber

dsh-cyber runs worlds of characters on the user's own machine: one Node server
with a SQLite store drives conversations with language models through a harness
process, lets characters cause side effects outside (home devices, web search,
MCP tools) behind approvals, runs tasks on a schedule, installs packages and
updates its own agent runtime. This directory models the parts where steps of
several handlers, time and crashes meet, checks them with TLC and proves the
central facts with TLAPS: 20 modules model the system, 12 runs check 40
properties, and eight proof modules state what holds for all values of the
constants.

1. [The system](#1-the-system): components, state, operations, interactions
2. [What is hard](#2-what-is-hard)
3. [The modules](#3-the-modules): how state and actions correspond to the code
4. [The runs](#4-the-runs): what each checks, bounds, fairness
5. [The proofs](#5-the-proofs)
6. [Where the code departs from what is said of it](#6-where-the-code-departs-from-what-is-said-of-it)
7. [What is not modelled](#7-what-is-not-modelled)
8. [The plan](#8-the-plan)

Paths are relative to `src/packages/` unless they start with `docs/`.

## 1. The system

| Component | State it keeps | Operations | Correct means | Module |
|---|---|---|---|---|
| **Skill actions and approval gate** (`server/src/services/character-skill-runtime.ts`, adapters in `server/src/skills`) | rows `skill_actions`, `approval_requests`, `approval_policies`, encrypted payload files | prepare, decideApproval, tick (expiry, schedule), executeReadyAction, recovery | an action is sent out at most once, never after a refusal or before its time, always with a durable verdict | `ApprovalGate`, `ExternalCall` |
| **Approval continuation** (`turn-aware-approval-continuation-service.ts`) | `work_turns.status` | direct, decideApproval, continueIfReady, recover | a turn that waits is continued exactly once, with an answer that stays true | `ApprovalGate`, `WorldPermission` |
| **World permissions and authority** (`world-permission-request-service.ts`, `world-character-authority-service.ts` and its repository) | permission requests, authority rows with revisions, the world's pointer to its administrator | ensure, check, decide, consumeOnce, expire, recovery; recruit, assign, promote, demote, archive, revive | a world keeps an administrator, a grant is used as given, once | `WorldAuthority`, `WorldPermission` |
| World management adapter (`server/src/skills/world-management-adapter.ts`) | none of its own | propose, preflight, execute of world actions | an authorised action only, in its own world | `WorldPermission`, `WorldSettings` |
| **Conversation orchestrator** and history (`orchestration/src/conversation-orchestrator.ts`, `conversation-history.ts`), peer and delegated collaboration | turns, agent runs, messages, character status, what a worker's session has heard | direct, group, peer, delegated turns, restart | every turn ends, is answered by its cast, and nobody answers without having heard | `Conversation` |
| **Harness worker and model router** (`harness-adapter/src/adapter.ts`, `model-router.ts`) | an adapter per model, a worker per character, a queue of turns | runTurn, closeEmployee, close, retry, repetition | one run of a worker at a time, nothing seen happens twice | `HarnessRouter`, `Conversation` |
| **Task schedules** (`task-schedule-service.ts`) | `task_schedules`, `task_schedule_runs`, the set of runs in flight | create, pause, resume, delete, runNow, runDue, recovery, close | one run at a time and one per slot; what is due is run; what is paused stays paused | `TaskSchedule` |
| **Runtime updates** (`runtime-update-service.ts`, `harness-adapter/src/runtime-update.ts`, `cli`) | `runtime_update_transactions`, the pointer file `active-runtime.json`, candidate directories | verify, contractTest, canary, activate, rollback, `runtime-rollback`, start | only what passed the canary becomes active; a rollback lasts; the server can always be started | `RuntimeUpdate` |
| Package installation, world instances, workshop (`package-runtime`, `world-package-instance-service.ts`, `creative-workshop-service.ts`) | rows, files of the library, copies in worlds, a verification cache | preview, install, roll back, compensate, uninstall, copy, build | rows and files agree; a failed build leaves nothing | `PackageLibrary` |
| Growth of characters (`employee-activity-projection-service.ts`, `employee-routes.ts`) | milestones, journals, skills, profiles, relationships | projection of completed turns, edits of the owner, prune | a completed run is recorded once, and in the end | `CharacterGrowth` |
| Ambient life and world projection (`world-simulation`, `world-runtime`, `role-aware-ambient-life-service.ts`) | events, entities, presences, plans, leases | projection, tick of ambient life, recovery | no two plans of one character or for one post; plans end | `WorldStage` |
| Streams (`world-stream-hub.ts`, `runtime-stream-hub.ts`, `web/src/features/world`) | cursors, connections, the snapshot on show | publish, connect, recover, interact | who follows a world catches up with it | `WorldLive` |
| Chat of the web client (`web/src/App.tsx`, `chat-realtime.ts`, `conversation-routes.ts`) | the open conversation, loads, queue of turns, sessions | open, send, refresh, page, group, bind | what is on show and what a turn goes to belong together | `ChatClient` |
| Models and credentials (`model-credential-service.ts`, `model-routes.ts`) | rows, assignments, the vault in memory, in the environment and on disk | save, delete, assign, ask, restart | a row that refers to a key has one; the page agrees | `ModelProfiles` |
| World settings (`world-settings-service.ts`, `WorldSettingsDialog.tsx`) | `settings.json` with a revision, the assigned model, the pages | read, save, patch of an administrator | nobody overwrites what they have not seen | `WorldSettings` |
| Attachments and assets (`world-file-service.ts`, `asset-service.ts`, `ChatWorkbench.tsx`) | files, descriptions, rows, the composer | upload, send, show | what is described is there and belongs to its world | `Attachments` |
| Integrations (`server/src/integrations`, `mcp-skill-adapter.ts`) | connections, vault with tokens and arguments, catalogue, index | save, test, delete, discover, call | arguments live as long as their calls; the index follows the tools | `Integrations` |
| Traces (`world-trace-service.ts`, `useWorldTrace.ts`) | runs, logs of model turns, live entries, the panel's pages | publish, page, filter, reconnect, clear | the panel tells how each run ended | `WorldTrace` |
| Backups and application updates (`local-backup-service.ts`, `application-update-service.ts`) | bundle, staging, worktrees, the checkout | backup, verify, restore; check, build, merge | what is restored is whole; what is merged was built | `LocalBackup`, `ApplicationUpdate` |
| Schema, catalogue, contracts, command line; rendering and layout of the web client | static data, views | input and output | see `PROJECT.json` | |

**How they interact.** Everything runs in one Node process (the CLI is a
second). HTTP routes and timers call services; a service calls the store, which
is synchronous, so a handler has the process to itself *between two awaits of
host I/O*; whatever it read before an await may be stale after it. `direct`
(continuation) calls `prepare` (gate), which calls adapters; decisions come
through routes, expiry and scheduled execution through a 30 s timer, schedules
through a 5 s timer, and each of them may continue a turn, which calls the
orchestrator, which awaits the router and the worker of the character. Events of
turns are projected into the state of the world, which is published over streams
to pages that also ask over HTTP, so that answers and frames overtake each other.
Most durable state is in SQLite; the pointer file, packages, settings of worlds,
attachments, the vaults of keys and of integrations and the encrypted payloads
are files, written before or after the row that speaks of them. Started again, the server first
repairs rows (`recoverConversationRuntimeAfterRestart`), then recovers
schedules and turns.

## 2. What is hard

The full list, each at its line, is under `hazards` in `PROJECT.json`. In short:

* **Copies across awaits.** The timer executes rows it listed before it awaited
  other calls; `#execute` saves the row it was given; `direct` parks a turn by
  copies; `runDue` starts schedules from an old list; `activate` works on a row
  read before an inspection and a backup.
* **Two writes and a crash between them**: decision and action, claim and call,
  call and verdict, run row and schedule row, pointer file and transaction row.
* **Many ways to the same step**: an action can be executed by the proposal, the
  decision, the timer, the continuation and the recovery; a turn resumed by
  three of them.
* **Time**: requests expire while they are decided, schedules come due while
  they run, a slot and a run by hand may fall on one instant.
* **Files that cannot be written in one step with their rows**: keys, packages,
  uploads, settings, bundles, arguments of calls.
* **Queues and sessions**: turns of a character wait in line for a worker that
  may be closed under them; a session has heard what another turn does not know.
* **Answers out of order**: pages, streams and refreshes cross, the owner moves on
  meanwhile, connections are lost with what they carried.
* **Things that must happen**: a parked turn is continued, an approved action
  ends, a due schedule runs behind others, a server that refuses to start can
  be brought up.

## 3. The modules

| Module | Content |
|---|---|
| `ExternalCall` | abstract: an action is closed, or called once and its call recorded |
| `ApprovalGate` | the gate and the continuation of one turn; implements `ExternalCall` |
| `WorldAuthority`, `WorldPermission` | who may do what in a world; a turn whose actions wait for permissions (extends the former) |
| `Conversation` | turns, sessions and what they have heard |
| `HarnessRouter` | adapters, workers and the queues of characters |
| `TaskSchedule`, `RuntimeUpdate` | schedules; updates of the agent runtime |
| `PackageLibrary`, `CharacterGrowth`, `LocalBackup`, `ApplicationUpdate` | what surrounds the worlds |
| `WorldStage`, `WorldLive` | the life of a world and the stream of its states |
| `ChatClient`, `ModelProfiles`, `WorldSettings`, `Attachments`, `Integrations`, `WorldTrace` | what the owner's pages show and change |
| `ApprovalGateProofs`, `TurnsProofs`, `TaskScheduleProofs`, `RuntimeUpdateProofs`, `WorkshopProofs`, `ChatClientProofs`, `DeskRecordsProofs`, `OwnerDeskProofs` | section 5 |
| `MC...` | the small sets TLC needs; `MCTurns`, `MCOwnerDesk`, `MCWorkshop`, `MCWorldLife` also put components side by side (section 4) |

An operator named `Mut...` stands before the one it is a slip of: what a dropped
guard, a missing reset or an off-by-one would make of it. Nothing uses them;
replacing the operator by its mutated form must break the property
`PROJECT.json` lists with it, which shows that the property depends on the code.
The variables and actions of each module are tied to the code line by line under
`map` in `PROJECT.json`; what follows is how to read them.

### ApprovalGate

*Scope*: one direct turn with a set of proposals, each with its own target, of
risk `external-side-effect` authorised by a skill grant.

| Variable | Code |
|---|---|
| `action` | row of `skill_actions`: status, execution state, whether it has an approval request |
| `request` | status in `approval_requests` |
| `policies` | `approval_policies` not revoked, by the exact target they cover |
| `turn`, `granted` | `work_turns.status`; the character is active and its revision grants the skill |
| `due`, `lapsed` | the clock, as far as it matters: the scheduled time, the end of the time to live |
| `pc`, `cur`, `copy`, `snap`, `todo`, `ready`, `late`, `ret` | per handler: where it is, the action and its local copy of the row, lists it read, its reading of the clock |
| `calls`, `answer`, `crashes` | history |

Handlers are the request that begins the turn (`Direct`), one per decision (named
by its action), the timer (`Tick`, one at a time because of `#ticking`) and the
recovery. `Awaits` says where a handler really waits for host I/O: at the
external call, at the model turn that answers, at an MCP payload's deletion, at
the web search's preflight. `MayRun` lets a handler step only when all the others
are at such a place, which is the semantics of one JavaScript task after
another; `CrashRestart`, which also does the repairs of the start, may come
between any two durable writes. A new request, timer or change by the owner
begins when all handlers wait (`Quiet`).

| Actions | Code |
|---|---|
| `Reserve`, `AuthorizeByPolicy`, `RequestApproval`, `SaveAuthorized`, `ParkTurn`, `AnswerDirectly` | `prepare`, `#authorize`, `direct` |
| `Decide`, `GrantPolicy`, `SaveDecision` | `decideApproval` with its two writes and the deletion between |
| `Arm`, `Refuse...`, `StartPreflight`, `PreflightRefuses`, `ClaimAndCall`, `LoseClaim`, `Settle`, `Discarded` | `prepareSkillActionExecution`, `#execute`, the compare-and-set claim, the adapter's outcomes |
| `TickStart`, `ExpireNext`, `ListDue`, `ExecuteDue`, `TickAborted`, `TickEnd` | `tick` |
| `NotReady`, `CollectReady`, `ExecuteReady`, `NotResumed`, `Resume`, `Answered` | `continueIfReady` |
| `CrashRestart`, `Reconcile`, `RecoverTurn` | interrupted attempts to outcome-unknown, `reconcileApprovedSkillActions`, `recover` |

`ExternalCall` is what the user is promised; `OneCallOneVerdict` is its
specification under the mapping `Phase` (open or called by the count of calls,
closed or recorded by the verdict in the row).

### TaskSchedule

`row` is `task_schedules`, `run[s][slot]` the row of `task_schedule_runs` for that
slot (completed and failed are one value, `ended`: the schedule goes on alike),
`flights` the executions of this process, `queue` and `loop` the list `runDue` read
and where its loop is. Time is counted in coarse instants; a run ends at a later
instant than it began. Starting a run (look for a running one, insert, ask the
character) has no await and is one step, `Begin`; the end, `Finish`, ends the row of
the run and advances the schedule in one task. These are two statements, each
committed by itself, and the process may die between them: the `Cut...` steps are
`Begin` and `Finish` with a death at that place (`CutNow`, `CutDue`: the character is
not available, and the run fails at once; `CutFinish`), and `CutRestart` is a recovery
that dies with some schedules advanced and no run ended yet. `lost` remembers the
slots such a death left planned. While the loop is between two awaits
(`loop = "next"`) no request is served.

`Advanced` is `#advance`, `IntervalAfter` and `NextOccurrence` are the functions of
the same names, `RejectDue` is the rejection of the timer's callback that nothing
catches and that ends the process, `Restart` is `recover` with the new start.
`Coincide = FALSE` leaves out that a run by hand or a resumption hits the very
millisecond of a slot, `TRUE` lets it.

### RuntimeUpdate

`tx` are the transaction rows, `pointer` the file (its `by` is the transaction id it
holds, 0 for `rollback-<id>`), `content[root]` what `inspectHarnessCandidate` finds
in a directory (`None`: not usable), `request[h]` the local variables of a
request (operation, row read, version inspected, pointer read), `cli` those of
`runtime-rollback`. Every await is a boundary between two steps: inspect, read
the pointer, write the pointer, record, restore. The write of the pointer is a
rename, so the file is always whole. `Change` is the user's package manager at
work in a directory. `Start` is `resolveActiveRuntime`: it refuses when the
directory does not hold the version of the pointer. The backup before a switch
reads only and appears as the time that passes before the next step, or as its
failure (`GiveUp`).

### WorldAuthority and WorldPermission

`staff`, `authority`, `decided` and `adminPointer` are the characters' rows, their
authority rows, those with a change on record, and the pointer of the world. Each
operation of the authority service is one synchronous transaction and one action
(`ChangeAuthority` is their choice); permissions are told apart by what the rules
tell apart: whether they manage, and who holds them from the start.
`request`, `late`, `action` and `turn` are the rows of one turn's actions, `hand`
the memory of each handler (`direct`, one per decision, `recover`), lost in a
crash. `Handle` goes one step on, between two awaits or two durable writes;
`KillServer` may come between any two. `AllowOnce` and `Grant` are the owner's
answers, `SettleGrant` the second write of the latter, `Recovery` the steps of the
start.

### Conversation and HarnessRouter

`Conversation` keeps for each turn ((`talk`) its runs (`asked`) and where its
handler waits (`place`): the world's directory, its place in the character's
queue, the worker. `log` is the transcript of each session, `heard` what a
worker's session was given or said; `Prompt` replays the rest, up to
`HistoryMax`. A run completes from its answer or, when the worker's final response is
empty, with nothing stored (`Outcome` `empty`). `RestartTalks` is the repair of rows at
the start.

`HarnessRouter` looks at the same calls from below: `entry` and `made` are the
router's adapters by model and fingerprint, `worker[a][e]` the worker of a
character in an adapter, `line[a][e]` its queue, and `job` where each turn is:
entering (an adapter of other settings is being closed), queued, running, failed
(the router has not looked at it yet), resetting (its worker is being closed for a
retry). `Fail` leaves the line first, so that another turn may begin before the
router closes the worker.

### PackageLibrary, CharacterGrowth, LocalBackup, ApplicationUpdate

`PackageLibrary` has three stores, the rows (`shelf`, `receipts`, `rows`), the files
of the library (`disk`) and those of worlds (`folders`, `copies`); every await of an
installation (`InstallStep`), a copy (`CopyStep`) or a removal lets the others go
on. `CharacterGrowth` walks over completed turns one milestone and one journal at
a time (`Mark`, `Note`), each its own transaction, while the owner and a prune of the
command line write too. `LocalBackup` reads a file twice, digest and content,
while the server writes it, and restores one directory after the other; a file is
two chunks with a version each. `ApplicationUpdate` has one step per command of git,
numbered revisions, and the check of the settings page beside the update.

### WorldStage and WorldLive

`pending` are the events after the snapshot, `entity` what their projection made of
each character, `presence` the row a tick reads, `plans` and `leases` the store of
the simulation. A tick goes through its writes one by one (`TickStep`) but only
`RestartStage` comes between them, since the slots are resolved without waiting.
`WorldLive` counts states by their sequence number: `said` is the last published,
`view` what the panel shows, `held` what a reader of the numbered stream has;
`wire` and `flow` are the frames still under way, lost with a connection.

### ChatClient, ModelProfiles, WorldSettings, Attachments, Integrations, WorldTrace

Each has the server's side and a page's. A request is under way between two
actions, so that whatever happens in between is what its answer meets. In
`ChatClient` `pane` is what is open, `page` what it shows, `opening`, `loading`,
`older` and `fetches` the loads. In `ModelProfiles` a change of a key is a write of the
vault (`Rename`) between its start and its answer, and `vault`, `active` and `vaultFile`
are the key in memory, in the environment and on disk. In `WorldSettings` a save
reads the file and compares the revision first (`ReadCurrent`) and renames its
text over the file later (`Commit`). In `Attachments` `Place` puts a file in its
place and `Describe` names it; `Undo` takes it away when describing fails. In
`Integrations` `drafts` are the writes of the two files, which may land in either
order. In `WorldTrace` `listed` is what the panel holds, merged by time from frames
and pages (`pageAsks`).

## 4. The runs

| Run | Instance | Checks |
|---|---|---|
| `GateImmediate` | one action of each kind (home device, web search, MCP tool), executed at once; no crash | `TypeOK`, `AtMostOnce`, `RefusedNeverCalled`, `AnsweredOnce`, `AnswerStands`, over all interleavings of the proposal, three decisions, expiry, the timer and the continuation |
| `GateRestart` | device and search, one crash, fairness | `CallsRecorded`, `NotStranded`, `OneCallOneVerdict` (implements `ExternalCall`), `TurnContinues`, `ApprovedEnds` |
| `GateScheduled` | two scheduled devices, each with a policy or without, the grant revoked and restored, one crash | `NeverEarly`, `AuthorizedWhenCalled` |
| `ScheduleRuns` | one schedule for once and one at an interval, three instants, one crash | `TypeOK`, `OneAtATime`, `RunningIsAlive`, `OncePerSlot`, `NextIsFree` |
| `ScheduleLiveness` | the same with a batch of one, two instants and two crashes (so that one may hit the recovery), fairness | `DueIsRun`: what is due is run or stops being due, but for a lost slot, or with a full batch of lost ones before it |
| `RuntimeUpdate` | two transactions, directories and versions; one change, two deaths, one request at a time, fairness | `TypeOK`, `OnlyPassed`, `ActivatedTried`, `RollbackStands`, `RuntimeStarts` |
| `Turns` | *talks*: four turns of two characters in three rooms with two models, a history of three lines, one trouble; *permissions*: three characters, two actions, two decisions, one death | `TurnsStand`, `AdminRemains`, `StepsStand`, `TurnsEnd` |
| `OwnerDesk` | *chats*, *models*, *settings*, *files*, *links*, *trace*: one or two of each thing the owner opens, saves or sends, one or two mishaps | `DeskTypes`, `ConversationsKept`, `ProfilesKept`, `SeenBeforeReplaced`, `CarriedIsReal`, `LinksKept`, `PanelTellsTheEnd` |
| `Workshop` | *library*: three installations (one made by a build), two copies; *growth*: two turns of one of two characters; *backup*: three areas; *update*: three revisions, two of which do not build; *router*: three turns of a character, two adapters | `LibraryStands`, `GrowthStands`, `UpkeepStands`, `TurnsKept` |
| `WorldLife` | *stage*: two characters, six posts, two plans, one death; *stream*: two states, a cut, a failure, a toggle | `LifeStands`, `LifeSettles` |
| `GateDoubleCall`, `SettingsOverwritten` | | counterexamples, section 6 |

All values are model values or small numbers; every bound is a constant named
`Max...`. `MaxCalls = 2` lets a second call show and no more.

**Components side by side.** `Turns`, `OwnerDesk`, `Workshop` and `WorldLife` each check
several components that share no state: `part` is chosen at the start and only
that component moves, the others stay in an initial state (where they have
several, in one of them). So such a run is the sum of the components' runs, not
their product, and its properties are the components' own, joined by `/\`. (`ConversationsKept` states its first
half for one direct session a character, which the three conversations of this
run keep to; section 6 says what a second one does.) The two versions of
`Workshop` are symmetric. Two properties are
joined liveness properties: `TurnsEnd` says of whichever part moves what
`RecoveredTurnEnds` and `TalksEnd` say, `LifeSettles` what `PlansEnd` and `CatchesUp` do; for the
part that stands still both are true from the first state.

**Why the bounds are enough to be of use.** Every conflict in the gate is between
two handlers on one action or two actions in one handler's list, so three
actions (one of each kind of await) cover a handler, the one that overtakes it
and a bystander; one crash covers each pair of adjacent writes, since a restart
forgets all memory and the second crash starts from rows a first could leave
(not quite: see `CallsRecorded` in section 6). A schedule meets its own past and
one other in the queue; three instants with an interval of one give a slot that
is past, present and planned. Two transactions give a runtime to return to.
`ActivatedTried` needs `MaxChanges = 1` (a directory changed away and back between
verification, canary and activation defeats the comparison of versions, as it
must). `RollbackStands` is checked with one request at a time and the command only
while the server is down: with two requests it fails (see the hazard at
`runtime-update-service.ts:139`). In a conversation four turns are needed for one
that is under way, one that overlaps it in the room, a peer's and a later one
that hears them. In a promotion the actor, the administrator and a bystander are
three. A build, its installation and a second release, with the copies in a
world and one crash, meet every compensation. Two pages, an administrator and
two edits make every overlap of two saves; two copies of the pages add nothing,
as pages only share the file.

**Deadlock** is checked in the gate, the permissions of `GateImmediate` to
`GateScheduled` and in `RuntimeUpdate`; in the others the clock, the edits or the
mishaps end, which is a stop of the model and not of the program, and
`CHECK_DEADLOCK FALSE` says so. Who waits for whom there is what the liveness
properties (`DueIsRun`, `TurnsEnd`, `LifeSettles`) tell.

**Fairness.** In the gate, strong fairness of every handler: Node runs every task
it has, and adapters and model turns have time-outs, so an awaited operation
ends; strong, because whoever is between two awaits disables all others, again
and again. Time passes (`BecomeDue`, `Lapse`). The user need not decide: expiry
must suffice. In the schedules: the timer fires, model turns end, the
supervisor or user starts the process again, time passes. In the runtime
update: the server is started again, the user who is told to run the command
does, and the command ends. In the turns: every handler of a permission goes on,
and a turn that is not waiting for another takes its next step. In the world:
the tick goes on (weak) and time passes (strong, as a tick holds the clock again
and again); in the stream, frames under way arrive and a page that lost its
connection connects again, as `EventSource` and the client's timer do. No fairness
on any choice of the user otherwise.

`NotStranded` speaks of the time before a crash only: after one, a proposal may
indeed be left undecided for a turn that is over (section 6).

## 5. The proofs

TLAPS proves the following for all values of the constants; the assumptions
are the named `ASSUME`s of the modules (which constants are numbers, sets of each
other, or distinct), which TLC evaluates in the runs, and the hypotheses given
here.

**`ApprovalGateProofs`** rests on `Typed`, `PolicyInv` (a policy covers exact targets
of actions not refused), `FreshInv` (nobody touches an action before `direct`
authorised it) and `CallInv` (what is refused was not called, and who is past
the check holds an action that cannot be refused any more):

* `TypeCorrect`, `RefusalsHold`: `[]TypeOK` and `[]RefusedNeverCalled`. The latter is not
  inductive: a handler past the check may hold the action while the user
  decides, a policy may stand in for a request, and a fresh row has no request.
* `NothingEarly`: `[]NeverEarly`. `TimeInv` says whose reading of the clock is late
  enough: a handler that holds a scheduled action past the guard read the clock
  after its time, as did the lists of the timer.
* `TurnAnsweredOnce`: `AnsweredOnce`. `AnswerInv`: while `direct` prepares the turn it runs,
  and a turn that runs so, or waits, is unanswered and nobody is at its answer.
* `CallsAuthorized`: `AuthorizedWhenCalled`, if `Probed = {}`. The hypothesis is needed:
  a preflight that is awaited gives the owner time to revoke (section 6).

**`ApprovalGateProofs`, its second part**, is about actions executed at once, `Immediate`: nothing is
scheduled, and the grant is not withdrawn and given back while payloads have to
be deleted. Both are needed: with scheduled actions the timer works on rows it
listed before its calls (`GateDoubleCall`), and a refusal that awaits the deletion
of a payload may be saved over a call that a restored grant allowed.

* `CalledAtMostOnce`: `[]AtMostOnce`. The invariant relates three copies of a row: what
  the store holds (`RowInv`: an attempt that began is never taken back to before it),
  what a handler holds (`CopyInv`: two handlers are never both before the claim of
  one action) and what lists hold (`ListInv`: a listed row that has moved on is not
  armed).
* `GateImplementsCall`: `OneCallOneVerdict`, the refinement of `ExternalCall` under
  `Phase`: the initial state maps to `Init`, and each action of the gate to a call, a
  closing, a record, or no step.
* `VerdictsRecorded`: `[]CallsRecorded`, if the grant does not change. `RecordInv`: a row
  that was called and is not settled is at the handler that awaits the call
  (`OpenInv`), and the restart that removes the handler settles the row.
* `AnswerKept`: `AnswerStands`, if the grant does not change (with a changing one it
  is false, section 6). The invariant `Standing` joins three views: a row that is
  neither armed nor done waits for its decision or somebody has it at hand
  (`StandRow`); a handler that goes on with the turn has every action done or on
  its list (`HandInv`); what `direct` is going to answer from is final (`DirectInv`). Done
  is forever by the refinement of `ExternalCall`, so that what was answered from is
  never claimed again.
* `TurnNotStranded`: `[]NotStranded`, under the same hypothesis (which the proof rests
  on; TLC met no counterexample without it) and without policies granted before
  the turn (with them a turn can be parked for nothing, `GateLostWakeup`). `AliveInv` says who will see to a turn that waits: an action is
  `Open`, or a handler is `Bound` to come back to `continueIfReady`. A handler that leaves
  because another action is undecided finds that one open or with its own
  handler (`WaitInv`); one that leaves because an executor is inside the boundary
  finds it bound (`BoundaryInv` and `OpenInv`). The invariant speaks of the time before
  the first crash, as the property does.

**`TurnsProofs`** is about both parts of `MCTurns`. Of `WorldPermission`: `WorldIsAdministered`
(`[]AdminRemains`), `CarriedOutOnce` (`[]AtMostOnce`), `SettledWhenHeld`
(`GrantedMeansHeld`), `PermissionTyped`. `Administered`
strengthens the first to: there is always an administrator, who holds what
manages a world; each operation of the authority keeps one even while it
changes several rows. For the second, `HandsSound` (what a handler is about to do
is what the row still allows), `AheadUnheard` and `AheadAvoided` (an action ahead of
the turn's list is nobody else's), `CountedByRow` (a call is in its row).

Of `Conversation`, for all characters, sessions, models, casts and budgets, `TalkInv`:

* `TurnsKept` and `QueuesKept` say what a turn has in each place (a turn with a worker
  is the first of its character's line, so that no two share one), `MessagesKept`
  that a message is of a run its turn has come to and, while the turn is under
  way, of an earlier one than the run that has not spoken. From these, `AnswersKept`: every
  run before the one under way ended well, and its answer stands unless its final
  response was empty (`CompletedIsAnswered`).
* `NothingMissed` needs what a live session knows *between* turns, when nobody
  looks. `SessionsKept`: whatever a character's session has heard in a room that was not
  crossed reaches up to the last thing its character said there (`KnowsRoom`), which
  is what `unseenHistory` takes for granted when it replays only what came after.
  It holds as the session is the only one of its character (`OneSession`), the turn
  is alone and recovered the newest of what others said (`RoomsKept`), and whoever
  is asked has heard that and the turn so far (`HearsKept`). That the newest of a part
  of the transcript contain the part's share of the newest (`NewestOfPart`) is a
  fact about cardinalities, and that a watermark exists (`GreatestMember`) one about
  well-founded sets.
* `TurnsAreAnswered` (`[]TurnsStand`) and `StepsKeepFaith` (`StepsStand`) put the parts
  together: a step of one is a stutter of the other (`EachItsOwn`).

The assumption on `Peers`, each in a session of its own, is the code's (`peer` creates a
session of kind `meeting`, which neither `beginDirect` nor `group` accepts); the proof of
`KnowsRoom` needs it, as a peer turn recovers nothing.

**`WorkshopProofs`** has five parts, and `PartsStep` joins them: a step of `WorkshopSpec` is
a step of one part and leaves the others alone.

* The router: `TurnsStayKept` (`[]TurnsKept`), `RouterTyped`. The invariant `RouterInv` says
  for each place of a turn what it has: one that is queued or running stands in
  its character's line, once, only the first of the line runs, its worker is one
  of that character (`OwnWorkers`, `RunsAtHome`) and no two turns have the same; one
  that was seen is on its way out (`JobsInOrder`). A worker is numbered when it is
  spawned, so that one replaced after a failure is another.
* `UpkeepIsSound` (`[]UpkeepStands`) from `UpdateMergesVerified` and `RestorationIsWhole`. An
  update merges what it built because the branch it looks at only grows: the
  revisions a check, its candidate and its page hold are ordered (`UpdateInv`). If the
  branch is fetched again after the last look, what is merged is a later revision
  that nobody built (`UnverifiedMerge`): the theorem says that this is the only
  exception, and that what was taken as verified did build. A
  restoration is whole because a file of the bundle is digested as it was copied
  (`BackupInv`), for any set of areas and any place a death may cut.
* `LibraryKeepsFaith` (`[]LibraryStands`). `LibraryInv` says which file, row and copy each
  step of an installation, an activation, a removal and a build may rest on. For a
  build taken back, "leaves nothing" is proved in the stronger form the proof
  needs: also for builds whose compensation is over and not answered yet (`Undone`).
* `GrowthRecordsOnce` (`[]GrowthStands`), if `FewRuns`: a character has at most as many runs
  as the projection reads milestones (500 in the code). Beyond it the statement is
  false (`ConsumedOnce` in section 6). `WalkKnows`: what a walk has passed is named by a
  journal. The proof showed that a run need not be named by the journal of its
  *own* date, since the owner may write of it under another; TLC confirmed it
  with two days, and `Written` says so now.

**`ChatClientProofs`, `DeskRecordsProofs` and `OwnerDeskProofs`** are about the owner's
pages: the first two have the components' invariants and steps, the third joins
them (`DeskSteps`) into theorems of `DeskSpec`, and `DeskStaysTyped` (`[]DeskTypes`).

* `ConversationsStayKept` (`[]ConversationsKept`). `ChatInv`: every session that a turn, a
  binding or a refresh names has its key (`KeysFit`); the client knows the sessions
  it has met of the open world (`AllKnown`), so that a key it does not know is new; a
  group opened from another world has no turn of its world yet (`ForeignGroup`); a
  refresh that a turn settles with carries its answer (`AnswersMeet`). While each
  character has one direct session a key stands for one session (`OneForEach`), and
  what a refresh brings is of the open conversation (`PageStands`).
* `ModelsKeepKeys` (`[]ProfilesKept`). `KeysInv`: of the requests that change the key of a
  profile, the one that came last decides, and `HasSince` says that every text of the
  vault written since, on its way or in the file, has the key; a failed request
  puts back what these texts have. `PageFollows`: the answers under way, in the order
  of their commits, lead from the list on the page to the list in the store. The
  proof failed on `outpaced`, which named an older text only when two writes were
  under way; with three requests TLC found the violation, and the variable now
  remembers which write is in the file.
* `LinksStayKept` (`[]LinksKept`). For each of the two files: the newest write under way
  has the text of the memory, or all writes under way are overtaken and the file
  has it; and the arguments of a parked call are in every text that may yet be
  read back (`CallsLand`, `FilesStand`). `IndexStands`: the index has the tools, or a
  request is still to index them, or a discovery that was given up has published.
* `PanelIsTold` (`[]PanelTellsTheEnd`). `EndTold`: for each run that looks ended there is a
  change such that every entry as late as it, in the panel, in a frame or in a page
  under way, says how the run ended (`LateOnes`), and such an entry is in the panel
  or comes (`Comes`). Merging keeps the later of two entries of a run.
* `RevisionProtects` (`[]SeenBeforeReplaced`), `SettingsTyped`: a page's revision is tied to
  the content it was shown, as long as the world is not among those where two
  saves overlapped.
* `CarriedStaysReal` (`[]CarriedIsReal`), `FilesTyped`. `FilesInv`: a description is written
  last (`DescribedLast`), its file is in place before (`PlacedIsWhole`), and a failure only
  undoes what has no description yet.

**`TaskScheduleProofs`**: `ScheduleTypes`, `OneRunAtATime`, `RunsAreAlive` with `Agree`, which
ties running rows to executions in both directions except for a deleted
schedule; `IntervalAfterRange` is the arithmetic: the next slot is after now and at
most one interval later. `PlannedIsFree` (`[]NextIsFree`) if `~Coincide`: the slot
planned is later than every run of the schedule, but for a run by hand, which
takes an instant no slot has. Slots that a death between the two writes of the
end left planned (`lost`) are excepted, as they are in the property; the deaths
inside `#execute` and inside the recovery are steps of the proof like the others.
`RunOncePerSlot` is `OncePerSlot`.

**`RuntimeUpdateProofs`**: `RuntimeTypes`, `ActiveHasPassed` with any number of requests and
the command at any time. `IInv` adds what the copies rest on: a request works on
a row that exists, names a directory, holds a version where it is about to
write one, activates only what passed and restores only what passed.
`ActivatesTheTried` (`[]ActivatedTried`) if `MaxChanges <= 1`: `TriedInv` follows which
content was inspected before and after the one change. `RolledBackStays`
(`[]RollbackStands`) if `Alone`, one request at a time and the command only while the
server is down; `BackInv` says what the one request may still write.

**Only model-checked**:

* Liveness (`TurnContinues`, `ApprovedEnds`, `DueIsRun`, `RuntimeStarts`, `TurnsEnd`, `LifeSettles`):
  out of the prover's reach, as is `ENABLED`.
* `TurnContinues` above all: `NotStranded` is its safety half, proved; that the bound
  handler is scheduled, and the timer fires, is fairness.
* `LifeStands`.
* What `WorldStage` computes by folding over its events: induction over data is out
  of reach.

## 6. Where the code departs from what is said of it

Two runs end in a counterexample (`findings` in `PROJECT.json` quotes the sentence):

* `GateDoubleCall`: the timer lists two scheduled actions and awaits the first
  call; meanwhile a decision executes the second; the timer saves its stale copy
  over the settled row, arms and claims it again. Two calls.
* `SettingsOverwritten`: two saves on one revision both read the file before either
  renames its own; both are answered, the first change is gone.

More configurations show a departure and are kept as demonstrations (`tlc
-config X.cfg M` ends in a counterexample to the one property of each):

| Configuration, module | Property | What happens |
|---|---|---|
| `GateLostWakeup`, `MCApprovalGate` | `TurnContinues` | a decision during `prepare` finds the turn running; `direct` then parks it by older copies, and nobody continues it |
| `GateMissedSchedule`, `MCApprovalGate` | `ApprovedEnds` | a crash after a scheduled action was approved; the row is reconciled to a status the timer does not list |
| `SchedulePause`, `MCTaskSchedule` | `PauseStands` | a schedule paused during its run is active when it ends |
| `ScheduleStuck`, `MCTaskSchedule` | `NoneStuck` | the process dies after the row of a run was ended and before `#advance` (`task-schedule-service.ts:202`): the recovery looks for running rows only (`:232`), and each time the timer finds the schedule due it gets the ended row of the slot back (`:170`) and advances nothing, until the owner pauses and resumes or deletes the schedule; twenty such fill the list of the timer for good |
| `RuntimeUntried`, `MCRuntimeUpdate` | `OnlyTried` | a rollback activates whatever the old directory holds by now |
| `PermissionRefused`, `MCWorldPermission` | `RefusedIsFinal` | an action is refused for want of a permission that was taken away meanwhile, its row still armed; after a restart and with the permission given back the recovery carries it out, though its turn has told the refusal (`docs/architecture/world-character-authority-v1.md:111`) |
| `UnverifiedMerge`, `ApplicationUpdate` | `MergedWasVerified` | a revision fetched after the candidate was built is what gets merged (`README.md:359`) |
| `BackupUnrestorable`, `LocalBackup` | `BundleRestores` | a file written between its digest and its copy makes a bundle that is answered as good and fails its verification (`local-backup-service.ts:212`) |
| `CursorAfterCue`, `WorldLive` | `StateAfterCue` | a reader cut off after a cue comes back with the cue's id and is not sent the state that goes with it (`world-stream-hub.ts:61`) |
| `LanModelRefused`, `ModelProfiles` | `TakenCanBeAsked` | a model at an address of the local network can be saved and never asked (`profile.ts:242`) |

Met while modelling, and stated in the modules' properties or comments without a
configuration of their own:

* *Gate.* `AttemptOwned`: a refused preflight saves a stale copy over an attempt
  claimed meanwhile. `AuthorizedWhenCalled` for an action with an awaited preflight.
  `NotStranded` with a crash between a rejection and its action. `CallsRecorded` with a
  changing grant, two crashes and three actions. `AnswerStands` with a changing
  grant: the turn is answered `failed` from a row that a refusal left armed, and the
  executor that was at its preflight claims it once the grant is back.
* *Schedules.* `OnceMeansOnce`: a listed schedule for once, run by hand meanwhile, runs
  again. `FirstTimeKept`: a resumed schedule skips its first time
  (`task-schedule-service.ts:296`). `DueIsRun` with `Coincide = TRUE`: a run by hand on the
  millisecond of a slot sticks the schedule. `close` (`:55`) waits for the runs in
  flight while the loop may begin the next of its list.
* *Runtime.* The target of a rollback is chosen among rows whose directory may be
  gone (`runtime-update-service.ts:41`).
* *Permissions.* A request that listing lets expire is settled at the next start only
  (`RefusedTurnEnds`); an answer can be replaced (`OutcomeStands`); a crash between the
  request's save and the preparation leaves an action nobody takes up; a permit
  for once stays when the promotion it was for makes it needless.
* *Conversation.* With overlapping turns of one session, or a model taken up again, a
  live session misses statements, although `history-prompt.ts` says it sees what is
  unseen. *Router.* Two turns that enter a new model at once make two adapters, one
  of which nobody closes; after a failure the next queued turn begins before the
  worker is closed; a character with turns on two models runs in two adapters; a
  queued turn of a closed adapter spawns a worker; `TurnsAreLeftAlone` fails, since a
  change of settings closes the adapter under other characters' turns
  (`model-router.ts:183`).
* *Library.* `ActiveIsKept`: an installation that fails clears the files of a release
  that is active (`docs/adr/0001`, line 30); `NoOrphans`: after a crash a directory of a world
  stays that no row refers to, and transactions of a dead process stay staged.
  A world pinned to the earlier content can no longer list its packages.
* *Growth.* `ConsumedOnce`: beyond 500 milestones older ones are marked at each
  projection, and a journal the owner wrote makes a day's events be noted again; a journal that names a pruned event makes every projection throw.
* *World.* `NoneInMeeting`: a tick reads presences that nothing has written since a meeting
  began, and sends a member away; a crash in a group turn leaves the meeting open; an
  archived character with a live plan makes each tick throw; plans of a world that
  was switched off do not end; a cooldown shorter than the plans lets a crash make
  two. *Stream.* A state published between the first answer and the connection
  (`behind`) is not shown until the next one; a first request that fails is not
  tried again.
* *Client.* `OneDirect`: a scheduled task begins a second direct conversation with a
  character; with it (four conversations instead of three) `KeptApart` fails, and
  only then (`ConversationsStayKept`). A group made while its world was left opens in the other; a
  late page overwrites newer messages (`overtaken`). `TrayBelongs`: the composer keeps its
  attachments over a change of world. `ShowsItsWorld`: the settings dialog shows the
  world it was opened for (`WorldSettingsDialog.tsx:75`); its choice to inherit the model
  (`:131`) does not clear the world's.
* *Models and integrations.* Two writes of a vault may land in the other order and
  the newer key is gone at the next start; the same for tokens and arguments of
  calls; a crash during a call leaves its arguments until a start a day later;
  `UnreadIsEmpty`: a discovery that was given up may still fill the catalogue
  that a comment calls empty (`server.ts:470`).
* *Backups and updates.* `restore --force` refuses the directory it is for; a
  restoration that died after it replaced the data cannot be repeated; a failed
  final build is not taken back. *Traces.* `loadingMore` stays set when the filter
  changes during a load; a run that ends without an event stays running in the panel.

## 7. What is not modelled

* In the gate: read and write-local risks, duplicate proposals within the window,
  several turns at a time (their rows are disjoint but for policies), group
  turns. Of the world management adapter only the changes of authority, settings
  and the assigned model; other actions read or write one row.
* The text of prompts, answers, notices and audit events; decisions given as text;
  the budget of characters in a history and the redaction of credentials.
* In the schedules: `close`, validation of input, the model turn itself. In the
  runtime update: the content of reports and the backup bundle.
* Parsing of manifests, hashing and the pointer file of packages; the catalogue
  and the recruiting of roles. A build of the workshop copies one package into its
  world; a world's row and its directory are removed in one step.
* In the pages: a message whose characters are named in its text only, without an
  open conversation. The run `OwnerDesk` has one key text, so that `KeysStand` tells a
  key that is lost from one that is there, and not one key from another. `SeenBeforeReplaced` is
  about the settings file and not about the row of the assigned model, which has
  no revision.
* Routes and geometry of the world, the director's scores; the interactions
  recorded after a peer's turn.
* The protocols spoken to models, tools and devices, discovery of models, usage
  figures; generated images, the listing and preview of files.
* The access lock (a password in a file), the lock and restart of an application
  update, transport, rendering and layout, dialogs other than those named, the
  preferences of the conversation hub, static data and types: input and output
  with no interleaving of their own.

## 8. The plan

*Done*: the modules of section 3, the runs of section 4, the theorems of section
5. *Next*, in this order:

1. `LifeStands`: the types of `WorldStage` and `WorldLive` and `PlansApart`, whose leases make
   it an invariant about time.
