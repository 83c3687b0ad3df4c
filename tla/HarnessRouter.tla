--------------------------- MODULE HarnessRouter ---------------------------
(***************************************************************************)
(* Where the turns of the characters run: the router that keeps one        *)
(* adapter for each model (model-router.ts) and the adapter that keeps one *)
(* worker for each character and queues its turns (adapter.ts).            *)
(*                                                                         *)
(* A worker may lose its connection at any time; then the router closes    *)
(* the character's worker and runs the turn once more, unless something of *)
(* it has been seen.  Closing is a call that waits, and so is finding the  *)
(* adapter when its settings have changed, so other turns come between.    *)
(*                                                                         *)
(* What the character remembers (sessions, histories) is in Conversation.  *)
(* Of a failure, what counts is whether its status or its text says that it *)
(* may pass (a timeout, a lost connection, a 5xx) or not.                  *)
(***************************************************************************)
EXTENDS Integers, FiniteSets, Sequences

CONSTANTS
    Asks,          \* the turns that are asked of the router
    AskerOf,       \* the character of each
    ModelOf,       \* its model
    PrintOf,       \* the fingerprint of the model's settings, the effort among them
    RightsOf,      \* its permission mode
    MaxAdapters,   \* bound: adapters made
    MaxLosses      \* bound: failures and collisions of the workers

ASSUME RouterAssumption ==
    /\ DOMAIN AskerOf = Asks /\ DOMAIN ModelOf = Asks
    /\ DOMAIN PrintOf = Asks /\ DOMAIN RightsOf = Asks
    /\ \A t \in Asks : RightsOf[t] # "none"   \* a turn has a permission mode
    /\ MaxAdapters \in Nat /\ MaxLosses \in Nat

VARIABLES
    entry,         \* the adapter of each model, 0 when there is none
    made,          \* the fingerprints of the adapters made, in order
    worker,        \* the worker of each character in each adapter
    spawned,       \* workers spawned so far
    line,          \* the turns of each character in each adapter, in order
    job,           \* where each turn is
    losses         \* failures and collisions so far

routerVars == <<entry, made, worker, spawned, line, job, losses>>

Askers == {AskerOf[t] : t \in Asks}
RouteIds == {ModelOf[t] : t \in Asks}
Adapters == 1 .. MaxAdapters
NoWorker == [id |-> 0, rights |-> "none"]

\* seen: output or a tool call was shown; heard: anything was notified in
\* this run; again: this is the retry; alive: its worker has not been closed
\* under it; twice: it ran once more though it had been seen.
NewJob == [at |-> "new", in |-> 0, on |-> 0, again |-> FALSE, heard |-> FALSE, seen |-> FALSE,
           collided |-> FALSE, threw |-> FALSE, why |-> "none", alive |-> TRUE, twice |-> FALSE]

JobPlaces == {"new", "entering", "queued", "running", "failed", "resetting", "answered", "lost"}

RouterTypes ==
    /\ entry \in [RouteIds -> 0 .. MaxAdapters]
    /\ Len(made) <= MaxAdapters
    /\ worker \in [Adapters -> [Askers -> [id : Nat, rights : {RightsOf[t] : t \in Asks} \cup {"none"}]]]
    /\ spawned \in Nat
    /\ \A a \in Adapters, e \in Askers : line[a][e] \in Seq(Asks)
    /\ \A t \in Asks : job[t].at \in JobPlaces /\ job[t].in \in 0 .. MaxAdapters
    /\ losses \in 0 .. MaxLosses

RouterInit ==
    /\ entry = [m \in RouteIds |-> 0]
    /\ made = << >>
    /\ worker = [a \in Adapters |-> [e \in Askers |-> NoWorker]]
    /\ spawned = 0
    /\ line = [a \in Adapters |-> [e \in Askers |-> << >>]]
    /\ job = [t \in Asks |-> NewJob]
    /\ losses = 0

-----------------------------------------------------------------------------
(***************************************************************************)
(* Closing workers                                                         *)
(***************************************************************************)

\* The runs of the workers that are closed are cut off.
CutOff(jobs, ids) ==
    [t \in Asks |-> IF jobs[t].at = "running" /\ jobs[t].on \in ids
                    THEN [jobs[t] EXCEPT !.alive = FALSE] ELSE jobs[t]]

CloseEmployee(a, e) == [worker EXCEPT ![a][e] = NoWorker]
CloseAdapter(a) == [worker EXCEPT ![a] = [e \in Askers |-> NoWorker]]
WorkersOf(a) == {worker[a][e].id : e \in Askers} \ {0}

-----------------------------------------------------------------------------
(***************************************************************************)
(* Finding the adapter                                                     *)
(***************************************************************************)

Enqueued(t, a) == line' = [line EXCEPT ![a][AskerOf[t]] = Append(@, t)]

\* The adapter made becomes the model's, whichever was made meanwhile.
CreateAdapter(t, was) ==
    /\ Len(made) < MaxAdapters
    /\ made' = Append(made, PrintOf[t])
    /\ entry' = [entry EXCEPT ![ModelOf[t]] = Len(made) + 1]
    /\ job' = [job EXCEPT ![t] = [was EXCEPT !.at = "queued", !.in = Len(made) + 1]]
    /\ Enqueued(t, Len(made) + 1)

\* An adapter of other settings is closed, with every worker in it, before
\* the new one is made.
FindEntry(t, was) ==
    LET a == entry[ModelOf[t]]
    IN IF a = 0 THEN CreateAdapter(t, was) /\ UNCHANGED worker
       ELSE IF made[a] = PrintOf[t]
       THEN /\ job' = [job EXCEPT ![t] = [was EXCEPT !.at = "queued", !.in = a]]
            /\ Enqueued(t, a)
            /\ UNCHANGED <<entry, made, worker>>
       ELSE /\ entry' = [entry EXCEPT ![ModelOf[t]] = 0]
            /\ worker' = CloseAdapter(a)
            /\ job' = CutOff([job EXCEPT ![t] = [was EXCEPT !.at = "entering"]], WorkersOf(a))
            /\ UNCHANGED <<made, line>>

RouteTurn(t) ==
    /\ job[t].at = "new"
    /\ FindEntry(t, job[t])
    /\ UNCHANGED <<spawned, losses>>

\* The old adapter is closed: the new one is made.
Entered(t) ==
    /\ job[t].at = "entering"
    /\ CreateAdapter(t, job[t])
    /\ UNCHANGED <<worker, spawned, losses>>

-----------------------------------------------------------------------------
(***************************************************************************)
(* The queue of a character, and its worker                                *)
(***************************************************************************)

\* Whose turn it is: the first in the character's queue.
MutNextInLine(t) == TRUE
NextInLine(t) == line[job[t].in][AskerOf[t]][1] = t

\* A worker is told its permission mode by its environment, once.
Environment(t) == RightsOf[t]
Spawned(id, t) == [id |-> id, rights |-> Environment(t)]

\* A run begins on the character's worker, on a new one if there is none or
\* if the permission mode has changed.
RunTurn(t) ==
    LET a == job[t].in
        e == AskerOf[t]
        kept == worker[a][e].rights = RightsOf[t]
        id == IF kept THEN worker[a][e].id ELSE spawned + 1
        cut == IF kept THEN {} ELSE {worker[a][e].id} \ {0}
    IN /\ job[t].at = "queued"
       /\ NextInLine(t)
       /\ worker' = [worker EXCEPT ![a][e] = Spawned(id, t)]
       /\ spawned' = IF kept THEN spawned ELSE spawned + 1
       /\ job' = CutOff([job EXCEPT ![t] =
                         [job[t] EXCEPT !.at = "running", !.on = id, !.alive = TRUE,
                                        !.heard = FALSE, !.collided = FALSE,
                                        !.twice = job[t].twice \/ job[t].seen]], cut)
       /\ UNCHANGED <<entry, made, line, losses>>

\* What a worker's notifications are made into, the end of the turn apart.
Notices == {"turn.started", "reasoning.delta", "assistant.reasoning", "text.delta",
            "assistant.message", "tool.started", "tool.completed"}

\* The notices after which a turn is not tried again.
Unsafe == {"text.delta", "assistant.message", "tool.started", "tool.completed"}

\* The worker notifies (only what changes what the program knows is a step).
Notify(t, notice) ==
    /\ job[t].at = "running" /\ job[t].alive
    /\ ~job[t].heard \/ (notice \in Unsafe /\ ~job[t].seen)
    /\ job' = [job EXCEPT ![t].heard = TRUE, ![t].seen = @ \/ notice \in Unsafe]
    /\ UNCHANGED <<entry, made, worker, spawned, line, losses>>

\* What a failure says: a status of HTTP, 0 for none, and a text.
Statuses == {0, 401, 408, 429, 501, 503}
Texts == {"collision", "connection closed", "quota", "other"}

\* A failure without a code of its own is given that of its status.
CodeOf(status) ==
    CASE status = 0           -> "none"
      [] status \in {401, 403} -> "authentication"
      [] status \in {408, 504} -> "timeout"
      [] status = 429         -> "rate_limit"
      [] status >= 500        -> "upstream_unreachable"
Signals(status, text) == {CodeOf(status), text}

\* Whether a failure may pass: by its status, by its text otherwise.
MayPass(status, text) ==
    \/ status \in {408, 425, 500, 502, 503, 504}
    \/ /\ status \notin {401, 402, 403, 404, 409, 422, 429}
       /\ Signals(status, text) \cap {"authentication", "quota", "rate_limit"} = {}
       /\ Signals(status, text) \cap {"timeout", "connection closed", "upstream_unreachable"} # {}

\* The worker says that the session is in a log already.
Collides(text) == text = "collision"

\* The worker refuses a session that an earlier process left behind: before
\* anything was notified the run is repeated once with a fresh session.
MutMayRepeat(t) == TRUE
MayRepeat(t) == ~job[t].heard
Collision(t) ==
    /\ job[t].at = "running" /\ job[t].alive
    /\ ~job[t].collided
    /\ MayRepeat(t)
    /\ losses < MaxLosses
    /\ losses' = losses + 1
    /\ job' = [job EXCEPT ![t].collided = TRUE, ![t].twice = @ \/ job[t].seen]
    /\ UNCHANGED <<entry, made, worker, spawned, line>>

\* The turn that ran was the first.
LeaveLine(t) == line' = [line EXCEPT ![job[t].in][AskerOf[t]] = Tail(@)]

Succeed(t) ==
    /\ job[t].at = "running" /\ job[t].alive
    /\ job' = [job EXCEPT ![t].at = "answered"]
    /\ LeaveLine(t)
    /\ UNCHANGED <<entry, made, worker, spawned, losses>>

\* A run fails: it says so in its last notification and returns, or the call
\* throws, as it does when the worker was closed under it.  The next turn of
\* the character may begin before the router looks at the failure.
Fail(t, threw, status, text) ==
    /\ job[t].at = "running"
    /\ Collides(text) => ~MayRepeat(t) \/ job[t].collided
    /\ IF job[t].alive THEN losses < MaxLosses /\ losses' = losses + 1
       ELSE threw /\ UNCHANGED losses
    /\ job' = [job EXCEPT ![t].at = "failed", ![t].threw = threw, ![t].why = IF MayPass(status, text) THEN "passing" ELSE "denied"]
    /\ LeaveLine(t)
    /\ UNCHANGED <<entry, made, worker, spawned>>

-----------------------------------------------------------------------------
(***************************************************************************)
(* The second attempt                                                      *)
(***************************************************************************)

\* The failure may pass, nothing was shown and no tool was called, and this
\* was the first attempt.
MutSafeToRetry(t) == job[t].why = "passing" /\ ~job[t].again
SafeToRetry(t) == job[t].why = "passing" /\ ~job[t].again /\ ~job[t].seen

\* A failure that may pass: the character's worker is closed ...
ResetAgent(t) ==
    /\ job[t].at = "failed"
    /\ SafeToRetry(t)
    /\ LET a == job[t].in
           e == AskerOf[t]
       IN /\ worker' = CloseEmployee(a, e)
          /\ job' = CutOff([job EXCEPT ![t].at = "resetting"], {worker[a][e].id} \ {0})
    /\ UNCHANGED <<entry, made, spawned, line, losses>>

\* ... and the turn runs once more: in the same adapter when the failure was
\* returned, in the one the model has now when it was thrown.
TryAgain(t) ==
    /\ job[t].at = "resetting"
    /\ LET was == [job[t] EXCEPT !.again = TRUE]
       IN IF job[t].threw
          THEN FindEntry(t, was)
          ELSE /\ job' = [job EXCEPT ![t] = [was EXCEPT !.at = "queued"]]
               /\ Enqueued(t, job[t].in)
               /\ UNCHANGED <<entry, made, worker>>
    /\ UNCHANGED <<spawned, losses>>

\* Any other failure is the turn's.
GiveUpTurn(t) ==
    /\ job[t].at = "failed"
    /\ ~SafeToRetry(t)
    /\ job' = [job EXCEPT ![t].at = "lost"]
    /\ UNCHANGED <<entry, made, worker, spawned, line, losses>>

RouterNext ==
    \E t \in Asks :
        \/ RouteTurn(t) \/ Entered(t) \/ RunTurn(t)
        \/ \E notice \in Notices : Notify(t, notice)
        \/ Collision(t) \/ Succeed(t)
        \/ \E threw \in BOOLEAN, status \in Statuses, text \in Texts : Fail(t, threw, status, text)
        \/ ResetAgent(t) \/ TryAgain(t) \/ GiveUpTurn(t)

RouterSpec == RouterInit /\ [][RouterNext]_routerVars

-----------------------------------------------------------------------------
(***************************************************************************)
(* Properties                                                              *)
(***************************************************************************)

\* What a character said or did is not said or done a second time: a turn
\* whose output or tool call was seen never runs again, through the retry of
\* the router, the repetition of the adapter and the queue between them.
SeenRunsOnce == \A t \in Asks : ~job[t].twice

\* A worker serves one run at a time, though workers are closed and spawned
\* by turns that failed while others wait.
OneRunPerWorker ==
    \A t, u \in Asks :
        t # u /\ job[t].at = "running" /\ job[u].at = "running" => job[t].on # job[u].on

\* No turn repeats what was seen, and no worker serves two.
TurnsKept == RouterTypes /\ SeenRunsOnce /\ OneRunPerWorker

\* Different characters run in parallel (docs, creative-world-platform-v1):
\* the turn of one does not cut off the other's.
TurnsAreLeftAlone == \A t \in Asks : job[t].alive

=============================================================================
