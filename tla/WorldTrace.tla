----------------------------- MODULE WorldTrace -----------------------------
(***************************************************************************)
(* The trace of what the characters' runs do: the server puts an entry for *)
(* each run together from its row, the log of its model turn and the live  *)
(* entry its events keep (world-trace-service.ts, the adapters of          *)
(* world-trace/, model-interaction-service.ts), publishes it on each event *)
(* and again at the end of the request that began the run, and answers it  *)
(* in pages; the panel merges both by time (useWorldTrace.ts).             *)
(*                                                                         *)
(* Entries of one run only are ever compared in time, so a time counts the *)
(* changes of its run; two changes in one millisecond are left out, and so *)
(* are the entries that never change (domain events).  Runs begin in the   *)
(* order of their numbers.  A request begins one run, or a schedule does,  *)
(* and then no request ends with it.  Putting the entries together is one  *)
(* step, for the actions it awaits come from the same database, and so are *)
(* recording the log and ending the run.                                   *)
(***************************************************************************)
EXTENDS Integers, FiniteSets, Sequences

CONSTANTS
    TraceRuns,     \* the runs, 1 .. n
    Earlier,       \* those that were over when the panel opened
    TracePage,     \* entries in a page
    MaxAge,        \* bound: changes of a run before its last event
    MaxFrames,     \* bound: frames on their way when more are sent
    MaxTraceUpsets \* bound: cuts, deaths, failed answers, filters, pages, clearings

ASSUME TraceAssumption ==
    /\ IsFiniteSet(TraceRuns) /\ TraceRuns = 1 .. Cardinality(TraceRuns) /\ TraceRuns # {}
    /\ Earlier \subseteq TraceRuns /\ \A p \in Earlier, q \in TraceRuns \ Earlier : p < q
    /\ {TracePage, MaxAge, MaxFrames} \subseteq Nat \ {0} /\ MaxTraceUpsets \in Nat

VARIABLES
    places,        \* how far each run and the request around it have come
    runRows,       \* the run's row
    logged,        \* the outcome in the log of its model turn
    liveRuns,      \* the live entry its events keep
    timers,        \* the runs whose live entry a timer will remove
    posted,        \* the runs a request of the owner began
    baseline,      \* what the request knew of each run at its checkpoint
    cable,         \* the connection to the panel, and what it carries
    listed,        \* the entries the panel holds
    lens,          \* the panel's filter, its cursor and the flag of the page it adds
    pageAsks,      \* the requests for pages whose answers still count
    unseen,        \* the last refresh failed, so lost frames stay lost
    silent,        \* scheduled runs whose end no event told
    traceUpsets

runVars == <<places, runRows, logged, liveRuns, timers, posted, baseline, silent>>
viewVars == <<listed, lens, pageAsks, unseen>>
traceVars == <<runVars, cable, viewVars, traceUpsets>>

TraceEnds == {"success", "failed"}
NoEntry == [status |-> "none", at |-> 0, model |-> "none"]
TraceEntries == [status : {"none", "running"} \cup TraceEnds, at : 0 .. MaxAge + 3,
            model : {"none"} \cup TraceEnds]
NoRow == [status |-> "none", at |-> 0]
Rows == [status : {"none", "running", "completed", "failed"}, at : 0 .. MaxAge + 3]
TraceList == [TraceRuns -> TraceEntries]
Unlisted == [q \in TraceRuns |-> NoEntry]
FreshFrame == [run |-> 0, entry |-> NoEntry]
Answers == [after : 0 .. Cardinality(TraceRuns) + 1, show : {"all", "running"},
            st : {"asked", "answered"}, found : TraceList, next : 0 .. Cardinality(TraceRuns)]

TraceTypes ==
    /\ places \in [TraceRuns -> {"none", "marked", "running", "ended", "done"} \cup TraceEnds]
    /\ runRows \in [TraceRuns -> Rows] /\ liveRuns \in TraceList /\ listed \in TraceList
    /\ logged \in [TraceRuns -> {"none"} \cup TraceEnds]
    /\ timers \subseteq TraceRuns /\ silent \subseteq TraceRuns
    /\ posted \subseteq TraceRuns
    /\ baseline \in [TraceRuns -> [TraceRuns -> 0 .. MaxAge + 3]]
    /\ cable \in [open : BOOLEAN, frames : Seq([run : TraceRuns \cup {0}, entry : TraceEntries])]
    /\ lens \in [show : {"all", "running"}, cursor : 0 .. Cardinality(TraceRuns), more : BOOLEAN]
    /\ pageAsks \subseteq Answers
    /\ unseen \in BOOLEAN
    /\ traceUpsets \in 0 .. MaxTraceUpsets

AskFor(show, after) ==
    [after |-> after, show |-> show, st |-> "asked", found |-> Unlisted, next |-> 0]
FirstOf(show) == AskFor(show, Cardinality(TraceRuns) + 1)

\* The panel opens: it asks for the newest entries and subscribes.
TraceInit ==
    /\ places = [r \in TraceRuns |-> IF r \in Earlier THEN "done" ELSE "none"]
    /\ runRows = [r \in TraceRuns |-> IF r \in Earlier
                                      THEN [status |-> "completed", at |-> 2]
                                      ELSE NoRow]
    /\ liveRuns = Unlisted /\ listed = Unlisted
    /\ logged = [r \in TraceRuns |-> "none"]
    /\ timers = {} /\ silent = {}
    /\ posted = {} /\ baseline = [r \in TraceRuns |-> [q \in TraceRuns |-> 0]]
    /\ cable = [open |-> FALSE, frames |-> << >>]
    /\ lens = [show |-> "all", cursor |-> 0, more |-> FALSE]
    /\ pageAsks = {FirstOf("all")}
    /\ unseen = FALSE
    /\ traceUpsets = 0

-----------------------------------------------------------------------------
\* Entries.

TraceStatus(status) == IF status = "completed" THEN "success" ELSE status

\* The log kept of a run's model turn.
ModelTurn(q) == logged[q]

\* The entry the rows and the log give for a run.
Adapted(q) ==
    [status |-> TraceStatus(runRows[q].status), at |-> runRows[q].at, model |-> ModelTurn(q)]

\* Of two entries of a run the later one counts; what it lacks is kept.
Overlaid(old, new) == [new EXCEPT !.model = IF @ = "none" THEN old.model ELSE @]
Deduplicated(old, new) == IF old.at <= new.at THEN Overlaid(old, new) ELSE Overlaid(new, old)

\* An entry passes the filter.
Fits(entry, show) == show \in {"all", entry.status}

\* What the trace holds: the live entries are laid over the others.
Materialized ==
    [q \in TraceRuns |-> IF liveRuns[q].status = "none" THEN Adapted(q)
                         ELSE Deduplicated(Adapted(q), liveRuns[q])]

\* Frames reach the panel only over an open connection.
Publicize(entries) ==
    IF cable.open
    THEN /\ Len(cable.frames) < MaxFrames
         /\ cable' = [cable EXCEPT !.frames = @ \o entries]
    ELSE UNCHANGED cable

-----------------------------------------------------------------------------
\* The runs and the requests that begin them.

Upset == traceUpsets < MaxTraceUpsets /\ traceUpsets' = traceUpsets + 1

NextRun(r) == places[r] = "none" /\ \A q \in TraceRuns : q < r => runRows[q] # NoRow

\* The request takes a checkpoint of the trace before it begins a run.
Checkpoint(r) ==
    /\ NextRun(r)
    /\ posted' = posted \cup {r}
    /\ places' = [places EXCEPT ![r] = "marked"]
    /\ baseline' = [baseline EXCEPT ![r] = [q \in TraceRuns |-> Materialized[q].at]]
    /\ UNCHANGED <<runRows, logged, liveRuns, timers, silent, cable, viewVars, traceUpsets>>

Age(r) == IF liveRuns[r].at > runRows[r].at THEN liveRuns[r].at ELSE runRows[r].at

\* The row of a run changes its status.
Transition(r, to) == runRows' = [runRows EXCEPT ![r] = [status |-> to, at |-> Age(r) + 1]]

\* The outcome of the model turn is logged.
RecordTurn(r, turn) == logged' = [logged EXCEPT ![r] = turn]

StartRun(r) ==
    /\ NextRun(r) \/ places[r] = "marked"
    /\ places' = [places EXCEPT ![r] = "running"]
    /\ Transition(r, "running")
    /\ UNCHANGED <<logged, liveRuns, timers, posted, baseline, silent, cable, viewVars, traceUpsets>>

\* An event of the run is merged into its live entry and published; a failed tool
\* shows as a failure until the next event, and arms the timer like an end.
Emit(r, status, place) ==
    LET entry == [NoEntry EXCEPT !.status = status, !.at = Age(r) + 1] IN
    /\ places[r] = "running"
    /\ places' = [places EXCEPT ![r] = place]
    /\ liveRuns' = [liveRuns EXCEPT ![r] = entry]
    /\ timers' = IF status = "running" THEN timers ELSE timers \cup {r}
    /\ Publicize(<<[run |-> r, entry |-> entry]>>)
    /\ UNCHANGED <<runRows, logged, posted, baseline, silent, viewVars, traceUpsets>>

ReportProgress(r) == Age(r) < MaxAge /\ \E s \in {"running", "failed"} : Emit(r, s, "running")
ReportEnd(r) == \E s \in TraceEnds : Emit(r, s, s)

\* The outcome of the model turn is logged and the run ends; either may fail
\* although the events said otherwise.
EndRun(r) ==
    /\ places[r] \in {"running"} \cup TraceEnds
    /\ \E turn \in TraceEnds, end \in {"completed", "failed"} :
         /\ turn = IF places[r] = "running" THEN "failed" ELSE places[r]
         /\ turn = "failed" => end = "failed"
         /\ RecordTurn(r, turn)
         /\ Transition(r, end)
         /\ silent' = IF r \notin posted /\ (places[r] = "running" \/ turn # TraceStatus(end))
                      THEN silent \cup {r} ELSE silent
    /\ places' = [places EXCEPT ![r] = IF r \in posted THEN "ended" ELSE "done"]
    /\ UNCHANGED <<liveRuns, timers, posted, baseline, cable, viewVars, traceUpsets>>

\* A comparison that looks for new entries only.
MutDiffering(r, now) == {q \in TraceRuns : now[q].at # 0 /\ baseline[r][q] = 0 /\ q # r}

Differing(r, now) == {q \in TraceRuns : now[q].at # baseline[r][q]}

\* At the end of the request, whatever its outcome, the entries that differ from
\* the checkpoint are published, newest first.
PublishChanges(r) ==
    /\ places[r] = "ended"
    /\ LET now == Materialized
           changed == Differing(r, now)
           newest(k) == CHOOSE q \in changed : Cardinality({p \in changed : p >= q}) = k
       IN  Publicize([k \in 1 .. Cardinality(changed) |->
                            [run |-> newest(k), entry |-> now[newest(k)]]])
    /\ places' = [places EXCEPT ![r] = "done"]
    /\ UNCHANGED <<runRows, logged, liveRuns, timers, posted, baseline, silent, viewVars, traceUpsets>>

\* Half a minute after it looked ended the live entry is removed: longer than the
\* run takes to end after its last event.
DropLive(r) ==
    /\ r \in timers
    /\ places[r] \notin TraceEnds
    /\ timers' = timers \ {r}
    /\ liveRuns' = [liveRuns EXCEPT ![r].status = "none"]
    /\ UNCHANGED <<places, runRows, logged, posted, baseline, silent, cable, viewVars, traceUpsets>>

AsksNewest(f) == f.after > Cardinality(TraceRuns)

\* Requests for pages fail.
LosePages(lost) ==
    /\ pageAsks' = pageAsks \ lost
    /\ unseen' = (unseen \/ \E f \in lost : AsksNewest(f))
    /\ lens' = IF \E f \in lost : ~AsksNewest(f) THEN [lens EXCEPT !.more = FALSE] ELSE lens

\* The owner clears the log of model turns.
ClearLogs ==
    /\ Upset
    /\ logged' = [r \in TraceRuns |-> "none"]
    /\ UNCHANGED <<places, runRows, liveRuns, timers, posted, baseline, silent, cable, viewVars>>

\* The server dies and is started again: runs are interrupted, requests are lost.
DieTracing ==
    /\ Upset
    /\ places' = [r \in TraceRuns |-> IF places[r] = "none" THEN "none" ELSE "done"]
    /\ runRows' = [r \in TraceRuns |-> IF runRows[r].status = "running"
                               THEN [status |-> "failed", at |-> Age(r) + 1]
                               ELSE runRows[r]]
    /\ liveRuns' = [r \in TraceRuns |-> [liveRuns[r] EXCEPT !.status = "none"]] /\ timers' = {}
    /\ cable' = [open |-> FALSE, frames |-> << >>]
    /\ LosePages({f \in pageAsks : f.st # "answered"})
    /\ UNCHANGED <<logged, posted, baseline, silent, listed>>

-----------------------------------------------------------------------------
\* A page of the trace.

\* The entries that pass the filter and follow the cursor, newest first.
AnswerPage(f) ==
    LET now == Materialized
        fits == {q \in TraceRuns : now[q].status # "none" /\ q < f.after
                              /\ Fits(now[q], f.show)}
        page == {q \in fits : Cardinality({p \in fits : p > q}) < TracePage}
        least == CHOOSE q \in page : \A p \in page : q <= p
    IN  /\ f.st = "asked"
        /\ pageAsks' = (pageAsks \ {f}) \cup
              {[f EXCEPT !.st = "answered",
                         !.found = [q \in TraceRuns |-> IF q \in page THEN now[q] ELSE NoEntry],
                         !.next = IF fits = page THEN 0 ELSE least]}
        /\ UNCHANGED <<runVars, cable, listed, lens, unseen, traceUpsets>>

-----------------------------------------------------------------------------
\* The panel.

\* The panel takes whatever arrives last.
MutMergedEntry(old, new) == IF new = NoEntry THEN old ELSE Overlaid(old, new)

\* An entry is replaced only by one that is not older.
MergedEntry(old, new) ==
    IF new = NoEntry \/ old.at > new.at THEN old ELSE Overlaid(old, new)

MergedList(old, found) == [q \in TraceRuns |-> MergedEntry(old[q], found[q])]

\* Asking again begins a new generation: the answers to earlier requests are
\* dropped when they come, so the requests are forgotten here; the flag of a page
\* that was being added is not taken back.
AskAgain(show) ==
    /\ lens' = [lens EXCEPT !.show = show, !.cursor = IF show = lens.show THEN @ ELSE 0]
    /\ pageAsks' = {FirstOf(show)}

ConnectTrace ==
    /\ ~cable.open
    /\ cable' = [open |-> TRUE, frames |-> <<FreshFrame>>]
    /\ UNCHANGED <<runVars, viewVars, traceUpsets>>

CutTrace ==
    /\ cable.open /\ Upset
    /\ cable' = [open |-> FALSE, frames |-> << >>]
    /\ UNCHANGED <<runVars, viewVars>>

\* An entry is merged when it passes the filter, and a new connection asks again.
HearTrace ==
    /\ cable.frames # << >>
    /\ LET frame == cable.frames[1] IN
         /\ cable' = [cable EXCEPT !.frames = Tail(@)]
         /\ IF frame.run = 0
            THEN AskAgain(lens.show) /\ UNCHANGED listed
            ELSE /\ listed' = IF Fits(frame.entry, lens.show)
                             THEN [listed EXCEPT ![frame.run] = MergedEntry(@, frame.entry)]
                             ELSE listed
                 /\ UNCHANGED <<lens, pageAsks>>
    /\ UNCHANGED <<runVars, unseen, traceUpsets>>

\* The owner chooses another filter: the list is emptied and asked for again.
ChangeFilter ==
    /\ Upset
    /\ \E show \in {"all", "running"} \ {lens.show} : AskAgain(show)
    /\ listed' = Unlisted
    /\ UNCHANGED <<runVars, cable, unseen>>

LoadMore ==
    /\ lens.cursor # 0 /\ ~lens.more /\ Upset
    /\ lens' = [lens EXCEPT !.more = TRUE]
    /\ pageAsks' = pageAsks \cup {AskFor(lens.show, lens.cursor)}
    /\ UNCHANGED <<runVars, cable, listed, unseen>>

TakePage(f) ==
    /\ f.st = "answered"
    /\ pageAsks' = pageAsks \ {f}
    /\ listed' = MergedList(listed, f.found)
    /\ lens' = [lens EXCEPT !.cursor = f.next, !.more = IF AsksNewest(f) THEN @ ELSE FALSE]
    /\ unseen' = (unseen /\ ~AsksNewest(f))
    /\ UNCHANGED <<runVars, cable, traceUpsets>>

FailPage(f) ==
    /\ Upset
    /\ LosePages({f})
    /\ UNCHANGED <<runVars, cable, listed>>

-----------------------------------------------------------------------------
TraceNext ==
    \/ \E r \in TraceRuns :
         \/ Checkpoint(r) \/ StartRun(r) \/ ReportProgress(r) \/ ReportEnd(r)
         \/ EndRun(r) \/ PublishChanges(r) \/ DropLive(r)
    \/ ClearLogs \/ DieTracing
    \/ \E f \in pageAsks : AnswerPage(f) \/ TakePage(f) \/ FailPage(f)
    \/ ConnectTrace \/ CutTrace \/ HearTrace \/ ChangeFilter \/ LoadMore

TraceSpec == TraceInit /\ [][TraceNext]_traceVars

-----------------------------------------------------------------------------
\* Nothing is under way: every run is over, every frame heard, every page taken.
AllQuiet ==
    /\ \A r \in TraceRuns : places[r] \in {"none", "done"}
    /\ cable.open /\ cable.frames = << >> /\ pageAsks = {}

FirstPage == {r \in TraceRuns : runRows[r] # NoRow
                /\ Cardinality({q \in TraceRuns : q > r /\ runRows[q] # NoRow}) < TracePage}

\* Once all is quiet, an unfiltered panel shows each run of the first page as it
\* ended, and with its logged model turn where a request began it: neither late
\* pages and frames nor a lost connection leave it at an earlier word.  A scheduled
\* run whose end no event tells is left out, and so is a panel that could not refresh.
PanelTellsTheEnd ==
    AllQuiet /\ ~unseen /\ lens.show = "all" =>
        \A r \in FirstPage \ silent :
            /\ listed[r].status = TraceStatus(runRows[r].status)
            /\ r \in posted /\ logged[r] # "none" => listed[r].model = logged[r]
=============================================================================
