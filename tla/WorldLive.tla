----------------------------- MODULE WorldLive -----------------------------
(***************************************************************************)
(* How a world reaches those who watch it: the runtime service projects    *)
(* the world's events into a snapshot and publishes it                     *)
(* (world-runtime-service.ts) to the browser's shared connection           *)
(* (runtime-stream-hub.ts, world-live-client.ts, world-client-store.ts)    *)
(* and to readers of the numbered stream (world-stream-hub.ts).            *)
(*                                                                         *)
(* A snapshot is its sequence number.  The browser also asks over HTTP,    *)
(* and those answers and the stream overtake each other; a connection may  *)
(* be lost with what it still carried, and is opened again by itself.      *)
(* An event may give a cue, which is published before the state.           *)
(***************************************************************************)
EXTENDS Integers, FiniteSets

CONSTANTS
    MaxSeq,        \* bound: events of the world
    MaxCuts,       \* bound: connections lost, of the browser and of the reader
    MaxFails,      \* bound: requests that fail
    MaxToggles     \* bound: times the watching panel goes and comes back

LOCAL INSTANCE Sequences

ASSUME LiveAssumption == {MaxSeq, MaxCuts, MaxFails, MaxToggles} \subseteq Nat

VARIABLES
    seq,           \* the sequence of the world's newest event
    cued,          \* the events that give a cue
    shown,         \* the sequence of the stored snapshot
    said,          \* the sequence of the last state published
    panel,         \* the panel is watching
    line,          \* the browser's connection is open
    wire,          \* what it still carries
    first,         \* the panel's initial request
    again,         \* its request to recover
    act,           \* the interaction it has asked for
    view,          \* the sequence of the snapshot it shows
    online,        \* it says it is in step
    behind,        \* it was left behind in one of the ways named below
    tap,           \* the reader's connection is open
    flow,          \* what it still carries
    cursor,        \* the last frame the reader received, whose id it returns
    held,          \* the sequence of the state the reader holds
    skipped,       \* the reader was told it was current when it was not
    cuts, fails, toggles

liveVars == <<seq, cued, shown, said, panel, line, wire, first, again, act, view,
              online, behind, tap, flow, cursor, held, skipped, cuts, fails,
              toggles>>
serverVars == <<seq, cued, shown, said>>
panelVars == <<panel, first, again, act, view, online, behind>>
readerVars == <<tap, flow, cursor, held, skipped>>
boundVars == <<cuts, fails, toggles>>

Sequence == 0 .. MaxSeq
Quiet == [st |-> "idle", at |-> 0]
Request == [st : {"idle", "asked", "answered", "done", "failed"}, at : Sequence]
Frame == [kind : {"ready", "recovery", "cue", "state"}, id : Sequence]

LiveTypes ==
    /\ {seq, shown, said, view, held} \subseteq Sequence
    /\ cued \subseteq Sequence
    /\ {panel, line, online, behind, tap, skipped} \subseteq BOOLEAN
    /\ wire \in Seq(Frame) /\ flow \in Seq(Frame)
    /\ cursor \in Frame
    /\ {first, again, act} \subseteq Request
    /\ cuts \in 0 .. MaxCuts /\ fails \in 0 .. MaxFails
    /\ toggles \in 0 .. MaxToggles

LiveInit ==
    /\ seq = 0 /\ cued = {} /\ shown = 0 /\ said = 0
    /\ panel = FALSE /\ line = FALSE /\ wire = << >>
    /\ first = Quiet /\ again = Quiet /\ act = Quiet
    /\ view = 0 /\ online = FALSE /\ behind = FALSE
    /\ tap = FALSE /\ flow = << >> /\ cursor = [kind |-> "ready", id |-> 0] /\ held = 0 /\ skipped = FALSE
    /\ cuts = 0 /\ fails = 0 /\ toggles = 0

-----------------------------------------------------------------------------
\* The server.

StateFrame(n) == [kind |-> "state", id |-> n]

\* Projecting the events from the stored snapshot up to n gives their cues.
Cues(from, to, cs) ==
    LET new == {k \in cs : from < k /\ k <= to}
        nth(i) == CHOOSE k \in new : Cardinality({j \in new : j < k}) = i - 1
    IN  [i \in 1 .. Cardinality(new) |-> [kind |-> "cue", id |-> nth(i)]]

\* Cues first, then the state, to every open connection.
PublishCues(n, cs) ==
    LET frames == Append(Cues(shown, n, cs), StateFrame(n)) IN
    /\ shown' = n
    /\ said' = n
    /\ wire' = IF line THEN wire \o frames ELSE wire
    /\ flow' = IF tap THEN flow \o frames ELSE flow

\* Some service appends an event of the world.
Happen ==
    /\ seq < MaxSeq
    /\ seq' = seq + 1
    /\ cued' \in {cued, cued \cup {seq'}}
    /\ UNCHANGED <<shown, said, line, wire, panelVars, readerVars, boundVars>>

\* After a turn, at each step of a run and at each tick the state is published.
PublishCurrent ==
    /\ said < seq
    /\ PublishCues(seq, cued)
    /\ UNCHANGED <<seq, cued, line, panelVars, tap, cursor, held, skipped, boundVars>>

\* Answering a snapshot projects and stores it, and publishes nothing: its cues
\* are spent.
Answered(r) == [st |-> "answered", at |-> seq]

AnswerFirst ==
    /\ first.st = "asked"
    /\ first' = Answered(first)
    /\ shown' = seq
    /\ UNCHANGED <<seq, cued, said, line, wire, panel, again, act, view, online,
                   behind, readerVars, boundVars>>

AnswerAgain ==
    /\ again.st = "asked"
    /\ again' = Answered(again)
    /\ shown' = seq
    /\ UNCHANGED <<seq, cued, said, line, wire, panel, first, act, view, online,
                   behind, readerVars, boundVars>>

\* The event asked for, and for most actions one that completes it.
AnswerInteraction ==
    /\ act.st = "asked"
    /\ \E n \in {1, 2} :
          /\ seq + n <= MaxSeq
          /\ seq' = seq + n
          /\ cued' \in {cued, cued \cup {seq + 1}}
          /\ act' = [st |-> "answered", at |-> seq + n]
          /\ PublishCues(seq + n, cued')
    /\ UNCHANGED <<line, panel, first, again, view, online, behind, tap, cursor,
                   held, skipped, boundVars>>

-----------------------------------------------------------------------------
\* The browser.

\* The panel subscribes to the shared connection and asks for its first state.
Watch ==
    /\ ~panel
    /\ toggles < MaxToggles
    /\ toggles' = toggles + 1
    /\ panel' = TRUE
    /\ first' = [st |-> "asked", at |-> 0]
    /\ UNCHANGED <<serverVars, line, wire, again, act, view, online, behind,
                   readerVars, cuts, fails>>

\* It stops watching (the message history is opened): what was asked for is
\* dropped, and nobody listens to the connection.
Unwatch ==
    /\ panel
    /\ panel' = FALSE
    /\ first' = Quiet
    /\ again' = Quiet
    /\ UNCHANGED <<serverVars, line, wire, act, view, online, behind, readerVars,
                   boundVars>>

\* The ready frame carries nothing; its id stands for what was published before.
\* The connection is shared and outlives the panel for a moment only.
OpenLine ==
    /\ ~line
    /\ panel
    /\ line' = TRUE
    /\ wire' = <<[kind |-> "ready", id |-> said]>>
    /\ UNCHANGED <<serverVars, panelVars, readerVars, boundVars>>

CloseLine ==
    /\ line
    /\ ~panel
    /\ line' = FALSE
    /\ wire' = << >>
    /\ UNCHANGED <<serverVars, panelVars, readerVars, boundVars>>

Pending == first.st \in {"asked", "answered"}
CutLine ==
    /\ line
    /\ cuts < MaxCuts
    /\ cuts' = cuts + 1
    /\ line' = FALSE
    /\ wire' = << >>
    /\ online' = IF panel THEN FALSE ELSE online
    /\ UNCHANGED <<serverVars, panel, first, again, act, view, behind, readerVars,
                   fails, toggles>>

Newer(n) == IF view > n THEN view ELSE n

\* A ready that comes before the first state is taken for the first, although
\* that state may be older than the connection.
MutOnReady(n) ==
    /\ online' = TRUE
    /\ UNCHANGED <<again, behind>>
OnReady(n) ==
    IF first.st = "done"
    THEN /\ online' = FALSE
         /\ again' = [st |-> "asked", at |-> 0]
         /\ UNCHANGED behind
    ELSE /\ online' = TRUE
         /\ behind' = (behind \/ (first.st = "answered" /\ first.at < n))
         /\ UNCHANGED again

Hear ==
    /\ line
    /\ wire # << >>
    /\ wire' = Tail(wire)
    /\ LET f == Head(wire) IN
       \/ /\ panel /\ f.kind = "ready"
          /\ OnReady(f.id)
          /\ UNCHANGED view
       \/ /\ panel /\ f.kind = "state" /\ f.id >= view
          /\ view' = f.id
          /\ online' = TRUE
          /\ UNCHANGED <<again, behind>>
       \/ /\ panel /\ f.kind = "cue" /\ f.id >= view
          /\ online' = TRUE
          /\ UNCHANGED <<view, again, behind>>
       \/ /\ ~panel \/ (f.kind # "ready" /\ f.id < view)
          /\ UNCHANGED <<view, again, online, behind>>
    /\ UNCHANGED <<serverVars, line, panel, first, act, readerVars, boundVars>>

TakeFirst ==
    /\ first.st = "answered"
    /\ first' = [st |-> "done", at |-> 0]
    /\ view' = Newer(first.at)
    /\ online' = TRUE
    /\ UNCHANGED <<serverVars, line, wire, panel, again, act, behind, readerVars, boundVars>>

\* Nothing asks for the first state a second time.
FailFirst ==
    /\ Pending
    /\ fails < MaxFails
    /\ fails' = fails + 1
    /\ first' = [st |-> "failed", at |-> 0]
    /\ online' = FALSE
    /\ behind' = TRUE
    /\ UNCHANGED <<serverVars, line, wire, panel, again, act, view, readerVars,
                   cuts, toggles>>

TakeAgain ==
    /\ again.st = "answered"
    /\ again' = Quiet
    /\ view' = Newer(again.at)
    /\ online' = TRUE
    /\ UNCHANGED <<serverVars, line, wire, panel, first, act, behind, readerVars, boundVars>>

\* Nothing asks again: the panel says it is reconnecting.
FailAgain ==
    /\ again.st \in {"asked", "answered"}
    /\ fails < MaxFails
    /\ fails' = fails + 1
    /\ again' = Quiet
    /\ online' = FALSE
    /\ behind' = (behind \/ view < said)
    /\ UNCHANGED <<serverVars, line, wire, panel, first, act, view, readerVars,
                   cuts, toggles>>

Interact ==
    /\ panel
    /\ act.st = "idle"
    /\ first.st = "done"
    /\ act' = [st |-> "asked", at |-> 0]
    /\ UNCHANGED <<serverVars, line, wire, panel, first, again, view, online,
                   behind, readerVars, boundVars>>

\* The answer replaces what is shown, also when the stream has gone further.
TakeInteraction ==
    /\ act.st = "answered"
    /\ act' = [st |-> "done", at |-> 0]
    /\ view' = act.at
    /\ online' = TRUE
    /\ behind' = (behind \/ act.at < view \/ ~panel)
    /\ UNCHANGED <<serverVars, line, wire, panel, first, again, readerVars, boundVars>>

-----------------------------------------------------------------------------
\* A reader of the numbered stream connects with the last id it received, and
\* is sent the state unless that id is the world's newest.

Connect ==
    /\ ~tap
    /\ tap' = TRUE
    /\ shown' = seq
    /\ flow' = IF cursor.id # seq
               THEN <<[kind |-> "recovery", id |-> seq], StateFrame(seq)>>
               ELSE <<[kind |-> "ready", id |-> seq]>>
    /\ skipped' = (skipped \/ (cursor.id = seq /\ held < seq))
    /\ UNCHANGED <<seq, cued, said, line, wire, panelVars, cursor, held, boundVars>>

Receive ==
    /\ tap
    /\ flow # << >>
    /\ flow' = Tail(flow)
    /\ cursor' = Head(flow)
    /\ held' = IF Head(flow).kind = "state" THEN Head(flow).id ELSE held
    /\ UNCHANGED <<serverVars, line, wire, panelVars, tap, skipped, boundVars>>

CutTap ==
    /\ tap
    /\ cuts < MaxCuts
    /\ cuts' = cuts + 1
    /\ tap' = FALSE
    /\ flow' = << >>
    /\ UNCHANGED <<serverVars, line, wire, panelVars, cursor, held, skipped, fails, toggles>>

-----------------------------------------------------------------------------
Progress ==
    \/ AnswerFirst \/ AnswerAgain \/ OpenLine \/ Hear \/ TakeFirst \/ TakeAgain
    \/ TakeInteraction \/ Connect \/ Receive

LiveNext ==
    \/ Progress
    \/ Happen \/ PublishCurrent \/ AnswerInteraction
    \/ Watch \/ Unwatch \/ CloseLine \/ CutLine
    \/ FailFirst \/ FailAgain \/ Interact \/ CutTap

LiveSpec == LiveInit /\ [][LiveNext]_liveVars /\ WF_liveVars(Progress)

-----------------------------------------------------------------------------
(***************************************************************************)
(* A panel that says it is in step shows at least the last state           *)
(* published, for good, however the connections were lost and the answers  *)
(* overtaken; and so does a reader of the numbered stream.  Left out are   *)
(* the ways in which the code does leave a panel behind (behind, skipped), *)
(* which the README names.                                                 *)
(***************************************************************************)
InStep ==
    /\ panel /\ line /\ online /\ ~behind => view >= said
    /\ tap /\ ~skipped => held >= said

CatchesUp == <>[]InStep

(***************************************************************************)
(* A reader that was cut off after a cue is sent the state when it comes   *)
(* back with that cue's id (server.test.ts:527-544).                       *)
(***************************************************************************)
StateAfterCue ==
    [][~tap /\ tap' /\ cursor.kind = "cue"
          => \E i \in 1 .. Len(flow') : flow'[i] = StateFrame(seq)]_liveVars
=============================================================================
