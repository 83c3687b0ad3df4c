---------------------------- MODULE Conversation ----------------------------
(***************************************************************************)
(* The turns of a world's conversations: a direct chat, a group round, a   *)
(* round among characters (peer) and the report that follows a delegated   *)
(* one.  Each turn runs its cast one after the other in long-lived workers *)
(* that keep a session of their own per conversation, and what such a      *)
(* session has not heard is replayed to it from the stored transcript.     *)
(*                                                                         *)
(*   conversation-orchestrator.ts   beginDirect, continueDirect, group,    *)
(*                                  peer, #runAgent, #blockAgent           *)
(*   conversation-history.ts        what is replayed                       *)
(*   harness-adapter adapter.ts     workers, sessions, queue per character *)
(*   harness-adapter model-router   one adapter per model, the retry       *)
(*   peer- and delegated-collaboration-service.ts                          *)
(*   sqlite-store.ts                turns, runs, messages, restart         *)
(*                                                                         *)
(* A handler is interrupted where it awaits: the world's directory, its    *)
(* place in the queue of the character, and the worker.  In between it     *)
(* writes several rows; a crash between two of them is not told apart from *)
(* one before or after, the restart repairs the rows alike.  A message is  *)
(* its place in the transcript; the characters of the budget, credentials  *)
(* and the text of prompts are left out.  The approval of a turn's actions *)
(* is ApprovalGate's.                                                      *)
(***************************************************************************)
EXTENDS Naturals, FiniteSets, Sequences

CONSTANTS
  Speakers,     \* characters
  Talks,        \* turns
  Rooms,        \* work sessions
  RoomOf,       \* the session of each turn
  CastOf,       \* the characters it asks, in order: round by round for a peer turn
  Peers,        \* the turns of kind peer
  ReportOf,     \* the peer turn a delegated turn reports on, or Nothing
  ModeOf,       \* the permission mode of each turn's workers
  Adapters,     \* one per model
  HistoryMax,   \* maxMessages of the history budget (24)
  MaxTogether,  \* bound: turns under way together
  MaxTroubles,  \* bound: failures, retries and empty answers, changes of the model, crashes
  Owner, Nothing

ASSUME ConversationAssumption ==
  /\ RoomOf \in [Talks -> Rooms]
  /\ \A t \in Talks : CastOf[t] \in Seq(Speakers) /\ CastOf[t] # <<>>
  /\ Peers \subseteq Talks   \* each in a session of its own
  /\ \A p \in Peers : \A t \in Talks \ {p} : RoomOf[t] # RoomOf[p]
  /\ ReportOf \in [Talks -> Peers \cup {Nothing}]
  /\ HistoryMax \in Nat /\ MaxTogether \in Nat /\ MaxTroubles \in Nat
  /\ Adapters # {}
  /\ Owner \notin Speakers /\ Nothing \notin Talks \cup Nat

VARIABLES
  talk,       \* work_turns: status
  asked,      \* agent_runs: the status of each run of a turn so far
  place,      \* the handler of a turn: what it awaits
  log,        \* messages of kind user and assistant, in the order of each session
  recovered,  \* the messages a turn under way recovered when it began
  heard,      \* what the session of a worker was given or said, or Nothing
  worker,     \* the permission mode of a running worker, or Nothing
  inLine,       \* #turnQueues: the turns a character of an adapter serves, in order
  via,        \* the adapter of the run under way
  retried,    \* the turns whose run is at its second attempt
  mood,       \* employee_instances.status
  model,      \* the adapter of the model assigned to the world
  crossed,    \* history: sessions where turns overlapped or a character had two workers
  restarted,  \* history: the process has died
  troubles

talkVars == <<talk, asked, place, log, recovered, heard, worker, inLine, via, retried, mood, model,
              crossed, restarted, troubles>>

\* gone: its process died before the handler returned.  empty: a run completed whose
\* worker gave no answer, of which no message is stored.
PlacesOfTalk == {"none", "root", "queue", "worker", "spoken", "over", "gone"}
TalkStatuses == {"none", "running", "completed", "failed"}
RunStatuses  == {"running", "completed", "empty", "failed"}
Message      == [talk : Talks, by : Speakers \cup {Owner}, run : Nat, failed : BOOLEAN]
Workers      == [Adapters -> [Speakers -> {ModeOf[t] : t \in Talks} \cup {Nothing}]]
Silent       == {Nothing}   \* no session

ConversationTypes ==
  /\ talk \in [Talks -> TalkStatuses]
  /\ \A t \in Talks : asked[t] \in Seq(RunStatuses) /\ Len(asked[t]) <= Len(CastOf[t])
  /\ place \in [Talks -> PlacesOfTalk]
  /\ log \in [Rooms -> Seq(Message)]
  /\ \A t \in Talks : recovered[t] \subseteq DOMAIN log[RoomOf[t]]
  /\ \A r \in Adapters, c \in Speakers, s \in Rooms :
       heard[r][c][s] = Silent \/ heard[r][c][s] \subseteq DOMAIN log[s]
  /\ worker \in Workers
  /\ inLine \in [Adapters -> [Speakers -> Seq(Talks)]]
  /\ via \in [Talks -> Adapters \cup {Nothing}]
  /\ retried \subseteq Talks
  /\ mood \in [Speakers -> {"available", "working", "blocked"}]
  /\ model \in Adapters
  /\ crossed \subseteq Rooms
  /\ restarted \in BOOLEAN
  /\ troubles \in 0 .. MaxTroubles

ConversationInit ==
  /\ talk = [t \in Talks |-> "none"]
  /\ asked = [t \in Talks |-> <<>>]
  /\ place = [t \in Talks |-> "none"]
  /\ log = [s \in Rooms |-> <<>>]
  /\ recovered = [t \in Talks |-> {}]
  /\ heard = [r \in Adapters |-> [c \in Speakers |-> [s \in Rooms |-> Silent]]]
  /\ worker = [r \in Adapters |-> [c \in Speakers |-> Nothing]]
  /\ inLine = [r \in Adapters |-> [c \in Speakers |-> <<>>]]
  /\ via = [t \in Talks |-> Nothing]
  /\ retried = {}
  /\ mood = [c \in Speakers |-> "available"]
  /\ model = CHOOSE r \in Adapters : TRUE
  /\ crossed = {}
  /\ restarted = FALSE
  /\ troubles = 0

\* The character of the run under way
Turn(t)     == Len(asked[t])
Speaker(t)  == CastOf[t][Turn(t)]
UnderWay(t) == talk[t] = "running"
Overlapping(t) == {u \in Talks \ {t} : UnderWay(u) /\ RoomOf[u] = RoomOf[t]}

-----------------------------------------------------------------------------
(* Mutated forms of operators below *)

\* Prompted: the answer counts as heard before it is said.
MutPrompted(t) == DOMAIN log[RoomOf[t]] \cup {Len(log[RoomOf[t]]) + 1}
\* Said: half an answer counts as said.
MutSaid(m) == TRUE
\* Watermark: whatever was said last, by whomever
MutWatermark(t, c) ==
  IF recovered[t] = {} THEN 0 ELSE CHOOSE i \in recovered[t] : \A j \in recovered[t] : j <= i
\* Blocked: the status stays.
MutDelegationBlocked(c) == mood
\* Ended: a turn ends well when its last run did.
MutEnded(t, result) ==
  IF Turn(t) < Len(CastOf[t]) THEN "running" ELSE result
\* Left: a run that said nothing keeps its place in the queue.
MutLeft(t) ==
  IF place[t] \in {"root", "worker"} THEN inLine ELSE [inLine EXCEPT ![via[t]][CastOf[t][Len(asked[t])]] = Tail(@)]

-----------------------------------------------------------------------------
(* The transcript *)

Words(t)  == log[RoomOf[t]]
Said(m)   == ~m.failed
Newest(S) == {i \in S : Cardinality({j \in S : j > i}) < HistoryMax}

\* buildConversationHistory; a peer turn has a session of its own and recovers none.
Transcript(t) == IF t \in Peers THEN {} ELSE Newest({i \in DOMAIN Words(t) : Said(Words(t)[i])})

\* lastAuthoredSequence, of the messages the turn recovered
Watermark(t, c) ==
  LET own == {i \in recovered[t] : Words(t)[i].by = c} IN
  IF own = {} THEN 0 ELSE CHOOSE i \in own : \A j \in own : j <= i

\* unseenHistory
Replayed(t, fresh) ==
  IF fresh THEN recovered[t] ELSE {i \in recovered[t] : i > Watermark(t, Speaker(t))}

\* The live prompt: what the owner asks and what this turn's runs replied so far
Prompted(t) ==
  {i \in DOMAIN Words(t) : LET m == Words(t)[i] IN m.talk = t /\ m.run < Turn(t) /\ Said(m)}

\* appendMessage
Says(t, c, n) ==
  [log EXCEPT ![RoomOf[t]] = Append(@, [talk |-> t, by |-> c, run |-> n, failed |-> FALSE])]

\* #markRunOutputUnfinished, for the runs under way of the turns in T
Unfinished(T) ==
  [s \in Rooms |-> [i \in DOMAIN log[s] |->
     LET m == log[s][i] IN
     IF m.talk \in T /\ m.run = Turn(m.talk) THEN [m EXCEPT !.failed = TRUE] ELSE m]]

-----------------------------------------------------------------------------
(* A turn begins *)

\* PeerCollaborationService.run: a character takes part in one at a time.
Collaborates(c) == \E u \in Peers : UnderWay(u) /\ \E i \in DOMAIN CastOf[u] : CastOf[u][i] = c
FreeToMeet(t)   == t \in Peers => \A i \in DOMAIN CastOf[t] : ~Collaborates(CastOf[t][i])

\* A delegated turn reports at once when its peer turn is completed.
Reports(t) == ReportOf[t] # Nothing => talk[ReportOf[t]] = "completed" /\ place[ReportOf[t]] = "over"

\* beginDirect, group and peer, up to the first await of #runAgent: the turn, the
\* owner's message, the first run and the status of its character.
BeginTalk(t) ==
  /\ talk[t] = "none"
  /\ FreeToMeet(t) /\ Reports(t)
  /\ Cardinality({u \in Talks : UnderWay(u)}) < MaxTogether
  /\ talk' = [talk EXCEPT ![t] = "running"]
  /\ recovered' = [recovered EXCEPT ![t] = Transcript(t)]
  /\ log' = IF t \in Peers THEN log ELSE Says(t, Owner, 0)
  /\ asked' = [asked EXCEPT ![t] = <<"running">>]
  /\ place' = [place EXCEPT ![t] = "root"]
  /\ mood' = [mood EXCEPT ![CastOf[t][1]] = "working"]
  /\ crossed' = IF Overlapping(t) = {} THEN crossed ELSE crossed \cup {RoomOf[t]}
  /\ UNCHANGED <<heard, worker, inLine, via, retried, model, restarted, troubles>>

-----------------------------------------------------------------------------
(* A run *)

\* The world's directory is known: the router takes the adapter of the model, and
\* the adapter queues the run behind those of the same character.
Enqueue(t) ==
  /\ place[t] = "root"
  /\ via' = [via EXCEPT ![t] = model]
  /\ inLine' = [inLine EXCEPT ![model][Speaker(t)] = Append(@, t)]
  /\ place' = [place EXCEPT ![t] = "queue"]
  /\ UNCHANGED <<talk, asked, log, recovered, heard, worker, retried, mood, model, crossed,
                 restarted, troubles>>

\* Other adapters that keep a session of the character for this conversation
TwoWorkers(t) ==
  \E r \in Adapters \ {via[t]} : heard[r][Speaker(t)][RoomOf[t]] # Silent

\* #runEmployeeTurnExclusive: a worker of another permission mode is closed with
\* all its sessions; a session that is new gets the whole history.
Prompt(t) ==
  LET r == via[t]
      c == Speaker(t)
      s == RoomOf[t]
      kept == IF worker[r][c] = ModeOf[t] THEN heard[r][c] ELSE [x \in Rooms |-> Silent]
      fresh == kept[s] = Silent IN
  /\ place[t] = "queue" /\ Head(inLine[r][c]) = t
  /\ worker' = [worker EXCEPT ![r][c] = ModeOf[t]]
  /\ heard' = [heard EXCEPT ![r][c] =
       [kept EXCEPT ![s] = (IF fresh THEN {} ELSE @) \cup Replayed(t, fresh) \cup Prompted(t)]]
  /\ place' = [place EXCEPT ![t] = "worker"]
  /\ crossed' = IF TwoWorkers(t) THEN crossed \cup {s} ELSE crossed
  /\ UNCHANGED <<talk, asked, log, recovered, inLine, via, retried, mood, model, restarted, troubles>>

\* The worker refuses the session's identity before it heard anything: another
\* session is given the whole history.
Collide(t) ==
  /\ place[t] = "worker" /\ troubles < MaxTroubles
  /\ troubles' = troubles + 1
  /\ heard' = [heard EXCEPT ![via[t]][Speaker(t)][RoomOf[t]] = Replayed(t, TRUE) \cup Prompted(t)]
  /\ UNCHANGED <<talk, asked, place, log, recovered, worker, inLine, via, retried, mood, model,
                 crossed, restarted>>

\* The answer is persisted: as it arrives, or with the end of the run if none did.
\* An answer that is empty is not, and Reply follows at once.
Speak(t) ==
  /\ place[t] = "worker"
  /\ log' = Says(t, Speaker(t), Turn(t))
  /\ heard' = [heard EXCEPT ![via[t]][Speaker(t)][RoomOf[t]] = @ \cup {Len(log'[RoomOf[t]])}]
  /\ place' = [place EXCEPT ![t] = "spoken"]
  /\ UNCHANGED <<talk, asked, recovered, worker, inLine, via, retried, mood, model, crossed,
                 restarted, troubles>>

\* The router's retry: the attempt failed by its transport before anything was
\* said, so the worker is closed and the run queued again, once.
Retry(t) ==
  LET r == via[t]
      c == Speaker(t) IN
  /\ place[t] = "worker" /\ t \notin retried /\ troubles < MaxTroubles
  /\ troubles' = troubles + 1
  /\ retried' = retried \cup {t}
  /\ worker' = [worker EXCEPT ![r][c] = Nothing]
  /\ heard' = [heard EXCEPT ![r][c] = [s \in Rooms |-> Silent]]
  /\ inLine' = [inLine EXCEPT ![r][c] = Append(Tail(@), t)]
  /\ place' = [place EXCEPT ![t] = "queue"]
  /\ UNCHANGED <<talk, asked, log, recovered, via, mood, model, crossed, restarted>>

\* The promise of the run is settled, whatever its outcome.
Left(t) == IF place[t] = "root" THEN inLine ELSE [inLine EXCEPT ![via[t]][Speaker(t)] = Tail(@)]

\* The status of the turn once a run ended: a failed one ends it.
Ended(t, result) ==
  IF result = "completed" /\ Turn(t) < Len(CastOf[t]) THEN "running" ELSE result

\* The next of the cast is asked at once, or the handler returns.
GoesOn(t, runs, moods) ==
  IF talk'[t] = "running"
  THEN /\ UNCHANGED recovered
       /\ asked' = [asked EXCEPT ![t] = Append(runs, "running")]
       /\ mood' = [moods EXCEPT ![CastOf[t][Turn(t) + 1]] = "working"]
       /\ place' = [place EXCEPT ![t] = "root"]
  ELSE /\ recovered' = [recovered EXCEPT ![t] = {}]
       /\ asked' = [asked EXCEPT ![t] = runs]
       /\ mood' = moods
       /\ place' = [place EXCEPT ![t] = "over"]

\* What is left of a run that ends well
Outcome(t) == IF place[t] = "spoken" THEN "completed" ELSE "empty"

\* The run ends well, whether it answered anything or not.
Reply(t) ==
  /\ \/ place[t] = "spoken" /\ UNCHANGED troubles
     \/ place[t] = "worker" /\ troubles < MaxTroubles /\ troubles' = troubles + 1
  /\ talk' = [talk EXCEPT ![t] = Ended(t, "completed")]
  /\ GoesOn(t, [asked[t] EXCEPT ![Turn(t)] = Outcome(t)],
            [mood EXCEPT ![Speaker(t)] = "available"])
  /\ inLine' = Left(t)
  /\ retried' = retried \ {t}
  /\ via' = [via EXCEPT ![t] = Nothing]
  /\ UNCHANGED <<log, heard, worker, model, crossed, restarted>>

\* #blockAgent
DelegationBlocked(c) == [mood EXCEPT ![c] = "blocked"]

\* The directory or the worker fails, or its turn ends otherwise than completed.
Fail(t) ==
  /\ place[t] \in {"root", "worker", "spoken"} /\ troubles < MaxTroubles
  /\ troubles' = troubles + 1
  /\ talk' = [talk EXCEPT ![t] = Ended(t, "failed")]
  /\ log' = Unfinished({t})
  /\ GoesOn(t, [asked[t] EXCEPT ![Turn(t)] = "failed"], DelegationBlocked(Speaker(t)))
  /\ inLine' = Left(t)
  /\ retried' = retried \ {t}
  /\ via' = [via EXCEPT ![t] = Nothing]
  /\ UNCHANGED <<heard, worker, model, crossed, restarted>>

-----------------------------------------------------------------------------
(* The model, the process *)

\* The owner assigns another model to the world.
SwitchModel ==
  /\ troubles < MaxTroubles
  /\ troubles' = troubles + 1
  /\ model' \in Adapters \ {model}
  /\ UNCHANGED <<talk, asked, place, log, recovered, heard, worker, inLine, via, retried, mood,
                 crossed, restarted>>

\* recoverConversationRuntimeAfterRestart; the characters keep their status.
RestartTalks ==
  /\ troubles < MaxTroubles
  /\ troubles' = troubles + 1
  /\ restarted' = TRUE
  /\ log' = Unfinished({t \in Talks : UnderWay(t)})
  /\ asked' = [t \in Talks |->
       IF UnderWay(t) THEN [asked[t] EXCEPT ![Turn(t)] = "failed"] ELSE asked[t]]
  /\ talk' = [t \in Talks |-> IF UnderWay(t) THEN "failed" ELSE talk[t]]
  /\ place' = [t \in Talks |-> IF talk[t] = "none" THEN "none" ELSE "gone"]
  /\ heard' = [r \in Adapters |-> [c \in Speakers |-> [s \in Rooms |-> Silent]]]
  /\ worker' = [r \in Adapters |-> [c \in Speakers |-> Nothing]]
  /\ inLine' = [r \in Adapters |-> [c \in Speakers |-> <<>>]]
  /\ recovered' = [t \in Talks |-> {}]
  /\ via' = [t \in Talks |-> Nothing]
  /\ retried' = {}
  /\ UNCHANGED <<mood, model, crossed>>

TalkStep(t) == Enqueue(t) \/ Prompt(t) \/ Speak(t) \/ Reply(t) \/ Fail(t) \/ Retry(t) \/ Collide(t)

ConversationNext ==
  \/ \E t \in Talks : BeginTalk(t) \/ TalkStep(t)
  \/ SwitchModel
  \/ RestartTalks

-----------------------------------------------------------------------------
(* Properties *)

\* A turn is completed only when everyone of its cast was asked, in order, and no
\* run of it failed; the answers stand, but for the runs whose answer was empty.
CompletedIsAnswered ==
  \A t \in Talks : talk[t] = "completed" =>
    /\ Len(asked[t]) = Len(CastOf[t])
    /\ \A n \in DOMAIN asked[t] :
         \/ asked[t][n] = "empty"
         \/ /\ asked[t][n] = "completed"
            /\ \E i \in DOMAIN Words(t) :
                 LET m == Words(t)[i] IN
                 m.talk = t /\ m.run = n /\ m.by = CastOf[t][n] /\ ~m.failed

\* Before it answers, a character has heard all that the conversation's budget
\* recovers, in whatever worker and session: "a live session is not replayed
\* wholesale; it receives only what it has not observed".  Turns of the
\* conversation that overlap, and a model taken up again, break it: crossed.
NothingMissed ==
  \A t \in Talks :
    place[t] \in {"worker", "spoken"} /\ RoomOf[t] \notin crossed
      => recovered[t] \subseteq heard[via[t]][Speaker(t)][RoomOf[t]]

\* Half an answer of a run that failed is not replayed as something a character
\* said.
NoHalfAnswer ==
  [][\A t \in Talks :
       Prompt(t) /\ RoomOf[t] \notin crossed =>
         \A i \in heard'[via[t]][Speaker(t)][RoomOf[t]] :
           Words(t)[i].failed => i \in heard[via[t]][Speaker(t)][RoomOf[t]]]_talkVars

\* A character that works has a run under way, in some turn; only a restart
\* leaves it at work for nothing.
WorkingHasRun ==
  ~restarted =>
    \A c \in Speakers : mood[c] = "working" => \E t \in Talks : UnderWay(t) /\ Speaker(t) = c

\* Every turn ends: no queue of a character, no retry and no other turn holds it
\* up, and once no more are begun none is under way for ever.
NoneUnderWay == \A t \in Talks : ~UnderWay(t)

TalksEnd == <>[]NoneUnderWay
=============================================================================
