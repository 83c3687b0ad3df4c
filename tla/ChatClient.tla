------------------------------ MODULE ChatClient ------------------------------
(***************************************************************************)
(* The chat of the web client: the conversation the owner has open, the    *)
(* turns sent from it, and the transcript read back while they run, over   *)
(* the sessions the server keeps.                                          *)
(*                                                                         *)
(*   web/src/App.tsx                loadWorld, bindConversationSession,    *)
(*                                  refreshConversationTranscript, the     *)
(*                                  transcript and runtime effects,        *)
(*                                  selectSession, loadOlderMessages, send *)
(*   web/src/chat-realtime.ts       ChatTurnQueue                          *)
(*   conversation-routes.ts         chat, group-sessions, messages         *)
(*   conversation-hub-service.ts    ensureDirectSessions, list             *)
(*   task-schedule-service.ts       the session of a scheduled run         *)
(*   sqlite-store.ts                createSession, listMessagesPage        *)
(*                                                                         *)
(* A request is under way between two actions, and what has changed in     *)
(* between is what its answer meets.  A refresh is read when it is sent:   *)
(* what it brings is merged, so one read later brings no less.  A message  *)
(* is the session and its place in it; a turn is asked once and answered   *)
(* once, whoever answers.  The participants of a session are known with    *)
(* it, so the queue key of a direct session is its character, that of a    *)
(* group the session itself, and no alias differs from it.                 *)
(***************************************************************************)
EXTENDS Naturals, FiniteSets, SequencesExt

CONSTANTS
  Friends,       \* characters
  Homes,         \* worlds
  HomeOfFriend,  \* the world of each character
  FirstHome,     \* the world that is opened first
  Standing,      \* the sessions there are to begin with: [home, who] each
  MaxChats,      \* bound: sessions
  Past,          \* how many messages each of those has
  Mails,         \* turns, in the order they are sent
  PageSize,      \* MESSAGE_PAGE_SIZE
  MaxStirs,      \* bound: moves of the owner, failures and scheduled runs, together
  MaxFetches,    \* bound: refreshes under way together
  Bookings,      \* the characters with task schedules
  Crowd, Nobody

Chats == 1 .. MaxChats
Keys  == Friends \cup Chats
Posts == Chats \X (1 .. Past + 2 * Cardinality(Mails))

ASSUME ChatAssumption ==
  /\ IsFiniteSet(Friends) /\ HomeOfFriend \in [Friends -> Homes]
  /\ FirstHome \in Homes /\ Crowd \notin Keys /\ Nobody \notin Keys \cup Homes \cup {Crowd}
  /\ Friends \cap Chats = {}
  /\ Nobody \notin [to : Chats \cup {Nobody}, read : BOOLEAN] \cup [items : SUBSET Posts, read : BOOLEAN]
  /\ Standing \in Seq([home : Homes, who : Friends \cup {Crowd}]) /\ Len(Standing) <= MaxChats
  /\ \A s \in DOMAIN Standing :
       Standing[s].who \in Friends => Standing[s].home = HomeOfFriend[Standing[s].who]
  /\ Past \in Nat /\ IsFiniteSet(Mails) /\ Mails \subseteq Nat \ {0} /\ PageSize \in Nat \ {0}
  /\ {MaxChats, MaxStirs, MaxFetches} \subseteq Nat /\ Bookings \subseteq Friends

VARIABLES
  chats,      \* work_sessions, in the order they are created
  scroll,     \* the messages of each
  frames,     \* the envelopes on their way over the live stream
  pane,       \* activeWorld, activeSessionId and conversationIntent
  page,       \* messages: what the pane shows of the stored transcript
  roster,     \* sessions: those the client knows in its world
  opening,    \* the load of the open world
  loading,    \* the load of the open session's transcript
  older,      \* the loads of older pages of it
  fetches,    \* the refreshes under way
  grouping,   \* the world a group session is being created in
  mail,       \* pendingTurns, with the request each has become
  outbox,     \* outboxMessages: the turns shown before they are stored
  bubbles,    \* streamingReplies: the turns shown as being answered
  bound,      \* sessionByQueueKeyRef
  stirs,
  overtaken   \* history: a load answered after a refresh it was read before, or one failed

paneVars == <<pane, page, roster, opening, loading, older>>
turnVars == <<outbox, bubbles, bound>>
restVars == <<paneVars, turnVars, fetches, grouping, overtaken>>
chatVars == <<chats, scroll, frames, mail, stirs, restVars>>

MailSteps == {"unsent", "queued", "posted", "settling", "failing", "done", "failed"}
Jobs  == {"none", "sent", "asked", "started", "answered", "broken"}
Mail  == [step : MailSteps, key : Keys \cup {Nobody}, home : Homes \cup {Nobody},
          from : Chats \cup {Nobody}, session : Chats \cup {Nobody},
          posted : Chats \cup {Nobody}, where : Chats \cup {Nobody}, job : Jobs]
Fetch == [chat : Chats, key : Keys, home : Homes, items : SUBSET Posts,
          ends : {"nothing", "turn", "bubble"}, mail : Mails \cup {Nobody}]

ChatTypes ==
  /\ chats \in Seq([home : Homes, who : Friends \cup {Crowd}]) /\ Len(chats) <= MaxChats
  /\ \A s \in Chats : scroll[s] \in Seq([mail : Mails \cup {0}, by : {"owner", "them"}])
  /\ frames \in Seq([mail : Mails, kind : {"started", "ended"}])
  /\ pane \in [home : Homes, chat : Chats \cup {Nobody}, intent : Friends \cup {Nobody}]
  /\ page \subseteq Posts
  /\ roster \subseteq DOMAIN chats
  /\ opening \in {Nobody} \cup [to : Chats \cup {Nobody}, read : BOOLEAN]
  /\ loading = Nobody \/ (loading.items \subseteq Posts /\ loading.read \in BOOLEAN)
  /\ \A ps \in older : ps \subseteq Posts
  /\ \A f \in fetches : /\ f.chat \in DOMAIN chats /\ f.key \in Keys /\ f.home \in Homes
                        /\ f.items \subseteq Posts /\ f.ends \in {"nothing", "turn", "bubble"}
                        /\ f.mail \in Mails \cup {Nobody}
  /\ grouping \in Homes \cup {Nobody}
  /\ mail \in [Mails -> Mail]
  /\ outbox \subseteq Mails /\ bubbles \subseteq Mails
  /\ bound \in [Keys -> Chats \cup {Nobody}]
  /\ stirs \in 0 .. MaxStirs
  /\ overtaken \in BOOLEAN

Unsent == [step |-> "unsent", key |-> Nobody, home |-> Nobody, from |-> Nobody,
           session |-> Nobody, posted |-> Nobody, where |-> Nobody, job |-> "none"]

ChatInit ==
  /\ chats = Standing
  /\ scroll = [s \in Chats |-> IF s \in DOMAIN Standing THEN [n \in 1 .. Past |-> [mail |-> 0, by |-> "them"]]
                                                        ELSE <<>>]
  /\ frames = <<>>
  /\ pane = [home |-> FirstHome, chat |-> Nobody, intent |-> Nobody]
  /\ page = {} /\ roster = {} /\ older = {} /\ fetches = {}
  /\ opening = [to |-> Nobody, read |-> FALSE]
  /\ loading = Nobody /\ grouping = Nobody
  /\ mail = [t \in Mails |-> Unsent]
  /\ outbox = {} /\ bubbles = {}
  /\ bound = [k \in Keys |-> Nobody]
  /\ stirs = 0
  /\ overtaken = FALSE

-----------------------------------------------------------------------------
(* The server *)

Stirred       == stirs < MaxStirs /\ stirs' = stirs + 1
ChatsOf(w)    == {s \in DOMAIN chats : chats[s].home = w}
Newest(s)     == {<<s, n>> : n \in {m \in DOMAIN scroll[s] : m + PageSize > Len(scroll[s])}}
Before(s, n)  == {<<s, m>> : m \in {k \in 1 .. n - 1 : k + PageSize >= n}}
KeyOf(s)      == IF chats[s].who = Crowd THEN s ELSE chats[s].who
MailAt(p)     == scroll[p[1]][p[2]].mail
OldestOf(ps)   == CHOOSE p \in ps : \A q \in ps : p[2] <= q[2]

\* createSession
WithSession(w, who) == Append(chats, [home |-> w, who |-> who])

\* ensureDirectSessions: every character of the world has a direct session.
WithDirects(w) ==
  LET lonely == {c \in Friends : /\ HomeOfFriend[c] = w
                                 /\ \A s \in DOMAIN chats : chats[s].who # c}
  IN chats \o SetToSeq({[home |-> w, who |-> c] : c \in lonely})

\* The navigation lists the conversations of the open world.
ListChats ==
  /\ WithDirects(pane.home) # chats /\ Len(WithDirects(pane.home)) <= MaxChats
  /\ chats' = WithDirects(pane.home)
  /\ UNCHANGED <<scroll, frames, mail, restVars, stirs>>

\* A scheduled run talks to its character in a session of its own.
RunBooked(c) ==
  /\ c \in Bookings
  /\ Stirred
  /\ Len(chats) < MaxChats
  /\ chats' = WithSession(HomeOfFriend[c], c)
  /\ UNCHANGED <<scroll, frames, mail, restVars>>

\* The live stream carries what happens in the world it was opened for.
Told(t, kind) ==
  frames' = IF mail[t].home = pane.home THEN Append(frames, [mail |-> t, kind |-> kind]) ELSE frames

\* The session a turn goes to: the one it names, or the character's own.
Chosen(t, all) ==
  IF mail[t].posted # Nobody THEN {mail[t].posted}
                             ELSE {s \in DOMAIN all : all[s].who = mail[t].key}

\* A session of another world, or of another kind, is refused.
SuitsMail(t, s) == chats[s].home = mail[t].home /\ KeyOf(s) = mail[t].key

Refuse(t) ==
  /\ mail[t].job = "sent" /\ mail[t].posted # Nobody /\ ~ SuitsMail(t, mail[t].posted)
  /\ mail' = [mail EXCEPT ![t].job = "broken"]
  /\ UNCHANGED <<chats, scroll, frames, stirs, restVars>>

Accept(t) ==
  /\ mail[t].job = "sent" /\ (mail[t].posted # Nobody => SuitsMail(t, mail[t].posted))
  /\ chats' = IF mail[t].key \in Friends THEN WithDirects(mail[t].home) ELSE chats
  /\ Len(chats') <= MaxChats
  /\ \E s \in Chosen(t, chats') :
       /\ scroll' = [scroll EXCEPT ![s] = Append(@, [mail |-> t, by |-> "owner"])]
       /\ mail' = [mail EXCEPT ![t].where = s, ![t].job = "asked"]
  /\ UNCHANGED <<frames, restVars, stirs>>

OpenRun(t) ==
  /\ mail[t].job = "asked"
  /\ mail' = [mail EXCEPT ![t].job = "started"]
  /\ Told(t, "started")
  /\ UNCHANGED <<chats, scroll, restVars, stirs>>

FinishRun(t) ==
  /\ mail[t].job = "started"
  /\ mail' = [mail EXCEPT ![t].job = "answered"]
  /\ scroll' = [scroll EXCEPT ![mail[t].where] = Append(@, [mail |-> t, by |-> "them"])]
  /\ Told(t, "ended")
  /\ UNCHANGED <<chats, restVars, stirs>>

BreakRun(t) ==
  /\ mail[t].job = "started" /\ Stirred
  /\ mail' = [mail EXCEPT ![t].job = "broken"]
  /\ Told(t, "ended")
  /\ UNCHANGED <<chats, scroll, restVars>>

-----------------------------------------------------------------------------
(* The pane *)

OpenKey ==
  CASE pane.intent # Nobody -> pane.intent
    [] pane.intent = Nobody /\ pane.chat # Nobody -> KeyOf(pane.chat)
    [] OTHER -> Nobody

\* activeSessionId changes: the transcript on show goes and another is loaded.
Turned(to) ==
  /\ pane' = to
  /\ IF to.chat = pane.chat
     THEN UNCHANGED <<page, loading, older>>
     ELSE /\ page' = {}
          /\ loading' = IF to.chat = Nobody THEN Nobody ELSE [items |-> {}, read |-> FALSE]
          /\ older' = {}

\* loadWorld, up to its first await; the stream of the world left is closed.
OpenWorld(w) ==
  /\ Stirred
  /\ pane' = [home |-> w, chat |-> Nobody, intent |-> Nobody]
  /\ page' = {} /\ loading' = Nobody /\ older' = {} /\ roster' = {}
  /\ opening' = [to |-> Nobody, read |-> FALSE]
  /\ frames' = IF w = pane.home THEN frames ELSE <<>>
  /\ UNCHANGED <<chats, scroll, mail, turnVars, fetches, grouping, overtaken>>

\* The snapshot: its first session is the one last talked in.
ReadWorld ==
  /\ opening # Nobody /\ opening.read = FALSE
  /\ \/ \E s \in ChatsOf(pane.home) : opening' = [to |-> s, read |-> TRUE]
     \/ ChatsOf(pane.home) = {} /\ opening' = [to |-> Nobody, read |-> TRUE]
  /\ UNCHANGED <<chats, scroll, frames, mail, stirs, pane, page, roster, loading, older, turnVars, fetches, grouping, overtaken>>

ShowWorld ==
  /\ opening # Nobody /\ opening.read
  /\ opening' = Nobody
  /\ roster' = ChatsOf(pane.home)
  /\ Turned([pane EXCEPT !.chat = opening.to])
  /\ UNCHANGED <<chats, scroll, frames, mail, stirs, turnVars, fetches, grouping, overtaken>>

SelectChat(s) ==
  /\ Stirred /\ s \in ChatsOf(pane.home) /\ s # pane.chat
  /\ roster' = roster \cup {s}
  /\ Turned([pane EXCEPT !.chat = s, !.intent = Nobody])
  /\ UNCHANGED <<chats, scroll, frames, mail, opening, turnVars, fetches, grouping, overtaken>>

\* directEmployee: a direct session the client knows, or an intent.  The
\* characters are listed once the world is loaded.
Direct(c) ==
  /\ Stirred /\ opening = Nobody /\ HomeOfFriend[c] = pane.home
  /\ LET known == {s \in roster : chats[s].who = c} IN
     \/ \E s \in known : s # pane.chat /\ Turned([pane EXCEPT !.chat = s, !.intent = Nobody])
     \/ known = {} /\ Turned([pane EXCEPT !.chat = Nobody, !.intent = c])
  /\ UNCHANGED <<chats, scroll, frames, mail, roster, opening, turnVars, fetches, grouping, overtaken>>

BeginGroup ==
  /\ Stirred /\ grouping = Nobody /\ grouping' = pane.home
  /\ UNCHANGED <<chats, scroll, frames, mail, paneVars, turnVars, fetches, overtaken>>

\* createGroupSession's answer opens the session, whatever world is open now.
OpenGroup ==
  /\ grouping # Nobody /\ grouping' = Nobody
  /\ Len(chats) < MaxChats
  /\ chats' = WithSession(grouping, Crowd)
  /\ roster' = roster \cup {Len(chats')}
  /\ Turned([pane EXCEPT !.chat = Len(chats'), !.intent = Nobody])
  /\ UNCHANGED <<scroll, frames, mail, opening, stirs, turnVars, fetches, overtaken>>

ReadTranscript ==
  /\ loading # Nobody /\ loading.read = FALSE
  /\ loading' = [items |-> Newest(pane.chat), read |-> TRUE]
  /\ UNCHANGED <<chats, scroll, frames, mail, stirs, pane, page, roster, opening, older, turnVars, fetches, grouping, overtaken>>

\* What is stored is no longer waiting to be.
Reconciled(k, ps) == {t \in outbox : mail[t].key # k \/ t \notin {MailAt(p) : p \in ps}}

\* The transcript effect: the page is replaced.
ShowTranscript ==
  /\ loading # Nobody /\ loading.read
  /\ page' = loading.items
  /\ overtaken' = (overtaken \/ ~ page \subseteq loading.items)
  /\ loading' = Nobody
  /\ bound' = [bound EXCEPT ![KeyOf(pane.chat)] = pane.chat]
  /\ outbox' = Reconciled(KeyOf(pane.chat), loading.items)
  /\ UNCHANGED <<chats, scroll, frames, mail, stirs, pane, roster, opening, older, bubbles, fetches, grouping>>

\* It fails, or takes ten seconds: an error is shown.
LoseTranscript ==
  /\ loading # Nobody /\ Stirred
  /\ loading' = Nobody
  /\ overtaken' = TRUE
  /\ UNCHANGED <<chats, scroll, frames, mail, pane, page, roster, opening, older, turnVars, fetches, grouping>>

\* transcriptReload: the open conversation is chosen again while it shows nothing.
Reload ==
  /\ Stirred /\ pane.chat # Nobody /\ page = {}
  /\ loading' = [items |-> {}, read |-> FALSE] /\ older' = {}
  /\ UNCHANGED <<chats, scroll, frames, mail, pane, page, roster, opening, turnVars, fetches, grouping, overtaken>>

LoadOlder ==
  /\ Stirred /\ pane.chat # Nobody /\ page # {}
  /\ older' = older \cup {Before(pane.chat, OldestOf(page)[2])}
  /\ UNCHANGED <<chats, scroll, frames, mail, pane, page, roster, opening, loading, turnVars, fetches, grouping, overtaken>>

ShowOlder(ps) ==
  /\ older' = older \ {ps}
  /\ page' = page \cup ps
  /\ UNCHANGED <<chats, scroll, frames, mail, stirs, pane, roster, opening, loading, turnVars, fetches, grouping, overtaken>>

-----------------------------------------------------------------------------
(* Turns *)

Pending(t) == mail[t].step \in {"queued", "posted", "settling", "failing", "failed"}

Send(t) ==
  /\ mail[t].step = "unsent" /\ \A u \in Mails : u < t => mail[u].step # "unsent"
  /\ OpenKey # Nobody
  /\ mail' = [mail EXCEPT ![t] = [Unsent EXCEPT !.step = "queued", !.key = OpenKey, !.home = pane.home,
                                                !.from = pane.chat, !.session = pane.chat]]
  /\ outbox' = outbox \cup {t}
  /\ bound' = IF pane.chat = Nobody THEN bound ELSE [bound EXCEPT ![OpenKey] = pane.chat]
  /\ UNCHANGED <<chats, scroll, frames, paneVars, stirs, bubbles, fetches, grouping, overtaken>>

\* ChatTurnQueue: one after the other in a conversation.
Foremost(t) ==
  \A u \in Mails : u < t /\ mail[u].key = mail[t].key => mail[u].step \in {"unsent", "done", "failed"}

Post(t) ==
  /\ mail[t].step = "queued" /\ Foremost(t)
  /\ mail' = [mail EXCEPT ![t].step = "posted", ![t].job = "sent",
                          ![t].posted = IF bound[mail[t].key] # Nobody THEN bound[mail[t].key] ELSE mail[t].from]
  /\ UNCHANGED <<chats, scroll, frames, restVars, stirs>>

\* bindConversationSession
Bind(k, s) ==
  /\ bound' = [bound EXCEPT ![k] = s]
  /\ IF chats[s].home # pane.home THEN UNCHANGED paneVars
     ELSE /\ roster' = roster \cup {s}
          /\ UNCHANGED opening
          /\ IF OpenKey \in {k, Nobody} THEN Turned([pane EXCEPT !.chat = s, !.intent = Nobody])
                                        ELSE UNCHANGED <<pane, page, loading, older>>
Bound(k, s) == [t \in Mails |-> IF mail[t].key = k /\ mail[t].session = Nobody /\ Pending(t)
                                THEN [mail[t] EXCEPT !.session = s] ELSE mail[t]]

MutAsking(s, k, w, ends, t) ==
  [chat |-> s, key |-> s, home |-> w, items |-> Newest(s), ends |-> ends, mail |-> t]
Asking(s, k, w, ends, t) ==
  [chat |-> s, key |-> k, home |-> w, items |-> Newest(s), ends |-> ends, mail |-> t]
Fetching(f) == Cardinality(fetches) < MaxFetches /\ fetches' = fetches \cup {f}

TakeAnswer(t) ==
  /\ mail[t].step = "posted" /\ mail[t].job = "answered"
  /\ Bind(mail[t].key, mail[t].where)
  /\ mail' = [Bound(mail[t].key, mail[t].where) EXCEPT ![t].step = "settling"]
  /\ Fetching(Asking(mail[t].where, mail[t].key, mail[t].home, "turn", t))
  /\ UNCHANGED <<chats, scroll, frames, outbox, stirs, bubbles, grouping, overtaken>>

\* The run has failed, or the answer is lost: what is known is refreshed.
MissAnswer(t) ==
  /\ mail[t].step = "posted"
  /\ \/ mail[t].job = "broken" /\ UNCHANGED stirs
     \/ mail[t].job \notin {"none", "broken"} /\ Stirred
  /\ LET s == IF bound[mail[t].key] # Nobody THEN bound[mail[t].key] ELSE mail[t].from IN
     IF s = Nobody
     THEN /\ mail' = [mail EXCEPT ![t].step = "failed"]
          /\ bubbles' = bubbles \ {t}
          /\ UNCHANGED fetches
     ELSE /\ mail' = [mail EXCEPT ![t].step = "failing"]
          /\ Fetching(Asking(s, mail[t].key, mail[t].home, "turn", t))
          /\ UNCHANGED bubbles
  /\ UNCHANGED <<chats, scroll, frames, paneVars, outbox, bound, grouping, overtaken>>

\* What follows a refresh, whether it succeeds or not
Ends(f) ==
  CASE f.ends = "turn" ->
         /\ mail' = [mail EXCEPT ![f.mail].step = IF @ = "settling" THEN "done" ELSE "failed"]
         /\ bubbles' = bubbles \ {f.mail}
    [] f.ends = "bubble" -> bubbles' = bubbles \ {f.mail} /\ UNCHANGED mail
    [] OTHER -> UNCHANGED <<mail, bubbles>>

MutMergedPage(f) == IF pane.home = f.home THEN page \cup f.items ELSE page

\* Only a conversation still open takes what a refresh brings.
MergedPage(f) == IF pane.home = f.home /\ OpenKey = f.key THEN page \cup f.items ELSE page

Refreshed(f) ==
  /\ fetches' = fetches \ {f}
  /\ outbox' = Reconciled(f.key, f.items)
  /\ page' = MergedPage(f)
  /\ Ends(f)
  /\ UNCHANGED <<chats, scroll, frames, pane, stirs, roster, opening, loading, older, bound, grouping, overtaken>>

RefreshFails(f) ==
  /\ Stirred
  /\ fetches' = fetches \ {f}
  /\ overtaken' = TRUE
  /\ Ends(f)
  /\ UNCHANGED <<chats, scroll, frames, paneVars, outbox, bound, grouping>>

\* Every 900 ms, for the turns of the open world under way
Reconcile(t) ==
  LET s == IF mail[t].session # Nobody THEN mail[t].session ELSE bound[mail[t].key]
      f == Asking(s, mail[t].key, mail[t].home, "nothing", Nobody)
  IN /\ mail[t].step \in {"queued", "posted", "settling", "failing"} /\ mail[t].home = pane.home
     /\ s # Nobody /\ f \notin fetches /\ Fetching(f)
     /\ UNCHANGED <<chats, scroll, frames, mail, stirs, paneVars, turnVars, grouping, overtaken>>

\* decideApproval refreshes the open session under its id as the key.
Decide ==
  LET f == Asking(pane.chat, pane.chat, pane.home, "nothing", Nobody) IN
  /\ Stirred /\ pane.chat # Nobody /\ f \notin fetches /\ Fetching(f)
  /\ UNCHANGED <<chats, scroll, frames, mail, paneVars, turnVars, grouping, overtaken>>

\* onRuntime: the conversation of a turn still pending, or the one its session is known by
HearRun ==
  /\ frames # <<>>
  /\ frames' = Tail(frames)
  /\ LET t == Head(frames).mail
         s == mail[t].where
         k == IF Pending(t) THEN mail[t].key ELSE KeyOf(s)
     IN /\ IF Pending(t) /\ mail[t].session # s
           THEN Bind(k, s) /\ mail' = Bound(k, s)
           ELSE bound' = [bound EXCEPT ![k] = s] /\ UNCHANGED <<mail, paneVars>>
        /\ IF Head(frames).kind = "started"
           THEN bubbles' = bubbles \cup {t} /\ UNCHANGED fetches
           ELSE Fetching(Asking(s, k, pane.home, "bubble", t)) /\ UNCHANGED bubbles
  /\ UNCHANGED <<chats, scroll, outbox, grouping, stirs, overtaken>>

\* The stream is cut off and opened again: what was on its way is lost.
CutStream ==
  /\ frames # <<>> /\ Stirred
  /\ frames' = <<>>
  /\ UNCHANGED <<chats, scroll, mail, restVars>>

-----------------------------------------------------------------------------
ServerChat == ListChats \/ (\E c \in Friends : RunBooked(c))
              \/ \E t \in Mails : Accept(t) \/ Refuse(t) \/ OpenRun(t) \/ FinishRun(t) \/ BreakRun(t)
OwnerChat  == (\E w \in Homes : OpenWorld(w)) \/ (\E s \in Chats : SelectChat(s))
              \/ (\E c \in Friends : Direct(c)) \/ BeginGroup \/ Reload \/ LoadOlder
              \/ (\E t \in Mails : Send(t)) \/ Decide
PageChat   == ReadWorld \/ ShowWorld \/ OpenGroup \/ ReadTranscript \/ ShowTranscript \/ LoseTranscript
              \/ \E ps \in older : ShowOlder(ps)
TurnChat   == (\E t \in Mails : Post(t) \/ TakeAnswer(t) \/ MissAnswer(t) \/ Reconcile(t))
              \/ (\E f \in fetches : Refreshed(f) \/ RefreshFails(f)) \/ HearRun \/ CutStream

ChatNext == ServerChat \/ OwnerChat \/ PageChat \/ TurnChat
ChatSpec == ChatInit /\ [][ChatNext]_chatVars

-----------------------------------------------------------------------------
\* What is on show belongs to the conversation that is open, and a turn goes
\* to the session it was sent from: an answer that arrives after the owner
\* has moved on finds the pane, the queue and the bindings changed.
KeptApart ==
  /\ \A p \in page : p[1] = pane.chat
  /\ \A t \in Mails : mail[t].from # Nobody /\ mail[t].where # Nobody => mail[t].where = mail[t].from

\* The answer of a turn that is over is on show while its conversation is
\* open, unless a load overtook a refresh or a request failed.
ReplyOf(t) == {p \in Posts : /\ p[1] = mail[t].where /\ p[2] \in DOMAIN scroll[p[1]]
                             /\ scroll[p[1]][p[2]] = [mail |-> t, by |-> "them"]}
AnswerShown ==
  \A t \in Mails :
    mail[t].step = "done" /\ pane.chat = mail[t].where /\ loading = Nobody /\ ~ overtaken
      => ReplyOf(t) \cap Newest(pane.chat) \subseteq page

\* A character has at most one direct session, the one its contact in the
\* list of conversations stands for.
OneDirect == \A i, j \in DOMAIN chats : chats[i].who = chats[j].who /\ chats[i].who # Crowd => i = j
=============================================================================
