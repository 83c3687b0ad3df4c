-------------------------- MODULE ChatClientProofs --------------------------
(***************************************************************************)
(* Theorems about ChatClient, for all friends, homes, conversations, turns *)
(* and bounds: what is on show and what a turn is sent to belong together. *)
(***************************************************************************)
EXTENDS ChatClient, FiniteSetTheorems, WellFoundedInduction, TLAPS

\* A set of numbers that is not empty has a least member.
LEMMA LeastMember ==
  ASSUME NEW S, S \subseteq Nat, S # {}
  PROVE  \E m \in S : \A n \in S : m <= n
<1> DEFINE R == OpToRel(<, Nat)
<1>1. IsWellFoundedOn(R, Nat)
  BY NatLessThanWellFounded
<1>2. PICK m \in S : \A n \in S : ~ (<<n, m>> \in R)
  BY <1>1, WFMin
<1>3. ASSUME NEW n \in S PROVE m <= n
  <2>1. <<n, m>> \in Nat \X Nat
    BY S \subseteq Nat
  <2>2. ~ (n < m)
    BY <1>2, <2>1 DEF OpToRel
  <2> QED
    BY <2>2, S \subseteq Nat
<1> QED
  BY <1>3

-----------------------------------------------------------------------------
(* The conversations of the owner *)

DC     == DOMAIN chats
Sess   == [home : Homes, who : Friends \cup {Crowd}]
Msgs   == [mail : Mails \cup {0}, by : {"owner", "them"}]
Tellings == [mail : Mails, kind : {"started", "ended"}]
Panes  == [home : Homes, chat : Chats \cup {Nobody}, intent : Friends \cup {Nobody}]
Opens  == [to : Chats \cup {Nobody}, read : BOOLEAN]
Loads  == [items : SUBSET Posts, read : BOOLEAN]
Within(items, s) == \A p \in items : p[1] = s

\* A direct session is in its character's world.
ChatsStand ==
  /\ chats \in Seq(Sess) /\ Len(chats) <= MaxChats
  /\ \A s \in DC : chats[s].who \in Friends => chats[s].home = HomeOfFriend[chats[s].who]

\* How far a turn has come, and the sessions it names, of those in D.
Progress(m) ==
  /\ m.step = "unsent" => m = Unsent
  /\ m.step = "queued" => m.job = "none"
  /\ m.job = "none" => m.step \in {"unsent", "queued"} /\ m.posted = Nobody
  /\ m.job \in {"none", "sent"} => m.where = Nobody
  /\ m.job \in {"asked", "started", "answered"} => m.where # Nobody
  /\ m.step \in {"settling", "done"} => m.job = "answered"
  /\ m.job = "sent" /\ m.posted = Nobody => m.from = Nobody
  /\ m.step # "unsent" /\ m.from = Nobody => m.key \in Friends /\ HomeOfFriend[m.key] = m.home
Names(m, D) ==
  /\ {m.from, m.session, m.posted, m.where} \subseteq D \cup {Nobody}
  /\ m.step # "unsent" => m.key \in Keys /\ m.home \in Homes /\ (m.key \in Chats => m.key \in D)
MailsStand ==
  /\ mail \in [Mails -> Mail]
  /\ \A t \in Mails : Progress(mail[t]) /\ Names(mail[t], DC)

Sent(s)  == {t \in Mails : mail[t].where = s}
Heard(s) == {t \in Mails : mail[t].where = s /\ mail[t].job = "answered"}
ScrollStands ==
  /\ scroll \in [Chats -> Seq(Msgs)]
  /\ \A s \in Chats : Len(scroll[s]) <= Past + Cardinality(Sent(s)) + Cardinality(Heard(s))

FramesStand ==
  /\ frames \in Seq(Tellings)
  /\ \A k \in DOMAIN frames : mail[frames[k].mail].where # Nobody

PaneStands ==
  /\ pane \in Panes /\ pane.chat \in DC \cup {Nobody} /\ roster \subseteq DC
  /\ opening \in {Nobody} \cup Opens
  /\ opening # Nobody /\ opening.to # Nobody =>
       opening.to \in DC /\ chats[opening.to].home = pane.home
  /\ pane.intent # Nobody =>
       /\ opening = Nobody /\ pane.chat = Nobody /\ HomeOfFriend[pane.intent] = pane.home
       /\ \A s \in roster : chats[s].who # pane.intent

\* What is shown, loaded and asked for is of the conversation that is open.
SheetStands ==
  /\ page \subseteq Posts /\ loading \in {Nobody} \cup Loads /\ older \subseteq SUBSET Posts
  /\ loading # Nobody => pane.chat # Nobody /\ Within(loading.items, pane.chat)
  /\ \A ps \in older : Within(ps, pane.chat)

RestStands ==
  /\ fetches \subseteq Fetch
  /\ \A f \in fetches : f.chat \in DC /\ Within(f.items, f.chat) /\ (f.ends = "turn" => f.mail \in Mails)
  /\ grouping \in Homes \cup {Nobody}
  /\ outbox \subseteq Mails /\ bubbles \subseteq Mails
  /\ bound \in [Keys -> Chats \cup {Nobody}] /\ \A k \in Keys : bound[k] \in DC \cup {Nobody}
  /\ stirs \in 0 .. MaxStirs /\ overtaken \in BOOLEAN

\* A turn, a binding and a refresh each keep to the sessions of one key.
KeysFit ==
  /\ \A t \in Mails : \A s \in {mail[t].from, mail[t].session, mail[t].posted, mail[t].where} \ {Nobody} :
       KeyOf(s) = mail[t].key
  /\ \A t \in Mails : mail[t].where # Nobody => chats[mail[t].where].home = mail[t].home
  /\ \A k \in Keys : bound[k] # Nobody => KeyOf(bound[k]) = k
  /\ \A f \in fetches : f.key \in {KeyOf(f.chat), f.chat}

\* The client knows the sessions it has met of the world it has opened.
Aware(s) == chats[s].home = pane.home /\ opening = Nobody => s \in roster
SessionsOf(m) ==
  {m.from, m.session} \cup (IF m.step \in {"settling", "done"} THEN {m.where} ELSE {})
Met == ({pane.chat} \cup {bound[k] : k \in Keys} \cup {f.chat : f \in fetches}
          \cup UNION {SessionsOf(mail[t]) : t \in Mails}) \ {Nobody}
AllKnown == \A s \in Met : Aware(s)

\* A group opened elsewhere has no turns of its own world yet.
ForeignGroup ==
  pane.chat # Nobody /\ chats[pane.chat].home # pane.home =>
    /\ chats[pane.chat].who = Crowd
    /\ \A t \in Mails : mail[t].step # "unsent" /\ mail[t].key = pane.chat =>
                          mail[t].home # chats[pane.chat].home

\* The answers the page should show, and those a refresh brings.
Replies(t) == ReplyOf(t) \cap Newest(mail[t].where)
AnswersMeet ==
  /\ \A t \in Mails :
       mail[t].step = "done" /\ pane.chat = mail[t].where /\ ~ overtaken =>
         /\ loading = Nobody => Replies(t) \subseteq page
         /\ loading # Nobody /\ loading.read => Replies(t) \subseteq loading.items \/ Replies(t) \subseteq page
  /\ \A f \in fetches : f.ends = "turn" =>
       /\ mail[f.mail].step \notin {"unsent", "queued", "posted"}
       /\ mail[f.mail].step = "settling" =>
            /\ f.key = mail[f.mail].key /\ f.home = mail[f.mail].home
            /\ Replies(f.mail) \subseteq f.items

PageStands == OneDirect => Within(page, pane.chat)

ChatInv ==
  /\ ChatsStand /\ MailsStand /\ ScrollStands /\ FramesStand /\ PaneStands /\ SheetStands /\ RestStands
  /\ KeysFit /\ AllKnown /\ ForeignGroup /\ AnswersMeet /\ PageStands

-----------------------------------------------------------------------------
(* The names of things *)

\* Names of one kind are not names of another.
LEMMA NamesApart ==
  /\ Nobody \notin Keys /\ Nobody \notin Friends /\ Nobody \notin Chats /\ Nobody \notin Homes
  /\ Crowd \notin Keys /\ Crowd \notin Friends /\ Crowd \notin Chats
  /\ Crowd # Nobody /\ Friends \cap Chats = {} /\ 0 \notin Chats
  BY ChatAssumption DEF Keys, Chats

LEMMA NumbersFit ==
  /\ Past \in Nat /\ MaxChats \in Nat /\ MaxStirs \in Nat /\ PageSize \in Nat /\ PageSize >= 1
  /\ Cardinality(Mails) \in Nat /\ IsFiniteSet(Mails)
<1>1. Cardinality(Mails) \in Nat /\ IsFiniteSet(Mails)
  BY ChatAssumption, FS_CardinalityType
<1> QED
  BY <1>1, ChatAssumption

\* The sessions there are, and the key of each.
LEMMA SessionIs ==
  ASSUME ChatsStand, NEW s \in DC
  PROVE  /\ s \in Chats /\ s \in 1 .. Len(chats) /\ s # Nobody
         /\ chats[s] \in Sess /\ chats[s].home \in Homes
         /\ KeyOf(s) \in Keys /\ KeyOf(s) # Nobody
         /\ chats[s].who = Crowd => KeyOf(s) = s
         /\ chats[s].who # Crowd => KeyOf(s) = chats[s].who /\ chats[s].who \in Friends
         /\ KeyOf(s) \in Chats => KeyOf(s) = s /\ chats[s].who = Crowd
         /\ KeyOf(s) \in Friends => chats[s].who = KeyOf(s) /\ chats[s].home = HomeOfFriend[KeyOf(s)]
<1>1. s \in 1 .. Len(chats) /\ chats[s] \in Sess
  BY DEF ChatsStand, DC
<1>2. s \in Chats
  BY <1>1, NumbersFit DEF ChatsStand, Chats
<1>3. chats[s].home \in Homes /\ (chats[s].who \in Friends \/ chats[s].who = Crowd)
  BY <1>1 DEF Sess
<1>4. chats[s].who = Crowd => KeyOf(s) = s
  BY DEF KeyOf
<1>5. chats[s].who # Crowd => KeyOf(s) = chats[s].who /\ chats[s].who \in Friends
  BY <1>3 DEF KeyOf
<1>6. chats[s].who \in Friends => chats[s].home = HomeOfFriend[chats[s].who]
  BY DEF ChatsStand
<1> HIDE DEF DC
<1>7. KeyOf(s) \in Keys /\ KeyOf(s) # Nobody
  BY <1>2, <1>4, <1>5, NamesApart DEF Keys
<1>8. KeyOf(s) \in Chats => KeyOf(s) = s /\ chats[s].who = Crowd
  BY <1>2, <1>4, <1>5, NamesApart
<1>9. KeyOf(s) \in Friends => chats[s].who = KeyOf(s) /\ chats[s].home = HomeOfFriend[KeyOf(s)]
  BY <1>2, <1>4, <1>5, <1>6, NamesApart
<1> QED
  BY <1>1, <1>2, <1>3, <1>4, <1>5, <1>7, <1>8, <1>9, NamesApart

\* With one direct session for each character, a key stands for one session.
LEMMA OneForEach ==
  ASSUME ChatsStand, OneDirect, NEW s \in DC, NEW r \in DC, KeyOf(s) = KeyOf(r)
  PROVE  s = r
<1>1. CASE chats[s].who = Crowd
  BY <1>1, SessionIs
<1>2. CASE chats[r].who = Crowd
  BY <1>2, SessionIs
<1>3. CASE chats[s].who # Crowd /\ chats[r].who # Crowd
  <2>1. chats[s].who = chats[r].who
    BY <1>3, SessionIs
  <2> QED
    BY <1>3, <2>1 DEF OneDirect, DC
<1> QED
  BY <1>1, <1>2, <1>3

-----------------------------------------------------------------------------
(* Sessions are added and never changed *)

Good(new) ==
  /\ new \in Seq(Sess)
  /\ \A s \in DOMAIN new : new[s].who \in Friends => new[s].home = HomeOfFriend[new[s].who]
Extends(new, old) ==
  /\ Len(old) <= Len(new)
  /\ \A s \in DOMAIN old : s \in DOMAIN new /\ new[s] = old[s]

LEMMA SomeSequence ==
  ASSUME NEW S, IsFiniteSet(S)
  PROVE  SetToSeq(S) \in Seq(S)
<1>1. PICK f \in Bijection(1 .. Cardinality(S), S) : TRUE
  BY FS_CardinalityType DEF ExistsBijection
<1>2. f \in [1 .. Cardinality(S) -> S] /\ IsInjective(f)
  BY <1>1 DEF Bijection, Injection
<1>3. SetToSeq(S) \in [1 .. Cardinality(S) -> S]
  BY <1>2 DEF SetToSeq
<1> QED
  BY <1>3, FS_CardinalityType

LEMMA OneMore ==
  ASSUME ChatsStand, NEW w \in Homes, NEW c \in Friends \cup {Crowd},
         c \in Friends => w = HomeOfFriend[c]
  PROVE  /\ Good(WithSession(w, c)) /\ Extends(WithSession(w, c), chats)
         /\ Len(WithSession(w, c)) = Len(chats) + 1
         /\ WithSession(w, c)[Len(chats) + 1] = [home |-> w, who |-> c]
<1> DEFINE r == [home |-> w, who |-> c]
<1>1. r \in Sess /\ r.home = w /\ r.who = c
  BY DEF Sess
<1> HIDE DEF r
<1>2. chats \in Seq(Sess)
  BY DEF ChatsStand
<1>3. WithSession(w, c) = Append(chats, r)
  BY DEF WithSession, r
<1>4. /\ Append(chats, r) \in Seq(Sess) /\ Len(Append(chats, r)) = Len(chats) + 1
      /\ Append(chats, r)[Len(chats) + 1] = r
      /\ DOMAIN Append(chats, r) = 1 .. Len(chats) + 1
      /\ \A s \in 1 .. Len(chats) : Append(chats, r)[s] = chats[s]
  BY <1>1, <1>2
<1>5. DOMAIN chats = 1 .. Len(chats) /\ Len(chats) \in Nat
  BY <1>2
<1>6. \A s \in DOMAIN chats : chats[s].who \in Friends => chats[s].home = HomeOfFriend[chats[s].who]
  BY DEF ChatsStand, DC
<1>7. ASSUME NEW s \in DOMAIN Append(chats, r), Append(chats, r)[s].who \in Friends
      PROVE  Append(chats, r)[s].home = HomeOfFriend[Append(chats, r)[s].who]
  <2>1. CASE s = Len(chats) + 1
    BY <1>1, <1>4, <1>7, <2>1
  <2>2. CASE s # Len(chats) + 1
    BY <1>4, <1>5, <1>6, <1>7, <2>2
  <2> QED
    BY <2>1, <2>2
<1>8. Good(WithSession(w, c))
  BY <1>3, <1>4, <1>7 DEF Good
<1>9. Extends(WithSession(w, c), chats)
  BY <1>3, <1>4, <1>5 DEF Extends
<1> QED
  BY <1>3, <1>4, <1>8, <1>9 DEF r

LEMMA DirectsAdded ==
  ASSUME ChatsStand, NEW w \in Homes
  PROVE  Good(WithDirects(w)) /\ Extends(WithDirects(w), chats)
<1> DEFINE L == {c \in Friends : /\ HomeOfFriend[c] = w
                                 /\ \A s \in DOMAIN chats : chats[s].who # c}
           R == {[home |-> w, who |-> c] : c \in L}
           f == [c \in L |-> [home |-> w, who |-> c]]
           q == SetToSeq(R)
<1>1. IsFiniteSet(L)
  BY ChatAssumption, FS_Subset
<1>2. f \in Surjection(L, R)
  BY DEF Surjection
<1>3. IsFiniteSet(R)
  BY <1>1, <1>2, FS_Surjection
<1>4. R \subseteq Sess /\ \A r \in R : r.who \in Friends => r.home = HomeOfFriend[r.who]
  BY DEF Sess
<1>5. WithDirects(w) = chats \o q
  BY DEF WithDirects
<1> HIDE DEF L, R, f, q
<1>6. q \in Seq(R)
  BY <1>3, SomeSequence DEF q
<1>7. q \in Seq(Sess) /\ \A k \in 1 .. Len(q) : q[k] \in R
  BY <1>4, <1>6
<1>2a. chats \in Seq(Sess) /\ DOMAIN chats = 1 .. Len(chats) /\ Len(chats) \in Nat /\ Len(q) \in Nat
  BY <1>7 DEF ChatsStand
<1>8. /\ chats \o q \in Seq(Sess) /\ Len(chats \o q) = Len(chats) + Len(q)
      /\ DOMAIN (chats \o q) = 1 .. Len(chats) + Len(q)
      /\ \A s \in 1 .. Len(chats) : (chats \o q)[s] = chats[s]
      /\ \A s \in 1 .. Len(chats) + Len(q) : s > Len(chats) => (chats \o q)[s] = q[s - Len(chats)]
  BY <1>2a, <1>7
<1>9. \A s \in DOMAIN chats : chats[s].who \in Friends => chats[s].home = HomeOfFriend[chats[s].who]
  BY DEF ChatsStand, DC
<1>10. ASSUME NEW s \in DOMAIN (chats \o q), (chats \o q)[s].who \in Friends
       PROVE  (chats \o q)[s].home = HomeOfFriend[(chats \o q)[s].who]
  <2>1. CASE s \in 1 .. Len(chats)
    BY <1>2a, <1>8, <1>9, <1>10, <2>1
  <2>2. CASE s > Len(chats)
    <3>1. s - Len(chats) \in 1 .. Len(q) /\ (chats \o q)[s] = q[s - Len(chats)]
      BY <1>2a, <1>8, <2>2
    <3> QED
      BY <1>4, <1>7, <1>10, <3>1
  <2> QED
    BY <1>2a, <1>8, <2>1, <2>2
<1>11. Good(chats \o q)
  BY <1>8, <1>10 DEF Good
<1>12. Extends(chats \o q, chats)
  BY <1>2a, <1>8 DEF Extends
<1> QED
  BY <1>5, <1>11, <1>12

Grown ==
  /\ ChatsStand' /\ DC' \subseteq Chats
  /\ \A s \in DC : s \in DC' /\ chats'[s] = chats[s] /\ KeyOf(s)' = KeyOf(s)
  /\ OneDirect' => OneDirect

LEMMA GrownIf ==
  ASSUME ChatsStand, Good(chats'), Extends(chats', chats), Len(chats') <= MaxChats
  PROVE  Grown
<1>1. ChatsStand'
  BY DEF ChatsStand, Good, DC
<1>2. \A s \in DC : s \in DC' /\ chats'[s] = chats[s] /\ KeyOf(s)' = KeyOf(s)
  BY DEF Extends, DC, KeyOf
<1>3. OneDirect' => OneDirect
  BY DEF Extends, OneDirect
<1>4. DC' \subseteq Chats
  BY NumbersFit DEF Good, DC, Chats
<1> QED
  BY <1>1, <1>2, <1>3, <1>4 DEF Grown

LEMMA GrownNot ==
  ASSUME ChatsStand, UNCHANGED chats
  PROVE  Grown
<1>1. Good(chats')
  BY DEF ChatsStand, Good, DC
<1>2. Extends(chats', chats) /\ Len(chats') <= MaxChats
  BY DEF Extends, ChatsStand
<1> QED
  BY <1>1, <1>2, GrownIf

LEMMA ListGrows ==
  ASSUME ChatInv, ListChats
  PROVE  Grown
<1>1. pane.home \in Homes /\ ChatsStand
  BY DEF ChatInv, PaneStands, Panes
<1> QED
  BY <1>1, DirectsAdded, GrownIf DEF ListChats

LEMMA BookedGrows ==
  ASSUME ChatInv, NEW c \in Friends, RunBooked(c)
  PROVE  Grown
<1>1. HomeOfFriend[c] \in Homes /\ ChatsStand
  BY ChatAssumption DEF ChatInv
<1>2. Len(chats) \in Nat
  BY <1>1 DEF ChatsStand
<1>3. Good(chats') /\ Extends(chats', chats) /\ Len(chats') = Len(chats) + 1 /\ Len(chats) < MaxChats
  BY <1>1, OneMore DEF RunBooked
<1>4. Len(chats') <= MaxChats
  BY <1>2, <1>3, NumbersFit
<1> QED
  BY <1>1, <1>3, <1>4, GrownIf

\* Where a turn is, of those the client has sent.
LEMMA MailIs ==
  ASSUME MailsStand, NEW t \in Mails
  PROVE  /\ mail[t] \in Mail /\ Progress(mail[t]) /\ Names(mail[t], DC)
         /\ mail[t].where \in DC \cup {Nobody} /\ mail[t].from \in DC \cup {Nobody}
         /\ mail[t].posted \in DC \cup {Nobody} /\ mail[t].session \in DC \cup {Nobody}
         /\ mail[t].step # "unsent" => mail[t].key \in Keys /\ mail[t].home \in Homes
         /\ mail[t].where # Nobody => mail[t].step # "unsent"
         /\ mail[t].job \in {"asked", "started", "answered"} => mail[t].where \in DC
         /\ mail[t].job # "none" => mail[t].step # "unsent"
         /\ mail[t].step \in {"settling", "done"} => mail[t].where \in DC /\ mail[t].job = "answered"
<1>1. mail[t] \in Mail /\ Progress(mail[t]) /\ Names(mail[t], DC)
  BY DEF MailsStand
<1>2. {mail[t].from, mail[t].session, mail[t].posted, mail[t].where} \subseteq DC \cup {Nobody}
  BY <1>1 DEF Names
<1>3. mail[t].step # "unsent" => mail[t].key \in Keys /\ mail[t].home \in Homes
  BY <1>1 DEF Names
<1>4. mail[t].step = "unsent" => mail[t] = Unsent
  BY <1>1 DEF Progress
<1>5. mail[t].step = "unsent" => mail[t].where = Nobody /\ mail[t].job = "none"
  BY <1>4 DEF Unsent
<1>6. mail[t].job \in {"asked", "started", "answered"} => mail[t].where # Nobody
  BY <1>1 DEF Progress
<1>7. mail[t].step \in {"settling", "done"} => mail[t].job = "answered"
  BY <1>1 DEF Progress
<1> QED
  BY <1>1, <1>2, <1>3, <1>5, <1>6, <1>7

LEMMA AcceptGrows ==
  ASSUME ChatInv, NEW t \in Mails, Accept(t)
  PROVE  Grown
<1>1. ChatsStand /\ MailsStand /\ mail[t].job = "sent"
  BY DEF ChatInv, Accept
<1>2. mail[t].home \in Homes
  BY <1>1, MailIs
<1>3. CASE mail[t].key \in Friends
  <2>1. chats' = WithDirects(mail[t].home) /\ Len(chats') <= MaxChats
    BY <1>3 DEF Accept
  <2> QED
    BY <1>1, <1>2, <2>1, DirectsAdded, GrownIf
<1>4. CASE mail[t].key \notin Friends
  BY <1>1, <1>4, GrownNot DEF Accept
<1> QED
  BY <1>3, <1>4

LEMMA GroupGrows ==
  ASSUME ChatInv, OpenGroup
  PROVE  /\ Grown /\ Len(chats) + 1 \in DC' \ DC /\ Len(chats') = Len(chats) + 1
         /\ chats'[Len(chats) + 1] = [home |-> grouping, who |-> Crowd] /\ grouping \in Homes
<1>1. grouping \in Homes /\ ChatsStand
  BY DEF ChatInv, RestStands, OpenGroup
<1>2. Len(chats) \in Nat /\ DC = 1 .. Len(chats)
  BY <1>1 DEF ChatsStand, DC
<1>3. /\ Good(chats') /\ Extends(chats', chats) /\ Len(chats') = Len(chats) + 1
      /\ Len(chats) < MaxChats /\ chats'[Len(chats) + 1] = [home |-> grouping, who |-> Crowd]
  BY <1>1, OneMore, NamesApart DEF OpenGroup
<1>4. Len(chats') <= MaxChats
  BY <1>2, <1>3, NumbersFit
<1>5. DC' = 1 .. Len(chats')
  BY <1>3 DEF Good, DC
<1> QED
  BY <1>1, <1>2, <1>3, <1>4, <1>5, GrownIf

LEMMA ChatsStep ==
  ASSUME ChatInv, [ChatNext]_chatVars
  PROVE  Grown
<1>1. ChatsStand
  BY DEF ChatInv
<1>2. CASE UNCHANGED chats
  BY <1>1, <1>2, GrownNot
<1>3. CASE ServerChat
  <2>1. CASE ListChats
    BY <2>1, ListGrows
  <2>2. CASE \E c \in Friends : RunBooked(c)
    BY <2>2, BookedGrows
  <2>3. CASE \E t \in Mails : Accept(t)
    BY <2>3, AcceptGrows
  <2>4. CASE \E t \in Mails : Refuse(t) \/ OpenRun(t) \/ FinishRun(t) \/ BreakRun(t)
    BY <1>2, <2>4 DEF Refuse, OpenRun, FinishRun, BreakRun
  <2> QED
    BY <1>3, <2>1, <2>2, <2>3, <2>4 DEF ServerChat
<1>4. CASE OwnerChat
  <2>1. UNCHANGED chats
    BY <1>4 DEF OwnerChat, OpenWorld, SelectChat, Direct, BeginGroup, Reload, LoadOlder, Send, Decide
  <2> QED
    BY <1>2, <2>1
<1>5. CASE PageChat
  <2>1. CASE OpenGroup
    BY <2>1, GroupGrows
  <2>2. CASE ~ OpenGroup
    <3>1. UNCHANGED chats
      BY <1>5, <2>2 DEF PageChat, ReadWorld, ShowWorld, ReadTranscript, ShowTranscript, LoseTranscript,
                        ShowOlder
    <3> QED
      BY <1>2, <3>1
  <2> QED
    BY <2>1, <2>2
<1>6. CASE TurnChat
  <2>1. UNCHANGED chats
    BY <1>6 DEF TurnChat, Post, TakeAnswer, MissAnswer, Reconcile, Refreshed, RefreshFails, HearRun,
                CutStream
  <2> QED
    BY <1>2, <2>1
<1>7. CASE UNCHANGED chatVars
  BY <1>2, <1>7 DEF chatVars
<1> QED
  BY <1>3, <1>4, <1>5, <1>6, <1>7 DEF ChatNext

-----------------------------------------------------------------------------
(* What a step makes of the turns *)

\* A turn that has been sent keeps its key, its world and where it was sent from.
Became(n, m, step, session, mailed, where, job) ==
  /\ n.step = step /\ n.session = session /\ n.posted = mailed /\ n.where = where /\ n.job = job
  /\ n.key = m.key /\ n.home = m.home /\ n.from = m.from
Only(t) == mail' \in [Mails -> Mail] /\ \A u \in Mails : u # t => mail'[u] = mail[u]

LEMMA RefuseMail ==
  ASSUME MailsStand, NEW t \in Mails, Refuse(t)
  PROVE  /\ Only(t) /\ mail[t].job = "sent"
         /\ Became(mail'[t], mail[t], mail[t].step, mail[t].session, mail[t].posted, mail[t].where, "broken")
<1>1. mail[t] \in Mail /\ mail \in [Mails -> Mail]
  BY DEF MailsStand
<1>2. mail' = [mail EXCEPT ![t] = [mail[t] EXCEPT !.job = "broken"]] /\ mail[t].job = "sent"
  BY DEF Refuse
<1> QED
  BY <1>1, <1>2 DEF Only, Became, Mail, Jobs

LEMMA BreakMail ==
  ASSUME MailsStand, NEW t \in Mails, BreakRun(t)
  PROVE  /\ Only(t) /\ mail[t].job = "started"
         /\ Became(mail'[t], mail[t], mail[t].step, mail[t].session, mail[t].posted, mail[t].where, "broken")
<1>1. mail[t] \in Mail /\ mail \in [Mails -> Mail]
  BY DEF MailsStand
<1>2. mail' = [mail EXCEPT ![t] = [mail[t] EXCEPT !.job = "broken"]] /\ mail[t].job = "started"
  BY DEF BreakRun
<1> QED
  BY <1>1, <1>2 DEF Only, Became, Mail, Jobs

LEMMA RunMail ==
  ASSUME MailsStand, NEW t \in Mails, OpenRun(t)
  PROVE  /\ Only(t) /\ mail[t].job = "asked"
         /\ Became(mail'[t], mail[t], mail[t].step, mail[t].session, mail[t].posted, mail[t].where, "started")
<1>1. mail[t] \in Mail /\ mail \in [Mails -> Mail]
  BY DEF MailsStand
<1>2. mail' = [mail EXCEPT ![t] = [mail[t] EXCEPT !.job = "started"]] /\ mail[t].job = "asked"
  BY DEF OpenRun
<1> QED
  BY <1>1, <1>2 DEF Only, Became, Mail, Jobs

LEMMA FinishMail ==
  ASSUME MailsStand, NEW t \in Mails, FinishRun(t)
  PROVE  /\ Only(t) /\ mail[t].job = "started"
         /\ Became(mail'[t], mail[t], mail[t].step, mail[t].session, mail[t].posted, mail[t].where, "answered")
<1>1. mail[t] \in Mail /\ mail \in [Mails -> Mail]
  BY DEF MailsStand
<1>2. mail' = [mail EXCEPT ![t] = [mail[t] EXCEPT !.job = "answered"]] /\ mail[t].job = "started"
  BY DEF FinishRun
<1> QED
  BY <1>1, <1>2 DEF Only, Became, Mail, Jobs

\* The session a turn is accepted for has its key and its world.
LEMMA AcceptMail ==
  ASSUME ChatInv, NEW t \in Mails, Accept(t)
  PROVE  /\ Only(t) /\ mail[t].job = "sent" /\ mail[t].where = Nobody
         /\ \E s \in DC' :
              /\ Became(mail'[t], mail[t], mail[t].step, mail[t].session, mail[t].posted, s, "asked")
              /\ KeyOf(s)' = mail[t].key /\ chats'[s].home = mail[t].home
              /\ scroll' = [scroll EXCEPT ![s] = Append(@, [mail |-> t, by |-> "owner"])]
<1>1. mail[t] \in Mail /\ mail \in [Mails -> Mail] /\ mail[t].job = "sent" /\ MailsStand
  BY DEF ChatInv, MailsStand, Accept
<1>2. Grown
  BY AcceptGrows
<1>3. PICK s \in Chosen(t, chats') :
         /\ scroll' = [scroll EXCEPT ![s] = Append(@, [mail |-> t, by |-> "owner"])]
         /\ mail' = [mail EXCEPT ![t] = [[mail[t] EXCEPT !.where = s] EXCEPT !.job = "asked"]]
  BY <1>1, ZenonT(60) DEF Accept
<1>4. Progress(mail[t]) /\ mail[t].posted \in DC \cup {Nobody} /\ mail[t].step # "unsent"
  BY <1>1, MailIs
<1>5. s \in DC' /\ KeyOf(s)' = mail[t].key /\ chats'[s].home = mail[t].home
  <2>1. CASE mail[t].posted # Nobody
    <3>1. s = mail[t].posted /\ s \in DC
      BY <1>3, <1>4, <2>1 DEF Chosen
    <3>2. KeyOf(s) = mail[t].key /\ chats[s].home = mail[t].home
      BY <2>1, <3>1 DEF Accept, SuitsMail
    <3> QED
      BY <1>2, <3>1, <3>2 DEF Grown
  <2>2. CASE mail[t].posted = Nobody
    <3>1. s \in DC' /\ chats'[s].who = mail[t].key
      BY <1>3, <2>2 DEF Chosen, DC
    <3>2. mail[t].key \in Friends /\ HomeOfFriend[mail[t].key] = mail[t].home
      BY <1>1, <1>4, <2>2 DEF Progress
    <3>3. chats'[s].home = mail[t].home
      BY <1>2, <3>1, <3>2 DEF Grown, ChatsStand
    <3>4. KeyOf(s)' = mail[t].key
      BY <3>1, <3>2, NamesApart DEF KeyOf
    <3> QED
      BY <3>1, <3>3, <3>4
  <2> QED
    BY <2>1, <2>2
<1>6. s \in Chats
  BY <1>2, <1>5 DEF Grown
<1>7. mail[t].where = Nobody
  BY <1>1, <1>4 DEF Progress
<1>8. Only(t) /\ Became(mail'[t], mail[t], mail[t].step, mail[t].session, mail[t].posted, s, "asked")
  BY <1>1, <1>3, <1>6 DEF Only, Became, Mail, Jobs
<1> QED
  BY <1>1, <1>3, <1>5, <1>7, <1>8

\* What is sent has the key and the world of the pane.
LEMMA OpenKeyIs ==
  ASSUME ChatInv
  PROVE  /\ OpenKey \in Keys \cup {Nobody}
         /\ pane.chat # Nobody =>
              pane.chat \in DC /\ pane.intent = Nobody /\ OpenKey = KeyOf(pane.chat)
         /\ pane.intent # Nobody =>
              /\ pane.chat = Nobody /\ OpenKey = pane.intent /\ pane.intent \in Friends
              /\ HomeOfFriend[pane.intent] = pane.home
         /\ pane.chat = Nobody => OpenKey = pane.intent
         /\ pane.home \in Homes
<1>1. pane \in Panes /\ pane.chat \in DC \cup {Nobody} /\ ChatsStand
  BY DEF ChatInv, PaneStands
<1>2. pane.intent # Nobody => pane.chat = Nobody /\ HomeOfFriend[pane.intent] = pane.home
  BY DEF ChatInv, PaneStands
<1>3. pane.intent \in Friends \cup {Nobody} /\ pane.home \in Homes
  BY <1>1 DEF Panes
<1>4. pane.chat # Nobody => OpenKey = KeyOf(pane.chat)
  BY <1>2 DEF OpenKey
<1>5. pane.chat = Nobody => OpenKey = pane.intent
  BY DEF OpenKey
<1>6. pane.chat # Nobody => KeyOf(pane.chat) \in Keys
  BY <1>1, SessionIs
<1> QED
  BY <1>1, <1>2, <1>3, <1>4, <1>5, <1>6 DEF Keys

LEMMA SendMail ==
  ASSUME ChatInv, NEW t \in Mails, Send(t)
  PROVE  /\ Only(t) /\ mail[t].step = "unsent" /\ mail[t] = Unsent
         /\ mail'[t].step = "queued" /\ mail'[t].job = "none"
         /\ mail'[t].posted = Nobody /\ mail'[t].where = Nobody
         /\ mail'[t].key = OpenKey /\ mail'[t].home = pane.home
         /\ mail'[t].from = pane.chat /\ mail'[t].session = pane.chat
         /\ OpenKey \in Keys
<1>1. mail[t] \in Mail /\ mail \in [Mails -> Mail] /\ mail[t].step = "unsent" /\ Progress(mail[t])
  BY DEF ChatInv, MailsStand, Send
<1>2. /\ OpenKey \in Keys /\ pane.home \in Homes /\ pane.chat \in Chats \cup {Nobody}
  BY OpenKeyIs DEF Send, ChatInv, PaneStands, Panes
<1> DEFINE n == [Unsent EXCEPT !.step = "queued", !.key = OpenKey, !.home = pane.home,
                               !.from = pane.chat, !.session = pane.chat]
<1>3. Unsent \in Mail /\ Unsent.posted = Nobody /\ Unsent.where = Nobody /\ Unsent.job = "none"
  BY DEF Unsent, Mail, MailSteps, Jobs
<1>4. /\ n \in Mail /\ n.step = "queued" /\ n.job = "none" /\ n.posted = Nobody /\ n.where = Nobody
      /\ n.key = OpenKey /\ n.home = pane.home /\ n.from = pane.chat /\ n.session = pane.chat
  BY <1>2, <1>3 DEF Mail, MailSteps, Jobs
<1>5. mail' = [mail EXCEPT ![t] = n]
  BY DEF Send
<1> HIDE DEF n
<1>6. mail' \in [Mails -> Mail] /\ mail'[t] = n /\ \A u \in Mails : u # t => mail'[u] = mail[u]
  BY <1>1, <1>4, <1>5
<1>7. Only(t) /\ mail[t] = Unsent
  BY <1>1, <1>6 DEF Only, Progress
<1> QED
  BY <1>1, <1>2, <1>4, <1>6, <1>7

\* The session a turn is posted for has its key, and is one the client has met.
LEMMA PostMail ==
  ASSUME ChatInv, NEW t \in Mails, Post(t)
  PROVE  /\ Only(t) /\ mail[t].step = "queued" /\ mail[t].job = "none"
         /\ \E s \in DC \cup {Nobody} :
              /\ Became(mail'[t], mail[t], "posted", mail[t].session, s, mail[t].where, "sent")
              /\ s # Nobody => KeyOf(s) = mail[t].key
              /\ s = Nobody => mail[t].from = Nobody
<1>1. mail[t] \in Mail /\ mail \in [Mails -> Mail] /\ mail[t].step = "queued" /\ MailsStand
  BY DEF ChatInv, MailsStand, Post
<1>2. Progress(mail[t]) /\ mail[t].from \in DC \cup {Nobody} /\ mail[t].key \in Keys
  BY <1>1, MailIs
<1>3. mail[t].job = "none"
  BY <1>1, <1>2 DEF Progress
<1>4. PICK s : s = IF bound[mail[t].key] # Nobody THEN bound[mail[t].key] ELSE mail[t].from
  OBVIOUS
<1>5. bound[mail[t].key] \in DC \cup {Nobody}
  BY <1>2 DEF ChatInv, RestStands
<1>6. bound[mail[t].key] # Nobody => KeyOf(bound[mail[t].key]) = mail[t].key
  BY <1>2 DEF ChatInv, KeysFit
<1>7. mail[t].from # Nobody => KeyOf(mail[t].from) = mail[t].key
  BY DEF ChatInv, KeysFit
<1>8. s \in DC \cup {Nobody} /\ (s # Nobody => KeyOf(s) = mail[t].key) /\ (s = Nobody => mail[t].from = Nobody)
  BY <1>2, <1>4, <1>5, <1>6, <1>7
<1>9. s \in Chats \cup {Nobody}
  BY <1>8, SessionIs DEF ChatInv
<1>10. mail' = [mail EXCEPT ![t] = [[[mail[t] EXCEPT !.step = "posted"] EXCEPT !.job = "sent"] EXCEPT !.posted = s]]
  BY <1>1, <1>4 DEF Post
<1>11. Only(t) /\ Became(mail'[t], mail[t], "posted", mail[t].session, s, mail[t].where, "sent")
  BY <1>1, <1>9, <1>10 DEF Only, Became, Mail, MailSteps, Jobs
<1> QED
  BY <1>1, <1>3, <1>8, <1>11

\* A session learnt of is noted by the turns that wait for one.
LEMMA BoundMail ==
  ASSUME MailsStand, NEW k, NEW s \in DC, ChatsStand
  PROVE  /\ Bound(k, s) \in [Mails -> Mail]
         /\ \A u \in Mails :
              \/ Bound(k, s)[u] = mail[u]
              \/ /\ mail[u].key = k /\ mail[u].session = Nobody /\ mail[u].step # "unsent"
                 /\ Became(Bound(k, s)[u], mail[u], mail[u].step, s, mail[u].posted, mail[u].where,
                           mail[u].job)
<1>1. mail \in [Mails -> Mail] /\ s \in Chats
  BY SessionIs DEF MailsStand
<1>2. ASSUME NEW u \in Mails
      PROVE  /\ Bound(k, s)[u] \in Mail
             /\ \/ Bound(k, s)[u] = mail[u]
                \/ /\ mail[u].key = k /\ mail[u].session = Nobody /\ mail[u].step # "unsent"
                   /\ Became(Bound(k, s)[u], mail[u], mail[u].step, s, mail[u].posted,
                             mail[u].where, mail[u].job)
  <2>1. mail[u] \in Mail
    BY <1>1
  <2>2. CASE mail[u].key = k /\ mail[u].session = Nobody /\ Pending(u)
    <3>1. Bound(k, s)[u] = [mail[u] EXCEPT !.session = s]
      BY <2>2 DEF Bound
    <3>2. mail[u].step # "unsent"
      BY <2>2 DEF Pending
    <3> QED
      BY <1>1, <2>1, <2>2, <3>1, <3>2 DEF Became, Mail
  <2>3. CASE ~ (mail[u].key = k /\ mail[u].session = Nobody /\ Pending(u))
    BY <2>1, <2>3 DEF Bound
  <2> QED
    BY <2>2, <2>3
<1> QED
  BY <1>2 DEF Bound

LEMMA TakeMail ==
  ASSUME ChatInv, NEW t \in Mails, TakeAnswer(t)
  PROVE  /\ mail[t].step = "posted" /\ mail[t].job = "answered" /\ mail[t].where \in DC
         /\ mail' \in [Mails -> Mail]
         /\ \E s \in {mail[t].session, mail[t].where} :
              Became(mail'[t], mail[t], "settling", s, mail[t].posted, mail[t].where, mail[t].job)
         /\ \A u \in Mails \ {t} :
              \/ mail'[u] = mail[u]
              \/ /\ mail[u].key = mail[t].key /\ mail[u].session = Nobody /\ mail[u].step # "unsent"
                 /\ Became(mail'[u], mail[u], mail[u].step, mail[t].where, mail[u].posted,
                           mail[u].where, mail[u].job)
<1>1. MailsStand /\ ChatsStand /\ mail[t].step = "posted" /\ mail[t].job = "answered"
  BY DEF ChatInv, TakeAnswer
<1>2. mail[t].where \in DC
  BY <1>1, MailIs
<1> DEFINE B == Bound(mail[t].key, mail[t].where)
<1>3. /\ B \in [Mails -> Mail]
      /\ \A u \in Mails :
           \/ B[u] = mail[u]
           \/ /\ mail[u].key = mail[t].key /\ mail[u].session = Nobody /\ mail[u].step # "unsent"
              /\ Became(B[u], mail[u], mail[u].step, mail[t].where, mail[u].posted,
                        mail[u].where, mail[u].job)
  BY <1>1, <1>2, BoundMail
<1>4. mail' = [B EXCEPT ![t] = [B[t] EXCEPT !.step = "settling"]]
  BY <1>3 DEF TakeAnswer
<1> HIDE DEF B
<1>5. B[t] \in Mail /\ [B[t] EXCEPT !.step = "settling"] \in Mail
  BY <1>3 DEF Mail, MailSteps
<1>6. /\ mail' \in [Mails -> Mail] /\ mail'[t] = [B[t] EXCEPT !.step = "settling"]
      /\ \A u \in Mails : u # t => mail'[u] = B[u]
  BY <1>3, <1>4, <1>5
<1>7. Became(mail'[t], B[t], "settling", B[t].session, B[t].posted, B[t].where, B[t].job)
  BY <1>5, <1>6 DEF Became, Mail
<1>8. \/ B[t] = mail[t]
      \/ Became(B[t], mail[t], mail[t].step, mail[t].where, mail[t].posted, mail[t].where, mail[t].job)
  BY <1>3
<1>9. \E s \in {mail[t].session, mail[t].where} :
        Became(mail'[t], mail[t], "settling", s, mail[t].posted, mail[t].where, mail[t].job)
  BY <1>7, <1>8 DEF Became
<1> QED
  BY <1>1, <1>2, <1>3, <1>6, <1>9

LEMMA MissMail ==
  ASSUME MailsStand, NEW t \in Mails, MissAnswer(t)
  PROVE  /\ Only(t) /\ mail[t].step = "posted"
         /\ \E step \in {"failing", "failed"} :
              Became(mail'[t], mail[t], step, mail[t].session, mail[t].posted, mail[t].where, mail[t].job)
<1>1. mail[t] \in Mail /\ mail \in [Mails -> Mail] /\ mail[t].step = "posted"
  BY DEF MailsStand, MissAnswer
<1>2. \E step \in {"failing", "failed"} : mail' = [mail EXCEPT ![t] = [mail[t] EXCEPT !.step = step]]
  BY DEF MissAnswer
<1>3. PICK step \in {"failing", "failed"} : mail' = [mail EXCEPT ![t] = [mail[t] EXCEPT !.step = step]]
  BY <1>2
<1>4. [mail[t] EXCEPT !.step = step] \in Mail
  BY <1>1 DEF Mail, MailSteps
<1> QED
  BY <1>1, <1>3, <1>4 DEF Only, Became, Mail

\* What follows a refresh is said of one turn at most.
LEMMA EndsMail ==
  ASSUME MailsStand, NEW f, Ends(f), f.ends = "turn" => f.mail \in Mails
  PROVE  \/ UNCHANGED mail
         \/ /\ f.ends = "turn" /\ f.mail \in Mails /\ Only(f.mail)
            /\ \E step \in {"done", "failed"} :
                 /\ step = "done" <=> mail[f.mail].step = "settling"
                 /\ Became(mail'[f.mail], mail[f.mail], step, mail[f.mail].session, mail[f.mail].posted,
                           mail[f.mail].where, mail[f.mail].job)
<1>1. CASE f.ends = "turn"
  <2>1. mail[f.mail] \in Mail /\ mail \in [Mails -> Mail]
    BY <1>1 DEF MailsStand
  <2>2. PICK step : step = IF mail[f.mail].step = "settling" THEN "done" ELSE "failed"
    OBVIOUS
  <2>3. mail' = [mail EXCEPT ![f.mail] = [mail[f.mail] EXCEPT !.step = step]]
    BY <1>1, <2>1, <2>2 DEF Ends
  <2>4. [mail[f.mail] EXCEPT !.step = step] \in Mail
    BY <2>1, <2>2 DEF Mail, MailSteps
  <2>5. /\ Only(f.mail)
        /\ Became(mail'[f.mail], mail[f.mail], step, mail[f.mail].session, mail[f.mail].posted,
                  mail[f.mail].where, mail[f.mail].job)
    BY <1>1, <2>1, <2>3, <2>4 DEF Only, Became, Mail
  <2>6. step \in {"done", "failed"} /\ (step = "done" <=> mail[f.mail].step = "settling")
    BY <2>2
  <2> QED
    BY <1>1, <2>5, <2>6
<1>2. CASE f.ends # "turn"
  BY <1>2 DEF Ends
<1> QED
  BY <1>1, <1>2

-----------------------------------------------------------------------------
(* The turns are where they say *)

KeyFits(m) ==
  /\ \A s \in {m.from, m.session, m.posted, m.where} \ {Nobody} : KeyOf(s) = m.key
  /\ m.where # Nobody => chats[m.where].home = m.home

Bounds == {bound[k] : k \in Keys}

\* What becomes of a turn: it is sent from the pane, and then keeps what it was sent
\* with and where it went; the sessions it knows are the pane's or bound.
Moves(t) ==
  /\ mail[t].step # "unsent" =>
       /\ mail'[t].step # "unsent" /\ mail'[t].key = mail[t].key
       /\ mail'[t].home = mail[t].home /\ mail'[t].from = mail[t].from
  /\ mail[t].step = "unsent" /\ mail'[t].step # "unsent" =>
       mail'[t].key = OpenKey /\ mail'[t].home = pane.home
  /\ mail[t].where # Nobody => mail'[t].where = mail[t].where
  /\ SessionsOf(mail'[t]) \subseteq SessionsOf(mail[t]) \cup {pane.chat} \cup Bounds'

TurnStands(t) == Progress(mail[t]) /\ Names(mail[t], DC) /\ KeyFits(mail[t])

LEMMA TurnsStandNow ==
  ASSUME ChatInv, NEW t \in Mails
  PROVE  TurnStands(t)
<1>1. Progress(mail[t]) /\ Names(mail[t], DC)
  BY DEF ChatInv, MailsStand
<1>2. KeyFits(mail[t])
  BY DEF ChatInv, KeysFit, KeyFits
<1> QED
  BY <1>1, <1>2 DEF TurnStands

LEMMA TurnKept ==
  ASSUME ChatInv, Grown, NEW t \in Mails, mail'[t] = mail[t]
  PROVE  TurnStands(t)' /\ Moves(t)
<1>1. Progress(mail[t]) /\ Names(mail[t], DC) /\ KeyFits(mail[t])
  BY TurnsStandNow DEF TurnStands
<1>2. {mail[t].from, mail[t].session, mail[t].posted, mail[t].where} \subseteq DC \cup {Nobody}
  BY <1>1 DEF Names
<1>3. Names(mail'[t], DC')
  BY <1>1 DEF Names, Grown
<1>4. KeyFits(mail[t])'
  <2>1. \A s \in {mail[t].from, mail[t].session, mail[t].posted, mail[t].where} \ {Nobody} :
          KeyOf(s)' = mail[t].key
    BY <1>1, <1>2 DEF Grown, KeyFits
  <2>2. mail[t].where # Nobody => chats'[mail[t].where].home = mail[t].home
    BY <1>1, <1>2 DEF Grown, KeyFits
  <2> QED
    BY <2>1, <2>2 DEF KeyFits
<1>5. TurnStands(t)'
  BY <1>1, <1>3, <1>4 DEF TurnStands
<1>6. Moves(t)
  BY DEF Moves
<1> QED
  BY <1>5, <1>6

LEMMA TurnBecame ==
  ASSUME ChatInv, Grown, NEW t \in Mails, mail[t].step # "unsent", mail'[t].step # "unsent",
         mail'[t].key = mail[t].key, mail'[t].home = mail[t].home, mail'[t].from = mail[t].from,
         Progress(mail'[t]),
         \A s \in {mail'[t].session, mail'[t].posted, mail'[t].where} :
           s = Nobody \/ (s \in DC' /\ KeyOf(s)' = mail[t].key),
         mail'[t].where # Nobody => chats'[mail'[t].where].home = mail[t].home,
         mail[t].where # Nobody => mail'[t].where = mail[t].where,
         mail'[t].session = mail[t].session \/ mail'[t].session \in Bounds',
         mail'[t].step \in {"settling", "done"} =>
           mail[t].step \in {"settling", "done"} \/ mail'[t].where \in Bounds'
  PROVE  TurnStands(t)' /\ Moves(t)
<1>1. Progress(mail[t]) /\ Names(mail[t], DC) /\ KeyFits(mail[t])
  BY TurnsStandNow DEF TurnStands
<1>3. mail[t].from \in DC \cup {Nobody} /\ mail[t].key \in Keys /\ mail[t].home \in Homes
      /\ (mail[t].key \in Chats => mail[t].key \in DC)
  BY <1>1 DEF Names
<1>4. \A s \in {mail[t].from} : s # Nobody => KeyOf(s)' = mail[t].key
  <2>1. mail[t].from # Nobody => KeyOf(mail[t].from) = mail[t].key
    BY <1>1 DEF KeyFits
  <2>2. \A s \in DC : KeyOf(s)' = KeyOf(s)
    BY DEF Grown
  <2> QED
    BY <1>3, <2>1, <2>2
<1>5. Names(mail'[t], DC')
  BY <1>3 DEF Names, Grown
<1>6. KeyFits(mail[t])'
  <2>1. \A s \in {mail'[t].from, mail'[t].session, mail'[t].posted, mail'[t].where} \ {Nobody} :
          KeyOf(s)' = mail'[t].key
    BY <1>4
  <2>2. mail'[t].where # Nobody => chats'[mail'[t].where].home = mail'[t].home
    OBVIOUS
  <2> QED
    BY <2>1, <2>2 DEF KeyFits
<1>7. TurnStands(t)'
  BY <1>5, <1>6 DEF TurnStands
<1>8. SessionsOf(mail'[t]) \subseteq SessionsOf(mail[t]) \cup {pane.chat} \cup Bounds'
  <2>1. mail[t].step \in {"settling", "done"} => mail[t].where # Nobody
    BY MailIs, SessionIs DEF ChatInv
  <2>2. ASSUME NEW s \in SessionsOf(mail'[t])
        PROVE  s \in SessionsOf(mail[t]) \cup Bounds'
    <3>1. \/ s = mail[t].from \/ s = mail'[t].session
          \/ (mail'[t].step \in {"settling", "done"} /\ s = mail'[t].where)
      BY DEF SessionsOf
    <3> QED
      BY <2>1, <3>1 DEF SessionsOf
  <2> QED
    BY <2>2
<1>9. Moves(t)
  BY <1>8 DEF Moves
<1> QED
  BY <1>7, <1>9

\* What a turn knows stays known.
LEMMA StillThere ==
  ASSUME ChatInv, Grown, NEW t \in Mails
  PROVE  /\ \A s \in {mail[t].session, mail[t].posted, mail[t].where} :
              s = Nobody \/ (s \in DC' /\ KeyOf(s)' = mail[t].key)
         /\ mail[t].where # Nobody => chats'[mail[t].where].home = mail[t].home
<1>1. Names(mail[t], DC) /\ KeyFits(mail[t])
  BY TurnsStandNow DEF TurnStands
<1>2. {mail[t].session, mail[t].posted, mail[t].where} \subseteq DC \cup {Nobody}
  BY <1>1 DEF Names
<1> QED
  BY <1>1, <1>2 DEF Grown, KeyFits

\* What a frame of the stream is about, and what hearing it does.
Hears(t, k) ==
  /\ t \in Mails /\ mail[t].where \in DC /\ k \in Keys /\ KeyOf(mail[t].where) = k
  /\ \/ Bind(k, mail[t].where) /\ mail' = Bound(k, mail[t].where)
     \/ /\ bound' = [bound EXCEPT ![k] = mail[t].where] /\ UNCHANGED <<mail, paneVars>>
        /\ mail[t].where \in SessionsOf(mail[t])
  /\ bubbles' \subseteq bubbles \cup {t}
  /\ \/ UNCHANGED fetches
     \/ Fetching(Asking(mail[t].where, k, pane.home, "bubble", t))

LEMMA HearIs ==
  ASSUME ChatInv, HearRun
  PROVE  \E t \in Mails, k \in Keys : Hears(t, k)
<1> DEFINE t == Head(frames).mail
<1>1. frames \in Seq(Tellings) /\ frames # <<>> /\ ChatsStand /\ MailsStand
  BY DEF ChatInv, FramesStand, HearRun
<1>2. Head(frames) = frames[1] /\ 1 \in DOMAIN frames /\ Head(frames) \in Tellings
  BY <1>1
<1>3. t \in Mails /\ mail[t].where # Nobody
  BY <1>2 DEF ChatInv, FramesStand, Tellings
<1> DEFINE s == mail[t].where
           k == IF Pending(t) THEN mail[t].key ELSE KeyOf(s)
<1>4. /\ \/ /\ Pending(t) /\ mail[t].session # s
            /\ Bind(k, s) /\ mail' = Bound(k, s)
         \/ /\ ~ (Pending(t) /\ mail[t].session # s)
            /\ bound' = [bound EXCEPT ![k] = s] /\ UNCHANGED <<mail, paneVars>>
      /\ \/ bubbles' = bubbles \cup {t} /\ UNCHANGED fetches
         \/ Fetching(Asking(s, k, pane.home, "bubble", t)) /\ UNCHANGED bubbles
  BY DEF HearRun
<1> HIDE DEF t
<1>5. s \in DC /\ mail[t].step # "unsent" /\ mail[t].step \in MailSteps
  BY <1>1, <1>3, MailIs DEF Mail
<1>6. KeyOf(s) = mail[t].key
  BY <1>3, <1>5, TurnsStandNow, SessionIs, <1>1 DEF TurnStands, KeyFits
<1>7. k \in Keys /\ KeyOf(s) = k
  BY <1>1, <1>5, <1>6, SessionIs
<1>8. ~ (Pending(t) /\ mail[t].session # s) => s \in SessionsOf(mail[t])
  <2>1. CASE Pending(t)
    BY <2>1 DEF SessionsOf
  <2>2. CASE ~ Pending(t)
    <3>1. mail[t].step = "done"
      BY <1>5, <2>2 DEF Pending, MailSteps
    <3> QED
      BY <3>1 DEF SessionsOf
  <2> QED
    BY <2>1, <2>2
<1> HIDE DEF k
<1>9. Hears(t, k)
  BY <1>3, <1>4, <1>5, <1>7, <1>8 DEF Hears
<1> QED
  BY <1>3, <1>7, <1>9

\* What a binding makes of the sessions bound.
LEMMA BoundIs ==
  ASSUME ChatInv, NEW k \in Keys, NEW s \in DC, bound' = [bound EXCEPT ![k] = s]
  PROVE  /\ s \in Bounds' /\ Bounds' \subseteq Bounds \cup {s}
         /\ \A i \in Keys : bound'[i] = bound[i] \/ (i = k /\ bound'[i] = s)
         /\ bound' \in [Keys -> Chats \cup {Nobody}]
<1>1. bound \in [Keys -> Chats \cup {Nobody}] /\ s \in Chats
  BY SessionIs DEF ChatInv, RestStands
<1> QED
  BY <1>1 DEF Bounds

TurnsStep == mail' \in [Mails -> Mail] /\ \A t \in Mails : TurnStands(t)' /\ Moves(t)

LEMMA OneTurn ==
  ASSUME ChatInv, Grown, NEW t \in Mails, Only(t), TurnStands(t)' /\ Moves(t)
  PROVE  TurnsStep
<1>1. ASSUME NEW u \in Mails
      PROVE  TurnStands(u)' /\ Moves(u)
  <2>1. CASE u = t
    BY <2>1
  <2>2. CASE u # t
    BY <2>2, TurnKept DEF Only
  <2> QED
    BY <2>1, <2>2
<1> QED
  BY <1>1 DEF TurnsStep, Only

LEMMA RestTurns ==
  ASSUME ChatInv, Grown, UNCHANGED mail
  PROVE  TurnsStep
<1>1. mail' \in [Mails -> Mail]
  BY DEF ChatInv, MailsStand
<1> QED
  BY <1>1, TurnKept DEF TurnsStep

\* A turn that goes on where it is.
LEMMA TurnGoesOn ==
  ASSUME ChatInv, Grown, NEW t \in Mails, mail[t].step # "unsent", NEW step, NEW job,
         Became(mail'[t], mail[t], step, mail[t].session, mail[t].posted, mail[t].where, job),
         step # "unsent", Progress(mail'[t]),
         step \in {"settling", "done"} => mail[t].step \in {"settling", "done"}
  PROVE  TurnStands(t)' /\ Moves(t)
<1>1. /\ mail'[t].step = step /\ mail'[t].session = mail[t].session /\ mail'[t].posted = mail[t].posted
      /\ mail'[t].where = mail[t].where /\ mail'[t].key = mail[t].key
      /\ mail'[t].home = mail[t].home /\ mail'[t].from = mail[t].from
  BY DEF Became
<1>2. \A s \in {mail'[t].session, mail'[t].posted, mail'[t].where} :
        s = Nobody \/ (s \in DC' /\ KeyOf(s)' = mail[t].key)
  BY <1>1, StillThere
<1>3. mail'[t].where # Nobody => chats'[mail'[t].where].home = mail[t].home
  BY <1>1, StillThere
<1> QED
  BY <1>1, <1>2, <1>3, TurnBecame

LEMMA ServerTurns ==
  ASSUME ChatInv, Grown, ServerChat
  PROVE  TurnsStep
<1>m. MailsStand
  BY DEF ChatInv
<1>1. CASE ListChats \/ \E c \in Friends : RunBooked(c)
  BY <1>1, RestTurns DEF ListChats, RunBooked
<1>2. ASSUME NEW t \in Mails, Refuse(t) \/ BreakRun(t)
      PROVE  TurnsStep
  <2>1. /\ Only(t) /\ mail[t].job \in {"sent", "started"}
        /\ Became(mail'[t], mail[t], mail[t].step, mail[t].session, mail[t].posted, mail[t].where, "broken")
    BY <1>2, <1>m, RefuseMail, BreakMail
  <2>2. mail[t].step # "unsent" /\ Progress(mail[t])
    BY <1>m, <2>1, MailIs
  <2>3. Progress(mail'[t])
    BY <2>1, <2>2 DEF Progress, Became
  <2>4. TurnStands(t)' /\ Moves(t)
    BY <2>1, <2>2, <2>3, TurnGoesOn
  <2> QED
    BY <2>1, <2>4, OneTurn
<1>3. ASSUME NEW t \in Mails, OpenRun(t)
      PROVE  TurnsStep
  <2>1. /\ Only(t) /\ mail[t].job = "asked"
        /\ Became(mail'[t], mail[t], mail[t].step, mail[t].session, mail[t].posted, mail[t].where, "started")
    BY <1>3, <1>m, RunMail
  <2>2. mail[t].step # "unsent" /\ Progress(mail[t])
    BY <1>m, <2>1, MailIs
  <2>3. Progress(mail'[t])
    BY <2>1, <2>2 DEF Progress, Became
  <2>4. TurnStands(t)' /\ Moves(t)
    BY <2>1, <2>2, <2>3, TurnGoesOn
  <2> QED
    BY <2>1, <2>4, OneTurn
<1>4. ASSUME NEW t \in Mails, FinishRun(t)
      PROVE  TurnsStep
  <2>1. /\ Only(t) /\ mail[t].job = "started"
        /\ Became(mail'[t], mail[t], mail[t].step, mail[t].session, mail[t].posted, mail[t].where, "answered")
    BY <1>4, <1>m, FinishMail
  <2>2. mail[t].step # "unsent" /\ Progress(mail[t])
    BY <1>m, <2>1, MailIs
  <2>3. Progress(mail'[t])
    BY <2>1, <2>2 DEF Progress, Became
  <2>4. TurnStands(t)' /\ Moves(t)
    BY <2>1, <2>2, <2>3, TurnGoesOn
  <2> QED
    BY <2>1, <2>4, OneTurn
<1>5. ASSUME NEW t \in Mails, Accept(t)
      PROVE  TurnsStep
  <2>1. Only(t) /\ mail[t].job = "sent" /\ mail[t].where = Nobody
    BY <1>5, AcceptMail
  <2>2. PICK s \in DC' :
          /\ Became(mail'[t], mail[t], mail[t].step, mail[t].session, mail[t].posted, s, "asked")
          /\ KeyOf(s)' = mail[t].key /\ chats'[s].home = mail[t].home
    BY <1>5, AcceptMail
  <2>3. mail[t].step # "unsent" /\ Progress(mail[t])
    BY <1>m, <2>1, MailIs
  <2>4. s # Nobody
    BY <2>2, NamesApart DEF Grown
  <2>5. Progress(mail'[t]) /\ mail[t].step \notin {"settling", "done"}
    BY <2>1, <2>2, <2>3, <2>4 DEF Progress, Became
  <2>6. /\ mail'[t].step = mail[t].step /\ mail'[t].session = mail[t].session
        /\ mail'[t].posted = mail[t].posted /\ mail'[t].where = s /\ mail'[t].key = mail[t].key
        /\ mail'[t].home = mail[t].home /\ mail'[t].from = mail[t].from
    BY <2>2 DEF Became
  <2>7. \A r \in {mail'[t].session, mail'[t].posted, mail'[t].where} :
          r = Nobody \/ (r \in DC' /\ KeyOf(r)' = mail[t].key)
    BY <2>2, <2>6, StillThere
  <2>10. TurnStands(t)' /\ Moves(t)
    BY <2>1, <2>2, <2>3, <2>5, <2>6, <2>7, TurnBecame
  <2> QED
    BY <2>1, <2>10, OneTurn
<1> QED
  BY <1>1, <1>2, <1>3, <1>4, <1>5 DEF ServerChat

LEMMA SendTurns ==
  ASSUME ChatInv, Grown, NEW t \in Mails, Send(t)
  PROVE  TurnsStep
<1>1. /\ Only(t) /\ mail[t].step = "unsent" /\ mail[t] = Unsent
      /\ mail'[t].step = "queued" /\ mail'[t].job = "none"
      /\ mail'[t].posted = Nobody /\ mail'[t].where = Nobody
      /\ mail'[t].key = OpenKey /\ mail'[t].home = pane.home
      /\ mail'[t].from = pane.chat /\ mail'[t].session = pane.chat
      /\ OpenKey \in Keys
  BY SendMail
<1>2. /\ pane.chat # Nobody => pane.chat \in DC /\ OpenKey = KeyOf(pane.chat)
      /\ pane.chat = Nobody => OpenKey \in Friends /\ HomeOfFriend[OpenKey] = pane.home
      /\ pane.home \in Homes
  BY <1>1, OpenKeyIs, NamesApart
<1>3. Progress(mail'[t])
  BY <1>1, <1>2 DEF Progress
<1>4. OpenKey \in Chats => OpenKey \in DC
  <2>1. CASE pane.chat # Nobody
    BY <1>2, <2>1, SessionIs DEF ChatInv
  <2>2. CASE pane.chat = Nobody
    BY <1>2, <2>2, NamesApart
  <2> QED
    BY <2>1, <2>2
<1>5. PICK c : c = pane.chat
  OBVIOUS
<1>6. c # Nobody => c \in DC' /\ KeyOf(c)' = OpenKey
  BY <1>2, <1>5 DEF Grown
<1>7. Names(mail'[t], DC')
  BY <1>1, <1>2, <1>4, <1>5, <1>6 DEF Names, Grown
<1>8. KeyFits(mail[t])'
  <2>1. \A s \in {mail'[t].from, mail'[t].session, mail'[t].posted, mail'[t].where} \ {Nobody} :
          KeyOf(s)' = mail'[t].key
    BY <1>1, <1>5, <1>6
  <2> QED
    BY <1>1, <2>1 DEF KeyFits
<1>9. SessionsOf(mail'[t]) \subseteq {pane.chat}
  BY <1>1 DEF SessionsOf
<1>10. Moves(t)
  <2>1. mail[t].where = Nobody
    BY <1>1 DEF Unsent
  <2> QED
    BY <1>1, <1>9, <2>1 DEF Moves
<1>11. TurnStands(t)'
  BY <1>3, <1>7, <1>8 DEF TurnStands
<1> QED
  BY <1>1, <1>10, <1>11, OneTurn

LEMMA OwnerTurns ==
  ASSUME ChatInv, Grown, OwnerChat
  PROVE  TurnsStep
<1>1. CASE \E t \in Mails : Send(t)
  BY <1>1, SendTurns
<1>2. CASE ~ \E t \in Mails : Send(t)
  <2>1. UNCHANGED mail
    BY <1>2 DEF OwnerChat, OpenWorld, SelectChat, Direct, BeginGroup, Reload, LoadOlder, Decide
  <2> QED
    BY <2>1, RestTurns
<1> QED
  BY <1>1, <1>2

LEMMA PageTurns ==
  ASSUME ChatInv, Grown, PageChat
  PROVE  TurnsStep
<1>1. UNCHANGED mail
  BY DEF PageChat, ReadWorld, ShowWorld, OpenGroup, ReadTranscript, ShowTranscript, LoseTranscript,
         ShowOlder
<1> QED
  BY <1>1, RestTurns

LEMMA PostTurns ==
  ASSUME ChatInv, Grown, NEW t \in Mails, Post(t)
  PROVE  TurnsStep
<1>1. Only(t) /\ mail[t].step = "queued" /\ mail[t].job = "none"
  BY PostMail
<1>2. PICK s \in DC \cup {Nobody} :
        /\ Became(mail'[t], mail[t], "posted", mail[t].session, s, mail[t].where, "sent")
        /\ s # Nobody => KeyOf(s) = mail[t].key
        /\ s = Nobody => mail[t].from = Nobody
  BY PostMail
<1>3. mail[t].step # "unsent" /\ Progress(mail[t])
  BY <1>1, MailIs DEF ChatInv
<1>4. /\ mail'[t].step = "posted" /\ mail'[t].session = mail[t].session
      /\ mail'[t].posted = s /\ mail'[t].where = mail[t].where /\ mail'[t].key = mail[t].key
      /\ mail'[t].home = mail[t].home /\ mail'[t].from = mail[t].from /\ mail'[t].job = "sent"
  BY <1>2 DEF Became
<1>5. mail[t].where = Nobody
  BY <1>3, <1>1, MailIs DEF ChatInv, Progress
<1>6. Progress(mail'[t])
  BY <1>2, <1>3, <1>4, <1>5 DEF Progress
<1>7. \A r \in {mail'[t].session, mail'[t].posted, mail'[t].where} :
        r = Nobody \/ (r \in DC' /\ KeyOf(r)' = mail[t].key)
  <2>1. s = Nobody \/ (s \in DC' /\ KeyOf(s)' = mail[t].key)
    BY <1>2 DEF Grown
  <2> QED
    BY <1>4, <2>1, StillThere
<1>8. TurnStands(t)' /\ Moves(t)
  BY <1>3, <1>4, <1>5, <1>6, <1>7, TurnBecame
<1> QED
  BY <1>1, <1>8, OneTurn

LEMMA TakeTurns ==
  ASSUME ChatInv, Grown, NEW t \in Mails, TakeAnswer(t)
  PROVE  TurnsStep
<1>1. /\ mail[t].step = "posted" /\ mail[t].job = "answered" /\ mail[t].where \in DC
      /\ mail' \in [Mails -> Mail]
  BY TakeMail
<1>m. MailsStand /\ ChatsStand
  BY DEF ChatInv
<1>2. mail[t].key \in Keys /\ mail[t].step # "unsent" /\ Progress(mail[t])
  BY <1>1, <1>m, MailIs
<1>3. bound' = [bound EXCEPT ![mail[t].key] = mail[t].where]
  BY DEF TakeAnswer, Bind
<1>4. PICK w, k : w = mail[t].where /\ k = mail[t].key
  OBVIOUS
<1>5. w \in Bounds' /\ w \in DC' /\ KeyOf(w)' = k /\ w # Nobody /\ chats'[w].home = mail[t].home
  <2>1. w # Nobody
    BY <1>1, <1>4, <1>m, SessionIs
  <2> QED
    BY <1>1, <1>2, <1>3, <1>4, <2>1, BoundIs, StillThere
<1>6. ASSUME NEW u \in Mails, u # t
      PROVE  TurnStands(u)' /\ Moves(u)
  <2>1. CASE mail'[u] = mail[u]
    BY <2>1, TurnKept
  <2>2. CASE mail'[u] # mail[u]
    <3>1. /\ mail[u].key = mail[t].key /\ mail[u].session = Nobody /\ mail[u].step # "unsent"
          /\ Became(mail'[u], mail[u], mail[u].step, mail[t].where, mail[u].posted,
                    mail[u].where, mail[u].job)
      BY <1>6, <2>2, TakeMail
    <3>2. /\ mail'[u].step = mail[u].step /\ mail'[u].session = w
          /\ mail'[u].posted = mail[u].posted /\ mail'[u].where = mail[u].where
          /\ mail'[u].key = mail[u].key /\ mail'[u].home = mail[u].home
          /\ mail'[u].from = mail[u].from /\ mail'[u].job = mail[u].job
      BY <1>4, <3>1 DEF Became
    <3>3. Progress(mail'[u])
      BY <1>m, <3>1, <3>2, MailIs DEF Progress
    <3>4. \A r \in {mail'[u].session, mail'[u].posted, mail'[u].where} :
            r = Nobody \/ (r \in DC' /\ KeyOf(r)' = mail[u].key)
      BY <1>4, <1>5, <3>1, <3>2, StillThere
    <3>5. mail'[u].where # Nobody => chats'[mail'[u].where].home = mail[u].home
      BY <3>2, StillThere
    <3> QED
      BY <1>5, <3>1, <3>2, <3>3, <3>4, <3>5, TurnBecame
  <2> QED
    BY <2>1, <2>2
<1>7. TurnStands(t)' /\ Moves(t)
  <2>1. PICK s \in {mail[t].session, mail[t].where} :
          Became(mail'[t], mail[t], "settling", s, mail[t].posted, mail[t].where, mail[t].job)
    BY TakeMail
  <2>2. /\ mail'[t].step = "settling" /\ mail'[t].session = s
        /\ mail'[t].posted = mail[t].posted /\ mail'[t].where = w
        /\ mail'[t].key = mail[t].key /\ mail'[t].home = mail[t].home
        /\ mail'[t].from = mail[t].from /\ mail'[t].job = "answered"
    BY <1>1, <1>4, <2>1 DEF Became
  <2>3. Progress(mail'[t])
    BY <1>1, <1>2, <1>5, <2>2 DEF Progress
  <2>4. \A r \in {mail'[t].session, mail'[t].posted, mail'[t].where} :
          r = Nobody \/ (r \in DC' /\ KeyOf(r)' = mail[t].key)
    BY <1>4, <1>5, <2>1, <2>2, StillThere
  <2> QED
    BY <1>2, <1>4, <1>5, <2>1, <2>2, <2>3, <2>4, TurnBecame
<1> QED
  BY <1>1, <1>6, <1>7 DEF TurnsStep

LEMMA MissTurns ==
  ASSUME ChatInv, Grown, NEW t \in Mails, MissAnswer(t)
  PROVE  TurnsStep
<1>m. MailsStand
  BY DEF ChatInv
<1>1. Only(t) /\ mail[t].step = "posted"
  BY <1>m, MissMail
<1>2. PICK step \in {"failing", "failed"} :
        Became(mail'[t], mail[t], step, mail[t].session, mail[t].posted, mail[t].where, mail[t].job)
  BY <1>m, MissMail
<1>3. Progress(mail[t])
  BY <1>m, MailIs
<1>4. Progress(mail'[t])
  BY <1>1, <1>2, <1>3 DEF Progress, Became
<1>5. TurnStands(t)' /\ Moves(t)
  BY <1>1, <1>2, <1>4, TurnGoesOn
<1> QED
  BY <1>1, <1>5, OneTurn

LEMMA EndsTurns ==
  ASSUME ChatInv, Grown, NEW f \in fetches, Ends(f)
  PROVE  TurnsStep
<1>m. MailsStand
  BY DEF ChatInv
<1>f. f.ends = "turn" => f.mail \in Mails /\ mail[f.mail].step \notin {"unsent", "queued", "posted"}
  BY DEF ChatInv, RestStands, AnswersMeet
<1>1. CASE UNCHANGED mail
  BY <1>1, RestTurns
<1>2. CASE ~ UNCHANGED mail
  <2>1. f.ends = "turn" /\ f.mail \in Mails /\ Only(f.mail)
    BY <1>m, <1>f, <1>2, EndsMail
  <2>2. PICK step \in {"done", "failed"} :
          /\ step = "done" <=> mail[f.mail].step = "settling"
          /\ Became(mail'[f.mail], mail[f.mail], step, mail[f.mail].session, mail[f.mail].posted,
                    mail[f.mail].where, mail[f.mail].job)
    BY <1>m, <1>f, <1>2, EndsMail
  <2>3. Progress(mail[f.mail]) /\ mail[f.mail].step \notin {"unsent", "queued"}
    BY <1>m, <1>f, <2>1, MailIs
  <2>4. Progress(mail'[f.mail])
    BY <2>2, <2>3 DEF Progress, Became
  <2>5. TurnStands(f.mail)' /\ Moves(f.mail)
    BY <2>1, <2>2, <2>3, <2>4, TurnGoesOn
  <2> QED
    BY <2>1, <2>5, OneTurn
<1> QED
  BY <1>1, <1>2

LEMMA HearTurns ==
  ASSUME ChatInv, Grown, HearRun
  PROVE  TurnsStep
<1>1. PICK t \in Mails, k \in Keys : Hears(t, k)
  BY HearIs
<1>m. MailsStand /\ ChatsStand
  BY DEF ChatInv
<1>2. CASE UNCHANGED mail
  BY <1>2, RestTurns
<1>3. CASE ~ UNCHANGED mail
  <2>1. PICK w : w = mail[t].where
    OBVIOUS
  <2>2. w \in DC /\ KeyOf(w) = k /\ Bind(k, w) /\ mail' = Bound(k, w)
    BY <1>1, <1>3, <2>1 DEF Hears
  <2>3. bound' = [bound EXCEPT ![k] = w]
    BY <2>2 DEF Bind
  <2>4. w \in Bounds' /\ w \in DC' /\ KeyOf(w)' = k
    BY <2>2, <2>3, BoundIs DEF Grown
  <2>5. /\ mail' \in [Mails -> Mail]
        /\ \A u \in Mails :
             \/ mail'[u] = mail[u]
             \/ /\ mail[u].key = k /\ mail[u].session = Nobody /\ mail[u].step # "unsent"
                /\ Became(mail'[u], mail[u], mail[u].step, w, mail[u].posted, mail[u].where,
                          mail[u].job)
    BY <1>m, <2>2, BoundMail
  <2>6. ASSUME NEW u \in Mails
        PROVE  TurnStands(u)' /\ Moves(u)
    <3>1. CASE mail'[u] = mail[u]
      BY <3>1, TurnKept
    <3>2. CASE mail'[u] # mail[u]
      <4>1. /\ mail[u].key = k /\ mail[u].session = Nobody /\ mail[u].step # "unsent"
            /\ Became(mail'[u], mail[u], mail[u].step, w, mail[u].posted, mail[u].where, mail[u].job)
        BY <2>5, <3>2
      <4>2. /\ mail'[u].step = mail[u].step /\ mail'[u].session = w
            /\ mail'[u].posted = mail[u].posted /\ mail'[u].where = mail[u].where
            /\ mail'[u].key = mail[u].key /\ mail'[u].home = mail[u].home
            /\ mail'[u].from = mail[u].from /\ mail'[u].job = mail[u].job
        BY <4>1 DEF Became
      <4>3. Progress(mail'[u])
        BY <1>m, <4>1, <4>2, MailIs DEF Progress
      <4>4. \A r \in {mail'[u].session, mail'[u].posted, mail'[u].where} :
              r = Nobody \/ (r \in DC' /\ KeyOf(r)' = mail[u].key)
        BY <2>4, <4>1, <4>2, StillThere
      <4>5. mail'[u].where # Nobody => chats'[mail'[u].where].home = mail[u].home
        BY <4>2, StillThere
      <4> QED
        BY <2>4, <4>1, <4>2, <4>3, <4>4, <4>5, TurnBecame
    <3> QED
      BY <3>1, <3>2
  <2> QED
    BY <2>5, <2>6 DEF TurnsStep
<1> QED
  BY <1>2, <1>3

LEMMA TurnsMove ==
  ASSUME ChatInv, Grown, [ChatNext]_chatVars
  PROVE  TurnsStep
<1>1. CASE TurnChat
  <2>1. CASE \E t \in Mails : Reconcile(t)
    BY <2>1, RestTurns DEF Reconcile
  <2>2. CASE CutStream
    BY <2>2, RestTurns DEF CutStream
  <2>3. CASE \E f \in fetches : Refreshed(f) \/ RefreshFails(f)
    BY <2>3, EndsTurns DEF Refreshed, RefreshFails
  <2> QED
    BY <1>1, <2>1, <2>2, <2>3, PostTurns, TakeTurns, MissTurns, HearTurns DEF TurnChat
<1>2. CASE UNCHANGED chatVars
  BY <1>2, RestTurns DEF chatVars
<1> QED
  BY <1>1, <1>2, ServerTurns, OwnerTurns, PageTurns DEF ChatNext

LEMMA MailsStep ==
  ASSUME ChatInv, Grown, [ChatNext]_chatVars
  PROVE  MailsStand'
<1>1. TurnsStep
  BY TurnsMove
<1>2. \A t \in Mails : Progress(mail'[t]) /\ Names(mail'[t], DC')
  BY <1>1 DEF TurnsStep, TurnStands
<1> QED
  BY <1>1, <1>2 DEF TurnsStep, MailsStand

-----------------------------------------------------------------------------
(* Messages and frames *)

ScrollBound(s) == Past + Cardinality(Sent(s)) + Cardinality(Heard(s))

LEMMA ScrollIs ==
  ASSUME ChatInv, NEW s \in Chats
  PROVE  /\ scroll[s] \in Seq(Msgs) /\ Len(scroll[s]) \in Nat
         /\ DOMAIN scroll[s] = 1 .. Len(scroll[s])
         /\ Newest(s) \subseteq Posts /\ Within(Newest(s), s)
         /\ \A n \in DOMAIN scroll[s] : <<s, n>> \in Posts
<1>1. scroll[s] \in Seq(Msgs) /\ Len(scroll[s]) <= ScrollBound(s)
  BY DEF ChatInv, ScrollStands, ScrollBound
<1>2. Sent(s) \subseteq Mails /\ Heard(s) \subseteq Mails
  BY DEF Sent, Heard
<1>3. /\ Cardinality(Sent(s)) \in Nat /\ Cardinality(Sent(s)) <= Cardinality(Mails)
      /\ Cardinality(Heard(s)) \in Nat /\ Cardinality(Heard(s)) <= Cardinality(Mails)
  BY <1>2, NumbersFit, FS_Subset, FS_CardinalityType
<1>4. Len(scroll[s]) \in Nat /\ DOMAIN scroll[s] = 1 .. Len(scroll[s])
  BY <1>1
<1>5. Len(scroll[s]) <= Past + 2 * Cardinality(Mails)
  BY <1>1, <1>3, <1>4, NumbersFit DEF ScrollBound
<1>6. \A n \in DOMAIN scroll[s] : <<s, n>> \in Posts
  BY <1>4, <1>5, NumbersFit DEF Posts
<1>7. Newest(s) \subseteq Posts /\ Within(Newest(s), s)
  BY <1>6 DEF Newest, Within
<1> QED
  BY <1>1, <1>4, <1>6, <1>7

LEMMA SentIs ==
  ASSUME NEW s
  PROVE  /\ Sent(s) \subseteq Mails /\ Heard(s) \subseteq Mails
         /\ IsFiniteSet(Sent(s)) /\ IsFiniteSet(Heard(s))
         /\ Cardinality(Sent(s)) \in Nat /\ Cardinality(Heard(s)) \in Nat
<1>1. Sent(s) \subseteq Mails /\ Heard(s) \subseteq Mails
  BY DEF Sent, Heard
<1> QED
  BY <1>1, NumbersFit, FS_Subset, FS_CardinalityType

\* The messages of a session stay within what has been sent and answered, if no turn
\* moves and none of them grows.
LEMMA ScrollRests ==
  ASSUME ChatInv, UNCHANGED scroll, mail' \in [Mails -> Mail],
         \A t \in Mails : /\ mail'[t].where = mail[t].where
                          /\ (mail'[t].job = "answered") <=> (mail[t].job = "answered")
  PROVE  ScrollStands'
<1>1. ASSUME NEW s \in Chats PROVE Sent(s)' = Sent(s) /\ Heard(s)' = Heard(s)
  BY DEF Sent, Heard
<1> QED
  BY <1>1 DEF ChatInv, ScrollStands

LEMMA ScrollAccepts ==
  ASSUME ChatInv, Grown, NEW t \in Mails, Accept(t)
  PROVE  ScrollStands'
<1>1. Only(t) /\ mail[t].job = "sent" /\ mail[t].where = Nobody
  BY AcceptMail
<1>2. PICK r \in DC' :
        /\ Became(mail'[t], mail[t], mail[t].step, mail[t].session, mail[t].posted, r, "asked")
        /\ scroll' = [scroll EXCEPT ![r] = Append(@, [mail |-> t, by |-> "owner"])]
  BY AcceptMail
<1>3. r \in Chats /\ scroll \in [Chats -> Seq(Msgs)]
  BY DEF Grown, ChatInv, ScrollStands
<1>4. mail'[t].where = r /\ mail'[t].job = "asked" /\ r # Nobody
  BY <1>2, <1>3, NamesApart DEF Became
<1> DEFINE m == [mail |-> t, by |-> "owner"]
<1>5. m \in Msgs
  BY DEF Msgs
<1> HIDE DEF m
<1>6. /\ Append(scroll[r], m) \in Seq(Msgs) /\ Len(Append(scroll[r], m)) = Len(scroll[r]) + 1
      /\ Len(scroll[r]) \in Nat
  BY <1>3, <1>5
<1>7. /\ scroll' \in [Chats -> Seq(Msgs)] /\ scroll'[r] = Append(scroll[r], m)
      /\ \A s \in Chats : s # r => scroll'[s] = scroll[s]
  BY <1>2, <1>3, <1>6 DEF m
<1>8. ASSUME NEW s \in Chats PROVE Heard(s)' = Heard(s)
  BY <1>1, <1>4 DEF Heard, Only
<1>9. ASSUME NEW s \in Chats, s # r PROVE Sent(s)' = Sent(s)
  BY <1>1, <1>4, <1>9, <1>3, NamesApart DEF Sent, Only
<1>10. Sent(r)' = Sent(r) \cup {t} /\ t \notin Sent(r)
  BY <1>1, <1>3, <1>4, NamesApart DEF Sent, Only
<1>11. Cardinality(Sent(r)') = Cardinality(Sent(r)) + 1
  BY <1>10, SentIs, FS_AddElement
<1>12. ASSUME NEW s \in Chats
       PROVE  Len(scroll'[s]) <= Past + Cardinality(Sent(s)') + Cardinality(Heard(s)')
  <2>1. Len(scroll[s]) <= Past + Cardinality(Sent(s)) + Cardinality(Heard(s))
    BY DEF ChatInv, ScrollStands
  <2>2. CASE s = r
    BY <1>6, <1>7, <1>8, <1>11, <2>1, <2>2, SentIs, NumbersFit
  <2>3. CASE s # r
    BY <1>7, <1>8, <1>9, <2>1, <2>3
  <2> QED
    BY <2>2, <2>3
<1> QED
  BY <1>7, <1>12 DEF ScrollStands

LEMMA ScrollAnswers ==
  ASSUME ChatInv, NEW t \in Mails, FinishRun(t)
  PROVE  ScrollStands'
<1>m. MailsStand
  BY DEF ChatInv
<1>1. Only(t) /\ mail[t].job = "started" /\ mail[t].where \in DC
  BY <1>m, FinishMail, MailIs
<1>2. PICK r : r = mail[t].where
  OBVIOUS
<1>3. r \in Chats /\ scroll \in [Chats -> Seq(Msgs)]
  BY <1>1, <1>2, SessionIs DEF ChatInv, ScrollStands
<1>4. mail'[t].where = r /\ mail'[t].job = "answered" /\ mail[t].where = r
  BY <1>m, <1>2, FinishMail DEF Became
<1> DEFINE m == [mail |-> t, by |-> "them"]
<1>5. m \in Msgs
  BY DEF Msgs
<1>s. scroll' = [scroll EXCEPT ![r] = Append(scroll[r], m)]
  BY <1>2 DEF FinishRun
<1> HIDE DEF m
<1>6. /\ Append(scroll[r], m) \in Seq(Msgs) /\ Len(Append(scroll[r], m)) = Len(scroll[r]) + 1
      /\ Len(scroll[r]) \in Nat
  BY <1>3, <1>5
<1>7. /\ scroll' \in [Chats -> Seq(Msgs)] /\ scroll'[r] = Append(scroll[r], m)
      /\ \A s \in Chats : s # r => scroll'[s] = scroll[s]
  BY <1>s, <1>3, <1>6
<1>8. ASSUME NEW s \in Chats PROVE Sent(s)' = Sent(s)
  BY <1>1, <1>4 DEF Sent, Only
<1>9. ASSUME NEW s \in Chats, s # r PROVE Heard(s)' = Heard(s)
  BY <1>1, <1>4, <1>9 DEF Heard, Only
<1>10. Heard(r)' = Heard(r) \cup {t} /\ t \notin Heard(r)
  BY <1>1, <1>4 DEF Heard, Only
<1>11. Cardinality(Heard(r)') = Cardinality(Heard(r)) + 1
  BY <1>10, SentIs, FS_AddElement
<1>12. ASSUME NEW s \in Chats
       PROVE  Len(scroll'[s]) <= Past + Cardinality(Sent(s)') + Cardinality(Heard(s)')
  <2>1. Len(scroll[s]) <= Past + Cardinality(Sent(s)) + Cardinality(Heard(s))
    BY DEF ChatInv, ScrollStands
  <2>2. CASE s = r
    BY <1>6, <1>7, <1>8, <1>11, <2>1, <2>2, SentIs, NumbersFit
  <2>3. CASE s # r
    BY <1>7, <1>8, <1>9, <2>1, <2>3
  <2> QED
    BY <2>2, <2>3
<1> QED
  BY <1>7, <1>12 DEF ScrollStands

\* No turn is accepted or answered.
Quiet ==
  /\ UNCHANGED scroll /\ mail' \in [Mails -> Mail]
  /\ \A t \in Mails : /\ mail'[t].where = mail[t].where
                      /\ (mail'[t].job = "answered") <=> (mail[t].job = "answered")

LEMMA QuietOne ==
  ASSUME ChatInv, NEW t \in Mails, UNCHANGED scroll, Only(t), mail'[t].where = mail[t].where,
         (mail'[t].job = "answered") <=> (mail[t].job = "answered")
  PROVE  Quiet
  BY DEF Quiet, Only

LEMMA QuietRest ==
  ASSUME ChatInv, UNCHANGED <<scroll, mail>>
  PROVE  Quiet
  BY DEF Quiet, ChatInv, MailsStand

LEMMA QuietEnds ==
  ASSUME ChatInv, NEW f \in fetches, UNCHANGED scroll, Ends(f)
  PROVE  Quiet
<1>1. MailsStand /\ (f.ends = "turn" => f.mail \in Mails)
  BY DEF ChatInv, RestStands
<1>2. CASE UNCHANGED mail
  BY <1>2, QuietRest
<1>3. CASE ~ UNCHANGED mail
  <2>1. f.mail \in Mails /\ Only(f.mail)
    BY <1>1, <1>3, EndsMail
  <2>2. mail'[f.mail].where = mail[f.mail].where /\ mail'[f.mail].job = mail[f.mail].job
    BY <1>1, <1>3, EndsMail DEF Became
  <2> QED
    BY <2>1, <2>2, QuietOne
<1> QED
  BY <1>2, <1>3

LEMMA QuietHear ==
  ASSUME ChatInv, HearRun
  PROVE  Quiet
<1>1. PICK t \in Mails, k \in Keys : Hears(t, k)
  BY HearIs
<1>2. UNCHANGED scroll /\ MailsStand /\ ChatsStand
  BY DEF HearRun, ChatInv
<1>3. CASE UNCHANGED mail
  BY <1>2, <1>3, QuietRest
<1>4. CASE ~ UNCHANGED mail
  <2>1. mail[t].where \in DC /\ mail' = Bound(k, mail[t].where)
    BY <1>1, <1>4 DEF Hears
  <2>2. /\ mail' \in [Mails -> Mail]
        /\ \A u \in Mails : \/ mail'[u] = mail[u]
                            \/ Became(mail'[u], mail[u], mail[u].step, mail[t].where, mail[u].posted,
                                      mail[u].where, mail[u].job)
    BY <1>2, <2>1, BoundMail
  <2> QED
    BY <1>2, <2>2 DEF Quiet, Became
<1> QED
  BY <1>3, <1>4

LEMMA QuietTurns ==
  ASSUME ChatInv, [ChatNext]_chatVars
  PROVE  Quiet \/ \E t \in Mails : Accept(t) \/ FinishRun(t)
<1>m. MailsStand
  BY DEF ChatInv
<1>1. ASSUME NEW t \in Mails, Refuse(t) \/ OpenRun(t) \/ BreakRun(t)
      PROVE  Quiet
  <2>1. Only(t) /\ mail[t].job # "answered" /\ mail'[t].job # "answered" /\ mail'[t].where = mail[t].where
    BY <1>1, <1>m, RefuseMail, RunMail, BreakMail DEF Became
  <2>2. UNCHANGED scroll
    BY <1>1 DEF Refuse, OpenRun, BreakRun
  <2> QED
    BY <2>1, <2>2, QuietOne
<1>2. CASE ServerChat /\ ~ \E t \in Mails : Accept(t) \/ FinishRun(t)
  <2>1. CASE ListChats \/ \E c \in Friends : RunBooked(c)
    BY <2>1, QuietRest DEF ListChats, RunBooked
  <2> QED
    BY <1>1, <1>2, <2>1 DEF ServerChat
<1>3. CASE OwnerChat
  <2>1. CASE \E t \in Mails : Send(t)
    <3>1. PICK t \in Mails : Send(t)
      BY <2>1
    <3>2. /\ Only(t) /\ mail[t] = Unsent /\ mail'[t].where = Nobody /\ mail'[t].job = "none"
      BY <3>1, SendMail
    <3>3. mail[t].where = Nobody /\ mail[t].job = "none"
      BY <3>2 DEF Unsent
    <3>4. UNCHANGED scroll
      BY <3>1 DEF Send
    <3> QED
      BY <3>2, <3>3, <3>4, QuietOne
  <2>2. CASE ~ \E t \in Mails : Send(t)
    <3>1. UNCHANGED <<scroll, mail>>
      BY <1>3, <2>2 DEF OwnerChat, OpenWorld, SelectChat, Direct, BeginGroup, Reload, LoadOlder, Decide
    <3> QED
      BY <3>1, QuietRest
  <2> QED
    BY <2>1, <2>2
<1>4. CASE PageChat
  <2>1. UNCHANGED <<scroll, mail>>
    BY <1>4 DEF PageChat, ReadWorld, ShowWorld, OpenGroup, ReadTranscript, ShowTranscript,
                LoseTranscript, ShowOlder
  <2> QED
    BY <2>1, QuietRest
<1>5. ASSUME NEW t \in Mails, Post(t)
      PROVE  Quiet
  <2>1. Only(t) /\ mail[t].job = "none" /\ mail'[t].job = "sent" /\ mail'[t].where = mail[t].where
    BY <1>5, PostMail DEF Became
  <2>2. UNCHANGED scroll
    BY <1>5 DEF Post
  <2> QED
    BY <2>1, <2>2, QuietOne
<1>6. ASSUME NEW t \in Mails, MissAnswer(t)
      PROVE  Quiet
  <2>1. Only(t) /\ mail'[t].job = mail[t].job /\ mail'[t].where = mail[t].where
    BY <1>6, <1>m, MissMail DEF Became
  <2>2. UNCHANGED scroll
    BY <1>6 DEF MissAnswer
  <2> QED
    BY <2>1, <2>2, QuietOne
<1>7. ASSUME NEW t \in Mails, TakeAnswer(t)
      PROVE  Quiet
  <2>1. mail' \in [Mails -> Mail]
    BY <1>7, TakeMail
  <2>2. mail'[t].where = mail[t].where /\ mail'[t].job = mail[t].job
    BY <1>7, TakeMail DEF Became
  <2>3. ASSUME NEW u \in Mails, u # t
        PROVE  mail'[u].where = mail[u].where /\ mail'[u].job = mail[u].job
    BY <1>7, <2>3, TakeMail DEF Became
  <2>4. UNCHANGED scroll
    BY <1>7 DEF TakeAnswer
  <2> QED
    BY <2>1, <2>2, <2>3, <2>4 DEF Quiet
<1>8. CASE TurnChat
  <2>1. CASE (\E t \in Mails : Reconcile(t)) \/ CutStream
    BY <2>1, QuietRest DEF Reconcile, CutStream
  <2>2. CASE \E f \in fetches : Refreshed(f) \/ RefreshFails(f)
    BY <2>2, QuietEnds DEF Refreshed, RefreshFails
  <2> QED
    BY <1>5, <1>6, <1>7, <1>8, <2>1, <2>2, QuietHear DEF TurnChat
<1>9. CASE UNCHANGED chatVars
  BY <1>9, QuietRest DEF chatVars
<1> QED
  BY <1>2, <1>3, <1>4, <1>8, <1>9 DEF ChatNext

LEMMA ScrollStep ==
  ASSUME ChatInv, Grown, [ChatNext]_chatVars
  PROVE  ScrollStands'
<1>1. CASE Quiet
  BY <1>1, ScrollRests DEF Quiet
<1>2. CASE \E t \in Mails : Accept(t) \/ FinishRun(t)
  BY <1>2, ScrollAccepts, ScrollAnswers
<1> QED
  BY <1>1, <1>2, QuietTurns

LEMMA FramesStep ==
  ASSUME ChatInv, TurnsStep, [ChatNext]_chatVars
  PROVE  FramesStand'
<1>1. frames \in Seq(Tellings) /\ \A k \in DOMAIN frames : mail[frames[k].mail].where # Nobody
  BY DEF ChatInv, FramesStand
<1>f. \A k \in DOMAIN frames : frames[k].mail \in Mails
  <2>1. \A k \in DOMAIN frames : frames[k] \in Tellings
    BY <1>1
  <2> QED
    BY <2>1 DEF Tellings
<1>2. \A t \in Mails : mail[t].where # Nobody => mail'[t].where # Nobody
  BY DEF TurnsStep, Moves
<1>3. CASE UNCHANGED frames
  BY <1>1, <1>2, <1>3, <1>f DEF FramesStand
<1>4. ASSUME NEW t \in Mails, NEW kind \in {"started", "ended"}, Told(t, kind), mail[t].where # Nobody
      PROVE  FramesStand'
  <2>1. CASE UNCHANGED frames
    BY <1>3, <2>1
  <2>2. CASE frames' = Append(frames, [mail |-> t, kind |-> kind])
    <3> DEFINE r == [mail |-> t, kind |-> kind]
    <3>1. r \in Tellings /\ r.mail = t
      BY DEF Tellings
    <3> HIDE DEF r
    <3>2. /\ frames' \in Seq(Tellings) /\ DOMAIN frames' = 1 .. Len(frames) + 1
          /\ frames'[Len(frames) + 1] = r /\ DOMAIN frames = 1 .. Len(frames)
          /\ \A k \in 1 .. Len(frames) : frames'[k] = frames[k]
      BY <1>1, <2>2, <3>1 DEF r
    <3>3. ASSUME NEW k \in DOMAIN frames'
          PROVE  mail'[frames'[k].mail].where # Nobody
      <4>1. CASE k = Len(frames) + 1
        BY <1>2, <1>4, <3>1, <3>2, <4>1
      <4>2. CASE k # Len(frames) + 1
        <5>1. k \in DOMAIN frames /\ frames'[k] = frames[k] /\ frames[k] \in Tellings
          BY <1>1, <3>2, <4>2
        <5> QED
          BY <1>1, <1>2, <1>f, <5>1
      <4> QED
        BY <4>1, <4>2
    <3> QED
      BY <3>2, <3>3 DEF FramesStand
  <2> QED
    BY <1>4, <2>1, <2>2 DEF Told
<1>5. CASE frames' = <<>>
  BY <1>5 DEF FramesStand
<1>6. CASE frames # <<>> /\ frames' = Tail(frames)
  <2>1. /\ frames' \in Seq(Tellings)
        /\ \A k \in DOMAIN frames' : k + 1 \in DOMAIN frames /\ frames'[k] = frames[k + 1]
    BY <1>1, <1>6
  <2> QED
    BY <1>1, <1>2, <1>f, <2>1 DEF FramesStand
<1>7. CASE ServerChat
  <2>1. ASSUME NEW t \in Mails, OpenRun(t) \/ FinishRun(t) \/ BreakRun(t)
        PROVE  FramesStand'
    <3>1. mail[t].job \in {"asked", "started"} /\ (Told(t, "started") \/ Told(t, "ended"))
      BY <2>1 DEF OpenRun, FinishRun, BreakRun
    <3>2. mail[t].where # Nobody
      BY <3>1, MailIs, SessionIs DEF ChatInv
    <3> QED
      BY <1>4, <3>1, <3>2
  <2>2. CASE ~ \E t \in Mails : OpenRun(t) \/ FinishRun(t) \/ BreakRun(t)
    BY <1>3, <1>7, <2>2 DEF ServerChat, ListChats, RunBooked, Accept, Refuse
  <2> QED
    BY <2>1, <2>2
<1>8. CASE OwnerChat
  <2>1. frames' = <<>> \/ UNCHANGED frames
    BY <1>8 DEF OwnerChat, OpenWorld, SelectChat, Direct, BeginGroup, Reload, LoadOlder, Send, Decide
  <2> QED
    BY <1>3, <1>5, <2>1
<1>9. CASE PageChat
  <2>1. UNCHANGED frames
    BY <1>9 DEF PageChat, ReadWorld, ShowWorld, OpenGroup, ReadTranscript, ShowTranscript,
                LoseTranscript, ShowOlder
  <2> QED
    BY <1>3, <2>1
<1>10. CASE TurnChat
  <2>1. frames' = <<>> \/ UNCHANGED frames \/ (frames # <<>> /\ frames' = Tail(frames))
    BY <1>10 DEF TurnChat, Post, TakeAnswer, MissAnswer, Reconcile, Refreshed, RefreshFails, HearRun,
                 CutStream
  <2> QED
    BY <1>3, <1>5, <1>6, <2>1
<1>11. CASE UNCHANGED chatVars
  BY <1>3, <1>11 DEF chatVars
<1> QED
  BY <1>7, <1>8, <1>9, <1>10, <1>11 DEF ChatNext

-----------------------------------------------------------------------------
(* Bindings and refreshes *)

\* A refresh is of a session under its key or its id.
Asked(f) ==
  /\ f \in Fetch /\ f.chat \in DC /\ Within(f.items, f.chat)
  /\ f.key \in {KeyOf(f.chat), f.chat}
  /\ f.ends = "turn" => f.mail \in Mails

BoundsGrow ==
  /\ bound' \in [Keys -> Chats \cup {Nobody}]
  /\ \A k \in Keys : bound'[k] = bound[k] \/ (bound'[k] \in DC /\ KeyOf(bound'[k]) = k)
FetchesGrow ==
  \A f \in fetches' : f \in fetches \/ (Asked(f) /\ f.chat \in (Met \cup Bounds') \ {Nobody})

LEMMA BoundsRest ==
  ASSUME ChatInv, UNCHANGED bound
  PROVE  BoundsGrow
  BY DEF BoundsGrow, ChatInv, RestStands

LEMMA BoundsOne ==
  ASSUME ChatInv, NEW s \in DC, bound' = [bound EXCEPT ![KeyOf(s)] = s]
  PROVE  BoundsGrow
<1>1. PICK k \in Keys : k = KeyOf(s)
  BY SessionIs DEF ChatInv
<1> QED
  BY <1>1, BoundIs DEF BoundsGrow

LEMMA BindingsStep ==
  ASSUME ChatInv, [ChatNext]_chatVars
  PROVE  BoundsGrow
<1>m. MailsStand /\ ChatsStand
  BY DEF ChatInv
<1>1. CASE ServerChat
  <2>1. UNCHANGED bound
    BY <1>1 DEF ServerChat, ListChats, RunBooked, Accept, Refuse, OpenRun, FinishRun, BreakRun, restVars,
                turnVars
  <2> QED
    BY <2>1, BoundsRest
<1>2. CASE OwnerChat
  <2>1. CASE \E t \in Mails : Send(t)
    <3>1. CASE pane.chat = Nobody
      BY <2>1, <3>1, BoundsRest DEF Send
    <3>2. CASE pane.chat # Nobody
      <4>1. pane.chat \in DC /\ OpenKey = KeyOf(pane.chat)
        BY <3>2, OpenKeyIs
      <4> QED
        BY <2>1, <3>2, <4>1, BoundsOne DEF Send
    <3> QED
      BY <3>1, <3>2
  <2>2. CASE ~ \E t \in Mails : Send(t)
    <3>1. UNCHANGED bound
      BY <1>2, <2>2 DEF OwnerChat, OpenWorld, SelectChat, Direct, BeginGroup, Reload, LoadOlder, Decide,
                        turnVars
    <3> QED
      BY <3>1, BoundsRest
  <2> QED
    BY <2>1, <2>2
<1>3. CASE PageChat
  <2>1. CASE ShowTranscript
    <3>1. pane.chat \in DC
      BY <2>1 DEF ShowTranscript, ChatInv, PaneStands, SheetStands
    <3> QED
      BY <2>1, <3>1, BoundsOne DEF ShowTranscript
  <2>2. CASE ~ ShowTranscript
    <3>1. UNCHANGED bound
      BY <1>3, <2>2 DEF PageChat, ReadWorld, ShowWorld, OpenGroup, ReadTranscript, LoseTranscript,
                        ShowOlder, turnVars
    <3> QED
      BY <3>1, BoundsRest
  <2> QED
    BY <2>1, <2>2
<1>4. ASSUME NEW t \in Mails, TakeAnswer(t)
      PROVE  BoundsGrow
  <2>1. mail[t].where \in DC /\ mail[t].where # Nobody
    BY <1>4, <1>m, TakeMail, SessionIs
  <2>2. KeyOf(mail[t].where) = mail[t].key
    BY <2>1, TurnsStandNow DEF TurnStands, KeyFits
  <2>3. bound' = [bound EXCEPT ![mail[t].key] = mail[t].where]
    BY <1>4 DEF TakeAnswer, Bind
  <2> QED
    BY <2>1, <2>2, <2>3, BoundsOne
<1>5. CASE HearRun
  <2>1. PICK t \in Mails, k \in Keys : Hears(t, k)
    BY <1>5, HearIs
  <2>2. bound' = [bound EXCEPT ![k] = mail[t].where] /\ mail[t].where \in DC /\ KeyOf(mail[t].where) = k
    BY <2>1 DEF Hears, Bind
  <2> QED
    BY <2>2, BoundsOne
<1>6. CASE TurnChat /\ ~ HearRun /\ ~ \E t \in Mails : TakeAnswer(t)
  <2>1. UNCHANGED bound
    BY <1>6 DEF TurnChat, Post, MissAnswer, Reconcile, Refreshed, RefreshFails, CutStream, restVars, turnVars
  <2> QED
    BY <2>1, BoundsRest
<1>7. CASE UNCHANGED chatVars
  BY <1>7, BoundsRest DEF chatVars, restVars, turnVars
<1> QED
  BY <1>1, <1>2, <1>3, <1>4, <1>5, <1>6, <1>7 DEF ChatNext

LEMMA AskingIs ==
  ASSUME ChatInv, NEW s \in DC, NEW k \in Keys, NEW w \in Homes,
         NEW ends \in {"nothing", "turn", "bubble"}, NEW t \in Mails \cup {Nobody},
         k \in {KeyOf(s), s}, ends = "turn" => t \in Mails
  PROVE  /\ Asked(Asking(s, k, w, ends, t)) /\ Asking(s, k, w, ends, t).chat = s
         /\ Asking(s, k, w, ends, t).ends = ends /\ Asking(s, k, w, ends, t).mail = t
         /\ Asking(s, k, w, ends, t).key = k /\ Asking(s, k, w, ends, t).home = w
         /\ Asking(s, k, w, ends, t).items = Newest(s)
<1>1. s \in Chats
  BY SessionIs DEF ChatInv
<1>2. Newest(s) \subseteq Posts /\ Within(Newest(s), s)
  BY <1>1, ScrollIs
<1>3. PICK items : items = Newest(s)
  OBVIOUS
<1>4. Asking(s, k, w, ends, t) = [chat |-> s, key |-> k, home |-> w, items |-> items, ends |-> ends, mail |-> t]
  BY <1>3 DEF Asking
<1> QED
  BY <1>1, <1>2, <1>3, <1>4 DEF Asked, Fetch

LEMMA RefreshesStep ==
  ASSUME ChatInv, [ChatNext]_chatVars
  PROVE  FetchesGrow
<1>m. MailsStand /\ ChatsStand
  BY DEF ChatInv
<1>0. CASE fetches' \subseteq fetches
  BY <1>0 DEF FetchesGrow
<1>1. CASE ServerChat
  <2>1. UNCHANGED fetches
    BY <1>1 DEF ServerChat, ListChats, RunBooked, Accept, Refuse, OpenRun, FinishRun, BreakRun, restVars
  <2> QED
    BY <1>0, <2>1
<1>2. CASE OwnerChat
  <2>1. CASE Decide
    <3>1. pane.chat \in DC /\ pane.home \in Homes /\ pane.chat # Nobody
      BY <2>1, OpenKeyIs DEF Decide
    <3>2. pane.chat \in Keys /\ pane.chat \in Met
      BY <1>m, <3>1, SessionIs DEF Keys, Met
    <3>3. fetches' = fetches \cup {Asking(pane.chat, pane.chat, pane.home, "nothing", Nobody)}
      BY <2>1 DEF Decide, Fetching
    <3>4. /\ Asked(Asking(pane.chat, pane.chat, pane.home, "nothing", Nobody))
          /\ Asking(pane.chat, pane.chat, pane.home, "nothing", Nobody).chat = pane.chat
      BY <3>1, <3>2, AskingIs
    <3> QED
      BY <3>1, <3>2, <3>3, <3>4 DEF FetchesGrow
  <2>2. CASE ~ Decide
    <3>1. UNCHANGED fetches
      BY <1>2, <2>2 DEF OwnerChat, OpenWorld, SelectChat, Direct, BeginGroup, Reload, LoadOlder, Send
    <3> QED
      BY <1>0, <3>1
  <2> QED
    BY <2>1, <2>2
<1>3. CASE PageChat
  <2>1. UNCHANGED fetches
    BY <1>3 DEF PageChat, ReadWorld, ShowWorld, OpenGroup, ReadTranscript, ShowTranscript,
                LoseTranscript, ShowOlder
  <2> QED
    BY <1>0, <2>1
<1>4. ASSUME NEW t \in Mails, mail[t].step # "unsent", NEW s \in DC, KeyOf(s) = mail[t].key,
             s \in Met \cup Bounds', NEW ends \in {"nothing", "turn", "bubble"},
             NEW u \in Mails \cup {Nobody}, ends = "turn" => u \in Mails, NEW w \in Homes,
             fetches' = fetches \cup {Asking(s, mail[t].key, w, ends, u)}
      PROVE  FetchesGrow
  <2>1. mail[t].key \in Keys /\ s # Nobody
    BY <1>m, <1>4, SessionIs
  <2>2. Asked(Asking(s, mail[t].key, w, ends, u)) /\ Asking(s, mail[t].key, w, ends, u).chat = s
    BY <1>4, <2>1, AskingIs
  <2> QED
    BY <1>4, <2>1, <2>2 DEF FetchesGrow
<1>5. ASSUME NEW t \in Mails, TakeAnswer(t)
      PROVE  FetchesGrow
  <2>1. mail[t].where \in DC /\ mail[t].where # Nobody /\ mail[t].step = "posted"
    BY <1>5, <1>m, TakeMail, SessionIs
  <2>2. KeyOf(mail[t].where) = mail[t].key /\ mail[t].home \in Homes /\ mail[t].key \in Keys
    BY <1>m, <2>1, MailIs, TurnsStandNow DEF TurnStands, KeyFits
  <2>3. bound' = [bound EXCEPT ![mail[t].key] = mail[t].where]
    BY <1>5 DEF TakeAnswer, Bind
  <2>4. mail[t].where \in Bounds'
    BY <2>1, <2>2, <2>3, BoundIs
  <2>5. fetches' = fetches \cup {Asking(mail[t].where, mail[t].key, mail[t].home, "turn", t)}
    BY <1>5 DEF TakeAnswer, Fetching
  <2> QED
    BY <1>4, <2>1, <2>2, <2>4, <2>5
<1>6. ASSUME NEW t \in Mails, MissAnswer(t)
      PROVE  FetchesGrow
  <2>1. PICK s : s = IF bound[mail[t].key] # Nobody THEN bound[mail[t].key] ELSE mail[t].from
    OBVIOUS
  <2>2. CASE s = Nobody
    BY <1>0, <1>6, <2>1, <2>2 DEF MissAnswer
  <2>3. CASE s # Nobody
    <3>1. mail[t].step = "posted" /\ mail[t].key \in Keys /\ mail[t].home \in Homes
      BY <1>m, <1>6, MailIs DEF MissAnswer
    <3>2. s \in Met
      BY <2>1, <2>3, <3>1 DEF Met, SessionsOf
    <3>3. s \in DC /\ KeyOf(s) = mail[t].key
      <4>1. CASE s = bound[mail[t].key]
        BY <2>3, <3>1, <4>1 DEF ChatInv, RestStands, KeysFit
      <4>2. CASE s = mail[t].from
        BY <1>m, <2>3, <4>2, MailIs, TurnsStandNow DEF TurnStands, KeyFits
      <4> QED
        BY <2>1, <4>1, <4>2
    <3>4. fetches' = fetches \cup {Asking(s, mail[t].key, mail[t].home, "turn", t)}
      BY <1>6, <2>1, <2>3 DEF MissAnswer, Fetching
    <3> QED
      BY <1>4, <3>1, <3>2, <3>3, <3>4
  <2> QED
    BY <2>2, <2>3
<1>7. ASSUME NEW t \in Mails, Reconcile(t)
      PROVE  FetchesGrow
  <2>1. PICK s : s = IF mail[t].session # Nobody THEN mail[t].session ELSE bound[mail[t].key]
    OBVIOUS
  <2>2. mail[t].step # "unsent" /\ s # Nobody
    BY <1>7, <2>1 DEF Reconcile
  <2>3. mail[t].key \in Keys /\ mail[t].home \in Homes
    BY <1>m, <2>2, MailIs
  <2>4. s \in Met
    BY <2>1, <2>2, <2>3 DEF Met, SessionsOf
  <2>5. s \in DC /\ KeyOf(s) = mail[t].key
    <3>1. CASE s = bound[mail[t].key]
      BY <2>2, <2>3, <3>1 DEF ChatInv, RestStands, KeysFit
    <3>2. CASE s = mail[t].session
      BY <1>m, <2>2, <3>2, MailIs, TurnsStandNow DEF TurnStands, KeyFits
    <3> QED
      BY <2>1, <3>1, <3>2
  <2>6. fetches' = fetches \cup {Asking(s, mail[t].key, mail[t].home, "nothing", Nobody)}
    BY <1>7, <2>1 DEF Reconcile, Fetching
  <2> QED
    BY <1>4, <2>2, <2>3, <2>4, <2>5, <2>6
<1>8. CASE HearRun
  <2>1. PICK t \in Mails, k \in Keys : Hears(t, k)
    BY <1>8, HearIs
  <2>2. CASE UNCHANGED fetches
    BY <1>0, <2>2
  <2>3. CASE ~ UNCHANGED fetches
    <3>1. /\ bound' = [bound EXCEPT ![k] = mail[t].where] /\ mail[t].where \in DC
          /\ KeyOf(mail[t].where) = k
          /\ fetches' = fetches \cup {Asking(mail[t].where, k, pane.home, "bubble", t)}
      BY <2>1, <2>3 DEF Hears, Bind, Fetching
    <3>2. mail[t].where \in Bounds' /\ mail[t].where # Nobody /\ pane.home \in Homes
      BY <1>m, <3>1, BoundIs, SessionIs, OpenKeyIs
    <3>3. mail[t].key = k /\ mail[t].step # "unsent"
      BY <1>m, <3>1, <3>2, MailIs, TurnsStandNow DEF TurnStands, KeyFits
    <3> QED
      BY <1>4, <3>1, <3>2, <3>3
  <2> QED
    BY <2>2, <2>3
<1>9. CASE \E f \in fetches : Refreshed(f) \/ RefreshFails(f)
  BY <1>0, <1>9 DEF Refreshed, RefreshFails
<1>10. CASE (\E t \in Mails : Post(t)) \/ CutStream
  BY <1>0, <1>10 DEF Post, CutStream, restVars
<1>11. CASE UNCHANGED chatVars
  BY <1>0, <1>11 DEF chatVars, restVars
<1>12. CASE TurnChat
  BY <1>5, <1>6, <1>7, <1>8, <1>9, <1>10, <1>12 DEF TurnChat
<1> QED
  BY <1>1, <1>2, <1>3, <1>11, <1>12 DEF ChatNext

LEMMA OthersStep ==
  ASSUME ChatInv, [ChatNext]_chatVars
  PROVE  /\ grouping' \in Homes \cup {Nobody} /\ outbox' \subseteq Mails /\ bubbles' \subseteq Mails
         /\ stirs' \in 0 .. MaxStirs /\ overtaken' \in BOOLEAN
<1>1. /\ grouping \in Homes \cup {Nobody} /\ outbox \subseteq Mails /\ bubbles \subseteq Mails
      /\ stirs \in 0 .. MaxStirs /\ overtaken \in BOOLEAN /\ pane.home \in Homes /\ MaxStirs \in Nat
  BY OpenKeyIs, NumbersFit DEF ChatInv, RestStands
<1>2. Stirred => stirs' \in 0 .. MaxStirs
  BY <1>1 DEF Stirred
<1>3. \A k, ps : Reconciled(k, ps) \subseteq Mails
  BY <1>1 DEF Reconciled
<1>4. \A f : Ends(f) => bubbles' \subseteq Mails
  BY <1>1 DEF Ends
<1>5. CASE ServerChat
  BY <1>1, <1>2, <1>5 DEF ServerChat, ListChats, RunBooked, Accept, Refuse, OpenRun, FinishRun, BreakRun,
                          restVars, turnVars
<1>6. CASE OwnerChat
  BY <1>1, <1>2, <1>6 DEF OwnerChat, OpenWorld, SelectChat, Direct, BeginGroup, Reload, LoadOlder, Send,
                          Decide, turnVars
<1>7. CASE PageChat
  BY <1>1, <1>2, <1>3, <1>7 DEF PageChat, ReadWorld, ShowWorld, OpenGroup, ReadTranscript, ShowTranscript,
                                LoseTranscript, ShowOlder, turnVars
<1>8. CASE \E t \in Mails : Post(t) \/ TakeAnswer(t) \/ MissAnswer(t) \/ Reconcile(t)
  BY <1>1, <1>2, <1>8 DEF Post, TakeAnswer, MissAnswer, Reconcile, restVars, turnVars
<1>9. CASE \E f \in fetches : Refreshed(f) \/ RefreshFails(f)
  BY <1>1, <1>2, <1>3, <1>4, <1>9 DEF Refreshed, RefreshFails
<1>10. CASE HearRun
  <2>1. PICK t \in Mails, k \in Keys : Hears(t, k)
    BY <1>10, HearIs
  <2> QED
    BY <1>1, <1>10, <2>1 DEF Hears, HearRun
<1>11. CASE CutStream
  BY <1>1, <1>2, <1>11 DEF CutStream, restVars, turnVars
<1>12. CASE UNCHANGED chatVars
  BY <1>1, <1>12 DEF chatVars, restVars, turnVars
<1> QED
  BY <1>5, <1>6, <1>7, <1>8, <1>9, <1>10, <1>11, <1>12 DEF ChatNext, TurnChat

LEMMA RestStep ==
  ASSUME ChatInv, Grown, BoundsGrow, FetchesGrow, [ChatNext]_chatVars
  PROVE  RestStands'
<1>1. DC \subseteq DC'
  BY DEF Grown
<1>2. ASSUME NEW f \in fetches'
      PROVE  f \in Fetch /\ f.chat \in DC' /\ Within(f.items, f.chat) /\ (f.ends = "turn" => f.mail \in Mails)
  <2>1. CASE f \in fetches
    BY <1>1, <2>1 DEF ChatInv, RestStands
  <2>2. CASE f \notin fetches
    BY <1>1, <2>2 DEF FetchesGrow, Asked
  <2> QED
    BY <2>1, <2>2
<1>3. ASSUME NEW k \in Keys PROVE bound'[k] \in DC' \cup {Nobody}
  BY <1>1 DEF BoundsGrow, ChatInv, RestStands
<1>4. bound' \in [Keys -> Chats \cup {Nobody}]
  BY DEF BoundsGrow
<1> QED
  BY <1>2, <1>3, <1>4, OthersStep DEF RestStands

LEMMA KeysStep ==
  ASSUME ChatInv, Grown, TurnsStep, BoundsGrow, FetchesGrow
  PROVE  KeysFit'
<1>g. \A s \in DC : KeyOf(s)' = KeyOf(s) /\ s # Nobody
  BY SessionIs DEF Grown, ChatInv
<1>1. ASSUME NEW t \in Mails
      PROVE  /\ \A s \in {mail'[t].from, mail'[t].session, mail'[t].posted, mail'[t].where} \ {Nobody} :
                  KeyOf(s)' = mail'[t].key
             /\ mail'[t].where # Nobody => chats'[mail'[t].where].home = mail'[t].home
  BY DEF TurnsStep, TurnStands, KeyFits
<1>2. ASSUME NEW k \in Keys
      PROVE  \A s \in {bound'[k]} : s # Nobody => KeyOf(s)' = k
  <2>1. PICK s : s = bound'[k]
    OBVIOUS
  <2>2. s # Nobody => s \in DC /\ KeyOf(s) = k
    BY <2>1 DEF BoundsGrow, ChatInv, RestStands, KeysFit
  <2> QED
    BY <1>g, <2>1, <2>2
<1>3. ASSUME NEW f \in fetches'
      PROVE  f.key \in {KeyOf(f.chat)', f.chat}
  <2>1. f.chat \in DC /\ f.key \in {KeyOf(f.chat), f.chat}
    BY DEF FetchesGrow, Asked, ChatInv, RestStands, KeysFit
  <2> QED
    BY <1>g, <2>1
<1>4. \A t \in Mails : \A s \in {mail'[t].from, mail'[t].session, mail'[t].posted, mail'[t].where} \ {Nobody} :
        KeyOf(s)' = mail'[t].key
  BY <1>1
<1>5. \A t \in Mails : mail'[t].where # Nobody => chats'[mail'[t].where].home = mail'[t].home
  BY <1>1
<1>6. (\A k \in Keys : bound[k] # Nobody => KeyOf(bound[k]) = k)'
  BY <1>2
<1>7. (\A f \in fetches : f.key \in {KeyOf(f.chat), f.chat})'
  BY <1>3
<1> QED
  BY <1>4, <1>5, <1>6, <1>7 DEF KeysFit

-----------------------------------------------------------------------------
(* The pane *)

LEMMA PaneRests ==
  ASSUME ChatInv, Grown, UNCHANGED <<pane, roster, opening>>
  PROVE  PaneStands'
<1>1. PaneStands
  BY DEF ChatInv
<1>2. \A s \in DC : s \in DC' /\ chats'[s] = chats[s]
  BY DEF Grown
<1> QED
  BY <1>1, <1>2 DEF PaneStands

LEMMA PaneTurns ==
  ASSUME ChatInv, Grown, NEW s \in DC' \cup {Nobody}, UNCHANGED opening, roster' \subseteq DC',
         pane' = [pane EXCEPT !.chat = s, !.intent = Nobody]
  PROVE  PaneStands'
<1>1. PaneStands /\ pane \in Panes
  BY DEF ChatInv, PaneStands
<1>2. DC' \subseteq Chats /\ \A r \in DC : r \in DC' /\ chats'[r] = chats[r]
  BY DEF Grown
<1>3. pane' \in Panes /\ pane'.chat = s /\ pane'.intent = Nobody /\ pane'.home = pane.home
  BY <1>1, <1>2 DEF Panes
<1> QED
  BY <1>1, <1>2, <1>3 DEF PaneStands

\* A direct session learnt of is not one the owner intends to have.
LEMMA BindIs ==
  ASSUME ChatInv, NEW k \in Keys, NEW s \in DC, KeyOf(s) = k, Bind(k, s)
  PROVE  \/ UNCHANGED paneVars /\ chats[s].home # pane.home
         \/ /\ chats[s].home = pane.home /\ roster' = roster \cup {s} /\ UNCHANGED opening
            /\ \/ OpenKey \in {k, Nobody} /\ Turned([pane EXCEPT !.chat = s, !.intent = Nobody])
               \/ OpenKey \notin {k, Nobody} /\ UNCHANGED <<pane, page, loading, older>>
  BY DEF Bind

LEMMA PaneBinds ==
  ASSUME ChatInv, Grown, NEW k \in Keys, NEW s \in DC, KeyOf(s) = k, Bind(k, s)
  PROVE  PaneStands'
<1>1. PaneStands /\ s \in DC' /\ roster \subseteq DC'
  BY DEF ChatInv, PaneStands, Grown
<1>2. CASE UNCHANGED paneVars
  BY <1>2, PaneRests DEF paneVars
<1>3. CASE /\ roster' = roster \cup {s} /\ UNCHANGED opening
           /\ Turned([pane EXCEPT !.chat = s, !.intent = Nobody])
  BY <1>1, <1>3, PaneTurns DEF Turned
<1>4. CASE /\ roster' = roster \cup {s} /\ UNCHANGED opening
           /\ OpenKey \notin {k, Nobody} /\ UNCHANGED <<pane, page, loading, older>>
  <2>1. pane.intent # Nobody => chats[s].who # pane.intent
    <3>1. SUFFICES ASSUME pane.intent # Nobody, chats[s].who = pane.intent
                   PROVE  FALSE
      OBVIOUS
    <3>2. OpenKey = pane.intent /\ pane.intent \in Friends
      BY <3>1, OpenKeyIs
    <3>3. KeyOf(s) = pane.intent
      BY <3>1, <3>2, SessionIs, NamesApart DEF ChatInv
    <3> QED
      BY <1>4, <3>2, <3>3
  <2>2. \A r \in DC : r \in DC' /\ chats'[r] = chats[r]
    BY DEF Grown
  <2> QED
    BY <1>1, <1>4, <2>1, <2>2 DEF PaneStands
<1> QED
  BY <1>2, <1>3, <1>4, BindIs

LEMMA PaneStep ==
  ASSUME ChatInv, Grown, [ChatNext]_chatVars
  PROVE  PaneStands'
<1>p. PaneStands /\ pane \in Panes /\ roster \subseteq DC /\ pane.home \in Homes
  BY OpenKeyIs DEF ChatInv, PaneStands
<1>g. DC' \subseteq Chats /\ (\A r \in DC : r \in DC' /\ chats'[r] = chats[r])
  BY DEF Grown
<1>m. MailsStand /\ ChatsStand
  BY DEF ChatInv
<1>1. CASE ServerChat
  BY <1>1, PaneRests DEF ServerChat, ListChats, RunBooked, Accept, Refuse, OpenRun, FinishRun, BreakRun,
                         restVars, paneVars
<1>2. ASSUME NEW w \in Homes, OpenWorld(w)
      PROVE  PaneStands'
  <2>1. /\ pane' = [home |-> w, chat |-> Nobody, intent |-> Nobody] /\ roster' = {}
        /\ opening' = [to |-> Nobody, read |-> FALSE]
    BY <1>2 DEF OpenWorld
  <2>2. pane' \in Panes /\ opening' \in Opens
    BY <2>1 DEF Panes, Opens
  <2> QED
    BY <2>1, <2>2 DEF PaneStands
<1>3. ASSUME NEW s \in Chats, SelectChat(s)
      PROVE  PaneStands'
  <2>1. s \in DC
    BY <1>3 DEF SelectChat, ChatsOf, DC
  <2>2. roster' = roster \cup {s} /\ UNCHANGED opening /\ pane' = [pane EXCEPT !.chat = s, !.intent = Nobody]
    BY <1>3 DEF SelectChat, Turned
  <2> QED
    BY <1>p, <1>g, <2>1, <2>2, PaneTurns
<1>4. ASSUME NEW c \in Friends, Direct(c)
      PROVE  PaneStands'
  <2>1. /\ UNCHANGED <<roster, opening>> /\ opening = Nobody /\ HomeOfFriend[c] = pane.home
        /\ \/ \E s \in roster : pane' = [pane EXCEPT !.chat = s, !.intent = Nobody]
           \/ /\ \A s \in roster : chats[s].who # c
              /\ pane' = [pane EXCEPT !.chat = Nobody, !.intent = c]
    BY <1>4 DEF Direct, Turned
  <2>2. CASE \E s \in roster : pane' = [pane EXCEPT !.chat = s, !.intent = Nobody]
    BY <1>p, <1>g, <2>1, <2>2, PaneTurns
  <2>3. CASE /\ \A s \in roster : chats[s].who # c
             /\ pane' = [pane EXCEPT !.chat = Nobody, !.intent = c]
    <3>1. pane' \in Panes /\ pane'.chat = Nobody /\ pane'.intent = c /\ pane'.home = pane.home
      BY <1>p, <2>3 DEF Panes
    <3> QED
      BY <1>p, <1>g, <2>1, <2>3, <3>1 DEF PaneStands
  <2> QED
    BY <2>1, <2>2, <2>3
<1>5. CASE OwnerChat
  <2>1. CASE BeginGroup \/ Reload \/ LoadOlder \/ (\E t \in Mails : Send(t)) \/ Decide
    BY <2>1, PaneRests DEF BeginGroup, Reload, LoadOlder, Send, Decide, paneVars
  <2> QED
    BY <1>2, <1>3, <1>4, <1>5, <2>1 DEF OwnerChat
<1>6. CASE ReadWorld
  <2>1. UNCHANGED <<pane, roster>> /\ opening # Nobody
    BY <1>6 DEF ReadWorld
  <2>2. CASE opening' = [to |-> Nobody, read |-> TRUE]
    <3>1. opening' \in Opens /\ opening'.to = Nobody
      BY <2>2 DEF Opens
    <3> QED
      BY <1>p, <1>g, <2>1, <3>1 DEF PaneStands
  <2>3. ASSUME NEW s \in ChatsOf(pane.home), opening' = [to |-> s, read |-> TRUE]
        PROVE  PaneStands'
    <3>1. s \in DC /\ chats[s].home = pane.home
      BY DEF ChatsOf, DC
    <3>2. opening' \in Opens /\ opening'.to = s
      BY <1>g, <2>3, <3>1 DEF Opens
    <3> QED
      BY <1>p, <1>g, <2>1, <3>1, <3>2 DEF PaneStands
  <2> QED
    BY <1>6, <2>2, <2>3 DEF ReadWorld
<1>7. CASE ShowWorld
  <2>1. /\ opening # Nobody /\ opening' = Nobody /\ roster' = ChatsOf(pane.home)
        /\ pane' = [pane EXCEPT !.chat = opening.to]
    BY <1>7 DEF ShowWorld, Turned
  <2>2. roster' \subseteq DC /\ pane.intent = Nobody /\ opening.to \in DC \cup {Nobody}
    BY <1>p, <2>1 DEF PaneStands, ChatsOf, DC
  <2>3. pane' \in Panes /\ pane'.chat = opening.to /\ pane'.intent = Nobody
    BY <1>p, <1>g, <2>1, <2>2 DEF Panes
  <2> QED
    BY <1>g, <2>1, <2>2, <2>3 DEF PaneStands
<1>8. CASE OpenGroup
  <2>1. PICK s : s = Len(chats')
    OBVIOUS
  <2>2. /\ s \in DC' /\ roster' = roster \cup {s} /\ UNCHANGED opening
        /\ pane' = [pane EXCEPT !.chat = s, !.intent = Nobody]
    BY <1>8, <2>1, GroupGrows DEF OpenGroup, Turned
  <2> QED
    BY <1>p, <1>g, <2>2, PaneTurns
<1>9. CASE PageChat
  <2>1. CASE ReadTranscript \/ ShowTranscript \/ LoseTranscript \/ \E ps \in older : ShowOlder(ps)
    BY <2>1, PaneRests DEF ReadTranscript, ShowTranscript, LoseTranscript, ShowOlder
  <2> QED
    BY <1>6, <1>7, <1>8, <1>9, <2>1 DEF PageChat
<1>10. ASSUME NEW t \in Mails, TakeAnswer(t)
       PROVE  PaneStands'
  <2>1. mail[t].where \in DC /\ mail[t].step # "unsent"
    BY <1>10, TakeMail
  <2>2. mail[t].key \in Keys /\ KeyOf(mail[t].where) = mail[t].key
    BY <1>m, <2>1, MailIs, SessionIs, TurnsStandNow DEF TurnStands, KeyFits
  <2> QED
    BY <1>10, <2>1, <2>2, PaneBinds DEF TakeAnswer
<1>11. CASE HearRun
  <2>1. PICK t \in Mails, k \in Keys : Hears(t, k)
    BY <1>11, HearIs
  <2>2. CASE UNCHANGED paneVars
    BY <2>2, PaneRests DEF paneVars
  <2> QED
    BY <2>1, <2>2, PaneBinds DEF Hears
<1>12. CASE TurnChat /\ ~ HearRun /\ ~ \E t \in Mails : TakeAnswer(t)
  BY <1>12, PaneRests DEF TurnChat, Post, MissAnswer, Reconcile, Refreshed, RefreshFails, CutStream,
                          restVars, paneVars
<1>13. CASE UNCHANGED chatVars
  BY <1>13, PaneRests DEF chatVars, restVars, paneVars
<1> QED
  BY <1>1, <1>5, <1>9, <1>10, <1>11, <1>12, <1>13 DEF ChatNext

-----------------------------------------------------------------------------
(* What is shown, loaded and asked for *)

\* The page of older messages ends before the oldest one shown.
LEMMA OldestIs ==
  ASSUME NEW ps \in SUBSET Posts, ps # {}
  PROVE  OldestOf(ps) \in ps
<1> DEFINE N == {p[2] : p \in ps}
<1>1. N \subseteq Nat /\ N # {}
  BY NumbersFit DEF Posts
<1>2. PICK n \in N : \A m \in N : n <= m
  BY <1>1, LeastMember
<1>3. PICK p \in ps : p[2] = n
  BY <1>2
<1>4. \A q \in ps : p[2] <= q[2]
  BY <1>2, <1>3
<1> QED
  BY <1>3, <1>4 DEF OldestOf

LEMMA BeforeIs ==
  ASSUME NEW s \in Chats, NEW p \in Posts
  PROVE  Before(s, p[2]) \subseteq Posts /\ Within(Before(s, p[2]), s)
<1>1. p[2] \in 1 .. Past + 2 * Cardinality(Mails) /\ Past + 2 * Cardinality(Mails) \in Nat
  BY NumbersFit DEF Posts
<1>2. \A m \in 1 .. p[2] - 1 : m \in 1 .. Past + 2 * Cardinality(Mails)
  BY <1>1
<1>3. Posts = Chats \X (1 .. Past + 2 * Cardinality(Mails))
  BY DEF Posts
<1> QED
  BY <1>2, <1>3 DEF Before, Within

LEMMA FreshLoad ==
  /\ [items |-> {}, read |-> FALSE] \in Loads /\ [items |-> {}, read |-> FALSE] # Nobody
  /\ [items |-> {}, read |-> FALSE].items = {} /\ [items |-> {}, read |-> FALSE].read = FALSE
  /\ Nobody \notin Loads
<1>1. Nobody \notin Loads
  BY ChatAssumption DEF Loads
<1>2. [items |-> {}, read |-> FALSE] \in Loads
  BY DEF Loads
<1> QED
  BY <1>1, <1>2

\* The sheet is the page with what is loaded and asked for.
SheetAlike == UNCHANGED <<page, loading, older>> /\ pane'.chat = pane.chat
SheetNew ==
  /\ page' = {} /\ older' = {}
  /\ loading' = IF pane'.chat = Nobody THEN Nobody ELSE [items |-> {}, read |-> FALSE]

LEMMA TurnedIs ==
  ASSUME NEW to, Turned(to)
  PROVE  pane' = to /\ (SheetAlike \/ SheetNew)
  BY DEF Turned, SheetAlike, SheetNew

LEMMA SheetIs ==
  ASSUME ChatInv, SheetAlike \/ SheetNew, Grown
  PROVE  SheetStands' /\ PageStands'
<1>1. CASE SheetAlike
  BY <1>1 DEF SheetAlike, SheetStands, PageStands, ChatInv, Grown
<1>2. CASE SheetNew
  <2>1. PICK l : l = [items |-> {}, read |-> FALSE]
    OBVIOUS
  <2>2. l \in Loads /\ l # Nobody /\ l.items = {}
    BY <2>1, FreshLoad
  <2>3. loading' = Nobody \/ (loading' = l /\ pane'.chat # Nobody)
    BY <1>2, <2>1 DEF SheetNew
  <2>4. page' = {} /\ older' = {}
    BY <1>2 DEF SheetNew
  <2> QED
    BY <2>2, <2>3, <2>4 DEF SheetStands, PageStands, Within
<1> QED
  BY <1>1, <1>2

LEMMA SheetRests ==
  ASSUME UNCHANGED <<pane, page, loading, older>>
  PROVE  SheetAlike
  BY DEF SheetAlike

\* What a step does to the sheet when it is not turned over.
SheetMoves ==
  \/ ReadTranscript \/ ShowTranscript \/ LoseTranscript \/ Reload \/ LoadOlder
  \/ (\E ps \in older : ShowOlder(ps)) \/ \E f \in fetches : Refreshed(f)

LEMMA SheetStays ==
  ASSUME ChatInv, [ChatNext]_chatVars
  PROVE  SheetAlike \/ SheetNew \/ SheetMoves
<1>m. MailsStand /\ ChatsStand
  BY DEF ChatInv
<1>1. CASE ServerChat
  BY <1>1, SheetRests DEF ServerChat, ListChats, RunBooked, Accept, Refuse, OpenRun, FinishRun, BreakRun,
                          restVars, paneVars
<1>2. CASE \E w \in Homes : OpenWorld(w)
  BY <1>2 DEF OpenWorld, SheetNew
<1>3. CASE (\E s \in Chats : SelectChat(s)) \/ \E c \in Friends : Direct(c)
  BY <1>3, TurnedIs DEF SelectChat, Direct
<1>4. CASE BeginGroup \/ (\E t \in Mails : Send(t)) \/ Decide
  BY <1>4, SheetRests DEF BeginGroup, Send, Decide, paneVars
<1>5. CASE OwnerChat
  BY <1>2, <1>3, <1>4, <1>5 DEF OwnerChat, SheetMoves
<1>6. CASE ReadWorld
  BY <1>6, SheetRests DEF ReadWorld
<1>7. CASE ShowWorld \/ OpenGroup
  BY <1>7, TurnedIs DEF ShowWorld, OpenGroup
<1>8. CASE PageChat
  BY <1>6, <1>7, <1>8 DEF PageChat, SheetMoves
<1>9. ASSUME NEW k \in Keys, NEW s \in DC, KeyOf(s) = k, Bind(k, s)
      PROVE  SheetAlike \/ SheetNew
  BY <1>9, BindIs, TurnedIs, SheetRests DEF paneVars
<1>10. ASSUME NEW t \in Mails, TakeAnswer(t)
       PROVE  SheetAlike \/ SheetNew
  <2>1. mail[t].where \in DC /\ mail[t].step # "unsent"
    BY <1>10, TakeMail
  <2>2. mail[t].key \in Keys /\ KeyOf(mail[t].where) = mail[t].key
    BY <1>m, <2>1, MailIs, SessionIs, TurnsStandNow DEF TurnStands, KeyFits
  <2> QED
    BY <1>9, <1>10, <2>1, <2>2 DEF TakeAnswer
<1>11. CASE HearRun
  <2>1. PICK t \in Mails, k \in Keys : Hears(t, k)
    BY <1>11, HearIs
  <2>2. CASE UNCHANGED paneVars
    BY <2>2, SheetRests DEF paneVars
  <2> QED
    BY <1>9, <2>1, <2>2 DEF Hears
<1>12. CASE TurnChat /\ ~ HearRun /\ ~ \E t \in Mails : TakeAnswer(t)
  <2>1. CASE \E f \in fetches : Refreshed(f)
    BY <2>1 DEF SheetMoves
  <2>2. CASE ~ \E f \in fetches : Refreshed(f)
    BY <1>12, <2>2, SheetRests DEF TurnChat, Post, MissAnswer, Reconcile, RefreshFails, CutStream,
                                   restVars, paneVars
  <2> QED
    BY <2>1, <2>2
<1>13. CASE UNCHANGED chatVars
  BY <1>13, SheetRests DEF chatVars, restVars, paneVars
<1> QED
  BY <1>1, <1>5, <1>8, <1>10, <1>11, <1>12, <1>13 DEF ChatNext

\* A refresh under the key of the pane is of the conversation that is open, if there is
\* one, and there is none the client only intends.
LEMMA RefreshOfOpen ==
  ASSUME ChatInv, NEW f \in fetches, pane.home = f.home, OpenKey = f.key, OneDirect
  PROVE  pane.chat = f.chat
<1>1. ChatsStand /\ f.chat \in DC /\ f.key \in {KeyOf(f.chat), f.chat} /\ f.key \in Keys
  BY DEF ChatInv, RestStands, KeysFit, Fetch
<1>2. f.key # Nobody /\ f.chat # Nobody /\ f.chat \in Chats
  BY <1>1, NamesApart, SessionIs
<1>3. CASE pane.chat # Nobody
  <2>1. pane.chat \in DC /\ KeyOf(pane.chat) = f.key
    BY <1>3, OpenKeyIs
  <2>2. CASE f.key = KeyOf(f.chat)
    BY <1>1, <2>1, <2>2, OneForEach
  <2>3. CASE f.key = f.chat
    <3>1. KeyOf(pane.chat) = pane.chat
      BY <1>1, <1>2, <2>1, <2>3, SessionIs
    <3> QED
      BY <2>1, <2>3, <3>1
  <2> QED
    BY <1>1, <2>2, <2>3
<1>4. CASE pane.chat = Nobody
  <2>1. pane.intent # Nobody /\ f.key = pane.intent /\ pane.intent \in Friends
    BY <1>2, <1>4, OpenKeyIs
  <2>2. f.key = KeyOf(f.chat)
    BY <1>1, <1>2, <2>1, NamesApart
  <2>3. chats[f.chat].who = pane.intent /\ chats[f.chat].home = HomeOfFriend[pane.intent]
    BY <1>1, <2>1, <2>2, SessionIs
  <2>4. /\ opening = Nobody /\ HomeOfFriend[pane.intent] = pane.home
        /\ \A s \in roster : chats[s].who # pane.intent
    BY <2>1 DEF ChatInv, PaneStands
  <2>5. f.chat \in Met
    BY <1>2 DEF Met
  <2>6. f.chat \in roster
    BY <2>3, <2>4, <2>5 DEF ChatInv, AllKnown, Aware
  <2> QED
    BY <2>3, <2>4, <2>6
<1> QED
  BY <1>3, <1>4

LEMMA SheetStep ==
  ASSUME ChatInv, Grown, [ChatNext]_chatVars
  PROVE  SheetStands' /\ PageStands'
<1>s. /\ page \subseteq Posts /\ loading \in {Nobody} \cup Loads /\ older \subseteq SUBSET Posts
      /\ loading # Nobody => pane.chat # Nobody /\ Within(loading.items, pane.chat)
      /\ \A ps \in older : Within(ps, pane.chat)
      /\ OneDirect => Within(page, pane.chat)
      /\ OneDirect' => OneDirect
  BY DEF ChatInv, SheetStands, PageStands, Grown
<1>c. pane.chat # Nobody => pane.chat \in DC /\ pane.chat \in Chats
  BY OpenKeyIs, SessionIs DEF ChatInv
<1>1. CASE SheetAlike \/ SheetNew
  BY <1>1, SheetIs
<1>2. CASE ReadTranscript
  <2>1. PICK l : l = [items |-> Newest(pane.chat), read |-> TRUE]
    OBVIOUS
  <2>2. loading # Nobody /\ loading' = l /\ UNCHANGED <<pane, page, older>>
    BY <1>2, <2>1 DEF ReadTranscript
  <2>3. Newest(pane.chat) \subseteq Posts /\ Within(Newest(pane.chat), pane.chat)
    BY <1>s, <1>c, <2>2, ScrollIs
  <2>4. l \in Loads /\ l.items = Newest(pane.chat)
    BY <2>1, <2>3 DEF Loads
  <2> QED
    BY <1>s, <2>2, <2>3, <2>4 DEF SheetStands, PageStands
<1>3. CASE ShowTranscript
  <2>1. loading # Nobody /\ page' = loading.items /\ loading' = Nobody /\ UNCHANGED <<pane, older>>
    BY <1>3 DEF ShowTranscript
  <2>2. loading.items \subseteq Posts
    BY <1>s, <2>1 DEF Loads
  <2> QED
    BY <1>s, <2>1, <2>2 DEF SheetStands, PageStands
<1>4. CASE LoseTranscript
  BY <1>s, <1>4 DEF LoseTranscript, SheetStands, PageStands
<1>5. CASE Reload
  <2>1. PICK l : l = [items |-> {}, read |-> FALSE]
    OBVIOUS
  <2>2. l \in Loads /\ l.items = {}
    BY <2>1, FreshLoad
  <2>3. loading' = l /\ older' = {} /\ UNCHANGED <<pane, page>> /\ pane.chat # Nobody
    BY <1>5, <2>1 DEF Reload
  <2>4. Within(loading'.items, pane.chat)
    BY <2>2, <2>3 DEF Within
  <2> QED
    BY <1>s, <2>2, <2>3, <2>4 DEF SheetStands, PageStands
<1>6. CASE LoadOlder
  <2>1. PICK b : b = Before(pane.chat, OldestOf(page)[2])
    OBVIOUS
  <2>2. /\ pane.chat # Nobody /\ page # {} /\ older' = older \cup {b}
        /\ UNCHANGED <<pane, page, loading>>
    BY <1>6, <2>1 DEF LoadOlder
  <2>3. OldestOf(page) \in Posts
    BY <1>s, <2>2, OldestIs
  <2>4. b \subseteq Posts /\ Within(b, pane.chat)
    BY <1>c, <2>1, <2>2, <2>3, BeforeIs
  <2> QED
    BY <1>s, <2>2, <2>4 DEF SheetStands, PageStands
<1>7. ASSUME NEW ps \in older, ShowOlder(ps)
      PROVE  SheetStands' /\ PageStands'
  <2>1. older' = older \ {ps} /\ page' = page \cup ps /\ UNCHANGED <<pane, loading>>
    BY <1>7 DEF ShowOlder
  <2>2. Within(page, pane.chat) => Within(page', pane.chat)
    BY <1>s, <2>1 DEF Within
  <2> QED
    BY <1>s, <2>1, <2>2 DEF SheetStands, PageStands
<1>8. ASSUME NEW f \in fetches, Refreshed(f)
      PROVE  SheetStands' /\ PageStands'
  <2>1. page' = MergedPage(f) /\ UNCHANGED <<pane, loading, older>>
    BY <1>8 DEF Refreshed
  <2>2. f.items \subseteq Posts /\ Within(f.items, f.chat)
    BY DEF ChatInv, RestStands, Fetch
  <2>3. page' \subseteq Posts
    BY <1>s, <2>1, <2>2 DEF MergedPage
  <2>4. ASSUME OneDirect PROVE Within(page', pane.chat)
    <3>1. CASE pane.home = f.home /\ OpenKey = f.key
      <4>1. pane.chat = f.chat
        BY <2>4, <3>1, RefreshOfOpen
      <4> QED
        BY <1>s, <2>1, <2>2, <2>4, <3>1, <4>1 DEF MergedPage, Within
    <3>2. CASE ~ (pane.home = f.home /\ OpenKey = f.key)
      BY <1>s, <2>1, <2>4, <3>2 DEF MergedPage
    <3> QED
      BY <3>1, <3>2
  <2> QED
    BY <1>s, <2>1, <2>3, <2>4 DEF SheetStands, PageStands
<1> QED
  BY <1>1, <1>2, <1>3, <1>4, <1>5, <1>6, <1>7, <1>8, SheetStays DEF SheetMoves

-----------------------------------------------------------------------------
(* The client knows the sessions it has met *)

LEMMA MetIs ==
  ASSUME ChatInv
  PROVE  /\ Met \subseteq DC /\ Nobody \notin Met
         /\ Bounds \ {Nobody} \subseteq Met
         /\ \A t \in Mails : SessionsOf(mail[t]) \ {Nobody} \subseteq Met
         /\ pane.chat # Nobody => pane.chat \in Met
         /\ \A f \in fetches : f.chat \in Met
<1>1. \A k \in Keys : bound[k] \in DC \cup {Nobody}
  BY DEF ChatInv, RestStands
<1>2. \A f \in fetches : f.chat \in DC /\ f.chat # Nobody
  BY SessionIs DEF ChatInv, RestStands
<1>3. pane.chat \in DC \cup {Nobody}
  BY DEF ChatInv, PaneStands
<1>4. ASSUME NEW t \in Mails PROVE SessionsOf(mail[t]) \subseteq DC \cup {Nobody}
  BY MailIs DEF ChatInv, SessionsOf
<1>5. Met \subseteq DC
  BY <1>1, <1>2, <1>3, <1>4 DEF Met
<1> QED
  BY <1>2, <1>5 DEF Met, Bounds

LEMMA MetGrows ==
  ASSUME ChatInv, TurnsStep, FetchesGrow
  PROVE  Met' \subseteq (Met \cup {pane'.chat} \cup Bounds') \ {Nobody}
<1>1. \A f \in fetches' : f.chat \in (Met \cup Bounds') \ {Nobody}
  BY MetIs DEF FetchesGrow
<1>2. \A t \in Mails : SessionsOf(mail'[t]) \ {Nobody} \subseteq Met \cup Bounds'
  <2>1. \A t \in Mails : SessionsOf(mail'[t]) \subseteq SessionsOf(mail[t]) \cup {pane.chat} \cup Bounds'
    BY DEF TurnsStep, Moves
  <2> QED
    BY <2>1, MetIs
<1>3. Met' = ({pane'.chat} \cup Bounds' \cup {f.chat : f \in fetches'}
                \cup UNION {SessionsOf(mail'[t]) : t \in Mails}) \ {Nobody}
  BY DEF Met, Bounds
<1> QED
  BY <1>1, <1>2, <1>3

LEMMA KnownIf ==
  ASSUME ChatInv, Grown, TurnsStep, FetchesGrow,
         pane'.home = pane.home, UNCHANGED opening, roster \subseteq roster',
         pane'.chat \in roster' \cup {Nobody, pane.chat},
         \A s \in Bounds' : \/ s \in Met \cup roster' \cup {Nobody}
                            \/ s \in DC /\ chats[s].home # pane.home
  PROVE  AllKnown'
<1>1. ASSUME NEW s \in Met', chats'[s].home = pane'.home, opening' = Nobody
      PROVE  s \in roster'
  <2>1. s \in Met \cup {pane'.chat} \cup Bounds' /\ s # Nobody
    BY MetGrows
  <2>2. \A r \in DC : chats'[r] = chats[r]
    BY DEF Grown
  <2>3. s \in Met => s \in roster'
    BY <1>1, <2>2, MetIs DEF ChatInv, AllKnown, Aware
  <2>4. pane.chat # Nobody => pane.chat \in Met
    BY MetIs
  <2> QED
    BY <1>1, <2>1, <2>2, <2>3, <2>4
<1> QED
  BY <1>1 DEF AllKnown, Aware

LEMMA KnownRests ==
  ASSUME ChatInv, Grown, TurnsStep, FetchesGrow, UNCHANGED <<pane, roster, opening, bound>>
  PROVE  AllKnown'
<1>1. \A s \in Bounds' : s \in Met \cup {Nobody}
  BY MetIs DEF Bounds
<1> QED
  BY <1>1, KnownIf

\* Binding makes a session known.
LEMMA KnownBinds ==
  ASSUME ChatInv, Grown, TurnsStep, FetchesGrow, NEW k \in Keys, NEW s \in DC, KeyOf(s) = k, Bind(k, s)
  PROVE  AllKnown'
<1>1. bound' = [bound EXCEPT ![k] = s]
  BY DEF Bind
<1>2. \A r \in Bounds' : r \in Met \cup {Nobody, s}
  BY <1>1, BoundIs, MetIs
<1>3. CASE UNCHANGED paneVars /\ chats[s].home # pane.home
  <2>1. UNCHANGED <<pane, roster, opening>>
    BY <1>3 DEF paneVars
  <2> QED
    BY <1>2, <1>3, <2>1, KnownIf
<1>4. CASE /\ roster' = roster \cup {s} /\ UNCHANGED opening
           /\ Turned([pane EXCEPT !.chat = s, !.intent = Nobody])
  <2>1. pane' = [pane EXCEPT !.chat = s, !.intent = Nobody] /\ pane \in Panes
    BY <1>4 DEF Turned, ChatInv, PaneStands
  <2>2. pane'.home = pane.home /\ pane'.chat = s
    BY <2>1 DEF Panes
  <2> QED
    BY <1>2, <1>4, <2>2, KnownIf
<1>5. CASE roster' = roster \cup {s} /\ UNCHANGED opening /\ UNCHANGED pane
  BY <1>2, <1>5, KnownIf
<1> QED
  BY <1>3, <1>4, <1>5, BindIs

LEMMA OpensApart == Nobody \notin Opens
  BY ChatAssumption DEF Opens

LEMMA KnownStep ==
  ASSUME ChatInv, Grown, TurnsStep, BoundsGrow, FetchesGrow, [ChatNext]_chatVars
  PROVE  AllKnown'
<1>p. PaneStands /\ pane \in Panes /\ roster \subseteq DC
  BY DEF ChatInv, PaneStands
<1>m. MailsStand /\ ChatsStand
  BY DEF ChatInv
<1>b. UNCHANGED bound => \A s \in Bounds' : s \in Met \cup {Nobody}
  BY MetIs DEF Bounds
<1>0. CASE UNCHANGED <<pane, roster, opening, bound>>
  BY <1>0, KnownRests
<1>1. CASE ServerChat
  <2>1. UNCHANGED <<pane, roster, opening, bound>>
    BY <1>1 DEF ServerChat, ListChats, RunBooked, Accept, Refuse, OpenRun, FinishRun, BreakRun,
                restVars, paneVars, turnVars
  <2> QED
    BY <1>0, <2>1
<1>2. CASE opening' # Nobody
  BY <1>2 DEF AllKnown, Aware
<1>3. CASE \E w \in Homes : OpenWorld(w)
  <2>1. opening' = [to |-> Nobody, read |-> FALSE]
    BY <1>3 DEF OpenWorld
  <2>2. opening' \in Opens
    BY <2>1 DEF Opens
  <2> QED
    BY <1>2, <2>2, OpensApart
<1>4. ASSUME NEW s \in Chats, SelectChat(s)
      PROVE  AllKnown'
  <2>1. /\ roster' = roster \cup {s} /\ UNCHANGED <<opening, bound>>
        /\ pane' = [pane EXCEPT !.chat = s, !.intent = Nobody]
    BY <1>4 DEF SelectChat, Turned, turnVars
  <2>2. pane'.home = pane.home /\ pane'.chat = s
    BY <1>p, <2>1 DEF Panes
  <2> QED
    BY <1>b, <2>1, <2>2, KnownIf
<1>5. ASSUME NEW c \in Friends, Direct(c)
      PROVE  AllKnown'
  <2>1. /\ UNCHANGED <<roster, opening, bound>>
        /\ \/ \E s \in roster : pane' = [pane EXCEPT !.chat = s, !.intent = Nobody]
           \/ pane' = [pane EXCEPT !.chat = Nobody, !.intent = c]
    BY <1>5 DEF Direct, Turned, turnVars
  <2>2. pane'.home = pane.home /\ pane'.chat \in roster \cup {Nobody}
    BY <1>p, <2>1 DEF Panes
  <2> QED
    BY <1>b, <2>1, <2>2, KnownIf
<1>6. ASSUME NEW t \in Mails, Send(t)
      PROVE  AllKnown'
  <2>1. UNCHANGED <<pane, roster, opening>>
    BY <1>6 DEF Send, paneVars
  <2>2. \A s \in Bounds' : s \in Met \cup {Nobody}
    <3>1. CASE pane.chat = Nobody
      BY <1>6, <1>b, <3>1 DEF Send
    <3>2. CASE pane.chat # Nobody
      <4>1. OpenKey \in Keys /\ bound' = [bound EXCEPT ![OpenKey] = pane.chat]
        BY <1>6, <3>2, SendMail DEF Send
      <4>2. pane.chat \in DC /\ pane.chat \in Met
        BY <3>2, OpenKeyIs, MetIs
      <4> QED
        BY <4>1, <4>2, BoundIs, MetIs
    <3> QED
      BY <3>1, <3>2
  <2> QED
    BY <2>1, <2>2, KnownIf
<1>7. CASE OwnerChat
  <2>1. CASE BeginGroup \/ Reload \/ LoadOlder \/ Decide
    BY <1>0, <2>1 DEF BeginGroup, Reload, LoadOlder, Decide, paneVars, turnVars
  <2> QED
    BY <1>3, <1>4, <1>5, <1>6, <1>7, <2>1 DEF OwnerChat
<1>8. CASE ReadWorld
  <2>1. opening' # Nobody
    <3>1. \E s : opening' = [to |-> s, read |-> TRUE] /\ s \in Chats \cup {Nobody}
      BY <1>8, <1>m, SessionIs DEF ReadWorld, ChatsOf, DC
    <3>2. opening' \in Opens
      BY <3>1 DEF Opens
    <3> QED
      BY <3>2, OpensApart
  <2> QED
    BY <1>2, <2>1
<1>9. CASE ShowWorld
  <2>1. /\ roster' = ChatsOf(pane.home) /\ UNCHANGED chats
        /\ pane' = [pane EXCEPT !.chat = opening.to]
    BY <1>9 DEF ShowWorld, Turned
  <2>2. pane'.home = pane.home /\ pane'.chat = opening.to /\ opening.to \in DC \cup {Nobody}
    BY <1>9, <1>p, <2>1 DEF Panes, PaneStands, ShowWorld
  <2>3. Bounds' \ {Nobody} \subseteq DC
    BY MetIs DEF BoundsGrow, Bounds
  <2>4. Met' \subseteq DC
    BY <2>2, <2>3, MetGrows, MetIs
  <2> QED
    BY <2>1, <2>2, <2>4 DEF AllKnown, Aware, ChatsOf, DC
<1>10. CASE OpenGroup
  <2>1. PICK s : s = Len(chats')
    OBVIOUS
  <2>2. /\ roster' = roster \cup {s} /\ UNCHANGED <<opening, bound>>
        /\ pane' = [pane EXCEPT !.chat = s, !.intent = Nobody]
    BY <1>10, <2>1 DEF OpenGroup, Turned, turnVars
  <2>3. pane'.home = pane.home /\ pane'.chat = s
    BY <1>p, <2>2 DEF Panes
  <2> QED
    BY <1>b, <2>2, <2>3, KnownIf
<1>11. CASE ShowTranscript
  <2>1. UNCHANGED <<pane, roster, opening>> /\ bound' = [bound EXCEPT ![KeyOf(pane.chat)] = pane.chat]
    BY <1>11 DEF ShowTranscript
  <2>2. pane.chat \in DC /\ pane.chat \in Met
    BY <1>11, OpenKeyIs, MetIs DEF ShowTranscript, ChatInv, SheetStands
  <2>3. KeyOf(pane.chat) \in Keys
    BY <1>m, <2>2, SessionIs
  <2>4. \A s \in Bounds' : s \in Met \cup {Nobody}
    BY <2>1, <2>2, <2>3, BoundIs, MetIs
  <2> QED
    BY <2>1, <2>4, KnownIf
<1>12. CASE PageChat
  <2>1. CASE ReadTranscript \/ LoseTranscript \/ \E ps \in older : ShowOlder(ps)
    BY <1>0, <2>1 DEF ReadTranscript, LoseTranscript, ShowOlder, turnVars
  <2> QED
    BY <1>8, <1>9, <1>10, <1>11, <1>12, <2>1 DEF PageChat
<1>13. ASSUME NEW t \in Mails, TakeAnswer(t)
       PROVE  AllKnown'
  <2>1. mail[t].where \in DC /\ mail[t].step # "unsent"
    BY <1>13, TakeMail
  <2>2. mail[t].key \in Keys /\ KeyOf(mail[t].where) = mail[t].key
    BY <1>m, <2>1, MailIs, SessionIs, TurnsStandNow DEF TurnStands, KeyFits
  <2> QED
    BY <1>13, <2>1, <2>2, KnownBinds DEF TakeAnswer
<1>14. CASE HearRun
  <2>1. PICK t \in Mails, k \in Keys : Hears(t, k)
    BY <1>14, HearIs
  <2>2. CASE Bind(k, mail[t].where)
    BY <2>1, <2>2, KnownBinds DEF Hears
  <2>3. CASE ~ Bind(k, mail[t].where)
    <3>1. /\ bound' = [bound EXCEPT ![k] = mail[t].where] /\ UNCHANGED <<pane, roster, opening>>
          /\ mail[t].where \in SessionsOf(mail[t]) /\ mail[t].where \in DC
      BY <2>1, <2>3 DEF Hears, paneVars
    <3>2. mail[t].where \in Met
      BY <1>m, <3>1, MetIs, SessionIs
    <3>3. \A s \in Bounds' : s \in Met \cup {Nobody}
      BY <3>1, <3>2, BoundIs, MetIs
    <3> QED
      BY <3>1, <3>3, KnownIf
  <2> QED
    BY <2>2, <2>3
<1>15. CASE TurnChat /\ ~ HearRun /\ ~ \E t \in Mails : TakeAnswer(t)
  <2>1. UNCHANGED <<pane, roster, opening, bound>>
    BY <1>15 DEF TurnChat, Post, MissAnswer, Reconcile, Refreshed, RefreshFails, CutStream,
                 restVars, paneVars, turnVars
  <2> QED
    BY <1>0, <2>1
<1>16. CASE UNCHANGED chatVars
  BY <1>0, <1>16 DEF chatVars, restVars, paneVars, turnVars
<1> QED
  BY <1>1, <1>7, <1>12, <1>13, <1>14, <1>15, <1>16 DEF ChatNext

-----------------------------------------------------------------------------
(* A group of another world *)

\* Where a step takes the pane.
LEMMA PaneGoes ==
  ASSUME ChatInv, Grown, [ChatNext]_chatVars
  PROVE  \/ pane'.chat = pane.chat /\ pane'.home = pane.home
         \/ pane'.chat = Nobody
         \/ pane'.chat \in DC' /\ chats'[pane'.chat].home = pane'.home
         \/ OpenGroup
<1>p. PaneStands /\ pane \in Panes /\ roster \subseteq DC
  BY DEF ChatInv, PaneStands
<1>g. \A s \in DC : s \in DC' /\ chats'[s] = chats[s]
  BY DEF Grown
<1>m. MailsStand /\ ChatsStand
  BY DEF ChatInv
<1>0. CASE UNCHANGED pane
  BY <1>0
<1>h. ASSUME NEW s \in DC, chats[s].home = pane.home, pane' = [pane EXCEPT !.chat = s, !.intent = Nobody]
      PROVE  pane'.chat \in DC' /\ chats'[pane'.chat].home = pane'.home
  <2>1. pane'.chat = s /\ pane'.home = pane.home
    BY <1>p, <1>h DEF Panes
  <2> QED
    BY <1>g, <1>h, <2>1
<1>1. CASE ServerChat
  <2>1. UNCHANGED pane
    BY <1>1 DEF ServerChat, ListChats, RunBooked, Accept, Refuse, OpenRun, FinishRun, BreakRun,
                restVars, paneVars
  <2> QED
    BY <1>0, <2>1
<1>2. CASE \E w \in Homes : OpenWorld(w)
  BY <1>2 DEF OpenWorld
<1>3. ASSUME NEW s \in Chats, SelectChat(s)
      PROVE  pane'.chat \in DC' /\ chats'[pane'.chat].home = pane'.home
  <2>1. s \in DC /\ chats[s].home = pane.home /\ pane' = [pane EXCEPT !.chat = s, !.intent = Nobody]
    BY <1>3 DEF SelectChat, ChatsOf, DC, Turned
  <2> QED
    BY <1>h, <2>1
<1>4. ASSUME NEW c \in Friends, Direct(c)
      PROVE  pane'.chat = Nobody \/ (pane'.chat \in DC' /\ chats'[pane'.chat].home = pane'.home)
  <2>1. /\ HomeOfFriend[c] = pane.home
        /\ \/ \E s \in roster : /\ chats[s].who = c
                                /\ pane' = [pane EXCEPT !.chat = s, !.intent = Nobody]
           \/ pane' = [pane EXCEPT !.chat = Nobody, !.intent = c]
    BY <1>4 DEF Direct, Turned
  <2>2. ASSUME NEW s \in roster, chats[s].who = c, pane' = [pane EXCEPT !.chat = s, !.intent = Nobody]
        PROVE  pane'.chat \in DC' /\ chats'[pane'.chat].home = pane'.home
    <3>1. s \in DC /\ chats[s].home = HomeOfFriend[c]
      BY <1>p, <1>m, <2>2 DEF ChatsStand
    <3> QED
      BY <1>h, <2>1, <2>2, <3>1
  <2>3. CASE pane' = [pane EXCEPT !.chat = Nobody, !.intent = c]
    BY <1>p, <2>3 DEF Panes
  <2> QED
    BY <2>1, <2>2, <2>3
<1>5. CASE OwnerChat
  <2>1. CASE BeginGroup \/ Reload \/ LoadOlder \/ (\E t \in Mails : Send(t)) \/ Decide
    BY <1>0, <2>1 DEF BeginGroup, Reload, LoadOlder, Send, Decide, paneVars
  <2> QED
    BY <1>2, <1>3, <1>4, <1>5, <2>1 DEF OwnerChat
<1>6. CASE ShowWorld
  <2>1. opening # Nobody /\ pane' = [pane EXCEPT !.chat = opening.to]
    BY <1>6 DEF ShowWorld, Turned
  <2>2. pane'.chat = opening.to /\ pane'.home = pane.home
    BY <1>p, <2>1 DEF Panes
  <2>3. opening.to # Nobody => opening.to \in DC /\ chats[opening.to].home = pane.home
    BY <1>p, <2>1 DEF PaneStands
  <2> QED
    BY <1>g, <2>2, <2>3
<1>7. CASE PageChat
  <2>1. CASE ReadWorld \/ ReadTranscript \/ ShowTranscript \/ LoseTranscript \/ \E ps \in older : ShowOlder(ps)
    BY <1>0, <2>1 DEF ReadWorld, ReadTranscript, ShowTranscript, LoseTranscript, ShowOlder
  <2> QED
    BY <1>6, <1>7, <2>1 DEF PageChat
<1>8. ASSUME NEW k \in Keys, NEW s \in DC, KeyOf(s) = k, Bind(k, s)
      PROVE  UNCHANGED pane \/ (pane'.chat \in DC' /\ chats'[pane'.chat].home = pane'.home)
  BY <1>8, <1>h, BindIs DEF paneVars, Turned
<1>9. ASSUME NEW t \in Mails, TakeAnswer(t)
      PROVE  UNCHANGED pane \/ (pane'.chat \in DC' /\ chats'[pane'.chat].home = pane'.home)
  <2>1. mail[t].where \in DC /\ mail[t].step # "unsent"
    BY <1>9, TakeMail
  <2>2. mail[t].key \in Keys /\ KeyOf(mail[t].where) = mail[t].key
    BY <1>m, <2>1, MailIs, SessionIs, TurnsStandNow DEF TurnStands, KeyFits
  <2> QED
    BY <1>8, <1>9, <2>1, <2>2 DEF TakeAnswer
<1>10. CASE HearRun
  <2>1. PICK t \in Mails, k \in Keys : Hears(t, k)
    BY <1>10, HearIs
  <2>2. CASE UNCHANGED paneVars
    BY <2>2 DEF paneVars
  <2> QED
    BY <1>8, <2>1, <2>2 DEF Hears
<1>11. CASE TurnChat /\ ~ HearRun /\ ~ \E t \in Mails : TakeAnswer(t)
  <2>1. UNCHANGED pane
    BY <1>11 DEF TurnChat, Post, MissAnswer, Reconcile, Refreshed, RefreshFails, CutStream,
                 restVars, paneVars
  <2> QED
    BY <1>0, <2>1
<1>12. CASE UNCHANGED chatVars
  BY <1>12 DEF chatVars, restVars, paneVars
<1> QED
  BY <1>1, <1>5, <1>7, <1>9, <1>10, <1>11, <1>12 DEF ChatNext

LEMMA GroupStep ==
  ASSUME ChatInv, Grown, TurnsStep, [ChatNext]_chatVars
  PROVE  ForeignGroup'
<1>m. MailsStand /\ ChatsStand
  BY DEF ChatInv
<1>1. CASE pane'.chat = pane.chat /\ pane'.home = pane.home
  <2> SUFFICES ASSUME pane'.chat # Nobody, chats'[pane'.chat].home # pane'.home
               PROVE  /\ chats'[pane'.chat].who = Crowd
                      /\ \A t \in Mails : mail'[t].step # "unsent" /\ mail'[t].key = pane'.chat =>
                                            mail'[t].home # chats'[pane'.chat].home
    BY DEF ForeignGroup
  <2>1. pane.chat \in DC
    BY <1>1, OpenKeyIs
  <2>2. chats'[pane.chat] = chats[pane.chat]
    BY <2>1 DEF Grown
  <2>3. /\ chats[pane.chat].who = Crowd
        /\ \A t \in Mails : mail[t].step # "unsent" /\ mail[t].key = pane.chat =>
                              mail[t].home # chats[pane.chat].home
    BY <1>1, <2>2 DEF ChatInv, ForeignGroup
  <2>4. ASSUME NEW t \in Mails, mail'[t].step # "unsent", mail'[t].key = pane.chat
        PROVE  mail'[t].home # chats[pane.chat].home
    <3>1. CASE mail[t].step = "unsent"
      BY <1>1, <2>2, <2>4, <3>1 DEF TurnsStep, Moves
    <3>2. CASE mail[t].step # "unsent"
      BY <2>3, <2>4, <3>2 DEF TurnsStep, Moves
    <3> QED
      BY <3>1, <3>2
  <2> QED
    BY <1>1, <2>2, <2>3, <2>4
<1>2. CASE pane'.chat = Nobody
  BY <1>2 DEF ForeignGroup
<1>3. CASE pane'.chat \in DC' /\ chats'[pane'.chat].home = pane'.home
  BY <1>3 DEF ForeignGroup
<1>4. CASE OpenGroup
  <2>1. PICK s : s = Len(chats')
    OBVIOUS
  <2>2. s \in DC' /\ s \notin DC /\ s \in Chats /\ s # Nobody
    BY <1>4, <2>1, GroupGrows, NamesApart DEF Grown
  <2>3. chats'[s].who = Crowd
    BY <1>4, <2>1, GroupGrows
  <2>4. pane' = [pane EXCEPT !.chat = s, !.intent = Nobody] /\ pane \in Panes /\ UNCHANGED mail
    BY <1>4, <2>1 DEF OpenGroup, Turned, ChatInv, PaneStands
  <2>5. pane'.chat = s
    BY <2>4 DEF Panes
  <2>6. \A t \in Mails : mail[t].step # "unsent" => mail[t].key # s
    BY <1>m, <2>2, MailIs DEF Names
  <2> QED
    BY <2>3, <2>4, <2>5, <2>6 DEF ForeignGroup
<1> QED
  BY <1>1, <1>2, <1>3, <1>4, PaneGoes

-----------------------------------------------------------------------------
(* The answers are shown *)

\* What there is to show of an answer is never more than when it was given.
LEMMA RepliesKept ==
  ASSUME ChatInv, Grown, [ChatNext]_chatVars, NEW t \in Mails, mail[t].step \in {"settling", "done"}
  PROVE  Replies(t)' \subseteq Replies(t) /\ mail'[t].where = mail[t].where
<1>m. MailsStand
  BY DEF ChatInv
<1>1. mail[t].where \in DC /\ mail[t].job = "answered"
  BY <1>m, MailIs
<1>2. CASE Quiet
  <2>1. mail'[t].where = mail[t].where /\ scroll' = scroll
    BY <1>2 DEF Quiet
  <2> QED
    BY <2>1 DEF Replies, ReplyOf, Newest
<1>3. ASSUME NEW r \in Chats, NEW m \in Msgs, m # [mail |-> t, by |-> "them"],
             mail'[t].where = mail[t].where, scroll' = [scroll EXCEPT ![r] = Append(scroll[r], m)]
      PROVE  Replies(t)' \subseteq Replies(t)
  <2>1. PICK s : s = mail[t].where
    OBVIOUS
  <2>2. s \in Chats /\ scroll \in [Chats -> Seq(Msgs)] /\ Len(scroll[s]) \in Nat
    BY <1>1, <2>1, SessionIs, ScrollIs DEF ChatInv, ScrollStands
  <2>3. s # r => scroll'[s] = scroll[s]
    BY <1>3, <2>2
  <2>4. s = r => /\ Len(scroll'[s]) = Len(scroll[s]) + 1 /\ DOMAIN scroll'[s] = 1 .. Len(scroll[s]) + 1
                 /\ scroll'[s][Len(scroll[s]) + 1] = m
                 /\ \A n \in 1 .. Len(scroll[s]) : scroll'[s][n] = scroll[s][n]
    BY <1>3, <2>2
  <2>5. ASSUME NEW p \in Replies(t)'
        PROVE  p \in Replies(t)
    <3>1. /\ p \in Posts /\ p[1] = s /\ p[2] \in DOMAIN scroll'[s]
          /\ scroll'[s][p[2]] = [mail |-> t, by |-> "them"]
      BY <1>3, <2>1 DEF Replies, ReplyOf
    <3>2. PICK n \in DOMAIN scroll'[s] : p = <<s, n>> /\ n + PageSize > Len(scroll'[s])
      BY <1>3, <2>1 DEF Replies, Newest
    <3>3. CASE s # r
      BY <2>1, <2>3, <3>1, <3>2, <3>3 DEF Replies, ReplyOf, Newest
    <3>4. CASE s = r
      <4>1. n \in 1 .. Len(scroll[s]) /\ DOMAIN scroll[s] = 1 .. Len(scroll[s])
        BY <1>3, <2>2, <2>4, <3>1, <3>2, <3>4
      <4>2. scroll[s][n] = [mail |-> t, by |-> "them"] /\ n + PageSize > Len(scroll[s])
        BY <2>2, <2>4, <3>1, <3>2, <3>4, <4>1, NumbersFit
      <4>3. p \in ReplyOf(t)
        BY <2>1, <3>1, <3>2, <4>1, <4>2 DEF ReplyOf
      <4>4. p \in Newest(s)
        BY <3>2, <4>1, <4>2 DEF Newest
      <4> QED
        BY <2>1, <4>3, <4>4 DEF Replies
    <3> QED
      BY <3>3, <3>4
  <2> QED
    BY <2>5
<1>4. ASSUME NEW u \in Mails, Accept(u)
      PROVE  Replies(t)' \subseteq Replies(t) /\ mail'[t].where = mail[t].where
  <2>1. Only(u) /\ mail[u].job = "sent"
    BY <1>4, AcceptMail
  <2>2. PICK r \in DC' : scroll' = [scroll EXCEPT ![r] = Append(@, [mail |-> u, by |-> "owner"])]
    BY <1>4, AcceptMail
  <2>3. r \in Chats /\ mail'[t] = mail[t]
    BY <1>1, <2>1 DEF Grown, Only
  <2>4. PICK m : m = [mail |-> u, by |-> "owner"]
    OBVIOUS
  <2>5. m \in Msgs /\ m # [mail |-> t, by |-> "them"]
    BY <2>4 DEF Msgs
  <2>6. scroll' = [scroll EXCEPT ![r] = Append(scroll[r], m)]
    BY <2>2, <2>4
  <2> QED
    BY <1>3, <2>3, <2>5, <2>6
<1>5. ASSUME NEW u \in Mails, FinishRun(u)
      PROVE  Replies(t)' \subseteq Replies(t) /\ mail'[t].where = mail[t].where
  <2>1. Only(u) /\ mail[u].job = "started" /\ mail[u].where \in DC
    BY <1>5, <1>m, FinishMail, MailIs
  <2>2. PICK r : r = mail[u].where
    OBVIOUS
  <2>3. r \in Chats /\ mail'[t] = mail[t] /\ u # t
    BY <1>1, <2>1, <2>2, SessionIs DEF Only, ChatInv
  <2>4. PICK m : m = [mail |-> u, by |-> "them"]
    OBVIOUS
  <2>5. m \in Msgs /\ m # [mail |-> t, by |-> "them"]
    BY <2>3, <2>4 DEF Msgs
  <2>6. scroll' = [scroll EXCEPT ![r] = Append(scroll[r], m)]
    BY <1>5, <2>2, <2>4 DEF FinishRun
  <2> QED
    BY <1>3, <2>3, <2>5, <2>6
<1>6. CASE Quiet /\ mail'[t].where = mail[t].where
  BY <1>2, <1>6
<1> QED
  BY <1>2, <1>4, <1>5, <1>6, QuietTurns DEF Quiet

\* A turn settles when its answer is taken, and is done when a refresh ends.
StepMoves(t) ==
  \/ mail'[t].step = mail[t].step
  \/ /\ mail[t].step \in {"unsent", "queued", "posted"} /\ mail'[t].step # "done"
     /\ mail'[t].step = "settling" => TakeAnswer(t)
  \/ /\ mail'[t].step \in {"done", "failed"}
     /\ \E f \in fetches : /\ Refreshed(f) \/ RefreshFails(f)
                           /\ f.ends = "turn" /\ f.mail = t
                           /\ mail'[t].step = "done" => mail[t].step = "settling"

LEMMA StepsRest ==
  ASSUME UNCHANGED mail
  PROVE  \A t \in Mails : StepMoves(t)
  BY DEF StepMoves

LEMMA StepsMove ==
  ASSUME ChatInv, [ChatNext]_chatVars
  PROVE  \A t \in Mails : StepMoves(t)
<1>m. MailsStand /\ ChatsStand
  BY DEF ChatInv
<1>1. ASSUME NEW t \in Mails, Refuse(t) \/ OpenRun(t) \/ BreakRun(t) \/ FinishRun(t) \/ Accept(t)
      PROVE  \A u \in Mails : StepMoves(u)
  <2>1. Only(t) /\ mail'[t].step = mail[t].step
    BY <1>1, <1>m, RefuseMail, RunMail, BreakMail, FinishMail, AcceptMail DEF Became
  <2> QED
    BY <2>1 DEF Only, StepMoves
<1>2. CASE ServerChat
  <2>1. CASE ListChats \/ \E c \in Friends : RunBooked(c)
    BY <2>1, StepsRest DEF ListChats, RunBooked
  <2> QED
    BY <1>1, <1>2, <2>1 DEF ServerChat
<1>3. CASE OwnerChat
  <2>1. ASSUME NEW t \in Mails, Send(t)
        PROVE  \A u \in Mails : StepMoves(u)
    <3>1. Only(t) /\ mail[t].step = "unsent" /\ mail'[t].step = "queued"
      BY <2>1, SendMail
    <3> QED
      BY <3>1 DEF Only, StepMoves
  <2>2. CASE ~ \E t \in Mails : Send(t)
    <3>1. UNCHANGED mail
      BY <1>3, <2>2 DEF OwnerChat, OpenWorld, SelectChat, Direct, BeginGroup, Reload, LoadOlder, Decide
    <3> QED
      BY <3>1, StepsRest
  <2> QED
    BY <2>1, <2>2
<1>4. CASE PageChat
  <2>1. UNCHANGED mail
    BY <1>4 DEF PageChat, ReadWorld, ShowWorld, OpenGroup, ReadTranscript, ShowTranscript,
                LoseTranscript, ShowOlder
  <2> QED
    BY <2>1, StepsRest
<1>5. ASSUME NEW t \in Mails, Post(t)
      PROVE  \A u \in Mails : StepMoves(u)
  <2>1. Only(t) /\ mail[t].step = "queued" /\ mail'[t].step = "posted"
    BY <1>5, PostMail DEF Became
  <2> QED
    BY <2>1 DEF Only, StepMoves
<1>6. ASSUME NEW t \in Mails, MissAnswer(t)
      PROVE  \A u \in Mails : StepMoves(u)
  <2>1. Only(t) /\ mail[t].step = "posted" /\ mail'[t].step \in {"failing", "failed"}
    BY <1>6, <1>m, MissMail DEF Became
  <2> QED
    BY <2>1 DEF Only, StepMoves
<1>7. ASSUME NEW t \in Mails, TakeAnswer(t)
      PROVE  \A u \in Mails : StepMoves(u)
  <2>1. mail[t].step = "posted" /\ mail'[t].step = "settling"
    BY <1>7, TakeMail DEF Became
  <2>2. ASSUME NEW u \in Mails, u # t PROVE mail'[u].step = mail[u].step
    BY <1>7, <2>2, TakeMail DEF Became
  <2>3. StepMoves(t)
    BY <1>7, <2>1 DEF StepMoves
  <2> QED
    BY <2>2, <2>3 DEF StepMoves
<1>8. ASSUME NEW f \in fetches, Refreshed(f) \/ RefreshFails(f)
      PROVE  \A u \in Mails : StepMoves(u)
  <2>1. Ends(f) /\ (f.ends = "turn" => f.mail \in Mails)
    BY <1>8 DEF Refreshed, RefreshFails, ChatInv, RestStands
  <2>2. CASE UNCHANGED mail
    BY <2>2, StepsRest
  <2>3. CASE ~ UNCHANGED mail
    <3>1. f.ends = "turn" /\ f.mail \in Mails /\ Only(f.mail)
      BY <1>m, <2>1, <2>3, EndsMail
    <3>2. /\ mail'[f.mail].step \in {"done", "failed"}
          /\ mail'[f.mail].step = "done" => mail[f.mail].step = "settling"
      BY <1>m, <2>1, <2>3, EndsMail DEF Became
    <3>3. StepMoves(f.mail)
      BY <1>8, <3>1, <3>2 DEF StepMoves
    <3> QED
      BY <3>1, <3>3 DEF Only, StepMoves
  <2> QED
    BY <2>2, <2>3
<1>9. CASE HearRun
  <2>1. PICK t \in Mails, k \in Keys : Hears(t, k)
    BY <1>9, HearIs
  <2>2. CASE UNCHANGED mail
    BY <2>2, StepsRest
  <2>3. CASE ~ UNCHANGED mail
    <3>1. mail[t].where \in DC /\ mail' = Bound(k, mail[t].where)
      BY <2>1, <2>3 DEF Hears
    <3>2. \A u \in Mails : mail'[u].step = mail[u].step
      BY <1>m, <3>1, BoundMail DEF Became
    <3> QED
      BY <3>2 DEF StepMoves
  <2> QED
    BY <2>2, <2>3
<1>10. CASE TurnChat
  <2>1. CASE (\E t \in Mails : Reconcile(t)) \/ CutStream
    BY <2>1, StepsRest DEF Reconcile, CutStream
  <2> QED
    BY <1>5, <1>6, <1>7, <1>8, <1>9, <1>10, <2>1 DEF TurnChat
<1>11. CASE UNCHANGED chatVars
  BY <1>11, StepsRest DEF chatVars
<1> QED
  BY <1>2, <1>3, <1>4, <1>10, <1>11 DEF ChatNext

\* The refreshes a turn waits for are sent when its answer is taken or missed.
LEMMA TurnFetches ==
  ASSUME ChatInv, [ChatNext]_chatVars, NEW f \in fetches', f.ends = "turn"
  PROVE  \/ f \in fetches
         \/ \E t \in Mails :
              /\ f.mail = t /\ mail[t].step = "posted"
              /\ \/ mail'[t].step \in {"failing", "failed"}
                 \/ /\ TakeAnswer(t) /\ mail'[t].step = "settling" /\ f.key = mail[t].key
                    /\ f.home = mail[t].home /\ f.items = Newest(mail[t].where)
<1>m. MailsStand /\ ChatsStand
  BY DEF ChatInv
<1>0. CASE fetches' \subseteq fetches
  BY <1>0
<1>1. CASE ServerChat
  <2>1. UNCHANGED fetches
    BY <1>1 DEF ServerChat, ListChats, RunBooked, Accept, Refuse, OpenRun, FinishRun, BreakRun, restVars
  <2> QED
    BY <1>0, <2>1
<1>2. CASE OwnerChat
  <2>1. CASE Decide
    <3>1. fetches' = fetches \cup {Asking(pane.chat, pane.chat, pane.home, "nothing", Nobody)}
      BY <2>1 DEF Decide, Fetching
    <3>2. Asking(pane.chat, pane.chat, pane.home, "nothing", Nobody).ends = "nothing"
      BY DEF Asking
    <3> QED
      BY <3>1, <3>2
  <2>2. CASE ~ Decide
    <3>1. UNCHANGED fetches
      BY <1>2, <2>2 DEF OwnerChat, OpenWorld, SelectChat, Direct, BeginGroup, Reload, LoadOlder, Send
    <3> QED
      BY <1>0, <3>1
  <2> QED
    BY <2>1, <2>2
<1>3. CASE PageChat
  <2>1. UNCHANGED fetches
    BY <1>3 DEF PageChat, ReadWorld, ShowWorld, OpenGroup, ReadTranscript, ShowTranscript,
                LoseTranscript, ShowOlder
  <2> QED
    BY <1>0, <2>1
<1>4. ASSUME NEW t \in Mails, TakeAnswer(t), f \notin fetches
      PROVE  /\ f.mail = t /\ mail[t].step = "posted" /\ mail'[t].step = "settling"
             /\ f.key = mail[t].key /\ f.home = mail[t].home /\ f.items = Newest(mail[t].where)
  <2>1. f = Asking(mail[t].where, mail[t].key, mail[t].home, "turn", t)
    BY <1>4 DEF TakeAnswer, Fetching
  <2>2. mail[t].step = "posted" /\ mail'[t].step = "settling"
    BY <1>4, TakeMail DEF Became
  <2> QED
    BY <2>1, <2>2 DEF Asking
<1>5. ASSUME NEW t \in Mails, MissAnswer(t), f \notin fetches
      PROVE  f.mail = t /\ mail[t].step = "posted" /\ mail'[t].step \in {"failing", "failed"}
  <2>1. PICK s : s = IF bound[mail[t].key] # Nobody THEN bound[mail[t].key] ELSE mail[t].from
    OBVIOUS
  <2>2. f = Asking(s, mail[t].key, mail[t].home, "turn", t)
    BY <1>5, <2>1 DEF MissAnswer, Fetching
  <2>3. f.mail = t
    BY <2>2 DEF Asking
  <2> QED
    BY <1>5, <1>m, <2>3, MissMail DEF Became
<1>6. ASSUME NEW t \in Mails, Reconcile(t)
      PROVE  f \in fetches
  <2>1. PICK s : s = IF mail[t].session # Nobody THEN mail[t].session ELSE bound[mail[t].key]
    OBVIOUS
  <2>2. fetches' = fetches \cup {Asking(s, mail[t].key, mail[t].home, "nothing", Nobody)}
    BY <1>6, <2>1 DEF Reconcile, Fetching
  <2>3. Asking(s, mail[t].key, mail[t].home, "nothing", Nobody).ends = "nothing"
    BY DEF Asking
  <2> QED
    BY <2>2, <2>3
<1>7. CASE HearRun
  <2>1. PICK t \in Mails, k \in Keys : Hears(t, k)
    BY <1>7, HearIs
  <2>2. \/ UNCHANGED fetches
        \/ fetches' = fetches \cup {Asking(mail[t].where, k, pane.home, "bubble", t)}
    BY <2>1 DEF Hears, Fetching
  <2>3. Asking(mail[t].where, k, pane.home, "bubble", t).ends = "bubble"
    BY DEF Asking
  <2> QED
    BY <2>2, <2>3
<1>8. CASE \E g \in fetches : Refreshed(g) \/ RefreshFails(g)
  BY <1>0, <1>8 DEF Refreshed, RefreshFails
<1>9. CASE (\E t \in Mails : Post(t)) \/ CutStream
  BY <1>0, <1>9 DEF Post, CutStream, restVars
<1>10. CASE UNCHANGED chatVars
  BY <1>0, <1>10 DEF chatVars, restVars
<1>11. CASE TurnChat
  BY <1>4, <1>5, <1>6, <1>7, <1>8, <1>9, <1>11 DEF TurnChat
<1> QED
  BY <1>1, <1>2, <1>3, <1>10, <1>11 DEF ChatNext

LEMMA RefreshesMeet ==
  ASSUME ChatInv, Grown, TurnsStep, [ChatNext]_chatVars, NEW f \in fetches', f.ends = "turn"
  PROVE  /\ mail'[f.mail].step \notin {"unsent", "queued", "posted"}
         /\ mail'[f.mail].step = "settling" =>
              /\ f.key = mail'[f.mail].key /\ f.home = mail'[f.mail].home
              /\ Replies(f.mail)' \subseteq f.items
<1>m. MailsStand
  BY DEF ChatInv
<1>1. CASE f \in fetches
  <2>1. /\ f.mail \in Mails /\ mail[f.mail].step \notin {"unsent", "queued", "posted"}
        /\ mail[f.mail].step = "settling" =>
             /\ f.key = mail[f.mail].key /\ f.home = mail[f.mail].home
             /\ Replies(f.mail) \subseteq f.items
    BY <1>1 DEF ChatInv, AnswersMeet, RestStands
  <2>2. \/ mail'[f.mail].step = mail[f.mail].step
        \/ mail'[f.mail].step \in {"done", "failed"}
    BY <2>1, StepsMove DEF StepMoves
  <2>3. mail[f.mail].step # "unsent" => /\ mail'[f.mail].key = mail[f.mail].key
                                        /\ mail'[f.mail].home = mail[f.mail].home
    BY <2>1 DEF TurnsStep, Moves
  <2>4. mail[f.mail].step = "settling" => Replies(f.mail)' \subseteq Replies(f.mail)
    BY <2>1, RepliesKept
  <2> QED
    BY <2>1, <2>2, <2>3, <2>4
<1>2. CASE f \notin fetches
  <2>1. PICK t \in Mails :
              /\ f.mail = t /\ mail[t].step = "posted"
              /\ \/ mail'[t].step \in {"failing", "failed"}
                 \/ /\ TakeAnswer(t) /\ mail'[t].step = "settling" /\ f.key = mail[t].key
                    /\ f.home = mail[t].home /\ f.items = Newest(mail[t].where)
    BY <1>2, TurnFetches
  <2>2. CASE mail'[t].step \in {"failing", "failed"}
    BY <2>1, <2>2
  <2>3. CASE /\ TakeAnswer(t) /\ mail'[t].step = "settling" /\ f.key = mail[t].key
             /\ f.home = mail[t].home /\ f.items = Newest(mail[t].where)
    <3>1. mail'[t].key = mail[t].key /\ mail'[t].home = mail[t].home
      BY <2>1 DEF TurnsStep, Moves
    <3>2. mail'[t].where = mail[t].where /\ UNCHANGED scroll
      BY <2>3, TakeMail DEF TakeAnswer, Became
    <3>3. Replies(t)' \subseteq f.items
      BY <2>3, <3>2 DEF Replies, Newest
    <3> QED
      BY <2>1, <2>3, <3>1, <3>3
  <2> QED
    BY <2>1, <2>2, <2>3
<1> QED
  BY <1>1, <1>2

\* The answer of a turn that is done is on show, or comes with what is loaded.
LEMMA AnswerMeets ==
  ASSUME ChatInv, Grown, [ChatNext]_chatVars, NEW t \in Mails,
         mail'[t].step = "done", mail[t].step = "done", pane'.chat = mail'[t].where, ~ overtaken'
  PROVE  /\ loading' = Nobody => Replies(t)' \subseteq page'
         /\ loading' # Nobody /\ loading'.read =>
              Replies(t)' \subseteq loading'.items \/ Replies(t)' \subseteq page'
<1>m. MailsStand
  BY DEF ChatInv
<1>1. Replies(t)' \subseteq Replies(t) /\ mail'[t].where = mail[t].where
  BY RepliesKept
<1>2. mail[t].where \in DC /\ mail[t].where # Nobody
  BY <1>m, MailIs, SessionIs DEF ChatInv
<1>3. CASE overtaken' = overtaken /\ pane'.chat = pane.chat
  <2>1. /\ loading = Nobody => Replies(t) \subseteq page
        /\ loading # Nobody /\ loading.read => Replies(t) \subseteq loading.items \/ Replies(t) \subseteq page
    BY <1>1, <1>3 DEF ChatInv, AnswersMeet
  <2>2. CASE UNCHANGED loading /\ page \subseteq page'
    BY <1>1, <2>1, <2>2
  <2>3. CASE ReadTranscript
    <3>1. PICK l : l = [items |-> Newest(pane.chat), read |-> TRUE]
      OBVIOUS
    <3>2. loading' = l /\ l.items = Newest(pane.chat) /\ loading # Nobody /\ l \in Loads
      <4>1. Newest(pane.chat) \subseteq Posts
        BY <1>1, <1>2, <1>3, ScrollIs, SessionIs DEF ChatInv
      <4> QED
        BY <2>3, <3>1, <4>1 DEF ReadTranscript, Loads
    <3>3. Replies(t) \subseteq Newest(pane.chat)
      BY <1>1, <1>3 DEF Replies
    <3> QED
      BY <1>1, <3>2, <3>3, FreshLoad
  <2>4. CASE Reload
    <3>1. PICK l : l = [items |-> {}, read |-> FALSE]
      OBVIOUS
    <3>2. loading' = l /\ l.read = FALSE /\ l # Nobody
      BY <2>4, <3>1, FreshLoad DEF Reload
    <3> QED
      BY <3>2
  <2>5. CASE ShowTranscript
    <3>1. /\ loading # Nobody /\ loading.read /\ loading' = Nobody /\ page' = loading.items
          /\ overtaken' = (overtaken \/ ~ page \subseteq loading.items)
      BY <2>5 DEF ShowTranscript
    <3>2. page \subseteq loading.items
      BY <3>1
    <3> QED
      BY <1>1, <2>1, <3>1, <3>2
  <2>6. CASE LoseTranscript
    BY <2>6 DEF LoseTranscript
  <2>7. CASE LoadOlder \/ \E ps \in older : ShowOlder(ps)
    BY <2>2, <2>7 DEF LoadOlder, ShowOlder
  <2>8. CASE \E f \in fetches : Refreshed(f)
    BY <2>2, <2>8 DEF Refreshed, MergedPage
  <2>9. CASE SheetAlike
    BY <2>2, <2>9 DEF SheetAlike
  <2>10. CASE SheetNew
    <3>1. PICK l : l = [items |-> {}, read |-> FALSE]
      OBVIOUS
    <3>2. loading' = l /\ l.read = FALSE /\ l # Nobody
      BY <1>1, <1>2, <2>10, <3>1, FreshLoad DEF SheetNew
    <3> QED
      BY <3>2
  <2> QED
    BY <2>3, <2>4, <2>5, <2>6, <2>7, <2>8, <2>9, <2>10, SheetStays DEF SheetMoves
<1>4. CASE overtaken' # overtaken
  <2>1. overtaken \in BOOLEAN /\ overtaken' \in BOOLEAN
    BY OthersStep DEF ChatInv, RestStands
  <2>2. overtaken
    BY <1>4, <2>1
  <2>3. overtaken'
    BY <2>2 DEF ChatNext, ServerChat, OwnerChat, PageChat, TurnChat, ListChats, RunBooked, Accept, Refuse,
      OpenRun, FinishRun, BreakRun, OpenWorld, SelectChat, Direct, BeginGroup, Reload, LoadOlder, Send,
      Decide, ReadWorld, ShowWorld, OpenGroup, ReadTranscript, ShowTranscript, LoseTranscript, ShowOlder,
      Post, TakeAnswer, MissAnswer, Reconcile, Refreshed, RefreshFails, HearRun, CutStream, chatVars, restVars
  <2> QED
    BY <2>3
<1>5. CASE pane'.chat # pane.chat
  <2>1. SheetNew
    <3>1. SheetMoves => pane' = pane
      BY DEF SheetMoves, ReadTranscript, ShowTranscript, LoseTranscript, Reload, LoadOlder, ShowOlder,
             Refreshed
    <3> QED
      BY <1>5, <3>1, SheetStays DEF SheetAlike
  <2>2. PICK l : l = [items |-> {}, read |-> FALSE]
    OBVIOUS
  <2>3. loading' = l /\ l.read = FALSE /\ l # Nobody
    BY <1>1, <1>2, <2>1, <2>2, FreshLoad DEF SheetNew
  <2> QED
    BY <2>3
<1> QED
  BY <1>3, <1>4, <1>5

\* The refresh a turn is done with shows its answer, if its conversation is open.
LEMMA AnswerArrives ==
  ASSUME ChatInv, Grown, [ChatNext]_chatVars, NEW t \in Mails,
         mail'[t].step = "done", mail[t].step # "done", pane'.chat = mail'[t].where, ~ overtaken'
  PROVE  Replies(t)' \subseteq page'
<1>m. MailsStand
  BY DEF ChatInv
<1>1. PICK f \in fetches : /\ Refreshed(f) \/ RefreshFails(f)
                           /\ f.ends = "turn" /\ f.mail = t /\ mail[t].step = "settling"
  BY StepsMove DEF StepMoves
<1>2. Refreshed(f)
  BY <1>1 DEF RefreshFails
<1>3. Replies(t)' \subseteq Replies(t) /\ mail'[t].where = mail[t].where
  BY <1>1, RepliesKept
<1>4. f.key = mail[t].key /\ f.home = mail[t].home /\ Replies(t) \subseteq f.items
  BY <1>1 DEF ChatInv, AnswersMeet
<1>5. pane' = pane /\ page' = MergedPage(f)
  BY <1>2 DEF Refreshed
<1>6. mail[t].where \in DC /\ mail[t].where # Nobody /\ mail[t].step # "unsent"
  BY <1>m, <1>1, MailIs, SessionIs DEF ChatInv
<1>7. KeyOf(mail[t].where) = mail[t].key /\ chats[mail[t].where].home = mail[t].home
  BY <1>6, TurnsStandNow DEF TurnStands, KeyFits
<1>8. pane.chat = mail[t].where /\ OpenKey = f.key
  BY <1>3, <1>4, <1>5, <1>6, <1>7, OpenKeyIs
<1>9. pane.home = f.home
  <2>1. SUFFICES ASSUME pane.home # f.home PROVE FALSE
    OBVIOUS
  <2>2. chats[pane.chat].home # pane.home
    BY <1>4, <1>7, <1>8, <2>1
  <2>3. /\ chats[pane.chat].who = Crowd
        /\ \A u \in Mails : mail[u].step # "unsent" /\ mail[u].key = pane.chat =>
                              mail[u].home # chats[pane.chat].home
    BY <1>6, <1>8, <2>2 DEF ChatInv, ForeignGroup
  <2>4. mail[t].key = pane.chat
    BY <1>6, <1>7, <1>8, <2>3, SessionIs DEF ChatInv
  <2> QED
    BY <1>6, <1>7, <1>8, <2>3, <2>4
<1> QED
  BY <1>3, <1>4, <1>5, <1>8, <1>9 DEF MergedPage

LEMMA AnswersStep ==
  ASSUME ChatInv, Grown, TurnsStep, [ChatNext]_chatVars
  PROVE  AnswersMeet'
<1>1. ASSUME NEW t \in Mails, mail'[t].step = "done", pane'.chat = mail'[t].where, ~ overtaken'
      PROVE  /\ loading' = Nobody => Replies(t)' \subseteq page'
             /\ loading' # Nobody /\ loading'.read =>
                  Replies(t)' \subseteq loading'.items \/ Replies(t)' \subseteq page'
  BY <1>1, AnswerMeets, AnswerArrives
<1>2. ASSUME NEW f \in fetches', f.ends = "turn"
      PROVE  /\ mail'[f.mail].step \notin {"unsent", "queued", "posted"}
             /\ mail'[f.mail].step = "settling" =>
                  /\ f.key = mail'[f.mail].key /\ f.home = mail'[f.mail].home
                  /\ Replies(f.mail)' \subseteq f.items
  BY <1>2, RefreshesMeet
<1> QED
  BY <1>1, <1>2 DEF AnswersMeet

-----------------------------------------------------------------------------
(* The conversations are kept *)

LEMMA StepOfChat ==
  ASSUME ChatInv, [ChatNext]_chatVars
  PROVE  ChatInv'
<1>1. Grown
  BY ChatsStep
<1>2. TurnsStep
  BY <1>1, TurnsMove
<1>3. BoundsGrow /\ FetchesGrow
  BY BindingsStep, RefreshesStep
<1>4. ChatsStand'
  BY <1>1 DEF Grown
<1>5. MailsStand' /\ ScrollStands' /\ FramesStand'
  BY <1>1, <1>2, MailsStep, ScrollStep, FramesStep
<1>6. PaneStands' /\ SheetStands' /\ PageStands'
  BY <1>1, PaneStep, SheetStep
<1>7. RestStands' /\ KeysFit'
  BY <1>1, <1>2, <1>3, RestStep, KeysStep
<1>8. AllKnown' /\ ForeignGroup' /\ AnswersMeet'
  BY <1>1, <1>2, <1>3, KnownStep, GroupStep, AnswersStep
<1> QED
  BY <1>4, <1>5, <1>6, <1>7, <1>8 DEF ChatInv

LEMMA ChatStart == ChatInit => ChatInv
<1> SUFFICES ASSUME ChatInit
             PROVE  ChatInv
  OBVIOUS
<1>n. Past \in Nat /\ MaxChats \in Nat /\ MaxStirs \in Nat
  BY NumbersFit
<1>1. ChatsStand
  BY ChatAssumption DEF ChatInit, ChatsStand, DC, Sess
<1>2. MailsStand
  <2>1. Unsent \in Mail
    BY DEF Unsent, Mail, MailSteps, Jobs
  <2>2. mail = [t \in Mails |-> Unsent]
    BY DEF ChatInit
  <2>3. Progress(Unsent) /\ Names(Unsent, DC)
    BY DEF Progress, Names, Unsent
  <2> QED
    BY <2>1, <2>2, <2>3 DEF MailsStand
<1>m. \A t \in Mails : /\ mail[t].where = Nobody /\ mail[t].from = Nobody /\ mail[t].session = Nobody
                       /\ mail[t].posted = Nobody /\ mail[t].step = "unsent" /\ mail[t].job = "none"
  BY DEF ChatInit, Unsent
<1>3. ScrollStands
  <2>1. ASSUME NEW s \in Chats
        PROVE  scroll[s] \in Seq(Msgs) /\ Len(scroll[s]) <= Past
    <3>1. CASE s \in DOMAIN Standing
      <4>1. scroll[s] = [n \in 1 .. Past |-> [mail |-> 0, by |-> "them"]]
        BY <3>1 DEF ChatInit
      <4>2. [mail |-> 0, by |-> "them"] \in Msgs
        BY DEF Msgs
      <4> QED
        BY <1>n, <4>1, <4>2
    <3>2. CASE s \notin DOMAIN Standing
      <4>1. scroll[s] = <<>>
        BY <3>2 DEF ChatInit
      <4> QED
        BY <1>n, <4>1
    <3> QED
      BY <3>1, <3>2
  <2>2. ASSUME NEW s \in Chats
        PROVE  Len(scroll[s]) <= Past + Cardinality(Sent(s)) + Cardinality(Heard(s))
    <3>1. Len(scroll[s]) \in Nat
      BY <2>1
    <3> QED
      BY <1>n, <2>1, <3>1, SentIs
  <2>3. scroll = [s \in Chats |-> scroll[s]]
    BY DEF ChatInit
  <2> QED
    BY <2>1, <2>2, <2>3 DEF ScrollStands
<1>4. FramesStand
  BY DEF ChatInit, FramesStand
<1>p. /\ pane = [home |-> FirstHome, chat |-> Nobody, intent |-> Nobody] /\ page = {} /\ roster = {}
      /\ older = {} /\ fetches = {} /\ loading = Nobody /\ opening = [to |-> Nobody, read |-> FALSE]
  BY DEF ChatInit
<1>5. PaneStands
  <2>1. pane \in Panes /\ pane.chat = Nobody /\ pane.intent = Nobody
    BY <1>p, ChatAssumption DEF Panes
  <2>2. opening \in Opens /\ opening.to = Nobody
    BY <1>p DEF Opens
  <2> QED
    BY <1>p, <2>1, <2>2 DEF PaneStands
<1>6. SheetStands /\ PageStands
  BY <1>p DEF SheetStands, PageStands, Within
<1>b. bound = [k \in Keys |-> Nobody] /\ \A k \in Keys : bound[k] = Nobody
  BY DEF ChatInit
<1>7. RestStands
  <2>1. grouping = Nobody /\ outbox = {} /\ bubbles = {} /\ stirs = 0 /\ overtaken = FALSE
    BY DEF ChatInit
  <2>2. bound \in [Keys -> Chats \cup {Nobody}]
    BY <1>b
  <2>3. \A k \in Keys : bound[k] \in DC \cup {Nobody}
    BY <1>b
  <2>4. stirs \in 0 .. MaxStirs /\ overtaken \in BOOLEAN
    <3>1. stirs = 0 /\ 0 \in 0 .. MaxStirs
      BY <1>n, <2>1
    <3>2. overtaken = FALSE
      BY <2>1
    <3>3. overtaken \in BOOLEAN
      BY <3>2
    <3> QED
      BY <3>1, <3>3
  <2>5. fetches \subseteq Fetch
    BY <1>p
  <2>6. \A f \in fetches : f.chat \in DC /\ Within(f.items, f.chat) /\ (f.ends = "turn" => f.mail \in Mails)
    BY <1>p
  <2>7. grouping \in Homes \cup {Nobody} /\ outbox \subseteq Mails /\ bubbles \subseteq Mails
    BY <2>1
  <2> QED
    BY <2>2, <2>3, <2>4, <2>5, <2>6, <2>7 DEF RestStands
<1>8. KeysFit
  BY <1>m, <1>p, <1>b DEF KeysFit
<1>9. pane.chat = Nobody
  BY <1>p
<1>10. AllKnown
  <2>1. Met = {}
    BY <1>m, <1>p, <1>b, <1>9 DEF Met, SessionsOf
  <2> QED
    BY <2>1 DEF AllKnown
<1>11. ForeignGroup
  BY <1>9 DEF ForeignGroup
<1>12. AnswersMeet
  BY <1>m, <1>p DEF AnswersMeet
<1> QED
  BY <1>1, <1>2, <1>3, <1>4, <1>5, <1>6, <1>7, <1>8, <1>10, <1>11, <1>12 DEF ChatInv

LEMMA ChatHolds == ChatInv => ChatTypes /\ (OneDirect => KeptApart) /\ AnswerShown
<1> SUFFICES ASSUME ChatInv
             PROVE  ChatTypes /\ (OneDirect => KeptApart) /\ AnswerShown
  OBVIOUS
<1>m. MailsStand /\ ChatsStand
  BY DEF ChatInv
<1>1. ChatTypes
  <2>1. chats \in Seq([home : Homes, who : Friends \cup {Crowd}]) /\ Len(chats) <= MaxChats
    BY DEF ChatInv, ChatsStand, Sess
  <2>2. \A s \in Chats : scroll[s] \in Seq([mail : Mails \cup {0}, by : {"owner", "them"}])
    BY DEF ChatInv, ScrollStands, Msgs
  <2>3. frames \in Seq([mail : Mails, kind : {"started", "ended"}])
    BY DEF ChatInv, FramesStand, Tellings
  <2>4. /\ pane \in [home : Homes, chat : Chats \cup {Nobody}, intent : Friends \cup {Nobody}]
        /\ roster \subseteq DOMAIN chats
        /\ opening \in {Nobody} \cup [to : Chats \cup {Nobody}, read : BOOLEAN]
    BY DEF ChatInv, PaneStands, Panes, DC, Opens
  <2>5. page \subseteq Posts /\ \A ps \in older : ps \subseteq Posts
    BY DEF ChatInv, SheetStands
  <2>6. loading = Nobody \/ (loading.items \subseteq Posts /\ loading.read \in BOOLEAN)
    BY DEF ChatInv, SheetStands, Loads
  <2>7. \A f \in fetches : f \in Fetch /\ f.chat \in DC
    BY DEF ChatInv, RestStands
  <2>8. \A f \in fetches : /\ f.chat \in DOMAIN chats /\ f.key \in Keys /\ f.home \in Homes
                           /\ f.items \subseteq Posts /\ f.ends \in {"nothing", "turn", "bubble"}
                           /\ f.mail \in Mails \cup {Nobody}
    BY <2>7 DEF Fetch, DC
  <2>9. /\ grouping \in Homes \cup {Nobody} /\ outbox \subseteq Mails /\ bubbles \subseteq Mails
        /\ bound \in [Keys -> Chats \cup {Nobody}] /\ stirs \in 0 .. MaxStirs /\ overtaken \in BOOLEAN
    BY DEF ChatInv, RestStands
  <2>10. mail \in [Mails -> Mail]
    BY DEF ChatInv, MailsStand
  <2> QED
    BY <2>1, <2>2, <2>3, <2>4, <2>5, <2>6, <2>8, <2>9, <2>10 DEF ChatTypes
<1>2. ASSUME OneDirect PROVE KeptApart
  <2>1. \A p \in page : p[1] = pane.chat
    BY <1>2 DEF ChatInv, PageStands, Within
  <2>2. ASSUME NEW t \in Mails, mail[t].from # Nobody, mail[t].where # Nobody
        PROVE  mail[t].where = mail[t].from
    <3>1. mail[t].from \in DC /\ mail[t].where \in DC
      BY <1>m, <2>2, MailIs
    <3>2. KeyOf(mail[t].where) = mail[t].key /\ KeyOf(mail[t].from) = mail[t].key
      BY <2>2, TurnsStandNow DEF TurnStands, KeyFits
    <3> QED
      BY <1>m, <1>2, <3>1, <3>2, OneForEach
  <2> QED
    BY <2>1, <2>2 DEF KeptApart
<1>3. AnswerShown
  BY DEF ChatInv, AnswersMeet, Replies, AnswerShown
<1> QED
  BY <1>1, <1>2, <1>3
=============================================================================
