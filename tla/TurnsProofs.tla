---------------------------- MODULE TurnsProofs ----------------------------
(***************************************************************************)
(* Theorems about the turns of characters, for all characters, sessions,   *)
(* models and bounds.  WorldPermission and the authority rows it uses: the *)
(* world keeps an administrator, an action is carried out at most once, a  *)
(* grant is settled when it holds.  Conversation: a turn is answered by    *)
(* those it was put to, who have heard what was said.  Both side by side,  *)
(* as the run of MCTurns has them.                                         *)
(***************************************************************************)
EXTENDS MCTurns, FiniteSetTheorems, WellFoundedInduction, TLAPS

(* The rows of a world: its characters are never all gone, as the last       *)
(* administrator is neither demoted nor archived.                           *)
Administered ==
  /\ AuthorityTypes
  /\ adminPointer # Nobody
  /\ Administers(adminPointer)

(* The hands of handlers *)

Working == {"execute", "asked", "calling", "called", "consumed"}

\* A handler that works on an action knows which, and an adapter that returned
\* has returned a result; it goes back to a list, and home to rest.
Sound(r) ==
  /\ r.at \in Working => r.on \in Actions
  /\ r.at \in {"called", "consumed"} => r.got \in Results
  /\ r.back \notin Working /\ r.home \notin Working

\* direct goes through its proposals and no other list.
DirectHand(r) ==
  /\ r.at \in {"idle", "prepare", "answering"} \cup Working
  /\ r.at \in Working => r.back = "prepare"
  /\ r.home = "idle"

HandsSound ==
  /\ \A h \in HandlerIds : Sound(hand[h])
  /\ DirectHand(hand["direct"])
  /\ turn = "none" => hand["direct"].at = "idle"

(* Proposals *)

\* Handler h, whose hand is r, has nothing to do with the action.
Avoids(h, r, a) ==
  /\ r.at \in Working => r.on # a
  /\ h # "direct" => a \notin r.todo
  /\ a \notin r.rest
  /\ h = a => r.at = "idle"

\* The action has neither a row nor a request.
Unheard(a) ==
  /\ action[a] = [status |-> "absent", exec |-> "none"]
  /\ request[a] = "none"
  /\ calls[a] = 0

\* direct has not reached the action yet.
Ahead(a) == turn = "none" \/ a \in hand["direct"].todo

AheadUnheard == \A a \in Actions : Ahead(a) => Unheard(a)
AheadAvoided == \A a \in Actions : Ahead(a) => \A h \in HandlerIds : Avoids(h, hand[h], a)

\* An action has been carried out if its attempt began, and then once.
CountedByRow ==
  \A a \in Actions : calls[a] = 0 \/ (calls[a] = 1 /\ action[a].exec \in {"executing", "settled"})

\* The inductive invariant
PermissionInv ==
  /\ Administered /\ PermissionTypes
  /\ HandsSound /\ AheadUnheard /\ AheadAvoided /\ CountedByRow

-----------------------------------------------------------------------------
LEMMA LeastMember ==
  ASSUME NEW S, S \subseteq Nat, S # {}
  PROVE  \E m \in S : \A n \in S : m <= n
<1> DEFINE R == OpToRel(<, Nat)
<1>1. IsWellFoundedOn(R, Nat)
  BY NatLessThanWellFounded
<1>2. PICK m \in S : \A n \in S : ~ (<<n, m>> \in R)
  BY <1>1, WFMin
<1>3. ASSUME NEW n \in S PROVE m <= n
  <2>1. <<n, m>> \in Nat \X Nat
    BY S \subseteq Nat
  <2>2. ~ (n < m)
    BY <1>2, <2>1 DEF OpToRel
  <2> QED
    BY <2>2, S \subseteq Nat
<1> QED
  BY <1>3

\* The successor administers whenever somebody does by the rows given.
LEMMA SuccessorFits ==
  ASSUME NEW status, NEW rows,
         \E d \in Chars : status[d] = "active" /\ rows[d].role = "administrator"
  PROVE  LET c == Successor(status, rows) IN
         c \in Chars /\ status[c] = "active" /\ rows[c].role = "administrator"
<1> DEFINE able == {c \in Chars : status[c] = "active" /\ rows[c].role = "administrator"}
<1>1. \E m \in able : \A n \in able : m <= n
  BY LeastMember, AuthorityAssumption
<1>2. Successor(status, rows) = CHOOSE c \in able : \A d \in able : c <= d
  BY <1>1 DEF Successor
<1>3. Successor(status, rows) \in able
  BY <1>1, <1>2
<1> QED
  BY <1>3

\* The pointer follows the rows: what it names afterwards administers.
LEMMA SyncedFits ==
  ASSUME NEW status, NEW rows, adminPointer \in Chars,
         \E d \in Chars : status[d] = "active" /\ rows[d].role = "administrator"
  PROVE  LET c == Synced(status, rows) IN
         c \in Chars /\ status[c] = "active" /\ rows[c].role = "administrator"
BY SuccessorFits DEF Synced

LEMMA PointerIsCharacter == ASSUME Administered PROVE adminPointer \in Chars
BY DEF Administered, AuthorityTypes

LEMMA CappedType ==
  ASSUME NEW role \in Roles, NEW grants \in SUBSET Permissions
  PROVE  [role |-> role, grants |-> Capped(role, grants)] \in Authority
BY DEF Roles, Capped, Authority

LEMMA NewRowTypes ==
  /\ NewMember \in Authority /\ NewAdmin \in Authority
  /\ [NewMember EXCEPT !.grants = Legacy] \in Authority
BY AuthorityAssumption DEF NewMember, NewAdmin, Authority

\* A change of a row leaves an administrator: one who is demoted has another
\* beside it.
LEMMA CommitKeeps ==
  ASSUME Administered, NEW actor, NEW c \in Chars, NEW role \in Roles,
         NEW grants \in SUBSET Permissions,
         MayUpdate(actor, c, role, grants), Commit(c, role, grants)
  PROVE  Administered'
<1> DEFINE row  == [role |-> role, grants |-> Capped(role, grants)]
           rows == [authority EXCEPT ![c] = row]
<1>1. CASE row = authority[c]
  BY <1>1 DEF Commit, authorityVars, Administered, AuthorityTypes, Administers
<1>2. CASE row # authority[c]
  <2>1. /\ authority' = rows /\ decided' = decided \cup {c}
        /\ adminPointer' = Synced(staff, rows) /\ staff' = staff
    BY <1>2 DEF Commit
  <2>2. /\ row \in Authority /\ row.role = role
        /\ authority \in [Chars -> Authority] /\ staff \in [Chars -> {"absent", "active", "archived"}]
        /\ decided \subseteq Chars /\ adminPointer \in Chars
    BY CappedType, PointerIsCharacter DEF Administered, AuthorityTypes
  <2>3. rows \in [Chars -> Authority] /\ rows[c] = row /\ \A d \in Chars \ {c} : rows[d] = authority[d]
    BY <2>2
  <2>4. \E d \in Chars : staff[d] = "active" /\ rows[d].role = "administrator"
    <3>1. CASE role = "administrator"
      BY <3>1, <2>2, <2>3 DEF MayUpdate
    <3>2. CASE authority[c].role = "administrator" /\ role = "member"
      BY <3>2, <2>3 DEF MayUpdate, OthersAdminister, Administers
    <3>3. CASE authority[c].role # "administrator"
      BY <3>3, <2>2, <2>3 DEF Administered, Administers
    <3> QED
      BY <3>1, <3>2, <3>3 DEF Roles
  <2>5. LET d == Synced(staff, rows) IN
        d \in Chars /\ staff[d] = "active" /\ rows[d].role = "administrator"
    <3> HIDE DEF rows
    <3> QED
      BY <2>2, <2>4, SyncedFits
  <2> HIDE DEF rows, row
  <2>6. QED
    BY <2>1, <2>2, <2>3, <2>5, AuthorityAssumption DEF Administered, AuthorityTypes, Administers
<1> QED
  BY <1>1, <1>2

LEMMA RecruitKeeps == ASSUME Administered, NEW c \in Chars, Recruit(c) PROVE Administered'
<1>1. adminPointer \in Chars /\ adminPointer # Nobody /\ adminPointer # c
  BY PointerIsCharacter DEF Administered, Administers, Recruit
<1>2. /\ staff' = [staff EXCEPT ![c] = "active"] /\ authority' = [authority EXCEPT ![c] = NewMember]
      /\ adminPointer' = adminPointer /\ decided' = decided
  BY <1>1 DEF Recruit
<1> QED
  BY <1>1, <1>2, NewRowTypes DEF Administered, AuthorityTypes, Administers

\* Archiving moves the pointer on.
LEMMA ArchiveKeeps == ASSUME Administered, NEW c \in Chars, Archive(c) PROVE Administered'
<1>1. /\ staff' = [staff EXCEPT ![c] = "archived"] /\ authority' = authority /\ decided' = decided
      /\ staff \in [Chars -> {"absent", "active", "archived"}] /\ adminPointer \in Chars
  BY PointerIsCharacter DEF Archive, Administered, AuthorityTypes
<1>2. \E d \in Chars : staff'[d] = "active" /\ authority[d].role = "administrator"
  <2>1. CASE Administers(c)
    BY <2>1, <1>1 DEF Archive, OthersAdminister, Administers
  <2>2. CASE ~Administers(c)
    BY <2>2, <1>1 DEF Administered, Administers
  <2> QED
    BY <2>1, <2>2
<1>3. /\ adminPointer' \in Chars /\ staff'[adminPointer'] = "active"
      /\ authority[adminPointer'].role = "administrator"
  <2>1. CASE adminPointer = c
    BY <2>1, <1>2, SuccessorFits DEF Archive
  <2>2. CASE adminPointer # c
    BY <2>2, <1>1, <1>2, SyncedFits DEF Archive
  <2> QED
    BY <2>1, <2>2
<1> QED
  BY <1>1, <1>3, AuthorityAssumption DEF Administered, AuthorityTypes, Administers

LEMMA ReviveKeeps == ASSUME Administered, NEW c \in Chars, Revive(c) PROVE Administered'
BY DEF Administered, AuthorityTypes, Administers, Revive

LEMMA BackfillKeeps == ASSUME Administered, Backfill PROVE Administered'
<1>1. \A c \in Chars : Inherited(c) \in Authority /\ (authority[c].role = "administrator" => Inherited(c).role = "administrator")
  BY NewRowTypes DEF Inherited, NewAdmin
<1>2. /\ authority' \in [Chars -> Authority]
      /\ \A c \in Chars : authority[c].role = "administrator" => authority'[c].role = "administrator"
  BY <1>1 DEF Backfill, Administered, AuthorityTypes
<1>3. decided' \subseteq Chars /\ staff' = staff /\ adminPointer' = adminPointer
  BY DEF Backfill, Administered, AuthorityTypes, Inheritors, Active
<1> QED
  BY <1>2, <1>3, PointerIsCharacter DEF Administered, AuthorityTypes, Administers

LEMMA AuthorityStays == ASSUME Administered, UNCHANGED authorityVars PROVE Administered'
BY DEF Administered, AuthorityTypes, Administers, authorityVars

LEMMA FirstFits == First \in Chars /\ First <= Actor
<1>1. \E c \in Chars : \A d \in Chars : c <= d
  BY LeastMember, AuthorityAssumption, PermissionAssumption
<1> QED
  BY <1>1, PermissionAssumption DEF First

-----------------------------------------------------------------------------
(* Moves of one hand and of one row *)

\* What the other steps leave alone, and that a turn which began stays begun
Plain ==
  /\ late' \subseteq Actions /\ changes' \in 0 .. MaxDecisions /\ deaths' \in 0 .. MaxDeaths
  /\ turn' \in {"none", "running", "waiting", "over"}
  /\ turn' = "none" => turn = "none"

\* Nothing becomes ahead of direct, and what stays so is still unheard of.
StillUnheard ==
  \A a \in Actions : Ahead(a)' =>
    Ahead(a) /\ request'[a] = request[a] /\ action'[a] = action[a] /\ calls'[a] = calls[a]

\* The hand h moves to r.
Moves(h, r) == h \in HandlerIds /\ hand' = [hand EXCEPT ![h] = r]

MoveFits(h, r) ==
  /\ r \in Hands /\ Sound(r)
  /\ h = "direct" => DirectHand(r) /\ r.todo \subseteq hand[h].todo /\ (turn = "none" => r.at = "idle")
  /\ \A a \in Actions : Ahead(a) /\ (h = "direct" /\ turn # "none" => a \in r.todo) => Avoids(h, r, a)

LEMMA HandMoves ==
  ASSUME PermissionInv, NEW h, NEW r, Moves(h, r), MoveFits(h, r), Plain
  PROVE  /\ hand' \in [HandlerIds -> Hands] /\ HandsSound' /\ AheadAvoided'
         /\ \A a \in Actions : Ahead(a)' => Ahead(a)
<1>1. /\ hand \in [HandlerIds -> Hands] /\ h \in HandlerIds /\ "direct" \in HandlerIds
      /\ hand' \in [HandlerIds -> Hands]
      /\ hand'[h] = r /\ \A g \in HandlerIds \ {h} : hand'[g] = hand[g]
  BY DEF PermissionInv, PermissionTypes, Moves, MoveFits, HandlerIds
<1>2. HandsSound'
  BY <1>1 DEF PermissionInv, HandsSound, MoveFits, Plain
<1>3. \A a \in Actions : Ahead(a)' => Ahead(a)
  BY <1>1 DEF Ahead, MoveFits, Plain
<1>4. ASSUME NEW a \in Actions, Ahead(a)', NEW g \in HandlerIds PROVE Avoids(g, hand'[g], a)
  <2>1. Ahead(a)
    BY <1>3, <1>4
  <2>2. CASE g # h
    BY <1>1, <2>1, <2>2 DEF PermissionInv, AheadAvoided
  <2>3. CASE g = h
    BY <1>1, <1>4, <2>1, <2>3 DEF MoveFits, Ahead, Plain
  <2> QED
    BY <2>2, <2>3
<1>5. AheadAvoided'
  BY <1>4 DEF AheadAvoided
<1> QED
  BY <1>1, <1>2, <1>3, <1>5

\* A step of a handler: its hand moves, requests and rows keep their types, and
\* what is ahead is left alone.
LEMMA Stepped ==
  ASSUME PermissionInv, Administered', Plain,
         NEW h, NEW r, Moves(h, r), MoveFits(h, r),
         request' \in [Actions -> Requests], action' \in [Actions -> Rows],
         calls' \in [Actions -> 0 .. 2], CountedByRow', StillUnheard
  PROVE  PermissionInv'
<1>1. /\ hand' \in [HandlerIds -> Hands] /\ HandsSound' /\ AheadAvoided'
      /\ \A a \in Actions : Ahead(a)' => Ahead(a)
  BY HandMoves
<1>2. AheadUnheard'
  BY <1>1 DEF PermissionInv, AheadUnheard, Unheard, StillUnheard
<1>3. PermissionTypes'
  BY <1>1 DEF PermissionTypes, Plain, Administered
<1> QED
  BY <1>1, <1>2, <1>3 DEF PermissionInv

\* ... in particular where only the hand moves.
LEMMA OnlyHand ==
  ASSUME PermissionInv, NEW h, NEW r, Moves(h, r), MoveFits(h, r), Plain,
         UNCHANGED <<authorityVars, request, action, calls>>
  PROVE  PermissionInv'
<1>1. Administered'
  BY AuthorityStays DEF PermissionInv
<1>2. StillUnheard
  BY HandMoves DEF StillUnheard
<1>3. /\ request' \in [Actions -> Requests] /\ action' \in [Actions -> Rows]
      /\ calls' \in [Actions -> 0 .. 2] /\ CountedByRow'
  BY DEF PermissionInv, PermissionTypes, CountedByRow
<1> QED
  BY <1>1, <1>2, <1>3, Stepped

\* ... where the row it works on takes a value that is no fresh attempt.
LEMMA HandAndRow ==
  ASSUME PermissionInv, NEW h, NEW r, Moves(h, r), MoveFits(h, r), Plain,
         NEW a \in Actions, ~Ahead(a)',
         NEW status \in RowStatuses, NEW exec \in Execs, Set(a, status, exec),
         exec = action[a].exec \/ exec \in {"executing", "settled"} \/ calls[a] = 0,
         request' \in [Actions -> Requests],
         \A b \in Actions : request[b] = "none" /\ b # a => request'[b] = "none",
         UNCHANGED <<authorityVars, calls>>
  PROVE  PermissionInv'
<1>1. Administered'
  BY AuthorityStays DEF PermissionInv
<1>2. /\ action' \in [Actions -> Rows] /\ action'[a] = [status |-> status, exec |-> exec]
      /\ \A b \in Actions \ {a} : action'[b] = action[b]
  BY DEF PermissionInv, PermissionTypes, Set, Rows
<1>3. StillUnheard
  BY <1>2, HandMoves DEF StillUnheard, PermissionInv, AheadUnheard, Unheard
<1>4. calls' \in [Actions -> 0 .. 2] /\ CountedByRow'
  BY <1>2 DEF PermissionInv, PermissionTypes, CountedByRow
<1> QED
  BY <1>1, <1>2, <1>3, <1>4, Stepped

\* The ways in which a hand moves
LEMMA HandLeaves ==
  ASSUME PermissionInv, NEW h \in HandlerIds, hand[h].at \in Working, Leave(h)
  PROVE  \E r : Moves(h, r) /\ MoveFits(h, r)
<1> DEFINE r == [hand[h] EXCEPT !.at = hand[h].back, !.on = Nobody, !.got = "none"]
<1>1. Moves(h, r)
  BY DEF Moves, Leave
<1>2. hand[h] \in Hands /\ Sound(hand[h]) /\ (h = "direct" => DirectHand(hand[h]) /\ turn # "none")
  BY DEF PermissionInv, PermissionTypes, HandsSound, Working
<1>3. r \in Hands /\ Sound(r) /\ (h = "direct" => DirectHand(r))
  BY <1>2 DEF Hands, Sound, DirectHand, Working
<1>4. \A a \in Actions : Ahead(a) => Avoids(h, r, a)
  BY <1>2 DEF PermissionInv, AheadAvoided, Avoids, Sound, Hands, Working
<1>5. r.todo = hand[h].todo
  BY <1>2 DEF Hands
<1> QED
  BY <1>1, <1>2, <1>3, <1>4, <1>5 DEF MoveFits

LEMMA GoesHome ==
  ASSUME PermissionInv, NEW h \in HandlerIds, hand[h].at # "idle", Home(h)
  PROVE  \E r : Moves(h, r) /\ MoveFits(h, r)
<1> DEFINE r == [hand[h] EXCEPT !.at = hand[h].home, !.on = Nobody, !.todo = {}]
<1>1. Moves(h, r)
  BY DEF Moves, Home
<1>2. hand[h] \in Hands /\ Sound(hand[h]) /\ (h = "direct" => DirectHand(hand[h]) /\ turn # "none")
  BY DEF PermissionInv, PermissionTypes, HandsSound
<1>3. r \in Hands /\ Sound(r) /\ (h = "direct" => DirectHand(r))
  BY <1>2 DEF Hands, Sound, DirectHand, Working
<1>4. \A a \in Actions : Ahead(a) => Avoids(h, r, a)
  BY <1>2 DEF PermissionInv, AheadAvoided, Avoids, Sound, Hands, Working
<1> QED
  BY <1>1, <1>2, <1>3, <1>4 DEF MoveFits, Hands

\* To a place of the same action
LEMMA HandGoesOn ==
  ASSUME PermissionInv, NEW h \in HandlerIds, hand[h].at \in Working,
         NEW spot \in Working \ {"called", "consumed"}, Go(h, spot)
  PROVE  \E r : Moves(h, r) /\ MoveFits(h, r)
<1> DEFINE r == [hand[h] EXCEPT !.at = spot]
<1>1. Moves(h, r)
  BY DEF Moves, Go
<1>2. hand[h] \in Hands /\ Sound(hand[h]) /\ (h = "direct" => DirectHand(hand[h]) /\ turn # "none")
  BY DEF PermissionInv, PermissionTypes, HandsSound, Working
<1>3. r \in Hands /\ Sound(r) /\ (h = "direct" => DirectHand(r))
  BY <1>2 DEF Hands, Sound, DirectHand, Working, Places
<1>4. \A a \in Actions : Ahead(a) => Avoids(h, r, a)
  BY <1>2 DEF PermissionInv, AheadAvoided, Avoids, Sound, Hands, Working
<1> QED
  BY <1>1, <1>2, <1>3, <1>4 DEF MoveFits, Hands

\* To a place where it works on no action
LEMMA GoesIdly ==
  ASSUME PermissionInv, NEW h \in HandlerIds, hand[h].at # "idle",
         NEW spot \in Places \ Working, h = "direct" => spot \in {"idle", "prepare", "answering"},
         Go(h, spot)
  PROVE  \E r : Moves(h, r) /\ MoveFits(h, r)
<1> DEFINE r == [hand[h] EXCEPT !.at = spot]
<1>1. Moves(h, r)
  BY DEF Moves, Go
<1>2. hand[h] \in Hands /\ Sound(hand[h]) /\ (h = "direct" => DirectHand(hand[h]) /\ turn # "none")
  BY DEF PermissionInv, PermissionTypes, HandsSound
<1>3. r \in Hands /\ Sound(r) /\ (h = "direct" => DirectHand(r))
  BY <1>2 DEF Hands, Sound, DirectHand, Working, Places
<1>4. \A a \in Actions : Ahead(a) => Avoids(h, r, a)
  BY <1>2 DEF PermissionInv, AheadAvoided, Avoids, Sound, Hands, Working
<1> QED
  BY <1>1, <1>2, <1>3, <1>4 DEF MoveFits, Hands

\* To the next action of its list
LEMMA Takes ==
  ASSUME PermissionInv, NEW h \in HandlerIds, hand[h].at # "idle",
         NEW a \in hand[h].todo, NEW back \in {"prepare", "ready", "recovering"},
         h = "direct" => back = "prepare", Take(h, a, "execute", back)
  PROVE  /\ a \in Actions
         /\ \E r : Moves(h, r) /\ MoveFits(h, r) /\ r.todo = hand[h].todo \ {a}
<1> DEFINE r == [hand[h] EXCEPT !.at = "execute", !.on = a, !.todo = @ \ {a}, !.back = back]
<1>1. Moves(h, r)
  BY DEF Moves, Take
<1>2. hand[h] \in Hands /\ Sound(hand[h]) /\ (h = "direct" => DirectHand(hand[h]) /\ turn # "none")
  BY DEF PermissionInv, PermissionTypes, HandsSound
<1>3. /\ a \in Actions /\ r.at = "execute" /\ r.on = a /\ r.back = back
      /\ r.todo = hand[h].todo \ {a} /\ r.home = hand[h].home /\ r.rest = hand[h].rest
  BY <1>2 DEF Hands
<1>4. r \in Hands
  <2>1. back \in Places /\ "execute" \in Places
    BY DEF Places
  <2> QED
    BY <1>2, <1>3, <2>1 DEF Hands
<1>5. Sound(r) /\ (h = "direct" => DirectHand(r))
  BY <1>2, <1>3 DEF Sound, DirectHand, Working
<1>6. \A b \in Actions : Ahead(b) /\ (h = "direct" => b \in r.todo) => Avoids(h, r, b)
  BY <1>2, <1>3 DEF PermissionInv, AheadAvoided, Avoids, Sound, Hands, Working
<1>7. MoveFits(h, r)
  <2> HIDE DEF r
  <2> QED
    BY <1>2, <1>3, <1>4, <1>5, <1>6 DEF MoveFits
<1> QED
  BY <1>1, <1>3, <1>7

-----------------------------------------------------------------------------
(* direct and prepare *)

LEMMA BeginKeeps == ASSUME PermissionInv, BeginTurn PROVE PermissionInv'
<1> DEFINE r == [IdleHand EXCEPT !.at = "prepare", !.todo = Actions]
<1>1. /\ turn = "none" /\ turn' = "running" /\ "direct" \in HandlerIds
      /\ hand' = [hand EXCEPT !["direct"] = r]
      /\ hand \in [HandlerIds -> Hands]
      /\ UNCHANGED <<authorityVars, request, late, action, calls, changes, deaths>>
  BY DEF BeginTurn, HandlerIds, PermissionInv, PermissionTypes
<1>2. /\ r.at = "prepare" /\ r.todo = Actions /\ r.rest = {} /\ r.home = "idle" /\ r.back = "idle"
      /\ r \in Hands
  BY DEF IdleHand, Hands, Places
<1>3. /\ hand'["direct"] = r /\ hand' \in [HandlerIds -> Hands]
      /\ \A h \in HandlerIds \ {"direct"} : hand'[h] = hand[h]
  <2> HIDE DEF r
  <2> QED
    BY <1>1, <1>2
<1>4. \A a \in Actions : a # "direct"
  BY PermissionAssumption
<1>5. HandsSound'
  BY <1>1, <1>2, <1>3 DEF PermissionInv, HandsSound, Sound, DirectHand, Working
<1>6. AheadAvoided'
  <2> HIDE DEF r
  <2> QED
    BY <1>1, <1>2, <1>3, <1>4 DEF PermissionInv, AheadAvoided, Avoids, Ahead, Working
<1>7. AheadUnheard' /\ CountedByRow'
  BY <1>1 DEF PermissionInv, AheadUnheard, Ahead, Unheard, CountedByRow
<1>8. Administered' /\ PermissionTypes'
  BY <1>1, <1>3, AuthorityStays DEF PermissionInv, PermissionTypes, Administered
<1> QED
  BY <1>5, <1>6, <1>7, <1>8 DEF PermissionInv

LEMMA ReserveKeeps ==
  ASSUME PermissionInv, NEW a \in Actions, Reserve(a) PROVE PermissionInv'
<1>1. /\ "direct" \in HandlerIds /\ hand["direct"].at = "prepare" /\ a \in hand["direct"].todo
      /\ Take("direct", a, "execute", "prepare") /\ Set(a, "waiting-for-integration", "none")
      /\ UNCHANGED <<authorityVars, request, late, turn, calls, changes, deaths>>
  BY DEF Reserve, HandAt, HandlerIds
<1>2. PICK r : Moves("direct", r) /\ MoveFits("direct", r) /\ r.todo = hand["direct"].todo \ {a}
  BY <1>1, Takes
<1>3. Plain
  BY <1>1 DEF Plain, PermissionInv, PermissionTypes
<1>4. ~Ahead(a)'
  <2>1. hand'["direct"] = r
    BY <1>1, <1>2 DEF Moves, PermissionInv, PermissionTypes
  <2>2. turn # "none"
    BY <1>1 DEF PermissionInv, HandsSound
  <2> QED
    BY <1>1, <1>2, <2>1, <2>2 DEF Ahead
<1>5. calls[a] = 0 /\ request' \in [Actions -> Requests]
  BY <1>1 DEF PermissionInv, PermissionTypes, AheadUnheard, Ahead, Unheard
<1>6. "waiting-for-integration" \in RowStatuses /\ "none" \in Execs
  BY DEF RowStatuses, Execs
<1> QED
  BY <1>1, <1>2, <1>3, <1>4, <1>5, <1>6, HandAndRow

LEMMA PreparedKeeps == ASSUME PermissionInv, Prepared PROVE PermissionInv'
<1>1. /\ "direct" \in HandlerIds /\ hand["direct"].at = "prepare"
      /\ UNCHANGED <<authorityVars, request, late, action, calls, changes, deaths>>
  BY DEF Prepared, HandAt, HandlerIds
<1>2. Plain
  BY <1>1 DEF Prepared, Plain, PermissionInv, PermissionTypes
<1>3. CASE Go("direct", "answering")
  <2>1. "answering" \in Places \ Working
    BY DEF Places, Working
  <2> QED
    BY <1>1, <1>2, <1>3, <2>1, GoesIdly, OnlyHand
<1>4. CASE hand' = [hand EXCEPT !["direct"] = IdleHand]
  <2>1. Moves("direct", IdleHand) /\ MoveFits("direct", IdleHand)
    BY <1>1, <1>4, PermissionAssumption
    DEF Moves, MoveFits, IdleHand, Hands, Places, Sound, DirectHand, Working, Avoids
  <2> QED
    BY <1>1, <1>2, <2>1, OnlyHand
<1> QED
  BY <1>3, <1>4 DEF Prepared

-----------------------------------------------------------------------------
(* #execute *)

\* A handler that works on an action: the action is one, and direct is past it.
LEMMA HandWorks ==
  ASSUME PermissionInv, NEW h \in HandlerIds, hand[h].at \in Working
  PROVE  /\ hand[h].on \in Actions /\ hand[h].at # "idle"
         /\ ~Ahead(hand[h].on)
         /\ action[hand[h].on] \in Rows /\ hand[h].back \in Places \ Working
BY DEF PermissionInv, HandsSound, Sound, AheadAvoided, Avoids, PermissionTypes, Hands, Working

\* ... and stays past it.
LEMMA StaysPast ==
  ASSUME PermissionInv, NEW h, NEW r, Moves(h, r), MoveFits(h, r), Plain,
         NEW a \in Actions, ~Ahead(a)
  PROVE  ~Ahead(a)'
BY HandMoves

LEMMA LookUpType ==
  ASSUME PermissionInv
  PROVE  /\ \A S : Expired(S) \in [Actions -> Requests]
         /\ \A S : \A b \in Actions : request[b] = "none" => Expired(S)[b] = "none"
         /\ \A a : LooksUp(a) \in [Actions -> Requests]
         /\ \A a : \A b \in Actions : request[b] = "none" => LooksUp(a)[b] = "none"
<1>1. request \in [Actions -> Requests] /\ "expired" \in Requests
  BY DEF PermissionInv, PermissionTypes, Requests
<1>2. \A S : Expired(S) \in [Actions -> Requests]
  BY <1>1 DEF Expired
<1>3. \A S : \A b \in Actions : request[b] = "none" => Expired(S)[b] = "none"
  BY <1>1 DEF Expired, Lapsed
<1> QED
  BY <1>1, <1>2, <1>3 DEF LooksUp

LEMMA RefuseKeeps ==
  ASSUME PermissionInv, NEW h \in HandlerIds, Refuse(h) PROVE PermissionInv'
<1>1. /\ hand[h].at \in Working /\ Leave(h)
      /\ UNCHANGED <<authorityVars, late, turn, calls, changes, deaths>>
  BY DEF Refuse, Executing, HandAt, Working
<1> PICK a \in Actions : a = hand[h].on
  BY <1>1, HandWorks
<1>2. PICK r : Moves(h, r) /\ MoveFits(h, r)
  BY <1>1, HandLeaves
<1>3. Plain
  BY <1>1 DEF Plain, PermissionInv, PermissionTypes
<1>4. a \in Actions /\ ~Ahead(a)' /\ action[a] \in Rows
  BY <1>1, <1>2, <1>3, HandWorks, StaysPast
<1>5. /\ request' \in [Actions -> Requests]
      /\ \A b \in Actions : request[b] = "none" => request'[b] = "none"
  BY LookUpType DEF Refuse, PermissionInv, PermissionTypes
<1>6. \E status \in {"failed", "rejected"} : Set(a, status, action[a].exec)
  BY DEF Refuse
<1>7. action[a].exec \in Execs /\ {"failed", "rejected"} \subseteq RowStatuses
  BY <1>4 DEF Rows, RowStatuses, Results
<1> QED
  BY <1>1, <1>2, <1>3, <1>4, <1>5, <1>6, <1>7, HandAndRow

LEMMA AskKeeps ==
  ASSUME PermissionInv, NEW h \in HandlerIds, Ask(h) PROVE PermissionInv'
<1>1. /\ hand[h].at \in Working /\ Go(h, "asked") /\ "asked" \in Working \ {"called", "consumed"}
      /\ UNCHANGED <<authorityVars, late, action, turn, calls, changes, deaths>>
      /\ request' = [request EXCEPT ![hand[h].on] = IF @ = "none" THEN "pending" ELSE @]
  BY DEF Ask, Executing, HandAt, Working
<1> PICK a \in Actions : a = hand[h].on
  BY <1>1, HandWorks
<1>2. PICK r : Moves(h, r) /\ MoveFits(h, r)
  BY <1>1, HandGoesOn
<1>3. Plain /\ Administered'
  BY <1>1, AuthorityStays DEF Plain, PermissionInv, PermissionTypes
<1>4. a \in Actions /\ ~Ahead(a)'
  BY <1>1, <1>2, <1>3, HandWorks, StaysPast
<1>5. /\ request' \in [Actions -> Requests]
      /\ \A b \in Actions \ {a} : request'[b] = request[b]
  BY <1>1 DEF PermissionInv, PermissionTypes, Requests
<1>6. StillUnheard
  BY <1>1, <1>2, <1>3, <1>4, <1>5, HandMoves DEF StillUnheard
<1>7. action' \in [Actions -> Rows] /\ calls' \in [Actions -> 0 .. 2] /\ CountedByRow'
  BY <1>1 DEF PermissionInv, PermissionTypes, CountedByRow
<1> QED
  BY <1>2, <1>3, <1>5, <1>6, <1>7, Stepped

LEMMA WaitKeeps ==
  ASSUME PermissionInv, NEW h \in HandlerIds, Wait(h) PROVE PermissionInv'
<1> DEFINE r == [hand[h] EXCEPT !.at = hand[h].back, !.on = Nobody,
                                !.heard = IF h = "direct" THEN @ \cup {hand[h].on} ELSE @]
<1>1. /\ hand[h].at \in Working /\ Set(hand[h].on, "waiting-for-approval", action[hand[h].on].exec)
      /\ UNCHANGED <<authorityVars, request, late, turn, calls, changes, deaths>>
      /\ Moves(h, r)
  BY DEF Wait, HandAt, Working, Moves
<1> PICK a \in Actions : a = hand[h].on
  BY <1>1, HandWorks
<1>2. /\ hand[h] \in Hands /\ Sound(hand[h]) /\ (h = "direct" => DirectHand(hand[h]) /\ turn # "none")
      /\ a \in Actions /\ ~Ahead(a) /\ action[a] \in Rows
  BY <1>1, HandWorks DEF PermissionInv, PermissionTypes, HandsSound, Working
<1>3. /\ r.at = hand[h].back /\ r.on = Nobody /\ r.todo = hand[h].todo /\ r.rest = hand[h].rest
      /\ r.back = hand[h].back /\ r.home = hand[h].home
  BY <1>2 DEF Hands
<1>4. r \in Hands
  BY <1>2 DEF Hands
<1>5. MoveFits(h, r)
  <2> HIDE DEF r
  <2>1. Sound(r) /\ (h = "direct" => DirectHand(r))
    BY <1>1, <1>2, <1>3 DEF Sound, DirectHand, Working
  <2>2. \A b \in Actions : Ahead(b) => Avoids(h, r, b)
    BY <1>1, <1>2, <1>3 DEF PermissionInv, AheadAvoided, Avoids, Sound, Working
  <2> QED
    BY <1>2, <1>3, <1>4, <2>1, <2>2 DEF MoveFits
<1>6. Plain
  BY <1>1 DEF Plain, PermissionInv, PermissionTypes
<1>7. ~Ahead(a)'
  BY <1>1, <1>2, <1>5, <1>6, StaysPast
<1>8. /\ action[a].exec \in Execs /\ "waiting-for-approval" \in RowStatuses
      /\ request' \in [Actions -> Requests]
  BY <1>1, <1>2 DEF Rows, RowStatuses, PermissionInv, PermissionTypes
<1> HIDE DEF r
<1> QED
  BY <1>1, <1>2, <1>5, <1>6, <1>7, <1>8, HandAndRow

LEMMA StandsStill ==
  ASSUME PermissionInv, NEW h \in HandlerIds, hand' = hand
  PROVE  Moves(h, hand[h]) /\ MoveFits(h, hand[h])
BY DEF PermissionInv, PermissionTypes, Moves, MoveFits, HandsSound, AheadAvoided

LEMMA ArmKeeps ==
  ASSUME PermissionInv, NEW h \in HandlerIds, Arm(h) PROVE PermissionInv'
<1>1. /\ hand[h].at \in Working /\ hand' = hand
      /\ action[hand[h].on].exec = "none"
      /\ Set(hand[h].on, action[hand[h].on].status, "approved-ready")
      /\ UNCHANGED <<authorityVars, request, late, turn, calls, changes, deaths>>
  BY DEF Arm, Granted, Executing, HandAt, Working
<1> PICK a \in Actions : a = hand[h].on
  BY <1>1, HandWorks
<1>2. Moves(h, hand[h]) /\ MoveFits(h, hand[h])
  BY <1>1, StandsStill
<1>3. Plain
  BY <1>1 DEF Plain, PermissionInv, PermissionTypes
<1>4. ~Ahead(a)' /\ action[a] \in Rows
  BY <1>1, <1>2, <1>3, HandWorks, StaysPast
<1>5. calls[a] = 0 /\ request' \in [Actions -> Requests]
  BY <1>1 DEF PermissionInv, PermissionTypes, CountedByRow
<1>6. action[a].status \in RowStatuses /\ "approved-ready" \in Execs
  BY <1>4 DEF Rows, Execs
<1> QED
  BY <1>1, <1>2, <1>3, <1>4, <1>5, <1>6, HandAndRow

\* The claim is what makes the call the only one.
LEMMA ClaimKeeps ==
  ASSUME PermissionInv, NEW h \in HandlerIds, Claim(h) PROVE PermissionInv'
<1>1. /\ hand[h].at \in Working /\ action[hand[h].on].exec # "none"
      /\ UNCHANGED <<authorityVars, request, late, turn, changes, deaths>>
  BY DEF Claim, Granted, Executing, HandAt, Working
<1> PICK a \in Actions : a = hand[h].on
  BY <1>1, HandWorks
<1>2. Plain /\ Administered'
  BY <1>1, AuthorityStays DEF Plain, PermissionInv, PermissionTypes
<1>3. CASE action[a].exec = "approved-ready"
  <2>1. /\ Set(a, "waiting-for-integration", "executing") /\ Go(h, "calling")
        /\ calls' = [calls EXCEPT ![a] = IF @ = 2 THEN 2 ELSE @ + 1]
        /\ "calling" \in Working \ {"called", "consumed"}
    BY <1>3 DEF Claim, Working
  <2>2. PICK r : Moves(h, r) /\ MoveFits(h, r)
    BY <1>1, <2>1, HandGoesOn
  <2>3. ~Ahead(a)'
    BY <1>1, <1>2, <2>2, HandWorks, StaysPast
  <2>4. /\ action' \in [Actions -> Rows] /\ action'[a].exec = "executing"
        /\ \A b \in Actions \ {a} : action'[b] = action[b]
    BY <2>1 DEF PermissionInv, PermissionTypes, Set, Rows, RowStatuses, Execs
  <2>5. calls[a] = 0 /\ calls \in [Actions -> 0 .. 2] /\ request' \in [Actions -> Requests]
    BY <1>1, <1>3 DEF PermissionInv, PermissionTypes, CountedByRow
  <2>6. /\ calls' \in [Actions -> 0 .. 2] /\ calls'[a] = 1
        /\ \A b \in Actions \ {a} : calls'[b] = calls[b]
    BY <2>1, <2>5
  <2>7. CountedByRow'
    BY <2>4, <2>6 DEF PermissionInv, CountedByRow
  <2>8. StillUnheard
    BY <1>1, <1>2, <2>2, <2>3, <2>4, <2>6, HandMoves DEF StillUnheard
  <2> QED
    BY <1>2, <2>2, <2>4, <2>5, <2>6, <2>7, <2>8, Stepped
<1>4. CASE action[a].exec # "approved-ready"
  <2>1. Leave(h) /\ UNCHANGED <<action, calls>>
    BY <1>4 DEF Claim
  <2> QED
    BY <1>1, <1>2, <2>1, HandLeaves, OnlyHand
<1> QED
  BY <1>3, <1>4

\* The adapter has returned.
LEMMA Returns ==
  ASSUME PermissionInv, NEW h \in HandlerIds, hand[h].at = "calling", NEW result \in Results,
         hand' = [hand EXCEPT ![h].at = "called", ![h].got = result]
  PROVE  \E r : Moves(h, r) /\ MoveFits(h, r)
<1> DEFINE r == [hand[h] EXCEPT !.at = "called", !.got = result]
<1>1. Moves(h, r)
  BY DEF Moves
<1>2. hand[h] \in Hands /\ Sound(hand[h]) /\ (h = "direct" => DirectHand(hand[h]) /\ turn # "none")
  BY DEF PermissionInv, PermissionTypes, HandsSound
<1>3. r \in Hands /\ Sound(r) /\ (h = "direct" => DirectHand(r))
  <2>1. /\ r.at = "called" /\ r.got = result /\ r.on = hand[h].on /\ r.back = hand[h].back
        /\ r.home = hand[h].home
    BY <1>2 DEF Hands
  <2>2. r \in Hands
    BY ZenonT(40), <1>2 DEF Hands, Places
  <2> HIDE DEF r
  <2> QED
    BY <1>2, <2>1, <2>2 DEF Sound, DirectHand, Working
<1>4. \A a \in Actions : Ahead(a) => Avoids(h, r, a)
  BY <1>2 DEF PermissionInv, AheadAvoided, Avoids, Sound, Hands, Working
<1> QED
  BY <1>1, <1>2, <1>3, <1>4 DEF MoveFits, Hands

LEMMA CalledKeeps ==
  ASSUME PermissionInv, NEW h \in HandlerIds, NEW result \in Results, Called(h, result)
  PROVE  PermissionInv'
<1>1. /\ hand[h].at = "calling"
      /\ hand' = [hand EXCEPT ![h].at = "called", ![h].got = result]
      /\ UNCHANGED <<authorityVars, request, late, action, turn, calls, changes, deaths>>
  BY DEF Called, HandAt
<1>2. Plain
  BY <1>1 DEF Plain, PermissionInv, PermissionTypes
<1> QED
  BY <1>1, <1>2, Returns, OnlyHand

LEMMA PromoteKeeps ==
  ASSUME PermissionInv, NEW h \in HandlerIds, Promote(h) PROVE PermissionInv'
<1>1. /\ hand[h].at = "calling" /\ hand[h].at \in Working /\ Promotes[hand[h].on] # Nobody
      /\ UNCHANGED <<request, late, action, turn, calls, changes, deaths>>
  BY DEF Promote, HandAt, Working
<1> PICK a \in Actions : a = hand[h].on
  BY <1>1, HandWorks
<1>2. PICK c \in Chars : c = Promotes[a]
  BY <1>1, PermissionAssumption
<1>3. Administered'
  <2>1. CASE MayUpdate(Granter(a), c, "administrator", Recommended)
    <3>1. Commit(c, "administrator", Recommended)
      BY <1>2, <2>1 DEF Promote
    <3> QED
      BY <2>1, <3>1, CommitKeeps, AuthorityAssumption DEF Roles, PermissionInv
  <2>2. CASE ~MayUpdate(Granter(a), c, "administrator", Recommended)
    BY <1>2, <2>2, AuthorityStays DEF Promote, PermissionInv
  <2> QED
    BY <2>1, <2>2
<1>4. \E result \in Results : hand' = [hand EXCEPT ![h].at = "called", ![h].got = result]
  BY DEF Promote, Results
<1>5. PICK r : Moves(h, r) /\ MoveFits(h, r)
  BY <1>1, <1>4, Returns
<1>6. Plain
  BY <1>1 DEF Plain, PermissionInv, PermissionTypes
<1>7. StillUnheard
  BY <1>1, <1>5, <1>6, HandMoves DEF StillUnheard
<1>8. /\ request' \in [Actions -> Requests] /\ action' \in [Actions -> Rows]
      /\ calls' \in [Actions -> 0 .. 2] /\ CountedByRow'
  BY <1>1 DEF PermissionInv, PermissionTypes, CountedByRow
<1> QED
  BY <1>3, <1>5, <1>6, <1>7, <1>8, Stepped

LEMMA ConsumeKeeps ==
  ASSUME PermissionInv, NEW h \in HandlerIds, Consume(h) PROVE PermissionInv'
<1>1. /\ hand[h].at = "called" /\ hand[h].at \in Working /\ Go(h, "consumed")
      /\ UNCHANGED <<authorityVars, late, action, turn, calls, changes, deaths>>
      /\ request' = IF request[hand[h].on] = "once" /\ ~Holds(Actor, Needs[hand[h].on])
                    THEN [request EXCEPT ![hand[h].on] = "spent"] ELSE LooksUp(hand[h].on)
  BY DEF Consume, HandAt, Working
<1> PICK a \in Actions : a = hand[h].on
  BY <1>1, HandWorks
<1> DEFINE r == [hand[h] EXCEPT !.at = "consumed"]
<1>2. Moves(h, r)
  BY <1>1 DEF Moves, Go
<1>3. MoveFits(h, r)
  <2>1. hand[h] \in Hands /\ Sound(hand[h]) /\ (h = "direct" => DirectHand(hand[h]) /\ turn # "none")
    BY <1>1 DEF PermissionInv, PermissionTypes, HandsSound
  <2>2. r \in Hands /\ Sound(r) /\ (h = "direct" => DirectHand(r))
    BY <1>1, <2>1 DEF Hands, Sound, DirectHand, Working, Places
  <2>3. \A b \in Actions : Ahead(b) => Avoids(h, r, b)
    BY <1>1, <2>1 DEF PermissionInv, AheadAvoided, Avoids, Sound, Hands, Working
  <2> QED
    BY <2>1, <2>2, <2>3 DEF MoveFits, Hands
<1>4. Plain /\ Administered'
  BY <1>1, AuthorityStays DEF Plain, PermissionInv, PermissionTypes
<1>5. /\ request' \in [Actions -> Requests]
      /\ \A b \in Actions : request[b] = "none" => request'[b] = "none"
  BY <1>1, LookUpType DEF PermissionInv, PermissionTypes, Requests
<1>6. /\ action' \in [Actions -> Rows] /\ calls' \in [Actions -> 0 .. 2] /\ CountedByRow'
  BY <1>1 DEF PermissionInv, PermissionTypes, CountedByRow
<1> HIDE DEF r
<1>7. StillUnheard
  BY <1>1, <1>2, <1>3, <1>4, <1>5, HandMoves
  DEF StillUnheard, PermissionInv, AheadUnheard, Unheard
<1> QED
  BY <1>2, <1>3, <1>4, <1>5, <1>6, <1>7, Stepped

LEMMA SaveResultKeeps ==
  ASSUME PermissionInv, NEW h \in HandlerIds, SaveResult(h) PROVE PermissionInv'
<1>1. /\ hand[h].at = "consumed" /\ hand[h].at \in Working /\ Leave(h)
      /\ Set(hand[h].on, hand[h].got, "settled")
      /\ UNCHANGED <<authorityVars, request, late, turn, calls, changes, deaths>>
  BY DEF SaveResult, HandAt, Working
<1> PICK a \in Actions : a = hand[h].on
  BY <1>1, HandWorks
<1>2. PICK r : Moves(h, r) /\ MoveFits(h, r)
  BY <1>1, HandLeaves
<1>3. Plain
  BY <1>1 DEF Plain, PermissionInv, PermissionTypes
<1>4. ~Ahead(a)'
  BY <1>1, <1>2, <1>3, HandWorks, StaysPast
<1>5. hand[h].got \in RowStatuses /\ "settled" \in Execs /\ request' \in [Actions -> Requests]
  BY <1>1 DEF PermissionInv, PermissionTypes, HandsSound, Sound, RowStatuses, Execs
<1> QED
  BY <1>1, <1>2, <1>3, <1>4, <1>5, HandAndRow

LEMMA ExecuteKeeps ==
  ASSUME PermissionInv, NEW h \in HandlerIds, Execute(h) PROVE PermissionInv'
BY RefuseKeeps, AskKeeps, WaitKeeps, ArmKeeps, ClaimKeeps, CalledKeeps, PromoteKeeps,
   ConsumeKeeps, SaveResultKeeps
DEF Execute

-----------------------------------------------------------------------------
(* The decisions of the owner *)

\* A decision is made about an action with a request.
LEMMA DecideMoves ==
  ASSUME PermissionInv, NEW a \in Actions, MayDecide(a), NEW spot \in Places \ Working, Decide(a, spot)
  PROVE  a \in HandlerIds /\ ~Ahead(a) /\ \E r : Moves(a, r) /\ MoveFits(a, r)
<1> DEFINE r == [IdleHand EXCEPT !.at = spot, !.on = a]
<1>1. a \in HandlerIds /\ a # "direct"
  BY PermissionAssumption DEF HandlerIds
<1>2. Moves(a, r)
  BY <1>1 DEF Moves, Decide
<1>3. /\ r.at = spot /\ r.todo = {} /\ r.rest = {} /\ r.back = "idle" /\ r.home = "idle"
      /\ r \in Hands
  BY DEF IdleHand, Hands, Places
<1>4. ~Ahead(a)
  BY DEF PermissionInv, AheadUnheard, Unheard, MayDecide
<1>5. Sound(r) /\ \A b \in Actions : Ahead(b) => Avoids(a, r, b)
  <2> HIDE DEF r
  <2> QED
    BY <1>3, <1>4 DEF Sound, Avoids, Working
<1> QED
  BY <1>1, <1>2, <1>3, <1>4, <1>5 DEF MoveFits

LEMMA OwnerDecides ==
  ASSUME PermissionInv, NEW a \in Actions, DecideLate(a) \/ Reject(a) \/ AllowOnce(a)
  PROVE  PermissionInv'
<1>1. \E spot \in {"refused", "allowed"}, answer \in {"expired", "rejected", "once"} :
        /\ MayDecide(a) /\ Decide(a, spot) /\ request' = [request EXCEPT ![a] = answer]
        /\ UNCHANGED <<authorityVars, late, action, turn, calls, changes, deaths>>
  BY DEF DecideLate, Reject, AllowOnce
<1>2. \A spot \in {"refused", "allowed"} : spot \in Places \ Working
  BY DEF Places, Working
<1>3. PICK r : Moves(a, r) /\ MoveFits(a, r) /\ ~Ahead(a)
  BY <1>1, <1>2, DecideMoves
<1>4. Plain /\ Administered'
  BY <1>1, AuthorityStays DEF Plain, PermissionInv, PermissionTypes
<1>5. /\ request' \in [Actions -> Requests]
      /\ \A b \in Actions \ {a} : request'[b] = request[b]
  BY <1>1 DEF PermissionInv, PermissionTypes, Requests
<1>6. /\ action' \in [Actions -> Rows] /\ calls' \in [Actions -> 0 .. 2] /\ CountedByRow'
      /\ action' = action /\ calls' = calls
  BY <1>1 DEF PermissionInv, PermissionTypes, CountedByRow
<1>7. StillUnheard
  BY <1>3, <1>4, <1>5, <1>6, HandMoves DEF StillUnheard
<1> QED
  BY <1>3, <1>4, <1>5, <1>6, <1>7, Stepped

LEMMA GrantKeeps ==
  ASSUME PermissionInv, NEW a \in Actions, Grant(a) PROVE PermissionInv'
<1>1. /\ MayDecide(a) /\ Decide(a, "granted") /\ "granted" \in Places \ Working
      /\ MayUpdate(Nobody, Actor, authority[Actor].role, authority[Actor].grants \cup {Needs[a]})
      /\ Commit(Actor, authority[Actor].role, authority[Actor].grants \cup {Needs[a]})
      /\ UNCHANGED <<request, late, action, turn, calls, changes, deaths>>
  BY DEF Grant, Places, Working
<1>2. PICK r : Moves(a, r) /\ MoveFits(a, r)
  BY <1>1, DecideMoves
<1>3. authority[Actor].role \in Roles /\ authority[Actor].grants \cup {Needs[a]} \in SUBSET Permissions
  BY PermissionAssumption DEF PermissionInv, Administered, AuthorityTypes, Authority, Roles
<1>4. Administered'
  BY <1>1, <1>3, CommitKeeps, PermissionAssumption DEF PermissionInv
<1>5. Plain
  BY <1>1 DEF Plain, PermissionInv, PermissionTypes
<1>6. StillUnheard
  BY <1>1, <1>2, <1>5, HandMoves DEF StillUnheard
<1>7. /\ request' \in [Actions -> Requests] /\ action' \in [Actions -> Rows]
      /\ calls' \in [Actions -> 0 .. 2] /\ CountedByRow'
  BY <1>1 DEF PermissionInv, PermissionTypes, CountedByRow
<1> QED
  BY <1>2, <1>4, <1>5, <1>6, <1>7, Stepped

\* The hand of a decision works for its action, which direct is past.
LEMMA DecisionHand ==
  ASSUME PermissionInv, NEW a \in Actions, hand[a].at # "idle"
  PROVE  a \in HandlerIds /\ a # "direct" /\ ~Ahead(a) /\ action[a] \in Rows
BY PermissionAssumption
DEF PermissionInv, PermissionTypes, AheadAvoided, Avoids, HandlerIds

LEMMA GivesUp ==
  ASSUME PermissionInv, NEW h \in HandlerIds, hand' = [hand EXCEPT ![h] = IdleHand]
  PROVE  Moves(h, IdleHand) /\ MoveFits(h, IdleHand)
BY DEF Moves, MoveFits, IdleHand, Hands, Places, Sound, DirectHand, Working, Avoids

LEMMA SettleGrantKeeps ==
  ASSUME PermissionInv, NEW a \in Actions, SettleGrant(a) PROVE PermissionInv'
<1>1. /\ hand[a].at = "granted" /\ UNCHANGED <<authorityVars, late, action, turn, calls, changes, deaths>>
  BY DEF SettleGrant, HandAt
<1>2. Plain /\ Administered' /\ a \in HandlerIds /\ a # "direct" /\ ~Ahead(a)
  BY <1>1, AuthorityStays, DecisionHand DEF Plain, PermissionInv, PermissionTypes
<1>3. \E r : Moves(a, r) /\ MoveFits(a, r)
  <2>1. CASE Go(a, "allowed")
    <3>1. "allowed" \in Places \ Working
      BY DEF Places, Working
    <3> QED
      BY <1>1, <1>2, <2>1, <3>1, GoesIdly
  <2>2. CASE hand' = [hand EXCEPT ![a] = IdleHand]
    BY <1>2, <2>2, GivesUp
  <2> QED
    BY <2>1, <2>2 DEF SettleGrant
<1>4. PICK r : Moves(a, r) /\ MoveFits(a, r)
  BY <1>3
<1>5. request' \in [Actions -> Requests] /\ \A b \in Actions \ {a} : request'[b] = request[b]
  BY DEF SettleGrant, PermissionInv, PermissionTypes, Requests
<1>6. StillUnheard
  BY <1>1, <1>2, <1>4, <1>5, HandMoves DEF StillUnheard
<1>7. /\ action' \in [Actions -> Rows] /\ calls' \in [Actions -> 0 .. 2] /\ CountedByRow'
  BY <1>1 DEF PermissionInv, PermissionTypes, CountedByRow
<1> QED
  BY <1>2, <1>4, <1>5, <1>6, <1>7, Stepped

LEMMA SaveDecisionKeeps ==
  ASSUME PermissionInv, NEW a \in Actions, SaveRefusal(a) \/ SaveAllowed(a) PROVE PermissionInv'
<1>1. /\ hand[a].at \in {"refused", "allowed"}
      /\ UNCHANGED <<authorityVars, request, late, turn, calls, changes, deaths>>
      /\ \E spot \in {"continue", "saved"} : Go(a, spot)
      /\ \/ Set(a, "rejected", "settled")
         \/ Set(a, "waiting-for-integration", action[a].exec)
  BY DEF SaveRefusal, SaveAllowed, HandAt
<1>2. Plain /\ a \in HandlerIds /\ a # "direct" /\ ~Ahead(a) /\ action[a] \in Rows
  BY <1>1, DecisionHand DEF Plain, PermissionInv, PermissionTypes
<1>3. {"continue", "saved"} \subseteq Places \ Working
  BY DEF Places, Working
<1>4. PICK r : Moves(a, r) /\ MoveFits(a, r)
  BY <1>1, <1>2, <1>3, GoesIdly
<1>5. ~Ahead(a)'
  BY <1>2, <1>4, StaysPast
<1>6. /\ {"rejected", "waiting-for-integration"} \subseteq RowStatuses
      /\ action[a].exec \in Execs /\ "settled" \in Execs /\ request' \in [Actions -> Requests]
  BY <1>1, <1>2 DEF Rows, RowStatuses, Execs, PermissionInv, PermissionTypes
<1>7. CASE Set(a, "rejected", "settled")
  BY <1>1, <1>2, <1>4, <1>5, <1>6, <1>7, HandAndRow
<1>8. CASE Set(a, "waiting-for-integration", action[a].exec)
  BY <1>1, <1>2, <1>4, <1>5, <1>6, <1>8, HandAndRow
<1> QED
  BY <1>1, <1>7, <1>8

LEMMA ArmAllowedKeeps ==
  ASSUME PermissionInv, NEW a \in Actions, ArmAllowed(a) PROVE PermissionInv'
<1>1. hand[a].at = "saved" /\ UNCHANGED <<authorityVars, request, late, turn, calls, changes, deaths>>
  BY DEF ArmAllowed, HandAt
<1>2. Plain /\ a \in HandlerIds /\ a # "direct" /\ ~Ahead(a) /\ action[a] \in Rows
  BY <1>1, DecisionHand DEF Plain, PermissionInv, PermissionTypes
<1>3. CASE action[a].exec \in {"none", "approved-ready"}
  <2>1. /\ Set(a, action[a].status, "approved-ready") /\ Go(a, "continue")
        /\ "continue" \in Places \ Working
    BY <1>3 DEF ArmAllowed, Places, Working
  <2>2. PICK r : Moves(a, r) /\ MoveFits(a, r)
    BY <1>1, <1>2, <2>1, GoesIdly
  <2>3. ~Ahead(a)'
    BY <1>2, <2>2, StaysPast
  <2>4. /\ action[a].status \in RowStatuses /\ "approved-ready" \in Execs
        /\ request' \in [Actions -> Requests] /\ calls[a] = 0
    BY <1>1, <1>2, <1>3 DEF Rows, Execs, PermissionInv, PermissionTypes, CountedByRow
  <2> QED
    BY <1>1, <1>2, <2>1, <2>2, <2>3, <2>4, HandAndRow
<1>4. CASE action[a].exec \notin {"none", "approved-ready"}
  BY <1>1, <1>2, <1>4, GivesUp, OnlyHand DEF ArmAllowed
<1> QED
  BY <1>3, <1>4

-----------------------------------------------------------------------------
(* continueIfReady *)

LEMMA ContinueKeeps ==
  ASSUME PermissionInv, NEW h \in HandlerIds, Continue(h) PROVE PermissionInv'
<1>1. /\ hand[h].at = "continue" /\ UNCHANGED <<authorityVars, late, action, turn, calls, changes, deaths>>
      /\ request' \in {Expired(Actions), request}
  BY DEF Continue, HandAt
<1>2. Plain /\ Administered' /\ h # "direct"
  BY <1>1, AuthorityStays
  DEF Plain, PermissionInv, PermissionTypes, HandsSound, DirectHand, Working
<1>3. \E r : Moves(h, r) /\ MoveFits(h, r)
  <2>1. CASE Home(h)
    BY <1>1, <2>1, GoesHome
  <2>2. CASE ~Home(h)
    <3> DEFINE armed == {a \in Actions : action[a].exec = "approved-ready"}
               r == [hand[h] EXCEPT !.at = "ready", !.todo = armed]
    <3>1. Moves(h, r)
      BY <2>2 DEF Continue, Moves
    <3>2. hand[h] \in Hands /\ Sound(hand[h])
      BY DEF PermissionInv, PermissionTypes, HandsSound
    <3>3. \A a \in armed : ~Ahead(a)
      BY DEF PermissionInv, AheadUnheard, Unheard
    <3>4. /\ r.at = "ready" /\ r.todo = armed /\ r.rest = hand[h].rest
          /\ r.back = hand[h].back /\ r.home = hand[h].home
      BY <3>2 DEF Hands
    <3>5. r \in Hands
      BY <3>2 DEF Hands, Places
    <3> HIDE DEF r, armed
    <3>6. Sound(r) /\ \A a \in Actions : Ahead(a) => Avoids(h, r, a)
      BY <1>1, <3>2, <3>3, <3>4 DEF PermissionInv, AheadAvoided, Avoids, Sound, Working
    <3> QED
      BY <1>2, <3>1, <3>4, <3>5, <3>6 DEF MoveFits
  <2> QED
    BY <2>1, <2>2
<1>4. PICK r : Moves(h, r) /\ MoveFits(h, r)
  BY <1>3
<1>5. /\ request' \in [Actions -> Requests]
      /\ \A b \in Actions : request[b] = "none" => request'[b] = "none"
  BY <1>1, LookUpType DEF PermissionInv, PermissionTypes
<1>6. StillUnheard
  BY <1>1, <1>2, <1>4, <1>5, HandMoves DEF StillUnheard, PermissionInv, AheadUnheard, Unheard
<1>7. /\ action' \in [Actions -> Rows] /\ calls' \in [Actions -> 0 .. 2] /\ CountedByRow'
  BY <1>1 DEF PermissionInv, PermissionTypes, CountedByRow
<1> QED
  BY <1>2, <1>4, <1>5, <1>6, <1>7, Stepped

LEMMA NextReadyKeeps ==
  ASSUME PermissionInv, NEW h \in HandlerIds, NEW a \in Actions, NextReady(h, a) PROVE PermissionInv'
<1>1. /\ hand[h].at = "ready" /\ a \in hand[h].todo /\ Take(h, a, "execute", "ready")
      /\ UNCHANGED <<authorityVars, request, late, action, turn, calls, changes, deaths>>
  BY DEF NextReady, HandAt
<1>2. Plain /\ h # "direct"
  BY <1>1 DEF Plain, PermissionInv, PermissionTypes, HandsSound, DirectHand, Working
<1> QED
  BY <1>1, <1>2, Takes, OnlyHand

LEMMA ResumeKeeps ==
  ASSUME PermissionInv, NEW h \in HandlerIds, ResumeTurn(h) PROVE PermissionInv'
<1>1. /\ hand[h].at = "ready" /\ UNCHANGED <<authorityVars, request, late, action, calls, changes, deaths>>
      /\ \/ turn = "waiting" /\ turn' = "running" /\ Go(h, "answering")
         \/ turn' = turn /\ Home(h)
  BY DEF ResumeTurn, HandAt
<1>2. Plain /\ "answering" \in Places \ Working
  BY <1>1 DEF Plain, PermissionInv, PermissionTypes, Places, Working
<1>3. PICK r : Moves(h, r) /\ MoveFits(h, r)
  BY <1>1, <1>2, GoesIdly, GoesHome
<1> QED
  BY <1>1, <1>2, <1>3, OnlyHand

LEMMA AnswerKeeps ==
  ASSUME PermissionInv, NEW h \in HandlerIds, Answer(h) PROVE PermissionInv'
<1>1. /\ hand[h].at = "answering" /\ Home(h) /\ turn' = "over"
      /\ UNCHANGED <<authorityVars, request, late, action, calls, changes, deaths>>
  BY DEF Answer, HandAt
<1>2. Plain
  BY <1>1 DEF Plain, PermissionInv, PermissionTypes
<1> QED
  BY <1>1, <1>2, GoesHome, OnlyHand

LEMMA HandleKeeps ==
  ASSUME PermissionInv, NEW h \in HandlerIds, Handle(h) PROVE PermissionInv'
BY ExecuteKeeps, ContinueKeeps, NextReadyKeeps, ResumeKeeps, AnswerKeeps DEF Handle

-----------------------------------------------------------------------------
(* Recovery and crash *)

\* The recovery takes up only actions with a row or a request.
LEMMA RecoverHand ==
  PermissionInv => /\ "recover" \in HandlerIds /\ "recover" # "direct"
                   /\ hand["recover"] \in Hands /\ Sound(hand["recover"])
                   /\ \A a \in Actions : a # "recover"
BY PermissionAssumption DEF HandlerIds, PermissionInv, PermissionTypes, HandsSound

LEMMA RecoverRequestsKeeps == ASSUME PermissionInv, RecoverRequests PROVE PermissionInv'
<1> DEFINE waiting == {a \in Actions : Waits(a)}
           r == [hand["recover"] EXCEPT !.at = "settle", !.rest = waiting]
<1>1. /\ Moves("recover", r) /\ hand["recover"].at = "requests"
      /\ UNCHANGED <<authorityVars, late, action, turn, calls, changes, deaths>>
  BY RecoverHand DEF RecoverRequests, Moves, HandAt
<1>2. Plain /\ Administered'
  BY <1>1, AuthorityStays DEF Plain, PermissionInv, PermissionTypes
<1>3. MoveFits("recover", r)
  <2>1. /\ r.at = "settle" /\ r.rest = waiting /\ r.todo = hand["recover"].todo
        /\ r.back = hand["recover"].back /\ r.home = hand["recover"].home
    BY RecoverHand DEF Hands
  <2>2. r \in Hands
    BY RecoverHand DEF Hands, Places
  <2>3. \A a \in waiting : ~Ahead(a)
    BY DEF PermissionInv, AheadUnheard, Unheard, Waits
  <2> HIDE DEF r, waiting
  <2>4. Sound(r) /\ \A a \in Actions : Ahead(a) => Avoids("recover", r, a)
    BY RecoverHand, <2>1, <2>3 DEF Sound, Working, Avoids, PermissionInv, AheadAvoided
  <2> QED
    BY RecoverHand, <2>2, <2>4 DEF MoveFits
<1>4. /\ request' \in [Actions -> Requests]
      /\ \A b \in Actions : request[b] = "none" => request'[b] = "none"
  BY DEF RecoverRequests, PermissionInv, PermissionTypes, Requests, Lapsed
<1>5. /\ action' \in [Actions -> Rows] /\ calls' \in [Actions -> 0 .. 2] /\ CountedByRow'
  BY <1>1 DEF PermissionInv, PermissionTypes, CountedByRow
<1> HIDE DEF r
<1>6. StillUnheard
  BY <1>1, <1>2, <1>3, <1>4, HandMoves DEF StillUnheard, PermissionInv, AheadUnheard, Unheard
<1> QED
  BY <1>1, <1>2, <1>3, <1>4, <1>5, <1>6, Stepped

LEMMA SettleKeeps == ASSUME PermissionInv, NEW a \in Actions, Settle(a) PROVE PermissionInv'
<1> DEFINE q == hand["recover"]
<1>1. /\ q.at = "settle" /\ a \in q.rest /\ request' = LooksUp(a)
      /\ UNCHANGED <<authorityVars, late, turn, calls, changes, deaths>>
  BY DEF Settle, HandAt
<1>2. Plain /\ Administered'
  BY <1>1, AuthorityStays DEF Plain, PermissionInv, PermissionTypes
<1>3. ~Ahead(a)
  BY <1>1, RecoverHand DEF PermissionInv, AheadAvoided, Avoids
<1>4. \E r : Moves("recover", r) /\ MoveFits("recover", r)
  <2>1. ASSUME NEW r \in {[q EXCEPT !.at = "continue", !.home = "settle", !.rest = @ \ {a}],
                          [q EXCEPT !.rest = @ \ {a}]}
        PROVE  MoveFits("recover", r)
    <3>1. /\ r.at \in {"settle", "continue"} /\ r.rest = q.rest \ {a} /\ r.todo = q.todo
          /\ r.back = q.back /\ r.home \in {q.home, "settle"}
      BY <1>1, RecoverHand DEF Hands
    <3>2. r \in Hands
      BY ZenonT(40), RecoverHand DEF Hands, Places
    <3>3. Sound(r) /\ \A b \in Actions : Ahead(b) => Avoids("recover", r, b)
      BY RecoverHand, <3>1 DEF Sound, Working, Avoids, PermissionInv, AheadAvoided
    <3> QED
      BY RecoverHand, <3>2, <3>3 DEF MoveFits
  <2>2. CASE Settles(a)
    <3>1. Moves("recover", [q EXCEPT !.at = "continue", !.home = "settle", !.rest = @ \ {a}])
      BY <2>2, RecoverHand DEF Settle, Moves
    <3> QED
      BY <2>1, <3>1
  <2>3. CASE ~Settles(a)
    BY <2>1, <2>3, RecoverHand DEF Settle, Moves
  <2> QED
    BY <2>2, <2>3
<1>5. PICK r : Moves("recover", r) /\ MoveFits("recover", r)
  BY <1>4
<1>6. /\ request' \in [Actions -> Requests]
      /\ \A b \in Actions : request[b] = "none" => request'[b] = "none"
  BY <1>1, LookUpType
<1>7. CASE Settles(a)
  <2>1. PICK status \in {"outcome-unknown", "rejected"} : Set(a, status, "settled")
    BY <1>7 DEF Settle
  <2>2. ~Ahead(a)' /\ status \in RowStatuses /\ "settled" \in Execs
    BY <1>2, <1>3, <1>5, StaysPast DEF RowStatuses, Results, Execs
  <2> QED
    BY <1>1, <1>2, <1>5, <1>6, <2>1, <2>2, HandAndRow
<1>8. CASE ~Settles(a)
  <2>1. action' = action
    BY <1>8 DEF Settle
  <2>2. action' \in [Actions -> Rows] /\ calls' \in [Actions -> 0 .. 2] /\ CountedByRow'
    BY <1>1, <2>1 DEF PermissionInv, PermissionTypes, CountedByRow
  <2>3. StillUnheard
    BY <1>1, <1>2, <1>5, <1>6, <2>1, HandMoves
    DEF StillUnheard, PermissionInv, AheadUnheard, Unheard
  <2> QED
    BY <1>2, <1>5, <1>6, <2>2, <2>3, Stepped
<1> QED
  BY <1>7, <1>8

LEMMA ArmRecoveredKeeps == ASSUME PermissionInv, ArmRecovered PROVE PermissionInv'
<1> DEFINE armed == {a \in Actions : action'[a].exec = "approved-ready"}
           r == [hand["recover"] EXCEPT !.at = "recovering", !.todo = armed]
           taken(a) == Waits(a) /\ action[a].exec \in {"none", "approved-ready"} /\ Verdict(a) = "granted"
           ready == [status |-> "waiting-for-integration", exec |-> "approved-ready"]
<1>1. /\ Moves("recover", r) /\ hand["recover"].at = "settle"
      /\ UNCHANGED <<authorityVars, request, late, turn, calls, changes, deaths>>
      /\ action' = [a \in Actions |-> IF taken(a) THEN ready ELSE action[a]]
  BY RecoverHand DEF ArmRecovered, Moves, HandAt
<1>2. Plain /\ Administered'
  BY <1>1, AuthorityStays DEF Plain, PermissionInv, PermissionTypes
<1>3. ready \in Rows
  BY DEF Rows, RowStatuses, Execs
<1>4. action' \in [Actions -> Rows] /\ CountedByRow'
  BY <1>1, <1>3 DEF PermissionInv, PermissionTypes, CountedByRow
<1>5. \A a \in Actions : Ahead(a) => action'[a] = action[a] /\ a \notin armed
  BY <1>1 DEF PermissionInv, AheadUnheard, Unheard, Waits
<1>6. MoveFits("recover", r)
  <2>1. /\ r.at = "recovering" /\ r.todo = armed /\ r.rest = hand["recover"].rest
        /\ r.back = hand["recover"].back /\ r.home = hand["recover"].home
    BY RecoverHand DEF Hands
  <2>2. r \in Hands
    BY RecoverHand DEF Hands, Places
  <2> HIDE DEF r, armed
  <2>3. Sound(r) /\ \A a \in Actions : Ahead(a) => Avoids("recover", r, a)
    BY RecoverHand, <1>5, <2>1 DEF Sound, Working, Avoids, PermissionInv, AheadAvoided
  <2> QED
    BY RecoverHand, <2>2, <2>3 DEF MoveFits
<1>7. request' \in [Actions -> Requests] /\ calls' \in [Actions -> 0 .. 2]
  BY <1>1 DEF PermissionInv, PermissionTypes
<1> HIDE DEF r, armed
<1>8. StillUnheard
  BY <1>1, <1>2, <1>5, <1>6, HandMoves DEF StillUnheard
<1> QED
  BY <1>1, <1>2, <1>4, <1>6, <1>7, <1>8, Stepped

LEMMA RecoverEndKeeps ==
  ASSUME PermissionInv, Recovered \/ \E a \in Actions : NextRecovered(a) PROVE PermissionInv'
<1>1. /\ hand["recover"].at = "recovering"
      /\ UNCHANGED <<authorityVars, request, late, action, turn, calls, changes, deaths>>
  BY DEF Recovered, NextRecovered, HandAt
<1>2. Plain
  BY <1>1 DEF Plain, PermissionInv, PermissionTypes
<1>3. CASE Recovered
  <2> DEFINE r == [hand["recover"] EXCEPT !.at = "continue", !.home = "idle"]
  <2>1. Moves("recover", r)
    BY <1>3, RecoverHand DEF Recovered, Moves
  <2>2. /\ r.at = "continue" /\ r.todo = hand["recover"].todo /\ r.rest = hand["recover"].rest
        /\ r.back = hand["recover"].back /\ r.home = "idle"
    BY RecoverHand DEF Hands
  <2>3. r \in Hands
    BY ZenonT(40), RecoverHand DEF Hands, Places
  <2>4. MoveFits("recover", r)
    <3> HIDE DEF r
    <3>1. Sound(r) /\ \A a \in Actions : Ahead(a) => Avoids("recover", r, a)
      BY RecoverHand, <2>2 DEF Sound, Working, Avoids, PermissionInv, AheadAvoided
    <3> QED
      BY RecoverHand, <2>3, <3>1 DEF MoveFits
  <2> HIDE DEF r
  <2> QED
    BY <1>1, <1>2, <2>1, <2>4, OnlyHand
<1>4. CASE \E a \in Actions : NextRecovered(a)
  BY <1>1, <1>2, <1>4, RecoverHand, Takes, OnlyHand DEF NextRecovered
<1> QED
  BY <1>3, <1>4

\* A restart leaves the handlers nothing, and an interrupted attempt unknown.
LEMMA KillKeeps == ASSUME PermissionInv, KillServer PROVE PermissionInv'
<1> DEFINE begin == [IdleHand EXCEPT !.at = "requests"]
<1>1. /\ UNCHANGED <<request, late, calls, changes>>
      /\ action' = [a \in Actions |-> IF CutOff(a) THEN Unknown ELSE action[a]]
      /\ hand' = [h \in HandlerIds |-> IF h = "recover" THEN begin ELSE IdleHand]
      /\ deaths' = deaths + 1 /\ deaths < MaxDeaths
      /\ turn' = IF turn = "running" THEN "over" ELSE turn
  BY DEF KillServer
<1>2. Plain /\ Administered'
  BY <1>1, BackfillKeeps, PermissionAssumption DEF KillServer, Plain, PermissionInv, PermissionTypes
<1>3. /\ begin \in Hands /\ IdleHand \in Hands
      /\ begin.at = "requests" /\ begin.todo = {} /\ begin.rest = {} /\ begin.back = "idle" /\ begin.home = "idle"
      /\ IdleHand.at = "idle" /\ IdleHand.todo = {} /\ IdleHand.rest = {} /\ IdleHand.back = "idle" /\ IdleHand.home = "idle"
  BY DEF IdleHand, Hands, Places
<1>4. /\ Unknown \in Rows /\ Unknown.exec = "settled"
  BY DEF Unknown, Rows, RowStatuses, Results, Execs
<1>5. /\ "direct" \in HandlerIds /\ \A a \in Actions : a # "recover"
  BY PermissionAssumption DEF HandlerIds
<1> HIDE DEF begin
<1>6. PermissionTypes'
  BY <1>1, <1>2, <1>3, <1>4 DEF PermissionInv, PermissionTypes, Administered, Plain
<1>7. HandsSound'
  BY <1>1, <1>3, <1>5 DEF HandsSound, Sound, DirectHand, Working
<1>8. AheadAvoided'
  BY <1>1, <1>3, <1>5 DEF AheadAvoided, Avoids, Working
<1>9. \A a \in Actions : Ahead(a)' => turn = "none"
  BY <1>1, <1>3, <1>5 DEF Ahead
<1>10. AheadUnheard'
  BY <1>1, <1>9 DEF PermissionInv, AheadUnheard, Ahead, Unheard, CutOff
<1>11. CountedByRow'
  BY <1>1, <1>4 DEF PermissionInv, CountedByRow, CutOff
<1> QED
  BY <1>2, <1>6, <1>7, <1>8, <1>10, <1>11 DEF PermissionInv

-----------------------------------------------------------------------------
(* The owner and the clock *)

LEMMA WorldMoves ==
  ASSUME PermissionInv, (\E a \in Actions : Lapse(a)) \/ List \/ ChangeAuthority
  PROVE  PermissionInv'
<1>1. UNCHANGED <<action, turn, hand, calls, deaths>>
  BY DEF Lapse, List, ChangeAuthority
<1>2. Administered'
  <2>1. CASE ChangeAuthority
    <3>1. PICK c \in Chars : \/ Recruit(c) \/ Archive(c) \/ Revive(c)
                             \/ \E role \in Roles, grants \in Offers : Assign(c, role, grants)
      BY <2>1 DEF ChangeAuthority
    <3>2. ASSUME NEW role \in Roles, NEW grants \in Offers, Assign(c, role, grants)
          PROVE  Administered'
      BY <3>2, CommitKeeps, PermissionAssumption DEF Assign, PermissionInv
    <3> QED
      BY <3>1, <3>2, RecruitKeeps, ArchiveKeeps, ReviveKeeps DEF PermissionInv
  <2>2. CASE ~ChangeAuthority
    BY <2>2, AuthorityStays DEF Lapse, List, PermissionInv
  <2> QED
    BY <2>1, <2>2
<1>3. /\ request' \in [Actions -> Requests]
      /\ \A b \in Actions : request[b] = "none" => request'[b] = "none"
  BY LookUpType DEF Lapse, List, ChangeAuthority, PermissionInv, PermissionTypes
<1>4. late' \subseteq Actions /\ changes' \in 0 .. MaxDecisions
  BY PermissionAssumption DEF Lapse, List, ChangeAuthority, PermissionInv, PermissionTypes
<1>5. "direct" \in HandlerIds
  BY DEF HandlerIds
<1>6. Plain /\ Moves("direct", hand["direct"]) /\ MoveFits("direct", hand["direct"])
  BY <1>1, <1>4, <1>5, StandsStill DEF Plain, PermissionInv, PermissionTypes
<1>7. action' \in [Actions -> Rows] /\ calls' \in [Actions -> 0 .. 2] /\ CountedByRow'
  BY <1>1 DEF PermissionInv, PermissionTypes, CountedByRow
<1>8. StillUnheard
  BY <1>1, <1>3, <1>6, HandMoves DEF StillUnheard, PermissionInv, AheadUnheard, Unheard
<1> QED
  BY <1>2, <1>3, <1>6, <1>7, <1>8, Stepped

-----------------------------------------------------------------------------
LEMMA InitPermission == PermissionInit => PermissionInv
<1> SUFFICES ASSUME PermissionInit PROVE PermissionInv
  OBVIOUS
<1>1. Administered
  BY FirstFits, NewRowTypes, AuthorityAssumption, PermissionAssumption
  DEF PermissionInit, Administered, AuthorityTypes, Administers, NewAdmin
<1>2. IdleHand \in Hands /\ "direct" \in HandlerIds
  BY DEF IdleHand, Hands, Places, HandlerIds
<1>3. PermissionTypes
  BY <1>1, <1>2, PermissionAssumption
  DEF PermissionInit, PermissionTypes, Administered, Requests, Rows, RowStatuses, Execs
<1>4. HandsSound /\ AheadAvoided
  BY <1>2 DEF PermissionInit, HandsSound, Sound, DirectHand, AheadAvoided, Avoids, IdleHand, Working
<1>5. AheadUnheard /\ CountedByRow
  BY DEF PermissionInit, AheadUnheard, Unheard, CountedByRow
<1> QED
  BY <1>1, <1>3, <1>4, <1>5 DEF PermissionInv

LEMMA PermissionSteps == PermissionInv /\ [PermissionNext]_permitVars => PermissionInv'
<1> SUFFICES ASSUME PermissionInv, [PermissionNext]_permitVars PROVE PermissionInv'
  OBVIOUS
<1>1. CASE BeginTurn \/ (\E a \in Actions : Reserve(a)) \/ Prepared
  BY <1>1, BeginKeeps, ReserveKeeps, PreparedKeeps
<1>2. CASE \E h \in HandlerIds : Handle(h)
  BY <1>2, HandleKeeps
<1>3. CASE \E a \in Actions : DecideLate(a) \/ Reject(a) \/ AllowOnce(a) \/ Grant(a)
  BY <1>3, OwnerDecides, GrantKeeps
<1>4. CASE \E a \in Actions : SettleGrant(a) \/ SaveRefusal(a) \/ SaveAllowed(a) \/ ArmAllowed(a)
  BY <1>4, SettleGrantKeeps, SaveDecisionKeeps, ArmAllowedKeeps
<1>5. CASE Recovery
  BY <1>5, RecoverRequestsKeeps, SettleKeeps, ArmRecoveredKeeps, RecoverEndKeeps DEF Recovery
<1>6. CASE (\E a \in Actions : Lapse(a)) \/ List \/ ChangeAuthority \/ KillServer
  BY <1>6, WorldMoves, KillKeeps
<1>7. CASE UNCHANGED permitVars
  <2>1. UNCHANGED permissionVars /\ UNCHANGED authorityVars
    BY <1>7 DEF permitVars
  <2>2. "direct" \in HandlerIds
    BY DEF HandlerIds
  <2>3. Plain /\ Moves("direct", hand["direct"]) /\ MoveFits("direct", hand["direct"])
    BY <2>1, <2>2, StandsStill DEF permissionVars, Plain, PermissionInv, PermissionTypes
  <2> QED
    BY <2>1, <2>3, OnlyHand DEF permissionVars
<1> QED
  BY <1>1, <1>2, <1>3, <1>4, <1>5, <1>6, <1>7 DEF PermissionNext

LEMMA PermissionHolds == PermissionSpec => []PermissionInv
BY InitPermission, PermissionSteps, PTL DEF PermissionSpec

\* Every variable keeps its type: a row names a role and permissions it may hold,
\* and no count is passed.
THEOREM PermissionTyped == PermissionSpec => []PermissionTypes
<1>1. PermissionInv => PermissionTypes
  BY DEF PermissionInv
<1> QED
  BY <1>1, PermissionHolds, PTL

\* The world keeps an active administrator, and its pointer names one, whoever is
\* recruited, promoted, demoted, archived or revived, by the owner or by an action
\* of a character (updateAuthority, archiveEmployee).
THEOREM WorldIsAdministered == PermissionSpec => []AdminRemains
<1>1. PermissionInv => AdminRemains
  BY DEF PermissionInv, Administered, AdminRemains
<1> QED
  BY <1>1, PermissionHolds, PTL

\* An action that manages the world is carried out at most once, whatever
\* handlers, decisions, crashes and recoveries meet (claimSkillActionExecution).
THEOREM CarriedOutOnce == PermissionSpec => []AtMostOnce
<1>1. PermissionInv => AtMostOnce
  BY DEF PermissionInv, CountedByRow, AtMostOnce
<1> QED
  BY <1>1, PermissionHolds, PTL

\* A request is settled as granted for good at a moment when the row holds the
\* grant (settlePersistentGrant, recoverPending).
THEOREM SettledWhenHeld == PermissionSpec => GrantedMeansHeld
<1> DEFINE Right == \A a \in Actions :
      request'[a] = "persistent" /\ request[a] # "persistent" => Holds(Actor, Needs[a])'
<1>1. ASSUME PermissionInv, [PermissionNext]_permitVars, NEW a \in Actions,
             request'[a] = "persistent", request[a] # "persistent"
      PROVE  Holds(Actor, Needs[a])'
  <2>1. request \in [Actions -> Requests]
    BY <1>1 DEF PermissionInv, PermissionTypes
  <2>2. \A S : Expired(S)[a] \in {"expired", request[a]}
    BY DEF Expired
  <2>3. \A b : LooksUp(b)[a] \in {"expired", request[a]}
    BY <2>2 DEF LooksUp
  <2>4. CASE \E b \in Actions : SettleGrant(b)
    BY <1>1, <2>1, <2>4 DEF SettleGrant, Kept, Holds, authorityVars
  <2>5. CASE RecoverRequests
    BY <1>1, <2>5 DEF RecoverRequests, Holds, authorityVars
  <2>6. CASE \E h \in HandlerIds : Execute(h)
    BY ZenonT(40), <1>1, <2>1, <2>3, <2>6
    DEF Execute, Refuse, Ask, Wait, Arm, Claim, Called, Promote, Consume, SaveResult
  <2>7. CASE \E h \in HandlerIds : Continue(h) \/ ResumeTurn(h) \/ Answer(h) \/ \E b \in Actions : NextReady(h, b)
    BY <1>1, <2>2, <2>7 DEF Continue, ResumeTurn, Answer, NextReady
  <2>8. CASE \E b \in Actions : \/ DecideLate(b) \/ Reject(b) \/ AllowOnce(b) \/ Grant(b)
                                \/ SaveRefusal(b) \/ SaveAllowed(b) \/ ArmAllowed(b) \/ Lapse(b)
    BY <1>1, <2>1, <2>8
    DEF DecideLate, Reject, AllowOnce, Grant, SaveRefusal, SaveAllowed, ArmAllowed, Lapse
  <2>9. CASE BeginTurn \/ Prepared \/ (\E b \in Actions : Reserve(b)) \/ List \/ ChangeAuthority \/ KillServer
    BY <1>1, <2>2, <2>9 DEF BeginTurn, Prepared, Reserve, List, ChangeAuthority, KillServer
  <2>10. CASE ArmRecovered \/ Recovered \/ \E b \in Actions : Settle(b) \/ NextRecovered(b)
    BY <1>1, <2>3, <2>10 DEF ArmRecovered, Recovered, Settle, NextRecovered
  <2>11. CASE UNCHANGED permitVars
    BY <1>1, <2>11 DEF permitVars, permissionVars
  <2> QED
    BY <1>1, <2>4, <2>5, <2>6, <2>7, <2>8, <2>9, <2>10, <2>11 DEF PermissionNext, Handle, Recovery
<1>2. PermissionInv /\ [PermissionNext]_permitVars => [Right]_permitVars
  BY <1>1
<1> QED
  BY <1>2, PermissionHolds, PTL DEF PermissionSpec, GrantedMeansHeld

-----------------------------------------------------------------------------
(* What holds of the turns of conversations, whatever overlapped *)

Busy   == {"root", "queue", "worker", "spoken"}
Served == {"queue", "worker", "spoken"}
WithWorker == {"worker", "spoken"}

\* Every variable is of its kind, what was recovered and what was heard is in the
\* transcript, and a turn knows the run it is at.
TalkRows ==
  /\ talk \in [Talks -> TalkStatuses]
  /\ asked \in [Talks -> Seq(RunStatuses)]
  /\ place \in [Talks -> PlacesOfTalk]
  /\ log \in [Rooms -> Seq(Message)]
  /\ recovered \in [Talks -> SUBSET Nat]
  /\ heard \in [Adapters -> [Speakers -> [Rooms -> SUBSET (Nat \cup {Nothing})]]]
  /\ worker \in Workers
  /\ inLine \in [Adapters -> [Speakers -> Seq(Talks)]]
  /\ via \in [Talks -> Adapters \cup {Nothing}]
  /\ retried \subseteq Talks
  /\ mood \in [Speakers -> {"available", "working", "blocked"}]
  /\ model \in Adapters
  /\ crossed \subseteq Rooms
  /\ restarted \in BOOLEAN
  /\ troubles \in 0 .. MaxTroubles

TurnsKept ==
  \A t \in Talks :
    /\ Len(asked[t]) <= Len(CastOf[t])
    /\ talk[t] = "none" <=> place[t] = "none"
    /\ UnderWay(t) <=> place[t] \in Busy
    /\ UnderWay(t) => 1 <= Len(asked[t])
    /\ place[t] \in Served => via[t] \in Adapters

LogWithin ==
  /\ \A t \in Talks : recovered[t] \subseteq DOMAIN log[RoomOf[t]]
  /\ \A r \in Adapters, c \in Speakers, s \in Rooms :
       heard[r][c][s] = Silent \/ heard[r][c][s] \subseteq DOMAIN log[s]
  /\ \A t \in Talks : place[t] \in WithWorker =>
       heard[via[t]][Speaker(t)][RoomOf[t]] \subseteq DOMAIN log[RoomOf[t]]

\* A character of an adapter serves the turns that are queued for it, one at a
\* time, the first one.
QueuesKept ==
  /\ \A r \in Adapters, c \in Speakers :
       /\ \A i, j \in DOMAIN inLine[r][c] : inLine[r][c][i] = inLine[r][c][j] => i = j
       /\ \A i \in DOMAIN inLine[r][c] :
            LET t == inLine[r][c][i] IN
            /\ place[t] \in Served /\ via[t] = r /\ Speaker(t) = c
            /\ place[t] \in WithWorker => i = 1
  /\ \A t \in Talks : place[t] \in Served =>
       \E i \in DOMAIN inLine[via[t]][Speaker(t)] : inLine[via[t]][Speaker(t)][i] = t

\* A message is of a run its turn has come to, and one of a turn under way stands.
MessagesKept ==
  \A s \in Rooms : \A i \in DOMAIN log[s] :
    LET m == log[s][i] IN
    /\ RoomOf[m.talk] = s /\ talk[m.talk] # "none"
    /\ m.run <= Turn(m.talk)
    /\ m.run = Turn(m.talk) /\ UnderWay(m.talk) => place[m.talk] = "spoken"
    /\ m.failed => ~UnderWay(m.talk)

HasAnswer(t, n) ==
  \E i \in DOMAIN Words(t) :
    /\ Words(t)[i].talk = t /\ Words(t)[i].run = n
    /\ Words(t)[i].by = CastOf[t][n] /\ ~Words(t)[i].failed

Answered(t, n) ==
  asked[t][n] = "empty" \/ (asked[t][n] = "completed" /\ HasAnswer(t, n))

\* The runs before the one under way have ended well, with or without an answer.
AnswersKept ==
  \A t \in Talks :
    /\ \A n \in 1 .. Turn(t) :
         (UnderWay(t) /\ n < Turn(t)) \/ talk[t] = "completed" => Answered(t, n)
    /\ place[t] = "spoken" => HasAnswer(t, Turn(t))
    /\ talk[t] = "completed" => Turn(t) = Len(CastOf[t])

-----------------------------------------------------------------------------
(* What holds of a room where turns did not overlap *)

Others(t)  == {i \in DOMAIN Words(t) : Said(Words(t)[i]) /\ Words(t)[i].talk # t}
History(t) == IF t \in Peers THEN {} ELSE Newest(Others(t))

\* Its turn is alone, recovered what the others said, and only it goes on speaking.
RoomsKept ==
  \A t \in Talks : UnderWay(t) /\ RoomOf[t] \notin crossed =>
    /\ \A u \in Talks : UnderWay(u) /\ RoomOf[u] = RoomOf[t] => u = t
    /\ recovered[t] = History(t)
    /\ \A i, j \in DOMAIN Words(t) : Words(t)[i].talk = t /\ Words(t)[j].talk # t => j < i

\* Who is asked has heard it all, but for what it says next.
HearsKept ==
  \A t \in Talks : place[t] \in WithWorker /\ RoomOf[t] \notin crossed =>
    /\ recovered[t] \subseteq heard[via[t]][Speaker(t)][RoomOf[t]]
    /\ \A i \in DOMAIN Words(t) :
         Words(t)[i].talk = t => i \in heard[via[t]][Speaker(t)][RoomOf[t]]

\* S is what the session of c in room s has heard: the same as its character up to
\* the last thing that one said and a turn may recover.
KnowsOwn(S, c, t) ==
  \A i, j \in recovered[t] : i <= j /\ Words(t)[j].by = c => i \in S

KnowsTurn(S, c, t) ==
  \A j \in DOMAIN Words(t) : Words(t)[j].talk = t /\ Words(t)[j].by = c =>
    /\ recovered[t] \subseteq S
    /\ \A i \in DOMAIN Words(t) : Words(t)[i].talk = t /\ i <= j => i \in S

SaidIn(s) == {i \in DOMAIN log[s] : Said(log[s][i])}
AtEase(s) == \A t \in Talks : RoomOf[t] = s => ~UnderWay(t) /\ t \notin Peers

KnowsRoom(S, c, s) ==
  AtEase(s) => \A i, j \in Newest(SaidIn(s)) : i <= j /\ log[s][j].by = c => i \in S

OneSession ==
  \A r, q \in Adapters, c \in Speakers, s \in Rooms \ crossed :
    heard[r][c][s] # Silent /\ heard[q][c][s] # Silent => q = r

SessionsKept ==
  \A r \in Adapters, c \in Speakers, s \in Rooms \ crossed : heard[r][c][s] # Silent =>
    /\ \A t \in Talks : UnderWay(t) /\ RoomOf[t] = s =>
         KnowsOwn(heard[r][c][s], c, t) /\ KnowsTurn(heard[r][c][s], c, t)
    /\ KnowsRoom(heard[r][c][s], c, s)

TalkInv ==
  /\ TalkRows /\ TurnsKept /\ LogWithin /\ QueuesKept /\ MessagesKept /\ AnswersKept
  /\ RoomsKept /\ HearsKept /\ OneSession /\ SessionsKept /\ WorkingHasRun
-----------------------------------------------------------------------------
(* Sequences *)

LEMMA SeqShape ==
  ASSUME NEW S, NEW q \in Seq(S)
  PROVE  /\ Len(q) \in Nat /\ DOMAIN q = 1 .. Len(q)
         /\ \A i \in DOMAIN q : q[i] \in S
  OBVIOUS

LEMMA AppendShape ==
  ASSUME NEW S, NEW q \in Seq(S), NEW e \in S
  PROVE  /\ Append(q, e) \in Seq(S) /\ Len(Append(q, e)) = Len(q) + 1
         /\ DOMAIN Append(q, e) = 1 .. Len(q) + 1
         /\ DOMAIN q \subseteq DOMAIN Append(q, e)
         /\ \A i \in DOMAIN q : Append(q, e)[i] = q[i]
         /\ Append(q, e)[Len(q) + 1] = e
         /\ \A i \in DOMAIN Append(q, e) : i \in DOMAIN q \/ (i = Len(q) + 1 /\ i \notin DOMAIN q)
  OBVIOUS

LEMMA TailShape ==
  ASSUME NEW S, NEW q \in Seq(S), q # <<>>
  PROVE  /\ Tail(q) \in Seq(S) /\ Len(q) \in Nat \ {0} /\ Len(Tail(q)) = Len(q) - 1
         /\ \A i \in DOMAIN Tail(q) : i + 1 \in DOMAIN q /\ Tail(q)[i] = q[i + 1]
         /\ \A i \in DOMAIN q : i # 1 => i - 1 \in DOMAIN Tail(q) /\ Tail(q)[i - 1] = q[i]
         /\ Head(q) = q[1] /\ 1 \in DOMAIN q
  OBVIOUS

LEMMA MapShape ==
  ASSUME NEW S, NEW n \in Nat, NEW f \in [1 .. n -> S]
  PROVE  f \in Seq(S) /\ Len(f) = n /\ DOMAIN f = 1 .. n
  OBVIOUS

-----------------------------------------------------------------------------
(* The transcript *)

USE DEF Said

LEMMA CastTyped ==
  ASSUME NEW t \in Talks
  PROVE  /\ RoomOf[t] \in Rooms /\ CastOf[t] \in Seq(Speakers) /\ Len(CastOf[t]) \in Nat
         /\ 1 <= Len(CastOf[t]) /\ \A n \in 1 .. Len(CastOf[t]) : CastOf[t][n] \in Speakers
<1>1. RoomOf[t] \in Rooms /\ CastOf[t] \in Seq(Speakers) /\ CastOf[t] # <<>>
  BY ConversationAssumption DEF ConversationAssumption
<1> HIDE DEF ConversationAssumption
<1> QED
  BY <1>1

\* The run under way has a character.
LEMMA TurnTyped ==
  ASSUME TalkRows, TurnsKept, NEW t \in Talks
  PROVE  /\ Turn(t) \in Nat /\ Turn(t) <= Len(CastOf[t]) /\ asked[t] \in Seq(RunStatuses)
         /\ DOMAIN asked[t] = 1 .. Turn(t)
         /\ UnderWay(t) => Turn(t) >= 1 /\ Speaker(t) \in Speakers
<1>1. asked[t] \in Seq(RunStatuses) /\ Len(asked[t]) <= Len(CastOf[t])
  BY DEF TalkRows, TurnsKept
<1>2. UnderWay(t) => 1 <= Len(asked[t])
  BY DEF TurnsKept
<1>3. Len(asked[t]) \in Nat /\ DOMAIN asked[t] = 1 .. Len(asked[t])
  BY <1>1, SeqShape
<1> QED
  BY <1>1, <1>2, <1>3, CastTyped DEF Turn, Speaker

LEMMA LogTyped ==
  ASSUME TalkRows, NEW s \in Rooms
  PROVE  /\ log[s] \in Seq(Message) /\ Len(log[s]) \in Nat /\ DOMAIN log[s] = 1 .. Len(log[s])
         /\ \A i \in DOMAIN log[s] :
              /\ log[s][i] \in Message /\ log[s][i].talk \in Talks /\ log[s][i].run \in Nat
              /\ log[s][i].failed \in BOOLEAN /\ log[s][i].by \in Speakers \cup {Owner}
<1>1. log[s] \in Seq(Message)
  BY DEF TalkRows
<1>2. \A m \in Message : m.talk \in Talks /\ m.run \in Nat /\ m.failed \in BOOLEAN
                         /\ m.by \in Speakers \cup {Owner}
  BY DEF Message
<1> QED
  BY <1>1, <1>2, SeqShape

\* What is said is the last of its room.
SaysIn(t, c, n) ==
  /\ log' \in [Rooms -> Seq(Message)]
  /\ \A s \in Rooms : s # RoomOf[t] => log'[s] = log[s]
  /\ Len(log'[RoomOf[t]]) = Len(log[RoomOf[t]]) + 1
  /\ \A s \in Rooms : DOMAIN log[s] \subseteq DOMAIN log'[s]
  /\ \A s \in Rooms : \A i \in DOMAIN log[s] : log'[s][i] = log[s][i]
  /\ LET k == Len(log[RoomOf[t]]) + 1
         m == log'[RoomOf[t]][k] IN
     /\ k \in DOMAIN log'[RoomOf[t]] /\ k \notin DOMAIN log[RoomOf[t]]
     /\ \A i \in DOMAIN log'[RoomOf[t]] : i \in DOMAIN log[RoomOf[t]] \/ i = k
     /\ \A i \in DOMAIN log[RoomOf[t]] : i \in Nat /\ i < k
     /\ m.talk = t /\ m.by = c /\ m.run = n /\ m.failed = FALSE

LEMMA SayingAdds ==
  ASSUME TalkRows, NEW t \in Talks, NEW c \in Speakers \cup {Owner}, NEW n \in Nat,
         log' = Says(t, c, n)
  PROVE  SaysIn(t, c, n)
<1> DEFINE m == [talk |-> t, by |-> c, run |-> n, failed |-> FALSE]
<1> DEFINE s == RoomOf[t]
<1>1. m \in Message
  BY DEF Message
<1>2. s \in Rooms
  BY CastTyped
<1>3. log[s] \in Seq(Message) /\ Len(log[s]) \in Nat /\ DOMAIN log[s] = 1 .. Len(log[s])
  BY <1>2, LogTyped
<1>4. log' = [log EXCEPT ![s] = Append(log[s], m)]
  BY DEF Says
<1>5. log \in [Rooms -> Seq(Message)]
  BY DEF TalkRows
<1>6. m.talk = t /\ m.by = c /\ m.run = n /\ m.failed = FALSE
  OBVIOUS
<1> HIDE DEF m
<1>7. log'[s] = Append(log[s], m) /\ \A x \in Rooms : x # s => log'[x] = log[x]
  BY <1>2, <1>4, <1>5
<1>8. Append(log[s], m) \in Seq(Message)
  BY <1>1, <1>3, AppendShape
<1>9. log' \in [Rooms -> Seq(Message)]
  BY <1>4, <1>5, <1>8
<1>10. /\ Len(log'[s]) = Len(log[s]) + 1
       /\ DOMAIN log[s] \subseteq DOMAIN log'[s]
       /\ \A i \in DOMAIN log[s] : log'[s][i] = log[s][i]
       /\ log'[s][Len(log[s]) + 1] = m
       /\ DOMAIN log'[s] = 1 .. Len(log[s]) + 1
  BY <1>1, <1>3, <1>7, AppendShape
<1>11. /\ Len(log[s]) + 1 \in DOMAIN log'[s] /\ Len(log[s]) + 1 \notin DOMAIN log[s]
       /\ \A i \in DOMAIN log'[s] : i \in DOMAIN log[s] \/ i = Len(log[s]) + 1
       /\ \A i \in DOMAIN log[s] : i \in Nat /\ i < Len(log[s]) + 1
  BY <1>3, <1>10
<1> QED
  BY <1>2, <1>6, <1>7, <1>9, <1>10, <1>11 DEF SaysIn

\* The messages of the runs under way of the turns of T are marked.
MarksOf(T) ==
  /\ log' \in [Rooms -> Seq(Message)]
  /\ \A s \in Rooms : DOMAIN log'[s] = DOMAIN log[s]
  /\ \A s \in Rooms : \A i \in DOMAIN log[s] :
       LET m == log[s][i] IN
       /\ log'[s][i].talk = m.talk /\ log'[s][i].by = m.by /\ log'[s][i].run = m.run
       /\ m.talk \in T /\ m.run = Turn(m.talk) => log'[s][i].failed
       /\ ~(m.talk \in T /\ m.run = Turn(m.talk)) => log'[s][i].failed = m.failed

LEMMA MarkingKeeps ==
  ASSUME TalkRows, NEW T, log' = Unfinished(T)
  PROVE  MarksOf(T)
<1> DEFINE Mark(m) == IF m.talk \in T /\ m.run = Turn(m.talk) THEN [m EXCEPT !.failed = TRUE] ELSE m
<1>1. \A m \in Message :
        /\ Mark(m) \in Message /\ Mark(m).talk = m.talk /\ Mark(m).by = m.by /\ Mark(m).run = m.run
        /\ m.talk \in T /\ m.run = Turn(m.talk) => Mark(m).failed
        /\ ~(m.talk \in T /\ m.run = Turn(m.talk)) => Mark(m).failed = m.failed
  <2> TAKE m \in Message
  <2>1. CASE m.talk \in T /\ m.run = Turn(m.talk)
    <3>1. Mark(m) = [m EXCEPT !.failed = TRUE]
      BY <2>1
    <3>2. Mark(m) \in Message /\ Mark(m).talk = m.talk /\ Mark(m).by = m.by /\ Mark(m).run = m.run
          /\ Mark(m).failed = TRUE
      BY <3>1 DEF Message
    <3> QED
      BY <2>1, <3>2
  <2>2. CASE ~(m.talk \in T /\ m.run = Turn(m.talk))
    <3>1. Mark(m) = m
      BY <2>2
    <3> QED
      BY <2>2, <3>1
  <2> QED
    BY <2>1, <2>2
<1>2. ASSUME NEW s \in Rooms
      PROVE  /\ log'[s] \in Seq(Message) /\ DOMAIN log'[s] = DOMAIN log[s]
             /\ \A i \in DOMAIN log[s] : log[s][i] \in Message /\ log'[s][i] = Mark(log[s][i])
  <2>1. log'[s] = [i \in DOMAIN log[s] |-> Mark(log[s][i])]
    BY DEF Unfinished
  <2>2. Len(log[s]) \in Nat /\ DOMAIN log[s] = 1 .. Len(log[s])
        /\ \A i \in DOMAIN log[s] : log[s][i] \in Message
    BY LogTyped
  <2> HIDE DEF Mark
  <2>3. log'[s] \in [1 .. Len(log[s]) -> Message]
    BY <1>1, <2>1, <2>2
  <2>4. log'[s] \in Seq(Message) /\ DOMAIN log'[s] = DOMAIN log[s]
    BY <2>2, <2>3, MapShape
  <2> QED
    BY <2>1, <2>2, <2>4
<1>3. DOMAIN log' = Rooms /\ log' = [s \in Rooms |-> log'[s]]
  BY DEF Unfinished
<1> HIDE DEF Mark
<1>4. log' \in [Rooms -> Seq(Message)]
  BY <1>2, <1>3
<1> QED
  BY <1>1, <1>2, <1>4 DEF MarksOf

LEMMA ExceptShape ==
  ASSUME NEW S, NEW q \in Seq(S), NEW i \in DOMAIN q, NEW e \in S
  PROVE  /\ [q EXCEPT ![i] = e] \in Seq(S) /\ Len([q EXCEPT ![i] = e]) = Len(q)
         /\ [q EXCEPT ![i] = e][i] = e
         /\ \A j \in DOMAIN q : j # i => [q EXCEPT ![i] = e][j] = q[j]
  OBVIOUS

-----------------------------------------------------------------------------
(* The end of a run: the next of the cast is asked, or the turn ends. *)

LeavesLine(t) ==
  /\ inLine' = Left(t)
  /\ retried' = retried \ {t}
  /\ via' = [via EXCEPT ![t] = Nothing]
  /\ UNCHANGED <<heard, worker, model, crossed, restarted>>

AsksNext(t) ==
  /\ Turn(t) < Len(CastOf[t])
  /\ place[t] \in {"worker", "spoken"}
  /\ talk' = talk /\ recovered' = recovered /\ log' = log
  /\ asked' = [asked EXCEPT ![t] = Append([asked[t] EXCEPT ![Turn(t)] = Outcome(t)], "running")]
  /\ place' = [place EXCEPT ![t] = "root"]
  /\ mood' = [[mood EXCEPT ![Speaker(t)] = "available"] EXCEPT ![CastOf[t][Turn(t) + 1]] = "working"]
  /\ troubles' \in 0 .. MaxTroubles
  /\ LeavesLine(t)

EndsAs(t, result, last, status) ==
  /\ talk' = [talk EXCEPT ![t] = result]
  /\ asked' = [asked EXCEPT ![t] = [asked[t] EXCEPT ![Turn(t)] = last]]
  /\ recovered' = [recovered EXCEPT ![t] = {}]
  /\ place' = [place EXCEPT ![t] = "over"]
  /\ mood' = [mood EXCEPT ![Speaker(t)] = status]
  /\ troubles' \in 0 .. MaxTroubles
  /\ LeavesLine(t)

EndsWell(t) ==
  /\ place[t] \in {"worker", "spoken"} /\ Turn(t) = Len(CastOf[t]) /\ log' = log
  /\ EndsAs(t, "completed", Outcome(t), "available")

EndsBadly(t) ==
  /\ place[t] \in {"root", "worker", "spoken"}
  /\ log' = Unfinished({t})
  /\ EndsAs(t, "failed", "failed", "blocked")

LEMMA Outcomes ==
  ASSUME TalkRows, TurnsKept, NEW t \in Talks
  PROVE  /\ Reply(t) => AsksNext(t) \/ EndsWell(t)
         /\ Fail(t) => EndsBadly(t)
<1>1. Turn(t) \in Nat /\ Turn(t) <= Len(CastOf[t]) /\ Len(CastOf[t]) \in Nat
  BY TurnTyped, CastTyped
<1>2. talk \in [Talks -> TalkStatuses] /\ troubles \in 0 .. MaxTroubles /\ MaxTroubles \in Nat
  BY ConversationAssumption DEF TalkRows, ConversationAssumption
<1>3. ASSUME Reply(t) PROVE AsksNext(t) \/ EndsWell(t)
  <2>1. /\ place[t] \in {"worker", "spoken"} /\ talk' = [talk EXCEPT ![t] = Ended(t, "completed")]
        /\ LeavesLine(t) /\ log' = log /\ troubles' \in 0 .. MaxTroubles
    BY <1>2, <1>3 DEF Reply, LeavesLine
  <2>2. GoesOn(t, [asked[t] EXCEPT ![Turn(t)] = Outcome(t)],
               [mood EXCEPT ![Speaker(t)] = "available"])
    BY <1>3 DEF Reply
  <2>3. CASE Turn(t) < Len(CastOf[t])
    <3>1. talk'[t] = "running" /\ talk' = [talk EXCEPT ![t] = "running"]
      BY <1>2, <2>1, <2>3 DEF Ended
    <3>2. talk[t] = "running"
      BY <2>1 DEF TurnsKept, UnderWay, Busy
    <3>3. talk' = talk
      BY <1>2, <3>1, <3>2
    <3>4. recovered' = recovered
          /\ asked' = [asked EXCEPT ![t] = Append([asked[t] EXCEPT ![Turn(t)] = Outcome(t)], "running")]
          /\ mood' = [[mood EXCEPT ![Speaker(t)] = "available"]
                         EXCEPT ![CastOf[t][Turn(t) + 1]] = "working"]
          /\ place' = [place EXCEPT ![t] = "root"]
      BY <2>2, <3>1 DEF GoesOn
    <3> QED
      BY <2>1, <2>3, <3>3, <3>4 DEF AsksNext
  <2>4. CASE ~(Turn(t) < Len(CastOf[t]))
    <3>1. talk' = [talk EXCEPT ![t] = "completed"] /\ talk'[t] # "running"
      BY <1>2, <2>1, <2>4 DEF Ended
    <3>2. recovered' = [recovered EXCEPT ![t] = {}]
          /\ asked' = [asked EXCEPT ![t] = [asked[t] EXCEPT ![Turn(t)] = Outcome(t)]]
          /\ mood' = [mood EXCEPT ![Speaker(t)] = "available"]
          /\ place' = [place EXCEPT ![t] = "over"]
      BY <2>2, <3>1 DEF GoesOn
    <3>3. Turn(t) = Len(CastOf[t])
      BY <1>1, <2>4
    <3> QED
      BY <1>2, <2>1, <3>1, <3>2, <3>3 DEF EndsWell, EndsAs
  <2> QED
    BY <2>3, <2>4
<1>4. ASSUME Fail(t) PROVE EndsBadly(t)
  <2>1. /\ place[t] \in {"root", "worker", "spoken"} /\ LeavesLine(t)
        /\ troubles < MaxTroubles /\ troubles' = troubles + 1
        /\ log' = Unfinished({t}) /\ talk' = [talk EXCEPT ![t] = Ended(t, "failed")]
        /\ GoesOn(t, [asked[t] EXCEPT ![Turn(t)] = "failed"], DelegationBlocked(Speaker(t)))
    BY <1>4 DEF Fail, LeavesLine
  <2>2. talk' = [talk EXCEPT ![t] = "failed"] /\ talk'[t] # "running"
    BY <1>2, <2>1 DEF Ended
  <2>3. recovered' = [recovered EXCEPT ![t] = {}]
        /\ asked' = [asked EXCEPT ![t] = [asked[t] EXCEPT ![Turn(t)] = "failed"]]
        /\ mood' = [mood EXCEPT ![Speaker(t)] = "blocked"]
        /\ place' = [place EXCEPT ![t] = "over"]
    BY <2>1, <2>2 DEF GoesOn, DelegationBlocked
  <2>4. troubles' \in 0 .. MaxTroubles
    BY <1>2, <2>1
  <2> QED
    BY <2>1, <2>2, <2>3, <2>4 DEF EndsBadly, EndsAs
<1> QED
  BY <1>3, <1>4

\* Every step, with the ends of runs told apart.
TalkSteps(t) ==
  \/ BeginTalk(t) \/ Enqueue(t) \/ Prompt(t) \/ Speak(t) \/ Retry(t) \/ Collide(t)
  \/ AsksNext(t) \/ EndsWell(t) \/ EndsBadly(t)

LEMMA StepsSplit ==
  ASSUME TalkRows, TurnsKept, [ConversationNext]_talkVars
  PROVE  (\E t \in Talks : TalkSteps(t)) \/ SwitchModel \/ RestartTalks \/ UNCHANGED talkVars
<1>1. ASSUME NEW t \in Talks, BeginTalk(t) \/ TalkStep(t) PROVE TalkSteps(t)
  BY <1>1, Outcomes DEF TalkSteps, TalkStep
<1> QED
  BY <1>1 DEF ConversationNext

\* What a run leaves of its queue
LEMMA LeftIs ==
  ASSUME TalkRows, TurnsKept, NEW t \in Talks, UnderWay(t)
  PROVE  /\ place[t] = "root" => Left(t) = inLine
         /\ place[t] # "root" => Left(t) = [inLine EXCEPT ![via[t]][Speaker(t)] = Tail(@)]
  BY DEF Left

-----------------------------------------------------------------------------
(* The kinds of the variables *)

\* Whose turn it is has its place in the queue of an adapter.
LEMMA ServedTyped ==
  ASSUME TalkRows, TurnsKept, NEW t \in Talks, place[t] \in Served
  PROVE  /\ via[t] \in Adapters /\ Speaker(t) \in Speakers /\ UnderWay(t)
         /\ inLine[via[t]][Speaker(t)] \in Seq(Talks)
<1>1. UnderWay(t) /\ via[t] \in Adapters
  BY DEF TurnsKept, Served, Busy
<1>2. Speaker(t) \in Speakers
  BY <1>1, TurnTyped
<1> QED
  BY <1>1, <1>2 DEF TalkRows

LEMMA LineTyped ==
  ASSUME TalkRows, NEW r \in Adapters, NEW c \in Speakers, NEW q \in Seq(Talks)
  PROVE  [inLine EXCEPT ![r][c] = q] \in [Adapters -> [Speakers -> Seq(Talks)]]
  BY DEF TalkRows

LEMMA HeardTyped ==
  ASSUME TalkRows, NEW r \in Adapters, NEW c \in Speakers,
         NEW h \in [Rooms -> SUBSET (Nat \cup {Nothing})]
  PROVE  /\ [heard EXCEPT ![r][c] = h] \in [Adapters -> [Speakers -> [Rooms -> SUBSET (Nat \cup {Nothing})]]]
         /\ [heard EXCEPT ![r][c] = h][r][c] = h
         /\ \A q \in Adapters, d \in Speakers :
              q # r \/ d # c => [heard EXCEPT ![r][c] = h][q][d] = heard[q][d]
  BY DEF TalkRows

\* A turn that is served is in its queue, and at work it is the first.
LEMMA HasPlace ==
  ASSUME TalkRows, TurnsKept, QueuesKept, NEW t \in Talks, place[t] \in Served
  PROVE  /\ inLine[via[t]][Speaker(t)] # <<>>
         /\ place[t] \in WithWorker => Head(inLine[via[t]][Speaker(t)]) = t
<1> DEFINE q == inLine[via[t]][Speaker(t)]
<1>1. q \in Seq(Talks) /\ via[t] \in Adapters /\ Speaker(t) \in Speakers
  BY ServedTyped
<1>2. PICK i \in DOMAIN q : q[i] = t
  BY DEF QueuesKept
<1>3. q # <<>>
  BY <1>1, <1>2
<1>4. place[t] \in WithWorker => i = 1
  BY <1>1, <1>2 DEF QueuesKept
<1> HIDE DEF q
<1>5. place[t] \in WithWorker => Head(q) = t
  BY <1>1, <1>2, <1>3, <1>4, TailShape
<1> QED
  BY <1>3, <1>5 DEF q

\* Two turns of one character of an adapter are not at work together.
LEMMA OneAtWork ==
  ASSUME TalkRows, TurnsKept, QueuesKept, NEW t \in Talks, NEW u \in Talks,
         place[t] \in WithWorker, place[u] \in WithWorker, via[t] = via[u], Speaker(t) = Speaker(u)
  PROVE  t = u
<1>1. place[t] \in Served /\ place[u] \in Served
  BY DEF WithWorker, Served
<1> QED
  BY <1>1, HasPlace

-----------------------------------------------------------------------------
(* What a session has heard after a step *)

\* Only the session of the turn's own character and room changes, but for those
\* that are closed.
HearsAs(t, S) ==
  /\ heard' \in [Adapters -> [Speakers -> [Rooms -> SUBSET (Nat \cup {Nothing})]]]
  /\ \A q \in Adapters, d \in Speakers :
       q # via[t] \/ d # Speaker(t) => heard'[q][d] = heard[q][d]
  /\ \A x \in Rooms : x # RoomOf[t] =>
       heard'[via[t]][Speaker(t)][x] = heard[via[t]][Speaker(t)][x]
         \/ heard'[via[t]][Speaker(t)][x] = Silent
  /\ heard'[via[t]][Speaker(t)][RoomOf[t]] = S

HeardBy(t) == heard[via[t]][Speaker(t)][RoomOf[t]]

LEMMA HeardByTyped ==
  ASSUME TalkRows, TurnsKept, NEW t \in Talks, place[t] \in Served
  PROVE  /\ HeardBy(t) \subseteq Nat \cup {Nothing}
         /\ heard[via[t]][Speaker(t)] \in [Rooms -> SUBSET (Nat \cup {Nothing})]
<1>1. via[t] \in Adapters /\ Speaker(t) \in Speakers /\ RoomOf[t] \in Rooms
  BY ServedTyped, CastTyped
<1> QED
  BY <1>1 DEF TalkRows, HeardBy

LEMMA ReplayTyped ==
  ASSUME TalkRows, LogWithin, NEW t \in Talks
  PROVE  /\ recovered[t] \subseteq DOMAIN Words(t) /\ Prompted(t) \subseteq DOMAIN Words(t)
         /\ DOMAIN Words(t) \subseteq Nat
         /\ \A fresh \in BOOLEAN : Replayed(t, fresh) \subseteq recovered[t]
         /\ Replayed(t, TRUE) = recovered[t]
         /\ Replayed(t, FALSE) = {i \in recovered[t] : i > Watermark(t, Speaker(t))}
<1>1. RoomOf[t] \in Rooms
  BY CastTyped
<1>2. DOMAIN Words(t) \subseteq Nat
  BY <1>1, LogTyped DEF Words
<1>3. recovered[t] \subseteq DOMAIN Words(t)
  BY DEF LogWithin, Words
<1> QED
  BY <1>2, <1>3 DEF Replayed, Prompted

LEMMA HeardChanges ==
  ASSUME TalkRows, TurnsKept, NEW t \in Talks, place[t] \in Served,
         NEW h \in [Rooms -> SUBSET (Nat \cup {Nothing})],
         heard' = [heard EXCEPT ![via[t]][Speaker(t)] = h],
         \A x \in Rooms : x # RoomOf[t] => h[x] = heard[via[t]][Speaker(t)][x] \/ h[x] = Silent
  PROVE  HearsAs(t, h[RoomOf[t]])
<1>1. via[t] \in Adapters /\ Speaker(t) \in Speakers /\ RoomOf[t] \in Rooms
  BY ServedTyped, CastTyped
<1> QED
  BY <1>1, HeardTyped DEF HearsAs

\* A prompt gives a new session everything, and one that lives on what it has not
\* heard.
PromptFresh(t) ==
  HearsAs(t, recovered[t] \cup Prompted(t))
PromptLive(t) ==
  /\ HeardBy(t) # Silent
  /\ HearsAs(t, HeardBy(t) \cup {i \in recovered[t] : i > Watermark(t, Speaker(t))} \cup Prompted(t))

LEMMA PromptHears ==
  ASSUME TalkRows, TurnsKept, LogWithin, NEW t \in Talks, Prompt(t)
  PROVE  PromptFresh(t) \/ PromptLive(t)
<1> DEFINE r == via[t]
<1> DEFINE c == Speaker(t)
<1> DEFINE s == RoomOf[t]
<1> DEFINE kept == IF worker[r][c] = ModeOf[t] THEN heard[r][c] ELSE [x \in Rooms |-> Silent]
<1> DEFINE fresh == kept[s] = Silent
<1> DEFINE new == (IF fresh THEN {} ELSE kept[s]) \cup Replayed(t, fresh) \cup Prompted(t)
<1>1. place[t] \in Served
  BY DEF Prompt, Served
<1>2. r \in Adapters /\ c \in Speakers /\ s \in Rooms
  BY <1>1, ServedTyped, CastTyped
<1>3. heard[r][c] \in [Rooms -> SUBSET (Nat \cup {Nothing})]
  BY <1>1, HeardByTyped
<1>4. kept \in [Rooms -> SUBSET (Nat \cup {Nothing})]
      /\ \A x \in Rooms : kept[x] = heard[r][c][x] \/ kept[x] = Silent
  BY <1>3 DEF Silent
<1>5. heard' = [heard EXCEPT ![r][c] =
                  [kept EXCEPT ![s] = (IF fresh THEN {} ELSE @) \cup Replayed(t, fresh) \cup Prompted(t)]]
  BY DEF Prompt
<1>6. heard' = [heard EXCEPT ![r][c] = [kept EXCEPT ![s] = new]]
  BY <1>5
<1>7. new \subseteq Nat \cup {Nothing}
  BY <1>2, <1>4, ReplayTyped
<1>8. [kept EXCEPT ![s] = new] \in [Rooms -> SUBSET (Nat \cup {Nothing})]
      /\ [kept EXCEPT ![s] = new][s] = new
      /\ \A x \in Rooms : x # s => [kept EXCEPT ![s] = new][x] = kept[x]
  BY <1>2, <1>4, <1>7
<1> HIDE DEF kept
<1> DEFINE h == [kept EXCEPT ![s] = new]
<1>9. HearsAs(t, new)
  <2>1. h \in [Rooms -> SUBSET (Nat \cup {Nothing})] /\ h[s] = new
        /\ heard' = [heard EXCEPT ![r][c] = h]
    BY <1>6, <1>8
  <2>2. \A x \in Rooms : x # RoomOf[t] => h[x] = heard[r][c][x] \/ h[x] = Silent
    BY <1>4, <1>8
  <2> HIDE DEF h, new
  <2> QED
    BY <1>1, <2>1, <2>2, HeardChanges
<1>10. CASE fresh
  <2>1. new = recovered[t] \cup Prompted(t)
    BY <1>10, ReplayTyped
  <2> QED
    BY <1>9, <2>1 DEF PromptFresh
<1>11. CASE ~fresh
  <2>1. kept[s] = HeardBy(t) /\ HeardBy(t) # Silent
    BY <1>2, <1>4, <1>11 DEF HeardBy
  <2>2. new = HeardBy(t) \cup {i \in recovered[t] : i > Watermark(t, Speaker(t))} \cup Prompted(t)
    BY <1>11, <2>1, ReplayTyped
  <2> QED
    BY <1>9, <2>1, <2>2 DEF PromptLive
<1> QED
  BY <1>10, <1>11

LEMMA CollideHears ==
  ASSUME TalkRows, TurnsKept, LogWithin, NEW t \in Talks, Collide(t)
  PROVE  HearsAs(t, recovered[t] \cup Prompted(t))
<1>1. place[t] \in Served
  BY DEF Collide, Served
<1>2. via[t] \in Adapters /\ Speaker(t) \in Speakers /\ RoomOf[t] \in Rooms
  BY <1>1, ServedTyped, CastTyped
<1> DEFINE old == heard[via[t]][Speaker(t)]
<1> DEFINE new == recovered[t] \cup Prompted(t)
<1>3. old \in [Rooms -> SUBSET (Nat \cup {Nothing})]
  BY <1>1, HeardByTyped
<1>4. new \subseteq Nat \cup {Nothing} /\ Replayed(t, TRUE) = recovered[t]
  BY ReplayTyped
<1>5. heard' = [heard EXCEPT ![via[t]][Speaker(t)] = [old EXCEPT ![RoomOf[t]] = new]]
  BY <1>4 DEF Collide
<1>6. [old EXCEPT ![RoomOf[t]] = new] \in [Rooms -> SUBSET (Nat \cup {Nothing})]
      /\ [old EXCEPT ![RoomOf[t]] = new][RoomOf[t]] = new
      /\ \A x \in Rooms : x # RoomOf[t] => [old EXCEPT ![RoomOf[t]] = new][x] = old[x]
  BY <1>2, <1>3, <1>4
<1> QED
  BY <1>1, <1>5, <1>6, HeardChanges

LEMMA SpeakSays ==
  ASSUME TalkRows, TurnsKept, NEW t \in Talks, Speak(t)
  PROVE  /\ SaysIn(t, Speaker(t), Turn(t))
         /\ HearsAs(t, HeardBy(t) \cup {Len(log[RoomOf[t]]) + 1})
<1>1. place[t] \in Served
  BY DEF Speak, Served
<1>2. via[t] \in Adapters /\ Speaker(t) \in Speakers /\ RoomOf[t] \in Rooms /\ Turn(t) \in Nat
  BY <1>1, ServedTyped, CastTyped, TurnTyped
<1>3. SaysIn(t, Speaker(t), Turn(t))
  BY <1>2, SayingAdds DEF Speak
<1>4. Len(log'[RoomOf[t]]) = Len(log[RoomOf[t]]) + 1 /\ Len(log[RoomOf[t]]) \in Nat
  BY <1>2, <1>3, LogTyped DEF SaysIn
<1> DEFINE old == heard[via[t]][Speaker(t)]
<1> DEFINE new == HeardBy(t) \cup {Len(log[RoomOf[t]]) + 1}
<1>5. old \in [Rooms -> SUBSET (Nat \cup {Nothing})]
  BY <1>1, HeardByTyped
<1>6. new \subseteq Nat \cup {Nothing}
  BY <1>1, <1>4, HeardByTyped
<1>7. heard' = [heard EXCEPT ![via[t]][Speaker(t)] = [old EXCEPT ![RoomOf[t]] = new]]
  BY <1>4 DEF Speak, HeardBy
<1>8. [old EXCEPT ![RoomOf[t]] = new] \in [Rooms -> SUBSET (Nat \cup {Nothing})]
      /\ [old EXCEPT ![RoomOf[t]] = new][RoomOf[t]] = new
      /\ \A x \in Rooms : x # RoomOf[t] => [old EXCEPT ![RoomOf[t]] = new][x] = old[x]
  BY <1>2, <1>5, <1>6
<1> QED
  BY <1>1, <1>3, <1>7, <1>8, HeardChanges

LEMMA RetrySilences ==
  ASSUME TalkRows, TurnsKept, NEW t \in Talks, Retry(t)
  PROVE  HearsAs(t, Silent)
<1>1. place[t] \in Served
  BY DEF Retry, Served
<1>2. [s \in Rooms |-> Silent] \in [Rooms -> SUBSET (Nat \cup {Nothing})]
      /\ [s \in Rooms |-> Silent][RoomOf[t]] = Silent
      /\ \A x \in Rooms : [s \in Rooms |-> Silent][x] = Silent
  BY CastTyped DEF Silent
<1>3. heard' = [heard EXCEPT ![via[t]][Speaker(t)] = [s \in Rooms |-> Silent]]
  BY DEF Retry
<1> QED
  BY <1>1, <1>2, <1>3, HeardChanges

-----------------------------------------------------------------------------
(* Every step keeps the kinds of the variables. *)

LEMMA NewestWithin ==
  ASSUME NEW S
  PROVE  Newest(S) \subseteq S
  BY DEF Newest

LEMMA BeginIs ==
  ASSUME TalkRows, TurnsKept, NEW t \in Talks, BeginTalk(t)
  PROVE  /\ talk[t] = "none" /\ place[t] = "none"
         /\ CastOf[t][1] \in Speakers
         /\ Transcript(t) \subseteq DOMAIN Words(t) /\ DOMAIN Words(t) \subseteq Nat
         /\ (t \in Peers /\ log' = log) \/ (t \notin Peers /\ SaysIn(t, Owner, 0))
<1>1. RoomOf[t] \in Rooms /\ CastOf[t][1] \in Speakers
  BY CastTyped
<1>2. DOMAIN Words(t) \subseteq Nat
  BY <1>1, LogTyped DEF Words
<1>3. Transcript(t) \subseteq DOMAIN Words(t)
  BY NewestWithin DEF Transcript
<1>4. talk[t] = "none" /\ place[t] = "none"
  BY DEF BeginTalk, TurnsKept
<1>5. (t \in Peers /\ log' = log) \/ (t \notin Peers /\ SaysIn(t, Owner, 0))
  <2>1. CASE t \in Peers
    BY <2>1 DEF BeginTalk
  <2>2. CASE t \notin Peers
    BY <2>2, SayingAdds DEF BeginTalk
  <2> QED
    BY <2>1, <2>2
<1> QED
  BY <1>1, <1>2, <1>3, <1>4, <1>5

\* Of the transcript a step adds to the end or marks what is there.
LogGoesOn ==
  /\ log' \in [Rooms -> Seq(Message)]
  /\ \A s \in Rooms : DOMAIN log[s] \subseteq DOMAIN log'[s]

LEMMA LogSteps ==
  ASSUME TalkRows, TurnsKept, [ConversationNext]_talkVars
  PROVE  LogGoesOn
<1>1. log' = log => LogGoesOn
  BY DEF TalkRows, LogGoesOn
<1>2. ASSUME NEW t \in Talks, NEW c, NEW n, SaysIn(t, c, n) PROVE LogGoesOn
  BY <1>2 DEF SaysIn, LogGoesOn
<1>3. ASSUME NEW T, log' = Unfinished(T) PROVE LogGoesOn
  BY <1>3, MarkingKeeps DEF MarksOf, LogGoesOn
<1>4. ASSUME NEW t \in Talks, TalkSteps(t) PROVE LogGoesOn
  <2>1. CASE BeginTalk(t)
    BY <1>1, <1>2, <2>1, BeginIs
  <2>2. CASE Enqueue(t) \/ Prompt(t) \/ Retry(t) \/ Collide(t) \/ AsksNext(t) \/ EndsWell(t)
    BY <1>1, <2>2 DEF Enqueue, Prompt, Retry, Collide, AsksNext, EndsWell
  <2>3. CASE Speak(t)
    BY <1>2, <2>3, SpeakSays
  <2>4. CASE EndsBadly(t)
    BY <1>3, <2>4 DEF EndsBadly
  <2> QED
    BY <1>4, <2>1, <2>2, <2>3, <2>4 DEF TalkSteps
<1>5. RestartTalks => LogGoesOn
  BY <1>3 DEF RestartTalks
<1>6. SwitchModel \/ UNCHANGED talkVars => LogGoesOn
  BY <1>1 DEF SwitchModel, talkVars
<1> QED
  BY <1>4, <1>5, <1>6, StepsSplit

LEMMA AskedSteps ==
  ASSUME TalkRows, TurnsKept, NEW t \in Talks, UnderWay(t), NEW e \in RunStatuses
  PROVE  LET runs == [asked[t] EXCEPT ![Turn(t)] = e] IN
         /\ runs \in Seq(RunStatuses) /\ Len(runs) = Turn(t) /\ runs[Turn(t)] = e
         /\ \A n \in 1 .. Turn(t) : n # Turn(t) => runs[n] = asked[t][n]
         /\ Append(runs, "running") \in Seq(RunStatuses) /\ Len(Append(runs, "running")) = Turn(t) + 1
         /\ \A n \in 1 .. Turn(t) : Append(runs, "running")[n] = runs[n]
<1>1. asked[t] \in Seq(RunStatuses) /\ Turn(t) \in DOMAIN asked[t] /\ DOMAIN asked[t] = 1 .. Turn(t)
      /\ Turn(t) \in Nat /\ Turn(t) = Len(asked[t])
  BY TurnTyped DEF Turn
<1> DEFINE runs == [asked[t] EXCEPT ![Turn(t)] = e]
<1>2. runs \in Seq(RunStatuses) /\ Len(runs) = Turn(t) /\ runs[Turn(t)] = e
      /\ \A n \in DOMAIN asked[t] : n # Turn(t) => runs[n] = asked[t][n]
  BY <1>1, ExceptShape
<1>3. "running" \in RunStatuses
  BY DEF RunStatuses
<1> HIDE DEF runs
<1>4. Append(runs, "running") \in Seq(RunStatuses) /\ Len(Append(runs, "running")) = Turn(t) + 1
      /\ DOMAIN runs = 1 .. Turn(t)
      /\ \A n \in DOMAIN runs : Append(runs, "running")[n] = runs[n]
  BY <1>2, <1>3, AppendShape, SeqShape
<1> QED
  BY <1>1, <1>2, <1>4 DEF runs

LEMMA StatusesAre ==
  /\ {"none", "running", "completed", "failed"} = TalkStatuses
  /\ {"running", "completed", "empty", "failed"} = RunStatuses
  /\ {"none", "root", "queue", "worker", "spoken", "over", "gone"} = PlacesOfTalk
  BY DEF TalkStatuses, RunStatuses, PlacesOfTalk

LEMMA OutcomeIs == ASSUME NEW t PROVE Outcome(t) \in {"completed", "empty"}
  BY DEF Outcome

LEMMA LeavesRows ==
  ASSUME TalkRows, TurnsKept, QueuesKept, NEW t \in Talks, UnderWay(t), place[t] # "queue", LeavesLine(t)
  PROVE  /\ inLine' \in [Adapters -> [Speakers -> Seq(Talks)]]
         /\ retried' \subseteq Talks
         /\ via' \in [Talks -> Adapters \cup {Nothing}]
         /\ heard' = heard /\ worker' = worker /\ model' = model /\ crossed' = crossed
         /\ restarted' = restarted
<1>1. CASE place[t] = "root"
  BY <1>1, LeftIs DEF LeavesLine, TalkRows
<1>2. CASE place[t] # "root"
  <2>1. place[t] \in Served
    BY <1>2 DEF TurnsKept, Busy, Served
  <2>2. inLine[via[t]][Speaker(t)] \in Seq(Talks) /\ inLine[via[t]][Speaker(t)] # <<>>
        /\ via[t] \in Adapters /\ Speaker(t) \in Speakers
    BY <2>1, ServedTyped, HasPlace
  <2>3. Tail(inLine[via[t]][Speaker(t)]) \in Seq(Talks)
    BY <2>2, TailShape
  <2>4. inLine' = [inLine EXCEPT ![via[t]][Speaker(t)] = Tail(inLine[via[t]][Speaker(t)])]
    BY <1>2, LeftIs DEF LeavesLine
  <2>5. inLine' \in [Adapters -> [Speakers -> Seq(Talks)]]
    BY <2>2, <2>3, <2>4, LineTyped
  <2> QED
    BY <2>5 DEF LeavesLine, TalkRows
<1> QED
  BY <1>1, <1>2

LEMMA RowsStep ==
  ASSUME TalkRows, TurnsKept, LogWithin, QueuesKept, [ConversationNext]_talkVars
  PROVE  TalkRows'
<1>l. log' \in [Rooms -> Seq(Message)]
  BY LogSteps DEF LogGoesOn
<1>1. ASSUME NEW t \in Talks, BeginTalk(t) PROVE TalkRows'
  <2>1. Transcript(t) \in SUBSET Nat /\ CastOf[t][1] \in Speakers /\ RoomOf[t] \in Rooms
    BY <1>1, BeginIs, CastTyped
  <2>2. <<"running">> \in Seq(RunStatuses)
    BY DEF RunStatuses
  <2> QED
    BY <1>l, <1>1, <2>1, <2>2, StatusesAre DEF BeginTalk, TalkRows
<1>2. ASSUME NEW t \in Talks, Enqueue(t) PROVE TalkRows'
  <2>1. Speaker(t) \in Speakers /\ model \in Adapters
    BY <1>2, TurnTyped DEF Enqueue, TurnsKept, Busy, TalkRows
  <2>2. inLine' = [inLine EXCEPT ![model][Speaker(t)] = Append(inLine[model][Speaker(t)], t)]
    BY <1>2 DEF Enqueue
  <2>3. Append(inLine[model][Speaker(t)], t) \in Seq(Talks)
    BY <2>1, AppendShape DEF TalkRows
  <2>4. inLine' \in [Adapters -> [Speakers -> Seq(Talks)]]
    BY <2>1, <2>2, <2>3, LineTyped
  <2> QED
    BY <1>l, <1>2, <2>1, <2>4, StatusesAre DEF Enqueue, TalkRows
<1>3. ASSUME NEW t \in Talks, Prompt(t) PROVE TalkRows'
  <2>1. place[t] \in Served
    BY <1>3 DEF Prompt, Served
  <2>2. via[t] \in Adapters /\ Speaker(t) \in Speakers /\ RoomOf[t] \in Rooms
    BY <2>1, ServedTyped, CastTyped
  <2>3. heard' \in [Adapters -> [Speakers -> [Rooms -> SUBSET (Nat \cup {Nothing})]]]
    BY <1>3, PromptHears DEF PromptFresh, PromptLive, HearsAs
  <2>4. worker' \in Workers
    BY <1>3, <2>2 DEF Prompt, TalkRows, Workers
  <2>5. crossed' \subseteq Rooms
    BY <1>3, <2>2 DEF Prompt, TalkRows
  <2> QED
    BY <1>l, <1>3, <2>3, <2>4, <2>5, StatusesAre DEF Prompt, TalkRows
<1>4. ASSUME NEW t \in Talks, Speak(t) PROVE TalkRows'
  <2>1. heard' \in [Adapters -> [Speakers -> [Rooms -> SUBSET (Nat \cup {Nothing})]]]
    BY <1>4, SpeakSays DEF HearsAs
  <2> QED
    BY <1>l, <1>4, <2>1, StatusesAre DEF Speak, TalkRows
<1>5. ASSUME NEW t \in Talks, Retry(t) PROVE TalkRows'
  <2>1. place[t] \in Served
    BY <1>5 DEF Retry, Served
  <2>2. via[t] \in Adapters /\ Speaker(t) \in Speakers /\ inLine[via[t]][Speaker(t)] \in Seq(Talks)
        /\ inLine[via[t]][Speaker(t)] # <<>>
    BY <2>1, ServedTyped, HasPlace
  <2>3. heard' \in [Adapters -> [Speakers -> [Rooms -> SUBSET (Nat \cup {Nothing})]]]
    BY <1>5, RetrySilences DEF HearsAs
  <2>4. worker' \in Workers
    BY <1>5, <2>2 DEF Retry, TalkRows, Workers
  <2>5. Append(Tail(inLine[via[t]][Speaker(t)]), t) \in Seq(Talks)
    BY <2>2, TailShape, AppendShape
  <2>6. inLine' = [inLine EXCEPT ![via[t]][Speaker(t)] = Append(Tail(inLine[via[t]][Speaker(t)]), t)]
    BY <1>5 DEF Retry
  <2>7. inLine' \in [Adapters -> [Speakers -> Seq(Talks)]]
    BY <2>2, <2>5, <2>6, LineTyped
  <2>8. troubles' \in 0 .. MaxTroubles
    BY <1>5, ConversationAssumption DEF Retry, TalkRows, ConversationAssumption
  <2> QED
    BY <1>l, <1>5, <2>3, <2>4, <2>7, <2>8, StatusesAre DEF Retry, TalkRows
<1>6. ASSUME NEW t \in Talks, Collide(t) PROVE TalkRows'
  <2>1. heard' \in [Adapters -> [Speakers -> [Rooms -> SUBSET (Nat \cup {Nothing})]]]
    BY <1>6, CollideHears DEF HearsAs
  <2>2. troubles' \in 0 .. MaxTroubles
    BY <1>6, ConversationAssumption DEF Collide, TalkRows, ConversationAssumption
  <2> QED
    BY <1>l, <1>6, <2>1, <2>2 DEF Collide, TalkRows
<1>7. ASSUME NEW t \in Talks, AsksNext(t) PROVE TalkRows'
  <2>1. UnderWay(t) /\ place[t] # "queue" /\ LeavesLine(t)
    BY <1>7 DEF AsksNext, TurnsKept, Busy
  <2>2. Append([asked[t] EXCEPT ![Turn(t)] = Outcome(t)], "running") \in Seq(RunStatuses)
    BY <2>1, StatusesAre, OutcomeIs, AskedSteps
  <2>3. Speaker(t) \in Speakers /\ CastOf[t][Turn(t) + 1] \in Speakers
    BY <1>7, <2>1, TurnTyped, CastTyped DEF AsksNext
  <2>4. mood' \in [Speakers -> {"available", "working", "blocked"}]
    BY <1>7, <2>3 DEF AsksNext, TalkRows
  <2>5. asked' \in [Talks -> Seq(RunStatuses)]
    BY <1>7, <2>2 DEF AsksNext, TalkRows
  <2>6. place' \in [Talks -> PlacesOfTalk]
    BY <1>7, StatusesAre DEF AsksNext, TalkRows
  <2>7. talk' = talk /\ recovered' = recovered /\ troubles' \in 0 .. MaxTroubles
    BY <1>7 DEF AsksNext
  <2> QED
    BY <1>l, <2>1, <2>4, <2>5, <2>6, <2>7, LeavesRows DEF TalkRows
<1>8. ASSUME NEW t \in Talks, EndsWell(t) \/ EndsBadly(t) PROVE TalkRows'
  <2>1. PICK result \in {"completed", "failed"}, last \in {"completed", "empty", "failed"},
             status \in {"available", "blocked"} : EndsAs(t, result, last, status)
    BY <1>8, OutcomeIs DEF EndsWell, EndsBadly
  <2>2. UnderWay(t) /\ place[t] # "queue" /\ LeavesLine(t)
    BY <1>8, <2>1 DEF EndsWell, EndsBadly, EndsAs, TurnsKept, Busy
  <2>3. [asked[t] EXCEPT ![Turn(t)] = last] \in Seq(RunStatuses)
    BY <2>2, StatusesAre, AskedSteps
  <2>4. Speaker(t) \in Speakers
    BY <2>2, TurnTyped
  <2>5. mood' \in [Speakers -> {"available", "working", "blocked"}]
    BY <2>1, <2>4 DEF EndsAs, TalkRows
  <2>6. asked' \in [Talks -> Seq(RunStatuses)]
    BY <2>1, <2>3 DEF EndsAs, TalkRows
  <2>7. place' \in [Talks -> PlacesOfTalk] /\ talk' \in [Talks -> TalkStatuses]
        /\ recovered' \in [Talks -> SUBSET Nat] /\ troubles' \in 0 .. MaxTroubles
    BY <2>1, StatusesAre DEF EndsAs, TalkRows
  <2> QED
    BY <1>l, <2>2, <2>5, <2>6, <2>7, LeavesRows DEF TalkRows
<1>9. ASSUME RestartTalks PROVE TalkRows'
  <2>1. asked' \in [Talks -> Seq(RunStatuses)]
    <3>1. ASSUME NEW t \in Talks, UnderWay(t)
          PROVE  [asked[t] EXCEPT ![Turn(t)] = "failed"] \in Seq(RunStatuses)
      BY <3>1, StatusesAre, AskedSteps
    <3>2. \A t \in Talks : asked[t] \in Seq(RunStatuses)
      BY DEF TalkRows
    <3> QED
      BY <1>9, <3>1, <3>2 DEF RestartTalks
  <2>2. place' \in [Talks -> PlacesOfTalk] /\ talk' \in [Talks -> TalkStatuses]
    BY <1>9, StatusesAre DEF RestartTalks, TalkRows
  <2>3. heard' \in [Adapters -> [Speakers -> [Rooms -> SUBSET (Nat \cup {Nothing})]]]
    BY <1>9 DEF RestartTalks, Silent
  <2>4. worker' \in Workers
    BY <1>9 DEF RestartTalks, Workers
  <2>5. inLine' \in [Adapters -> [Speakers -> Seq(Talks)]]
    BY <1>9 DEF RestartTalks
  <2>6. troubles' \in 0 .. MaxTroubles
    BY <1>9, ConversationAssumption DEF RestartTalks, TalkRows, ConversationAssumption
  <2> QED
    BY <1>l, <1>9, <2>1, <2>2, <2>3, <2>4, <2>5, <2>6 DEF RestartTalks, TalkRows
<1>10. ASSUME SwitchModel PROVE TalkRows'
  <2>1. troubles' \in 0 .. MaxTroubles
    BY <1>10, ConversationAssumption DEF SwitchModel, TalkRows, ConversationAssumption
  <2> QED
    BY <1>l, <1>10, <2>1 DEF SwitchModel, TalkRows
<1>11. UNCHANGED talkVars => TalkRows'
  BY DEF talkVars, TalkRows
<1> QED
  BY <1>1, <1>2, <1>3, <1>4, <1>5, <1>6, <1>7, <1>8, <1>9, <1>10, <1>11, StepsSplit DEF TalkSteps

-----------------------------------------------------------------------------
(* What a step of one turn leaves of the others, and what it does to its own *)

SameTurn(u) ==
  /\ talk'[u] = talk[u] /\ asked'[u] = asked[u] /\ place'[u] = place[u]
  /\ via'[u] = via[u] /\ recovered'[u] = recovered[u]

LEMMA OthersStay ==
  ASSUME TalkRows, TurnsKept, NEW t \in Talks, TalkSteps(t), NEW u \in Talks \ {t}
  PROVE  SameTurn(u)
<1> USE DEF SameTurn
<1>1. CASE BeginTalk(t)
  BY <1>1 DEF BeginTalk, TalkRows
<1>2. CASE Enqueue(t)
  BY <1>2 DEF Enqueue, TalkRows
<1>3. CASE Prompt(t)
  BY <1>3 DEF Prompt, TalkRows
<1>4. CASE Speak(t)
  BY <1>4 DEF Speak, TalkRows
<1>5. CASE Retry(t)
  BY <1>5 DEF Retry, TalkRows
<1>6. CASE Collide(t)
  BY <1>6 DEF Collide, TalkRows
<1>7. CASE AsksNext(t)
  BY <1>7 DEF AsksNext, LeavesLine, TalkRows
<1>8. CASE EndsWell(t) \/ EndsBadly(t)
  <2>1. PICK result \in {"completed", "failed"}, last \in {"completed", "empty", "failed"},
             status \in {"available", "blocked"} : EndsAs(t, result, last, status)
    BY <1>8, OutcomeIs DEF EndsWell, EndsBadly
  <2> QED
    BY <2>1 DEF EndsAs, LeavesLine, TalkRows
<1> QED
  BY <1>1, <1>2, <1>3, <1>4, <1>5, <1>6, <1>7, <1>8 DEF TalkSteps

\* The turn itself, by the kind of its step
OwnTurn(t) ==
  \/ /\ BeginTalk(t)
     /\ talk[t] = "none" /\ place[t] = "none" /\ talk'[t] = "running" /\ place'[t] = "root"
     /\ asked'[t] = <<"running">> /\ Len(asked'[t]) = 1
     /\ recovered'[t] = Transcript(t) /\ via'[t] = via[t]
  \/ /\ Enqueue(t)
     /\ place[t] = "root" /\ place'[t] = "queue" /\ via'[t] = model
     /\ talk'[t] = talk[t] /\ asked'[t] = asked[t] /\ recovered'[t] = recovered[t]
  \/ /\ Prompt(t)
     /\ place[t] = "queue" /\ place'[t] = "worker" /\ via'[t] = via[t]
     /\ talk'[t] = talk[t] /\ asked'[t] = asked[t] /\ recovered'[t] = recovered[t]
  \/ /\ Speak(t)
     /\ place[t] = "worker" /\ place'[t] = "spoken" /\ via'[t] = via[t]
     /\ talk'[t] = talk[t] /\ asked'[t] = asked[t] /\ recovered'[t] = recovered[t]
  \/ /\ Retry(t)
     /\ place[t] = "worker" /\ place'[t] = "queue" /\ via'[t] = via[t]
     /\ talk'[t] = talk[t] /\ asked'[t] = asked[t] /\ recovered'[t] = recovered[t]
  \/ /\ Collide(t)
     /\ place[t] = "worker" /\ place'[t] = "worker" /\ via'[t] = via[t]
     /\ talk'[t] = talk[t] /\ asked'[t] = asked[t] /\ recovered'[t] = recovered[t]
  \/ /\ AsksNext(t)
     /\ place[t] \in {"worker", "spoken"} /\ place'[t] = "root" /\ via'[t] = Nothing
     /\ talk'[t] = talk[t] /\ recovered'[t] = recovered[t]
     /\ Turn(t) < Len(CastOf[t]) /\ Len(asked'[t]) = Turn(t) + 1
     /\ asked'[t][Turn(t)] = Outcome(t)
     /\ \A n \in 1 .. Turn(t) : n # Turn(t) => asked'[t][n] = asked[t][n]
  \/ /\ EndsWell(t)
     /\ place[t] \in {"worker", "spoken"} /\ place'[t] = "over" /\ via'[t] = Nothing
     /\ talk'[t] = "completed" /\ recovered'[t] = {}
     /\ Turn(t) = Len(CastOf[t]) /\ Len(asked'[t]) = Turn(t) /\ asked'[t][Turn(t)] = Outcome(t)
     /\ \A n \in 1 .. Turn(t) : n # Turn(t) => asked'[t][n] = asked[t][n]
  \/ /\ EndsBadly(t)
     /\ place[t] \in {"root", "worker", "spoken"} /\ place'[t] = "over" /\ via'[t] = Nothing
     /\ talk'[t] = "failed" /\ recovered'[t] = {}
     /\ Len(asked'[t]) = Turn(t)

LEMMA AsksIs ==
  ASSUME TalkRows, TurnsKept, NEW t \in Talks, AsksNext(t)
  PROVE  /\ UnderWay(t) /\ place[t] \in {"worker", "spoken"}
         /\ place'[t] = "root" /\ via'[t] = Nothing
         /\ talk'[t] = talk[t] /\ recovered'[t] = recovered[t]
         /\ Turn(t) < Len(CastOf[t]) /\ Len(asked'[t]) = Turn(t) + 1
         /\ asked'[t][Turn(t)] = Outcome(t)
         /\ \A n \in 1 .. Turn(t) : n # Turn(t) => asked'[t][n] = asked[t][n]
<1>1. UnderWay(t)
  BY DEF AsksNext, TurnsKept, Busy
<1> DEFINE runs == [asked[t] EXCEPT ![Turn(t)] = Outcome(t)]
<1>2. /\ runs[Turn(t)] = Outcome(t)
      /\ \A n \in 1 .. Turn(t) : n # Turn(t) => runs[n] = asked[t][n]
      /\ Len(Append(runs, "running")) = Turn(t) + 1
      /\ \A n \in 1 .. Turn(t) : Append(runs, "running")[n] = runs[n]
  BY <1>1, StatusesAre, OutcomeIs, AskedSteps
<1>3. asked'[t] = Append(runs, "running") /\ place'[t] = "root" /\ via'[t] = Nothing
      /\ talk'[t] = talk[t] /\ recovered'[t] = recovered[t] /\ Turn(t) < Len(CastOf[t])
      /\ place[t] \in {"worker", "spoken"}
  BY DEF AsksNext, LeavesLine, TalkRows
<1>4. Turn(t) \in 1 .. Turn(t)
  BY <1>1, TurnTyped
<1> HIDE DEF runs
<1>5. Len(asked'[t]) = Turn(t) + 1 /\ asked'[t][Turn(t)] = Outcome(t)
      /\ \A n \in 1 .. Turn(t) : n # Turn(t) => asked'[t][n] = asked[t][n]
  BY <1>2, <1>3, <1>4
<1> QED
  BY <1>1, <1>3, <1>5

LEMMA EndsIs ==
  ASSUME TalkRows, TurnsKept, NEW t \in Talks,
         NEW result \in {"completed", "failed"}, NEW last \in {"completed", "empty", "failed"},
         NEW status \in {"available", "blocked"}, EndsAs(t, result, last, status), UnderWay(t)
  PROVE  /\ place'[t] = "over" /\ via'[t] = Nothing /\ talk'[t] = result /\ recovered'[t] = {}
         /\ Len(asked'[t]) = Turn(t) /\ asked'[t][Turn(t)] = last
         /\ \A n \in 1 .. Turn(t) : n # Turn(t) => asked'[t][n] = asked[t][n]
<1>1. asked'[t] = [asked[t] EXCEPT ![Turn(t)] = last] /\ place'[t] = "over"
      /\ via'[t] = Nothing /\ talk'[t] = result /\ recovered'[t] = {}
  BY DEF EndsAs, LeavesLine, TalkRows
<1>2. last \in RunStatuses
  BY StatusesAre
<1> QED
  BY <1>1, <1>2, AskedSteps

LEMMA EndsWellIs ==
  ASSUME TalkRows, TurnsKept, NEW t \in Talks, EndsWell(t)
  PROVE  /\ UnderWay(t) /\ place[t] \in {"worker", "spoken"}
         /\ place'[t] = "over" /\ via'[t] = Nothing
         /\ talk'[t] = "completed" /\ recovered'[t] = {}
         /\ Turn(t) = Len(CastOf[t]) /\ Len(asked'[t]) = Turn(t) /\ asked'[t][Turn(t)] = Outcome(t)
         /\ \A n \in 1 .. Turn(t) : n # Turn(t) => asked'[t][n] = asked[t][n]
<1>1. /\ place[t] \in {"worker", "spoken"} /\ Turn(t) = Len(CastOf[t])
      /\ EndsAs(t, "completed", Outcome(t), "available") /\ UnderWay(t)
  BY DEF EndsWell, TurnsKept, Busy
<1> QED
  BY <1>1, OutcomeIs, EndsIs

LEMMA EndsBadlyIs ==
  ASSUME TalkRows, TurnsKept, NEW t \in Talks, EndsBadly(t)
  PROVE  /\ UnderWay(t) /\ place[t] \in {"root", "worker", "spoken"} /\ place'[t] = "over"
         /\ via'[t] = Nothing /\ talk'[t] = "failed" /\ recovered'[t] = {}
         /\ Len(asked'[t]) = Turn(t)
<1>1. place[t] \in {"root", "worker", "spoken"} /\ EndsAs(t, "failed", "failed", "blocked") /\ UnderWay(t)
  BY DEF EndsBadly, TurnsKept, Busy
<1> QED
  BY <1>1, EndsIs

LEMMA OwnTurnIs ==
  ASSUME TalkRows, TurnsKept, NEW t \in Talks, TalkSteps(t)
  PROVE  OwnTurn(t)
<1>1. CASE BeginTalk(t)
  BY <1>1, BeginIs DEF BeginTalk, TalkRows, OwnTurn
<1>2. CASE Enqueue(t)
  BY <1>2 DEF Enqueue, TalkRows, OwnTurn
<1>3. CASE Prompt(t)
  BY <1>3 DEF Prompt, TalkRows, OwnTurn
<1>4. CASE Speak(t)
  BY <1>4 DEF Speak, TalkRows, OwnTurn
<1>5. CASE Retry(t)
  BY <1>5 DEF Retry, TalkRows, OwnTurn
<1>6. CASE Collide(t)
  <2>1. place[t] = "worker" /\ place' = place /\ via' = via /\ talk' = talk /\ asked' = asked
        /\ recovered' = recovered
    BY <1>6 DEF Collide
  <2> QED
    BY <1>6, <2>1 DEF OwnTurn
<1>7. CASE AsksNext(t)
  BY <1>7, AsksIs DEF OwnTurn
<1>9. CASE EndsWell(t)
  BY <1>9, EndsWellIs DEF OwnTurn
<1>10. CASE EndsBadly(t)
  BY <1>10, EndsBadlyIs DEF OwnTurn
<1> QED
  BY <1>1, <1>2, <1>3, <1>4, <1>5, <1>6, <1>7, <1>9, <1>10 DEF TalkSteps

\* After a restart no turn is under way.
LEMMA RestartIs ==
  ASSUME TalkRows, TurnsKept, RestartTalks, NEW t \in Talks
  PROVE  /\ talk'[t] = (IF UnderWay(t) THEN "failed" ELSE talk[t]) /\ talk'[t] # "running"
         /\ place'[t] = (IF talk[t] = "none" THEN "none" ELSE "gone")
         /\ Len(asked'[t]) = Turn(t) /\ (~UnderWay(t) => asked'[t] = asked[t])
         /\ recovered'[t] = {} /\ via'[t] = Nothing
         /\ MarksOf({u \in Talks : UnderWay(u)})
<1>1. /\ talk'[t] = IF UnderWay(t) THEN "failed" ELSE talk[t]
      /\ asked'[t] = IF UnderWay(t) THEN [asked[t] EXCEPT ![Turn(t)] = "failed"] ELSE asked[t]
      /\ recovered'[t] = {} /\ via'[t] = Nothing
      /\ place'[t] = (IF talk[t] = "none" THEN "none" ELSE "gone")
      /\ log' = Unfinished({u \in Talks : UnderWay(u)})
  BY DEF RestartTalks
<1>2. Len(asked'[t]) = Turn(t)
  <2>1. CASE UnderWay(t)
    BY <1>1, <2>1, StatusesAre, AskedSteps
  <2>2. CASE ~UnderWay(t)
    BY <1>1, <2>2 DEF Turn
  <2> QED
    BY <2>1, <2>2
<1>3. talk'[t] # "running"
  BY <1>1 DEF UnderWay
<1> QED
  BY <1>1, <1>2, <1>3, MarkingKeeps

LEMMA IdleStay ==
  ASSUME TalkRows, SwitchModel \/ UNCHANGED talkVars, NEW u \in Talks
  PROVE  SameTurn(u) /\ heard' = heard /\ log' = log /\ inLine' = inLine /\ mood' = mood
         /\ crossed' = crossed /\ worker' = worker /\ restarted' = restarted
         /\ talk' = talk /\ asked' = asked /\ place' = place /\ via' = via /\ recovered' = recovered
  BY DEF SwitchModel, talkVars, SameTurn

TurnKept(t) ==
  /\ Len(asked[t]) <= Len(CastOf[t])
  /\ talk[t] = "none" <=> place[t] = "none"
  /\ UnderWay(t) <=> place[t] \in Busy
  /\ UnderWay(t) => 1 <= Len(asked[t])
  /\ place[t] \in Served => via[t] \in Adapters

LEMMA TurnsStep ==
  ASSUME TalkRows, TurnsKept, [ConversationNext]_talkVars
  PROVE  TurnsKept'
<1>0. \A u \in Talks : TurnKept(u)
  BY DEF TurnsKept, TurnKept
<1>1. ASSUME NEW u \in Talks, SameTurn(u) PROVE TurnKept(u)'
  BY <1>0, <1>1 DEF SameTurn, TurnKept, UnderWay
<1>2. ASSUME NEW t \in Talks, TalkSteps(t) PROVE TurnKept(t)'
  <2>1. OwnTurn(t)
    BY <1>2, OwnTurnIs
  <2>2. TurnKept(t) /\ model \in Adapters
    BY <1>0 DEF TalkRows
  <2>3. Turn(t) \in Nat /\ Turn(t) <= Len(CastOf[t]) /\ Len(CastOf[t]) \in Nat /\ 1 <= Len(CastOf[t])
        /\ Turn(t) = Len(asked[t])
    BY TurnTyped, CastTyped DEF Turn
  <2>4. place[t] \in Busy => Turn(t) >= 1 /\ talk[t] = "running"
    BY <2>2, <2>3 DEF TurnKept, UnderWay
  <2>8. talk'[t] # "none" /\ place'[t] # "none"
    BY <2>1, <2>4 DEF OwnTurn, Busy
  <2>9. \/ Len(asked'[t]) = 1
        \/ Turn(t) >= 1 /\ Len(asked'[t]) = Turn(t)
        \/ Turn(t) < Len(CastOf[t]) /\ Len(asked'[t]) = Turn(t) + 1
    BY <2>1, <2>3, <2>4 DEF OwnTurn, Busy
  <2>5. Len(asked'[t]) <= Len(CastOf[t]) /\ 1 <= Len(asked'[t]) /\ talk'[t] # "none"
        /\ place'[t] # "none"
    <3> DEFINE new == Len(asked'[t])
    <3> DEFINE n == Turn(t)
    <3> DEFINE k == Len(CastOf[t])
    <3>1. n \in Nat /\ n <= k /\ k \in Nat /\ 1 <= k
      BY <2>3
    <3>2. new = 1 \/ (n >= 1 /\ new = n) \/ (n < k /\ new = n + 1)
      BY <2>9
    <3> HIDE DEF new, n, k
    <3>3. new <= k /\ 1 <= new
      BY <3>1, <3>2
    <3> QED
      BY <2>8, <3>3 DEF new, k
  <2>6. talk'[t] = "running" <=> place'[t] \in Busy
    BY <2>1, <2>4 DEF OwnTurn, Busy
  <2>7. place'[t] \in Served => via'[t] \in Adapters
    BY <2>1, <2>2 DEF OwnTurn, TurnKept, Served
  <2> QED
    BY <2>5, <2>6, <2>7 DEF TurnKept, UnderWay
<1>3. ASSUME RestartTalks, NEW u \in Talks PROVE TurnKept(u)'
  <2>1. TurnKept(u) /\ Len(asked[u]) = Turn(u)
    BY <1>0 DEF Turn
  <2>2. /\ talk'[u] = (IF UnderWay(u) THEN "failed" ELSE talk[u]) /\ talk'[u] # "running"
        /\ place'[u] = (IF talk[u] = "none" THEN "none" ELSE "gone")
        /\ Len(asked'[u]) = Turn(u)
    BY <1>3, RestartIs
  <2> QED
    BY <2>1, <2>2 DEF TurnKept, UnderWay, Busy, Served
<1>4. \A u \in Talks : TurnKept(u)'
  BY <1>1, <1>2, <1>3, OthersStay, IdleStay, StepsSplit
<1> QED
  BY <1>4 DEF TurnsKept, TurnKept

-----------------------------------------------------------------------------
(* What was recovered and what was heard is in the transcript. *)

LEMMA HeardSteps ==
  ASSUME TalkRows, TurnsKept, LogWithin, NEW t \in Talks, TalkSteps(t)
  PROVE  \/ heard' = heard /\ ~Prompt(t) /\ ~Speak(t) /\ ~Retry(t) /\ ~Collide(t)
         \/ Prompt(t) /\ (PromptFresh(t) \/ PromptLive(t))
         \/ Speak(t) /\ HearsAs(t, HeardBy(t) \cup {Len(log[RoomOf[t]]) + 1})
         \/ Retry(t) /\ HearsAs(t, Silent)
         \/ Collide(t) /\ HearsAs(t, recovered[t] \cup Prompted(t))
<1>1. CASE Prompt(t) \/ Speak(t) \/ Retry(t) \/ Collide(t)
  BY <1>1, PromptHears, SpeakSays, RetrySilences, CollideHears
<1>2. CASE ~(Prompt(t) \/ Speak(t) \/ Retry(t) \/ Collide(t))
  <2>1. BeginTalk(t) \/ Enqueue(t) \/ AsksNext(t) \/ EndsWell(t) \/ EndsBadly(t)
    BY <1>2 DEF TalkSteps
  <2>2. heard' = heard
    BY <2>1 DEF BeginTalk, Enqueue, AsksNext, EndsWell, EndsBadly, EndsAs, LeavesLine
  <2> QED
    BY <1>2, <2>2
<1> QED
  BY <1>1, <1>2

\* Who works for another turn hears nothing of this one.
LEMMA OthersHear ==
  ASSUME TalkRows, TurnsKept, LogWithin, QueuesKept, NEW t \in Talks, TalkSteps(t),
         NEW u \in Talks \ {t}, place[u] \in WithWorker
  PROVE  /\ via'[u] = via[u] /\ Speaker(u)' = Speaker(u) /\ Turn(u)' = Turn(u)
         /\ heard'[via[u]][Speaker(u)] = heard[via[u]][Speaker(u)]
<1>1. via'[u] = via[u] /\ Speaker(u)' = Speaker(u) /\ Turn(u)' = Turn(u)
  BY OthersStay DEF SameTurn, Speaker, Turn
<1>2. place[u] \in Served
  BY DEF WithWorker, Served
<1>3. via[u] \in Adapters /\ Speaker(u) \in Speakers
  BY <1>2, ServedTyped
<1>4. ASSUME Prompt(t) \/ Speak(t) \/ Retry(t) \/ Collide(t)
      PROVE  via[u] # via[t] \/ Speaker(u) # Speaker(t)
  <2>1. CASE Prompt(t)
    <3>1. Head(inLine[via[t]][Speaker(t)]) = t
      BY <2>1 DEF Prompt
    <3> QED
      BY <1>2, <3>1, HasPlace
  <2>2. CASE Speak(t) \/ Retry(t) \/ Collide(t)
    <3>1. place[t] \in WithWorker
      BY <2>2 DEF Speak, Retry, Collide, WithWorker
    <3> QED
      BY <3>1, OneAtWork
  <2> QED
    BY <1>4, <2>1, <2>2
<1>5. heard' = heard \/ ((Prompt(t) \/ Speak(t) \/ Retry(t) \/ Collide(t)) /\ \E S : HearsAs(t, S))
  <2> DEFINE Hears == \E S : HearsAs(t, S)
  <2>1. /\ PromptFresh(t) => Hears
        /\ PromptLive(t) => Hears
        /\ HearsAs(t, HeardBy(t) \cup {Len(log[RoomOf[t]]) + 1}) => Hears
        /\ HearsAs(t, Silent) => Hears
        /\ HearsAs(t, recovered[t] \cup Prompted(t)) => Hears
    BY DEF PromptFresh, PromptLive
  <2> HIDE DEF Hears
  <2>3. \/ heard' = heard /\ ~Prompt(t) /\ ~Speak(t) /\ ~Retry(t) /\ ~Collide(t)
        \/ Prompt(t) /\ (PromptFresh(t) \/ PromptLive(t))
        \/ Speak(t) /\ HearsAs(t, HeardBy(t) \cup {Len(log[RoomOf[t]]) + 1})
        \/ Retry(t) /\ HearsAs(t, Silent)
        \/ Collide(t) /\ HearsAs(t, recovered[t] \cup Prompted(t))
    BY HeardSteps
  <2>2. heard' = heard \/ ((Prompt(t) \/ Speak(t) \/ Retry(t) \/ Collide(t)) /\ Hears)
    BY <2>1, <2>3
  <2> QED
    BY <2>2 DEF Hears
<1>6. heard'[via[u]][Speaker(u)] = heard[via[u]][Speaker(u)]
  BY <1>3, <1>4, <1>5 DEF HearsAs
<1> QED
  BY <1>1, <1>6

\* The place of the speaker's own words
LEMMA SpokenWithin ==
  ASSUME TalkRows, TurnsKept, NEW t \in Talks, Speak(t)
  PROVE  /\ Len(log[RoomOf[t]]) + 1 \in DOMAIN log'[RoomOf[t]]
         /\ DOMAIN log[RoomOf[t]] \subseteq DOMAIN log'[RoomOf[t]]
  BY SpeakSays, CastTyped DEF SaysIn

LEMMA HeardWithin ==
  ASSUME TalkRows, TurnsKept, LogWithin, QueuesKept, NEW t \in Talks,
         Prompt(t) \/ Speak(t) \/ Retry(t) \/ Collide(t), [ConversationNext]_talkVars
  PROVE  \E S \in SUBSET DOMAIN log'[RoomOf[t]] : HearsAs(t, S) \/ (Retry(t) /\ HearsAs(t, Silent))
<1>1. RoomOf[t] \in Rooms
  BY CastTyped
<1>2. DOMAIN log[RoomOf[t]] \subseteq DOMAIN log'[RoomOf[t]]
  BY <1>1, LogSteps DEF LogGoesOn
<1>3. recovered[t] \subseteq DOMAIN log[RoomOf[t]] /\ Prompted(t) \subseteq DOMAIN log[RoomOf[t]]
  BY ReplayTyped DEF Words
<1>4. place[t] \in WithWorker => HeardBy(t) \subseteq DOMAIN log[RoomOf[t]]
  BY DEF LogWithin, HeardBy
<1>5. CASE Prompt(t)
  <2>1. CASE PromptFresh(t)
    BY <1>2, <1>3, <2>1 DEF PromptFresh
  <2>2. CASE PromptLive(t)
    <3>1. place[t] \in Served
      BY <1>5 DEF Prompt, Served
    <3>2. HeardBy(t) \subseteq DOMAIN log[RoomOf[t]]
      BY <1>1, <2>2, <3>1, ServedTyped DEF PromptLive, LogWithin, HeardBy
    <3> QED
      BY <1>2, <1>3, <2>2, <3>2 DEF PromptLive
  <2> QED
    BY <1>5, <2>1, <2>2, PromptHears
<1>6. CASE Speak(t)
  <2>1. HeardBy(t) \cup {Len(log[RoomOf[t]]) + 1} \subseteq DOMAIN log'[RoomOf[t]]
    BY <1>4, <1>6, SpokenWithin DEF Speak, WithWorker
  <2> QED
    BY <1>6, <2>1, SpeakSays
<1>7. CASE Collide(t)
  BY <1>2, <1>3, <1>7, CollideHears
<1>8. CASE Retry(t)
  BY <1>8, RetrySilences
<1> QED
  BY <1>5, <1>6, <1>7, <1>8

LEMMA WithinStep ==
  ASSUME TalkRows, TurnsKept, LogWithin, QueuesKept, [ConversationNext]_talkVars
  PROVE  LogWithin'
<1>g. \A s \in Rooms : DOMAIN log[s] \subseteq DOMAIN log'[s]
  BY LogSteps DEF LogGoesOn
<1>r. ASSUME NEW u \in Talks PROVE RoomOf[u] \in Rooms
  BY CastTyped
<1>1. ASSUME NEW t \in Talks, TalkSteps(t), NEW u \in Talks
      PROVE  recovered'[u] \subseteq DOMAIN log'[RoomOf[u]]
  <2>1. recovered[u] \subseteq DOMAIN log'[RoomOf[u]]
    BY <1>g, <1>r DEF LogWithin
  <2>2. CASE u # t
    BY <1>1, <2>1, <2>2, OthersStay DEF SameTurn
  <2>3. CASE u = t
    <3>1. recovered'[t] = recovered[t] \/ recovered'[t] = {}
          \/ (recovered'[t] = Transcript(t) /\ BeginTalk(t))
      BY <1>1, OwnTurnIs DEF OwnTurn
    <3>2. BeginTalk(t) => Transcript(t) \subseteq DOMAIN log'[RoomOf[t]]
      BY <1>g, <1>r, BeginIs DEF Words
    <3> QED
      BY <2>1, <2>3, <3>1, <3>2
  <2> QED
    BY <2>2, <2>3
<1>2. ASSUME NEW t \in Talks, TalkSteps(t), NEW r \in Adapters, NEW c \in Speakers, NEW s \in Rooms
      PROVE  heard'[r][c][s] = Silent \/ heard'[r][c][s] \subseteq DOMAIN log'[s]
  <2>1. heard[r][c][s] = Silent \/ heard[r][c][s] \subseteq DOMAIN log'[s]
    BY <1>g DEF LogWithin
  <2>2. CASE heard' = heard
    BY <2>1, <2>2
  <2>3. CASE Prompt(t) \/ Speak(t) \/ Retry(t) \/ Collide(t)
    <3>1. PICK S \in SUBSET DOMAIN log'[RoomOf[t]] :
             HearsAs(t, S) \/ (Retry(t) /\ HearsAs(t, Silent))
      BY <2>3, HeardWithin
    <3>2. CASE r # via[t] \/ c # Speaker(t)
      BY <2>1, <3>1, <3>2 DEF HearsAs
    <3>3. CASE r = via[t] /\ c = Speaker(t)
      <4>1. CASE s # RoomOf[t]
        BY <2>1, <3>1, <3>3, <4>1 DEF HearsAs
      <4>2. CASE s = RoomOf[t]
        BY <3>1, <3>3, <4>2 DEF HearsAs
      <4> QED
        BY <4>1, <4>2
    <3> QED
      BY <3>2, <3>3
  <2> QED
    BY <1>2, <2>2, <2>3, HeardSteps
<1>3. ASSUME NEW t \in Talks, TalkSteps(t), NEW u \in Talks, place'[u] \in WithWorker
      PROVE  HeardBy(u)' \subseteq DOMAIN log'[RoomOf[u]]
  <2>1. CASE u # t
    <3>1. place[u] \in WithWorker
      BY <1>3, <2>1, OthersStay DEF SameTurn
    <3>2. heard'[via[u]][Speaker(u)] = heard[via[u]][Speaker(u)] /\ via'[u] = via[u]
          /\ Speaker(u)' = Speaker(u)
      BY <1>3, <2>1, <3>1, OthersHear
    <3>3. HeardBy(u) \subseteq DOMAIN log'[RoomOf[u]]
      BY <1>g, <1>r, <3>1 DEF LogWithin, HeardBy
    <3> QED
      BY <3>2, <3>3 DEF HeardBy
  <2>2. CASE u = t
    <3>1. (Prompt(t) \/ Speak(t) \/ Collide(t)) /\ via'[t] = via[t] /\ asked'[t] = asked[t]
          /\ ~Retry(t)
      <4>1. OwnTurn(t)
        BY <1>3, OwnTurnIs
      <4>2. Retry(t) => place'[t] = "queue"
        BY <1>3 DEF Retry, TalkRows
      <4> QED
        BY <1>3, <2>2, <4>1, <4>2 DEF OwnTurn, WithWorker
    <3>2. PICK S \in SUBSET DOMAIN log'[RoomOf[t]] : HearsAs(t, S)
      BY <3>1, HeardWithin
    <3>3. HeardBy(t)' = S
      BY <3>1, <3>2 DEF HeardBy, HearsAs, Speaker, Turn
    <3> QED
      BY <2>2, <3>3
  <2> QED
    BY <2>1, <2>2
<1>4. ASSUME NEW t \in Talks, TalkSteps(t) PROVE LogWithin'
  BY <1>1, <1>2, <1>3, <1>4 DEF LogWithin, HeardBy
<1>5. ASSUME RestartTalks PROVE LogWithin'
  <2>1. \A u \in Talks : recovered'[u] = {} /\ place'[u] \notin WithWorker
    BY <1>5, RestartIs DEF WithWorker
  <2>2. \A r \in Adapters, c \in Speakers, s \in Rooms : heard'[r][c][s] = Silent
    BY <1>5 DEF RestartTalks
  <2> QED
    BY <2>1, <2>2 DEF LogWithin
<1>6. ASSUME SwitchModel \/ UNCHANGED talkVars PROVE LogWithin'
  <2>1. heard' = heard /\ log' = log /\ asked' = asked /\ place' = place /\ via' = via
        /\ recovered' = recovered
    BY <1>6 DEF SwitchModel, talkVars
  <2> QED
    BY <2>1 DEF LogWithin, Speaker, Turn
<1> QED
  BY <1>4, <1>5, <1>6, StepsSplit

-----------------------------------------------------------------------------
(* The queues of the characters *)

\* t is served by character c of adapter r.
InLine(t, r, c) == place[t] \in Served /\ via[t] = r /\ Speaker(t) = c

LineKept(r, c) ==
  /\ \A i, j \in DOMAIN inLine[r][c] : inLine[r][c][i] = inLine[r][c][j] => i = j
  /\ \A i \in DOMAIN inLine[r][c] :
       InLine(inLine[r][c][i], r, c) /\ (place[inLine[r][c][i]] \in WithWorker => i = 1)
  /\ \A t \in Talks : InLine(t, r, c) => \E i \in DOMAIN inLine[r][c] : inLine[r][c][i] = t

LEMMA LinesAre ==
  TalkRows /\ TurnsKept => (QueuesKept <=> \A r \in Adapters, c \in Speakers : LineKept(r, c))
<1> SUFFICES ASSUME TalkRows, TurnsKept
             PROVE  QueuesKept <=> \A r \in Adapters, c \in Speakers : LineKept(r, c)
  OBVIOUS
<1>1. ASSUME QueuesKept, NEW r \in Adapters, NEW c \in Speakers PROVE LineKept(r, c)
  BY <1>1 DEF QueuesKept, LineKept, InLine
<1>2. ASSUME \A r \in Adapters, c \in Speakers : LineKept(r, c) PROVE QueuesKept
  <2>1. ASSUME NEW t \in Talks, place[t] \in Served
        PROVE  \E i \in DOMAIN inLine[via[t]][Speaker(t)] : inLine[via[t]][Speaker(t)][i] = t
    <3>1. via[t] \in Adapters /\ Speaker(t) \in Speakers
      BY <2>1, ServedTyped
    <3> QED
      BY <1>2, <2>1, <3>1 DEF LineKept, InLine
  <2>2. ASSUME NEW r \in Adapters, NEW c \in Speakers
        PROVE  /\ \A i, j \in DOMAIN inLine[r][c] : inLine[r][c][i] = inLine[r][c][j] => i = j
               /\ \A i \in DOMAIN inLine[r][c] :
                    LET t == inLine[r][c][i] IN
                    /\ place[t] \in Served /\ via[t] = r /\ Speaker(t) = c
                    /\ place[t] \in WithWorker => i = 1
    BY <1>2 DEF LineKept, InLine
  <2> QED
    BY <2>1, <2>2 DEF QueuesKept
<1> QED
  BY <1>1, <1>2

\* A queue is kept that lost nothing but its first or got another at its end.
LEMMA LineSame ==
  ASSUME NEW q \in Seq(Talks), NEW r, NEW c, inLine[r][c] = q, inLine'[r][c] = q, LineKept(r, c),
         \A u \in Talks : (InLine(u, r, c) <=> InLine(u, r, c)'),
         \A u \in Talks : InLine(u, r, c) /\ place'[u] \in WithWorker
           => place[u] \in WithWorker \/ Head(q) = u
  PROVE  LineKept(r, c)'
<1>1. \A i \in DOMAIN q : q[i] \in Talks
  BY SeqShape
<1>2. ASSUME NEW i \in DOMAIN q PROVE InLine(q[i], r, c)'
  BY <1>1 DEF LineKept
<1>3. ASSUME NEW i \in DOMAIN q, place'[q[i]] \in WithWorker PROVE i = 1
  <2>1. place[q[i]] \in WithWorker \/ Head(q) = q[i]
    BY <1>1, <1>3 DEF LineKept
  <2>2. q # <<>> /\ Head(q) = q[1] /\ 1 \in DOMAIN q
    BY TailShape
  <2> QED
    BY <2>1, <2>2 DEF LineKept
<1> QED
  BY <1>2, <1>3 DEF LineKept

LEMMA LineJoined ==
  ASSUME NEW q \in Seq(Talks), NEW r, NEW c, NEW t \in Talks, inLine[r][c] = q, LineKept(r, c),
         inLine'[r][c] = Append(q, t),
         ~InLine(t, r, c), InLine(t, r, c)', place'[t] \notin WithWorker,
         \A u \in Talks \ {t} : (InLine(u, r, c) <=> InLine(u, r, c)') /\ place'[u] = place[u]
  PROVE  LineKept(r, c)'
<1> DEFINE p == Append(q, t)
<1>1. \A i \in DOMAIN q : q[i] \in Talks /\ q[i] # t
  BY SeqShape DEF LineKept
<1>2. /\ DOMAIN q \subseteq DOMAIN p /\ \A i \in DOMAIN q : p[i] = q[i]
      /\ \A i \in DOMAIN p : i \in DOMAIN q \/ (i = Len(q) + 1 /\ p[i] = t)
      /\ Len(q) + 1 \in DOMAIN p /\ p[Len(q) + 1] = t
  BY AppendShape, SeqShape
<1> HIDE DEF p
<1>3. inLine'[r][c] = p
  BY DEF p
<1>4. ASSUME NEW i \in DOMAIN p, NEW j \in DOMAIN p, p[i] = p[j] PROVE i = j
  BY <1>1, <1>2, <1>4 DEF LineKept
<1>5. ASSUME NEW i \in DOMAIN p PROVE InLine(p[i], r, c)' /\ (place'[p[i]] \in WithWorker => i = 1)
  <2>1. CASE i \in DOMAIN q
    BY <1>1, <1>2, <2>1 DEF LineKept
  <2>2. CASE i \notin DOMAIN q
    BY <1>2, <2>2
  <2> QED
    BY <2>1, <2>2
<1>6. ASSUME NEW u \in Talks, InLine(u, r, c)' PROVE \E i \in DOMAIN p : p[i] = u
  <2>1. CASE u = t
    BY <1>2, <2>1
  <2>2. CASE u # t
    BY <1>2, <1>6, <2>2 DEF LineKept
  <2> QED
    BY <2>1, <2>2
<1> QED
  BY <1>3, <1>4, <1>5, <1>6 DEF LineKept

LEMMA LineLeft ==
  ASSUME NEW q \in Seq(Talks), NEW r, NEW c, NEW t \in Talks, inLine[r][c] = q, LineKept(r, c),
         q # <<>>, Head(q) = t, inLine'[r][c] = Tail(q),
         ~InLine(t, r, c)',
         \A u \in Talks \ {t} : (InLine(u, r, c) <=> InLine(u, r, c)') /\ place'[u] = place[u]
  PROVE  LineKept(r, c)'
<1> DEFINE p == Tail(q)
<1>1. \A i \in DOMAIN q : q[i] \in Talks
  BY SeqShape
<1>2. /\ \A i \in DOMAIN p : i + 1 \in DOMAIN q /\ p[i] = q[i + 1]
      /\ \A i \in DOMAIN q : i # 1 => i - 1 \in DOMAIN p /\ p[i - 1] = q[i]
      /\ q[1] = t /\ 1 \in DOMAIN q /\ p \in Seq(Talks)
  BY TailShape
<1>3. inLine'[r][c] = p
  OBVIOUS
<1>4. \A i \in DOMAIN p : i \in Nat /\ 1 <= i
  BY <1>2, SeqShape
<1> HIDE DEF p
<1>5. ASSUME NEW i \in DOMAIN p
      PROVE  p[i] # t /\ p[i] \in Talks /\ InLine(p[i], r, c) /\ place[p[i]] \notin WithWorker
  <2>1. i + 1 \in DOMAIN q /\ p[i] = q[i + 1] /\ i + 1 # 1
    BY <1>2, <1>4
  <2> QED
    BY <1>1, <1>2, <2>1 DEF LineKept
<1>6. ASSUME NEW i \in DOMAIN p, NEW j \in DOMAIN p, p[i] = p[j] PROVE i = j
  <2>1. i + 1 \in DOMAIN q /\ j + 1 \in DOMAIN q /\ q[i + 1] = q[j + 1]
    BY <1>2, <1>6
  <2>2. i + 1 = j + 1
    BY <2>1 DEF LineKept
  <2> QED
    BY <1>4, <2>2
<1>7. ASSUME NEW i \in DOMAIN p PROVE InLine(p[i], r, c)' /\ (place'[p[i]] \in WithWorker => i = 1)
  BY <1>5
<1>8. ASSUME NEW u \in Talks, InLine(u, r, c)' PROVE \E i \in DOMAIN p : p[i] = u
  <2>1. u # t
    BY <1>8
  <2>2. PICK i \in DOMAIN q : q[i] = u
    BY <1>8, <2>1 DEF LineKept
  <2>3. i # 1
    BY <1>2, <2>1, <2>2
  <2> QED
    BY <1>2, <2>2, <2>3
<1> QED
  BY <1>3, <1>6, <1>7, <1>8 DEF LineKept

LEMMA LineRequeued ==
  ASSUME NEW q \in Seq(Talks), NEW r, NEW c, NEW t \in Talks, inLine[r][c] = q, LineKept(r, c),
         q # <<>>, Head(q) = t, inLine'[r][c] = Append(Tail(q), t),
         InLine(t, r, c)', place'[t] \notin WithWorker,
         \A u \in Talks \ {t} : (InLine(u, r, c) <=> InLine(u, r, c)') /\ place'[u] = place[u]
  PROVE  LineKept(r, c)'
<1> DEFINE p == Tail(q)
<1> DEFINE l == Append(p, t)
<1>3. /\ \A i \in DOMAIN p : i + 1 \in DOMAIN q /\ p[i] = q[i + 1]
      /\ \A i \in DOMAIN q : i # 1 => i - 1 \in DOMAIN p /\ p[i - 1] = q[i]
      /\ q[1] = t /\ 1 \in DOMAIN q /\ p \in Seq(Talks)
  BY TailShape
<1>4. /\ DOMAIN p \subseteq DOMAIN l /\ \A i \in DOMAIN p : l[i] = p[i]
      /\ \A i \in DOMAIN l : i \in DOMAIN p \/ (i = Len(p) + 1 /\ l[i] = t)
      /\ Len(p) + 1 \in DOMAIN l /\ l[Len(p) + 1] = t
  BY <1>3, AppendShape, SeqShape
<1>5. (\A i \in DOMAIN p : i \in Nat /\ 1 <= i) /\ \A i \in DOMAIN q : q[i] \in Talks
  BY <1>3, SeqShape
<1>13. inLine'[r][c] = l
  OBVIOUS
<1> HIDE DEF p, l
<1>6. /\ \A i, j \in DOMAIN q : q[i] = q[j] => i = j
      /\ \A i \in DOMAIN q : InLine(q[i], r, c) /\ (place[q[i]] \in WithWorker => i = 1)
      /\ \A u \in Talks : InLine(u, r, c) => \E i \in DOMAIN q : q[i] = u
  BY DEF LineKept
<1>8. ASSUME NEW i \in DOMAIN p
      PROVE  p[i] \in Talks \ {t} /\ InLine(p[i], r, c)' /\ place'[p[i]] \notin WithWorker
  <2>1. i + 1 \in DOMAIN q /\ p[i] = q[i + 1] /\ i + 1 # 1
    BY <1>3, <1>5
  <2>3. q[i + 1] # q[1]
    BY <1>3, <1>6, <2>1
  <2>2. p[i] \in Talks \ {t} /\ InLine(p[i], r, c) /\ place[p[i]] \notin WithWorker
    BY <1>3, <1>5, <1>6, <2>1, <2>3
  <2> QED
    BY <2>2
<1>9. ASSUME NEW i \in DOMAIN p, NEW j \in DOMAIN p, p[i] = p[j] PROVE i = j
  <2>1. i + 1 \in DOMAIN q /\ j + 1 \in DOMAIN q /\ q[i + 1] = q[j + 1]
    BY <1>3, <1>9
  <2>2. i + 1 = j + 1
    BY <1>6, <2>1
  <2> QED
    BY <1>5, <2>2
<1>10. ASSUME NEW i \in DOMAIN l, NEW j \in DOMAIN l, l[i] = l[j] PROVE i = j
  BY <1>4, <1>8, <1>9, <1>10
<1>11. ASSUME NEW i \in DOMAIN l
       PROVE  InLine(l[i], r, c)' /\ (place'[l[i]] \in WithWorker => i = 1)
  <2>1. CASE i \in DOMAIN p
    BY <1>4, <1>8, <2>1
  <2>2. CASE i \notin DOMAIN p
    BY <1>4, <2>2
  <2> QED
    BY <2>1, <2>2
<1>12. ASSUME NEW u \in Talks, InLine(u, r, c)' PROVE \E i \in DOMAIN l : l[i] = u
  <2>1. CASE u = t
    BY <1>4, <2>1
  <2>2. CASE u # t
    <3>1. PICK i \in DOMAIN q : q[i] = u
      BY <1>6, <1>12, <2>2
    <3>2. i - 1 \in DOMAIN p /\ p[i - 1] = u
      BY <1>3, <2>2, <3>1
    <3> QED
      BY <1>4, <3>2
  <2> QED
    BY <2>1, <2>2
<1> QED
  BY <1>13, <1>10, <1>11, <1>12 DEF LineKept

LEMMA LinesUntouched ==
  ASSUME TalkRows, TurnsKept, QueuesKept, NEW t \in Talks, TalkSteps(t),
         NEW r \in Adapters, NEW c \in Speakers, inLine'[r][c] = inLine[r][c],
         InLine(t, r, c) <=> InLine(t, r, c)',
         InLine(t, r, c) /\ place'[t] \in WithWorker => place[t] \in WithWorker \/ Head(inLine[r][c]) = t
  PROVE  LineKept(r, c)'
<1>1. inLine[r][c] \in Seq(Talks) /\ LineKept(r, c)
  BY LinesAre DEF TalkRows
<1>2. ASSUME NEW u \in Talks \ {t}
      PROVE  (InLine(u, r, c) <=> InLine(u, r, c)') /\ place'[u] = place[u]
  BY OthersStay DEF SameTurn, InLine, Speaker, Turn
<1> QED
  BY <1>1, <1>2, LineSame

LEMMA QueuesStep ==
  ASSUME TalkRows, TurnsKept, LogWithin, QueuesKept, [ConversationNext]_talkVars
  PROVE  QueuesKept'
<1>p. TalkRows' /\ TurnsKept'
  BY RowsStep, TurnsStep
<1>q. \A r \in Adapters, c \in Speakers : inLine[r][c] \in Seq(Talks) /\ LineKept(r, c)
  BY LinesAre DEF TalkRows
<1>1. ASSUME NEW t \in Talks, TalkSteps(t), NEW r \in Adapters, NEW c \in Speakers
      PROVE  LineKept(r, c)'
  <2>o. ASSUME NEW u \in Talks \ {t}
        PROVE  (InLine(u, r, c) <=> InLine(u, r, c)') /\ place'[u] = place[u]
    BY <1>1, OthersStay DEF SameTurn, InLine, Speaker, Turn
  <2>t. OwnTurn(t)
    BY <1>1, OwnTurnIs
  <2>1. CASE BeginTalk(t)
    <3>1. inLine' = inLine /\ place[t] = "none" /\ place'[t] = "root"
      BY <2>1, BeginIs DEF BeginTalk, TalkRows
    <3> QED
      BY <1>1, <3>1, LinesUntouched DEF InLine, Served
  <2>2. CASE Enqueue(t)
    <3>1. place[t] = "root" /\ place'[t] = "queue" /\ via'[t] = model /\ asked' = asked
          /\ inLine' = [inLine EXCEPT ![model][Speaker(t)] = Append(inLine[model][Speaker(t)], t)]
      BY <2>2 DEF Enqueue, TalkRows
    <3>2. Speaker(t)' = Speaker(t)
      BY <3>1 DEF Speaker, Turn
    <3>3. CASE r = model /\ c = Speaker(t)
      <4>1. inLine'[r][c] = Append(inLine[r][c], t)
        BY <3>1, <3>3 DEF TalkRows
      <4>2. ~InLine(t, r, c) /\ InLine(t, r, c)' /\ place'[t] \notin WithWorker
        BY <3>1, <3>2, <3>3 DEF InLine, Served, WithWorker
      <4> QED
        BY <1>q, <2>o, <4>1, <4>2, LineJoined
    <3>4. CASE r # model \/ c # Speaker(t)
      <4>1. inLine'[r][c] = inLine[r][c]
        BY <3>1, <3>4 DEF TalkRows
      <4>2. ~InLine(t, r, c) /\ ~InLine(t, r, c)'
        BY <3>1, <3>2, <3>4 DEF InLine, Served
      <4> QED
        BY <1>1, <4>1, <4>2, LinesUntouched
    <3> QED
      BY <3>3, <3>4
  <2>3. CASE Prompt(t) \/ Speak(t) \/ Collide(t)
    <3>1. inLine' = inLine /\ asked' = asked /\ via' = via /\ place[t] \in Served /\ place'[t] \in WithWorker
      BY <2>3 DEF Prompt, Speak, Collide, Served, WithWorker, TalkRows
    <3>2. InLine(t, r, c) <=> InLine(t, r, c)'
      BY <3>1 DEF InLine, Speaker, Turn, Served, WithWorker
    <3>3. InLine(t, r, c) => place[t] \in WithWorker \/ Head(inLine[r][c]) = t
      BY <2>3 DEF Prompt, Speak, Collide, WithWorker, InLine
    <3> QED
      BY <1>1, <3>1, <3>2, <3>3, LinesUntouched
  <2>4. CASE AsksNext(t) \/ EndsWell(t) \/ EndsBadly(t)
    <3>1. UnderWay(t) /\ inLine' = Left(t) /\ place[t] # "queue" /\ place'[t] \notin Served
      <4>1. LeavesLine(t) /\ place[t] \in {"root", "worker", "spoken"}
        BY <2>4 DEF AsksNext, EndsWell, EndsBadly, EndsAs
      <4>2. place'[t] \in {"root", "over"}
        BY <2>4 DEF AsksNext, EndsWell, EndsBadly, EndsAs, TalkRows
      <4> QED
        BY <4>1, <4>2 DEF LeavesLine, TurnsKept, Busy, Served
    <3>2. ~InLine(t, r, c)'
      BY <3>1 DEF InLine
    <3>3. CASE InLine(t, r, c)
      <4>1. place[t] \in Served /\ place[t] \in WithWorker /\ place[t] # "root" /\ r = via[t]
            /\ c = Speaker(t)
        BY <3>1, <3>3 DEF InLine, Served, WithWorker
      <4>2. inLine[r][c] # <<>> /\ Head(inLine[r][c]) = t
        BY <4>1, HasPlace
      <4>3. inLine'[r][c] = Tail(inLine[r][c])
        <5>1. inLine' = [inLine EXCEPT ![r][c] = Tail(inLine[r][c])]
          BY <3>1, <4>1, LeftIs
        <5> QED
          BY <5>1 DEF TalkRows
      <4> QED
        BY <1>q, <2>o, <3>2, <4>2, <4>3, LineLeft
    <3>4. CASE ~InLine(t, r, c)
      <4>1. inLine'[r][c] = inLine[r][c]
        <5>1. CASE place[t] = "root"
          BY <3>1, <5>1, LeftIs
        <5>2. CASE place[t] # "root"
          <6>1. place[t] \in Served
            BY <3>1, <5>2 DEF TurnsKept, Busy, Served
          <6>2. via[t] # r \/ Speaker(t) # c
            BY <3>4, <6>1 DEF InLine
          <6> QED
            <7>1. inLine' = [inLine EXCEPT ![via[t]][Speaker(t)] = Tail(@)]
              BY <3>1, <5>2, LeftIs
            <7>2. via[t] \in Adapters /\ Speaker(t) \in Speakers
              BY <6>1, ServedTyped
            <7> QED
              BY <6>2, <7>1, <7>2 DEF TalkRows
        <5> QED
          BY <5>1, <5>2
      <4> QED
        BY <1>1, <3>2, <3>4, <4>1, LinesUntouched
    <3> QED
      BY <3>3, <3>4
  <2>5. CASE Retry(t)
    <3>1. /\ place[t] = "worker" /\ place'[t] = "queue" /\ asked' = asked /\ via' = via
          /\ inLine' = [inLine EXCEPT ![via[t]][Speaker(t)] = Append(Tail(inLine[via[t]][Speaker(t)]), t)]
      BY <2>5 DEF Retry, TalkRows
    <3>2. place[t] \in Served /\ place[t] \in WithWorker /\ place'[t] \in Served /\ place'[t] \notin WithWorker
      BY <3>1 DEF Served, WithWorker
    <3>3. Speaker(t)' = Speaker(t) /\ via[t] \in Adapters /\ Speaker(t) \in Speakers
      BY <3>1, <3>2, ServedTyped DEF Speaker, Turn
    <3>4. CASE r = via[t] /\ c = Speaker(t)
      <4> DEFINE q == inLine[r][c]
      <4>1. q \in Seq(Talks) /\ q # <<>> /\ Head(q) = t /\ LineKept(r, c)
        BY <1>q, <3>2, <3>4, HasPlace
      <4>2. inLine'[r][c] = Append(Tail(q), t)
        BY <3>1, <3>3, <3>4 DEF TalkRows
      <4>3. InLine(t, r, c)'
        BY <3>1, <3>2, <3>3, <3>4 DEF InLine
      <4> HIDE DEF q
      <4>4. inLine[r][c] = q /\ inLine'[r][c] = Append(Tail(q), t)
        BY <4>2 DEF q
      <4> QED
        BY <2>o, <3>2, <4>1, <4>3, <4>4, LineRequeued
    <3>5. CASE r # via[t] \/ c # Speaker(t)
      <4>1. inLine'[r][c] = inLine[r][c]
        BY <3>1, <3>3, <3>5 DEF TalkRows
      <4>2. ~InLine(t, r, c) /\ ~InLine(t, r, c)'
        BY <3>1, <3>3, <3>5 DEF InLine
      <4> QED
        BY <1>1, <4>1, <4>2, LinesUntouched
    <3> QED
      BY <3>4, <3>5
  <2> QED
    BY <1>1, <2>1, <2>2, <2>3, <2>4, <2>5 DEF TalkSteps
<1>2. ASSUME NEW t \in Talks, TalkSteps(t) PROVE QueuesKept'
  <2>1. \A r \in Adapters, c \in Speakers : LineKept(r, c)'
    BY <1>1, <1>2
  <2>2. (TalkRows /\ TurnsKept => (QueuesKept <=> \A r \in Adapters, c \in Speakers : LineKept(r, c)))'
    BY LinesAre, PTL
  <2> QED
    BY <1>p, <2>1, <2>2
<1>3. ASSUME RestartTalks PROVE QueuesKept'
  <2>1. \A t \in Talks : place'[t] \notin Served
    BY <1>3, RestartIs DEF Served
  <2>2. \A r \in Adapters, c \in Speakers : inLine'[r][c] = <<>>
    BY <1>3 DEF RestartTalks
  <2> QED
    BY <2>1, <2>2 DEF QueuesKept
<1>4. ASSUME SwitchModel \/ UNCHANGED talkVars PROVE QueuesKept'
  <2>1. inLine' = inLine /\ asked' = asked /\ place' = place /\ via' = via
    BY <1>4 DEF SwitchModel, talkVars
  <2> QED
    BY <2>1 DEF QueuesKept, Speaker, Turn
<1> QED
  BY <1>2, <1>3, <1>4, StepsSplit

-----------------------------------------------------------------------------
(* The messages *)

\* How a step changes the transcript
LogStep(t) ==
  \/ log' = log /\ ~Speak(t) /\ ~EndsBadly(t) /\ (BeginTalk(t) => t \in Peers)
  \/ BeginTalk(t) /\ t \notin Peers /\ SaysIn(t, Owner, 0)
  \/ Speak(t) /\ SaysIn(t, Speaker(t), Turn(t))
  \/ EndsBadly(t) /\ MarksOf({t})

LEMMA LogStepIs ==
  ASSUME TalkRows, TurnsKept, NEW t \in Talks, TalkSteps(t)
  PROVE  LogStep(t)
<1>1. CASE BeginTalk(t)
  <2>1. place[t] = "none"
    BY <1>1, BeginIs
  <2>2. ~Speak(t) /\ ~EndsBadly(t)
    BY <2>1 DEF Speak, EndsBadly
  <2> QED
    BY <1>1, <2>2, BeginIs DEF LogStep
<1>2. CASE Speak(t)
  BY <1>2, SpeakSays DEF LogStep
<1>3. CASE EndsBadly(t)
  BY <1>3, MarkingKeeps DEF LogStep, EndsBadly
<1>4. CASE ~BeginTalk(t) /\ ~Speak(t) /\ ~EndsBadly(t)
  <2>1. Enqueue(t) \/ Prompt(t) \/ Retry(t) \/ Collide(t) \/ AsksNext(t) \/ EndsWell(t)
    BY <1>4 DEF TalkSteps
  <2>2. log' = log
    BY <2>1 DEF Enqueue, Prompt, Retry, Collide, AsksNext, EndsWell
  <2> QED
    BY <1>4, <2>2 DEF LogStep
<1> QED
  BY <1>1, <1>2, <1>3, <1>4

\* u is the turn of a message of run n in room s, that was marked or not.
Belongs(u, s, n, marked) ==
  /\ RoomOf[u] = s /\ talk[u] # "none"
  /\ n <= Turn(u)
  /\ n = Turn(u) /\ UnderWay(u) => place[u] = "spoken"
  /\ marked => ~UnderWay(u)

LEMMA MessagesAre ==
  MessagesKept <=> \A s \in Rooms : \A i \in DOMAIN log[s] :
                     Belongs(log[s][i].talk, s, log[s][i].run, log[s][i].failed)
  BY DEF MessagesKept, Belongs

LEMMA BelongsStays ==
  ASSUME TalkRows, TurnsKept, NEW t \in Talks, TalkSteps(t), NEW s, NEW n \in Nat,
         NEW u \in Talks, NEW b, NEW b2, Belongs(u, s, n, b),
         b2 = b \/ (u = t /\ EndsBadly(t))
  PROVE  Belongs(u, s, n, b2)'
<1>1. CASE u # t
  BY <1>1, OthersStay DEF SameTurn, Belongs, Turn, UnderWay
<1>2. CASE u = t
  <2>1. OwnTurn(t)
    BY OwnTurnIs
  <2>2. talk[t] # "none" /\ n <= Turn(t) /\ (n = Turn(t) /\ UnderWay(t) => place[t] = "spoken")
        /\ (b => ~UnderWay(t)) /\ RoomOf[t] = s
    BY <1>2 DEF Belongs
  <2>3. Turn(t) \in Nat /\ (UnderWay(t) <=> place[t] \in Busy)
    BY TurnTyped DEF TurnsKept
  <2>4. CASE EndsWell(t) \/ EndsBadly(t)
    <3>1. talk'[t] # "running" /\ talk'[t] # "none" /\ Len(asked'[t]) = Turn(t)
      BY <2>4, EndsWellIs, EndsBadlyIs
    <3> QED
      BY <1>2, <2>2, <3>1 DEF Belongs, Turn, UnderWay
  <2>5. CASE AsksNext(t)
    <3>1. place[t] \in {"worker", "spoken"} /\ place'[t] = "root" /\ Len(asked'[t]) = Turn(t) + 1
          /\ talk'[t] = talk[t]
      BY <2>5, AsksIs
    <3>2. UnderWay(t) /\ ~b /\ ~EndsBadly(t)
      BY <2>2, <2>5, <3>1, AsksIs, EndsBadlyIs
    <3>3. n <= Turn(t) + 1 /\ n # Turn(t) + 1
      BY <2>2, <2>3
    <3> QED
      BY <1>2, <2>2, <3>1, <3>2, <3>3 DEF Belongs, Turn, UnderWay
  <2>6. CASE ~EndsWell(t) /\ ~EndsBadly(t) /\ ~AsksNext(t)
    <3>1. /\ place[t] \in {"root", "queue", "worker"}
          /\ talk'[t] = talk[t] /\ asked'[t] = asked[t]
      BY <2>1, <2>2, <2>6 DEF OwnTurn
    <3>2. n # Turn(t) /\ b2 = b
      BY <2>2, <2>3, <2>6, <3>1 DEF Busy
    <3> QED
      BY <1>2, <2>2, <3>1, <3>2 DEF Belongs, Turn, UnderWay
  <2> QED
    BY <2>4, <2>5, <2>6
<1> QED
  BY <1>1, <1>2

LEMMA MessagesStep ==
  ASSUME TalkRows, TurnsKept, MessagesKept, [ConversationNext]_talkVars
  PROVE  MessagesKept'
<1>0. \A s \in Rooms : \A i \in DOMAIN log[s] :
        /\ Belongs(log[s][i].talk, s, log[s][i].run, log[s][i].failed)
        /\ log[s][i].talk \in Talks /\ log[s][i].run \in Nat
  BY MessagesAre, LogTyped
<1>1. ASSUME NEW t \in Talks, TalkSteps(t), NEW s \in Rooms, NEW i \in DOMAIN log'[s],
             NEW u, u = log'[s][i].talk, NEW n, n = log'[s][i].run, NEW b, b = log'[s][i].failed
      PROVE  Belongs(u, s, n, b)'
  <2>1. LogStep(t)
    BY <1>1, LogStepIs
  <2>2. ASSUME i \in DOMAIN log[s], u = log[s][i].talk, n = log[s][i].run, b = log[s][i].failed
        PROVE  Belongs(u, s, n, b)'
    BY <1>0, <1>1, <2>2, BelongsStays
  <2>3. CASE log' = log
    BY <1>1, <2>2, <2>3
  <2>4. CASE EndsBadly(t) /\ MarksOf({t})
    <3>1. i \in DOMAIN log[s] /\ u = log[s][i].talk /\ n = log[s][i].run
          /\ (b = log[s][i].failed \/ u = t)
      BY <1>1, <2>4 DEF MarksOf
    <3>2. u \in Talks /\ n \in Nat /\ Belongs(u, s, n, log[s][i].failed)
      BY <1>0, <3>1
    <3> QED
      BY <1>1, <2>4, <3>1, <3>2, BelongsStays
  <2>5. CASE \E c, k : SaysIn(t, c, k) /\ ((BeginTalk(t) /\ k = 0) \/ (Speak(t) /\ k = Turn(t)))
    <3>1. PICK c, k : SaysIn(t, c, k) /\ ((BeginTalk(t) /\ k = 0) \/ (Speak(t) /\ k = Turn(t)))
      BY <2>5
    <3>2. CASE i \in DOMAIN log[s]
      BY <1>1, <2>2, <3>1, <3>2 DEF SaysIn
    <3>3. CASE i \notin DOMAIN log[s]
      <4>1. s = RoomOf[t] /\ u = t /\ n = k /\ b = FALSE
        BY <1>1, <3>1, <3>3 DEF SaysIn
      <4>2. OwnTurn(t) /\ Turn(t) \in Nat
        BY <1>1, OwnTurnIs, TurnTyped
      <4>3. CASE BeginTalk(t) /\ k = 0
        <5>1. talk'[t] = "running" /\ asked'[t] = <<"running">>
          BY <4>3 DEF BeginTalk, TalkRows
        <5>2. Len(asked'[t]) = 1
          BY <5>1
        <5> QED
          BY <4>1, <4>3, <5>1, <5>2 DEF Belongs, Turn, UnderWay
      <4>4. CASE Speak(t) /\ k = Turn(t)
        <5>1. place[t] = "worker" /\ place'[t] = "spoken" /\ talk' = talk /\ asked' = asked
          BY <4>4 DEF Speak, TalkRows
        <5>2. talk[t] = "running"
          BY <5>1 DEF TurnsKept, Busy, UnderWay
        <5> QED
          BY <4>1, <4>2, <4>4, <5>1, <5>2 DEF Belongs, Turn, UnderWay
      <4> QED
        BY <3>1, <4>3, <4>4
    <3> QED
      BY <3>2, <3>3
  <2> QED
    BY <2>1, <2>3, <2>4, <2>5 DEF LogStep
<1>2. ASSUME RestartTalks, NEW s \in Rooms, NEW i \in DOMAIN log'[s],
             NEW u, u = log'[s][i].talk, NEW n, n = log'[s][i].run, NEW b, b = log'[s][i].failed
      PROVE  Belongs(u, s, n, b)'
  <2>1. MarksOf({t \in Talks : UnderWay(t)})
    BY <1>2, MarkingKeeps DEF RestartTalks
  <2>2. i \in DOMAIN log[s] /\ u = log[s][i].talk /\ n = log[s][i].run
    BY <1>2, <2>1 DEF MarksOf
  <2>3. u \in Talks /\ Belongs(u, s, n, log[s][i].failed)
    BY <1>0, <2>2
  <2>4. /\ talk'[u] = (IF UnderWay(u) THEN "failed" ELSE talk[u]) /\ talk'[u] # "running"
        /\ Len(asked'[u]) = Turn(u)
    BY <1>2, <2>3, RestartIs
  <2> QED
    BY <2>3, <2>4 DEF Belongs, UnderWay, Turn
<1>3. ASSUME SwitchModel \/ UNCHANGED talkVars PROVE MessagesKept'
  <2>1. log' = log /\ talk' = talk /\ asked' = asked /\ place' = place
    BY <1>3 DEF SwitchModel, talkVars
  <2> QED
    BY <2>1 DEF MessagesKept, Turn, UnderWay
<1>4. ASSUME \A s \in Rooms : \A i \in DOMAIN log'[s] : \A u, n, b :
               u = log'[s][i].talk /\ n = log'[s][i].run /\ b = log'[s][i].failed
                 => Belongs(u, s, n, b)'
      PROVE  MessagesKept'
  BY <1>4 DEF MessagesKept, Belongs
<1> QED
  BY <1>1, <1>2, <1>3, <1>4, StepsSplit

-----------------------------------------------------------------------------
(* The answers *)

\* An answer stands while its run is not marked.
LEMMA AnswerStays ==
  ASSUME TalkRows, NEW u \in Talks, NEW n \in Nat, HasAnswer(u, n),
         \/ log' = log
         \/ \E t \in Talks : \E c, k : SaysIn(t, c, k)
         \/ \E T : MarksOf(T) /\ (u \notin T \/ n # Turn(u))
  PROVE  HasAnswer(u, n)'
<1> DEFINE s == RoomOf[u]
<1>1. s \in Rooms
  BY CastTyped
<1>2. PICK i \in DOMAIN log[s] :
        /\ log[s][i].talk = u /\ log[s][i].run = n /\ log[s][i].by = CastOf[u][n]
        /\ ~log[s][i].failed
  BY DEF HasAnswer, Words
<1>3. /\ i \in DOMAIN log'[s] /\ log'[s][i].talk = u /\ log'[s][i].run = n
      /\ log'[s][i].by = CastOf[u][n] /\ ~log'[s][i].failed
  <2>1. CASE log' = log
    BY <1>2, <2>1
  <2>2. CASE \E t \in Talks : \E c, k : SaysIn(t, c, k)
    <3>1. i \in DOMAIN log'[s] /\ log'[s][i] = log[s][i]
      BY <1>1, <1>2, <2>2 DEF SaysIn
    <3> QED
      BY <1>2, <3>1
  <2>3. CASE \E T : MarksOf(T) /\ (u \notin T \/ n # Turn(u))
    <3>1. PICK T : MarksOf(T) /\ (u \notin T \/ n # Turn(u))
      BY <2>3
    <3> QED
      BY <1>1, <1>2, <3>1 DEF MarksOf
  <2> QED
    BY <2>1, <2>2, <2>3
<1> QED
  BY <1>3 DEF HasAnswer, Words

AnswerKept(t) ==
  /\ \A n \in 1 .. Turn(t) :
       (UnderWay(t) /\ n < Turn(t)) \/ talk[t] = "completed" => Answered(t, n)
  /\ place[t] = "spoken" => HasAnswer(t, Turn(t))
  /\ talk[t] = "completed" => Turn(t) = Len(CastOf[t])

LEMMA SpokenIsAnswered ==
  ASSUME TalkRows, TurnsKept, NEW t \in Talks, Speak(t)
  PROVE  HasAnswer(t, Turn(t))' /\ Turn(t)' = Turn(t)
<1>1. SaysIn(t, Speaker(t), Turn(t)) /\ RoomOf[t] \in Rooms
  BY SpeakSays, CastTyped
<1>2. asked' = asked
  BY DEF Speak
<1>3. Turn(t)' = Turn(t)
  BY <1>2 DEF Turn
<1> DEFINE k == Len(log[RoomOf[t]]) + 1
<1>4. /\ k \in DOMAIN log'[RoomOf[t]] /\ log'[RoomOf[t]][k].talk = t
      /\ log'[RoomOf[t]][k].run = Turn(t) /\ log'[RoomOf[t]][k].by = CastOf[t][Turn(t)]
      /\ log'[RoomOf[t]][k].failed = FALSE
  BY <1>1 DEF SaysIn, Speaker, Turn
<1> HIDE DEF k
<1> QED
  BY <1>3, <1>4 DEF HasAnswer, Words

LEMMA AnswersStep ==
  ASSUME TalkRows, TurnsKept, AnswersKept, [ConversationNext]_talkVars
  PROVE  AnswersKept'
<1>0. \A u \in Talks : AnswerKept(u)
  BY DEF AnswersKept, AnswerKept
<1>n. \A u \in Talks : Turn(u) \in Nat /\ (1 .. Turn(u)) \subseteq Nat
                       /\ (UnderWay(u) <=> place[u] \in Busy)
  BY TurnTyped DEF TurnsKept
<1>1. ASSUME NEW t \in Talks, TalkSteps(t), NEW u \in Talks \ {t} PROVE AnswerKept(u)'
  <2>1. SameTurn(u) /\ Turn(u)' = Turn(u)
    BY <1>1, OthersStay DEF SameTurn, Turn
  <2>2. LogStep(t)
    BY <1>1, LogStepIs
  <2>3. ASSUME NEW n \in Nat, HasAnswer(u, n) PROVE HasAnswer(u, n)'
    BY <1>1, <2>2, <2>3, AnswerStays DEF LogStep
  <2>4. ASSUME NEW n \in 1 .. Turn(u), (UnderWay(u) /\ n < Turn(u)) \/ talk[u] = "completed"
        PROVE  Answered(u, n)'
    BY <1>0, <1>n, <2>1, <2>3, <2>4 DEF AnswerKept, SameTurn, Answered
  <2>5. place[u] = "spoken" => HasAnswer(u, Turn(u))'
    <3>1. place[u] = "spoken" => HasAnswer(u, Turn(u)) /\ Turn(u) \in Nat
      BY <1>0, <1>n DEF AnswerKept
    <3>2. ASSUME NEW n \in Nat, n = Turn(u), HasAnswer(u, n) PROVE HasAnswer(u, Turn(u))'
      <4>1. HasAnswer(u, n)'
        BY <2>3, <3>2
      <4> QED
        BY <2>1, <3>2, <4>1 DEF HasAnswer, Words
    <3> QED
      BY <3>1, <3>2
  <2> QED
    BY <1>0, <2>1, <2>4, <2>5 DEF AnswerKept, SameTurn, UnderWay
<1>2. ASSUME NEW t \in Talks, TalkSteps(t) PROVE AnswerKept(t)'
  <2>1. LogStep(t) /\ OwnTurn(t) /\ AnswerKept(t)
    BY <1>0, <1>2, LogStepIs, OwnTurnIs
  <2>2. ASSUME NEW n \in Nat, HasAnswer(t, n), ~EndsBadly(t) PROVE HasAnswer(t, n)'
    BY <1>2, <2>1, <2>2, AnswerStays DEF LogStep
  <2>3. CASE BeginTalk(t)
    <3>1. talk'[t] = "running" /\ place'[t] = "root" /\ asked'[t] = <<"running">>
      BY <2>3 DEF BeginTalk, TalkRows
    <3>2. Turn(t)' = 1
      BY <3>1 DEF Turn
    <3> QED
      BY <3>1, <3>2 DEF AnswerKept, UnderWay
  <2>4. CASE EndsBadly(t)
    <3>1. place'[t] = "over" /\ talk'[t] = "failed"
      BY <2>4, EndsBadlyIs
    <3> QED
      BY <3>1 DEF AnswerKept, UnderWay
  <2>5. CASE Speak(t)
    <3>1. talk' = talk /\ asked' = asked /\ place[t] = "worker"
      BY <2>5 DEF Speak
    <3>2. HasAnswer(t, Turn(t))' /\ Turn(t)' = Turn(t)
      BY <2>5, SpokenIsAnswered
    <3>3. talk[t] = "running" /\ ~EndsBadly(t)
      <4>1. talk[t] = "running"
        BY <1>n, <3>1 DEF Busy, UnderWay
      <4>2. place'[t] = "spoken"
        BY <2>5 DEF Speak, TalkRows
      <4> QED
        BY <4>1, <4>2, EndsBadlyIs
    <3>4. ASSUME NEW n \in 1 .. Turn(t), n < Turn(t) PROVE Answered(t, n)'
      BY <1>n, <2>1, <2>2, <3>1, <3>3, <3>4 DEF AnswerKept, UnderWay, Answered
    <3> QED
      BY <3>1, <3>2, <3>3, <3>4 DEF AnswerKept, UnderWay
  <2>6. CASE Enqueue(t) \/ Prompt(t) \/ Retry(t) \/ Collide(t)
    <3>1. talk' = talk /\ asked' = asked /\ place[t] \in {"root", "queue", "worker"} /\ log' = log
          /\ place'[t] \in {"queue", "worker"}
      BY <2>6 DEF Enqueue, Prompt, Retry, Collide, TalkRows
    <3>2. ASSUME NEW n \in Nat, HasAnswer(t, n) PROVE HasAnswer(t, n)'
      BY <3>1, <3>2, AnswerStays
    <3>3. ASSUME NEW n \in Nat, Answered(t, n) PROVE Answered(t, n)'
      BY <3>1, <3>2, <3>3 DEF Answered
    <3> QED
      BY <1>n, <2>1, <3>1, <3>3 DEF AnswerKept, UnderWay, Turn
  <2>7. CASE AsksNext(t) \/ EndsWell(t)
    <3>1. /\ place'[t] # "spoken" /\ log' = log /\ UnderWay(t)
          /\ asked'[t][Turn(t)] = Outcome(t)
          /\ \A n \in 1 .. Turn(t) : n # Turn(t) => asked'[t][n] = asked[t][n]
      BY <2>7, AsksIs, EndsWellIs DEF AsksNext, EndsWell
    <3>2. \/ talk'[t] = talk[t] /\ Turn(t)' = Turn(t) + 1
          \/ talk'[t] = "completed" /\ Turn(t)' = Turn(t) /\ Turn(t) = Len(CastOf[t])
      BY <2>7, AsksIs, EndsWellIs DEF Turn
    <3>3. ASSUME NEW n \in Nat, HasAnswer(t, n) PROVE HasAnswer(t, n)'
      BY <3>1, <3>3, AnswerStays
    <3>4. ASSUME NEW n \in 1 .. Turn(t) PROVE Answered(t, n)'
      <4>1. CASE n = Turn(t)
        BY <1>n, <2>1, <3>1, <3>3, <4>1 DEF AnswerKept, Answered, Outcome
      <4>2. CASE n # Turn(t)
        BY <1>n, <2>1, <3>1, <3>3, <4>2 DEF AnswerKept, Answered
      <4> QED
        BY <4>1, <4>2
    <3>5. ASSUME NEW n \in 1 .. Turn(t)', (UnderWay(t)' /\ n < Turn(t)') \/ talk'[t] = "completed"
          PROVE  n \in 1 .. Turn(t)
      BY <1>n, <3>1, <3>2, <3>5 DEF UnderWay
    <3> QED
      BY <3>1, <3>2, <3>4, <3>5 DEF AnswerKept, UnderWay
  <2> QED
    BY <1>2, <2>3, <2>4, <2>5, <2>6, <2>7 DEF TalkSteps
<1>3. ASSUME RestartTalks, NEW u \in Talks PROVE AnswerKept(u)'
  <2>1. /\ talk'[u] = (IF UnderWay(u) THEN "failed" ELSE talk[u]) /\ talk'[u] # "running"
        /\ place'[u] = (IF talk[u] = "none" THEN "none" ELSE "gone")
        /\ (~UnderWay(u) => asked'[u] = asked[u])
        /\ MarksOf({t \in Talks : UnderWay(t)})
    BY <1>3, RestartIs
  <2>2. CASE talk'[u] = "completed"
    <3>1. ~UnderWay(u) /\ talk[u] = "completed" /\ asked'[u] = asked[u] /\ Turn(u)' = Turn(u)
      BY <2>1, <2>2 DEF Turn
    <3>2. ASSUME NEW n \in Nat, HasAnswer(u, n) PROVE HasAnswer(u, n)'
      BY <2>1, <3>1, <3>2, AnswerStays
    <3>3. ASSUME NEW n \in Nat, Answered(u, n) PROVE Answered(u, n)'
      BY <3>1, <3>2, <3>3 DEF Answered
    <3> QED
      BY <1>0, <1>n, <2>1, <3>1, <3>3 DEF AnswerKept
  <2>3. CASE talk'[u] # "completed"
    BY <2>1, <2>3 DEF AnswerKept, UnderWay
  <2> QED
    BY <2>2, <2>3
<1>4. ASSUME SwitchModel \/ UNCHANGED talkVars PROVE AnswersKept'
  <2>1. log' = log /\ talk' = talk /\ asked' = asked /\ place' = place
    BY <1>4 DEF SwitchModel, talkVars
  <2> QED
    BY <2>1 DEF AnswersKept, Answered, Turn, UnderWay, HasAnswer, Words
<1>5. (\A u \in Talks : AnswerKept(u)') => AnswersKept'
  BY DEF AnswersKept, AnswerKept
<1> QED
  BY <1>1, <1>2, <1>3, <1>4, <1>5, StepsSplit

-----------------------------------------------------------------------------
(* Whoever works has a run. *)

LEMMA WorkingStep ==
  ASSUME TalkRows, TurnsKept, WorkingHasRun, [ConversationNext]_talkVars
  PROVE  WorkingHasRun'
<1>p. TurnsKept'
  BY TurnsStep
<1>1. ASSUME NEW t \in Talks, TalkSteps(t), ~restarted', NEW c \in Speakers, mood'[c] = "working"
      PROVE  \E u \in Talks : UnderWay(u)' /\ Speaker(u)' = c
  <2>1. ~restarted
    BY <1>1 DEF TalkSteps, BeginTalk, Enqueue, Prompt, Speak, Retry, Collide, AsksNext, EndsWell,
                EndsBadly, EndsAs, LeavesLine
  <2>2. ASSUME NEW u \in Talks \ {t}, UnderWay(u), Speaker(u) = c
        PROVE  \E v \in Talks : UnderWay(v)' /\ Speaker(v)' = c
    BY <1>1, <2>2, OthersStay DEF SameTurn, UnderWay, Speaker, Turn
  <2>3. ASSUME mood[c] = "working", UnderWay(t) /\ Speaker(t) = c => UnderWay(t)' /\ Speaker(t)' = c
        PROVE  \E v \in Talks : UnderWay(v)' /\ Speaker(v)' = c
    <3>1. PICK u \in Talks : UnderWay(u) /\ Speaker(u) = c
      BY <2>1, <2>3 DEF WorkingHasRun
    <3> QED
      BY <2>2, <2>3, <3>1
  <2>4. CASE BeginTalk(t)
    <3>1. talk'[t] = "running" /\ asked'[t] = <<"running">>
          /\ mood' = [mood EXCEPT ![CastOf[t][1]] = "working"] /\ ~UnderWay(t)
      BY <2>4 DEF BeginTalk, TalkRows, UnderWay
    <3>2. UnderWay(t)' /\ Speaker(t)' = CastOf[t][1]
      BY <3>1 DEF UnderWay, Speaker, Turn
    <3>3. c = CastOf[t][1] \/ mood[c] = "working"
      BY <1>1, <3>1 DEF TalkRows
    <3> QED
      BY <2>3, <3>1, <3>2, <3>3
  <2>5. CASE Enqueue(t) \/ Prompt(t) \/ Speak(t) \/ Retry(t) \/ Collide(t)
    <3>1. mood' = mood /\ talk' = talk /\ asked' = asked
      BY <2>5 DEF Enqueue, Prompt, Speak, Retry, Collide
    <3> QED
      BY <1>1, <2>3, <3>1 DEF UnderWay, Speaker, Turn
  <2>6. CASE AsksNext(t)
    <3>1. UnderWay(t) /\ talk'[t] = talk[t] /\ Len(asked'[t]) = Turn(t) + 1
      BY <2>6, AsksIs
    <3>2. UnderWay(t)' /\ Speaker(t)' = CastOf[t][Turn(t) + 1]
      BY <3>1 DEF UnderWay, Speaker, Turn
    <3>3. Speaker(t) \in Speakers /\ CastOf[t][Turn(t) + 1] \in Speakers
      BY <2>6, <3>1, TurnTyped, CastTyped DEF AsksNext
    <3>4. mood' = [[mood EXCEPT ![Speaker(t)] = "available"] EXCEPT ![CastOf[t][Turn(t) + 1]] = "working"]
      BY <2>6 DEF AsksNext
    <3>5. c = CastOf[t][Turn(t) + 1] \/ (c # Speaker(t) /\ mood[c] = "working")
      BY <1>1, <3>3, <3>4 DEF TalkRows
    <3> QED
      BY <2>3, <3>2, <3>5
  <2>7. CASE EndsWell(t) \/ EndsBadly(t)
    <3>1. UnderWay(t) /\ (mood' = [mood EXCEPT ![Speaker(t)] = "available"]
                          \/ mood' = [mood EXCEPT ![Speaker(t)] = "blocked"])
      BY <2>7, EndsWellIs, EndsBadlyIs DEF EndsWell, EndsBadly, EndsAs
    <3>2. Speaker(t) \in Speakers
      BY <3>1, TurnTyped
    <3>3. c # Speaker(t) /\ mood[c] = "working"
      BY <1>1, <3>1, <3>2 DEF TalkRows
    <3> QED
      BY <2>3, <3>3
  <2> QED
    BY <1>1, <2>4, <2>5, <2>6, <2>7 DEF TalkSteps
<1>2. RestartTalks => restarted'
  BY DEF RestartTalks
<1>3. ASSUME SwitchModel \/ UNCHANGED talkVars PROVE WorkingHasRun'
  <2>1. restarted' = restarted /\ mood' = mood /\ talk' = talk /\ asked' = asked
    BY <1>3 DEF SwitchModel, talkVars
  <2> QED
    BY <2>1 DEF WorkingHasRun, UnderWay, Speaker, Turn
<1> QED
  BY <1>1, <1>2, <1>3, StepsSplit DEF WorkingHasRun

-----------------------------------------------------------------------------
(* Rooms where turns do not overlap *)

LEMMA CrossedStays ==
  ASSUME TalkRows, TurnsKept, [ConversationNext]_talkVars
  PROVE  crossed \subseteq crossed'
<1>1. ASSUME NEW t \in Talks, TalkSteps(t) PROVE crossed \subseteq crossed'
  BY <1>1 DEF TalkSteps, BeginTalk, Enqueue, Prompt, Speak, Retry, Collide, AsksNext, EndsWell,
              EndsBadly, EndsAs, LeavesLine
<1>2. RestartTalks \/ SwitchModel \/ UNCHANGED talkVars => crossed' = crossed
  BY DEF RestartTalks, SwitchModel, talkVars
<1> QED
  BY <1>1, <1>2, StepsSplit

LEMMA TalkCrossed ==
  ASSUME TalkRows, TurnsKept, NEW t \in Talks, TalkSteps(t)
  PROVE  crossed \subseteq crossed'
  BY DEF TalkSteps, BeginTalk, Enqueue, Prompt, Speak, Retry, Collide, AsksNext, EndsWell,
         EndsBadly, EndsAs, LeavesLine

\* What a room says, but for the runs it is of
AgreesOn(s) ==
  /\ DOMAIN log'[s] = DOMAIN log[s]
  /\ \A i \in DOMAIN log[s] :
       /\ log'[s][i].talk = log[s][i].talk /\ log'[s][i].by = log[s][i].by
       /\ log'[s][i].failed = log[s][i].failed

LEMMA Elsewhere ==
  ASSUME TalkRows, TurnsKept, MessagesKept, NEW t \in Talks, TalkSteps(t),
         NEW s \in Rooms, s # RoomOf[t]
  PROVE  AgreesOn(s)
<1>1. LogStep(t)
  BY LogStepIs
<1>2. log'[s] = log[s] => AgreesOn(s)
  BY DEF AgreesOn
<1>3. CASE log' = log
  BY <1>2, <1>3
<1>4. CASE EndsBadly(t) /\ MarksOf({t})
  <2>1. \A i \in DOMAIN log[s] : log[s][i].talk # t
    BY DEF MessagesKept
  <2> QED
    BY <1>4, <2>1 DEF MarksOf, AgreesOn
<1>5. ASSUME NEW c, NEW n, SaysIn(t, c, n) PROVE AgreesOn(s)
  BY <1>2, <1>5 DEF SaysIn
<1> QED
  BY <1>1, <1>3, <1>4, <1>5 DEF LogStep

\* In a room that was not crossed nobody else is under way after a step of t.
LEMMA AloneAfter ==
  ASSUME TalkRows, TurnsKept, RoomsKept, NEW t \in Talks, TalkSteps(t),
         NEW u \in Talks, talk'[u] = "running", RoomOf[u] = RoomOf[t], RoomOf[t] \notin crossed'
  PROVE  u = t
<1> SUFFICES ASSUME u # t PROVE FALSE
  OBVIOUS
<1>1. UnderWay(u) /\ RoomOf[u] \notin crossed
  BY OthersStay, TalkCrossed DEF SameTurn, UnderWay
<1>2. CASE BeginTalk(t)
  <2>1. u \in Overlapping(t)
    BY <1>1 DEF Overlapping
  <2>2. crossed' = crossed \cup {RoomOf[t]}
    BY <1>2, <2>1 DEF BeginTalk
  <2> QED
    BY <2>2
<1>3. CASE UnderWay(t)
  BY <1>1, <1>3 DEF RoomsKept
<1>4. BeginTalk(t) \/ UnderWay(t)
  BY OwnTurnIs DEF OwnTurn, TurnsKept, Busy
<1> QED
  BY <1>2, <1>3, <1>4

LEMMA BeginsAlone ==
  ASSUME TalkRows, TurnsKept, NEW t \in Talks, BeginTalk(t), RoomOf[t] \notin crossed'
  PROVE  \A u \in Talks : RoomOf[u] = RoomOf[t] => ~UnderWay(u)
<1>1. Overlapping(t) = {}
  BY DEF BeginTalk
<1>2. ~UnderWay(t)
  BY DEF BeginTalk, UnderWay
<1> QED
  BY <1>1, <1>2 DEF Overlapping

LEMMA OthersSame ==
  ASSUME TalkRows, NEW u \in Talks,
         \/ AgreesOn(RoomOf[u])
         \/ \E c, n : SaysIn(u, c, n)
  PROVE  History(u)' = History(u)
<1>1. RoomOf[u] \in Rooms
  BY CastTyped
<1>2. Others(u)' = Others(u)
  <2>1. CASE AgreesOn(RoomOf[u])
    BY <2>1 DEF AgreesOn, Others, Words
  <2>2. CASE \E c, n : SaysIn(u, c, n)
    <3>1. PICK c, n : SaysIn(u, c, n)
      BY <2>2
    <3> QED
      BY <1>1, <3>1 DEF SaysIn, Others, Words
  <2> QED
    BY <2>1, <2>2
<1> QED
  BY <1>2 DEF History, Newest

RoomKept(t) ==
  UnderWay(t) /\ RoomOf[t] \notin crossed =>
    /\ \A u \in Talks : UnderWay(u) /\ RoomOf[u] = RoomOf[t] => u = t
    /\ recovered[t] = History(t)
    /\ \A i, j \in DOMAIN Words(t) : Words(t)[i].talk = t /\ Words(t)[j].talk # t => j < i

LEMMA RoomsStep ==
  ASSUME TalkRows, TurnsKept, LogWithin, MessagesKept, RoomsKept, [ConversationNext]_talkVars
  PROVE  RoomsKept'
<1>0. \A u \in Talks : RoomKept(u)
  BY DEF RoomsKept, RoomKept
<1>1. ASSUME NEW t \in Talks, TalkSteps(t), NEW u \in Talks \ {t},
             talk'[u] = "running", RoomOf[u] \notin crossed'
      PROVE  /\ \A v \in Talks : talk'[v] = "running" /\ RoomOf[v] = RoomOf[u] => v = u
             /\ recovered'[u] = History(u)'
             /\ \A i, j \in DOMAIN Words(u)' :
                  log'[RoomOf[u]][i].talk = u /\ log'[RoomOf[u]][j].talk # u => j < i
  <2>1. UnderWay(u) /\ RoomOf[u] \notin crossed /\ recovered'[u] = recovered[u]
    BY <1>1, OthersStay, TalkCrossed DEF SameTurn, UnderWay
  <2>2. RoomOf[u] # RoomOf[t]
    BY <1>1, AloneAfter
  <2>3. AgreesOn(RoomOf[u])
    BY <1>1, <2>2, CastTyped, Elsewhere
  <2>4. History(u)' = History(u)
    BY <2>3, OthersSame
  <2>5. ASSUME NEW v \in Talks, talk'[v] = "running", RoomOf[v] = RoomOf[u] PROVE v = u
    <3>1. v # t
      BY <2>2, <2>5
    <3>2. UnderWay(v)
      BY <1>1, <2>5, <3>1, OthersStay DEF SameTurn, UnderWay
    <3> QED
      BY <1>0, <2>1, <2>5, <3>2 DEF RoomKept
  <2> QED
    BY <1>0, <2>1, <2>3, <2>4, <2>5 DEF RoomKept, AgreesOn, Words
<1>2. ASSUME NEW t \in Talks, TalkSteps(t), talk'[t] = "running", RoomOf[t] \notin crossed'
      PROVE  /\ \A v \in Talks : talk'[v] = "running" /\ RoomOf[v] = RoomOf[t] => v = t
             /\ recovered'[t] = History(t)'
             /\ \A i, j \in DOMAIN Words(t)' :
                  log'[RoomOf[t]][i].talk = t /\ log'[RoomOf[t]][j].talk # t => j < i
  <2>1. \A v \in Talks : talk'[v] = "running" /\ RoomOf[v] = RoomOf[t] => v = t
    BY <1>2, AloneAfter
  <2>r. RoomOf[t] \in Rooms
    BY CastTyped
  <2>2. CASE BeginTalk(t)
    <3>1. recovered'[t] = Transcript(t) /\ talk[t] = "none"
      BY <2>2 DEF BeginTalk, TalkRows
    <3>2. \A i \in DOMAIN log[RoomOf[t]] : log[RoomOf[t]][i].talk # t
      BY <2>r, <3>1 DEF MessagesKept
    <3>3. (t \in Peers /\ log' = log) \/ (t \notin Peers /\ SaysIn(t, Owner, 0))
      BY <2>2, BeginIs
    <3>4. CASE t \in Peers
      <4>1. recovered'[t] = History(t)'
        BY <3>1, <3>4 DEF Transcript, History
      <4> QED
        BY <2>1, <3>2, <3>3, <3>4, <4>1 DEF Words
    <3>5. CASE t \notin Peers
      <4>1. SaysIn(t, Owner, 0)
        BY <3>3, <3>5
      <4>2. Others(t)' = {i \in DOMAIN Words(t) : Said(Words(t)[i])}
        BY <2>r, <3>2, <4>1 DEF SaysIn, Others, Words
      <4>3. recovered'[t] = History(t)'
        BY <3>1, <3>5, <4>2 DEF Transcript, History, Newest
      <4>4. \A i, j \in DOMAIN Words(t)' :
              log'[RoomOf[t]][i].talk = t /\ log'[RoomOf[t]][j].talk # t => j < i
        BY <2>r, <3>2, <4>1 DEF SaysIn, Words
      <4> QED
        BY <2>1, <4>3, <4>4
    <3> QED
      BY <3>4, <3>5
  <2>3. CASE ~BeginTalk(t)
    <3>1. UnderWay(t) /\ recovered'[t] = recovered[t] /\ RoomOf[t] \notin crossed
          /\ ~EndsBadly(t)
      <4>1. OwnTurn(t)
        BY <1>2, OwnTurnIs
      <4>2. ~EndsWell(t) /\ ~EndsBadly(t)
        BY <1>2, EndsWellIs, EndsBadlyIs
      <4>3. recovered'[t] = recovered[t] /\ talk'[t] = talk[t]
        BY <2>3, <4>1, <4>2 DEF OwnTurn
      <4> QED
        BY <1>2, <4>2, <4>3, TalkCrossed DEF UnderWay
    <3>2. recovered[t] = History(t)
          /\ \A i, j \in DOMAIN Words(t) : Words(t)[i].talk = t /\ Words(t)[j].talk # t => j < i
      BY <1>0, <3>1 DEF RoomKept
    <3>3. log' = log \/ SaysIn(t, Speaker(t), Turn(t))
      BY <1>2, <2>3, <3>1, LogStepIs DEF LogStep
    <3>4. CASE log' = log
      <4>1. AgreesOn(RoomOf[t])
        BY <3>4 DEF AgreesOn
      <4> QED
        BY <2>1, <3>1, <3>2, <3>4, <4>1, OthersSame DEF Words
    <3>5. CASE SaysIn(t, Speaker(t), Turn(t))
      <4>1. History(t)' = History(t)
        BY <3>5, OthersSame
      <4>2. \A i, j \in DOMAIN Words(t)' :
              log'[RoomOf[t]][i].talk = t /\ log'[RoomOf[t]][j].talk # t => j < i
        BY <2>r, <3>2, <3>5 DEF SaysIn, Words
      <4> QED
        BY <2>1, <3>1, <3>2, <4>1, <4>2
    <3> QED
      BY <3>3, <3>4, <3>5
  <2> QED
    BY <2>2, <2>3
<1>3. ASSUME NEW t \in Talks, TalkSteps(t) PROVE RoomsKept'
  <2>1. ASSUME NEW u \in Talks PROVE RoomKept(u)'
    BY <1>1, <1>2, <1>3 DEF RoomKept, UnderWay, Words
  <2> QED
    BY <2>1 DEF RoomsKept, RoomKept
<1>4. ASSUME RestartTalks PROVE RoomsKept'
  <2>1. \A u \in Talks : talk'[u] # "running"
    BY <1>4, RestartIs
  <2> QED
    BY <2>1 DEF RoomsKept, UnderWay
<1>5. ASSUME SwitchModel \/ UNCHANGED talkVars PROVE RoomsKept'
  <2>1. talk' = talk /\ crossed' = crossed /\ recovered' = recovered /\ log' = log
    BY <1>5 DEF SwitchModel, talkVars
  <2>2. ASSUME NEW u \in Talks PROVE History(u)' = History(u)
    BY <2>1, OthersSame DEF AgreesOn
  <2> QED
    BY <2>1, <2>2 DEF RoomsKept, UnderWay, Words
<1> QED
  BY <1>3, <1>4, <1>5, StepsSplit

-----------------------------------------------------------------------------
(* What the sessions have heard *)

LEMMA NotSilent ==
  ASSUME NEW S, S \subseteq Nat
  PROVE  S # Silent
  BY ConversationAssumption DEF ConversationAssumption, Silent

\* A part of the newest is among the newest of a part.
LEMMA NewestOfPart ==
  ASSUME NEW n \in Nat, NEW T \in SUBSET (1 .. n), NEW S \in SUBSET T, NEW i \in S, i \in Newest(T)
  PROVE  i \in Newest(S)
<1> DEFINE A == {j \in S : j > i}
<1> DEFINE B == {j \in T : j > i}
<1>1. IsFiniteSet(1 .. n)
  BY FS_Interval
<1>2. IsFiniteSet(B)
  BY <1>1, FS_Subset
<1>3. A \subseteq B
  OBVIOUS
<1>4. IsFiniteSet(A) /\ Cardinality(A) <= Cardinality(B)
  BY <1>2, <1>3, FS_Subset
<1>5. Cardinality(B) < HistoryMax
  BY DEF Newest
<1>6. Cardinality(A) \in Nat /\ Cardinality(B) \in Nat /\ HistoryMax \in Nat
  BY <1>2, <1>4, FS_CardinalityType, ConversationAssumption DEF ConversationAssumption
<1>7. Cardinality(A) < HistoryMax
  BY <1>4, <1>5, <1>6
<1> QED
  BY <1>7 DEF Newest

LEMMA GreatestMember ==
  ASSUME NEW n \in Nat, NEW S \in SUBSET (1 .. n), S # {}
  PROVE  \E m \in S : \A j \in S : j <= m
<1> DEFINE R == OpToRel(<, Nat)
<1> DEFINE Below == {k \in Nat : n - k \in S}
<1>1. IsWellFoundedOn(R, Nat)
  BY NatLessThanWellFounded
<1>2. \A j \in S : n - j \in Below
  OBVIOUS
<1>3. Below \subseteq Nat /\ Below # {}
  BY <1>2
<1>4. PICK k \in Below : \A l \in Below : ~ (<<l, k>> \in R)
  BY <1>1, <1>3, WFMin
<1>5. ASSUME NEW j \in S PROVE j <= n - k
  <2>1. <<n - j, k>> \in Nat \X Nat /\ n - j \in Below
    BY <1>2, <1>3
  <2>2. ~ (n - j < k)
    BY <1>4, <2>1 DEF OpToRel
  <2> QED
    BY <2>2, <1>3
<1> QED
  BY <1>5

LEMMA WatermarkIs ==
  ASSUME TalkRows, LogWithin, NEW t \in Talks, NEW c
  PROVE  \A i \in recovered[t] : i > Watermark(t, c)
           \/ (Watermark(t, c) \in recovered[t] /\ Words(t)[Watermark(t, c)].by = c
               /\ i <= Watermark(t, c))
<1> DEFINE own == {i \in recovered[t] : Words(t)[i].by = c}
<1>1. RoomOf[t] \in Rooms /\ recovered[t] \subseteq DOMAIN log[RoomOf[t]]
  BY CastTyped DEF LogWithin
<1>2. Len(log[RoomOf[t]]) \in Nat /\ recovered[t] \subseteq 1 .. Len(log[RoomOf[t]])
  BY <1>1, LogTyped
<1>3. CASE own = {}
  <2>1. Watermark(t, c) = 0
    BY <1>3 DEF Watermark
  <2> QED
    BY <1>2, <2>1
<1>4. CASE own # {}
  <2>1. \E m \in own : \A j \in own : j <= m
    BY <1>2, <1>4, GreatestMember
  <2>2. Watermark(t, c) = CHOOSE i \in own : \A j \in own : j <= i
    BY <1>4 DEF Watermark
  <2>3. Watermark(t, c) \in own
    BY <2>1, <2>2
  <2> QED
    BY <1>2, <2>3
<1> QED
  BY <1>3, <1>4

\* A prompt holds all that the turn has said.
LEMMA PromptedAll ==
  ASSUME TalkRows, TurnsKept, MessagesKept, NEW t \in Talks, place[t] \in {"queue", "worker"}
  PROVE  \A i \in DOMAIN Words(t) : Words(t)[i].talk = t => i \in Prompted(t)
<1>1. RoomOf[t] \in Rooms /\ Turn(t) \in Nat /\ UnderWay(t)
  BY CastTyped, TurnTyped DEF TurnsKept, Busy
<1>2. ASSUME NEW i \in DOMAIN Words(t), Words(t)[i].talk = t
      PROVE  Words(t)[i].run < Turn(t) /\ ~Words(t)[i].failed
  <2>1. Words(t)[i].run \in Nat
    BY <1>1, LogTyped DEF Words
  <2>2. Words(t)[i].run <= Turn(t) /\ Words(t)[i].run # Turn(t) /\ ~Words(t)[i].failed
    BY <1>1, <1>2 DEF MessagesKept, Words
  <2> QED
    BY <1>1, <2>1, <2>2
<1> QED
  BY <1>2 DEF Prompted

HearKept(t) ==
  place[t] \in WithWorker /\ RoomOf[t] \notin crossed =>
    /\ recovered[t] \subseteq HeardBy(t)
    /\ \A i \in DOMAIN Words(t) : Words(t)[i].talk = t => i \in HeardBy(t)

LEMMA HearsStep ==
  ASSUME TalkRows, TurnsKept, LogWithin, QueuesKept, MessagesKept, RoomsKept, HearsKept, OneSession,
         SessionsKept, [ConversationNext]_talkVars
  PROVE  HearsKept'
<1>0. \A u \in Talks : HearKept(u)
  BY DEF HearsKept, HearKept, HeardBy
<1>p. TurnsKept'
  BY TurnsStep
<1>1. ASSUME NEW t \in Talks, TalkSteps(t), NEW u \in Talks \ {t} PROVE HearKept(u)'
  <2> SUFFICES ASSUME place'[u] \in WithWorker, RoomOf[u] \notin crossed'
               PROVE  HearKept(u)'
    BY DEF HearKept
  <2>1. place[u] \in WithWorker /\ recovered'[u] = recovered[u] /\ RoomOf[u] \notin crossed
    BY <1>1, OthersStay, TalkCrossed DEF SameTurn
  <2>2. HeardBy(u)' = HeardBy(u)
    BY <1>1, <2>1, OthersHear DEF HeardBy
  <2>3. talk'[u] = "running"
    BY <1>p DEF TurnsKept, UnderWay, WithWorker, Busy
  <2>4. RoomOf[u] # RoomOf[t]
    BY <1>1, <2>3, AloneAfter
  <2>5. AgreesOn(RoomOf[u])
    BY <1>1, <2>4, CastTyped, Elsewhere
  <2> QED
    BY <1>0, <2>1, <2>2, <2>5 DEF HearKept, AgreesOn, Words
<1>2. ASSUME NEW t \in Talks, TalkSteps(t) PROVE HearKept(t)'
  <2> SUFFICES ASSUME place'[t] \in WithWorker, RoomOf[t] \notin crossed'
               PROVE  HearKept(t)'
    BY DEF HearKept
  <2>1. RoomOf[t] \notin crossed /\ RoomOf[t] \in Rooms
    BY <1>2, TalkCrossed, CastTyped
  <2>2. Prompt(t) \/ Speak(t) \/ Collide(t)
    <3>1. BeginTalk(t) => place'[t] = "root"
      BY DEF BeginTalk, TalkRows
    <3>2. Enqueue(t) \/ Retry(t) => place'[t] = "queue"
      BY DEF Enqueue, Retry, TalkRows
    <3> QED
      BY <1>2, <3>1, <3>2, AsksIs, EndsWellIs, EndsBadlyIs DEF TalkSteps, WithWorker
  <2>3. via' = via /\ asked' = asked /\ recovered' = recovered
    BY <2>2 DEF Prompt, Speak, Collide
  <2>4. HeardBy(t)' = heard'[via[t]][Speaker(t)][RoomOf[t]]
    BY <2>3 DEF HeardBy, Speaker, Turn
  <2>5. CASE Prompt(t) \/ Collide(t)
    <3>1. place[t] \in {"queue", "worker"} /\ log' = log
      BY <2>5 DEF Prompt, Collide
    <3>2. \A i \in DOMAIN Words(t) : Words(t)[i].talk = t => i \in Prompted(t)
      BY <3>1, PromptedAll
    <3>3. recovered[t] \subseteq HeardBy(t)' /\ Prompted(t) \subseteq HeardBy(t)'
      <4>1. CASE HearsAs(t, recovered[t] \cup Prompted(t))
        BY <2>4, <4>1 DEF HearsAs
      <4>2. CASE PromptLive(t) /\ Prompt(t)
        <5>1. HeardBy(t)' = HeardBy(t) \cup {i \in recovered[t] : i > Watermark(t, Speaker(t))}
                              \cup Prompted(t)
              /\ HeardBy(t) # Silent
          BY <2>4, <4>2 DEF PromptLive, HearsAs
        <5>2. place[t] \in Served
          BY <4>2 DEF Prompt, Served
        <5>3. via[t] \in Adapters /\ Speaker(t) \in Speakers /\ UnderWay(t)
          BY <5>2, ServedTyped
        <5>4. KnowsOwn(HeardBy(t), Speaker(t), t)
          BY <2>1, <5>1, <5>3 DEF SessionsKept, HeardBy
        <5>5. ASSUME NEW i \in recovered[t] PROVE i \in HeardBy(t)'
          BY <5>1, <5>4, <5>5, WatermarkIs DEF KnowsOwn
        <5> QED
          BY <5>1, <5>5
      <4> QED
        BY <2>5, <4>1, <4>2, PromptHears, CollideHears DEF PromptFresh
    <3> QED
      BY <2>3, <3>1, <3>2, <3>3 DEF HearKept, Words
  <2>6. CASE Speak(t)
    <3>1. HeardBy(t)' = HeardBy(t) \cup {Len(log[RoomOf[t]]) + 1} /\ SaysIn(t, Speaker(t), Turn(t))
      BY <2>4, <2>6, SpeakSays DEF HearsAs
    <3>2. place[t] \in WithWorker
      BY <2>6 DEF Speak, WithWorker
    <3>3. recovered[t] \subseteq HeardBy(t)
          /\ \A i \in DOMAIN Words(t) : Words(t)[i].talk = t => i \in HeardBy(t)
      BY <1>0, <2>1, <3>2 DEF HearKept
    <3>4. \A i \in DOMAIN log'[RoomOf[t]] : log'[RoomOf[t]][i].talk = t => i \in HeardBy(t)'
      BY <2>1, <3>1, <3>3 DEF SaysIn, Words
    <3> QED
      BY <2>3, <3>1, <3>3, <3>4 DEF HearKept, Words
  <2> QED
    BY <2>2, <2>5, <2>6
<1>3. ASSUME RestartTalks, NEW u \in Talks PROVE HearKept(u)'
  BY <1>3, RestartIs DEF HearKept, WithWorker
<1>4. ASSUME SwitchModel \/ UNCHANGED talkVars PROVE HearsKept'
  <2>1. heard' = heard /\ log' = log /\ asked' = asked /\ place' = place /\ via' = via
        /\ recovered' = recovered /\ crossed' = crossed
    BY <1>4 DEF SwitchModel, talkVars
  <2> QED
    BY <2>1 DEF HearsKept, Speaker, Turn, Words
<1>5. (\A u \in Talks : HearKept(u)') => HearsKept'
  BY DEF HearsKept, HearKept, HeardBy
<1> QED
  BY <1>1, <1>2, <1>3, <1>4, <1>5, StepsSplit

\* A session that heard something in an uncrossed room is the only one of its
\* character there.
LEMMA HeardByAll ==
  ASSUME TalkRows, TurnsKept, LogWithin, NEW t \in Talks, place[t] \in WithWorker
  PROVE  HeardBy(t) # Silent /\ via[t] \in Adapters /\ Speaker(t) \in Speakers /\ RoomOf[t] \in Rooms
<1>1. place[t] \in Served
  BY DEF WithWorker, Served
<1>2. via[t] \in Adapters /\ Speaker(t) \in Speakers /\ RoomOf[t] \in Rooms
  BY <1>1, ServedTyped, CastTyped
<1>3. HeardBy(t) \subseteq Nat
  BY <1>2, LogTyped DEF LogWithin, HeardBy
<1> QED
  BY <1>2, <1>3, NotSilent

\* Sessions other than that of the turn's character in its room only close.
LEMMA OtherSessions ==
  ASSUME TalkRows, TurnsKept, LogWithin, NEW t \in Talks, TalkSteps(t),
         NEW r \in Adapters, NEW c \in Speakers, NEW s \in Rooms,
         heard'[r][c][s] # Silent,
         \/ heard' = heard
         \/ r # via[t] \/ c # Speaker(t) \/ s # RoomOf[t]
  PROVE  heard'[r][c][s] = heard[r][c][s] /\ heard[r][c][s] # Silent
<1> DEFINE Hears == \E S : HearsAs(t, S)
<1>1. /\ PromptFresh(t) => Hears
      /\ PromptLive(t) => Hears
      /\ HearsAs(t, HeardBy(t) \cup {Len(log[RoomOf[t]]) + 1}) => Hears
      /\ HearsAs(t, Silent) => Hears
      /\ HearsAs(t, recovered[t] \cup Prompted(t)) => Hears
  BY DEF PromptFresh, PromptLive
<1> HIDE DEF Hears
<1>2. heard' = heard \/ Hears
  BY <1>1, HeardSteps
<1>3. CASE heard' = heard
  BY <1>3
<1>4. CASE heard' # heard
  <2>1. Hears
    BY <1>2, <1>4
  <2>2. PICK S : HearsAs(t, S)
    BY <2>1 DEF Hears
  <2> QED
    BY <1>4, <2>2 DEF HearsAs
<1> QED
  BY <1>3, <1>4

LEMMA OneSessionStep ==
  ASSUME TalkRows, TurnsKept, LogWithin, OneSession, [ConversationNext]_talkVars
  PROVE  OneSession'
<1>1. ASSUME NEW t \in Talks, TalkSteps(t), NEW r \in Adapters, NEW q \in Adapters,
             NEW c \in Speakers, NEW s \in Rooms \ crossed',
             heard'[r][c][s] # Silent, heard'[q][c][s] # Silent, q # r
      PROVE  FALSE
  <2>1. s \in Rooms \ crossed
    BY <1>1, TalkCrossed
  <2> DEFINE Own(x) == x = via[t] /\ c = Speaker(t) /\ s = RoomOf[t]
  <2>2. ASSUME NEW x \in Adapters, heard'[x][c][s] # Silent, ~Own(x)
        PROVE  heard[x][c][s] # Silent
    BY <1>1, <2>2, OtherSessions
  <2>3. CASE heard' = heard
    BY <1>1, <2>1, <2>3 DEF OneSession
  <2>4. CASE ~Own(r) /\ ~Own(q)
    BY <1>1, <2>1, <2>2, <2>4 DEF OneSession
  <2>5. ASSUME NEW x \in Adapters, NEW y \in Adapters, Own(x), y # x, heard[y][c][s] # Silent,
               Prompt(t) \/ Speak(t) \/ Collide(t)
        PROVE  FALSE
    <3>1. CASE Prompt(t)
      <4>1. TwoWorkers(t)
        BY <2>5 DEF TwoWorkers
      <4>2. crossed' = crossed \cup {RoomOf[t]}
        BY <3>1, <4>1 DEF Prompt
      <4> QED
        BY <2>5, <4>2
    <3>2. CASE Speak(t) \/ Collide(t)
      <4>1. place[t] \in WithWorker
        BY <3>2 DEF Speak, Collide, WithWorker
      <4>2. heard[x][c][s] # Silent
        BY <2>5, <4>1, HeardByAll DEF HeardBy
      <4> QED
        BY <2>1, <2>5, <4>2 DEF OneSession
    <3> QED
      BY <2>5, <3>1, <3>2
  <2>6. ASSUME NEW x \in Adapters, NEW y \in Adapters, Own(x), y # x,
               heard'[x][c][s] # Silent, heard'[y][c][s] # Silent, heard' # heard
        PROVE  FALSE
    <3>1. heard[y][c][s] # Silent
      BY <2>2, <2>6
    <3>2. Retry(t) /\ HearsAs(t, Silent) => heard'[x][c][s] = Silent
      BY <2>6 DEF HearsAs
    <3>3. Prompt(t) \/ Speak(t) \/ Collide(t)
      BY <1>1, <2>6, <3>2, HeardSteps
    <3> QED
      BY <2>5, <2>6, <3>1, <3>3
  <2> QED
    BY <1>1, <2>3, <2>4, <2>6
<1>2. ASSUME RestartTalks PROVE OneSession'
  BY <1>2 DEF RestartTalks, OneSession
<1>3. ASSUME SwitchModel \/ UNCHANGED talkVars PROVE OneSession'
  <2>1. heard' = heard /\ crossed' = crossed
    BY <1>3 DEF SwitchModel, talkVars
  <2> QED
    BY <2>1 DEF OneSession
<1>4. ASSUME NEW t \in Talks, TalkSteps(t) PROVE OneSession'
  BY <1>1, <1>4 DEF OneSession
<1> QED
  BY <1>2, <1>3, <1>4, StepsSplit

-----------------------------------------------------------------------------
(* What a session knows when its turn ends *)

LEMMA RoomSays ==
  ASSUME TalkRows, NEW s \in Rooms
  PROVE  /\ Len(log[s]) \in Nat /\ SaidIn(s) \subseteq 1 .. Len(log[s])
         /\ \A t \in Talks : RoomOf[t] = s => Others(t) \subseteq SaidIn(s)
  BY LogTyped DEF SaidIn, Others, Words

\* The messages of the room after the step, that a turn may recover
LEMMA EndKnows ==
  ASSUME TalkRows, TurnsKept, LogWithin, MessagesKept, RoomsKept, NEW t \in Talks, UnderWay(t),
         EndsWell(t) \/ EndsBadly(t), t \notin Peers, RoomOf[t] \notin crossed,
         NEW S, NEW c, KnowsOwn(S, c, t), KnowsTurn(S, c, t),
         NEW N, N = SaidIn(RoomOf[t])', NEW i \in Newest(N), NEW j \in Newest(N),
         i <= j, log'[RoomOf[t]][j].by = c
  PROVE  i \in S
<1> DEFINE s == RoomOf[t]
<1>1. s \in Rooms /\ Len(log[s]) \in Nat /\ DOMAIN log[s] = 1 .. Len(log[s])
  BY CastTyped, LogTyped
<1>2. MarksOf({t}) \/ log' = log
  BY MarkingKeeps DEF EndsWell, EndsBadly
<1>3. /\ DOMAIN log'[s] = DOMAIN log[s]
      /\ \A k \in DOMAIN log[s] :
           /\ log'[s][k].talk = log[s][k].talk /\ log'[s][k].by = log[s][k].by
           /\ ~log'[s][k].failed => ~log[s][k].failed
           /\ log[s][k].talk # t => log'[s][k].failed = log[s][k].failed
  BY <1>1, <1>2 DEF MarksOf
<1>4. N = {k \in DOMAIN log'[s] : ~log'[s][k].failed}
  BY DEF SaidIn
<1>5. N \in SUBSET (1 .. Len(log[s])) /\ Others(t) \in SUBSET N
  BY <1>1, <1>3, <1>4 DEF Others, Words
<1>6. i \in Newest(N) /\ j \in Newest(N) /\ i \in N /\ j \in N
  BY DEF Newest
<1>7. /\ \A k \in N : log[s][k].talk # t => k \in Others(t)
      /\ \A k \in N : k \in DOMAIN log[s]
  BY <1>3, <1>4 DEF Others, Words
<1>8. recovered[t] = Newest(Others(t))
      /\ \A k, l \in DOMAIN log[s] : log[s][k].talk = t /\ log[s][l].talk # t => l < k
  BY DEF RoomsKept, History, Words
<1>9. ASSUME NEW k \in N, k \in Newest(N), log[s][k].talk # t PROVE k \in recovered[t]
  <2>1. k \in Others(t)
    BY <1>7, <1>9
  <2>2. \A n \in Nat : \A T \in SUBSET (1 .. n) : \A O \in SUBSET T : \A i1 \in O :
          i1 \in Newest(T) => i1 \in Newest(O)
    BY NewestOfPart
  <2>3. k \in Newest(Others(t))
    BY <1>1, <1>5, <1>9, <2>1, <2>2
  <2> QED
    BY <1>8, <2>3
<1>10. log[s][j].by = c /\ i \in DOMAIN log[s] /\ j \in DOMAIN log[s] /\ i \in Nat /\ j \in Nat
  BY <1>1, <1>3, <1>6, <1>7
<1>11. CASE log[s][j].talk = t
  <2>1. recovered[t] \subseteq S /\ \A k \in DOMAIN log[s] : log[s][k].talk = t /\ k <= j => k \in S
    BY <1>10, <1>11 DEF KnowsTurn, Words
  <2> QED
    BY <1>6, <1>9, <1>10, <2>1
<1>12. CASE log[s][j].talk # t
  <2>1. log[s][i].talk # t
    BY <1>8, <1>10, <1>12
  <2>2. i \in recovered[t] /\ j \in recovered[t]
    BY <1>6, <1>9, <1>12, <2>1
  <2> QED
    BY <1>10, <2>2 DEF KnowsOwn, Words
<1> QED
  BY <1>11, <1>12

-----------------------------------------------------------------------------
(* What the sessions know *)

\* S is what a session of c has heard in the room s.
KnownBy(S, c, s) ==
  /\ \A t \in Talks : UnderWay(t) /\ RoomOf[t] = s => KnowsOwn(S, c, t) /\ KnowsTurn(S, c, t)
  /\ KnowsRoom(S, c, s)

LEMMA SessionsAre ==
  SessionsKept <=> \A r \in Adapters, c \in Speakers, s \in Rooms \ crossed :
                     heard[r][c][s] # Silent => KnownBy(heard[r][c][s], c, s)
  BY DEF SessionsKept, KnownBy

\* A room keeps what it knows while its turns and its words stay.
LEMMA StaysKnown ==
  ASSUME TalkRows, LogWithin, NEW S, NEW c, NEW s \in Rooms, AgreesOn(s),
         \A u \in Talks : RoomOf[u] = s => SameTurn(u), KnownBy(S, c, s)
  PROVE  KnownBy(S, c, s)'
<1>1. ASSUME NEW u \in Talks, talk'[u] = "running", RoomOf[u] = s
      PROVE  KnowsOwn(S, c, u)' /\ KnowsTurn(S, c, u)'
  <2>1. UnderWay(u) /\ recovered'[u] = recovered[u] /\ recovered[u] \subseteq DOMAIN log[s]
    BY <1>1 DEF SameTurn, UnderWay, LogWithin
  <2>2. KnowsOwn(S, c, u) /\ KnowsTurn(S, c, u)
    BY <1>1, <2>1 DEF KnownBy
  <2>3. KnowsOwn(S, c, u)'
    BY <1>1, <2>1, <2>2 DEF KnowsOwn, AgreesOn, Words
  <2>4. KnowsTurn(S, c, u)'
    BY <1>1, <2>1, <2>2 DEF KnowsTurn, AgreesOn, Words
  <2> QED
    BY <2>3, <2>4
<1>2. KnowsRoom(S, c, s)'
  <2>1. SaidIn(s)' = SaidIn(s) /\ SaidIn(s) \subseteq DOMAIN log[s]
    BY DEF SaidIn, AgreesOn, Said
  <2>2. AtEase(s)' => AtEase(s)
    BY DEF AtEase, SameTurn, UnderWay
  <2>3. KnowsRoom(S, c, s)
    BY DEF KnownBy
  <2>4. \A N : Newest(N) \subseteq N
    BY DEF Newest
  <2>5. AtEase(s) => \A i, j \in Newest(SaidIn(s)) : i <= j /\ log'[s][j].by = c => i \in S
    BY <2>1, <2>3, <2>4 DEF KnowsRoom, AgreesOn
  <2> QED
    BY <2>1, <2>2, <2>5 DEF KnowsRoom, Newest
<1> QED
  BY <1>1, <1>2 DEF KnownBy, UnderWay

\* What a turn that begins recovers is what the room's sessions know.
LEMMA BeginsKnown ==
  ASSUME TalkRows, TurnsKept, LogWithin, MessagesKept, NEW t \in Talks, BeginTalk(t),
         RoomOf[t] \notin crossed', NEW S, NEW c \in Speakers, KnownBy(S, c, RoomOf[t])
  PROVE  KnowsOwn(S, c, t)' /\ KnowsTurn(S, c, t)'
<1> DEFINE s == RoomOf[t]
<1>1. s \in Rooms /\ talk[t] = "none"
      /\ ((t \in Peers /\ log' = log) \/ (t \notin Peers /\ SaysIn(t, Owner, 0)))
  BY CastTyped, BeginIs
<1>2. recovered'[t] = Transcript(t)
  BY DEF BeginTalk, TalkRows
<1>3. \A i \in DOMAIN log[s] : log[s][i].talk # t
  BY <1>1 DEF MessagesKept
<1>4. c # Owner
  BY ConversationAssumption DEF ConversationAssumption
<1>5. CASE t \in Peers
  <2>1. recovered'[t] = {} /\ log' = log
    BY <1>1, <1>2, <1>5 DEF Transcript
  <2> QED
    BY <1>3, <2>1 DEF KnowsOwn, KnowsTurn, Words
<1>6. CASE t \notin Peers
  <2>1. SaysIn(t, Owner, 0)
    BY <1>1, <1>6
  <2>2. AtEase(s)
    <3>1. \A u \in Talks : RoomOf[u] = s => ~UnderWay(u)
      BY BeginsAlone
    <3>2. \A u \in Talks : RoomOf[u] = s => u \notin Peers
      BY <1>6, ConversationAssumption DEF ConversationAssumption
    <3> QED
      BY <3>1, <3>2 DEF AtEase
  <2>3. recovered'[t] = Newest(SaidIn(s)) /\ Newest(SaidIn(s)) \subseteq DOMAIN log[s]
    BY <1>2, <1>6 DEF Transcript, SaidIn, Newest, Words
  <2>4. \A i, j \in recovered'[t] : i <= j /\ log[s][j].by = c => i \in S
    BY <2>2, <2>3 DEF KnownBy, KnowsRoom
  <2>5. KnowsOwn(S, c, t)'
    BY <1>1, <2>1, <2>3, <2>4 DEF KnowsOwn, SaysIn, Words
  <2>6. \A j \in DOMAIN log'[s] : log'[s][j].talk = t => log'[s][j].by = Owner
    BY <1>1, <1>3, <2>1 DEF SaysIn
  <2>7. KnowsTurn(S, c, t)'
    BY <1>4, <2>6 DEF KnowsTurn, Words
  <2> QED
    BY <2>5, <2>7
<1> QED
  BY <1>5, <1>6

\* What others say, and where nothing is said, leaves what a session knows.
LEMMA GoesOnKnown ==
  ASSUME TalkRows, TurnsKept, LogWithin, NEW t \in Talks, UnderWay(t),
         recovered'[t] = recovered[t], NEW S, NEW c, KnownBy(S, c, RoomOf[t]),
         log' = log \/ \E d, n : d # c /\ SaysIn(t, d, n)
  PROVE  KnowsOwn(S, c, t)' /\ KnowsTurn(S, c, t)'
<1> DEFINE s == RoomOf[t]
<1>1. s \in Rooms /\ recovered[t] \subseteq DOMAIN log[s] /\ DOMAIN log[s] = 1 .. Len(log[s])
      /\ Len(log[s]) \in Nat
  BY CastTyped, LogTyped DEF LogWithin
<1>2. KnowsOwn(S, c, t) /\ KnowsTurn(S, c, t)
  BY DEF KnownBy
<1>3. CASE log' = log
  BY <1>2, <1>3 DEF KnowsOwn, KnowsTurn, Words
<1>4. ASSUME NEW d, NEW n, d # c, SaysIn(t, d, n) PROVE KnowsOwn(S, c, t)' /\ KnowsTurn(S, c, t)'
  <2>1. KnowsOwn(S, c, t)'
    BY <1>1, <1>2, <1>4 DEF KnowsOwn, SaysIn, Words
  <2>2. /\ \A j \in DOMAIN log'[s] : log'[s][j].by = c => j \in DOMAIN log[s]
        /\ \A j \in DOMAIN log[s] : log'[s][j] = log[s][j]
        /\ Len(log'[s]) = Len(log[s]) + 1
        /\ DOMAIN log'[s] = 1 .. Len(log'[s])
    BY <1>1, <1>4 DEF SaysIn
  <2>3. \A i \in DOMAIN log'[s], j \in DOMAIN log[s] : i <= j => i \in DOMAIN log[s]
    BY <1>1, <2>2
  <2>4. KnowsTurn(S, c, t)'
    BY <1>1, <1>2, <2>2, <2>3 DEF KnowsTurn, Words
  <2> QED
    BY <2>1, <2>4
<1> QED
  BY <1>3, <1>4

\* The session a turn is served in knows all of its room.
LEMMA ServedKnows ==
  ASSUME TalkRows, TurnsKept, LogWithin, QueuesKept, MessagesKept, RoomsKept, HearsKept, OneSession,
         SessionsKept, [ConversationNext]_talkVars, NEW t \in Talks,
         Prompt(t) \/ Speak(t) \/ Collide(t), RoomOf[t] \notin crossed',
         NEW S, S = heard'[via[t]][Speaker(t)][RoomOf[t]], NEW c
  PROVE  KnowsOwn(S, c, t)' /\ KnowsTurn(S, c, t)' /\ talk'[t] = "running"
<1>1. HearsKept'
  BY HearsStep
<1>2. via' = via /\ asked' = asked /\ talk' = talk /\ recovered' = recovered
      /\ place[t] \in {"queue", "worker"} /\ place'[t] \in WithWorker
  BY DEF Prompt, Speak, Collide, TalkRows, WithWorker
<1>3. talk[t] = "running"
  BY <1>2 DEF TurnsKept, Busy, UnderWay
<1>4. /\ recovered'[t] \subseteq S
      /\ \A i \in DOMAIN log'[RoomOf[t]] : log'[RoomOf[t]][i].talk = t => i \in S
  BY <1>1, <1>2 DEF HearsKept, Speaker, Turn, Words
<1> QED
  BY <1>2, <1>3, <1>4 DEF KnowsOwn, KnowsTurn, Words

\* A session that is left alone knows its room after the step of a turn there.
LEMMA LeftKnows ==
  ASSUME TalkRows, TurnsKept, LogWithin, MessagesKept, RoomsKept, NEW t \in Talks, TalkSteps(t),
         RoomOf[t] \notin crossed', NEW S, NEW c \in Speakers, KnownBy(S, c, RoomOf[t]),
         Speak(t) => c # Speaker(t)
  PROVE  KnownBy(S, c, RoomOf[t])'
<1> DEFINE s == RoomOf[t]
<1>1. RoomOf[t] \notin crossed /\ s \in Rooms
  BY TalkCrossed, CastTyped
<1>2. \A u \in Talks : talk'[u] = "running" /\ RoomOf[u] = s => u = t
  BY AloneAfter
<1>3. ASSUME talk'[t] = "running", KnowsOwn(S, c, t)' /\ KnowsTurn(S, c, t)'
      PROVE  KnownBy(S, c, s)'
  <2>1. ~AtEase(s)'
    BY <1>3 DEF AtEase, UnderWay
  <2>2. KnowsRoom(S, c, s)'
    BY <2>1 DEF KnowsRoom
  <2> QED
    BY <1>2, <1>3, <2>2 DEF KnownBy, UnderWay
<1>4. CASE BeginTalk(t)
  <2>1. talk'[t] = "running"
    BY <1>4 DEF BeginTalk, TalkRows
  <2> QED
    BY <1>1, <1>3, <1>4, <2>1, BeginsKnown
<1>5. CASE EndsWell(t) \/ EndsBadly(t)
  <2>1. UnderWay(t) /\ talk'[t] # "running"
    BY <1>5, EndsWellIs, EndsBadlyIs
  <2>2. KnowsOwn(S, c, t) /\ KnowsTurn(S, c, t)
    BY <2>1 DEF KnownBy
  <2>3. KnowsRoom(S, c, s)'
    <3>1. CASE t \in Peers
      <4>1. ~AtEase(s)'
        BY <3>1 DEF AtEase
      <4> QED
        BY <4>1 DEF KnowsRoom
    <3>2. CASE t \notin Peers
      <4>1. PICK N : N = SaidIn(s)'
        OBVIOUS
      <4>2. \A i, j \in Newest(N) : i <= j /\ log'[s][j].by = c => i \in S
        BY <1>1, <1>5, <2>1, <2>2, <3>2, <4>1, EndKnows
      <4> QED
        BY <4>1, <4>2 DEF KnowsRoom, Newest
    <3> QED
      BY <3>1, <3>2
  <2> QED
    BY <1>2, <2>1, <2>3 DEF KnownBy, UnderWay
<1>6. CASE ~BeginTalk(t) /\ ~EndsWell(t) /\ ~EndsBadly(t)
  <2>1. OwnTurn(t) /\ LogStep(t)
    BY OwnTurnIs, LogStepIs
  <2>2. recovered'[t] = recovered[t] /\ talk'[t] = talk[t] /\ UnderWay(t)
    BY <1>6, <2>1 DEF OwnTurn, TurnsKept, Busy
  <2>3. log' = log \/ \E d, n : d # c /\ SaysIn(t, d, n)
    BY <1>6, <2>1 DEF LogStep
  <2>4. KnowsOwn(S, c, t)' /\ KnowsTurn(S, c, t)'
    BY <2>2, <2>3, GoesOnKnown
  <2> QED
    BY <1>3, <2>2, <2>4 DEF UnderWay
<1> QED
  BY <1>4, <1>5, <1>6

LEMMA SessionsStep ==
  ASSUME TalkRows, TurnsKept, LogWithin, QueuesKept, MessagesKept, RoomsKept, HearsKept, OneSession,
         SessionsKept, [ConversationNext]_talkVars
  PROVE  SessionsKept'
<1>0. \A r \in Adapters, c \in Speakers, s \in Rooms \ crossed :
        heard[r][c][s] # Silent => KnownBy(heard[r][c][s], c, s)
  BY SessionsAre
<1>o. OneSession'
  BY OneSessionStep
<1>1. ASSUME NEW t \in Talks, TalkSteps(t), NEW r \in Adapters, NEW c \in Speakers,
             NEW s \in Rooms \ crossed', heard'[r][c][s] # Silent, NEW S, S = heard'[r][c][s]
      PROVE  KnownBy(S, c, s)'
  <2>1. s \notin crossed
    BY <1>1, TalkCrossed
  <2> DEFINE Untouched == heard' = heard \/ r # via[t] \/ c # Speaker(t) \/ s # RoomOf[t]
  <2>2. Untouched => S = heard[r][c][s] /\ KnownBy(S, c, s)
    <3>1. Untouched => S = heard[r][c][s] /\ heard[r][c][s] # Silent
      BY <1>1, OtherSessions
    <3> QED
      BY <1>0, <2>1, <3>1
  <2>3. CASE s # RoomOf[t]
    <3>1. AgreesOn(s)
      BY <1>1, <2>3, Elsewhere
    <3>2. \A u \in Talks : RoomOf[u] = s => SameTurn(u)
      BY <1>1, <2>3, OthersStay
    <3> QED
      BY <2>2, <2>3, <3>1, <3>2, StaysKnown
  <2>4. CASE s = RoomOf[t] /\ Untouched
    <3>1. KnownBy(S, c, RoomOf[t])
      BY <2>2, <2>4
    <3>2. CASE Speak(t) /\ c = Speaker(t)
      <4>1. place[t] \in WithWorker
        BY <3>2 DEF Speak, WithWorker
      <4>2. via[t] \in Adapters /\ HeardBy(t) # Silent
        BY <4>1, HeardByAll
      <4>3. Len(log[RoomOf[t]]) + 1 \in heard'[via[t]][c][s]
            /\ heard'[via[t]][c][s] = HeardBy(t) \cup {Len(log[RoomOf[t]]) + 1}
        BY <2>4, <3>2, SpeakSays DEF HearsAs
      <4>4. Len(log[RoomOf[t]]) + 1 \notin HeardBy(t)
        <5>1. HeardBy(t) \subseteq DOMAIN log[RoomOf[t]]
          BY <4>1 DEF LogWithin, HeardBy
        <5>2. Len(log[RoomOf[t]]) + 1 \notin DOMAIN log[RoomOf[t]]
          BY <3>2, SpeakSays DEF SaysIn
        <5> QED
          BY <5>1, <5>2
      <4>5. heard' # heard
        BY <2>4, <3>2, <4>3, <4>4 DEF HeardBy
      <4>6. r # via[t]
        BY <2>4, <3>2, <4>5
      <4>7. heard'[via[t]][c][s] # Silent
        <5>1. Len(log[RoomOf[t]]) + 1 # Nothing
          BY CastTyped, LogTyped, ConversationAssumption DEF ConversationAssumption
        <5>2. \A T, k : k \in T /\ k # Nothing => T # Silent
          BY DEF Silent
        <5>3. Len(log[RoomOf[t]]) + 1 \in heard'[via[t]][c][s]
          BY <4>3
        <5> QED
          BY <5>1, <5>2, <5>3
      <4>8. \A q \in Adapters : heard'[q][c][s] # Silent => q = r
        BY <1>1, <1>o DEF OneSession
      <4> QED
        BY <4>2, <4>6, <4>7, <4>8
    <3>3. CASE ~(Speak(t) /\ c = Speaker(t))
      BY <1>1, <2>4, <3>1, <3>3, LeftKnows
    <3> QED
      BY <3>2, <3>3
  <2>5. CASE s = RoomOf[t] /\ ~Untouched
    <3>1. heard' # heard /\ r = via[t] /\ c = Speaker(t)
      BY <2>5
    <3>2. Retry(t) /\ HearsAs(t, Silent) => S = Silent
      BY <1>1, <2>5, <3>1 DEF HearsAs
    <3>3. Prompt(t) \/ Speak(t) \/ Collide(t)
      BY <1>1, <3>1, <3>2, HeardSteps
    <3>4. KnowsOwn(S, c, t)' /\ KnowsTurn(S, c, t)' /\ talk'[t] = "running"
      BY <1>1, <2>5, <3>1, <3>3, ServedKnows
    <3>5. \A u \in Talks : talk'[u] = "running" /\ RoomOf[u] = s => u = t
      BY <1>1, <2>5, AloneAfter
    <3>6. ~AtEase(s)'
      BY <2>5, <3>4 DEF AtEase, UnderWay
    <3>7. KnowsRoom(S, c, s)'
      BY <3>6 DEF KnowsRoom
    <3> QED
      BY <3>4, <3>5, <3>7 DEF KnownBy, UnderWay
  <2> QED
    BY <2>3, <2>4, <2>5
<1>2. ASSUME NEW t \in Talks, TalkSteps(t) PROVE SessionsKept'
  <2> SUFFICES ASSUME NEW r \in Adapters, NEW c \in Speakers, NEW s \in Rooms \ crossed',
                      heard'[r][c][s] # Silent
               PROVE  /\ \A u \in Talks : talk'[u] = "running" /\ RoomOf[u] = s =>
                           KnowsOwn(heard[r][c][s], c, u)' /\ KnowsTurn(heard[r][c][s], c, u)'
                      /\ KnowsRoom(heard[r][c][s], c, s)'
    BY DEF SessionsKept, UnderWay
  <2>1. PICK S : S = heard'[r][c][s]
    OBVIOUS
  <2>2. KnownBy(S, c, s)'
    BY <1>1, <1>2, <2>1
  <2>3. KnowsRoom(heard[r][c][s], c, s)'
    BY <2>1, <2>2 DEF KnownBy, KnowsRoom, Newest, SaidIn
  <2>4. ASSUME NEW u \in Talks, talk'[u] = "running", RoomOf[u] = s
        PROVE  KnowsOwn(heard[r][c][s], c, u)' /\ KnowsTurn(heard[r][c][s], c, u)'
    BY <2>1, <2>2, <2>4 DEF KnownBy, UnderWay, KnowsOwn, KnowsTurn
  <2> QED
    BY <2>3, <2>4
<1>3. ASSUME RestartTalks PROVE SessionsKept'
  <2>1. heard' = [r \in Adapters |-> [c \in Speakers |-> [s \in Rooms |-> Silent]]]
    BY <1>3 DEF RestartTalks
  <2> QED
    BY <2>1 DEF SessionsKept
<1>4. ASSUME SwitchModel \/ UNCHANGED talkVars PROVE SessionsKept'
  <2>1. heard' = heard /\ log' = log /\ talk' = talk /\ recovered' = recovered /\ crossed' = crossed
    BY <1>4 DEF SwitchModel, talkVars
  <2> QED
    BY <2>1 DEF SessionsKept, UnderWay, KnowsOwn, KnowsTurn, KnowsRoom, Newest, SaidIn, AtEase, Words
<1> QED
  BY <1>2, <1>3, <1>4, StepsSplit

-----------------------------------------------------------------------------
(* All of it *)

LEMMA TalkBegins == ConversationInit => TalkInv
<1> SUFFICES ASSUME ConversationInit PROVE TalkInv
  OBVIOUS
<1> USE DEF ConversationInit
<1>1. TalkRows
  <2>1. model \in Adapters
    BY ConversationAssumption DEF ConversationAssumption
  <2>2. 0 \in 0 .. MaxTroubles
    BY ConversationAssumption DEF ConversationAssumption
  <2>3. <<>> \in Seq(RunStatuses) /\ <<>> \in Seq(Message) /\ <<>> \in Seq(Talks)
    OBVIOUS
  <2>4. heard \in [Adapters -> [Speakers -> [Rooms -> SUBSET (Nat \cup {Nothing})]]]
    BY DEF Silent
  <2>5. worker \in Workers
    BY DEF Workers
  <2> QED
    BY <2>1, <2>2, <2>3, <2>4, <2>5 DEF TalkRows, TalkStatuses, PlacesOfTalk
<1>2. \A t \in Talks : /\ talk[t] = "none" /\ place[t] = "none" /\ asked[t] = <<>> /\ Len(asked[t]) = 0
                       /\ ~UnderWay(t) /\ recovered[t] = {}
  BY DEF UnderWay
<1>3. TurnsKept
  BY <1>2, CastTyped DEF TurnsKept, Busy, Served
<1>4. (\A s \in Rooms : log[s] = <<>> /\ DOMAIN log[s] = {})
      /\ \A r \in Adapters, c \in Speakers, s \in Rooms : heard[r][c][s] = Silent
  OBVIOUS
<1>5. LogWithin
  BY <1>2, <1>4 DEF LogWithin, WithWorker
<1>6. QueuesKept
  BY <1>2 DEF QueuesKept, Served
<1>7. MessagesKept
  BY <1>4 DEF MessagesKept
<1>8. AnswersKept
  BY <1>2 DEF AnswersKept, Turn
<1>9. RoomsKept /\ HearsKept /\ OneSession /\ SessionsKept
  BY <1>2, <1>4 DEF RoomsKept, HearsKept, OneSession, SessionsKept, WithWorker
<1>10. WorkingHasRun
  BY DEF WorkingHasRun
<1> QED
  BY <1>1, <1>3, <1>5, <1>6, <1>7, <1>8, <1>9, <1>10 DEF TalkInv

LEMMA TalkGoesOn == TalkInv /\ [ConversationNext]_talkVars => TalkInv'
<1> SUFFICES ASSUME TalkInv, [ConversationNext]_talkVars PROVE TalkInv'
  OBVIOUS
<1>1. TalkRows /\ TurnsKept /\ LogWithin /\ QueuesKept /\ MessagesKept /\ AnswersKept
      /\ RoomsKept /\ HearsKept /\ OneSession /\ SessionsKept /\ WorkingHasRun
  BY DEF TalkInv
<1>2. TalkRows' /\ TurnsKept' /\ LogWithin' /\ QueuesKept' /\ MessagesKept' /\ AnswersKept'
  BY <1>1, RowsStep, TurnsStep, WithinStep, QueuesStep, MessagesStep, AnswersStep
<1>3. RoomsKept' /\ HearsKept' /\ OneSession' /\ SessionsKept' /\ WorkingHasRun'
  BY <1>1, RoomsStep, HearsStep, OneSessionStep, SessionsStep, WorkingStep
<1> QED
  BY <1>2, <1>3 DEF TalkInv

LEMMA TalkSays ==
  TalkInv => ConversationTypes /\ CompletedIsAnswered /\ NothingMissed /\ WorkingHasRun
<1> SUFFICES ASSUME TalkInv
             PROVE  ConversationTypes /\ CompletedIsAnswered /\ NothingMissed /\ WorkingHasRun
  OBVIOUS
<1>1. TalkRows /\ TurnsKept /\ LogWithin /\ AnswersKept /\ HearsKept /\ WorkingHasRun
  BY DEF TalkInv
<1>2. ConversationTypes
  BY <1>1 DEF TalkRows, TurnsKept, LogWithin, ConversationTypes
<1>3. CompletedIsAnswered
  <2>1. ASSUME NEW t \in Talks, talk[t] = "completed", NEW n \in DOMAIN asked[t]
        PROVE  Answered(t, n)
    <3>1. n \in 1 .. Turn(t)
      BY <1>1, TurnTyped
    <3> QED
      BY <1>1, <2>1, <3>1 DEF AnswersKept
  <2>2. \A t \in Talks : talk[t] = "completed" => Len(asked[t]) = Len(CastOf[t])
    BY <1>1 DEF AnswersKept, Turn
  <2> QED
    BY <2>1, <2>2 DEF CompletedIsAnswered, Answered, HasAnswer
<1>4. NothingMissed
  BY <1>1 DEF NothingMissed, HearsKept, WithWorker
<1> QED
  BY <1>1, <1>2, <1>3, <1>4

\* A prompt replays nothing that is marked.
LEMMA PromptIsWhole ==
  ASSUME TalkInv, NEW t \in Talks, Prompt(t), RoomOf[t] \notin crossed,
         NEW i \in heard'[via[t]][Speaker(t)][RoomOf[t]], Words(t)[i].failed
  PROVE  i \in heard[via[t]][Speaker(t)][RoomOf[t]]
<1>1. TalkRows /\ TurnsKept /\ LogWithin /\ RoomsKept
  BY DEF TalkInv
<1>2. UnderWay(t)
  BY <1>1 DEF Prompt, TurnsKept, Busy
<1>3. recovered[t] = History(t)
  BY <1>1, <1>2 DEF RoomsKept
<1>4. i \notin recovered[t] /\ i \notin Prompted(t)
  BY <1>3 DEF History, Newest, Others, Said, Prompted
<1>5. PromptFresh(t) \/ PromptLive(t)
  BY <1>1, PromptHears
<1> QED
  BY <1>4, <1>5 DEF PromptFresh, PromptLive, HearsAs, HeardBy

-----------------------------------------------------------------------------
(* Side by side *)

LEMMA EachItsOwn ==
  [TurnsNext]_turnsVars => [PermissionNext]_permitVars /\ [ConversationNext]_talkVars /\ part' = part
  BY DEF TurnsNext, InPermissions, InTalks, turnsVars

\* The run's specification is that of both parts, which share no variable.
LEMMA BothParts ==
  TurnsSpec => PermissionSpec /\ ConversationInit /\ [][ConversationNext]_talkVars
<1>1. TurnsInit => PermissionInit /\ ConversationInit
  BY DEF TurnsInit
<1> QED
  BY <1>1, EachItsOwn, PTL DEF TurnsSpec, PermissionSpec

LEMMA PartStays == TurnsSpec => [](part \in {"permissions", "talks"})
<1>1. TurnsInit => part \in {"permissions", "talks"}
  BY DEF TurnsInit
<1>2. part \in {"permissions", "talks"} /\ [TurnsNext]_turnsVars => (part \in {"permissions", "talks"})'
  BY EachItsOwn
<1> QED
  BY <1>1, <1>2, PTL DEF TurnsSpec

LEMMA TalkHolds == ConversationInit /\ [][ConversationNext]_talkVars => []TalkInv
  BY TalkBegins, TalkGoesOn, PTL

\* A completed turn was answered by everyone it was put to, and nobody is asked
\* without having heard what the conversation recovers, whatever workers, sessions,
\* queues, retries, changes of the model and crashes it went through (#runAgent,
\* runEmployeeTurnExclusive, buildConversationHistory); with what holds of a turn
\* that manages its world.
THEOREM TurnsAreAnswered == TurnsSpec => []TurnsStand
<1>1. (part \in {"permissions", "talks"}) /\ PermissionTypes /\ AtMostOnce /\ TalkInv => TurnsStand
  BY TalkSays DEF TurnsStand
<1> QED
  BY <1>1, BothParts, PartStays, TalkHolds, PermissionTyped, CarriedOutOnce, PTL

\* No prompt gives a session half an answer of a run that failed, unless it heard
\* it as it was said (#markRunOutputUnfinished, unseenHistory); and a grant is
\* settled when it holds.
THEOREM StepsKeepFaith == TurnsSpec => StepsStand
<1> DEFINE Whole == \A t \in Talks :
      Prompt(t) /\ RoomOf[t] \notin crossed =>
        \A i \in heard'[via[t]][Speaker(t)][RoomOf[t]] :
          Words(t)[i].failed => i \in heard[via[t]][Speaker(t)][RoomOf[t]]
<1>1. TalkInv /\ [ConversationNext]_talkVars => [Whole]_talkVars
  BY PromptIsWhole
<1>2. ConversationInit /\ [][ConversationNext]_talkVars => NoHalfAnswer
  BY <1>1, TalkHolds, PTL DEF NoHalfAnswer
<1> QED
  BY <1>2, BothParts, SettledWhenHeld, PTL DEF StepsStand
=============================================================================
