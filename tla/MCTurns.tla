------------------------------ MODULE MCTurns ------------------------------
(***************************************************************************)
(* The turns of characters, for TLC: those of conversations and the one    *)
(* that manages its world.  The two models share no state, so that one run *)
(* explores them side by side instead of their product: part says which    *)
(* one a behaviour is about, the other keeps its initial state, and the    *)
(* fairness of each is asked of its own part alone.                        *)
(***************************************************************************)
EXTENDS MCWorldPermission, Conversation

CONSTANTS ann, bob, hall, desk, corner, small, large

VARIABLE part

\* Two turns of both characters meet in the hall, a third, whose answer is
\* reported to the first conversation, in the corner, a fourth has the desk.
Pair       == {ann, bob}
ThreeRooms == {hall, desk, corner}
TalkRooms  == <<hall, hall, corner, desk>>
TalkCasts  == << <<ann, bob>>, <<ann, bob>>, <<bob, ann>>, <<ann>> >>
ThirdTells == <<Nothing, Nothing, Nothing, 3>>
TalkModes  == <<"read", "read", "read", "write">>
TwoModels  == {small, large}

InPermissions == part = "permissions" /\ PermissionNext   /\ UNCHANGED <<part, talkVars>>
InTalks       == part = "talks"       /\ ConversationNext /\ UNCHANGED <<part, permitVars>>

TurnsInit == part \in {"permissions", "talks"} /\ PermissionInit /\ ConversationInit
TurnsNext == InPermissions \/ InTalks

turnsVars == <<part, permitVars, talkVars>>

TurnsFairness ==
  /\ \A h \in HandlerIds : WF_permitVars(part = "permissions" /\ Steps(h))
  /\ WF_talkVars(part = "talks" /\ \E t \in Talks : TalkStep(t))

TurnsSpec == TurnsInit /\ [][TurnsNext]_turnsVars /\ TurnsFairness

\* Every part keeps its types.  An action is carried out at most once
\* (WorldPermission); a turn of a conversation is answered by those it was put
\* to, who have heard what was said (Conversation).
TurnsStand ==
  CASE part = "permissions" -> PermissionTypes /\ AtMostOnce
    [] part = "talks"       -> /\ ConversationTypes
                               /\ CompletedIsAnswered /\ NothingMissed /\ WorkingHasRun

\* A grant is settled when it holds (WorldPermission), and half an answer is
\* never replayed (Conversation).
StepsStand == GrantedMeansHeld /\ NoHalfAnswer

\* RecoveredTurnEnds and TalksEnd in one formula: the turns of a conversation
\* end, and so does one a restart finds waiting for nothing but time.
TurnsEnd == (Recovering \/ ~NoneUnderWay) ~> (turn # "waiting" /\ NoneUnderWay)
=============================================================================
