--------------------------- MODULE OwnerDeskProofs ---------------------------
(***************************************************************************)
(* The parts behind the owner's pages side by side, as TLC explores them   *)
(* (MCOwnerDesk): what is proved of each holds of all of them together.    *)
(***************************************************************************)
EXTENDS MCOwnerDesk, ChatClientProofs, DeskRecordsProofs

\* A step of the desk is a step of one part and leaves the others alone.
LEMMA DeskSteps ==
  [DeskNext]_deskVars =>
    /\ [ChatNext]_chatVars /\ [ModelsNext]_modelVars /\ [SettingsNext]_settingsVars
    /\ [FilesNext]_fileVars /\ [LinkNext]_linkVars /\ [TraceNext]_traceVars
    /\ part' = part
<1> SUFFICES ASSUME [DeskNext]_deskVars
             PROVE  /\ [ChatNext]_chatVars /\ [ModelsNext]_modelVars /\ [SettingsNext]_settingsVars
                    /\ [FilesNext]_fileVars /\ [LinkNext]_linkVars /\ [TraceNext]_traceVars
                    /\ part' = part
  OBVIOUS
<1>1. CASE AtChats
  BY <1>1 DEF AtChats, NotChats
<1>2. CASE AtModels
  BY <1>2 DEF AtModels, NotModels
<1>3. CASE AtSettings
  BY <1>3 DEF AtSettings, NotSettings
<1>4. CASE AtFiles
  BY <1>4 DEF AtFiles, NotFiles
<1>5. CASE AtLinks
  BY <1>5 DEF AtLinks, NotLinks
<1>6. CASE AtTrace
  BY <1>6 DEF AtTrace, NotTrace
<1>7. CASE UNCHANGED deskVars
  BY <1>7 DEF deskVars
<1> QED
  BY <1>1, <1>2, <1>3, <1>4, <1>5, <1>6, <1>7 DEF DeskNext

\* Turns, their events and refreshes end in any order while the owner opens other
\* conversations and worlds and requests fail: what is on show is of the open
\* conversation and a turn goes to the session it was sent from, as long as a
\* character has one direct session; and a turn that is over shows its answer in
\* any case (App.tsx, chat-realtime.ts).
THEOREM ConversationsStayKept == DeskSpec => []ConversationsKept
<1>1. DeskInit => ChatInv
  BY ChatStart DEF DeskInit
<1>2. ChatInv /\ [DeskNext]_deskVars => ChatInv'
  BY DeskSteps, StepOfChat
<1>3. ChatInv => ConversationsKept
  BY ChatHolds DEF ConversationsKept
<1> QED
  BY <1>1, <1>2, <1>3, PTL DEF DeskSpec

\* Connections are saved, deleted and assigned by any number of requests that meet
\* while their keys are written, writes fail and the process may die: a row that
\* refers to a key has one in the vault and in the environment, and the page shows
\* the rows and routes as they are once every answer has come in its order
\* (model-routes.ts, model-credential-service.ts, App.tsx).
THEOREM ModelsKeepKeys == DeskSpec => []ProfilesKept
<1>1. DeskInit => KeysInv /\ PageFollows
  BY KeysStart DEF DeskInit
<1>2. KeysInv /\ PageFollows /\ [DeskNext]_deskVars => KeysInv' /\ PageFollows'
  BY DeskSteps, StepOfModels, ModelsRest
<1>3. KeysInv /\ PageFollows => ProfilesKept
  BY KeysHold DEF ProfilesKept
<1> QED
  BY <1>1, <1>2, <1>3, PTL DEF DeskSpec

\* Connections are saved, deleted and discovered again while tool calls park their
\* arguments in the file of the tokens, whose writes land in any order: the arguments
\* of a call are there while it may go out and gone when it is settled, and the index
\* holds the tools that were discovered (integration-service.ts,
\* integration-secret-vault.ts, mcp-skill-adapter.ts).
THEOREM LinksStayKept == DeskSpec => []LinksKept
<1>1. DeskInit => LinkInv
  BY LinksStart DEF DeskInit
<1>2. LinkInv /\ [DeskNext]_deskVars => LinkInv'
  BY DeskSteps, StepOfLinks
<1>3. LinkInv => LinksKept
  BY LinksHold DEF LinksKept
<1> QED
  BY <1>1, <1>2, <1>3, PTL DEF DeskSpec

\* What a run became reaches the panel by frames and by pages that overtake each
\* other, over a connection that breaks: once nothing is on its way, a run of the
\* first page shows the end it had and its logged model turn (world-trace-service.ts,
\* useWorldTrace.ts).
THEOREM PanelIsTold == DeskSpec => []PanelTellsTheEnd
<1>1. DeskInit => TraceInv
  BY TraceStarts DEF DeskInit
<1>2. TraceInv /\ [DeskNext]_deskVars => TraceInv'
  BY DeskSteps, StepOfTrace
<1>3. TraceInv => PanelTellsTheEnd
  BY TraceHolds
<1> QED
  BY <1>1, <1>2, <1>3, PTL DEF DeskSpec

\* Every part behind the owner's pages keeps its types, whatever meets in it
\* (MCOwnerDesk).
THEOREM DeskStaysTyped == DeskSpec => []DeskTypes
<1> DEFINE DeskInv == /\ ChatInv /\ KeysInv /\ PageFollows /\ SettingsInv /\ FilesInv
                      /\ LinkInv /\ TraceInv
                      /\ part \in {"chats", "models", "settings", "files", "links", "trace"}
<1>1. DeskInit => DeskInv
  BY ChatStart, KeysStart, InitSettings, InitFiles, LinksStart, TraceStarts DEF DeskInit
<1>2. DeskInv /\ [DeskNext]_deskVars => DeskInv'
  BY DeskSteps, StepOfChat, StepOfModels, ModelsRest, SettingsStep, FilesStep, StepOfLinks, StepOfTrace
<1>3. DeskInv => DeskTypes
  BY ChatHolds, KeysHold, SettingsHold, FilesHold, LinksHold, TraceHolds DEF DeskTypes
<1> QED
  BY <1>1, <1>2, <1>3, PTL DEF DeskSpec
=============================================================================
