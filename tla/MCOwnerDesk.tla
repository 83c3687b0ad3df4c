---------------------------- MODULE MCOwnerDesk ----------------------------
(***************************************************************************)
(* The parts behind the owner's pages, for TLC: conversations, settings,   *)
(* model profiles, attachments, integrations and the trace panel.  They    *)
(* share no state, so that one run explores them side by side instead of   *)
(* their product: part says which one a behaviour is about, the others     *)
(* keep their initial state.                                               *)
(***************************************************************************)
EXTENDS ChatClient, ModelProfiles, WorldSettings, Attachments, Integrations, WorldTrace, TLC

CONSTANTS ann, home, away, secret, site, token, call, picture, letter, front, clerk

VARIABLE part

\* A direct conversation at home and a group elsewhere.
ChatHome     == ann :> home
ChatStanding == <<[home |-> home, who |-> Crowd], [home |-> away, who |-> Crowd]>>

\* An endpoint with a tool, and a call of it.
SiteTools == site :> {"look"}
CallTool  == call :> "look"

\* What each part leaves alone.
NotChats    == <<part, modelVars, settingsVars, fileVars, linkVars, traceVars>>
NotModels   == <<part, chatVars, settingsVars, fileVars, linkVars, traceVars>>
NotSettings == <<part, chatVars, modelVars, fileVars, linkVars, traceVars>>
NotFiles    == <<part, chatVars, modelVars, settingsVars, linkVars, traceVars>>
NotLinks    == <<part, chatVars, modelVars, settingsVars, fileVars, traceVars>>
NotTrace    == <<part, chatVars, modelVars, settingsVars, fileVars, linkVars>>

AtChats    == part = "chats"    /\ ChatNext     /\ UNCHANGED NotChats
AtModels   == part = "models"   /\ ModelsNext   /\ UNCHANGED NotModels
AtSettings == part = "settings" /\ SettingsNext /\ UNCHANGED NotSettings
AtFiles    == part = "files"    /\ FilesNext    /\ UNCHANGED NotFiles
AtLinks    == part = "links"    /\ LinkNext     /\ UNCHANGED NotLinks
AtTrace    == part = "trace"    /\ TraceNext    /\ UNCHANGED NotTrace

\* Where a part has several initial states, the others keep one of them.
DeskInit ==
  /\ part \in {"chats", "models", "settings", "files", "links", "trace"}
  /\ ChatInit /\ ModelsInit /\ LinkInit /\ TraceInit
  /\ SettingsInit /\ (part # "settings" => \A p \in Pages : pages[p].at = home)
  /\ FilesInit /\ (part # "files" => composer.at = home)

DeskNext == AtChats \/ AtModels \/ AtSettings \/ AtFiles \/ AtLinks \/ AtTrace

deskVars == <<part, chatVars, modelVars, settingsVars, fileVars, linkVars, traceVars>>

DeskSpec == DeskInit /\ [][DeskNext]_deskVars

\* Every part keeps its types.
DeskTypes ==
  CASE part = "chats"    -> ChatTypes
    [] part = "models"   -> ModelTypes
    [] part = "settings" -> SettingsTypes
    [] part = "files"    -> FileTypes
    [] part = "links"    -> LinkTypes
    [] part = "trace"    -> TraceTypes

\* The owner's conversations: while a character has one direct session, what is on
\* show and what a turn is sent to belong together; and a turn the client has
\* settled shows its answer in any case (ChatClient).
ConversationsKept == (OneDirect => KeptApart) /\ AnswerShown

\* Keys and rows of the model profiles, and the page that edits them, agree
\* (ModelProfiles).
ProfilesKept == KeysStand /\ PageAgrees

\* The vault, the calls, the tools and the registry agree (Integrations).
LinksKept == ArgumentsFollowCalls /\ IndexFollowsTools
=============================================================================
