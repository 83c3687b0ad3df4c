---------------------------- MODULE MCWorldLife ----------------------------
(***************************************************************************)
(* The life of a world, for TLC: the ambient plans of its characters and   *)
(* the stream of its states.  They share no state here (WorldLive counts   *)
(* the states, whatever is in them), so that one run explores them side by *)
(* side instead of their product: part says which one a behaviour is       *)
(* about, the other keeps its initial state, and the fairness of each is   *)
(* asked of its own part alone.                                            *)
(***************************************************************************)
EXTENDS WorldStage, WorldLive

VARIABLE part

\* Each character has its own post, and both wander to the third.
OwnPost   == [c \in Cast |-> c]
OneRound  == [c \in Cast |-> {3}]

InStage  == part = "stage"  /\ StageNext /\ UNCHANGED <<part, liveVars>>
InStream == part = "stream" /\ LiveNext  /\ UNCHANGED <<part, stageVars>>

LifeInit == part \in {"stage", "stream"} /\ StageInit /\ LiveInit
LifeNext == InStage \/ InStream

lifeVars == <<part, stageVars, liveVars>>

LifeFairness ==
  /\ WF_stageVars(part = "stage" /\ TickStep)
  /\ SF_stageVars(part = "stage" /\ PassTime)
  /\ WF_liveVars(part = "stream" /\ Progress)

LifeSpec == LifeInit /\ [][LifeNext]_lifeVars /\ LifeFairness

\* Every part keeps its types, and no two ambient plans are of one character or
\* for one post (WorldStage).
LifeStands ==
  CASE part = "stage"  -> StageTypes /\ PlansApart
    [] part = "stream" -> LiveTypes

\* PlansEnd and CatchesUp in one formula: ambient plans end, and whoever follows
\* a world catches up with it (WorldStage, WorldLive).
LifeSettles == <>[](NoneLive /\ InStep)
=============================================================================
