SPECIFICATION FairSpec
CONSTANTS
  lamp = lamp
  music = music
  search = search
  tool = tool
  NoAction = NoAction
  Actions <- LampSearch
  ExactTarget <- Lamp
  Scheduled <- Nothing
  Payload <- Nothing
  Probed <- Search
  PreApproved <- Nothing
  GrantMayChange = FALSE
  MaxCrashes = 1
  MaxCalls = 2
INVARIANTS CallsRecorded NotStranded
PROPERTIES OneCallOneVerdict TurnContinues ApprovedEnds
