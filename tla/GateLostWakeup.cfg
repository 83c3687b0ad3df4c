SPECIFICATION FairSpec
CONSTANTS
  lamp = lamp
  music = music
  search = search
  tool = tool
  NoAction = NoAction
  Actions <- LampSearch
  ExactTarget <- Lamp
  Scheduled <- Nothing
  Payload <- Nothing
  Probed <- Search
  PreApproved <- Lamp
  GrantMayChange = FALSE
  MaxCrashes = 0
  MaxCalls = 2
PROPERTIES TurnContinues
