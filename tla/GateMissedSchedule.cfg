SPECIFICATION FairSpec
CONSTANTS
  lamp = lamp
  music = music
  search = search
  tool = tool
  NoAction = NoAction
  Actions <- Lamp
  ExactTarget <- Lamp
  Scheduled <- Lamp
  Payload <- Nothing
  Probed <- Nothing
  PreApproved <- Nothing
  GrantMayChange = FALSE
  MaxCrashes = 1
  MaxCalls = 2
PROPERTIES ApprovedEnds
