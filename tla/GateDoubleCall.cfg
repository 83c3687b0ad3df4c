SPECIFICATION Spec
CONSTANTS
  lamp = lamp
  music = music
  search = search
  tool = tool
  NoAction = NoAction
  Actions <- HomeSearch
  ExactTarget <- Home
  Scheduled <- Home
  Payload <- Nothing
  Probed <- Search
  PreApproved <- Nothing
  GrantMayChange = FALSE
  MaxCrashes = 0
  MaxCalls = 2
INVARIANTS AtMostOnce
