SPECIFICATION Spec
CONSTANTS
  lamp = lamp
  music = music
  search = search
  tool = tool
  NoAction = NoAction
  Actions <- Home
  ExactTarget <- Home
  Scheduled <- Home
  Payload <- Nothing
  Probed <- Nothing
  PreApproved <- Home
  GrantMayChange = TRUE
  MaxCrashes = 1
  MaxCalls = 2
INVARIANTS NeverEarly
PROPERTIES AuthorizedWhenCalled
