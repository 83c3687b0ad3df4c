SPECIFICATION Spec
CONSTANTS
  lamp = lamp
  music = music
  search = search
  tool = tool
  NoAction = NoAction
  Actions <- AllKinds
  ExactTarget <- Lamp
  Scheduled <- Nothing
  Payload <- Tool
  Probed <- Search
  PreApproved <- Nothing
  GrantMayChange = FALSE
  MaxCrashes = 0
  MaxCalls = 2
INVARIANTS TypeOK AtMostOnce RefusedNeverCalled
PROPERTIES AnsweredOnce AnswerStands
