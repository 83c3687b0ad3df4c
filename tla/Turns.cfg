SPECIFICATION TurnsSpec
CONSTANTS
  rename = rename
  promote = promote
  Nobody = Nobody
  Chars <- ThreeChars
  Permissions <- ThreeKinds
  Management <- Managing
  Recommended <- Everything
  Newcomer <- NoPermissions
  Legacy <- Writing
  Actor = 2
  Actions <- BothActions
  Needs <- LookAndManage
  Promotes <- Self
  Offers <- Choices
  MaxDecisions = 2
  MaxDeaths = 1
  ann = ann  bob = bob  hall = hall  desk = desk  corner = corner
  small = small  large = large
  Owner = Owner  Nothing = Nothing
  Speakers <- Pair
  Talks = {1, 2, 3, 4}
  Rooms <- ThreeRooms
  RoomOf <- TalkRooms
  CastOf <- TalkCasts
  Peers = {3}
  ReportOf <- ThirdTells
  ModeOf <- TalkModes
  Adapters <- TwoModels
  HistoryMax = 3
  MaxTogether = 2
  MaxTroubles = 1
CHECK_DEADLOCK FALSE
INVARIANTS TurnsStand AdminRemains
PROPERTIES StepsStand TurnsEnd
