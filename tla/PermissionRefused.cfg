SPECIFICATION PermissionSpec
CONSTANTS
  rename = rename
  promote = promote
  Nobody = Nobody
  Chars <- ThreeChars
  Permissions <- ThreeKinds
  Management <- Managing
  Recommended <- Everything
  Newcomer <- NoPermissions
  Legacy <- Writing
  Actor = 2
  Actions <- BothActions
  Needs <- LookAndManage
  Promotes <- Self
  Offers <- TakeOrGive
  MaxDecisions = 2
  MaxDeaths = 1
CHECK_DEADLOCK FALSE
PROPERTIES RefusedIsFinal
