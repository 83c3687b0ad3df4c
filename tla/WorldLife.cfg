SPECIFICATION LifeSpec
CONSTANTS
  Cast = {1, 2}
  Posts = {1, 2, 3, 4, 5, 6}
  HomeOf <- OwnPost
  Rounds <- OneRound
  TaskPosts = {3}
  Seats = {5, 6}
  RestPosts = {}
  Duration = 1
  Cooldown = 1
  Lease = 2
  MaxPlans = 2
  MaxUnseen = 1
  MaxClock = 2
  MaxReal = 1
  MaxDeaths = 1
  MaxSeq = 2
  MaxCuts = 1
  MaxFails = 1
  MaxToggles = 1
CHECK_DEADLOCK FALSE
INVARIANTS LifeStands
PROPERTIES LifeSettles
