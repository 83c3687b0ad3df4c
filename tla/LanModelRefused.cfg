INIT ModelsInit
NEXT ModelsNext
CONSTANTS
  Profiles = {1}
  ApiKeys = {key}
  Addresses = {"public", "lan"}
  Assigned = {"employee"}
  Requests = {1}
  MaxRequests = 3
  MaxTroubles = 0
CHECK_DEADLOCK FALSE
INVARIANT TakenCanBeAsked
