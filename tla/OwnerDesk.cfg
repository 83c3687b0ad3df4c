SPECIFICATION DeskSpec
CONSTANTS
  ann = ann  home = home  away = away
  secret = secret  site = site  token = token  call = call
  picture = picture  letter = letter  front = front  clerk = clerk
  Crowd = Crowd  Nobody = Nobody
  Friends = {ann}
  Homes = {home, away}
  HomeOfFriend <- ChatHome
  Standing <- ChatStanding
  FirstHome = home
  MaxChats = 3
  Mails = {1}
  PageSize = 2
  Past = 1
  MaxStirs = 2
  MaxFetches = 1
  Bookings = {ann}
  Profiles = {1, 2}
  ApiKeys = {secret}
  Addresses = {"public"}
  Assigned = {"employee"}
  Requests = {1, 2}
  MaxRequests = 2
  MaxTroubles = 1
  Places = {home, away}
  Pages = {front}
  Clerks = {clerk}
  Fields = {"story"}
  MaxEdits = 2
  MaxUpsets = 1
  Uploads = {picture, letter}
  OfInstance = {letter}
  Worlds = {home, away}
  MaxHarms = 2
  Orders = {1, 2}
  Endpoints = {site}
  ToolsAt <- SiteTools
  Tokens = {token}
  Invocations = {call}
  ToolOf <- CallTool
  MaxMishaps = 2
  TraceRuns = {1, 2}
  Earlier = {1}
  TracePage = 1
  MaxAge = 2
  MaxFrames = 1
  MaxTraceUpsets = 2
CHECK_DEADLOCK FALSE
INVARIANTS DeskTypes ConversationsKept ProfilesKept SeenBeforeReplaced CarriedIsReal LinksKept PanelTellsTheEnd
