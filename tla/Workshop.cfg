SPECIFICATION WorkshopSpec
CONSTANTS
  v1 = v1  v2 = v2  own = own  shop = shop  c1 = c1  c2 = c2  town = town  text = text
  Releases <- ThreeReleases
  PackageOf <- ShopOrOwn
  Contents = {text}
  Installs = {1, 2, 3}
  Builds = {3}
  MadeBy <- OwnBuild
  Copies = {c1, c2}
  FilledBy <- OwnCopy
  Worlds = {town}
  Absent = Absent
  MaxBusy = 2
  Folk = {"ann", "bob"}
  Turns = {1, 2}
  ByOf <- AnnsTurns
  KindOf <- TaskChat
  DayOf <- TwoDays
  Days = {1, 2}
  ListLimit = 500
  MaxWrites = 1
  MaxDeaths = 1
  Areas = {1, 2, 3}
  DataArea = 2
  MaxEdits = 2
  MaxBreaks = 1
  MaxRevision = 3
  Buildable = {2}
  MaxMeddles = 2
  Asks = {1, 2, 3}
  AskerOf <- OneAsker
  ModelOf <- OneModel
  PrintOf <- Prints
  RightsOf <- Rights
  MaxAdapters = 2
  MaxLosses = 1
CHECK_DEADLOCK FALSE
INVARIANTS LibraryStands GrowthStands UpkeepStands TurnsKept
SYMMETRY ShopVersions
