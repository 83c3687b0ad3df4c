CONSTANTS
  r1 = r1  r2 = r2  v1 = v1  v2 = v2  h1 = h1  h2 = h2
  Roots = {r1, r2}
  Versions = {v1, v2}
  Handlers = {h1}
  MaxTx = 2
  MaxChanges = 1
  MaxCrashes = 2
  CliOnline = FALSE
  None = None
SPECIFICATION Spec
INVARIANT OnlyTried
