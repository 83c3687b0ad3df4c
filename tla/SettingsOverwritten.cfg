INIT SettingsInit
NEXT SettingsNext
CONSTANTS
  Places = {home}
  Pages = {left, right}
  Clerks = {}
  Fields = {"story"}
  MaxEdits = 3
  MaxUpsets = 1
CHECK_DEADLOCK FALSE
INVARIANT NothingOverwritten
