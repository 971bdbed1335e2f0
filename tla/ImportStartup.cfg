SPECIFICATION Spec
CONSTANTS
  old1 = old1  old2 = old2  bad = bad
  txt = txt  pp = pp  junk = junk
  exp1 = exp1  exp2 = exp2
  NoFile = NoFile
  Kind <- MCKind
  Length <- MCLength
  Files = {old1, old2, bad, junk, pp}
  OldFiles = {old1, old2, bad, junk}
  UserFiles = {pp}
  ExportFiles = {}
  Malformed = {bad}
  Poisonous = {}
  LiveRequests = {"l1"}
  Importing = {"startup", "listener"}
  Capacity = 2
  MaxEvents = 3
INVARIANTS
  StartupImportsAll
CHECK_DEADLOCK FALSE
