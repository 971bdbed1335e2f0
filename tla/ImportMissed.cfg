SPECIFICATION FairSpec
CONSTANTS
  old1 = old1  old2 = old2  bad = bad
  txt = txt  pp = pp  junk = junk
  exp1 = exp1  exp2 = exp2
  NoFile = NoFile
  Kind <- MCKind
  Length <- MCLength
  Files = {txt}
  OldFiles = {}
  UserFiles = {txt}
  ExportFiles = {}
  Malformed = {}
  Poisonous = {}
  LiveRequests = {}
  Importing = {"listener"}
  Capacity = 2
  MaxEvents = 3
PROPERTIES
  NewFilesImported
CHECK_DEADLOCK FALSE
