SPECIFICATION FairSpec
CONSTANTS
  old1 = old1  old2 = old2  bad = bad
  txt = txt  pp = pp  junk = junk
  exp1 = exp1  exp2 = exp2
  NoFile = NoFile
  Kind <- MCKind
  Length <- MCLength
  Files = {txt, bad, exp1}
  OldFiles = {}
  UserFiles = {txt, bad}
  ExportFiles = {exp1}
  Malformed = {}
  Poisonous = {bad}
  LiveRequests = {"l1"}
  Importing = {"listener"}
  Capacity = 2
  MaxEvents = 1
INVARIANTS
  TypeOK
  
  RightId
PROPERTIES
  EventsConsidered
CHECK_DEADLOCK FALSE
