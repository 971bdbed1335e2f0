SPECIFICATION Spec
CONSTANTS
  t1 = t1  t2 = t2
  r1 = r1  r2 = r2  r3 = r3  r4 = r4  r5 = r5
  NoRequest = NoRequest
  SqlCount <- MCSqlCount
  UniqueId <- OwnId
  Threads = {t1, t2}
  Requests <- FiveRequests
  Ids <- FiveRequests
  Capacity = 2
  NumRequestsToDelete = 1
  Removable = {}
SYMMETRY ThreadSymmetry
INVARIANTS
  TypeOK
  RequestsAccountedFor
  SqlAccountedFor
  QueuedIsFindable
  EvictionsCovered
CHECK_DEADLOCK FALSE
