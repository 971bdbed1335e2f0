SPECIFICATION FairSpec
CONSTANTS
  t1 = t1  t2 = t2
  r1 = r1  r2 = r2  r3 = r3  r4 = r4  r5 = r5
  NoRequest = NoRequest
  SqlCount <- MCSqlCount
  UniqueId <- OwnId
  Threads = {t1, t2}
  Requests <- ThreeRequests
  Ids <- ThreeRequests
  Capacity = 2
  NumRequestsToDelete = 2
  Removable = {r1, r2, r3}
INVARIANTS
  RequestsAccountedFor
  QueuedIsFindable
PROPERTIES
  CallsReturn
CHECK_DEADLOCK FALSE
