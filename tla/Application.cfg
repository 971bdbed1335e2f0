SPECIFICATION FairPageSpec
CONSTANTS
  Requests = {r1}
  SqlCount <- TwoStatements
  Faults = {"none", "repository", "agent", "provider", "reconnect interval", "export dir", "listener interval", "grafana", "health interval", "influx user", "influx host"}
  MaxAnswers = 2
INVARIANTS
  TypeOK
  StopsAllOrNothing
  QuietAfterStop
  HealthTaskAlive
  WritesAddUp
PROPERTIES
  Reconnects
  WorkEnds
  PageTellsConnection
  PageTellsInflux
CHECK_DEADLOCK FALSE
