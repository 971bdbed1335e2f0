CONSTANTS
  Tables = {a, b, c}
  a = a
  b = b
  c = c
  NoTable = NoTable
  Literal = Literal
  Texts <- MCTexts
  FirstWalk <- MCFirstWalk
  RetryWalk <- MCRetryWalk
  SecondaryWalk <- MCSecondaryWalk
  Inputs <- MCInputs
  NameRank <- MCNameRank
  MaxRowCountOfHeterogenousGroup = 2
  MaxRowCountOfHomogeneousGroup = 3
SPECIFICATION TimelineSpec
CHECK_DEADLOCK FALSE
INVARIANTS
  TypeOK
  TableCountedOnce
  JoinsAttributed
  AddedStatementsAveraged
  ModelTablesKnown
  CleanListLoads
  CenterHeavy
  GroupsPartition
  GroupsBounded
  OnlyEqualsOverflow
  MarkersInLanes
