SPECIFICATION Spec
CONSTANTS
  a = a  b = b  d = d  x = x  y = y  z = z  code = code  key = key  unknown = unknown
  Null = Null
  Names = {a, b, d, x, y, z}
  ColumnNames = {code, key, unknown}
  Statements <- MCStatements
INVARIANTS
  TypeOK
  ColumnsOwnedOnce
  JoinsCountedAsWritten
  DistinctNamesDrawnAsWritten
  SidesHaveTables
CHECK_DEADLOCK FALSE
