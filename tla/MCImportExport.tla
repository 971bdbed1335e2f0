--------------------------- MODULE MCImportExport ---------------------------
(* Small export directories.                                               *)
EXTENDS ImportExport

CONSTANTS
  old1, old2,           \* there before the start
  txt, bad, pp, junk,   \* copied by users, or there before
  exp1, exp2            \* exported

MCKind ==
  [f \in Files |->
     IF f \in {old1, txt} THEN "sqltxt"
     ELSE IF f = pp THEN "dtpp"
     ELSE IF f = junk THEN "other"
     ELSE "ws"]

MCLength == [f \in Files |-> IF f \in {old1, txt} THEN 2 ELSE 1]

============================================================================
