------------------------------ MODULE SqlModel ------------------------------
(***************************************************************************)
(* The model of one SQL statement, model/DefaultSqlModel.java with its     *)
(* DefaultTable, DefaultColumn and DefaultBinaryOperatorExpression: tables *)
(* with aliases, columns that are found or made for an operand of a join,  *)
(* and the resolution of aliases when the parser is done.  Operators from  *)
(* models to models; StatementParse makes the calls.                       *)
(*                                                                         *)
(* Names are compared as the getters return them, in lower case.  A column *)
(* object is its number in columns, 0 is Java's null.                      *)
(***************************************************************************)
EXTENDS Integers, Sequences, SequencesExt, Selection

CONSTANTS
  Names,        \* names and aliases of tables
  ColumnNames,
  Null          \* no alias, no column name, no table

ASSUME NullAssumption == Null \notin Names /\ Null \notin ColumnNames

Table   == [name : Names, alias : Names \cup {Null}]
Column  == [name : ColumnNames \cup {Null}, alias : Names \cup {Null}, table : Names \cup {Null}]
JoinOf(Ids) == [left : Ids, right : Ids]

\* owned[t]: m_whereClauseColumns of the table named t.
Model ==
  [tables : Seq(Table), columns : Seq(Column), owned : [Names -> Seq(Nat)],
   selectList : Seq(Nat), joins : Seq(JoinOf(Nat))]

Blank ==
  [tables |-> <<>>, columns |-> <<>>, owned |-> [t \in Names |-> <<>>],
   selectList |-> <<>>, joins |-> <<>>]

Earliest(S) == CHOOSE n \in S : \A k \in S : n <= k

----------------------------------------------------------------------------
(* Finding                                                                 *)

\* findTable(): by name alone.
hasTable(m, t) == \E n \in 1 .. Len(m.tables) : m.tables[n].name = t

\* mutant: the alias is not looked at.
findTableByName(m, q) == IF q # Null /\ hasTable(m, q) THEN q ELSE Null

\* The first table that has q as its name or as its alias.
findTableGivenAlias(m, q) ==
  LET hits == {n \in 1 .. Len(m.tables) : q # Null /\ q \in {m.tables[n].name, m.tables[n].alias}}
  IN  IF hits = {} THEN Null ELSE m.tables[Earliest(hits)].name

\* DefaultTable.findColumn()
findColumn(m, t, c) ==
  LET hits == {n \in 1 .. Len(m.owned[t]) : m.columns[m.owned[t][n]].name = c}
  IN  IF hits = {} THEN 0 ELSE m.owned[t][Earliest(hits)]

\* mutant: isDetached() is not asked.
findAnyColumn(m, c) ==
  LET hits == {n \in 1 .. Len(m.selectList) : m.columns[m.selectList[n]].name = c}
  IN  IF hits = {} THEN 0 ELSE m.selectList[Earliest(hits)]

\* By name alone: the alias that the column was written with is not compared.
findDetachedColumn(m, c) ==
  LET hits == {n \in 1 .. Len(m.selectList) :
                 LET col == m.columns[m.selectList[n]] IN col.name = c /\ col.table = Null}
  IN  IF hits = {} THEN 0 ELSE m.selectList[Earliest(hits)]

----------------------------------------------------------------------------
(* Adding                                                                  *)

\* The second reference of a table is dropped, with its alias.
addTable(m, t, q) ==
  IF hasTable(m, t) THEN m ELSE [m EXCEPT !.tables = Append(@, [name |-> t, alias |-> q])]

\* mutant: setTable() is left to the resolution of the aliases.
AttachLater(m, id, t) == [m EXCEPT !.owned[t] = Append(@, id)]

\* setTable() and addColumn()
Attach(m, id, t) == [m EXCEPT !.columns[id].table = t, !.owned[t] = Append(@, id)]

NewColumn(m, q, c) == [m EXCEPT !.columns = Append(@, [name |-> c, alias |-> q, table |-> Null])]

addSelectListColumn(m, q, c) ==
  [NewColumn(m, q, c) EXCEPT !.selectList = Append(@, Len(m.columns) + 1)]

\* A table that can be told although the column is not qualified by it.
onlyTable(m) == IF Len(m.tables) = 1 THEN m.tables[1].name ELSE Null

\* The column of an operand and the model with it: one that the table already
\* owns, else one of the select list, else a new one.  A literal's is null.
addWhereClauseColumn(m, q, c) ==
  LET t     == findTableGivenAlias(m, q)
      own   == IF t = Null THEN 0 ELSE findColumn(m, t, c)
      loose == IF t = Null THEN 0 ELSE findDetachedColumn(m, c)
      fresh == NewColumn(m, q, c)
      home  == IF t = Null THEN onlyTable(m) ELSE t
      id    == Len(m.columns) + 1
  IN  CASE own # 0   -> [model |-> m, column |-> own]
        [] own = 0 /\ loose # 0 -> [model |-> Attach(m, loose, t), column |-> loose]
        [] OTHER     -> [model  |-> IF home = Null THEN fresh ELSE Attach(fresh, id, home),
                         column |-> IF c = Null THEN 0 ELSE id]

\* The operands of an expression, the left one first.  JSqlParser asks for no
\* column where there is none.
Operands(m, l, r) ==
  LET left  == addWhereClauseColumn(m, l.alias, l.column)
      right == IF r.asked THEN addWhereClauseColumn(left.model, r.alias, r.column)
               ELSE [model |-> left.model, column |-> 0]
  IN  [model |-> right.model, left |-> left.column, right |-> right.column]

\* addBinaryOperatorExpression()
WithJoin(m, l, r) ==
  LET ops == Operands(m, l, r)
  IN  [ops.model EXCEPT !.joins = Append(@, [left |-> ops.left, right |-> ops.right])]

\* mutant: the name of the column.
nameOf(m, id) == IF id = 0 THEN Null ELSE m.columns[id].name

tableOf(m, id) == IF id = 0 THEN Null ELSE m.columns[id].table

----------------------------------------------------------------------------
(* postProcess()                                                           *)

\* The null of a literal on the left ends the loop with an exception.
LeftLiteral(m, n) == m.joins[n].left = 0

Resolvable(m) == \A n \in 1 .. Len(m.joins) : ~LeftLiteral(m, n)

ResolvedJoins(m) ==
  IF Resolvable(m) THEN m.joins
  ELSE SubSeq(m.joins, 1, Earliest({n \in 1 .. Len(m.joins) : LeftLiteral(m, n)}) - 1)

\* mutant: only the select list is resolved.
resolvedOfSelectList(m) == m.selectList

\* The columns that resolveColumnAliases() goes through, in order.
resolved(m) ==
  m.selectList \o
  FlattenSeq([n \in 1 .. Len(ResolvedJoins(m)) |->
                LET j == ResolvedJoins(m)[n] IN IF j.right = 0 THEN <<j.left>> ELSE <<j.left, j.right>>])

\* A column's own alias decides, whichever table the column was given before;
\* that table keeps the column in its list.
resolveColumnAliases(m) ==
  LET done   == ToSet(resolved(m))
      its(id) == findTableGivenAlias(m, m.columns[id].alias)
  IN  [m EXCEPT
        !.columns = [id \in 1 .. Len(@) |->
                       IF id \in done /\ its(id) # Null THEN [@[id] EXCEPT !.table = its(id)] ELSE @[id]],
        !.owned   = [t \in Names |-> @[t] \o Select(resolved(m), {id \in done : its(id) = t})]]

============================================================================
