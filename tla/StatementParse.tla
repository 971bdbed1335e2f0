--------------------------- MODULE StatementParse ---------------------------
(***************************************************************************)
(* A parser fills the model of one statement: the calls that Akiban's      *)
(* visitor (db/akiban/AkibanSqlParser.java) or JSqlParser's extractors     *)
(* (db/jsqlparser) make, in their order, then postProcess().  A call is a  *)
(* step, because observers are notified in between; the constant           *)
(* Statements holds the calls.  When Akiban's attempt fails, setSqlText()  *)
(* of DefaultSqlWrapper has the simplified text parsed into the same model: *)
(* the calls of that walk follow the call "again".                         *)
(***************************************************************************)
EXTENDS SqlModel, FiniteSets

CONSTANT Statements

Operand == [alias : Names \cup {Null}, column : ColumnNames \cup {Null}, asked : BOOLEAN]

Call ==
  [call : {"table"}, name : Names, alias : Names \cup {Null}]
    \cup [call : {"column"}, alias : Names \cup {Null}, column : ColumnNames]
    \cup [call : {"join"}, left : Operand, right : Operand]
    \cup [call : {"again"}, thrown : BOOLEAN]

\* A literal has neither alias nor column name, and only of a literal no column is
\* asked.
ASSUME StatementAssumption ==
  \A st \in Statements :
    /\ st \in Seq(Call)
    /\ \A n \in 1 .. Len(st) : st[n].call = "join" =>
         \A op \in {st[n].left, st[n].right} :
           (op.column = Null => op.alias = Null) /\ (op.asked \/ op.column = Null)

\* An expression comes behind a table that its qualifiers name, Akiban's ON behind
\* the two that it joins, or before all tables, as JSqlParser's ON does.
ASSUME DeclaredAssumption ==
  \A st \in Statements : \A n \in DOMAIN st : st[n].call = "join" =>
    \A op \in {st[n].left, st[n].right} :
      LET naming == {k \in DOMAIN st : /\ st[k].call = "table" /\ op.alias # Null
                                       /\ op.alias \in {st[k].name, st[k].alias}}
      IN  \/ naming = {}
          \/ \E k \in naming : k < n
          \/ \A k \in 1 .. n - 1 : st[k].call # "table"

\* A text is walked again when its first attempt failed: an exception came before
\* postProcess(), as for a CREATE VIEW, whose type SqlType does not know (line 68), or
\* postProcess() met a literal on the left.
ASSUME RetryAssumption ==
  \A st \in Statements : \A n \in DOMAIN st : st[n].call = "again" =>
    \/ st[n].thrown
    \/ \E k \in 1 .. n - 1 : st[k].call = "join" /\ st[k].left.column = Null

VARIABLES
  statement,    \* the calls that the parser makes
  at,           \* the next of them
  model,        \* the DefaultSqlModel
  counted,      \* history: each join, and its tables when the observer was told
  phase         \* "walk", "parsed" or "failed"

vars == <<statement, at, model, counted, phase>>

\* The types, and every number of a column stands for a column.
TypeOK ==
  /\ statement \in Seq(Call)
  /\ at \in 1 .. Len(statement) + 1
  /\ model \in Model
  /\ \A n \in 1 .. Len(model.selectList) : model.selectList[n] \in DOMAIN model.columns
  /\ \A t \in Names : \A n \in 1 .. Len(model.owned[t]) : model.owned[t][n] \in DOMAIN model.columns
  /\ \A n \in 1 .. Len(model.joins) :
       {model.joins[n].left, model.joins[n].right} \subseteq {0} \cup DOMAIN model.columns
  /\ counted \in Seq([of : Call, left : Names \cup {Null}, right : Names \cup {Null}])
  /\ phase \in {"walk", "parsed", "failed"}

Init ==
  /\ statement \in Statements
  /\ at = 1
  /\ model = Blank
  /\ counted = <<>>
  /\ phase = "walk"

Calls(kind) == phase = "walk" /\ at <= Len(statement) /\ statement[at].call = kind

c == statement[at]

\* FROM_BASE_TABLE and TABLE_NAME, or a table of the extractor's list.
CallTable ==
  /\ Calls("table")
  /\ model' = addTable(model, c.name, c.alias)
  /\ at' = at + 1
  /\ UNCHANGED <<statement, counted, phase>>

\* COLUMN_REFERENCE, in the select list as well as in the where clause.
CallColumn ==
  /\ Calls("column")
  /\ model' = addSelectListColumn(model, c.alias, c.column)
  /\ at' = at + 1
  /\ UNCHANGED <<statement, counted, phase>>

\* BINARY_EQUALS_OPERATOR_NODE; the observer sees the tables of this moment.
CallJoin ==
  LET ops == Operands(model, c.left, c.right) IN
  /\ Calls("join")
  /\ model' = WithJoin(model, c.left, c.right)
  /\ counted' = Append(counted, [of    |-> c,
                                 left  |-> tableOf(ops.model, ops.left),
                                 right |-> tableOf(ops.model, ops.right)])
  /\ at' = at + 1
  /\ UNCHANGED <<statement, phase>>

\* The walk of the simplified text begins; the resolution of the aliases that broke
\* off at a literal is not undone.
CallAgain ==
  /\ Calls("again")
  /\ c.thrown \/ ~Resolvable(model)
  /\ model' = IF c.thrown THEN model ELSE resolveColumnAliases(model)
  /\ at' = at + 1
  /\ UNCHANGED <<statement, counted, phase>>

postProcess ==
  /\ phase = "walk" /\ at > Len(statement)
  /\ model' = resolveColumnAliases(model)
  /\ phase' = IF Resolvable(model) THEN "parsed" ELSE "failed"
  /\ UNCHANGED <<statement, at, counted>>

Next == CallTable \/ CallColumn \/ CallJoin \/ CallAgain \/ postProcess

Spec == Init /\ [][Next]_vars

----------------------------------------------------------------------------
(* What the statement says                                                 *)

CallsOf(kind) == {n \in 1 .. Len(statement) : statement[n].call = kind}

Sources == {statement[n] : n \in CallsOf("table")}

\* The tables that the qualifier of an operand names.
Written(op) == {k.name : k \in {s \in Sources : op.alias # Null /\ op.alias \in {s.name, s.alias}}}

\* The call that reports a table first.
First(n) == \A k \in CallsOf("table") : k < n => statement[k].name # statement[n].name

\* A table that is joined to itself comes again with another alias.
SelfJoined ==
  \E n, k \in CallsOf("table") :
    /\ First(n) /\ statement[n].name = statement[k].name
    /\ statement[k].alias \notin {Null, statement[n].alias}

\* Akiban reports every table before the first expression.
TablesFirst ==
  \A n \in CallsOf("table") : \A k \in CallsOf("join") :
    \E i \in CallsOf("table") : i < k /\ statement[i] = statement[n]

\* The text is walked again in a model whose aliases have been resolved in part.
Stale == \E n \in CallsOf("again") : n < at /\ ~statement[n].thrown

Operations == {statement[n] : n \in CallsOf("join")}

References ==
  {[alias |-> k.alias, column |-> k.column] :
     k \in {statement[n] : n \in CallsOf("column")}
             \cup {j.left : j \in Operations} \cup {j.right : j \in Operations}}

\* A column name occurs with one qualifier only.
NamesDistinct == \A r, s \in References : r.column = s.column => r.alias = s.alias

AsWritten(side, op) ==
  Written(op) # {} =>
    side \in Written(op) \cup (IF SelfJoined THEN {Null} ELSE {})

Drawn(n) == [left |-> tableOf(model, model.joins[n].left), right |-> tableOf(model, model.joins[n].right)]

----------------------------------------------------------------------------
(* Properties                                                              *)

\* The column belongs to the table that its qualifier names.
Moved(m, id) ==
  /\ m.columns[id].table # Null
  /\ m.columns[id].table = findTableGivenAlias(m, m.columns[id].alias)

\* In the first walk a column is in the list of the table that it belongs to and in
\* no other one, once: DefaultTable.findColumn() never returns a column of another
\* table.  The resolution of the aliases (lines 102-132) moves columns and leaves them
\* listed where they were, and line 97 of DefaultSqlWrapper walks on in such a model;
\* even then a column of another table is never a stranger's: it belongs to the table
\* that its own qualifier names.
ColumnsOwnedOnce ==
  \A t \in Names : \A n \in 1 .. Len(model.owned[t]) :
    /\ \/ model.columns[model.owned[t][n]].table = t
       \/ Moved(model, model.owned[t][n]) /\ (phase # "walk" \/ Stale)
    /\ phase = "walk" /\ ~Stale =>
         \A k \in 1 .. Len(model.owned[t]) : model.owned[t][k] = model.owned[t][n] => k = n

\* Every join is counted for the tables that its statement names, although
\* columns are looked up by name alone; only the second alias of a self join is
\* unknown (addTable() lines 85-92, addWhereClauseColumn() lines 186-213).  Once a
\* resolution has broken off, a table may list a column that has been moved to
\* another one, and the second walk counts a join for that; it counts right when no
\* column name has two qualifiers.
JoinsCountedAsWritten ==
  TablesFirst /\ (Stale => NamesDistinct) =>
    \A n \in 1 .. Len(counted) :
      /\ AsWritten(counted[n].left, counted[n].of.left)
      /\ AsWritten(counted[n].right, counted[n].of.right)

\* The same of the tables that the time line draws the join between, when the
\* aliases have been resolved.  A column object of another alias with the same
\* name may have been taken for the operand.
JoinsDrawnAsWritten ==
  phase = "parsed" =>
    \A n \in 1 .. Len(model.joins) :
      /\ AsWritten(Drawn(n).left, counted[n].of.left)
      /\ AsWritten(Drawn(n).right, counted[n].of.right)

\* It holds for statements in which no column name has two qualifiers, for both
\* parsers.
DistinctNamesDrawnAsWritten == NamesDistinct => JoinsDrawnAsWritten

\* The time line can be drawn (DefaultRow lines 136-145 throw for a column
\* without a table): every side has a table when every operand is qualified by
\* a table of the statement and no table is joined to itself.
SidesHaveTables ==
  /\ phase = "parsed" /\ ~SelfJoined
  /\ \A j \in Operations : \A op \in {j.left, j.right} : op.column # Null => Written(op) # {}
  => \A n \in 1 .. Len(model.joins) :
       /\ Drawn(n).left # Null
       /\ model.joins[n].right # 0 => Drawn(n).right # Null

============================================================================
