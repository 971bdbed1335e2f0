--------------------------- MODULE SqlModelProofs ---------------------------
(***************************************************************************)
(* The columns and the joins of a statement while its parser walks and when *)
(* the aliases have been resolved, for all statements that a parser may     *)
(* report, of any number of tables, columns and expressions.                *)
(***************************************************************************)
EXTENDS StatementParse, DataLemmas

\* A model whose tables list columns that belong to them or have been moved.
Sound(m) ==
  /\ m \in Model
  /\ \A n \in 1 .. Len(m.selectList) : m.selectList[n] \in 1 .. Len(m.columns)
  /\ \A t \in Names : \A n \in 1 .. Len(m.owned[t]) :
       /\ m.owned[t][n] \in 1 .. Len(m.columns)
       /\ m.columns[m.owned[t][n]].table = t \/ Moved(m, m.owned[t][n])

\* No column has been moved, and none is listed twice.
Owned(m) ==
  \A t \in Names : \A n \in 1 .. Len(m.owned[t]) :
    /\ m.columns[m.owned[t][n]].table = t
    /\ \A k \in 1 .. Len(m.owned[t]) : m.owned[t][k] = m.owned[t][n] => k = n

\* The calls so far that reported tables.
Reported == {k \in CallsOf("table") : k < at}

\* Every table is as it was reported first, and every reported table is there; an
\* alias is only lost by a self join.
TablesTrue ==
  /\ \A n \in 1 .. Len(model.tables) : \E k \in Reported :
       First(k) /\ model.tables[n].name = statement[k].name /\ model.tables[n].alias = statement[k].alias
  /\ \A k \in Reported : \E n \in 1 .. Len(model.tables) :
       /\ model.tables[n].name = statement[k].name
       /\ statement[k].alias \in {Null, model.tables[n].alias} \/ SelfJoined

WalkTypes ==
  /\ statement \in Statements
  /\ at \in 1 .. Len(statement) + 1
  /\ phase \in {"walk", "parsed", "failed"}
  /\ counted \in Seq([of : Call, left : Names \cup {Null}, right : Names \cup {Null}])

WalkInv ==
  /\ WalkTypes
  /\ phase = "walk" => Sound(model) /\ TablesTrue /\ (Owned(model) \/ Stale)
  /\ JoinsCountedAsWritten

----------------------------------------------------------------------------
(* Operators                                                               *)

LEMMA EarliestIn ==
  ASSUME NEW S, S \subseteq Nat, S # {}
  PROVE  Earliest(S) \in S /\ \A k \in S : Earliest(S) <= k
<1>1. \E n \in S : \A k \in S : n <= k
  BY NatMinimum
<1> QED
  BY <1>1 DEF Earliest

(* What the searches return.                                                *)
LEMMA GivenAlias ==
  ASSUME NEW m \in Model, NEW q \in Names \cup {Null}
  PROVE  \/ /\ findTableGivenAlias(m, q) = Null
            /\ q # Null => \A n \in 1 .. Len(m.tables) : q \notin {m.tables[n].name, m.tables[n].alias}
         \/ /\ q # Null /\ findTableGivenAlias(m, q) \in Names
            /\ \E n \in 1 .. Len(m.tables) :
                 /\ q \in {m.tables[n].name, m.tables[n].alias}
                 /\ findTableGivenAlias(m, q) = m.tables[n].name
<1> DEFINE hits == {n \in 1 .. Len(m.tables) : q # Null /\ q \in {m.tables[n].name, m.tables[n].alias}}
<1>1. m.tables \in Seq(Table)
  BY DEF Model
<1>2. hits \subseteq Nat
  BY <1>1
<1>3. findTableGivenAlias(m, q) = IF hits = {} THEN Null ELSE m.tables[Earliest(hits)].name
  BY DEF findTableGivenAlias
<1>4. CASE hits = {}
  BY <1>3, <1>4
<1>5. CASE hits # {}
  <2> DEFINE n == Earliest(hits)
  <2>1. n \in hits
    BY <1>2, <1>5, EarliestIn
  <2> HIDE DEF n
  <2>2. m.tables[n] \in Table
    BY <1>1, <2>1
  <2> QED
    BY <1>3, <1>5, <2>1, <2>2 DEF Table, n
<1> QED
  BY <1>4, <1>5

(* Tables that are added later do not change what an alias stands for.      *)
LEMMA SameTables ==
  ASSUME NEW m, NEW w, w.tables = m.tables, NEW q
  PROVE  findTableGivenAlias(w, q) = findTableGivenAlias(m, q)
BY DEF findTableGivenAlias

LEMMA MoreTables ==
  ASSUME NEW m \in Model, NEW e \in Table, NEW w, w.tables = Append(m.tables, e),
         NEW q, findTableGivenAlias(m, q) # Null
  PROVE  findTableGivenAlias(w, q) = findTableGivenAlias(m, q)
<1> DEFINE hits(v) == {n \in 1 .. Len(v.tables) : q # Null /\ q \in {v.tables[n].name, v.tables[n].alias}}
           len == Len(m.tables)
<1>1. /\ len \in Nat /\ Len(w.tables) = len + 1
      /\ \A n \in 1 .. len : w.tables[n] = m.tables[n]
  <2>1. m.tables \in Seq(Table)
    BY DEF Model
  <2> QED
    BY <2>1, AppendProperties, LenProperties
<1>2. \A v : findTableGivenAlias(v, q) = IF hits(v) = {} THEN Null ELSE v.tables[Earliest(hits(v))].name
  BY DEF findTableGivenAlias
<1>3. hits(m) # {} /\ hits(m) \subseteq 1 .. len /\ \A n \in 1 .. len : n \in hits(w) <=> n \in hits(m)
  <2>1. hits(m) # {}
    BY <1>2
  <2> QED
    BY <1>1, <2>1
<1>4. hits(w) # {} /\ hits(w) \subseteq 1 .. len + 1
  BY <1>1, <1>3
<1> DEFINE i == Earliest(hits(m))
           k == Earliest(hits(w))
<1>5. findTableGivenAlias(m, q) = m.tables[i].name /\ findTableGivenAlias(w, q) = w.tables[k].name
  BY <1>2, <1>3, <1>4
<1> HIDE DEF hits
<1>6. /\ i \in hits(m) /\ \A n \in hits(m) : i <= n
      /\ k \in hits(w) /\ \A n \in hits(w) : k <= n
  BY <1>1, <1>3, <1>4, EarliestIn
<1> HIDE DEF i, k
<1>7. i \in hits(w) /\ i \in 1 .. len
  BY <1>3, <1>6
<1>8. k \in 1 .. len /\ k \in hits(m)
  BY <1>1, <1>3, <1>4, <1>6, <1>7
<1>9. i = k
  BY <1>6, <1>7, <1>8
<1> QED
  BY <1>1, <1>5, <1>7, <1>9

LEMMA FoundColumn ==
  ASSUME NEW m, Sound(m), NEW t \in Names, NEW k \in ColumnNames \cup {Null}
  PROVE  \/ findColumn(m, t, k) = 0
         \/ \E n \in 1 .. Len(m.owned[t]) :
              findColumn(m, t, k) = m.owned[t][n] /\ m.columns[m.owned[t][n]].name = k
<1> DEFINE hits == {n \in 1 .. Len(m.owned[t]) : m.columns[m.owned[t][n]].name = k}
<1>1. m.owned[t] \in Seq(Nat)
  BY DEF Sound, Model
<1>2. hits \subseteq Nat
  BY <1>1
<1>3. hits # {} => Earliest(hits) \in hits
  BY <1>2, EarliestIn
<1> QED
  BY <1>3 DEF findColumn

LEMMA FoundDetached ==
  ASSUME NEW m, Sound(m), NEW k \in ColumnNames \cup {Null}
  PROVE  \/ findDetachedColumn(m, k) = 0
         \/ \E n \in 1 .. Len(m.selectList) :
              /\ findDetachedColumn(m, k) = m.selectList[n]
              /\ m.columns[m.selectList[n]].table = Null
              /\ m.columns[m.selectList[n]].name = k
<1> DEFINE hits == {n \in 1 .. Len(m.selectList) :
                      m.columns[m.selectList[n]].name = k /\ m.columns[m.selectList[n]].table = Null}
<1>1. m.selectList \in Seq(Nat)
  BY DEF Sound, Model
<1>2. hits \subseteq Nat
  BY <1>1
<1>3. hits # {} => Earliest(hits) \in hits
  BY <1>2, EarliestIn
<1>4. findDetachedColumn(m, k) = IF hits = {} THEN 0 ELSE m.selectList[Earliest(hits)]
  BY DEF findDetachedColumn
<1> QED
  BY <1>3, <1>4

----------------------------------------------------------------------------
(* Adding a column                                                         *)

\* No column has a table that its model has not.
TableNames(m) == {m.tables[n].name : n \in 1 .. Len(m.tables)}

Drawable(m) == \A i \in 1 .. Len(m.columns) : m.columns[i].table \in {Null} \cup TableNames(m)

\* What an operand leaves as it is: tables that are known stay, and only a column
\* of the select list is given one.
Keeps(m, w) ==
  /\ w.tables = m.tables /\ w.selectList = m.selectList /\ w.joins = m.joins
  /\ Len(m.columns) <= Len(w.columns)
  /\ \A k \in 1 .. Len(m.columns) :
       w.columns[k].name = m.columns[k].name /\ w.columns[k].alias = m.columns[k].alias
  /\ \A k \in 1 .. Len(m.columns) :
       m.columns[k].table # Null \/ (\A n \in 1 .. Len(m.selectList) : m.selectList[n] # k) =>
         w.columns[k].table = m.columns[k].table

LEMMA Fields ==
  ASSUME NEW m \in Model
  PROVE  /\ m.tables \in Seq(Table) /\ m.columns \in Seq(Column)
         /\ m.owned \in [Names -> Seq(Nat)] /\ m.selectList \in Seq(Nat)
         /\ m.joins \in Seq(JoinOf(Nat))
  BY DEF Model

(* setTable() and addColumn() of a detached column.                         *)
LEMMA AttachSound ==
  ASSUME NEW m, Sound(m), NEW t \in Names, NEW k \in 1 .. Len(m.columns), m.columns[k].table = Null
  PROVE  /\ Sound(Attach(m, k, t)) /\ (Owned(m) => Owned(Attach(m, k, t)))
         /\ Attach(m, k, t).tables = m.tables /\ Attach(m, k, t).selectList = m.selectList
         /\ Attach(m, k, t).joins = m.joins
         /\ Len(Attach(m, k, t).columns) = Len(m.columns)
         /\ Attach(m, k, t).columns[k] = [name |-> m.columns[k].name, alias |-> m.columns[k].alias, table |-> t]
         /\ \A i \in 1 .. Len(m.columns) : i # k => Attach(m, k, t).columns[i] = m.columns[i]
<1> DEFINE w == Attach(m, k, t)
           cols == [m.columns EXCEPT ![k] = [m.columns[k] EXCEPT !.table = t]]
           own == [m.owned EXCEPT ![t] = Append(m.owned[t], k)]
<1>1. m \in Model /\ t # Null
  BY NullAssumption DEF Sound
<1>2. w = [m EXCEPT !.columns = cols, !.owned = own]
  BY <1>1 DEF Attach, Model
<1>3. cols \in Seq(Column) /\ Len(cols) = Len(m.columns)
  <2>1. [m.columns[k] EXCEPT !.table = t] \in Column
    <3>1. m.columns[k] \in Column
      BY <1>1, Fields
    <3> QED
      BY <3>1 DEF Column
  <2> QED
    BY <1>1, <2>1, Fields
<1>4. /\ cols[k].table = t
      /\ cols[k] = [name |-> m.columns[k].name, alias |-> m.columns[k].alias, table |-> t]
      /\ \A i \in 1 .. Len(m.columns) : i # k => cols[i] = m.columns[i]
  <2>1. m.columns[k] \in Column
    BY <1>1, Fields
  <2>2. [m.columns[k] EXCEPT !.table = t] = [name |-> m.columns[k].name, alias |-> m.columns[k].alias, table |-> t]
    BY <2>1 DEF Column
  <2>3. m.columns = [i \in 1 .. Len(m.columns) |-> m.columns[i]]
    BY <1>1, Fields
  <2> QED
    BY <2>2, <2>3
<1>5. /\ m.owned[t] \in Seq(Nat) /\ k \in Nat
      /\ \A u \in Names : \A n \in 1 .. Len(m.owned[u]) : m.owned[u][n] # k
  BY <1>1, Fields, NullAssumption DEF Sound, Moved
<1>6. /\ own \in [Names -> Seq(Nat)]
      /\ \A u \in Names : u # t => own[u] = m.owned[u]
      /\ Len(own[t]) = Len(m.owned[t]) + 1
      /\ own[t][Len(m.owned[t]) + 1] = k
      /\ \A n \in 1 .. Len(m.owned[t]) : own[t][n] = m.owned[t][n]
  <2>1. own[t] = Append(m.owned[t], k)
    BY <1>1, Fields
  <2> QED
    BY <1>1, <1>5, <2>1, Fields, AppendProperties
<1> HIDE DEF cols, own
<1>7. /\ w.tables = m.tables /\ w.columns = cols /\ w.owned = own
      /\ w.selectList = m.selectList /\ w.joins = m.joins
      /\ w \in Model
  BY <1>1, <1>2, <1>3, <1>6 DEF Model
<1> HIDE DEF w
<1>8. ASSUME NEW u \in Names, NEW n \in 1 .. Len(own[u])
      PROVE  /\ own[u][n] \in 1 .. Len(cols)
             /\ cols[own[u][n]].table = u \/ Moved(w, own[u][n])
  <2>1. ASSUME NEW i \in 1 .. Len(m.owned[u]), own[u][n] = m.owned[u][i]
        PROVE  /\ own[u][n] \in 1 .. Len(cols)
               /\ cols[own[u][n]].table = u \/ Moved(w, own[u][n])
    <3>1. /\ m.owned[u][i] \in 1 .. Len(m.columns) /\ m.owned[u][i] # k
          /\ m.columns[m.owned[u][i]].table = u \/ Moved(m, m.owned[u][i])
      BY <1>5 DEF Sound
    <3>2. cols[own[u][n]] = m.columns[own[u][n]]
      BY <1>4, <2>1, <3>1
    <3>3. Moved(m, own[u][n]) => Moved(w, own[u][n])
      BY <1>7, <3>2, SameTables DEF Moved
    <3> QED
      BY <1>3, <2>1, <3>1, <3>2, <3>3
  <2>2. CASE u # t
    BY <1>6, <2>1, <2>2
  <2>3. CASE u = t
    <3>1. Len(m.owned[t]) \in Nat
      BY <1>5
    <3>2. n \in 1 .. Len(m.owned[t]) \/ n = Len(m.owned[t]) + 1
      BY <1>6, <2>3, <3>1
    <3> QED
      BY <1>3, <1>4, <1>6, <2>1, <2>3, <3>2
  <2> QED
    BY <2>2, <2>3
<1>9. ASSUME Owned(m), NEW u \in Names, NEW n \in 1 .. Len(own[u])
      PROVE  /\ cols[own[u][n]].table = u
             /\ \A i \in 1 .. Len(own[u]) : own[u][i] = own[u][n] => i = n
  <2>1. CASE u # t
    <3>1. /\ own[u] = m.owned[u]
          /\ m.owned[u][n] \in 1 .. Len(m.columns)
          /\ m.columns[m.owned[u][n]].table = u
          /\ u # Null
          /\ \A i \in 1 .. Len(m.owned[u]) : m.owned[u][i] = m.owned[u][n] => i = n
      BY <1>6, <1>9, <2>1, NullAssumption DEF Sound, Owned
    <3> QED
      BY <1>3, <1>4, <3>1
  <2>2. CASE u = t
    <3> DEFINE len == Len(m.owned[t])
    <3>1. len \in Nat /\ n \in 1 .. len + 1 /\ Len(own[u]) = len + 1
      BY <1>5, <1>6, <2>2
    <3>2. \A i \in 1 .. len :
            /\ m.owned[t][i] \in 1 .. Len(m.columns)
            /\ m.columns[m.owned[t][i]].table = t
            /\ \A j \in 1 .. len : m.owned[t][j] = m.owned[t][i] => j = i
      BY <1>9 DEF Sound, Owned
    <3>3. /\ \A i \in 1 .. len : own[t][i] = m.owned[t][i] /\ m.owned[t][i] # k
          /\ own[t][len + 1] = k
      BY <1>5, <1>6
    <3> HIDE DEF len
    <3>4. CASE n \in 1 .. len
      <4>1. own[u][n] \in 1 .. Len(cols) /\ cols[own[u][n]].table = u
        BY <1>3, <1>4, <2>2, <3>2, <3>4, <3>3
      <4>2. ASSUME NEW i \in 1 .. len + 1, own[t][i] = own[t][n]
            PROVE  i = n
        <5>1. i # len + 1
          BY <3>4, <3>3, <4>2
        <5>2. i \in 1 .. len
          BY <3>1, <5>1
        <5> QED
          BY <3>2, <3>4, <3>3, <4>2, <5>2
      <4> QED
        BY <2>2, <3>1, <4>1, <4>2
    <3>5. CASE n = len + 1
      <4>1. own[u][n] \in 1 .. Len(cols) /\ cols[own[u][n]].table = u
        BY <1>3, <1>4, <2>2, <3>5, <3>3
      <4>2. ASSUME NEW i \in 1 .. len + 1, own[t][i] = own[t][n]
            PROVE  i = n
        <5>1. i \notin 1 .. len
          BY <3>5, <3>3, <4>2
        <5> QED
          BY <3>1, <3>5, <5>1
      <4> QED
        BY <2>2, <3>1, <4>1, <4>2
    <3> QED
      BY <3>1, <3>4, <3>5
  <2> QED
    BY <2>1, <2>2
<1>10. Sound(w)
  BY <1>3, <1>7, <1>8 DEF Sound
<1>11. Owned(m) => Owned(w)
  BY <1>7, <1>9 DEF Owned
<1> QED
  BY <1>3, <1>4, <1>7, <1>10, <1>11 DEF w

(* A new column belongs to no table yet.                                    *)
LEMMA NewColumnSound ==
  ASSUME NEW m, Sound(m), NEW q \in Names \cup {Null}, NEW k \in ColumnNames \cup {Null}
  PROVE  /\ Sound(NewColumn(m, q, k)) /\ (Owned(m) => Owned(NewColumn(m, q, k)))
         /\ NewColumn(m, q, k).tables = m.tables /\ NewColumn(m, q, k).selectList = m.selectList
         /\ Len(NewColumn(m, q, k).columns) = Len(m.columns) + 1
         /\ NewColumn(m, q, k).joins = m.joins
         /\ NewColumn(m, q, k).columns[Len(m.columns) + 1] = [name |-> k, alias |-> q, table |-> Null]
         /\ \A i \in 1 .. Len(m.columns) : NewColumn(m, q, k).columns[i] = m.columns[i]
<1> DEFINE w == NewColumn(m, q, k)
           col == [name |-> k, alias |-> q, table |-> Null]
           cols == Append(m.columns, col)
<1>1. m \in Model
  BY DEF Sound
<1>2. col \in Column
  BY DEF Column
<1>3. w = [m EXCEPT !.columns = cols]
  BY <1>1 DEF NewColumn, Model
<1>4. /\ m.columns \in Seq(Column) /\ Len(m.columns) \in Nat
      /\ cols \in Seq(Column) /\ Len(cols) = Len(m.columns) + 1
      /\ cols[Len(m.columns) + 1] = col
      /\ \A i \in 1 .. Len(m.columns) : cols[i] = m.columns[i]
  BY <1>1, <1>2, Fields, AppendProperties
<1>5. col = [name |-> k, alias |-> q, table |-> Null]
  OBVIOUS
<1> HIDE DEF cols, col
<1>6. /\ w.tables = m.tables /\ w.columns = cols /\ w.owned = m.owned
      /\ w.selectList = m.selectList /\ w.joins = m.joins /\ w \in Model
  BY <1>1, <1>3, <1>4 DEF Model
<1> HIDE DEF w
<1>7. Sound(w)
  <2>1. \A n \in 1 .. Len(m.selectList) : m.selectList[n] \in 1 .. Len(cols)
    BY <1>4 DEF Sound
  <2>2. ASSUME NEW t \in Names, NEW n \in 1 .. Len(m.owned[t])
        PROVE  /\ m.owned[t][n] \in 1 .. Len(cols)
               /\ cols[m.owned[t][n]].table = t \/ Moved(w, m.owned[t][n])
    <3>1. /\ m.owned[t][n] \in 1 .. Len(m.columns)
          /\ m.columns[m.owned[t][n]].table = t \/ Moved(m, m.owned[t][n])
      BY DEF Sound
    <3>2. cols[m.owned[t][n]] = m.columns[m.owned[t][n]]
      BY <1>4, <3>1
    <3>3. Moved(m, m.owned[t][n]) => Moved(w, m.owned[t][n])
      BY <1>6, <3>2, SameTables DEF Moved
    <3> QED
      BY <1>4, <3>1, <3>2, <3>3
  <2> QED
    BY <1>6, <2>1, <2>2 DEF Sound
<1>8. Owned(m) => Owned(w)
  <2> SUFFICES ASSUME Owned(m), NEW t \in Names, NEW n \in 1 .. Len(m.owned[t])
               PROVE  /\ cols[m.owned[t][n]].table = t
                      /\ \A i \in 1 .. Len(m.owned[t]) : m.owned[t][i] = m.owned[t][n] => i = n
    BY <1>6 DEF Owned
  <2>1. /\ m.owned[t][n] \in 1 .. Len(m.columns) /\ m.columns[m.owned[t][n]].table = t
        /\ \A i \in 1 .. Len(m.owned[t]) : m.owned[t][i] = m.owned[t][n] => i = n
    BY DEF Sound, Owned
  <2>2. cols[m.owned[t][n]] = m.columns[m.owned[t][n]]
    BY <1>4, <2>1
  <2> QED
    BY <2>1, <2>2
<1> QED
  BY <1>4, <1>5, <1>6, <1>7, <1>8 DEF w

----------------------------------------------------------------------------
(* The column of an operand                                                *)

\* The column that is found by its name has been written with this qualifier, or it
\* is where it belongs.
Trusted(m, q, k) ==
  Owned(m) \/ \A i \in 1 .. Len(m.columns) : m.columns[i].name = k => m.columns[i].alias = q

\* What an operand makes of the model m: w, and the column r that it gets.
Operand1(m, w, r, q, k) ==
  /\ Sound(w) /\ Keeps(m, w) /\ (Owned(m) => Owned(w))
  /\ Drawable(m) => Drawable(w)
  /\ \A i \in 1 .. Len(w.columns) :
       i \in 1 .. Len(m.columns) \/ (w.columns[i].name = k /\ w.columns[i].alias = q)
  /\ r \in {0} \cup 1 .. Len(w.columns)
  /\ r = 0 <=> k = Null
  /\ r # 0 => /\ w.columns[r].name = k
              /\ w.columns[r].table = Null => w.columns[r].alias = q
  /\ findTableGivenAlias(m, q) # Null =>
       /\ tableOf(w, r) # Null
       /\ Trusted(m, q, k) => tableOf(w, r) = findTableGivenAlias(m, q)
  /\ findTableGivenAlias(m, q) = Null =>
       /\ tableOf(w, r) \in {Null, onlyTable(m)}
       /\ \A n \in 1 .. Len(m.selectList) : m.selectList[n] # r

LEMMA OnlyTable ==
  ASSUME NEW m \in Model
  PROVE  \/ onlyTable(m) = Null
         \/ Len(m.tables) = 1 /\ onlyTable(m) = m.tables[1].name /\ onlyTable(m) \in Names
<1>1. CASE Len(m.tables) = 1
  <2>1. m.tables[1] \in Table
    BY <1>1, Fields
  <2> QED
    BY <1>1, <2>1 DEF onlyTable, Table
<1>2. CASE Len(m.tables) # 1
  BY <1>2 DEF onlyTable
<1> QED
  BY <1>1, <1>2

(* addWhereClauseColumn(): an operand whose qualifier is known gets a column *)
(* of that table, whichever of the three ways it goes, and one of its own    *)
(* name, though it may have been written with another qualifier.             *)
LEMMA OperandColumn ==
  ASSUME NEW m, Sound(m), NEW q \in Names \cup {Null}, NEW k \in ColumnNames \cup {Null},
         k = Null => q = Null
  PROVE  Operand1(m, addWhereClauseColumn(m, q, k).model, addWhereClauseColumn(m, q, k).column, q, k)
<1> DEFINE t     == findTableGivenAlias(m, q)
           own   == IF t = Null THEN 0 ELSE findColumn(m, t, k)
           loose == IF t = Null THEN 0 ELSE findDetachedColumn(m, k)
           fresh == NewColumn(m, q, k)
           home  == IF t = Null THEN onlyTable(m) ELSE t
           id    == Len(m.columns) + 1
           all   == addWhereClauseColumn(m, q, k)
           w     == all.model
           r     == all.column
<1>1. m \in Model /\ Len(m.columns) \in Nat /\ Null \notin Names
  <2>1. m \in Model
    BY DEF Sound
  <2> QED
    BY <2>1, Fields, NullAssumption
<1>2. t \in Names \cup {Null} /\ (t # Null => t \in Names /\ t \in TableNames(m) /\ k # Null)
  BY <1>1, GivenAlias DEF TableNames
<1>3. all = CASE own # 0 -> [model |-> m, column |-> own]
              [] own = 0 /\ loose # 0 -> [model |-> Attach(m, loose, t), column |-> loose]
              [] OTHER -> [model |-> IF home = Null THEN fresh ELSE Attach(fresh, id, home),
                           column |-> IF k = Null THEN 0 ELSE id]
  BY DEF addWhereClauseColumn
<1>4. CASE own # 0
  <2>1. w = m /\ r = own
    BY <1>3, <1>4
  <2>2. t # Null
    BY <1>4
  <2>3. /\ own \in 1 .. Len(m.columns) /\ m.columns[own].name = k /\ m.columns[own].table # Null
        /\ Trusted(m, q, k) => m.columns[own].table = t
    <3>1. own = findColumn(m, t, k)
      BY <2>2
    <3>2. PICK n \in 1 .. Len(m.owned[t]) :
            findColumn(m, t, k) = m.owned[t][n] /\ m.columns[m.owned[t][n]].name = k
      BY <1>2, <1>4, <2>2, <3>1, FoundColumn
    <3>3. /\ own \in 1 .. Len(m.columns)
          /\ m.columns[own].table = t \/ Moved(m, own)
          /\ Owned(m) => m.columns[own].table = t
      BY <1>2, <2>2, <3>1, <3>2 DEF Sound, Owned
    <3>4. m.columns[own].alias = q /\ Moved(m, own) => m.columns[own].table = t
      BY DEF Moved
    <3>5. m.columns[own].name = k
      BY <3>1, <3>2
    <3> HIDE DEF t, own
    <3> QED
      BY <2>2, <3>3, <3>4, <3>5 DEF Trusted, Moved
  <2>4. tableOf(w, r) # Null /\ (Trusted(m, q, k) => tableOf(w, r) = t)
    BY <1>4, <2>1, <2>3 DEF tableOf
  <2>5. Keeps(m, w)
    BY <1>1, <2>1 DEF Keeps
  <2> HIDE DEF t, own, w, r
  <2>6. Operand1(m, w, r, q, k)
    BY <1>2, <1>4, <2>1, <2>2, <2>3, <2>4, <2>5 DEF Operand1, t
  <2> QED
    BY <2>6 DEF all, w, r
<1>5. CASE own = 0 /\ loose # 0
  <2>1. w = Attach(m, loose, t) /\ r = loose
    BY <1>3, <1>5
  <2>2. t # Null
    BY <1>5
  <2>3. PICK n \in 1 .. Len(m.selectList) :
          loose = m.selectList[n] /\ m.columns[loose].table = Null /\ m.columns[loose].name = k
    BY <1>2, <1>5, <2>2, FoundDetached
  <2>4. loose \in 1 .. Len(m.columns)
    BY <2>3 DEF Sound
  <2>5. /\ Sound(Attach(m, loose, t)) /\ (Owned(m) => Owned(Attach(m, loose, t)))
        /\ Attach(m, loose, t).tables = m.tables /\ Attach(m, loose, t).selectList = m.selectList
        /\ Attach(m, loose, t).joins = m.joins
        /\ Len(Attach(m, loose, t).columns) = Len(m.columns)
        /\ Attach(m, loose, t).columns[loose] = [name |-> m.columns[loose].name, alias |-> m.columns[loose].alias, table |-> t]
        /\ \A i \in 1 .. Len(m.columns) : i # loose => Attach(m, loose, t).columns[i] = m.columns[i]
    <3> HIDE DEF t, loose
    <3> QED
      BY <1>2, <2>2, <2>3, <2>4, AttachSound
  <2> HIDE DEF t, own, loose, w, r
  <2>6. /\ Sound(w) /\ w.tables = m.tables /\ w.selectList = m.selectList /\ w.joins = m.joins
        /\ (Owned(m) => Owned(w)) /\ Len(w.columns) = Len(m.columns) /\ w.columns[loose].table = t
        /\ \A i \in 1 .. Len(m.columns) : /\ i # loose => w.columns[i].table = m.columns[i].table
                                          /\ w.columns[i].name = m.columns[i].name
                                          /\ w.columns[i].alias = m.columns[i].alias
    BY <2>1, <2>4, <2>5
  <2>7. Keeps(m, w)
    <3>1. ASSUME NEW i \in 1 .. Len(m.columns),
                 m.columns[i].table # Null \/ (\A j \in 1 .. Len(m.selectList) : m.selectList[j] # i)
          PROVE  w.columns[i].table = m.columns[i].table
      <4>1. i # loose
        BY <2>3, <3>1
      <4> QED
        BY <2>6, <4>1
    <3>2. Len(m.columns) <= Len(w.columns)
      BY <1>1, <2>6
    <3> QED
      BY <2>6, <3>1, <3>2 DEF Keeps
  <2>8. tableOf(w, r) = t
    BY <1>5, <2>1, <2>6 DEF tableOf
  <2>9. Drawable(m) => Drawable(w)
    <3>1. TableNames(w) = TableNames(m) /\ t \in TableNames(m)
      BY <1>2, <2>2, <2>6 DEF TableNames
    <3>2. \A i \in 1 .. Len(w.columns) : i # loose => w.columns[i].table = m.columns[i].table
      BY <2>6
    <3> HIDE DEF TableNames
    <3> QED
      BY <2>6, <3>1, <3>2 DEF Drawable
  <2>10. Operand1(m, w, r, q, k)
    BY <1>2, <1>5, <2>1, <2>2, <2>3, <2>4, <2>6, <2>7, <2>8, <2>9 DEF Operand1, t
  <2> QED
    BY <2>10 DEF all, w, r
<1>6. CASE own = 0 /\ loose = 0
  <2>1. /\ w = IF home = Null THEN fresh ELSE Attach(fresh, id, home)
        /\ r = IF k = Null THEN 0 ELSE id
    BY <1>3, <1>6
  <2>2. /\ Sound(fresh) /\ fresh.tables = m.tables /\ fresh.selectList = m.selectList
        /\ fresh.joins = m.joins /\ (Owned(m) => Owned(fresh))
        /\ Len(fresh.columns) = id /\ fresh.columns[id] = [name |-> k, alias |-> q, table |-> Null]
        /\ \A i \in 1 .. Len(m.columns) : fresh.columns[i] = m.columns[i]
    BY NewColumnSound
  <2>3. /\ home \in Names \cup {Null} /\ id \in 1 .. id /\ Len(m.columns) <= id
        /\ home # Null => home \in TableNames(m)
    <3>1. onlyTable(m) # Null => onlyTable(m) \in TableNames(m) /\ onlyTable(m) \in Names
      BY <1>1, OnlyTable DEF TableNames
    <3> QED
      BY <1>1, <1>2, <3>1
  <2>4. /\ Sound(w) /\ w.tables = m.tables /\ w.selectList = m.selectList /\ w.joins = m.joins
        /\ (Owned(m) => Owned(w))
        /\ Len(w.columns) = id /\ w.columns[id] = [name |-> k, alias |-> q, table |-> home]
        /\ \A i \in 1 .. Len(m.columns) : w.columns[i] = m.columns[i]
    <3>1. CASE home = Null
      BY <2>1, <2>2, <3>1
    <3>2. CASE home # Null
      <4>1. w = Attach(fresh, id, home)
        BY <2>1, <3>2
      <4>2. \A i \in 1 .. Len(m.columns) : i # id /\ i \in 1 .. id
        BY <1>1
      <4>3. /\ home \in Names /\ id \in 1 .. Len(fresh.columns) /\ fresh.columns[id].table = Null
            /\ fresh.columns[id].name = k /\ fresh.columns[id].alias = q
        BY <2>2, <2>3, <3>2
      <4> HIDE DEF fresh, home, id, w
      <4>4. /\ Sound(w) /\ (Owned(fresh) => Owned(w)) /\ w.tables = fresh.tables /\ w.selectList = fresh.selectList
            /\ w.joins = fresh.joins /\ Len(w.columns) = Len(fresh.columns)
            /\ w.columns[id] = [name |-> fresh.columns[id].name, alias |-> fresh.columns[id].alias, table |-> home]
            /\ \A i \in 1 .. Len(fresh.columns) : i # id => w.columns[i] = fresh.columns[i]
        BY <2>2, <4>1, <4>3, AttachSound
      <4> QED
        BY <2>2, <4>2, <4>3, <4>4
    <3> QED
      BY <3>1, <3>2
  <2>5. \A n \in 1 .. Len(m.selectList) : m.selectList[n] # r
    BY <1>1, <2>1 DEF Sound
  <2>6. r # 0 => r = id
    BY <2>1
  <2>7. t # Null => r = id /\ home = t
    BY <1>2, <2>1
  <2>8. t = Null => home = onlyTable(m)
    OBVIOUS
  <2>9. r \in {0, id} /\ id # 0 /\ (r = 0 <=> k = Null)
    BY <1>1, <2>1
  <2>10. \A i \in 1 .. id : i \in 1 .. Len(m.columns) \/ i = id
    BY <1>1
  <2> HIDE DEF t, own, loose, fresh, home, id, all, w, r
  <2>11. w.columns[id].name = k /\ w.columns[id].alias = q /\ w.columns[id].table = home
    BY <2>4
  <2>12. Keeps(m, w)
    BY <2>3, <2>4 DEF Keeps
  <2>13. /\ t # Null => tableOf(w, r) = t /\ tableOf(w, r) # Null
         /\ t = Null => tableOf(w, r) \in {Null, onlyTable(m)}
    BY <2>11, <2>7, <2>8, <2>9 DEF tableOf
  <2>14. r \in {0} \cup 1 .. Len(w.columns)
    BY <2>3, <2>4, <2>9
  <2>15. Drawable(m) => Drawable(w)
    <3>1. TableNames(w) = TableNames(m) /\ home \in {Null} \cup TableNames(m)
      BY <2>3, <2>4 DEF TableNames
    <3>2. \A i \in 1 .. Len(w.columns) : i \in 1 .. Len(m.columns) \/ i = id
      BY <2>4, <2>10
    <3> QED
      BY <2>4, <2>11, <3>1, <3>2 DEF Drawable
  <2>16. Operand1(m, w, r, q, k)
    BY <2>4, <2>5, <2>9, <2>10, <2>11, <2>12, <2>13, <2>14, <2>15 DEF Operand1, t
  <2> QED
    BY <2>16 DEF all, w, r
<1> QED
  BY <1>4, <1>5, <1>6

----------------------------------------------------------------------------
(* The calls of the parser                                                 *)

Proper(op) == op \in Operand /\ (op.column = Null => op.alias = Null) /\ (op.asked \/ op.column = Null)

\* The table that a side of a join is drawn to.
Side(m, x, op) ==
  /\ findTableGivenAlias(m, op.alias) # Null => x = findTableGivenAlias(m, op.alias)
  /\ findTableGivenAlias(m, op.alias) = Null => x \in {Null, onlyTable(m)}

\* Both operands of an expression find columns that may be trusted.
BothTrusted(m, lop, rop) ==
  \/ Owned(m)
  \/ /\ \A op \in {lop, rop} : \A i \in 1 .. Len(m.columns) :
          m.columns[i].name = op.column => m.columns[i].alias = op.alias
     /\ lop.column = rop.column => lop.alias = rop.alias

\* The column of a side: none for a literal only, with the name that was written, and
\* with its qualifier where that is still needed to tell the table.
SideOK(w, id, op) ==
  /\ id \in {0} \cup 1 .. Len(w.columns)
  /\ id = 0 <=> op.column = Null
  /\ id # 0 => w.columns[id].name = op.column
  /\ id # 0 /\ w.columns[id].table = Null =>
       /\ w.columns[id].alias = op.alias
       /\ \A n \in 1 .. Len(w.selectList) : w.selectList[n] # id

(* Later operands leave it so, and they leave its table.                    *)
LEMMA SideKept ==
  ASSUME NEW m, Sound(m), NEW w, Sound(w), Keeps(m, w), NEW id, NEW op, SideOK(m, id, op)
  PROVE  SideOK(w, id, op) /\ tableOf(w, id) = tableOf(m, id)
<1>1. Len(m.columns) \in Nat /\ Len(w.columns) \in Nat /\ Len(m.columns) <= Len(w.columns)
  <2>1. m \in Model /\ w \in Model
    BY DEF Sound
  <2>2. Len(m.columns) \in Nat /\ Len(w.columns) \in Nat
    BY <2>1, Fields
  <2> QED
    BY <2>2 DEF Keeps
<1>2. id \in {0} \cup 1 .. Len(w.columns)
  BY <1>1 DEF SideOK
<1>3. id # 0 => /\ w.columns[id].name = m.columns[id].name /\ w.columns[id].alias = m.columns[id].alias
                /\ w.columns[id].table = m.columns[id].table
  BY DEF SideOK, Keeps
<1>4. w.selectList = m.selectList
  BY DEF Keeps
<1> QED
  BY <1>2, <1>3, <1>4 DEF SideOK, tableOf

LEMMA KeepsBoth ==
  ASSUME NEW m, Sound(m), NEW v, Sound(v), NEW w, Sound(w), Keeps(m, v), Keeps(v, w)
  PROVE  Keeps(m, w)
<1>1. m \in Model /\ v \in Model /\ w \in Model
  BY DEF Sound
<1>2. Len(m.columns) \in Nat /\ Len(v.columns) \in Nat /\ Len(w.columns) \in Nat
  BY <1>1, Fields
<1>3. Len(m.columns) <= Len(v.columns) /\ Len(v.columns) <= Len(w.columns)
      /\ v.selectList = m.selectList /\ w.selectList = m.selectList
      /\ w.tables = m.tables /\ w.joins = m.joins
  BY DEF Keeps
<1>4. ASSUME NEW k \in 1 .. Len(m.columns)
      PROVE  /\ w.columns[k].name = m.columns[k].name /\ w.columns[k].alias = m.columns[k].alias
             /\ m.columns[k].table # Null \/ (\A n \in 1 .. Len(m.selectList) : m.selectList[n] # k) =>
                  w.columns[k].table = m.columns[k].table
  <2>1. k \in 1 .. Len(v.columns)
    BY <1>2, <1>3
  <2> QED
    BY <1>3, <2>1 DEF Keeps
<1>5. Len(m.columns) <= Len(w.columns)
  BY <1>2, <1>3
<1> QED
  BY <1>3, <1>4, <1>5 DEF Keeps

(* The right operand leaves the left one's table as it is.                  *)
LEMMA BothOperands ==
  ASSUME NEW m, Sound(m), NEW lop, Proper(lop), NEW rop, Proper(rop)
  PROVE  LET ops == Operands(m, lop, rop) IN
         /\ Sound(ops.model) /\ Keeps(m, ops.model) /\ (Owned(m) => Owned(ops.model))
         /\ Drawable(m) => Drawable(ops.model)
         /\ \A i \in 1 .. Len(ops.model.columns) :
              \/ i \in 1 .. Len(m.columns)
              \/ \E op \in {lop, rop} : ops.model.columns[i].name = op.column /\ ops.model.columns[i].alias = op.alias
         /\ SideOK(ops.model, ops.left, lop) /\ SideOK(ops.model, ops.right, rop)
         /\ BothTrusted(m, lop, rop) =>
              Side(m, tableOf(ops.model, ops.left), lop) /\ Side(m, tableOf(ops.model, ops.right), rop)
<1> DEFINE left == addWhereClauseColumn(m, lop.alias, lop.column)
           right == IF rop.asked THEN addWhereClauseColumn(left.model, rop.alias, rop.column)
                    ELSE [model |-> left.model, column |-> 0]
           w1 == left.model
           r1 == left.column
           w2 == right.model
           r2 == right.column
           ops == Operands(m, lop, rop)
<1>1. ops.model = w2 /\ ops.left = r1 /\ ops.right = r2
  BY DEF Operands
<1>2. /\ lop.alias \in Names \cup {Null} /\ lop.column \in ColumnNames \cup {Null}
      /\ lop.column = Null => lop.alias = Null
      /\ rop.alias \in Names \cup {Null} /\ rop.column \in ColumnNames \cup {Null}
      /\ rop.column = Null => rop.alias = Null
      /\ ~rop.asked => rop.alias = Null /\ rop.column = Null
  BY DEF Proper, Operand
<1>3. Operand1(m, w1, r1, lop.alias, lop.column)
  BY <1>2, OperandColumn
<1>4. Sound(w1) /\ Keeps(m, w1) /\ (Drawable(m) => Drawable(w1)) /\ (Owned(m) => Owned(w1))
  BY <1>3 DEF Operand1
<1>5. ASSUME NEW q
      PROVE  findTableGivenAlias(w1, q) = findTableGivenAlias(m, q) /\ onlyTable(w1) = onlyTable(m)
  BY <1>4 DEF Keeps, findTableGivenAlias, onlyTable
<1>6. BothTrusted(m, lop, rop) => Side(m, tableOf(w1, r1), lop) /\ Trusted(w1, rop.alias, rop.column)
  <2> SUFFICES ASSUME BothTrusted(m, lop, rop)
               PROVE  Side(m, tableOf(w1, r1), lop) /\ Trusted(w1, rop.alias, rop.column)
    OBVIOUS
  <2> HIDE DEF w1, r1
  <2>1. Trusted(m, lop.alias, lop.column)
    BY DEF BothTrusted, Trusted
  <2>2. Side(m, tableOf(w1, r1), lop)
    BY <1>3, <2>1 DEF Operand1, Side
  <2>3. ASSUME ~Owned(m), NEW i \in 1 .. Len(w1.columns), w1.columns[i].name = rop.column
        PROVE  w1.columns[i].alias = rop.alias
    <3>1. CASE i \in 1 .. Len(m.columns)
      <4>1. w1.columns[i].name = m.columns[i].name /\ w1.columns[i].alias = m.columns[i].alias
        BY <1>4, <3>1 DEF Keeps
      <4> QED
        BY <2>3, <3>1, <4>1 DEF BothTrusted
    <3>2. CASE w1.columns[i].name = lop.column /\ w1.columns[i].alias = lop.alias
      BY <2>3, <3>2 DEF BothTrusted
    <3> QED
      BY <1>3, <3>1, <3>2 DEF Operand1
  <2> QED
    BY <1>4, <2>2, <2>3 DEF Trusted
<1>7. ASSUME NEW v, NEW u, NEW x, NEW op, Operand1(v, u, x, op.alias, op.column)
      PROVE  SideOK(u, x, op)
  <2>1. x # 0 /\ u.columns[x].table = Null => findTableGivenAlias(v, op.alias) = Null
    <3>1. x # 0 => tableOf(u, x) = u.columns[x].table
      BY DEF tableOf
    <3> QED
      BY <1>7, <3>1 DEF Operand1
  <2>2. u.selectList = v.selectList
    BY <1>7 DEF Operand1, Keeps
  <2> QED
    BY <1>7, <2>1, <2>2 DEF Operand1, SideOK
<1>8. SideOK(w1, r1, lop)
  <2> HIDE DEF w1, r1
  <2> QED
    BY <1>3, <1>7
<1>9. /\ Sound(w2) /\ Keeps(w1, w2) /\ (Drawable(w1) => Drawable(w2)) /\ (Owned(w1) => Owned(w2))
      /\ SideOK(w2, r2, rop)
      /\ Trusted(w1, rop.alias, rop.column) => Side(m, tableOf(w2, r2), rop)
      /\ \A i \in 1 .. Len(w2.columns) :
           i \in 1 .. Len(w1.columns) \/ (w2.columns[i].name = rop.column /\ w2.columns[i].alias = rop.alias)
  <2>1. CASE rop.asked
    <3>1. w2 = addWhereClauseColumn(w1, rop.alias, rop.column).model
          /\ r2 = addWhereClauseColumn(w1, rop.alias, rop.column).column
      BY <2>1
    <3> HIDE DEF w1, w2, r2
    <3>2. Operand1(w1, w2, r2, rop.alias, rop.column)
      BY <1>2, <1>4, <3>1, OperandColumn
    <3>3. Trusted(w1, rop.alias, rop.column) => Side(w1, tableOf(w2, r2), rop)
      BY <3>2 DEF Operand1, Side
    <3>4. Trusted(w1, rop.alias, rop.column) => Side(m, tableOf(w2, r2), rop)
      BY <1>5, <3>3 DEF Side
    <3>5. SideOK(w2, r2, rop)
      BY <1>7, <3>2
    <3> QED
      BY <3>2, <3>4, <3>5 DEF Operand1
  <2>2. CASE ~rop.asked
    <3>1. w2 = w1 /\ r2 = 0
      BY <2>2
    <3>2. findTableGivenAlias(m, rop.alias) = Null
      BY <1>2, <2>2 DEF findTableGivenAlias
    <3>3. Len(w1.columns) \in Nat
      BY <1>4, Fields DEF Sound
    <3>4. rop.column = Null
      BY <1>2, <2>2
    <3> HIDE DEF w1, w2, r2
    <3>5. Keeps(w1, w2)
      BY <3>1, <3>3 DEF Keeps
    <3>6. SideOK(w2, r2, rop) /\ Side(m, tableOf(w2, r2), rop)
      BY <3>1, <3>2, <3>4 DEF Side, SideOK, tableOf
    <3> QED
      BY <1>4, <3>1, <3>5, <3>6
  <2> QED
    BY <2>1, <2>2
<1> HIDE DEF w1, r1, w2, r2
<1>10. SideOK(w2, r1, lop) /\ tableOf(w2, r1) = tableOf(w1, r1)
  BY <1>4, <1>8, <1>9, SideKept
<1>11. Keeps(m, w2)
  BY <1>4, <1>9, KeepsBoth
<1>12. ASSUME NEW i \in 1 .. Len(w2.columns)
       PROVE  \/ i \in 1 .. Len(m.columns)
              \/ \E op \in {lop, rop} : w2.columns[i].name = op.column /\ w2.columns[i].alias = op.alias
  <2>1. CASE i \in 1 .. Len(w1.columns)
    <3>1. w2.columns[i].name = w1.columns[i].name /\ w2.columns[i].alias = w1.columns[i].alias
      BY <1>9, <2>1 DEF Keeps
    <3>2. i \in 1 .. Len(m.columns) \/ (w1.columns[i].name = lop.column /\ w1.columns[i].alias = lop.alias)
      BY <1>3, <2>1 DEF Operand1
    <3> QED
      BY <3>1, <3>2
  <2>2. CASE i \notin 1 .. Len(w1.columns)
    BY <1>9, <2>2
  <2> QED
    BY <2>1, <2>2
<1> HIDE DEF ops
<1>13. /\ Sound(ops.model) /\ Keeps(m, ops.model) /\ (Owned(m) => Owned(ops.model))
       /\ Drawable(m) => Drawable(ops.model)
       /\ \A i \in 1 .. Len(ops.model.columns) :
            \/ i \in 1 .. Len(m.columns)
            \/ \E op \in {lop, rop} : ops.model.columns[i].name = op.column /\ ops.model.columns[i].alias = op.alias
       /\ SideOK(ops.model, ops.left, lop) /\ SideOK(ops.model, ops.right, rop)
       /\ BothTrusted(m, lop, rop) =>
            Side(m, tableOf(ops.model, ops.left), lop) /\ Side(m, tableOf(ops.model, ops.right), rop)
  BY <1>1, <1>4, <1>6, <1>9, <1>10, <1>11, <1>12
<1> QED
  BY <1>13 DEF ops

LEMMA JoinSound ==
  ASSUME NEW m, Sound(m), NEW lop, Proper(lop), NEW rop, Proper(rop)
  PROVE  /\ Sound(WithJoin(m, lop, rop)) /\ (Owned(m) => Owned(WithJoin(m, lop, rop)))
         /\ WithJoin(m, lop, rop).tables = m.tables
         /\ WithJoin(m, lop, rop).columns = Operands(m, lop, rop).model.columns
         /\ WithJoin(m, lop, rop).selectList = Operands(m, lop, rop).model.selectList
         /\ WithJoin(m, lop, rop).joins =
               Append(m.joins, [left |-> Operands(m, lop, rop).left, right |-> Operands(m, lop, rop).right])
<1> DEFINE ops == Operands(m, lop, rop)
           j == [left |-> ops.left, right |-> ops.right]
           w == WithJoin(m, lop, rop)
<1>1. /\ Sound(ops.model) /\ ops.model.tables = m.tables /\ ops.model.joins = m.joins
      /\ (Owned(m) => Owned(ops.model))
      /\ {ops.left, ops.right} \subseteq {0} \cup 1 .. Len(ops.model.columns)
  BY BothOperands DEF SideOK, Keeps
<1>2. ops.model \in Model /\ Len(ops.model.columns) \in Nat
  BY <1>1, Fields DEF Sound
<1>3. ops.left \in Nat /\ ops.right \in Nat
  BY <1>1, <1>2
<1> HIDE DEF ops
<1>4. w = [ops.model EXCEPT !.joins = Append(ops.model.joins, j)]
  BY <1>2 DEF WithJoin, Model, ops
<1>5. Append(ops.model.joins, j) \in Seq(JoinOf(Nat))
  <2>1. j \in JoinOf(Nat)
    BY <1>3 DEF JoinOf
  <2> QED
    BY <1>2, <2>1, Fields
<1> HIDE DEF j, w
<1>6. /\ w \in Model /\ w.tables = ops.model.tables /\ w.columns = ops.model.columns
      /\ w.owned = ops.model.owned /\ w.selectList = ops.model.selectList
      /\ w.joins = Append(m.joins, j)
  BY <1>1, <1>2, <1>4, <1>5 DEF Model
<1>7. Sound(w) /\ w.tables = m.tables /\ (Owned(m) => Owned(w))
  <2>1. \A id : Moved(ops.model, id) => Moved(w, id)
    BY <1>6, SameTables DEF Moved
  <2> QED
    BY <1>1, <1>6, <2>1 DEF Sound, Owned
<1> QED
  BY <1>6, <1>7 DEF w, j, ops

LEMMA TableSound ==
  ASSUME NEW m, Sound(m), NEW t \in Names, NEW q \in Names \cup {Null}
  PROVE  /\ Sound(addTable(m, t, q)) /\ (Owned(m) => Owned(addTable(m, t, q)))
         /\ addTable(m, t, q).tables =
               IF hasTable(m, t) THEN m.tables ELSE Append(m.tables, [name |-> t, alias |-> q])
         /\ addTable(m, t, q).columns = m.columns /\ addTable(m, t, q).selectList = m.selectList
         /\ addTable(m, t, q).joins = m.joins
<1> DEFINE w == addTable(m, t, q)
           more == Append(m.tables, [name |-> t, alias |-> q])
<1>1. CASE hasTable(m, t)
  BY <1>1 DEF addTable
<1>2. CASE ~hasTable(m, t)
  <2>1. m \in Model
    BY DEF Sound
  <2>2. w = [m EXCEPT !.tables = more]
    BY <1>2, <2>1 DEF addTable, Model
  <2>3. more \in Seq(Table) /\ [name |-> t, alias |-> q] \in Table
    <3>1. [name |-> t, alias |-> q] \in Table
      BY DEF Table
    <3> QED
      BY <2>1, <3>1, Fields
  <2> DEFINE e == [name |-> t, alias |-> q]
  <2>6. e \in Table /\ more = Append(m.tables, e)
    BY <2>3
  <2> HIDE DEF w, more, e
  <2>4. /\ w \in Model /\ w.tables = more /\ w.columns = m.columns
        /\ w.owned = m.owned /\ w.selectList = m.selectList /\ w.joins = m.joins
    BY <2>1, <2>2, <2>3 DEF Model
  <2>7. ASSUME NEW id, Moved(m, id) PROVE Moved(w, id)
    <3>1. findTableGivenAlias(m, m.columns[id].alias) # Null
      BY <2>7 DEF Moved
    <3>2. findTableGivenAlias(w, m.columns[id].alias) = findTableGivenAlias(m, m.columns[id].alias)
      BY <2>1, <2>4, <2>6, <3>1, MoreTables
    <3> QED
      BY <2>4, <2>7, <3>2 DEF Moved
  <2>5. Sound(w) /\ (Owned(m) => Owned(w))
    BY <2>4, <2>7 DEF Sound, Owned
  <2> QED
    BY <1>2, <2>4, <2>5 DEF w, more
<1> QED
  BY <1>1, <1>2

LEMMA SelectSound ==
  ASSUME NEW m, Sound(m), NEW q \in Names \cup {Null}, NEW k \in ColumnNames
  PROVE  LET w == addSelectListColumn(m, q, k)
         IN  /\ Sound(w) /\ (Owned(m) => Owned(w)) /\ w.tables = m.tables /\ w.joins = m.joins
             /\ Len(w.columns) = Len(m.columns) + 1
             /\ w.columns[Len(m.columns) + 1] = [name |-> k, alias |-> q, table |-> Null]
             /\ \A i \in 1 .. Len(m.columns) : w.columns[i] = m.columns[i]
             /\ w.selectList = Append(m.selectList, Len(m.columns) + 1)
<1> DEFINE fresh == NewColumn(m, q, k)
           id == Len(m.columns) + 1
           more == Append(m.selectList, id)
           w == addSelectListColumn(m, q, k)
<1>1. /\ Sound(fresh) /\ fresh.tables = m.tables /\ fresh.selectList = m.selectList
      /\ Len(fresh.columns) = id /\ fresh.joins = m.joins /\ (Owned(m) => Owned(fresh))
      /\ fresh.columns[id] = [name |-> k, alias |-> q, table |-> Null]
      /\ \A i \in 1 .. Len(m.columns) : fresh.columns[i] = m.columns[i]
  BY NewColumnSound
<1>2. fresh \in Model /\ id \in 1 .. id /\ id \in Nat
  <2>1. m \in Model
    BY DEF Sound
  <2>2. Len(m.columns) \in Nat
    BY <2>1, Fields
  <2> QED
    BY <1>1, <2>2 DEF Sound
<1> HIDE DEF fresh, id
<1>3. w = [fresh EXCEPT !.selectList = more]
  BY <1>1, <1>2 DEF addSelectListColumn, Model, fresh, id
<1>4. m.selectList \in Seq(Nat)
  BY <1>1, <1>2, Fields
<1>5. /\ more \in Seq(Nat) /\ Len(more) = Len(m.selectList) + 1 /\ more[Len(m.selectList) + 1] = id
      /\ \A n \in 1 .. Len(m.selectList) : more[n] = m.selectList[n]
  BY <1>2, <1>4, AppendProperties
<1>6. Len(m.selectList) \in Nat
  BY <1>4
<1> HIDE DEF more, w
<1>7. /\ w \in Model /\ w.tables = fresh.tables /\ w.columns = fresh.columns
      /\ w.owned = fresh.owned /\ w.selectList = more /\ w.joins = fresh.joins
  BY <1>2, <1>3, <1>5 DEF Model
<1>8. \A n \in 1 .. Len(more) : more[n] \in 1 .. Len(fresh.columns)
  <2>1. \A n \in 1 .. Len(m.selectList) : m.selectList[n] \in 1 .. Len(fresh.columns)
    BY <1>1 DEF Sound
  <2>2. \A n \in 1 .. Len(more) : n \in 1 .. Len(m.selectList) \/ n = Len(m.selectList) + 1
    BY <1>5, <1>6
  <2>3. id \in 1 .. Len(fresh.columns)
    BY <1>1, <1>2
  <2> QED
    BY <1>5, <2>1, <2>2, <2>3
<1>9. Sound(w) /\ w.tables = m.tables /\ (Owned(m) => Owned(w))
  <2>1. \A i : Moved(fresh, i) => Moved(w, i)
    BY <1>7, SameTables DEF Moved
  <2> QED
    BY <1>1, <1>7, <1>8, <2>1 DEF Sound, Owned
<1> QED
  BY <1>1, <1>7, <1>9 DEF w, more, id

----------------------------------------------------------------------------
(* The walk                                                                *)

LEMMA StatementTypes ==
  ASSUME WalkTypes
  PROVE  /\ statement \in Seq(Call) /\ at \in Nat \ {0} /\ Len(statement) \in Nat
         /\ at <= Len(statement) => c \in Call
         /\ at <= Len(statement) /\ c.call = "join" => Proper(c.left) /\ Proper(c.right)
<1>1. statement \in Seq(Call)
  BY StatementAssumption DEF WalkTypes
<1>2. at \in Nat \ {0} /\ Len(statement) \in Nat
  BY <1>1 DEF WalkTypes
<1>3. at <= Len(statement) => at \in 1 .. Len(statement)
  BY <1>2
<1>4. at <= Len(statement) => c \in Call
  BY <1>1, <1>3 DEF c
<1>5. ASSUME at <= Len(statement), c.call = "join"
      PROVE  Proper(c.left) /\ Proper(c.right)
  <2>1. c.left \in Operand /\ c.right \in Operand
    BY <1>4, <1>5 DEF Call
  <2>2. \A op \in {c.left, c.right} : (op.column = Null => op.alias = Null) /\ (op.asked \/ op.column = Null)
    BY <1>3, <1>5, StatementAssumption DEF WalkTypes, c
  <2> QED
    BY <2>1, <2>2 DEF Proper
<1> QED
  BY <1>1, <1>2, <1>4, <1>5

(* What the statement says stays the same.                                  *)
LEMMA SameStatement ==
  ASSUME statement' = statement
  PROVE  /\ CallsOf("table")' = CallsOf("table") /\ Sources' = Sources
         /\ \A k : First(k)' <=> First(k)
         /\ SelfJoined' <=> SelfJoined
         /\ TablesFirst' <=> TablesFirst
         /\ References' = References /\ (NamesDistinct' <=> NamesDistinct)
<1>1. /\ CallsOf("table")' = CallsOf("table") /\ CallsOf("join")' = CallsOf("join")
      /\ CallsOf("column")' = CallsOf("column")
  BY DEF CallsOf
<1>2. \A k : First(k)' <=> First(k)
  BY <1>1 DEF First
<1>3. SelfJoined' <=> SelfJoined
  BY <1>1, <1>2 DEF SelfJoined
<1>4. References' = References
  BY <1>1 DEF References, Operations
<1>5. NamesDistinct' <=> NamesDistinct
  BY <1>4 DEF NamesDistinct
<1>6. Sources' = Sources
  BY <1>1 DEF Sources
<1>7. TablesFirst' <=> TablesFirst
  BY <1>1 DEF TablesFirst
<1> QED
  BY <1>1, <1>2, <1>3, <1>4, <1>5, <1>6, <1>7

(* A resolution that has broken off is not forgotten.                       *)
LEMMA StaleGrows ==
  ASSUME WalkTypes, statement' = statement
  PROVE  /\ at' = at => (Stale' <=> Stale)
         /\ at' = at + 1 => (Stale => Stale')
         /\ at' = at + 1 /\ (statement[at].call # "again" \/ statement[at].thrown) => (Stale' <=> Stale)
         /\ at' = at + 1 /\ at <= Len(statement) /\ statement[at].call = "again" /\ ~statement[at].thrown => Stale'
<1>1. CallsOf("again")' = CallsOf("again") /\ CallsOf("again") \subseteq Nat
  BY DEF CallsOf
<1>2. at \in Nat \ {0} /\ Len(statement) \in Nat
  BY StatementTypes
<1>3. at' = at => (Stale' <=> Stale)
  BY <1>1 DEF Stale
<1>4. ASSUME at' = at + 1 PROVE \A n \in CallsOf("again") : n < at' <=> n < at \/ n = at
  BY <1>1, <1>2, <1>4
<1>5. at' = at + 1 => (Stale => Stale')
  BY <1>1, <1>4 DEF Stale
<1>6. at' = at + 1 /\ (statement[at].call # "again" \/ statement[at].thrown) => (Stale' <=> Stale)
  <2>1. \A n \in CallsOf("again") : statement[n].call = "again"
    BY DEF CallsOf
  <2> QED
    BY <1>1, <1>4, <2>1 DEF Stale
<1>7. at <= Len(statement) /\ statement[at].call = "again" => at \in CallsOf("again")
  BY <1>2 DEF CallsOf
<1> QED
  BY <1>1, <1>3, <1>4, <1>5, <1>6, <1>7 DEF Stale

(* The blank model.                                                         *)
LEMMA InitWalk == Init => WalkInv
<1> SUFFICES ASSUME Init
             PROVE  WalkInv
  OBVIOUS
<1>1. WalkTypes
  <2>1. statement \in Seq(Call)
    BY StatementAssumption DEF Init
  <2>2. Len(statement) \in Nat
    BY <2>1
  <2> QED
    BY <2>2 DEF Init, WalkTypes
<1>2. Blank \in Model
  BY DEF Blank, Model
<1>3. Sound(model)
  BY <1>2 DEF Init, Sound, Blank
<1>4. TablesTrue
  <2>1. Len(model.tables) = 0
    BY DEF Init, Blank
  <2>2. Reported = {}
    <3>1. statement \in Seq(Call)
      BY StatementAssumption DEF Init
    <3> QED
      BY <3>1 DEF Init, Reported, CallsOf
  <2> QED
    BY <2>1, <2>2 DEF TablesTrue
<1>5. JoinsCountedAsWritten
  BY DEF Init, JoinsCountedAsWritten
<1>6. Owned(model)
  BY DEF Init, Owned, Blank
<1> QED
  BY <1>1, <1>3, <1>4, <1>5, <1>6 DEF WalkInv

(* A table is added, or it was there and the alias is forgotten.            *)
LEMMA TableCall ==
  ASSUME WalkInv, CallTable
  PROVE  Sound(model') /\ TablesTrue' /\ (Owned(model) => Owned(model'))
<1>1. /\ phase = "walk" /\ at <= Len(statement) /\ c.call = "table"
      /\ model' = addTable(model, c.name, c.alias)
      /\ at' = at + 1 /\ statement' = statement
      /\ Sound(model) /\ TablesTrue /\ WalkTypes
  BY DEF CallTable, Calls, WalkInv, c
<1>2. /\ at \in Nat \ {0} /\ at \in 1 .. Len(statement) /\ c = statement[at]
      /\ c.name \in Names /\ c.alias \in Names \cup {Null}
  <2>1. c \in Call /\ at \in Nat \ {0} /\ Len(statement) \in Nat
    BY <1>1, StatementTypes
  <2>2. c.name \in Names /\ c.alias \in Names \cup {Null}
    BY <1>1, <2>1 DEF Call
  <2> QED
    BY <1>1, <2>1, <2>2 DEF c
<1>3. /\ Sound(model') /\ (Owned(model) => Owned(model'))
      /\ model'.tables = IF hasTable(model, c.name) THEN model.tables
                         ELSE Append(model.tables, [name |-> c.name, alias |-> c.alias])
  BY <1>1, <1>2, TableSound
<1>4. /\ Reported' = Reported \cup {at} /\ at \in CallsOf("table")
      /\ SelfJoined' <=> SelfJoined
      /\ \A k : First(k)' <=> First(k)
  <2>1. CallsOf("table")' = CallsOf("table") /\ at \in CallsOf("table")
    BY <1>1, <1>2 DEF CallsOf
  <2>2. \A k \in CallsOf("table") : k \in Nat
    BY DEF CallsOf
  <2>3. \A k \in Nat : k < at' <=> k < at \/ k = at
    BY <1>1, <1>2
  <2>4. Reported' = Reported \cup {at}
    BY <2>1, <2>2, <2>3 DEF Reported
  <2> QED
    BY <1>1, <2>1, <2>4, SameStatement
<1>5. /\ model.tables \in Seq(Table) /\ Len(model.tables) \in Nat
  BY <1>1, Fields DEF Sound
<1>6. CASE hasTable(model, c.name)
  <2>1. PICK n \in 1 .. Len(model.tables) : model.tables[n].name = c.name
    BY <1>6 DEF hasTable
  <2>2. PICK k \in Reported :
          First(k) /\ model.tables[n].name = statement[k].name /\ model.tables[n].alias = statement[k].alias
    BY <1>1, <2>1 DEF TablesTrue
  <2>3. c.alias \in {Null, model.tables[n].alias} \/ SelfJoined
    BY <1>2, <1>4, <2>1, <2>2 DEF SelfJoined, Reported
  <2>4. model'.tables = model.tables
    BY <1>3, <1>6
  <2>5. ASSUME NEW i \in Reported'
        PROVE  \E j \in 1 .. Len(model.tables) :
                 /\ model.tables[j].name = statement[i].name
                 /\ statement[i].alias \in {Null, model.tables[j].alias} \/ SelfJoined
    BY <1>1, <1>2, <1>4, <2>1, <2>3 DEF TablesTrue
  <2>6. ASSUME NEW j \in 1 .. Len(model.tables)
        PROVE  \E i \in Reported' :
                 First(i)' /\ model.tables[j].name = statement[i].name /\ model.tables[j].alias = statement[i].alias
    BY <1>1, <1>4 DEF TablesTrue
  <2>7. statement' = statement /\ (SelfJoined' <=> SelfJoined)
    BY <1>1, <1>4
  <2>8. TablesTrue'
    BY <2>4, <2>5, <2>6, <2>7 DEF TablesTrue
  <2> QED
    BY <1>3, <2>8
<1>7. CASE ~hasTable(model, c.name)
  <2> DEFINE new == [name |-> c.name, alias |-> c.alias]
             len == Len(model.tables)
  <2>1. new \in Table /\ new.name = c.name /\ new.alias = c.alias
    BY <1>2 DEF Table
  <2> HIDE DEF new
  <2>2. /\ Len(model'.tables) = len + 1 /\ model'.tables[len + 1] = new
        /\ \A n \in 1 .. len : model'.tables[n] = model.tables[n]
    BY <1>3, <1>5, <1>7, <2>1, AppendProperties DEF new
  <2>3. ASSUME NEW n \in 1 .. len + 1
        PROVE  \E k \in Reported' :
                 First(k)' /\ model'.tables[n].name = statement'[k].name /\ model'.tables[n].alias = statement'[k].alias
    <3>1. CASE n \in 1 .. len
      <4>1. PICK k \in Reported :
              First(k) /\ model.tables[n].name = statement[k].name /\ model.tables[n].alias = statement[k].alias
        BY <1>1, <3>1 DEF TablesTrue
      <4>2. First(k)'
        BY <1>4, <4>1
      <4> QED
        BY <1>1, <1>4, <2>2, <3>1, <4>1, <4>2
    <3>2. CASE n = len + 1
      <4>1. First(at)
        <5>1. ASSUME NEW i \in CallsOf("table"), i < at PROVE statement[i].name # c.name
          BY <1>1, <1>7, <5>1 DEF TablesTrue, Reported, hasTable
        <5> QED
          BY <1>2, <5>1 DEF First
      <4>2. \A k : k = at => First(k)'
        BY <1>4, <4>1
      <4> QED
        BY <1>1, <1>2, <1>4, <2>1, <2>2, <3>2, <4>2
    <3> QED
      BY <1>5, <3>1, <3>2
  <2>4. ASSUME NEW k \in Reported'
        PROVE  \E n \in 1 .. len + 1 :
                 /\ model'.tables[n].name = statement'[k].name
                 /\ statement'[k].alias \in {Null, model'.tables[n].alias} \/ SelfJoined'
    <3>1. CASE k \in Reported
      <4>1. PICK n \in 1 .. len :
              /\ model.tables[n].name = statement[k].name
              /\ statement[k].alias \in {Null, model.tables[n].alias} \/ SelfJoined
        BY <1>1, <3>1 DEF TablesTrue
      <4>2. n \in 1 .. len + 1
        BY <1>5
      <4>3. model'.tables[n] = model.tables[n]
        BY <2>2
      <4>4. statement' = statement /\ (SelfJoined' <=> SelfJoined)
        BY <1>1, <1>4
      <4>5. model'.tables[n].name = statement'[k].name
        BY <4>1, <4>3, <4>4
      <4>6. statement'[k].alias \in {Null, model'.tables[n].alias} \/ SelfJoined'
        BY <4>1, <4>3, <4>4
      <4> QED
        BY <4>2, <4>5, <4>6
    <3>2. CASE k = at
      <4>1. len + 1 \in 1 .. len + 1
        BY <1>5
      <4> QED
        BY <1>1, <1>2, <2>1, <2>2, <3>2, <4>1
    <3> QED
      BY <1>4, <3>1, <3>2
  <2> QED
    BY <1>3, <2>2, <2>3, <2>4 DEF TablesTrue
<1> QED
  BY <1>6, <1>7

(* Other calls leave the tables alone.                                      *)
LEMMA TablesStay ==
  ASSUME WalkInv, CallColumn \/ CallJoin \/ CallAgain, phase = "walk", model'.tables = model.tables
  PROVE  TablesTrue'
<1>1. /\ TablesTrue /\ WalkTypes /\ statement' = statement /\ at' = at + 1
      /\ at <= Len(statement) /\ statement[at].call # "table"
  BY DEF CallColumn, CallJoin, CallAgain, Calls, c, WalkInv
<1>2. Reported' = Reported
  <2>1. CallsOf("table")' = CallsOf("table") /\ at \notin CallsOf("table")
    BY <1>1 DEF CallsOf
  <2>2. \A k \in CallsOf("table") : k \in Nat
    BY DEF CallsOf
  <2>3. at \in Nat
    BY <1>1, StatementTypes
  <2>4. \A k \in Nat : k < at' <=> k < at \/ k = at
    BY <1>1, <2>3
  <2> QED
    BY <2>1, <2>2, <2>4 DEF Reported
<1> QED
  BY <1>1, <1>2, SameStatement DEF TablesTrue

(* When all tables have been reported, a side that is found by its qualifier *)
(* is one that the statement names, and one that is not found is a lost alias. *)
LEMMA SideAsWritten ==
  ASSUME WalkInv, CallJoin, TablesFirst, NEW op, Proper(op), NEW x, Side(model, x, op)
  PROVE  AsWritten(x, op)
<1> DEFINE t == findTableGivenAlias(model, op.alias)
<1>1. /\ WalkTypes /\ Sound(model) /\ TablesTrue
      /\ at <= Len(statement) /\ statement[at].call = "join"
  BY DEF CallJoin, Calls, c, WalkInv
<1>2. model \in Model /\ op.alias \in Names \cup {Null}
  BY <1>1 DEF Sound, Proper, Operand
<1>3. Reported \subseteq CallsOf("table") /\ \A k \in CallsOf("table") : \E i \in Reported : statement[i] = statement[k]
  <2>1. at \in CallsOf("join")
    BY <1>1, StatementTypes DEF CallsOf
  <2> QED
    BY <2>1 DEF TablesFirst, Reported
<1>4. SUFFICES ASSUME Written(op) # {}
               PROVE  x \in Written(op) \cup (IF SelfJoined THEN {Null} ELSE {})
  BY DEF AsWritten
<1>5. op.alias # Null
  BY <1>4 DEF Written
<1>6. ASSUME NEW k \in CallsOf("table"), op.alias \in {statement[k].name, statement[k].alias}
      PROVE  statement[k].name \in Written(op)
  BY <1>5, <1>6 DEF Written, Sources
<1>7. CASE t # Null
  <2>1. PICK n \in 1 .. Len(model.tables) :
          op.alias \in {model.tables[n].name, model.tables[n].alias} /\ t = model.tables[n].name
    BY <1>2, <1>7, GivenAlias
  <2>2. PICK k \in CallsOf("table") :
          model.tables[n].name = statement[k].name /\ model.tables[n].alias = statement[k].alias
    BY <1>1, <1>3, <2>1 DEF TablesTrue
  <2>3. t \in Written(op)
    BY <1>6, <2>1, <2>2
  <2>4. x = t
    BY <1>7 DEF Side
  <2> QED
    BY <2>3, <2>4
<1>8. CASE t = Null
  <2>1. PICK s \in Sources : op.alias \in {s.name, s.alias}
    BY <1>4 DEF Written
  <2>2. PICK k \in Reported : s = statement[k]
    BY <1>3, <2>1 DEF Sources
  <2>3. PICK n \in 1 .. Len(model.tables) :
          /\ model.tables[n].name = statement[k].name
          /\ statement[k].alias \in {Null, model.tables[n].alias} \/ SelfJoined
    BY <1>1, <1>3, <2>2 DEF TablesTrue
  <2>4. op.alias \notin {model.tables[n].name, model.tables[n].alias}
    BY <1>2, <1>5, <1>8, <2>3, GivenAlias, NullAssumption
  <2>5. SelfJoined
    BY <1>5, <2>1, <2>2, <2>3, <2>4
  <2>6. statement[k].name \in Written(op)
    BY <1>3, <1>6, <2>1, <2>2
  <2>7. onlyTable(model) \in {Null, statement[k].name}
    <3>1. Len(model.tables) = 1 => n = 1
      BY <2>3
    <3> QED
      BY <1>2, <2>3, <3>1, OnlyTable
  <2>8. x \in {Null, onlyTable(model)}
    BY <1>8 DEF Side
  <2> QED
    BY <2>5, <2>6, <2>7, <2>8
<1> QED
  BY <1>7, <1>8

----------------------------------------------------------------------------
(* What the walk leaves for postProcess()                                  *)

\* A table that the qualifier names, if any yet.
Near(x, op) == Written(op) # {} => x \in Written(op) \cup {Null}

\* Every column has been written as it is in the model, and every join is drawn
\* between the tables that it was counted for, until a resolution breaks off at a
\* literal; that one is met again.
DrawInv ==
  /\ phase = "walk" =>
       /\ Drawable(model)
       /\ \A i \in 1 .. Len(model.columns) :
            [alias |-> model.columns[i].alias, column |-> model.columns[i].name] \in References
       /\ Len(model.joins) = Len(counted)
       /\ \A n \in 1 .. Len(counted) :
            /\ SideOK(model, model.joins[n].left, counted[n].of.left)
            /\ SideOK(model, model.joins[n].right, counted[n].of.right)
            /\ Stale \/ Drawn(n) = [left |-> counted[n].left, right |-> counted[n].right]
       /\ Stale => ~Resolvable(model)
  /\ \A n \in 1 .. Len(counted) :
       /\ counted[n].of \in Operations
       /\ Stale \/ (Near(counted[n].left, counted[n].of.left) /\ Near(counted[n].right, counted[n].of.right))

LEMMA SameSaid ==
  ASSUME statement' = statement
  PROVE  /\ References' = References /\ Operations' = Operations /\ Sources' = Sources
         /\ \A x, op : Near(x, op)' <=> Near(x, op)
<1>1. CallsOf("table")' = CallsOf("table") /\ CallsOf("join")' = CallsOf("join")
      /\ CallsOf("column")' = CallsOf("column")
  BY DEF CallsOf
<1>2. Operations' = Operations /\ Sources' = Sources
  BY <1>1 DEF Operations, Sources
<1>3. References' = References
  BY <1>1, <1>2 DEF References
<1>4. \A op : Written(op)' = Written(op)
  BY <1>2 DEF Written
<1> QED
  BY <1>2, <1>3, <1>4 DEF Near

(* A call that leaves the joins and their sides keeps the invariant.        *)
LEMMA DrawStays ==
  ASSUME DrawInv, phase = "walk", UNCHANGED <<statement, counted>>, Stale' <=> Stale, Drawable(model'),
         \A i \in 1 .. Len(model'.columns) :
           [alias |-> model'.columns[i].alias, column |-> model'.columns[i].name] \in References,
         model'.joins = model.joins,
         \A id, op : SideOK(model, id, op) => SideOK(model', id, op) /\ tableOf(model', id) = tableOf(model, id)
  PROVE  DrawInv'
<1>1. /\ References' = References /\ Operations' = Operations
      /\ \A x, op : Near(x, op)' <=> Near(x, op)
  BY SameSaid
<1>2. ASSUME NEW n \in 1 .. Len(counted)
      PROVE  /\ SideOK(model', model'.joins[n].left, counted[n].of.left)
             /\ SideOK(model', model'.joins[n].right, counted[n].of.right)
             /\ Stale \/ Drawn(n)' = [left |-> counted[n].left, right |-> counted[n].right]
  <2>1. /\ SideOK(model, model.joins[n].left, counted[n].of.left)
        /\ SideOK(model, model.joins[n].right, counted[n].of.right)
        /\ Stale \/ Drawn(n) = [left |-> counted[n].left, right |-> counted[n].right]
    BY DEF DrawInv
  <2> QED
    BY <2>1 DEF Drawn
<1>3. \A n \in 1 .. Len(counted) :
        /\ counted[n].of \in Operations
        /\ Stale \/ (Near(counted[n].left, counted[n].of.left) /\ Near(counted[n].right, counted[n].of.right))
  BY DEF DrawInv
<1>4. Len(model'.joins) = Len(counted') /\ (Stale => ~Resolvable(model'))
  BY DEF DrawInv, Resolvable, LeftLiteral
<1> QED
  BY <1>1, <1>2, <1>3, <1>4 DEF DrawInv

LEMMA DrawTable == WalkInv /\ DrawInv /\ CallTable => DrawInv'
<1> SUFFICES ASSUME WalkInv, DrawInv, CallTable PROVE DrawInv'
  OBVIOUS
<1>1. /\ phase = "walk" /\ at <= Len(statement) /\ c.call = "table"
      /\ model' = addTable(model, c.name, c.alias)
      /\ UNCHANGED <<statement, counted>> /\ Sound(model) /\ WalkTypes
      /\ Stale' <=> Stale
  BY StaleGrows DEF CallTable, Calls, WalkInv, c
<1>2. c.name \in Names /\ c.alias \in Names \cup {Null}
  <2>1. c \in Call
    BY <1>1, StatementTypes
  <2> QED
    BY <1>1, <2>1 DEF Call
<1>3. /\ model'.tables = IF hasTable(model, c.name) THEN model.tables
                         ELSE Append(model.tables, [name |-> c.name, alias |-> c.alias])
      /\ model'.columns = model.columns /\ model'.selectList = model.selectList
      /\ model'.joins = model.joins
  BY <1>1, <1>2, TableSound
<1>4. TableNames(model) \subseteq TableNames(model')
  <2>1. model.tables \in Seq(Table) /\ [name |-> c.name, alias |-> c.alias] \in Table
    BY <1>1, <1>2, Fields DEF Sound, Table
  <2>2. /\ Len(Append(model.tables, [name |-> c.name, alias |-> c.alias])) = Len(model.tables) + 1
        /\ Len(model.tables) \in Nat
        /\ \A n \in 1 .. Len(model.tables) :
             Append(model.tables, [name |-> c.name, alias |-> c.alias])[n] = model.tables[n]
    BY <2>1, AppendProperties, LenProperties
  <2>3. 1 .. Len(model.tables) \subseteq 1 .. Len(model'.tables)
        /\ \A n \in 1 .. Len(model.tables) : model'.tables[n] = model.tables[n]
    BY <1>3, <2>2
  <2> QED
    BY <2>3 DEF TableNames
<1>5. Drawable(model')
  BY <1>1, <1>3, <1>4 DEF DrawInv, Drawable
<1>6. \A id, op : SideOK(model, id, op) => SideOK(model', id, op) /\ tableOf(model', id) = tableOf(model, id)
  BY <1>3 DEF SideOK, tableOf
<1>7. \A i \in 1 .. Len(model'.columns) :
        [alias |-> model'.columns[i].alias, column |-> model'.columns[i].name] \in References
  BY <1>1, <1>3 DEF DrawInv
<1> QED
  BY <1>1, <1>3, <1>5, <1>6, <1>7, DrawStays

LEMMA DrawColumn == WalkInv /\ DrawInv /\ CallColumn => DrawInv'
<1> SUFFICES ASSUME WalkInv, DrawInv, CallColumn PROVE DrawInv'
  OBVIOUS
<1>1. /\ phase = "walk" /\ at <= Len(statement) /\ c.call = "column"
      /\ model' = addSelectListColumn(model, c.alias, c.column)
      /\ UNCHANGED <<statement, counted>> /\ Sound(model) /\ WalkTypes
      /\ Stale' <=> Stale
  BY StaleGrows DEF CallColumn, Calls, WalkInv, c
<1>2. c.alias \in Names \cup {Null} /\ c.column \in ColumnNames
  <2>1. c \in Call
    BY <1>1, StatementTypes
  <2> QED
    BY <1>1, <2>1 DEF Call
<1> DEFINE len == Len(model.columns)
<1>3. /\ model'.tables = model.tables /\ model'.joins = model.joins
      /\ Len(model'.columns) = len + 1
      /\ model'.columns[len + 1] = [name |-> c.column, alias |-> c.alias, table |-> Null]
      /\ \A i \in 1 .. len : model'.columns[i] = model.columns[i]
      /\ model'.selectList = Append(model.selectList, len + 1)
  BY <1>1, <1>2, SelectSound
<1>4. len \in Nat /\ model.selectList \in Seq(Nat)
  BY <1>1, Fields DEF Sound
<1>5. /\ Len(model'.selectList) = Len(model.selectList) + 1 /\ Len(model.selectList) \in Nat
      /\ \A n \in 1 .. Len(model.selectList) : model'.selectList[n] = model.selectList[n]
      /\ model'.selectList[Len(model.selectList) + 1] = len + 1
  BY <1>3, <1>4, AppendProperties, LenProperties
<1>6. \A n \in 1 .. Len(model'.selectList) :
        n \in 1 .. Len(model.selectList) \/ n = Len(model.selectList) + 1
  BY <1>5
<1>7. \A i \in 1 .. Len(model'.columns) : i \in 1 .. len \/ i = len + 1
  BY <1>3, <1>4
<1>8. Drawable(model')
  <2>1. TableNames(model') = TableNames(model)
    BY <1>3 DEF TableNames
  <2>2. model'.columns[len + 1].table = Null
    BY <1>3
  <2> QED
    BY <1>1, <1>3, <1>7, <2>1, <2>2 DEF DrawInv, Drawable
<1>9. ASSUME NEW id, NEW op, SideOK(model, id, op)
      PROVE  SideOK(model', id, op) /\ tableOf(model', id) = tableOf(model, id)
  <2>1. id \in {0} \cup 1 .. len /\ id # len + 1
    BY <1>4, <1>9 DEF SideOK
  <2>2. id \in {0} \cup 1 .. Len(model'.columns)
    BY <1>3, <1>4, <2>1
  <2>3. id # 0 => model'.columns[id] = model.columns[id]
    BY <1>3, <2>1
  <2>4. (\A n \in 1 .. Len(model.selectList) : model.selectList[n] # id)
          => \A n \in 1 .. Len(model'.selectList) : model'.selectList[n] # id
    BY <1>5, <1>6, <2>1
  <2> HIDE DEF len
  <2> QED
    BY <1>9, <2>2, <2>3, <2>4 DEF SideOK, tableOf
<1>10. \A i \in 1 .. Len(model'.columns) :
         [alias |-> model'.columns[i].alias, column |-> model'.columns[i].name] \in References
  <2>1. [alias |-> c.alias, column |-> c.column] \in References
    <3>1. at \in CallsOf("column") /\ c = statement[at]
      BY <1>1, StatementTypes DEF CallsOf, c
    <3> QED
      BY <3>1 DEF References
  <2>2. model'.columns[len + 1].alias = c.alias /\ model'.columns[len + 1].name = c.column
    BY <1>3
  <2>3. \A i \in 1 .. len : [alias |-> model.columns[i].alias, column |-> model.columns[i].name] \in References
    BY <1>1 DEF DrawInv
  <2> HIDE DEF len
  <2> QED
    BY <1>3, <1>7, <2>1, <2>2, <2>3
<1> QED
  BY <1>1, <1>3, <1>8, <1>9, <1>10, DrawStays

(* A side that is not found by its qualifier gets the only table there is,  *)
(* which is the one that the qualifier names.                               *)
LEMMA SideNear ==
  ASSUME WalkInv, CallJoin, NEW op \in {c.left, c.right}, Proper(op), NEW x, Side(model, x, op)
  PROVE  Near(x, op)
<1> DEFINE t == findTableGivenAlias(model, op.alias)
           naming == {k \in DOMAIN statement : /\ statement[k].call = "table" /\ op.alias # Null
                                               /\ op.alias \in {statement[k].name, statement[k].alias}}
<1>1. /\ WalkTypes /\ Sound(model) /\ TablesTrue
      /\ at <= Len(statement) /\ statement[at].call = "join" /\ c = statement[at]
  BY DEF CallJoin, Calls, c, WalkInv
<1>2. model \in Model /\ op.alias \in Names \cup {Null}
  BY <1>1 DEF Sound, Proper, Operand
<1>3. SUFFICES ASSUME Written(op) # {} PROVE x \in Written(op) \cup {Null}
  BY DEF Near
<1>4. statement \in Seq(Call) /\ at \in DOMAIN statement /\ DOMAIN statement = 1 .. Len(statement)
  <2>1. statement \in Seq(Call) /\ at \in Nat \ {0}
    BY <1>1, StatementTypes
  <2> QED
    BY <1>1, <2>1
<1>5. op.alias # Null
  BY <1>3 DEF Written
<1>6. ASSUME NEW k \in CallsOf("table"), op.alias \in {statement[k].name, statement[k].alias}
      PROVE  statement[k].name \in Written(op)
  BY <1>5, <1>6 DEF Written, Sources
<1>7. CASE t # Null
  <2>1. PICK n \in 1 .. Len(model.tables) :
          op.alias \in {model.tables[n].name, model.tables[n].alias} /\ t = model.tables[n].name
    BY <1>2, <1>7, GivenAlias
  <2>2. PICK k \in CallsOf("table") :
          model.tables[n].name = statement[k].name /\ model.tables[n].alias = statement[k].alias
    BY <1>1, <2>1 DEF TablesTrue, Reported
  <2> QED
    BY <1>6, <1>7, <2>1, <2>2 DEF Side
<1>8. CASE t = Null /\ onlyTable(model) # Null
  <2>1. Len(model.tables) = 1 /\ onlyTable(model) = model.tables[1].name
    BY <1>2, <1>8, OnlyTable
  <2>2. \E k \in 1 .. at - 1 : statement[k].call = "table"
    <3>1. PICK k \in Reported : model.tables[1].name = statement[k].name
      BY <1>1, <2>1 DEF TablesTrue
    <3> QED
      BY <1>4, <3>1 DEF Reported, CallsOf
  <2>3. naming # {}
    <3>1. PICK s \in Sources : op.alias \in {s.name, s.alias}
      BY <1>3 DEF Written
    <3>2. PICK k \in CallsOf("table") : s = statement[k]
      BY <3>1 DEF Sources
    <3> QED
      BY <1>4, <1>5, <3>1, <3>2 DEF CallsOf
  <2>4. \/ naming = {}
        \/ \E k \in naming : k < at
        \/ \A k \in 1 .. at - 1 : statement[k].call # "table"
    BY <1>1, <1>4, DeclaredAssumption DEF WalkTypes
  <2>5. PICK k \in naming : k < at
    BY <2>2, <2>3, <2>4
  <2>6. k \in Reported /\ k \in CallsOf("table")
    BY <1>4, <2>5 DEF Reported, CallsOf
  <2>7. \E n \in 1 .. Len(model.tables) : model.tables[n].name = statement[k].name
    BY <1>1, <2>6 DEF TablesTrue
  <2>8. onlyTable(model) = statement[k].name
    BY <2>1, <2>7
  <2>9. statement[k].name \in Written(op)
    BY <1>6, <2>6, <2>5
  <2> QED
    BY <1>8, <2>8, <2>9 DEF Side
<1> QED
  BY <1>7, <1>8 DEF Side

LEMMA TableOfSide ==
  ASSUME NEW w, Sound(w), NEW id, NEW op, SideOK(w, id, op)
  PROVE  tableOf(w, id) \in Names \cup {Null}
<1>1. w.columns \in Seq(Column)
  BY Fields DEF Sound
<1>2. id # 0 => w.columns[id] \in Column
  BY <1>1, ElementOfSeq DEF SideOK
<1> QED
  BY <1>2 DEF tableOf, Column

LEMMA DrawJoin == WalkInv /\ DrawInv /\ CallJoin => DrawInv'
<1> SUFFICES ASSUME WalkInv, DrawInv, CallJoin PROVE DrawInv'
  OBVIOUS
<1> DEFINE ops == Operands(model, c.left, c.right)
           l == tableOf(ops.model, ops.left)
           r == tableOf(ops.model, ops.right)
           e == [of |-> c, left |-> l, right |-> r]
           j == [left |-> ops.left, right |-> ops.right]
           E == [of : Call, left : Names \cup {Null}, right : Names \cup {Null}]
<1>1. /\ WalkTypes /\ Sound(model) /\ phase = "walk"
      /\ at <= Len(statement) /\ c.call = "join" /\ statement' = statement
      /\ model' = WithJoin(model, c.left, c.right)
      /\ counted' = Append(counted, e) /\ c = statement[at]
      /\ Stale' <=> Stale
      /\ ~Stale => Owned(model)
  BY StaleGrows DEF CallJoin, Calls, WalkInv, c
<1>2. Proper(c.left) /\ Proper(c.right) /\ counted \in Seq(E) /\ c \in Call
  BY <1>1, StatementTypes DEF WalkTypes
<1>3. c \in Operations
  <2>1. at \in CallsOf("join")
    BY <1>1, StatementTypes DEF CallsOf
  <2> QED
    BY <1>1, <2>1 DEF Operations
<1>4. /\ Sound(ops.model) /\ Keeps(model, ops.model)
      /\ Drawable(model) => Drawable(ops.model)
      /\ \A i \in 1 .. Len(ops.model.columns) :
           \/ i \in 1 .. Len(model.columns)
           \/ \E op \in {c.left, c.right} : ops.model.columns[i].name = op.column /\ ops.model.columns[i].alias = op.alias
      /\ SideOK(ops.model, ops.left, c.left) /\ SideOK(ops.model, ops.right, c.right)
      /\ ~Stale => Side(model, l, c.left) /\ Side(model, r, c.right)
  <2>1. Owned(model) => BothTrusted(model, c.left, c.right)
    BY DEF BothTrusted
  <2>2. /\ Sound(ops.model) /\ Keeps(model, ops.model)
        /\ Drawable(model) => Drawable(ops.model)
        /\ \A i \in 1 .. Len(ops.model.columns) :
             \/ i \in 1 .. Len(model.columns)
             \/ \E op \in {c.left, c.right} : ops.model.columns[i].name = op.column /\ ops.model.columns[i].alias = op.alias
        /\ SideOK(ops.model, ops.left, c.left) /\ SideOK(ops.model, ops.right, c.right)
        /\ BothTrusted(model, c.left, c.right) => Side(model, l, c.left) /\ Side(model, r, c.right)
    <3>1. Sound(ops.model) /\ Keeps(model, ops.model)
      BY <1>1, <1>2, BothOperands
    <3>2. Drawable(model) => Drawable(ops.model)
      BY <1>1, <1>2, BothOperands
    <3>3. \A i \in 1 .. Len(ops.model.columns) :
             \/ i \in 1 .. Len(model.columns)
             \/ \E op \in {c.left, c.right} : ops.model.columns[i].name = op.column /\ ops.model.columns[i].alias = op.alias
      BY <1>1, <1>2, BothOperands
    <3>4. SideOK(ops.model, ops.left, c.left) /\ SideOK(ops.model, ops.right, c.right)
      BY <1>1, <1>2, BothOperands
    <3>5. BothTrusted(model, c.left, c.right) => Side(model, l, c.left) /\ Side(model, r, c.right)
      BY <1>1, <1>2, BothOperands
    <3> QED
      BY <3>1, <3>2, <3>3, <3>4, <3>5
  <2> HIDE DEF ops, l, r
  <2> QED
    BY <1>1, <2>1, <2>2
<1>5. l \in Names \cup {Null} /\ r \in Names \cup {Null}
  BY <1>4, TableOfSide
<1>6. /\ model'.tables = model.tables
      /\ model'.columns = ops.model.columns /\ model'.selectList = ops.model.selectList
      /\ model'.joins = Append(model.joins, j)
  <2>1. ASSUME NEW m, Sound(m), NEW x, Proper(x), NEW y, Proper(y)
        PROVE  /\ WithJoin(m, x, y).tables = m.tables
               /\ WithJoin(m, x, y).columns = Operands(m, x, y).model.columns
               /\ WithJoin(m, x, y).selectList = Operands(m, x, y).model.selectList
               /\ WithJoin(m, x, y).joins =
                     Append(m.joins, [left |-> Operands(m, x, y).left, right |-> Operands(m, x, y).right])
    BY <2>1, JoinSound
  <2> QED
    BY <1>1, <1>2, <2>1
<1>7. Stale \/ (Near(l, c.left) /\ Near(r, c.right))
  <2> HIDE DEF l, r
  <2> QED
    BY <1>2, <1>4, SideNear
<1>8. e \in E /\ e.of = c /\ e.left = l /\ e.right = r /\ j \in JoinOf(Nat)
      /\ j.left = ops.left /\ j.right = ops.right
  <2>1. ops.left \in Nat /\ ops.right \in Nat
    <3>1. Len(ops.model.columns) \in Nat
      BY <1>4, Fields DEF Sound
    <3> QED
      BY <1>4, <3>1 DEF SideOK
  <2> HIDE DEF ops, l, r
  <2> QED
    BY <1>2, <1>5, <2>1 DEF JoinOf
<1> HIDE DEF e, j, l, r, E
<1>9. /\ Len(counted) \in Nat /\ Len(counted') = Len(counted) + 1
      /\ counted'[Len(counted) + 1] = e
      /\ \A n \in 1 .. Len(counted) : counted'[n] = counted[n]
  BY <1>1, <1>2, <1>8, AppendProperties, LenProperties
<1>10. /\ Len(model'.joins) = Len(model.joins) + 1
       /\ model'.joins[Len(model.joins) + 1] = j
       /\ \A n \in 1 .. Len(model.joins) : model'.joins[n] = model.joins[n]
  <2>1. model.joins \in Seq(JoinOf(Nat))
    BY <1>1, Fields DEF Sound
  <2> QED
    BY <1>6, <1>8, <2>1, AppendProperties
<1>11. Len(model.joins) = Len(counted)
  BY <1>1 DEF DrawInv
<1>12. ASSUME NEW id, NEW op
       PROVE  /\ SideOK(model', id, op) <=> SideOK(ops.model, id, op)
              /\ tableOf(model', id) = tableOf(ops.model, id)
  BY <1>6 DEF SideOK, tableOf
<1>13. ASSUME NEW n \in 1 .. Len(counted')
       PROVE  /\ SideOK(model', model'.joins[n].left, counted'[n].of.left)
              /\ SideOK(model', model'.joins[n].right, counted'[n].of.right)
              /\ counted'[n].of \in Operations
              /\ ~Stale =>
                   /\ tableOf(model', model'.joins[n].left) = counted'[n].left
                   /\ tableOf(model', model'.joins[n].right) = counted'[n].right
                   /\ Near(counted'[n].left, counted'[n].of.left) /\ Near(counted'[n].right, counted'[n].of.right)
  <2>1. CASE n \in 1 .. Len(counted)
    <3>1. counted'[n] = counted[n] /\ model'.joins[n] = model.joins[n]
      BY <1>9, <1>10, <1>11, <2>1
    <3>2. /\ SideOK(model, model.joins[n].left, counted[n].of.left)
          /\ SideOK(model, model.joins[n].right, counted[n].of.right)
          /\ counted[n].of \in Operations
          /\ ~Stale =>
               /\ tableOf(model, model.joins[n].left) = counted[n].left
               /\ tableOf(model, model.joins[n].right) = counted[n].right
               /\ Near(counted[n].left, counted[n].of.left) /\ Near(counted[n].right, counted[n].of.right)
      BY <1>1, <2>1 DEF DrawInv, Drawn
    <3> HIDE DEF ops
    <3>3. \A id, op : SideOK(model, id, op) => SideOK(ops.model, id, op) /\ tableOf(ops.model, id) = tableOf(model, id)
      BY <1>1, <1>4, SideKept
    <3> QED
      BY <1>12, <3>1, <3>2, <3>3
  <2>2. CASE n = Len(counted) + 1
    <3>1. counted'[n] = e /\ model'.joins[n] = j
      BY <1>9, <1>10, <1>11, <2>2
    <3> HIDE DEF ops
    <3> QED
      BY <1>3, <1>4, <1>7, <1>8, <1>12, <3>1 DEF l, r
  <2> QED
    BY <1>9, <2>1, <2>2
<1>14. Drawable(model')
  <2>1. TableNames(model') = TableNames(ops.model)
    BY <1>4, <1>6 DEF TableNames, Keeps
  <2>2. Drawable(ops.model)
    BY <1>1, <1>4 DEF DrawInv
  <2> QED
    BY <1>6, <2>1, <2>2 DEF Drawable
<1>15. ASSUME NEW i \in 1 .. Len(model'.columns)
       PROVE  [alias |-> model'.columns[i].alias, column |-> model'.columns[i].name] \in References
  <2>1. CASE i \in 1 .. Len(model.columns)
    <3>1. model'.columns[i].name = model.columns[i].name /\ model'.columns[i].alias = model.columns[i].alias
      BY <1>4, <1>6, <2>1 DEF Keeps
    <3> QED
      BY <1>1, <2>1, <3>1 DEF DrawInv
  <2>2. CASE i \notin 1 .. Len(model.columns)
    <3>1. PICK op \in {c.left, c.right} : model'.columns[i].name = op.column /\ model'.columns[i].alias = op.alias
      BY <1>4, <1>6, <2>2
    <3>2. [alias |-> op.alias, column |-> op.column] \in References
      BY <1>3 DEF References
    <3> QED
      BY <3>1, <3>2
  <2> QED
    BY <2>1, <2>2
<1>16. /\ References' = References /\ Operations' = Operations
       /\ \A x, op : Near(x, op)' <=> Near(x, op)
  BY <1>1, SameSaid
<1>17. Len(model'.joins) = Len(counted')
  BY <1>9, <1>10, <1>11
<1>18. \A n \in 1 .. Len(counted') :
         Stale \/ Drawn(n)' = [left |-> counted'[n].left, right |-> counted'[n].right]
  BY <1>13 DEF Drawn
<1>19. Stale => ~Resolvable(model')
  <2> SUFFICES ASSUME Stale PROVE ~Resolvable(model')
    OBVIOUS
  <2>1. PICK n \in 1 .. Len(model.joins) : model.joins[n].left = 0
    BY <1>1 DEF DrawInv, Resolvable, LeftLiteral
  <2>2. n \in 1 .. Len(model'.joins)
    BY <1>9, <1>10, <1>11
  <2> QED
    BY <1>10, <2>1, <2>2 DEF Resolvable, LeftLiteral
<1> QED
  BY <1>1, <1>13, <1>14, <1>15, <1>16, <1>17, <1>18, <1>19 DEF DrawInv

LEMMA InitDraw == Init => DrawInv
<1> SUFFICES ASSUME Init PROVE DrawInv
  OBVIOUS
<1>1. Len(model.columns) = 0 /\ Len(model.joins) = 0 /\ Len(counted) = 0
  BY DEF Init, Blank
<1>2. Drawable(model)
  BY <1>1 DEF Drawable
<1>3. ~Stale
  BY DEF Init, Stale, CallsOf
<1> QED
  BY <1>1, <1>2, <1>3 DEF DrawInv

----------------------------------------------------------------------------
(* postProcess()                                                           *)

\* Numbers of columns stand for columns.
Numbered(m) ==
  /\ \A n \in 1 .. Len(m.selectList) : m.selectList[n] \in 1 .. Len(m.columns)
  /\ \A n \in 1 .. Len(m.joins) : {m.joins[n].left, m.joins[n].right} \subseteq {0} \cup 1 .. Len(m.columns)

(* The joins that are gone through have a column on their left side; when   *)
(* every join has, they are all of them.                                    *)
LEMMA JoinsResolved ==
  ASSUME NEW m \in Model
  PROVE  /\ ResolvedJoins(m) \in Seq(JoinOf(Nat))
         /\ \A n \in 1 .. Len(ResolvedJoins(m)) :
              n \in 1 .. Len(m.joins) /\ ResolvedJoins(m)[n] = m.joins[n] /\ m.joins[n].left # 0
         /\ Resolvable(m) => ResolvedJoins(m) = m.joins
<1> DEFINE literals == {n \in 1 .. Len(m.joins) : LeftLiteral(m, n)}
           last == Earliest(literals) - 1
<1>1. m.joins \in Seq(JoinOf(Nat)) /\ Len(m.joins) \in Nat
      /\ \A n \in 1 .. Len(m.joins) : m.joins[n] \in JoinOf(Nat)
  <2>1. m.joins \in Seq(JoinOf(Nat))
    BY Fields
  <2> QED
    BY <2>1, LenProperties, ElementOfSeq
<1>2. CASE Resolvable(m)
  BY <1>1, <1>2 DEF ResolvedJoins, Resolvable, LeftLiteral
<1>3. CASE ~Resolvable(m)
  <2>1. literals \subseteq Nat /\ literals # {}
    BY <1>1, <1>3 DEF Resolvable
  <2>2. Earliest(literals) \in literals /\ \A k \in literals : Earliest(literals) <= k
    BY <2>1, EarliestIn
  <2>3. last \in Nat /\ last < Len(m.joins) /\ \A n \in 1 .. last : n \in 1 .. Len(m.joins) /\ n \notin literals
    <3> DEFINE e == Earliest(literals)
    <3>1. e \in 1 .. Len(m.joins) /\ \A k \in literals : e <= k
      BY <2>2
    <3> HIDE DEF e, literals
    <3>2. e - 1 \in Nat /\ e - 1 < Len(m.joins)
          /\ \A n \in 1 .. e - 1 : n \in 1 .. Len(m.joins) /\ ~(e <= n)
      BY <1>1, <3>1
    <3>3. \A n \in 1 .. e - 1 : n \notin literals
      BY <3>1, <3>2
    <3> QED
      BY <3>2, <3>3 DEF e
  <2>4. ResolvedJoins(m) = SubSeq(m.joins, 1, last)
    BY <1>3 DEF ResolvedJoins
  <2> HIDE DEF last
  <2>5. \A i \in 1 .. last : m.joins[i] \in JoinOf(Nat)
    BY <1>1, <2>3
  <2>6. /\ SubSeq(m.joins, 1, last) \in Seq(JoinOf(Nat))
        /\ Len(SubSeq(m.joins, 1, last)) = IF 1 <= last THEN last - 1 + 1 ELSE 0
        /\ \A i \in 1 .. last - 1 + 1 : SubSeq(m.joins, 1, last)[i] = m.joins[1 + i - 1]
    BY <2>3, <2>5, SubSeqProperties
  <2>7. /\ ResolvedJoins(m) \in Seq(JoinOf(Nat)) /\ Len(ResolvedJoins(m)) = last
        /\ \A i \in 1 .. last : ResolvedJoins(m)[i] = m.joins[i]
    BY <2>3, <2>4, <2>6
  <2> QED
    BY <1>3, <2>3, <2>7 DEF LeftLiteral
<1> QED
  BY <1>2, <1>3

(* The columns that are gone through, both sides of every join among them.  *)
LEMMA ResolvedHolds ==
  ASSUME NEW m \in Model, Numbered(m)
  PROVE  /\ resolved(m) \in Seq(1 .. Len(m.columns))
         /\ Resolvable(m) =>
              \A n \in 1 .. Len(m.joins) :
                /\ m.joins[n].left \in ToSet(resolved(m))
                /\ m.joins[n].right # 0 => m.joins[n].right \in ToSet(resolved(m))
<1> DEFINE J == ResolvedJoins(m)
           R == 1 .. Len(m.columns)
           sides(j) == IF j.right = 0 THEN <<j.left>> ELSE <<j.left, j.right>>
           pairs == [n \in 1 .. Len(J) |-> sides(J[n])]
<1>1. resolved(m) = m.selectList \o FlattenSeq(pairs)
  BY DEF resolved
<1>2. /\ Len(J) \in Nat /\ \A n \in 1 .. Len(J) : /\ n \in 1 .. Len(m.joins)
                                                  /\ J[n] = m.joins[n] /\ m.joins[n].left # 0
      /\ Resolvable(m) => J = m.joins
  BY JoinsResolved, LenProperties
<1>3. Len(m.selectList) \in Nat /\ m.selectList \in Seq(R)
  <2>1. m.selectList \in Seq(Nat)
    BY Fields
  <2>2. m.selectList = [n \in 1 .. Len(m.selectList) |-> m.selectList[n]] /\ Len(m.selectList) \in Nat
    BY <2>1, LenProperties
  <2>3. \A n \in 1 .. Len(m.selectList) : m.selectList[n] \in R
    BY DEF Numbered
  <2>4. [n \in 1 .. Len(m.selectList) |-> m.selectList[n]] \in Seq(R)
    BY <2>2, <2>3
  <2> QED
    BY <2>2, <2>4
<1> HIDE DEF J, R
<1>4. ASSUME NEW n \in 1 .. Len(J)
      PROVE  J[n].left \in R /\ (J[n].right # 0 => J[n].right \in R)
  BY <1>2 DEF Numbered, R
<1>5. pairs \in Seq(Seq(R)) /\ Len(pairs) = Len(J)
  <2>1. \A n \in 1 .. Len(J) : sides(J[n]) \in Seq(R)
    BY <1>4
  <2> QED
    BY <1>2, <2>1
<1>6. ASSUME NEW n \in 1 .. Len(J)
      PROVE  J[n].left \in ToSet(pairs[n]) /\ (J[n].right # 0 => J[n].right \in ToSet(pairs[n]))
  BY <1>4 DEF ToSet
<1> HIDE DEF pairs
<1>7. /\ FlattenSeq(pairs) \in Seq(R)
      /\ \A n \in 1 .. Len(pairs) : ToSet(pairs[n]) \subseteq ToSet(FlattenSeq(pairs))
  <2>1. CASE Len(pairs) = 0
    BY <1>5, <2>1, EmptySeq DEF FlattenSeq
  <2>2. CASE Len(pairs) # 0
    BY <1>5, <2>2, FlattenHolds
  <2> QED
    BY <2>1, <2>2
<1>8. resolved(m) \in Seq(R) /\ ToSet(FlattenSeq(pairs)) \subseteq ToSet(resolved(m))
  BY <1>1, <1>3, <1>7, ToSetConcat
<1>9. ASSUME Resolvable(m), NEW n \in 1 .. Len(m.joins)
      PROVE  /\ m.joins[n].left \in ToSet(resolved(m))
             /\ m.joins[n].right # 0 => m.joins[n].right \in ToSet(resolved(m))
  <2>1. J = m.joins
    BY <1>2, <1>9
  <2> QED
    BY <1>5, <1>6, <1>7, <1>8, <2>1
<1> QED
  BY <1>8, <1>9 DEF R

Its(m, i) == findTableGivenAlias(m, m.columns[i].alias)

(* What resolveColumnAliases() leaves: a column that it goes through has the *)
(* table of its own alias, if that names one; all else is as it was.         *)
LEMMA Resolving ==
  ASSUME NEW m, Sound(m), Numbered(m), NEW w, w = resolveColumnAliases(m)
  PROVE  /\ w \in Model
         /\ w.tables = m.tables /\ w.joins = m.joins /\ w.selectList = m.selectList
         /\ Len(w.columns) = Len(m.columns)
         /\ \A i \in 1 .. Len(m.columns) :
              /\ w.columns[i].name = m.columns[i].name /\ w.columns[i].alias = m.columns[i].alias
              /\ w.columns[i].table = IF i \in ToSet(resolved(m)) /\ Its(m, i) # Null THEN Its(m, i)
                                      ELSE m.columns[i].table
         /\ \A t \in Names : \A n \in 1 .. Len(w.owned[t]) :
              \/ \E k \in 1 .. Len(m.owned[t]) : w.owned[t][n] = m.owned[t][k]
              \/ /\ w.owned[t][n] \in 1 .. Len(m.columns)
                 /\ w.owned[t][n] \in ToSet(resolved(m)) /\ Its(m, w.owned[t][n]) = t
<1> DEFINE len == Len(m.columns)
           done == ToSet(resolved(m))
           cols == [i \in 1 .. len |-> IF i \in done /\ Its(m, i) # Null
                                       THEN [m.columns[i] EXCEPT !.table = Its(m, i)] ELSE m.columns[i]]
           lists == [t \in Names |-> m.owned[t] \o Select(resolved(m), {i \in done : Its(m, i) = t})]
<1>1. m \in Model /\ len \in Nat /\ m.columns \in Seq(Column)
      /\ \A i \in 1 .. len : m.columns[i] \in Column
  <2>1. m \in Model
    BY DEF Sound
  <2>2. m.columns \in Seq(Column)
    BY <2>1, Fields
  <2> QED
    BY <2>1, <2>2, LenProperties, ElementOfSeq
<1>2. resolved(m) \in Seq(1 .. len)
  BY <1>1, ResolvedHolds
<1>3. w = [m EXCEPT !.columns = cols, !.owned = lists]
  BY <1>1 DEF resolveColumnAliases, Its, Model
<1>4. ASSUME NEW i \in 1 .. len PROVE Its(m, i) \in Names \cup {Null}
  <2>1. m.columns[i].alias \in Names \cup {Null}
    BY <1>1 DEF Column
  <2> QED
    BY <1>1, <2>1, GivenAlias DEF Its
<1>5. ASSUME NEW i \in 1 .. len
      PROVE  /\ cols[i] \in Column
             /\ cols[i].name = m.columns[i].name /\ cols[i].alias = m.columns[i].alias
             /\ cols[i].table = IF i \in done /\ Its(m, i) # Null THEN Its(m, i) ELSE m.columns[i].table
  <2>1. m.columns[i] \in Column
    BY <1>1
  <2>2. Its(m, i) \in Names \cup {Null}
    BY <1>4
  <2> HIDE DEF done
  <2>3. cols[i] = IF i \in done /\ Its(m, i) # Null THEN [m.columns[i] EXCEPT !.table = Its(m, i)] ELSE m.columns[i]
    OBVIOUS
  <2> HIDE DEF cols
  <2> QED
    BY <2>1, <2>2, <2>3 DEF Column
<1>6. cols \in Seq(Column) /\ Len(cols) = len
  <2> DEFINE f == cols
  <2>1. f = [i \in 1 .. len |-> f[i]]
    OBVIOUS
  <2>2. \A i \in 1 .. len : f[i] \in Column
    BY <1>5
  <2> HIDE DEF f
  <2>3. [i \in 1 .. len |-> f[i]] \in Seq(Column) /\ Len([i \in 1 .. len |-> f[i]]) = len
    BY <1>1, <2>2
  <2>4. f \in Seq(Column) /\ Len(f) = len
    BY <2>1, <2>3
  <2> QED
    BY <2>4 DEF f
<1>7. ASSUME NEW t \in Names
      PROVE  /\ lists[t] \in Seq(1 .. len) /\ lists[t] \in Seq(Nat)
             /\ \A n \in 1 .. Len(lists[t]) :
                  \/ \E i \in 1 .. Len(m.owned[t]) : lists[t][n] = m.owned[t][i]
                  \/ /\ lists[t][n] \in 1 .. len
                     /\ lists[t][n] \in done /\ Its(m, lists[t][n]) = t
  <2> DEFINE o == m.owned[t]
             its == {i \in done : Its(m, i) = t}
             k == Select(resolved(m), its)
  <2>1. o \in Seq(Nat) /\ \A n \in 1 .. Len(o) : o[n] \in 1 .. len
    BY DEF Sound, Model
  <2>2. k \in Seq(1 .. len) /\ k \in Seq((1 .. len) \cap its)
    BY <1>2, SelectType, SelectOnly
  <2>3. lists[t] = o \o k
    OBVIOUS
  <2>7. \A n \in 1 .. Len(k) : k[n] \in 1 .. len /\ k[n] \in done /\ Its(m, k[n]) = t
    <3> HIDE DEF k
    <3>1. \A n \in 1 .. Len(k) : k[n] \in (1 .. len) \cap its
      BY <2>2, ElementOfSeq
    <3> QED
      BY <3>1
  <2> HIDE DEF o, k, its
  <2>4. o \in Seq(1 .. len)
    <3>1. o = [n \in 1 .. Len(o) |-> o[n]] /\ Len(o) \in Nat
      BY <2>1, LenProperties
    <3>2. [n \in 1 .. Len(o) |-> o[n]] \in Seq(1 .. len)
      BY <2>1, <3>1
    <3> QED
      BY <3>1, <3>2
  <2>5. k \in Seq(Nat)
    <3>1. k = [n \in 1 .. Len(k) |-> k[n]] /\ Len(k) \in Nat /\ \A n \in 1 .. Len(k) : k[n] \in 1 .. len
      BY <2>2, LenProperties, ElementOfSeq
    <3>2. [n \in 1 .. Len(k) |-> k[n]] \in Seq(Nat)
      BY <3>1
    <3> QED
      BY <3>1, <3>2
  <2>6. o \o k \in Seq(1 .. len) /\ o \o k \in Seq(Nat)
    BY <2>1, <2>2, <2>4, <2>5, ConcatProperties
  <2>8. ASSUME NEW n \in 1 .. Len(o \o k)
        PROVE  \/ \E i \in 1 .. Len(o) : (o \o k)[n] = o[i]
               \/ /\ (o \o k)[n] \in 1 .. len
                  /\ (o \o k)[n] \in done /\ Its(m, (o \o k)[n]) = t
    <3>1. /\ Len(o \o k) = Len(o) + Len(k) /\ Len(o) \in Nat /\ Len(k) \in Nat
          /\ (o \o k)[n] = IF n <= Len(o) THEN o[n] ELSE k[n - Len(o)]
      BY <2>2, <2>4, ConcatProperties, LenProperties
    <3>2. n <= Len(o) \/ n - Len(o) \in 1 .. Len(k)
      BY <3>1
    <3> HIDE DEF done
    <3> QED
      BY <2>7, <3>1, <3>2
  <2> QED
    BY <2>3, <2>6, <2>8 DEF o
<1>8. lists \in [Names -> Seq(Nat)]
  BY <1>7
<1> HIDE DEF cols, lists, done
<1>9. /\ w \in Model /\ w.columns = cols /\ w.owned = lists
      /\ w.tables = m.tables /\ w.joins = m.joins /\ w.selectList = m.selectList
  BY <1>1, <1>3, <1>6, <1>8 DEF Model
<1> QED
  BY <1>5, <1>6, <1>7, <1>9 DEF done

(* A resolution, whole or broken off, moves columns to tables of the model,  *)
(* and leaves no list with a column that does not belong there for a reason. *)
LEMMA ResolvedSound ==
  ASSUME NEW m, Sound(m), Numbered(m), NEW w, w = resolveColumnAliases(m)
  PROVE  /\ Sound(w) /\ Numbered(w)
         /\ Drawable(m) => Drawable(w)
<1>1. /\ w \in Model
      /\ w.tables = m.tables /\ w.joins = m.joins /\ w.selectList = m.selectList
      /\ Len(w.columns) = Len(m.columns)
      /\ \A i \in 1 .. Len(m.columns) :
           /\ w.columns[i].name = m.columns[i].name /\ w.columns[i].alias = m.columns[i].alias
           /\ w.columns[i].table = IF i \in ToSet(resolved(m)) /\ Its(m, i) # Null THEN Its(m, i)
                                   ELSE m.columns[i].table
      /\ \A t \in Names : \A n \in 1 .. Len(w.owned[t]) :
           \/ \E k \in 1 .. Len(m.owned[t]) : w.owned[t][n] = m.owned[t][k]
           \/ /\ w.owned[t][n] \in 1 .. Len(m.columns)
              /\ w.owned[t][n] \in ToSet(resolved(m)) /\ Its(m, w.owned[t][n]) = t
  BY Resolving
<1>2. m \in Model /\ \A i \in 1 .. Len(m.columns) : m.columns[i] \in Column
  <2>1. m \in Model
    BY DEF Sound
  <2>2. m.columns \in Seq(Column)
    BY <2>1, Fields
  <2> QED
    BY <2>1, <2>2, ElementOfSeq
<1>3. \A i \in 1 .. Len(m.columns) : Its(m, i) \in {Null} \cup TableNames(m)
  <2> SUFFICES ASSUME NEW i \in 1 .. Len(m.columns) PROVE Its(m, i) \in {Null} \cup TableNames(m)
    OBVIOUS
  <2>1. m.columns[i].alias \in Names \cup {Null}
    BY <1>2 DEF Column
  <2> QED
    BY <1>2, <2>1, GivenAlias DEF Its, TableNames
<1>4. Numbered(w)
  BY <1>1 DEF Numbered
<1>5. Drawable(m) => Drawable(w)
  <2>1. TableNames(w) = TableNames(m)
    BY <1>1 DEF TableNames
  <2> QED
    BY <1>1, <1>3, <2>1 DEF Drawable
<1>6. ASSUME NEW i \in 1 .. Len(m.columns), i \in ToSet(resolved(m)), Its(m, i) # Null
      PROVE  Moved(w, i) /\ w.columns[i].table = Its(m, i)
  <2>1. w.columns[i].table = Its(m, i) /\ w.columns[i].alias = m.columns[i].alias
    BY <1>1, <1>6
  <2> QED
    BY <1>1, <1>6, <2>1, SameTables DEF Moved, Its
<1>7. ASSUME NEW i \in 1 .. Len(m.columns), w.columns[i].table = m.columns[i].table, Moved(m, i)
      PROVE  Moved(w, i)
  <2>1. w.columns[i].alias = m.columns[i].alias
    BY <1>1
  <2> QED
    BY <1>1, <1>7, <2>1, SameTables DEF Moved
<1>8. ASSUME NEW t \in Names, NEW n \in 1 .. Len(w.owned[t])
      PROVE  /\ w.owned[t][n] \in 1 .. Len(w.columns)
             /\ w.columns[w.owned[t][n]].table = t \/ Moved(w, w.owned[t][n])
  <2>1. ASSUME NEW k \in 1 .. Len(m.owned[t]), w.owned[t][n] = m.owned[t][k]
        PROVE  /\ w.owned[t][n] \in 1 .. Len(w.columns)
               /\ w.columns[w.owned[t][n]].table = t \/ Moved(w, w.owned[t][n])
    <3>1. /\ m.owned[t][k] \in 1 .. Len(m.columns)
          /\ m.columns[m.owned[t][k]].table = t \/ Moved(m, m.owned[t][k])
      BY DEF Sound
    <3>2. \/ m.owned[t][k] \in ToSet(resolved(m)) /\ Its(m, m.owned[t][k]) # Null
          \/ w.columns[m.owned[t][k]].table = m.columns[m.owned[t][k]].table
      BY <1>1, <3>1
    <3> QED
      BY <1>1, <1>6, <1>7, <2>1, <3>1, <3>2
  <2>2. ASSUME w.owned[t][n] \in 1 .. Len(m.columns),
               w.owned[t][n] \in ToSet(resolved(m)), Its(m, w.owned[t][n]) = t
        PROVE  /\ w.owned[t][n] \in 1 .. Len(w.columns)
               /\ w.columns[w.owned[t][n]].table = t \/ Moved(w, w.owned[t][n])
    BY <1>1, <1>6, <2>2, NullAssumption
  <2> QED
    BY <1>1, <2>1, <2>2
<1>9. Sound(w)
  <2>1. \A n \in 1 .. Len(w.selectList) : w.selectList[n] \in 1 .. Len(w.columns)
    BY <1>1 DEF Sound
  <2> QED
    BY <1>1, <1>8, <2>1 DEF Sound
<1> QED
  BY <1>4, <1>5, <1>9

----------------------------------------------------------------------------
(* The next walk                                                           *)

LEMMA WalkNumbered ==
  ASSUME WalkInv, DrawInv, phase = "walk"
  PROVE  Numbered(model)
<1>1. \A n \in 1 .. Len(model.selectList) : model.selectList[n] \in 1 .. Len(model.columns)
  BY DEF WalkInv, Sound
<1>2. Len(model.joins) = Len(counted)
      /\ \A n \in 1 .. Len(counted) : /\ SideOK(model, model.joins[n].left, counted[n].of.left)
                                      /\ SideOK(model, model.joins[n].right, counted[n].of.right)
  BY DEF DrawInv
<1>3. \A n \in 1 .. Len(model.joins) :
        {model.joins[n].left, model.joins[n].right} \subseteq {0} \cup 1 .. Len(model.columns)
  BY <1>2 DEF SideOK
<1> QED
  BY <1>1, <1>3 DEF Numbered

(* A broken resolution gives columns other tables, and the literal stays.   *)
LEMMA DrawAgain == WalkInv /\ DrawInv /\ CallAgain => DrawInv'
<1> SUFFICES ASSUME WalkInv, DrawInv, CallAgain PROVE DrawInv'
  OBVIOUS
<1>1. /\ phase = "walk" /\ at <= Len(statement) /\ statement[at].call = "again"
      /\ at' = at + 1 /\ UNCHANGED <<statement, counted, phase>> /\ Sound(model) /\ WalkTypes
      /\ statement[at].thrown => model' = model
      /\ ~statement[at].thrown => ~Resolvable(model) /\ model' = resolveColumnAliases(model)
  BY DEF CallAgain, Calls, WalkInv, c
<1>2. CASE statement[at].thrown
  <2>1. model' = model /\ (Stale' <=> Stale)
    BY <1>1, <1>2, StaleGrows
  <2>2. \A id, op : SideOK(model, id, op) => SideOK(model', id, op) /\ tableOf(model', id) = tableOf(model, id)
    BY <2>1
  <2>3. /\ Drawable(model') /\ model'.joins = model.joins
        /\ \A i \in 1 .. Len(model'.columns) :
             [alias |-> model'.columns[i].alias, column |-> model'.columns[i].name] \in References
    BY <1>1, <2>1 DEF DrawInv
  <2> QED
    BY <1>1, <2>1, <2>2, <2>3, DrawStays
<1>3. CASE ~statement[at].thrown
  <2> DEFINE w == resolveColumnAliases(model)
  <2>1. Stale' /\ Numbered(model) /\ model' = w /\ ~Resolvable(model)
    BY <1>1, <1>3, StaleGrows, WalkNumbered
  <2>2. /\ w.joins = model.joins /\ w.selectList = model.selectList
        /\ Len(w.columns) = Len(model.columns)
        /\ \A i \in 1 .. Len(model.columns) :
             /\ w.columns[i].name = model.columns[i].name /\ w.columns[i].alias = model.columns[i].alias
             /\ w.columns[i].table = IF i \in ToSet(resolved(model)) /\ Its(model, i) # Null THEN Its(model, i)
                                     ELSE model.columns[i].table
    BY <1>1, <2>1, Resolving
  <2>3. Drawable(w)
    BY <1>1, <2>1, ResolvedSound DEF DrawInv
  <2> HIDE DEF w
  <2>4. ASSUME NEW id, NEW op, SideOK(model, id, op) PROVE SideOK(w, id, op)
    <3>1. /\ id \in {0} \cup 1 .. Len(model.columns) /\ (id = 0 <=> op.column = Null)
          /\ id # 0 => model.columns[id].name = op.column
          /\ id # 0 /\ model.columns[id].table = Null =>
               /\ model.columns[id].alias = op.alias
               /\ \A n \in 1 .. Len(model.selectList) : model.selectList[n] # id
      BY <2>4 DEF SideOK
    <3>2. id # 0 => /\ w.columns[id].name = model.columns[id].name
                    /\ w.columns[id].alias = model.columns[id].alias
                    /\ w.columns[id].table = Null => model.columns[id].table = Null
      BY <2>2, <3>1
    <3> QED
      BY <2>2, <3>1, <3>2 DEF SideOK
  <2>5. \A i \in 1 .. Len(w.columns) :
          [alias |-> w.columns[i].alias, column |-> w.columns[i].name] \in References
    BY <1>1, <2>2 DEF DrawInv
  <2>6. ~Resolvable(w)
    BY <2>1, <2>2 DEF Resolvable, LeftLiteral
  <2>7. Len(w.joins) = Len(counted)
        /\ \A n \in 1 .. Len(counted) : /\ SideOK(w, w.joins[n].left, counted[n].of.left)
                                          /\ SideOK(w, w.joins[n].right, counted[n].of.right)
    BY <1>1, <2>2, <2>4 DEF DrawInv
  <2>8. \A n \in 1 .. Len(counted) : counted[n].of \in Operations
    BY DEF DrawInv
  <2> QED
    BY <1>1, <2>1, <2>3, <2>5, <2>6, <2>7, <2>8, SameSaid DEF DrawInv
<1> QED
  BY <1>2, <1>3

LEMMA NextDraw == WalkInv /\ DrawInv /\ [Next]_vars => DrawInv'
<1> SUFFICES ASSUME WalkInv, DrawInv, [Next]_vars PROVE DrawInv'
  OBVIOUS
<1>1. CASE CallTable \/ CallColumn \/ CallJoin
  BY <1>1, DrawTable, DrawColumn, DrawJoin
<1>2. CASE postProcess
  <2>1. UNCHANGED <<statement, at, counted>> /\ phase' # "walk" /\ WalkTypes
    BY <1>2 DEF postProcess, WalkInv
  <2> QED
    BY <2>1, SameSaid, StaleGrows DEF DrawInv
<1>3. CASE UNCHANGED vars
  <2>1. UNCHANGED <<statement, at, model, counted, phase>> /\ WalkTypes /\ (Stale' <=> Stale)
    BY <1>3, StaleGrows DEF vars, WalkInv
  <2>2. Drawable(model)' <=> Drawable(model)
    BY <2>1
  <2>3. \A n : Drawn(n)' = Drawn(n)
    BY <2>1 DEF Drawn
  <2>4. \A id, op : SideOK(model, id, op)' <=> SideOK(model, id, op)
    BY <2>1 DEF SideOK
  <2>5. Resolvable(model)' <=> Resolvable(model)
    BY <2>1 DEF Resolvable, LeftLiteral
  <2> QED
    BY <2>1, <2>2, <2>3, <2>4, <2>5, SameSaid DEF DrawInv
<1>4. CASE CallAgain
  BY <1>4, DrawAgain
<1> QED
  BY <1>1, <1>2, <1>3, <1>4 DEF Next

(* The observer is told the tables of the moment.                           *)
LEMMA JoinCall ==
  ASSUME WalkInv, DrawInv, CallJoin
  PROVE  JoinsCountedAsWritten' /\ counted' \in Seq([of : Call, left : Names \cup {Null}, right : Names \cup {Null}])
<1> DEFINE ops == Operands(model, c.left, c.right)
           l == tableOf(ops.model, ops.left)
           r == tableOf(ops.model, ops.right)
           e == [of |-> c, left |-> l, right |-> r]
           E == [of : Call, left : Names \cup {Null}, right : Names \cup {Null}]
<1>1. /\ WalkTypes /\ Sound(model) /\ JoinsCountedAsWritten
      /\ at <= Len(statement) /\ c.call = "join" /\ statement' = statement
      /\ counted' = Append(counted, e) /\ phase = "walk"
      /\ Stale' <=> Stale
      /\ ~Stale => Owned(model)
  BY StaleGrows DEF CallJoin, Calls, WalkInv, c
<1>2. Proper(c.left) /\ Proper(c.right) /\ c \in Call /\ counted \in Seq(E)
  BY <1>1, StatementTypes DEF WalkTypes
<1>3. /\ BothTrusted(model, c.left, c.right) => Side(model, l, c.left) /\ Side(model, r, c.right)
      /\ Sound(ops.model) /\ SideOK(ops.model, ops.left, c.left) /\ SideOK(ops.model, ops.right, c.right)
  BY <1>1, <1>2, BothOperands
<1>4. (Stale => NamesDistinct) => BothTrusted(model, c.left, c.right)
  <2>1. c \in Operations
    BY <1>1, StatementTypes DEF Operations, CallsOf, c
  <2>2. \A op \in {c.left, c.right} : [alias |-> op.alias, column |-> op.column] \in References
    BY <2>1 DEF References
  <2>3. \A i \in 1 .. Len(model.columns) :
          [alias |-> model.columns[i].alias, column |-> model.columns[i].name] \in References
    BY <1>1 DEF DrawInv
  <2>4. ASSUME NamesDistinct, NEW q, NEW k, NEW u, [alias |-> q, column |-> k] \in References,
               [alias |-> u, column |-> k] \in References
        PROVE  q = u
    BY <2>4 DEF NamesDistinct
  <2> QED
    BY <1>1, <2>2, <2>3, <2>4 DEF BothTrusted
<1>5. l \in Names \cup {Null} /\ r \in Names \cup {Null}
  BY <1>3, TableOfSide
<1> HIDE DEF ops, l, r
<1>6. e \in E /\ e.of = c /\ e.left = l /\ e.right = r
  BY <1>2, <1>5
<1> HIDE DEF e, E
<1>7. /\ counted' \in Seq(E) /\ Len(counted) \in Nat /\ Len(counted') = Len(counted) + 1
      /\ counted'[Len(counted) + 1] = e
      /\ \A n \in 1 .. Len(counted) : counted'[n] = counted[n]
  BY <1>1, <1>2, <1>6, AppendProperties
<1>8. ASSUME TablesFirst, Stale => NamesDistinct, NEW n \in 1 .. Len(counted')
      PROVE  AsWritten(counted'[n].left, counted'[n].of.left) /\ AsWritten(counted'[n].right, counted'[n].of.right)
  <2>1. CASE n \in 1 .. Len(counted)
    BY <1>1, <1>7, <1>8, <2>1 DEF JoinsCountedAsWritten
  <2>2. CASE n = Len(counted) + 1
    <3>1. AsWritten(l, c.left) /\ AsWritten(r, c.right)
      BY <1>2, <1>3, <1>4, <1>8, SideAsWritten
    <3> QED
      BY <1>6, <1>7, <2>2, <3>1
  <2> QED
    BY <1>7, <2>1, <2>2
<1>9. JoinsCountedAsWritten'
  BY <1>1, <1>8, SameStatement DEF JoinsCountedAsWritten, AsWritten, Written
<1> QED
  BY <1>7, <1>9 DEF E

LEMMA NextWalk == WalkInv /\ DrawInv /\ [Next]_vars => WalkInv'
<1> SUFFICES ASSUME WalkInv, DrawInv, [Next]_vars
             PROVE  WalkInv'
  OBVIOUS
<1>1. WalkTypes /\ JoinsCountedAsWritten /\ at \in Nat \ {0} /\ Len(statement) \in Nat
  BY StatementTypes DEF WalkInv
<1>2. counted' = counted /\ statement' = statement /\ (Stale => Stale') => JoinsCountedAsWritten'
  BY <1>1, SameStatement DEF JoinsCountedAsWritten, AsWritten, Written
<1>3. at <= Len(statement) /\ at' = at + 1 /\ statement' = statement => at' \in 1 .. Len(statement') + 1
  BY <1>1
<1>4. CASE CallTable
  <2>2. /\ Stale' <=> Stale
        /\ phase = "walk"
    BY <1>1, <1>4, StaleGrows DEF CallTable, Calls, c
  <2>1. WalkTypes' /\ JoinsCountedAsWritten'
    BY <1>1, <1>2, <1>3, <1>4, <2>2 DEF CallTable, Calls, WalkTypes
  <2> QED
    BY <1>4, <2>1, <2>2, TableCall DEF WalkInv
<1>5. CASE CallColumn
  <2>5. Stale' <=> Stale
    BY <1>1, <1>5, StaleGrows DEF CallColumn, Calls, c
  <2>1. WalkTypes' /\ JoinsCountedAsWritten'
    BY <1>1, <1>2, <1>3, <1>5, <2>5 DEF CallColumn, Calls, WalkTypes
  <2>2. /\ phase = "walk" /\ at <= Len(statement) /\ c.call = "column" /\ Sound(model)
        /\ model' = addSelectListColumn(model, c.alias, c.column)
    BY <1>5 DEF CallColumn, Calls, WalkInv, c
  <2>3. c.alias \in Names \cup {Null} /\ c.column \in ColumnNames
    <3>1. c \in Call
      BY <1>1, <2>2, StatementTypes
    <3> QED
      BY <2>2, <3>1 DEF Call
  <2>4. Sound(model') /\ (Owned(model) => Owned(model')) /\ model'.tables = model.tables
    BY <2>2, <2>3, SelectSound
  <2> QED
    BY <1>5, <2>1, <2>2, <2>4, <2>5, TablesStay DEF WalkInv
<1>6. CASE CallJoin
  <2>1. WalkTypes' /\ JoinsCountedAsWritten'
    BY <1>1, <1>3, <1>6, JoinCall DEF CallJoin, Calls, WalkTypes
  <2>2. /\ at <= Len(statement) /\ c.call = "join" /\ Sound(model) /\ phase = "walk"
        /\ model' = WithJoin(model, c.left, c.right)
        /\ Stale' <=> Stale
    BY <1>1, <1>6, StaleGrows DEF CallJoin, Calls, WalkInv, c
  <2>3. Proper(c.left) /\ Proper(c.right)
    BY <1>1, <2>2, StatementTypes
  <2>4. /\ Sound(WithJoin(model, c.left, c.right)) /\ WithJoin(model, c.left, c.right).tables = model.tables
        /\ Owned(model) => Owned(WithJoin(model, c.left, c.right))
    <3>1. ASSUME NEW m, Sound(m), NEW l, Proper(l), NEW r, Proper(r)
          PROVE  /\ Sound(WithJoin(m, l, r)) /\ WithJoin(m, l, r).tables = m.tables
                 /\ Owned(m) => Owned(WithJoin(m, l, r))
      BY <3>1, JoinSound
    <3> QED
      BY <2>2, <2>3, <3>1
  <2>5. Sound(model') /\ model'.tables = model.tables /\ (Owned(model) => Owned(model'))
    BY <2>2, <2>4
  <2> QED
    BY <1>6, <2>1, <2>2, <2>5, TablesStay DEF WalkInv
<1>7. CASE postProcess
  <2>1. Stale' <=> Stale
    BY <1>1, <1>7, StaleGrows DEF postProcess
  <2> QED
    BY <1>1, <1>2, <1>7, <2>1 DEF postProcess, WalkInv, WalkTypes
<1>8. CASE UNCHANGED vars
  <2>1. UNCHANGED <<statement, at, model, counted, phase>> /\ (Stale' <=> Stale)
    BY <1>1, <1>8, StaleGrows DEF vars
  <2>2. (Sound(model') <=> Sound(model)) /\ (Owned(model') <=> Owned(model))
    BY <2>1
  <2>3. TablesTrue' <=> TablesTrue
    BY <2>1, SameStatement DEF TablesTrue, Reported
  <2> QED
    BY <1>2, <2>1, <2>2, <2>3 DEF WalkInv, WalkTypes
<1>9. CASE CallAgain
  <2>1. /\ phase = "walk" /\ at <= Len(statement) /\ statement[at].call = "again"
        /\ at' = at + 1 /\ UNCHANGED <<statement, counted, phase>>
        /\ Sound(model) /\ (Owned(model) \/ Stale)
        /\ statement[at].thrown => model' = model
        /\ ~statement[at].thrown => model' = resolveColumnAliases(model)
    BY <1>9 DEF CallAgain, Calls, WalkInv, c
  <2>2. (Stale => Stale') /\ (~statement[at].thrown => Stale')
    BY <1>1, <2>1, StaleGrows
  <2>3. WalkTypes' /\ JoinsCountedAsWritten'
    BY <1>1, <1>2, <1>3, <2>1, <2>2 DEF WalkTypes
  <2>4. Numbered(model)
    BY <2>1, WalkNumbered
  <2>5. Sound(model') /\ model'.tables = model.tables
    <3>1. \A w : w = resolveColumnAliases(model) => Sound(w) /\ w.tables = model.tables
      BY <2>1, <2>4, ResolvedSound, Resolving
    <3> QED
      BY <2>1, <3>1
  <2>6. TablesTrue'
    BY <1>9, <2>1, <2>5, TablesStay
  <2>7. Owned(model') \/ Stale'
    BY <2>1, <2>2
  <2> QED
    BY <2>3, <2>5, <2>6, <2>7 DEF WalkInv
<1> QED
  BY <1>4, <1>5, <1>6, <1>7, <1>8, <1>9 DEF Next

----------------------------------------------------------------------------
(* The end                                                                 *)

\* What holds when the parser is done: numbers stand for columns, and each side of
\* each join of a parsed statement is drawn to a table that its qualifier names.
Settled(y, id, op) ==
  /\ NamesDistinct => AsWritten(y, op)
  /\ id # 0 => op.column # Null /\ (Written(op) # {} /\ ~SelfJoined => y # Null)

AfterInv ==
  phase # "walk" =>
    /\ Sound(model) /\ Numbered(model) /\ Drawable(model)
    /\ phase = "parsed" =>
         /\ Len(model.joins) = Len(counted)
         /\ \A n \in 1 .. Len(counted) :
              /\ model.joins[n].left # 0
              /\ Settled(Drawn(n).left, model.joins[n].left, counted[n].of.left)
              /\ Settled(Drawn(n).right, model.joins[n].right, counted[n].of.right)

(* When all calls are made, a qualifier that a table has is found at a table *)
(* that it names, and one that is not found was lost in a self join.         *)
LEMMA FoundAtEnd ==
  ASSUME WalkInv, phase = "walk", at > Len(statement),
         NEW op, op.alias \in Names \cup {Null}, Written(op) # {}
  PROVE  /\ findTableGivenAlias(model, op.alias) # Null => findTableGivenAlias(model, op.alias) \in Written(op)
         /\ findTableGivenAlias(model, op.alias) = Null => SelfJoined
<1> DEFINE t == findTableGivenAlias(model, op.alias)
<1>1. model \in Model /\ TablesTrue /\ WalkTypes
  BY DEF WalkInv, Sound
<1>2. Reported = CallsOf("table")
  <2>1. at \in Nat /\ Len(statement) \in Nat
    BY <1>1, StatementTypes
  <2> QED
    BY <2>1 DEF Reported, CallsOf
<1>3. op.alias # Null
  BY DEF Written
<1>4. CASE t # Null
  <2>1. PICK n \in 1 .. Len(model.tables) :
          op.alias \in {model.tables[n].name, model.tables[n].alias} /\ t = model.tables[n].name
    BY <1>1, <1>4, GivenAlias
  <2>2. PICK k \in CallsOf("table") :
          model.tables[n].name = statement[k].name /\ model.tables[n].alias = statement[k].alias
    BY <1>1, <1>2, <2>1 DEF TablesTrue
  <2> HIDE DEF t
  <2>3. t \in Written(op)
    BY <1>3, <2>1, <2>2 DEF Written, Sources
  <2> QED
    BY <1>4, <2>3 DEF t
<1>5. CASE t = Null
  <2>1. \A n \in 1 .. Len(model.tables) : op.alias \notin {model.tables[n].name, model.tables[n].alias}
    BY <1>1, <1>3, <1>5, GivenAlias, NullAssumption
  <2>2. PICK k \in CallsOf("table") : op.alias \in {statement[k].name, statement[k].alias}
    BY DEF Written, Sources
  <2>3. PICK n \in 1 .. Len(model.tables) :
          /\ model.tables[n].name = statement[k].name
          /\ statement[k].alias \in {Null, model.tables[n].alias} \/ SelfJoined
    BY <1>1, <1>2, <2>2 DEF TablesTrue
  <2>4. SelfJoined
    BY <1>3, <2>1, <2>2, <2>3
  <2> QED
    BY <1>5, <2>4
<1> QED
  BY <1>4, <1>5

(* A side of a join when the aliases have been resolved.                    *)
LEMMA SideSettled ==
  ASSUME WalkInv, DrawInv, phase = "walk", at > Len(statement), Numbered(model),
         NEW w, w = resolveColumnAliases(model),
         NEW op, Proper(op), [alias |-> op.alias, column |-> op.column] \in References \/ op.column = Null,
         NEW id, SideOK(model, id, op), Near(tableOf(model, id), op),
         id # 0 => id \in ToSet(resolved(model))
  PROVE  Settled(tableOf(w, id), id, op)
<1> DEFINE y == tableOf(w, id)
           x == tableOf(model, id)
           q == model.columns[id].alias
           t == findTableGivenAlias(model, q)
<1>1. CASE id = 0
  <2>1. Written(op) = {}
    BY <1>1 DEF SideOK, Proper, Written
  <2> QED
    BY <1>1, <2>1 DEF Settled, AsWritten
<1>2. CASE id # 0
  <2>1. /\ id \in 1 .. Len(model.columns) /\ op.column # Null /\ model.columns[id].name = op.column
        /\ x = Null => q = op.alias
    BY <1>2 DEF SideOK, tableOf
  <2>2. y = IF t # Null THEN t ELSE x
    <3>1. Sound(model)
      BY DEF WalkInv
    <3>2. w.columns[id].table = IF id \in ToSet(resolved(model)) /\ Its(model, id) # Null THEN Its(model, id)
                                ELSE model.columns[id].table
      BY <2>1, <3>1, Resolving
    <3> QED
      BY <1>2, <3>2 DEF tableOf, Its
  <2>3. op.alias \in Names \cup {Null}
    BY DEF Proper, Operand
  <2>4. NamesDistinct => q = op.alias
    <3>1. [alias |-> q, column |-> op.column] \in References
      BY <2>1 DEF DrawInv
    <3>2. [alias |-> op.alias, column |-> op.column] \in References
      BY <2>1
    <3> QED
      BY <3>1, <3>2 DEF NamesDistinct
  <2> HIDE DEF y, x, q
  <2>5. ASSUME Written(op) # {}, q = op.alias
        PROVE  (t # Null => t \in Written(op)) /\ (t = Null => SelfJoined)
    BY <2>3, <2>5, FoundAtEnd
  <2>6. Written(op) # {} => x \in Written(op) \cup {Null}
    BY DEF Near, x
  <2> HIDE DEF t
  <2>7. NamesDistinct => AsWritten(y, op)
    BY <2>2, <2>4, <2>5, <2>6 DEF AsWritten
  <2>8. Written(op) # {} /\ ~SelfJoined => y # Null
    BY <2>1, <2>2, <2>5
  <2> QED
    BY <2>1, <2>7, <2>8 DEF Settled, y
<1> QED
  BY <1>1, <1>2

(* The operands of a join that the statement holds.                         *)
LEMMA OperationOperands ==
  ASSUME WalkTypes, NEW o \in Operations, NEW op \in {o.left, o.right}
  PROVE  Proper(op) /\ [alias |-> op.alias, column |-> op.column] \in References
<1>1. PICK k \in 1 .. Len(statement) : statement[k].call = "join" /\ o = statement[k]
  BY DEF Operations, CallsOf
<1>2. statement \in Statements /\ statement \in Seq(Call)
  BY StatementTypes DEF WalkTypes
<1>3. o \in Call
  BY <1>1, <1>2, ElementOfSeq
<1>4. op \in Operand
  BY <1>1, <1>3 DEF Call
<1>5. (op.column = Null => op.alias = Null) /\ (op.asked \/ op.column = Null)
  BY <1>1, <1>2, StatementAssumption
<1>6. [alias |-> op.alias, column |-> op.column] \in References
  BY DEF References
<1> QED
  BY <1>4, <1>5, <1>6 DEF Proper

LEMMA PostProcessed == WalkInv /\ DrawInv /\ postProcess => AfterInv'
<1> SUFFICES ASSUME WalkInv, DrawInv, postProcess PROVE AfterInv'
  OBVIOUS
<1> DEFINE w == resolveColumnAliases(model)
<1>1. /\ phase = "walk" /\ at > Len(statement) /\ model' = w
      /\ phase' = (IF Resolvable(model) THEN "parsed" ELSE "failed")
      /\ UNCHANGED <<statement, counted>> /\ WalkTypes /\ Sound(model) /\ Drawable(model)
  BY DEF postProcess, WalkInv, DrawInv
<1>2. Numbered(model)
  BY <1>1, WalkNumbered
<1>3. Sound(w) /\ Numbered(w) /\ Drawable(w) /\ w.joins = model.joins
  BY <1>1, <1>2, Resolving, ResolvedSound
<1> HIDE DEF w
<1>4. model \in Model
  BY <1>1 DEF Sound
<1>5. ASSUME Resolvable(model), NEW n \in 1 .. Len(counted)
      PROVE  /\ model.joins[n].left # 0
             /\ Settled(tableOf(w, model.joins[n].left), model.joins[n].left, counted[n].of.left)
             /\ Settled(tableOf(w, model.joins[n].right), model.joins[n].right, counted[n].of.right)
  <2>1. /\ n \in 1 .. Len(model.joins) /\ counted[n].of \in Operations
        /\ SideOK(model, model.joins[n].left, counted[n].of.left)
        /\ SideOK(model, model.joins[n].right, counted[n].of.right)
        /\ Drawn(n) = [left |-> counted[n].left, right |-> counted[n].right]
        /\ Near(counted[n].left, counted[n].of.left) /\ Near(counted[n].right, counted[n].of.right)
    BY <1>1, <1>5 DEF DrawInv
  <2>2. /\ Near(tableOf(model, model.joins[n].left), counted[n].of.left)
        /\ Near(tableOf(model, model.joins[n].right), counted[n].of.right)
    BY <2>1 DEF Drawn
  <2>3. /\ model.joins[n].left # 0 /\ model.joins[n].left \in ToSet(resolved(model))
        /\ model.joins[n].right # 0 => model.joins[n].right \in ToSet(resolved(model))
    BY <1>2, <1>4, <1>5, <2>1, ResolvedHolds DEF Resolvable, LeftLiteral
  <2>4. /\ Proper(counted[n].of.left) /\ Proper(counted[n].of.right)
        /\ [alias |-> counted[n].of.left.alias, column |-> counted[n].of.left.column] \in References
        /\ [alias |-> counted[n].of.right.alias, column |-> counted[n].of.right.column] \in References
    BY <1>1, <2>1, OperationOperands
  <2>5. ASSUME NEW id, NEW op, SideOK(model, id, op), Near(tableOf(model, id), op), Proper(op),
               [alias |-> op.alias, column |-> op.column] \in References,
               id # 0 => id \in ToSet(resolved(model))
        PROVE  Settled(tableOf(w, id), id, op)
    BY <1>1, <1>2, <2>5, SideSettled DEF w
  <2>6. Settled(tableOf(w, model.joins[n].left), model.joins[n].left, counted[n].of.left)
    BY <2>1, <2>2, <2>3, <2>4, <2>5
  <2>7. Settled(tableOf(w, model.joins[n].right), model.joins[n].right, counted[n].of.right)
    BY <2>1, <2>2, <2>3, <2>4, <2>5
  <2> QED
    BY <2>3, <2>6, <2>7
<1>6. \A y, id, op : Settled(y, id, op)' <=> Settled(y, id, op)
  BY <1>1, SameSaid, SameStatement DEF Settled, AsWritten, Written, NamesDistinct
<1>7. phase' = "parsed" => Resolvable(model) /\ Len(model'.joins) = Len(counted')
  BY <1>1, <1>3 DEF DrawInv
<1>8. phase' = "parsed" =>
         \A n \in 1 .. Len(counted') :
           /\ model'.joins[n].left # 0
           /\ Settled(Drawn(n).left, model.joins[n].left, counted[n].of.left)'
           /\ Settled(Drawn(n).right, model.joins[n].right, counted[n].of.right)'
  BY <1>1, <1>3, <1>5, <1>6, <1>7 DEF Drawn
<1>9. Sound(model') /\ Numbered(model') /\ Drawable(model')
  BY <1>1, <1>3
<1> QED
  BY <1>7, <1>8, <1>9 DEF AfterInv

LEMMA NextAfter == WalkInv /\ DrawInv /\ AfterInv /\ [Next]_vars => AfterInv'
<1> SUFFICES ASSUME WalkInv, DrawInv, AfterInv, [Next]_vars PROVE AfterInv'
  OBVIOUS
<1>1. CASE CallTable \/ CallColumn \/ CallJoin \/ CallAgain
  BY <1>1 DEF CallTable, CallColumn, CallJoin, CallAgain, Calls, AfterInv
<1>2. CASE postProcess
  BY <1>2, PostProcessed
<1>3. CASE UNCHANGED vars
  <2>1. UNCHANGED <<statement, at, model, counted, phase>>
    BY <1>3 DEF vars
  <2>2. \A n : Drawn(n)' = Drawn(n)
    BY <2>1 DEF Drawn
  <2>3. \A y, id, op : Settled(y, id, op)' <=> Settled(y, id, op)
    BY <2>1, SameSaid, SameStatement DEF Settled, AsWritten, Written, NamesDistinct
  <2>4. Sound(model') /\ Numbered(model') /\ Drawable(model') <=> Sound(model) /\ Numbered(model) /\ Drawable(model)
    BY <2>1
  <2> QED
    BY <2>1, <2>2, <2>3, <2>4 DEF AfterInv
<1> QED
  BY <1>1, <1>2, <1>3 DEF Next

LEMMA AfterInvariance == Spec => [](WalkInv /\ DrawInv /\ AfterInv)
<1>1. Init => WalkInv /\ DrawInv /\ AfterInv
  BY InitWalk, InitDraw DEF Init, AfterInv
<1>2. WalkInv /\ DrawInv /\ AfterInv /\ [Next]_vars => (WalkInv /\ DrawInv /\ AfterInv)'
  BY NextWalk, NextDraw, NextAfter
<1> QED
  BY <1>1, <1>2, PTL DEF Spec

----------------------------------------------------------------------------
(* The theorems about the finished model                                   *)

(* The types, and every number of a column stands for a column, while the   *)
(* parser walks as well as when postProcess() has resolved the aliases or    *)
(* has failed at a literal.                                                 *)
THEOREM ModelIsTyped == Spec => []TypeOK
<1>1. WalkInv /\ DrawInv /\ AfterInv => TypeOK
  <2> SUFFICES ASSUME WalkInv, DrawInv, AfterInv PROVE TypeOK
    OBVIOUS
  <2>1. /\ statement \in Seq(Call) /\ at \in 1 .. Len(statement) + 1
        /\ counted \in Seq([of : Call, left : Names \cup {Null}, right : Names \cup {Null}])
        /\ phase \in {"walk", "parsed", "failed"}
    BY StatementTypes DEF WalkInv, WalkTypes
  <2>2. /\ model \in Model /\ Numbered(model)
        /\ \A t \in Names : \A n \in 1 .. Len(model.owned[t]) : model.owned[t][n] \in 1 .. Len(model.columns)
    <3>1. Sound(model) /\ Numbered(model)
      BY WalkNumbered DEF WalkInv, AfterInv
    <3> QED
      BY <3>1 DEF Sound
  <2>3. DOMAIN model.columns = 1 .. Len(model.columns)
    BY <2>2, Fields, LenProperties
  <2> QED
    BY <2>1, <2>2, <2>3 DEF TypeOK, Numbered
<1> QED
  BY <1>1, AfterInvariance, PTL

(* In the first walk DefaultTable.findColumn() never returns a column of     *)
(* another table, and no table lists one twice; after a resolution, and in a *)
(* walk that goes on in its model, a listed column of another table belongs  *)
(* to the table that its own qualifier names.                                *)
THEOREM ColumnsAreOwnedOnce == Spec => []ColumnsOwnedOnce
<1>1. WalkInv /\ AfterInv => ColumnsOwnedOnce
  BY DEF WalkInv, AfterInv, Sound, Owned, ColumnsOwnedOnce
<1> QED
  BY <1>1, AfterInvariance, PTL

(* The observers are told the tables that the statement joins, whichever     *)
(* columns are found for the operands; in a walk that goes on in a model     *)
(* whose aliases are resolved in part, if no column name has two qualifiers. *)
THEOREM JoinsAreCountedAsWritten == Spec => []JoinsCountedAsWritten
<1>1. WalkInv => JoinsCountedAsWritten
  BY DEF WalkInv
<1> QED
  BY <1>1, AfterInvariance, PTL

(* A join is drawn between tables that its qualifiers name, for the calls of *)
(* both parsers, when no column name has two qualifiers.                     *)
THEOREM JoinsAreDrawnAsWritten == Spec => []DistinctNamesDrawnAsWritten
<1>1. WalkInv /\ DrawInv /\ AfterInv => DistinctNamesDrawnAsWritten
  <2> SUFFICES ASSUME AfterInv, NamesDistinct, phase = "parsed", NEW n \in 1 .. Len(model.joins)
               PROVE  /\ AsWritten(Drawn(n).left, counted[n].of.left)
                      /\ AsWritten(Drawn(n).right, counted[n].of.right)
    BY DEF DistinctNamesDrawnAsWritten, JoinsDrawnAsWritten
  <2> QED
    BY DEF AfterInv, Settled
<1> QED
  BY <1>1, AfterInvariance, PTL

(* DefaultRow finds a table for every side that it draws, when every operand *)
(* is qualified by a table of the statement and none is joined to itself.    *)
THEOREM EverySideHasATable == Spec => []SidesHaveTables
<1>1. WalkInv /\ DrawInv /\ AfterInv => SidesHaveTables
  <2> SUFFICES ASSUME DrawInv, AfterInv, phase = "parsed", ~SelfJoined,
                      \A j \in Operations : \A op \in {j.left, j.right} : op.column # Null => Written(op) # {},
                      NEW n \in 1 .. Len(model.joins)
               PROVE  Drawn(n).left # Null /\ (model.joins[n].right # 0 => Drawn(n).right # Null)
    BY DEF SidesHaveTables
  <2>1. n \in 1 .. Len(counted)
    BY DEF AfterInv
  <2>2. /\ model.joins[n].left # 0
        /\ Settled(Drawn(n).left, model.joins[n].left, counted[n].of.left)
        /\ Settled(Drawn(n).right, model.joins[n].right, counted[n].of.right)
    BY <2>1 DEF AfterInv
  <2>3. counted[n].of \in Operations
    BY <2>1 DEF DrawInv
  <2>4. /\ counted[n].of.left.column # Null => Written(counted[n].of.left) # {}
        /\ counted[n].of.right.column # Null => Written(counted[n].of.right) # {}
    BY <2>3
  <2> QED
    BY <2>2, <2>4 DEF Settled
<1> QED
  BY <1>1, AfterInvariance, PTL

\* The tables that a join is drawn between are tables of its model, or unknown.
DrawnFromTables ==
  \A n \in 1 .. Len(model.joins) :
    {Drawn(n).left, Drawn(n).right} \subseteq {Null} \cup TableNames(model)

(* A join is drawn between tables that its statement's model holds, which    *)
(* are those that the time line has rows for; a side that is no column, or a *)
(* column of no table, has none (the assumption that RequestLoading makes of *)
(* the joins a parse reports).                                               *)
THEOREM JoinsAreDrawnFromTables == Spec => []DrawnFromTables
<1>1. WalkInv /\ DrawInv /\ AfterInv => DrawnFromTables
  <2> SUFFICES ASSUME WalkInv, DrawInv, AfterInv PROVE DrawnFromTables
    OBVIOUS
  <2>1. Drawable(model) /\ Numbered(model)
    BY WalkNumbered DEF DrawInv, AfterInv
  <2> QED
    BY <2>1 DEF DrawnFromTables, Drawn, tableOf, Numbered, Drawable
<1> QED
  BY <1>1, AfterInvariance, PTL

============================================================================
