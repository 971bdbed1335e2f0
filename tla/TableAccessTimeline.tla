------------------------ MODULE TableAccessTimeline ------------------------
(***************************************************************************)
(* The table access time line of a loaded request                          *)
(* (web/tableaccesstimeline): the tables of the request's statistics get   *)
(* their lanes, the statements are packed into row groups, and every row   *)
(* marks the lanes of its statement's tables.  The graph library is left   *)
(* out: a marker is the row, the table and the lane it is put into.        *)
(***************************************************************************)
EXTENDS RequestLoading

CONSTANTS
  NameRank,       \* the alphabetical order of the tables
  MaxRowCountOfHeterogenousGroup,
  MaxRowCountOfHomogeneousGroup

ASSUME TimelineAssumption ==
  /\ NameRank \in [Tables -> Nat]
  /\ \A t, u \in Tables : NameRank[t] = NameRank[u] => t = u
  /\ MaxRowCountOfHeterogenousGroup \in Nat \ {0}
  /\ MaxRowCountOfHomogeneousGroup \in Nat \ {0}

VARIABLES
  view,       \* "closed", "grouping", "rendering", "shown" or "error"
  order,      \* the table of each lane, from left to right
  row,        \* the statement that the loop is at
  streak,     \* equivalentStreak
  groups,     \* m_rowGroups: statements by number
  markers     \* [row, table, lane], lane 0 for none

timeline == <<view, order, row, streak, groups, markers>>

TimelineInit ==
  /\ Init
  /\ view = "closed" /\ order = <<>> /\ row = 1 /\ streak = 0
  /\ groups = <<>> /\ markers = {}

----------------------------------------------------------------------------
(* Lanes                                                                   *)

\* getAverageJoinsPerSql() as a fraction: 0 for a table that was never joined.
Lower(t, u) ==
  LET N(v) == IF joinsPerSql[v] = <<>> THEN 1 ELSE Len(joinsPerSql[v])
  IN  SumFunction(joinsPerSql[t]) * N(u) < SumFunction(joinsPerSql[u]) * N(t)

\* mutant: the averages are not compared.
PrecedesByName(t, u) == NameRank[t] < NameRank[u]

\* The comparator of getOrderedTables(): the lowest average first, then by name.
Precedes(t, u) == Lower(t, u) \/ (~Lower(u, t) /\ NameRank[t] < NameRank[u])

getOrderedTables ==
  CHOOSE s \in SetToSeqs(known) : \A m, n \in DOMAIN s : m < n => Precedes(s[m], s[n])

\* reorderTables(): the old order is dealt out to the left end and the right
\* end in turn, so that it ends in the middle.
reorderTables(old) ==
  [n \in 1 .. Len(old) |->
     IF 2 * n <= Len(old) + 1 THEN old[2 * n - 1] ELSE old[2 * (Len(old) - n + 1)]]

OpenTimeline ==
  /\ pc = "loaded" /\ view = "closed"
  /\ order' = reorderTables(getOrderedTables)
  /\ groups' = << <<>> >>
  /\ view' = "grouping"
  /\ UNCHANGED <<vars, row, streak, markers>>

----------------------------------------------------------------------------
(* createRowGroups()                                                       *)

\* matchesTablesOf(), with the tables of a model as a set.
SameTables(m, n) == statements[m].model.tables = statements[n].model.tables

\* mutant: the streak is never broken.
StreakUnbroken == IF row > 1 THEN streak + 1 ELSE 0

Streak == IF row > 1 /\ SameTables(row - 1, row) THEN streak + 1 ELSE 0

\* mutant: <= for <.
StaysInGroupOffByOne ==
  \/ Streak # 0 /\ Streak <= MaxRowCountOfHomogeneousGroup
  \/ Len(Last(groups)) < MaxRowCountOfHeterogenousGroup

StaysInGroup ==
  \/ Streak # 0 /\ Streak < MaxRowCountOfHomogeneousGroup
  \/ Len(Last(groups)) < MaxRowCountOfHeterogenousGroup

\* mutant: the statement that opens a new group is not added to it.
GroupRowLosesFirst ==
  /\ view = "grouping" /\ row <= Len(statements)
  /\ groups' = IF StaysInGroup
               THEN [groups EXCEPT ![Len(groups)] = Append(@, row)]
               ELSE Append(groups, <<>>)
  /\ streak' = Streak
  /\ row' = row + 1
  /\ UNCHANGED <<vars, view, order, markers>>

GroupRow ==
  /\ view = "grouping" /\ row <= Len(statements)
  /\ groups' = IF StaysInGroup
               THEN [groups EXCEPT ![Len(groups)] = Append(@, row)]
               ELSE Append(groups, <<row>>)
  /\ streak' = Streak
  /\ row' = row + 1
  /\ UNCHANGED <<vars, view, order, markers>>

StartRendering ==
  /\ view = "grouping" /\ row > Len(statements)
  /\ row' = 1
  /\ view' = "rendering"
  /\ UNCHANGED <<vars, order, streak, groups, markers>>

----------------------------------------------------------------------------
(* DefaultRow.render()                                                     *)

\* mutant: the loop ends before the last lane.
getLaneOffByOne(t) == IF \E n \in 1 .. Len(order) - 1 : order[n] = t
                      THEN CHOOSE n \in 1 .. Len(order) - 1 : order[n] = t
                      ELSE 0

\* getLaneIndex(), -1 being 0 here.
getLane(t) == IF \E n \in 1 .. Len(order) : order[n] = t
              THEN CHOOSE n \in 1 .. Len(order) : order[n] = t
              ELSE 0

model == statements[row].model

\* renderSuccess() throws when a joined column has no table.
Unrenderable == ~model.failed /\ \E n \in 1 .. Len(model.joins) : NoTable \in model.joins[n].shown

\* A statement without a successful parse marks every lane.
Marked == IF model.failed THEN {order[n] : n \in 1 .. Len(order)}
          ELSE model.tables \cup UNION {model.joins[n].shown : n \in 1 .. Len(model.joins)}

RenderRow ==
  /\ view = "rendering" /\ row <= Len(statements)
  /\ ~Unrenderable
  /\ markers' = markers \cup {[row |-> row, table |-> t, lane |-> getLane(t)] : t \in Marked}
  /\ row' = row + 1
  /\ UNCHANGED <<vars, view, order, streak, groups>>

\* onRender() writes the message of the exception instead of the graph.
RenderFails ==
  /\ view = "rendering" /\ row <= Len(statements)
  /\ Unrenderable
  /\ view' = "error"
  /\ UNCHANGED <<vars, order, row, streak, groups, markers>>

Show ==
  /\ view = "rendering" /\ row > Len(statements)
  /\ view' = "shown"
  /\ UNCHANGED <<vars, order, row, streak, groups, markers>>

TimelineNext ==
  \/ Next /\ UNCHANGED timeline
  \/ OpenTimeline \/ GroupRow \/ StartRendering \/ RenderRow \/ RenderFails \/ Show

TimelineSpec == TimelineInit /\ [][TimelineNext]_<<vars, timeline>>

----------------------------------------------------------------------------
(* Properties                                                              *)

\* Every table of the request has one lane, and the tables that are joined to
\* most are in the middle: along the lanes the averages first do not fall and
\* then do not rise (CenterHeavyTableOrderMgr and getOrderedTables()).
CenterHeavy ==
  view # "closed" =>
    /\ ToSet(order) = known /\ Len(order) = Cardinality(known)
    /\ \A m, n \in 1 .. Len(order) : m < n =>
         /\ 2 * n <= Len(order) + 1 => ~Lower(order[n], order[m])
         /\ 2 * m > Len(order) + 1 => ~Lower(order[m], order[n])

\* The row groups hold every statement once, in order, and none of them is
\* empty (lines 313-330).
GroupsPartition ==
  view # "closed" =>
    /\ FlattenSeq(groups) = [n \in 1 .. (IF view = "grouping" THEN row - 1 ELSE Len(statements)) |-> n]
    /\ Len(groups) > 1 => <<>> \notin ToSet(groups)

\* A group is never longer than one of different statements may be plus one
\* streak of equivalent ones (lines 294-305).
GroupsBounded ==
  \A n \in 1 .. Len(groups) :
    Len(groups[n]) <= MaxRowCountOfHeterogenousGroup + MaxRowCountOfHomogeneousGroup - 1

\* Only equivalent statements make a group longer than the heterogeneous limit.
OnlyEqualsOverflow ==
  \A n \in 1 .. Len(groups) :
    \A m \in MaxRowCountOfHeterogenousGroup + 1 .. Len(groups[n]) :
      SameTables(groups[n][m - 1], groups[n][m])

\* Every marker is in the lane of its table; only the tables that the
\* secondary parser alone has found are in none, because they are not counted
\* (DefaultTableLaneMgr.getLane returns null).
MarkersInLanes ==
  \A mk \in markers :
    \/ mk.lane # 0 /\ order[mk.lane] = mk.table
    \/ mk.lane = 0 /\ statements[mk.row].attempt = 3

============================================================================
