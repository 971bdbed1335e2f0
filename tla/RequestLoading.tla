--------------------------- MODULE RequestLoading ---------------------------
(***************************************************************************)
(* How one web request gets its SQL statements and its statistics:         *)
(* model/DefaultRequestWrapper.java pairs the trace events of a live       *)
(* request, the importers bring the statements of a file,                  *)
(* DefaultSqlWrapper.setSqlText() parses a statement in up to three        *)
(* attempts, and every table and join that a parser adds to an observed    *)
(* DefaultSqlModel is counted by DefaultSqlStatsObserver.  One thread does *)
(* all of this; an action is one iteration of a loop or one call-back of   *)
(* a parser.                                                               *)
(*                                                                         *)
(* What a parser finds in a statement is a constant: the calls it makes to *)
(* the model, in order, and how it ends.                                   *)
(***************************************************************************)
EXTENDS Integers, Sequences, FiniteSets, SequencesExt, Selection

CONSTANTS
  Tables,
  NoTable,        \* in a join: a column whose table is not known
  Literal,        \* in a join: no column, the null of addWhereClauseColumn()
  Texts,          \* SQL statements
  FirstWalk,      \* FirstWalk[x]: Akiban's walk over x
  RetryWalk,      \* Akiban's walk over "SELECT UNKNOWN_COLUMNS FROM ..." of x
  SecondaryWalk,  \* JSqlParser's walk over the same
  Inputs          \* the requests: [source, items]

TableNote == [kind : {"table"}, table : Tables]

(* left and right as the observer sees them; shown holds the tables of both *)
(* sides after postProcess(), which StatementParse shows may be others.     *)
JoinNote ==
  [kind : {"join"}, left : Tables \cup {NoTable, Literal}, right : Tables \cup {NoTable, Literal},
   shown : SUBSET (Tables \cup {NoTable})]

(* "syntax" is an exception that both parsers wrap and record in the model, *)
(* "runtime" a RuntimeException, which only Akiban's parser wraps.          *)
Walk  == [notes : Seq(TableNote \cup JoinNote), end : {"ok", "syntax", "runtime"}]
Event == [type : {"ENTRY", "ARG", "EXIT"}, method : STRING, class : STRING, text : Texts]

ASSUME LoadingAssumption ==
  /\ IsFiniteSet(Tables)
  /\ NoTable \notin Tables /\ Literal \notin Tables /\ NoTable # Literal
  /\ \A x \in Texts : {FirstWalk[x], RetryWalk[x], SecondaryWalk[x]} \subseteq Walk
  /\ \A in \in Inputs :
       \/ in.source = "live" /\ in.items \in Seq(Event)
       \/ in.source \in {"text", "xml"} /\ in.items \in Seq(Texts)

\* A column has its table from its own model, so that what a whole walk of Akiban's
\* draws a join between are tables that the walk reports.
ASSUME DrawnAssumption ==
  \A x \in Texts : FirstWalk[x].end = "ok" =>
    \A j \in ToSet(FirstWalk[x].notes) \cap JoinNote : \A t \in j.shown \ {NoTable} :
      [kind |-> "table", table |-> t] \in ToSet(FirstWalk[x].notes)

VARIABLES
  input,        \* the request being loaded
  at,           \* the next event or statement of it
  pc,           \* "next", "wrap", "walk", "add", "loaded" or "failed"
  group,        \* the events of one JDBC call, from ENTRY to EXIT
  text,         \* m_sqlText
  attempt,      \* of setSqlText(): 1 to 3
  notes,        \* calls that the parser still makes to its model
  models,       \* the model of each attempt
  statements,   \* m_sqlStatements
  known,        \* keys of m_tableStats
  tableCount, joinCount, sqlJoins, joinsPerSql,   \* the TableStats
  seen,         \* history: the tables Akiban found in each statement
  joined,       \* history: how often each statement joins each table, in Akiban's last walk over it
  repeated      \* history: the tables whose joins a first walk had reported when it failed

source  == <<input, at, group>>
parsing == <<text, attempt, notes, models>>
stats   == <<known, tableCount, joinCount, sqlJoins, joinsPerSql>>
history == <<seen, joined, repeated>>
vars    == <<source, pc, parsing, statements, stats, history>>

items == input.items

BlankModel == [tables |-> {}, joins |-> <<>>, failed |-> FALSE]

Model == [tables : SUBSET Tables, joins : Seq(JoinNote), failed : BOOLEAN]

TypeOK ==
  /\ input \in Inputs
  /\ at \in Nat \ {0}
  /\ pc \in {"next", "wrap", "walk", "add", "loaded", "failed"}
  /\ group \in Seq(Event)
  /\ text \in Texts \cup {"none"} /\ (pc = "walk" => text \in Texts)
  /\ attempt \in 1 .. 3
  /\ notes \in Seq(TableNote \cup JoinNote)
  /\ models \in [1 .. 3 -> Model]
  /\ statements \in Seq([text : Texts, attempt : 1 .. 3, model : Model])
  /\ known \subseteq Tables
  /\ tableCount \in [Tables -> Nat]
  /\ joinCount \in [Tables -> Nat]
  /\ sqlJoins \in [Tables -> Nat]
  /\ joinsPerSql \in [Tables -> Seq(Nat \ {0})]
  /\ seen \in Seq(SUBSET Tables)
  /\ joined \in Seq([Tables -> Nat])
  /\ repeated \subseteq Tables

Zero == [t \in Tables |-> 0]

Init ==
  /\ input \in Inputs
  /\ at = 1 /\ pc = "next" /\ group = <<>>
  /\ text = "none" /\ attempt = 1 /\ notes = <<>>
  /\ models = [n \in 1 .. 3 |-> BlankModel]
  /\ statements = <<>>
  /\ known = {} /\ tableCount = Zero /\ joinCount = Zero /\ sqlJoins = Zero
  /\ joinsPerSql = [t \in Tables |-> <<>>]
  /\ seen = <<>> /\ joined = <<>> /\ repeated = {}

----------------------------------------------------------------------------
(* The sources of a request                                                *)

More == at <= Len(items)

\* getIndexOfNext(): the first ENTRY, and the first EXIT of its method.
FirstEntry(e) ==
  /\ items[e].type = "ENTRY"
  /\ \A n \in at .. e - 1 : items[n].type # "ENTRY"

Ends(e, x) == items[x].type = "EXIT" /\ items[x].method = items[e].method

FirstExit(e, x) == Ends(e, x) /\ \A n \in e .. x - 1 : ~Ends(e, n)

\* setSqlText(): a new wrapper with an observed model; Akiban starts its walk.
StartParse(x) ==
  /\ text' = x
  /\ attempt' = 1
  /\ models' = [n \in 1 .. 3 |-> BlankModel]
  /\ notes' = FirstWalk[x].notes
  /\ seen' = Append(seen, {})
  /\ joined' = Append(joined, Zero)
  /\ UNCHANGED repeated

\* mutant: i = firstExit.
PairOverlapping ==
  /\ pc = "next" /\ input.source = "live" /\ More
  /\ \E e \in at .. Len(items) : \E x \in e .. Len(items) :
       /\ FirstEntry(e) /\ FirstExit(e, x)
       /\ group' = SubSeq(items, e, x)
       /\ at' = x
  /\ pc' = "wrap"
  /\ UNCHANGED <<input, parsing, statements, stats, history>>

\* loadEvents(): from the next ENTRY to the EXIT of the same method, whatever
\* is in between; events before that ENTRY are skipped.
Pair ==
  /\ pc = "next" /\ input.source = "live" /\ More
  /\ \E e \in at .. Len(items) : \E x \in e .. Len(items) :
       /\ FirstEntry(e) /\ FirstExit(e, x)
       /\ group' = SubSeq(items, e, x)
       /\ at' = x + 1
  /\ pc' = "wrap"
  /\ UNCHANGED <<input, parsing, statements, stats, history>>

\* WuqispankException: the request is not added to the repository.
Unmatched ==
  /\ pc = "next" /\ input.source = "live" /\ More
  /\ \A e \in at .. Len(items) : \A x \in e .. Len(items) : ~(FirstEntry(e) /\ FirstExit(e, x))
  /\ pc' = "failed"
  /\ UNCHANGED <<source, parsing, statements, stats, history>>

\* createSqlWrapper(): the SQL is the value of the event after the ENTRY.
Wrap ==
  /\ pc = "wrap"
  /\ group[2].type = "ARG"
  /\ StartParse(group[2].text)
  /\ pc' = "walk"
  /\ UNCHANGED <<source, statements, stats>>

NoArgument ==
  /\ pc = "wrap"
  /\ group[2].type # "ARG"
  /\ pc' = "failed"
  /\ UNCHANGED <<source, parsing, statements, stats, history>>

\* DefaultRawSqlTextRequestImporter: the statement is parsed, then added.
NextText ==
  /\ pc = "next" /\ input.source = "text" /\ More
  /\ StartParse(items[at])
  /\ at' = at + 1
  /\ pc' = "walk"
  /\ UNCHANGED <<input, group, statements, stats>>

\* mutant: statements without a join are averaged too.
FlushZeros ==
  /\ joinsPerSql' = [t \in Tables |-> Append(joinsPerSql[t], sqlJoins[t])]
  /\ sqlJoins' = Zero
  /\ UNCHANGED <<known, tableCount, joinCount>>

\* mutant: the count goes on into the next statement.
FlushKeepsCount ==
  /\ joinsPerSql' = [t \in Tables |-> IF sqlJoins[t] # 0 THEN Append(joinsPerSql[t], sqlJoins[t])
                                      ELSE joinsPerSql[t]]
  /\ UNCHANGED <<known, tableCount, joinCount, sqlJoins>>

\* newSqlStatement() of the TableStats of every table.
Flush ==
  /\ joinsPerSql' = [t \in Tables |-> IF sqlJoins[t] # 0 THEN Append(joinsPerSql[t], sqlJoins[t])
                                      ELSE joinsPerSql[t]]
  /\ sqlJoins' = Zero
  /\ UNCHANGED <<known, tableCount, joinCount>>

\* mutant: addSqlWrapper() does not notify.
AddSqlSilently(stmt) == statements' = Append(statements, stmt) /\ UNCHANGED stats

\* addSqlWrapper()
AddSql(stmt) ==
  /\ statements' = Append(statements, stmt)
  /\ Flush

\* The importers of XML: the statement is added, then parsed.
NextXml ==
  /\ pc = "next" /\ input.source = "xml" /\ More
  /\ AddSql([text |-> items[at], attempt |-> 1, model |-> BlankModel])
  /\ StartParse(items[at])
  /\ at' = at + 1
  /\ pc' = "walk"
  /\ UNCHANGED <<input, group>>

Loaded ==
  /\ pc = "next" /\ ~More
  /\ pc' = "loaded"
  /\ UNCHANGED <<source, parsing, statements, stats, history>>

----------------------------------------------------------------------------
(* setSqlText(): the attempts                                              *)

\* The parser fills the model it was given.  The second attempt gives the
\* wrapper a fresh model and leaves the parser the old one.
target == IF attempt = 3 THEN 3 ELSE 1

\* mutant: createBlankSqlWrapper() does not set the observer.
neverObserved == FALSE

\* Only the first model has the request's observer.
observed == target = 1

\* mutant: every reference of a table is a new table.
IsNewAlways(t) == TRUE

IsNew(t) == t \notin models[target].tables

\* addTable()
NoteTable ==
  LET t == Head(notes).table IN
  /\ pc = "walk" /\ notes # <<>> /\ Head(notes).kind = "table"
  /\ models' = [models EXCEPT ![target].tables = @ \cup {t}]
  /\ IF observed /\ IsNew(t)
     THEN known' = known \cup {t} /\ tableCount' = [tableCount EXCEPT ![t] = @ + 1]
     ELSE UNCHANGED <<known, tableCount>>
  /\ seen' = IF observed THEN [seen EXCEPT ![Len(seen)] = @ \cup {t}] ELSE seen
  /\ notes' = Tail(notes)
  /\ UNCHANGED <<source, pc, text, attempt, statements, joinCount, sqlJoins, joinsPerSql, joined, repeated>>

\* How many sides of a join belong to t.
Sides(j, t) == (IF j.left = t THEN 1 ELSE 0) + (IF j.right = t THEN 1 ELSE 0)

\* addBinaryOperatorExpression()
NoteJoin ==
  LET j == Head(notes)
      Plus(count) == [t \in Tables |-> count[t] + Sides(j, t)]
  IN
  /\ pc = "walk" /\ notes # <<>> /\ j.kind = "join"
  /\ models' = [models EXCEPT ![target].joins = Append(@, j)]
  /\ IF observed
     THEN /\ known' = known \cup ({j.left, j.right} \cap Tables)
          /\ joinCount' = Plus(joinCount)
          /\ sqlJoins' = Plus(sqlJoins)
          /\ joined' = [joined EXCEPT ![Len(joined)] = Plus(@)]
     ELSE UNCHANGED <<known, joinCount, sqlJoins, joined>>
  /\ notes' = Tail(notes)
  /\ UNCHANGED <<source, pc, text, attempt, statements, tableCount, joinsPerSql, seen, repeated>>

theWalk == CASE attempt = 1 -> FirstWalk[text]
             [] attempt = 2 -> RetryWalk[text]
             [] attempt = 3 -> SecondaryWalk[text]

\* postProcess() runs into the null of a join with a literal on its left.
Parses ==
  /\ theWalk.end = "ok"
  /\ \A n \in 1 .. Len(models[target].joins) : models[target].joins[n].left # Literal

WalkDone == pc = "walk" /\ notes = <<>>

theStatement == [text |-> text, attempt |-> attempt, model |-> models'[attempt]]

\* The wrapper keeps the model of its last attempt.  An imported XML statement
\* is in the request already, a text is added next, and so is a live statement
\* after two more checks.
EndParse ==
  IF input.source = "xml"
  THEN /\ statements' = [statements EXCEPT ![Len(statements)] = theStatement]
       /\ pc' = "next"
  ELSE pc' = "add" /\ UNCHANGED statements

Parsed ==
  /\ WalkDone /\ Parses
  /\ UNCHANGED models
  /\ EndParse
  /\ UNCHANGED <<source, text, attempt, notes, stats, history>>

\* SqlParseException: the next attempt, with the simplified text.  What a first
\* walk has reported stays counted, and the second walk reports it again.
TryAgain ==
  /\ WalkDone /\ ~Parses /\ attempt < 3
  /\ attempt' = attempt + 1
  /\ notes' = IF attempt = 1 THEN RetryWalk[text].notes ELSE SecondaryWalk[text].notes
  /\ models' = [models EXCEPT ![1].failed = TRUE]
  /\ IF attempt = 1
     THEN /\ joined' = [joined EXCEPT ![Len(joined)] = Zero]
          /\ repeated' = repeated \cup {t \in Tables : joined[Len(joined)][t] > 0}
     ELSE UNCHANGED <<joined, repeated>>
  /\ UNCHANGED <<source, pc, text, statements, stats, seen>>

\* The third exception is logged and the statement stays.
GiveUp ==
  /\ WalkDone /\ attempt = 3 /\ theWalk.end = "syntax"
  /\ models' = [models EXCEPT ![3].failed = TRUE]
  /\ EndParse
  /\ UNCHANGED <<source, text, attempt, notes, stats, history>>

\* A RuntimeException of JSqlParser's walk, as over a UNION, or of postProcess().
Uncaught == attempt = 3 /\ ~Parses /\ theWalk.end # "syntax"

\* Nothing catches it before the thread's own loop: the request is lost.
ParserDies ==
  /\ WalkDone /\ Uncaught
  /\ pc' = "failed"
  /\ UNCHANGED <<source, parsing, statements, stats, history>>

SameClass ==
  input.source = "live" =>
    group[1].class = group[2].class /\ group[2].class = Last(group).class

Add ==
  /\ pc = "add" /\ SameClass
  /\ AddSql([text |-> text, attempt |-> attempt, model |-> models[attempt]])
  /\ pc' = "next"
  /\ UNCHANGED <<source, parsing, history>>

ClassMismatch ==
  /\ pc = "add" /\ ~SameClass
  /\ pc' = "failed"
  /\ UNCHANGED <<source, parsing, statements, stats, history>>

setSqlText == NoteTable \/ NoteJoin \/ Parsed \/ TryAgain \/ GiveUp \/ ParserDies

Next ==
  \/ Pair \/ Unmatched \/ Wrap \/ NoArgument
  \/ NextText \/ NextXml \/ Loaded
  \/ setSqlText
  \/ Add \/ ClassMismatch

Spec == Init /\ [][Next]_vars

----------------------------------------------------------------------------
(* Properties                                                              *)

\* "Number of SQL statements that referenced this table": a statement that
\* names a table twice, or that is walked twice because its first parse fails
\* half-way, is counted once (DefaultSqlModel lines 85-92 with DefaultSqlWrapper
\* lines 83-97).
TableCountedOnce ==
  \A t \in Tables :
    tableCount[t] = Cardinality({n \in 1 .. Len(seen) : t \in seen[n]})

\* A join is counted once, for the statement it occurs in, and a statement's joins
\* are closed off by the notification of its own or of the next addSqlWrapper():
\* the list that averages are taken of is that of the statements with joins, in
\* order, and the count still open is the last one's.  Not so for a table whose
\* joins a first walk had reported when it failed: DefaultSqlWrapper line 97 has
\* them counted again (DefaultSqlStatsObserver line 180).
JoinsAttributed ==
  \A t \in Tables \ repeated :
    LET perStatement == Select([n \in 1 .. Len(joined) |-> joined[n][t]], Nat \ {0})
    IN  joinsPerSql[t] \o (IF sqlJoins[t] = 0 THEN <<>> ELSE <<sqlJoins[t]>>) = perStatement

\* "the average number of times this table was joined to, over all SQL in this
\* request" (DefaultSqlStatsObserver line 162): live requests and text files add
\* a statement after its parse, so that no join is outside the list once the
\* request is loaded.  An XML import adds it before, and the joins of its last
\* statement stay outside (DefaultRequestImporter lines 42 and 90).
AddedStatementsAveraged ==
  pc = "loaded" /\ input.source # "xml" => sqlJoins = Zero

\* A statement that a parser could read has the tables the parser found.
\* "start over from scratch" (DefaultSqlWrapper line 87).
ParsedKeepsTables ==
  \A n \in 1 .. Len(statements) :
    pc = "next" /\ statements[n].attempt < 3 => statements[n].model.tables = seen[n]

\* Every table in the model of a statement that Akiban could read has its
\* statistics, from which the lanes of the time line are made.
ModelTablesKnown ==
  \A n \in 1 .. Len(statements) :
    statements[n].attempt < 3 => statements[n].model.tables \subseteq known

\* Calls of one method of one class each, one after the other: ENTRY, arguments,
\* EXIT.
Clean ==
  /\ items # <<>> => items[1].type = "ENTRY" /\ Last(items).type = "EXIT"
  /\ \A n \in 1 .. Len(items) - 1 :
       LET e == items[n]
           f == items[n + 1]
       IN  /\ <<e.type, f.type>> \in {<<"ENTRY", "ARG">>, <<"ARG", "ARG">>, <<"ARG", "EXIT">>, <<"EXIT", "ENTRY">>}
           /\ f.type # "ENTRY" => e.method = f.method /\ e.class = f.class

\* "Expecting nice, clean lists of events, each with matching ENTRY and EXIT"
\* (lines 136-137): such a list loads and yields one statement for each call, with
\* the text of its first argument, in order; only a statement on which the third
\* attempt throws a RuntimeException loses the request (DefaultSqlWrapper lines
\* 110-125).
CleanListLoads ==
  LET entries == Select([n \in 1 .. Len(items) |-> n], {n \in 1 .. Len(items) : items[n].type = "ENTRY"})
  IN  input.source = "live" /\ Clean =>
        /\ pc = "failed" => Uncaught
        /\ pc = "loaded" =>
             /\ Len(statements) = Len(entries)
             /\ \A n \in 1 .. Len(entries) : statements[n].text = items[entries[n] + 1].text

============================================================================
