# wuqiSpank in TLA+

wuqiSpank shows which SQL statements each web request of a Java application
executes. An agent (InTrace) in the monitored JVM sends trace events of JDBC
calls; wuqiSpank groups them into requests, parses their SQL, keeps the most
recent requests in memory, draws a *table access time line* of each, and can
export a request to a file and import files of SQL. This directory holds a
model of that program in TLA+, TLC runs on small instances, and TLAPS proofs of
the properties that matter most for instances of every size.

All source paths below are under
`src/wuqiSpank/src/main/java/org/wuqispank/`. The other directories of the
repository are a vendored JavaScript/Wicket library (`datatables`), example data
and documents.

## 1. The system

| Component (source) | State | Operations | Talks to |
|---|---|---|---|
| **Request repository** (`model/InMemoryRequstRepo.java`) | bounded queue in order of arrival, map by unique id, three counters | `add` (evicts the oldest when full), `remove(key)`, `get`, counters | called by everyone who collects or shows requests |
| **Import and export** (`importexport/`, form of `web/RequestDetail.java`) | per importer: an input stream and an id prefix; the listener's watch key; the export directory | `importAtSystemStartup`, the listener's `run`, `importFile` of each importer, `export` | repository; file system; two threads share the importers |
| **Loading of a request** (`model/DefaultRequestWrapper.java`, `jdbc/DefaultJdbcSqlWrapperFactory.java`, `model/DefaultSqlWrapper.java`) | list of statements, the statement being parsed | pairing of ENTRY and EXIT events, `createSqlWrapper`, `setSqlText` with up to three parse attempts, `addSqlWrapper` | parsers fill models; models notify the statistics |
| **Column and alias model** (`model/DefaultSqlModel.java`, `DefaultTable`, `DefaultColumn`) | tables with aliases, columns of the select list and of expressions, joins | `addTable`, `addSelectListColumn`, `addWhereClauseColumn`, `addBinaryOperatorExpression`, `postProcess` | filled by a parser, notifies the statistics |
| **SQL model and statistics** (`model/DefaultSqlModel.java`, `model/DefaultSqlStatsObserver.java`) | tables and joins of a statement; per table counts and averages over the request | `addTable`, `addBinaryOperatorExpression`, `update`, `newSqlStatement`, `getOrderedTables` | observer of models and of the request |
| **SQL parsers** (`db/akiban`, `db/jsqlparser`) | none of their own | walk over a statement, calling the model back | external parser libraries |
| **Table access time line** (`web/tableaccesstimeline/`, `model/CenterHeavyTableOrderMgr.java`) | lanes, row groups, markers | ordering of lanes, `createRowGroups`, `render` | reads a loaded request |
| **Event collection and lifecycle** (`web/EventCollector.java`, `model/DefaultRequestManager.java`) | schedulers, agent connection, list of request listeners | start-up, shutdown, fan-out of a completed request | creates all of the above |
| **Reconnection** (`DefaultReconnector.java`) | the one connection to the agent | `run` every few seconds, `disconnectAll` at the stop | agent, over the network |
| **Health checks** (`health/`) | registry of checks, last results | scheduled `run`, one `check` for InTrace, Grafana and Influxdb each | read by the status page |
| **Influxdb writer** (`influxdb/`) | client, counters of successes and failures | `add`, one point for each statement | second listener of the request manager |
| **Status page** (`web/StatusServlet.java`, `webapp/js/wuqispank.js`) | what the header of a page shows | `myPoll` every two seconds, `doGet` | results of the health checks, connection, repository |
| **Configuration and factory**, **other servlets**, **pages and session** | init parameters, singletons, Wicket components | reading and rendering | repository |

What is hard in this code:

* *Concurrency without locks.* The repository's five variables are each atomic
  and nothing joins them. The callers are the agent connection, the start-up
  import, the directory listener and the servlet container.
* *Shared importers.* `DefaultImportExportMgr` has one importer object for each
  kind of file; `AbstractRequestImporter.importFile()` sets its stream and prefix
  as fields and then reads them back, in two threads.
* *Time of check, time of use.* `remainingCapacity()` before `offer()`, `get()`
  before `add()`, the creation of a file before its content.
* *Partial failure.* The start-up is a sequence that any of a dozen errors can
  cut, some caught, some not, and the stop relies on all of it; a listener of a
  request can keep it from the next one.
* *Threads that nobody joins.* `shutdown()` ends no run that is under way, and
  the connection is closed next.
* *Names.* Columns are looked up by name, tables by name or alias, while parsers
  call back in two different orders and the observer is told in the middle.
* *Retries.* A statement that does not parse is parsed again, after half of it
  may already have been counted, and in a model whose aliases may already be
  resolved in part.
* *Boundaries.* Eviction batches against the capacity, the limit of the watch
  key, the two limits of a row group, the two ends of the lane order.

What makes each component correct is stated in section 4; `PROJECT.json` lists
each hazard at its line with the properties that watch it.

## 2. Modules

```
CircularBuffer          what the repository promises: one atomic add
   ^ refined by
RepositoryAtomicity --> RequestRepository  <-- RequestRepositoryProofs <-- RepositoryAtomicityProofs
ImportExport       (files, watch key, three threads that add step by step)       <-- ImportExportProofs
RequestLoading     (one request, from its source to its statistics)              <-- RequestLoadingProofs
   ^ extended by
TableAccessTimeline (lanes, groups and markers of the loaded request)            <-- TimelineProofs
StatementParse --> SqlModel  (one statement, from a parser's calls to its model) <-- SqlModelProofs
StatusPage     --> Lifecycle (the application's threads, from start to stop)     <-- LifecycleProofs
Selection           the members of a sequence that are in a set
DataLemmas          what sums, selections and flattened sequences are, for all the proofs
MC*                 values of the constants for TLC
```

**RequestRepository.** `queue`, `hashMap`, `total`, `discarded`, `sqlCount` are
the five fields. `pc`, `val`, `rw`, `evictions` and `decrements` are where each
thread is inside `add`, `removeOldestOne` or `remove(key)` and its locals, so
that every action is one access to one field: `AddWithRoom`/`AddWhenFull` (line
74), `Poll`/`PollEmpty` (59), `Discard` (61), `Decrement` (65-66, one statement
at a time), `Unmap` (68), `Offer`/`OfferRefused` (84, 89), `Put` (86), `Count`
(87), `CountSql` (88), `Lookup`/`Erase`/`Unkey` (110-118). `status` and `erased`
are history. Both exceptions that `add()` can throw are actions of their own.

**CircularBuffer** is the class comment's promise ("circular buffer, where older
requests are deleted") as a single action, and **RepositoryAtomicity** the
refinement mapping: the abstract state is the concrete one when the caller was
last outside every method.

**ImportExport.** `Open`, `SetPrefix`, `Read`/`ReadFails`/`ReadThrows`, `Name`,
`Check`, `addImported` and `FileDone` are the accesses of `importFile()` to the
importer and the repository, in each of the two threads; `NextFile` and
`StartupDone` are `importAtSystemStartup()`, `Take`, `HandleEvent`,
`SkipOverflow` and `Reset` the listener's `run()`. The world is `CopyFile`,
`Write` (content follows creation), `Live`, `OpenPage` and `Export`. A request
is `[of, n]`, the n-th of a file or a live one, and an id is the request that it
names, so "has the right id" is an equation. `added`, `refused`, `considered` and
`exported` are history.

The repository's `add()` is here too, access by access of its queue and its map:
`LookForRoom`, `Poll` or `PollEmpty`, `Unmap`, `Offer` or `OfferRefused`, `Put`. The
importing threads make these steps between the look for the id and the next
request (`Adding`, and how it ends: `AddImported`, `AddRefused`, `AddThrows`), the
agent's thread for the requests it reports (`Live`, `LiveAdds`, `LiveEnds`). A refused
request (`WuqispankException`, checked) costs an importer the rest of the file; an
empty queue (`NoSuchElementException`, unchecked) ends the start-up import
(`Throw`, thread `"failed"`) and only the file in the listener. The batch of an
eviction is one request, and the counters, the removal by key and larger batches
are left to RequestRepository.

**RequestLoading.** One thread, one action for each iteration or parser
call-back. The input is a list of trace events (`live`), of statements that are
parsed and then added (`text`), or added and then parsed (`xml`). `FirstWalk`,
`RetryWalk` and `SecondaryWalk` say what the three attempts find in a statement:
the calls that the parser makes to its model, in order, and how it ends. The
model that the second attempt fills is the one of the first (`target`), as in
`DefaultSqlWrapper` lines 83-97. A walk ends well, with an exception that its parser
records (`"syntax"`), or with a RuntimeException, which only Akiban's parser wraps: in
the third attempt it goes through the loader, and the request is lost
(`ParserDies`). `seen`, `joined` and `repeated` are history: `joined` has the joins of
Akiban's last walk over each statement, and `repeated` the tables whose joins a
first walk had reported when it failed, which are counted again.
`DrawnAssumption` says of a walk that Akiban completes that its joins are drawn
between tables that the walk reports: a column gets its table from its own model
(`JoinsAreDrawnFromTables` proves that of StatementParse).

**TableAccessTimeline** extends it: when the request is loaded a page opens it,
orders the lanes, packs the statements into groups (`GroupRow`, one iteration of
`createRowGroups()`) and renders row after row. The loaded request does not
change any more.

**SqlModel** has the methods of `DefaultSqlModel` as operators from models to
models: a model is its tables, its columns (an object is a number), the columns
that each table owns, the select list and the joins. **StatementParse** makes
the calls, one a step, because the observer of joins sees the model in between
(`counted` is what it saw), and then `postProcess`. The call `"again"`
(`CallAgain`) is the second attempt of `DefaultSqlWrapper` line 97: the calls behind it
are those of the simplified text, made to the same model. An exception of the first
walk leaves that model as it is (`thrown`); a literal on the left of an expression is
only met by the resolution of the aliases, which leaves the model resolved in part
(`Stale`). `RetryAssumption` says that there is a second walk for one of these
reasons. `Statements` holds the calls: MCStatementParse writes FROM lists, select lists and expressions once, and turns
them into the walk of Akiban's visitor (`AkibanWalk`: every table twice, then
each expression before its columns) and into that of JSqlParser's
`SelectExtractor` (`JSqlWalks`: ON expressions, tables in any order, columns, WHERE
expressions; no column is asked for where there is none). `DeclaredAssumption` is
what these orders have in common: an expression is reported when no table is
there yet, or behind a table that its qualifier names. RequestLoading takes
the outcome as a constant: `left` and `right` of its joins are what is counted,
`shown` what is drawn.

**Lifecycle.** `stage` is where the container's thread is in
`contextInitialized()` of the two listeners of `web.xml`, or in
`contextDestroyed()`; `fault` is the one thing that is wrong with configuration,
provider or directory, and each step has what happens then: an exception that is
caught (the rest of that block is left out), or one that escapes (`Escape`: the
container may start the next listener, stop the application or forget it). `pool`
is the state of each scheduler, `conn` the connection as `isConnected()` sees it,
with `"stale"` for one that is broken and not noticed yet; `recon` is the point
between the reconnector's look and its `connect()`. `health` and `results` are the
two steps of a run of the health checks, `going` the listeners that a request has
still to be handed to. The Influxdb writer makes a point for each statement
(`writeSqlMetric`), which succeeds or fails whatever happened to the one before, fails
always without a client (`hasClient`), and is only counted; `Written` is the end of
that loop. Imports add to the repository alone (`importRq`). `AgentGoes`, `AgentComes`
and `BreakNoticed` are the agent. `late` and `early` are history: a run of the
reconnector that the shutdown met under way, and requests that were reported
before Influxdb was registered.

**StatusPage** extends it with a page in a browser: `myPoll` computes an answer
from what the servlet reads at that moment, answers are a set (they overtake one
another), `Deliver` marks the page as the script does and `Lose` loses one. The page
is followed as long as the application serves (`Followed`).

**Selection** is `SelectSeq` for the members of a set, written as a recursive
function, which the provers can expand where they cannot expand the recursive
operator. **DataLemmas** has the lemmas about data that the proof modules share.

Not in the models: texts, hash codes, times, XML and HTML, the graph library,
logging. A file's bytes are "whole, cut off or malformed".

## 3. Runs

| Run (cfg) | Instance | What it shows |
|---|---|---|
| `concurrent` | 2 threads, 5 requests, capacity 2, batch 1, threads symmetric; 67,146 states | both threads find the queue full and evict while the other is anywhere in its `add`; the counters, the SQL count, the map and the queue agree up to what threads have in hand |
| `single` | 1 thread, 5 requests, capacity 3, batch 2 | the repository refines `CircularBuffer`, no `add` fails |
| `remove` | 2 threads, 3 requests, capacity 2, batch 2, every key removable; fair | removals of the same key, removals against evictions, evictions of an emptied queue; every call returns |
| `listener` | a text file of two requests, a poisonous XML file, an exported file, one live request, capacity 2, watch key limit 1; 48,357 states; fair | while listener and agent add and evict between each other's steps, ids stay unique and belong to their requests; an overflow happens, every event kept leads to a look at its file |
| `startup_import` | two good old files, a malformed one and one of unknown kind, a DynaTrace file copied meanwhile, one live request, capacity 2; 1,108,726 states | three threads fill the repository, refuse and evict; the start-up import brings all good files but for what the repository refused |
| `loading` | 1651 requests over three tables and eight statements, group limits 2 and 3; 42,113 states | statistics, pairing, lanes, groups and markers |
| `sql_model` | six FROM lists over three tables (aliases, none, a self join, a table with and without alias), three column names, up to two expressions, both parsers, and second walks after either failure of the first; 15,623 lists of calls, 185,344 states | columns have one owner until a second walk, joins are counted for the tables that are written, and drawn there if names are distinct |
| `application` | ten faults at start-up, one request of two statements, an agent that comes and goes, two answers under way; 57,263 states; fair | the stop is complete, the writes to Influxdb add up, the connection comes back, the page tells the truth in the end |
| `crossed`, `missed`, `retry`, `misjoined` | subsets of the above | one statement of a comment or test each, which the code does not keep (section 5) |

*Why the bounds are enough.* Two threads are enough for each race of the
repository, since every race is between one thread's pair of accesses and
another's single one; five requests let both threads evict with a full queue
twice. Batches smaller than, equal to and larger than what is in the queue occur
(1 of 2, 2 of 3, 2 of 2 with removals). A watch key limit of 1 makes two events
overflow; three files let an import, an export and a failure overlap; a capacity
of 2 evicts an exported request before its file is read, and with three adding
threads on a queue of two an `add()` can fail in both of its ways. In `loading` a statement
may need one, two or three attempts, fail in all, report joins in a walk that
fails, throw in its third attempt, name a table twice, join a
table with itself, with a literal or with an unknown column; requests of up to
six statements fill a group past both limits; event lists with nested, missing,
swapped and mismatched events are among the inputs. Only the numbers of
requests, files and statements bound the runs, no state constraint cuts them.
In `sql_model` two expressions are enough: every lookup relates a column to one
that came before it, from the select list or from the other expression; three
tables let an unqualified column, a wrong and a right table differ; the second walk
repeats what the first said with `UNKNOWN_COLUMNS` for its select list, as the
simplified text does. In
`application` one fault at a time is tried, since each ends its block; there is
one connection in the code; of two statements either write may fail before the
other; two answers under way are the fewest that can
overtake each other. The fault is chosen at the start, everything else at every
step.

Deadlock is not checked in any run: each is a finite story (all requests added,
all files written, the statement parsed, the application abandoned) that really
ends. `CallsReturn` and `EventsConsidered` say
what must not be stuck.

*Fairness.* `FairSpec` of RequestRepository: a thread inside a method takes its
next access; no lock, no wait in the code could keep it from it. No fairness of
callers is assumed. `FairSpec` of ImportExport: weak fairness of the start-up
loop, of the listener's loop (`scheduleAtFixedRate` calls `run()` again after it
returns), of the import a thread is in, and of whoever writes a file (it is
completed); none of users, of the agent, or of the order in which events come. `Fairness` of
Lifecycle: weak fairness of the container's thread while it starts or stops the
application, and of each scheduler's thread (one for each, and
`scheduleAtFixedRate` runs a task again after it returns), so one condition for
each thread and not for each action; weak fairness of `BreakNoticed`, the reader
thread of the client that finds a socket closed. Nobody needs to stop the
application, and the agent may stay away. `PageFairness` of StatusPage: the
timer polls again (line 46), and of the answers that say the same again and again
one arrives (strong fairness, since any one may be lost).

## 4. Properties

Repository: `RequestsAccountedFor` (total = queued + discarded + removed, up to
what is in hand), `SqlAccountedFor`, `QueuedIsFindable` (what the home page lists
can be opened), `EvictionsCovered` (if the batches of all threads fit into the
queue, no eviction finds it empty), `NoAddFails` and `ImplementsCircularBuffer`
for one caller, `CallsReturn`.

Import and export: `UniqueIds` (although the look for the id and the steps of the
add lie apart, and other requests are added and evicted meanwhile), `RightId`,
`StartupImportsAll` (an import that comes to its end has added every request of every
good old file, except one that the repository refused and those behind it in its file),
`EventsConsidered`.

Statement: `ColumnsOwnedOnce` (while a parser walks for the first time, `findColumn()`
of a table never returns a column of another; when the aliases have been resolved, and
in a second walk that goes on there, it may, but only one that belongs to the table
that its own qualifier names), `JoinsCountedAsWritten` (with all tables before
the first expression, as Akiban reports them, the statistics get each join for
the tables that its operands are qualified by, although columns are found by
name: in a first walk, in the second walk of a statement whose first one threw, and,
if no column name has two qualifiers, in one that goes on in a half-resolved model),
`DistinctNamesDrawnAsWritten` (the same of the drawn join, for both parsers, if
no column name has two qualifiers), `SidesHaveTables` (the renderer's exception for a column
without a table cannot come from a statement whose operands are all qualified).

Application: `StopsAllOrNothing` (whatever is wrong at the start, no scheduler is
left behind by a stop that fails half-way), `QuietAfterStop` (only a run that was
under way at the shutdown can leave a connection open), `HealthTaskAlive` (the
order of the start keeps the InTrace check from ever returning its null),
`WritesAddUp` (the writes that the status page counts as successes and failures are
those of all statements of each request that the repository took after Influxdb had
been registered, whichever of them failed, and of no other request), `Reconnects`,
`WorkEnds`, `PageTellsConnection`, `PageTellsInflux`.

Loading: `TableCountedOnce` (also for a statement that is walked twice because
its first parse failed half-way), `JoinsAttributed` (the list that
averages are taken of is that of the statements with joins, each join once, and nothing
leaks into the next one; for all tables but those whose joins a failed first walk had
reported), `AddedStatementsAveraged`, `ModelTablesKnown` (no table without a lane for
anything Akiban could read), `CleanListLoads` (only a RuntimeException of the third
attempt loses a clean list of events).

Time line: `CenterHeavy`, `GroupsPartition`, `GroupsBounded`,
`OnlyEqualsOverflow`, `MarkersInLanes`.

Each property of a passing run has a mutant in `PROJECT.json`: an operator
beside the original, marked *mutant*, that a plausible slip would produce and
that violates the property.

## 5. Where code and comments disagree

* `crossed`: with start-up and listener sharing an importer, requests of one
  file get the prefix of the other as their id.
* `missed`: only `ENTRY_CREATE` is watched, which comes while the file is empty.
* `retry`: after a second attempt the wrapper has a blank model; the parser
  filled the one that was given up.
* `misjoined`: `findDetachedColumn()` takes a column of the select list for an
  operand by its name; with `a.id` selected and `b.id` joined, the column object
  ends with `a`, and the join that was counted for `b` is drawn at `a`.

Seen while modelling, without a run of their own:

* Two threads see the last free place of the repository; the second `offer()`
  returns false and its request is lost with an exception, though evicting was
  possible. `NoAddFails` holds for one caller and fails for two.
* A request that is evicted between its own `offer()` and `put()` is unmapped
  before it is mapped and stays in the map for ever. Between `put()` and the
  counting, the map has one more than the total says.
* A refused `add()` costs an importer the rest of its file (`AbstractRequestImporter`
  line 61), and one that meets an empty queue throws `NoSuchElementException` (line 59 of
  the repository), which ends the start-up import; `EventCollector` line 223 only logs
  it. `StartupImportsAll` is about the import that comes to its end.
* Without its parameter the batch of an eviction is 16384 (`WebXmlConfigImpl` line 406),
  and without its own the queue has 10000 places (line 49): the first add to a full
  queue would empty it and throw. `web.xml` sets 256 and 16384.
* A first walk that fails behind its joins has them counted again by the second
  (`DefaultSqlWrapper` line 97): "Total number of times that this table was referenced in
  join clauses" and the average count it twice (`DefaultSqlStatsObserver` lines 162 and
  184). `JoinsAttributed` excludes the tables of such joins.
* The second walk goes on in a model whose aliases may be resolved in part. In
  `select y.code from a x, b y where x.code = y.code and 1 = x.key` the resolution gives
  the selected column `code`, which `a` lists, to `b` before it meets the literal; the
  second walk then finds it at `a` and counts the join for `b` on both sides.
  `ColumnsOwnedOnce` and `JoinsCountedAsWritten` say what is left true.
* The third attempt catches its own exception only. A RuntimeException in it (the
  `ClassCastException` of a UNION in `SelectExtractor` line 47) passes `JSqlParser`
  line 53 and `DefaultSqlWrapper` line 112, and the whole request is lost. The null of
  a literal cannot cause one there, since `SelectExtractor` line 91 takes no expression
  without a column on its left.
* An XML import adds a statement before it parses it, so the joins of the last
  one are in no average (`AddedStatementsAveraged` excludes XML for that).
* `ExportNotReimported` (ImportExport) fails when the exported request was evicted
  before the listener reads the file.
* `contextInitialized()` says that configuration errors are thrown from it; the
  JDBC provider's is caught, and leaves an application that is served without
  any scheduler, which contextDestroyed() then cannot stop.
* An Influxdb that is down at start-up never gets its database or batching:
  `initInfluxdb()` is called once, and the `RECONNECT_DELAY` it compares is of no use.
  Each write then fails and is only counted, so that the repository has requests that
  Influxdb lacks; it also has those of imports, which go to the repository alone.
* A page whose answer has no element for InTrace shows a cross, not "??".

With both
threads importing files of the same kind, `UniqueIds` and `StartupImportsAll`
fail too: both threads may find an id absent and add it, and the stream of one
may be read by the other. That is why `listener` has one importing thread and
`startup_import` gives the listener a file of another kind.

## 6. Proofs

TLC evaluates every `ASSUME` in the runs; the proofs use them and no others.
Where a theorem needs more it says so in an ASSUME of its own, named in the
second column; each of these conditions holds in the run that checks the property.
Every invariant and every refinement that a run checks is proved here for all
values of the constants.

Proofs about sums, sorted or filtered sequences need induction over data. The
induction rules of the library take an operator as a parameter, so it is done
by hand: `NatMinimum` (DataLemmas) picks the least element of a set of numbers that
is not empty, and `NatClosed` concludes that a set with 0 and with the successor
of each of its elements is Nat. From these follow, for each recursive function
that the models use, that there is such a function (so that the CHOOSE behind it
has its recursive equation) and what an element more or a changed one does to
its result: the sum over a set whatever the order in which it is taken
(`SumRemove`, `SumChange`), `Select` (`SelectAppend`, `SelectType`) and `FlattenSeq`
(`FlattenAppend`, `FlattenHolds`).

| Theorem | For all | Argument |
|---|---|---|
| `TypeCorrect` (RequestRepositoryProofs) | threads, requests, capacities, batches | `TypeInv == TypeOK /\ LocalsOK` is inductive: the locals say that a thread's next access has its request |
| `Accounted` | same | `RequestsAccountedFor` is inductive with `TypeInv`: each access moves a thread into or out of `Offered` or `Polled` and changes one count; `ThreadSets` is the cardinality lemma, `RemoveAtShortens` the one about `remove(o)` |
| `EvictionsFindRequests` | same | `DrainInv`. `PendingPolls` has one token for each poll to come; a thread that finds the queue full brings a batch, and all tokens fit (`BatchBound`); every poll uses a token and an element |
| `StatementsAccounted` | same, nobody removes by key (`Removable = {}`: `remove(key)` does not touch the SQL count) | `SqlInv`: `sqlCount` equals a sum over the queue plus what each thread has in hand; each access changes one term of the sum over threads (`SumChange`) or moves a request's weight between queue and thread (`WeightAppend`, `WeightTail`) |
| `Findable` (RepositoryAtomicityProofs) | same, with unique ids | `FindInv` adds to the property that a request has one adder, that one not yet offered is nowhere, that the queue has no duplicates, and that what a thread has taken out is not in the queue: without these an `Unmap` or `Unkey` could hit a queued request |
| `AddsSucceed` | one caller, a batch between 1 and the capacity | `RoomInv`: a caller that evicts sees the capacity less what it has polled, so it finds its whole batch, and a place is free when it offers |
| `IsCircularBuffer` | one caller, such a batch, unique ids, no removal by key | the refinement, step by step. `SettledOf` relates the state inside an `add` to the one its caller last saw: the queue is the old one without the victims polled so far, then with the new request, and each counter is the old one with what has been done to it; `MappedInv` says that the map holds nothing else. So only the last access of an `add` changes the abstract state, and it changes it as `CircularBuffer` says |
| `ImportTypeCorrect` (ImportExportProofs) | directories, capacities, watch limits | `ImportInv`: what is queued and mapped has an id that is known or the agent's own, events are of existing files with at most one overflow at the end, a thread inside `importFile` has a file with an importer and a request to name, check or add; `AddingInv`: an add is under way only where an importer or the agent makes it |
| `ListenerKeepsIdsUnique` | same, with no start-up import | `UniqueInv`: a queued id is in the map or about to be put there by the thread that offered it (`BeingPut`), an evicted one that is not unmapped yet is no longer queued, and an id found absent stays absent until its put, because a live request brings an id that nobody has known (`KnownIds` in `ImportInv`) |
| `OneImporterNamesRight` | same, with one importing thread (`OneImporter`) | `RightInv`: between `Open` and `Read` the importer's stream is that of the thread's file, and the prefix of a text importer is that file's; every named request in hand and in the queue is right |
| `StartupImportsEverything` | same, users' files of other kinds than the old ones unless nobody listens (`KindsApart`) | `TurfInv`: what a thread reads and names comes from files it is responsible for; `KeysInv` and `NamedInv`: an id of an old file is in the map only if that request was added, and a generated id is new; `ProgressInv`: of the file at hand each request is added or in hand, every file before it is finished, up to what was refused; an import that throws never reaches the end |
| `LoadingTypeCorrect` (RequestLoadingProofs) | events, statements, tables, parser results | `TypeOK /\ PhaseOK`: a group being unwrapped has at least two events, a walk has its history entry |
| `TablesCountedOnce` | same | `CountInv`: while a statement is walked, the observed model has exactly the tables the statement was counted for, through all attempts |
| `ModelTablesAreKnown` | same | `KnownInv`: the observed model is covered by the statistics as it grows, and the second attempt's model stays blank |
| `AddedAreAveraged` | same | `ClosedInv`: except between a parse and its `addSqlWrapper()` the count of joins is closed, whatever attempt the parse ended in |
| `JoinsAreAttributed` | same | `JoinInv` with `ClosedInv`: for a table outside `repeated` the lists of averages are the selection from `joined` up to the last statement, whose joins are the open count; a new statement closes that count (`SelectAppend`), and a first walk that fails leaves a table at zero or puts it into `repeated` |
| `CleanListsLoad` | same | `CleanInv`: in a clean list the loop stands behind an EXIT or inside a call, the group is what lies between, and the statements so far are those of the ENTRYs so far; so only `Uncaught` leads to `"failed"` |
| `JoinsAreDrawnFromTables` (SqlModelProofs) | statements, names, columns | `Drawable`: no column has a table that its model lacks; it backs `DrawnAssumption` |
| `ColumnsAreOwnedOnce` | same | `WalkInv`: the numbers in the lists stand for columns that are the table's own or moved to the table that their alias names (`Sound`), and until the walk is `Stale` a table owns only its own, each once, and the detached ones are in no list; `Attach` takes a detached or a new column. `ResolvedSound` says that the resolution moves columns nowhere else, also when it breaks off, and `AfterInv` that this stays when the parse has ended |
| `JoinsAreCountedAsWritten` | same, for statements with tables first | `TablesTrue`: every table of the model is written in the statement, with an alias it was written with, and at the first expression every written table is there; so `findTableGivenAlias` finds a written table for every qualifier. The column that is found by name may be trusted when lists hold own columns only, or when names are distinct, since its own alias is then the operand's (`BothTrusted`) |
| `ModelIsTyped` | same | `AfterInv` with `DrawInv`: while the parser walks a side is 0 for a literal and the number of a column otherwise; `JoinsResolved` and `ResolvedHolds` say which columns the resolution goes through, also when a literal cuts it off, and `Resolving` what it leaves; a model that could not be resolved never can be later, so that a second walk after a literal fails too |
| `JoinsAreDrawnAsWritten` | same, if no column name has two qualifiers | `DrawInv`: every column is one that the statement writes, a side has the column name of its operand, and it was counted for a table its qualifier names or for none (`Near`, from `DeclaredAssumption`). If names are distinct the column's own alias is the operand's, so the resolution finds a table that the operand names (`FoundAtEnd`) |
| `EverySideHasATable` | same, for qualified operands and no self join | `DrawInv`: a side without a table still has the operand's qualifier and is in no select list; `ResolvedHolds` says that the resolution comes to it, and `FoundAtEnd` that it finds a table |
| `TypeCorrect` (LifecycleProofs) | requests, statement counts, faults | inductive with `ConnectedFirst`: a scheduler exists only after the connection was added |
| `StopIsAllOrNothing` | same | `InOrder`: which schedulers can exist at which stage; the health checks' scheduler is made last and shut down first |
| `StopIsQuiet` | same | `LateRun`: after the shutdown of its scheduler the reconnector is connecting only if `late` |
| `HealthStaysAlive` | same | from `ConnectedFirst`: the health checks' scheduler has a task only when there is the one connection |
| `CountedWritesAddUp` | same | `ToldInOrder`: the listeners still to be told of a request are a suffix of repository, Influxdb; `Told` relates the counted writes to that place: none while the repository is to be told or for a request that it refused, at most one for each statement while Influxdb is being told, all of them afterwards |
| `GroupsNeverTooLong` (TimelineProofs) | requests and limits | `GroupInv`: the group being filled exceeds the heterogeneous limit by at most the current streak |
| `OverflowIsHomogeneous` | same | `GroupInv` also says that this group ends with the statement before the one at hand, so a streak compares neighbours |
| `GroupsPartitionTheRows` | same | `PartInv`: the groups so far, flattened, are the rows before the one at hand (`FlattenAppend` for a new group and for a longer last one) |
| `TablesCenterHeavy` | same | `LaneInv`: the lanes are made once, from a sorted sequence without duplicates that two indices fill from both ends (`LanesMade`); they stay while the page is open |
| `MarkersAreInLanes` | same | `MarkerInv` with `LaneInv`, `KnownInv` and `DrawnInv`: the tables of a statement and those its joins are drawn between have statistics, so they have a lane (`LaneFound`); joins may run ahead of tables only while a walk is under way |

Only model-checked: liveness (`CallsReturn`, `EventsConsidered`, `Reconnects`,
`WorkEnds`, `PageTellsConnection`, `PageTellsInflux`), for which the prover has no rules
of fairness. The four statements of section 5 are refuted by TLC and not
repeated here.

The conditions of some theorems are not for the prover's sake. Without them the
property is false and TLC shows it: two callers make an `add` fail, two
importing threads cross prefixes, a removal by key leaves the SQL count as it was.

## 7. Not modelled

* Configuration and factory: values are the constants, errors are the faults of
  Lifecycle.
* What Grafana answers. Of Influxdb a write succeeds or fails; the client's batching
  is left out, so that a success is a point that the client took, as the program
  counts it, and not one that has arrived.
* Pages and the other servlets: they read and render. What the detail page does
  to the directory is `OpenPage` and `Export`; `DynaTracePurePathServlet` is one
  more caller of `add` with an importer of its own.
* `webapp/js/tablecount.js`, which draws the time line with mxGraph: styles,
  folding and hovering. Its one call to the server is synchronous, and what can go
  wrong in it is in the list of hazards.
* The vendored JavaScript: jQuery, DataTables (three copies of each, with a
  Wicket wrapper under `src/datatables`), mxGraph and vkBeautify. These are nearly
  all of the repository's lines of JavaScript. They are third-party code which the
  program ships unchanged and uses through a few calls, so that the share of
  JavaScript lines that `map` names is small; the program's own logic is in Java, and its
  own JavaScript is `wuqispank.js` (modelled) and `tablecount.js`.
* The parsers, the watch service, the directory stream and the agent are
  external; they are modelled by what the code can observe of them.

## 8. Plan

Written in this order, the most important behaviour first: RequestRepository and
its abstraction, its proofs, ImportExport, RequestLoading, TableAccessTimeline,
their proofs; then SqlModel with StatementParse, Lifecycle with StatusPage, and
the proofs of both; then the proofs that need induction over data, and the
refinement. Next:

1. **Proofs**: the safety part of the liveness properties (what a stopped
   application never starts again, that an answer of the status page is true of
   the moment it was computed), and lemmas that make the assumptions of
   RequestLoading theorems about StatementParse.
2. **Composition**: the reports of Lifecycle as callers of RequestRepository, and
   the walks of RequestLoading derived from StatementParse.
3. **Row detail**: the click on a row of the time line, its number, and the
   statement that `SqlDetailRqServlet` finds by it.
