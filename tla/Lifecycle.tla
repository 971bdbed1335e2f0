----------------------------- MODULE Lifecycle -----------------------------
(***************************************************************************)
(* The life of the web application: the two listeners of web.xml start it  *)
(* (web/EventCollector.java, then                                          *)
(* influxdb/InfluxdbServletContextListener.java), three schedulers keep it *)
(* going (DefaultReconnector, DefaultExportDirListener, the health checks),*)
(* requests are handed to repository and Influxdb                          *)
(* (model/DefaultRequestManager.java), and EventCollector stops it.        *)
(*                                                                         *)
(* The servlet container, the agent and its network are external.  A step  *)
(* of the container is what it does up to the next point where another     *)
(* thread can see the difference.                                          *)
(***************************************************************************)
EXTENDS Naturals, Sequences, FiniteSets

CONSTANTS
  Requests,
  SqlCount,     \* [Requests -> Nat], how many statements a request has
  Faults        \* which of the things that can be wrong at start-up are tried

\* What can be wrong, "none" included, in the order in which it shows.
AllFaults ==
  {"none", "repository", "agent", "provider", "reconnect interval", "export dir", "listener interval",
   "grafana", "health interval", "influx user", "influx host"}

ASSUME SqlCountAssumption == SqlCount \in [Requests -> Nat]

ASSUME FaultAssumption == Faults \subseteq AllFaults

Pools   == {"reconnector", "listener", "health"}
Checks  == {"intrace", "grafana", "influx"}
Targets == {"collector", "influx"}

Stages ==
  {"register", "repository", "connection", "reconnector", "listener", "health", "import",
   "register influx", "check influx", "serving",
   "stop health", "stop listener", "stop reconnector", "disconnect", "stopped", "stop failed", "abandoned"}

VARIABLES
  fault,        \* what is wrong in this run
  stage,        \* what the container's thread does next
  thrown,       \* contextInitialized() of a listener has thrown
  pool,         \* of a scheduler: "none", "idle" (no task), "scheduled", "dead" or "shut"
  connections,  \* the size of DefaultConnectionList
  conn,         \* the connection: "down", "up", or "stale": broken and isConnected() still true
  agentUp,      \* the agent can be reached
  recon,        \* the reconnector's run: "waiting" or "connecting"
  late,         \* history: that run was under way when its scheduler was shut down
  registry,     \* the registered health checks
  health,       \* the checks that a run has collected, {} between runs
  results,      \* the checks whose results are published
  listeners,    \* of the request manager
  going,        \* [Requests -> Seq(Targets)], who is still to be told of a request
  reported,     \* requests that were reported
  early,        \* history: those of them reported before Influxdb was registered
  stored,       \* requests that were added to the repository
  successes,    \* successCount, by request
  failures      \* failureCount, by request

container == <<fault, stage, thrown, pool, connections>>
link      == <<conn, agentUp, recon, late>>
checks    == <<registry, health, results>>
writes    == <<successes, failures>>
fanout    == <<going, reported, early, stored, writes>>
vars      == <<container, link, checks, listeners, fanout>>

TypeOK ==
  /\ fault \in Faults /\ stage \in Stages /\ thrown \in BOOLEAN
  /\ pool \in [Pools -> {"none", "idle", "scheduled", "dead", "shut"}]
  /\ connections \in {0, 1}
  /\ conn \in {"down", "up", "stale"} /\ agentUp \in BOOLEAN
  /\ recon \in {"waiting", "connecting"} /\ late \in BOOLEAN
  /\ health \subseteq registry /\ results \subseteq registry /\ registry \subseteq Checks
  /\ listeners \in Seq(Targets)
  /\ going \in [Requests -> Seq(Targets)]
  /\ early \subseteq reported /\ reported \subseteq Requests /\ stored \subseteq Requests
  /\ successes \in [Requests -> Nat] /\ failures \in [Requests -> Nat]

Init ==
  /\ fault \in Faults
  /\ stage = "register" /\ thrown = FALSE
  /\ pool = [p \in Pools |-> "none"]
  /\ connections = 0 /\ conn = "down" /\ agentUp \in BOOLEAN
  /\ recon = "waiting" /\ late = FALSE
  /\ registry = {} /\ health = {} /\ results = {}
  /\ listeners = <<>>
  /\ going = [r \in Requests |-> <<>>]
  /\ reported = {} /\ early = {} /\ stored = {}
  /\ successes = [r \in Requests |-> 0] /\ failures = [r \in Requests |-> 0]

----------------------------------------------------------------------------
(* Starting: EventCollector.contextInitialized()                           *)

\* A web.xml error is no exception that the method catches.  The container may
\* go on to the next listener, may stop the application, or forget it.
Escape == stage' \in {"register influx", "stop health", "abandoned"} /\ thrown' = TRUE

Proceed(next) == stage' = next /\ UNCHANGED thrown

\* registerListener() appends.
Registered(target) == Append(listeners, target)

Register ==
  /\ stage = "register"
  /\ listeners' = Registered("collector")
  /\ Proceed("repository")
  /\ UNCHANGED <<fault, pool, connections, link, checks, fanout>>

\* Configuration, createRepo() and the import/export manager.
Repository ==
  /\ stage = "repository"
  /\ IF fault = "repository" THEN Escape ELSE Proceed("connection")
  /\ UNCHANGED <<fault, pool, connections, link, checks, listeners, fanout>>

\* mutant: the provider's error is logged and the start goes on.
ConnectionLogged ==
  /\ stage = "connection"
  /\ CASE fault = "agent"    -> Escape /\ UNCHANGED connections
       [] fault = "provider" -> Proceed("reconnector") /\ UNCHANGED connections
       [] OTHER              -> Proceed("reconnector") /\ connections' = connections + 1
  /\ UNCHANGED <<fault, pool, link, checks, listeners, fanout>>

\* getRequestConnection(): the provider's error is wrapped and caught, and the
\* rest of the start is left out, but for the import.
Connection ==
  /\ stage = "connection"
  /\ CASE fault = "agent"    -> Escape /\ UNCHANGED connections
       [] fault = "provider" -> Proceed("import") /\ UNCHANGED connections
       [] OTHER              -> Proceed("reconnector") /\ connections' = connections + 1
  /\ UNCHANGED <<fault, pool, link, checks, listeners, fanout>>

\* A scheduler is made before the interval of its task is read.
Schedule(p, bad, next) ==
  IF fault = bad THEN pool' = [pool EXCEPT ![p] = "idle"] /\ Escape
  ELSE pool' = [pool EXCEPT ![p] = "scheduled"] /\ Proceed(next)

initReconnector ==
  /\ stage = "reconnector"
  /\ Schedule("reconnector", "reconnect interval", "listener")
  /\ UNCHANGED <<fault, connections, link, checks, listeners, fanout>>

\* The IOException of a directory that cannot be watched is caught, and the
\* health checks are left out.
initExportDirListener ==
  /\ stage = "listener"
  /\ IF fault = "export dir" THEN pool' = [pool EXCEPT !["listener"] = "idle"] /\ Proceed("import")
     ELSE Schedule("listener", "listener interval", "health")
  /\ UNCHANGED <<fault, connections, link, checks, listeners, fanout>>

\* The InTrace check is registered before Grafana's address is read.
initHealthChecks ==
  /\ stage = "health"
  /\ IF fault = "grafana"
     THEN Escape /\ registry' = registry \cup {"intrace"} /\ UNCHANGED pool
     ELSE registry' = registry \cup {"intrace", "grafana"} /\ Schedule("health", "health interval", "import")
  /\ UNCHANGED <<fault, connections, link, health, results, listeners, fanout>>

\* importAtSystemStartup(), whose exceptions are caught; ImportExport has it.
Import ==
  /\ stage = "import"
  /\ Proceed("register influx")
  /\ UNCHANGED <<fault, pool, connections, link, checks, listeners, fanout>>

\* Without user, password or address, initInfluxdb() makes no client.
hasClient == fault \notin {"influx user", "influx host"}

\* InfluxdbServletContextListener.contextInitialized(): initInfluxdb() throws
\* nothing, whatever is wrong, and is not called again.
RegisterInflux ==
  /\ stage = "register influx"
  /\ listeners' = Registered("influx")
  /\ Proceed("check influx")
  /\ UNCHANGED <<fault, pool, connections, link, checks, fanout>>

\* The host is read again for the check, and now its error escapes.  An
\* application of which a listener has thrown is never served.
CheckInflux ==
  /\ stage = "check influx"
  /\ LET bad == fault = "influx host" IN
       /\ registry' = IF bad THEN registry ELSE registry \cup {"influx"}
       /\ thrown' = (thrown \/ bad)
       /\ stage' \in IF thrown' THEN {"stop health", "abandoned"} ELSE {"serving"}
  /\ UNCHANGED <<fault, pool, connections, link, health, results, listeners, fanout>>

----------------------------------------------------------------------------
(* Stopping: EventCollector.contextDestroyed()                             *)

Stop ==
  /\ stage = "serving"
  /\ stage' = "stop health"
  /\ UNCHANGED <<fault, thrown, pool, connections, link, checks, listeners, fanout>>

\* mutant: a scheduler goes on with its task.
ShutLater(p) == [pool EXCEPT ![p] = IF @ = "scheduled" THEN @ ELSE "shut"]

\* ScheduledExecutorService.shutdown(): no run starts any more; one that is
\* under way goes on.
Shut(p) == [pool EXCEPT ![p] = "shut"]

StopStage == [health |-> "stop health", listener |-> "stop listener", reconnector |-> "stop reconnector"]

\* mutant: the listener's scheduler is forgotten.
NextStopForgets == [health |-> "stop reconnector", listener |-> "stop reconnector", reconnector |-> "disconnect"]

NextStop == [health |-> "stop listener", listener |-> "stop reconnector", reconnector |-> "disconnect"]

\* Without a scheduler, a NullPointerException ends the method.
StopPool(p) ==
  /\ stage = StopStage[p]
  /\ IF pool[p] = "none" THEN stage' = "stop failed" /\ UNCHANGED pool
     ELSE stage' = NextStop[p] /\ pool' = Shut(p)
  /\ late' = (late \/ (p = "reconnector" /\ recon = "connecting"))
  /\ UNCHANGED <<fault, thrown, connections, conn, agentUp, recon, checks, listeners, fanout>>

\* mutant: that there is a connection is enough.
isListed == connections = 1

isConnected == conn # "down"

disconnectAll ==
  /\ stage = "disconnect"
  /\ conn' = "down"
  /\ stage' = "stopped"
  /\ UNCHANGED <<fault, thrown, pool, connections, agentUp, recon, late, checks, listeners, fanout>>

----------------------------------------------------------------------------
(* The schedulers' threads                                                 *)

\* DefaultReconnector.run(), line 25
ReconnectorRuns ==
  /\ pool["reconnector"] = "scheduled" /\ recon = "waiting"
  /\ connections = 1 /\ ~isConnected
  /\ recon' = "connecting"
  /\ UNCHANGED <<container, conn, agentUp, late, checks, listeners, fanout>>

\* mutant: a connection is added instead of being connected again.
connectAnew ==
  /\ recon = "connecting"
  /\ conn' = IF conn = "down" /\ agentUp THEN "up" ELSE conn
  /\ connections' = connections + 1
  /\ recon' = "waiting"
  /\ UNCHANGED <<fault, stage, thrown, pool, agentUp, late, checks, listeners, fanout>>

\* It looks again, and the exceptions of a connection that fails are caught.
connect ==
  /\ recon = "connecting"
  /\ conn' = IF conn = "down" /\ agentUp THEN "up" ELSE conn
  /\ recon' = "waiting"
  /\ UNCHANGED <<container, agentUp, late, checks, listeners, fanout>>

\* Without exactly one connection the InTrace check returns null, which throws
\* when the results are converted; a task that has thrown is not run again.
HealthRuns ==
  /\ pool["health"] = "scheduled" /\ health = {}
  /\ IF connections = 1 THEN health' = registry /\ UNCHANGED pool
     ELSE pool' = [pool EXCEPT !["health"] = "dead"] /\ UNCHANGED health
  /\ UNCHANGED <<fault, stage, thrown, connections, link, registry, results, listeners, fanout>>

\* mutant: the first results stay.
setResultsOnce ==
  /\ health # {}
  /\ results' = IF results = {} THEN health ELSE results
  /\ health' = {}
  /\ UNCHANGED <<container, link, registry, listeners, fanout>>

setHealthCheckResults ==
  /\ health # {}
  /\ results' = health
  /\ health' = {}
  /\ UNCHANGED <<container, link, registry, listeners, fanout>>

----------------------------------------------------------------------------
(* Requests                                                                *)

\* requestCompleted(): CopyOnWriteArrayList iterates over those of this moment.
requestCompleted(r) ==
  /\ conn = "up" /\ r \notin reported \cup stored
  /\ reported' = reported \cup {r}
  /\ going' = [going EXCEPT ![r] = listeners]
  /\ early' = IF \E n \in 1 .. Len(listeners) : listeners[n] = "influx" THEN early ELSE early \cup {r}
  /\ UNCHANGED <<container, link, checks, listeners, stored, writes>>

Telling(r, target) == going[r] # <<>> /\ Head(going[r]) = target

\* EventCollector.add(): a refused request is not passed on.
addToRepo(r) ==
  /\ Telling(r, "collector")
  /\ \/ stored' = stored \cup {r} /\ going' = [going EXCEPT ![r] = Tail(@)]
     \/ stored' = stored /\ going' = [going EXCEPT ![r] = <<>>]
  /\ UNCHANGED <<container, link, checks, listeners, reported, early, writes>>

\* The importers add to the repository alone: at the start, and in the listener's
\* thread, which the shutdown does not end.
importRq(r) ==
  /\ stage = "import" \/ pool["listener"] \in {"scheduled", "shut"}
  /\ r \notin reported
  /\ stored' = stored \cup {r}
  /\ UNCHANGED <<container, link, checks, listeners, going, reported, early, writes>>

Counted(r) == successes[r] + failures[r]

\* A statement's point is handed to the client, which writes it or keeps it for a
\* batch.
Succeeds(r) == successes' = [successes EXCEPT ![r] = @ + 1] /\ UNCHANGED failures

Fails(r) == failures' = [failures EXCEPT ![r] = @ + 1] /\ UNCHANGED successes

\* mutant: a write that fails ends the loop over the statements.
writeFailsOnce(r) ==
  /\ Telling(r, "influx") /\ Counted(r) < SqlCount[r]
  /\ \/ hasClient /\ Succeeds(r) /\ UNCHANGED going
     \/ Fails(r) /\ going' = [going EXCEPT ![r] = Tail(@)]
  /\ UNCHANGED <<container, link, checks, listeners, reported, early, stored>>

\* A write fails without a client, with an Influxdb that is down or lacks the
\* database, and with a statement without a model: it is counted, not thrown.
writeSqlMetric(r) ==
  /\ Telling(r, "influx") /\ Counted(r) < SqlCount[r]
  /\ (hasClient /\ Succeeds(r)) \/ Fails(r)
  /\ UNCHANGED <<container, link, checks, listeners, going, reported, early, stored>>

\* DefaultInfluxdbWriter.add() returns.
Written(r) ==
  /\ Telling(r, "influx") /\ Counted(r) = SqlCount[r]
  /\ going' = [going EXCEPT ![r] = Tail(@)]
  /\ UNCHANGED <<container, link, checks, listeners, reported, early, stored, writes>>

----------------------------------------------------------------------------
(* The agent and its network (external)                                    *)

AgentGoes ==
  /\ agentUp
  /\ agentUp' = FALSE
  /\ conn' = IF conn = "up" THEN "stale" ELSE conn
  /\ UNCHANGED <<container, recon, late, checks, listeners, fanout>>

AgentComes ==
  /\ ~agentUp
  /\ agentUp' = TRUE
  /\ UNCHANGED <<container, conn, recon, late, checks, listeners, fanout>>

\* The client's reader thread finds the socket closed.
BreakNoticed ==
  /\ conn = "stale"
  /\ conn' = "down"
  /\ UNCHANGED <<container, agentUp, recon, late, checks, listeners, fanout>>

----------------------------------------------------------------------------
Starting ==
  \/ Register \/ Repository \/ Connection \/ initReconnector \/ initExportDirListener
  \/ initHealthChecks \/ Import \/ RegisterInflux \/ CheckInflux

Stopping == (\E p \in Pools : StopPool(p)) \/ disconnectAll

Working == ReconnectorRuns \/ connect \/ HealthRuns \/ setHealthCheckResults

Reporting ==
  \E r \in Requests : requestCompleted(r) \/ addToRepo(r) \/ importRq(r) \/ writeSqlMetric(r) \/ Written(r)

Next == Starting \/ Stop \/ Stopping \/ Working \/ Reporting \/ AgentGoes \/ AgentComes \/ BreakNoticed

Spec == Init /\ [][Next]_vars

\* The container's thread and the threads of the schedulers go on, and a broken
\* socket is noticed.  Nobody needs to stop the application, and the agent comes
\* and goes as it likes.
Fairness ==
  /\ WF_vars(Starting \/ Stopping)
  /\ WF_vars(ReconnectorRuns \/ connect)
  /\ WF_vars(HealthRuns \/ setHealthCheckResults)
  /\ WF_vars(BreakNoticed)

FairSpec == Spec /\ Fairness

----------------------------------------------------------------------------
(* Properties                                                              *)

\* contextDestroyed() stops everything or nothing: whatever goes wrong at the
\* start, the scheduler that is missing is the one that is shut down first, so
\* the exception never leaves the application half stopped (lines 203-205
\* against lines 87-90).
StopsAllOrNothing ==
  /\ stage = "stop failed" => \A p \in Pools : pool[p] # "shut"
  /\ stage = "stopped" => \A p \in Pools : pool[p] \in {"none", "shut"}

\* A connection is only left open after the stop by a run of the reconnector
\* that was under way at the shutdown: it looked before disconnectAll() and
\* connects after it (DefaultReconnector lines 25-49, EventCollector 89-90).
QuietAfterStop == stage = "stopped" /\ isConnected => late

\* The task of the health checks never dies: when it first runs there is the one
\* connection that the InTrace check insists on (DefaultInTraceHealthCheck
\* lines 45-51 and 82-86, against the order of lines 197 and 205).
HealthTaskAlive == pool["health"] # "dead"

\* The writes that the status page tells of, succeeded and failed, are those of the
\* statements of the requests that the repository took after Influxdb had been
\* registered: none for a request that was refused, imported or reported too
\* early, none lost to a write that failed before it (DefaultRequestManager line
\* 18, DefaultInfluxdbWriter lines 108 and 134).
WritesAddUp ==
  \A r \in Requests :
    /\ Counted(r) > 0 => r \in (stored \cap reported) \ early
    /\ r \in reported \ early /\ going[r] = <<>> => Counted(r) = IF r \in stored THEN SqlCount[r] ELSE 0

\* While the application serves and the agent stays up, the connection comes back
\* and stays, however often it broke before (DefaultReconnector.run()).
Reconnects ==
  <>[](stage = "serving" /\ agentUp /\ pool["reconnector"] = "scheduled") => <>[](conn = "up")

\* After contextDestroyed() has gone through, reconnector and health checks come
\* to rest for good; the listener's thread stays in take().
WorkEnds == (stage = "stopped") ~> [](recon = "waiting" /\ health = {})

============================================================================
