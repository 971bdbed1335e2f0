-------------------------- MODULE LifecycleProofs --------------------------
(***************************************************************************)
(* Starting and stopping of the application, for every set of requests and *)
(* every selection of the things that can be wrong.                        *)
(***************************************************************************)
EXTENDS Lifecycle, SequenceTheorems, TLAPS

\* Nothing is made before there is a connection, and no scheduler has a task
\* without one.
ConnectedFirst ==
  /\ stage \in {"register", "repository", "connection"} =>
       connections = 0 /\ \A p \in Pools : pool[p] = "none"
  /\ stage \in {"reconnector", "listener", "health"} => connections = 1
  /\ \A p \in Pools : pool[p] = "scheduled" => connections = 1
  /\ HealthTaskAlive

\* The order in which schedulers are made, and in which they are shut down.
InOrder ==
  /\ stage = "listener" => pool["reconnector"] # "none"
  /\ stage = "health" => pool["listener"] # "none"
  /\ pool["health"] # "none" => pool["listener"] # "none"
  /\ pool["listener"] # "none" => pool["reconnector"] # "none"
  /\ stage \in {"stop listener", "stop reconnector", "disconnect", "stopped"} => pool["health"] = "shut"
  /\ stage \in {"stop reconnector", "disconnect", "stopped"} => pool["listener"] = "shut"
  /\ stage \in {"disconnect", "stopped"} => pool["reconnector"] = "shut"
  /\ stage \notin {"stop listener", "stop reconnector", "disconnect", "stopped"} =>
       \A p \in Pools : pool[p] # "shut"

\* The run that connects again although its scheduler is shut down.
LateRun ==
  /\ stage \in {"disconnect", "stopped"} /\ recon = "connecting" => late
  /\ QuietAfterStop

Both == <<"collector", "influx">>

\* What a request has behind it and before it, by those who are still to be told.
Told(r) ==
  /\ r \notin reported => going[r] = <<>> /\ Counted(r) = 0
  /\ r \in early => going[r] \in {<<>>, <<"collector">>} /\ Counted(r) = 0
  /\ r \in reported \ early =>
       \/ going[r] = Both /\ r \notin stored /\ Counted(r) = 0
       \/ going[r] = <<"influx">> /\ r \in stored
       \/ going[r] = <<>> /\ Counted(r) = IF r \in stored THEN SqlCount[r] ELSE 0

ToldInOrder ==
  /\ stage = "register" => listeners = <<>>
  /\ stage \in {"repository", "connection", "reconnector", "listener", "health", "import", "register influx"} =>
       listeners = <<"collector">>
  /\ listeners \in {<<>>, <<"collector">>, Both}
  /\ \A r \in Requests : Told(r)

IInv == TypeOK /\ ConnectedFirst /\ InOrder /\ LateRun /\ ToldInOrder

----------------------------------------------------------------------------
(* The types                                                               *)

LEMMA InitInv == Init => IInv
<1> SUFFICES ASSUME Init
             PROVE  IInv
  OBVIOUS
<1> USE DEF Init
<1>1. TypeOK
  <2>1. <<>> \in Seq(Targets)
    OBVIOUS
  <2> QED
    BY <2>1 DEF TypeOK, Stages
<1>2. ConnectedFirst /\ InOrder /\ LateRun
  BY DEF ConnectedFirst, HealthTaskAlive, InOrder, LateRun, QuietAfterStop, isConnected, Pools
<1>3. ToldInOrder
  <2>1. \A r \in Requests : Counted(r) = 0
    BY DEF Counted
  <2> QED
    BY <2>1 DEF ToldInOrder, Told
<1> QED
  BY <1>1, <1>2, <1>3 DEF IInv

(* The container stops the schedulers in this order.                        *)
LEMMA StopOrder ==
  ASSUME Stopping
  PROVE  \/ stage = "stop health" /\ StopPool("health") /\ stage' \in {"stop failed", "stop listener"}
         \/ stage = "stop listener" /\ StopPool("listener") /\ stage' \in {"stop failed", "stop reconnector"}
         \/ stage = "stop reconnector" /\ StopPool("reconnector") /\ stage' \in {"stop failed", "disconnect"}
         \/ stage = "disconnect" /\ disconnectAll /\ stage' = "stopped"
<1>1. /\ StopStage["health"] = "stop health" /\ NextStop["health"] = "stop listener"
      /\ StopStage["listener"] = "stop listener" /\ NextStop["listener"] = "stop reconnector"
      /\ StopStage["reconnector"] = "stop reconnector" /\ NextStop["reconnector"] = "disconnect"
  BY DEF StopStage, NextStop
<1>2. ASSUME NEW p \in Pools, StopPool(p)
      PROVE  stage = StopStage[p] /\ stage' \in {"stop failed", NextStop[p]}
  BY <1>2 DEF StopPool
<1>3. CASE StopPool("health") \/ StopPool("listener") \/ StopPool("reconnector")
  BY <1>1, <1>2, <1>3 DEF Pools
<1>4. CASE disconnectAll
  BY <1>4 DEF disconnectAll
<1> QED
  BY <1>3, <1>4 DEF Stopping, Pools

(* The short sequences of listeners.                                        *)
LEMMA ListenerSeqs ==
  /\ Append(<<>>, "collector") = <<"collector">>
  /\ Append(<<"collector">>, "influx") = Both
  /\ Head(Both) = "collector" /\ Tail(Both) = <<"influx">>
  /\ Head(<<"collector">>) = "collector" /\ Tail(<<"collector">>) = <<>>
  /\ Head(<<"influx">>) = "influx" /\ Tail(<<"influx">>) = <<>>
  /\ Both # <<>> /\ <<"collector">> # <<>> /\ <<"influx">> # <<>>
  /\ {<<>>, <<"collector">>, <<"influx">>, Both} \subseteq Seq(Targets)
<1>1. "collector" \in Targets /\ "influx" \in Targets
  BY DEF Targets
<1>2. <<>> \in Seq(Targets) /\ <<"collector">> \in Seq(Targets) /\ <<"influx">> \in Seq(Targets)
  BY <1>1
<1>3. Both \in Seq(Targets)
  BY <1>1 DEF Both
<1>4. Append(<<>>, "collector") = <<"collector">>
  OBVIOUS
<1>5. Append(<<"collector">>, "influx") = Both
  <2> DEFINE A == Append(<<"collector">>, "influx")
  <2>1. /\ A \in Seq(Targets) /\ Len(A) = Len(<<"collector">>) + 1
        /\ A[1] = "collector" /\ A[2] = "influx"
    BY <1>1, <1>2, AppendProperties
  <2>2. Len(Both) = 2 /\ Both[1] = "collector" /\ Both[2] = "influx"
    BY DEF Both
  <2>3. Len(A) = 2
    BY <2>1
  <2> HIDE DEF A
  <2>4. \A n \in 1 .. 2 : A[n] = Both[n]
    BY <2>1, <2>2
  <2> QED
    BY <1>3, <2>1, <2>2, <2>3, <2>4, SeqEqual DEF A
<1>6. Head(Both) = "collector" /\ Tail(Both) = <<"influx">> /\ Both # <<>>
  BY DEF Both
<1>7. /\ Head(<<"collector">>) = "collector" /\ Tail(<<"collector">>) = <<>> /\ <<"collector">> # <<>>
      /\ Head(<<"influx">>) = "influx" /\ Tail(<<"influx">>) = <<>> /\ <<"influx">> # <<>>
  OBVIOUS
<1> QED
  BY <1>2, <1>3, <1>4, <1>5, <1>6, <1>7

(* What comes of the connection at the start.                               *)
LEMMA ConnectionStep ==
  ASSUME Connection, ConnectedFirst
  PROVE  /\ stage = "connection" /\ UNCHANGED <<fault, pool>>
         /\ thrown' \in {thrown, TRUE}
         /\ \/ stage' = "reconnector" /\ connections' = 1
            \/ /\ stage' \in {"import", "register influx", "stop health", "abandoned"}
               /\ UNCHANGED connections
<1>1. CASE fault = "agent"
  BY <1>1 DEF Connection, Escape
<1>2. CASE fault = "provider"
  BY <1>2 DEF Connection, Proceed
<1>3. CASE fault \notin {"agent", "provider"}
  <2>1. connections = 0 /\ connections' = connections + 1
    BY <1>3 DEF Connection, ConnectedFirst
  <2>2. 0 + 1 = 1
    OBVIOUS
  <2>3. connections' = 1
    BY <2>1, <2>2, Zenon
  <2> QED
    BY <1>3, <2>3 DEF Connection, Proceed
<1> QED
  BY <1>1, <1>2, <1>3

LEMMA TypeStep ==
  ASSUME IInv, [Next]_vars
  PROVE  TypeOK'
<1> USE DEF IInv, TypeOK, container, link, checks, fanout, writes
<1>1. CASE Starting
  <2>1. CASE Register \/ RegisterInflux
    BY <2>1, ListenerSeqs DEF Register, RegisterInflux, Registered, Proceed, Stages, ToldInOrder
  <2>2. CASE Repository \/ Import
    BY <2>2 DEF Repository, Import, Escape, Proceed, Stages
  <2>3. CASE Connection
    <3>1. connections' \in {0, 1}
      BY <2>3, ConnectionStep DEF ConnectedFirst
    <3> QED
      BY <2>3, <3>1, ConnectionStep DEF Connection, Stages
  <2>4. CASE initReconnector \/ initExportDirListener
    BY <2>4 DEF initReconnector, initExportDirListener, Schedule, Escape, Proceed, Stages, Pools
  <2>5. CASE initHealthChecks
    BY <2>5 DEF initHealthChecks, Schedule, Escape, Proceed, Stages, Pools, Checks
  <2>6. CASE CheckInflux
    BY <2>6 DEF CheckInflux, Stages, Checks
  <2> QED
    BY <1>1, <2>1, <2>2, <2>3, <2>4, <2>5, <2>6 DEF Starting
<1>2. CASE Stop \/ Stopping
  <2>1. CASE Stop
    BY <2>1 DEF Stop, Stages
  <2>2. ASSUME NEW p \in Pools, StopPool(p)
        PROVE  TypeOK'
    <3>1. stage' \in Stages
      BY <2>2, StopOrder DEF Stopping, Stages
    <3> QED
      BY <2>2, <3>1 DEF StopPool, Shut
  <2>3. CASE disconnectAll
    BY <2>3 DEF disconnectAll, Stages
  <2> QED
    BY <1>2, <2>1, <2>2, <2>3 DEF Stopping
<1>3. CASE Working
  BY <1>3 DEF Working, ReconnectorRuns, connect, HealthRuns, setHealthCheckResults
<1>4. CASE Reporting
  <2>1. PICK r \in Requests :
          requestCompleted(r) \/ addToRepo(r) \/ importRq(r) \/ writeSqlMetric(r) \/ Written(r)
    BY <1>4 DEF Reporting
  <2>2. CASE requestCompleted(r)
    BY <2>2 DEF requestCompleted
  <2>3. going[r] # <<>> => Tail(going[r]) \in Seq(Targets)
    OBVIOUS
  <2>4. CASE addToRepo(r) \/ Written(r)
    <3>1. going' \in [Requests -> Seq(Targets)]
      BY <2>3, <2>4, ListenerSeqs DEF addToRepo, Written, Telling
    <3> QED
      BY <2>4, <3>1 DEF addToRepo, Written
  <2>5. CASE importRq(r)
    BY <2>5 DEF importRq
  <2>6. CASE writeSqlMetric(r)
    <3>1. successes[r] + 1 \in Nat /\ failures[r] + 1 \in Nat
      OBVIOUS
    <3>2. successes' \in [Requests -> Nat] /\ failures' \in [Requests -> Nat]
      BY <2>6, <3>1 DEF writeSqlMetric, Succeeds, Fails
    <3> QED
      BY <2>6, <3>2 DEF writeSqlMetric
  <2> QED
    BY <2>1, <2>2, <2>4, <2>5, <2>6
<1>5. CASE AgentGoes \/ AgentComes \/ BreakNoticed
  BY <1>5 DEF AgentGoes, AgentComes, BreakNoticed
<1>6. CASE UNCHANGED vars
  BY <1>6 DEF vars
<1> QED
  BY <1>1, <1>2, <1>3, <1>4, <1>5, <1>6 DEF Next

----------------------------------------------------------------------------
(* Schedulers                                                              *)

(* Only the container, and a task that throws, touch the schedulers.        *)
LEMMA PoolStep ==
  ASSUME IInv, [Next]_vars
  PROVE  ConnectedFirst' /\ InOrder'
<1> USE DEF IInv, ConnectedFirst, InOrder, HealthTaskAlive, container, link
<1>1. pool \in [Pools -> {"none", "idle", "scheduled", "dead", "shut"}]
  BY DEF TypeOK
<1>2. CASE Starting
  <2>1. CASE Register \/ RegisterInflux
    BY <2>1 DEF Register, RegisterInflux, Proceed
  <2>2. CASE Repository \/ Import
    BY <2>2 DEF Repository, Import, Escape, Proceed
  <2>3. CASE Connection
    BY <2>3, ConnectionStep
  <2>4. CASE initReconnector
    BY <1>1, <2>4 DEF initReconnector, Schedule, Escape, Proceed, Pools
  <2>5. CASE initExportDirListener
    BY <1>1, <2>5 DEF initExportDirListener, Schedule, Escape, Proceed, Pools
  <2>6. CASE initHealthChecks
    BY <1>1, <2>6 DEF initHealthChecks, Schedule, Escape, Proceed, Pools
  <2>7. CASE CheckInflux
    BY <2>7 DEF CheckInflux
  <2> QED
    BY <1>2, <2>1, <2>2, <2>3, <2>4, <2>5, <2>6, <2>7 DEF Starting
<1>3. CASE Stop
  BY <1>3 DEF Stop
<1>4. CASE Stopping
  <2>1. CASE stage = "stop health" /\ StopPool("health") /\ stage' \in {"stop failed", "stop listener"}
    BY <1>1, <2>1 DEF StopPool, NextStop, Shut, Pools
  <2>2. CASE stage = "stop listener" /\ StopPool("listener") /\ stage' \in {"stop failed", "stop reconnector"}
    BY <1>1, <2>2 DEF StopPool, NextStop, Shut, Pools
  <2>3. CASE stage = "stop reconnector" /\ StopPool("reconnector") /\ stage' \in {"stop failed", "disconnect"}
    BY <1>1, <2>3 DEF StopPool, NextStop, Shut, Pools
  <2>4. CASE stage = "disconnect" /\ disconnectAll
    BY <2>4 DEF disconnectAll
  <2> QED
    BY <1>4, <2>1, <2>2, <2>3, <2>4, StopOrder
<1>5. CASE HealthRuns
  BY <1>1, <1>5 DEF HealthRuns, Pools
<1>6. CASE ReconnectorRuns \/ connect \/ setHealthCheckResults
  BY <1>6 DEF ReconnectorRuns, connect, setHealthCheckResults
<1>7. CASE Reporting
  BY <1>7 DEF Reporting, requestCompleted, addToRepo, importRq, writeSqlMetric, Written
<1>8. CASE AgentGoes \/ AgentComes \/ BreakNoticed
  BY <1>8 DEF AgentGoes, AgentComes, BreakNoticed
<1>9. CASE UNCHANGED vars
  BY <1>9 DEF vars
<1> QED
  BY <1>2, <1>3, <1>4, <1>5, <1>6, <1>7, <1>8, <1>9 DEF Next, Working

(* A run that starts finds its scheduler at work, so that the application is *)
(* not at disconnectAll() yet.                                               *)
LEMMA LateStep ==
  ASSUME IInv, [Next]_vars
  PROVE  LateRun'
<1> USE DEF IInv, LateRun, QuietAfterStop, isConnected, container, link
<1>1. CASE Starting \/ Stop
  BY <1>1 DEF Starting, Register, Repository, Connection, initReconnector, initExportDirListener, initHealthChecks,
              Import, RegisterInflux, CheckInflux, Schedule, Escape, Proceed, Stop
<1>2. CASE Stopping
  BY <1>2, StopOrder DEF StopPool, disconnectAll
<1>3. CASE ReconnectorRuns
  BY <1>3 DEF ReconnectorRuns, InOrder
<1>4. CASE connect \/ HealthRuns \/ setHealthCheckResults
  BY <1>4 DEF connect, HealthRuns, setHealthCheckResults
<1>5. CASE Reporting
  BY <1>5 DEF Reporting, requestCompleted, addToRepo, importRq, writeSqlMetric, Written
<1>6. CASE AgentGoes \/ AgentComes \/ BreakNoticed
  BY <1>6 DEF AgentGoes, AgentComes, BreakNoticed
<1>7. CASE UNCHANGED vars
  BY <1>7 DEF vars
<1> QED
  BY <1>1, <1>2, <1>3, <1>4, <1>5, <1>6, <1>7 DEF Next, Working

----------------------------------------------------------------------------
(* Requests                                                                *)

(* The listeners of the container's steps.                                  *)
LEMMA ListenersStep ==
  ASSUME IInv, [Next]_vars
  PROVE  /\ stage' = "register" => listeners' = <<>>
         /\ stage' \in {"repository", "connection", "reconnector", "listener", "health", "import", "register influx"} =>
              listeners' = <<"collector">>
         /\ listeners' \in {<<>>, <<"collector">>, Both}
<1> USE DEF IInv, ToldInOrder, container
<1>1. CASE Register \/ RegisterInflux
  BY <1>1, ListenerSeqs DEF Register, RegisterInflux, Registered, Proceed
<1>2. CASE Starting /\ ~Register /\ ~RegisterInflux
  BY <1>2 DEF Starting, Repository, Connection, initReconnector, initExportDirListener, initHealthChecks,
              Import, CheckInflux, Schedule, Escape, Proceed
<1>3. CASE Stop \/ Stopping
  BY <1>3, StopOrder DEF Stop, StopPool, disconnectAll
<1>4. CASE Working
  BY <1>4 DEF Working, ReconnectorRuns, connect, HealthRuns, setHealthCheckResults
<1>5. CASE Reporting
  BY <1>5 DEF Reporting, requestCompleted, addToRepo, importRq, writeSqlMetric, Written
<1>6. CASE AgentGoes \/ AgentComes \/ BreakNoticed
  BY <1>6 DEF AgentGoes, AgentComes, BreakNoticed
<1>7. CASE UNCHANGED vars
  BY <1>7 DEF vars
<1> QED
  BY <1>1, <1>2, <1>3, <1>4, <1>5, <1>6, <1>7 DEF Next

(* A step that leaves a request alone.                                      *)
LEMMA ToldStays ==
  ASSUME NEW r, Told(r), going'[r] = going[r], r \in reported' <=> r \in reported, r \in early' <=> r \in early,
         r \in reported => (r \in stored' <=> r \in stored),
         successes'[r] = successes[r], failures'[r] = failures[r], early \subseteq reported
  PROVE  Told(r)'
  BY DEF Told, Counted

LEMMA ToldStep ==
  ASSUME IInv, [Next]_vars
  PROVE  \A r \in Requests : Told(r)'
<1>1. CASE Reporting
  <2>1. PICK q \in Requests :
          requestCompleted(q) \/ addToRepo(q) \/ importRq(q) \/ writeSqlMetric(q) \/ Written(q)
    BY <1>1 DEF Reporting
  <2>2. /\ going \in [Requests -> Seq(Targets)] /\ early \subseteq reported /\ Told(q)
        /\ successes \in [Requests -> Nat] /\ failures \in [Requests -> Nat]
    BY DEF IInv, TypeOK, ToldInOrder
  <2>3. Told(q)'
    <3>1. CASE requestCompleted(q)
      <4>1. listeners \in {<<>>, <<"collector">>, Both}
        BY DEF IInv, ToldInOrder
      <4>2. (\E n \in 1 .. Len(listeners) : listeners[n] = "influx") <=> listeners = Both
        BY <4>1 DEF Both
      <4>3. going'[q] = listeners /\ q \in reported' /\ stored' = stored /\ q \notin stored
        BY <2>2, <3>1 DEF requestCompleted
      <4>4. q \in early' <=> listeners # Both
        BY <2>2, <3>1, <4>1, <4>2 DEF requestCompleted
      <4>5. Counted(q) = 0 /\ Counted(q)' = Counted(q)
        BY <2>2, <3>1 DEF Told, requestCompleted, Counted, writes
      <4> QED
        BY <4>1, <4>3, <4>4, <4>5 DEF Told
    <3>2. CASE addToRepo(q)
      <4>1. Counted(q)' = Counted(q)
        BY <3>2 DEF addToRepo, Counted, writes
      <4> QED
        BY <2>2, <3>2, <4>1, ListenerSeqs DEF Told, addToRepo, Telling
    <3>3. CASE importRq(q)
      BY <2>2, <3>3, ToldStays DEF importRq, writes
    <3>4. CASE writeSqlMetric(q)
      <4>1. going[q] = <<"influx">> /\ q \in reported \ early /\ q \in stored
        BY <2>2, <3>4, ListenerSeqs DEF Told, writeSqlMetric, Telling
      <4> QED
        BY <3>4, <4>1, ListenerSeqs DEF Told, writeSqlMetric
    <3>5. CASE Written(q)
      <4>1. going[q] = <<"influx">> /\ q \in reported \ early /\ q \in stored
        BY <2>2, <3>5, ListenerSeqs DEF Told, Written, Telling
      <4>2. going'[q] = <<>> /\ Counted(q)' = SqlCount[q]
        BY <2>2, <3>5, <4>1, ListenerSeqs DEF Written, Counted, writes
      <4> QED
        BY <3>5, <4>1, <4>2, ListenerSeqs DEF Told, Written
    <3> QED
      BY <2>1, <3>1, <3>2, <3>3, <3>4, <3>5
  <2>4. ASSUME NEW r \in Requests, r # q
        PROVE  Told(r)'
    <3>1. Told(r)
      BY DEF IInv, ToldInOrder
    <3>2. /\ going'[r] = going[r]
          /\ r \in reported' <=> r \in reported
          /\ r \in early' <=> r \in early
          /\ r \in stored' <=> r \in stored
          /\ successes'[r] = successes[r] /\ failures'[r] = failures[r]
      BY <2>1, <2>2, <2>4 DEF requestCompleted, addToRepo, importRq, writeSqlMetric, Written, Succeeds, Fails, writes
    <3> QED
      BY <2>2, <3>1, <3>2, ToldStays
  <2> QED
    BY <2>3, <2>4
<1>2. CASE UNCHANGED fanout
  BY <1>2, ToldStays DEF IInv, TypeOK, ToldInOrder, fanout, writes
<1>3. Next /\ ~Reporting => UNCHANGED fanout
  BY DEF Next, Starting, Register, Repository, Connection, initReconnector, initExportDirListener, initHealthChecks,
         Import, RegisterInflux, CheckInflux, Stop, Stopping, StopPool, disconnectAll, Working, ReconnectorRuns,
         connect, HealthRuns, setHealthCheckResults, AgentGoes, AgentComes, BreakNoticed
<1> QED
  BY <1>1, <1>2, <1>3 DEF vars

----------------------------------------------------------------------------
LEMMA StepInv == IInv /\ [Next]_vars => IInv'
<1> SUFFICES ASSUME IInv, [Next]_vars
             PROVE  IInv'
  OBVIOUS
<1>1. ToldInOrder'
  BY ListenersStep, ToldStep DEF ToldInOrder
<1> QED
  BY <1>1, TypeStep, PoolStep, LateStep DEF IInv

LEMMA Invariance == Spec => []IInv
  BY InitInv, StepInv, PTL DEF Spec

(* The types of the application's state.                                    *)
THEOREM TypeCorrect == Spec => []TypeOK
<1>1. IInv => TypeOK
  BY DEF IInv
<1> QED
  BY <1>1, Invariance, PTL

(* contextDestroyed() stops all schedulers or none, whatever went wrong at   *)
(* the start: the one that is missing is the first to be shut down.          *)
THEOREM StopIsAllOrNothing == Spec => []StopsAllOrNothing
<1>1. IInv => StopsAllOrNothing
  BY DEF IInv, InOrder, StopsAllOrNothing, Pools
<1> QED
  BY <1>1, Invariance, PTL

(* Nothing but a run of the reconnector that was already under way connects  *)
(* to the agent after the stop.                                              *)
THEOREM StopIsQuiet == Spec => []QuietAfterStop
<1>1. IInv => QuietAfterStop
  BY DEF IInv, LateRun
<1> QED
  BY <1>1, Invariance, PTL

(* No run of the health checks ends their schedule.                          *)
THEOREM HealthStaysAlive == Spec => []HealthTaskAlive
<1>1. IInv => HealthTaskAlive
  BY DEF IInv, ConnectedFirst
<1> QED
  BY <1>1, Invariance, PTL

(* The writes that were counted, succeeded or failed, are those of the        *)
(* statements of the requests that the repository took.                      *)
THEOREM CountedWritesAddUp == Spec => []WritesAddUp
<1>1. IInv => WritesAddUp
  <2> SUFFICES ASSUME IInv, NEW r \in Requests
               PROVE  /\ Counted(r) > 0 => r \in (stored \cap reported) \ early
                      /\ r \in reported \ early /\ going[r] = <<>> =>
                           Counted(r) = IF r \in stored THEN SqlCount[r] ELSE 0
    BY DEF WritesAddUp
  <2>1. Told(r) /\ early \subseteq reported
    BY DEF IInv, TypeOK, ToldInOrder
  <2>2. Counted(r) > 0 => r \in (stored \cap reported) \ early
    BY <2>1, ListenerSeqs DEF Told
  <2>3. r \in reported \ early /\ going[r] = <<>> => Counted(r) = IF r \in stored THEN SqlCount[r] ELSE 0
    BY <2>1, ListenerSeqs DEF Told
  <2> QED
    BY <2>2, <2>3
<1> QED
  BY <1>1, Invariance, PTL

============================================================================
