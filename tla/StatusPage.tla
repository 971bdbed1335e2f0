----------------------------- MODULE StatusPage -----------------------------
(***************************************************************************)
(* The header of every page polls the state of the application             *)
(* (webapp/js/wuqispank.js): a request every two seconds, whether the last *)
(* one has been answered or not, so that answers (web/StatusServlet.java)  *)
(* may arrive in any order.                                                *)
(***************************************************************************)
EXTENDS Lifecycle

CONSTANT MaxAnswers     \* bound: answers under way

ASSUME AnswersAssumption == MaxAnswers \in Nat \ {0}

VARIABLES
  answers,      \* under way, in no order
  shown         \* of InTrace "blank", "check" or "cross", of Influxdb "blank", "known" or "unknown"

pageVars == <<answers, shown>>
allVars  == <<vars, pageVars>>

\* The elements of an answer: of InTrace with Healthy or Sick, of Influxdb.
Answer == [intrace : {"absent", "healthy", "sick"}, influx : BOOLEAN]

\* doStuff(): the page before its first answer.
Opened == [intrace |-> "blank", influx |-> "blank"]

PageInit == Init /\ answers = {} /\ shown = Opened

\* mutant: the result of the last check instead of the connection's state.
CheckedStatus == IF "intrace" \in results THEN "healthy" ELSE "absent"

\* getInTraceStatus(): there is an element when there is a result, and what it
\* says is asked of the connection.
InTraceStatus ==
  IF "intrace" \notin results THEN "absent" ELSE IF isConnected THEN "healthy" ELSE "sick"

\* myPoll(), and StatusServlet.doGet()
myPoll ==
  /\ stage = "serving"
  /\ Cardinality(answers) < MaxAnswers
  /\ answers' = answers \cup {[intrace |-> InTraceStatus, influx |-> "influx" \in results]}
  /\ UNCHANGED <<vars, shown>>

\* updateInTraceStatus(): what first() returns is true also where there is no
\* Sick, so that no element shows as a cross.
InTraceMark(a) == IF a.intrace = "healthy" THEN "check" ELSE "cross"

\* updateInfluxdbStatus() and updateGrafanaStatus() index the result.
InfluxMark(a) == IF a.influx THEN "known" ELSE "unknown"

\* success(); without an error handler a lost answer leaves the page as it is.
Deliver(a) ==
  /\ a \in answers
  /\ answers' = answers \ {a}
  /\ shown' = [intrace |-> InTraceMark(a), influx |-> InfluxMark(a)]
  /\ UNCHANGED vars

Lose(a) ==
  /\ a \in answers
  /\ answers' = answers \ {a}
  /\ UNCHANGED <<vars, shown>>

\* The page is followed as long as the application serves it.
Followed ==
  IF stage = "serving" /\ stage' # "serving" THEN answers' = {} /\ shown' = Opened ELSE UNCHANGED pageVars

PageNext ==
  \/ Next /\ Followed
  \/ myPoll
  \/ \E a \in answers : Deliver(a) \/ Lose(a)

PageSpec == PageInit /\ [][PageNext]_allVars

\* The timer goes on polling, and of answers that say the same of InTrace again
\* and again one arrives.
PageFairness ==
  /\ Fairness
  /\ WF_allVars(myPoll)
  /\ \A s \in {"absent", "healthy", "sick"} : SF_allVars(\E a \in answers : a.intrace = s /\ Deliver(a))

FairPageSpec == PageSpec /\ PageFairness

----------------------------------------------------------------------------
(* Properties                                                              *)

Serves == stage = "serving" /\ pool["health"] = "scheduled"

\* When the connection stays as it is, the page tells so in the end, although it
\* starts with a cross, answers overtake one another and some are lost.
PageTellsConnection ==
  /\ <>[](Serves /\ conn = "up") => <>[](shown.intrace = "check")
  /\ <>[](Serves /\ conn = "down") => <>[](shown.intrace = "cross")

\* The host of Influxdb is read after its writer is registered; when that went
\* well, its state appears on the page.
PageTellsInflux == <>[]Serves => <>[](shown.influx = "known")

============================================================================
