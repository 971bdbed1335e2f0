--------------------------- MODULE CircularBuffer ---------------------------
(***************************************************************************)
(* What the repository promises: "a circular buffer, where older requests  *)
(* are deleted" (model/IRequestRepository.java, lines 23-25), with access  *)
(* by key and with statistics, and every operation one indivisible step.   *)
(***************************************************************************)
EXTENDS Integers, Sequences, SequencesExt

CONSTANTS Requests, SqlCount, Capacity, NumRequestsToDelete

VARIABLES
  buffer,      \* the requests held, oldest first
  findable,    \* the requests that get() returns for their id
  total, discarded, sqlCount

vars == <<buffer, findable, total, discarded, sqlCount>>

SqlOf(s) == SumFunction([i \in DOMAIN s |-> SqlCount[s[i]]])

Init ==
  /\ buffer = <<>> /\ findable = {}
  /\ total = 0 /\ discarded = 0 /\ sqlCount = 0

\* When the buffer is full the oldest requests make room.
Victims == IF Len(buffer) = Capacity THEN NumRequestsToDelete ELSE 0

Add(r) ==
  /\ r \notin ToSet(buffer)
  /\ buffer' = Append(SubSeq(buffer, Victims + 1, Len(buffer)), r)
  /\ findable' = ToSet(buffer')
  /\ total' = total + 1
  /\ discarded' = discarded + Victims
  /\ sqlCount' = SqlOf(buffer')

Next == \E r \in Requests : Add(r)

Spec == Init /\ [][Next]_vars

============================================================================
