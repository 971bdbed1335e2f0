------------------------ MODULE RepositoryAtomicity ------------------------
(***************************************************************************)
(* With a single caller the step by step repository implements the atomic  *)
(* one.  The abstract state is what the repository held when the caller    *)
(* was last outside its methods; the history variable "settled" keeps it.  *)
(***************************************************************************)
EXTENDS RequestRepository

VARIABLE settled

Snapshot == [buffer    |-> queue,
             findable  |-> {hashMap[k] : k \in Ids} \ {NoRequest},
             total     |-> total,
             discarded |-> discarded,
             sqlCount  |-> sqlCount]

AtomicityInit == Init /\ settled = Snapshot

AtomicityNext == Next /\ settled' = IF AtRest' THEN Snapshot' ELSE settled

AtomicitySpec == AtomicityInit /\ [][AtomicityNext]_<<vars, settled>>

Abstract == INSTANCE CircularBuffer WITH
              buffer <- settled.buffer, findable <- settled.findable,
              total <- settled.total, discarded <- settled.discarded,
              sqlCount <- settled.sqlCount

\* Seen from one caller, add() is one step of a circular buffer: the queue,
\* the map and all three counters change together and agree (lines 58-91).
ImplementsCircularBuffer == Abstract!Spec

============================================================================
