---------------------- MODULE RequestRepositoryProofs ----------------------
(***************************************************************************)
(* What holds of the repository for every number of threads and requests,  *)
(* every capacity and every batch size.                                    *)
(***************************************************************************)
EXTENDS RequestRepository, DataLemmas, FiniteSetTheorems, SequenceTheorems, TLAPS

TypeInv == TypeOK /\ LocalsOK

(* Taking one element out of a sequence leaves one element less.           *)
LEMMA RemoveAtShortens ==
  ASSUME NEW S, NEW s \in Seq(S), NEW i \in 1 .. Len(s)
  PROVE  /\ RemoveAt(s, i) \in Seq(S)
         /\ Len(RemoveAt(s, i)) = Len(s) - 1
         /\ \A j \in 1 .. Len(s) - 1 :
              RemoveAt(s, i)[j] = IF j < i THEN s[j] ELSE s[j + 1]
<1> DEFINE front == SubSeq(s, 1, i - 1)
           back  == SubSeq(s, i + 1, Len(s))
<1>1. /\ front \in Seq(S) /\ Len(front) = i - 1
      /\ \A j \in 1 .. i - 1 : front[j] = s[j]
  BY SubSeqProperties
<1>2. /\ back \in Seq(S) /\ Len(back) = Len(s) - i
      /\ \A j \in 1 .. Len(s) - i : back[j] = s[i + j]
  BY SubSeqProperties
<1>3. RemoveAt(s, i) = front \o back
  BY DEF RemoveAt
<1> HIDE DEF front, back
<1>4. /\ front \o back \in Seq(S) /\ Len(front \o back) = Len(front) + Len(back)
      /\ \A j \in 1 .. Len(front) + Len(back) :
           (front \o back)[j] = IF j <= Len(front) THEN front[j] ELSE back[j - Len(front)]
  BY <1>1, <1>2, ConcatProperties
<1> QED
  BY <1>1, <1>2, <1>3, <1>4

(* The initial state is well typed.                                        *)
LEMMA InitTypeInv == Init => TypeInv
  BY RepositoryAssumption DEF Init, TypeInv, TypeOK, LocalsOK, Steps, Status

(* remove(key) takes one element out of the queue, or finds it gone.       *)
LEMMA EraseQueue ==
  ASSUME TypeOK, NEW t \in Threads, Erase(t)
  PROVE  /\ queue' \in Seq(Requests)
         /\ \/ Len(queue') = Len(queue) - 1 /\ erased' = erased + 1
            \/ UNCHANGED <<queue, erased>>
<1>1. queue \in Seq(Requests)
  BY DEF TypeOK
<1>2. CASE UNCHANGED <<queue, erased>>
  BY <1>1, <1>2
<1>3. CASE \E i \in 1 .. Len(queue) : queue' = RemoveAt(queue, i) /\ erased' = erased + 1
  <2>1. PICK i \in 1 .. Len(queue) : queue' = RemoveAt(queue, i) /\ erased' = erased + 1
    BY <1>3
  <2> QED
    BY <1>1, <2>1, RemoveAtShortens
<1> QED
  BY <1>2, <1>3 DEF Erase

(* Each access to a shared variable keeps all variables well typed and the *)
(* thread's locals fit for its next access.                                *)
LEMMA NextTypeInv == TypeInv /\ [Next]_vars => TypeInv'
<1> SUFFICES ASSUME TypeInv, [Next]_vars PROVE TypeInv'
  OBVIOUS
<1> USE RepositoryAssumption
<1> USE DEF TypeInv, TypeOK, LocalsOK, Steps, Status, counters, locals, history, vars
<1>1. CASE UNCHANGED vars
  BY <1>1
<1>2. ASSUME NEW t \in Threads, NEW r \in Requests, AddWithRoom(t, r) PROVE TypeInv'
  BY <1>2 DEF AddWithRoom
<1>3. ASSUME NEW t \in Threads, NEW r \in Requests, AddWhenFull(t, r) PROVE TypeInv'
  BY <1>3 DEF AddWhenFull, HasRoom
<1>4. ASSUME NEW t \in Threads, Offer(t) PROVE TypeInv'
  BY <1>4 DEF Offer, Fits
<1>5. ASSUME NEW t \in Threads, OfferRefused(t) PROVE TypeInv'
  BY <1>5 DEF OfferRefused
<1>6. ASSUME NEW t \in Threads, Put(t) PROVE TypeInv'
  BY <1>6 DEF Put
<1>7. ASSUME NEW t \in Threads, Count(t) PROVE TypeInv'
  BY <1>7 DEF Count
<1>8. ASSUME NEW t \in Threads, CountSql(t) PROVE TypeInv'
  BY <1>8 DEF CountSql
<1>9. ASSUME NEW t \in Threads, Poll(t) PROVE TypeInv'
  BY <1>9 DEF Poll
<1>10. ASSUME NEW t \in Threads, PollEmpty(t) PROVE TypeInv'
  BY <1>10 DEF PollEmpty
<1>11. ASSUME NEW t \in Threads, Discard(t) PROVE TypeInv'
  BY <1>11 DEF Discard
<1>12. ASSUME NEW t \in Threads, Decrement(t) PROVE TypeInv'
  BY <1>12 DEF Decrement
<1>13. ASSUME NEW t \in Threads, Unmap(t) PROVE TypeInv'
  BY <1>13 DEF Unmap
<1>14. ASSUME NEW t \in Threads, NEW k \in Removable, Lookup(t, k) PROVE TypeInv'
  BY <1>14 DEF Lookup
<1>15. ASSUME NEW t \in Threads, Erase(t) PROVE TypeInv'
  <2>1. queue' \in Seq(Requests) /\ Len(queue') <= Capacity /\ erased' \in Nat
    <3>1. queue \in Seq(Requests) /\ Len(queue) <= Capacity /\ erased \in Nat
      OBVIOUS
    <3>2. queue' \in Seq(Requests) /\ (\/ Len(queue') = Len(queue) - 1 /\ erased' = erased + 1
                                       \/ UNCHANGED <<queue, erased>>)
      BY <1>15, EraseQueue
    <3> QED
      BY <3>1, <3>2
  <2>2. /\ UNCHANGED <<hashMap, counters, val, rw, evictions, decrements, status>>
        /\ pc' = [pc EXCEPT ![t] = "unkey"] /\ pc[t] = "erase"
    BY <1>15 DEF Erase
  <2> QED
    BY <2>1, <2>2
<1>16. ASSUME NEW t \in Threads, Unkey(t) PROVE TypeInv'
  BY <1>16 DEF Unkey
<1> QED
  BY <1>1, <1>2, <1>3, <1>4, <1>5, <1>6, <1>7, <1>8, <1>9, <1>10, <1>11,
     <1>12, <1>13, <1>14, <1>15, <1>16 DEF Next, add, removeOldestOne, remove

LEMMA TypeInvariant == Spec => []TypeInv
  BY InitTypeInv, NextTypeInv, PTL DEF Spec

(* The repository's fields keep their types, the queue its capacity, and    *)
(* a thread inside a method has the request it works on.                   *)
THEOREM TypeCorrect == Spec => [](TypeOK /\ LocalsOK)
  BY TypeInvariant, PTL DEF TypeInv

----------------------------------------------------------------------------
(* Requests are accounted for                                              *)

(* Moving one thread into or out of a set of threads changes its size by 1. *)
LEMMA ThreadSets ==
  ASSUME NEW S \in SUBSET Threads
  PROVE  /\ Cardinality(S) \in Nat
         /\ \A t \in Threads \ S : Cardinality(S \cup {t}) = Cardinality(S) + 1
         /\ \A t \in S : Cardinality(S \ {t}) = Cardinality(S) - 1
<1>1. IsFiniteSet(S)
  BY RepositoryAssumption, FS_Subset
<1> QED
  BY <1>1, FS_CardinalityType, FS_AddElement, FS_RemoveElement

LEMMA InitAccounted == Init => RequestsAccountedFor
<1> SUFFICES ASSUME Init PROVE RequestsAccountedFor
  OBVIOUS
<1>1. Offered = {} /\ Polled = {}
  BY DEF Init, Offered, Polled
<1> QED
  BY <1>1, FS_EmptySet DEF Init, RequestsAccountedFor

(* A request is in the queue exactly from its offer() to the remove() that  *)
(* takes it out, and each of the two is counted once, later, by the thread  *)
(* that made it: a step moves one unit from one term of the sum to another. *)
LEMMA NextAccounted ==
  TypeInv /\ RequestsAccountedFor /\ [Next]_vars => RequestsAccountedFor'
<1> SUFFICES ASSUME TypeInv, RequestsAccountedFor, [Next]_vars
             PROVE  RequestsAccountedFor'
  OBVIOUS
<1>0. /\ Offered \in SUBSET Threads /\ Polled \in SUBSET Threads
      /\ Cardinality(Offered) \in Nat /\ Cardinality(Polled) \in Nat
      /\ total \in Nat /\ discarded \in Nat /\ erased \in Nat
      /\ queue \in Seq(Requests) /\ pc \in [Threads -> Steps]
  <2>1. Offered \in SUBSET Threads /\ Polled \in SUBSET Threads
    BY DEF Offered, Polled
  <2> QED
    BY <2>1, ThreadSets DEF TypeInv, TypeOK
<1>1. ASSUME UNCHANGED <<queue, total, discarded, erased>>,
             Offered' = Offered, Polled' = Polled
      PROVE  RequestsAccountedFor'
  BY <1>1 DEF RequestsAccountedFor
<1>2. ASSUME NEW t \in Threads, Offer(t) PROVE RequestsAccountedFor'
  <2>1. Offered' = Offered \cup {t} /\ t \notin Offered /\ Polled' = Polled
    BY <1>0, <1>2 DEF Offer, Offered, Polled
  <2>2. Len(queue') = Len(queue) + 1
    BY <1>0, <1>2, AppendProperties DEF Offer, TypeInv, LocalsOK
  <2>3. Cardinality(Offered') = Cardinality(Offered) + 1
    BY <1>0, <2>1, ThreadSets
  <2>4. UNCHANGED <<total, discarded, erased>>
    BY <1>2 DEF Offer, counters, history
  <2>5. /\ Len(queue) \in Nat /\ total \in Nat /\ discarded \in Nat /\ erased \in Nat
        /\ Cardinality(Offered) \in Nat /\ Cardinality(Polled) \in Nat
    BY <1>0
  <2>6. Polled' = Polled
    BY <2>1
  <2> QED
    BY <2>2, <2>3, <2>4, <2>5, <2>6 DEF RequestsAccountedFor
<1>3. ASSUME NEW t \in Threads, Count(t) PROVE RequestsAccountedFor'
  <2>1. Offered' = Offered \ {t} /\ t \in Offered /\ Polled' = Polled
    BY <1>0, <1>3 DEF Count, Offered, Polled
  <2>3. Cardinality(Offered') = Cardinality(Offered) - 1
    BY <1>0, <2>1, ThreadSets
  <2>4. total' = total + 1 /\ UNCHANGED <<queue, discarded, erased>>
    BY <1>3 DEF Count, counters, history
  <2> QED
    BY <1>0, <2>1, <2>3, <2>4 DEF RequestsAccountedFor
<1>4. ASSUME NEW t \in Threads, Poll(t) PROVE RequestsAccountedFor'
  <2>1. Polled' = Polled \cup {t} /\ t \notin Polled /\ Offered' = Offered
    BY <1>0, <1>4 DEF Poll, Offered, Polled
  <2>2. Len(queue') = Len(queue) - 1
    BY <1>0, <1>4, HeadTailProperties DEF Poll
  <2>3. Cardinality(Polled') = Cardinality(Polled) + 1
    BY <1>0, <2>1, ThreadSets
  <2>4. UNCHANGED <<total, discarded, erased>>
    BY <1>4 DEF Poll, counters, history
  <2>5. /\ Len(queue) \in Nat /\ total \in Nat /\ discarded \in Nat /\ erased \in Nat
        /\ Cardinality(Offered) \in Nat /\ Cardinality(Polled) \in Nat
    BY <1>0
  <2>6. Offered' = Offered
    BY <2>1
  <2> QED
    BY <2>2, <2>3, <2>4, <2>5, <2>6 DEF RequestsAccountedFor
<1>5. ASSUME NEW t \in Threads, Discard(t) PROVE RequestsAccountedFor'
  <2>1. Polled' = Polled \ {t} /\ t \in Polled /\ Offered' = Offered
    BY <1>0, <1>5 DEF Discard, Offered, Polled
  <2>3. Cardinality(Polled') = Cardinality(Polled) - 1
    BY <1>0, <2>1, ThreadSets
  <2>4. discarded' = discarded + 1 /\ UNCHANGED <<queue, total, erased>>
    BY <1>5 DEF Discard, counters, history
  <2> QED
    BY <1>0, <2>1, <2>3, <2>4 DEF RequestsAccountedFor
<1>6. ASSUME NEW t \in Threads, Erase(t) PROVE RequestsAccountedFor'
  <2>1. Polled' = Polled /\ Offered' = Offered
    BY <1>0, <1>6 DEF Erase, Offered, Polled
  <2>2. \/ Len(queue') = Len(queue) - 1 /\ erased' = erased + 1
        \/ UNCHANGED <<queue, erased>>
    BY <1>6, EraseQueue DEF TypeInv
  <2>3. UNCHANGED <<total, discarded>> /\ Len(queue) \in Nat
    BY <1>0, <1>6 DEF Erase, counters
  <2> QED
    BY <1>0, <2>1, <2>2, <2>3 DEF RequestsAccountedFor
<1>7. ASSUME NEW t \in Threads, NEW r \in Requests,
             AddWithRoom(t, r) \/ AddWhenFull(t, r)
      PROVE  RequestsAccountedFor'
  BY <1>0, <1>1, <1>7 DEF AddWithRoom, AddWhenFull, Offered, Polled, counters, history
<1>8. ASSUME NEW t \in Threads, OfferRefused(t) \/ PollEmpty(t)
      PROVE  RequestsAccountedFor'
  BY <1>0, <1>1, <1>8 DEF OfferRefused, PollEmpty, Offered, Polled, counters, history
<1>9. ASSUME NEW t \in Threads, Put(t) \/ CountSql(t) PROVE RequestsAccountedFor'
  BY <1>0, <1>1, <1>9 DEF Put, CountSql, Offered, Polled, counters, history
<1>10. ASSUME NEW t \in Threads, Decrement(t) \/ Unmap(t) PROVE RequestsAccountedFor'
  BY <1>0, <1>1, <1>10 DEF Decrement, Unmap, Offered, Polled, counters, history
<1>11. ASSUME NEW t \in Threads, Unkey(t) PROVE RequestsAccountedFor'
  BY <1>0, <1>1, <1>11 DEF Unkey, Offered, Polled, counters, history
<1>12. ASSUME NEW t \in Threads, NEW k \in Removable, Lookup(t, k)
       PROVE  RequestsAccountedFor'
  BY <1>0, <1>1, <1>12 DEF Lookup, Offered, Polled, counters, history
<1>13. CASE UNCHANGED vars
  BY <1>1, <1>13 DEF vars, counters, locals, history, Offered, Polled
<1> QED
  BY <1>2, <1>3, <1>4, <1>5, <1>6, <1>7, <1>8, <1>9, <1>10, <1>11, <1>12, <1>13
  DEF Next, add, removeOldestOne, remove

(* Whatever the threads and their interleaving, the repository's counters  *)
(* and its queue agree up to the requests threads have in hand.            *)
THEOREM Accounted == Spec => []RequestsAccountedFor
  BY TypeInvariant, InitAccounted, NextAccounted, PTL DEF Spec

----------------------------------------------------------------------------
(* No eviction finds the queue empty                                       *)

BatchesFit ==
  Cardinality(Threads) * NumRequestsToDelete <= Capacity /\ Removable = {}

\* EvictionsCovered is inductive with the fact that nobody removes by key.
DrainInv == EvictionsCovered /\ (Removable = {} => \A t \in Threads : pc[t] \notin {"erase", "unkey"})

(* A set of polls has at most one batch for each thread, and a smaller set  *)
(* of polls has fewer.                                                     *)
LEMMA BatchBound ==
  ASSUME NEW S \in SUBSET (Threads \X (1 .. NumRequestsToDelete))
  PROVE  /\ IsFiniteSet(S)
         /\ Cardinality(S) \in Nat
         /\ Cardinality(S) <= Cardinality(Threads) * NumRequestsToDelete
         /\ \A P \in SUBSET S : Cardinality(P) \in Nat /\ Cardinality(P) <= Cardinality(S)
         /\ \A p \in S : Cardinality(S \ {p}) = Cardinality(S) - 1
<1> DEFINE All == Threads \X (1 .. NumRequestsToDelete)
<1>1. /\ IsFiniteSet(1 .. NumRequestsToDelete)
      /\ Cardinality(1 .. NumRequestsToDelete) = NumRequestsToDelete
  BY RepositoryAssumption, FS_Interval
<1>2. IsFiniteSet(All) /\ Cardinality(All) = Cardinality(Threads) * NumRequestsToDelete
  BY <1>1, RepositoryAssumption, FS_Product
<1>3. S \subseteq All
  OBVIOUS
<1> HIDE DEF All
<1>4. /\ IsFiniteSet(S) /\ Cardinality(S) \in Nat
      /\ Cardinality(S) <= Cardinality(Threads) * NumRequestsToDelete
  BY <1>2, <1>3, FS_Subset, FS_CardinalityType
<1>5. \A P \in SUBSET S : Cardinality(P) \in Nat /\ Cardinality(P) <= Cardinality(S)
  BY <1>4, FS_Subset, FS_CardinalityType
<1>6. \A p \in S : Cardinality(S \ {p}) = Cardinality(S) - 1
  BY <1>4, FS_RemoveElement
<1> QED
  BY <1>4, <1>5, <1>6

LEMMA InitDrain == Init => DrainInv
<1> SUFFICES ASSUME Init PROVE DrainInv
  OBVIOUS
<1>1. PendingPolls = {}
  BY DEF Init, PendingPolls
<1> QED
  BY <1>1, FS_EmptySet DEF Init, DrainInv, EvictionsCovered

(* A thread that finds the queue full adds at most its batch to the polls   *)
(* that are pending, and all batches together fit into the full queue; a    *)
(* poll takes one element and one pending poll away.                        *)
LEMMA NextDrain == TypeInv /\ DrainInv /\ [Next]_vars => DrainInv'
<1> SUFFICES ASSUME TypeInv, DrainInv, [Next]_vars, Removable = {}
             PROVE  /\ BatchesFit => Cardinality(PendingPolls') <= Len(queue')
                    /\ \A t \in Threads : pc'[t] \notin {"erase", "unkey"}
  BY DEF DrainInv, EvictionsCovered, BatchesFit
<1> DEFINE Kept == \A t \in Threads : pc'[t] \notin {"erase", "unkey"}
           Covered == BatchesFit => Cardinality(PendingPolls') <= Len(queue')
<1>0. /\ PendingPolls \in SUBSET (Threads \X (1 .. NumRequestsToDelete))
      /\ PendingPolls' \in SUBSET (Threads \X (1 .. NumRequestsToDelete))
      /\ BatchesFit => Cardinality(PendingPolls) <= Len(queue)
      /\ \A t \in Threads : pc[t] \notin {"erase", "unkey"}
      /\ queue \in Seq(Requests) /\ Len(queue) \in Nat
      /\ pc \in [Threads -> Steps] /\ evictions \in [Threads -> Nat]
      /\ Capacity \in Nat /\ Cardinality(Threads) \in Nat /\ NumRequestsToDelete \in Nat
  BY RepositoryAssumption, FS_CardinalityType
  DEF PendingPolls, DrainInv, EvictionsCovered, BatchesFit, TypeInv, TypeOK
<1> HIDE DEF Kept, Covered
<1>1. ASSUME PendingPolls' \subseteq PendingPolls, Len(queue') \in Nat, Len(queue') >= Len(queue)
      PROVE  Covered
  <2>1. Cardinality(PendingPolls') \in Nat /\ Cardinality(PendingPolls) \in Nat
        /\ Cardinality(PendingPolls') <= Cardinality(PendingPolls)
    BY <1>0, <1>1, BatchBound
  <2> QED
    BY <1>0, <1>1, <2>1 DEF Covered
<1>2. ASSUME NEW t \in Threads, NEW r \in Requests, AddWhenFull(t, r) PROVE Covered /\ Kept
  <2>1. Len(queue) >= Capacity /\ queue' = queue
    BY <1>0, <1>2 DEF AddWhenFull, HasRoom
  <2>2. /\ Cardinality(PendingPolls') \in Nat
        /\ Cardinality(PendingPolls') <= Cardinality(Threads) * NumRequestsToDelete
    BY <1>0, BatchBound
  <2>3. Covered
    BY <1>0, <2>1, <2>2 DEF Covered, BatchesFit
  <2> QED
    BY <1>0, <1>2, <2>3 DEF AddWhenFull, HasRoom, Kept
<1>3. ASSUME NEW t \in Threads, Poll(t) PROVE Covered /\ Kept
  <2> DEFINE token == <<t, evictions[t]>>
  <2>1. evictions[t] > 0 /\ evictions[t] <= NumRequestsToDelete /\ evictions[t] \in Nat
    BY <1>0, <1>3 DEF Poll, TypeInv, LocalsOK
  <2>2. token \in PendingPolls
    BY <1>0, <1>3, <2>1 DEF PendingPolls, Poll
  <2>3. PendingPolls' \subseteq PendingPolls \ {token}
    BY <1>0, <1>3, <2>1 DEF PendingPolls, Poll
  <2>4. Len(queue') = Len(queue) - 1 /\ Len(queue') \in Nat
    BY <1>0, <1>3, HeadTailProperties DEF Poll
  <2> HIDE DEF token
  <2>5. Cardinality(PendingPolls) \in Nat
        /\ Cardinality(PendingPolls \ {token}) = Cardinality(PendingPolls) - 1
    BY <1>0, <2>2, BatchBound
  <2>6. Cardinality(PendingPolls') \in Nat
        /\ Cardinality(PendingPolls') <= Cardinality(PendingPolls \ {token})
    <3>1. PendingPolls \ {token} \in SUBSET (Threads \X (1 .. NumRequestsToDelete))
      BY <1>0
    <3> QED
      BY <2>3, <3>1, BatchBound
  <2>7. Covered
    BY <1>0, <2>4, <2>5, <2>6 DEF Covered
  <2> QED
    BY <1>0, <1>3, <2>7 DEF Poll, Kept
<1>4. ASSUME NEW t \in Threads, Offer(t) PROVE Covered /\ Kept
  <2>1. PendingPolls' \subseteq PendingPolls
    BY <1>0, <1>4 DEF Offer, PendingPolls
  <2>2. Len(queue') = Len(queue) + 1
    BY <1>0, <1>4, AppendProperties DEF Offer, TypeInv, LocalsOK
  <2>3. Covered
    BY <1>0, <1>1, <2>1, <2>2
  <2> QED
    BY <1>0, <1>4, <2>3 DEF Offer, Kept
<1>5. ASSUME NEW t \in Threads, NEW r \in Requests, AddWithRoom(t, r) PROVE Covered /\ Kept
  <2>1. PendingPolls' \subseteq PendingPolls /\ queue' = queue
    BY <1>0, <1>5 DEF AddWithRoom, PendingPolls
  <2> QED
    BY <1>0, <1>1, <1>5, <2>1 DEF AddWithRoom, Kept
<1>6. ASSUME NEW t \in Threads, OfferRefused(t) \/ PollEmpty(t) PROVE Covered /\ Kept
  <2>1. PendingPolls' \subseteq PendingPolls /\ queue' = queue
    BY <1>0, <1>6 DEF OfferRefused, PollEmpty, PendingPolls
  <2> QED
    BY <1>0, <1>1, <1>6, <2>1 DEF OfferRefused, PollEmpty, Kept
<1>7. ASSUME NEW t \in Threads, Put(t) \/ Count(t) \/ CountSql(t) PROVE Covered /\ Kept
  <2>1. PendingPolls' \subseteq PendingPolls /\ queue' = queue
    BY <1>0, <1>7 DEF Put, Count, CountSql, PendingPolls
  <2> QED
    BY <1>0, <1>1, <1>7, <2>1 DEF Put, Count, CountSql, Kept
<1>8. ASSUME NEW t \in Threads, Discard(t) \/ Decrement(t) \/ Unmap(t) PROVE Covered /\ Kept
  <2>1. PendingPolls' \subseteq PendingPolls /\ queue' = queue
    BY <1>0, <1>8 DEF Discard, Decrement, Unmap, PendingPolls
  <2> QED
    BY <1>0, <1>1, <1>8, <2>1 DEF Discard, Decrement, Unmap, Kept
<1>9. ASSUME NEW t \in Threads, remove(t) PROVE FALSE
  BY <1>0, <1>9 DEF remove, Lookup, Erase, Unkey
<1>10. ASSUME UNCHANGED vars PROVE Covered /\ Kept
  <2>1. PendingPolls' \subseteq PendingPolls /\ queue' = queue /\ pc' = pc
    BY <1>10 DEF vars, locals, PendingPolls
  <2> QED
    BY <1>0, <1>1, <2>1 DEF Kept, Covered
<1>11. Covered /\ Kept
  BY <1>2, <1>3, <1>4, <1>5, <1>6, <1>7, <1>8, <1>9, <1>10
  DEF Next, add, removeOldestOne
<1> QED
  BY <1>11 DEF Covered, Kept

(* If one batch for every thread fits into the repository, an eviction      *)
(* that is still to come always has a request to evict.                     *)
THEOREM EvictionsFindRequests == Spec => []EvictionsCovered
<1>1. DrainInv => EvictionsCovered
  BY DEF DrainInv
<1> QED
  BY <1>1, TypeInvariant, InitDrain, NextDrain, PTL DEF Spec

----------------------------------------------------------------------------
(* The SQL count                                                           *)

Undisturbed == \A t \in Threads : pc[t] \notin {"erase", "unkey"}

SqlInv == SqlAccountedFor /\ Undisturbed

LEMMA InHandType == TypeInv => \A t \in Threads : inHand[t] \in Int
BY RepositoryAssumption DEF TypeInv, TypeOK, LocalsOK, inHand

(* What a thread does changes what that thread has in hand, and the sum by  *)
(* as much.                                                                *)
LEMMA OwnHand ==
  ASSUME TypeInv, TypeInv', NEW t \in Threads,
         \A u \in Threads \ {t} :
           /\ pc'[u] = pc[u] /\ val'[u] = val[u]
           /\ rw'[u] = rw[u] /\ decrements'[u] = decrements[u]
  PROVE  /\ inHand[t] \in Int /\ inHand'[t] \in Int /\ SumFunction(inHand) \in Int
         /\ SumFunction(inHand') = SumFunction(inHand) + (inHand'[t] - inHand[t])
<1>1. \A u \in Threads : inHand[u] \in Int
  BY InHandType
<1>2. \A u \in Threads : inHand'[u] \in Int
  <2> SUFFICES ASSUME NEW u \in Threads PROVE inHand'[u] \in Int
    OBVIOUS
  <2>1. inHand'[u] = CASE pc'[u] \in {"put", "count", "countSql"} -> SqlCount[val'[u]]
                       [] pc'[u] = "discard" -> - SqlCount[rw'[u]]
                       [] pc'[u] = "decrement" -> - decrements'[u]
                       [] OTHER -> 0
    BY DEF inHand
  <2>2. /\ pc'[u] # "idle" => val'[u] \in Requests
        /\ pc'[u] = "discard" => rw'[u] \in Requests
        /\ decrements'[u] \in Nat
    BY DEF TypeInv, TypeOK, LocalsOK
  <2>3. \A r \in Requests : SqlCount[r] \in Nat
    BY RepositoryAssumption
  <2> QED
    BY <2>1, <2>2, <2>3
<1>3. \A u \in Threads \ {t} : inHand'[u] = inHand[u]
  BY DEF inHand
<1>4. DOMAIN inHand = Threads /\ DOMAIN inHand' = Threads
  BY DEF inHand
<1>5. IsFiniteSet(Threads)
  BY RepositoryAssumption
<1> HIDE DEF inHand
<1>6. /\ SumFunctionOnSet(inHand, Threads) \in Int
      /\ SumFunctionOnSet(inHand', Threads)
           = SumFunctionOnSet(inHand, Threads) + (inHand'[t] - inHand[t])
  <2>1. \A u \in Threads : inHand[u] \in Int /\ inHand'[u] \in Int
    BY <1>1, <1>2
  <2> QED
    BY <1>3, <1>5, <2>1, SumChange
<1> QED
  BY <1>1, <1>2, <1>4, <1>6 DEF SumFunction

(* A step that leaves the queue alone and moves as much into the count as   *)
(* it takes out of the thread's hand.                                      *)
LEMMA MovedToCount ==
  ASSUME TypeInv, TypeInv', SqlAccountedFor, NEW t \in Threads, queue' = queue,
         \A u \in Threads \ {t} :
           /\ pc'[u] = pc[u] /\ val'[u] = val[u]
           /\ rw'[u] = rw[u] /\ decrements'[u] = decrements[u],
         sqlCount' + inHand'[t] = sqlCount + inHand[t]
  PROVE  SqlAccountedFor'
<1>1. /\ inHand[t] \in Int /\ inHand'[t] \in Int /\ SumFunction(inHand) \in Int
      /\ SumFunction(inHand') = SumFunction(inHand) + (inHand'[t] - inHand[t])
  BY OwnHand
<1>2. sqlCount \in Int /\ sqlCount' \in Int
  BY DEF TypeInv, TypeOK
<1> HIDE DEF inHand
<1>3. sqlCount' + SumFunction(inHand') = sqlCount + SumFunction(inHand)
  BY <1>1, <1>2
<1> QED
  BY <1>3 DEF SqlAccountedFor

(* A step that moves a request between the thread's hand and the queue.    *)
LEMMA MovedToQueue ==
  ASSUME TypeInv, TypeInv', SqlAccountedFor, NEW t \in Threads, sqlCount' = sqlCount,
         \A u \in Threads \ {t} :
           /\ pc'[u] = pc[u] /\ val'[u] = val[u]
           /\ rw'[u] = rw[u] /\ decrements'[u] = decrements[u],
         Weight(SqlCount, queue') = Weight(SqlCount, queue) + (inHand'[t] - inHand[t])
  PROVE  SqlAccountedFor'
<1>1. /\ inHand[t] \in Int /\ inHand'[t] \in Int /\ SumFunction(inHand) \in Int
      /\ SumFunction(inHand') = SumFunction(inHand) + (inHand'[t] - inHand[t])
  BY OwnHand
<1>2. sqlCount \in Int /\ SqlCount \in [Requests -> Nat] /\ queue \in Seq(Requests) /\ queue' \in Seq(Requests)
  BY RepositoryAssumption DEF TypeInv, TypeOK
<1>3. Weight(SqlCount, queue) \in Nat /\ Weight(SqlCount, queue') \in Nat
  BY <1>2, WeightType
<1>4. sqlCount + SumFunction(inHand) = Weight(SqlCount, queue)
  BY DEF SqlAccountedFor, Weight
<1> HIDE DEF inHand
<1>5. sqlCount' + SumFunction(inHand') = Weight(SqlCount, queue')
  BY <1>1, <1>2, <1>3, <1>4
<1> QED
  BY <1>5 DEF SqlAccountedFor, Weight

LEMMA InitSql == Init => SqlInv
<1> SUFFICES ASSUME Init PROVE SqlInv
  OBVIOUS
<1>1. \A t \in Threads : inHand[t] = 0
  BY DEF Init, inHand
<1>2. DOMAIN inHand = Threads
  BY DEF inHand
<1>3. SumFunctionOnSet(inHand, Threads) = 0
  BY <1>1, RepositoryAssumption, SumZero
<1>4. Weight(SqlCount, queue) = 0
  BY WeightEmpty DEF Init
<1> HIDE DEF inHand
<1>5. SqlAccountedFor
  BY <1>2, <1>3, <1>4 DEF Init, SqlAccountedFor, Weight, SumFunction
<1> QED
  BY <1>5 DEF Init, SqlInv, Undisturbed

(* Each statement is counted where its request is: in the queue once the    *)
(* count is done, in the hand of the thread in between.                     *)
LEMMA NextSql ==
  ASSUME Removable = {}, TypeInv, TypeInv', SqlInv, [Next]_vars
  PROVE  SqlInv'
<1>0. /\ pc \in [Threads -> Steps] /\ queue \in Seq(Requests)
      /\ val \in [Threads -> Requests \cup {NoRequest}]
      /\ rw \in [Threads -> Requests \cup {NoRequest}]
      /\ decrements \in [Threads -> Nat] /\ sqlCount \in Int
      /\ \A r \in Requests : SqlCount[r] \in Nat
      /\ SqlCount \in [Requests -> Nat]
      /\ LocalsOK /\ SqlAccountedFor /\ Undisturbed
  BY RepositoryAssumption DEF TypeInv, TypeOK, SqlInv
<1>1. ASSUME NEW t \in Threads, NEW r \in Requests, AddWithRoom(t, r) \/ AddWhenFull(t, r)
      PROVE  SqlInv'
  <2>1. inHand[t] = 0 /\ inHand'[t] = 0
    BY <1>0, <1>1 DEF AddWithRoom, AddWhenFull, inHand
  <2>2. /\ queue' = queue /\ sqlCount' = sqlCount
        /\ \A u \in Threads \ {t} : /\ pc'[u] = pc[u] /\ val'[u] = val[u]
                                    /\ rw'[u] = rw[u] /\ decrements'[u] = decrements[u]
    BY <1>0, <1>1 DEF AddWithRoom, AddWhenFull, counters
  <2>3. SqlAccountedFor'
    BY <1>0, <2>1, <2>2, MovedToCount
  <2>4. Undisturbed'
    BY <1>0, <1>1 DEF AddWithRoom, AddWhenFull, Undisturbed
  <2> QED
    BY <2>3, <2>4 DEF SqlInv
<1>2. ASSUME NEW t \in Threads, Offer(t) PROVE SqlInv'
  <2>1. inHand[t] = 0 /\ inHand'[t] = SqlCount[val[t]]
    BY <1>0, <1>2 DEF Offer, inHand, LocalsOK
  <2>2. /\ sqlCount' = sqlCount
        /\ \A u \in Threads \ {t} : /\ pc'[u] = pc[u] /\ val'[u] = val[u]
                                    /\ rw'[u] = rw[u] /\ decrements'[u] = decrements[u]
    BY <1>0, <1>2 DEF Offer, counters, history
  <2>3. val[t] \in Requests /\ queue' = Append(queue, val[t])
    BY <1>0, <1>2 DEF Offer, LocalsOK
  <2>4. Weight(SqlCount, queue') = Weight(SqlCount, queue) + (inHand'[t] - inHand[t])
    <3>0. SqlCount \in [Requests -> Nat] /\ queue \in Seq(Requests) /\ val[t] \in Requests
      BY <1>0, <2>3
    <3>1. Weight(SqlCount, Append(queue, val[t])) = Weight(SqlCount, queue) + SqlCount[val[t]]
      BY <3>0, WeightAppend
    <3>2. Weight(SqlCount, queue) \in Nat /\ SqlCount[val[t]] \in Nat
      BY <1>0, <2>3, WeightType
    <3> QED
      BY <2>1, <2>3, <3>1, <3>2
  <2>5. SqlAccountedFor'
    BY <1>0, <2>1, <2>2, <2>4, MovedToQueue
  <2>6. Undisturbed'
    BY <1>0, <1>2 DEF Offer, Undisturbed
  <2> QED
    BY <2>5, <2>6 DEF SqlInv
<1>3. ASSUME NEW t \in Threads, OfferRefused(t) \/ PollEmpty(t) PROVE SqlInv'
  <2>1. inHand[t] = 0 /\ inHand'[t] = 0
    BY <1>0, <1>3 DEF OfferRefused, PollEmpty, inHand, LocalsOK
  <2>2. /\ queue' = queue
        /\ \A u \in Threads \ {t} : /\ pc'[u] = pc[u] /\ val'[u] = val[u]
                                    /\ rw'[u] = rw[u] /\ decrements'[u] = decrements[u]
    BY <1>0, <1>3 DEF OfferRefused, PollEmpty, counters, history
  <2>3. sqlCount' = sqlCount
    BY <1>3 DEF OfferRefused, PollEmpty, counters
  <2>5. SqlAccountedFor'
    BY <1>0, <2>1, <2>2, <2>3, MovedToCount
  <2>6. Undisturbed'
    BY <1>0, <1>3 DEF OfferRefused, PollEmpty, Undisturbed
  <2> QED
    BY <2>5, <2>6 DEF SqlInv
<1>4. ASSUME NEW t \in Threads, Put(t) \/ Count(t) PROVE SqlInv'
  <2>1. inHand[t] = SqlCount[val[t]] /\ inHand'[t] = SqlCount[val[t]]
    BY <1>0, <1>4 DEF Put, Count, inHand, LocalsOK
  <2>2. /\ queue' = queue
        /\ \A u \in Threads \ {t} : /\ pc'[u] = pc[u] /\ val'[u] = val[u]
                                    /\ rw'[u] = rw[u] /\ decrements'[u] = decrements[u]
    BY <1>0, <1>4 DEF Put, Count, counters, history
  <2>3. sqlCount' = sqlCount
    BY <1>4 DEF Put, Count, counters
  <2>5. SqlAccountedFor'
    BY <1>0, <2>1, <2>2, <2>3, MovedToCount
  <2>6. Undisturbed'
    BY <1>0, <1>4 DEF Put, Count, Undisturbed
  <2> QED
    BY <2>5, <2>6 DEF SqlInv
<1>5. ASSUME NEW t \in Threads, CountSql(t) PROVE SqlInv'
  <2>1. inHand[t] = SqlCount[val[t]] /\ inHand'[t] = 0
    BY <1>0, <1>5 DEF CountSql, inHand, LocalsOK
  <2>2. /\ queue' = queue
        /\ \A u \in Threads \ {t} : /\ pc'[u] = pc[u] /\ val'[u] = val[u]
                                    /\ rw'[u] = rw[u] /\ decrements'[u] = decrements[u]
    BY <1>0, <1>5 DEF CountSql, counters, history
  <2>3. sqlCount' = sqlCount + SqlCount[val[t]] /\ SqlCount[val[t]] \in Nat
    BY <1>0, <1>5 DEF CountSql, LocalsOK
  <2>4. sqlCount' + inHand'[t] = sqlCount + inHand[t]
    BY <1>0, <2>1, <2>3
  <2>5. SqlAccountedFor'
    BY <1>0, <2>1, <2>2, <2>4, MovedToCount
  <2>6. Undisturbed'
    BY <1>0, <1>5 DEF CountSql, Undisturbed
  <2> QED
    BY <2>5, <2>6 DEF SqlInv
<1>6. ASSUME NEW t \in Threads, Poll(t) PROVE SqlInv'
  <2>1. inHand[t] = 0 /\ inHand'[t] = - SqlCount[Head(queue)]
    BY <1>0, <1>6 DEF Poll, inHand, LocalsOK
  <2>2. /\ sqlCount' = sqlCount
        /\ \A u \in Threads \ {t} : /\ pc'[u] = pc[u] /\ val'[u] = val[u]
                                    /\ rw'[u] = rw[u] /\ decrements'[u] = decrements[u]
    BY <1>0, <1>6 DEF Poll, counters, history
  <2>3. queue # <<>> /\ queue' = Tail(queue) /\ Head(queue) \in Requests /\ Tail(queue) \in Seq(Requests)
    BY <1>0, <1>6, HeadTailProperties DEF Poll
  <2>4. Weight(SqlCount, queue') = Weight(SqlCount, queue) + (inHand'[t] - inHand[t])
    <3>1. Weight(SqlCount, queue) = SqlCount[Head(queue)] + Weight(SqlCount, Tail(queue))
      BY <1>0, <2>3, WeightTail
    <3>2. Weight(SqlCount, Tail(queue)) \in Nat /\ SqlCount[Head(queue)] \in Nat
      BY <1>0, <2>3, WeightType
    <3> QED
      BY <2>1, <2>3, <3>1, <3>2
  <2>5. SqlAccountedFor'
    BY <1>0, <2>1, <2>2, <2>4, MovedToQueue
  <2>6. Undisturbed'
    BY <1>0, <1>6 DEF Poll, Undisturbed
  <2> QED
    BY <2>5, <2>6 DEF SqlInv
<1>7. ASSUME NEW t \in Threads, Discard(t) PROVE SqlInv'
  <2>1. inHand[t] = - SqlCount[rw[t]] /\ inHand'[t] = - SqlCount[rw[t]]
    BY <1>0, <1>7 DEF Discard, inHand, LocalsOK
  <2>2. /\ queue' = queue
        /\ \A u \in Threads \ {t} : /\ pc'[u] = pc[u] /\ val'[u] = val[u]
                                    /\ rw'[u] = rw[u] /\ decrements'[u] = decrements[u]
    BY <1>0, <1>7 DEF Discard, counters, history
  <2>3. sqlCount' = sqlCount
    BY <1>7 DEF Discard
  <2>5. SqlAccountedFor'
    BY <1>0, <2>1, <2>2, <2>3, MovedToCount
  <2>6. Undisturbed'
    BY <1>0, <1>7 DEF Discard, Undisturbed
  <2> QED
    BY <2>5, <2>6 DEF SqlInv
<1>8. ASSUME NEW t \in Threads, Decrement(t) PROVE SqlInv'
  <2>1. inHand[t] = - decrements[t] /\ inHand'[t] = - (decrements[t] - 1)
    BY <1>0, <1>8 DEF Decrement, inHand, LocalsOK
  <2>2. /\ queue' = queue
        /\ \A u \in Threads \ {t} : /\ pc'[u] = pc[u] /\ val'[u] = val[u]
                                    /\ rw'[u] = rw[u] /\ decrements'[u] = decrements[u]
    BY <1>0, <1>8 DEF Decrement, counters, history
  <2>3. sqlCount' = sqlCount - 1 /\ decrements[t] \in Nat
    BY <1>0, <1>8 DEF Decrement
  <2>4. sqlCount' + inHand'[t] = sqlCount + inHand[t]
    BY <1>0, <2>1, <2>3
  <2>5. SqlAccountedFor'
    BY <1>0, <2>1, <2>2, <2>4, MovedToCount
  <2>6. Undisturbed'
    BY <1>0, <1>8 DEF Decrement, Undisturbed
  <2> QED
    BY <2>5, <2>6 DEF SqlInv
<1>9. ASSUME NEW t \in Threads, Unmap(t) PROVE SqlInv'
  <2>1. inHand[t] = 0 /\ inHand'[t] = 0
    BY <1>0, <1>9 DEF Unmap, inHand, LocalsOK
  <2>2. /\ queue' = queue
        /\ \A u \in Threads \ {t} : /\ pc'[u] = pc[u] /\ val'[u] = val[u]
                                    /\ rw'[u] = rw[u] /\ decrements'[u] = decrements[u]
    BY <1>0, <1>9 DEF Unmap, counters, history
  <2>3. sqlCount' = sqlCount
    BY <1>9 DEF Unmap, counters
  <2>5. SqlAccountedFor'
    BY <1>0, <2>1, <2>2, <2>3, MovedToCount
  <2>6. Undisturbed'
    BY <1>0, <1>9 DEF Unmap, Undisturbed
  <2> QED
    BY <2>5, <2>6 DEF SqlInv
<1>10. ASSUME NEW t \in Threads, remove(t) PROVE FALSE
  BY <1>0, <1>10 DEF remove, Lookup, Erase, Unkey, Undisturbed
<1>11. ASSUME UNCHANGED vars PROVE SqlInv'
  <2>1. inHand' = inHand
    BY <1>11 DEF vars, locals, inHand
  <2> QED
    BY <1>0, <1>11, <2>1 DEF vars, locals, counters, SqlInv, SqlAccountedFor, Undisturbed
<1> QED
  BY <1>1, <1>2, <1>3, <1>4, <1>5, <1>6, <1>7, <1>8, <1>9, <1>10, <1>11
  DEF Next, add, removeOldestOne

(* As long as nobody removes requests by key, the SQL count is the number   *)
(* of statements in the repository, up to what threads have in hand: for   *)
(* every number of threads and every interleaving.                         *)
THEOREM StatementsAccounted ==
  ASSUME Removable = {}
  PROVE  Spec => []SqlAccountedFor
<1>1. TypeInv /\ SqlInv /\ [Next]_vars => (TypeInv /\ SqlInv)'
  BY NextTypeInv, NextSql
<1>2. Init => TypeInv /\ SqlInv
  BY InitTypeInv, InitSql
<1>3. SqlInv => SqlAccountedFor
  BY DEF SqlInv
<1> QED
  BY <1>1, <1>2, <1>3, PTL DEF Spec

============================================================================
