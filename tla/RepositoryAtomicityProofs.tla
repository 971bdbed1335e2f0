--------------------- MODULE RepositoryAtomicityProofs ---------------------
(***************************************************************************)
(* Every request in the queue is found by its id, for any number of        *)
(* threads, when no two requests share an id.  With a single caller no     *)
(* add() fails, and the repository is a circular buffer.                   *)
(***************************************************************************)
EXTENDS RepositoryAtomicity, RequestRepositoryProofs

UniqueIds == \A r, s \in Requests : UniqueId[r] = UniqueId[s] => r = s

InQueue(r) == \E i \in 1 .. Len(queue) : queue[i] = r

\* Threads inside add(), those that have not offered their request yet, and
\* those that hold an evicted request.
HoldsEvicted == {"discard", "decrement", "unmap"}
BeforeOffer  == {"offer", "poll"} \cup HoldsEvicted
AddSteps     == BeforeOffer \cup {"put", "count", "countSql"}

\* A request is added by one thread, and by one only.
OneAdder ==
  /\ \A t \in Threads : pc[t] \in AddSteps => status[val[t]] = "adding"
  /\ \A t, u \in Threads :
       pc[t] \in AddSteps /\ pc[u] \in AddSteps /\ val[t] = val[u] => t = u

\* A request that was not offered, or whose offer was refused.
NotEntered(r) ==
  \/ status[r] \in {"new", "refused", "failed"}
  \/ \E t \in Threads : pc[t] \in BeforeOffer /\ val[t] = r

\* It is nowhere: not in the queue, not in the map, not in another thread's
\* hands.
NowhereYet ==
  \A r \in Requests : NotEntered(r) =>
    /\ ~ InQueue(r)
    /\ \A k \in Ids : hashMap[k] # r
    /\ \A t \in Threads : pc[t] \in HoldsEvicted => rw[t] # r
    /\ \A t \in Threads : pc[t] \in {"erase", "unkey"} => val[t] # r

NoDuplicates ==
  \A i, j \in 1 .. Len(queue) : queue[i] = queue[j] => i = j

\* What a thread has taken out of the queue is not in it.
TakenOut ==
  \A t \in Threads :
    /\ pc[t] \in HoldsEvicted => ~ InQueue(rw[t])
    /\ pc[t] = "unkey" => ~ InQueue(val[t])

FindInv == OneAdder /\ NowhereYet /\ NoDuplicates /\ TakenOut /\ QueuedIsFindable

----------------------------------------------------------------------------

LEMMA InitFind == Init => FindInv
  BY RepositoryAssumption
  DEF Init, FindInv, OneAdder, NowhereYet, NoDuplicates, TakenOut,
      QueuedIsFindable, InQueue, NotEntered, AddSteps, BeforeOffer, HoldsEvicted

(* remove(key) leaves the other requests of the queue in their order.       *)
LEMMA EraseElements ==
  ASSUME TypeOK, NoDuplicates, NEW t \in Threads, Erase(t)
  PROVE  /\ queue' \in Seq(Requests)
         /\ \A i \in 1 .. Len(queue') : InQueue(queue'[i]) /\ queue'[i] # val[t]
         /\ NoDuplicates'
<1>1. queue \in Seq(Requests) /\ queue' \in Seq(Requests)
  BY EraseQueue DEF TypeOK
<1>2. CASE queue' = queue /\ \A i \in 1 .. Len(queue) : queue[i] # val[t]
  BY <1>1, <1>2 DEF NoDuplicates, InQueue
<1>3. CASE \E i \in 1 .. Len(queue) : queue[i] = val[t] /\ queue' = RemoveAt(queue, i)
  <2>1. PICK i \in 1 .. Len(queue) : queue[i] = val[t] /\ queue' = RemoveAt(queue, i)
    BY <1>3
  <2>2. Len(queue') = Len(queue) - 1
    BY <1>1, <2>1, RemoveAtShortens
  <2>3. \A j \in 1 .. Len(queue) - 1 : queue'[j] = IF j < i THEN queue[j] ELSE queue[j + 1]
    BY <1>1, <2>1, RemoveAtShortens
  <2>4. \A j, k \in 1 .. Len(queue) : queue[j] = queue[k] => j = k
    BY DEF NoDuplicates
  <2>5. /\ Len(queue) \in Nat /\ i \in Nat /\ i <= Len(queue)
        /\ 1 .. Len(queue') = 1 .. Len(queue) - 1
    BY <1>1, <2>2
  <2>6. \A j \in 1 .. Len(queue') : InQueue(queue'[j]) /\ queue'[j] # val[t]
    <3> SUFFICES ASSUME NEW j \in 1 .. Len(queue')
                 PROVE  InQueue(queue'[j]) /\ queue'[j] # val[t]
      OBVIOUS
    <3>1. CASE j < i
      BY <2>1, <2>3, <2>4, <2>5, <3>1 DEF InQueue
    <3>2. CASE ~ (j < i)
      <4>1. queue'[j] = queue[j + 1] /\ j + 1 \in 1 .. Len(queue) /\ j + 1 # i
        BY <2>3, <2>5, <3>2
      <4> QED
        BY <2>1, <2>4, <4>1 DEF InQueue
    <3> QED
      BY <3>1, <3>2
  <2>7. \A j, k \in 1 .. Len(queue') : queue'[j] = queue'[k] => j = k
    <3> SUFFICES ASSUME NEW j \in 1 .. Len(queue'), NEW k \in 1 .. Len(queue'),
                        queue'[j] = queue'[k]
                 PROVE  j = k
      OBVIOUS
    <3> DEFINE at(n) == IF n < i THEN n ELSE n + 1
    <3>1. /\ at(j) \in 1 .. Len(queue) /\ at(k) \in 1 .. Len(queue)
          /\ queue'[j] = queue[at(j)] /\ queue'[k] = queue[at(k)]
      BY <2>3, <2>5
    <3>2. at(j) = at(k)
      BY <2>4, <3>1
    <3> QED
      BY <2>5, <3>2
  <2> QED
    BY <1>1, <2>6, <2>7 DEF NoDuplicates
<1> QED
  BY <1>2, <1>3 DEF Erase

LEMMA NextFind ==
  ASSUME UniqueIds
  PROVE  TypeInv /\ FindInv /\ [Next]_vars => FindInv'
<1> SUFFICES ASSUME TypeInv, FindInv, [Next]_vars PROVE FindInv'
  OBVIOUS
<1> USE RepositoryAssumption
<1>0. /\ queue \in Seq(Requests) /\ Len(queue) \in Nat
      /\ hashMap \in [Ids -> Requests \cup {NoRequest}]
      /\ pc \in [Threads -> Steps]
      /\ val \in [Threads -> Requests \cup {NoRequest}]
      /\ rw \in [Threads -> Requests \cup {NoRequest}]
      /\ status \in [Requests -> Status]
      /\ \A t \in Threads : pc[t] # "idle" => val[t] \in Requests
      /\ \A t \in Threads : pc[t] \in HoldsEvicted => rw[t] \in Requests
  BY DEF TypeInv, TypeOK, LocalsOK, HoldsEvicted
<1> USE DEF FindInv, OneAdder, NowhereYet, NoDuplicates, TakenOut, QueuedIsFindable,
            InQueue, NotEntered, AddSteps, BeforeOffer, HoldsEvicted, Steps, Status,
            counters, locals, history
<1>1. ASSUME NEW t \in Threads, NEW r \in Requests, AddWithRoom(t, r) PROVE FindInv'
  <2>1. OneAdder'
    BY <1>0, <1>1 DEF AddWithRoom
  <2>2. NowhereYet'
    BY <1>0, <1>1 DEF AddWithRoom
  <2>3. NoDuplicates'
    BY <1>0, <1>1 DEF AddWithRoom
  <2>4. TakenOut'
    BY <1>0, <1>1 DEF AddWithRoom
  <2>5. QueuedIsFindable'
    BY <1>0, <1>1 DEF AddWithRoom
  <2> QED
    BY <2>1, <2>2, <2>3, <2>4, <2>5 DEF FindInv
<1>2. ASSUME NEW t \in Threads, NEW r \in Requests, AddWhenFull(t, r) PROVE FindInv'
  <2>1. OneAdder'
    BY <1>0, <1>2 DEF AddWhenFull
  <2>2. NowhereYet'
    BY <1>0, <1>2 DEF AddWhenFull
  <2>3. NoDuplicates'
    BY <1>0, <1>2 DEF AddWhenFull
  <2>4. TakenOut'
    BY <1>0, <1>2 DEF AddWhenFull
  <2>5. QueuedIsFindable'
    BY <1>0, <1>2 DEF AddWhenFull
  <2> QED
    BY <2>1, <2>2, <2>3, <2>4, <2>5 DEF FindInv
<1>3. ASSUME NEW t \in Threads, Offer(t) PROVE FindInv'
  <2> USE DEF Offer
  <2> HIDE DEF InQueue, NoDuplicates
  <2>0. /\ val[t] \in Requests /\ val'= val /\ hashMap' = hashMap
        /\ pc' = [pc EXCEPT ![t] = "put"] /\ pc[t] = "offer"
    BY <1>0, <1>3
  <2>a. /\ Len(queue') = Len(queue) + 1
        /\ \A i \in 1 .. Len(queue) : queue'[i] = queue[i]
        /\ queue'[Len(queue) + 1] = val[t]
    BY <1>0, <1>3, <2>0, AppendProperties
  <2>b. NotEntered(val[t]) /\ ~ InQueue(val[t])
    BY <2>0
  <2>c. \A i \in 1 .. Len(queue') : i \in 1 .. Len(queue) \/ i = Len(queue) + 1
    BY <1>0, <2>a
  <2>d. \A r : InQueue(r)' => InQueue(r) \/ r = val[t]
    BY <2>a, <2>c DEF InQueue
  <2>1. OneAdder'
    BY <1>0, <1>3 DEF Offer
  <2>2. NowhereYet'
    <3>1. ASSUME NEW r \in Requests, NotEntered(r)' PROVE NotEntered(r) /\ r # val[t]
      BY <1>0, <1>3, <3>1
    <3> HIDE DEF NotEntered
    <3> QED
      BY <1>0, <1>3, <3>1, <2>d
  <2>3. NoDuplicates'
    BY <1>0, <2>a, <2>b, <2>c DEF NoDuplicates, InQueue
  <2>4. TakenOut'
    <3>1. \A u \in Threads : pc[u] \in HoldsEvicted => rw[u] # val[t]
      BY <2>0, <2>b
    <3>2. \A u \in Threads : pc[u] = "unkey" => val[u] # val[t]
      BY <2>0, <2>b
    <3>3. \A u \in Threads : pc'[u] \in HoldsEvicted \cup {"unkey"} => pc'[u] = pc[u]
      BY <1>0, <2>0
    <3> QED
      BY <1>3, <2>0, <2>d, <3>1, <3>2, <3>3
  <2>5. QueuedIsFindable'
    <3> SUFFICES ASSUME NEW i \in 1 .. Len(queue')
                 PROVE  \/ hashMap[UniqueId[queue'[i]]] = queue'[i]
                        \/ \E u \in Threads : pc'[u] = "put" /\ val[u] = queue'[i]
      BY <2>0
    <3>1. CASE i = Len(queue) + 1
      BY <1>0, <2>0, <2>a, <3>1
    <3>2. CASE i \in 1 .. Len(queue)
      <4>1. queue'[i] = queue[i]
        BY <2>a, <3>2
      <4> QED
        BY <1>0, <2>0, <3>2, <4>1
    <3> QED
      BY <2>c, <3>1, <3>2
  <2> QED
    BY <2>1, <2>2, <2>3, <2>4, <2>5
<1>4. ASSUME NEW t \in Threads, OfferRefused(t) PROVE FindInv'
  <2>1. OneAdder'
    BY <1>0, <1>4 DEF OfferRefused
  <2>2. NowhereYet'
    <3>1. ASSUME NEW r \in Requests, NotEntered(r)' PROVE NotEntered(r)
      BY <1>0, <1>4, <3>1 DEF OfferRefused
    <3> HIDE DEF NotEntered, InQueue
    <3>2. \A r : InQueue(r)' <=> InQueue(r)
      BY <1>4 DEF InQueue, OfferRefused
    <3> QED
      BY <1>0, <1>4, <3>1, <3>2 DEF OfferRefused
  <2>3. NoDuplicates'
    BY <1>0, <1>4 DEF OfferRefused
  <2>4. TakenOut'
    BY <1>0, <1>4 DEF OfferRefused
  <2>5. QueuedIsFindable'
    BY <1>0, <1>4 DEF OfferRefused
  <2> QED
    BY <2>1, <2>2, <2>3, <2>4, <2>5 DEF FindInv
<1>5. ASSUME NEW t \in Threads, Put(t) PROVE FindInv'
  <2>1. OneAdder'
    BY <1>0, <1>5 DEF Put, UniqueIds
  <2>2. NowhereYet'
    BY <1>0, <1>5 DEF Put, UniqueIds
  <2>3. NoDuplicates'
    BY <1>0, <1>5 DEF Put, UniqueIds
  <2>4. TakenOut'
    BY <1>0, <1>5 DEF Put, UniqueIds
  <2>5. QueuedIsFindable'
    BY <1>0, <1>5 DEF Put, UniqueIds
  <2> QED
    BY <2>1, <2>2, <2>3, <2>4, <2>5 DEF FindInv
<1>6. ASSUME NEW t \in Threads, Count(t) PROVE FindInv'
  <2>1. OneAdder'
    BY <1>0, <1>6 DEF Count
  <2>2. NowhereYet'
    <3>1. ASSUME NEW r \in Requests, NotEntered(r)' PROVE NotEntered(r)
      BY <1>0, <1>6, <3>1 DEF Count
    <3> QED
      BY <1>0, <1>6, <3>1 DEF Count
  <2>3. NoDuplicates'
    BY <1>0, <1>6 DEF Count
  <2>4. TakenOut'
    BY <1>0, <1>6 DEF Count
  <2>5. QueuedIsFindable'
    BY <1>0, <1>6 DEF Count
  <2> QED
    BY <2>1, <2>2, <2>3, <2>4, <2>5 DEF FindInv
<1>7. ASSUME NEW t \in Threads, CountSql(t) PROVE FindInv'
  <2>1. OneAdder'
    BY <1>0, <1>7 DEF CountSql
  <2>2. NowhereYet'
    BY <1>0, <1>7 DEF CountSql
  <2>3. NoDuplicates'
    BY <1>0, <1>7 DEF CountSql
  <2>4. TakenOut'
    BY <1>0, <1>7 DEF CountSql
  <2>5. QueuedIsFindable'
    BY <1>0, <1>7 DEF CountSql
  <2> QED
    BY <2>1, <2>2, <2>3, <2>4, <2>5 DEF FindInv
<1>8. ASSUME NEW t \in Threads, Poll(t) PROVE FindInv'
  <2>1. OneAdder'
    BY <1>0, <1>8 DEF Poll
  <2>2. NowhereYet'
    <3>1. ASSUME NEW r \in Requests, NotEntered(r)' PROVE NotEntered(r)
      BY <1>0, <1>8, <3>1 DEF Poll
    <3>2. \A r : InQueue(r)' => InQueue(r)
      BY <1>0, <1>8, HeadTailProperties DEF Poll
    <3> QED
      BY <1>0, <1>8, <3>1, <3>2 DEF Poll
  <2>3. NoDuplicates'
    BY <1>0, <1>8 DEF Poll
  <2>4. TakenOut'
    BY <1>0, <1>8 DEF Poll
  <2>5. QueuedIsFindable'
    BY <1>0, <1>8 DEF Poll
  <2> QED
    BY <2>1, <2>2, <2>3, <2>4, <2>5 DEF FindInv
<1>9. ASSUME NEW t \in Threads, PollEmpty(t) PROVE FindInv'
  <2>1. OneAdder'
    BY <1>0, <1>9 DEF PollEmpty
  <2>2. NowhereYet'
    <3>1. ASSUME NEW r \in Requests, NotEntered(r)' PROVE NotEntered(r)
      BY <1>0, <1>9, <3>1 DEF PollEmpty
    <3> HIDE DEF NotEntered, InQueue
    <3>2. \A r : InQueue(r)' <=> InQueue(r)
      BY <1>9 DEF InQueue, PollEmpty
    <3> QED
      BY <1>0, <1>9, <3>1, <3>2 DEF PollEmpty
  <2>3. NoDuplicates'
    BY <1>0, <1>9 DEF PollEmpty
  <2>4. TakenOut'
    BY <1>0, <1>9 DEF PollEmpty
  <2>5. QueuedIsFindable'
    BY <1>0, <1>9 DEF PollEmpty
  <2> QED
    BY <2>1, <2>2, <2>3, <2>4, <2>5 DEF FindInv
<1>10. ASSUME NEW t \in Threads, Discard(t) PROVE FindInv'
  <2>1. OneAdder'
    BY <1>0, <1>10 DEF Discard
  <2>2. NowhereYet'
    BY <1>0, <1>10 DEF Discard
  <2>3. NoDuplicates'
    BY <1>0, <1>10 DEF Discard
  <2>4. TakenOut'
    BY <1>0, <1>10 DEF Discard
  <2>5. QueuedIsFindable'
    BY <1>0, <1>10 DEF Discard
  <2> QED
    BY <2>1, <2>2, <2>3, <2>4, <2>5 DEF FindInv
<1>11. ASSUME NEW t \in Threads, Decrement(t) PROVE FindInv'
  <2>1. OneAdder'
    BY <1>0, <1>11 DEF Decrement
  <2>2. NowhereYet'
    <3>1. ASSUME NEW r \in Requests, NotEntered(r)' PROVE NotEntered(r)
      BY <1>0, <1>11, <3>1 DEF Decrement
    <3> HIDE DEF NotEntered, InQueue
    <3>2. \A r : InQueue(r)' <=> InQueue(r)
      BY <1>11 DEF InQueue, Decrement
    <3> QED
      BY <1>0, <1>11, <3>1, <3>2 DEF Decrement
  <2>3. NoDuplicates'
    BY <1>0, <1>11 DEF Decrement
  <2>4. TakenOut'
    BY <1>0, <1>11 DEF Decrement
  <2>5. QueuedIsFindable'
    BY <1>0, <1>11 DEF Decrement
  <2> QED
    BY <2>1, <2>2, <2>3, <2>4, <2>5 DEF FindInv
<1>12. ASSUME NEW t \in Threads, Unmap(t) PROVE FindInv'
  <2>1. OneAdder'
    BY <1>0, <1>12 DEF Unmap, UniqueIds
  <2>2. NowhereYet'
    BY <1>0, <1>12 DEF Unmap, UniqueIds
  <2>3. NoDuplicates'
    BY <1>0, <1>12 DEF Unmap, UniqueIds
  <2>4. TakenOut'
    BY <1>0, <1>12 DEF Unmap, UniqueIds
  <2>5. QueuedIsFindable'
    BY <1>0, <1>12 DEF Unmap, UniqueIds
  <2> QED
    BY <2>1, <2>2, <2>3, <2>4, <2>5 DEF FindInv
<1>13. ASSUME NEW t \in Threads, NEW k \in Removable, Lookup(t, k) PROVE FindInv'
  <2>1. OneAdder'
    BY <1>0, <1>13 DEF Lookup
  <2>2. NowhereYet'
    BY <1>0, <1>13 DEF Lookup
  <2>3. NoDuplicates'
    BY <1>0, <1>13 DEF Lookup
  <2>4. TakenOut'
    BY <1>0, <1>13 DEF Lookup
  <2>5. QueuedIsFindable'
    BY <1>0, <1>13 DEF Lookup
  <2> QED
    BY <2>1, <2>2, <2>3, <2>4, <2>5 DEF FindInv
<1>14. ASSUME NEW t \in Threads, Erase(t) PROVE FindInv'
  <2> HIDE DEF InQueue, NoDuplicates
  <2>0. /\ queue' \in Seq(Requests)
        /\ \A i \in 1 .. Len(queue') : InQueue(queue'[i]) /\ queue'[i] # val[t]
        /\ NoDuplicates'
    BY <1>14, EraseElements DEF TypeInv
  <2>a. /\ hashMap' = hashMap /\ val' = val /\ rw' = rw /\ status' = status
        /\ pc' = [pc EXCEPT ![t] = "unkey"] /\ pc[t] = "erase"
    BY <1>14 DEF Erase
  <2>b. \A r : InQueue(r)' => InQueue(r) /\ r # val[t]
    BY <2>0 DEF InQueue
  <2>1. OneAdder'
    BY <1>0, <1>14 DEF Erase
  <2>2. NowhereYet'
    <3>1. ASSUME NEW r \in Requests, NotEntered(r)' PROVE NotEntered(r)
      BY <1>0, <2>a, <3>1
    <3> HIDE DEF NotEntered
    <3> QED
      BY <1>0, <2>a, <2>b, <3>1
  <2>4. TakenOut'
    BY <1>0, <2>a, <2>b
  <2>5. QueuedIsFindable'
    <3> SUFFICES ASSUME NEW i \in 1 .. Len(queue')
                 PROVE  \/ hashMap[UniqueId[queue'[i]]] = queue'[i]
                        \/ \E u \in Threads : pc'[u] = "put" /\ val[u] = queue'[i]
      BY <2>a
    <3>1. PICK j \in 1 .. Len(queue) : queue[j] = queue'[i]
      BY <2>0 DEF InQueue
    <3> QED
      BY <1>0, <2>a, <3>1
  <2> QED
    BY <2>0, <2>1, <2>2, <2>4, <2>5 DEF FindInv
<1>15. ASSUME NEW t \in Threads, Unkey(t) PROVE FindInv'
  <2>1. OneAdder'
    BY <1>0, <1>15 DEF Unkey, UniqueIds
  <2>2. NowhereYet'
    BY <1>0, <1>15 DEF Unkey, UniqueIds
  <2>3. NoDuplicates'
    BY <1>0, <1>15 DEF Unkey, UniqueIds
  <2>4. TakenOut'
    BY <1>0, <1>15 DEF Unkey, UniqueIds
  <2>5. QueuedIsFindable'
    <3> SUFFICES ASSUME NEW i \in 1 .. Len(queue)
                 PROVE  \/ hashMap'[UniqueId[queue[i]]] = queue[i]
                        \/ \E u \in Threads : pc'[u] = "put" /\ val'[u] = queue[i]
      BY <1>15 DEF Unkey
    <3>1. queue[i] \in Requests /\ val[t] \in Requests /\ queue[i] # val[t]
      BY <1>0, <1>15 DEF Unkey
    <3>2. UniqueId[queue[i]] # UniqueId[val[t]] /\ UniqueId[queue[i]] \in Ids
      BY <3>1 DEF UniqueIds
    <3>3. CASE hashMap[UniqueId[queue[i]]] = queue[i]
      BY <1>0, <1>15, <3>2, <3>3 DEF Unkey
    <3>4. CASE \E u \in Threads : pc[u] = "put" /\ val[u] = queue[i]
      BY <1>0, <1>15, <3>4 DEF Unkey
    <3> QED
      BY <3>3, <3>4
  <2> QED
    BY <2>1, <2>2, <2>3, <2>4, <2>5 DEF FindInv
<1>16. CASE UNCHANGED vars
  BY <1>0, <1>16 DEF vars
<1> QED
  BY <1>1, <1>2, <1>3, <1>4, <1>5, <1>6, <1>7, <1>8, <1>9, <1>10, <1>11,
     <1>12, <1>13, <1>14, <1>15, <1>16 DEF Next, add, removeOldestOne, remove

(* A request the home page lists is found by its id unless its own add()   *)
(* has not stored it under the id yet.                                     *)
THEOREM Findable ==
  ASSUME UniqueIds
  PROVE  Spec => []QueuedIsFindable
<1>1. FindInv => QueuedIsFindable
  BY DEF FindInv
<1>2. TypeInv /\ FindInv /\ [Next]_vars => FindInv'
  BY NextFind
<1> QED
  BY <1>1, <1>2, TypeInvariant, InitFind, PTL DEF Spec

----------------------------------------------------------------------------
(* One caller                                                              *)

SingleCaller == \A t, u \in Threads : t = u

BatchFits == NumRequestsToDelete \in 1 .. Capacity

\* The places of the queue that are free or will be: an eviction still to come
\* finds a request, and the offer finds a place.
RoomInv ==
  \A t \in Threads :
    /\ pc[t] \in {"poll"} \cup HoldsEvicted
         => Len(queue) = Capacity - NumRequestsToDelete + evictions[t]
    /\ pc[t] = "offer" => Len(queue) < Capacity

SuccessInv == RoomInv /\ NoAddFails

LEMMA InitSuccess == Init => SuccessInv
BY DEF Init, SuccessInv, RoomInv, NoAddFails, HoldsEvicted

LEMMA NextSuccess ==
  ASSUME SingleCaller, BatchFits, TypeInv, SuccessInv, [Next]_vars
  PROVE  SuccessInv'
<1> USE DEF SuccessInv, RoomInv, NoAddFails, HoldsEvicted, Steps
<1>0. /\ pc \in [Threads -> Steps] /\ queue \in Seq(Requests) /\ Len(queue) <= Capacity
      /\ Len(queue) \in Nat /\ evictions \in [Threads -> Nat]
      /\ status \in [Requests -> Status]
      /\ Capacity \in Nat /\ NumRequestsToDelete \in Nat /\ NumRequestsToDelete > 0
      /\ \A t, u \in Threads : t = u
      /\ \A t \in Threads : pc[t] # "idle" => val[t] \in Requests
      /\ \A t \in Threads : pc[t] = "poll" => evictions[t] > 0
  BY RepositoryAssumption DEF TypeInv, TypeOK, LocalsOK, SingleCaller, BatchFits
<1>1. ASSUME NEW t \in Threads, NEW r \in Requests, AddWithRoom(t, r) PROVE SuccessInv'
  BY <1>0, <1>1 DEF AddWithRoom, HasRoom, Status
<1>2. ASSUME NEW t \in Threads, NEW r \in Requests, AddWhenFull(t, r) PROVE SuccessInv'
  BY <1>0, <1>2 DEF AddWhenFull, HasRoom, Status
<1>3. ASSUME NEW t \in Threads, Offer(t) PROVE SuccessInv'
  BY <1>0, <1>3 DEF Offer, history
<1>4. ASSUME NEW t \in Threads, OfferRefused(t) PROVE FALSE
  BY <1>0, <1>4 DEF OfferRefused, Fits
<1>5. ASSUME NEW t \in Threads, Put(t) \/ Count(t) PROVE SuccessInv'
  BY <1>0, <1>5 DEF Put, Count, history
<1>6. ASSUME NEW t \in Threads, CountSql(t) PROVE SuccessInv'
  BY <1>0, <1>6 DEF CountSql, Status
<1>7. ASSUME NEW t \in Threads, Poll(t) PROVE SuccessInv'
  <2>1. Len(queue') = Len(queue) - 1
    BY <1>0, <1>7, HeadTailProperties DEF Poll
  <2>2. RoomInv'
    BY <1>0, <1>7, <2>1 DEF Poll
  <2> QED
    BY <1>7, <2>2 DEF Poll, history
<1>8. ASSUME NEW t \in Threads, PollEmpty(t) PROVE FALSE
  <2>1. Len(queue) > 0
    BY <1>0, <1>8 DEF PollEmpty, BatchFits
  <2> QED
    BY <1>8, <2>1 DEF PollEmpty
<1>9. ASSUME NEW t \in Threads, Discard(t) \/ Decrement(t) PROVE SuccessInv'
  BY <1>0, <1>9 DEF Discard, Decrement, history
<1>10. ASSUME NEW t \in Threads, Unmap(t) PROVE SuccessInv'
  BY <1>0, <1>10 DEF Unmap, history
<1>11. ASSUME NEW t \in Threads, remove(t) PROVE SuccessInv'
  BY <1>0, <1>11 DEF remove, Lookup, Erase, Unkey, history
<1>12. CASE UNCHANGED vars
  BY <1>12 DEF vars, locals, history
<1> QED
  BY <1>1, <1>2, <1>3, <1>4, <1>5, <1>6, <1>7, <1>8, <1>9, <1>10, <1>11, <1>12
  DEF Next, add, removeOldestOne

(* A single caller's add() never throws, whatever it removes by key in      *)
(* between: its batch makes room and never finds the queue empty.          *)
THEOREM AddsSucceed ==
  ASSUME SingleCaller, BatchFits
  PROVE  Spec => []NoAddFails
<1>1. TypeInv /\ SuccessInv /\ [Next]_vars => SuccessInv'
  BY NextSuccess
<1>2. SuccessInv => NoAddFails
  BY DEF SuccessInv
<1> QED
  BY <1>1, <1>2, TypeInvariant, InitSuccess, PTL DEF Spec

----------------------------------------------------------------------------
(* The repository as a circular buffer                                     *)

\* The map has a request under its own id, and only while it is in the queue
\* or its eviction is under way.
MappedInv ==
  \A k \in Ids : hashMap[k] # NoRequest =>
    /\ UniqueId[hashMap[k]] = k
    /\ \/ InQueue(hashMap[k])
       \/ \E t \in Threads : pc[t] \in HoldsEvicted /\ rw[t] = hashMap[k]

\* What the buffer that the caller last saw becomes: the victims leave one by
\* one, then the new request enters, then it is counted.
Victims == IF Len(settled.buffer) = Capacity THEN NumRequestsToDelete ELSE 0
Polls(t) == NumRequestsToDelete - evictions[t]
From(n) == SubSeq(settled.buffer, n + 1, Len(settled.buffer))

SettledType ==
  /\ settled.buffer \in Seq(Requests) /\ Len(settled.buffer) <= Capacity
  /\ settled.total \in Nat /\ settled.discarded \in Nat

SettledOf(t) ==
  /\ pc[t] = "idle" => settled = Snapshot
  /\ pc[t] # "idle" => \A i \in 1 .. Len(settled.buffer) : settled.buffer[i] # val[t]
  /\ pc[t] \in BeforeOffer \cup {"put", "count"} => total = settled.total
  /\ pc[t] = "countSql" => total = settled.total + 1
  /\ pc[t] \in {"poll"} \cup HoldsEvicted =>
       /\ Len(settled.buffer) = Capacity
       /\ queue = From(Polls(t))
       /\ discarded = settled.discarded + Polls(t) - (IF pc[t] = "discard" THEN 1 ELSE 0)
  /\ pc[t] \in {"offer", "put", "count", "countSql"} =>
       discarded = settled.discarded + Victims
  /\ pc[t] = "offer" => queue = From(Victims)
  /\ pc[t] \in {"put", "count", "countSql"} => queue = Append(From(Victims), val[t])

SettledInv == SettledType /\ \A t \in Threads : SettledOf(t)

Unique == SingleCaller /\ BatchFits /\ UniqueIds /\ Removable = {}

BufferInv == TypeInv /\ SqlInv /\ FindInv /\ SuccessInv /\ MappedInv /\ SettledInv

LEMMA InitBuffer == AtomicityInit => BufferInv
<1> SUFFICES ASSUME AtomicityInit PROVE BufferInv
  OBVIOUS
<1>1. TypeInv /\ SqlInv /\ FindInv /\ SuccessInv
  BY InitTypeInv, InitSql, InitFind, InitSuccess DEF AtomicityInit
<1>2. MappedInv
  BY DEF AtomicityInit, Init, MappedInv
<1>3. settled.buffer = <<>> /\ settled.total = 0 /\ settled.discarded = 0
  BY DEF AtomicityInit, Init, Snapshot
<1>4. SettledInv
  BY <1>3, RepositoryAssumption
  DEF AtomicityInit, Init, SettledInv, SettledOf, SettledType, HoldsEvicted, BeforeOffer
<1> QED
  BY <1>1, <1>2, <1>4 DEF BufferInv

(* A request enters the map after the queue and leaves it after the queue.  *)
LEMMA NextMapped ==
  ASSUME Unique, BufferInv, [Next]_vars
  PROVE  MappedInv'
<1> SUFFICES ASSUME NEW k \in Ids, hashMap'[k] # NoRequest
             PROVE  /\ UniqueId[hashMap'[k]] = k
                    /\ \/ \E i \in 1 .. Len(queue') : queue'[i] = hashMap'[k]
                       \/ \E t \in Threads : pc'[t] \in HoldsEvicted /\ rw'[t] = hashMap'[k]
  BY DEF MappedInv, InQueue
<1> DEFINE Goal == /\ UniqueId[hashMap'[k]] = k
                   /\ \/ \E i \in 1 .. Len(queue') : queue'[i] = hashMap'[k]
                      \/ \E t \in Threads : pc'[t] \in HoldsEvicted /\ rw'[t] = hashMap'[k]
<1> USE RepositoryAssumption DEF HoldsEvicted
<1>0. /\ queue \in Seq(Requests) /\ Len(queue) \in Nat
      /\ pc \in [Threads -> Steps] /\ hashMap \in [Ids -> Requests \cup {NoRequest}]
      /\ val \in [Threads -> Requests \cup {NoRequest}]
      /\ rw \in [Threads -> Requests \cup {NoRequest}]
      /\ \A t, u \in Threads : t = u
      /\ \A r, s \in Requests : UniqueId[r] = UniqueId[s] => r = s
      /\ \A t \in Threads : pc[t] # "idle" => val[t] \in Requests
      /\ \A t \in Threads : pc[t] \in HoldsEvicted => rw[t] \in Requests
      /\ Undisturbed /\ Removable = {}
  BY DEF BufferInv, TypeInv, TypeOK, LocalsOK, Unique, SingleCaller, UniqueIds, SqlInv
<1>k. hashMap[k] # NoRequest =>
        /\ UniqueId[hashMap[k]] = k
        /\ \/ \E i \in 1 .. Len(queue) : queue[i] = hashMap[k]
           \/ \E t \in Threads : pc[t] \in HoldsEvicted /\ rw[t] = hashMap[k]
  BY DEF BufferInv, MappedInv, InQueue
<1>1. ASSUME NEW t \in Threads, NEW r \in Requests, AddWithRoom(t, r) \/ AddWhenFull(t, r)
      PROVE  Goal
  BY <1>0, <1>k, <1>1 DEF AddWithRoom, AddWhenFull
<1>2. ASSUME NEW t \in Threads, Offer(t) PROVE Goal
  <2>1. \A i \in 1 .. Len(queue) : i \in 1 .. Len(queue') /\ queue'[i] = queue[i]
    BY <1>0, <1>k, <1>2 DEF Offer
  <2>2. hashMap' = hashMap /\ rw' = rw /\ \A u \in Threads : pc[u] \notin HoldsEvicted
    BY <1>0, <1>k, <1>2 DEF Offer
  <2> QED
    BY <1>0, <1>k, <2>1, <2>2
<1>3. ASSUME NEW t \in Threads, OfferRefused(t) \/ PollEmpty(t) PROVE Goal
  BY <1>0, <1>k, <1>3 DEF OfferRefused, PollEmpty
<1>4. ASSUME NEW t \in Threads, Put(t) PROVE Goal
  <2>1. \E i \in 1 .. Len(queue) : queue[i] = val[t]
    <3>1. SettledType /\ queue = Append(From(Victims), val[t])
      BY <1>4 DEF BufferInv, SettledInv, SettledOf, Put
    <3>2. From(Victims) \in Seq(Requests)
      BY <3>1 DEF SettledType, From, Victims
    <3>3. queue[Len(queue)] = val[t] /\ Len(queue) \in 1 .. Len(queue)
      BY <1>0, <1>k, <3>1, <3>2, AppendProperties
    <3> QED
      BY <3>3
  <2>2. val[t] \in Requests /\ val[t] # NoRequest /\ UniqueId[val[t]] \in Ids
    BY <1>0, <1>k, <1>4 DEF Put
  <2>3. queue' = queue /\ hashMap' = [hashMap EXCEPT ![UniqueId[val[t]]] = val[t]] /\ rw' = rw
    BY <1>4 DEF Put
  <2>4. \A u \in Threads : pc[u] \notin HoldsEvicted
    BY <1>0, <1>k, <1>4 DEF Put
  <2> QED
    BY <1>0, <1>k, <2>1, <2>2, <2>3, <2>4
<1>5. ASSUME NEW t \in Threads, Count(t) \/ CountSql(t) PROVE Goal
  BY <1>0, <1>k, <1>5 DEF Count, CountSql
<1>6. ASSUME NEW t \in Threads, Poll(t) PROVE Goal
  <2>1. ASSUME NEW j \in 1 .. Len(queue), queue[j] # Head(queue)
        PROVE  \E i \in 1 .. Len(queue') : queue'[i] = queue[j]
    <3>1. /\ Len(queue') = Len(queue) - 1 /\ queue[1] = Head(queue)
          /\ \A i \in 1 .. Len(queue) - 1 : queue'[i] = queue[i + 1]
      BY <1>0, <1>k, <1>6, HeadTailProperties DEF Poll
    <3>2. j - 1 \in 1 .. Len(queue') /\ queue'[j - 1] = queue[j]
      BY <1>0, <1>k, <2>1, <3>1
    <3> QED
      BY <3>2
  <2>2. /\ hashMap' = hashMap /\ pc'[t] = "discard" /\ rw'[t] = Head(queue)
        /\ \A u \in Threads : pc[u] \notin HoldsEvicted
    BY <1>0, <1>k, <1>6 DEF Poll
  <2> QED
    BY <1>0, <1>k, <2>1, <2>2
<1>7. ASSUME NEW t \in Threads, Discard(t) \/ Decrement(t) PROVE Goal
  BY <1>0, <1>k, <1>7 DEF Discard, Decrement
<1>8. ASSUME NEW t \in Threads, Unmap(t) PROVE Goal
  <2>1. /\ rw[t] \in Requests /\ k # UniqueId[rw[t]] /\ hashMap'[k] = hashMap[k]
        /\ queue' = queue
    BY <1>0, <1>k, <1>8 DEF Unmap
  <2>2. UniqueId[hashMap[k]] = k /\ hashMap[k] # rw[t]
    BY <1>0, <1>k, <2>1
  <2>3. \E i \in 1 .. Len(queue) : queue[i] = hashMap[k]
    BY <1>0, <1>k, <2>1, <2>2
  <2> QED
    BY <2>1, <2>2, <2>3
<1>9. ASSUME NEW t \in Threads, remove(t) PROVE FALSE
  BY <1>0, <1>k, <1>9 DEF remove, Lookup, Erase, Unkey, Undisturbed
<1>10. CASE UNCHANGED vars
  BY <1>0, <1>k, <1>10 DEF vars, locals
<1> QED
  BY <1>1, <1>2, <1>3, <1>4, <1>5, <1>6, <1>7, <1>8, <1>9, <1>10
  DEF Next, add, removeOldestOne

LEMMA FromTail ==
  ASSUME SettledType, NEW n \in Nat, n < Len(settled.buffer)
  PROVE  Tail(From(n)) = From(n + 1)
<1> DEFINE b == settled.buffer
<1>1. b \in Seq(Requests) /\ Len(b) \in Nat
  BY DEF SettledType
<1>2. /\ From(n) \in Seq(Requests) /\ Len(From(n)) = Len(b) - n
      /\ \A i \in 1 .. Len(b) - n : From(n)[i] = b[n + i]
  BY <1>1, SubSeqProperties DEF From
<1>3. /\ From(n + 1) \in Seq(Requests) /\ Len(From(n + 1)) = Len(b) - n - 1
      /\ \A i \in 1 .. Len(b) - n - 1 : From(n + 1)[i] = b[n + 1 + i]
  BY <1>1, SubSeqProperties DEF From
<1>4. From(n) # <<>>
  BY <1>1, <1>2
<1>5. /\ Tail(From(n)) \in Seq(Requests) /\ Len(Tail(From(n))) = Len(b) - n - 1
      /\ \A i \in 1 .. Len(b) - n - 1 : Tail(From(n))[i] = From(n)[i + 1]
  BY <1>1, <1>2, <1>4, HeadTailProperties
<1> HIDE DEF b
<1>6. \A i \in 1 .. Len(b) - n - 1 : Tail(From(n))[i] = From(n + 1)[i]
  <2> SUFFICES ASSUME NEW i \in 1 .. Len(b) - n - 1 PROVE Tail(From(n))[i] = From(n + 1)[i]
    OBVIOUS
  <2>1. i + 1 \in 1 .. Len(b) - n /\ n + (i + 1) = n + 1 + i
    BY <1>1
  <2> QED
    BY <1>2, <1>3, <1>5, <2>1
<1> QED
  BY <1>3, <1>5, <1>6, SeqEqual

LEMMA FromNone == ASSUME SettledType PROVE From(0) = settled.buffer
BY SubSeqFull DEF SettledType, From

(* None of the exceptions is thrown, and nothing is removed by key.         *)
LEMMA NeverRefused ==
  ASSUME Unique, BufferInv, NEW t \in Threads,
         OfferRefused(t) \/ PollEmpty(t) \/ remove(t)
  PROVE  FALSE
<1>0. /\ queue \in Seq(Requests) /\ Len(queue) \in Nat
      /\ Capacity \in Nat /\ NumRequestsToDelete \in Nat /\ NumRequestsToDelete <= Capacity
      /\ Removable = {} /\ Undisturbed
  BY RepositoryAssumption DEF BufferInv, TypeInv, TypeOK, Unique, BatchFits, SqlInv
<1>1. ASSUME OfferRefused(t) PROVE FALSE
  BY <1>0, <1>1 DEF BufferInv, SuccessInv, RoomInv, OfferRefused, Fits
<1>2. ASSUME PollEmpty(t) PROVE FALSE
  <2>1. /\ Len(queue) = Capacity - NumRequestsToDelete + evictions[t]
        /\ evictions[t] > 0 /\ evictions[t] \in Nat
    BY <1>2 DEF BufferInv, SuccessInv, RoomInv, PollEmpty, TypeInv, TypeOK, LocalsOK
  <2>2. Len(queue) = 0
    BY <1>2 DEF PollEmpty
  <2> QED
    BY <1>0, <2>1, <2>2
<1>3. ASSUME remove(t) PROVE FALSE
  BY <1>0, <1>3 DEF remove, Lookup, Erase, Unkey, Undisturbed
<1> QED
  BY <1>1, <1>2, <1>3

(* While the caller is inside a method the abstract state waits, and the    *)
(* queue and the counters run through what one add() makes of it.          *)
LEMMA NextSettled ==
  ASSUME Unique, BufferInv, TypeInv', [AtomicityNext]_<<vars, settled>>
  PROVE  SettledInv'
<1> USE RepositoryAssumption
<1>0. /\ queue \in Seq(Requests) /\ Len(queue) \in Nat /\ Len(queue) <= Capacity
      /\ pc \in [Threads -> Steps] /\ val \in [Threads -> Requests \cup {NoRequest}]
      /\ evictions \in [Threads -> Nat] /\ decrements \in [Threads -> Nat]
      /\ total \in Nat /\ discarded \in Nat
      /\ Capacity \in Nat /\ NumRequestsToDelete \in Nat /\ NumRequestsToDelete > 0
      /\ NumRequestsToDelete <= Capacity
      /\ \A t, u \in Threads : t = u
      /\ Removable = {} /\ Undisturbed
  BY DEF BufferInv, TypeInv, TypeOK, Unique, SingleCaller, BatchFits, SqlInv
<1>t. /\ SettledType /\ settled.buffer \in Seq(Requests) /\ Len(settled.buffer) \in Nat
      /\ settled.total \in Nat /\ settled.discarded \in Nat
      /\ \A t \in Threads : SettledOf(t)
      /\ \A t \in Threads : evictions[t] <= NumRequestsToDelete
      /\ \A t \in Threads : pc[t] = "poll" => evictions[t] > 0
      /\ \A t \in Threads : pc[t] # "idle" => val[t] \in Requests
  BY DEF BufferInv, SettledInv, SettledType, TypeInv, LocalsOK
<1>v. Victims \in Nat /\ (Len(settled.buffer) = Capacity => Victims = NumRequestsToDelete)
                      /\ (Len(settled.buffer) # Capacity => Victims = 0)
  BY <1>0 DEF Victims
<1>1. ASSUME NEW t \in Threads, pc'[t] # "idle", settled' = settled, SettledOf(t)'
      PROVE  SettledInv'
  BY <1>0, <1>1, <1>t DEF SettledInv, SettledType
<1>2. ASSUME NEW t \in Threads, pc'[t] # "idle", AtomicityNext PROVE settled' = settled
  BY <1>2 DEF AtomicityNext, AtRest
<1> DEFINE Waiting(t) == pc'[t] # "idle" /\ SettledOf(t)'
<1>3. ASSUME NEW t \in Threads, AtomicityNext, Waiting(t) PROVE SettledInv'
  BY <1>1, <1>2, <1>3
<1> USE DEF HoldsEvicted, BeforeOffer, Steps
<1>4. ASSUME AtomicityNext, NEW t \in Threads, NEW r \in Requests, AddWithRoom(t, r)
      PROVE  Waiting(t)
  <2>1. pc'[t] = "offer" /\ val'[t] = r /\ UNCHANGED <<queue, total, discarded>> /\ settled' = settled
    BY <1>0, <1>2, <1>4 DEF AddWithRoom, counters
  <2>2. settled = Snapshot /\ Len(queue) < Capacity
    BY <1>0, <1>4, <1>t DEF AddWithRoom, SettledOf, HasRoom
  <2>3. settled.buffer = queue /\ settled.total = total /\ settled.discarded = discarded
    BY <2>2 DEF Snapshot
  <2>4. Victims = 0 /\ From(Victims) = queue
    BY <1>0, <1>t, <1>v, <2>2, <2>3, FromNone
  <2>5. \A i \in 1 .. Len(queue) : queue[i] # r
    BY <1>4 DEF BufferInv, FindInv, NowhereYet, NotEntered, InQueue, AddWithRoom
  <2>6. Victims' = Victims /\ From(Victims)' = From(Victims)
    BY <2>1 DEF Victims, From
  <2> QED
    BY <1>0, <2>1, <2>3, <2>4, <2>5, <2>6 DEF SettledOf
<1>5. ASSUME AtomicityNext, NEW t \in Threads, NEW r \in Requests, AddWhenFull(t, r)
      PROVE  Waiting(t)
  <2>1. /\ pc'[t] = "poll" /\ val'[t] = r /\ UNCHANGED <<queue, total, discarded>>
        /\ evictions'[t] = NumRequestsToDelete
    BY <1>0, <1>5 DEF AddWhenFull, counters
  <2>0. settled' = settled
    BY <1>2, <1>5, <2>1
  <2>2. settled = Snapshot /\ Len(queue) = Capacity
    BY <1>0, <1>5, <1>t DEF AddWhenFull, SettledOf, HasRoom
  <2>3. settled.buffer = queue /\ settled.total = total /\ settled.discarded = discarded
    BY <2>2 DEF Snapshot
  <2>4. Polls(t)' = 0 /\ From(0) = queue
    BY <1>0, <1>t, <2>1, <2>3, FromNone DEF Polls
  <2>5. \A i \in 1 .. Len(queue) : queue[i] # r
    BY <1>5 DEF BufferInv, FindInv, NowhereYet, NotEntered, InQueue, AddWhenFull
  <2>6. From(Polls(t))' = From(0)
    BY <2>0, <2>4 DEF From
  <2> QED
    BY <1>0, <2>0, <2>1, <2>2, <2>3, <2>4, <2>5, <2>6 DEF SettledOf
<1>6. ASSUME AtomicityNext, NEW t \in Threads, Offer(t) PROVE Waiting(t)
  <2>1. /\ pc[t] = "offer" /\ pc'[t] = "put" /\ queue' = Append(queue, val[t])
        /\ UNCHANGED <<val, total, discarded>>
    BY <1>0, <1>6 DEF Offer, counters
  <2>0. settled' = settled
    BY <1>2, <1>6, <2>1
  <2>2. Victims' = Victims /\ From(Victims)' = From(Victims)
    BY <2>0 DEF Victims, From
  <2> QED
    BY <1>t, <2>0, <2>1, <2>2 DEF SettledOf
<1>7. ASSUME AtomicityNext, NEW t \in Threads, Put(t) \/ Count(t) PROVE Waiting(t)
  <2>1. \/ pc[t] = "put" /\ pc'[t] = "count" /\ total' = total
        \/ pc[t] = "count" /\ pc'[t] = "countSql" /\ total' = total + 1
    BY <1>0, <1>7 DEF Put, Count, counters
  <2>2. UNCHANGED <<queue, val, discarded>>
    BY <1>7 DEF Put, Count, counters
  <2>0. settled' = settled
    BY <1>2, <1>7, <2>1
  <2>3. Victims' = Victims /\ From(Victims)' = From(Victims)
    BY <2>0 DEF Victims, From
  <2> QED
    BY <1>t, <2>0, <2>1, <2>2, <2>3 DEF SettledOf
<1>8. ASSUME AtomicityNext, NEW t \in Threads, CountSql(t) PROVE SettledInv'
  <2>1. AtRest'
    BY <1>0, <1>8 DEF CountSql, AtRest
  <2>2. settled' = Snapshot'
    BY <1>8, <2>1 DEF AtomicityNext
  <2>3. /\ settled'.buffer = queue' /\ settled'.total = total' /\ settled'.discarded = discarded'
    BY <2>2 DEF Snapshot
  <2>4. /\ queue' \in Seq(Requests) /\ Len(queue') <= Capacity
        /\ total' \in Nat /\ discarded' \in Nat
    BY DEF TypeInv, TypeOK
  <2> QED
    BY <2>1, <2>2, <2>3, <2>4 DEF SettledInv, SettledType, SettledOf, AtRest
<1>9. ASSUME AtomicityNext, NEW t \in Threads, Poll(t) PROVE Waiting(t)
  <2>1. /\ pc[t] = "poll" /\ pc'[t] = "discard" /\ queue' = Tail(queue)
        /\ UNCHANGED <<val, total, discarded>> /\ evictions'[t] = evictions[t] - 1
    BY <1>0, <1>9 DEF Poll, counters
  <2>0. settled' = settled
    BY <1>2, <1>9, <2>1
  <2>2. /\ Polls(t) \in Nat /\ Polls(t)' = Polls(t) + 1 /\ Polls(t) < NumRequestsToDelete
    BY <1>0, <1>t, <2>1 DEF Polls
  <2>3. /\ Len(settled.buffer) = Capacity /\ queue = From(Polls(t))
        /\ discarded = settled.discarded + Polls(t) /\ total = settled.total
        /\ \A i \in 1 .. Len(settled.buffer) : settled.buffer[i] # val[t]
    <3>1. /\ Len(settled.buffer) = Capacity /\ queue = From(Polls(t)) /\ total = settled.total
          /\ discarded = settled.discarded + Polls(t) - (IF pc[t] = "discard" THEN 1 ELSE 0)
          /\ \A i \in 1 .. Len(settled.buffer) : settled.buffer[i] # val[t]
      BY <1>t, <2>1 DEF SettledOf
    <3> QED
      BY <1>t, <2>1, <2>2, <3>1
  <2>4. Tail(queue) = From(Polls(t) + 1)
    <3>1. Polls(t) < Len(settled.buffer)
      BY <1>0, <2>2, <2>3
    <3> QED
      BY <1>t, <2>2, <2>3, <3>1, FromTail
  <2>5. From(Polls(t))' = From(Polls(t) + 1)
    BY <2>0, <2>2 DEF From
  <2>6. discarded' = settled'.discarded + Polls(t)' - 1
    BY <1>t, <2>0, <2>1, <2>2, <2>3
  <2> QED
    BY <2>0, <2>1, <2>3, <2>4, <2>5, <2>6 DEF SettledOf
<1>10. ASSUME AtomicityNext, NEW t \in Threads, Discard(t) \/ Decrement(t) PROVE Waiting(t)
  <2>1. /\ pc'[t] \in {"decrement", "unmap"} /\ UNCHANGED <<queue, val, total, evictions>>
        /\ \/ pc[t] = "discard" /\ discarded' = discarded + 1
           \/ pc[t] = "decrement" /\ discarded' = discarded
    BY <1>0, <1>10 DEF Discard, Decrement
  <2>0. settled' = settled
    BY <1>2, <1>10, <2>1
  <2>2. Polls(t)' = Polls(t) /\ From(Polls(t))' = From(Polls(t)) /\ Polls(t) \in Int
    BY <1>0, <2>0, <2>1 DEF Polls, From
  <2>3. /\ Len(settled.buffer) = Capacity /\ queue = From(Polls(t)) /\ total = settled.total
        /\ discarded = settled.discarded + Polls(t) - (IF pc[t] = "discard" THEN 1 ELSE 0)
        /\ \A i \in 1 .. Len(settled.buffer) : settled.buffer[i] # val[t]
    BY <1>0, <1>t, <2>1 DEF SettledOf
  <2>4. discarded' = settled'.discarded + Polls(t)'
    <3>1. discarded' = settled.discarded + Polls(t)
      BY <1>0, <1>t, <2>1, <2>2, <2>3
    <3> QED
      BY <2>0, <2>2, <3>1
  <2>5. discarded' = settled'.discarded + Polls(t)' - 0
    BY <1>t, <2>0, <2>2, <2>4
  <2> QED
    BY <2>0, <2>1, <2>2, <2>3, <2>5 DEF SettledOf
<1>11. ASSUME AtomicityNext, NEW t \in Threads, Unmap(t) PROVE Waiting(t)
  <2>1. /\ pc[t] = "unmap" /\ UNCHANGED <<queue, val, total, discarded, evictions>>
        /\ pc'[t] = IF evictions[t] > 0 THEN "poll" ELSE "offer"
    BY <1>0, <1>11 DEF Unmap, counters
  <2>0. settled' = settled
    BY <1>2, <1>11, <2>1
  <2>2. Polls(t)' = Polls(t) /\ From(Polls(t))' = From(Polls(t)) /\ Polls(t) \in Int
    BY <1>0, <2>0, <2>1 DEF Polls, From
  <2>3. /\ Len(settled.buffer) = Capacity /\ queue = From(Polls(t)) /\ total = settled.total
        /\ discarded = settled.discarded + Polls(t)
        /\ \A i \in 1 .. Len(settled.buffer) : settled.buffer[i] # val[t]
    <3>1. /\ Len(settled.buffer) = Capacity /\ queue = From(Polls(t)) /\ total = settled.total
          /\ discarded = settled.discarded + Polls(t) - (IF pc[t] = "discard" THEN 1 ELSE 0)
          /\ \A i \in 1 .. Len(settled.buffer) : settled.buffer[i] # val[t]
      BY <1>t, <2>1 DEF SettledOf
    <3> QED
      BY <1>t, <2>1, <2>2, <3>1
  <2>4. Victims' = Victims /\ From(Victims)' = From(Victims) /\ Victims = NumRequestsToDelete
    BY <1>v, <2>0, <2>3 DEF Victims, From
  <2>5. evictions[t] = 0 => Polls(t) = NumRequestsToDelete
    BY <1>0 DEF Polls
  <2>6. CASE evictions[t] > 0
    BY <1>t, <2>0, <2>1, <2>2, <2>3, <2>6 DEF SettledOf
  <2>7. CASE evictions[t] = 0
    BY <1>t, <2>0, <2>1, <2>2, <2>3, <2>4, <2>5, <2>7 DEF SettledOf
  <2> QED
    BY <1>0, <2>6, <2>7
<1>12. ASSUME NEW t \in Threads, OfferRefused(t) \/ PollEmpty(t) \/ remove(t) PROVE FALSE
  BY <1>12, NeverRefused
<1>13. CASE UNCHANGED <<vars, settled>>
  <2>1. UNCHANGED <<queue, hashMap, total, discarded, sqlCount, pc, val, evictions, settled>>
    BY <1>13 DEF vars, counters, locals
  <2>2. Snapshot' = Snapshot /\ Victims' = Victims /\ SettledType'
    BY <1>t, <2>1 DEF Snapshot, Victims, SettledType
  <2>3. From(Victims)' = From(Victims)
    BY <2>1, <2>2 DEF From
  <2>4. \A t \in Threads : Polls(t)' = Polls(t) /\ From(Polls(t))' = From(Polls(t))
    BY <2>1 DEF Polls, From
  <2>5. \A t \in Threads : SettledOf(t)'
    BY <1>t, <2>1, <2>2, <2>3, <2>4 DEF SettledOf
  <2> QED
    BY <2>2, <2>5 DEF SettledInv
<1>14. CASE AtomicityNext
  <2>1. PICK t \in Threads : add(t) \/ removeOldestOne(t) \/ remove(t)
    BY <1>14 DEF AtomicityNext, Next
  <2> HIDE DEF Waiting
  <2> QED
    BY <1>3, <1>4, <1>5, <1>6, <1>7, <1>8, <1>9, <1>10, <1>11, <1>12, <1>14, <2>1
    DEF add, removeOldestOne
<1> QED
  BY <1>13, <1>14

LEMMA NextBuffer ==
  ASSUME Unique, BufferInv, [AtomicityNext]_<<vars, settled>>
  PROVE  BufferInv'
<1>1. [Next]_vars
  BY DEF AtomicityNext
<1>2. TypeInv'
  BY <1>1, NextTypeInv DEF BufferInv
<1>3. SqlInv'
  BY <1>1, <1>2, NextSql DEF BufferInv, Unique
<1>4. FindInv'
  BY <1>1, NextFind DEF BufferInv, Unique
<1>5. SuccessInv'
  BY <1>1, NextSuccess DEF BufferInv, Unique
<1>6. MappedInv'
  BY <1>1, NextMapped
<1>7. SettledInv'
  BY <1>2, NextSettled
<1> QED
  BY <1>2, <1>3, <1>4, <1>5, <1>6, <1>7 DEF BufferInv

(* Outside its methods the map has the requests of the queue and the SQL    *)
(* count is their number of statements.                                    *)
LEMMA RestAgrees ==
  ASSUME BufferInv', AtRest'
  PROVE  /\ Snapshot'.findable = ToSet(queue')
         /\ sqlCount' = SumFunction([i \in DOMAIN queue' |-> SqlCount[queue'[i]]])
<1> USE RepositoryAssumption
<1>1. /\ queue' \in Seq(Requests) /\ Len(queue') \in Nat /\ sqlCount' \in Int
      /\ hashMap' \in [Ids -> Requests \cup {NoRequest}]
      /\ \A i \in 1 .. Len(queue') : queue'[i] \in Requests
      /\ DOMAIN queue' = 1 .. Len(queue')
  BY DEF BufferInv, TypeInv, TypeOK
<1>2. \A t \in Threads : pc'[t] = "idle"
  BY DEF AtRest
<1>3. Snapshot'.findable = ToSet(queue')
  <2>1. \A i \in 1 .. Len(queue') : hashMap'[UniqueId[queue'[i]]] = queue'[i]
    BY <1>2 DEF BufferInv, FindInv, QueuedIsFindable
  <2>2. \A k \in Ids : hashMap'[k] # NoRequest => \E i \in 1 .. Len(queue') : queue'[i] = hashMap'[k]
    BY <1>2 DEF BufferInv, MappedInv, InQueue, HoldsEvicted
  <2>3. Snapshot'.findable = {hashMap'[k] : k \in Ids} \ {NoRequest}
    BY DEF Snapshot
  <2>4. ToSet(queue') = {queue'[i] : i \in 1 .. Len(queue')}
    BY <1>1 DEF ToSet
  <2>5. \A i \in 1 .. Len(queue') : UniqueId[queue'[i]] \in Ids /\ queue'[i] # NoRequest
    BY <1>1
  <2> QED
    BY <2>1, <2>2, <2>3, <2>4, <2>5
<1>4. SumFunction(inHand') = 0
  <2>1. inHand' = [t \in Threads |-> 0]
    BY <1>2 DEF inHand
  <2> DEFINE none == [t \in Threads |-> 0]
  <2>2. DOMAIN none = Threads /\ \A t \in Threads : none[t] = 0
    OBVIOUS
  <2> HIDE DEF none
  <2>3. SumFunctionOnSet(none, Threads) = 0
    BY <2>2, SumZero
  <2>4. SumFunction(none) = 0
    BY <2>2, <2>3 DEF SumFunction
  <2> QED
    BY <2>1, <2>4 DEF none
<1>5. sqlCount' + SumFunction(inHand') = SumFunction([i \in DOMAIN queue' |-> SqlCount[queue'[i]]])
  BY DEF BufferInv, SqlInv, SqlAccountedFor
<1> QED
  BY <1>1, <1>3, <1>4, <1>5

(* The library operators of the abstract module are the same.              *)
LEMMA SameOperators ==
  /\ \A f : Abstract!SumFunction(f) = SumFunction(f)
  /\ \A s : Abstract!ToSet(s) = ToSet(s)
<1>1. ASSUME NEW f PROVE Abstract!SumFunction(f) = SumFunction(f)
  BY DEF Abstract!SumFunction, Abstract!SumFunctionOnSet, Abstract!FoldFunctionOnSet,
         Abstract!MapThenFoldSet, SumFunction, SumFunctionOnSet, FoldFunctionOnSet,
         MapThenFoldSet
<1>2. ASSUME NEW s PROVE Abstract!ToSet(s) = ToSet(s)
  BY DEF Abstract!ToSet, ToSet
<1> QED
  BY <1>1, <1>2

(* A step of the repository is an Add of the circular buffer when it is the *)
(* last of an add(), and does not change the buffer otherwise.             *)
LEMMA StepRefines ==
  ASSUME Unique, BufferInv, BufferInv', [AtomicityNext]_<<vars, settled>>
  PROVE  [Abstract!Next]_(Abstract!vars)
<1> USE RepositoryAssumption
<1>1. ASSUME settled' = settled PROVE UNCHANGED Abstract!vars
  BY <1>1 DEF Abstract!vars
<1>2. ASSUME ~ AtRest', AtomicityNext PROVE settled' = settled
  BY <1>2 DEF AtomicityNext
<1>3. ASSUME AtomicityNext, AtRest', NEW t \in Threads, CountSql(t)
      PROVE  Abstract!Add(val[t])
  <2>1. /\ settled' = Snapshot' /\ val[t] \in Requests /\ pc[t] = "countSql"
        /\ UNCHANGED <<queue, total, discarded>>
    BY <1>3 DEF AtomicityNext, CountSql, BufferInv, TypeInv, LocalsOK
  <2>2. /\ SettledOf(t) /\ settled.buffer \in Seq(Requests)
    BY DEF BufferInv, SettledInv, SettledType
  <2>3. /\ queue = Append(From(Victims), val[t])
        /\ total = settled.total + 1 /\ discarded = settled.discarded + Victims
        /\ \A i \in 1 .. Len(settled.buffer) : settled.buffer[i] # val[t]
    BY <2>1, <2>2 DEF SettledOf
  <2>4. /\ Snapshot'.findable = ToSet(queue')
        /\ sqlCount' = SumFunction([i \in DOMAIN queue' |-> SqlCount[queue'[i]]])
    BY <1>3, RestAgrees
  <2>5. /\ settled'.buffer = queue' /\ settled'.total = total'
        /\ settled'.discarded = discarded' /\ settled'.sqlCount = sqlCount'
        /\ settled'.findable = ToSet(queue')
    BY <2>1, <2>4 DEF Snapshot
  <2>6. val[t] \notin Abstract!ToSet(settled.buffer)
    <3>1. DOMAIN settled.buffer = 1 .. Len(settled.buffer)
      BY <2>2
    <3> QED
      BY <2>3, <3>1 DEF Abstract!ToSet
  <2>7. Abstract!Victims = Victims
    BY DEF Abstract!Victims, Victims
  <2>8. settled'.buffer = Append(SubSeq(settled.buffer, Abstract!Victims + 1, Len(settled.buffer)), val[t])
    BY <2>1, <2>3, <2>5, <2>7 DEF From
  <2>9. settled'.sqlCount = Abstract!SqlOf(settled'.buffer)
    <3>1. Abstract!SqlOf(queue') = SumFunction([i \in DOMAIN queue' |-> SqlCount[queue'[i]]])
      BY SameOperators DEF Abstract!SqlOf
    <3> QED
      BY <2>4, <2>5, <3>1
  <2>10. /\ settled'.findable = Abstract!ToSet(settled'.buffer) /\ settled'.total = settled.total + 1
         /\ settled'.discarded = settled.discarded + Abstract!Victims
    BY <2>1, <2>3, <2>5, <2>7, SameOperators
  <2> QED
    BY <2>6, <2>8, <2>9, <2>10 DEF Abstract!Add
<1>4. CASE AtomicityNext /\ AtRest'
  <2>1. PICK t \in Threads : add(t) \/ removeOldestOne(t) \/ remove(t)
    BY <1>4 DEF AtomicityNext, Next
  <2>2. pc'[t] = "idle" /\ pc \in [Threads -> Steps]
    BY <1>4 DEF AtRest, BufferInv, TypeInv, TypeOK
  <2>3. CASE CountSql(t)
    <3>1. val[t] \in Requests
      BY <2>3 DEF CountSql, BufferInv, TypeInv, LocalsOK
    <3> QED
      BY <1>3, <1>4, <2>3, <3>1 DEF Abstract!Next
  <2>4. CASE ~ CountSql(t)
    <3>1. OfferRefused(t) \/ PollEmpty(t) \/ remove(t)
      BY <2>1, <2>2, <2>4
      DEF add, removeOldestOne, AddWithRoom, AddWhenFull, Offer, Put, Count, Poll,
          Discard, Decrement, Unmap
    <3> QED
      BY <3>1, NeverRefused
  <2> QED
    BY <2>3, <2>4
<1>5. CASE UNCHANGED <<vars, settled>>
  BY <1>1, <1>5
<1> QED
  BY <1>1, <1>2, <1>4, <1>5

(* With a single caller, requests with ids of their own and a batch that    *)
(* fits, the repository implements the circular buffer: seen from outside, *)
(* add() changes queue, map and all counters in one step.                  *)
THEOREM IsCircularBuffer ==
  ASSUME Unique
  PROVE  AtomicitySpec => ImplementsCircularBuffer
<1>1. AtomicityInit => Abstract!Init
  BY DEF AtomicityInit, Init, Snapshot, Abstract!Init
<1>2. BufferInv /\ [AtomicityNext]_<<vars, settled>> => BufferInv'
  BY NextBuffer
<1>3. BufferInv /\ BufferInv' /\ [AtomicityNext]_<<vars, settled>> => [Abstract!Next]_(Abstract!vars)
  BY StepRefines
<1> QED
  BY <1>1, <1>2, <1>3, InitBuffer, PTL DEF AtomicitySpec, ImplementsCircularBuffer, Abstract!Spec

============================================================================
