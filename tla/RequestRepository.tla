------------------------- MODULE RequestRepository -------------------------
(***************************************************************************)
(* model/InMemoryRequstRepo.java: the in-memory repository of the web      *)
(* requests wuqiSpank has collected.  A LinkedBlockingQueue gives the      *)
(* order of arrival, a ConcurrentHashMap the access by unique id, and      *)
(* three AtomicIntegers the statistics.  Each of the five is atomic by     *)
(* itself and nothing makes a method that touches several of them atomic,  *)
(* so every action below is one access to one of them, by one thread.      *)
(*                                                                         *)
(* The threads are the callers of add(): the InTrace connection, the       *)
(* start-up import, the export directory listener and the servlet          *)
(* container's threads (DynaTracePurePathServlet).                         *)
(***************************************************************************)
EXTENDS Integers, Sequences, FiniteSets, SequencesExt

CONSTANTS
  Threads,                 \* callers of the repository
  Requests,                \* the IRequestWrapper objects they add
  Ids,                     \* unique ids
  NoRequest,               \* Java's null
  UniqueId,                \* UniqueId[r]: r.getUniqueId()
  SqlCount,                \* SqlCount[r]: r.getSqlCount()
  Capacity,                \* servletRqCapacity
  NumRequestsToDelete,     \* numRequestsToDeleteAtOnce
  Removable                \* keys that remove(key) is called with

ASSUME RepositoryAssumption ==
  /\ IsFiniteSet(Threads)
  /\ NoRequest \notin Requests
  /\ UniqueId \in [Requests -> Ids]
  /\ SqlCount \in [Requests -> Nat]
  /\ Capacity \in Nat \ {0}
  /\ NumRequestsToDelete \in Nat
  /\ Removable \subseteq Ids

VARIABLES
  queue,       \* m_requestQueue, oldest first
  hashMap,     \* m_hashMap, NoRequest where there is no entry
  total,       \* countOfTotalRequests
  discarded,   \* countOfDiscardedRequests
  sqlCount,    \* sqlCount
  pc,          \* the next access of each thread
  val,         \* the argument of its add(), or what its remove() looked up
  rw,          \* the local of removeOldestOne()
  evictions,   \* iterations of the loop at line 77 still to start
  decrements,  \* iterations of the loop at line 65 still to do
  status,      \* history: what became of the add() of each request
  erased       \* history: entries taken out of the queue by remove()

counters == <<total, discarded, sqlCount>>
locals   == <<pc, val, rw, evictions, decrements>>
history  == <<status, erased>>
vars     == <<queue, hashMap, counters, locals, history>>

Steps == {"idle", "offer", "put", "count", "countSql",
          "poll", "discard", "decrement", "unmap", "erase", "unkey"}

Status == {"new", "adding", "stored", "refused", "failed"}

TypeOK ==
  /\ queue \in Seq(Requests)
  /\ Len(queue) <= Capacity
  /\ hashMap \in [Ids -> Requests \cup {NoRequest}]
  /\ total \in Nat
  /\ discarded \in Nat
  /\ sqlCount \in Int
  /\ pc \in [Threads -> Steps]
  /\ val \in [Threads -> Requests \cup {NoRequest}]
  /\ rw \in [Threads -> Requests \cup {NoRequest}]
  /\ evictions \in [Threads -> Nat]
  /\ decrements \in [Threads -> Nat]
  /\ status \in [Requests -> Status]
  /\ erased \in Nat

Init ==
  /\ queue = <<>>
  /\ hashMap = [i \in Ids |-> NoRequest]
  /\ total = 0 /\ discarded = 0 /\ sqlCount = 0
  /\ pc = [t \in Threads |-> "idle"]
  /\ val = [t \in Threads |-> NoRequest]
  /\ rw = [t \in Threads |-> NoRequest]
  /\ evictions = [t \in Threads |-> 0]
  /\ decrements = [t \in Threads |-> 0]
  /\ status = [r \in Requests |-> "new"]
  /\ erased = 0

----------------------------------------------------------------------------
(* add() and addWithoutConditions()                                        *)

\* mutant: one slot is kept free.
HasRoomForTwo == Capacity - Len(queue) > 1

\* mutant: >= for >.
HasRoomOffByOne == Capacity - Len(queue) >= 0

\* remainingCapacity() > 0
HasRoom == Capacity - Len(queue) > 0

\* The queue has room: addWithoutConditions() at once, whatever other threads
\* do to the queue before its offer().
AddWithRoom(t, r) ==
  /\ pc[t] = "idle"
  /\ status[r] = "new"
  /\ HasRoom
  /\ pc' = [pc EXCEPT ![t] = "offer"]
  /\ val' = [val EXCEPT ![t] = r]
  /\ status' = [status EXCEPT ![r] = "adding"]
  /\ UNCHANGED <<queue, hashMap, counters, rw, evictions, decrements, erased>>

\* The queue is full: evict first.
AddWhenFull(t, r) ==
  /\ pc[t] = "idle"
  /\ status[r] = "new"
  /\ ~HasRoom
  /\ pc' = [pc EXCEPT ![t] = IF NumRequestsToDelete > 0 THEN "poll" ELSE "offer"]
  /\ val' = [val EXCEPT ![t] = r]
  /\ evictions' = [evictions EXCEPT ![t] = NumRequestsToDelete]
  /\ status' = [status EXCEPT ![r] = "adding"]
  /\ UNCHANGED <<queue, hashMap, counters, rw, decrements, erased>>

\* mutant: a LinkedBlockingQueue without a capacity.
FitsAlways == TRUE

\* offer() finds a free place.
Fits == Len(queue) < Capacity

\* offer() appends when there is room ...
Offer(t) ==
  /\ pc[t] = "offer"
  /\ Fits
  /\ queue' = Append(queue, val[t])
  /\ pc' = [pc EXCEPT ![t] = "put"]
  /\ UNCHANGED <<hashMap, counters, val, rw, evictions, decrements, history>>

\* mutant: the result of offer() is ignored.
OfferIgnored(t) ==
  /\ pc[t] = "offer"
  /\ ~Fits
  /\ pc' = [pc EXCEPT ![t] = "put"]
  /\ UNCHANGED <<queue, hashMap, counters, val, rw, evictions, decrements, history>>

\* mutant: put() instead of offer(), which waits for room.
OfferBlocks(t) == pc[t] = "offer" /\ ~Fits /\ UNCHANGED vars

\* ... and otherwise returns false: WuqispankException to the caller.
OfferRefused(t) ==
  /\ pc[t] = "offer"
  /\ ~Fits
  /\ pc' = [pc EXCEPT ![t] = "idle"]
  /\ val' = [val EXCEPT ![t] = NoRequest]
  /\ status' = [status EXCEPT ![val[t]] = "refused"]
  /\ UNCHANGED <<queue, hashMap, counters, rw, evictions, decrements, erased>>

Put(t) ==
  /\ pc[t] = "put"
  /\ hashMap' = [hashMap EXCEPT ![UniqueId[val[t]]] = val[t]]
  /\ pc' = [pc EXCEPT ![t] = "count"]
  /\ UNCHANGED <<queue, counters, val, rw, evictions, decrements, history>>

Count(t) ==
  /\ pc[t] = "count"
  /\ total' = total + 1
  /\ pc' = [pc EXCEPT ![t] = "countSql"]
  /\ UNCHANGED <<queue, hashMap, discarded, sqlCount, val, rw, evictions, decrements, history>>

\* The last access of add(): it returns normally.
CountSql(t) ==
  /\ pc[t] = "countSql"
  /\ sqlCount' = sqlCount + SqlCount[val[t]]
  /\ pc' = [pc EXCEPT ![t] = "idle"]
  /\ val' = [val EXCEPT ![t] = NoRequest]
  /\ status' = [status EXCEPT ![val[t]] = "stored"]
  /\ UNCHANGED <<queue, hashMap, total, discarded, rw, evictions, decrements, erased>>

----------------------------------------------------------------------------
(* removeOldestOne(), called NumRequestsToDelete times by add()            *)

\* mutant: peek() for remove().
PollPeeks(t) ==
  /\ pc[t] = "poll"
  /\ queue # <<>>
  /\ rw' = [rw EXCEPT ![t] = Head(queue)]
  /\ evictions' = [evictions EXCEPT ![t] = @ - 1]
  /\ pc' = [pc EXCEPT ![t] = "discard"]
  /\ UNCHANGED <<queue, hashMap, counters, val, decrements, history>>

Poll(t) ==
  /\ pc[t] = "poll"
  /\ queue # <<>>
  /\ rw' = [rw EXCEPT ![t] = Head(queue)]
  /\ queue' = Tail(queue)
  /\ evictions' = [evictions EXCEPT ![t] = @ - 1]
  /\ pc' = [pc EXCEPT ![t] = "discard"]
  /\ UNCHANGED <<hashMap, counters, val, decrements, history>>

\* Queue.remove() of an empty queue throws NoSuchElementException, which
\* leaves add() before its request is offered.
PollEmpty(t) ==
  /\ pc[t] = "poll"
  /\ queue = <<>>
  /\ pc' = [pc EXCEPT ![t] = "idle"]
  /\ val' = [val EXCEPT ![t] = NoRequest]
  /\ evictions' = [evictions EXCEPT ![t] = 0]
  /\ status' = [status EXCEPT ![val[t]] = "failed"]
  /\ UNCHANGED <<queue, hashMap, counters, rw, decrements, erased>>

\* mutant: the loop at line 65 is commented out, as the one in remove(key) is.
DiscardUncounted(t) ==
  /\ pc[t] = "discard"
  /\ discarded' = discarded + 1
  /\ pc' = [pc EXCEPT ![t] = "unmap"]
  /\ UNCHANGED <<queue, hashMap, total, sqlCount, val, rw, evictions, decrements, history>>

Discard(t) ==
  /\ pc[t] = "discard"
  /\ discarded' = discarded + 1
  /\ decrements' = [decrements EXCEPT ![t] = SqlCount[rw[t]]]
  /\ pc' = [pc EXCEPT ![t] = IF SqlCount[rw[t]] > 0 THEN "decrement" ELSE "unmap"]
  /\ UNCHANGED <<queue, hashMap, total, sqlCount, val, rw, evictions, history>>

Decrement(t) ==
  /\ pc[t] = "decrement"
  /\ sqlCount' = sqlCount - 1
  /\ decrements' = [decrements EXCEPT ![t] = @ - 1]
  /\ pc' = [pc EXCEPT ![t] = IF decrements[t] > 1 THEN "decrement" ELSE "unmap"]
  /\ UNCHANGED <<queue, hashMap, total, discarded, val, rw, evictions, history>>

\* The map entry goes by key, whichever request is stored under it.
Unmap(t) ==
  /\ pc[t] = "unmap"
  /\ hashMap' = [hashMap EXCEPT ![UniqueId[rw[t]]] = NoRequest]
  /\ rw' = [rw EXCEPT ![t] = NoRequest]
  /\ pc' = [pc EXCEPT ![t] = IF evictions[t] > 0 THEN "poll" ELSE "offer"]
  /\ UNCHANGED <<queue, counters, val, evictions, decrements, history>>

----------------------------------------------------------------------------
(* remove(key): get(), then the queue by object, then the map by key       *)

Lookup(t, k) ==
  /\ pc[t] = "idle"
  /\ hashMap[k] # NoRequest
  /\ val' = [val EXCEPT ![t] = hashMap[k]]
  /\ pc' = [pc EXCEPT ![t] = "erase"]
  /\ UNCHANGED <<queue, hashMap, counters, rw, evictions, decrements, history>>

\* mutant: remove(key) forgets the queue.
EraseNothing(t) ==
  /\ pc[t] = "erase"
  /\ pc' = [pc EXCEPT ![t] = "unkey"]
  /\ UNCHANGED <<queue, hashMap, counters, val, rw, evictions, decrements, history>>

\* LinkedBlockingQueue.remove(o) takes out the first element equal to o, if
\* there is one.
Erase(t) ==
  /\ pc[t] = "erase"
  /\ \/ \E i \in 1 .. Len(queue) :
          /\ queue[i] = val[t]
          /\ \A j \in 1 .. i - 1 : queue[j] # val[t]
          /\ queue' = RemoveAt(queue, i)
          /\ erased' = erased + 1
     \/ /\ \A i \in 1 .. Len(queue) : queue[i] # val[t]
        /\ UNCHANGED <<queue, erased>>
  /\ pc' = [pc EXCEPT ![t] = "unkey"]
  /\ UNCHANGED <<hashMap, counters, val, rw, evictions, decrements, status>>

Unkey(t) ==
  /\ pc[t] = "unkey"
  /\ hashMap' = [hashMap EXCEPT ![UniqueId[val[t]]] = NoRequest]
  /\ val' = [val EXCEPT ![t] = NoRequest]
  /\ pc' = [pc EXCEPT ![t] = "idle"]
  /\ UNCHANGED <<queue, counters, rw, evictions, decrements, history>>

----------------------------------------------------------------------------

add(t) ==
  \/ \E r \in Requests : AddWithRoom(t, r) \/ AddWhenFull(t, r)
  \/ Offer(t) \/ OfferRefused(t) \/ Put(t) \/ Count(t) \/ CountSql(t)

removeOldestOne(t) ==
  Poll(t) \/ PollEmpty(t) \/ Discard(t) \/ Decrement(t) \/ Unmap(t)

remove(t) ==
  (\E k \in Removable : Lookup(t, k)) \/ Erase(t) \/ Unkey(t)

Next == \E t \in Threads : add(t) \/ removeOldestOne(t) \/ remove(t)

Spec == Init /\ [][Next]_vars

(* A thread inside a method takes its next access: the repository has no    *)
(* lock and the JVM does not stop a runnable thread for ever.  Whether a    *)
(* caller ever starts another add() is its own affair.                      *)
Finishing(t) == pc[t] # "idle" /\ (add(t) \/ removeOldestOne(t) \/ remove(t))

FairSpec == Spec /\ \A t \in Threads : WF_vars(Finishing(t))

get(k) == hashMap[k]
size   == Cardinality({k \in Ids : hashMap[k] # NoRequest})

----------------------------------------------------------------------------
(* Properties                                                              *)

\* The locals that a thread's next access uses are set: it has a request to
\* offer, an evicted request to count, an iteration left to do.
LocalsOK ==
  \A t \in Threads :
    /\ pc[t] # "idle" => val[t] \in Requests
    /\ pc[t] \in {"discard", "decrement", "unmap"} => rw[t] \in Requests
    /\ pc[t] = "decrement" => decrements[t] > 0
    /\ pc[t] = "poll" => evictions[t] > 0
    /\ evictions[t] <= NumRequestsToDelete

AtRest == \A t \in Threads : pc[t] = "idle"

Offered == {t \in Threads : pc[t] \in {"put", "count"}}
Polled  == {t \in Threads : pc[t] = "discard"}

\* What the status page adds up: a request that was ever counted is in the
\* queue, was counted as discarded, or was removed by key, and it is counted
\* once, however the adds and evictions of several threads interleave
\* (lines 59-61 and 84-87).  The counts differ by what threads have in hand.
RequestsAccountedFor ==
  total + Cardinality(Offered)
    = Len(queue) + discarded + Cardinality(Polled) + erased

\* What a thread has put into the queue and not yet added to the SQL count, or
\* has taken out of the queue and not yet subtracted from it.
inHand ==
  [t \in Threads |->
     CASE pc[t] \in {"put", "count", "countSql"} -> SqlCount[val[t]]
       [] pc[t] = "discard" -> - SqlCount[rw[t]]
       [] pc[t] = "decrement" -> - decrements[t]
       [] OTHER -> 0]

\* The SQL count is the number of statements of the queued requests, give or
\* take what threads have in hand (lines 65-66 and 88).  Nothing subtracts the
\* statements of a request that remove(key) takes out (lines 116-117 are
\* commented out), so this is claimed only where no key is removed.
SqlAccountedFor ==
  sqlCount + SumFunction(inHand) = SumFunction([i \in DOMAIN queue |-> SqlCount[queue[i]]])

\* Every request the home page lists, which iterates the queue, can be opened
\* by its id, which asks the map, unless its own add() is between its offer()
\* and its put() (lines 84-86).  An eviction may not take it out of the map
\* first, and a removal by key may not either.
QueuedIsFindable ==
  \A i \in 1 .. Len(queue) :
    \/ hashMap[UniqueId[queue[i]]] = queue[i]
    \/ \E t \in Threads : pc[t] = "put" /\ val[t] = queue[i]

\* The polls that evicting threads still have to make: one token each.
PendingPolls ==
  {p \in Threads \X (1 .. NumRequestsToDelete) :
     /\ pc[p[1]] \in {"poll", "discard", "decrement", "unmap"}
     /\ p[2] <= evictions[p[1]]}

\* All threads may find the queue full at the same time, and each then evicts
\* its whole batch (line 77).  As long as the batches of all threads together
\* fit into the queue there is an element for every poll that is still to
\* come, so that line 59 never throws NoSuchElementException.
EvictionsCovered ==
  (Cardinality(Threads) * NumRequestsToDelete <= Capacity /\ Removable = {})
     => Cardinality(PendingPolls) <= Len(queue)

\* add() loses no request: neither of its exceptions is ever thrown.
NoAddFails == \A r \in Requests : status[r] \notin {"refused", "failed"}

\* No method waits for another thread: a full queue makes offer() return
\* false, it does not block (line 84), so every call returns.
CallsReturn == \A t \in Threads : pc[t] # "idle" ~> pc[t] = "idle"

============================================================================
