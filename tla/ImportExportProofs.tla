------------------------- MODULE ImportExportProofs -------------------------
(***************************************************************************)
(* What holds of imports and exports for all directories and capacities,   *)
(* and for the listener when it is the only thread that imports.           *)
(***************************************************************************)
EXTENDS ImportExport, SequenceTheorems, TLAPS

\* Files that exist, and ids that the agent's thread will not add any more: a
\* file may bring the id of a live request only if that request was exported,
\* and only what the repository's map has had can be exported.
Existing == {f \in Files : written[f] >= 0}
KnownIds == {r \in RqType : r.of \in LiveRequests => r.of \in reported \ {live}}
Entry    == [id : KnownIds, rq : RqType]

\* The queue may have the request whose add() has not returned yet.
Own       == val("intrace")
Queueable == Entry \cup {Own}

Inside  == {"open", "prefix", "read", "name", "check", "add"}

\* A thread inside importFile() has a file that an importer is responsible for,
\* and a request to name, check or add when its next step needs one.
ThreadsOK ==
  /\ pc \in [Importing -> Outside \cup Inside]
  /\ file \in [Importing -> Existing \cup {NoFile}]
  /\ got \in [Importing -> Seq(KnownIds)]
  /\ rqs \in [Importing -> Seq(Entry)]
  /\ \A t \in Importing :
       /\ pc[t] \in Inside => file[t] \in Existing /\ Kind[file[t]] \in ImportKinds
       /\ pc[t] \in Outside => file[t] = NoFile
       /\ pc[t] \notin {"name", "check", "add"} => rqs[t] = <<>>
       /\ pc[t] = "name" => Len(rqs[t]) < Len(got[t])
       /\ pc[t] = "add" => rqs[t] # <<>>

WatchOK ==
  /\ events \in Seq(Existing \cup {"overflow"})
  /\ batch \in Seq(Existing \cup {"overflow"})
  /\ Len(events) <= MaxEvents + 1
  /\ Len(events) = MaxEvents + 1 => Last(events) = "overflow"
  /\ keyState = "ready" => events = <<>>

DiskOK ==
  /\ written \in [Files -> Int]
  /\ \A f \in Files : written[f] \in -1 .. Length[f]
  /\ content \in [Files -> Seq(KnownIds)]
  /\ \A f \in Files : Len(content[f]) = Length[f]

RepositoryOK ==
  /\ queue \in Seq(Queueable) /\ Len(queue) <= Capacity
  /\ hashMap \subseteq Entry
  /\ adding \in [Adders -> {"out", "poll", "unmap", "offer", "put"}]
  /\ victim \in [Adders -> RqType]
  /\ reported \subseteq LiveRequests
  /\ live \in reported \cup {NoFile}
  /\ live = NoFile <=> adding["intrace"] = "out"

ImportersOK ==
  /\ stream \in [ImportKinds -> Existing \cup {NoFile}]
  /\ prefix \in [ImportKinds -> Files \cup {NoFile}]
  /\ page \subseteq Entry
  /\ generated \in Nat

ImportInv == RepositoryOK /\ DiskOK /\ WatchOK /\ ImportersOK /\ ThreadsOK

(* Names of requests.                                                       *)
LEMMA RqTyped ==
  ASSUME NEW x \in Files \cup LiveRequests \cup {NoFile}, NEW n \in Nat
  PROVE  /\ Rq(x, n) \in RqType
         /\ x \notin LiveRequests \/ x \in reported \ {live} => Rq(x, n) \in KnownIds
  BY DEF Rq, RqType, KnownIds

LEMMA OwnTyped ==
  ASSUME ImportInv
  PROVE  /\ Own = [id |-> Rq(live, 0), rq |-> Rq(live, 0)] /\ Rq(live, 0) \in RqType
         /\ Own \in [id : RqType, rq : RqType] /\ Queueable \subseteq [id : RqType, rq : RqType]
         /\ live # NoFile => Rq(live, 0) \notin KnownIds
         /\ "intrace" \in Adders /\ Importing \subseteq Adders /\ "intrace" \notin Importing
<1>1. live \in LiveRequests \cup {NoFile}
  BY DEF ImportInv, RepositoryOK
<1>2. Rq(live, 0) \in RqType /\ Rq(live, 0).of = live
  BY <1>1, RqTyped DEF Rq
<1>3. "intrace" \in Adders /\ Importing \subseteq Adders /\ "intrace" \notin Importing
  BY ImportAssumption DEF Adders
<1>4. Own = [id |-> Rq(live, 0), rq |-> Rq(live, 0)]
  BY DEF Own, val
<1>5. live # NoFile => Rq(live, 0) \notin KnownIds
  BY <1>1, <1>2 DEF KnownIds
<1>6. Entry \subseteq [id : RqType, rq : RqType]
  BY DEF Entry, KnownIds
<1> QED
  BY <1>2, <1>3, <1>4, <1>5, <1>6 DEF Queueable

(* An access of add() to the repository: the queue stays within its         *)
(* capacity, whoever else adds, and what is new in queue and map is the     *)
(* argument.                                                                *)
LEMMA AccessTyped ==
  ASSUME ImportInv, NEW a \in Adders, val(a) \in Queueable,
         LookForRoom(a) \/ AddGoesOn(a) \/ Put(a) \/ OfferRefused(a) \/ PollEmpty(a)
  PROVE  /\ queue' \in Seq(Queueable) /\ Len(queue') <= Capacity
         /\ hashMap' \subseteq hashMap \cup {val(a)}
         /\ adding' \in [Adders -> {"out", "poll", "unmap", "offer", "put"}]
         /\ \A b \in Adders : b # a => adding'[b] = adding[b]
         /\ victim' \in [Adders -> RqType]
         /\ ~Put(a) => hashMap' \subseteq hashMap
         /\ AddGoesOn(a) => adding[a] # "out" /\ adding'[a] # "out"
         /\ LookForRoom(a) => adding'[a] # "out"
         /\ Put(a) \/ OfferRefused(a) \/ PollEmpty(a) => adding'[a] = "out"
<1> DEFINE S == {"out", "poll", "unmap", "offer", "put"}
<1>1. /\ queue \in Seq(Queueable) /\ Len(queue) \in Nat /\ Len(queue) <= Capacity /\ Capacity \in Nat
      /\ adding \in [Adders -> S] /\ victim \in [Adders -> RqType]
  BY LenProperties, ImportAssumption DEF ImportInv, RepositoryOK
<1>2. Blank \in RqType
  BY RqTyped DEF Blank
<1>3. PICK p \in S : adding' = [adding EXCEPT ![a] = p]
  BY DEF LookForRoom, AddGoesOn, Poll, Unmap, Offer, Put, OfferRefused, PollEmpty
<1>4. /\ adding' \in [Adders -> S] /\ adding'[a] = p
      /\ \A b \in Adders : b # a => adding'[b] = adding[b]
  BY <1>1, <1>3
<1>5. /\ hashMap' \subseteq hashMap \cup {val(a)} /\ (~Put(a) => hashMap' \subseteq hashMap)
  BY DEF LookForRoom, AddGoesOn, Poll, Unmap, Offer, Put, OfferRefused, PollEmpty
<1>6. /\ AddGoesOn(a) => adding[a] # "out" /\ adding'[a] # "out"
      /\ LookForRoom(a) => adding'[a] # "out"
      /\ Put(a) \/ OfferRefused(a) \/ PollEmpty(a) => adding'[a] = "out"
  BY <1>1 DEF LookForRoom, AddGoesOn, Poll, Unmap, Offer, Put, OfferRefused, PollEmpty
<1>7. /\ queue' \in Seq(Queueable) /\ Len(queue') <= Capacity /\ victim' \in [Adders -> RqType]
  <2>1. CASE Poll(a)
    <3>1. queue # <<>> /\ queue' = Tail(queue) /\ victim' = [victim EXCEPT ![a] = Head(queue).id]
      BY <2>1 DEF Poll
    <3>2. queue' \in Seq(Queueable) /\ Len(queue') = Len(queue) - 1 /\ Head(queue) \in Queueable
      BY <1>1, <3>1, HeadTailProperties
    <3>3. Head(queue).id \in RqType
      BY <3>2, OwnTyped
    <3> QED
      BY <1>1, <3>1, <3>2, <3>3
  <2>2. CASE Offer(a)
    <3>1. Len(queue) < Capacity /\ queue' = Append(queue, val(a)) /\ victim' = victim
      BY <2>2 DEF Offer, Fits
    <3>2. queue' \in Seq(Queueable) /\ Len(queue') = Len(queue) + 1
      BY <1>1, <3>1, AppendProperties
    <3> QED
      BY <1>1, <3>1, <3>2
  <2>3. CASE LookForRoom(a) \/ Unmap(a) \/ Put(a) \/ OfferRefused(a) \/ PollEmpty(a)
    <3>1. queue' = queue /\ victim' \in {victim, [victim EXCEPT ![a] = Blank]}
      BY <2>3 DEF LookForRoom, Unmap, Put, OfferRefused, PollEmpty
    <3> QED
      BY <1>1, <1>2, <3>1
  <2> QED
    BY <2>1, <2>2, <2>3 DEF AddGoesOn
<1> QED
  BY <1>4, <1>5, <1>6, <1>7

LEMMA InitImportInv == Init => ImportInv
<1> SUFFICES ASSUME Init PROVE ImportInv
  OBVIOUS
<1> USE ImportAssumption
<1>1. RepositoryOK
  <2>1. Blank \in RqType /\ "intrace" \in Adders
    BY RqTyped DEF Blank, Adders
  <2> QED
    BY <2>1, EmptySeq DEF Init, RepositoryOK
<1>2. DiskOK
  <2>1. ASSUME NEW f \in Files
        PROVE  InFile(f) \in Seq(KnownIds) /\ Len(InFile(f)) = Length[f]
    <3>1. \A n \in 1 .. Length[f] : Rq(f, n) \in KnownIds
      BY <2>1, RqTyped
    <3> QED
      BY <3>1, IsASeq DEF InFile
  <2> QED
    BY <2>1 DEF Init, DiskOK
<1>3. WatchOK
  BY EmptySeq DEF Init, WatchOK
<1>4. ImportersOK
  BY DEF Init, ImportersOK
<1>5. ThreadsOK
  BY EmptySeq DEF Init, ThreadsOK, Outside, Inside
<1> QED
  BY <1>1, <1>2, <1>3, <1>4, <1>5 DEF ImportInv

(* Most steps create no file and report no request: then what they leave    *)
(* alone stays well typed.                                                  *)
LEMMA Quiet ==
  ASSUME ImportInv, UNCHANGED <<reported, written, live>>
  PROVE  /\ KnownIds' = KnownIds /\ Entry' = Entry /\ Existing' = Existing
         /\ UNCHANGED repository => RepositoryOK'
         /\ UNCHANGED content => DiskOK'
         /\ UNCHANGED watch => WatchOK'
         /\ UNCHANGED <<stream, prefix, page, generated>> => ImportersOK'
         /\ UNCHANGED <<pc, file, got, rqs>> => ThreadsOK'
<1>1. KnownIds' = KnownIds /\ Existing' = Existing
  BY DEF KnownIds, Existing
<1>2. Entry' = Entry
  BY <1>1 DEF Entry
<1>3. UNCHANGED repository => RepositoryOK'
  <2>1. Own' = Own
    BY DEF Own, val
  <2>2. Queueable' = Queueable
    BY <1>2, <2>1 DEF Queueable
  <2> QED
    BY <2>2, <1>2 DEF ImportInv, repository, RepositoryOK
<1>4. UNCHANGED content => DiskOK'
  BY <1>1 DEF ImportInv, DiskOK
<1>5. UNCHANGED watch => WatchOK'
  BY <1>1 DEF ImportInv, watch, WatchOK, Last
<1>6. UNCHANGED <<stream, prefix, page, generated>> => ImportersOK'
  BY <1>1, <1>2 DEF ImportInv, ImportersOK
<1>7. UNCHANGED <<pc, file, got, rqs>> => ThreadsOK'
  BY <1>1, <1>2 DEF ImportInv, ThreadsOK
<1> QED
  BY <1>1, <1>2, <1>3, <1>4, <1>5, <1>6, <1>7

(* One thread moves and the others stay where they are.                     *)
LEMMA OneThread ==
  ASSUME ImportInv, UNCHANGED <<reported, written, live>>, NEW t \in Importing,
         NEW p \in Outside \cup Inside, NEW f, NEW g \in Seq(KnownIds), NEW r \in Seq(Entry),
         pc' = [pc EXCEPT ![t] = p], file' = [file EXCEPT ![t] = f],
         got' = [got EXCEPT ![t] = g], rqs' = [rqs EXCEPT ![t] = r],
         p \in Inside => f \in Existing /\ Kind[f] \in ImportKinds,
         p \in Outside => f = NoFile,
         p \notin {"name", "check", "add"} => r = <<>>,
         p = "name" => Len(r) < Len(g),
         p = "add" => r # <<>>
  PROVE  ThreadsOK'
<1>1. KnownIds' = KnownIds /\ Entry' = Entry /\ Existing' = Existing
  BY Quiet
<1>2. ThreadsOK
  BY DEF ImportInv
<1>3. f \in Existing \cup {NoFile}
  BY DEF Outside, Inside
<1>4. /\ pc' \in [Importing -> Outside \cup Inside]
      /\ file' \in [Importing -> Existing \cup {NoFile}]
      /\ got' \in [Importing -> Seq(KnownIds)]
      /\ rqs' \in [Importing -> Seq(Entry)]
  BY <1>2, <1>3 DEF ThreadsOK
<1>5. ASSUME NEW u \in Importing
      PROVE  IF u = t
             THEN pc'[u] = p /\ file'[u] = f /\ got'[u] = g /\ rqs'[u] = r
             ELSE /\ pc'[u] = pc[u] /\ file'[u] = file[u]
                  /\ got'[u] = got[u] /\ rqs'[u] = rqs[u]
  BY <1>2 DEF ThreadsOK
<1>6. ASSUME NEW u \in Importing
      PROVE  /\ pc'[u] \in Inside => file'[u] \in Existing /\ Kind[file'[u]] \in ImportKinds
             /\ pc'[u] \in Outside => file'[u] = NoFile
             /\ pc'[u] \notin {"name", "check", "add"} => rqs'[u] = <<>>
             /\ pc'[u] = "name" => Len(rqs'[u]) < Len(got'[u])
             /\ pc'[u] = "add" => rqs'[u] # <<>>
  BY <1>2, <1>5 DEF ThreadsOK
<1> QED
  BY <1>1, <1>4, <1>6 DEF ThreadsOK

(* What a thread has of its own.                                            *)
LEMMA Locals ==
  ASSUME ImportInv, NEW t \in Importing
  PROVE  /\ pc = [pc EXCEPT ![t] = pc[t]] /\ file = [file EXCEPT ![t] = file[t]]
         /\ got = [got EXCEPT ![t] = got[t]] /\ rqs = [rqs EXCEPT ![t] = rqs[t]]
         /\ got[t] \in Seq(KnownIds) /\ rqs[t] \in Seq(Entry)
         /\ pc[t] \in Inside => file[t] \in Existing /\ k(t) \in ImportKinds
         /\ pc[t] \notin {"name", "check", "add"} => rqs[t] = <<>>
  BY DEF ImportInv, ThreadsOK, k

(* A step between two files, of either loop.                                *)
LEMMA StaysOutside ==
  ASSUME ImportInv, UNCHANGED <<reported, written, live>>, NEW t \in Importing,
         pc[t] \in Outside, NEW p \in Outside,
         pc' = [pc EXCEPT ![t] = p], UNCHANGED <<file, got, rqs>>
  PROVE  ThreadsOK'
<1>1. /\ got[t] \in Seq(KnownIds) /\ got' = [got EXCEPT ![t] = got[t]]
      /\ rqs[t] \in Seq(Entry) /\ rqs' = [rqs EXCEPT ![t] = rqs[t]]
      /\ rqs[t] = <<>>
      /\ file' = [file EXCEPT ![t] = NoFile]
  BY Locals DEF ImportInv, ThreadsOK, Outside
<1>2. p \notin Inside /\ p \notin {"name", "check", "add"}
  BY DEF Outside, Inside
<1> QED
  BY <1>1, <1>2, OneThread

(* The way back from a file.                                                *)
LEMMA LeaveTyped ==
  ASSUME ImportInv, UNCHANGED <<reported, written, live>>, NEW t \in Importing,
         NEW p \in Outside, Leave(t, p)
  PROVE  ThreadsOK'
<1>1. <<>> \in Seq(KnownIds) /\ <<>> \in Seq(Entry)
  BY EmptySeq
<1>2. p \in Outside /\ p \notin Inside /\ p \notin {"name", "check", "add"}
  BY DEF Outside, Inside
<1>3. /\ pc' = [pc EXCEPT ![t] = p] /\ file' = [file EXCEPT ![t] = NoFile]
      /\ got' = [got EXCEPT ![t] = <<>>] /\ rqs' = [rqs EXCEPT ![t] = <<>>]
  BY DEF Leave
<1> QED
  BY <1>1, <1>2, <1>3, OneThread

LEMMA ReturnTyped ==
  ASSUME ImportInv, UNCHANGED <<reported, written, live>>, NEW t \in Importing, Return(t) \/ Throw(t)
  PROVE  ThreadsOK'
<1>1. PICK p \in Outside : Leave(t, p)
  BY DEF Return, Throw, Outside
<1> QED
  BY <1>1, LeaveTyped

(* The way to a file's importer, or past a file that has none.              *)
LEMMA DispatchTyped ==
  ASSUME ImportInv, UNCHANGED <<reported, written, live>>, NEW t \in Importing,
         pc[t] \in Outside, NEW f \in Existing, Dispatch(t, f)
  PROVE  ThreadsOK'
<1>1. CASE Kind[f] \in ImportKinds
  <2>1. /\ pc' = [pc EXCEPT ![t] = "open"] /\ file' = [file EXCEPT ![t] = f]
        /\ got' = got /\ rqs' = rqs
    BY <1>1 DEF Dispatch
  <2>2. /\ got[t] \in Seq(KnownIds) /\ rqs[t] \in Seq(Entry) /\ rqs[t] = <<>>
        /\ got = [got EXCEPT ![t] = got[t]] /\ rqs = [rqs EXCEPT ![t] = rqs[t]]
    BY DEF ImportInv, ThreadsOK, Outside
  <2>3. "open" \in Inside /\ "open" \notin Outside
    BY DEF Outside, Inside
  <2> QED
    BY <1>1, <2>1, <2>2, <2>3, OneThread
<1>2. CASE Kind[f] \notin ImportKinds
  BY <1>2, ReturnTyped DEF Dispatch
<1> QED
  BY <1>1, <1>2

(* A step that stays in importFile(), with the same file.                   *)
LEMMA StaysInside ==
  ASSUME ImportInv, UNCHANGED <<reported, written, live>>, NEW t \in Importing,
         pc[t] \in Inside, NEW p \in Inside, NEW r \in Seq(Entry),
         pc' = [pc EXCEPT ![t] = p], rqs' = [rqs EXCEPT ![t] = r], file' = file, got' = got,
         p \notin {"name", "check", "add"} => r = <<>>,
         p = "name" => Len(r) < Len(got[t]),
         p = "add" => r # <<>>
  PROVE  ThreadsOK'
<1>1. /\ file[t] \in Existing /\ Kind[file[t]] \in ImportKinds
      /\ got[t] \in Seq(KnownIds)
      /\ file' = [file EXCEPT ![t] = file[t]] /\ got' = [got EXCEPT ![t] = got[t]]
  BY Locals DEF k
<1>2. p \in Outside \cup Inside /\ p \notin Outside
  BY DEF Inside, Outside
<1> QED
  BY <1>1, <1>2, OneThread

(* What has been read of a file that is not cut off has a first request.    *)
LEMMA ParsedTyped ==
  ASSUME ImportInv, NEW f \in Existing, ~Truncated(f)
  PROVE  Parsed(f) \in Seq(KnownIds) /\ Len(Parsed(f)) > 0
<1>1. /\ f \in Files /\ written[f] \in 0 .. Length[f] /\ Length[f] \in Nat \ {0}
      /\ content[f] \in Seq(KnownIds) /\ Len(content[f]) = Length[f]
  BY ImportAssumption DEF ImportInv, DiskOK, Existing
<1>2. CASE Kind[f] = "sqltxt" /\ written[f] = 0
  <2>1. Blank \in KnownIds
    BY RqTyped, ImportAssumption DEF Blank
  <2>2. Parsed(f) = <<Blank>>
    BY <1>2 DEF Parsed
  <2> HIDE DEF Blank
  <2> QED
    BY <2>1, <2>2
<1>3. CASE ~(Kind[f] = "sqltxt" /\ written[f] = 0)
  <2>1. written[f] \in 1 .. Len(content[f])
    BY <1>1, <1>3 DEF Truncated
  <2>2. Parsed(f) = SubSeq(content[f], 1, written[f])
    BY <1>3 DEF Parsed
  <2> QED
    BY <1>1, <2>1, <2>2, SubSeqProperties
<1> QED
  BY <1>2, <1>3

(* importFile() in one thread, whatever the other does with its importer.   *)
LEMMA ImportFileInv ==
  ASSUME ImportInv, NEW t \in Importing, importFile(t)
  PROVE  ImportInv'
<1> USE DEF repository, disk, watch, importers, users, history
<1>0. UNCHANGED <<reported, written, live>>
  BY DEF importFile, Open, SetPrefix, Read, ReadFails, ReadThrows, Name, Check,
         addImported, Adding, AddImported, AddRefused, AddThrows, FileDone
<1>1. /\ KnownIds' = KnownIds /\ Entry' = Entry
      /\ UNCHANGED repository => RepositoryOK'
      /\ UNCHANGED content => DiskOK'
      /\ UNCHANGED watch => WatchOK'
      /\ UNCHANGED <<stream, prefix, page, generated>> => ImportersOK'
  BY <1>0, Quiet
<1>2. DiskOK' /\ WatchOK'
  BY <1>1 DEF importFile, Open, SetPrefix, Read, ReadFails, ReadThrows, Name, Check,
              addImported, Adding, AddImported, AddRefused, AddThrows, FileDone
<1>3. ImportersOK /\ ThreadsOK
  BY DEF ImportInv
<1>4. CASE Open(t)
  <2>1. RepositoryOK'
    BY <1>1, <1>4 DEF Open
  <2>2. pc[t] \in Inside /\ pc[t] \notin {"name", "check", "add"} /\ "prefix" \in Inside /\ "prefix" \notin Outside
    BY <1>4 DEF Open, Inside, Outside
  <2>3. ThreadsOK'
    <3>1. /\ pc' = [pc EXCEPT ![t] = "prefix"] /\ file' = file
          /\ got' = got /\ rqs' = rqs
      BY <1>4 DEF Open
    <3>2. "prefix" \notin {"name", "check", "add"}
      OBVIOUS
    <3>3. rqs[t] \in Seq(Entry) /\ rqs[t] = <<>> /\ rqs' = [rqs EXCEPT ![t] = rqs[t]]
      BY <2>2, <3>1, Locals
    <3> QED
      BY <1>0, <2>2, <3>1, <3>2, <3>3, StaysInside
  <2>4. ImportersOK'
    BY <1>0, <1>3, <1>4, <2>2, Locals, Quiet DEF Open, ImportersOK
  <2> QED
    BY <1>2, <2>1, <2>3, <2>4 DEF ImportInv
<1>5. CASE SetPrefix(t)
  <2>1. RepositoryOK'
    BY <1>1, <1>5 DEF SetPrefix
  <2>2. pc[t] \in Inside /\ pc[t] \notin {"name", "check", "add"} /\ "read" \in Inside /\ "read" \notin Outside
    BY <1>5 DEF SetPrefix, Inside, Outside
  <2>3. ThreadsOK'
    <3>1. /\ pc' = [pc EXCEPT ![t] = "read"] /\ file' = file
          /\ got' = got /\ rqs' = rqs
      BY <1>5 DEF SetPrefix
    <3>2. "read" \notin {"name", "check", "add"}
      OBVIOUS
    <3>3. rqs[t] \in Seq(Entry) /\ rqs[t] = <<>> /\ rqs' = [rqs EXCEPT ![t] = rqs[t]]
      BY <2>2, <3>1, Locals
    <3> QED
      BY <1>0, <2>2, <3>1, <3>2, <3>3, StaysInside
  <2>4. file[t] \in Files /\ k(t) \in ImportKinds
    BY <2>2, Locals DEF Existing
  <2>5. prefix' \in [ImportKinds -> Files \cup {NoFile}]
    BY <1>3, <1>5, <2>4 DEF SetPrefix, ImportersOK
  <2>6. ImportersOK'
    BY <1>0, <1>3, <1>5, <2>5, Quiet DEF SetPrefix, ImportersOK
  <2> QED
    BY <1>2, <2>1, <2>3, <2>6 DEF ImportInv
<1>6. ASSUME stream' = [stream EXCEPT ![k(t)] = NoFile], UNCHANGED <<prefix, page, generated>>
      PROVE  ImportersOK'
  BY <1>0, <1>3, <1>6, Quiet DEF ImportersOK
<1>7. CASE Read(t)
  <2> DEFINE f == stream[k(t)]
  <2>1. RepositoryOK' /\ ImportersOK'
    BY <1>1, <1>6, <1>7 DEF Read
  <2>2. pc[t] \in Inside /\ pc[t] \notin {"name", "check", "add"} /\ "name" \in Inside /\ "name" \notin Outside
    BY <1>7 DEF Read, Inside, Outside
  <2>3. f \in Existing /\ ~Truncated(f)
    BY <1>3, <1>7, <2>2, Locals DEF Read, ImportersOK
  <2>4. Parsed(f) \in Seq(KnownIds) /\ Len(Parsed(f)) > 0
    BY <2>3, ParsedTyped
  <2>5. /\ pc' = [pc EXCEPT ![t] = "name"] /\ got' = [got EXCEPT ![t] = Parsed(f)]
        /\ file' = file /\ rqs' = rqs
    BY <1>7 DEF Read
  <2> HIDE DEF f
  <2>6. ThreadsOK'
    BY <1>0, <2>2, <2>4, <2>5, Locals, OneThread, EmptySeq DEF k
  <2> QED
    BY <1>2, <2>1, <2>6 DEF ImportInv
<1>8. CASE ReadFails(t)
  BY <1>0, <1>1, <1>2, <1>6, <1>8, ReturnTyped DEF ReadFails, ImportInv
<1>9. CASE ReadThrows(t)
  BY <1>0, <1>1, <1>2, <1>6, <1>9, ReturnTyped DEF ReadThrows, ImportInv
<1>10. CASE Name(t)
  <2> DEFINE n == Len(rqs[t]) + 1
             id == CASE k(t) = "ws"     -> got[t][n]
                     [] k(t) = "sqltxt" -> Rq(prefix["sqltxt"], n)
                     [] k(t) = "dtpp"   -> Generated(generated + 1)
             e == [id |-> id, rq |-> got[t][n]]
             p == IF n = Len(got[t]) THEN "check" ELSE "name"
  <2>1. /\ pc[t] = "name" /\ pc[t] \in Inside /\ p \in Inside /\ p \notin Outside
        /\ p # "add"
    BY <1>10 DEF Name, Inside, Outside
  <2>2. /\ rqs[t] \in Seq(Entry) /\ Len(rqs[t]) \in Nat /\ Len(rqs[t]) < Len(got[t])
        /\ got[t] \in Seq(KnownIds) /\ Len(got[t]) \in Nat
    BY <1>3, <2>1, Locals, LenProperties DEF ThreadsOK
  <2>3. n \in 1 .. Len(got[t]) /\ n \in Nat
    BY <2>2
  <2>4. got[t][n] \in KnownIds /\ got[t][n] \in RqType
    BY <2>2, <2>3, ElementOfSeq DEF KnownIds
  <2>5. prefix["sqltxt"] \in Files \cup {NoFile} /\ generated \in Nat
    BY <1>3 DEF ImportersOK, ImportKinds
  <2>6. Rq(prefix["sqltxt"], n) \in KnownIds
    BY <2>3, <2>5, RqTyped, ImportAssumption
  <2>7. Generated(generated + 1) \in KnownIds
    BY <2>5, RqTyped, ImportAssumption DEF Generated
  <2>8. k(t) \in {"dtpp", "sqltxt", "ws"}
    BY <2>1, Locals DEF ImportKinds
  <2>9. id \in KnownIds
    BY <2>4, <2>6, <2>7, <2>8
  <2>10. /\ rqs' = [rqs EXCEPT ![t] = Append(rqs[t], e)]
         /\ pc' = [pc EXCEPT ![t] = p]
         /\ generated' = IF k(t) = "dtpp" THEN generated + 1 ELSE generated
         /\ UNCHANGED <<repository, stream, prefix, page, file, got>>
    BY <1>10 DEF Name
  <2> HIDE DEF id
  <2>11. e \in Entry
    BY <2>4, <2>9 DEF Entry
  <2> HIDE DEF e
  <2>12. Append(rqs[t], e) \in Seq(Entry) /\ Len(Append(rqs[t], e)) = n
    BY <2>2, <2>11, AppendProperties
  <2>13. p = "name" => n < Len(got[t])
    BY <2>3, <2>2
  <2>14. p \in {"name", "check", "add"}
    OBVIOUS
  <2> HIDE DEF n, p
  <2>15. ThreadsOK'
    BY <1>0, <2>1, <2>10, <2>12, <2>13, <2>14, StaysInside
  <2>16. ImportersOK'
    BY <1>1, <1>3, <1>0, <2>5, <2>10, Quiet DEF ImportersOK
  <2> QED
    BY <1>1, <1>2, <2>10, <2>15, <2>16 DEF ImportInv
<1>11. CASE Check(t)
  <2>1. RepositoryOK' /\ ImportersOK'
    BY <1>1, <1>11 DEF Check
  <2>2. /\ pc[t] = "check" /\ rqs[t] # <<>> /\ pc[t] \in Inside /\ pc[t] \notin Outside
        /\ "add" \in Inside /\ "add" \notin Outside /\ UNCHANGED <<file, got>>
    BY <1>11 DEF Check, Inside, Outside
  <2>3. CASE IsDuplicate(t)
    <3>1. rqs' = [rqs EXCEPT ![t] = Tail(rqs[t])] /\ pc' = pc
      BY <1>11, <2>3 DEF Check
    <3>2. Tail(rqs[t]) \in Seq(Entry)
      BY <2>2, Locals, HeadTailProperties
    <3>3. "check" \in Inside /\ pc' = [pc EXCEPT ![t] = "check"]
      BY <2>2, <3>1, Locals DEF Inside
    <3>4. ThreadsOK'
      BY <1>0, <2>2, <3>1, <3>2, <3>3, StaysInside
    <3> QED
      BY <1>2, <2>1, <3>4 DEF ImportInv
  <2>4. CASE ~IsDuplicate(t)
    <3>1. pc' = [pc EXCEPT ![t] = "add"] /\ rqs' = rqs
      BY <1>11, <2>4 DEF Check
    <3>2. rqs[t] \in Seq(Entry) /\ rqs' = [rqs EXCEPT ![t] = rqs[t]]
      BY <3>1, Locals
    <3>3. ThreadsOK'
      BY <1>0, <2>2, <3>1, <3>2, StaysInside
    <3> QED
      BY <1>2, <2>1, <3>3 DEF ImportInv
  <2> QED
    BY <2>3, <2>4
<1>12. CASE addImported(t)
  <2> DEFINE e == Head(rqs[t])
  <2>1. /\ pc[t] = "add" /\ pc[t] \in Inside /\ "check" \in Inside /\ "check" \notin Outside
        /\ UNCHANGED <<stream, prefix, page, generated>>
    BY <1>12 DEF addImported, Adding, AddImported, AddRefused, AddThrows, Inside, Outside, threads
  <2>2. rqs[t] \in Seq(Entry) /\ rqs[t] # <<>>
    BY <1>3, <2>1 DEF ThreadsOK
  <2>3. e \in Entry /\ Tail(rqs[t]) \in Seq(Entry)
    BY <2>2, HeadTailProperties
  <2>4. t \in Adders /\ t # "intrace" /\ val(t) = e
    BY OwnTyped DEF val
  <2>5. LookForRoom(t) \/ AddGoesOn(t) \/ Put(t) \/ OfferRefused(t) \/ PollEmpty(t)
    BY <1>12 DEF addImported, Adding, AddImported, AddRefused, AddThrows
  <2> HIDE DEF e
  <2>6. val(t) \in Queueable /\ val(t) \in Entry
    BY <2>3, <2>4 DEF Queueable
  <2>7. /\ queue' \in Seq(Queueable) /\ Len(queue') <= Capacity
        /\ hashMap' \subseteq hashMap \cup {val(t)}
        /\ adding' \in [Adders -> {"out", "poll", "unmap", "offer", "put"}]
        /\ \A b \in Adders : b # t => adding'[b] = adding[b]
        /\ victim' \in [Adders -> RqType]
    BY <2>4, <2>5, <2>6, AccessTyped
  <2>8. Own' = Own /\ Queueable' = Queueable
    <3>1. Own' = Own
      BY <1>0 DEF Own, val
    <3> QED
      BY <1>1, <3>1 DEF Queueable
  <2>9. RepositoryOK'
    <3>1. adding'["intrace"] = adding["intrace"]
      BY <2>4, <2>7, OwnTyped
    <3>2. RepositoryOK
      BY DEF ImportInv
    <3> QED
      BY <1>0, <1>1, <2>6, <2>7, <2>8, <3>1, <3>2 DEF RepositoryOK
  <2>10. CASE Adding(t)
    <3>1. ThreadsOK'
      BY <1>0, <2>10, Quiet DEF Adding, threads
    <3> QED
      BY <1>1, <1>2, <2>1, <2>9, <3>1 DEF ImportInv
  <2>11. CASE AddImported(t)
    <3>1. /\ pc' = [pc EXCEPT ![t] = "check"] /\ rqs' = [rqs EXCEPT ![t] = Tail(rqs[t])]
          /\ UNCHANGED <<file, got>>
      BY <2>11 DEF AddImported
    <3>2. ThreadsOK'
      BY <1>0, <2>1, <2>3, <3>1, StaysInside
    <3> QED
      BY <1>1, <1>2, <2>1, <2>9, <3>2 DEF ImportInv
  <2>12. CASE AddRefused(t) \/ AddThrows(t)
    <3>1. ThreadsOK'
      BY <1>0, <2>12, ReturnTyped DEF AddRefused, AddThrows
    <3> QED
      BY <1>1, <1>2, <2>1, <2>9, <3>1 DEF ImportInv
  <2> QED
    BY <1>12, <2>10, <2>11, <2>12 DEF addImported
<1>13. CASE FileDone(t)
  BY <1>0, <1>1, <1>2, <1>13, ReturnTyped DEF FileDone, ImportInv
<1> QED
  BY <1>4, <1>5, <1>7, <1>8, <1>9, <1>10, <1>11, <1>12, <1>13 DEF importFile

(* A file may appear, or the agent report a request: what steps leave alone *)
(* stays well typed, for the sets of files and of known ids only grow.      *)
LEMMA Grows ==
  ASSUME ImportInv, reported \ {live} \subseteq reported' \ {live'},
         written' \in [Files -> Int], \A f \in Files : written[f] >= 0 => written'[f] >= 0
  PROVE  /\ Existing \subseteq Existing' /\ KnownIds \subseteq KnownIds' /\ Entry \subseteq Entry'
         /\ Seq(KnownIds) \subseteq Seq(KnownIds') /\ Seq(Entry) \subseteq Seq(Entry')
         /\ UNCHANGED <<repository, reported>> => RepositoryOK'
         /\ UNCHANGED <<stream, prefix, generated>> /\ page' \subseteq Entry' => ImportersOK'
         /\ UNCHANGED <<pc, file, got, rqs>> => ThreadsOK'
<1>1. Existing \subseteq Existing' /\ KnownIds \subseteq KnownIds'
  BY DEF Existing, KnownIds
<1>2. Entry \subseteq Entry'
  BY <1>1 DEF Entry
<1>3. Seq(KnownIds) \subseteq Seq(KnownIds') /\ Seq(Entry) \subseteq Seq(Entry')
  <2>1. ASSUME NEW S, NEW T, S \subseteq T, NEW s \in Seq(S) PROVE s \in Seq(T)
    BY <2>1, SeqMonotonic
  <2> QED
    BY <1>1, <1>2, <2>1
<1>4. UNCHANGED <<repository, reported>> => RepositoryOK'
  <2> SUFFICES ASSUME UNCHANGED <<repository, reported>> PROVE RepositoryOK'
    OBVIOUS
  <2>1. Own' = Own
    BY DEF Own, val, repository
  <2>2. Queueable \subseteq Queueable'
    BY <1>2, <2>1 DEF Queueable
  <2>3. queue \in Seq(Queueable')
    BY <2>2, SeqMonotonic DEF ImportInv, RepositoryOK
  <2> QED
    BY <1>2, <2>3 DEF ImportInv, repository, RepositoryOK
<1>5. UNCHANGED <<stream, prefix, generated>> /\ page' \subseteq Entry' => ImportersOK'
  BY <1>1 DEF ImportInv, ImportersOK
<1>6. UNCHANGED <<pc, file, got, rqs>> => ThreadsOK'
  BY <1>1, <1>3 DEF ImportInv, ThreadsOK
<1> QED
  BY <1>1, <1>2, <1>3, <1>4, <1>5, <1>6

(* The creation of a file queues the key, with an event or an overflow.     *)
LEMMA CreatedTyped ==
  ASSUME ImportInv, NEW f \in Files, Created(f), UNCHANGED <<batch, reported>>
  PROVE  /\ written' \in [Files -> Int]
         /\ \A g \in Files : written[g] >= 0 => written'[g] >= 0
         /\ \A g \in Files : written'[g] \in -1 .. Length[g]
         /\ WatchOK'
<1>1. /\ written \in [Files -> Int] /\ \A g \in Files : written[g] \in -1 .. Length[g]
      /\ Length \in [Files -> Nat \ {0}] /\ MaxEvents \in Nat \ {0}
      /\ written' = [written EXCEPT ![f] = 0]
  BY ImportAssumption DEF ImportInv, DiskOK, Created
<1>2. /\ written' \in [Files -> Int]
      /\ \A g \in Files : written[g] >= 0 => written'[g] >= 0
      /\ \A g \in Files : written'[g] \in -1 .. Length[g]
  BY <1>1
<1> DEFINE E == Existing' \cup {"overflow"}
<1>3. Existing \subseteq Existing' /\ f \in Existing'
  BY <1>1, <1>2 DEF Existing
<1>4. events \in Seq(E) /\ batch' \in Seq(E) /\ Len(events) \in Nat /\ Len(events) <= MaxEvents + 1
  BY <1>3, SeqMonotonic, LenProperties DEF ImportInv, WatchOK
<1>5. f \in E /\ "overflow" \in E
  BY <1>3
<1> HIDE DEF E
<1>6. events' \in Seq(E) /\ Len(events') <= MaxEvents + 1 /\ events' # <<>>
      /\ (Len(events') = MaxEvents + 1 => Last(events') = "overflow")
  <2>1. CASE Len(events) < MaxEvents
    <3>1. events' = Append(events, f)
      BY <2>1 DEF Created
    <3> QED
      BY <1>1, <1>4, <1>5, <2>1, <3>1, AppendProperties
  <2>2. CASE Len(events) >= MaxEvents /\ Last(events) = "overflow"
    <3>1. events' = events
      BY <1>1, <1>4, <2>2 DEF Created
    <3> QED
      BY <1>1, <1>4, <2>2, <3>1
  <2>3. CASE Len(events) >= MaxEvents /\ Last(events) # "overflow"
    <3>1. events' = Append(events, "overflow")
      BY <1>1, <1>4, <2>3 DEF Created
    <3>2. Len(events) = MaxEvents
      BY <1>1, <1>4, <2>3 DEF ImportInv, WatchOK
    <3>3. Len(events') = Len(events) + 1 /\ events'[Len(events) + 1] = "overflow" /\ events' \in Seq(E)
      BY <1>4, <1>5, <3>1, AppendProperties
    <3> QED
      BY <1>1, <1>4, <3>2, <3>3 DEF Last
  <2> QED
    BY <1>1, <1>4, <2>1, <2>2, <2>3
<1>7. keyState' # "ready"
  BY DEF Created
<1> QED
  BY <1>2, <1>4, <1>6, <1>7 DEF WatchOK, E

LEMMA WorldInv ==
  ASSUME ImportInv, World
  PROVE  ImportInv'
<1> USE DEF repository, disk, watch, importers, threads, users, history
<1>1. /\ RepositoryOK /\ DiskOK /\ WatchOK /\ ImportersOK
  BY DEF ImportInv
<1>2. ASSUME NEW f \in Files, CopyFile(f) PROVE ImportInv'
  <2>1. Created(f) /\ UNCHANGED <<batch, reported, content, repository, stream, prefix, generated, page,
                                  pc, file, got, rqs>>
    BY <1>2 DEF CopyFile
  <2>2. /\ written' \in [Files -> Int]
        /\ \A g \in Files : written[g] >= 0 => written'[g] >= 0
        /\ \A g \in Files : written'[g] \in -1 .. Length[g]
        /\ WatchOK'
    BY <2>1, CreatedTyped
  <2>3. /\ Entry \subseteq Entry' /\ Seq(KnownIds) \subseteq Seq(KnownIds') /\ RepositoryOK' /\ ThreadsOK'
        /\ page' \subseteq Entry' => ImportersOK'
    BY <2>1, <2>2, Grows
  <2>4. ImportersOK'
    BY <1>1, <2>1, <2>3 DEF ImportersOK
  <2>5. DiskOK'
    BY <1>1, <2>1, <2>2, <2>3 DEF DiskOK
  <2> QED
    BY <2>2, <2>3, <2>4, <2>5 DEF ImportInv
<1>3. ASSUME NEW f \in Files, Write(f) PROVE ImportInv'
  <2>1. /\ written' = [written EXCEPT ![f] = written[f] + 1] /\ written[f] >= 0 /\ written[f] < Length[f]
        /\ UNCHANGED <<batch, events, keyState, reported, content, repository, stream, prefix, generated, page,
                                  pc, file, got, rqs>>
    BY <1>3 DEF Write, Exists
  <2>2. /\ written' \in [Files -> Int]
        /\ \A g \in Files : written[g] >= 0 => written'[g] >= 0
        /\ \A g \in Files : written'[g] \in -1 .. Length[g]
    BY <1>1, <2>1, ImportAssumption DEF DiskOK
  <2>3. /\ Existing \subseteq Existing' /\ Entry \subseteq Entry' /\ Seq(KnownIds) \subseteq Seq(KnownIds')
        /\ RepositoryOK' /\ ThreadsOK' /\ page' \subseteq Entry' => ImportersOK'
    BY <2>1, <2>2, Grows
  <2>4. ImportersOK'
    BY <1>1, <2>1, <2>3, <2>2, Grows DEF ImportersOK
  <2>5. DiskOK'
    BY <1>1, <2>1, <2>2, <2>3 DEF DiskOK
  <2>6. WatchOK'
    <3>1. events' \in Seq((Existing \cup {"overflow"})') /\ batch' \in Seq((Existing \cup {"overflow"})')
      BY <1>1, <2>1, <2>3, SeqMonotonic DEF WatchOK
    <3> QED
      BY <1>1, <2>1, <3>1 DEF WatchOK, Last
  <2>7. RepositoryOK' /\ ThreadsOK'
    BY <2>1, <2>2, Grows
  <2> QED
    BY <2>4, <2>5, <2>6, <2>7 DEF ImportInv
<1>4. ASSUME (\E r \in LiveRequests : Live(r)) \/ LiveAdds \/ LiveEnds PROVE ImportInv'
  <2>1. /\ LookForRoom("intrace") \/ AddGoesOn("intrace") \/ Put("intrace")
              \/ OfferRefused("intrace") \/ PollEmpty("intrace")
        /\ UNCHANGED <<batch, events, keyState, written, content, stream, prefix, generated, page,
                       pc, file, got, rqs>>
    BY <1>4 DEF Live, LiveAdds, LiveEnds
  <2>2. "intrace" \in Adders /\ val("intrace") \in Queueable /\ val("intrace") = Own
    BY OwnTyped DEF Queueable, Own
  <2>3. /\ queue' \in Seq(Queueable) /\ Len(queue') <= Capacity
        /\ hashMap' \subseteq hashMap \cup {Own} /\ (~Put("intrace") => hashMap' \subseteq hashMap)
        /\ adding' \in [Adders -> {"out", "poll", "unmap", "offer", "put"}]
        /\ victim' \in [Adders -> RqType]
        /\ AddGoesOn("intrace") => adding["intrace"] # "out" /\ adding'["intrace"] # "out"
        /\ LookForRoom("intrace") => adding'["intrace"] # "out"
        /\ Put("intrace") \/ OfferRefused("intrace") \/ PollEmpty("intrace") => adding'["intrace"] = "out"
    BY <2>1, <2>2, AccessTyped
  <2>4. /\ reported \subseteq LiveRequests /\ live \in reported \cup {NoFile} /\ NoFile \notin LiveRequests
        /\ live = NoFile <=> adding["intrace"] = "out"
        /\ Own = [id |-> Rq(live, 0), rq |-> Rq(live, 0)] /\ Rq(live, 0) \in RqType /\ Rq(live, 0).of = live
    BY <1>1, OwnTyped, ImportAssumption DEF RepositoryOK, Rq
  \* What becomes known: nothing, or the request that is ended.
  <2>5. /\ reported' \subseteq LiveRequests /\ reported \ {live} \subseteq reported' \ {live'}
        /\ live' \in reported' \cup {NoFile} /\ (live' = NoFile <=> adding'["intrace"] = "out")
        /\ \/ live' = live /\ reported' = reported /\ ~Put("intrace")
           \/ Own \in Entry'
    <3>1. CASE \E r \in LiveRequests : Live(r)
      <4>1. PICK r \in LiveRequests : Live(r)
        BY <3>1
      <4>2. /\ r \notin reported /\ live' = r /\ reported' = reported \cup {r} /\ adding["intrace"] = "out"
            /\ LookForRoom("intrace")
        BY <4>1 DEF Live, LookForRoom
      <4>3. live = NoFile /\ adding'["intrace"] # "out"
        BY <2>3, <2>4, <4>2
      <4>4. Rq(live, 0) \in KnownIds'
        BY <2>4, <4>3 DEF KnownIds, RqType
      <4>5. Own \in Entry'
        BY <2>4, <4>4 DEF Entry, RqType
      <4> QED
        BY <2>4, <4>2, <4>3, <4>5
    <3>2. CASE LiveAdds
      <4>1. AddGoesOn("intrace") /\ live' = live /\ reported' = reported
        BY <3>2 DEF LiveAdds
      <4>2. ~Put("intrace")
        BY <4>1 DEF AddGoesOn, Poll, Unmap, Offer, Put
      <4> QED
        BY <2>3, <2>4, <4>1, <4>2
    <3>3. CASE LiveEnds
      <4>1. live' = NoFile /\ reported' = reported /\ adding'["intrace"] = "out"
        BY <2>3, <3>3 DEF LiveEnds
      <4>2. Rq(live, 0) \in KnownIds'
        BY <2>4, <4>1 DEF KnownIds, RqType
      <4>3. Own \in Entry'
        BY <2>4, <4>2 DEF Entry, RqType
      <4> QED
        BY <2>4, <4>1, <4>3
    <3> QED
      BY <1>4, <3>1, <3>2, <3>3
  <2>6. /\ Entry \subseteq Entry' /\ Seq(KnownIds) \subseteq Seq(KnownIds')
        /\ ThreadsOK' /\ (page' \subseteq Entry' => ImportersOK')
    BY <1>1, <2>1, <2>5, Grows DEF DiskOK
  <2>7. ImportersOK' /\ DiskOK' /\ WatchOK'
    BY <1>1, <2>1, <2>6 DEF ImportersOK, DiskOK, WatchOK, Existing, Last
  <2>8. Queueable \subseteq Queueable' /\ hashMap' \subseteq Entry'
    <3>1. CASE Own \in Entry'
      BY <1>1, <2>3, <2>6, <3>1 DEF Queueable, RepositoryOK
    <3>2. CASE live' = live /\ reported' = reported /\ ~Put("intrace")
      <4>1. Own' = Own
        BY <3>2 DEF Own, val
      <4> QED
        BY <1>1, <2>3, <2>6, <3>2, <4>1 DEF Queueable, RepositoryOK
    <3> QED
      BY <2>5, <3>1, <3>2
  <2>9. queue' \in Seq(Queueable')
    BY <2>3, <2>8, SeqMonotonic
  <2>10. RepositoryOK'
    BY <2>3, <2>5, <2>8, <2>9 DEF RepositoryOK
  <2> QED
    BY <2>6, <2>7, <2>10 DEF ImportInv
<1>5. CASE OpenPage
  <2>1. UNCHANGED <<repository, written, content, events, keyState, batch, stream, prefix,
                    pc, file, got, rqs, generated, reported>>
    BY <1>5 DEF OpenPage
  <2>2. /\ Entry' = Entry /\ RepositoryOK' /\ DiskOK' /\ WatchOK' /\ ThreadsOK'
    BY <2>1, Quiet
  <2>3. page' \subseteq Entry
    BY <1>1, <1>5 DEF OpenPage, RepositoryOK
  <2>4. ImportersOK'
    BY <1>1, <2>1, <2>2, <2>3, Quiet DEF ImportersOK
  <2> QED
    BY <2>2, <2>4 DEF ImportInv
<1>6. ASSUME NEW f \in Files, Export(f) PROVE ImportInv'
  <2>1. Created(f) /\ UNCHANGED <<batch, reported, repository, stream, prefix, generated, page,
                                  pc, file, got, rqs>>
    BY <1>6 DEF Export
  <2>2. /\ written' \in [Files -> Int]
        /\ \A g \in Files : written[g] >= 0 => written'[g] >= 0
        /\ \A g \in Files : written'[g] \in -1 .. Length[g]
        /\ WatchOK'
    BY <2>1, CreatedTyped
  <2>3. /\ KnownIds \subseteq KnownIds' /\ Entry \subseteq Entry' /\ Seq(KnownIds) \subseteq Seq(KnownIds')
        /\ RepositoryOK' /\ ThreadsOK'
        /\ page' \subseteq Entry' => ImportersOK'
    BY <2>1, <2>2, Grows
  <2>4. RepositoryOK' /\ ThreadsOK' /\ ImportersOK'
    BY <1>1, <2>1, <2>2, <2>3, Grows DEF ImportersOK
  <2>5. PICK r \in page : content' = [content EXCEPT ![f] = <<r.id>>]
    BY <1>6 DEF Export
  <2>6. r.id \in KnownIds /\ f \in ExportFiles /\ Length[f] = 1
    BY <1>1, <1>6, <2>5, ImportAssumption DEF ImportersOK, Entry, Export
  <2> DEFINE id == r.id
  <2>7. content' = [content EXCEPT ![f] = <<id>>] /\ id \in KnownIds'
    BY <2>3, <2>5, <2>6
  <2> HIDE DEF id
  <2>8. <<id>> \in Seq(KnownIds') /\ Len(<<id>>) = 1
    BY <2>7
  <2>9. content' \in [Files -> Seq(KnownIds')] /\ \A g \in Files : Len(content'[g]) = Length[g]
    BY <1>1, <2>3, <2>6, <2>7, <2>8 DEF DiskOK
  <2>10. DiskOK'
    BY <2>2, <2>9 DEF DiskOK
  <2> QED
    BY <2>2, <2>4, <2>10 DEF ImportInv
<1> QED
  BY <1>2, <1>3, <1>4, <1>5, <1>6 DEF World

LEMMA RunInv ==
  ASSUME ImportInv, run
  PROVE  ImportInv'
<1> USE DEF repository, disk, importers, threads, users, history
<1>1. "listener" \in Importing /\ ThreadsOK /\ WatchOK /\ ImportersOK
  BY DEF run, Take, HandleEvent, SkipOverflow, Reset, ImportInv
<1>2. /\ UNCHANGED <<reported, written, content, repository, stream, prefix, page, generated>>
  BY DEF run, Take, HandleEvent, SkipOverflow, Reset
<1>3. /\ KnownIds' = KnownIds /\ Entry' = Entry /\ Existing' = Existing
      /\ RepositoryOK' /\ DiskOK' /\ ImportersOK'
      /\ UNCHANGED watch => WatchOK'
      /\ UNCHANGED <<pc, file, got, rqs>> => ThreadsOK'
  BY <1>2, Quiet
<1> DEFINE E == Existing \cup {"overflow"}
<1>4. events \in Seq(E) /\ batch \in Seq(E)
  BY <1>1 DEF WatchOK
<1> HIDE DEF E
<1>5. CASE Take
  <2>1. /\ pc["listener"] \in Outside /\ "event" \in Outside
        /\ pc' = [pc EXCEPT !["listener"] = "event"] /\ UNCHANGED <<file, got, rqs>>
        /\ keyState' = "taken" /\ batch' = events /\ events' = <<>>
    BY <1>5 DEF Take, Outside
  <2>2. ThreadsOK'
    BY <1>1, <1>2, <2>1, StaysOutside
  <2>3. events' \in Seq(E) /\ Len(events') = 0
    BY <2>1, EmptySeq
  <2>4. WatchOK'
    BY <1>3, <1>4, <2>1, <2>3, ImportAssumption DEF WatchOK, E
  <2> QED
    BY <1>3, <2>2, <2>4 DEF ImportInv
<1>6. ASSUME batch # <<>>, batch' = Tail(batch), UNCHANGED <<events, keyState>>
      PROVE  WatchOK' /\ Head(batch) \in E
  <2>1. Tail(batch) \in Seq(E) /\ Head(batch) \in E
    BY <1>4, <1>6, HeadTailProperties
  <2> QED
    BY <1>1, <1>3, <1>4, <1>6, <2>1 DEF WatchOK, E, Last
<1>7. CASE HandleEvent
  <2> DEFINE f == Head(batch)
  <2>1. /\ pc["listener"] \in Outside /\ batch # <<>> /\ f # "overflow"
        /\ batch' = Tail(batch) /\ UNCHANGED <<events, keyState>> /\ Dispatch("listener", f)
    BY <1>7 DEF HandleEvent, Outside
  <2>2. WatchOK' /\ f \in Existing
    BY <1>6, <2>1 DEF E
  <2> HIDE DEF f
  <2>3. ThreadsOK'
    BY <1>1, <1>2, <2>1, <2>2, DispatchTyped
  <2> QED
    BY <1>3, <2>2, <2>3 DEF ImportInv
<1>8. CASE SkipOverflow
  <2>1. /\ batch # <<>> /\ batch' = Tail(batch) /\ UNCHANGED <<events, keyState, pc, file, got, rqs>>
    BY <1>8 DEF SkipOverflow
  <2> QED
    BY <1>3, <1>6, <2>1 DEF ImportInv
<1>9. CASE Reset
  <2>1. /\ pc["listener"] \in Outside /\ "wait" \in Outside
        /\ pc' = [pc EXCEPT !["listener"] = "wait"] /\ UNCHANGED <<file, got, rqs, batch, events>>
        /\ keyState' = IF events = <<>> THEN "ready" ELSE "queued"
    BY <1>9 DEF Reset, Outside
  <2>2. ThreadsOK'
    BY <1>1, <1>2, <2>1, StaysOutside
  <2>3. WatchOK'
    BY <1>1, <1>3, <2>1 DEF WatchOK, Last
  <2> QED
    BY <1>3, <2>2, <2>3 DEF ImportInv
<1> QED
  BY <1>5, <1>7, <1>8, <1>9 DEF run

LEMMA StartupInv ==
  ASSUME ImportInv, Startup
  PROVE  ImportInv'
<1> USE DEF repository, disk, importers, users, history
<1>1. "startup" \in Importing /\ pc["startup"] = "idle" /\ pc["startup"] \in Outside
  BY DEF Startup, StartupDone, NextFile, Outside
<1>2. UNCHANGED <<reported, written, live>> /\ UNCHANGED <<content, repository, stream, prefix, page, generated>>
  BY DEF Startup, StartupDone, NextFile
<1>3. UNCHANGED watch
  BY DEF Startup, StartupDone, NextFile
<1>4. RepositoryOK' /\ DiskOK' /\ ImportersOK' /\ WatchOK'
  BY <1>2, <1>3, Quiet
<1>5. CASE StartupDone
  <2>1. pc' = [pc EXCEPT !["startup"] = "done"] /\ UNCHANGED <<file, got, rqs>>
    BY <1>5 DEF StartupDone
  <2>2. "done" \in Outside
    BY DEF Outside
  <2>3. ThreadsOK'
    BY <1>1, <1>2, <2>1, <2>2, StaysOutside
  <2> QED
    BY <1>4, <2>3 DEF ImportInv
<1>6. ASSUME NEW f \in Files, NextFile(f) PROVE ImportInv'
  <2>1. f \in Existing /\ Dispatch("startup", f)
    BY <1>6 DEF NextFile, Exists, Existing
  <2>2. ThreadsOK'
    BY <1>1, <1>2, <2>1, DispatchTyped
  <2> QED
    BY <1>4, <2>2 DEF ImportInv
<1> QED
  BY <1>5, <1>6 DEF Startup

LEMMA NextImportInv == ImportInv /\ [Next]_vars => ImportInv'
<1> SUFFICES ASSUME ImportInv, [Next]_vars PROVE ImportInv'
  OBVIOUS
<1>1. CASE UNCHANGED vars
  BY <1>1, Quiet DEF ImportInv, vars, repository, disk, watch, importers, threads, users
<1>2. CASE Next
  BY <1>2, StartupInv, RunInv, WorldInv, ImportFileInv DEF Next
<1> QED
  BY <1>1, <1>2

(* A thread is in add() only where it adds.                                 *)
AddingInv == \A t \in Importing : adding[t] # "out" => pc[t] = "add"

LEMMA NextAddingInv ==
  ASSUME ImportInv, AddingInv, [Next]_vars
  PROVE  AddingInv'
<1> USE DEF repository, disk, watch, importers, threads, users, history
<1>1. pc \in [Importing -> Outside \cup Inside] /\ adding \in [Adders -> {"out", "poll", "unmap", "offer", "put"}]
  BY DEF ImportInv, ThreadsOK, RepositoryOK
<1>2. "intrace" \notin Importing /\ Importing \subseteq Adders
  BY OwnTyped
<1>3. ASSUME NEW t \in Importing, importFile(t) PROVE AddingInv'
  <2>1. \A u \in Importing : u # t => pc'[u] = pc[u] /\ adding'[u] = adding[u]
    <3>1. CASE addImported(t)
      BY <1>1, <1>2, <3>1 DEF addImported, Adding, AddImported, AddRefused, AddThrows, Return, Throw, Leave,
         LookForRoom, AddGoesOn, Poll, Unmap, Offer, Put, OfferRefused, PollEmpty
    <3>2. CASE Open(t) \/ SetPrefix(t) \/ Read(t) \/ Name(t) \/ Check(t)
      <4>1. UNCHANGED adding /\ \E p : pc' = [pc EXCEPT ![t] = p]
        BY <1>1, <3>2 DEF Open, SetPrefix, Read, Name, Check
      <4> QED
        BY <1>1, <4>1
    <3>3. CASE ReadFails(t) \/ ReadThrows(t) \/ FileDone(t)
      BY <1>1, <3>3 DEF ReadFails, ReadThrows, FileDone, Return, Throw, Leave
    <3> QED
      BY <1>3, <3>1, <3>2, <3>3 DEF importFile
  <2>2. adding'[t] # "out" => pc'[t] = "add"
    <3>1. CASE addImported(t)
      BY <1>1, <1>2, <3>1 DEF addImported, Adding, AddImported, AddRefused, AddThrows,
         LookForRoom, AddGoesOn, Poll, Unmap, Offer, Put, OfferRefused, PollEmpty
    <3>2. CASE ~addImported(t)
      <4>1. adding' = adding /\ pc[t] # "add"
        BY <1>3, <3>2 DEF importFile, Open, SetPrefix, Read, ReadFails, ReadThrows, Name, Check, FileDone
      <4> QED
        BY <4>1 DEF AddingInv
    <3> QED
      BY <3>1, <3>2
  <2> QED
    BY <2>1, <2>2 DEF AddingInv
<1>4. ASSUME Startup \/ run PROVE AddingInv'
  <2>1. PICK t \in Importing : pc[t] # "add" /\ \A u \in Importing : u # t => pc'[u] = pc[u]
    <3>1. CASE Startup
      BY <1>1, <3>1 DEF Startup, StartupDone, NextFile, Dispatch, Return, Leave
    <3>2. CASE run
      BY <1>1, <3>2 DEF run, Take, HandleEvent, SkipOverflow, Reset, Dispatch, Return, Leave
    <3> QED
      BY <1>4, <3>1, <3>2
  <2>2. adding' = adding
    BY <1>4 DEF Startup, StartupDone, NextFile, run, Take, HandleEvent, SkipOverflow, Reset
  <2> QED
    BY <2>1, <2>2 DEF AddingInv
<1>5. ASSUME World PROVE AddingInv'
  <2>1. pc' = pc
    BY <1>5 DEF World, OpenPage, Live, LiveAdds, LiveEnds, CopyFile, Write, Export
  <2>2. \A t \in Importing : adding'[t] = adding[t]
    BY <1>1, <1>2, <1>5 DEF World, OpenPage, Live, LiveAdds, LiveEnds, CopyFile, Write, Export,
         LookForRoom, AddGoesOn, Poll, Unmap, Offer, Put, OfferRefused, PollEmpty
  <2> QED
    BY <2>1, <2>2 DEF AddingInv
<1>6. CASE UNCHANGED vars
  BY <1>6 DEF vars, AddingInv
<1> QED
  BY <1>3, <1>4, <1>5, <1>6 DEF Next

(* Whoever adds at once, and whatever add() throws: the queue stays within  *)
(* its capacity, the watch key keeps at most one event above its limit, and *)
(* a thread is at a file exactly while it imports, and in add() exactly     *)
(* while it adds.                                                           *)
THEOREM ImportTypeCorrect == Spec => []TypeOK
<1>1. Init => AddingInv
  BY OwnTyped, InitImportInv DEF Init, AddingInv
<1>2. ImportInv /\ AddingInv /\ [Next]_vars => AddingInv'
  BY NextAddingInv
<1>3. ImportInv /\ AddingInv => TypeOK
  <2> SUFFICES ASSUME ImportInv, AddingInv PROVE TypeOK
    OBVIOUS
  <2>1. RepositoryOK /\ DiskOK /\ WatchOK /\ ImportersOK /\ ThreadsOK
    BY DEF ImportInv
  <2>2. KnownIds \subseteq RqType /\ Entry \subseteq Entries /\ Queueable \subseteq Entries /\ Existing \subseteq Files
    BY OwnTyped DEF KnownIds, Entry, Entries, Existing
  <2>3. /\ queue \in Seq(Entries) /\ Len(queue) <= Capacity /\ hashMap \subseteq Entries
        /\ adding \in [Adders -> {"out", "poll", "unmap", "offer", "put"}] /\ victim \in [Adders -> RqType]
        /\ live = NoFile <=> adding["intrace"] = "out"
    BY <2>1, <2>2, SeqMonotonic DEF RepositoryOK
  <2>4. content \in [Files -> Seq(RqType)]
    BY <2>1, <2>2, SeqMonotonic DEF DiskOK
  <2>5. stream \in [ImportKinds -> Files \cup {NoFile}]
    BY <2>1, <2>2 DEF ImportersOK
  <2>6. ASSUME NEW t \in Importing
        PROVE  file[t] = NoFile <=> pc[t] \in Outside
    <3>1. pc[t] \in Outside \cup Inside
      BY <2>1 DEF ThreadsOK
    <3> QED
      BY <2>1, <2>2, <3>1, ImportAssumption DEF ThreadsOK
  <2>7. \A t \in Importing : adding[t] # "out" => pc[t] = "add"
    BY DEF AddingInv
  <2> QED
    BY <2>1, <2>3, <2>4, <2>5, <2>6, <2>7 DEF TypeOK, DiskOK, WatchOK, ImportersOK
<1> QED
  BY <1>1, <1>2, <1>3, InitImportInv, NextImportInv, PTL DEF Spec


----------------------------------------------------------------------------
(* With one importing thread the repository keeps its map unique.  A queued *)
(* id is in the map or about to be put, and so is that of a request polled  *)
(* and not unmapped yet, which is queued no more.  What the listener has    *)
(* found absent stays absent until it puts it: meanwhile only the agent     *)
(* adds, an id that nobody has known.                                       *)
Keys == {e.id : e \in hashMap}

BeingPut == {val(a).id : a \in {b \in Adders : adding[b] = "put"}}

UniqueInv ==
  /\ UniqueIds
  /\ \A i \in 1 .. Len(queue) : queue[i].id \in Keys \cup BeingPut
  /\ \A a \in Adders : adding[a] = "unmap" =>
       /\ victim[a] \in Keys \cup BeingPut
       /\ \A i \in 1 .. Len(queue) : queue[i].id # victim[a]
       /\ \A b \in Adders \ {a} : adding[b] = "unmap" => victim[b] # victim[a]
  /\ \A t \in Importing : pc[t] = "add" /\ adding[t] # "put" => Head(rqs[t]).id \notin Keys

(* Only the end of an add() brings the map a new id, its argument's.        *)
LEMMA AccessKeys ==
  ASSUME NEW a, LookForRoom(a) \/ AddGoesOn(a) \/ Put(a) \/ OfferRefused(a) \/ PollEmpty(a)
  PROVE  /\ Keys' \subseteq Keys \cup {val(a).id} /\ (~Put(a) => Keys' \subseteq Keys)
         /\ ~Put(a) /\ ~Unmap(a) => Keys' = Keys
  BY DEF Keys, LookForRoom, AddGoesOn, Poll, Unmap, Offer, Put, OfferRefused, PollEmpty

(* The ids that threads are about to add differ, and that of the agent's    *)
(* request is none of the map's before it is put there.                     *)
LEMMA Fresh ==
  ASSUME "startup" \notin Importing, ImportInv, AddingInv, UniqueInv,
         NEW a \in Adders, adding[a] # "out"
  PROVE  /\ adding[a] # "put" => val(a).id \notin Keys
         /\ \A b \in Adders \ {a} : adding[b] # "out" => val(b).id # val(a).id
<1>1. ASSUME NEW b \in Adders, adding[b] # "out", b # "intrace"
      PROVE  b \in Importing /\ b = "listener" /\ pc[b] = "add" /\ val(b).id \in KnownIds /\ val(b) = Head(rqs[b])
  <2>1. b \in Importing /\ b = "listener"
    BY <1>1, ImportAssumption DEF Adders
  <2>2. pc[b] = "add"
    BY <1>1, <2>1 DEF AddingInv
  <2>3. rqs[b] \in Seq(Entry) /\ rqs[b] # <<>>
    BY <2>1, <2>2 DEF ImportInv, ThreadsOK
  <2>4. Head(rqs[b]) \in Entry
    BY <2>3, HeadTailProperties
  <2> QED
    BY <1>1, <2>1, <2>2, <2>4 DEF Entry, val
<1>2. adding["intrace"] # "out" => val("intrace").id \notin KnownIds
  <2>1. adding["intrace"] # "out" => live # NoFile
    BY DEF ImportInv, RepositoryOK
  <2>2. Own.id = Rq(live, 0)
    BY OwnTyped
  <2> QED
    BY <2>1, <2>2, OwnTyped DEF Own
<1>3. Keys \subseteq KnownIds
  BY DEF Keys, ImportInv, RepositoryOK, Entry
<1>4. adding[a] # "put" => val(a).id \notin Keys
  <2>1. CASE a = "intrace"
    BY <1>2, <1>3, <2>1
  <2>2. CASE a # "intrace"
    BY <1>1, <2>2 DEF UniqueInv
  <2> QED
    BY <2>1, <2>2
<1>5. ASSUME NEW b \in Adders \ {a}, adding[b] # "out" PROVE val(b).id # val(a).id
  <2>1. CASE a = "intrace"
    BY <1>1, <1>2, <1>5, <2>1
  <2>2. CASE b = "intrace"
    BY <1>1, <1>2, <1>5, <2>2
  <2>3. CASE a # "intrace" /\ b # "intrace"
    BY <1>1, <1>5, <2>3
  <2> QED
    BY <2>1, <2>2, <2>3
<1> QED
  BY <1>4, <1>5

(* An access of add() keeps all but the last part, which depends on what    *)
(* the thread does next: the map gets no other id than the one put.         *)
LEMMA AccessUnique ==
  ASSUME "startup" \notin Importing, ImportInv, AddingInv, UniqueInv, NEW a \in Adders,
         LookForRoom(a) \/ AddGoesOn(a) \/ Put(a) \/ OfferRefused(a) \/ PollEmpty(a),
         adding[a] # "out" => val(a) \in Queueable,
         \A b \in Adders : adding'[b] = "put" => val(b)' = val(b)
  PROVE  /\ UniqueIds'
         /\ \A i \in 1 .. Len(queue') : queue'[i].id \in Keys' \cup BeingPut'
         /\ \A b \in Adders : adding'[b] = "unmap" =>
              /\ victim'[b] \in Keys' \cup BeingPut'
              /\ \A i \in 1 .. Len(queue') : queue'[i].id # victim'[b]
              /\ \A c \in Adders \ {b} : adding'[c] = "unmap" => victim'[c] # victim'[b]
         /\ Keys' \subseteq Keys \cup {val(a).id} /\ (~Put(a) => Keys' \subseteq Keys)
<1> DEFINE S == {"out", "poll", "unmap", "offer", "put"}
           Held == Keys \cup BeingPut
<1>1. /\ queue \in Seq(Queueable) /\ Len(queue) \in Nat
      /\ adding \in [Adders -> S] /\ victim \in [Adders -> RqType]
  BY LenProperties DEF ImportInv, RepositoryOK
<1>2. /\ \A i, j \in 1 .. Len(queue) : queue[i].id = queue[j].id => i = j
      /\ \A i \in 1 .. Len(queue) : queue[i].id \in Held
      /\ \A b \in Adders : adding[b] = "unmap" => victim[b] \in Held
      /\ \A b \in Adders : adding[b] = "unmap" => \A i \in 1 .. Len(queue) : queue[i].id # victim[b]
      /\ \A b, c \in Adders : adding[b] = "unmap" /\ adding[c] = "unmap" /\ b # c => victim[b] # victim[c]
  BY DEF UniqueInv, UniqueIds
<1>3. /\ \A b \in Adders : b # a => adding'[b] = adding[b]
      /\ \A b \in Adders : b # a \/ ~(adding[a] = "poll" \/ adding[a] = "unmap") => victim'[b] = victim[b]
  BY <1>1 DEF LookForRoom, AddGoesOn, Poll, Unmap, Offer, Put, OfferRefused, PollEmpty
\* Who was about to put still is, but for the one who puts.
<1>4. ASSUME NEW id, id \in BeingPut, ~Put(a) PROVE id \in BeingPut'
  <2>1. PICK b \in Adders : adding[b] = "put" /\ val(b).id = id
    BY <1>4 DEF BeingPut
  <2>2. b # a
    BY <1>4, <2>1 DEF LookForRoom, AddGoesOn, Poll, Unmap, Offer, OfferRefused, PollEmpty
  <2>3. adding'[b] = "put" /\ val(b)' = val(b)
    BY <1>3, <2>1, <2>2
  <2> QED
    BY <2>1, <2>3 DEF BeingPut
<1>5. /\ Keys' \subseteq Keys \cup {val(a).id} /\ (~Put(a) => Keys' \subseteq Keys)
      /\ ~Put(a) /\ ~Unmap(a) => Keys' = Keys
  BY AccessKeys
<1> DEFINE Goal == /\ \A i, j \in 1 .. Len(queue') : queue'[i].id = queue'[j].id => i = j
                   /\ \A i \in 1 .. Len(queue') : queue'[i].id \in Keys' \cup BeingPut'
                   /\ \A b \in Adders : adding'[b] = "unmap" => victim'[b] \in Keys' \cup BeingPut'
                   /\ \A b \in Adders : adding'[b] = "unmap" => \A i \in 1 .. Len(queue') : queue'[i].id # victim'[b]
                   /\ \A b, c \in Adders : adding'[b] = "unmap" /\ adding'[c] = "unmap" /\ b # c => victim'[b] # victim'[c]
<1> SUFFICES Goal
  BY <1>5 DEF UniqueIds
<1>6. CASE LookForRoom(a) \/ OfferRefused(a) \/ PollEmpty(a)
  <2>1. /\ queue' = queue /\ victim' = victim /\ adding'[a] # "unmap" /\ adding'[a] # "put" /\ ~Put(a) /\ ~Unmap(a)
    BY <1>1, <1>6 DEF LookForRoom, OfferRefused, PollEmpty, Put, Unmap
  <2>2. \A b \in Adders : adding'[b] = "unmap" => adding[b] = "unmap"
    BY <1>3, <2>1
  <2> HIDE DEF S
  <2> QED
    BY <1>2, <1>4, <1>5, <2>1, <2>2
<1>7. CASE Poll(a)
  <2>1. /\ queue # <<>> /\ queue' = Tail(queue) /\ victim' = [victim EXCEPT ![a] = Head(queue).id]
        /\ adding[a] = "poll" /\ ~Put(a) /\ ~Unmap(a)
    BY <1>7 DEF Poll, Put, Unmap
  <2>2. /\ Len(queue') = Len(queue) - 1 /\ Head(queue) = queue[1] /\ Len(queue) # 0
        /\ \A i \in 1 .. Len(queue') : queue'[i] = queue[i + 1]
    BY <1>1, <2>1, HeadTailProperties
  <2>3. /\ 1 \in 1 .. Len(queue) /\ victim'[a] = queue[1].id
        /\ \A i \in 1 .. Len(queue') : i + 1 \in 1 .. Len(queue) /\ i + 1 # 1 /\ queue'[i] = queue[i + 1]
    BY <1>1, <2>1, <2>2
  <2>4. \A b \in Adders : adding'[b] = "unmap" => b = a \/ (adding[b] = "unmap" /\ victim'[b] = victim[b])
    BY <1>3
  <2>5. /\ \A i, j \in 1 .. Len(queue') : queue'[i].id = queue'[j].id => i = j
    BY <1>1, <1>2, <2>2, <2>3
  <2>6. \A i \in 1 .. Len(queue') : queue'[i].id # victim'[a]
    BY <1>2, <2>3
  <2>7. \A b \in Adders : b # a /\ adding[b] = "unmap" => victim[b] # victim'[a]
    BY <1>2, <2>3
  <2>8. Held \subseteq Keys' \cup BeingPut'
    BY <1>4, <1>5, <2>1
  <2>9. victim'[a] \in Held
    BY <1>2, <2>3
  <2> HIDE DEF S, Held
  <2> QED
    BY <1>2, <2>3, <2>4, <2>5, <2>6, <2>7, <2>8, <2>9
<1>8. CASE Unmap(a)
  <2>1. /\ queue' = queue /\ hashMap' = {e \in hashMap : e.id # victim[a]} /\ adding[a] = "unmap"
        /\ adding'[a] = "offer" /\ ~Put(a)
    BY <1>1, <1>8 DEF Unmap, Put
  <2>2. Keys' = Keys \ {victim[a]}
    BY <2>1 DEF Keys
  <2>3. \A b \in Adders : adding'[b] = "unmap" => b # a /\ adding[b] = "unmap" /\ victim'[b] = victim[b]
    BY <1>3, <2>1
  <2>4. Held \ {victim[a]} \subseteq Keys' \cup BeingPut'
    BY <1>4, <2>1, <2>2
  <2> HIDE DEF S, Held
  <2> QED
    BY <1>2, <2>1, <2>3, <2>4
<1>9. CASE Offer(a)
  <2> DEFINE e == val(a)
  <2>1. /\ queue' = Append(queue, e) /\ victim' = victim /\ adding[a] = "offer" /\ adding'[a] = "put" /\ ~Put(a) /\ ~Unmap(a)
    BY <1>1, <1>9 DEF Offer, Put, Unmap
  <2>2. e \in Queueable
    BY <2>1
  <2>3. val(a)' = e
    BY <2>1
  <2>4. e.id \in BeingPut'
    BY <2>1, <2>3 DEF BeingPut
  <2>5. e.id \notin Held
    <3>1. e.id \notin Keys /\ \A b \in Adders \ {a} : adding[b] # "out" => val(b).id # e.id
      BY <2>1, Fresh
    <3> QED
      BY <2>1, <3>1 DEF BeingPut
  <2> HIDE DEF e
  <2>6. /\ Len(queue') = Len(queue) + 1 /\ queue'[Len(queue) + 1] = e
        /\ \A i \in 1 .. Len(queue) : queue'[i] = queue[i]
    BY <1>1, <2>1, <2>2, AppendProperties
  <2>7. \A i \in 1 .. Len(queue') : i = Len(queue) + 1 \/ i \in 1 .. Len(queue)
    BY <1>1, <2>6
  <2>8. \A i \in 1 .. Len(queue) : queue[i].id # e.id
    BY <1>2, <2>5
  <2>9. \A b \in Adders : adding'[b] = "unmap" => adding[b] = "unmap" /\ victim[b] # e.id
    BY <1>2, <1>3, <2>1, <2>5
  <2>10. Held \subseteq Keys' \cup BeingPut'
    BY <1>4, <1>5, <2>1
  <2>11. \A i, j \in 1 .. Len(queue') : queue'[i].id = queue'[j].id => i = j
    <3> HIDE DEF S, Held
    <3> QED
      BY <1>2, <2>6, <2>7, <2>8
  <2> HIDE DEF S, Held
  <2> QED
    BY <1>2, <2>1, <2>4, <2>6, <2>7, <2>9, <2>10, <2>11
<1>10. CASE Put(a)
  <2>1. /\ queue' = queue /\ victim' = victim /\ adding'[a] = "out"
        /\ hashMap' = {e \in hashMap : e.id # val(a).id} \cup {val(a)}
    BY <1>1, <1>10 DEF Put
  <2>2. Keys' = Keys \cup {val(a).id}
    BY <2>1 DEF Keys
  <2>3. ASSUME NEW id, id \in BeingPut PROVE id \in Keys' \cup BeingPut'
    <3>1. PICK b \in Adders : adding[b] = "put" /\ val(b).id = id
      BY <2>3 DEF BeingPut
    <3>2. CASE b = a
      BY <2>2, <3>1, <3>2
    <3>3. CASE b # a
      <4>1. adding'[b] = "put" /\ val(b)' = val(b)
        BY <1>3, <3>1, <3>3
      <4> QED
        BY <3>1, <4>1 DEF BeingPut
    <3> QED
      BY <3>2, <3>3
  <2>4. \A b \in Adders : adding'[b] = "unmap" => adding[b] = "unmap"
    BY <1>3, <2>1
  <2> HIDE DEF S
  <2> QED
    BY <1>2, <2>1, <2>2, <2>3, <2>4
<1> QED
  BY <1>6, <1>7, <1>8, <1>9, <1>10 DEF AddGoesOn

LEMMA NextUniqueInv ==
  ASSUME "startup" \notin Importing, ImportInv, AddingInv, UniqueInv, [Next]_vars
  PROVE  UniqueInv'
<1> USE DEF repository, disk, watch, importers, threads, users, history
<1>1. ThreadsOK /\ RepositoryOK /\ adding \in [Adders -> {"out", "poll", "unmap", "offer", "put"}]
  BY DEF ImportInv, RepositoryOK
<1>2. \A t \in Importing : t = "listener"
  BY ImportAssumption
<1>3. "intrace" \in Adders /\ Importing \subseteq Adders /\ "intrace" \notin Importing
  BY OwnTyped
\* Steps that add nothing and check nothing.
<1>4. ASSUME UNCHANGED repository,
             \A t \in Importing : adding[t] # "out" => rqs'[t] = rqs[t],
             \A t \in Importing : pc'[t] = "add" /\ adding[t] # "put" => Head(rqs'[t]).id \notin Keys
      PROVE  UniqueInv'
  <2>1. ASSUME NEW b \in Adders, adding[b] = "put" PROVE val(b)' = val(b)
    <3>1. CASE b = "intrace"
      BY <1>4, <3>1 DEF val
    <3>2. CASE b # "intrace"
      BY <1>4, <2>1, <3>2 DEF val, Adders
    <3> QED
      BY <3>1, <3>2
  <2>2. Keys' = Keys /\ BeingPut' = BeingPut
    BY <1>4, <2>1 DEF Keys, BeingPut
  <2> QED
    BY <1>4, <2>2 DEF UniqueInv, UniqueIds
<1>5. ASSUME UNCHANGED repository, UNCHANGED <<pc, rqs>> PROVE UniqueInv'
  BY <1>4, <1>5 DEF UniqueInv
<1>6. CASE UNCHANGED vars
  BY <1>5, <1>6 DEF vars
<1>7. ASSUME NEW t \in Importing, importFile(t) PROVE UniqueInv'
  <2>1. t = "listener" /\ t \in Adders /\ t # "intrace" /\ val(t) = Head(rqs[t])
    BY <1>2, <1>3 DEF val
  <2>2. CASE Open(t) \/ SetPrefix(t) \/ Read(t) \/ ReadFails(t) \/ ReadThrows(t) \/ Name(t) \/ FileDone(t)
    <3>1. UNCHANGED repository /\ pc[t] # "add" /\ pc'[t] # "add"
      BY <1>1, <2>2 DEF Open, SetPrefix, Read, ReadFails, ReadThrows, Name, FileDone, Return, Throw, Leave, ThreadsOK
    <3>2. adding[t] = "out"
      BY <3>1 DEF AddingInv
    <3> QED
      BY <1>2, <1>4, <2>1, <3>1, <3>2
  <2>3. CASE Check(t)
    <3>1. UNCHANGED repository /\ pc[t] = "check" /\ adding[t] = "out"
      BY <2>3 DEF Check, AddingInv
    <3>2. pc'[t] = "add" => Head(rqs'[t]).id \notin Keys
      <4>1. CASE IsDuplicate(t)
        BY <2>3, <3>1, <4>1 DEF Check
      <4>2. CASE ~IsDuplicate(t)
        BY <2>3, <4>2 DEF Check, IsDuplicate, Keys
      <4> QED
        BY <4>1, <4>2
    <3> QED
      BY <1>2, <1>4, <2>1, <3>1, <3>2
  <2>4. CASE addImported(t)
    <3>1. LookForRoom(t) \/ AddGoesOn(t) \/ Put(t) \/ OfferRefused(t) \/ PollEmpty(t)
      BY <2>4 DEF addImported, Adding, AddImported, AddRefused, AddThrows
    <3>2. pc[t] = "add" /\ live' = live
      BY <2>4 DEF addImported, Adding, AddImported, AddRefused, AddThrows
    <3>3. val(t) \in Queueable
      <4>1. rqs[t] \in Seq(Entry) /\ rqs[t] # <<>>
        BY <1>1, <3>2 DEF ThreadsOK
      <4> QED
        BY <2>1, <4>1, HeadTailProperties DEF Queueable
    \* Only the step that puts nothing leaves the thread in add().
    <3>4. \/ Adding(t) /\ ~Put(t) /\ UNCHANGED <<pc, rqs>>
          \/ adding'[t] = "out" /\ pc'[t] # "add"
      BY <1>1, <2>1, <2>4 DEF addImported, Adding, AddImported, AddRefused, AddThrows, Return, Throw, Leave,
         LookForRoom, AddGoesOn, Poll, Unmap, Offer, Put, OfferRefused, PollEmpty, ThreadsOK
    <3>5. ASSUME NEW b \in Adders, adding'[b] = "put" PROVE val(b)' = val(b)
      <4>1. CASE b = "intrace"
        BY <3>2, <4>1 DEF val
      <4>2. CASE b # "intrace"
        <5>1. b = t
          BY <1>2, <2>1, <4>2 DEF Adders
        <5>2. rqs' = rqs
          BY <3>4, <3>5, <5>1
        <5> QED
          BY <4>2, <5>2 DEF val
      <4> QED
        BY <4>1, <4>2
    <3>6. /\ UniqueIds'
          /\ \A i \in 1 .. Len(queue') : queue'[i].id \in Keys' \cup BeingPut'
          /\ \A b \in Adders : adding'[b] = "unmap" =>
               /\ victim'[b] \in Keys' \cup BeingPut'
               /\ \A i \in 1 .. Len(queue') : queue'[i].id # victim'[b]
               /\ \A c \in Adders \ {b} : adding'[c] = "unmap" => victim'[c] # victim'[b]
          /\ ~Put(t) => Keys' \subseteq Keys
      BY <2>1, <3>1, <3>3, <3>5, AccessUnique
    <3>7. ASSUME NEW u \in Importing, pc'[u] = "add", adding'[u] # "put" PROVE Head(rqs'[u]).id \notin Keys'
      <4>1. u = t /\ Adding(t) /\ ~Put(t) /\ rqs' = rqs
        BY <1>2, <2>1, <3>4, <3>7
      <4>2. adding[t] # "put"
        BY <4>1 DEF Adding, LookForRoom, AddGoesOn, Poll, Unmap, Offer
      <4> QED
        BY <3>2, <3>6, <4>1, <4>2 DEF UniqueInv
    <3> QED
      BY <3>6, <3>7 DEF UniqueInv
  <2> QED
    BY <1>7, <2>2, <2>3, <2>4 DEF importFile
<1>8. CASE Startup
  BY <1>8 DEF Startup, StartupDone, NextFile
<1>9. CASE run
  <2>1. UNCHANGED repository /\ pc["listener"] # "add" /\ "listener" \in Importing
    BY <1>9 DEF run, Take, HandleEvent, SkipOverflow, Reset
  <2>2. pc'["listener"] # "add"
    BY <1>1, <1>9, <2>1 DEF run, Take, HandleEvent, SkipOverflow, Reset, Dispatch, Return, Leave, ThreadsOK
  <2>3. adding["listener"] = "out"
    BY <2>1 DEF AddingInv
  <2> QED
    BY <1>2, <1>4, <2>1, <2>2, <2>3
<1>10. CASE (\E r \in LiveRequests : Live(r)) \/ LiveAdds \/ LiveEnds
  <2> DEFINE a == "intrace"
  <2>1. /\ LookForRoom(a) \/ AddGoesOn(a) \/ Put(a) \/ OfferRefused(a) \/ PollEmpty(a)
        /\ UNCHANGED <<pc, rqs>>
    BY <1>10 DEF Live, LiveAdds, LiveEnds
  <2>2. val(a) \in Queueable
    BY DEF Queueable, Own
  <2>3. ASSUME NEW b \in Adders, adding'[b] = "put" PROVE val(b)' = val(b)
    <3>1. CASE b = a
      <4>1. live' = live
        BY <1>1, <1>10, <2>3, <3>1 DEF Live, LiveAdds, LiveEnds, LookForRoom, Put, OfferRefused, PollEmpty, RepositoryOK
      <4> QED
        BY <3>1, <4>1 DEF val
    <3>2. CASE b # a
      BY <2>1, <3>2 DEF val
    <3> QED
      BY <3>1, <3>2
  <2>4. /\ UniqueIds'
        /\ \A i \in 1 .. Len(queue') : queue'[i].id \in Keys' \cup BeingPut'
        /\ \A b \in Adders : adding'[b] = "unmap" =>
             /\ victim'[b] \in Keys' \cup BeingPut'
             /\ \A i \in 1 .. Len(queue') : queue'[i].id # victim'[b]
             /\ \A c \in Adders \ {b} : adding'[c] = "unmap" => victim'[c] # victim'[b]
        /\ Keys' \subseteq Keys \cup {val(a).id} /\ (~Put(a) => Keys' \subseteq Keys)
    BY <1>3, <2>1, <2>2, <2>3, AccessUnique
  <2>5. ASSUME NEW t \in Importing, pc'[t] = "add", adding'[t] # "put" PROVE Head(rqs'[t]).id \notin Keys'
    <3>1. pc[t] = "add" /\ rqs'[t] = rqs[t] /\ adding'[t] = adding[t] /\ t # a
      BY <1>1, <1>3, <2>1, <2>5 DEF LookForRoom, AddGoesOn, Poll, Unmap, Offer, Put, OfferRefused, PollEmpty
    <3>2. Head(rqs[t]).id \notin Keys
      BY <2>5, <3>1 DEF UniqueInv
    <3>3. CASE Put(a)
      <4>1. adding[a] = "put" /\ a \in Adders
        BY <1>3, <3>3 DEF Put
      <4>2. val(a).id \notin KnownIds
        BY <4>1, OwnTyped DEF ImportInv, RepositoryOK, Own
      <4>3. rqs[t] \in Seq(Entry) /\ rqs[t] # <<>>
        BY <1>1, <3>1 DEF ThreadsOK
      <4>4. Head(rqs[t]) \in Entry
        BY <4>3, HeadTailProperties
      <4>5. Head(rqs[t]).id \in KnownIds
        BY <4>4 DEF Entry
      <4> QED
        BY <2>4, <3>1, <3>2, <4>2, <4>5
    <3> QED
      BY <2>4, <3>1, <3>2, <3>3
  <2> QED
    BY <2>4, <2>5 DEF UniqueInv
<1>11. CASE \/ OpenPage
            \/ \E f \in Files : CopyFile(f) \/ Write(f) \/ Export(f)
  BY <1>5, <1>11 DEF OpenPage, CopyFile, Write, Export
<1> QED
  BY <1>6, <1>7, <1>8, <1>9, <1>10, <1>11 DEF Next, World

(* When only the listener imports, no two requests of the repository ever   *)
(* share an id, though it adds beside the agent: looking an id up and each  *)
(* access of the add are steps of their own, but nobody else can add that   *)
(* id in between.  It takes a second importer to break the map.             *)
THEOREM ListenerKeepsIdsUnique ==
  ASSUME "startup" \notin Importing
  PROVE  Spec => []UniqueIds
<1>1. Init => UniqueInv /\ AddingInv
  <2> SUFFICES ASSUME Init PROVE UniqueInv /\ AddingInv
    OBVIOUS
  <2>1. queue = <<>> /\ adding = [a \in Adders |-> "out"] /\ Importing \subseteq Adders
        /\ \A t \in Importing : pc[t] # "add"
    BY DEF Init, Adders
  <2> QED
    BY <2>1 DEF UniqueInv, UniqueIds, AddingInv
<1>2. ImportInv /\ AddingInv /\ UniqueInv /\ [Next]_vars => UniqueInv' /\ AddingInv'
  BY NextUniqueInv, NextAddingInv
<1>3. UniqueInv => UniqueIds
  BY DEF UniqueInv
<1> QED
  BY <1>1, <1>2, <1>3, InitImportInv, NextImportInv, PTL DEF Spec
----------------------------------------------------------------------------
(* With one importing thread nobody changes the stream or the prefix of its *)
(* importer while a file is read and its requests get their names; and what *)
(* is in a text file never changes.                                        *)
Right(e) == e.rq # Blank /\ e.rq.of \in Files /\ Kind[e.rq.of] # "dtpp" => e.id = e.rq

RightEntry == {e \in [id : RqType, rq : RqType] : Right(e)}

RightInv ==
  /\ queue \in Seq(RightEntry)
  /\ \A f \in Files : Kind[f] # "ws" => content[f] = InFile(f)
  /\ \A kind \in ImportKinds : stream[kind] # NoFile => Kind[stream[kind]] = kind
  /\ \A t \in Importing :
       /\ rqs[t] \in Seq(RightEntry)
       /\ pc[t] \in {"prefix", "read"} => stream[k(t)] = file[t]
       /\ pc[t] \in {"read", "name"} /\ k(t) = "sqltxt" => prefix["sqltxt"] = file[t]
       /\ pc[t] = "name" /\ k(t) # "ws" =>
            \A n \in 1 .. Len(got[t]) : got[t][n] \in {Blank, Rq(file[t], n)}

OneImporter == \A t, u \in Importing : t = u

(* A thread's part of RightInv, for whatever it has now.                    *)
RightThread(t) ==
  /\ rqs[t] \in Seq(RightEntry)
  /\ pc[t] \in {"prefix", "read"} => stream[k(t)] = file[t]
  /\ pc[t] \in {"read", "name"} /\ k(t) = "sqltxt" => prefix["sqltxt"] = file[t]
  /\ pc[t] = "name" /\ k(t) # "ws" =>
       \A n \in 1 .. Len(got[t]) : got[t][n] \in {Blank, Rq(file[t], n)}

(* What a file that has not been exported is read as.                       *)
LEMMA ParsedOwn ==
  ASSUME ImportInv, RightInv, NEW f \in Existing, Kind[f] # "ws", ~Truncated(f)
  PROVE  \A n \in 1 .. Len(Parsed(f)) : Parsed(f)[n] \in {Blank, Rq(f, n)}
<1>1. /\ written[f] \in 0 .. Length[f] /\ Length[f] \in Nat \ {0}
      /\ content[f] = InFile(f) /\ content[f] \in Seq(KnownIds) /\ Len(content[f]) = Length[f]
  BY ImportAssumption DEF ImportInv, DiskOK, Existing, RightInv
<1>2. CASE Kind[f] = "sqltxt" /\ written[f] = 0
  <2>1. Parsed(f) = <<Blank>>
    BY <1>2 DEF Parsed
  <2> HIDE DEF Blank
  <2> QED
    BY <2>1
<1>3. CASE ~(Kind[f] = "sqltxt" /\ written[f] = 0)
  <2>1. Parsed(f) = SubSeq(content[f], 1, written[f])
    BY <1>3 DEF Parsed
  <2>2. /\ Len(Parsed(f)) = written[f]
        /\ \A n \in 1 .. written[f] : Parsed(f)[n] = content[f][n]
    <3>1. CASE written[f] = 0
      BY <1>1, <2>1, <3>1
    <3>2. CASE written[f] # 0
      <4>1. written[f] \in 1 .. Len(content[f])
        BY <1>1, <3>2
      <4> QED
        BY <1>1, <2>1, <4>1, SubSeqProperties
    <3> QED
      BY <3>1, <3>2
  <2>3. \A n \in 1 .. written[f] : content[f][n] = Rq(f, n)
    BY <1>1 DEF InFile
  <2> QED
    BY <2>2, <2>3
<1> QED
  BY <1>2, <1>3

LEMMA RightMade ==
  ASSUME NEW id \in RqType, NEW rq \in RqType,
         rq # Blank /\ rq.of \in Files /\ Kind[rq.of] # "dtpp" => id = rq
  PROVE  [id |-> id, rq |-> rq] \in RightEntry
  BY DEF RightEntry, Right

(* The repository never changes what it has been given.                     *)
LEMMA AccessRight ==
  ASSUME queue \in Seq(RightEntry), NEW a, val(a) \in RightEntry,
         LookForRoom(a) \/ AddGoesOn(a) \/ Put(a) \/ OfferRefused(a) \/ PollEmpty(a)
  PROVE  queue' \in Seq(RightEntry)
<1>1. CASE Poll(a)
  BY <1>1, HeadTailProperties DEF Poll
<1>2. CASE Offer(a)
  BY <1>2, AppendProperties DEF Offer
<1>3. CASE LookForRoom(a) \/ Unmap(a) \/ Put(a) \/ OfferRefused(a) \/ PollEmpty(a)
  BY <1>3 DEF LookForRoom, Unmap, Put, OfferRefused, PollEmpty
<1> QED
  BY <1>1, <1>2, <1>3 DEF AddGoesOn

LEMMA NextRightInv ==
  ASSUME OneImporter, ImportInv, RightInv, [Next]_vars
  PROVE  RightInv'
<1> USE DEF repository, disk, watch, importers, threads, users, history
<1>1. RightInv <=> /\ queue \in Seq(RightEntry)
                   /\ \A f \in Files : Kind[f] # "ws" => content[f] = InFile(f)
                   /\ \A kind \in ImportKinds : stream[kind] # NoFile => Kind[stream[kind]] = kind
                   /\ \A t \in Importing : RightThread(t)
  BY DEF RightInv, RightThread
<1>2. RightInv' <=> /\ queue' \in Seq(RightEntry)
                    /\ \A f \in Files : Kind[f] # "ws" => content'[f] = InFile(f)
                    /\ \A kind \in ImportKinds : stream'[kind] # NoFile => Kind[stream'[kind]] = kind
                    /\ \A t \in Importing : RightThread(t)'
  BY DEF RightInv, RightThread, RightEntry, Right
<1>3. ThreadsOK /\ RepositoryOK /\ ImportersOK /\ DiskOK
  BY DEF ImportInv
<1>4. UNCHANGED <<importers, pc, file, got, rqs>> => \A t \in Importing : RightThread(t)'
  BY <1>1 DEF RightThread, k
<1>5. CASE UNCHANGED vars
  BY <1>1, <1>2, <1>4, <1>5 DEF vars
<1>6. ASSUME NEW t \in Importing, importFile(t) PROVE RightInv'
  <2>1. \A u \in Importing : u = t
    BY DEF OneImporter
  <2>2. content' = content
    BY <1>6 DEF importFile, Open, SetPrefix, Read, ReadFails, ReadThrows, Name, Check, addImported, Adding, AddImported, AddRefused, AddThrows, FileDone
  <2>3. pc[t] \in Inside
    BY <1>6 DEF importFile, Open, SetPrefix, Read, ReadFails, ReadThrows, Name, Check, addImported, Adding, AddImported, AddRefused, AddThrows, FileDone, Inside
  <2>4. /\ file[t] \in Existing /\ file[t] \in Files /\ k(t) \in ImportKinds
        /\ rqs[t] \in Seq(RightEntry) /\ RightThread(t)
    BY <1>1, <2>3, Locals DEF Existing, RightThread
  <2>5. /\ pc \in [Importing -> Outside \cup Inside] /\ file \in [Importing -> Existing \cup {NoFile}]
        /\ got \in [Importing -> Seq(KnownIds)] /\ rqs \in [Importing -> Seq(Entry)]
        /\ stream \in [ImportKinds -> Existing \cup {NoFile}]
        /\ prefix \in [ImportKinds -> Files \cup {NoFile}]
        /\ "sqltxt" \in ImportKinds
    BY <1>3 DEF ThreadsOK, ImportersOK, ImportKinds
  <2>6. ASSUME stream' = stream \/ stream' = [stream EXCEPT ![k(t)] = NoFile], queue' = queue, RightThread(t)'
        PROVE  RightInv'
    BY <1>1, <1>2, <2>1, <2>2, <2>4, <2>5, <2>6
  <2>7. CASE Open(t)
    <3>1. /\ stream' = [stream EXCEPT ![k(t)] = file[t]] /\ pc' = [pc EXCEPT ![t] = "prefix"]
          /\ UNCHANGED <<queue, prefix, file, got, rqs>>
      BY <2>7 DEF Open
    <3>2. RightThread(t)'
      BY <2>4, <2>5, <3>1 DEF RightThread, k
    <3>3. \A kind \in ImportKinds : stream'[kind] # NoFile => Kind[stream'[kind]] = kind
      BY <1>1, <2>4, <2>5, <3>1 DEF k
    <3> QED
      BY <1>1, <1>2, <2>1, <2>2, <3>1, <3>2, <3>3
  <2>8. CASE SetPrefix(t)
    <3>1. /\ prefix' = IF k(t) = "dtpp" THEN prefix ELSE [prefix EXCEPT ![k(t)] = file[t]]
          /\ pc[t] = "prefix" /\ pc' = [pc EXCEPT ![t] = "read"]
          /\ UNCHANGED <<queue, stream, file, got, rqs>>
      BY <2>8 DEF SetPrefix
    <3>2. k(t)' = k(t) /\ (k(t) = "sqltxt" => prefix'["sqltxt"] = file[t])
      BY <2>5, <3>1 DEF k
    <3>3. RightThread(t)'
      BY <2>4, <2>5, <3>1, <3>2 DEF RightThread
    <3> QED
      BY <2>6, <3>1, <3>3
  <2>9. CASE Read(t)
    <3> DEFINE f == stream[k(t)]
    <3>1. /\ pc[t] = "read" /\ f # NoFile /\ ~Truncated(f)
          /\ stream' = [stream EXCEPT ![k(t)] = NoFile]
          /\ got' = [got EXCEPT ![t] = Parsed(f)] /\ pc' = [pc EXCEPT ![t] = "name"]
          /\ UNCHANGED <<queue, prefix, file, rqs>>
      BY <2>9 DEF Read
    <3>2. f = file[t] /\ k(t)' = k(t) /\ (k(t) = "sqltxt" => prefix'["sqltxt"] = file[t])
      BY <2>4, <3>1 DEF RightThread, k
    <3>3. k(t) # "ws" => \A n \in 1 .. Len(Parsed(f)) : Parsed(f)[n] \in {Blank, Rq(file[t], n)}
      BY <2>4, <3>1, <3>2, ParsedOwn DEF k
    <3>4. got'[t] = Parsed(f) /\ pc'[t] = "name" /\ rqs'[t] = rqs[t] /\ file'[t] = file[t]
      BY <2>5, <3>1
    <3> HIDE DEF f
    <3>5. RightThread(t)'
      BY <2>4, <3>2, <3>3, <3>4 DEF RightThread
    <3> QED
      BY <2>6, <3>1, <3>5
  <2>10. CASE ReadFails(t) \/ ReadThrows(t) \/ FileDone(t)
    <3>1. /\ stream' = stream \/ stream' = [stream EXCEPT ![k(t)] = NoFile]
          /\ queue' = queue /\ pc'[t] \in Outside
          /\ rqs'[t] = <<>> \/ rqs'[t] = rqs[t]
      BY <2>5, <2>10 DEF ReadFails, ReadThrows, FileDone, Return, Throw, Leave, Outside
    <3>2. rqs'[t] \in Seq(RightEntry)
      BY <2>4, <3>1, EmptySeq
    <3>3. RightThread(t)'
      BY <3>1, <3>2 DEF RightThread, Outside
    <3> QED
      BY <2>6, <3>1, <3>3
  <2>11. CASE Name(t)
    <3> DEFINE n == Len(rqs[t]) + 1
               id == CASE k(t) = "ws"     -> got[t][n]
                       [] k(t) = "sqltxt" -> Rq(prefix["sqltxt"], n)
                       [] k(t) = "dtpp"   -> Generated(generated + 1)
               rq == got[t][n]
               e == [id |-> id, rq |-> rq]
    <3>1. /\ pc[t] = "name" /\ rqs' = [rqs EXCEPT ![t] = Append(rqs[t], e)]
          /\ pc' = [pc EXCEPT ![t] = IF n = Len(got[t]) THEN "check" ELSE "name"]
          /\ UNCHANGED <<queue, stream, prefix, file, got>>
      BY <2>11 DEF Name
    <3>2. /\ Len(rqs[t]) \in Nat /\ Len(rqs[t]) < Len(got[t]) /\ Len(got[t]) \in Nat
          /\ rqs[t] \in Seq(Entry) /\ got[t] \in Seq(KnownIds)
      BY <1>3, <2>3, <3>1, Locals, LenProperties DEF ThreadsOK
    <3>3. n \in 1 .. Len(got[t]) /\ n \in Nat
      BY <3>2
    <3>4. rq \in RqType
      BY <3>2, <3>3, ElementOfSeq DEF KnownIds
    <3>5. prefix["sqltxt"] \in Files \cup {NoFile} /\ generated \in Nat
      BY <1>3, <2>5 DEF ImportersOK
    <3>6. Rq(prefix["sqltxt"], n) \in RqType /\ Generated(generated + 1) \in RqType
      BY <3>3, <3>5, RqTyped DEF Generated
    <3>7. k(t) \in {"ws", "sqltxt", "dtpp"}
      BY <2>4 DEF ImportKinds
    <3>8. id \in RqType
      BY <3>4, <3>6, <3>7
    <3>9. rq # Blank /\ rq.of \in Files /\ Kind[rq.of] # "dtpp" => id = rq
      <4>1. CASE k(t) = "ws"
        BY <4>1
      <4>2. CASE k(t) # "ws"
        <5>1. rq \in {Blank, Rq(file[t], n)} /\ Rq(file[t], n).of = file[t]
          BY <2>4, <3>1, <3>3, <4>2 DEF RightThread, Rq
        <5>2. k(t) = "sqltxt" => id = Rq(file[t], n)
          BY <2>4, <3>1 DEF RightThread
        <5> HIDE DEF id, rq, n
        <5> QED
          BY <3>7, <4>2, <5>1, <5>2 DEF k
      <4> QED
        BY <4>1, <4>2
    <3> HIDE DEF id, rq
    <3>10. e \in RightEntry
      BY <3>4, <3>8, <3>9, RightMade
    <3> HIDE DEF e
    <3>11. Append(rqs[t], e) \in Seq(RightEntry)
      BY <2>4, <3>10, AppendProperties
    <3>12. /\ rqs'[t] = Append(rqs[t], e) /\ pc'[t] \in {"name", "check"}
           /\ file'[t] = file[t] /\ got'[t] = got[t] /\ k(t)' = k(t)
      BY <2>5, <3>1 DEF k
    <3>13. RightThread(t)'
      BY <2>4, <3>1, <3>11, <3>12 DEF RightThread
    <3> QED
      BY <2>6, <3>1, <3>13
  <2>12. CASE Check(t)
    <3>1. /\ pc[t] = "check" /\ rqs[t] # <<>> /\ UNCHANGED <<queue, stream, prefix, file, got>>
          /\ pc'[t] \in {"check", "add"} /\ rqs'[t] \in {rqs[t], Tail(rqs[t])}
      BY <2>5, <2>12 DEF Check
    <3>2. rqs'[t] \in Seq(RightEntry)
      BY <2>4, <3>1, HeadTailProperties
    <3>3. RightThread(t)'
      BY <3>1, <3>2 DEF RightThread
    <3> QED
      BY <2>6, <3>1, <3>3
  <2>13. CASE addImported(t)
    <3> DEFINE e == Head(rqs[t])
    <3>1. /\ pc[t] = "add" /\ UNCHANGED <<stream, prefix>>
          /\ LookForRoom(t) \/ AddGoesOn(t) \/ Put(t) \/ OfferRefused(t) \/ PollEmpty(t)
      BY <2>13 DEF addImported, Adding, AddImported, AddRefused, AddThrows
    <3>2. rqs[t] # <<>>
      BY <1>3, <3>1 DEF ThreadsOK
    <3>3. e \in RightEntry /\ Tail(rqs[t]) \in Seq(RightEntry)
      BY <2>4, <3>2, HeadTailProperties
    <3>4. val(t) = e
      BY OwnTyped DEF val
    <3> HIDE DEF e
    <3>5. queue' \in Seq(RightEntry)
      BY <1>1, <3>1, <3>3, <3>4, AccessRight
    <3>6. /\ pc'[t] \in {"add", "check"} \cup Outside
          /\ rqs'[t] \in {rqs[t], Tail(rqs[t]), <<>>}
      BY <2>5, <2>13, <3>1 DEF addImported, Adding, AddImported, AddRefused, AddThrows, Return, Throw, Leave, Outside
    <3>7. rqs'[t] \in Seq(RightEntry)
      BY <2>4, <3>3, <3>6, EmptySeq
    <3>8. RightThread(t)'
      BY <3>6, <3>7 DEF RightThread, Outside
    <3> QED
      BY <1>1, <1>2, <2>1, <2>2, <3>1, <3>5, <3>8
  <2> QED
    BY <1>6, <2>7, <2>8, <2>9, <2>10, <2>11, <2>12, <2>13 DEF importFile
\* Between two files a thread has nothing of its own.
<1>7. ASSUME Startup \/ run PROVE RightInv'
  <2>1. PICK t \in Importing : /\ pc[t] \in Outside /\ pc'[t] \in Outside \cup {"open"}
                               /\ rqs'[t] = rqs[t] \/ rqs'[t] = <<>>
    <3>1. CASE Startup
      BY <1>3, <3>1 DEF Startup, StartupDone, NextFile, Dispatch, Return, Leave, Outside, ThreadsOK
    <3>2. CASE run
      BY <1>3, <3>2 DEF run, Take, HandleEvent, SkipOverflow, Reset, Dispatch, Return, Leave, Outside, ThreadsOK
    <3> QED
      BY <1>7, <3>1, <3>2
  <2>2. UNCHANGED <<queue, content, stream>>
    BY <1>7 DEF Startup, StartupDone, NextFile, run, Take, HandleEvent, SkipOverflow, Reset
  <2>3. rqs'[t] \in Seq(RightEntry)
    BY <1>1, <2>1, EmptySeq DEF RightThread
  <2>4. RightThread(t)'
    BY <2>1, <2>3 DEF RightThread, Outside
  <2> QED
    BY <1>1, <1>2, <2>2, <2>4 DEF OneImporter
<1>8. CASE (\E r \in LiveRequests : Live(r)) \/ LiveAdds \/ LiveEnds
  <2>1. /\ LookForRoom("intrace") \/ AddGoesOn("intrace") \/ Put("intrace")
              \/ OfferRefused("intrace") \/ PollEmpty("intrace")
        /\ UNCHANGED <<content, stream, prefix, pc, file, got, rqs>>
    BY <1>8 DEF Live, LiveAdds, LiveEnds
  <2> DEFINE e == val("intrace")
  <2>2. e = [id |-> Rq(live, 0), rq |-> Rq(live, 0)] /\ Rq(live, 0) \in RqType
    BY OwnTyped DEF Own
  <2>3. e \in RightEntry
    BY <2>2, RightMade
  <2> HIDE DEF e
  <2>4. queue' \in Seq(RightEntry)
    BY <1>1, <2>1, <2>3, AccessRight DEF e
  <2> QED
    BY <1>1, <1>2, <1>4, <2>1, <2>4
<1>9. CASE OpenPage \/ \E f \in Files : CopyFile(f) \/ Write(f)
  <2>1. UNCHANGED <<queue, content, stream, prefix, pc, file, got, rqs>>
    BY <1>9 DEF OpenPage, CopyFile, Write
  <2> QED
    BY <1>1, <1>2, <1>4, <2>1
<1>10. ASSUME NEW f \in Files, Export(f) PROVE RightInv'
  <2>1. /\ f \in ExportFiles /\ \E r \in page : content' = [content EXCEPT ![f] = <<r.id>>]
        /\ UNCHANGED <<queue, stream, prefix, pc, file, got, rqs>>
    BY <1>10 DEF Export
  <2>2. Kind[f] = "ws" /\ content \in [Files -> Seq(KnownIds)]
    BY <1>3, <2>1, ImportAssumption DEF DiskOK
  <2>3. \A g \in Files : Kind[g] # "ws" => content'[g] = content[g]
    BY <2>1, <2>2
  <2> QED
    BY <1>1, <1>2, <1>4, <2>1, <2>3
<1> QED
  BY <1>5, <1>6, <1>7, <1>8, <1>9, <1>10 DEF Next, World

(* With one importing thread, start-up or listener, a request of an XML or  *)
(* text file gets its own id, however much of the file was there when it    *)
(* was read: stream and prefix are still those of the file that the thread  *)
(* has opened.  Two threads that import text files take each other's prefix. *)
THEOREM OneImporterNamesRight ==
  ASSUME OneImporter
  PROVE  Spec => []RightId
<1>1. Init => RightInv
  <2> SUFFICES ASSUME Init PROVE RightInv
    OBVIOUS
  <2>1. /\ queue = <<>> /\ stream = [kind \in ImportKinds |-> NoFile]
        /\ content = [f \in Files |-> InFile(f)] /\ rqs = [t \in Importing |-> <<>>]
        /\ pc = [t \in Importing |-> IF t = "startup" THEN "idle" ELSE "wait"]
    BY DEF Init
  <2>2. <<>> \in Seq(RightEntry)
    BY EmptySeq
  <2> QED
    BY <2>1, <2>2 DEF RightInv
<1>2. ImportInv /\ RightInv /\ [Next]_vars => RightInv'
  BY NextRightInv
<1>3. RightInv => RightId
  <2> SUFFICES ASSUME RightInv, NEW i \in 1 .. Len(queue) PROVE Right(queue[i])
    BY DEF RightId, Queued, Right
  <2>1. queue[i] \in RightEntry
    BY ElementOfSeq DEF RightInv
  <2> QED
    BY <2>1 DEF RightEntry
<1> QED
  BY <1>1, <1>2, <1>3, InitImportInv, NextImportInv, PTL DEF Spec

----------------------------------------------------------------------------
(* The import at the start, while it runs: there is no exported file yet,   *)
(* and a file that the start-up thread shares an importer with is its own.  *)
KindsApart ==
  "listener" \in Importing => \A f \in OldFiles, g \in UserFiles : Kind[f] # Kind[g]

Starting == "startup" \in Importing /\ pc["startup"] \notin {"done", "failed"}

GoodOld == {f \in OldFiles \ (Malformed \cup Poisonous) : Kind[f] \in ImportKinds}

Finished(f) ==
  \A n \in 1 .. Length[f] : Rq(f, n) \in added \/ \E m \in 1 .. n : Rq(f, m) \in refused

\* The files that a thread's requests can come from.
Turf(f) == IF f \in OldFiles THEN {f} ELSE UserFiles

DirectoryInv ==
  /\ Existing \subseteq OldFiles \cup UserFiles
  /\ content = [f \in Files |-> InFile(f)] /\ page = {}
  /\ \A f \in OldFiles : written[f] = Length[f]
  /\ \A kind \in ImportKinds : stream[kind] # NoFile => Kind[stream[kind]] = kind
  /\ events \in Seq(UserFiles \cup {"overflow"}) /\ batch \in Seq(UserFiles \cup {"overflow"})
  /\ "listener" \in Importing => file["listener"] \in UserFiles \cup {NoFile}

TurfInv(t) ==
  /\ pc[t] \in {"prefix", "read"} =>
       stream[k(t)] \in Turf(file[t]) \cup (IF file[t] \in OldFiles THEN {} ELSE {NoFile})
  /\ pc[t] \in {"read", "name"} /\ k(t) = "sqltxt" => prefix["sqltxt"] \in Turf(file[t])
  /\ pc[t] = "name" /\ k(t) # "sqltxt" => \A n \in 1 .. Len(got[t]) : got[t][n].of \in Turf(file[t])
  /\ pc[t] = "name" /\ file[t] \in OldFiles => got[t] = InFile(file[t])

\* Ids of old files are those of their requests, and a generated id is new.
KeysInv ==
  \A key \in Keys : /\ key.of \in OldFiles => key \in added
                    /\ key.of = NoFile => key.n <= generated

NamedInv(t) ==
  \A i \in 1 .. Len(rqs[t]) :
    /\ rqs[t][i].id.of \in OldFiles => rqs[t][i].rq = rqs[t][i].id
    /\ rqs[t][i].id.of = NoFile => rqs[t][i].id.n <= generated /\ rqs[t][i].id \notin Keys

FreshInv ==
  \A t, u \in Importing : \A i \in 1 .. Len(rqs[t]), j \in 1 .. Len(rqs[u]) :
    rqs[t][i].id.of = NoFile /\ rqs[t][i].id = rqs[u][j].id => t = u /\ i = j

\* What is left to do of the file that the start-up thread is at.
ProgressInv ==
  LET f == file["startup"]
      mine == rqs["startup"]
  IN  /\ f \in OldFiles => \A i \in 1 .. Len(mine) : mine[i].id.of \in OldFiles \cup {NoFile}
      /\ f \in OldFiles /\ pc["startup"] = "name" => \A i \in 1 .. Len(mine) : mine[i].rq = Rq(f, i)
      /\ f \in OldFiles /\ pc["startup"] \in {"check", "add"} =>
           /\ Len(mine) <= Length[f]
           /\ \A i \in 1 .. Len(mine) : mine[i].rq = Rq(f, Length[f] - Len(mine) + i)
           /\ \A n \in 1 .. Length[f] - Len(mine) : Rq(f, n) \in added
      /\ \A g \in GoodOld \cap visited : g = f \/ Finished(g)

LEMMA DirectoryStep ==
  ASSUME ImportInv, Starting, DirectoryInv, [Next]_vars
  PROVE  DirectoryInv'
<1> USE DEF repository, disk, watch, importers, threads, users, history
<1> DEFINE E == UserFiles \cup {"overflow"}
<1>1. /\ Existing \subseteq OldFiles \cup UserFiles
      /\ content = [f \in Files |-> InFile(f)] /\ page = {}
      /\ \A f \in OldFiles : written[f] = Length[f]
      /\ \A kind \in ImportKinds : stream[kind] # NoFile => Kind[stream[kind]] = kind
      /\ events \in Seq(E) /\ batch \in Seq(E)
      /\ "listener" \in Importing => file["listener"] \in UserFiles \cup {NoFile}
  BY DEF DirectoryInv
<1>2. ASSUME UNCHANGED <<written, content, page>>, events' \in Seq(E), batch' \in Seq(E),
             \A kind \in ImportKinds : stream'[kind] # NoFile => Kind[stream'[kind]] = kind,
             "listener" \in Importing => file'["listener"] \in UserFiles \cup {NoFile}
      PROVE  DirectoryInv'
  BY <1>1, <1>2 DEF DirectoryInv, Existing
<1>3. /\ ThreadsOK /\ ImportersOK /\ DiskOK
      /\ file \in [Importing -> Existing \cup {NoFile}]
      /\ stream \in [ImportKinds -> Existing \cup {NoFile}]
      /\ written \in [Files -> Int]
  BY DEF ImportInv, ThreadsOK, ImportersOK, DiskOK
<1>4. CASE UNCHANGED vars
  BY <1>1, <1>2, <1>4 DEF vars
<1>5. ASSUME NEW t \in Importing, importFile(t) PROVE DirectoryInv'
  <2>1. UNCHANGED <<written, content, page, events, batch>>
    BY <1>5 DEF importFile, Open, SetPrefix, Read, ReadFails, ReadThrows, Name, Check, addImported, Adding, AddImported, AddRefused, AddThrows, FileDone
  <2>2. file'["listener"] \in {file["listener"], NoFile} \/ "listener" \notin Importing
    BY <1>3, <1>5 DEF importFile, Open, SetPrefix, Read, ReadFails, ReadThrows, Name, Check, addImported, Adding, AddImported, AddRefused, AddThrows, FileDone, Return, Throw, Leave
  <2>3. pc[t] = "open" => k(t) \in ImportKinds
    BY Locals DEF Inside
  <2>4. \A kind \in ImportKinds : \/ stream'[kind] \in {stream[kind], NoFile}
                                  \/ stream'[kind] = file[t] /\ kind = k(t)
    BY <1>3, <1>5 DEF importFile, Open, SetPrefix, Read, ReadFails, ReadThrows, Name, Check, addImported, Adding, AddImported, AddRefused, AddThrows, FileDone
  <2>5. \A kind \in ImportKinds : stream'[kind] # NoFile => Kind[stream'[kind]] = kind
    BY <1>1, <2>4 DEF k
  <2> QED
    BY <1>1, <1>2, <2>1, <2>2, <2>5
<1>6. CASE Startup
  <2>1. UNCHANGED <<written, content, page, events, batch, stream>>
    BY <1>6 DEF Startup, StartupDone, NextFile
  <2>2. "listener" \in Importing => file'["listener"] = file["listener"]
    BY <1>3, <1>6 DEF Startup, StartupDone, NextFile, Dispatch, Return, Leave
  <2> QED
    BY <1>1, <1>2, <2>1, <2>2
<1>7. CASE run
  <2>1. UNCHANGED <<written, content, page, stream>> /\ <<>> \in Seq(E)
    BY <1>7, EmptySeq DEF run, Take, HandleEvent, SkipOverflow, Reset
  <2>2. CASE Take
    <3>1. batch' = events /\ events' = <<>> /\ file' = file
      BY <2>2 DEF Take
    <3> QED
      BY <1>1, <1>2, <2>1, <3>1
  <2>3. CASE Reset
    <3>1. UNCHANGED <<batch, events, file>>
      BY <2>3 DEF Reset
    <3> QED
      BY <1>1, <1>2, <2>1, <3>1
  <2>4. CASE HandleEvent \/ SkipOverflow
    <3>1. batch # <<>> /\ batch' = Tail(batch) /\ events' = events
      BY <2>4 DEF HandleEvent, SkipOverflow
    <3>2. Head(batch) \in E /\ batch' \in Seq(E)
      BY <1>1, <3>1, HeadTailProperties
    <3>3. file'["listener"] \in {file["listener"], NoFile} \/ (file'["listener"] = Head(batch) /\ Head(batch) # "overflow")
      BY <1>3, <2>4 DEF HandleEvent, SkipOverflow, Dispatch, Return, Leave
    <3> QED
      BY <1>1, <1>2, <2>1, <3>1, <3>2, <3>3
  <2> QED
    BY <1>7, <2>2, <2>3, <2>4 DEF run
<1>8. CASE OpenPage \/ (\E r \in LiveRequests : Live(r)) \/ LiveAdds \/ LiveEnds
  <2>1. UNCHANGED <<written, content, page, events, batch, stream, file>>
    BY <1>8 DEF OpenPage, Live, LiveAdds, LiveEnds, Serving, Starting
  <2> QED
    BY <1>1, <1>2, <2>1
<1>9. ASSUME NEW f \in Files, Write(f) PROVE DirectoryInv'
  <2>1. /\ written' = [written EXCEPT ![f] = @ + 1] /\ written[f] >= 0 /\ written[f] < Length[f]
        /\ UNCHANGED <<content, page, events, batch, stream, file>>
    BY <1>9 DEF Write, Exists
  <2>2. f \notin OldFiles
    BY <1>1, <2>1, ImportAssumption
  <2>3. \A g \in Files : g # f => written'[g] = written[g]
    BY <1>3, <2>1
  <2>4. Existing' = Existing
    BY <1>3, <2>1 DEF Existing
  <2>5. \A g \in OldFiles : written'[g] = Length[g]
    BY <1>1, <2>2, <2>3, ImportAssumption
  <2> QED
    BY <1>1, <2>1, <2>4, <2>5 DEF DirectoryInv
<1>10. ASSUME NEW f \in Files, CopyFile(f) PROVE DirectoryInv'
  <2>1. /\ f \in UserFiles /\ written' = [written EXCEPT ![f] = 0] /\ ~Exists(f)
        /\ events' \in {events, Append(events, f), Append(events, "overflow")}
        /\ UNCHANGED <<content, page, batch, stream, file>>
    BY <1>10 DEF CopyFile, Created
  <2>2. Existing' \subseteq Existing \cup {f}
    BY <1>3, <2>1 DEF Existing
  <2>3. f \notin OldFiles /\ f \in E /\ "overflow" \in E
    BY <2>1, ImportAssumption
  <2>4. \A g \in OldFiles : written'[g] = Length[g]
    BY <1>1, <1>3, <2>1, <2>3, ImportAssumption
  <2>5. events' \in Seq(E)
    <3> HIDE DEF E
    <3>1. Append(events, f) \in Seq(E) /\ Append(events, "overflow") \in Seq(E)
      BY <1>1, <2>3, AppendProperties
    <3> QED
      BY <1>1, <2>1, <3>1
  <2> QED
    BY <1>1, <2>1, <2>2, <2>4, <2>5 DEF DirectoryInv
<1>11. ASSUME NEW f \in Files, Export(f) PROVE FALSE
  BY <1>1, <1>11 DEF Export
<1> QED
  BY <1>4, <1>5, <1>6, <1>7, <1>8, <1>9, <1>10, <1>11 DEF Next, World

(* Files of the same kind, at two threads, are both files of users.         *)
LEMMA SharedKind ==
  ASSUME KindsApart, ImportInv, DirectoryInv, NEW t \in Importing, NEW u \in Importing, t # u,
         pc[t] \in Inside, pc[u] \in Inside, k(t) = k(u)
  PROVE  file[t] \in UserFiles /\ file[u] \in UserFiles /\ file[u] \notin OldFiles /\ Turf(file[u]) = UserFiles
<1>1. file[t] \in OldFiles \cup UserFiles /\ file[u] \in OldFiles \cup UserFiles
  BY Locals DEF DirectoryInv
<1>2. "listener" \in Importing /\ file["listener"] \in UserFiles \cup {NoFile}
      /\ (t = "listener" \/ u = "listener")
  BY ImportAssumption DEF DirectoryInv
<1>3. file[t] \in UserFiles /\ file[u] \in UserFiles
  BY <1>1, <1>2, ImportAssumption DEF KindsApart, k
<1>4. file[u] \notin OldFiles
  BY <1>3, ImportAssumption
<1> QED
  BY <1>3, <1>4 DEF Turf

(* What a whole file of the start, or a file of a user, is read as.         *)
LEMMA ParsedTurf ==
  ASSUME ImportInv, DirectoryInv, NEW f \in Existing, ~Truncated(f)
  PROVE  /\ f \in OldFiles => Parsed(f) = InFile(f)
         /\ Kind[f] # "sqltxt" => \A n \in 1 .. Len(Parsed(f)) : Parsed(f)[n].of = f
<1>1. /\ f \in Files /\ content[f] = InFile(f) /\ written[f] \in 0 .. Length[f] /\ Length[f] \in Nat \ {0}
      /\ content[f] \in Seq(KnownIds) /\ Len(content[f]) = Length[f]
      /\ f \in OldFiles => written[f] = Length[f]
  BY ImportAssumption DEF ImportInv, DiskOK, Existing, DirectoryInv
<1>2. ASSUME f \in OldFiles \/ Kind[f] # "sqltxt"
      PROVE  /\ Parsed(f) = SubSeq(content[f], 1, written[f])
             /\ written[f] \in 1 .. Len(content[f]) /\ written[f] = Length[f]
  BY <1>1, <1>2 DEF Parsed, Truncated
<1>3. ASSUME f \in OldFiles \/ Kind[f] # "sqltxt" PROVE Parsed(f) = content[f]
  <2> DEFINE c == content[f]
             w == written[f]
  <2>1. /\ Parsed(f) = SubSeq(c, 1, w) /\ w \in 1 .. Len(c) /\ w = Len(c) /\ c \in Seq(KnownIds)
    BY <1>1, <1>2, <1>3
  <2> HIDE DEF c, w
  <2>2. /\ SubSeq(c, 1, w) \in Seq(KnownIds) /\ Len(SubSeq(c, 1, w)) = w
        /\ \A n \in 1 .. w : SubSeq(c, 1, w)[n] = c[n]
    BY <2>1, SubSeqProperties
  <2>3. /\ Parsed(f) \in Seq(KnownIds) /\ Len(Parsed(f)) = Len(content[f])
        /\ \A n \in 1 .. Len(content[f]) : Parsed(f)[n] = content[f][n]
    BY <2>1, <2>2 DEF c
  <2> QED
    BY <1>1, <2>3, SeqEqual
<1>4. \A n \in 1 .. Length[f] : InFile(f)[n].of = f
  BY DEF InFile, Rq
<1> QED
  BY <1>1, <1>3, <1>4

LEMMA TurfStep ==
  ASSUME KindsApart, ImportInv, Starting, DirectoryInv, \A t \in Importing : TurfInv(t), [Next]_vars
  PROVE  \A t \in Importing : TurfInv(t)'
<1> USE DEF repository, disk, watch, importers, threads, users, history
<1>1. ASSUME NEW t \in Importing, pc'[t] = pc[t], file'[t] = file[t], got'[t] = got[t],
             pc[t] \in {"prefix", "read"} => stream'[k(t)] = stream[k(t)],
             pc[t] \in {"read", "name"} /\ k(t) = "sqltxt" => prefix'["sqltxt"] = prefix["sqltxt"]
      PROVE  TurfInv(t)'
  BY <1>1 DEF TurfInv, k, Turf
<1>2. /\ ThreadsOK /\ ImportersOK /\ "sqltxt" \in ImportKinds
      /\ pc \in [Importing -> Outside \cup Inside] /\ file \in [Importing -> Existing \cup {NoFile}]
      /\ got \in [Importing -> Seq(KnownIds)]
      /\ stream \in [ImportKinds -> Existing \cup {NoFile}]
      /\ prefix \in [ImportKinds -> Files \cup {NoFile}]
  BY DEF ImportInv, ThreadsOK, ImportersOK, ImportKinds
<1>3. CASE UNCHANGED <<pc, file, got, stream, prefix>>
  BY <1>1, <1>3
<1>4. ASSUME NEW t \in Importing, importFile(t) PROVE \A u \in Importing : TurfInv(u)'
  <2>1. pc[t] \in Inside
    BY <1>4 DEF importFile, Open, SetPrefix, Read, ReadFails, ReadThrows, Name, Check, addImported, Adding, AddImported, AddRefused, AddThrows, FileDone, Inside
  <2>2. file[t] \in Existing /\ file[t] \in Files /\ k(t) \in ImportKinds /\ file[t] \in OldFiles \cup UserFiles /\ TurfInv(t)
    BY <2>1, Locals DEF Existing, DirectoryInv
  <2>3. file[t] \in Turf(file[t])
    BY <2>2 DEF Turf
  <2>4. ASSUME NEW u \in Importing, u # t PROVE TurfInv(u)'
    <3>1. pc'[u] = pc[u] /\ file'[u] = file[u] /\ got'[u] = got[u]
      BY <1>2, <1>4, <2>4 DEF importFile, Open, SetPrefix, Read, ReadFails, ReadThrows, Name, Check, addImported, Adding, AddImported, AddRefused, AddThrows, FileDone, Return, Throw, Leave
    <3>2. /\ \A kind \in ImportKinds : \/ stream'[kind] = stream[kind]
                                       \/ kind = k(t) /\ stream'[kind] \in {file[t], NoFile}
          /\ prefix'["sqltxt"] = prefix["sqltxt"] \/ (k(t) = "sqltxt" /\ prefix'["sqltxt"] = file[t])
      <4>1. CASE Open(t)
        BY <1>2, <4>1 DEF Open
      <4>2. CASE SetPrefix(t)
        BY <1>2, <4>2 DEF SetPrefix
      <4>3. CASE Read(t) \/ ReadFails(t) \/ ReadThrows(t)
        BY <1>2, <4>3 DEF Read, ReadFails, ReadThrows
      <4>4. CASE Name(t) \/ Check(t) \/ addImported(t) \/ FileDone(t)
        <5>1. UNCHANGED <<stream, prefix>>
          BY <4>4 DEF Name, Check, addImported, Adding, AddImported, AddRefused, AddThrows, FileDone
        <5> QED
          BY <5>1
      <4> QED
        BY <1>4, <4>1, <4>2, <4>3, <4>4 DEF importFile
    <3>3. CASE pc[u] \in Inside /\ k(u) = k(t)
      <4>1. file[t] \in UserFiles /\ file[u] \notin OldFiles /\ Turf(file[u]) = UserFiles
        BY <2>1, <2>4, <3>3, SharedKind
      <4>2. k(u) \in ImportKinds /\ k(u)' = k(u) /\ Turf(file'[u]) = UserFiles /\ TurfInv(u)
        BY <2>2, <3>1, <3>3, <4>1 DEF k
      <4>3. stream'[k(u)] \in UserFiles \cup {NoFile} \/ stream'[k(u)] = stream[k(u)]
        BY <3>2, <4>1, <4>2
      <4>4. prefix'["sqltxt"] \in UserFiles \/ prefix'["sqltxt"] = prefix["sqltxt"]
        BY <3>2, <4>1
      <4> HIDE DEF k, Turf
      <4> QED
        BY <3>1, <4>1, <4>2, <4>3, <4>4 DEF TurfInv
    <3>4. CASE pc[u] \notin Inside \/ k(u) # k(t)
      <4>1. pc[u] \in Inside => k(u) \in ImportKinds
        BY Locals
      <4> QED
        BY <1>1, <3>1, <3>2, <3>4, <4>1 DEF Inside
    <3> QED
      BY <3>3, <3>4
  <2>5. CASE Open(t)
    <3>1. stream'[k(t)] = file[t] /\ pc'[t] = "prefix" /\ file'[t] = file[t]
      BY <1>2, <2>2, <2>5 DEF Open
    <3>2. TurfInv(t)'
      BY <2>3, <3>1 DEF TurfInv, k, Turf
    <3> QED
      BY <2>4, <3>2
  <2>6. CASE SetPrefix(t)
    <3>1. /\ pc[t] = "prefix" /\ pc'[t] = "read" /\ file'[t] = file[t] /\ stream' = stream
          /\ k(t) = "sqltxt" => prefix'["sqltxt"] = file[t]
      BY <1>2, <2>2, <2>6 DEF SetPrefix
    <3>2. TurfInv(t)'
      BY <2>2, <2>3, <3>1 DEF TurfInv, k, Turf
    <3> QED
      BY <2>4, <3>2
  <2>7. CASE Read(t)
    <3> DEFINE f == stream[k(t)]
    <3>1. /\ pc[t] = "read" /\ f # NoFile /\ ~Truncated(f) /\ pc'[t] = "name" /\ got'[t] = Parsed(f)
          /\ file'[t] = file[t] /\ prefix' = prefix
      BY <1>2, <2>7 DEF Read
    <3>2. f \in Turf(file[t]) /\ f \in Existing /\ Kind[f] = k(t)
      BY <1>2, <2>2, <3>1 DEF TurfInv, DirectoryInv
    <3>3. file[t] \in OldFiles => f = file[t]
      BY <3>2 DEF Turf
    <3>4. /\ f \in OldFiles => Parsed(f) = InFile(f)
          /\ Kind[f] # "sqltxt" => \A n \in 1 .. Len(Parsed(f)) : Parsed(f)[n].of = f
      BY <3>1, <3>2, ParsedTurf
    <3> HIDE DEF f
    <3>5. TurfInv(t)'
      BY <2>2, <3>1, <3>2, <3>3, <3>4 DEF TurfInv, k, Turf, InFile
    <3> QED
      BY <2>4, <3>5
  <2>8. CASE ReadFails(t) \/ ReadThrows(t) \/ FileDone(t) \/ Check(t) \/ addImported(t)
    <3>1. pc'[t] \in Outside \cup {"check", "add"}
      BY <1>2, <2>8 DEF ReadFails, ReadThrows, FileDone, Check, addImported, Adding, AddImported, AddRefused, AddThrows,
                        Return, Throw, Leave, Outside
    <3>2. TurfInv(t)'
      BY <3>1 DEF TurfInv, Outside
    <3> QED
      BY <2>4, <3>2
  <2>9. CASE Name(t)
    <3>1. /\ pc[t] = "name" /\ pc'[t] \in {"name", "check"} /\ file'[t] = file[t] /\ got'[t] = got[t]
          /\ prefix' = prefix
      BY <1>2, <2>9 DEF Name
    <3>2. TurfInv(t)'
      BY <2>2, <3>1 DEF TurfInv, k, Turf, InFile
    <3> QED
      BY <2>4, <3>2
  <2> QED
    BY <1>4, <2>5, <2>6, <2>7, <2>8, <2>9 DEF importFile
<1>5. ASSUME Startup \/ run PROVE \A u \in Importing : TurfInv(u)'
  <2>1. PICK t \in Importing :
          /\ pc'[t] \in Outside \cup {"open"}
          /\ \A u \in Importing : u # t => pc'[u] = pc[u] /\ file'[u] = file[u] /\ got'[u] = got[u]
    <3>1. CASE Startup
      BY <1>2, <3>1 DEF Startup, StartupDone, NextFile, Dispatch, Return, Leave, Outside
    <3>2. CASE run
      BY <1>2, <3>2 DEF run, Take, HandleEvent, SkipOverflow, Reset, Dispatch, Return, Leave, Outside
    <3> QED
      BY <1>5, <3>1, <3>2
  <2>2. UNCHANGED <<stream, prefix>>
    BY <1>5 DEF Startup, StartupDone, NextFile, run, Take, HandleEvent, SkipOverflow, Reset
  <2>3. TurfInv(t)'
    BY <2>1 DEF TurfInv, Outside
  <2> QED
    BY <1>1, <2>1, <2>2, <2>3
<1>6. World => UNCHANGED <<pc, file, got, stream, prefix>>
  BY DEF World, OpenPage, Live, LiveAdds, LiveEnds, CopyFile, Write, Export
<1> QED
  BY <1>3, <1>4, <1>5, <1>6 DEF Next, vars

(* A thread's list of named requests gets shorter at its front.             *)
LEMMA Shorter ==
  ASSUME ImportInv, NEW t \in Importing, rqs'[t] \in {<<>>, rqs[t]} \/ (rqs'[t] = Tail(rqs[t]) /\ rqs[t] # <<>>)
  PROVE  \E d \in Nat : /\ \A i \in 1 .. Len(rqs'[t]) : i + d \in 1 .. Len(rqs[t]) /\ rqs'[t][i] = rqs[t][i + d]
                        /\ rqs'[t] = Tail(rqs[t]) /\ rqs[t] # <<>> => d = 1
<1> DEFINE s == rqs[t]
<1>1. s \in Seq(Entry) /\ Len(s) \in Nat
  BY Locals, LenProperties
<1>2. CASE rqs'[t] = Tail(s) /\ s # <<>>
  <2>1. Len(Tail(s)) = Len(s) - 1 /\ \A i \in 1 .. Len(Tail(s)) : Tail(s)[i] = s[i + 1]
    BY <1>1, <1>2, HeadTailProperties
  <2> HIDE DEF s
  <2>2. \A i \in 1 .. Len(rqs'[t]) : i + 1 \in 1 .. Len(s) /\ rqs'[t][i] = s[i + 1]
    BY <1>1, <1>2, <2>1
  <2> QED
    BY <1>2, <2>2 DEF s
<1>3. CASE rqs'[t] = s /\ ~(rqs'[t] = Tail(s) /\ s # <<>>)
  <2> HIDE DEF s
  <2>1. \A i \in 1 .. Len(rqs'[t]) : i + 0 \in 1 .. Len(s) /\ rqs'[t][i] = s[i + 0]
    BY <1>1, <1>3
  <2> QED
    BY <1>3, <2>1 DEF s
<1>4. CASE rqs'[t] = <<>> /\ ~(rqs'[t] = Tail(s) /\ s # <<>>)
  <2>1. \A i \in 1 .. Len(rqs'[t]) : FALSE
    BY <1>4
  <2> QED
    BY <1>4, <2>1
<1> QED
  BY <1>2, <1>3, <1>4

NamesInv == KeysInv /\ FreshInv /\ \A t \in Importing : NamedInv(t)

(* Dropping named requests of a thread, or adding the first to the map.     *)
LEMMA NamesShorter ==
  ASSUME ImportInv, NamesInv, NEW t \in Importing, generated' = generated, added \subseteq added',
         \A u \in Importing : u # t => rqs'[u] = rqs[u],
         \/ rqs'[t] \in {<<>>, rqs[t]} /\ Keys' \subseteq Keys
         \/ rqs'[t] = Tail(rqs[t]) /\ rqs[t] # <<>> /\ Keys' \subseteq Keys
         \/ /\ rqs'[t] = Tail(rqs[t]) /\ rqs[t] # <<>>
            /\ Keys' \subseteq Keys \cup {Head(rqs[t]).id} /\ Head(rqs[t]).rq \in added'
  PROVE  NamesInv'
<1>1. PICK d \in Nat : /\ \A i \in 1 .. Len(rqs'[t]) : i + d \in 1 .. Len(rqs[t]) /\ rqs'[t][i] = rqs[t][i + d]
                       /\ rqs'[t] = Tail(rqs[t]) /\ rqs[t] # <<>> => d = 1
  BY Shorter
<1>2. /\ KeysInv /\ FreshInv /\ \A u \in Importing : NamedInv(u)
      /\ \A u \in Importing : rqs[u] \in Seq(Entry) /\ Len(rqs[u]) \in Nat
  BY Locals, LenProperties DEF NamesInv
<1>3. rqs[t] # <<>> => Head(rqs[t]) = rqs[t][1] /\ 1 \in 1 .. Len(rqs[t])
  BY <1>2, HeadTailProperties
<1>4. FreshInv'
  <2> SUFFICES ASSUME NEW u \in Importing, NEW v \in Importing,
                      NEW i \in 1 .. Len(rqs'[u]), NEW j \in 1 .. Len(rqs'[v]),
                      rqs'[u][i].id.of = NoFile, rqs'[u][i].id = rqs'[v][j].id
               PROVE  u = v /\ i = j
    BY DEF FreshInv
  <2> DEFINE x == IF u = t THEN i + d ELSE i
             y == IF v = t THEN j + d ELSE j
  <2>1. x \in 1 .. Len(rqs[u]) /\ rqs'[u][i] = rqs[u][x]
    BY <1>1
  <2>2. y \in 1 .. Len(rqs[v]) /\ rqs'[v][j] = rqs[v][y]
    BY <1>1
  <2>3. u = v /\ x = y
    <3> HIDE DEF x, y
    <3> QED
      BY <1>2, <2>1, <2>2 DEF FreshInv
  <2>4. i \in Nat /\ j \in Nat
    OBVIOUS
  <2> QED
    BY <2>3, <2>4
<1>5. ASSUME NEW key \in Keys', key \notin Keys
      PROVE  /\ rqs'[t] = Tail(rqs[t]) /\ rqs[t] # <<>> /\ d = 1
             /\ key = rqs[t][1].id /\ rqs[t][1].rq \in added' /\ 1 \in 1 .. Len(rqs[t])
  BY <1>1, <1>3, <1>5
<1>6. KeysInv'
  <2> SUFFICES ASSUME NEW key \in Keys'
               PROVE  (key.of \in OldFiles => key \in added') /\ (key.of = NoFile => key.n <= generated)
    BY DEF KeysInv
  <2>1. CASE key \in Keys
    BY <1>2, <2>1 DEF KeysInv
  <2>2. CASE key \notin Keys
    BY <1>2, <1>5, <2>2 DEF NamedInv
  <2> QED
    BY <2>1, <2>2
<1>7. ASSUME NEW u \in Importing PROVE NamedInv(u)'
  <2> SUFFICES ASSUME NEW i \in 1 .. Len(rqs'[u])
               PROVE  /\ rqs'[u][i].id.of \in OldFiles => rqs'[u][i].rq = rqs'[u][i].id
                      /\ rqs'[u][i].id.of = NoFile => rqs'[u][i].id.n <= generated /\ rqs'[u][i].id \notin Keys'
    BY DEF NamedInv
  <2> DEFINE x == IF u = t THEN i + d ELSE i
  <2>1. x \in 1 .. Len(rqs[u]) /\ rqs'[u][i] = rqs[u][x] /\ (u = t /\ d = 1 => x # 1)
    <3>1. i \in Nat /\ i >= 1
      OBVIOUS
    <3>2. u = t /\ d = 1 => x # 1
      BY <3>1
    <3>3. x \in 1 .. Len(rqs[u]) /\ rqs'[u][i] = rqs[u][x]
      BY <1>1
    <3> QED
      BY <3>2, <3>3
  <2> HIDE DEF x
  <2>2. /\ rqs[u][x].id.of \in OldFiles => rqs[u][x].rq = rqs[u][x].id
        /\ rqs[u][x].id.of = NoFile => rqs[u][x].id.n <= generated /\ rqs[u][x].id \notin Keys
    BY <1>2, <2>1 DEF NamedInv
  <2>3. ASSUME rqs[u][x].id.of = NoFile, rqs[u][x].id \in Keys' PROVE FALSE
    <3>1. d = 1 /\ rqs[u][x].id = rqs[t][1].id /\ 1 \in 1 .. Len(rqs[t])
      BY <1>5, <2>2, <2>3
    <3>2. u = t /\ x = 1
      BY <1>2, <2>1, <2>3, <3>1 DEF FreshInv
    <3> QED
      BY <2>1, <3>1, <3>2
  <2> QED
    BY <2>1, <2>2, <2>3
<1> QED
  BY <1>4, <1>6, <1>7 DEF NamesInv

LEMMA NamesStep ==
  ASSUME ImportInv, DirectoryInv, NamesInv, \A t \in Importing : TurfInv(t), [Next]_vars
  PROVE  NamesInv'
<1> USE DEF repository, disk, watch, importers, threads, users, history
<1>1. /\ KeysInv /\ FreshInv /\ \A u \in Importing : NamedInv(u)
      /\ \A u \in Importing : rqs[u] \in Seq(Entry) /\ Len(rqs[u]) \in Nat
      /\ generated \in Nat
  BY Locals, LenProperties DEF NamesInv, ImportInv, ImportersOK
<1>2. /\ pc \in [Importing -> Outside \cup Inside] /\ rqs \in [Importing -> Seq(Entry)]
  BY DEF ImportInv, ThreadsOK
<1>3. ASSUME Keys' \subseteq Keys, UNCHANGED <<generated, rqs, added>> PROVE NamesInv'
  BY <1>1, <1>3 DEF NamesInv, KeysInv, FreshInv, NamedInv
<1> DEFINE Same == Keys' = Keys /\ UNCHANGED <<generated, added>>
<1>4. ASSUME NEW t \in Importing, importFile(t) PROVE NamesInv'
  <2>1. CASE Open(t) \/ SetPrefix(t) \/ Read(t)
    <3>1. Same /\ rqs' = rqs
      BY <2>1 DEF Open, SetPrefix, Read, Keys
    <3> QED
      BY <1>3, <3>1
  <2>2. CASE ReadFails(t) \/ ReadThrows(t) \/ FileDone(t)
    <3>1. Same /\ rqs' = [rqs EXCEPT ![t] = <<>>]
      BY <2>2 DEF ReadFails, ReadThrows, FileDone, Return, Throw, Leave, Keys
    <3>2. rqs'[t] = <<>> /\ \A u \in Importing : u # t => rqs'[u] = rqs[u]
      BY <1>2, <3>1
    <3> QED
      BY <3>1, <3>2, NamesShorter
  <2>3. CASE Check(t)
    <3>1. Same /\ rqs[t] # <<>> /\ rqs' \in {rqs, [rqs EXCEPT ![t] = Tail(rqs[t])]}
      BY <2>3 DEF Check, Keys
    <3>2. /\ rqs'[t] = rqs[t] \/ rqs'[t] = Tail(rqs[t])
          /\ \A u \in Importing : u # t => rqs'[u] = rqs[u]
      BY <1>2, <3>1
    <3> QED
      BY <3>1, <3>2, NamesShorter
  <2>4. CASE addImported(t)
    <3>1. /\ generated' = generated /\ pc[t] = "add" /\ added \subseteq added'
          /\ LookForRoom(t) \/ AddGoesOn(t) \/ Put(t) \/ OfferRefused(t) \/ PollEmpty(t)
      BY <2>4 DEF addImported, Adding, AddImported, AddRefused, AddThrows
    <3>2. rqs[t] # <<>> /\ val(t) = Head(rqs[t])
      BY <3>1, OwnTyped DEF ImportInv, ThreadsOK, val
    <3>3. Keys' \subseteq Keys \cup {Head(rqs[t]).id} /\ (~Put(t) => Keys' \subseteq Keys)
      BY <3>1, <3>2, AccessKeys
    <3>4. \/ rqs' \in {rqs, [rqs EXCEPT ![t] = <<>>]} /\ ~Put(t)
          \/ rqs' = [rqs EXCEPT ![t] = Tail(rqs[t])] /\ Head(rqs[t]).rq \in added'
      BY <1>2, <2>4 DEF addImported, Adding, AddImported, AddRefused, AddThrows, Return, Throw, Leave,
         LookForRoom, AddGoesOn, Poll, Unmap, Offer, Put, OfferRefused, PollEmpty
    <3>5. /\ \A u \in Importing : u # t => rqs'[u] = rqs[u]
          /\ \/ rqs'[t] \in {<<>>, rqs[t]} /\ ~Put(t)
             \/ rqs'[t] = Tail(rqs[t]) /\ Head(rqs[t]).rq \in added'
      BY <1>2, <3>4
    <3> QED
      BY <3>1, <3>2, <3>3, <3>5, NamesShorter
  <2>5. CASE Name(t)
    <3> DEFINE n == Len(rqs[t]) + 1
               id == CASE k(t) = "ws"     -> got[t][n]
                       [] k(t) = "sqltxt" -> Rq(prefix["sqltxt"], n)
                       [] k(t) = "dtpp"   -> Generated(generated + 1)
               rq == got[t][n]
               e == [id |-> id, rq |-> rq]
               new == k(t) = "dtpp"
    <3>1. /\ pc[t] = "name" /\ rqs' = [rqs EXCEPT ![t] = Append(rqs[t], e)]
          /\ generated' = (IF new THEN generated + 1 ELSE generated)
          /\ Keys' = Keys /\ added' = added
      BY <2>5 DEF Name, Keys
    <3>2. /\ Len(rqs[t]) < Len(got[t]) /\ got[t] \in Seq(KnownIds) /\ Len(got[t]) \in Nat
          /\ file[t] \in Existing /\ k(t) \in {"ws", "sqltxt", "dtpp"} /\ TurfInv(t)
      BY <3>1, Locals, LenProperties DEF ImportInv, ThreadsOK, Inside, ImportKinds
    <3>3. n \in 1 .. Len(got[t]) /\ n \in Nat
      BY <1>1, <3>2
    <3>4. Turf(file[t]) \subseteq Files /\ NoFile \notin Turf(file[t]) /\ (file[t] \notin OldFiles => Turf(file[t]) \cap OldFiles = {})
          /\ NoFile \notin OldFiles
      BY <3>2, ImportAssumption DEF Turf, Existing
    <3>5. IF new THEN id = Rq(NoFile, generated + 1) ELSE id.of \in Turf(file[t])
      <4>1. CASE k(t) = "ws"
        BY <3>1, <3>2, <3>3, <4>1 DEF TurfInv
      <4>2. CASE k(t) = "sqltxt"
        <5>1. id = Rq(prefix["sqltxt"], n) /\ prefix["sqltxt"] \in Turf(file[t]) /\ ~new
          BY <3>1, <3>2, <4>2 DEF TurfInv
        <5> HIDE DEF id, n, new
        <5> QED
          BY <5>1 DEF Rq
      <4>3. CASE k(t) = "dtpp"
        BY <4>3 DEF Generated
      <4> QED
        BY <3>2, <4>1, <4>2, <4>3
    <3>6. id.of \in OldFiles => rq = id
      <4>1. CASE k(t) = "ws"
        BY <4>1
      <4>2. CASE k(t) = "dtpp"
        <5>1. id.of = NoFile
          BY <3>5, <4>2 DEF Rq
        <5> QED
          BY <3>4, <5>1
      <4>3. CASE k(t) = "sqltxt" /\ file[t] \in OldFiles
        <5>1. id = Rq(prefix["sqltxt"], n) /\ prefix["sqltxt"] = file[t] /\ got[t] = InFile(file[t])
          BY <3>1, <3>2, <4>3 DEF TurfInv, Turf
        <5>2. n \in 1 .. Length[file[t]]
          BY <3>2, <3>3, <5>1, ImportAssumption, LenProperties DEF InFile, Existing
        <5>3. rq = Rq(file[t], n)
          BY <5>1, <5>2 DEF InFile
        <5> QED
          BY <5>1, <5>3
      <4>4. CASE k(t) = "sqltxt" /\ file[t] \notin OldFiles
        <5>1. id.of \in Turf(file[t])
          BY <3>5, <4>4
        <5> HIDE DEF id
        <5> QED
          BY <3>4, <4>4, <5>1
      <4> QED
        BY <3>2, <4>1, <4>2, <4>3, <4>4
    <3> HIDE DEF id, rq
    <3>7. e.id = id /\ e.rq = rq
      OBVIOUS
    <3> HIDE DEF e
    <3>8. /\ \A u \in Importing : u # t => rqs'[u] = rqs[u]
          /\ Len(rqs'[t]) = n /\ rqs'[t][n] = e
          /\ \A i \in 1 .. Len(rqs[t]) : rqs'[t][i] = rqs[t][i]
      <4>1. rqs'[t] = Append(rqs[t], e) /\ \A u \in Importing : u # t => rqs'[u] = rqs[u]
        BY <1>2, <3>1
      <4>2. rqs[t] \in Seq(Entry \cup {e})
        BY <1>1, SeqMonotonic
      <4> QED
        BY <4>1, <4>2, AppendProperties
    <3>9. ASSUME NEW u \in Importing, NEW i \in 1 .. Len(rqs'[u])
          PROVE  \/ i \in 1 .. Len(rqs[u]) /\ rqs'[u][i] = rqs[u][i]
                 \/ u = t /\ i = n /\ rqs'[u][i] = e
      BY <1>1, <3>8
    <3> HIDE DEF n
    <3>10. generated <= generated' /\ (\A x \in Int : x <= generated => x <= generated')
      BY <1>1, <3>1
    <3>11. \A key \in Keys : key \in RqType
      BY DEF Keys, ImportInv, RepositoryOK, Entry, KnownIds
    <3>12. KeysInv'
      BY <1>1, <3>1, <3>10, <3>11 DEF KeysInv, RqType
    <3>13. \A u \in Importing : \A i \in 1 .. Len(rqs[u]) : rqs[u][i] \in Entry /\ rqs[u][i].id \in RqType
      <4>1. \A u \in Importing : \A i \in 1 .. Len(rqs[u]) : rqs[u][i] \in Entry
        BY <1>1, ElementOfSeq
      <4>2. \A x \in Entry : x.id \in RqType
        BY DEF Entry, KnownIds
      <4> QED
        BY <4>1, <4>2
    \* A new name is above all that there are.
    <3>14. id.of = NoFile => id = Rq(NoFile, generated + 1) /\ generated' = generated + 1
      BY <3>1, <3>4, <3>5
    <3>15. /\ id.of = NoFile => id.n <= generated' /\ id \notin Keys
           /\ \A u \in Importing : \A i \in 1 .. Len(rqs[u]) : id.of = NoFile => rqs[u][i].id # id
      BY <1>1, <3>14 DEF KeysInv, NamedInv, Rq
    <3>16. ASSUME NEW u \in Importing PROVE NamedInv(u)'
      <4> SUFFICES ASSUME NEW i \in 1 .. Len(rqs'[u])
                   PROVE  /\ rqs'[u][i].id.of \in OldFiles => rqs'[u][i].rq = rqs'[u][i].id
                          /\ rqs'[u][i].id.of = NoFile => rqs'[u][i].id.n <= generated' /\ rqs'[u][i].id \notin Keys'
        BY DEF NamedInv
      <4>1. CASE i \in 1 .. Len(rqs[u]) /\ rqs'[u][i] = rqs[u][i]
        <5>1. rqs[u][i].id.n \in Int
          BY <3>13, <4>1 DEF RqType
        <5> QED
          BY <1>1, <3>1, <3>10, <4>1, <5>1 DEF NamedInv
      <4>2. CASE rqs'[u][i] = e
        BY <3>1, <3>6, <3>7, <3>15, <4>2
      <4> QED
        BY <3>9, <4>1, <4>2
    <3>17. FreshInv'
      <4> SUFFICES ASSUME NEW u \in Importing, NEW v \in Importing,
                          NEW i \in 1 .. Len(rqs'[u]), NEW j \in 1 .. Len(rqs'[v]),
                          rqs'[u][i].id.of = NoFile, rqs'[u][i].id = rqs'[v][j].id
                   PROVE  u = v /\ i = j
        BY DEF FreshInv
      <4>1. CASE rqs'[u][i] = e \/ rqs'[v][j] = e
        <5>1. id.of = NoFile
          BY <3>7, <4>1
        <5>2. u = t /\ i = n
          BY <3>7, <3>9, <3>15, <4>1, <5>1
        <5>3. v = t /\ j = n
          BY <3>7, <3>9, <3>15, <4>1, <5>1
        <5> QED
          BY <5>2, <5>3
      <4>2. CASE ~(rqs'[u][i] = e \/ rqs'[v][j] = e)
        BY <1>1, <3>9, <4>2 DEF FreshInv
      <4> QED
        BY <4>1, <4>2
    <3> QED
      BY <3>12, <3>16, <3>17 DEF NamesInv
  <2> QED
    BY <1>4, <2>1, <2>2, <2>3, <2>4, <2>5 DEF importFile
<1>5. ASSUME NEW t \in Importing, NEW f, Dispatch(t, f), Same PROVE NamesInv'
  <2>1. rqs' \in {rqs, [rqs EXCEPT ![t] = <<>>]}
    BY <1>5 DEF Dispatch, Return, Leave
  <2>2. rqs'[t] \in {<<>>, rqs[t]} /\ \A u \in Importing : u # t => rqs'[u] = rqs[u]
    BY <1>2, <2>1
  <2> QED
    BY <1>5, <2>2, NamesShorter
<1>6. CASE Startup
  <2>1. CASE StartupDone
    BY <1>3, <2>1 DEF StartupDone, Keys
  <2>2. CASE \E f \in Files : NextFile(f)
    BY <1>5, <2>2 DEF NextFile, Keys
  <2> QED
    BY <1>6, <2>1, <2>2 DEF Startup
<1>7. CASE run
  <2>1. CASE Take \/ SkipOverflow \/ Reset
    BY <1>3, <2>1 DEF Take, SkipOverflow, Reset, Keys
  <2>2. CASE HandleEvent
    BY <1>5, <2>2 DEF HandleEvent, Keys
  <2> QED
    BY <1>7, <2>1, <2>2 DEF run
<1>8. CASE (\E r \in LiveRequests : Live(r)) \/ LiveAdds \/ LiveEnds
  <2>1. /\ LookForRoom("intrace") \/ AddGoesOn("intrace") \/ Put("intrace")
              \/ OfferRefused("intrace") \/ PollEmpty("intrace")
        /\ UNCHANGED <<generated, rqs, added>>
    BY <1>8 DEF Live, LiveAdds, LiveEnds
  <2>2. /\ Keys' \subseteq Keys \cup {val("intrace").id} /\ (~Put("intrace") => Keys' \subseteq Keys)
        /\ val("intrace").id = Rq(live, 0)
    BY <2>1, AccessKeys, OwnTyped DEF Own
  <2>3. CASE Put("intrace")
    <3>1. live \in LiveRequests
      BY <2>3 DEF Put, ImportInv, RepositoryOK
    <3>2. Rq(live, 0).of = live /\ live \notin OldFiles /\ live # NoFile
      BY <3>1, ImportAssumption DEF Rq
    <3> QED
      BY <1>1, <2>1, <2>2, <3>2 DEF NamesInv, KeysInv, FreshInv, NamedInv
  <2>4. CASE ~Put("intrace")
    BY <1>3, <2>1, <2>2, <2>4
  <2> QED
    BY <2>3, <2>4
<1>9. CASE OpenPage \/ \E f \in Files : CopyFile(f) \/ Write(f) \/ Export(f)
  BY <1>3, <1>9 DEF OpenPage, CopyFile, Write, Export, Keys
<1> QED
  BY <1>3, <1>4, <1>6, <1>7, <1>8, <1>9 DEF Next, World, vars, Keys

(* What is left to do stays covered while other threads and users move.     *)
LEMMA ProgressElsewhere ==
  ASSUME ProgressInv, UNCHANGED visited, added \subseteq added', refused \subseteq refused',
         pc'["startup"] = pc["startup"], file'["startup"] = file["startup"], rqs'["startup"] = rqs["startup"]
  PROVE  ProgressInv'
  BY DEF ProgressInv, Finished, GoodOld

(* The start-up thread is between two files, or at a file that it has not   *)
(* named requests of yet.                                                   *)
LEMMA ProgressBefore ==
  ASSUME rqs'["startup"] = <<>>, pc'["startup"] \notin {"check", "add"}, NEW f \in Files \cup {NoFile},
         file'["startup"] = f,
         \A g \in GoodOld \cap visited' : g = f \/ Finished(g)'
  PROVE  ProgressInv'
<1>1. \A i \in 1 .. Len(rqs'["startup"]) : FALSE
  OBVIOUS
<1>2. \A g \in GoodOld' \cap visited' : g = f \/ Finished(g)'
  BY DEF GoodOld
<1> QED
  BY <1>1, <1>2 DEF ProgressInv

LEMMA ProgressStep ==
  ASSUME ImportInv, Starting, DirectoryInv, ProgressInv, NamesInv,
         \A t \in Importing : TurfInv(t), [Next]_vars
  PROVE  IF Starting' THEN ProgressInv' ELSE StartupImportsAll'
<1> USE DEF repository, disk, watch, importers, threads, users, history
<1> DEFINE f == file["startup"]
           mine == rqs["startup"]
<1>1. /\ "startup" \in Importing /\ pc["startup"] \notin {"done", "failed"}
      /\ pc \in [Importing -> Outside \cup Inside] /\ file \in [Importing -> Existing \cup {NoFile}]
      /\ rqs \in [Importing -> Seq(Entry)] /\ got \in [Importing -> Seq(KnownIds)]
      /\ mine \in Seq(Entry) /\ Len(mine) \in Nat /\ TurfInv("startup")
      /\ f \in Files \cup {NoFile}
  BY LenProperties DEF Starting, ImportInv, ThreadsOK, Existing
<1>2. /\ f \in OldFiles => \A i \in 1 .. Len(mine) : mine[i].id.of \in OldFiles \cup {NoFile}
      /\ f \in OldFiles /\ pc["startup"] = "name" => \A i \in 1 .. Len(mine) : mine[i].rq = Rq(f, i)
      /\ f \in OldFiles /\ pc["startup"] \in {"check", "add"} =>
           /\ Len(mine) <= Length[f]
           /\ \A i \in 1 .. Len(mine) : mine[i].rq = Rq(f, Length[f] - Len(mine) + i)
           /\ \A n \in 1 .. Length[f] - Len(mine) : Rq(f, n) \in added
      /\ \A g \in GoodOld \cap visited : g = f \/ Finished(g)
  BY DEF ProgressInv
<1>3. added \subseteq added' /\ refused \subseteq refused' => \A g \in Files : Finished(g) => Finished(g)'
  BY DEF Finished
<1>4. GoodOld \subseteq OldFiles /\ OldFiles \subseteq Files /\ NoFile \notin Files /\ NoFile \notin GoodOld
  BY ImportAssumption DEF GoodOld
<1>5. ASSUME UNCHANGED visited, added \subseteq added', refused \subseteq refused',
             pc'["startup"] = pc["startup"], file'["startup"] = f, rqs'["startup"] = mine
      PROVE  Starting' /\ ProgressInv'
  BY <1>1, <1>5, ProgressElsewhere DEF Starting
<1>6. CASE \/ UNCHANGED vars \/ run \/ World
           \/ \E t \in Importing : t # "startup" /\ importFile(t)
  <2>1. CASE UNCHANGED vars
    BY <1>5, <2>1 DEF vars
  <2>2. CASE run
    <3>1. UNCHANGED <<visited, added, refused>>
      BY <2>2 DEF run, Take, HandleEvent, SkipOverflow, Reset
    <3>2. pc'["startup"] = pc["startup"] /\ file'["startup"] = f /\ rqs'["startup"] = mine
      BY <1>1, <2>2 DEF run, Take, HandleEvent, SkipOverflow, Reset, Dispatch, Return, Leave
    <3> QED
      BY <1>5, <3>1, <3>2
  <2>3. CASE World
    BY <1>5, <2>3 DEF World, OpenPage, Live, LiveAdds, LiveEnds, CopyFile, Write, Export
  <2>4. ASSUME NEW t \in Importing, t # "startup", importFile(t) PROVE Starting' /\ ProgressInv'
    <3>1. UNCHANGED visited /\ added \subseteq added' /\ refused \subseteq refused'
      BY <2>4 DEF importFile, Open, SetPrefix, Read, ReadFails, ReadThrows, Name, Check, addImported, Adding, AddImported, AddRefused, AddThrows, FileDone
    <3>2. pc'["startup"] = pc["startup"] /\ file'["startup"] = f /\ rqs'["startup"] = mine
      BY <1>1, <2>4 DEF importFile, Open, SetPrefix, Read, ReadFails, ReadThrows, Name, Check, addImported, Adding, AddImported, AddRefused, AddThrows, FileDone, Return, Throw, Leave
    <3> QED
      BY <1>5, <3>1, <3>2
  <2> QED
    BY <1>6, <2>1, <2>2, <2>3, <2>4
<1>7. CASE StartupDone
  <2>1. pc["startup"] = "idle" /\ OldFiles \subseteq visited /\ UNCHANGED <<added, refused>> /\ pc'["startup"] = "done"
    BY <1>1, <1>7 DEF StartupDone
  <2>2. f = NoFile
    BY <1>1, <2>1 DEF ImportInv, ThreadsOK, Outside
  <2>3. \A g \in GoodOld : Finished(g)'
    BY <1>2, <1>3, <1>4, <2>1, <2>2
  <2>4. StartupImportsAll'
    BY <2>3 DEF StartupImportsAll, GoodOld, Finished
  <2> QED
    BY <2>1, <2>4 DEF Starting
<1>8. ASSUME NEW g \in Files, NextFile(g) PROVE Starting' /\ ProgressInv'
  <2>1. /\ pc["startup"] = "idle" /\ visited' = visited \cup {g} /\ UNCHANGED <<added, refused>> /\ Dispatch("startup", g)
    BY <1>8 DEF NextFile
  <2>2. f = NoFile /\ mine = <<>>
    BY <1>1, <2>1 DEF ImportInv, ThreadsOK, Outside
  <2>3. CASE Kind[g] \in ImportKinds
    <3>1. pc'["startup"] = "open" /\ file'["startup"] = g /\ rqs'["startup"] = <<>>
      BY <1>1, <2>1, <2>2, <2>3 DEF Dispatch
    <3> QED
      BY <1>1, <1>2, <1>3, <1>4, <2>1, <2>2, <3>1, ProgressBefore DEF Starting
  <2>4. CASE Kind[g] \notin ImportKinds
    <3>1. pc'["startup"] = "idle" /\ file'["startup"] = NoFile /\ rqs'["startup"] = <<>>
      BY <1>1, <2>1, <2>4 DEF Dispatch, Return, Leave
    <3>2. g \notin GoodOld
      BY <2>4 DEF GoodOld
    <3> QED
      BY <1>1, <1>2, <1>3, <1>4, <2>1, <2>2, <3>1, <3>2, ProgressBefore DEF Starting
  <2> QED
    BY <2>3, <2>4
<1>9. ASSUME importFile("startup"), ~ReadThrows("startup"), ~AddThrows("startup") PROVE Starting' /\ ProgressInv'
  <2>1. UNCHANGED visited /\ added \subseteq added' /\ refused \subseteq refused'
    BY <1>9 DEF importFile, Open, SetPrefix, Read, ReadFails, ReadThrows, Name, Check, addImported, Adding, AddImported, AddRefused, AddThrows, FileDone
  <2>2. pc["startup"] \in Inside
    BY <1>9 DEF importFile, Open, SetPrefix, Read, ReadFails, ReadThrows, Name, Check, addImported, Adding, AddImported, AddRefused, AddThrows, FileDone, Inside
  <2>3. /\ f \in Existing /\ f \in Files /\ k("startup") \in ImportKinds
        /\ pc["startup"] \notin {"name", "check", "add"} => mine = <<>>
    BY <1>1, <2>2, Locals DEF Existing
  <2>4. \A g \in GoodOld \cap visited' : g = f \/ Finished(g)'
    BY <1>2, <1>3, <1>4, <2>1
  <2>5. CASE Open("startup") \/ SetPrefix("startup") \/ Read("startup")
    <3>1. /\ pc'["startup"] \in {"prefix", "read", "name"} /\ file'["startup"] = f /\ rqs'["startup"] = mine
          /\ pc["startup"] \notin {"name", "check", "add"}
      BY <1>1, <2>5 DEF Open, SetPrefix, Read
    <3> QED
      BY <1>1, <2>3, <2>4, <3>1, ProgressBefore DEF Starting
  <2>6. CASE ReadFails("startup")
    <3>1. /\ pc'["startup"] = "idle" /\ file'["startup"] = NoFile /\ rqs'["startup"] = <<>>
          /\ pc["startup"] = "read"
      BY <1>1, <2>6 DEF ReadFails, Return, Leave
    <3>2. ASSUME f \in GoodOld PROVE FALSE
      <4>1. stream[k("startup")] = f /\ f # NoFile
        BY <1>1, <1>4, <3>1, <3>2 DEF TurfInv, Turf
      <4>2. ~Truncated(f) /\ f \notin Malformed \cup Poisonous
        BY <2>3, <3>2, ImportAssumption DEF DirectoryInv, GoodOld, Truncated
      <4> QED
        BY <2>6, <4>1, <4>2 DEF ReadFails
    <3> QED
      BY <1>1, <2>4, <3>1, <3>2, ProgressBefore DEF Starting
  <2>7. CASE Adding("startup")
    BY <1>5, <2>7 DEF Adding
  <2>8. CASE Name("startup")
    <3> DEFINE n == Len(mine) + 1
               id == CASE k("startup") = "ws"     -> got["startup"][n]
                       [] k("startup") = "sqltxt" -> Rq(prefix["sqltxt"], n)
                       [] k("startup") = "dtpp"   -> Generated(generated + 1)
               e == [id |-> id, rq |-> got["startup"][n]]
    <3>1. /\ pc["startup"] = "name" /\ rqs'["startup"] = Append(mine, e)
          /\ pc'["startup"] = (IF n = Len(got["startup"]) THEN "check" ELSE "name")
          /\ file'["startup"] = f
      BY <1>1, <2>8 DEF Name
    <3>2. /\ Len(mine) < Len(got["startup"]) /\ Len(got["startup"]) \in Nat
      BY <1>1, <3>1, LenProperties DEF ImportInv, ThreadsOK
    <3>3. n \in 1 .. Len(got["startup"]) /\ n \in Nat
      BY <1>1, <3>2
    <3>4. CASE f \notin OldFiles
      <4>1. ProgressInv' <=> \A g \in GoodOld \cap visited' : g = f \/ Finished(g)'
        BY <3>1, <3>4 DEF ProgressInv, GoodOld
      <4> QED
        BY <1>1, <2>4, <3>1, <4>1 DEF Starting
    <3>5. CASE f \in OldFiles
      <4>1. got["startup"] = InFile(f) /\ Len(got["startup"]) = Length[f] /\ Length[f] \in Nat
        BY <1>1, <3>1, <3>5, <2>3, ImportAssumption, LenProperties DEF TurfInv, InFile
      <4>2. got["startup"][n] = Rq(f, n)
        BY <3>3, <4>1 DEF InFile
      <4>3. id.of \in OldFiles \cup {NoFile}
        <5>1. CASE k("startup") = "ws"
          BY <3>5, <4>2, <5>1 DEF Rq
        <5>2. CASE k("startup") = "sqltxt"
          <6>1. prefix["sqltxt"] = f /\ id = Rq(prefix["sqltxt"], n)
            BY <1>1, <3>1, <3>5, <5>2 DEF TurfInv, Turf
          <6> HIDE DEF id, n
          <6> QED
            BY <3>5, <6>1 DEF Rq
        <5>3. CASE k("startup") = "dtpp"
          BY <5>3 DEF Generated, Rq
        <5> QED
          BY <2>3, <5>1, <5>2, <5>3 DEF ImportKinds
      <4> HIDE DEF id
      <4>4. e.id = id /\ e.rq = Rq(f, n)
        BY <4>2
      <4> HIDE DEF e
      <4>5. /\ Len(rqs'["startup"]) = n /\ rqs'["startup"][n] = e
            /\ \A i \in 1 .. Len(mine) : rqs'["startup"][i] = mine[i]
        <5>1. mine \in Seq(Entry \cup {e})
          BY <1>1, SeqMonotonic
        <5> QED
          BY <3>1, <5>1, AppendProperties
      <4>6. \A i \in 1 .. n : i \in 1 .. Len(mine) \/ i = n
        BY <1>1
      <4>13. n \in Nat
        BY <3>3
      <4> HIDE DEF n
      <4>7. \A i \in 1 .. n : rqs'["startup"][i].rq = Rq(f, i)
        BY <1>2, <3>1, <3>5, <4>4, <4>5, <4>6
      <4>8. \A i \in 1 .. n : rqs'["startup"][i].id.of \in OldFiles \cup {NoFile}
        BY <1>2, <3>5, <4>3, <4>4, <4>5, <4>6
      <4>9. n \in Nat /\ (pc'["startup"] \in {"check", "add"} => n = Length[f])
        BY <3>1, <3>3, <4>1
      <4>12. ASSUME pc'["startup"] \in {"check", "add"}
             PROVE  /\ Len(rqs'["startup"]) <= Length[f]
                    /\ \A i \in 1 .. Len(rqs'["startup"]) : rqs'["startup"][i].rq = Rq(f, Length[f] - Len(rqs'["startup"]) + i)
                    /\ \A i \in 1 .. Length[f] - Len(rqs'["startup"]) : FALSE
        <5>1. \A i \in 1 .. n : n - n + i = i
          BY <4>9
        <5> QED
          BY <4>1, <4>5, <4>7, <4>9, <4>12, <5>1
      <4>10. GoodOld' = GoodOld
        BY DEF GoodOld
      <4>11. ProgressInv'
        BY <2>4, <3>1, <4>5, <4>7, <4>8, <4>10, <4>12 DEF ProgressInv
      <4> QED
        BY <1>1, <3>1, <4>11 DEF Starting
    <3> QED
      BY <3>4, <3>5
  <2>9. ASSUME pc["startup"] \in {"check", "add"}, pc'["startup"] = "check", mine # <<>>,
               rqs'["startup"] = Tail(mine), file'["startup"] = f,
               f \in OldFiles => Head(mine).rq \in added'
        PROVE  Starting' /\ ProgressInv'
    <3>1. /\ Len(Tail(mine)) = Len(mine) - 1 /\ Head(mine) = mine[1]
          /\ \A i \in 1 .. Len(Tail(mine)) : Tail(mine)[i] = mine[i + 1]
      BY <1>1, <2>9, HeadTailProperties
    <3>2. \A i \in 1 .. Len(Tail(mine)) : i + 1 \in 1 .. Len(mine)
      BY <1>1, <3>1
    <3>3. f \in OldFiles => \A i \in 1 .. Len(Tail(mine)) : Tail(mine)[i].id.of \in OldFiles \cup {NoFile}
      BY <1>2, <3>1, <3>2
    <3>4. ASSUME f \in OldFiles
          PROVE  /\ Len(Tail(mine)) <= Length[f]
                 /\ \A i \in 1 .. Len(Tail(mine)) : Tail(mine)[i].rq = Rq(f, Length[f] - Len(Tail(mine)) + i)
                 /\ \A n \in 1 .. Length[f] - Len(Tail(mine)) : Rq(f, n) \in added'
      <4> DEFINE l == Len(mine)
                 m == Length[f]
      <4>1. /\ l \in Nat /\ m \in Nat /\ l <= m /\ 1 \in 1 .. l /\ Len(Tail(mine)) = l - 1
            /\ \A i \in 1 .. l : mine[i].rq = Rq(f, m - l + i)
            /\ \A n \in 1 .. m - l : Rq(f, n) \in added'
            /\ mine[1].rq \in added'
        BY <1>1, <1>2, <2>1, <2>3, <2>9, <3>1, <3>4, ImportAssumption
      <4> HIDE DEF l, m
      <4>2. ASSUME NEW i \in 1 .. Len(Tail(mine)) PROVE Tail(mine)[i].rq = Rq(f, m - Len(Tail(mine)) + i)
        <5>1. i + 1 \in 1 .. l /\ m - l + (i + 1) = m - (l - 1) + i
          BY <4>1
        <5>2. mine[i + 1].rq = Rq(f, m - l + (i + 1))
          BY <4>1, <5>1
        <5> QED
          BY <3>1, <4>1, <5>1, <5>2
      <4>3. Rq(f, m - l + 1) \in added'
        BY <4>1
      <4>4. \A n \in 1 .. m - (l - 1) : n \in 1 .. m - l \/ n = m - l + 1
        BY <4>1
      <4>5. \A n \in 1 .. m - Len(Tail(mine)) : Rq(f, n) \in added'
        BY <4>1, <4>3, <4>4
      <4>6. Len(Tail(mine)) <= m
        BY <4>1
      <4> QED
        BY <4>2, <4>5, <4>6 DEF m
    <3>5. ProgressInv'
      BY <2>4, <2>9, <3>3, <3>4 DEF ProgressInv, GoodOld
    <3> QED
      BY <1>1, <2>9, <3>5 DEF Starting
  <2>10. CASE Check("startup")
    <3>1. pc["startup"] = "check" /\ mine # <<>> /\ file'["startup"] = f /\ added' = added
      BY <2>10 DEF Check
    <3>2. CASE IsDuplicate("startup")
      <4>1. rqs'["startup"] = Tail(mine) /\ pc'["startup"] = "check" /\ Head(mine).id \in Keys
        BY <1>1, <2>10, <3>1, <3>2 DEF Check, IsDuplicate, Keys
      <4>2. Head(mine) = mine[1] /\ 1 \in 1 .. Len(mine)
        BY <1>1, <3>1, HeadTailProperties
      <4>3. NamedInv("startup") /\ KeysInv
        BY <1>1 DEF NamesInv
      <4>4. /\ Head(mine).id.of \in OldFiles => Head(mine).rq = Head(mine).id /\ Head(mine).id \in added
            /\ Head(mine).id.of # NoFile
        BY <4>1, <4>2, <4>3 DEF NamedInv, KeysInv
      <4>5. f \in OldFiles => Head(mine).rq \in added'
        BY <1>2, <3>1, <4>2, <4>4
      <4> QED
        BY <2>9, <3>1, <4>1, <4>5
    <3>3. CASE ~IsDuplicate("startup")
      <4>1. rqs'["startup"] = mine /\ pc'["startup"] = "add"
        BY <1>1, <2>10, <3>3 DEF Check
      <4>2. ProgressInv'
        BY <1>2, <2>1, <2>4, <3>1, <4>1 DEF ProgressInv, GoodOld
      <4> QED
        BY <1>1, <4>1, <4>2 DEF Starting
    <3> QED
      BY <3>2, <3>3
  <2>11. CASE AddImported("startup")
    <3>1. /\ pc["startup"] = "add" /\ file'["startup"] = f /\ rqs'["startup"] = Tail(mine)
          /\ pc'["startup"] = "check" /\ Head(mine).rq \in added'
      BY <1>1, <2>11 DEF AddImported
    <3>2. mine # <<>>
      BY <1>1, <3>1 DEF ImportInv, ThreadsOK
    <3> QED
      BY <2>9, <3>1, <3>2
  <2>12. CASE FileDone("startup")
    <3>1. /\ pc["startup"] = "check" /\ mine = <<>> /\ pc'["startup"] = "idle"
          /\ file'["startup"] = NoFile /\ rqs'["startup"] = <<>>
      BY <1>1, <2>12 DEF FileDone, Return, Leave
    <3>2. f \in OldFiles => Finished(f)
      <4>1. f \in OldFiles => Length[f] \in Nat /\ Len(mine) = 0
        BY <2>3, <3>1, ImportAssumption
      <4> QED
        BY <1>2, <3>1, <4>1 DEF Finished
    <3> QED
      BY <1>1, <1>3, <1>4, <2>1, <2>3, <2>4, <3>1, <3>2, ProgressBefore DEF Starting
  \* A refusal leaves out that request and the rest of the file.
  <2>13. CASE AddRefused("startup")
    <3>1. /\ pc["startup"] = "add" /\ pc'["startup"] = "idle" /\ refused' = refused \cup {Head(mine).rq}
          /\ file'["startup"] = NoFile /\ rqs'["startup"] = <<>>
      BY <1>1, <2>13 DEF AddRefused, Return, Leave
    <3>2. mine # <<>>
      BY <1>1, <3>1 DEF ImportInv, ThreadsOK
    <3>3. Head(mine) = mine[1] /\ 1 \in 1 .. Len(mine)
      BY <1>1, <3>2, HeadTailProperties
    <3>4. ASSUME NEW g \in OldFiles, g = f PROVE Finished(g)'
      <4> DEFINE l == Len(mine)
                 m == Length[g]
      <4>1. /\ l \in Nat /\ m \in Nat /\ l <= m /\ 1 \in 1 .. l
            /\ \A n \in 1 .. m - l : Rq(g, n) \in added'
            /\ Rq(g, m - l + 1) \in refused'
        BY <1>1, <1>2, <2>1, <2>3, <3>1, <3>3, <3>4, ImportAssumption
      <4> HIDE DEF l, m
      <4>2. \A n \in 1 .. m : n \in 1 .. m - l \/ m - l + 1 \in 1 .. n
        BY <4>1
      <4> QED
        BY <4>1, <4>2 DEF Finished, m
    <3> QED
      BY <1>1, <1>4, <2>4, <3>1, <3>4, ProgressBefore DEF Starting
  <2> QED
    BY <1>9, <2>5, <2>6, <2>7, <2>8, <2>10, <2>11, <2>12, <2>13 DEF importFile, addImported
<1>10. CASE ReadThrows("startup") \/ AddThrows("startup")
  <2>1. pc'["startup"] = "failed"
    BY <1>1, <1>10 DEF ReadThrows, AddThrows, Throw, Leave
  <2> QED
    BY <2>1 DEF Starting, StartupImportsAll
<1> QED
  BY <1>6, <1>7, <1>8, <1>9, <1>10 DEF Next, Startup, Starting

(* When the files of users are of other kinds than the old ones, or nobody  *)
(* listens: once the import at the start has come to its end, every request *)
(* of every old file that can be parsed has been added, although the        *)
(* listener and the agent fill and empty the queue meanwhile, or add() has  *)
(* refused it or one before it in its file.  Only a request that has been   *)
(* added before is taken for a duplicate, and no file is cut short but by   *)
(* such a refusal.                                                          *)
THEOREM StartupImportsEverything ==
  ASSUME KindsApart
  PROVE  Spec => []StartupImportsAll
<1> DEFINE Parts == DirectoryInv /\ NamesInv /\ ProgressInv /\ \A t \in Importing : TurfInv(t)
           Inv == IF Starting THEN Parts ELSE StartupImportsAll
<1>1. Init => Inv
  <2> SUFFICES ASSUME Init PROVE Inv
    OBVIOUS
  <2>1. /\ pc = [t \in Importing |-> IF t = "startup" THEN "idle" ELSE "wait"]
        /\ rqs = [t \in Importing |-> <<>>] /\ file = [t \in Importing |-> NoFile]
        /\ stream = [kind \in ImportKinds |-> NoFile]
        /\ hashMap = {} /\ visited = {} /\ page = {} /\ events = <<>> /\ batch = <<>>
        /\ written = [f \in Files |-> IF f \in OldFiles THEN Length[f] ELSE -1]
        /\ content = [f \in Files |-> InFile(f)]
    BY DEF Init
  <2>2. /\ <<>> \in Seq(UserFiles \cup {"overflow"})
        /\ \A t \in Importing : \A i \in 1 .. Len(rqs[t]) : FALSE
    BY <2>1, EmptySeq
  <2>3. DirectoryInv
    BY <2>1, <2>2, ImportAssumption DEF DirectoryInv, Existing
  <2>4. NamesInv
    BY <2>1, <2>2 DEF NamesInv, KeysInv, FreshInv, NamedInv, Keys
  <2>5. "startup" \in Importing => ProgressInv
    BY <2>1, <2>2, ImportAssumption DEF ProgressInv
  <2>6. \A t \in Importing : TurfInv(t)
    BY <2>1 DEF TurfInv
  <2>7. ~Starting => StartupImportsAll
    BY <2>1 DEF Starting, StartupImportsAll
  <2> QED
    BY <2>3, <2>4, <2>5, <2>6, <2>7 DEF Starting
<1>2. ImportInv /\ Inv /\ [Next]_vars => Inv'
  <2> SUFFICES ASSUME ImportInv, Inv, [Next]_vars PROVE Inv'
    OBVIOUS
  <2>1. CASE Starting
    BY <2>1, DirectoryStep, NamesStep, TurfStep, ProgressStep
  \* After the start nothing is taken back.
  <2>2. CASE ~Starting
    <3> USE DEF repository, disk, watch, importers, threads, users, history
    <3>1. added \subseteq added' /\ refused \subseteq refused'
      BY DEF Next, vars, Startup, StartupDone, NextFile, run, Take, HandleEvent, SkipOverflow, Reset,
             World, OpenPage, Live, LiveAdds, LiveEnds, CopyFile, Write, Export,
             importFile, Open, SetPrefix, Read, ReadFails, ReadThrows, Name, Check, addImported, Adding, AddImported, AddRefused, AddThrows, FileDone
    <3>2. ASSUME "startup" \in Importing
          PROVE  pc["startup"] \in {"done", "failed"} /\ pc'["startup"] = pc["startup"]
      <4>1. /\ pc \in [Importing -> Outside \cup Inside] /\ pc["startup"] \in {"done", "failed"}
            /\ pc["startup"] \notin {"idle", "event", "wait"} \cup Inside
        BY <2>2, <3>2 DEF ImportInv, ThreadsOK, Starting, Inside
      <4>2. ~Startup
        BY <4>1 DEF Startup, StartupDone, NextFile
      <4>3. CASE UNCHANGED vars \/ World
        BY <4>1, <4>3 DEF vars, World, OpenPage, Live, LiveAdds, LiveEnds, CopyFile, Write, Export
      <4>4. CASE run
        BY <3>2, <4>1, <4>4 DEF run, Take, HandleEvent, SkipOverflow, Reset, Dispatch, Return, Leave
      <4>5. ASSUME NEW t \in Importing, importFile(t) PROVE pc'["startup"] = pc["startup"]
        <5>1. t # "startup"
          BY <4>1, <4>5 DEF importFile, Open, SetPrefix, Read, ReadFails, ReadThrows, Name, Check, addImported, Adding, AddImported, AddRefused, AddThrows, FileDone, Inside
        <5> QED
          BY <3>2, <4>1, <4>5, <5>1 DEF importFile, Open, SetPrefix, Read, ReadFails, ReadThrows, Name, Check, addImported, Adding, AddImported, AddRefused, AddThrows, FileDone, Return, Throw, Leave
      <4> QED
        BY <4>1, <4>2, <4>3, <4>4, <4>5 DEF Next
    <3>3. StartupImportsAll'
      BY <2>2, <3>1, <3>2 DEF StartupImportsAll
    <3> QED
      BY <3>2, <3>3 DEF Starting
  <2> QED
    BY <2>1, <2>2
<1>3. ImportInv /\ Inv => StartupImportsAll
  BY DEF Starting, StartupImportsAll
<1> QED
  BY <1>1, <1>2, <1>3, InitImportInv, NextImportInv, PTL DEF Spec

============================================================================
