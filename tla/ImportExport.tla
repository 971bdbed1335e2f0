---------------------------- MODULE ImportExport ----------------------------
(***************************************************************************)
(* Package importexport: files of SQL in the export directory become       *)
(* requests of the repository, once when the web application starts        *)
(* (DefaultImportExportMgr.importAtSystemStartup) and from then on when    *)
(* the directory changes (DefaultExportDirListener), and the form of       *)
(* web/RequestDetail.java exports a request into the same directory.       *)
(*                                                                         *)
(* The start-up thread and the listener's thread share one importer object *)
(* per kind of file, whose input stream and id prefix are plain fields,    *)
(* and they share the repository.  An action is one access to what they    *)
(* share, also within the repository's add(), whose queue and map are two  *)
(* objects and which can fail; RequestRepository has its counters too.     *)
(***************************************************************************)
EXTENDS Integers, Sequences, FiniteSets, SequencesExt

CONSTANTS
  Files,          \* the names a file of the export directory can have
  NoFile,
  Kind,           \* Kind[f]: its extension, "other" for an unknown one
  Length,         \* Length[f]: the number of requests in it
  OldFiles,       \* there before the start, completely written
  UserFiles,      \* copied into the directory while the program runs
  ExportFiles,    \* names that File.createTempFile() can return
  Malformed,      \* files whose import throws one of the checked exceptions
  Poisonous,      \* files whose import throws a RuntimeException
  LiveRequests,   \* requests that the InTrace agent reports
  Importing,      \* the threads that import: "startup", "listener"
  Capacity,       \* of the repository, one request evicted at a time
  MaxEvents       \* the watch service's limit of events per key

ImportKinds == {"dtpp", "sqltxt", "ws"}

ASSUME ImportAssumption ==
  /\ Kind \in [Files -> ImportKinds \cup {"inTrace", "other"}]
  /\ Length \in [Files -> Nat \ {0}]
  /\ OldFiles \cup UserFiles \cup ExportFiles \subseteq Files
  /\ OldFiles \cap UserFiles = {}
  /\ ExportFiles \cap (OldFiles \cup UserFiles) = {}
  /\ \A f \in ExportFiles : Kind[f] = "ws" /\ Length[f] = 1
  /\ Malformed \cup Poisonous \subseteq Files
  /\ NoFile \notin Files \cup LiveRequests
  /\ Files \cap LiveRequests = {}   \* a file name and a reported request
  /\ Importing \subseteq {"startup", "listener"}
  /\ Capacity \in Nat \ {0} /\ MaxEvents \in Nat \ {0}

VARIABLES
  queue,       \* the repository's requests, oldest first: [id, rq]
  hashMap,     \* the entries of the repository's map
  adding,      \* the next access of each thread in the repository's add()
  victim,      \* the id of the request it has evicted and not unmapped
  live,        \* the reported request that is being added, or NoFile
  written,     \* requests of each file that are on the disk, -1: no file
  content,     \* the requests in each file
  events,      \* of the directory's watch key, "overflow" or a file
  keyState,    \* of the watch key: "ready", "queued" or "taken"
  batch,       \* what key.pollEvents() returned and run() has left
  stream,      \* of each importer: the file of its stream, NoFile when used up
  prefix,      \* of each importer: m_requestIdPrefix
  pc, file,    \* of each thread: the next access, the file it imports
  got,         \* requests importRq() has parsed and not yet named
  rqs,         \* requests still to be checked and added
  visited,     \* files that importAtSystemStartup() has had its turn with
  page,        \* requests whose detail page a user has open
  reported,    \* requests that the InTrace agent has reported
  generated,   \* ids generated so far for requests that bring none
  considered,  \* history: files the listener has had its turn with
  added,       \* history: requests that importers added
  refused,     \* history: requests of importers that offer() had no room for
  exported     \* history: requests that users exported

repository == <<queue, hashMap, adding, victim, live>>
disk       == <<written, content>>
watch      == <<events, keyState, batch>>
importers  == <<stream, prefix>>
threads    == <<pc, file, got, rqs, visited, generated>>
history    == <<considered, added, refused, exported>>
users      == <<page, reported>>
vars       == <<repository, disk, watch, importers, threads, users, history>>

(* The n-th request of a file, or a request of its own (n = 0).  As an id   *)
(* it is the id of that request; Generated ids name no request.            *)
Rq(x, n) == [of |-> x, n |-> n]
Generated(n) == Rq(NoFile, n)

\* What an empty text file is split into: a request without SQL.
Blank == Rq(NoFile, 0)

InFile(f) == [n \in 1 .. Length[f] |-> Rq(f, n)]

RqType == [of : Files \cup LiveRequests \cup {NoFile}, n : Nat]

Entries == [id : RqType, rq : RqType]

\* The threads that add requests: the importing ones and the InTrace agent's.
Adders == Importing \cup {"intrace"}

\* Between two files, at the start ("failed": left with an exception) or in the
\* listener's run().
Outside == {"idle", "wait", "event", "done", "failed"}

TypeOK ==
  /\ queue \in Seq(Entries) /\ Len(queue) <= Capacity
  /\ hashMap \subseteq Entries
  /\ adding \in [Adders -> {"out", "poll", "unmap", "offer", "put"}]
  /\ victim \in [Adders -> RqType]
  /\ live = NoFile <=> adding["intrace"] = "out"
  /\ \A f \in Files : written[f] \in -1 .. Length[f]
  /\ content \in [Files -> Seq(RqType)]
  /\ Len(events) <= MaxEvents + 1
  /\ keyState = "ready" => events = <<>>
  /\ stream \in [ImportKinds -> Files \cup {NoFile}]
  /\ prefix \in [ImportKinds -> Files \cup {NoFile}]
  /\ \A t \in Importing : file[t] = NoFile <=> pc[t] \in Outside
  /\ \A t \in Importing : adding[t] # "out" => pc[t] = "add"

Init ==
  /\ queue = <<>> /\ hashMap = {}
  /\ adding = [a \in Adders |-> "out"] /\ victim = [a \in Adders |-> Blank] /\ live = NoFile
  /\ written = [f \in Files |-> IF f \in OldFiles THEN Length[f] ELSE -1]
  /\ content = [f \in Files |-> InFile(f)]
  /\ events = <<>> /\ keyState = "ready" /\ batch = <<>>
  /\ stream = [k \in ImportKinds |-> NoFile]
  /\ prefix = [k \in ImportKinds |-> NoFile]
  /\ pc = [t \in Importing |-> IF t = "startup" THEN "idle" ELSE "wait"]
  /\ file = [t \in Importing |-> NoFile]
  /\ got = [t \in Importing |-> <<>>]
  /\ rqs = [t \in Importing |-> <<>>]
  /\ visited = {} /\ page = {} /\ reported = {} /\ generated = 0
  /\ considered = {} /\ added = {} /\ refused = {} /\ exported = {}

Exists(f) == written[f] >= 0

----------------------------------------------------------------------------
(* InMemoryRequstRepo.add(), in thread a.  Each action says what becomes of *)
(* the repository, and those who call add() what becomes of themselves.     *)

\* The argument of add().
val(a) == IF a = "intrace" THEN [id |-> Rq(live, 0), rq |-> Rq(live, 0)] ELSE Head(rqs[a])

\* remainingCapacity() decides whether the oldest request is evicted first.
LookForRoom(a) ==
  /\ adding[a] = "out"
  /\ adding' = [adding EXCEPT ![a] = IF Len(queue) < Capacity THEN "offer" ELSE "poll"]
  /\ UNCHANGED <<queue, hashMap, victim>>

Poll(a) ==
  /\ adding[a] = "poll" /\ queue # <<>>
  /\ queue' = Tail(queue)
  /\ victim' = [victim EXCEPT ![a] = Head(queue).id]
  /\ adding' = [adding EXCEPT ![a] = "unmap"]
  /\ UNCHANGED hashMap

\* Others have polled everything: NoSuchElementException.
PollEmpty(a) ==
  /\ adding[a] = "poll" /\ queue = <<>>
  /\ adding' = [adding EXCEPT ![a] = "out"]
  /\ UNCHANGED <<queue, hashMap, victim>>

Unmap(a) ==
  /\ adding[a] = "unmap"
  /\ hashMap' = {e \in hashMap : e.id # victim[a]}
  /\ victim' = [victim EXCEPT ![a] = Blank]
  /\ adding' = [adding EXCEPT ![a] = "offer"]
  /\ UNCHANGED queue

\* mutant: a LinkedBlockingQueue without a capacity.
FitsAlways == TRUE

\* offer() finds a free place.
Fits == Len(queue) < Capacity

Offer(a) ==
  /\ adding[a] = "offer" /\ Fits
  /\ queue' = Append(queue, val(a))
  /\ adding' = [adding EXCEPT ![a] = "put"]
  /\ UNCHANGED <<hashMap, victim>>

\* Others have filled the queue: WuqispankException.
OfferRefused(a) ==
  /\ adding[a] = "offer" /\ ~Fits
  /\ adding' = [adding EXCEPT ![a] = "out"]
  /\ UNCHANGED <<queue, hashMap, victim>>

\* The entry is made whether or not the request is still queued.
Put(a) ==
  /\ adding[a] = "put"
  /\ hashMap' = {e \in hashMap : e.id # val(a).id} \cup {val(a)}
  /\ adding' = [adding EXCEPT ![a] = "out"]
  /\ UNCHANGED <<queue, victim>>

AddGoesOn(a) == Poll(a) \/ Unmap(a) \/ Offer(a)

----------------------------------------------------------------------------
(* AbstractRequestImporter.importFile(), in thread t                       *)

k(t) == Kind[file[t]]

Leave(t, next) ==
  /\ pc' = [pc EXCEPT ![t] = next]
  /\ file' = [file EXCEPT ![t] = NoFile]
  /\ got' = [got EXCEPT ![t] = <<>>]
  /\ rqs' = [rqs EXCEPT ![t] = <<>>]

\* The import of a file ends, with or without a checked exception, which both
\* loops log: back to the loop over the directory or over the events.
Return(t) == Leave(t, IF t = "startup" THEN "idle" ELSE "event")

\* A RuntimeException: the listener catches it too, but it ends the loop over
\* the directory and is caught in contextInitialized().
Throw(t) == Leave(t, IF t = "startup" THEN "failed" ELSE "event")

\* importDataFileOfAnyType(): the first importer whose pattern matches the
\* file.  No importer: an error is logged.  The importer of InTrace logs feeds
\* the lines to the agent's connection and adds no request itself.
Dispatch(t, f) ==
  IF Kind[f] \in ImportKinds
  THEN /\ pc' = [pc EXCEPT ![t] = "open"]
       /\ file' = [file EXCEPT ![t] = f]
       /\ UNCHANGED <<got, rqs>>
  ELSE Return(t)

Open(t) ==
  /\ pc[t] = "open"
  /\ stream' = [stream EXCEPT ![k(t)] = file[t]]
  /\ pc' = [pc EXCEPT ![t] = "prefix"]
  /\ UNCHANGED <<repository, disk, watch, prefix, file, got, rqs, visited, generated, users, history>>

\* mutant: every importer throws UnsupportedOperationException.
SetPrefixNever(t) ==
  /\ pc[t] = "prefix"
  /\ pc' = [pc EXCEPT ![t] = "read"]
  /\ UNCHANGED <<repository, disk, watch, importers, file, got, rqs, visited, generated, users, history>>

\* The DynaTrace importer throws UnsupportedOperationException, which
\* importFile() ignores.
SetPrefix(t) ==
  /\ pc[t] = "prefix"
  /\ prefix' = IF k(t) = "dtpp" THEN prefix ELSE [prefix EXCEPT ![k(t)] = file[t]]
  /\ pc' = [pc EXCEPT ![t] = "read"]
  /\ UNCHANGED <<repository, disk, watch, stream, file, got, rqs, visited, generated, users, history>>

\* What importRq() makes of the bytes that are there when it reads them.  Text
\* has no end mark: the part that is written is taken for the whole.
Parsed(f) ==
  IF Kind[f] = "sqltxt" /\ written[f] = 0
  THEN <<Blank>>
  ELSE SubSeq(content[f], 1, written[f])

Truncated(f) == Kind[f] # "sqltxt" /\ written[f] < Length[f]

\* importRq() takes the importer's current stream, whoever has set it, and
\* reads it to its end (reading and closing are one step).  It returns all
\* requests of the file or throws.
Read(t) ==
  LET f == stream[k(t)] IN
  /\ pc[t] = "read"
  /\ f # NoFile /\ ~Truncated(f) /\ f \notin Malformed \cup Poisonous
  /\ stream' = [stream EXCEPT ![k(t)] = NoFile]
  /\ got' = [got EXCEPT ![t] = Parsed(f)]
  /\ pc' = [pc EXCEPT ![t] = "name"]
  /\ UNCHANGED <<repository, disk, watch, prefix, file, rqs, visited, generated, users, history>>

\* mutant: the exception leaves the loop over the directory.
ReadFailureEndsLoop(t) ==
  LET f == stream[k(t)] IN
  /\ pc[t] = "read"
  /\ f # NoFile => Truncated(f) \/ f \in Malformed \ Poisonous
  /\ stream' = [stream EXCEPT ![k(t)] = NoFile]
  /\ Leave(t, IF t = "startup" THEN "done" ELSE "event")
  /\ UNCHANGED <<repository, disk, watch, prefix, visited, generated, users, history>>

\* Closed stream, half a document or invalid content: a checked exception,
\* wrapped in WuqiSpankFileImportException.
ReadFails(t) ==
  LET f == stream[k(t)] IN
  /\ pc[t] = "read"
  /\ f # NoFile => Truncated(f) \/ f \in Malformed \ Poisonous
  /\ stream' = [stream EXCEPT ![k(t)] = NoFile]
  /\ Return(t)
  /\ UNCHANGED <<repository, disk, watch, prefix, visited, generated, users, history>>

\* A RuntimeException, as an XML file without stack traces makes importSql()
\* throw.
ReadThrows(t) ==
  LET f == stream[k(t)] IN
  /\ pc[t] = "read"
  /\ f \in Poisonous /\ ~Truncated(f)
  /\ stream' = [stream EXCEPT ![k(t)] = NoFile]
  /\ Throw(t)
  /\ UNCHANGED <<repository, disk, watch, prefix, visited, generated, users, history>>

\* The next request gets its id: from the XML, from the prefix the importer
\* has at this moment, or a new one.
Name(t) ==
  LET n  == Len(rqs[t]) + 1
      id == CASE k(t) = "ws"     -> got[t][n]
              [] k(t) = "sqltxt" -> Rq(prefix["sqltxt"], n)
              [] k(t) = "dtpp"   -> Generated(generated + 1)
  IN  /\ pc[t] = "name"
      /\ rqs' = [rqs EXCEPT ![t] = Append(@, [id |-> id, rq |-> got[t][n]])]
      /\ generated' = IF k(t) = "dtpp" THEN generated + 1 ELSE generated
      /\ pc' = [pc EXCEPT ![t] = IF n = Len(got[t]) THEN "check" ELSE "name"]
      /\ UNCHANGED <<repository, disk, watch, importers, file, got, visited, users, history>>

\* mutant: no look at the repository.
NeverDuplicate(t) == FALSE

\* Is the id of the next request in the repository?
IsDuplicate(t) == \E e \in hashMap : e.id = Head(rqs[t]).id

Check(t) ==
  /\ pc[t] = "check" /\ rqs[t] # <<>>
  /\ IF IsDuplicate(t)
     THEN rqs' = [rqs EXCEPT ![t] = Tail(@)] /\ UNCHANGED pc
     ELSE pc' = [pc EXCEPT ![t] = "add"] /\ UNCHANGED rqs
  /\ UNCHANGED <<repository, disk, watch, importers, file, got, visited, generated, users, history>>

\* add() up to its last access ...
Adding(t) ==
  /\ pc[t] = "add"
  /\ LookForRoom(t) \/ AddGoesOn(t)
  /\ UNCHANGED <<live, disk, watch, importers, threads, users, history>>

\* ... which returns to the loop over the requests.
AddImported(t) ==
  /\ pc[t] = "add"
  /\ Put(t)
  /\ added' = added \cup {Head(rqs[t]).rq}
  /\ rqs' = [rqs EXCEPT ![t] = Tail(@)]
  /\ pc' = [pc EXCEPT ![t] = "check"]
  /\ UNCHANGED <<live, disk, watch, importers, file, got, visited, generated, users, considered, refused, exported>>

\* WuqispankException, a checked exception: the rest of the file is left out.
AddRefused(t) ==
  /\ pc[t] = "add"
  /\ OfferRefused(t)
  /\ refused' = refused \cup {Head(rqs[t]).rq}
  /\ Return(t)
  /\ UNCHANGED <<live, disk, watch, importers, visited, generated, users, considered, added, exported>>

\* NoSuchElementException, a RuntimeException.
AddThrows(t) ==
  /\ pc[t] = "add"
  /\ PollEmpty(t)
  /\ Throw(t)
  /\ UNCHANGED <<live, disk, watch, importers, visited, generated, users, history>>

addImported(t) == Adding(t) \/ AddImported(t) \/ AddRefused(t) \/ AddThrows(t)

FileDone(t) ==
  /\ pc[t] = "check" /\ rqs[t] = <<>>
  /\ Return(t)
  /\ UNCHANGED <<repository, disk, watch, importers, visited, generated, users, history>>

importFile(t) ==
  \/ Open(t) \/ SetPrefix(t) \/ Read(t) \/ ReadFails(t) \/ ReadThrows(t)
  \/ Name(t) \/ Check(t) \/ addImported(t) \/ FileDone(t)

----------------------------------------------------------------------------
(* DefaultImportExportMgr.importAtSystemStartup(), after the listener has   *)
(* been scheduled (EventCollector.contextInitialized)                      *)

\* The directory stream returns every file that was there when it was opened,
\* in any order, and it may return one that was created since.
NextFile(f) ==
  /\ "startup" \in Importing /\ pc["startup"] = "idle"
  /\ Exists(f) /\ f \notin visited
  /\ visited' = visited \cup {f}
  /\ Dispatch("startup", f)
  /\ UNCHANGED <<repository, disk, watch, importers, generated, users, history>>

StartupDone ==
  /\ "startup" \in Importing /\ pc["startup"] = "idle"
  /\ OldFiles \subseteq visited
  /\ pc' = [pc EXCEPT !["startup"] = "done"]
  /\ UNCHANGED <<repository, disk, watch, importers, file, got, rqs, visited, generated, users, history>>

----------------------------------------------------------------------------
(* DefaultExportDirListener.run(), which the scheduler calls again and again *)

\* take() returns the watch key when events have queued it.
Take ==
  /\ "listener" \in Importing /\ pc["listener"] = "wait"
  /\ keyState = "queued"
  /\ keyState' = "taken"
  /\ batch' = events /\ events' = <<>>
  /\ pc' = [pc EXCEPT !["listener"] = "event"]
  /\ UNCHANGED <<repository, disk, importers, file, got, rqs, visited, generated, users, history>>

\* Only ENTRY_CREATE is acted on, and that includes no second look at a file.
HandleEvent ==
  LET f == Head(batch) IN
  /\ "listener" \in Importing /\ pc["listener"] = "event"
  /\ batch # <<>> /\ f # "overflow"
  /\ batch' = Tail(batch)
  /\ considered' = considered \cup {f}
  /\ Dispatch("listener", f)
  /\ UNCHANGED <<repository, disk, events, keyState, importers, visited, generated, users, added, refused, exported>>

SkipOverflow ==
  /\ "listener" \in Importing /\ pc["listener"] = "event"
  /\ batch # <<>> /\ Head(batch) = "overflow"
  /\ batch' = Tail(batch)
  /\ UNCHANGED <<repository, disk, events, keyState, importers, threads, users, history>>

\* mutant: key.reset() is forgotten.
NoReset ==
  /\ "listener" \in Importing /\ pc["listener"] = "event"
  /\ batch = <<>>
  /\ pc' = [pc EXCEPT !["listener"] = "wait"]
  /\ UNCHANGED <<repository, disk, watch, importers, file, got, rqs, visited, generated, users, history>>

\* reset() queues the key again if events have arrived since pollEvents().
Reset ==
  /\ "listener" \in Importing /\ pc["listener"] = "event"
  /\ batch = <<>>
  /\ keyState' = IF events = <<>> THEN "ready" ELSE "queued"
  /\ pc' = [pc EXCEPT !["listener"] = "wait"]
  /\ UNCHANGED <<repository, disk, events, batch, importers, file, got, rqs, visited, generated, users, history>>

run == Take \/ HandleEvent \/ SkipOverflow \/ Reset

----------------------------------------------------------------------------
(* The world around: the watch service, users, the InTrace connection      *)

\* A file appears, empty.  Above its limit the watch key keeps one OVERFLOW
\* instead of the event.
Created(f) ==
  /\ ~Exists(f)
  /\ written' = [written EXCEPT ![f] = 0]
  /\ events' = IF Len(events) < MaxEvents THEN Append(events, f)
               ELSE IF Last(events) = "overflow" THEN events
               ELSE Append(events, "overflow")
  /\ keyState' = IF keyState = "ready" THEN "queued" ELSE keyState

CopyFile(f) ==
  /\ f \in UserFiles
  /\ Created(f)
  /\ UNCHANGED <<repository, content, batch, importers, threads, users, history>>

\* The content follows the creation, request by request.
Write(f) ==
  /\ Exists(f) /\ written[f] < Length[f]
  /\ written' = [written EXCEPT ![f] = @ + 1]
  /\ UNCHANGED <<repository, content, watch, importers, threads, users, history>>

\* requestCompleted(): the agent's thread calls add(), one request after the
\* other, whose exceptions cost it the request.
Live(r) ==
  /\ r \in LiveRequests \ reported
  /\ LookForRoom("intrace")
  /\ live' = r
  /\ reported' = reported \cup {r}
  /\ UNCHANGED <<disk, watch, importers, threads, page, history>>

LiveAdds ==
  /\ AddGoesOn("intrace") /\ UNCHANGED live
  /\ UNCHANGED <<disk, watch, importers, threads, users, history>>

LiveEnds ==
  /\ Put("intrace") \/ OfferRefused("intrace") \/ PollEmpty("intrace")
  /\ live' = NoFile
  /\ UNCHANGED <<disk, watch, importers, threads, users, history>>

\* The container serves no page before contextInitialized() has returned.
Serving == "startup" \in Importing => pc["startup"] \in {"done", "failed"}

\* RequestDetail: the page keeps the request object it has looked up.
OpenPage ==
  /\ Serving
  /\ \E e \in hashMap : page' = {e}
  /\ UNCHANGED <<repository, disk, watch, importers, threads, reported, history>>

\* Its form: createTempFile(), and then the exporter writes the request.
Export(f) ==
  /\ f \in ExportFiles /\ ~Exists(f)
  /\ \E r \in page :
       /\ content' = [content EXCEPT ![f] = <<r.id>>]
       /\ exported' = exported \cup {r.id}
  /\ Created(f)
  /\ UNCHANGED <<repository, batch, importers, threads, users, considered, added, refused>>

World ==
  \/ \E f \in Files : CopyFile(f) \/ Write(f) \/ Export(f)
  \/ (\E r \in LiveRequests : Live(r)) \/ LiveAdds \/ LiveEnds
  \/ OpenPage

Startup == StartupDone \/ \E f \in Files : NextFile(f)

Next == Startup \/ run \/ World \/ \E t \in Importing : importFile(t)

Spec == Init /\ [][Next]_vars

(* The scheduler runs the listener again after every run, the start-up       *)
(* thread works through the directory, and whoever creates a file writes it. *)
FairSpec ==
  /\ Spec
  /\ WF_vars(Startup) /\ WF_vars(run)
  /\ \A t \in Importing : WF_vars(importFile(t))
  /\ \A f \in Files : WF_vars(Write(f))

----------------------------------------------------------------------------
(* Properties                                                              *)

Queued == {queue[i] : i \in 1 .. Len(queue)}

\* No two requests of the repository share an id, which its map relies on: a
\* file that the program has exported itself, or that brings a request twice,
\* adds nothing while the repository has the request (lines 50-65 of
\* AbstractRequestImporter), whatever is evicted and reported meanwhile.
UniqueIds ==
  \A i, j \in 1 .. Len(queue) : queue[i].id = queue[j].id => i = j

\* Every request of an XML or text file has the id of that request: the one
\* in the XML, or the file's own name with the request's own number.
RightId ==
  \A r \in Queued :
    r.rq # Blank /\ r.rq.of \in Files /\ Kind[r.rq.of] # "dtpp" => r.id = r.rq

\* When the start-up import has been through the directory, every request of
\* every old file that can be parsed has been added, whatever is wrong with
\* other files and whatever the listener and the agent add and evict meanwhile
\* (DefaultImportExportMgr lines 63-71).  The one loss it takes: where add()
\* has refused a request, that one and those after it in its file.
StartupImportsAll ==
  /\ "startup" \in Importing
  /\ pc["startup"] = "done"
  => \A f \in {g \in OldFiles \ (Malformed \cup Poisonous) : Kind[g] \in ImportKinds} :
       \A n \in 1 .. Length[f] : Rq(f, n) \in added \/ \E m \in 1 .. n : Rq(f, m) \in refused

\* Every event that the watch service has kept for the directory makes the
\* listener consider its file, also when events arrive while it is busy and
\* when the import of a file throws whatever exception (lines 52-88).
EventsConsidered ==
  \A f \in Files : f \in ToSet(events) ~> f \in considered

\* "When new files show up in the export-dir, import them." (EventCollector,
\* line 93)
NewFilesImported ==
  \A f \in UserFiles \ (Malformed \cup Poisonous) :
    Exists(f) ~> \A n \in 1 .. Length[f] : Rq(f, n) \in added

\* "... avoids adding what it just exported" (AbstractRequestImporter, line 40)
ExportNotReimported == added \cap exported = {}

============================================================================
