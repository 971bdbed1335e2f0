------------------------ MODULE RequestLoadingProofs ------------------------
(***************************************************************************)
(* What holds of the loading of a request for all events, statements and   *)
(* tables, and whatever the parsers find in a statement.                   *)
(***************************************************************************)
EXTENDS RequestLoading, DataLemmas

Note == TableNote \cup JoinNote

\* What the steps of a phase rely on: a group of events to take the argument
\* of, a statement whose tables and joins are being recorded.
PhaseOK ==
  /\ pc = "wrap" => input.source = "live" /\ Len(group) >= 2
  /\ pc \in {"walk", "add"} => text \in Texts /\ Len(seen) > 0 /\ Len(joined) > 0
  /\ pc = "walk" /\ input.source = "xml" => Len(statements) > 0

LoadingInv == TypeOK /\ PhaseOK

(* Every walk over a statement is a sequence of notes.                      *)
LEMMA WalksTyped ==
  ASSUME NEW x \in Texts
  PROVE  /\ FirstWalk[x].notes \in Seq(Note)
         /\ RetryWalk[x].notes \in Seq(Note)
         /\ SecondaryWalk[x].notes \in Seq(Note)
<1>1. FirstWalk[x] \in Walk /\ RetryWalk[x] \in Walk /\ SecondaryWalk[x] \in Walk
  BY LoadingAssumption
<1> QED
  BY <1>1 DEF Walk, Note

(* What the importers and the listener of live requests hand over.          *)
LEMMA ItemsTyped ==
  ASSUME input \in Inputs
  PROVE  /\ input.source = "live" => items \in Seq(Event)
         /\ input.source \in {"text", "xml"} => items \in Seq(Texts)
  BY LoadingAssumption DEF items

(* Taking the first note leaves a shorter sequence of notes.                *)
LEMMA HeadTail ==
  ASSUME NEW s \in Seq(Note), s # <<>>
  PROVE  Head(s) \in Note /\ Tail(s) \in Seq(Note)
  BY HeadTailProperties

LEMMA NoteKinds ==
  ASSUME NEW j \in Note
  PROVE  /\ j.kind = "table" => j \in TableNote /\ j.table \in Tables
         /\ j.kind = "join" => j \in JoinNote
  BY DEF Note, TableNote, JoinNote

(* A new parse starts with a blank model and a blank history entry.         *)
LEMMA StartParseTyped ==
  ASSUME TypeOK, NEW x \in Texts, StartParse(x)
  PROVE  /\ text' \in Texts /\ attempt' \in 1 .. 3 /\ notes' \in Seq(TableNote \cup JoinNote)
         /\ models' \in [1 .. 3 -> Model]
         /\ seen' \in Seq(SUBSET Tables) /\ Len(seen') > 0
         /\ joined' \in Seq([Tables -> Nat]) /\ Len(joined') > 0
         /\ repeated' \subseteq Tables
<1>1. BlankModel \in Model
  BY DEF BlankModel, Model
<1>2. models' \in [1 .. 3 -> Model]
  BY <1>1 DEF StartParse
<1>3. seen' \in Seq(SUBSET Tables) /\ Len(seen') > 0
  <2>1. seen \in Seq(SUBSET Tables) /\ seen' = Append(seen, {})
    BY DEF StartParse, TypeOK
  <2> QED
    BY <2>1, AppendProperties
<1>4. Zero \in [Tables -> Nat]
  BY DEF Zero
<1>5. joined' \in Seq([Tables -> Nat]) /\ Len(joined') > 0
  <2>1. joined \in Seq([Tables -> Nat]) /\ joined' = Append(joined, Zero)
    BY DEF StartParse, TypeOK
  <2> QED
    BY <1>4, <2>1, AppendProperties
<1> QED
  BY <1>2, <1>3, <1>5, WalksTyped DEF StartParse, Note, TypeOK

(* newSqlStatement() keeps the types of the statistics.                     *)
LEMMA FlushTyped ==
  ASSUME TypeOK, Flush
  PROVE  /\ known' \subseteq Tables
         /\ tableCount' \in [Tables -> Nat]
         /\ joinCount' \in [Tables -> Nat]
         /\ sqlJoins' \in [Tables -> Nat]
         /\ joinsPerSql' \in [Tables -> Seq(Nat \ {0})]
<1>1. \A t \in Tables :
        (IF sqlJoins[t] # 0 THEN Append(joinsPerSql[t], sqlJoins[t]) ELSE joinsPerSql[t])
          \in Seq(Nat \ {0})
  <2> SUFFICES ASSUME NEW t \in Tables, sqlJoins[t] # 0
               PROVE  Append(joinsPerSql[t], sqlJoins[t]) \in Seq(Nat \ {0})
    BY DEF TypeOK
  <2>1. joinsPerSql[t] \in Seq(Nat \ {0}) /\ sqlJoins[t] \in Nat \ {0}
    BY DEF TypeOK
  <2> QED
    BY <2>1, AppendProperties
<1>2. joinsPerSql' \in [Tables -> Seq(Nat \ {0})]
  BY <1>1 DEF Flush
<1> QED
  BY <1>2 DEF Flush, TypeOK, Zero

LEMMA InitLoadingInv == Init => LoadingInv
<1> SUFFICES ASSUME Init PROVE LoadingInv
  OBVIOUS
<1>1. BlankModel \in Model
  BY DEF BlankModel, Model
<1>2. <<>> \in Seq(Nat \ {0})
  BY EmptySeq
<1> QED
  BY <1>1, <1>2 DEF Init, LoadingInv, TypeOK, PhaseOK, Zero

(* addSqlWrapper() with a well-typed statement.                             *)
LEMMA AddSqlTyped ==
  ASSUME TypeOK, NEW s \in [text : Texts, attempt : 1 .. 3, model : Model], AddSql(s)
  PROVE  /\ statements' \in Seq([text : Texts, attempt : 1 .. 3, model : Model])
         /\ Len(statements') > 0
         /\ known' \subseteq Tables
         /\ tableCount' \in [Tables -> Nat]
         /\ joinCount' \in [Tables -> Nat]
         /\ sqlJoins' \in [Tables -> Nat]
         /\ joinsPerSql' \in [Tables -> Seq(Nat \ {0})]
<1>1. statements' = Append(statements, s) /\ Flush
  BY DEF AddSql
<1>2. statements \in Seq([text : Texts, attempt : 1 .. 3, model : Model])
  BY DEF TypeOK
<1> QED
  BY <1>1, <1>2, FlushTyped, AppendProperties

(* The end of the last attempt for a statement.                             *)
LEMMA EndParseTyped ==
  ASSUME LoadingInv, pc = "walk", models' \in [1 .. 3 -> Model], EndParse
  PROVE  /\ statements' \in Seq([text : Texts, attempt : 1 .. 3, model : Model])
         /\ pc' \in {"next", "add"}
<1>1. theStatement \in [text : Texts, attempt : 1 .. 3, model : Model]
  BY DEF theStatement, LoadingInv, TypeOK
<1>2. CASE input.source = "xml"
  <2>1. /\ statements' = [statements EXCEPT ![Len(statements)] = theStatement]
        /\ statements \in Seq([text : Texts, attempt : 1 .. 3, model : Model])
        /\ Len(statements) \in 1 .. Len(statements)
    <3>1. /\ statements \in Seq([text : Texts, attempt : 1 .. 3, model : Model])
          /\ Len(statements) > 0
      BY <1>2 DEF LoadingInv, TypeOK, PhaseOK
    <3>2. Len(statements) \in 1 .. Len(statements)
      BY <3>1, LenProperties
    <3> QED
      BY <1>2, <3>1, <3>2 DEF EndParse
  <2> HIDE DEF theStatement
  <2>2. statements' \in Seq([text : Texts, attempt : 1 .. 3, model : Model])
    BY <1>1, <2>1, ExceptSeq
  <2> QED
    BY <1>2, <2>2 DEF EndParse
<1>3. CASE input.source # "xml"
  BY <1>3 DEF EndParse, LoadingInv, TypeOK
<1> QED
  BY <1>2, <1>3

(* Each step of the loading keeps the variables well typed and prepares     *)
(* what the next phase needs.                                              *)
LEMMA NextLoadingInv == LoadingInv /\ [Next]_vars => LoadingInv'
<1> SUFFICES ASSUME LoadingInv, [Next]_vars PROVE LoadingInv'
  OBVIOUS
<1> USE DEF LoadingInv, TypeOK, PhaseOK, source, parsing, stats, history, vars
<1>1. CASE UNCHANGED vars
  BY <1>1
<1>2. CASE Pair
  <2>0. PICK e \in at .. Len(items) : \E x \in e .. Len(items) :
          FirstEntry(e) /\ FirstExit(e, x) /\ group' = SubSeq(items, e, x) /\ at' = x + 1
    BY <1>2 DEF Pair
  <2>1. PICK x \in e .. Len(items) :
          FirstEntry(e) /\ FirstExit(e, x) /\ group' = SubSeq(items, e, x) /\ at' = x + 1
    BY <2>0
  <2>2. items \in Seq(Event)
    BY <1>2, ItemsTyped DEF Pair
  <2>3. e # x
    BY <2>1 DEF FirstEntry, FirstExit, Ends
  <2>4. e \in 1 .. Len(items) /\ x \in 1 .. Len(items) /\ e < x
    BY <2>2, <2>3
  <2>5. group' \in Seq(Event) /\ Len(group') = x - e + 1
    BY <2>1, <2>2, <2>4, SubSeqProperties
  <2> QED
    BY <1>2, <2>1, <2>4, <2>5 DEF Pair
<1>3. CASE Unmatched
  BY <1>3 DEF Unmatched
<1>4. CASE Wrap
  <2>1. group[2].text \in Texts
    <3>1. group \in Seq(Event) /\ Len(group) >= 2
      BY <1>4 DEF Wrap
    <3>2. group[2] \in Event
      BY <3>1, ElementOfSeq
    <3> QED
      BY <3>2 DEF Event
  <2>2. StartParse(group[2].text)
    BY <1>4 DEF Wrap
  <2>3. /\ text' \in Texts /\ attempt' \in 1 .. 3
        /\ notes' \in Seq(TableNote \cup JoinNote)
        /\ models' \in [1 .. 3 -> Model]
        /\ seen' \in Seq(SUBSET Tables) /\ Len(seen') > 0
        /\ joined' \in Seq([Tables -> Nat]) /\ Len(joined') > 0
        /\ repeated' \subseteq Tables
    BY <2>1, <2>2, StartParseTyped
  <2> QED
    BY <1>4, <2>3 DEF Wrap
<1>5. CASE NoArgument
  BY <1>5 DEF NoArgument
<1>6. CASE NextText
  <2>1. items[at] \in Texts
    BY <1>6, ItemsTyped DEF NextText, More
  <2>2. StartParse(items[at])
    BY <1>6 DEF NextText
  <2>3. /\ text' \in Texts /\ attempt' \in 1 .. 3
        /\ notes' \in Seq(TableNote \cup JoinNote)
        /\ models' \in [1 .. 3 -> Model]
        /\ seen' \in Seq(SUBSET Tables) /\ Len(seen') > 0
        /\ joined' \in Seq([Tables -> Nat]) /\ Len(joined') > 0
        /\ repeated' \subseteq Tables
    BY <2>1, <2>2, StartParseTyped
  <2> QED
    BY <1>6, <2>3 DEF NextText
<1>7. CASE NextXml
  <2>1. items[at] \in Texts
    BY <1>7, ItemsTyped DEF NextXml, More
  <2>2. StartParse(items[at])
    BY <1>7 DEF NextXml
  <2>3. [text |-> items[at], attempt |-> 1, model |-> BlankModel]
          \in [text : Texts, attempt : 1 .. 3, model : Model]
    BY <2>1 DEF BlankModel, Model
  <2>4. /\ text' \in Texts /\ attempt' \in 1 .. 3
        /\ notes' \in Seq(TableNote \cup JoinNote)
        /\ models' \in [1 .. 3 -> Model]
        /\ seen' \in Seq(SUBSET Tables) /\ Len(seen') > 0
        /\ joined' \in Seq([Tables -> Nat]) /\ Len(joined') > 0
        /\ repeated' \subseteq Tables
    BY <2>1, <2>2, StartParseTyped
  <2>5. AddSql([text |-> items[at], attempt |-> 1, model |-> BlankModel])
    BY <1>7 DEF NextXml
  <2>6. /\ statements' \in Seq([text : Texts, attempt : 1 .. 3, model : Model])
        /\ Len(statements') > 0
        /\ known' \subseteq Tables
        /\ tableCount' \in [Tables -> Nat]
        /\ joinCount' \in [Tables -> Nat]
        /\ sqlJoins' \in [Tables -> Nat]
        /\ joinsPerSql' \in [Tables -> Seq(Nat \ {0})]
    BY <2>3, <2>5, AddSqlTyped
  <2> QED
    BY <1>7, <2>4, <2>6 DEF NextXml
<1>8. CASE Loaded
  BY <1>8 DEF Loaded
<1>9. CASE NoteTable
  <2> DEFINE t == Head(notes).table
  <2>1. notes \in Seq(Note) /\ notes # <<>> /\ pc = "walk" /\ Head(notes).kind = "table"
    BY <1>9 DEF NoteTable, Note
  <2>2. t \in Tables /\ Tail(notes) \in Seq(TableNote \cup JoinNote)
    BY <2>1, HeadTail, NoteKinds DEF Note
  <2>3. models' = [models EXCEPT ![target].tables = @ \cup {t}] /\ target \in 1 .. 3
    BY <1>9 DEF NoteTable, target
  <2>4. models' \in [1 .. 3 -> Model]
    <3>1. models[target] \in Model
      BY <2>3
    <3>2. [models[target] EXCEPT !.tables = @ \cup {t}] \in Model
      BY <3>1, <2>2 DEF Model
    <3> QED
      BY <2>3, <3>2
  <2>5. known' \subseteq Tables /\ tableCount' \in [Tables -> Nat]
    <3>1. \/ known' = known \cup {t} /\ tableCount' = [tableCount EXCEPT ![t] = @ + 1]
          \/ UNCHANGED <<known, tableCount>>
      BY <1>9 DEF NoteTable
    <3>2. known \subseteq Tables /\ tableCount \in [Tables -> Nat] /\ t \in Tables
      BY <2>2
    <3> HIDE DEF t, LoadingInv, TypeOK
    <3> QED
      BY <3>1, <3>2
  <2>6. seen' \in Seq(SUBSET Tables) /\ Len(seen') > 0
    <3>1. seen \in Seq(SUBSET Tables) /\ Len(seen) \in 1 .. Len(seen)
      BY <2>1, LenProperties
    <3>2. seen[Len(seen)] \cup {t} \in SUBSET Tables
      BY <2>2, <3>1, ElementOfSeq
    <3> DEFINE extended == [seen EXCEPT ![Len(seen)] = seen[Len(seen)] \cup {t}]
    <3>3. extended \in Seq(SUBSET Tables) /\ Len(extended) = Len(seen)
      BY <3>1, <3>2, ExceptSeq
    <3>4. seen' = extended \/ seen' = seen
      BY <1>9 DEF NoteTable
    <3> HIDE DEF extended
    <3> QED
      BY <3>1, <3>3, <3>4
  <2> QED
    BY <1>9, <2>2, <2>4, <2>5, <2>6 DEF NoteTable
<1>10. CASE NoteJoin
  <2> DEFINE j == Head(notes)
             Plus(count) == [t \in Tables |-> count[t] + Sides(j, t)]
  <2>1. notes \in Seq(Note) /\ notes # <<>> /\ pc = "walk" /\ j.kind = "join"
    BY <1>10 DEF NoteJoin, Note
  <2>2. j \in JoinNote /\ Tail(notes) \in Seq(TableNote \cup JoinNote)
    BY <2>1, HeadTail, NoteKinds DEF Note
  <2>3. models' = [models EXCEPT ![target].joins = Append(@, j)] /\ target \in 1 .. 3
    BY <1>10 DEF NoteJoin, target
  <2>4. models' \in [1 .. 3 -> Model]
    <3>1. models[target] \in Model
      BY <2>3
    <3>2. Append(models[target].joins, j) \in Seq(JoinNote)
      BY <3>1, <2>2, AppendProperties DEF Model
    <3>3. [models[target] EXCEPT !.joins = Append(@, j)] \in Model
      BY <3>1, <3>2 DEF Model
    <3> QED
      BY <2>3, <3>3
  <2>5. \A count \in [Tables -> Nat] : Plus(count) \in [Tables -> Nat]
    BY DEF Sides
  <2> HIDE DEF Plus
  <2>6. \/ UNCHANGED <<known, joinCount, sqlJoins, joined>>
        \/ /\ known' = known \cup ({j.left, j.right} \cap Tables)
           /\ joinCount' = Plus(joinCount)
           /\ sqlJoins' = Plus(sqlJoins)
           /\ joined' = [joined EXCEPT ![Len(joined)] = Plus(joined[Len(joined)])]
    BY <1>10 DEF NoteJoin, Plus
  <2>7. /\ known' \subseteq Tables
        /\ joinCount' \in [Tables -> Nat]
        /\ sqlJoins' \in [Tables -> Nat]
    BY <2>5, <2>6
  <2>8. joined' \in Seq([Tables -> Nat]) /\ Len(joined') > 0
    <3>1. joined \in Seq([Tables -> Nat]) /\ Len(joined) \in 1 .. Len(joined)
      BY <2>1, LenProperties
    <3>2. Plus(joined[Len(joined)]) \in [Tables -> Nat]
      BY <2>5, <3>1, ElementOfSeq
    <3> DEFINE replaced == [joined EXCEPT ![Len(joined)] = Plus(joined[Len(joined)])]
    <3>3. replaced \in Seq([Tables -> Nat]) /\ Len(replaced) = Len(joined)
      BY <3>1, <3>2, ExceptSeq
    <3>4. joined' = replaced \/ joined' = joined
      BY <2>6
    <3> HIDE DEF replaced
    <3> QED
      BY <3>1, <3>3, <3>4
  <2> QED
    BY <1>10, <2>2, <2>4, <2>7, <2>8 DEF NoteJoin
<1>11. CASE Parsed
  BY <1>11, EndParseTyped DEF Parsed, WalkDone, EndParse
<1>12. CASE TryAgain
  <2>1. notes' \in Seq(TableNote \cup JoinNote)
    BY <1>12, WalksTyped DEF TryAgain, WalkDone, Note
  <2>2. models' \in [1 .. 3 -> Model]
    <3>1. models[1] \in Model
      OBVIOUS
    <3>2. [models[1] EXCEPT !.failed = TRUE] \in Model
      BY <3>1 DEF Model
    <3> QED
      BY <1>12, <3>2 DEF TryAgain
  <2>3. joined' \in Seq([Tables -> Nat]) /\ Len(joined') > 0
    <3>1. joined \in Seq([Tables -> Nat]) /\ Len(joined) \in 1 .. Len(joined) /\ Zero \in [Tables -> Nat]
      BY <1>12, LenProperties DEF TryAgain, WalkDone, Zero
    <3> DEFINE replaced == [joined EXCEPT ![Len(joined)] = Zero]
    <3>2. replaced \in Seq([Tables -> Nat]) /\ Len(replaced) = Len(joined)
      BY <3>1, ExceptSeq
    <3>3. joined' = replaced \/ joined' = joined
      BY <1>12 DEF TryAgain
    <3> HIDE DEF replaced
    <3> QED
      BY <3>1, <3>2, <3>3
  <2>4. repeated' \subseteq Tables
    BY <1>12 DEF TryAgain
  <2> QED
    BY <1>12, <2>1, <2>2, <2>3, <2>4 DEF TryAgain
<1>13. CASE GiveUp
  <2>1. models' \in [1 .. 3 -> Model]
    <3>1. models[3] \in Model /\ models' = [models EXCEPT ![3].failed = TRUE]
      BY <1>13 DEF GiveUp
    <3>2. [models[3] EXCEPT !.failed = TRUE] \in Model
      BY <3>1 DEF Model
    <3> QED
      BY <3>1, <3>2
  <2>2. pc = "walk" /\ EndParse
    BY <1>13 DEF GiveUp, WalkDone
  <2>3. /\ statements' \in Seq([text : Texts, attempt : 1 .. 3, model : Model])
        /\ pc' \in {"next", "add"}
    BY <2>1, <2>2, EndParseTyped
  <2> QED
    BY <1>13, <2>1, <2>2, <2>3 DEF GiveUp
<1>14. CASE Add
  <2>1. [text |-> text, attempt |-> attempt, model |-> models[attempt]]
          \in [text : Texts, attempt : 1 .. 3, model : Model]
    BY <1>14 DEF Add
  <2> QED
    BY <1>14, <2>1, AddSqlTyped DEF Add
<1>15. CASE ClassMismatch \/ ParserDies
  BY <1>15 DEF ClassMismatch, ParserDies
<1> QED
  BY <1>1, <1>2, <1>3, <1>4, <1>5, <1>6, <1>7, <1>8, <1>9, <1>10, <1>11,
     <1>12, <1>13, <1>14, <1>15 DEF Next, setSqlText

LEMMA LoadingInvariant == Spec => []LoadingInv
  BY InitLoadingInv, NextLoadingInv, PTL DEF Spec

(* Whatever events and statements a request brings and whatever the parsers *)
(* find in them: the request, its models and its statistics keep their      *)
(* types, a paired group of events has an event after its ENTRY to take the *)
(* SQL from, and a statement being parsed has a history entry.              *)
THEOREM LoadingTypeCorrect == Spec => [](TypeOK /\ PhaseOK)
  BY LoadingInvariant, PTL DEF LoadingInv

----------------------------------------------------------------------------
(* A table is counted once for each statement                              *)

Naming(s, t) == {n \in 1 .. Len(s) : t \in s[n]}

Extend(s, t) == [s EXCEPT ![Len(s)] = @ \cup {t}]

\* The model that the observer is asked about is the one of the statement whose
\* history entry is the last.
CountInv ==
  /\ TableCountedOnce
  /\ pc = "walk" => models[1].tables = seen[Len(seen)]

(* A statement of which nothing is known yet names no table.                *)
LEMMA NamingAppend ==
  ASSUME NEW s \in Seq(SUBSET Tables), NEW t
  PROVE  /\ Naming(Append(s, {}), t) = Naming(s, t)
         /\ Append(s, {})[Len(Append(s, {}))] = {}
<1>1. /\ Len(Append(s, {})) = Len(s) + 1 /\ Len(s) \in Nat
      /\ \A n \in 1 .. Len(s) : Append(s, {})[n] = s[n]
      /\ Append(s, {})[Len(s) + 1] = {}
  BY AppendProperties, LenProperties
<1> QED
  BY <1>1 DEF Naming

(* One more table for the last statement.                                   *)
LEMMA NamingExtend ==
  ASSUME NEW s \in Seq(SUBSET Tables), Len(s) > 0, NEW t \in Tables
  PROVE  /\ \A u \in Tables \ {t} : Naming(Extend(s, t), u) = Naming(s, u)
         /\ t \in s[Len(s)] => Naming(Extend(s, t), t) = Naming(s, t)
         /\ t \notin s[Len(s)] =>
              /\ Naming(Extend(s, t), t) = Naming(s, t) \cup {Len(s)}
              /\ Len(s) \notin Naming(s, t)
         /\ Extend(s, t)[Len(Extend(s, t))] = s[Len(s)] \cup {t}
<1>1. Len(s) \in 1 .. Len(s)
  BY LenProperties
<1>2. s[Len(s)] \cup {t} \in SUBSET Tables
  BY <1>1, ElementOfSeq
<1>3. /\ Len(Extend(s, t)) = Len(s)
      /\ \A n \in 1 .. Len(s) : Extend(s, t)[n] = IF n = Len(s) THEN s[Len(s)] \cup {t} ELSE s[n]
  BY <1>1, <1>2, ExceptSeq DEF Extend
<1> QED
  BY <1>1, <1>3 DEF Naming

(* One element more is one more in the count.                              *)
LEMMA NamingCount ==
  ASSUME NEW s \in Seq(SUBSET Tables), NEW t
  PROVE  /\ Cardinality(Naming(s, t)) \in Nat
         /\ \A n : n \notin Naming(s, t) =>
              Cardinality(Naming(s, t) \cup {n}) = Cardinality(Naming(s, t)) + 1
<1>1. IsFiniteSet(1 .. Len(s))
  BY FS_Interval, LenProperties
<1>2. Naming(s, t) \subseteq 1 .. Len(s)
  BY DEF Naming
<1>3. IsFiniteSet(Naming(s, t))
  BY <1>1, <1>2, FS_Subset
<1> QED
  BY <1>3, FS_CardinalityType, FS_AddElement

LEMMA InitCountInv == Init => CountInv
<1> SUFFICES ASSUME Init PROVE CountInv
  OBVIOUS
<1>1. \A t : Naming(seen, t) = {}
  BY DEF Init, Naming
<1>2. TableCountedOnce
  BY <1>1, FS_EmptySet DEF Init, Zero, TableCountedOnce, Naming
<1> QED
  BY <1>2 DEF Init, CountInv

(* A new statement leaves the counts alone and starts from a blank model.   *)
LEMMA StartParseCounts ==
  ASSUME TypeOK, CountInv, NEW x, StartParse(x), UNCHANGED tableCount
  PROVE  CountInv'
<1>1. seen \in Seq(SUBSET Tables) /\ seen' = Append(seen, {}) /\ models'[1].tables = {}
  BY DEF TypeOK, StartParse, BlankModel
<1>2. \A t \in Tables : Naming(seen', t) = Naming(seen, t)
  BY <1>1, NamingAppend
<1>3. TableCountedOnce'
  BY <1>2 DEF CountInv, TableCountedOnce, Naming
<1>4. models'[1].tables = seen'[Len(seen')]
  BY <1>1, NamingAppend
<1> QED
  BY <1>3, <1>4 DEF CountInv

(* addTable() counts a table when the model meets it for the first time,    *)
(* which is when the statement does.                                        *)
LEMMA NoteTableCounts == LoadingInv /\ CountInv /\ NoteTable => CountInv'
<1> SUFFICES ASSUME LoadingInv, CountInv, NoteTable PROVE CountInv'
  OBVIOUS
<1> DEFINE t == Head(notes).table
<1>1. t \in Tables
  BY HeadTail, NoteKinds DEF NoteTable, LoadingInv, TypeOK, Note
<1>2. seen \in Seq(SUBSET Tables) /\ Len(seen) > 0 /\ tableCount \in [Tables -> Nat]
  BY DEF NoteTable, LoadingInv, TypeOK, PhaseOK
<1>3. /\ models[1].tables = seen[Len(seen)]
      /\ \A u \in Tables : tableCount[u] = Cardinality(Naming(seen, u))
  BY DEF NoteTable, CountInv, TableCountedOnce, Naming
<1>4. CASE target = 1
  <2>1. seen' = Extend(seen, t)
    BY <1>4 DEF NoteTable, observed, Extend
  <2>2. /\ \A u \in Tables \ {t} : Naming(seen', u) = Naming(seen, u)
        /\ t \in seen[Len(seen)] => Naming(seen', t) = Naming(seen, t)
        /\ t \notin seen[Len(seen)] => /\ Naming(seen', t) = Naming(seen, t) \cup {Len(seen)}
                                       /\ Len(seen) \notin Naming(seen, t)
        /\ seen'[Len(seen')] = seen[Len(seen)] \cup {t}
    BY <1>1, <1>2, <2>1, NamingExtend
  <2>3. tableCount' = IF t \in seen[Len(seen)] THEN tableCount
                      ELSE [tableCount EXCEPT ![t] = @ + 1]
    BY <1>3, <1>4 DEF NoteTable, observed, IsNew
  <2>4. models'[1].tables = seen[Len(seen)] \cup {t}
    <3>1. models \in [1 .. 3 -> Model] /\ models[1] \in Model
      BY DEF LoadingInv, TypeOK
    <3>2. models' = [models EXCEPT ![1].tables = models[1].tables \cup {t}]
      BY <1>4 DEF NoteTable
    <3> HIDE DEF t
    <3> QED
      BY <1>3, <3>1, <3>2 DEF Model
  <2> HIDE DEF t
  <2>5. ASSUME NEW u \in Tables PROVE tableCount'[u] = Cardinality(Naming(seen', u))
    <3>1. CASE u # t \/ t \in seen[Len(seen)]
      BY <1>1, <1>2, <1>3, <2>2, <2>3, <3>1
    <3>2. CASE u = t /\ t \notin seen[Len(seen)]
      <4>1. tableCount'[u] = tableCount[u] + 1
        BY <1>1, <1>2, <2>3, <3>2
      <4>2. Cardinality(Naming(seen, t) \cup {Len(seen)}) = Cardinality(Naming(seen, t)) + 1
        BY <1>2, <2>2, <3>2, NamingCount
      <4> QED
        BY <1>3, <2>2, <3>2, <4>1, <4>2
    <3> QED
      BY <3>1, <3>2
  <2> QED
    BY <2>2, <2>4, <2>5 DEF CountInv, TableCountedOnce, Naming
<1>5. CASE target # 1
  <2>1. UNCHANGED <<seen, tableCount>> /\ models'[1] = models[1]
    BY <1>5 DEF NoteTable, observed, LoadingInv, TypeOK
  <2> QED
    BY <1>3, <2>1 DEF CountInv, TableCountedOnce, Naming
<1> QED
  BY <1>4, <1>5

LEMMA NextCountInv == LoadingInv /\ CountInv /\ [Next]_vars => CountInv'
<1> SUFFICES ASSUME LoadingInv, CountInv, [Next]_vars PROVE CountInv'
  OBVIOUS
<1>1. TypeOK
  BY DEF LoadingInv
<1>2. ASSUME UNCHANGED <<tableCount, seen>>, pc' = "walk" => pc = "walk" /\ models'[1].tables = models[1].tables
      PROVE  CountInv'
  BY <1>2 DEF CountInv, TableCountedOnce
<1> USE DEF source, parsing, stats, history, vars
<1>3. CASE UNCHANGED vars
  BY <1>2, <1>3
<1>4. CASE Pair \/ Unmatched \/ NoArgument \/ Loaded \/ ClassMismatch \/ ParserDies
  BY <1>2, <1>4 DEF Pair, Unmatched, NoArgument, Loaded, ClassMismatch, ParserDies
<1>5. CASE Wrap
  BY <1>1, <1>5, StartParseCounts DEF Wrap
<1>6. CASE NextText
  BY <1>1, <1>6, StartParseCounts DEF NextText
<1>7. CASE NextXml
  BY <1>1, <1>7, StartParseCounts DEF NextXml, AddSql, Flush
<1>8. CASE NoteTable
  BY <1>8, NoteTableCounts
<1>9. CASE NoteJoin
  <2>1. models'[1].tables = models[1].tables
    BY <1>1, <1>9 DEF NoteJoin, TypeOK, Model
  <2> QED
    BY <1>2, <1>9, <2>1 DEF NoteJoin
<1>10. CASE Parsed
  BY <1>2, <1>10 DEF Parsed, EndParse
<1>11. CASE TryAgain
  <2>1. models'[1].tables = models[1].tables
    BY <1>1, <1>11 DEF TryAgain, TypeOK, Model
  <2> QED
    BY <1>2, <1>11, <2>1 DEF TryAgain, WalkDone
<1>12. CASE GiveUp
  BY <1>2, <1>12 DEF GiveUp, EndParse
<1>13. CASE Add
  BY <1>2, <1>13 DEF Add, AddSql, Flush
<1> QED
  BY <1>3, <1>4, <1>5, <1>6, <1>7, <1>8, <1>9, <1>10, <1>11, <1>12, <1>13
     DEF Next, setSqlText

(* "Number of SQL statements that referenced this table" is that number,    *)
(* however often a parser reports the table and however many attempts a     *)
(* statement takes.                                                         *)
THEOREM TablesCountedOnce == Spec => []TableCountedOnce
<1>1. LoadingInv /\ CountInv /\ [Next]_vars => CountInv'
  BY NextCountInv
<1>2. CountInv => TableCountedOnce
  BY DEF CountInv
<1> QED
  BY InitCountInv, LoadingInvariant, <1>1, <1>2, PTL DEF Spec

----------------------------------------------------------------------------
(* Every table of a readable statement has its statistics                  *)

\* The observed model is covered by the statistics as it grows, and the model
\* that the second attempt gives to the statement stays blank.
KnownInv ==
  /\ models[1].tables \subseteq known
  /\ models[2].tables = {}
  /\ ModelTablesKnown

(* Statistics are never taken away.                                         *)
LEMMA KnownGrows == LoadingInv /\ [Next]_vars => known \subseteq known'
  BY DEF Next, setSqlText, vars, source, parsing, stats, history, Pair, Unmatched, Wrap,
         NoArgument, NextText, NextXml, AddSql, Flush, Loaded, NoteTable, NoteJoin,
         Parsed, TryAgain, GiveUp, ParserDies, Add, ClassMismatch

(* A statement that is added last keeps the statements before it.           *)
LEMMA AppendedKnown ==
  ASSUME TypeOK, ModelTablesKnown, known \subseteq known',
         NEW s \in [text : Texts, attempt : 1 .. 3, model : Model],
         statements' = Append(statements, s),
         s.attempt < 3 => s.model.tables \subseteq known'
  PROVE  ModelTablesKnown'
<1>1. statements \in Seq([text : Texts, attempt : 1 .. 3, model : Model])
  BY DEF TypeOK
<1>2. /\ Len(statements') = Len(statements) + 1 /\ Len(statements) \in Nat
      /\ \A n \in 1 .. Len(statements) : statements'[n] = statements[n]
      /\ statements'[Len(statements) + 1] = s
  BY <1>1, AppendProperties, LenProperties
<1>3. ASSUME NEW n \in 1 .. Len(statements'), statements'[n].attempt < 3
      PROVE  statements'[n].model.tables \subseteq known'
  <2>1. CASE n \in 1 .. Len(statements)
    BY <1>2, <1>3, <2>1 DEF ModelTablesKnown
  <2>2. CASE n = Len(statements) + 1
    BY <1>2, <1>3, <2>2
  <2> QED
    BY <1>2, <2>1, <2>2
<1> QED
  BY <1>3 DEF ModelTablesKnown

(* Nor do the others change when an imported statement gets its model.      *)
LEMMA EndParseKnown ==
  ASSUME LoadingInv, KnownInv, pc = "walk", UNCHANGED known,
         models' \in [1 .. 3 -> Model],
         models'[1].tables = models[1].tables, models'[2].tables = models[2].tables,
         EndParse
  PROVE  KnownInv'
<1> DEFINE s == theStatement
<1>1. s.attempt < 3 => s.model.tables \subseteq known
  BY DEF theStatement, KnownInv, LoadingInv, TypeOK
<1>2. /\ statements \in Seq([text : Texts, attempt : 1 .. 3, model : Model])
      /\ s \in [text : Texts, attempt : 1 .. 3, model : Model]
  BY DEF theStatement, LoadingInv, TypeOK
<1>3. CASE input.source = "xml"
  <2> HIDE DEF s
  <2>1. statements' = [statements EXCEPT ![Len(statements)] = s]
    BY <1>3 DEF EndParse, s
  <2>2. Len(statements) \in 1 .. Len(statements)
    BY <1>2, <1>3, LenProperties DEF LoadingInv, PhaseOK
  <2>3. /\ Len(statements') = Len(statements)
        /\ \A n \in 1 .. Len(statements) :
             statements'[n] = IF n = Len(statements) THEN s ELSE statements[n]
    BY <1>2, <2>1, <2>2, ExceptSeq
  <2> QED
    BY <1>1, <2>3 DEF KnownInv, ModelTablesKnown
<1>4. CASE input.source # "xml"
  BY <1>4 DEF EndParse, KnownInv, ModelTablesKnown
<1> QED
  BY <1>3, <1>4

LEMMA NextKnownInv == LoadingInv /\ KnownInv /\ [Next]_vars => KnownInv'
<1> SUFFICES ASSUME LoadingInv, KnownInv, [Next]_vars PROVE KnownInv'
  OBVIOUS
<1>1. TypeOK
  BY DEF LoadingInv
<1>2. models \in [1 .. 3 -> Model] /\ models[1] \in Model /\ models[2] \in Model
  BY DEF LoadingInv, TypeOK
<1>3. ModelTablesKnown /\ known \subseteq known'
  BY KnownGrows DEF KnownInv
<1>4. ASSUME UNCHANGED statements PROVE ModelTablesKnown'
  BY <1>3, <1>4 DEF ModelTablesKnown
<1>5. ASSUME NEW x, StartParse(x)
      PROVE  models'[1].tables = {} /\ models'[2].tables = {}
  BY <1>5 DEF StartParse, BlankModel
<1>6. ASSUME UNCHANGED <<models, statements>> PROVE KnownInv'
  BY <1>3, <1>4, <1>6 DEF KnownInv
<1> USE DEF source, parsing, stats, history, vars
<1>7. CASE UNCHANGED vars
  BY <1>6, <1>7
<1>8. CASE Pair \/ Unmatched \/ NoArgument \/ Loaded \/ ClassMismatch \/ ParserDies
  BY <1>6, <1>8 DEF Pair, Unmatched, NoArgument, Loaded, ClassMismatch, ParserDies
<1>9. CASE Wrap
  BY <1>4, <1>5, <1>9 DEF Wrap, KnownInv
<1>10. CASE NextText
  BY <1>4, <1>5, <1>10 DEF NextText, KnownInv
<1>11. CASE NextXml
  <2> DEFINE s == [text |-> items[at], attempt |-> 1, model |-> BlankModel]
  <2>1. items[at] \in Texts
    BY <1>11, ItemsTyped DEF NextXml, More, LoadingInv, TypeOK
  <2>2. s \in [text : Texts, attempt : 1 .. 3, model : Model] /\ s.model.tables = {}
    BY <2>1 DEF BlankModel, Model
  <2>3. statements' = Append(statements, s)
    BY <1>11 DEF NextXml, AddSql
  <2> HIDE DEF s
  <2>4. ModelTablesKnown'
    BY <1>1, <1>3, <2>2, <2>3, AppendedKnown
  <2> QED
    BY <1>5, <1>11, <2>4 DEF NextXml, KnownInv
<1>12. CASE NoteTable
  <2> DEFINE t == Head(notes).table
  <2>1. models' = [models EXCEPT ![target].tables = models[target].tables \cup {t}]
    BY <1>12 DEF NoteTable
  <2>2. target = 1 => t \in known' \/ t \in models[1].tables
    BY <1>12 DEF NoteTable, observed, IsNew
  <2>3. target \in {1, 3}
    BY DEF target
  <2>4. UNCHANGED statements
    BY <1>12 DEF NoteTable
  <2> HIDE DEF t
  <2>5. models'[2] = models[2]
    BY <1>2, <2>1, <2>3
  <2>6. \/ models'[1].tables = models[1].tables
        \/ target = 1 /\ models'[1].tables = models[1].tables \cup {t}
    BY <1>2, <2>1, <2>3 DEF Model
  <2> QED
    BY <1>3, <1>4, <2>2, <2>4, <2>5, <2>6 DEF KnownInv
<1>13. CASE NoteJoin
  <2>1. /\ models'[1].tables = models[1].tables
        /\ models'[2].tables = models[2].tables
    BY <1>2, <1>13 DEF NoteJoin, Model, target
  <2>2. UNCHANGED statements
    BY <1>13 DEF NoteJoin
  <2> QED
    BY <1>3, <1>4, <2>1, <2>2 DEF KnownInv
<1>14. CASE Parsed
  BY <1>2, <1>14, EndParseKnown DEF Parsed, WalkDone
<1>15. CASE TryAgain
  <2>1. /\ models'[1].tables = models[1].tables
        /\ models'[2].tables = models[2].tables
    BY <1>2, <1>15 DEF TryAgain, Model
  <2> QED
    BY <1>3, <1>4, <1>15, <2>1 DEF TryAgain, KnownInv
<1>16. CASE GiveUp
  <2>1. models' \in [1 .. 3 -> Model]
    BY <1>16, NextLoadingInv DEF LoadingInv, TypeOK
  <2>2. /\ models'[1].tables = models[1].tables
        /\ models'[2].tables = models[2].tables
    BY <1>2, <1>16 DEF GiveUp, Model
  <2> QED
    BY <1>16, <2>1, <2>2, EndParseKnown DEF GiveUp, WalkDone
<1>17. CASE Add
  <2> DEFINE s == [text |-> text, attempt |-> attempt, model |-> models[attempt]]
  <2>1. /\ s \in [text : Texts, attempt : 1 .. 3, model : Model]
        /\ s.attempt < 3 => s.model.tables \subseteq known
    BY <1>17 DEF Add, LoadingInv, TypeOK, PhaseOK, KnownInv
  <2>2. statements' = Append(statements, s) /\ UNCHANGED models
    BY <1>17 DEF Add, AddSql
  <2> HIDE DEF s
  <2>3. ModelTablesKnown'
    BY <1>1, <1>3, <2>1, <2>2, AppendedKnown
  <2> QED
    BY <1>3, <2>2, <2>3 DEF KnownInv
<1> QED
  BY <1>7, <1>8, <1>9, <1>10, <1>11, <1>12, <1>13, <1>14, <1>15, <1>16, <1>17
     DEF Next, setSqlText

(* A statement that Akiban could read names no table that has no            *)
(* statistics, so that each of its tables gets a lane on the time line.     *)
THEOREM ModelTablesAreKnown == Spec => []ModelTablesKnown
<1>1. Init => KnownInv
  BY DEF Init, KnownInv, ModelTablesKnown, BlankModel
<1>2. LoadingInv /\ KnownInv /\ [Next]_vars => KnownInv'
  BY NextKnownInv
<1>3. KnownInv => ModelTablesKnown
  BY DEF KnownInv
<1> QED
  BY LoadingInvariant, <1>1, <1>2, <1>3, PTL DEF Spec

(***************************************************************************)
(* No open count                                                           *)
(***************************************************************************)

\* Unless a statement is between its parse and its addSqlWrapper(), the count of
\* its joins is closed.
ClosedInv ==
  input.source # "xml" /\ pc \in {"next", "wrap", "loaded"} => sqlJoins = Zero

LEMMA NextClosedInv == ClosedInv /\ [Next]_vars => ClosedInv'
<1> SUFFICES ASSUME ClosedInv, [Next]_vars PROVE ClosedInv'
  OBVIOUS
<1> USE DEF ClosedInv, Zero, source, parsing, stats, history, vars
<1>1. CASE UNCHANGED vars
  BY <1>1
<1>2. CASE Pair
  BY <1>2 DEF Pair
<1>3. CASE Unmatched \/ NoArgument \/ ClassMismatch \/ ParserDies
  BY <1>3 DEF Unmatched, NoArgument, ClassMismatch, ParserDies
<1>4. CASE Wrap \/ NextText
  BY <1>4 DEF Wrap, NextText
<1>5. CASE NextXml
  BY <1>5 DEF NextXml
<1>6. CASE Loaded
  BY <1>6 DEF Loaded
<1>7. CASE NoteTable \/ NoteJoin \/ TryAgain
  BY <1>7 DEF NoteTable, NoteJoin, TryAgain
<1>8. CASE Parsed \/ GiveUp
  BY <1>8 DEF Parsed, GiveUp, EndParse
<1>9. CASE Add
  BY <1>9 DEF Add, AddSql, Flush
<1> QED
  BY <1>1, <1>2, <1>3, <1>4, <1>5, <1>6, <1>7, <1>8, <1>9 DEF Next, setSqlText

(* When a live request or a text has been loaded, no join is outside the    *)
(* list that the averages are taken of (addSqlWrapper() follows the parse). *)
THEOREM AddedAreAveraged == Spec => []AddedStatementsAveraged
<1>1. Init => ClosedInv
  BY DEF Init, ClosedInv
<1>2. ClosedInv => AddedStatementsAveraged
  BY DEF ClosedInv, AddedStatementsAveraged
<1> QED
  BY <1>1, <1>2, NextClosedInv, PTL DEF Spec

(***************************************************************************)
(* What is drawn on the time line has statistics                           *)
(***************************************************************************)

LEMMA FirstOfSet ==
  ASSUME NEW R, NEW s \in Seq(R), s # <<>>
  PROVE  ToSet(s) = {Head(s)} \cup ToSet(Tail(s))
<1>1. /\ Len(s) \in Nat \ {0} /\ Tail(s) \in Seq(R) /\ Len(Tail(s)) = Len(s) - 1 /\ Head(s) = s[1]
      /\ \A n \in 1 .. Len(s) - 1 : Tail(s)[n] = s[n + 1]
  BY HeadTailProperties, EmptySeq, LenProperties
<1>2. DOMAIN s = 1 .. Len(s) /\ DOMAIN Tail(s) = 1 .. Len(s) - 1
  BY <1>1
<1>3. \A n \in 1 .. Len(s) : n = 1 \/ (n - 1 \in 1 .. Len(s) - 1 /\ (n - 1) + 1 = n)
  BY <1>1
<1>4. \A n \in 1 .. Len(s) - 1 : n + 1 \in 1 .. Len(s)
  BY <1>1
<1>5. ASSUME NEW n \in DOMAIN s PROVE s[n] \in {Head(s)} \cup ToSet(Tail(s))
  <2>1. CASE n = 1
    BY <1>1, <2>1
  <2>2. CASE n # 1
    <3>1. n - 1 \in 1 .. Len(s) - 1 /\ (n - 1) + 1 = n
      BY <1>2, <1>3, <2>2
    <3>2. Tail(s)[n - 1] = s[n] /\ n - 1 \in DOMAIN Tail(s)
      BY <1>1, <1>2, <3>1
    <3> QED
      BY <3>2 DEF ToSet
  <2> QED
    BY <2>1, <2>2
<1>6. ASSUME NEW n \in DOMAIN Tail(s) PROVE Tail(s)[n] \in ToSet(s)
  BY <1>1, <1>2, <1>4 DEF ToSet
<1>7. Head(s) \in ToSet(s)
  BY <1>1, <1>2 DEF ToSet
<1> QED
  BY <1>5, <1>6, <1>7 DEF ToSet

LEMMA LastOfSet ==
  ASSUME NEW R, NEW s \in Seq(R), NEW x \in R
  PROVE  ToSet(Append(s, x)) = ToSet(s) \cup {x}
<1>1. /\ Len(s) \in Nat /\ DOMAIN s = 1 .. Len(s) /\ DOMAIN Append(s, x) = 1 .. Len(s) + 1
      /\ \A n \in 1 .. Len(s) : Append(s, x)[n] = s[n]
      /\ Append(s, x)[Len(s) + 1] = x
  BY AppendProperties, LenProperties
<1>2. \A n \in 1 .. Len(s) + 1 : n \in 1 .. Len(s) \/ n = Len(s) + 1
  BY <1>1
<1>3. 1 .. Len(s) \subseteq 1 .. Len(s) + 1 /\ Len(s) + 1 \in 1 .. Len(s) + 1
  BY <1>1
<1> QED
  BY <1>1, <1>2, <1>3 DEF ToSet

\* The joins js are drawn between tables of K, as far as their columns have any.
Within(js, K) == \A j \in js : j.shown \ {NoTable} \subseteq K

\* The tables that a walk still reports.
Coming(ns) == {t \in Tables : [kind |-> "table", table |-> t] \in ToSet(ns)}

JoinsWithin ==
  \A n \in 1 .. Len(statements) :
    statements[n].attempt < 3 => Within(ToSet(statements[n].model.joins), known)

\* While Akiban walks over a statement that it can read, a join may be drawn to a
\* table that is yet to come; when it is done it may not.
DrawnInv ==
  /\ models[2].joins = <<>>
  /\ pc = "walk" /\ attempt = 1 /\ FirstWalk[text].end = "ok" =>
       Within(ToSet(models[1].joins) \cup (ToSet(notes) \cap JoinNote), known \cup Coming(notes))
  /\ pc = "add" /\ attempt = 1 => Within(ToSet(models[1].joins), known)
  /\ JoinsWithin

LEMMA WithinMore == ASSUME NEW js, NEW K, NEW L, K \subseteq L, Within(js, K) PROVE Within(js, L)
BY DEF Within

(* Before the first call of a walk all its tables are to come.              *)
LEMMA WalkAhead ==
  ASSUME NEW x \in Texts, FirstWalk[x].end = "ok"
  PROVE  Within(ToSet(FirstWalk[x].notes) \cap JoinNote, Coming(FirstWalk[x].notes))
<1>1. \A j \in JoinNote : j.shown \subseteq Tables \cup {NoTable}
  BY DEF JoinNote
<1> QED
  BY <1>1, DrawnAssumption DEF Within, Coming

LEMMA NextIsJoin ==
  ASSUME NEW ns \in Seq(Note), ns # <<>>, Head(ns).kind = "join"
  PROVE  Coming(ns) = Coming(Tail(ns)) /\ ToSet(ns) \cap JoinNote = {Head(ns)} \cup (ToSet(Tail(ns)) \cap JoinNote)
<1>1. ToSet(ns) = {Head(ns)} \cup ToSet(Tail(ns))
  BY FirstOfSet
<1>2. Head(ns) \in JoinNote
  BY HeadTail, NoteKinds
<1>3. \A t : Head(ns) # [kind |-> "table", table |-> t]
  OBVIOUS
<1> QED
  BY <1>1, <1>2, <1>3 DEF Coming

LEMMA NextIsTable ==
  ASSUME NEW ns \in Seq(Note), ns # <<>>, Head(ns).kind = "table"
  PROVE  /\ Coming(ns) \subseteq {Head(ns).table} \cup Coming(Tail(ns))
         /\ ToSet(Tail(ns)) \cap JoinNote \subseteq ToSet(ns) \cap JoinNote
<1>1. ToSet(ns) = {Head(ns)} \cup ToSet(Tail(ns))
  BY FirstOfSet
<1>2. \A t : Head(ns) = [kind |-> "table", table |-> t] => t = Head(ns).table
  OBVIOUS
<1> QED
  BY <1>1, <1>2 DEF Coming

(* A statement that is added last keeps the statements before it.           *)
LEMMA AppendedWithin ==
  ASSUME TypeOK, JoinsWithin, known \subseteq known',
         NEW s \in [text : Texts, attempt : 1 .. 3, model : Model],
         statements' = Append(statements, s),
         s.attempt < 3 => Within(ToSet(s.model.joins), known')
  PROVE  JoinsWithin'
<1>1. statements \in Seq([text : Texts, attempt : 1 .. 3, model : Model])
  BY DEF TypeOK
<1>2. /\ Len(statements') = Len(statements) + 1 /\ Len(statements) \in Nat
      /\ \A n \in 1 .. Len(statements) : statements'[n] = statements[n]
      /\ statements'[Len(statements) + 1] = s
  BY <1>1, AppendProperties, LenProperties
<1>3. ASSUME NEW n \in 1 .. Len(statements'), statements'[n].attempt < 3
      PROVE  Within(ToSet(statements'[n].model.joins), known')
  <2>1. CASE n \in 1 .. Len(statements)
    BY <1>2, <1>3, <2>1, WithinMore DEF JoinsWithin
  <2>2. CASE n = Len(statements) + 1
    BY <1>2, <1>3, <2>2
  <2> QED
    BY <1>2, <2>1, <2>2
<1>4. JoinsWithin' <=> \A n \in 1 .. Len(statements') :
         statements'[n].attempt < 3 => Within(ToSet(statements'[n].model.joins), known')
  BY DEF JoinsWithin, Within
<1> QED
  BY <1>3, <1>4

(* An imported statement gets its model when the parse of it ends.          *)
LEMMA EndParseWithin ==
  ASSUME LoadingInv, DrawnInv, pc = "walk", UNCHANGED <<known, attempt>>,
         models' \in [1 .. 3 -> Model],
         models'[1].joins = models[1].joins, models'[2].joins = models[2].joins,
         attempt = 1 => Within(ToSet(models[1].joins), known),
         EndParse
  PROVE  DrawnInv'
<1> DEFINE s == theStatement
<1>1. s.attempt < 3 => Within(ToSet(s.model.joins), known)
  <2>1. s.attempt = attempt /\ s.model = models'[attempt] /\ attempt \in 1 .. 3
    BY DEF theStatement, LoadingInv, TypeOK
  <2>2. ToSet(<<>>) = {}
    BY DEF ToSet
  <2>3. CASE attempt = 1
    BY <2>1, <2>3
  <2>4. CASE attempt = 2
    BY <2>1, <2>2, <2>4 DEF DrawnInv, Within
  <2> QED
    BY <2>1, <2>3, <2>4
<1>2. /\ statements \in Seq([text : Texts, attempt : 1 .. 3, model : Model])
      /\ s \in [text : Texts, attempt : 1 .. 3, model : Model]
  BY DEF theStatement, LoadingInv, TypeOK
<1>3. pc' # "walk"
  BY DEF EndParse
<1>4. JoinsWithin'
  <2>1. CASE input.source = "xml"
    <3> HIDE DEF s
    <3>1. statements' = [statements EXCEPT ![Len(statements)] = s]
      BY <2>1 DEF EndParse, s
    <3>2. Len(statements) \in 1 .. Len(statements)
      BY <1>2, <2>1, LenProperties DEF LoadingInv, PhaseOK
    <3>3. /\ Len(statements') = Len(statements)
          /\ \A n \in 1 .. Len(statements) :
               statements'[n] = IF n = Len(statements) THEN s ELSE statements[n]
      BY <1>2, <3>1, <3>2, ExceptSeq
    <3> QED
      BY <1>1, <3>3 DEF DrawnInv, JoinsWithin, Within
  <2>2. CASE input.source # "xml"
    BY <2>2 DEF EndParse, DrawnInv, JoinsWithin, Within
  <2> QED
    BY <2>1, <2>2
<1> QED
  BY <1>3, <1>4 DEF DrawnInv, Within

LEMMA NextDrawnInv == LoadingInv /\ KnownInv /\ DrawnInv /\ [Next]_vars => DrawnInv'
<1> SUFFICES ASSUME LoadingInv, KnownInv, DrawnInv, [Next]_vars PROVE DrawnInv'
  OBVIOUS
<1>1. TypeOK /\ known \subseteq known'
  BY KnownGrows DEF LoadingInv
<1>2. models \in [1 .. 3 -> Model] /\ models[1] \in Model /\ models[2] \in Model
  BY <1>1 DEF TypeOK
<1>3. ASSUME UNCHANGED statements PROVE JoinsWithin'
  BY <1>1, <1>3 DEF DrawnInv, JoinsWithin, Within
<1>4. ASSUME NEW x \in Texts, StartParse(x), pc' = "walk", JoinsWithin'
      PROVE  DrawnInv'
  <2>1. /\ models'[1].joins = <<>> /\ models'[2].joins = <<>>
        /\ text' = x /\ notes' = FirstWalk[x].notes
    BY <1>4 DEF StartParse, BlankModel
  <2>2. ToSet(<<>>) = {}
    BY DEF ToSet
  <2>3. ASSUME FirstWalk[x].end = "ok"
        PROVE  Within({} \cup (ToSet(FirstWalk[x].notes) \cap JoinNote), known' \cup Coming(FirstWalk[x].notes))
    BY <2>3, WalkAhead DEF Within
  <2>4. Coming(notes)' = Coming(FirstWalk[x].notes)
    BY <2>1 DEF Coming
  <2> QED
    BY <1>4, <2>1, <2>2, <2>3, <2>4 DEF DrawnInv, Within
<1>5. ASSUME UNCHANGED <<models, statements>>, pc' \notin {"walk", "add"} PROVE DrawnInv'
  BY <1>3, <1>5 DEF DrawnInv
<1> USE DEF source, parsing, stats, history, vars
<1>6. CASE UNCHANGED vars
  BY <1>6 DEF DrawnInv, JoinsWithin, Within, Coming
<1>7. CASE Pair \/ Unmatched \/ NoArgument \/ Loaded \/ ClassMismatch \/ ParserDies
  BY <1>5, <1>7 DEF Pair, Unmatched, NoArgument, Loaded, ClassMismatch, ParserDies
<1>8. CASE Wrap
  <2>1. group[2].text \in Texts
    <3>1. group \in Seq(Event) /\ 2 \in 1 .. Len(group)
      BY <1>8 DEF Wrap, LoadingInv, TypeOK, PhaseOK
    <3>2. group[2] \in Event
      BY <3>1, ElementOfSeq
    <3> QED
      BY <3>2 DEF Event
  <2> QED
    BY <1>3, <1>4, <1>8, <2>1 DEF Wrap
<1>9. CASE NextText
  <2>1. items[at] \in Texts
    BY <1>9, ItemsTyped DEF NextText, More, LoadingInv, TypeOK
  <2> QED
    BY <1>3, <1>4, <1>9, <2>1 DEF NextText
<1>10. CASE NextXml
  <2> DEFINE s == [text |-> items[at], attempt |-> 1, model |-> BlankModel]
  <2>1. items[at] \in Texts
    BY <1>10, ItemsTyped DEF NextXml, More, LoadingInv, TypeOK
  <2>2. s \in [text : Texts, attempt : 1 .. 3, model : Model] /\ s.model.joins = <<>>
    BY <2>1 DEF BlankModel, Model
  <2>3. statements' = Append(statements, s)
    BY <1>10 DEF NextXml, AddSql
  <2> HIDE DEF s
  <2>4. Within(ToSet(s.model.joins), known')
    BY <2>2 DEF Within, ToSet
  <2>5. JoinsWithin
    BY DEF DrawnInv
  <2>6. JoinsWithin'
    BY <1>1, <2>2, <2>3, <2>4, <2>5, AppendedWithin
  <2> QED
    BY <1>4, <1>10, <2>1, <2>6 DEF NextXml
<1>11. CASE NoteTable
  <2> DEFINE t == Head(notes).table
  <2>1. /\ pc = "walk" /\ notes # <<>> /\ Head(notes).kind = "table" /\ notes' = Tail(notes)
        /\ models' = [models EXCEPT ![target].tables = models[target].tables \cup {t}]
        /\ UNCHANGED <<pc, text, attempt, statements>>
    BY <1>11 DEF NoteTable
  <2>2. target \in {1, 3} /\ (attempt = 1 => target = 1)
    BY DEF target
  <2>3. models'[1].joins = models[1].joins /\ models'[2].joins = models[2].joins
    BY <1>2, <2>1, <2>2 DEF Model
  <2>4. target = 1 => t \in known'
    <3>1. models[1].tables \subseteq known
      BY DEF KnownInv
    <3>2. target = 1 => t \in models[1].tables \/ t \in known'
      BY <1>11 DEF NoteTable, observed, IsNew
    <3> QED
      BY <1>1, <3>1, <3>2
  <2>5. /\ Coming(notes) \subseteq {t} \cup Coming(Tail(notes))
        /\ ToSet(Tail(notes)) \cap JoinNote \subseteq ToSet(notes) \cap JoinNote
    BY <2>1, NextIsTable DEF LoadingInv, TypeOK, Note
  <2>6. Coming(notes)' = Coming(Tail(notes))
    BY <2>1 DEF Coming
  <2> HIDE DEF t
  <2>7. attempt = 1 => known \cup Coming(notes) \subseteq known' \cup Coming(Tail(notes))
    BY <1>1, <2>2, <2>4, <2>5
  <2>8. JoinsWithin'
    BY <1>3, <2>1
  <2> QED
    BY <2>1, <2>3, <2>5, <2>6, <2>7, <2>8 DEF DrawnInv, Within
<1>12. CASE NoteJoin
  <2> DEFINE j == Head(notes)
  <2>1. /\ pc = "walk" /\ notes # <<>> /\ j.kind = "join" /\ notes' = Tail(notes)
        /\ models' = [models EXCEPT ![target].joins = Append(models[target].joins, j)]
        /\ UNCHANGED <<pc, text, attempt, statements>>
    BY <1>12 DEF NoteJoin
  <2>2. target \in {1, 3} /\ (attempt = 1 => target = 1)
    BY DEF target
  <2>3. j \in JoinNote
    <3>1. notes \in Seq(Note)
      BY DEF LoadingInv, TypeOK, Note
    <3> QED
      BY <2>1, <3>1, HeadTail, NoteKinds
  <2>4. Coming(notes) = Coming(Tail(notes)) /\ ToSet(notes) \cap JoinNote = {j} \cup (ToSet(Tail(notes)) \cap JoinNote)
    BY <2>1, NextIsJoin DEF LoadingInv, TypeOK, Note
  <2> HIDE DEF j
  <2>5. models'[2].joins = models[2].joins
    BY <1>2, <2>1, <2>2 DEF Model
  <2>6. attempt = 1 => ToSet(models'[1].joins) = ToSet(models[1].joins) \cup {j}
    <3>1. attempt = 1 => models'[1].joins = Append(models[1].joins, j)
      BY <1>2, <2>1, <2>2 DEF Model
    <3>2. models[1].joins \in Seq(JoinNote)
      BY <1>2 DEF Model
    <3>3. ToSet(Append(models[1].joins, j)) = ToSet(models[1].joins) \cup {j}
      BY <2>3, <3>2, LastOfSet
    <3> QED
      BY <3>1, <3>3
  <2>7. Coming(notes)' = Coming(Tail(notes))
    BY <2>1 DEF Coming
  <2>8. JoinsWithin'
    BY <1>3, <2>1
  <2>9. ASSUME attempt = 1, FirstWalk[text].end = "ok"
        PROVE  Within(ToSet(models'[1].joins) \cup (ToSet(Tail(notes)) \cap JoinNote), known' \cup Coming(Tail(notes)))
    <3>1. Within(ToSet(models[1].joins) \cup (ToSet(notes) \cap JoinNote), known \cup Coming(notes))
      BY <2>1, <2>9 DEF DrawnInv
    <3> QED
      BY <1>1, <2>4, <2>6, <2>9, <3>1 DEF Within
  <2> QED
    BY <2>1, <2>5, <2>7, <2>8, <2>9 DEF DrawnInv, Within
<1>13. CASE Parsed
  <2>1. attempt = 1 => Within(ToSet(models[1].joins), known)
    <3>1. pc = "walk" /\ notes = <<>> /\ (attempt = 1 => FirstWalk[text].end = "ok")
      BY <1>13 DEF Parsed, WalkDone, Parses, theWalk
    <3>2. Coming(notes) = {}
      BY <3>1 DEF Coming, ToSet
    <3> QED
      BY <3>1, <3>2 DEF DrawnInv, Within
  <2> QED
    BY <1>2, <1>13, <2>1, EndParseWithin DEF Parsed, WalkDone
<1>14. CASE TryAgain
  <2>1. attempt' # 1 /\ UNCHANGED <<pc, statements>> /\ pc = "walk"
    BY <1>14 DEF TryAgain, WalkDone, LoadingInv, TypeOK
  <2>2. models'[1].joins = models[1].joins /\ models'[2].joins = models[2].joins
    BY <1>2, <1>14 DEF TryAgain, Model
  <2> QED
    BY <1>3, <2>1, <2>2 DEF DrawnInv
<1>15. CASE GiveUp
  <2>1. models' \in [1 .. 3 -> Model]
    BY <1>15, NextLoadingInv DEF LoadingInv, TypeOK
  <2>2. models'[1].joins = models[1].joins /\ models'[2].joins = models[2].joins
    BY <1>2, <1>15 DEF GiveUp, Model
  <2> QED
    BY <1>15, <2>1, <2>2, EndParseWithin DEF GiveUp, WalkDone
<1>16. CASE Add
  <2> DEFINE s == [text |-> text, attempt |-> attempt, model |-> models[attempt]]
  <2>1. /\ s \in [text : Texts, attempt : 1 .. 3, model : Model]
        /\ s.attempt < 3 => Within(ToSet(s.model.joins), known)
    <3>1. /\ text \in Texts /\ attempt \in 1 .. 3 /\ pc = "add"
      BY <1>16 DEF Add, LoadingInv, TypeOK, PhaseOK
    <3>2. ToSet(<<>>) = {}
      BY DEF ToSet
    <3>3. attempt < 3 => Within(ToSet(models[attempt].joins), known)
      BY <3>1, <3>2 DEF DrawnInv, Within
    <3> QED
      BY <1>2, <3>1, <3>3
  <2>2. statements' = Append(statements, s) /\ UNCHANGED models /\ pc' = "next"
    BY <1>16 DEF Add, AddSql
  <2> HIDE DEF s
  <2>3. JoinsWithin /\ (s.attempt < 3 => Within(ToSet(s.model.joins), known'))
    BY <1>1, <2>1, WithinMore DEF DrawnInv
  <2>4. JoinsWithin'
    BY <1>1, <2>1, <2>2, <2>3, AppendedWithin
  <2> QED
    BY <2>2, <2>4 DEF DrawnInv
<1> QED
  BY <1>6, <1>7, <1>8, <1>9, <1>10, <1>11, <1>12, <1>13, <1>14, <1>15, <1>16
     DEF Next, setSqlText

LEMMA DrawnInvariant == Spec => [](KnownInv /\ DrawnInv)
<1>1. Init => KnownInv /\ DrawnInv
  BY DEF Init, KnownInv, ModelTablesKnown, DrawnInv, JoinsWithin, BlankModel
<1>2. LoadingInv /\ KnownInv /\ DrawnInv /\ [Next]_vars => (KnownInv /\ DrawnInv)'
  BY NextKnownInv, NextDrawnInv
<1> QED
  BY <1>1, <1>2, LoadingInvariant, PTL DEF Spec

(***************************************************************************)
(* The joins of each statement                                             *)
(***************************************************************************)

\* How often each statement of a history joins t, and of those the ones that do.
Column(s, t) == [n \in 1 .. Len(s) |-> s[n][t]]
Counts(s, t) == Select(Column(s, t), Nat \ {0})

\* The count that newSqlStatement() has not closed yet.
Open(t) == IF sqlJoins[t] = 0 THEN <<>> ELSE <<sqlJoins[t]>>

LEMMA AttributedInShort ==
  /\ JoinsAttributed <=> \A t \in Tables \ repeated : joinsPerSql[t] \o Open(t) = Counts(joined, t)
  /\ JoinsAttributed' <=> \A t \in Tables \ repeated' : joinsPerSql'[t] \o Open(t)' = Counts(joined', t)
BY DEF JoinsAttributed, Open, Counts, Column

\* While a statement is parsed and until it is added, the open count is that of
\* the last statement and the list is that of all statements before it.
JoinInv ==
  /\ JoinsAttributed
  /\ pc \in {"walk", "add"} =>
       \A t \in Tables \ repeated :
         sqlJoins[t] = joined[Len(joined)][t] /\ joinsPerSql[t] = Counts(Front(joined), t)

LEMMA FrontOfAppend == ASSUME NEW R, NEW s \in Seq(R), NEW x \in R PROVE Front(Append(s, x)) = s
BY DEF Front

LEMMA LastOfSeq ==
  ASSUME NEW R, NEW s \in Seq(R), Len(s) > 0
  PROVE  /\ Front(s) \in Seq(R) /\ s[Len(s)] \in R
         /\ s = Append(Front(s), s[Len(s)])
         /\ \A x \in R : /\ Front(Append(s, x)) = s
                         /\ Front([s EXCEPT ![Len(s)] = x]) = Front(s)
                         /\ [s EXCEPT ![Len(s)] = x][Len(s)] = x
<1>0. Len(s) \in Nat /\ s[Len(s)] \in R
  BY LenProperties
<1>1. /\ Front(s) \in Seq(R) /\ Len(Front(s)) = Len(s) - 1
      /\ \A n \in 1 .. Len(s) - 1 : Front(s)[n] = s[n]
  <2> DEFINE m == Len(s) - 1
  <2>1. m \in Nat /\ 1 \in Int /\ \A i \in 1 .. m : s[i] \in R
    BY <1>0, ElementOfSeq
  <2> HIDE DEF m
  <2>2. /\ SubSeq(s, 1, m) \in Seq(R) /\ Len(SubSeq(s, 1, m)) = m
        /\ \A i \in 1 .. m : SubSeq(s, 1, m)[i] = s[i]
    BY <2>1
  <2> QED
    BY <2>2 DEF Front, m
<1>2. s = Append(Front(s), s[Len(s)])
  BY <1>0, <1>1
<1>3. ASSUME NEW x \in R
      PROVE  /\ Front([s EXCEPT ![Len(s)] = x]) = Front(s)
             /\ [s EXCEPT ![Len(s)] = x][Len(s)] = x
  BY <1>0, <1>1 DEF Front
<1> QED
  BY <1>0, <1>1, <1>2, <1>3, FrontOfAppend

LEMMA CountsAppend ==
  ASSUME NEW s \in Seq([Tables -> Nat]), NEW z \in [Tables -> Nat], NEW t \in Tables
  PROVE  Counts(Append(s, z), t) = IF z[t] = 0 THEN Counts(s, t) ELSE Append(Counts(s, t), z[t])
<1>1. Column(s, t) \in Seq(Nat)
  BY DEF Column
<1>2. Column(Append(s, z), t) = Append(Column(s, t), z[t])
  BY <1>1 DEF Column
<1>3. z[t] \in Nat
  OBVIOUS
<1> DEFINE c == Column(s, t)
           K == Nat \ {0}
<1>4. z[t] \in K <=> z[t] # 0
  BY <1>3
<1> HIDE DEF c, K
<1>5. Select(Append(c, z[t]), K) = IF z[t] \in K THEN Append(Select(c, K), z[t]) ELSE Select(c, K)
  BY <1>1, <1>3, SelectAppend DEF c
<1> QED
  BY <1>2, <1>4, <1>5 DEF Counts, c, K

(* The list and the open count together, when the last statement is open.  *)
LEMMA OpenLast ==
  ASSUME NEW s \in Seq([Tables -> Nat]), Len(s) > 0, NEW t \in Tables,
         NEW list \in Seq(Nat), list = Counts(Front(s), t)
  PROVE  list \o (IF s[Len(s)][t] = 0 THEN <<>> ELSE <<s[Len(s)][t]>>) = Counts(s, t)
<1> DEFINE z == s[Len(s)]
<1>1. Front(s) \in Seq([Tables -> Nat]) /\ z \in [Tables -> Nat] /\ s = Append(Front(s), z)
  BY LastOfSeq
<1> HIDE DEF z
<1>2. Counts(s, t) = IF z[t] = 0 THEN list ELSE Append(list, z[t])
  BY <1>1, CountsAppend
<1>3. list \o <<>> = list /\ list \o <<z[t]>> = Append(list, z[t])
  BY <1>1
<1> QED
  BY <1>2, <1>3 DEF z

(* The last statement stays open for setSqlText(), whatever it finds.      *)
LEMMA StaysOpen ==
  ASSUME LoadingInv', pc' \in {"walk", "add"},
         \A t \in Tables \ repeated' :
           sqlJoins'[t] = joined'[Len(joined')][t] /\ joinsPerSql'[t] = Counts(Front(joined'), t)
  PROVE  JoinInv'
<1>1. /\ joined' \in Seq([Tables -> Nat]) /\ Len(joined') > 0
      /\ \A t \in Tables : joinsPerSql'[t] \in Seq(Nat)
  BY DEF LoadingInv, PhaseOK, TypeOK
<1>2. \A t \in Tables \ repeated' : joinsPerSql'[t] \o Open(t)' = Counts(joined', t)
  BY <1>1, OpenLast DEF Open
<1> QED
  BY <1>2, AttributedInShort DEF JoinInv

(* A new statement opens with no joins, after the list is complete.        *)
LEMMA StartParseJoins ==
  ASSUME LoadingInv, LoadingInv', NEW x, StartParse(x), pc' = "walk", sqlJoins' = Zero,
         \A t \in Tables \ repeated : joinsPerSql'[t] = Counts(joined, t)
  PROVE  JoinInv'
<1>1. /\ joined \in Seq([Tables -> Nat]) /\ Zero \in [Tables -> Nat] /\ joined' = Append(joined, Zero)
      /\ repeated' = repeated
  BY DEF LoadingInv, TypeOK, Zero, StartParse
<1>2. Front(joined') = joined /\ joined'[Len(joined')] = Zero
  BY <1>1, FrontOfAppend, AppendProperties
<1> QED
  BY <1>1, <1>2, StaysOpen

(* What becomes of the last entry leaves the entries before it.             *)
LEMMA LastReplaced ==
  ASSUME NEW s \in Seq([Tables -> Nat]), Len(s) > 0, NEW f \in [Tables -> Nat],
         NEW r, r = [s EXCEPT ![Len(s)] = f]
  PROVE  Front(r) = Front(s) /\ r[Len(r)] = f
<1>1. ASSUME NEW R, NEW u \in Seq(R), Len(u) > 0, NEW x \in R
      PROVE  /\ Front([u EXCEPT ![Len(u)] = x]) = Front(u)
             /\ [u EXCEPT ![Len(u)] = x][Len(u)] = x
  BY <1>1, LastOfSeq
<1> DEFINE R == [Tables -> Nat]
<1>2. s \in Seq(R) /\ f \in R
  OBVIOUS
<1>3. Len(r) = Len(s)
  OBVIOUS
<1> HIDE DEF R
<1>4. /\ Front([s EXCEPT ![Len(s)] = f]) = Front(s)
      /\ [s EXCEPT ![Len(s)] = f][Len(s)] = f
  BY <1>1, <1>2
<1> QED
  BY <1>3, <1>4

LEMMA NextJoinInv == LoadingInv /\ ClosedInv /\ JoinInv /\ [Next]_vars => JoinInv'
<1> SUFFICES ASSUME LoadingInv, ClosedInv, JoinInv, [Next]_vars PROVE JoinInv'
  OBVIOUS
<1>1. TypeOK /\ LoadingInv'
  BY NextLoadingInv DEF LoadingInv
<1>2. /\ joined \in Seq([Tables -> Nat]) /\ sqlJoins \in [Tables -> Nat]
      /\ \A t \in Tables : joinsPerSql[t] \in Seq(Nat) /\ sqlJoins[t] \in Nat
      /\ \A t \in Tables \ repeated : joinsPerSql[t] \o Open(t) = Counts(joined, t)
  BY <1>1, AttributedInShort DEF TypeOK, JoinInv
<1>3. sqlJoins = Zero => \A t \in Tables \ repeated : joinsPerSql[t] = Counts(joined, t)
  <2>1. sqlJoins = Zero => \A t \in Tables : Open(t) = <<>>
    BY DEF Zero, Open
  <2>2. \A t \in Tables : joinsPerSql[t] \o <<>> = joinsPerSql[t]
    BY <1>2
  <2> QED
    BY <1>2, <2>1, <2>2
<1>4. Flush => \A t \in Tables \ repeated : joinsPerSql'[t] = Counts(joined, t)
  <2>1. \A t \in Tables : joinsPerSql[t] \o <<>> = joinsPerSql[t] /\ joinsPerSql[t] \o <<sqlJoins[t]>> = Append(joinsPerSql[t], sqlJoins[t])
    BY <1>2
  <2> QED
    BY <1>2, <2>1 DEF Flush, Open
<1>5. ASSUME UNCHANGED <<joinsPerSql, sqlJoins, joined, repeated>>,
             pc' \in {"walk", "add"} => pc \in {"walk", "add"}
      PROVE  JoinInv'
  BY <1>5 DEF JoinInv, JoinsAttributed
<1> USE DEF source, parsing, stats, history, vars
<1>6. CASE UNCHANGED vars
  BY <1>5, <1>6
<1>7. CASE Pair \/ Unmatched \/ NoArgument \/ Loaded \/ ClassMismatch \/ ParserDies
  BY <1>5, <1>7 DEF Pair, Unmatched, NoArgument, Loaded, ClassMismatch, ParserDies
<1>8. CASE Wrap
  <2>1. input.source # "xml" /\ sqlJoins = Zero
    BY <1>8 DEF Wrap, LoadingInv, PhaseOK, ClosedInv
  <2> QED
    BY <1>1, <1>3, <1>8, <2>1, StartParseJoins DEF Wrap
<1>9. CASE NextText
  <2>1. sqlJoins = Zero
    BY <1>9 DEF NextText, ClosedInv
  <2> QED
    BY <1>1, <1>3, <1>9, <2>1, StartParseJoins DEF NextText
<1>10. CASE NextXml
  BY <1>1, <1>4, <1>10, StartParseJoins DEF NextXml, AddSql, Flush
<1>11. CASE NoteTable
  BY <1>5, <1>11 DEF NoteTable
<1>12. CASE NoteJoin
  <2>1. CASE observed
    <3> DEFINE j == Head(notes)
               last == joined[Len(joined)]
               plus == [t \in Tables |-> last[t] + Sides(j, t)]
    <3>1. pc = "walk" /\ pc' = "walk" /\ Len(joined) > 0 /\ UNCHANGED <<joinsPerSql, repeated>>
      BY <1>12 DEF NoteJoin, LoadingInv, PhaseOK
    <3>2. \A t \in Tables \ repeated : sqlJoins[t] = last[t] /\ joinsPerSql[t] = Counts(Front(joined), t)
      BY <3>1 DEF JoinInv
    <3>3. /\ joined' = [joined EXCEPT ![Len(joined)] = plus]
          /\ \A t \in Tables : sqlJoins'[t] = sqlJoins[t] + Sides(j, t)
      BY <1>12, <2>1 DEF NoteJoin
    <3>4. plus \in [Tables -> Nat]
      <4>1. last \in [Tables -> Nat] /\ \A t : Sides(j, t) \in Nat
        BY <1>2, <3>1, LastOfSeq DEF Sides
      <4> HIDE DEF last, j
      <4>2. \A t \in Tables : last[t] + Sides(j, t) \in Nat
        BY <4>1
      <4> QED
        BY <4>2
    <3>5. \A t \in Tables \ repeated : sqlJoins'[t] = plus[t]
      BY <3>2, <3>3
    <3> HIDE DEF plus, last, j
    <3>6. Front(joined') = Front(joined) /\ joined'[Len(joined')] = plus
      BY <1>2, <3>1, <3>3, <3>4, LastReplaced
    <3> QED
      BY <1>1, <3>1, <3>2, <3>5, <3>6, StaysOpen
  <2>2. CASE ~observed
    BY <1>5, <1>12, <2>2 DEF NoteJoin
  <2> QED
    BY <2>1, <2>2
<1>13. CASE Parsed
  BY <1>5, <1>13 DEF Parsed, WalkDone, EndParse
<1>14. CASE TryAgain
  <2>1. CASE attempt = 1
    <3>1. /\ pc = "walk" /\ pc' = "walk" /\ Len(joined) > 0 /\ UNCHANGED <<joinsPerSql, sqlJoins>>
          /\ joined' = [joined EXCEPT ![Len(joined)] = Zero]
          /\ repeated' = repeated \cup {t \in Tables : joined[Len(joined)][t] > 0}
      BY <1>14, <2>1 DEF TryAgain, WalkDone, LoadingInv, PhaseOK
    <3>2. \A t \in Tables \ repeated :
            sqlJoins[t] = joined[Len(joined)][t] /\ joinsPerSql[t] = Counts(Front(joined), t)
      BY <3>1 DEF JoinInv
    <3>3. Front(joined') = Front(joined) /\ joined'[Len(joined')] = Zero
      <4>1. Zero \in [Tables -> Nat]
        BY DEF Zero
      <4> QED
        BY <1>2, <3>1, <4>1, LastReplaced
    <3>4. \A t \in Tables \ repeated' : t \in Tables \ repeated /\ sqlJoins[t] = 0 /\ Zero[t] = 0
      BY <1>2, <3>1, <3>2 DEF Zero
    <3> QED
      BY <1>1, <3>1, <3>2, <3>3, <3>4, StaysOpen
  <2>2. CASE attempt # 1
    BY <1>5, <1>14, <2>2 DEF TryAgain
  <2> QED
    BY <2>1, <2>2
<1>15. CASE GiveUp
  BY <1>5, <1>15 DEF GiveUp, WalkDone, EndParse
<1>16. CASE Add
  <2>1. /\ \A t \in Tables \ repeated : joinsPerSql'[t] = Counts(joined, t)
        /\ \A t \in Tables : joinsPerSql'[t] \in Seq(Nat)
        /\ sqlJoins' = Zero /\ joined' = joined /\ repeated' = repeated /\ pc' = "next"
    BY <1>1, <1>4, <1>16 DEF Add, AddSql, Flush, LoadingInv, TypeOK
  <2>2. \A t \in Tables : Open(t)' = <<>> /\ joinsPerSql'[t] \o <<>> = joinsPerSql'[t]
    BY <2>1 DEF Open, Zero
  <2>3. JoinsAttributed'
    BY <2>1, <2>2, AttributedInShort
  <2> QED
    BY <2>1, <2>3 DEF JoinInv
<1> QED
  BY <1>6, <1>7, <1>8, <1>9, <1>10, <1>11, <1>12, <1>13, <1>14, <1>15, <1>16
     DEF Next, setSqlText

(* The list that a table's average is taken of is that of the statements    *)
(* which join it, in the order in which they came, and a join is always     *)
(* counted once, for the statement it occurs in (newSqlStatement() in       *)
(* DefaultSqlStatsObserver), but for the tables whose joins a first walk    *)
(* had reported when it failed.                                             *)
THEOREM JoinsAreAttributed == Spec => []JoinsAttributed
<1>1. Init => ClosedInv /\ JoinInv
  <2> SUFFICES ASSUME Init PROVE ClosedInv /\ JoinInv
    OBVIOUS
  <2>1. \A t \in Tables : joinsPerSql[t] = <<>> /\ Open(t) = <<>> /\ Column(joined, t) = <<>>
    BY DEF Init, Zero, Open, Column
  <2>2. \A t \in Tables : Counts(joined, t) = <<>>
    BY <2>1, SelectEmpty DEF Counts
  <2>3. JoinsAttributed
    <3>1. <<>> \o <<>> = <<>>
      OBVIOUS
    <3> QED
      BY <2>1, <2>2, <3>1, AttributedInShort
  <2> QED
    BY <2>3 DEF Init, ClosedInv, JoinInv
<1>2. LoadingInv /\ ClosedInv /\ JoinInv /\ [Next]_vars => (ClosedInv /\ JoinInv)'
  BY NextClosedInv, NextJoinInv
<1>3. JoinInv => JoinsAttributed
  BY DEF JoinInv
<1> QED
  BY LoadingInvariant, <1>1, <1>2, <1>3, PTL DEF Spec

(***************************************************************************)
(* Clean lists of events                                                   *)
(***************************************************************************)

Entries == {n \in 1 .. Len(items) : items[n].type = "ENTRY"}

\* The calls that begin within the first k events.
Calls(k) == Select([n \in 1 .. k |-> n], Entries)

\* A statement for each of the calls in c, with the text of its argument.
Yields(c, stmts) ==
  /\ Len(stmts) = Len(c)
  /\ \A n \in 1 .. Len(c) : stmts[n].text = items[c[n] + 1].text

\* The call that is being loaded: the last one so far, its argument second in
\* the group, and one class in all three places that are compared.
Grouped ==
  /\ \E c \in Seq(Nat), e \in Nat :
       /\ Calls(at - 1) = Append(c, e) /\ Yields(c, statements)
       /\ group[2] = items[e + 1]
  /\ group[2].type = "ARG"
  /\ group[1].class = group[2].class /\ group[2].class = Last(group).class
  /\ pc \in {"walk", "add"} => text = group[2].text

\* Between two calls the loop is behind an EXIT, and every call behind it has
\* its statement.
CleanInv ==
  input.source = "live" /\ Clean =>
    /\ at \in 1 .. Len(items) + 1
    /\ at > 1 => items[at - 1].type = "EXIT"
    /\ pc = "failed" => Uncaught
    /\ pc \in {"next", "loaded"} => Yields(Calls(at - 1), statements)
    /\ pc = "loaded" => at = Len(items) + 1
    /\ pc \in {"wrap", "walk", "add"} => Grouped

LEMMA CallsStep ==
  ASSUME NEW k \in Nat
  PROVE  /\ Calls(0) = <<>> /\ Calls(k) \in Seq(Nat)
         /\ Calls(k + 1) = IF k + 1 \in Entries THEN Append(Calls(k), k + 1) ELSE Calls(k)
<1> DEFINE s == [n \in 1 .. k |-> n]
<1>1. s \in Seq(Nat) /\ [n \in 1 .. k + 1 |-> n] = Append(s, k + 1)
  OBVIOUS
<1>2. [n \in 1 .. 0 |-> n] = <<>>
  OBVIOUS
<1>3. k + 1 \in Nat
  OBVIOUS
<1> HIDE DEF s
<1>4. Calls(0) = <<>>
  BY <1>2, SelectEmpty DEF Calls
<1>5. Select(s, Entries) \in Seq(Nat)
  BY <1>1, SelectType
<1>6. Select(Append(s, k + 1), Entries)
        = IF k + 1 \in Entries THEN Append(Select(s, Entries), k + 1) ELSE Select(s, Entries)
  BY <1>1, <1>3, SelectAppend
<1>7. Calls(k) = Select(s, Entries)
  BY DEF Calls, s
<1> QED
  BY <1>1, <1>4, <1>5, <1>6, <1>7 DEF Calls

(* Up to the first EXIT of its method a call has arguments of its own only. *)
LEMMA OneCall ==
  ASSUME Clean, items \in Seq(Event), NEW e \in 1 .. Len(items), NEW x \in e .. Len(items),
         items[e].type = "ENTRY", \A n \in e .. x - 1 : ~Ends(e, n)
  PROVE  \A k \in e + 1 .. x :
           /\ items[k].type \in {"ARG", "EXIT"} /\ (k < x => items[k].type = "ARG")
           /\ items[k].method = items[e].method /\ items[k].class = items[e].class
           /\ Calls(k) = Calls(e)
<1> DEFINE Like(k) == /\ items[k].type \in {"ARG", "EXIT"} /\ (k < x => items[k].type = "ARG")
                      /\ items[k].method = items[e].method /\ items[k].class = items[e].class
                      /\ Calls(k) = Calls(e)
           T == {m \in Nat : e + 1 + m <= x => Like(e + 1 + m)}
<1>1. /\ e \in Nat /\ e >= 1 /\ x \in Nat /\ e <= x /\ x <= Len(items) /\ Len(items) \in Nat
  BY LenProperties
<1>2. ASSUME NEW k \in Nat, e <= k, k + 1 <= x,
             \/ k = e
             \/ e + 1 <= k /\ Like(k)
      PROVE  Like(k + 1)
  <2>1. k \in 1 .. Len(items) - 1
    BY <1>1, <1>2
  <2>2. /\ <<items[k].type, items[k + 1].type>> \in
             {<<"ENTRY", "ARG">>, <<"ARG", "ARG">>, <<"ARG", "EXIT">>, <<"EXIT", "ENTRY">>}
        /\ items[k + 1].type # "ENTRY" => items[k].method = items[k + 1].method
                                          /\ items[k].class = items[k + 1].class
    BY <2>1 DEF Clean
  <2>3. items[k].type \in {"ENTRY", "ARG"} /\ items[k].method = items[e].method
        /\ items[k].class = items[e].class /\ Calls(k) = Calls(e)
    BY <1>1, <1>2
  <2>4. /\ items[k + 1].type \in {"ARG", "EXIT"}
        /\ items[k + 1].method = items[e].method /\ items[k + 1].class = items[e].class
    BY <2>2, <2>3
  <2>5. k + 1 < x => items[k + 1].type = "ARG"
    <3>1. k + 1 < x => k + 1 \in e .. x - 1
      BY <1>1, <1>2
    <3> QED
      BY <2>4, <3>1 DEF Ends
  <2>6. Calls(k + 1) = Calls(e)
    <3>1. k + 1 \notin Entries
      BY <2>4 DEF Entries
    <3> QED
      BY <2>3, <3>1, CallsStep
  <2> QED
    BY <2>4, <2>5, <2>6
<1> HIDE DEF Like
<1>3. 0 \in T
  <2>1. e + 1 <= x => Like(e + 1)
    BY <1>1, <1>2
  <2> QED
    BY <1>1, <2>1
<1>4. ASSUME NEW m \in T PROVE m + 1 \in T
  <2> SUFFICES ASSUME e + 1 + (m + 1) <= x PROVE Like(e + 1 + (m + 1))
    OBVIOUS
  <2> DEFINE k == e + 1 + m
  <2>1. k \in Nat /\ e + 1 <= k /\ e <= k /\ k + 1 <= x /\ k <= x /\ k + 1 = e + 1 + (m + 1)
    BY <1>1
  <2>2. Like(k)
    BY <1>4, <2>1
  <2> HIDE DEF k
  <2>3. Like(k + 1)
    BY <1>2, <2>1, <2>2
  <2> QED
    BY <2>1, <2>3
<1>5. T = Nat
  <2> HIDE DEF T
  <2>1. T \in SUBSET Nat
    BY DEF T
  <2> QED
    BY <1>3, <1>4, <2>1, NatClosed
<1>6. ASSUME NEW k \in e + 1 .. x PROVE Like(k)
  <2>1. k - (e + 1) \in Nat /\ e + 1 + (k - (e + 1)) = k /\ k <= x
    BY <1>1
  <2>2. k - (e + 1) \in T
    BY <1>5, <2>1
  <2> QED
    BY <2>1, <2>2
<1> QED
  BY <1>6 DEF Like

(* The loop is at an ENTRY.                                                 *)
LEMMA AtEntry ==
  ASSUME LoadingInv, CleanInv, input.source = "live", Clean, More
  PROVE  /\ items \in Seq(Event) /\ Len(items) \in Nat /\ at \in 1 .. Len(items)
         /\ items[at].type = "ENTRY"
         /\ \A e \in at .. Len(items) : FirstEntry(e) <=> e = at
<1>1. items \in Seq(Event) /\ Len(items) \in Nat
  BY ItemsTyped, LenProperties DEF LoadingInv, TypeOK
<1>2. at \in 1 .. Len(items)
  BY <1>1 DEF CleanInv, More
<1>3. items[at].type = "ENTRY"
  <2>1. CASE at = 1
    <3>1. items # <<>>
      BY <1>1, <1>2, EmptySeq
    <3> QED
      BY <2>1, <3>1 DEF Clean
  <2>2. CASE at # 1
    <3>1. at - 1 \in 1 .. Len(items) - 1 /\ at - 1 + 1 = at /\ items[at - 1].type = "EXIT"
      BY <1>1, <1>2, <2>2 DEF CleanInv
    <3>2. <<items[at - 1].type, items[at].type>> \in
             {<<"ENTRY", "ARG">>, <<"ARG", "ARG">>, <<"ARG", "EXIT">>, <<"EXIT", "ENTRY">>}
      BY <3>1 DEF Clean
    <3> QED
      BY <3>1, <3>2
  <2> QED
    BY <2>1, <2>2
<1>4. ASSUME NEW e \in at .. Len(items) PROVE FirstEntry(e) <=> e = at
  <2>1. e # at => at \in at .. e - 1
    BY <1>1, <1>2
  <2>2. e = at => at .. e - 1 = {}
    BY <1>2
  <2> QED
    BY <1>3, <2>1, <2>2 DEF FirstEntry
<1> QED
  BY <1>1, <1>2, <1>3, <1>4

(* A clean list is never without an EXIT for the next ENTRY.                *)
LEMMA CleanMatches ==
  ASSUME LoadingInv, CleanInv, input.source = "live", Clean, More
  PROVE  \E e \in at .. Len(items) : \E x \in e .. Len(items) : FirstEntry(e) /\ FirstExit(e, x)
<1>1. /\ items \in Seq(Event) /\ Len(items) \in Nat /\ at \in 1 .. Len(items)
      /\ items[at].type = "ENTRY" /\ at \in at .. Len(items) /\ FirstEntry(at)
  BY AtEntry
<1> DEFINE X == {k \in Nat : k \in at .. Len(items) /\ items[k].type = "EXIT"}
<1>2. Len(items) \in X
  <2>1. items # <<>>
    BY <1>1, EmptySeq
  <2>2. items[Len(items)].type = "EXIT"
    BY <2>1 DEF Clean, Last
  <2> QED
    BY <1>1, <2>2
<1>3. PICK x \in X : \A k \in X : x <= k
  <2>1. X \in SUBSET Nat /\ X # {}
    BY <1>2
  <2> HIDE DEF X
  <2> QED
    BY <2>1, NatMinimum
<1>4. x \in at .. Len(items) /\ items[x].type = "EXIT"
  OBVIOUS
<1>5. \A n \in at .. x - 1 : items[n].type # "EXIT"
  <2> SUFFICES ASSUME NEW n \in at .. x - 1, items[n].type = "EXIT" PROVE FALSE
    OBVIOUS
  <2>1. n \in X /\ n < x /\ n \in Nat /\ x \in Nat
    BY <1>1, <1>4
  <2> QED
    BY <1>3, <2>1
<1>6. \A n \in at .. x - 1 : ~Ends(at, n)
  BY <1>5 DEF Ends
<1>7. items[x].method = items[at].method
  <2>1. x # at
    BY <1>1, <1>4
  <2>2. x \in at + 1 .. x
    BY <1>1, <1>4, <2>1
  <2> QED
    BY <1>1, <1>4, <1>6, <2>2, OneCall
<1>8. FirstExit(at, x)
  BY <1>4, <1>6, <1>7 DEF FirstExit, Ends
<1> QED
  BY <1>1, <1>4, <1>8

(* What a pass of the loop takes off a clean list is one call.              *)
LEMMA CleanPair ==
  ASSUME LoadingInv, CleanInv, input.source = "live", Clean, Pair
  PROVE  CleanInv'
<1>1. PICK e \in at .. Len(items), x \in at .. Len(items) :
        /\ x \in e .. Len(items) /\ FirstEntry(e) /\ FirstExit(e, x)
        /\ group' = SubSeq(items, e, x) /\ at' = x + 1
  <2>1. PICK e \in at .. Len(items) : \E x \in e .. Len(items) :
          FirstEntry(e) /\ FirstExit(e, x) /\ group' = SubSeq(items, e, x) /\ at' = x + 1
    BY DEF Pair
  <2>2. PICK x \in e .. Len(items) :
          FirstEntry(e) /\ FirstExit(e, x) /\ group' = SubSeq(items, e, x) /\ at' = x + 1
    BY <2>1
  <2>3. x \in at .. Len(items)
    BY <2>1, <2>2, LenProperties, ItemsTyped DEF LoadingInv, TypeOK
  <2> QED
    BY <2>1, <2>2, <2>3
<1>2. /\ items \in Seq(Event) /\ Len(items) \in Nat /\ at \in 1 .. Len(items)
      /\ items[at].type = "ENTRY" /\ e = at
  BY <1>1, AtEntry DEF Pair
<1>3. items[x].type = "EXIT" /\ \A n \in e .. x - 1 : ~Ends(e, n)
  BY <1>1 DEF FirstExit, Ends
<1>4. \A k \in e + 1 .. x :
        /\ items[k].type \in {"ARG", "EXIT"} /\ (k < x => items[k].type = "ARG")
        /\ items[k].method = items[e].method /\ items[k].class = items[e].class
        /\ Calls(k) = Calls(e)
  BY <1>1, <1>2, <1>3, OneCall
<1>5. e + 1 \in e + 1 .. x /\ x \in e + 1 .. x /\ e \in Nat /\ e >= 1 /\ x \in Nat /\ e + 1 < x
  <2>1. e \in Nat /\ e >= 1 /\ x \in Nat /\ e <= x /\ e # x /\ x <= Len(items)
    <3>1. items[e].type = "ENTRY" /\ items[x].type = "EXIT"
      BY <1>2, <1>3
    <3>2. e # x
      BY <3>1
    <3>3. e \in 1 .. Len(items) /\ x \in e .. Len(items)
      BY <1>1, <1>2
    <3> QED
      BY <1>2, <3>2, <3>3
  <2>2. items[e + 1].type = "ARG"
    <3>1. e \in 1 .. Len(items) - 1
      BY <1>2, <2>1
    <3>2. <<items[e].type, items[e + 1].type>> \in
             {<<"ENTRY", "ARG">>, <<"ARG", "ARG">>, <<"ARG", "EXIT">>, <<"EXIT", "ENTRY">>}
      BY <3>1 DEF Clean
    <3> QED
      BY <1>2, <3>2
  <2> QED
    BY <1>3, <2>1, <2>2
<1>6. /\ group'[1] = items[e] /\ group'[2] = items[e + 1] /\ Last(group') = items[x]
  <2> DEFINE s == SubSeq(items, e, x)
  <2>1. Len(s) = x - e + 1 /\ s[1] = items[e] /\ s[2] = items[e + 1] /\ s[x - e + 1] = items[x]
    BY <1>2, <1>5
  <2> QED
    BY <1>1, <2>1 DEF Last
<1>7. items[e + 1].type = "ARG" /\ items[e].class = items[e + 1].class /\ items[e + 1].class = items[x].class
  BY <1>4, <1>5
<1>8. Calls(x) = Append(Calls(e - 1), e) /\ Calls(e - 1) \in Seq(Nat)
  <2>1. e \in Entries
    BY <1>2 DEF Entries
  <2>2. e - 1 \in Nat /\ e - 1 + 1 = e
    BY <1>5
  <2> QED
    BY <1>4, <1>5, <2>1, <2>2, CallsStep
<1>9. Yields(Calls(e - 1), statements)
  BY <1>2 DEF CleanInv, Pair
<1>10. UNCHANGED <<input, statements>> /\ items' = items /\ pc' = "wrap"
  BY DEF Pair, items
<1>11. at' - 1 = x /\ at' \in 1 .. Len(items) + 1
  BY <1>1, <1>2, <1>5
<1>12. Calls(x)' = Calls(x) /\ Yields(Calls(e - 1), statements)'
  BY <1>9, <1>10 DEF Calls, Entries, Yields
<1>13. Grouped'
  <2>1. Calls(at - 1)' = Append(Calls(e - 1), e)
    BY <1>8, <1>10, <1>11 DEF Calls, Entries
  <2>2. \A c : Yields(c, statements)' <=> Yields(c, statements)
    BY <1>10 DEF Yields
  <2> QED
    BY <1>5, <1>6, <1>7, <1>8, <1>9, <1>10, <2>1, <2>2 DEF Grouped
<1> QED
  BY <1>3, <1>10, <1>11, <1>13 DEF CleanInv

(* Grouping and finishing a call hardly touch what is behind it.            *)
LEMMA CleanStays ==
  ASSUME CleanInv, UNCHANGED <<source, statements>>,
         pc' = "loaded" => at > Len(items),
         pc' \in {"next", "loaded"} => pc \in {"next", "loaded"},
         pc' \in {"wrap", "walk", "add"} =>
           /\ pc \in {"wrap", "walk", "add"}
           /\ pc' \in {"walk", "add"} => (text' = group[2].text \/ (pc # "wrap" /\ text' = text)),
         pc' = "failed" => Uncaught',
         pc' \in {"next", "wrap", "walk", "add", "loaded", "failed"},
         Len(items) \in Nat
  PROVE  CleanInv'
<1> SUFFICES ASSUME input.source = "live", Clean PROVE CleanInv'
  BY DEF CleanInv, Clean, items, source
<1>1. items' = items /\ UNCHANGED <<input, at, group, statements>>
  BY DEF items, source
<1>2. /\ \A k : Calls(k)' = Calls(k)
      /\ \A c : Yields(c, statements)' <=> Yields(c, statements)
  BY <1>1 DEF Calls, Entries, Yields
<1>3. Grouped /\ pc' \in {"wrap", "walk", "add"} => Grouped'
  BY <1>1, <1>2 DEF Grouped
<1> QED
  BY <1>1, <1>2, <1>3 DEF CleanInv

LEMMA NextCleanInv == LoadingInv /\ CleanInv /\ [Next]_vars => CleanInv'
<1> SUFFICES ASSUME LoadingInv, CleanInv, [Next]_vars PROVE CleanInv'
  OBVIOUS
<1> USE DEF source, parsing, stats, history, vars
<1>0. CASE input.source # "live" \/ ~Clean
  <2>1. UNCHANGED input
    BY DEF Next, setSqlText, Pair, Unmatched, Wrap, NoArgument, NextText, NextXml, Loaded,
           NoteTable, NoteJoin, Parsed, TryAgain, GiveUp, ParserDies, Add, ClassMismatch
  <2> QED
    BY <1>0, <2>1 DEF CleanInv, Clean, items
<1>1. CASE input.source = "live" /\ Clean
  <2>1. items \in Seq(Event) /\ Len(items) \in Nat
    BY <1>1, ItemsTyped, LenProperties DEF LoadingInv, TypeOK
  <2>2. CASE UNCHANGED vars
    <3>1. pc = "loaded" => at > Len(items)
      BY <1>1, <2>1 DEF CleanInv
    <3>2. pc' = "failed" => Uncaught'
      BY <1>1, <2>2 DEF CleanInv, Uncaught, Parses, theWalk, target
    <3> QED
      BY <2>1, <2>2, <3>1, <3>2, CleanStays DEF LoadingInv, TypeOK, CleanInv
  <2>3. CASE Pair
    BY <1>1, <2>3, CleanPair
  <2>4. CASE Unmatched
    BY <1>1, <2>4, CleanMatches DEF Unmatched
  <2>5. CASE Wrap
    BY <2>1, <2>5, CleanStays DEF Wrap, StartParse
  <2>6. CASE NoArgument
    BY <1>1, <2>6 DEF NoArgument, CleanInv, Grouped
  <2>7. CASE NextText \/ NextXml
    BY <1>1, <2>7 DEF NextText, NextXml
  <2>8. CASE Loaded
    BY <2>1, <2>8, CleanStays DEF Loaded, More, LoadingInv, TypeOK
  <2>9. CASE NoteTable \/ NoteJoin \/ TryAgain
    BY <2>1, <2>9, CleanStays DEF NoteTable, NoteJoin, TryAgain, WalkDone
  <2>10. CASE Parsed \/ GiveUp
    BY <1>1, <2>1, <2>10, CleanStays DEF Parsed, GiveUp, EndParse, WalkDone
  <2>11. CASE Add
    <3> DEFINE s == [text |-> text, attempt |-> attempt, model |-> models[attempt]]
    <3>1. /\ Grouped /\ at \in 1 .. Len(items) + 1 /\ (at > 1 => items[at - 1].type = "EXIT")
          /\ text = group[2].text
      BY <1>1, <2>11 DEF CleanInv, Add, Grouped
    <3>2. PICK c \in Seq(Nat), e \in Nat :
            /\ Calls(at - 1) = Append(c, e) /\ Yields(c, statements)
            /\ group[2] = items[e + 1]
      BY <3>1 DEF Grouped
    <3>3. /\ statements' = Append(statements, s) /\ s.text = items[e + 1].text
          /\ pc' = "next" /\ UNCHANGED <<input, at>> /\ items' = items
      BY <2>11, <3>1, <3>2 DEF Add, AddSql, items
    <3> HIDE DEF s
    <3>4. Yields(Append(c, e), statements')
      <4>1. /\ Len(Append(c, e)) = Len(c) + 1 /\ Len(c) \in Nat /\ Append(c, e)[Len(c) + 1] = e
            /\ \A n \in 1 .. Len(c) : Append(c, e)[n] = c[n]
        BY <3>2, AppendProperties, LenProperties
      <4>2. statements \in Seq([text : Texts, attempt : 1 .. 3, model : Model]) /\ Len(statements) = Len(c)
        BY <3>2 DEF LoadingInv, TypeOK, Yields
      <4>3. /\ Len(statements') = Len(c) + 1 /\ statements'[Len(c) + 1] = s
            /\ \A n \in 1 .. Len(c) : statements'[n] = statements[n]
        BY <3>3, <4>1, <4>2
      <4>4. ASSUME NEW n \in 1 .. Len(c) + 1
            PROVE  statements'[n].text = items[Append(c, e)[n] + 1].text
        <5>1. CASE n = Len(c) + 1
          BY <3>3, <4>1, <4>3, <5>1
        <5>2. CASE n # Len(c) + 1
          <6>1. n \in 1 .. Len(c)
            BY <4>1, <5>2
          <6> QED
            BY <3>2, <4>1, <4>3, <6>1 DEF Yields
        <5> QED
          BY <5>1, <5>2
      <4> QED
        BY <4>1, <4>3, <4>4 DEF Yields
    <3>5. Yields(Calls(at - 1), statements)'
      <4>1. Calls(at - 1)' = Append(c, e)
        BY <3>2, <3>3 DEF Calls, Entries
      <4> DEFINE d == Append(c, e)
      <4> HIDE DEF d
      <4>2. Calls(at - 1)' = d /\ Yields(d, statements')
        BY <3>4, <4>1 DEF d
      <4> QED
        BY <3>3, <4>2 DEF Yields
    <3> QED
      BY <3>1, <3>3, <3>5 DEF CleanInv
  <2>13. CASE ParserDies
    BY <2>1, <2>13, CleanStays DEF ParserDies, Uncaught, Parses, theWalk, target
  <2>12. CASE ClassMismatch
    BY <1>1, <2>12 DEF ClassMismatch, CleanInv, Grouped, SameClass
  <2> QED
    BY <2>2, <2>3, <2>4, <2>5, <2>6, <2>7, <2>8, <2>9, <2>10, <2>11, <2>12, <2>13 DEF Next, setSqlText
<1> QED
  BY <1>0, <1>1

(* A list of events that is as clean as loadEvents() expects is always      *)
(* loaded, and each of its calls becomes a statement with the text of its   *)
(* first argument, in the order of the calls, unless the third attempt at   *)
(* one of them throws an exception that nothing catches.                    *)
THEOREM CleanListsLoad == Spec => []CleanListLoads
<1>1. Init => CleanInv
  <2> SUFFICES ASSUME Init, input.source = "live", Clean PROVE CleanInv
    BY DEF CleanInv
  <2>1. items \in Seq(Event) /\ Len(items) \in Nat
    BY ItemsTyped, LenProperties DEF Init
  <2>2. Calls(0) = <<>>
    BY CallsStep
  <2>3. Yields(<<>>, statements)
    BY DEF Init, Yields
  <2> QED
    BY <2>1, <2>2, <2>3 DEF Init, CleanInv
<1>2. LoadingInv /\ CleanInv /\ [Next]_vars => CleanInv'
  BY NextCleanInv
<1>3. LoadingInv /\ CleanInv => CleanListLoads
  <2> SUFFICES ASSUME LoadingInv, CleanInv, input.source = "live", Clean
               PROVE  /\ pc = "failed" => Uncaught
                      /\ pc = "loaded" => Yields(Calls(Len(items)), statements)
    BY DEF CleanListLoads, Calls, Entries, Yields
  <2>1. Len(items) \in Nat
    BY ItemsTyped, LenProperties DEF LoadingInv, TypeOK
  <2> QED
    BY <2>1 DEF CleanInv
<1> QED
  BY LoadingInvariant, <1>1, <1>2, <1>3, PTL DEF Spec

============================================================================
