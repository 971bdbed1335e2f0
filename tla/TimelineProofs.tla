--------------------------- MODULE TimelineProofs ---------------------------
(***************************************************************************)
(* The packing of a request's statements into row groups, the order of the *)
(* lanes and the markers in them, for all requests and for all limits of   *)
(* the two kinds of groups.                                                *)
(***************************************************************************)
EXTENDS TableAccessTimeline, RequestLoadingProofs

H == MaxRowCountOfHeterogenousGroup
M == MaxRowCountOfHomogeneousGroup

\* The group that createRowGroups() is filling: beyond the heterogeneous limit
\* it has grown with the streak only, and it ends with the statement before
\* the one the loop is at.
FillingOK ==
  LET filling == groups[Len(groups)]
  IN  /\ groups \in Seq(Seq(Nat)) /\ groups # <<>>
      /\ row \in Nat \ {0} /\ streak \in Nat
      /\ Len(filling) <= H + streak
      /\ filling # <<>> => filling[Len(filling)] = row - 1
      /\ row > 1 => filling # <<>>

GroupInv ==
  /\ view # "closed" => pc = "loaded"
  /\ view = "closed" => row = 1 /\ streak = 0 /\ groups = <<>>
  /\ view = "grouping" => FillingOK
  /\ GroupsBounded
  /\ OnlyEqualsOverflow

(* A loaded request stays as it is.                                         *)
LEMMA LoadedStays == pc = "loaded" => ~Next
  BY DEF Next, setSqlText, Pair, Unmatched, Wrap, NoArgument, NextText, NextXml, Loaded,
         NoteTable, NoteJoin, WalkDone, Parsed, TryAgain, GiveUp, ParserDies, Add, ClassMismatch

LEMMA InitGroupInv == TimelineInit => GroupInv
  BY TimelineAssumption DEF TimelineInit, GroupInv, GroupsBounded, OnlyEqualsOverflow

(* Nothing but createRowGroups() touches the groups.                        *)
LEMMA GroupsStay ==
  ASSUME GroupInv, UNCHANGED <<groups, statements>>,
         view' # "closed" => pc' = "loaded",
         view' = "closed" => view = "closed" /\ UNCHANGED <<row, streak>>,
         view' = "grouping" => view = "grouping" /\ UNCHANGED <<row, streak>>
  PROVE  GroupInv'
<1>1. GroupsBounded' /\ OnlyEqualsOverflow'
  BY DEF GroupInv, GroupsBounded, OnlyEqualsOverflow, SameTables
<1>2. FillingOK /\ UNCHANGED <<row, streak>> => FillingOK'
  BY DEF FillingOK
<1> QED
  BY <1>1, <1>2 DEF GroupInv

(* The limits under their short names.                                      *)
LEMMA InShort ==
  ASSUME UNCHANGED statements
  PROVE  /\ (\A n \in 1 .. Len(groups') : Len(groups'[n]) <= H + M - 1) => GroupsBounded'
         /\ (\A n \in 1 .. Len(groups') : \A m \in H + 1 .. Len(groups'[n]) :
               SameTables(groups'[n][m - 1], groups'[n][m])) => OnlyEqualsOverflow'
  BY DEF GroupsBounded, OnlyEqualsOverflow, SameTables, H, M

LEMMA SoFar ==
  ASSUME GroupInv
  PROVE  \A n \in 1 .. Len(groups) :
           /\ Len(groups[n]) <= H + M - 1
           /\ \A m \in H + 1 .. Len(groups[n]) : SameTables(groups[n][m - 1], groups[n][m])
  BY DEF GroupInv, GroupsBounded, OnlyEqualsOverflow, H, M

(* The two branches of the loop.                                            *)
LEMMA JoinsGroup ==
  ASSUME GroupInv, GroupRow, StaysInGroup
  PROVE  FillingOK' /\ GroupsBounded' /\ OnlyEqualsOverflow'
<1> DEFINE old == groups[Len(groups)]
           new == Append(old, row)
           last == Len(groups)
<1>1. H \in Nat \ {0} /\ M \in Nat \ {0}
  BY TimelineAssumption DEF H, M
<1>2. /\ groups \in Seq(Seq(Nat)) /\ last \in Nat \ {0}
      /\ row \in Nat /\ row > 0 /\ streak \in Nat
  <2>1. groups \in Seq(Seq(Nat)) /\ groups # <<>> /\ row \in Nat \ {0} /\ streak \in Nat
    BY DEF GroupInv, FillingOK, GroupRow
  <2>2. Len(groups) \in Nat /\ Len(groups) # 0
    BY <2>1, LenProperties, EmptySeq
  <2> QED
    BY <2>1, <2>2
<1>3. /\ old \in Seq(Nat)
      /\ Len(old) <= H + streak
      /\ old # <<>> => old[Len(old)] = row - 1
  BY <1>2, ElementOfSeq DEF GroupInv, FillingOK, GroupRow
<1>4. /\ \A m \in H + 1 .. Len(old) : SameTables(old[m - 1], old[m])
      /\ \A n \in 1 .. last :
           /\ Len(groups[n]) <= H + M - 1
           /\ \A m \in H + 1 .. Len(groups[n]) : SameTables(groups[n][m - 1], groups[n][m])
  <2>1. last \in 1 .. last
    BY <1>2
  <2> QED
    BY <2>1, SoFar
<1>5. /\ groups' = [groups EXCEPT ![last] = new]
      /\ row' = row + 1 /\ UNCHANGED statements
      /\ streak' = IF row > 1 /\ SameTables(row - 1, row) THEN streak + 1 ELSE 0
  BY DEF GroupRow, Streak, vars
<1>6. (streak' # 0 /\ streak' < M) \/ Len(old) < H
  BY DEF GroupRow, StaysInGroup, H, M, Last
<1>7. new = Append(old, row)
  OBVIOUS
<1> HIDE DEF new, old, last
<1>8. Len(old) \in Nat
  BY <1>3, LenProperties
<1>9. /\ new \in Seq(Nat) /\ Len(new) = Len(old) + 1 /\ new # <<>>
      /\ new[Len(old) + 1] = row
      /\ \A n \in 1 .. Len(old) : new[n] = old[n]
  BY <1>2, <1>3, <1>7, AppendProperties
<1>10. /\ groups' \in Seq(Seq(Nat)) /\ Len(groups') = last
       /\ groups'[last] = new
       /\ \A n \in 1 .. last : n # last => groups'[n] = groups[n]
  BY <1>2, <1>5, <1>9, ExceptSeq DEF last
<1>11. /\ streak' \in Nat
       /\ Len(new) <= H + streak'
       /\ Len(new) <= H + M - 1
       /\ Len(old) >= H => row > 1 /\ SameTables(row - 1, row)
  BY <1>1, <1>2, <1>3, <1>5, <1>6, <1>8, <1>9
<1>12. FillingOK'
  <2>1. groups' # <<>>
    BY <1>2, <1>10, EmptySeq
  <2>2. groups'[Len(groups')] = new /\ row' \in Nat \ {0} /\ row' - 1 = row
    BY <1>2, <1>5, <1>10
  <2>3. new[Len(new)] = row
    BY <1>9
  <2> QED
    BY <1>9, <1>10, <1>11, <2>1, <2>2, <2>3 DEF FillingOK, H
<1>13. GroupsBounded'
  <2>1. ASSUME NEW n \in 1 .. Len(groups') PROVE Len(groups'[n]) <= H + M - 1
    BY <1>4, <1>10, <1>11
  <2> QED
    BY <1>5, <2>1, InShort
<1>14. OnlyEqualsOverflow'
  <2>1. ASSUME NEW n \in 1 .. Len(groups'), NEW m \in H + 1 .. Len(groups'[n])
        PROVE  SameTables(groups'[n][m - 1], groups'[n][m])
    <3>1. CASE n # last
      BY <1>4, <1>10, <3>1
    <3>2. CASE n = last
      <4>1. groups'[n] = new /\ m \in Int /\ H + 1 <= m /\ m <= Len(old) + 1
        BY <1>1, <1>8, <1>9, <1>10, <3>2
      <4>2. CASE m <= Len(old)
        <5>1. SameTables(old[m - 1], old[m]) /\ m \in 1 .. Len(old) /\ m - 1 \in 1 .. Len(old)
          BY <1>1, <1>4, <1>8, <4>1, <4>2
        <5> QED
          BY <1>9, <4>1, <5>1
      <4>3. CASE m = Len(old) + 1
        <5>1. Len(old) >= H /\ Len(old) \in 1 .. Len(old) /\ m - 1 = Len(old)
          BY <1>1, <1>8, <4>1, <4>3
        <5>2. old # <<>>
          BY <5>1, EmptySeq
        <5> QED
          BY <1>3, <1>9, <1>11, <4>1, <4>3, <5>1, <5>2
      <4> QED
        BY <1>8, <4>1, <4>2, <4>3
    <3> QED
      BY <3>1, <3>2
  <2> QED
    BY <1>5, <2>1, InShort
<1> QED
  BY <1>12, <1>13, <1>14

LEMMA OpensGroup ==
  ASSUME GroupInv, GroupRow, groups' = Append(groups, <<row>>)
  PROVE  FillingOK' /\ GroupsBounded' /\ OnlyEqualsOverflow'
<1> DEFINE new == <<row>>
           last == Len(groups)
<1>1. H \in Nat /\ H >= 1 /\ M \in Nat /\ M >= 1
  BY TimelineAssumption DEF H, M
<1>2. /\ groups \in Seq(Seq(Nat)) /\ last \in Nat
      /\ row \in Nat \ {0} /\ streak \in Nat
  BY LenProperties DEF GroupInv, FillingOK, GroupRow
<1>3. /\ groups' = Append(groups, new)
      /\ row' = row + 1 /\ UNCHANGED statements
      /\ streak' = Streak
  BY DEF GroupRow, vars
<1>4. new \in Seq(Nat) /\ Len(new) = 1 /\ new[1] = row /\ new # <<>>
  BY <1>2
<1>5. \A n \in 1 .. last :
          /\ Len(groups[n]) <= H + M - 1
          /\ \A m \in H + 1 .. Len(groups[n]) : SameTables(groups[n][m - 1], groups[n][m])
  BY SoFar
<1> HIDE DEF new
<1>6. /\ groups' \in Seq(Seq(Nat)) /\ Len(groups') = last + 1 /\ groups' # <<>>
      /\ groups'[last + 1] = new
      /\ \A n \in 1 .. last : groups'[n] = groups[n]
  <2>1. \A s \in Seq(Seq(Nat)) :
          /\ Append(s, new) \in Seq(Seq(Nat)) /\ Len(Append(s, new)) = Len(s) + 1 /\ Append(s, new) # <<>>
          /\ Append(s, new)[Len(s) + 1] = new
          /\ \A n \in 1 .. Len(s) : Append(s, new)[n] = s[n]
    BY <1>4, AppendProperties
  <2> QED
    BY <1>2, <1>3, <2>1, Zenon
<1> HIDE DEF last
<1>7. streak' \in Nat
  BY <1>2, <1>3 DEF Streak
<1>8. FillingOK'
  <2>1. groups'[Len(groups')] = new /\ row' \in Nat \ {0} /\ row' - 1 = row
    BY <1>2, <1>3, <1>6
  <2>2. new[Len(new)] = row
    BY <1>4
  <2>3. Len(new) <= H + streak'
    <3>1. \A n \in Nat : 1 <= H + n
      BY <1>1
    <3>2. 1 <= H + streak'
      BY <1>7, <3>1, Zenon
    <3> QED
      BY <1>4, <3>2
  <2> QED
    BY <1>4, <1>6, <1>7, <2>1, <2>2, <2>3 DEF FillingOK
<1>9. GroupsBounded'
  <2>1. ASSUME NEW n \in 1 .. Len(groups') PROVE Len(groups'[n]) <= H + M - 1
    <3>1. CASE n = last + 1
      <4>1. groups'[n] = new
        BY <1>6, <3>1
      <4>2. Len(new) <= H + M - 1
        BY <1>1, <1>4
      <4> QED
        BY <4>1, <4>2
    <3>2. CASE n # last + 1
      <4>1. n \in 1 .. last
        BY <1>2, <1>6, <3>2
      <4> QED
        BY <1>6, <1>5, <4>1
    <3> QED
      BY <3>1, <3>2
  <2> QED
    BY <1>3, <2>1, InShort
<1>10. OnlyEqualsOverflow'
  <2>1. ASSUME NEW n \in 1 .. Len(groups'), NEW m \in H + 1 .. Len(groups'[n])
        PROVE  SameTables(groups'[n][m - 1], groups'[n][m])
    <3>1. CASE n = last + 1
      BY <1>1, <1>4, <1>6, <3>1
    <3>2. CASE n # last + 1
      <4>1. n \in 1 .. last
        BY <1>2, <1>6, <3>2
      <4> QED
        BY <1>6, <1>5, <4>1
    <3> QED
      BY <3>1, <3>2
  <2> QED
    BY <1>3, <2>1, InShort
<1> QED
  BY <1>8, <1>9, <1>10

LEMMA NextGroupInv == GroupInv /\ [TimelineNext]_<<vars, timeline>> => GroupInv'
<1> SUFFICES ASSUME GroupInv, [TimelineNext]_<<vars, timeline>> PROVE GroupInv'
  OBVIOUS
<1>1. CASE UNCHANGED <<vars, timeline>>
  BY <1>1, GroupsStay DEF vars, timeline, GroupInv
<1>2. CASE Next /\ UNCHANGED timeline
  <2>1. view = "closed" /\ view' = "closed" /\ UNCHANGED <<groups, row, streak>> /\ groups = <<>>
    BY <1>2, LoadedStays DEF GroupInv, timeline
  <2> QED
    BY <2>1, EmptySeq DEF GroupInv, GroupsBounded, OnlyEqualsOverflow
<1>3. CASE OpenTimeline
  <2>1. /\ groups' = << <<>> >> /\ view' = "grouping" /\ pc' = "loaded"
        /\ row' = 1 /\ streak' = 0
    BY <1>3 DEF OpenTimeline, GroupInv, vars
  <2>2. <<>> \in Seq(Nat) /\ Len(<<>>) = 0
    BY EmptySeq
  <2> DEFINE none == <<>>
  <2> HIDE DEF none
  <2>3. groups' = <<none>> /\ none \in Seq(Nat) /\ Len(none) = 0 /\ none = <<>>
    BY <2>1, <2>2 DEF none
  <2>4. groups' \in Seq(Seq(Nat)) /\ Len(groups') = 1 /\ groups'[1] = none /\ groups' # <<>>
    BY <2>3
  <2>5. H \in Nat \ {0} /\ M \in Nat \ {0}
    BY TimelineAssumption DEF H, M
  <2>6. FillingOK'
    BY <2>1, <2>3, <2>4, <2>5 DEF FillingOK, H
  <2>7. GroupsBounded'
    BY <2>3, <2>4, <2>5 DEF GroupsBounded, H, M
  <2>8. OnlyEqualsOverflow'
    BY <2>3, <2>4, <2>5 DEF OnlyEqualsOverflow, H
  <2> QED
    BY <2>1, <2>6, <2>7, <2>8 DEF GroupInv
<1>4. CASE GroupRow
  <2>1. view' = "grouping" /\ pc' = "loaded"
    BY <1>4 DEF GroupRow, GroupInv, vars
  <2>2. FillingOK' /\ GroupsBounded' /\ OnlyEqualsOverflow'
    BY <1>4, JoinsGroup, OpensGroup DEF GroupRow
  <2> QED
    BY <2>1, <2>2 DEF GroupInv
<1>5. CASE StartRendering \/ RenderRow \/ RenderFails \/ Show
  <2>1. /\ UNCHANGED <<groups, statements, pc>> /\ view \in {"grouping", "rendering"}
        /\ view' \in {"rendering", "error", "shown"}
    BY <1>5 DEF StartRendering, RenderRow, RenderFails, Show, vars
  <2> QED
    BY <2>1, GroupsStay DEF GroupInv
<1> QED
  BY <1>1, <1>2, <1>3, <1>4, <1>5 DEF TimelineNext

(* A row group is never longer than its two limits allow together, whatever *)
(* they are and whichever statements follow each other (lines 294-322 of    *)
(* TableAccessTimeline.java).                                               *)
THEOREM GroupsNeverTooLong == TimelineSpec => []GroupsBounded
<1>1. GroupInv => GroupsBounded
  BY DEF GroupInv
<1> QED
  BY <1>1, InitGroupInv, NextGroupInv, PTL DEF TimelineSpec

(* Beyond the heterogeneous limit every statement of a group has the tables *)
(* of the one above it: what is folded together is what looks the same.     *)
THEOREM OverflowIsHomogeneous == TimelineSpec => []OnlyEqualsOverflow
<1>1. GroupInv => OnlyEqualsOverflow
  BY DEF GroupInv
<1> QED
  BY <1>1, InitGroupInv, NextGroupInv, PTL DEF TimelineSpec

----------------------------------------------------------------------------
(* The groups in one sequence                                              *)

(* One more element in the last sequence is the last of all.               *)
LEMMA FlattenExtend ==
  ASSUME NEW R, NEW s \in Seq(Seq(R)), Len(s) > 0, NEW r \in R
  PROVE  FlattenSeq([s EXCEPT ![Len(s)] = Append(s[Len(s)], r)]) = Append(FlattenSeq(s), r)
<1> DEFINE f == Front(s)
           last == s[Len(s)]
           more == Append(last, r)
           t == [s EXCEPT ![Len(s)] = more]
<1>1. last \in Seq(R) /\ more \in Seq(R) /\ f \in Seq(Seq(R)) /\ s = Append(f, last)
  BY LastOfSeq, AppendProperties
<1>2. t \in Seq(Seq(R)) /\ Len(t) > 0 /\ t[Len(t)] = more
  BY <1>1
<1>3. t = Append(f, more)
  <2>1. Front(t) = f
    <3>1. ASSUME NEW Q, NEW q \in Seq(Q), Len(q) > 0, NEW x \in Q
          PROVE  Front([q EXCEPT ![Len(q)] = x]) = Front(q)
      BY <3>1, LastOfSeq
    <3> HIDE DEF more
    <3> QED
      BY <1>1, <3>1
  <2> HIDE DEF f, t, more
  <2>2. t = Append(Front(t), t[Len(t)])
    BY <1>2, LastOfSeq
  <2> QED
    BY <1>2, <2>1, <2>2
<1>4. more = last \o <<r>>
  <2>1. \A q \in Seq(R) : Append(q, r) = q \o <<r>>
    OBVIOUS
  <2> HIDE DEF last
  <2> QED
    BY <1>1, <2>1
<1> HIDE DEF f, last, more, t
<1>5. CASE Len(f) = 0
  <2>1. f = <<>>
    BY <1>1, <1>5, EmptySeq
  <2>2. s = <<last>> /\ t = <<more>>
    BY <1>1, <1>3, <2>1
  <2>3. FlattenSeq(s) = last /\ FlattenSeq(t) = more
    BY <1>1, <2>2, FlattenOne
  <2> QED
    BY <2>3 DEF t, more, last
<1>6. CASE Len(f) # 0
  <2>1. Len(f) > 0
    BY <1>1, <1>6, LenProperties
  <2>2. /\ FlattenSeq(s) = FlattenSeq(f) \o last /\ FlattenSeq(t) = FlattenSeq(f) \o more
        /\ FlattenSeq(f) \in Seq(R)
    BY <1>1, <1>3, <2>1, FlattenAppend
  <2> DEFINE p == FlattenSeq(f)
  <2> HIDE DEF p
  <2>3. p \in Seq(R) => p \o Append(last, r) = Append(p \o last, r)
    BY <1>1
  <2> QED
    BY <2>2, <2>3 DEF t, more, last, p
<1> QED
  BY <1>5, <1>6

----------------------------------------------------------------------------
(* Every statement in one group                                            *)

UpTo(k) == [n \in 1 .. k |-> n]

\* The groups so far hold the statements before the one the loop is at, and
\* only the first group may be empty, as long as it is the only one.
PartInv ==
  /\ groups \in Seq(Seq(Nat))
  /\ view = "grouping" => /\ row - 1 <= Len(statements)
                          /\ FlattenSeq(groups) = UpTo(row - 1)
  /\ view \notin {"closed", "grouping"} => FlattenSeq(groups) = UpTo(Len(statements))
  /\ view # "closed" /\ Len(groups) > 1 => \A n \in 1 .. Len(groups) : groups[n] # <<>>

LEMMA UpToStep == ASSUME NEW k \in Nat PROVE UpTo(k) \in Seq(Nat) /\ UpTo(k + 1) = Append(UpTo(k), k + 1)
BY DEF UpTo

LEMMA PartGroupRow ==
  ASSUME GroupInv, PartInv, GroupRow, Len(statements) \in Nat
  PROVE  PartInv'
<1> DEFINE last == Len(groups)
           old == groups[last]
<1>1. /\ groups \in Seq(Seq(Nat)) /\ last \in Nat /\ last > 0
      /\ row \in Nat /\ row > 0 /\ row <= Len(statements)
      /\ FlattenSeq(groups) = UpTo(row - 1)
  <2>1. groups \in Seq(Seq(Nat)) /\ groups # <<>> /\ row \in Nat \ {0} /\ row <= Len(statements)
    BY DEF GroupInv, FillingOK, GroupRow
  <2>2. last \in Nat /\ last # 0
    BY <2>1, LenProperties, EmptySeq
  <2> QED
    BY <2>1, <2>2 DEF PartInv, GroupRow
<1>2. old \in Seq(Nat) /\ last \in 1 .. last
  BY <1>1, ElementOfSeq
<1>3. view' = "grouping" /\ row' = row + 1 /\ UNCHANGED statements
  BY DEF GroupRow, vars
<1>4. UpTo(row) = Append(UpTo(row - 1), row) /\ UpTo(row - 1) \in Seq(Nat)
  <2>1. row - 1 \in Nat /\ row - 1 + 1 = row
    BY <1>1
  <2> QED
    BY <2>1, UpToStep
<1>5. CASE StaysInGroup
  <2> DEFINE new == Append(old, row)
  <2>1. groups' = [groups EXCEPT ![last] = new]
    BY <1>5 DEF GroupRow
  <2>2. FlattenSeq(groups') = UpTo(row)
    <3>1. FlattenSeq([groups EXCEPT ![last] = new]) = Append(FlattenSeq(groups), row)
      BY <1>1, FlattenExtend
    <3> QED
      BY <1>1, <1>4, <2>1, <3>1
  <2>3. new \in Seq(Nat) /\ new # <<>>
    <3>1. ASSUME NEW q \in Seq(Nat), NEW r \in Nat
          PROVE  Append(q, r) \in Seq(Nat) /\ Append(q, r) # <<>>
      BY AppendProperties
    <3>2. old \in Seq(Nat) /\ row \in Nat
      BY <1>1, <1>2
    <3> HIDE DEF old
    <3> QED
      BY <3>1, <3>2
  <2> HIDE DEF new, old
  <2>4. /\ groups' \in Seq(Seq(Nat)) /\ Len(groups') = last
        /\ \A n \in 1 .. last : groups'[n] = IF n = last THEN new ELSE groups[n]
    BY <1>1, <1>2, <2>1, <2>3, ExceptSeq DEF last
  <2>5. Len(groups') > 1 => \A n \in 1 .. Len(groups') : groups'[n] # <<>>
    BY <2>3, <2>4 DEF PartInv, GroupRow
  <2> QED
    BY <1>1, <1>3, <2>2, <2>4, <2>5 DEF PartInv
<1>6. CASE ~StaysInGroup
  <2> DEFINE new == <<row>>
  <2>1. groups' = Append(groups, new)
    BY <1>6 DEF GroupRow
  <2>2. new \in Seq(Nat) /\ new # <<>>
    BY <1>1
  <2>3. old # <<>>
    <3>1. Len(old) >= H
      BY <1>1, <1>2, <1>6, LenProperties, TimelineAssumption DEF StaysInGroup, H, Last
    <3>2. H \in Nat /\ H > 0
      BY TimelineAssumption DEF H
    <3>3. old \in Seq(Nat)
      BY <1>2
    <3> HIDE DEF old
    <3> QED
      BY <3>1, <3>2, <3>3, EmptySeq
  <2>4. FlattenSeq(groups') = UpTo(row)
    <3>1. FlattenSeq(Append(groups, new)) = FlattenSeq(groups) \o new
      BY <1>1, <2>2, FlattenAppend
    <3>2. UpTo(row - 1) \o new = Append(UpTo(row - 1), row)
      BY <1>1, <1>4
    <3>3. FlattenSeq(groups) = UpTo(row - 1) /\ UpTo(row) = Append(UpTo(row - 1), row)
      BY <1>1, <1>4
    <3> HIDE DEF new
    <3> QED
      BY <2>1, <3>1, <3>2, <3>3, Zenon
  <2> HIDE DEF new
  <2>5. /\ groups' \in Seq(Seq(Nat)) /\ Len(groups') = last + 1 /\ groups'[last + 1] = new
        /\ \A n \in 1 .. last : groups'[n] = groups[n]
    BY <1>1, <2>1, <2>2, AppendProperties
  <2>6. \A n \in 1 .. last : groups[n] # <<>>
    <3>1. CASE last > 1
      BY <3>1 DEF PartInv, GroupRow
    <3>2. CASE last = 1
      BY <2>3, <3>2
    <3>3. last \in Nat /\ last > 0
      BY <1>1
    <3> HIDE DEF last
    <3>4. last > 1 \/ last = 1
      BY <3>3
    <3> QED
      BY <3>1, <3>2, <3>4
  <2>7. \A n \in 1 .. Len(groups') : groups'[n] # <<>>
    <3> SUFFICES ASSUME NEW n \in 1 .. last + 1 PROVE groups'[n] # <<>>
      BY <2>5
    <3>1. n \in 1 .. last \/ n = last + 1
      BY <1>1
    <3> QED
      BY <2>2, <2>5, <2>6, <3>1
  <2> QED
    BY <1>1, <1>3, <2>4, <2>5, <2>7 DEF PartInv
<1> QED
  BY <1>5, <1>6

LEMMA NextPartInv ==
  ASSUME GroupInv, PartInv, [TimelineNext]_<<vars, timeline>>, Len(statements) \in Nat
  PROVE  PartInv'
<1>1. ASSUME UNCHANGED <<groups, statements>>, view' = "closed" => view = "closed",
             view' = "grouping" => view = "grouping" /\ UNCHANGED row,
             view' \notin {"closed", "grouping"} => view \notin {"closed", "grouping"}
      PROVE  PartInv'
  BY <1>1 DEF PartInv
<1>2. CASE UNCHANGED <<vars, timeline>>
  BY <1>1, <1>2 DEF vars, timeline
<1>3. CASE Next /\ UNCHANGED timeline
  BY <1>3, LoadedStays DEF GroupInv, PartInv, timeline
<1>4. CASE OpenTimeline
  <2> DEFINE none == <<>>
  <2>1. none \in Seq(Nat) /\ UpTo(0) = none
    BY DEF UpTo
  <2> HIDE DEF none
  <2>2. groups' = <<none>> /\ view' = "grouping" /\ row' = 1 /\ UNCHANGED statements
    BY <1>4 DEF OpenTimeline, GroupInv, vars, none
  <2>3. FlattenSeq(groups') = UpTo(row' - 1) /\ Len(groups') = 1
    BY <2>1, <2>2, FlattenOne
  <2>4. groups' \in Seq(Seq(Nat))
    BY <2>1, <2>2
  <2> QED
    BY <2>2, <2>3, <2>4 DEF PartInv
<1>5. CASE GroupRow
  BY <1>5, PartGroupRow
<1>6. CASE StartRendering
  <2>1. row - 1 = Len(statements) /\ FlattenSeq(groups) = UpTo(row - 1)
    BY <1>6 DEF StartRendering, PartInv, GroupInv, FillingOK
  <2>2. UNCHANGED <<groups, statements>> /\ view' = "rendering" /\ view = "grouping"
    BY <1>6 DEF StartRendering, vars
  <2> QED
    BY <2>1, <2>2 DEF PartInv
<1>7. CASE RenderRow \/ RenderFails \/ Show
  BY <1>1, <1>7 DEF RenderRow, RenderFails, Show, vars
<1> QED
  BY <1>2, <1>3, <1>4, <1>5, <1>6, <1>7 DEF TimelineNext

(* The time line is opened on a request that is loaded as RequestLoading    *)
(* says, whose invariants hold of it therefore.                             *)
LEMMA TimelineLoads == TimelineSpec => Spec
<1>1. TimelineInit => Init
  BY DEF TimelineInit
<1>2. [TimelineNext]_<<vars, timeline>> => [Next]_vars
  BY DEF TimelineNext, OpenTimeline, GroupRow, StartRendering, RenderRow, RenderFails, Show
<1> QED
  BY <1>1, <1>2, PTL DEF TimelineSpec, Spec

(* The row groups hold every statement of the request once and in order,    *)
(* and none of them is empty, whatever the limits and the tables are        *)
(* (createRowGroups(), lines 287-330).                                      *)
THEOREM GroupsPartitionTheRows == TimelineSpec => []GroupsPartition
<1>1. TimelineInit => PartInv
  BY EmptySeq DEF TimelineInit, PartInv
<1>2. LoadingInv => Len(statements) \in Nat
  BY LenProperties DEF LoadingInv, TypeOK
<1>3. LoadingInv /\ GroupInv /\ PartInv /\ [TimelineNext]_<<vars, timeline>> => (GroupInv /\ PartInv)'
  BY <1>2, NextGroupInv, NextPartInv
<1>4. LoadingInv /\ GroupInv /\ PartInv => GroupsPartition
  <2> SUFFICES ASSUME LoadingInv, GroupInv, PartInv, view # "closed" PROVE GroupsPartition
    BY DEF GroupsPartition
  <2>1. Len(groups) > 1 => <<>> \notin ToSet(groups)
    <3> SUFFICES ASSUME Len(groups) > 1, <<>> \in ToSet(groups) PROVE FALSE
      OBVIOUS
    <3>1. PICK n \in DOMAIN groups : groups[n] = <<>>
      BY DEF ToSet
    <3>2. \A m \in 1 .. Len(groups) : groups[m] # <<>>
      BY DEF PartInv
    <3>3. DOMAIN groups = 1 .. Len(groups)
      BY LenProperties DEF PartInv
    <3> QED
      BY <3>1, <3>2, <3>3
  <2>2. FlattenSeq(groups) = [n \in 1 .. (IF view = "grouping" THEN row - 1 ELSE Len(statements)) |-> n]
    BY DEF PartInv, UpTo
  <2> QED
    BY <2>1, <2>2 DEF GroupsPartition
<1> QED
  BY <1>1, <1>3, <1>4, InitGroupInv, LoadingInvariant, TimelineLoads, PTL DEF TimelineSpec

----------------------------------------------------------------------------
(* Sorting                                                                 *)

StrictOrder(P, S) ==
  /\ \A x \in S : <<x, x>> \notin P
  /\ \A x, y, z \in S : <<x, y>> \in P /\ <<y, z>> \in P => <<x, z>> \in P
  /\ \A x, y \in S : x # y => <<x, y>> \in P \/ <<y, x>> \in P

SortedBy(P, S) == {s \in SetToSeqs(S) : \A m, n \in DOMAIN s : m < n => <<s[m], s[n]>> \in P}

(* A finite set has a last element, the one with the fewest above it.       *)
LEMMA LastElement ==
  ASSUME NEW P, NEW S, IsFiniteSet(S), S # {}, StrictOrder(P, S)
  PROVE  \E x \in S : \A y \in S : y # x => <<y, x>> \in P
<1> DEFINE above(x) == {y \in S : <<x, y>> \in P}
           T == {n \in Nat : \E x \in S : n = Cardinality(above(x))}
<1>1. \A x \in S : IsFiniteSet(above(x)) /\ Cardinality(above(x)) \in Nat
  BY FS_Subset, FS_CardinalityType
<1>2. T # {} /\ T \in SUBSET Nat
  BY <1>1
<1>3. PICK n \in T : \A k \in T : n <= k
  <2> HIDE DEF T
  <2> QED
    BY <1>2, NatMinimum
<1>4. PICK x \in S : n = Cardinality(above(x))
  OBVIOUS
<1>5. ASSUME NEW y \in S, <<x, y>> \in P PROVE FALSE
  <2>1. above(y) \subseteq above(x) /\ y \in above(x) /\ y \notin above(y)
    BY <1>5 DEF StrictOrder
  <2>2. Cardinality(above(y)) \in T
    BY <1>1
  <2> HIDE DEF above, T
  <2>3. Cardinality(above(y)) < Cardinality(above(x))
    <3>1. Cardinality(above(x) \ {y}) = Cardinality(above(x)) - 1 /\ IsFiniteSet(above(x) \ {y})
      BY <1>1, <2>1, FS_RemoveElement
    <3>2. above(y) \subseteq above(x) \ {y}
      BY <2>1
    <3>3. Cardinality(above(y)) <= Cardinality(above(x) \ {y})
      BY <3>1, <3>2, FS_Subset
    <3> QED
      BY <1>1, <3>1, <3>3
  <2> QED
    BY <1>1, <1>3, <1>4, <2>2, <2>3
<1> QED
  BY <1>5 DEF StrictOrder

(* So its elements can be put in order, the last one behind the others.     *)
LEMMA SortedExists ==
  ASSUME NEW P, NEW S, IsFiniteSet(S), StrictOrder(P, S)
  PROVE  SortedBy(P, S) # {}
<1> DEFINE T == {n \in Nat : \A s \in SUBSET S : Cardinality(s) = n => SortedBy(P, s) # {}}
<1>1. 0 \in T
  <2> SUFFICES ASSUME NEW s \in SUBSET S, Cardinality(s) = 0 PROVE SortedBy(P, s) # {}
    OBVIOUS
  <2>1. s = {}
    BY SmallerSubset
  <2> DEFINE f == [i \in {} |-> i]
  <2>2. 1 .. Cardinality(s) = {} /\ f \in [{} -> s] /\ DOMAIN f = {}
    OBVIOUS
  <2>3. f \in SetToSeqs(s)
    BY <2>2 DEF SetToSeqs
  <2> QED
    BY <2>2, <2>3 DEF SortedBy
<1>2. ASSUME NEW n \in T PROVE n + 1 \in T
  <2> SUFFICES ASSUME NEW s \in SUBSET S, Cardinality(s) = n + 1 PROVE SortedBy(P, s) # {}
    OBVIOUS
  <2>1. IsFiniteSet(s) /\ s # {} /\ StrictOrder(P, s)
    BY SmallerSubset DEF StrictOrder
  <2>2. PICK x \in s : \A y \in s : y # x => <<y, x>> \in P
    BY <2>1, LastElement
  <2> DEFINE r == s \ {x}
  <2>3. r \in SUBSET S /\ Cardinality(r) = n /\ n \in Nat
    BY SmallerSubset
  <2>4. SortedBy(P, r) # {}
    BY <1>2, <2>3
  <2>5. PICK f \in SetToSeqs(r) : \A i, j \in DOMAIN f : i < j => <<f[i], f[j]>> \in P
    BY <2>4 DEF SortedBy
  <2>6. f \in [1 .. n -> r] /\ \A i, j \in 1 .. n : i # j => f[i] # f[j]
    BY <2>3, <2>5 DEF SetToSeqs
  <2> DEFINE g == [i \in 1 .. n + 1 |-> IF i = n + 1 THEN x ELSE f[i]]
  <2>7. \A i \in 1 .. n + 1 : i # n + 1 => i \in 1 .. n
    BY <2>3
  <2>8. /\ g \in [1 .. n + 1 -> s]
        /\ \A i, j \in 1 .. n + 1 : i # j => g[i] # g[j]
        /\ \A i, j \in 1 .. n + 1 : i < j => <<g[i], g[j]>> \in P
    <3>1. g \in [1 .. n + 1 -> s]
      BY <2>6, <2>7
    <3>2. ASSUME NEW i \in 1 .. n + 1, NEW j \in 1 .. n + 1, i # j PROVE g[i] # g[j]
      BY <2>6, <2>7, <3>2
    <3>3. ASSUME NEW i \in 1 .. n + 1, NEW j \in 1 .. n + 1, i < j PROVE <<g[i], g[j]>> \in P
      <4>1. i # n + 1
        BY <2>3, <3>3
      <4>2. i \in 1 .. n /\ g[i] = f[i] /\ f[i] \in r
        BY <2>6, <2>7, <4>1
      <4>3. CASE j = n + 1
        BY <2>2, <4>2, <4>3
      <4>4. CASE j # n + 1
        <5>1. j \in 1 .. n /\ g[j] = f[j]
          BY <2>7, <4>4
        <5>2. <<f[i], f[j]>> \in P
          BY <2>5, <2>6, <3>3, <4>2, <5>1
        <5> QED
          BY <4>2, <5>1, <5>2
      <4> QED
        BY <4>3, <4>4
    <3> QED
      BY <3>1, <3>2, <3>3
  <2> HIDE DEF g
  <2>9. DOMAIN g = 1 .. n + 1
    BY <2>8
  <2> QED
    BY <2>8, <2>9 DEF SortedBy, SetToSeqs
<1>3. T = Nat
  <2> HIDE DEF T
  <2>1. T \in SUBSET Nat
    BY DEF T
  <2> QED
    BY <1>1, <1>2, <2>1, NatClosed
<1>4. Cardinality(S) \in T
  BY <1>3, FS_CardinalityType
<1> QED
  BY <1>4

----------------------------------------------------------------------------
(* The order of the tables                                                 *)

(* Fractions a/b, c/d and e/f are compared by their cross products.         *)
LEMMA TimesOrder ==
  ASSUME NEW x \in Int, NEW y \in Int, NEW z \in Nat, z # 0
  PROVE  (x < y <=> x * z < y * z) /\ (x <= y <=> x * z <= y * z)
<1>1. ASSUME x < y PROVE x * z < y * z
  <2>1. y - x >= 1 /\ z >= 1
    BY <1>1
  <2>2. (y - x) * z >= 1
    BY <2>1
  <2> QED
    BY <2>2
<1>2. ASSUME y < x PROVE y * z < x * z
  <2>1. x - y >= 1 /\ z >= 1
    BY <1>2
  <2>2. (x - y) * z >= 1
    BY <2>1
  <2> QED
    BY <2>2
<1>3. x = y => x * z = y * z
  OBVIOUS
<1>4. x * z \in Int /\ y * z \in Int
  OBVIOUS
<1>5. x < y \/ y < x \/ x = y
  OBVIOUS
<1> DEFINE p == x * z
           q == y * z
<1> HIDE DEF p, q
<1>6. /\ p \in Int /\ q \in Int /\ (x < y => p < q) /\ (y < x => q < p) /\ (x = y => p = q)
  BY <1>1, <1>2, <1>3, <1>4 DEF p, q
<1>7. (x < y <=> p < q) /\ (x <= y <=> p <= q)
  BY <1>5, <1>6
<1> QED
  BY <1>7 DEF p, q

LEMMA CrossTransitive ==
  ASSUME NEW a \in Nat, NEW b \in Nat, NEW c \in Nat, NEW d \in Nat, NEW e \in Nat, NEW f \in Nat,
         b # 0, d # 0, f # 0, a * d <= c * b, c * f <= e * d
  PROVE  /\ a * f <= e * b
         /\ a * d < c * b \/ c * f < e * d => a * f < e * b
<1>1. /\ a * d \in Nat /\ c * b \in Nat /\ c * f \in Nat /\ e * d \in Nat /\ a * f \in Nat /\ e * b \in Nat
  OBVIOUS
<1>2. /\ (a * d) * f <= (c * b) * f /\ (a * d < c * b => (a * d) * f < (c * b) * f)
  BY <1>1, TimesOrder
<1>3. /\ (c * f) * b <= (e * d) * b /\ (c * f < e * d => (c * f) * b < (e * d) * b)
  BY <1>1, TimesOrder
<1>4. (a * d) * f = (a * f) * d /\ (c * b) * f = (c * f) * b /\ (e * d) * b = (e * b) * d
  OBVIOUS
<1>5. /\ a * f <= e * b <=> (a * f) * d <= (e * b) * d
      /\ a * f < e * b <=> (a * f) * d < (e * b) * d
  BY <1>1, TimesOrder
<1>6. (a * f) * d \in Nat /\ (e * b) * d \in Nat /\ (c * f) * b \in Nat
  OBVIOUS
<1> DEFINE p == (a * f) * d
           q == (c * f) * b
           r == (e * b) * d
<1> HIDE DEF p, q, r
<1>7. /\ p \in Nat /\ q \in Nat /\ r \in Nat /\ p <= q /\ q <= r
      /\ (a * d < c * b => p < q) /\ (c * f < e * d => q < r)
  BY <1>2, <1>3, <1>4, <1>6 DEF p, q, r
<1>8. p <= r /\ (a * d < c * b \/ c * f < e * d => p < r)
  BY <1>7
<1> QED
  BY <1>5, <1>8 DEF p, r

\* The average of a table as a fraction.
Joins(t) == SumFunction(joinsPerSql[t])
Stmts(t) == IF joinsPerSql[t] = <<>> THEN 1 ELSE Len(joinsPerSql[t])

LEMMA AverageTyped ==
  ASSUME TypeOK, NEW t \in Tables
  PROVE  Joins(t) \in Nat /\ Stmts(t) \in Nat /\ Stmts(t) # 0
<1> DEFINE s == joinsPerSql[t]
<1>1. s \in Seq(Nat \ {0})
  BY DEF TypeOK
<1> HIDE DEF s
<1>2. /\ IsFiniteSet(DOMAIN s) /\ \A i \in DOMAIN s : s[i] \in Nat
  BY <1>1, FS_Interval
<1>3. SumFunctionOnSet(s, DOMAIN s) \in Int /\ SumFunctionOnSet(s, DOMAIN s) >= 0
  BY <1>2, SumType
<1>4. s # <<>> => Len(s) \in Nat /\ Len(s) # 0
  BY <1>1, EmptySeq, LenProperties
<1> QED
  BY <1>3, <1>4 DEF Joins, Stmts, SumFunction, s

LEMMA LowerIs ==
  ASSUME NEW t, NEW u
  PROVE  Lower(t, u) <=> Joins(t) * Stmts(u) < Joins(u) * Stmts(t)
BY DEF Lower, Joins, Stmts

(* The comparator orders the tables strictly and totally: the average       *)
(* alone does not, the name decides between equal averages.                 *)
LEMMA PrecedesOrders ==
  ASSUME TypeOK
  PROVE  StrictOrder({p \in Tables \X Tables : Precedes(p[1], p[2])}, known)
<1> DEFINE AtMost(t, u) == Joins(t) * Stmts(u) <= Joins(u) * Stmts(t)
<1>1. \A t, u \in Tables :
        /\ Lower(t, u) => AtMost(t, u)
        /\ ~Lower(u, t) <=> AtMost(t, u)
        /\ Lower(t, u) => ~Lower(u, t)
  <2> SUFFICES ASSUME NEW t \in Tables, NEW u \in Tables
               PROVE  /\ Lower(t, u) => AtMost(t, u)
                      /\ ~Lower(u, t) <=> AtMost(t, u)
                      /\ Lower(t, u) => ~Lower(u, t)
    OBVIOUS
  <2> DEFINE p == Joins(t) * Stmts(u)
             q == Joins(u) * Stmts(t)
  <2>1. p \in Nat /\ q \in Nat
    BY AverageTyped
  <2>2. (Lower(t, u) <=> p < q) /\ (Lower(u, t) <=> q < p) /\ (AtMost(t, u) <=> p <= q)
    BY LowerIs
  <2> HIDE DEF p, q, AtMost
  <2> QED
    BY <2>1, <2>2
<1>2. ASSUME NEW t \in Tables, NEW u \in Tables, NEW v \in Tables, AtMost(t, u), AtMost(u, v)
      PROVE  AtMost(t, v) /\ (Lower(t, u) \/ Lower(u, v) => Lower(t, v))
  <2>1. /\ Joins(t) \in Nat /\ Stmts(t) \in Nat /\ Stmts(t) # 0
        /\ Joins(u) \in Nat /\ Stmts(u) \in Nat /\ Stmts(u) # 0
        /\ Joins(v) \in Nat /\ Stmts(v) \in Nat /\ Stmts(v) # 0
    BY AverageTyped
  <2> QED
    BY <1>2, <2>1, CrossTransitive, LowerIs
<1>3. \A t, u \in Tables : /\ NameRank[t] \in Nat /\ (NameRank[t] = NameRank[u] => t = u)
  BY TimelineAssumption
<1> DEFINE P == {p \in Tables \X Tables : Precedes(p[1], p[2])}
<1>4. \A t, u \in Tables : <<t, u>> \in P <=> Lower(t, u) \/ (~Lower(u, t) /\ NameRank[t] < NameRank[u])
  BY DEF Precedes
<1> HIDE DEF P, AtMost
<1>5. ASSUME NEW t \in Tables PROVE <<t, t>> \notin P
  BY <1>1, <1>3, <1>4
<1>6. ASSUME NEW t \in Tables, NEW u \in Tables, NEW v \in Tables, <<t, u>> \in P, <<u, v>> \in P
      PROVE  <<t, v>> \in P
  <2>1. AtMost(t, u) /\ AtMost(u, v)
    BY <1>1, <1>4, <1>6
  <2>2. AtMost(t, v) /\ (Lower(t, u) \/ Lower(u, v) => Lower(t, v))
    BY <1>2, <2>1
  <2>3. CASE Lower(t, u) \/ Lower(u, v)
    BY <1>4, <2>2, <2>3
  <2>4. CASE ~Lower(t, u) /\ ~Lower(u, v)
    <3>1. NameRank[t] < NameRank[u] /\ NameRank[u] < NameRank[v]
      BY <1>4, <1>6, <2>4
    <3>2. NameRank[t] < NameRank[v]
      BY <1>3, <3>1
    <3> QED
      BY <1>1, <1>4, <2>2, <3>2
  <2> QED
    BY <2>3, <2>4
<1>7. ASSUME NEW t \in Tables, NEW u \in Tables, t # u PROVE <<t, u>> \in P \/ <<u, t>> \in P
  <2>1. NameRank[t] < NameRank[u] \/ NameRank[u] < NameRank[t]
    BY <1>3, <1>7
  <2> QED
    BY <1>1, <1>4, <2>1
<1>8. known \subseteq Tables
  BY DEF TypeOK
<1> QED
  BY <1>5, <1>6, <1>7, <1>8 DEF StrictOrder, P

(* The CHOOSE of getOrderedTables() finds such an order.                    *)
LEMMA OrderedTables ==
  ASSUME TypeOK
  PROVE  LET s == getOrderedTables
             L == Cardinality(known)
         IN  /\ L \in Nat /\ s \in Seq(known) /\ Len(s) = L
             /\ \A m, n \in 1 .. L : m < n => Precedes(s[m], s[n])
             /\ \A t \in known : \E n \in 1 .. L : s[n] = t
<1> DEFINE s == getOrderedTables
           L == Cardinality(known)
           P == {p \in Tables \X Tables : Precedes(p[1], p[2])}
<1>1. known \subseteq Tables /\ IsFiniteSet(known) /\ L \in Nat
  BY LoadingAssumption, FS_Subset, FS_CardinalityType DEF TypeOK
<1>2. SortedBy(P, known) # {}
  <2> HIDE DEF P
  <2>1. StrictOrder(P, known)
    BY PrecedesOrders DEF P
  <2> QED
    BY <1>1, <2>1, SortedExists
<1>3. \E f \in SetToSeqs(known) : \A m, n \in DOMAIN f : m < n => Precedes(f[m], f[n])
  <2>1. \A x, y : <<x, y>> \in P => Precedes(x, y)
    OBVIOUS
  <2> HIDE DEF P
  <2> QED
    BY <1>2, <2>1 DEF SortedBy
<1>4. s \in SetToSeqs(known) /\ \A m, n \in DOMAIN s : m < n => Precedes(s[m], s[n])
  BY <1>3 DEF getOrderedTables
<1> HIDE DEF s, P
<1>5. s \in [1 .. L -> known] /\ \A m, n \in 1 .. L : m # n => s[m] # s[n]
  BY <1>4 DEF SetToSeqs
<1>6. s \in Seq(known) /\ Len(s) = L /\ DOMAIN s = 1 .. L
  BY <1>1, <1>5
<1>7. \A t \in known : \E n \in 1 .. L : s[n] = t
  <2>1. IsFiniteSet(1 .. L) /\ Cardinality(1 .. L) = L
    BY <1>1, FS_Interval
  <2>2. s \in Injection(1 .. L, known)
    BY <1>5 DEF Injection, IsInjective
  <2>3. s \in Surjection(1 .. L, known)
    BY <1>1, <2>1, <2>2, FS_Injection
  <2> QED
    BY <2>3 DEF Surjection
<1> QED
  BY <1>1, <1>4, <1>6, <1>7 DEF s

(* Dealing a sequence out to both ends in turn moves its elements: those at *)
(* odd places come to the left half, the others behind them, backwards.     *)
LEMMA ReorderMoves ==
  ASSUME NEW R, NEW s \in Seq(R)
  PROVE  LET L == Len(s)
             d == reorderTables(s)
         IN  /\ d \in Seq(R) /\ Len(d) = L /\ L \in Nat
             /\ \A n \in 1 .. L :
                  IF 2 * n <= L + 1 THEN 2 * n - 1 \in 1 .. L /\ d[n] = s[2 * n - 1]
                  ELSE 2 * (L - n + 1) \in 1 .. L /\ d[n] = s[2 * (L - n + 1)]
             /\ \A i \in 1 .. L : \E n \in 1 .. L : d[n] = s[i]
<1> DEFINE L == Len(s)
           d == reorderTables(s)
<1>1. L \in Nat
  BY LenProperties
<1> HIDE DEF L
<1>2. ASSUME NEW n \in 1 .. L
      PROVE  IF 2 * n <= L + 1 THEN 2 * n - 1 \in 1 .. L ELSE 2 * (L - n + 1) \in 1 .. L
  BY <1>1
<1>3. d = [n \in 1 .. L |-> IF 2 * n <= L + 1 THEN s[2 * n - 1] ELSE s[2 * (L - n + 1)]]
  BY DEF reorderTables, L
<1>4. \A i \in 1 .. L : s[i] \in R
  BY ElementOfSeq DEF L
<1>5. d \in Seq(R) /\ Len(d) = L
  <2>1. d \in [1 .. L -> R]
    BY <1>2, <1>3, <1>4
  <2> HIDE DEF d
  <2> QED
    BY <1>1, <2>1
<1>6. ASSUME NEW i \in 1 .. L PROVE \E n \in 1 .. L : d[n] = s[i]
  <2>1. PICK k \in Nat : i = 2 * k \/ i = 2 * k - 1
    <3>1. i \in Nat /\ (i + 1) \div 2 \in Nat /\ (i = 2 * ((i + 1) \div 2) \/ i = 2 * ((i + 1) \div 2) - 1)
      BY <1>1
    <3> QED
      BY <3>1
  <2>2. CASE i = 2 * k - 1
    <3>1. k \in 1 .. L /\ 2 * k <= L + 1
      BY <1>1, <2>2
    <3>2. d[k] = s[i]
      BY <1>3, <2>2, <3>1
    <3> QED
      BY <3>1, <3>2
  <2>3. CASE i = 2 * k
    <3> DEFINE n == L + 1 - k
    <3>1. n \in 1 .. L /\ ~(2 * n <= L + 1) /\ 2 * (L - n + 1) = i
      BY <1>1, <2>3
    <3> HIDE DEF n
    <3>2. d[n] = s[i]
      BY <1>3, <3>1
    <3> QED
      BY <3>1, <3>2
  <2> QED
    BY <2>1, <2>2, <2>3
<1> HIDE DEF d
<1>7. \A n \in 1 .. L :
        IF 2 * n <= L + 1 THEN 2 * n - 1 \in 1 .. L /\ d[n] = s[2 * n - 1]
        ELSE 2 * (L - n + 1) \in 1 .. L /\ d[n] = s[2 * (L - n + 1)]
  BY <1>2, <1>3
<1> QED
  BY <1>1, <1>5, <1>6, <1>7 DEF L, d

(* So the lanes rise to the middle and fall behind it.                      *)
LEMMA LanesMade ==
  ASSUME TypeOK
  PROVE  LET d == reorderTables(getOrderedTables)
         IN  /\ d \in Seq(known) /\ ToSet(d) = known /\ Len(d) = Cardinality(known)
             /\ \A m, n \in 1 .. Len(d) : m < n =>
                  /\ 2 * n <= Len(d) + 1 => ~Lower(d[n], d[m])
                  /\ 2 * m > Len(d) + 1 => ~Lower(d[m], d[n])
<1> DEFINE s == getOrderedTables
           d == reorderTables(s)
           L == Cardinality(known)
<1>1. /\ L \in Nat /\ s \in Seq(known) /\ Len(s) = L
      /\ \A m, n \in 1 .. L : m < n => Precedes(s[m], s[n])
      /\ \A t \in known : \E n \in 1 .. L : s[n] = t
  BY OrderedTables
<1>2. /\ d \in Seq(known) /\ Len(d) = L
      /\ \A n \in 1 .. L :
           IF 2 * n <= L + 1 THEN 2 * n - 1 \in 1 .. L /\ d[n] = s[2 * n - 1]
           ELSE 2 * (L - n + 1) \in 1 .. L /\ d[n] = s[2 * (L - n + 1)]
      /\ \A i \in 1 .. L : \E n \in 1 .. L : d[n] = s[i]
  <2> HIDE DEF s, L
  <2> QED
    BY <1>1, ReorderMoves
<1> HIDE DEF s, d, L
<1>3. ToSet(d) = known
  <2>1. DOMAIN d = 1 .. L /\ \A n \in 1 .. L : d[n] \in known
    BY <1>1, <1>2
  <2>2. ASSUME NEW t \in known PROVE \E n \in 1 .. L : d[n] = t
    <3>1. PICK i \in 1 .. L : s[i] = t
      BY <1>1
    <3> QED
      BY <1>2, <3>1
  <2> QED
    BY <2>1, <2>2 DEF ToSet
<1>4. \A t, u \in Tables : Precedes(t, u) => ~Lower(u, t)
  <2> SUFFICES ASSUME NEW t \in Tables, NEW u \in Tables, Lower(t, u), Lower(u, t) PROVE FALSE
    BY DEF Precedes
  <2> DEFINE p == Joins(t) * Stmts(u)
             q == Joins(u) * Stmts(t)
  <2>1. p \in Nat /\ q \in Nat
    BY AverageTyped
  <2>2. p < q /\ q < p
    BY LowerIs
  <2> HIDE DEF p, q
  <2> QED
    BY <2>1, <2>2
<1>5. \A m, n \in 1 .. L : m < n => ~Lower(s[n], s[m])
  <2>1. \A n \in 1 .. L : s[n] \in Tables
    BY <1>1, ElementOfSeq DEF TypeOK
  <2> QED
    BY <1>1, <1>4, <2>1
<1>6. ASSUME NEW m \in 1 .. L, NEW n \in 1 .. L, m < n, 2 * n <= L + 1 PROVE ~Lower(d[n], d[m])
  <2>1. 2 * m <= L + 1 /\ 2 * m - 1 < 2 * n - 1
    BY <1>1, <1>6
  <2>2. /\ d[n] = s[2 * n - 1] /\ d[m] = s[2 * m - 1]
        /\ 2 * n - 1 \in 1 .. L /\ 2 * m - 1 \in 1 .. L
    BY <1>2, <1>6, <2>1
  <2> QED
    BY <1>5, <2>1, <2>2
<1>7. ASSUME NEW m \in 1 .. L, NEW n \in 1 .. L, m < n, 2 * m > L + 1 PROVE ~Lower(d[m], d[n])
  <2>1. ~(2 * m <= L + 1) /\ ~(2 * n <= L + 1) /\ 2 * (L - n + 1) < 2 * (L - m + 1)
    BY <1>1, <1>7
  <2>2. /\ d[n] = s[2 * (L - n + 1)] /\ d[m] = s[2 * (L - m + 1)]
        /\ 2 * (L - n + 1) \in 1 .. L /\ 2 * (L - m + 1) \in 1 .. L
    BY <1>2, <1>7, <2>1
  <2> QED
    BY <1>5, <2>1, <2>2
<1> QED
  BY <1>2, <1>3, <1>6, <1>7 DEF d, s, L

\* Once they are made the lanes and the statistics stay.
LaneInv ==
  /\ CenterHeavy
  /\ view # "closed" => order \in Seq(known)

LEMMA NextLaneInv ==
  ASSUME TypeOK, GroupInv, LaneInv, [TimelineNext]_<<vars, timeline>>
  PROVE  LaneInv'
<1>1. ASSUME UNCHANGED <<order, known, joinsPerSql>>, view' # "closed" => view # "closed"
      PROVE  LaneInv'
  BY <1>1 DEF LaneInv, CenterHeavy, Lower
<1>2. CASE UNCHANGED <<vars, timeline>>
  BY <1>1, <1>2 DEF vars, stats, timeline
<1>3. CASE Next /\ UNCHANGED timeline
  BY <1>3, LoadedStays DEF GroupInv, LaneInv, CenterHeavy, timeline
<1>4. CASE OpenTimeline
  <2> DEFINE d == reorderTables(getOrderedTables)
  <2>1. /\ d \in Seq(known) /\ ToSet(d) = known /\ Len(d) = Cardinality(known)
        /\ \A m, n \in 1 .. Len(d) : m < n =>
             /\ 2 * n <= Len(d) + 1 => ~Lower(d[n], d[m])
             /\ 2 * m > Len(d) + 1 => ~Lower(d[m], d[n])
    BY LanesMade
  <2>2. order' = d /\ UNCHANGED <<known, joinsPerSql>>
    BY <1>4 DEF OpenTimeline, vars, stats
  <2> HIDE DEF d
  <2>3. \A t, u : Lower(t, u)' <=> Lower(t, u)
    BY <2>2 DEF Lower
  <2>4. /\ order' \in Seq(known') /\ ToSet(order') = known' /\ Len(order') = Cardinality(known')
        /\ \A m, n \in 1 .. Len(order') : m < n =>
             /\ 2 * n <= Len(order') + 1 => ~Lower(order[n], order[m])'
             /\ 2 * m > Len(order') + 1 => ~Lower(order[m], order[n])'
    BY <2>1, <2>2 DEF Lower
  <2> QED
    BY <2>4 DEF LaneInv, CenterHeavy
<1>5. CASE GroupRow \/ StartRendering \/ RenderRow \/ RenderFails \/ Show
  BY <1>1, <1>5 DEF GroupRow, StartRendering, RenderRow, RenderFails, Show, vars, stats
<1> QED
  BY <1>2, <1>3, <1>4, <1>5 DEF TimelineNext

(* Each table of a request has one lane, and the tables that are joined to  *)
(* most are in the middle, for any number of tables and any counts          *)
(* (CenterHeavyTableOrderMgr and getOrderedTables()).                       *)
THEOREM TablesCenterHeavy == TimelineSpec => []CenterHeavy
<1>1. TimelineInit => LaneInv
  BY DEF TimelineInit, LaneInv, CenterHeavy
<1>2. LoadingInv /\ GroupInv /\ LaneInv /\ [TimelineNext]_<<vars, timeline>> => (GroupInv /\ LaneInv)'
  BY NextGroupInv, NextLaneInv DEF LoadingInv
<1>3. LaneInv => CenterHeavy
  BY DEF LaneInv
<1> QED
  BY <1>1, <1>2, <1>3, InitGroupInv, LoadingInvariant, TimelineLoads, PTL DEF TimelineSpec

----------------------------------------------------------------------------
(* Every marker in the lane of its table                                   *)

\* Markers are made when the lanes are there.
MarkerInv ==
  /\ row \in Nat \ {0}
  /\ view = "closed" => markers = {}
  /\ MarkersInLanes

(* getLane() finds every table that has a lane.                             *)
LEMMA LaneFound ==
  ASSUME NEW t
  PROVE  \/ getLane(t) \in 1 .. Len(order) /\ order[getLane(t)] = t
         \/ getLane(t) = 0 /\ t \notin {order[k] : k \in 1 .. Len(order)}
<1>1. CASE \E n \in 1 .. Len(order) : order[n] = t
  <2>1. getLane(t) = CHOOSE n \in 1 .. Len(order) : order[n] = t
    BY <1>1 DEF getLane
  <2> QED
    BY <1>1, <2>1
<1>2. CASE ~ \E n \in 1 .. Len(order) : order[n] = t
  BY <1>2 DEF getLane
<1> QED
  BY <1>1, <1>2

LEMMA RowInLanes ==
  ASSUME TypeOK, LaneInv, KnownInv, DrawnInv, MarkerInv, RenderRow
  PROVE  MarkersInLanes'
<1>1. /\ view = "rendering" /\ row <= Len(statements) /\ ~Unrenderable
      /\ markers' = markers \cup {[row |-> row, table |-> t, lane |-> getLane(t)] : t \in Marked}
      /\ UNCHANGED <<statements, order>>
  BY DEF RenderRow, vars
<1>2. row \in 1 .. Len(statements) /\ statements \in Seq([text : Texts, attempt : 1 .. 3, model : Model])
  BY <1>1, LenProperties DEF MarkerInv, TypeOK
<1>3. model \in Model /\ model.joins \in Seq(JoinNote) /\ statements[row].attempt \in 1 .. 3
  <2>1. statements[row] \in [text : Texts, attempt : 1 .. 3, model : Model]
    BY <1>2, ElementOfSeq
  <2> QED
    BY <2>1 DEF model, Model
<1>4. {order[k] : k \in 1 .. Len(order)} = known
  <2>1. ToSet(order) = known /\ DOMAIN order = 1 .. Len(order)
    BY <1>1, LenProperties DEF LaneInv, CenterHeavy
  <2> QED
    BY <2>1 DEF ToSet
<1>5. ASSUME NEW t \in Marked, statements[row].attempt # 3
      PROVE  t \in known
  <2>1. CASE model.failed
    BY <1>4, <1>5, <2>1 DEF Marked
  <2>2. CASE ~model.failed
    <3>1. model.tables \subseteq known /\ Within(ToSet(model.joins), known)
      BY <1>2, <1>3, <1>5 DEF KnownInv, ModelTablesKnown, DrawnInv, JoinsWithin, model
    <3>2. \A n \in 1 .. Len(model.joins) : NoTable \notin model.joins[n].shown /\ model.joins[n] \in ToSet(model.joins)
      BY <1>1, <1>3, <2>2, LenProperties DEF Unrenderable, ToSet
    <3>3. \A n \in 1 .. Len(model.joins) : model.joins[n].shown \subseteq known
      BY <3>1, <3>2 DEF Within
    <3>4. t \in model.tables \cup UNION {model.joins[n].shown : n \in 1 .. Len(model.joins)}
      BY <1>5, <2>2 DEF Marked
    <3> QED
      BY <3>1, <3>3, <3>4
  <2> QED
    BY <2>1, <2>2
<1>6. ASSUME NEW t \in Marked
      PROVE  \/ getLane(t) # 0 /\ order[getLane(t)] = t
             \/ getLane(t) = 0 /\ statements[row].attempt = 3
  BY <1>4, <1>5, LaneFound
<1>7. ASSUME NEW mk \in markers'
      PROVE  \/ mk.lane # 0 /\ order[mk.lane] = mk.table
             \/ mk.lane = 0 /\ statements[mk.row].attempt = 3
  <2>1. CASE mk \in markers
    BY <2>1 DEF MarkerInv, MarkersInLanes
  <2>2. CASE mk \notin markers
    <3>1. PICK t \in Marked : mk = [row |-> row, table |-> t, lane |-> getLane(t)]
      BY <1>1, <1>7, <2>2
    <3> QED
      BY <1>6, <3>1
  <2> QED
    BY <2>1, <2>2
<1> QED
  BY <1>1, <1>7 DEF MarkersInLanes

LEMMA NextMarkerInv ==
  ASSUME TypeOK, GroupInv, LaneInv, KnownInv, DrawnInv, MarkerInv, [TimelineNext]_<<vars, timeline>>
  PROVE  MarkerInv'
<1>1. ASSUME UNCHANGED <<order, markers, statements>>, row' \in Nat \ {0}, view' = "closed" => view = "closed"
      PROVE  MarkerInv'
  BY <1>1 DEF MarkerInv, MarkersInLanes
<1>2. CASE UNCHANGED <<vars, timeline>>
  BY <1>1, <1>2 DEF vars, timeline, MarkerInv
<1>3. CASE Next /\ UNCHANGED timeline
  <2>1. view = "closed"
    BY <1>3, LoadedStays DEF GroupInv
  <2> QED
    BY <1>3, <2>1 DEF timeline, MarkerInv, MarkersInLanes
<1>4. CASE OpenTimeline
  BY <1>4 DEF OpenTimeline, vars, MarkerInv, MarkersInLanes
<1>5. CASE GroupRow \/ StartRendering \/ RenderFails \/ Show
  BY <1>1, <1>5 DEF GroupRow, StartRendering, RenderFails, Show, vars, MarkerInv
<1>6. CASE RenderRow
  <2>1. row' \in Nat \ {0} /\ view' # "closed"
    BY <1>6 DEF RenderRow, MarkerInv
  <2> QED
    BY <1>6, <2>1, RowInLanes DEF MarkerInv
<1> QED
  BY <1>2, <1>3, <1>4, <1>5, <1>6 DEF TimelineNext

(* Every marker is in the lane of its table, whatever was found in the      *)
(* statements and in whichever attempt; only what the third attempt found   *)
(* may have no lane (DefaultTableLaneMgr.getLane returns null).             *)
THEOREM MarkersAreInLanes == TimelineSpec => []MarkersInLanes
<1>1. TimelineInit => LaneInv /\ MarkerInv
  BY DEF TimelineInit, LaneInv, CenterHeavy, MarkerInv, MarkersInLanes
<1>2. LoadingInv /\ KnownInv /\ DrawnInv /\ GroupInv /\ LaneInv /\ MarkerInv /\ [TimelineNext]_<<vars, timeline>>
        => (GroupInv /\ LaneInv /\ MarkerInv)'
  BY NextGroupInv, NextLaneInv, NextMarkerInv DEF LoadingInv
<1>3. MarkerInv => MarkersInLanes
  BY DEF MarkerInv
<1> QED
  BY <1>1, <1>2, <1>3, InitGroupInv, LoadingInvariant, DrawnInvariant, TimelineLoads, PTL DEF TimelineSpec

============================================================================
