----------------------------- MODULE Selection -----------------------------
(***************************************************************************)
(* SelectSeq for the members of a set, as a recursive function that the    *)
(* provers can expand.                                                     *)
(***************************************************************************)
EXTENDS Integers, Sequences

Select(s, K) ==
  LET kept[n \in 0 .. Len(s)] ==
        IF n = 0 THEN <<>>
        ELSE IF s[n] \in K THEN Append(kept[n - 1], s[n]) ELSE kept[n - 1]
  IN  kept[Len(s)]

============================================================================
