----------------------------- MODULE DataLemmas -----------------------------
(***************************************************************************)
(* What the recursive functions return that the models are built from: the *)
(* sum of a function over a finite set (the community module's             *)
(* SumFunctionOnSet, whatever the order in which it takes the elements),   *)
(* Select, and the community module's FlattenSeq.  For each, that there is *)
(* such a function, and what one more element or a changed one does to it. *)
(* Induction is by the least element of a set of natural numbers           *)
(* (NatMinimum, NatClosed).                                                *)
(***************************************************************************)
EXTENDS Integers, FiniteSets, Sequences, Functions, Folds, SequencesExt, Selection,
        FiniteSetTheorems, SequenceTheorems, WellFoundedInduction, TLAPS

(* A set of natural numbers that is not empty has a least element.         *)
LEMMA NatMinimum ==
  ASSUME NEW T \in SUBSET Nat, T # {}
  PROVE  \E m \in T : \A k \in T : m <= k
<1> DEFINE R == OpToRel(<, Nat)
<1>1. IsWellFoundedOn(R, Nat)
  BY NatLessThanWellFounded
<1>2. R = {ss \in Nat \X Nat : ss[1] < ss[2]}
  BY DEF OpToRel
<1> HIDE DEF R
<1>3. PICK x \in T : \A y \in T : ~ (<<y, x>> \in R)
  BY <1>1, WFMin
<1>4. \A y \in T : ~ (y < x)
  BY <1>2, <1>3
<1> QED
  BY <1>4

(* Induction: a set of natural numbers with 0 and all successors has all.  *)
LEMMA NatClosed ==
  ASSUME NEW T \in SUBSET Nat, 0 \in T, \A n \in T : n + 1 \in T
  PROVE  T = Nat
<1> SUFFICES ASSUME Nat \ T # {} PROVE FALSE
  OBVIOUS
<1>1. PICK m \in Nat \ T : \A k \in Nat \ T : m <= k
  BY NatMinimum
<1>2. m # 0 /\ m - 1 \in Nat /\ m - 1 \notin Nat \ T
  BY <1>1
<1> QED
  BY <1>1, <1>2

(* A set that has a member leaves a smaller one when the member is taken   *)
(* out; a set with no more than no members is empty.                       *)
LEMMA SmallerSubset ==
  ASSUME NEW S, IsFiniteSet(S), NEW s \in SUBSET S
  PROVE  /\ IsFiniteSet(s) /\ Cardinality(s) \in Nat
         /\ Cardinality(s) = 0 <=> s = {}
         /\ \A x \in s : Cardinality(s \ {x}) = Cardinality(s) - 1
BY FS_Subset, FS_CardinalityType, FS_RemoveElement, FS_EmptySet

----------------------------------------------------------------------------
(* The recursive function behind the sum                                   *)

pick(s) == CHOOSE x \in s : TRUE

Sums(f, S) ==
  CHOOSE g : g = [s \in SUBSET S |-> IF s = {} THEN 0 ELSE f[pick(s)] + g[s \ {pick(s)}]]

LEMMA SumIsRecursive ==
  ASSUME NEW f, NEW S
  PROVE  SumFunctionOnSet(f, S) = Sums(f, S)[S]
BY DEF SumFunctionOnSet, FoldFunctionOnSet, MapThenFoldSet, Sums, pick

LEMMA PickMember == ASSUME NEW s, s # {} PROVE pick(s) \in s
BY DEF pick

(* There is such a function on the subsets of a finite set: it is made     *)
(* for ever larger subsets.                                                *)
LEMMA SumsExist ==
  ASSUME NEW f, NEW S, IsFiniteSet(S)
  PROVE  \A s \in SUBSET S :
           Sums(f, S)[s] = IF s = {} THEN 0 ELSE f[pick(s)] + Sums(f, S)[s \ {pick(s)}]
<1> DEFINE At(g, s) == IF s = {} THEN 0 ELSE f[pick(s)] + g[s \ {pick(s)}]
           UpTo(n) == {s \in SUBSET S : Cardinality(s) <= n}
           T == {n \in Nat : \E g : \A s \in UpTo(n) : g[s] = At(g, s)}
<1>1. 0 \in T
  <2> DEFINE g == [s \in SUBSET S |-> 0]
  <2>1. \A s \in UpTo(0) : s = {}
    BY SmallerSubset
  <2>2. \A s \in UpTo(0) : g[s] = At(g, s)
    BY <2>1
  <2> QED
    BY <2>2
<1>2. ASSUME NEW n \in T PROVE n + 1 \in T
  <2>1. PICK g : \A s \in UpTo(n) : g[s] = At(g, s)
    BY <1>2
  <2> DEFINE h == [s \in SUBSET S |-> At(g, s)]
  <2>2. ASSUME NEW s \in UpTo(n + 1) PROVE h[s] = At(h, s)
    <3>1. CASE s = {}
      BY <3>1
    <3>2. CASE s # {}
      <4> DEFINE r == s \ {pick(s)}
      <4>1. r \in SUBSET S
        OBVIOUS
      <4>2. Cardinality(r) = Cardinality(s) - 1 /\ Cardinality(s) \in Nat
        BY <3>2, PickMember, SmallerSubset
      <4>3. r \in UpTo(n)
        BY <4>1, <4>2
      <4>4. h[r] = g[r]
        BY <2>1, <4>1, <4>3
      <4> QED
        BY <3>2, <4>4
    <3> QED
      BY <3>1, <3>2
  <2>3. \E k : \A s \in UpTo(n + 1) : k[s] = At(k, s)
    BY <2>2
  <2> HIDE DEF At, UpTo
  <2> QED
    BY <2>3
<1>3. T = Nat
  <2> HIDE DEF T
  <2>1. T \in SUBSET Nat
    BY DEF T
  <2> QED
    BY <1>1, <1>2, <2>1, NatClosed
<1>4. PICK g : \A s \in UpTo(Cardinality(S)) : g[s] = At(g, s)
  BY <1>3, FS_CardinalityType
<1>5. \A s \in SUBSET S : s \in UpTo(Cardinality(S))
  BY FS_Subset, FS_CardinalityType
<1> DEFINE G == [s \in SUBSET S |-> g[s]]
<1>6. G = [s \in SUBSET S |-> At(G, s)]
  BY <1>4, <1>5
<1>7. \E h : h = [s \in SUBSET S |-> At(h, s)]
  BY <1>6
<1>8. Sums(f, S) = [s \in SUBSET S |-> At(Sums(f, S), s)]
  BY <1>7 DEF Sums
<1> QED
  BY <1>8

(* The sum over a set does not depend on the set that it is a subset of,    *)
(* nor on the function elsewhere.                                          *)
LEMMA SumsAgree ==
  ASSUME NEW S, IsFiniteSet(S), NEW A \in SUBSET S, NEW f, NEW g,
         \A x \in A : f[x] = g[x]
  PROVE  Sums(f, A)[A] = Sums(g, S)[A]
<1> DEFINE T == {n \in Nat : \A s \in SUBSET A : Cardinality(s) <= n => Sums(f, A)[s] = Sums(g, S)[s]}
<1>0. IsFiniteSet(A)
  BY FS_Subset
<1>1. 0 \in T
  <2>1. \A s \in SUBSET A : Cardinality(s) <= 0 => s = {}
    BY <1>0, SmallerSubset
  <2>2. Sums(f, A)[{}] = 0 /\ Sums(g, S)[{}] = 0
    BY <1>0, SumsExist
  <2> QED
    BY <2>1, <2>2
<1>2. ASSUME NEW n \in T PROVE n + 1 \in T
  <2> SUFFICES ASSUME NEW s \in SUBSET A, Cardinality(s) <= n + 1, s # {}
               PROVE  Sums(f, A)[s] = Sums(g, S)[s]
    <3>1. Sums(f, A)[{}] = 0 /\ Sums(g, S)[{}] = 0
      BY <1>0, SumsExist
    <3> QED
      BY <3>1
  <2> DEFINE r == s \ {pick(s)}
  <2>1. pick(s) \in s /\ r \in SUBSET A /\ s \in SUBSET S
    BY PickMember
  <2>2. Cardinality(r) <= n
    BY <1>0, <2>1, SmallerSubset
  <2>3. Sums(f, A)[r] = Sums(g, S)[r]
    BY <2>1, <2>2
  <2>4. Sums(f, A)[s] = f[pick(s)] + Sums(f, A)[r]
    BY <1>0, SumsExist
  <2>5. Sums(g, S)[s] = g[pick(s)] + Sums(g, S)[r]
    BY <2>1, SumsExist
  <2> QED
    BY <2>1, <2>3, <2>4, <2>5
<1>3. T = Nat
  <2> HIDE DEF T
  <2>1. T \in SUBSET Nat
    BY DEF T
  <2> QED
    BY <1>1, <1>2, <2>1, NatClosed
<1>4. Cardinality(A) \in T
  BY <1>0, <1>3, FS_CardinalityType
<1> QED
  BY <1>0, <1>4, FS_CardinalityType

----------------------------------------------------------------------------
(* The sum                                                                 *)

LEMMA SumEmpty == ASSUME NEW f PROVE SumFunctionOnSet(f, {}) = 0
BY SumIsRecursive, SumsExist, FS_EmptySet

LEMMA SumSame ==
  ASSUME NEW S, IsFiniteSet(S), NEW f, NEW g, \A x \in S : f[x] = g[x]
  PROVE  SumFunctionOnSet(f, S) = SumFunctionOnSet(g, S)
BY SumIsRecursive, SumsAgree

LEMMA SumPick ==
  ASSUME NEW S, IsFiniteSet(S), S # {}, NEW f
  PROVE  SumFunctionOnSet(f, S) = f[pick(S)] + SumFunctionOnSet(f, S \ {pick(S)})
<1>1. Sums(f, S)[S] = f[pick(S)] + Sums(f, S)[S \ {pick(S)}]
  BY SumsExist
<1>2. Sums(f, S \ {pick(S)})[S \ {pick(S)}] = Sums(f, S)[S \ {pick(S)}]
  BY SumsAgree
<1> QED
  BY <1>1, <1>2, SumIsRecursive

(* The sum is an integer, and no less than 0 if no summand is.             *)
LEMMA SumType ==
  ASSUME NEW S, IsFiniteSet(S), NEW f, \A x \in S : f[x] \in Int
  PROVE  /\ SumFunctionOnSet(f, S) \in Int
         /\ (\A x \in S : f[x] >= 0) => SumFunctionOnSet(f, S) >= 0
<1> DEFINE T == {n \in Nat : \A s \in SUBSET S : Cardinality(s) <= n =>
                   /\ SumFunctionOnSet(f, s) \in Int
                   /\ (\A x \in s : f[x] >= 0) => SumFunctionOnSet(f, s) >= 0}
<1>1. 0 \in T
  BY SumEmpty, SmallerSubset
<1>2. ASSUME NEW n \in T PROVE n + 1 \in T
  <2> SUFFICES ASSUME NEW s \in SUBSET S, Cardinality(s) <= n + 1, s # {}
               PROVE  /\ SumFunctionOnSet(f, s) \in Int
                      /\ (\A x \in s : f[x] >= 0) => SumFunctionOnSet(f, s) >= 0
    BY SumEmpty
  <2> DEFINE r == s \ {pick(s)}
  <2>1. pick(s) \in s /\ r \in SUBSET S
    BY PickMember
  <2>2. Cardinality(r) <= n /\ IsFiniteSet(s)
    BY <2>1, SmallerSubset
  <2>3. SumFunctionOnSet(f, s) = f[pick(s)] + SumFunctionOnSet(f, r)
    BY <2>2, SumPick
  <2>4. /\ SumFunctionOnSet(f, r) \in Int
        /\ (\A x \in r : f[x] >= 0) => SumFunctionOnSet(f, r) >= 0
    BY <2>1, <2>2
  <2> QED
    BY <2>1, <2>3, <2>4
<1>3. T = Nat
  <2> HIDE DEF T
  <2>1. T \in SUBSET Nat
    BY DEF T
  <2> QED
    BY <1>1, <1>2, <2>1, NatClosed
<1>4. Cardinality(S) \in T
  BY <1>3, FS_CardinalityType
<1> QED
  BY <1>4, FS_CardinalityType

(* A sum of zeros is zero.                                                 *)
LEMMA SumZero ==
  ASSUME NEW S, IsFiniteSet(S), NEW f, \A x \in S : f[x] = 0
  PROVE  SumFunctionOnSet(f, S) = 0
<1> DEFINE T == {n \in Nat : \A s \in SUBSET S : Cardinality(s) <= n => SumFunctionOnSet(f, s) = 0}
<1>1. 0 \in T
  BY SumEmpty, SmallerSubset
<1>2. ASSUME NEW n \in T PROVE n + 1 \in T
  <2> SUFFICES ASSUME NEW s \in SUBSET S, Cardinality(s) <= n + 1, s # {}
               PROVE  SumFunctionOnSet(f, s) = 0
    BY SumEmpty
  <2>1. IsFiniteSet(s) /\ pick(s) \in s /\ Cardinality(s \ {pick(s)}) <= n
    BY PickMember, SmallerSubset
  <2>2. SumFunctionOnSet(f, s) = f[pick(s)] + SumFunctionOnSet(f, s \ {pick(s)})
    BY <2>1, SumPick
  <2> QED
    BY <2>1, <2>2
<1>3. T = Nat
  <2> HIDE DEF T
  <2>1. T \in SUBSET Nat
    BY DEF T
  <2> QED
    BY <1>1, <1>2, <2>1, NatClosed
<1>4. Cardinality(S) \in T
  BY <1>3, FS_CardinalityType
<1> QED
  BY <1>4, FS_CardinalityType

(* Any element may be added last.                                          *)
LEMMA SumRemove ==
  ASSUME NEW S, IsFiniteSet(S), NEW f, \A x \in S : f[x] \in Int, NEW x \in S
  PROVE  SumFunctionOnSet(f, S) = f[x] + SumFunctionOnSet(f, S \ {x})
<1> DEFINE T == {n \in Nat : \A s \in SUBSET S : Cardinality(s) <= n =>
                   \A y \in s : SumFunctionOnSet(f, s) = f[y] + SumFunctionOnSet(f, s \ {y})}
<1>1. 0 \in T
  BY SmallerSubset
<1>2. ASSUME NEW n \in T PROVE n + 1 \in T
  <2> SUFFICES ASSUME NEW s \in SUBSET S, Cardinality(s) <= n + 1, NEW y \in s
               PROVE  SumFunctionOnSet(f, s) = f[y] + SumFunctionOnSet(f, s \ {y})
    OBVIOUS
  <2> DEFINE p == pick(s)
             both == (s \ {y}) \ {p}
  <2>0. p \in s /\ IsFiniteSet(s)
    BY PickMember, SmallerSubset
  <2>1. SumFunctionOnSet(f, s) = f[p] + SumFunctionOnSet(f, s \ {p})
    BY <2>0, SumPick
  <2>2. CASE y = p
    BY <2>1, <2>2
  <2>3. CASE y # p
    <3> HIDE DEF p
    <3>1. Cardinality(s \ {p}) <= n /\ Cardinality(s \ {y}) <= n
      BY <2>0, SmallerSubset
    <3>2. y \in s \ {p} /\ p \in s \ {y} /\ both = (s \ {p}) \ {y}
      BY <2>0, <2>3
    <3>3. SumFunctionOnSet(f, s \ {p}) = f[y] + SumFunctionOnSet(f, both)
      BY <3>1, <3>2
    <3>4. SumFunctionOnSet(f, s \ {y}) = f[p] + SumFunctionOnSet(f, both)
      BY <3>1, <3>2
    <3>5. f[p] \in Int /\ f[y] \in Int /\ SumFunctionOnSet(f, both) \in Int
      <4>1. IsFiniteSet(both) /\ both \in SUBSET S
        BY <2>0, FS_Subset
      <4> QED
        BY <2>0, <4>1, SumType
    <3> HIDE DEF both
    <3> QED
      BY <2>1, <3>3, <3>4, <3>5
  <2> QED
    BY <2>2, <2>3
<1>3. T = Nat
  <2> HIDE DEF T
  <2>1. T \in SUBSET Nat
    BY DEF T
  <2> QED
    BY <1>1, <1>2, <2>1, NatClosed
<1>4. Cardinality(S) \in T
  BY <1>3, FS_CardinalityType
<1> QED
  BY <1>4, FS_CardinalityType

(* Changing one summand changes the sum by as much.                        *)
LEMMA SumChange ==
  ASSUME NEW S, IsFiniteSet(S), NEW f, NEW g, NEW x \in S,
         \A y \in S : f[y] \in Int /\ g[y] \in Int,
         \A y \in S \ {x} : g[y] = f[y]
  PROVE  /\ SumFunctionOnSet(f, S) \in Int /\ SumFunctionOnSet(g, S) \in Int
         /\ SumFunctionOnSet(g, S) = SumFunctionOnSet(f, S) + (g[x] - f[x])
<1>1. IsFiniteSet(S \ {x})
  BY FS_Subset
<1>2. SumFunctionOnSet(g, S \ {x}) = SumFunctionOnSet(f, S \ {x})
  BY <1>1, SumSame
<1>3. SumFunctionOnSet(f, S) = f[x] + SumFunctionOnSet(f, S \ {x})
  BY SumRemove
<1>4. SumFunctionOnSet(g, S) = g[x] + SumFunctionOnSet(g, S \ {x})
  BY SumRemove
<1>5. SumFunctionOnSet(f, S \ {x}) \in Int
  BY <1>1, SumType
<1> QED
  BY <1>2, <1>3, <1>4, <1>5

(* Renaming the elements does not change the sum.                          *)
LEMMA SumRename ==
  ASSUME NEW A, IsFiniteSet(A), NEW b, NEW f, NEW h,
         \A x, y \in A : b[x] = b[y] => x = y,
         \A x \in A : f[b[x]] \in Int /\ h[x] = f[b[x]]
  PROVE  SumFunctionOnSet(h, A) = SumFunctionOnSet(f, {b[x] : x \in A})
<1> DEFINE Image(s) == {b[x] : x \in s}
           T == {n \in Nat : \A s \in SUBSET A : Cardinality(s) <= n =>
                   SumFunctionOnSet(h, s) = SumFunctionOnSet(f, Image(s))}
<1>1. 0 \in T
  <2>1. \A s \in SUBSET A : Cardinality(s) <= 0 => s = {} /\ Image(s) = {}
    BY SmallerSubset
  <2> HIDE DEF Image
  <2> QED
    BY <2>1, SumEmpty
<1>2. ASSUME NEW n \in T PROVE n + 1 \in T
  <2> SUFFICES ASSUME NEW s \in SUBSET A, Cardinality(s) <= n + 1, s # {}
               PROVE  SumFunctionOnSet(h, s) = SumFunctionOnSet(f, Image(s))
    <3>1. Image({}) = {}
      OBVIOUS
    <3> HIDE DEF Image
    <3> QED
      BY <3>1, SumEmpty
  <2>1. PICK x \in s : TRUE
    OBVIOUS
  <2>2. Cardinality(s \ {x}) <= n /\ IsFiniteSet(s) /\ s \ {x} \in SUBSET A
    BY SmallerSubset
  <2>3. SumFunctionOnSet(h, s) = h[x] + SumFunctionOnSet(h, s \ {x})
    BY <2>2, SumRemove
  <2>4. b[x] \in Image(s) /\ Image(s) \ {b[x]} = Image(s \ {x})
    OBVIOUS
  <2>5. IsFiniteSet(Image(s)) /\ \A y \in Image(s) : f[y] \in Int
    <3> DEFINE c == [y \in s |-> b[y]]
    <3>1. c \in Surjection(s, Image(s))
      BY DEF Surjection
    <3>2. IsFiniteSet(Image(s))
      <4> HIDE DEF c, Image
      <4> QED
        BY <2>2, <3>1, FS_Surjection
    <3> QED
      BY <3>2
  <2> HIDE DEF Image
  <2>6. SumFunctionOnSet(f, Image(s)) = f[b[x]] + SumFunctionOnSet(f, Image(s \ {x}))
    BY <2>4, <2>5, SumRemove
  <2>7. SumFunctionOnSet(h, s \ {x}) = SumFunctionOnSet(f, Image(s \ {x}))
    BY <2>2
  <2> QED
    BY <2>3, <2>6, <2>7
<1>3. T = Nat
  <2> HIDE DEF T
  <2>1. T \in SUBSET Nat
    BY DEF T
  <2> QED
    BY <1>1, <1>2, <2>1, NatClosed
<1>4. Cardinality(A) \in T
  BY <1>3, FS_CardinalityType
<1> QED
  BY <1>4, FS_CardinalityType

----------------------------------------------------------------------------
(* The sum of the weights of the elements of a sequence                    *)

Weight(w, s) == SumFunction([i \in DOMAIN s |-> w[s[i]]])

LEMMA WeightIsSum ==
  ASSUME NEW w, NEW s
  PROVE  Weight(w, s) = SumFunctionOnSet([i \in DOMAIN s |-> w[s[i]]], DOMAIN s)
BY DEF Weight, SumFunction

LEMMA WeightEmpty == ASSUME NEW w PROVE Weight(w, <<>>) = 0
<1>1. DOMAIN <<>> = {}
  OBVIOUS
<1> QED
  BY <1>1, WeightIsSum, SumEmpty

LEMMA WeightType ==
  ASSUME NEW R, NEW w \in [R -> Nat], NEW s \in Seq(R)
  PROVE  Weight(w, s) \in Nat
<1> DEFINE f == [i \in DOMAIN s |-> w[s[i]]]
<1>1. IsFiniteSet(DOMAIN s) /\ \A i \in DOMAIN s : f[i] \in Nat
  BY FS_Interval
<1> HIDE DEF f
<1>2. /\ SumFunctionOnSet(f, DOMAIN s) \in Int
      /\ SumFunctionOnSet(f, DOMAIN s) >= 0
  BY <1>1, SumType
<1> QED
  BY <1>2, WeightIsSum DEF f

LEMMA WeightAppend ==
  ASSUME NEW R, NEW w \in [R -> Nat], NEW s \in Seq(R), NEW r \in R
  PROVE  Weight(w, Append(s, r)) = Weight(w, s) + w[r]
<1> DEFINE t == Append(s, r)
           n == Len(s) + 1
           f == [i \in DOMAIN s |-> w[s[i]]]
           g == [i \in DOMAIN t |-> w[t[i]]]
<1>1. /\ DOMAIN t = 1 .. n /\ DOMAIN s = 1 .. Len(s) /\ Len(s) \in Nat
      /\ t[n] = r /\ \A i \in 1 .. Len(s) : t[i] = s[i] /\ s[i] \in R
  OBVIOUS
<1>2. /\ DOMAIN g = 1 .. n /\ DOMAIN f = 1 .. Len(s) /\ n \in 1 .. n
      /\ g[n] = w[r] /\ \A i \in 1 .. n : g[i] \in Int
      /\ \A i \in 1 .. Len(s) : f[i] = g[i]
      /\ (1 .. n) \ {n} = 1 .. Len(s)
  BY <1>1
<1>3. IsFiniteSet(1 .. n) /\ IsFiniteSet(1 .. Len(s))
  BY <1>1, FS_Interval
<1> HIDE DEF f, g, t
<1>4. SumFunctionOnSet(g, 1 .. n) = g[n] + SumFunctionOnSet(g, (1 .. n) \ {n})
  BY <1>2, <1>3, SumRemove
<1>5. SumFunctionOnSet(g, 1 .. Len(s)) = SumFunctionOnSet(f, 1 .. Len(s))
  BY <1>2, <1>3, SumSame
<1>6. Weight(w, t) = SumFunctionOnSet(g, 1 .. n) /\ Weight(w, s) = SumFunctionOnSet(f, 1 .. Len(s))
  BY <1>1, WeightIsSum DEF f, g
<1>7. SumFunctionOnSet(f, 1 .. Len(s)) \in Int
  BY <1>2, <1>3, SumType
<1>8. Weight(w, t) = w[r] + Weight(w, s)
  BY <1>2, <1>4, <1>5, <1>6
<1>9. w[r] \in Int /\ Weight(w, s) \in Int
  BY <1>6, <1>7
<1> QED
  BY <1>8, <1>9 DEF t

LEMMA WeightTail ==
  ASSUME NEW R, NEW w \in [R -> Nat], NEW s \in Seq(R), s # <<>>
  PROVE  Weight(w, s) = w[Head(s)] + Weight(w, Tail(s))
<1> DEFINE t == Tail(s)
           n == Len(s)
           f == [i \in DOMAIN s |-> w[s[i]]]
           h == [i \in DOMAIN t |-> w[t[i]]]
           b == [i \in 1 .. n - 1 |-> i + 1]
<1>1. /\ DOMAIN s = 1 .. n /\ DOMAIN t = 1 .. n - 1 /\ n \in Nat /\ n >= 1
      /\ s[1] = Head(s) /\ \A i \in 1 .. n - 1 : t[i] = s[i + 1]
      /\ \A i \in 1 .. n : s[i] \in R
  OBVIOUS
<1>2. /\ IsFiniteSet(1 .. n) /\ IsFiniteSet(1 .. n - 1)
  BY <1>1, FS_Interval
<1>3. /\ \A i \in 1 .. n : f[i] \in Int
      /\ \A i \in 1 .. n - 1 : h[i] = f[b[i]] /\ f[b[i]] \in Int
      /\ \A i, j \in 1 .. n - 1 : b[i] = b[j] => i = j
      /\ 1 \in 1 .. n /\ f[1] = w[Head(s)]
  BY <1>1
<1> DEFINE D == 1 .. n
           E == 1 .. n - 1
<1>4. {b[i] : i \in 1 .. n - 1} = (1 .. n) \ {1}
  <2>1. ASSUME NEW k \in (1 .. n) \ {1} PROVE k \in {b[i] : i \in 1 .. n - 1}
    <3>1. k - 1 \in 1 .. n - 1 /\ b[k - 1] = k
      BY <1>1
    <3> QED
      BY <3>1
  <2>2. \A i \in 1 .. n - 1 : b[i] \in (1 .. n) \ {1}
    BY <1>1
  <2> QED
    BY <2>1, <2>2
<1> HIDE DEF f, h, b, t
<1>5. SumFunctionOnSet(f, D) = f[1] + SumFunctionOnSet(f, D \ {1})
  <2>1. IsFiniteSet(D) /\ 1 \in D /\ \A i \in D : f[i] \in Int
    BY <1>2, <1>3
  <2> HIDE DEF D
  <2> QED
    BY <2>1, SumRemove
<1>6. SumFunctionOnSet(h, E) = SumFunctionOnSet(f, {b[i] : i \in E})
  <2>1. /\ IsFiniteSet(E) /\ \A i, j \in E : b[i] = b[j] => i = j
        /\ \A i \in E : f[b[i]] \in Int /\ h[i] = f[b[i]]
    BY <1>2, <1>3
  <2> HIDE DEF E
  <2> QED
    BY <2>1, SumRename
<1>7. Weight(w, s) = SumFunctionOnSet(f, D) /\ Weight(w, t) = SumFunctionOnSet(h, E)
  BY <1>1, WeightIsSum DEF f, h
<1> QED
  BY <1>3, <1>4, <1>5, <1>6, <1>7 DEF t

----------------------------------------------------------------------------
(* What Select() returns                                                   *)

SelectedUpTo(s, K) ==
  CHOOSE g : g = [n \in 0 .. Len(s) |->
                    IF n = 0 THEN <<>>
                    ELSE IF s[n] \in K THEN Append(g[n - 1], s[n]) ELSE g[n - 1]]

LEMMA SelectIsRecursive == ASSUME NEW s, NEW K PROVE Select(s, K) = SelectedUpTo(s, K)[Len(s)]
BY DEF Select, SelectedUpTo

(* There is such a function on the lengths of a sequence: it is made for    *)
(* ever longer prefixes.                                                    *)
LEMMA KeptExists ==
  ASSUME NEW R, NEW s \in Seq(R), NEW K
  PROVE  \A n \in 0 .. Len(s) :
           SelectedUpTo(s, K)[n] = IF n = 0 THEN <<>>
                           ELSE IF s[n] \in K THEN Append(SelectedUpTo(s, K)[n - 1], s[n])
                           ELSE SelectedUpTo(s, K)[n - 1]
<1> DEFINE At(g, n) == IF n = 0 THEN <<>>
                       ELSE IF s[n] \in K THEN Append(g[n - 1], s[n]) ELSE g[n - 1]
           T == {m \in Nat : \E g : \A n \in 0 .. m : g[n] = At(g, n)}
<1>1. 0 \in T
  <2> DEFINE g == [n \in {0} |-> <<>>]
  <2>1. \A n \in 0 .. 0 : g[n] = At(g, n)
    OBVIOUS
  <2> QED
    BY <2>1
<1>2. ASSUME NEW m \in T PROVE m + 1 \in T
  <2>1. PICK g : \A n \in 0 .. m : g[n] = At(g, n)
    BY <1>2
  <2> DEFINE h == [n \in 0 .. m + 1 |-> At(g, n)]
  <2>2. ASSUME NEW n \in 0 .. m + 1 PROVE h[n] = At(h, n)
    <3>1. CASE n = 0
      BY <3>1
    <3>2. CASE n # 0
      <4>1. n - 1 \in 0 .. m
        BY <3>2
      <4>2. h[n - 1] = g[n - 1]
        BY <2>1, <4>1
      <4> QED
        BY <3>2, <4>2
    <3> QED
      BY <3>1, <3>2
  <2>3. \E k : \A n \in 0 .. m + 1 : k[n] = At(k, n)
    BY <2>2
  <2> HIDE DEF At
  <2> QED
    BY <2>3
<1>3. T = Nat
  <2> HIDE DEF T
  <2>1. T \in SUBSET Nat
    BY DEF T
  <2> QED
    BY <1>1, <1>2, <2>1, NatClosed
<1>4. PICK g : \A n \in 0 .. Len(s) : g[n] = At(g, n)
  BY <1>3, LenProperties
<1> DEFINE G == [n \in 0 .. Len(s) |-> g[n]]
<1>5. G = [n \in 0 .. Len(s) |-> At(G, n)]
  BY <1>4, LenProperties
<1>6. \E h : h = [n \in 0 .. Len(s) |-> At(h, n)]
  BY <1>5
<1>7. SelectedUpTo(s, K) = [n \in 0 .. Len(s) |-> At(SelectedUpTo(s, K), n)]
  BY <1>6 DEF SelectedUpTo
<1> QED
  BY <1>7

LEMMA KeptNone ==
  ASSUME NEW R, NEW s \in Seq(R), NEW K
  PROVE  SelectedUpTo(s, K)[0] = <<>>
<1>1. 0 \in 0 .. Len(s)
  BY LenProperties
<1> QED
  BY <1>1, KeptExists

LEMMA SelectEmpty == ASSUME NEW K PROVE Select(<<>>, K) = <<>>
<1> DEFINE s == <<>>
<1>1. s \in Seq({}) /\ Len(s) = 0
  OBVIOUS
<1> HIDE DEF s
<1>2. SelectedUpTo(s, K)[0] = <<>>
  BY <1>1, KeptNone
<1>3. Select(s, K) = <<>>
  BY <1>1, <1>2, SelectIsRecursive
<1> QED
  BY <1>3 DEF s

(* A longer sequence selects what its prefix does.                          *)
LEMMA KeptAgree ==
  ASSUME NEW R, NEW s \in Seq(R), NEW x \in R, NEW K
  PROVE  SelectedUpTo(Append(s, x), K)[Len(s)] = SelectedUpTo(s, K)[Len(s)]
<1> DEFINE l == Append(s, x)
           T == {m \in Nat : m <= Len(s) => SelectedUpTo(l, K)[m] = SelectedUpTo(s, K)[m]}
<1>1. /\ l \in Seq(R) /\ Len(l) = Len(s) + 1 /\ Len(s) \in Nat
      /\ \A n \in 1 .. Len(s) : l[n] = s[n]
  BY AppendProperties, LenProperties
<1> HIDE DEF l
<1>2. 0 \in T
  <2>1. SelectedUpTo(l, K)[0] = <<>> /\ SelectedUpTo(s, K)[0] = <<>>
    BY <1>1, KeptNone
  <2> QED
    BY <2>1
<1>3. ASSUME NEW m \in T PROVE m + 1 \in T
  <2> SUFFICES ASSUME m + 1 <= Len(s) PROVE SelectedUpTo(l, K)[m + 1] = SelectedUpTo(s, K)[m + 1]
    OBVIOUS
  <2>1. m \in Nat /\ m + 1 \in 0 .. Len(s) /\ m + 1 \in 0 .. Len(l) /\ m + 1 # 0 /\ (m + 1) - 1 = m
    BY <1>1
  <2>2. SelectedUpTo(l, K)[m] = SelectedUpTo(s, K)[m] /\ l[m + 1] = s[m + 1]
    BY <1>1, <2>1
  <2>3. SelectedUpTo(l, K)[m + 1] = IF l[m + 1] \in K THEN Append(SelectedUpTo(l, K)[m], l[m + 1]) ELSE SelectedUpTo(l, K)[m]
    BY <1>1, <2>1, KeptExists
  <2>4. SelectedUpTo(s, K)[m + 1] = IF s[m + 1] \in K THEN Append(SelectedUpTo(s, K)[m], s[m + 1]) ELSE SelectedUpTo(s, K)[m]
    BY <1>1, <2>1, KeptExists
  <2> QED
    BY <2>2, <2>3, <2>4
<1>4. T = Nat
  <2> HIDE DEF T
  <2>1. T \in SUBSET Nat
    BY DEF T
  <2> QED
    BY <1>2, <1>3, <2>1, NatClosed
<1>5. Len(s) \in T
  BY <1>1, <1>4
<1> QED
  BY <1>5 DEF l

(* One more element is kept if it is in the set, after the others.          *)
LEMMA SelectAppend ==
  ASSUME NEW R, NEW s \in Seq(R), NEW x \in R, NEW K
  PROVE  Select(Append(s, x), K) = IF x \in K THEN Append(Select(s, K), x) ELSE Select(s, K)
<1> DEFINE l == Append(s, x)
<1>1. /\ l \in Seq(R) /\ Len(l) = Len(s) + 1 /\ Len(s) \in Nat /\ l[Len(s) + 1] = x
  BY AppendProperties, LenProperties
<1>2. SelectedUpTo(l, K)[Len(s)] = SelectedUpTo(s, K)[Len(s)]
  BY KeptAgree
<1> HIDE DEF l
<1>3. Len(l) \in 0 .. Len(l) /\ Len(l) # 0 /\ Len(l) - 1 = Len(s) /\ l[Len(l)] = x
  BY <1>1
<1>4. SelectedUpTo(l, K)[Len(l)] = IF x \in K THEN Append(SelectedUpTo(l, K)[Len(s)], x) ELSE SelectedUpTo(l, K)[Len(s)]
  BY <1>1, <1>3, KeptExists
<1>5. Select(l, K) = IF x \in K THEN Append(Select(s, K), x) ELSE Select(s, K)
  BY <1>2, <1>4, SelectIsRecursive
<1> QED
  BY <1>5 DEF l

(* What is selected is a sequence again.                                    *)
LEMMA SelectType ==
  ASSUME NEW R, NEW s \in Seq(R), NEW K
  PROVE  Select(s, K) \in Seq(R)
<1> DEFINE T == {m \in Nat : m <= Len(s) => SelectedUpTo(s, K)[m] \in Seq(R)}
<1>1. Len(s) \in Nat
  BY LenProperties
<1>2. 0 \in T
  <2>1. SelectedUpTo(s, K)[0] = <<>> /\ <<>> \in Seq(R)
    BY KeptNone
  <2> QED
    BY <2>1
<1>3. ASSUME NEW m \in T PROVE m + 1 \in T
  <2> SUFFICES ASSUME m + 1 <= Len(s) PROVE SelectedUpTo(s, K)[m + 1] \in Seq(R)
    OBVIOUS
  <2>1. m \in Nat /\ m + 1 \in 0 .. Len(s) /\ m + 1 # 0 /\ (m + 1) - 1 = m
    BY <1>1
  <2>2. SelectedUpTo(s, K)[m] \in Seq(R) /\ s[m + 1] \in R
    BY <1>1, <2>1, ElementOfSeq
  <2>3. SelectedUpTo(s, K)[m + 1] = IF s[m + 1] \in K THEN Append(SelectedUpTo(s, K)[m], s[m + 1]) ELSE SelectedUpTo(s, K)[m]
    BY <1>1, <2>1, KeptExists
  <2> QED
    BY <2>2, <2>3, AppendProperties
<1>4. T = Nat
  <2> HIDE DEF T
  <2>1. T \in SUBSET Nat
    BY DEF T
  <2> QED
    BY <1>2, <1>3, <2>1, NatClosed
<1>5. Len(s) \in T
  BY <1>1, <1>4
<1> QED
  BY <1>1, <1>5, SelectIsRecursive

(* Only members of the set are selected.                                    *)
LEMMA SelectOnly ==
  ASSUME NEW R, NEW s \in Seq(R), NEW K
  PROVE  Select(s, K) \in Seq(R \cap K)
<1> DEFINE T == {m \in Nat : m <= Len(s) => SelectedUpTo(s, K)[m] \in Seq(R \cap K)}
<1>1. Len(s) \in Nat
  BY LenProperties
<1>2. 0 \in T
  <2>1. SelectedUpTo(s, K)[0] = <<>> /\ <<>> \in Seq(R \cap K)
    BY KeptNone
  <2> QED
    BY <2>1
<1>3. ASSUME NEW m \in T PROVE m + 1 \in T
  <2> SUFFICES ASSUME m + 1 <= Len(s) PROVE SelectedUpTo(s, K)[m + 1] \in Seq(R \cap K)
    OBVIOUS
  <2>1. m \in Nat /\ m + 1 \in 0 .. Len(s) /\ m + 1 # 0 /\ (m + 1) - 1 = m
    BY <1>1
  <2>2. SelectedUpTo(s, K)[m] \in Seq(R \cap K) /\ s[m + 1] \in R
    BY <1>1, <2>1, ElementOfSeq
  <2>3. SelectedUpTo(s, K)[m + 1] = IF s[m + 1] \in K THEN Append(SelectedUpTo(s, K)[m], s[m + 1]) ELSE SelectedUpTo(s, K)[m]
    BY <1>1, <2>1, KeptExists
  <2> QED
    BY <2>2, <2>3, AppendProperties
<1>4. T = Nat
  <2> HIDE DEF T
  <2>1. T \in SUBSET Nat
    BY DEF T
  <2> QED
    BY <1>2, <1>3, <2>1, NatClosed
<1>5. Len(s) \in T
  BY <1>1, <1>4
<1> QED
  BY <1>1, <1>5, SelectIsRecursive

----------------------------------------------------------------------------
(* What FlattenSeq returns                                                 *)

Flat(s) == CHOOSE g : g = [i \in 1 .. Len(s) |-> IF i = 1 THEN s[i] ELSE g[i - 1] \o s[i]]

LEMMA FlattenIsRecursive ==
  ASSUME NEW s, Len(s) # 0
  PROVE  FlattenSeq(s) = Flat(s)[Len(s)]
BY DEF FlattenSeq, Flat

LEMMA FlatExists ==
  ASSUME NEW R, NEW s \in Seq(Seq(R))
  PROVE  \A i \in 1 .. Len(s) : Flat(s)[i] = IF i = 1 THEN s[i] ELSE Flat(s)[i - 1] \o s[i]
<1> DEFINE At(g, i) == IF i = 1 THEN s[i] ELSE g[i - 1] \o s[i]
           T == {m \in Nat : \E g : \A i \in 1 .. m : g[i] = At(g, i)}
<1>1. 0 \in T
  OBVIOUS
<1>2. ASSUME NEW m \in T PROVE m + 1 \in T
  <2>1. PICK g : \A i \in 1 .. m : g[i] = At(g, i)
    BY <1>2
  <2> DEFINE h == [i \in 1 .. m + 1 |-> At(g, i)]
  <2>2. ASSUME NEW i \in 1 .. m + 1 PROVE h[i] = At(h, i)
    <3>1. CASE i = 1
      BY <3>1
    <3>2. CASE i # 1
      <4>1. i - 1 \in 1 .. m
        BY <3>2
      <4>2. h[i - 1] = g[i - 1]
        BY <2>1, <4>1
      <4> QED
        BY <3>2, <4>2
    <3> QED
      BY <3>1, <3>2
  <2>3. \E k : \A i \in 1 .. m + 1 : k[i] = At(k, i)
    BY <2>2
  <2> HIDE DEF At
  <2> QED
    BY <2>3
<1>3. T = Nat
  <2> HIDE DEF T
  <2>1. T \in SUBSET Nat
    BY DEF T
  <2> QED
    BY <1>1, <1>2, <2>1, NatClosed
<1>4. PICK g : \A i \in 1 .. Len(s) : g[i] = At(g, i)
  BY <1>3, LenProperties
<1> DEFINE G == [i \in 1 .. Len(s) |-> g[i]]
<1>5. G = [i \in 1 .. Len(s) |-> At(G, i)]
  BY <1>4, LenProperties
<1>6. \E h : h = [i \in 1 .. Len(s) |-> At(h, i)]
  BY <1>5
<1>7. Flat(s) = [i \in 1 .. Len(s) |-> At(Flat(s), i)]
  BY <1>6 DEF Flat
<1> QED
  BY <1>7

(* The prefix of a longer sequence is flattened the same.                  *)
LEMMA FlatAgree ==
  ASSUME NEW R, NEW s \in Seq(Seq(R)), NEW x \in Seq(R), Len(s) > 0
  PROVE  Flat(Append(s, x))[Len(s)] = Flat(s)[Len(s)] /\ Flat(s)[Len(s)] \in Seq(R)
<1> DEFINE l == Append(s, x)
           T == {m \in Nat : m + 1 <= Len(s) => /\ Flat(l)[m + 1] = Flat(s)[m + 1]
                                               /\ Flat(s)[m + 1] \in Seq(R)}
<1>1. /\ l \in Seq(Seq(R)) /\ Len(l) = Len(s) + 1 /\ Len(s) \in Nat
      /\ \A i \in 1 .. Len(s) : l[i] = s[i] /\ s[i] \in Seq(R)
  BY AppendProperties, LenProperties, ElementOfSeq
<1> HIDE DEF l
<1>2. 0 \in T
  <2>1. 1 \in 1 .. Len(s) /\ 1 \in 1 .. Len(l)
    BY <1>1
  <2>2. Flat(l)[1] = l[1] /\ Flat(s)[1] = s[1]
    BY <1>1, <2>1, FlatExists
  <2> QED
    BY <1>1, <2>1, <2>2
<1>3. ASSUME NEW m \in T PROVE m + 1 \in T
  <2> SUFFICES ASSUME m + 2 <= Len(s)
               PROVE  Flat(l)[m + 2] = Flat(s)[m + 2] /\ Flat(s)[m + 2] \in Seq(R)
    OBVIOUS
  <2>1. m \in Nat /\ m + 2 \in 1 .. Len(s) /\ m + 2 \in 1 .. Len(l) /\ m + 2 # 1 /\ (m + 2) - 1 = m + 1
        /\ m + 1 <= Len(s)
    BY <1>1
  <2>2. Flat(l)[m + 1] = Flat(s)[m + 1] /\ Flat(s)[m + 1] \in Seq(R)
        /\ l[m + 2] = s[m + 2] /\ s[m + 2] \in Seq(R)
    BY <1>1, <1>3, <2>1
  <2>3. Flat(l)[m + 2] = Flat(l)[m + 1] \o l[m + 2]
    BY <1>1, <2>1, FlatExists
  <2>4. Flat(s)[m + 2] = Flat(s)[m + 1] \o s[m + 2]
    BY <1>1, <2>1, FlatExists
  <2> QED
    BY <2>2, <2>3, <2>4, ConcatProperties
<1>4. T = Nat
  <2> HIDE DEF T
  <2>1. T \in SUBSET Nat
    BY DEF T
  <2> QED
    BY <1>2, <1>3, <2>1, NatClosed
<1>5. Len(s) - 1 \in Nat /\ Len(s) - 1 + 1 = Len(s)
  BY <1>1
<1>6. Len(s) - 1 \in T
  BY <1>4, <1>5
<1> QED
  BY <1>5, <1>6 DEF l

LEMMA FlattenOne == ASSUME NEW R, NEW x \in Seq(R) PROVE FlattenSeq(<<x>>) = x
<1> DEFINE s == <<x>>
<1>1. s \in Seq(Seq(R)) /\ Len(s) = 1 /\ s[1] = x /\ 1 \in 1 .. Len(s)
  OBVIOUS
<1> HIDE DEF s
<1>2. Flat(s)[1] = x
  BY <1>1, FlatExists
<1>3. FlattenSeq(s) = x
  <2>1. Len(s) # 0 => FlattenSeq(s) = Flat(s)[Len(s)]
    BY FlattenIsRecursive
  <2> QED
    BY <1>1, <1>2, <2>1
<1> QED
  BY <1>3 DEF s

(* One more sequence comes behind the others.                              *)
LEMMA FlattenAppend ==
  ASSUME NEW R, NEW s \in Seq(Seq(R)), NEW x \in Seq(R), Len(s) > 0
  PROVE  FlattenSeq(Append(s, x)) = FlattenSeq(s) \o x /\ FlattenSeq(s) \in Seq(R)
<1> DEFINE l == Append(s, x)
<1>1. /\ l \in Seq(Seq(R)) /\ Len(l) = Len(s) + 1 /\ Len(s) \in Nat /\ l[Len(s) + 1] = x
  BY AppendProperties, LenProperties
<1>2. Flat(l)[Len(s)] = Flat(s)[Len(s)] /\ Flat(s)[Len(s)] \in Seq(R)
  BY FlatAgree
<1> HIDE DEF l
<1>3. Len(l) \in 1 .. Len(l) /\ Len(l) # 1 /\ Len(l) - 1 = Len(s) /\ l[Len(l)] = x /\ Len(l) # 0 /\ Len(s) # 0
  BY <1>1
<1>4. Flat(l)[Len(l)] = Flat(l)[Len(s)] \o x
  BY <1>1, <1>3, FlatExists
<1>5. FlattenSeq(l) = FlattenSeq(s) \o x /\ FlattenSeq(s) \in Seq(R)
  BY <1>2, <1>3, <1>4, FlattenIsRecursive
<1> QED
  BY <1>5 DEF l

(* What the concatenation of two sequences holds.                          *)
LEMMA ToSetConcat ==
  ASSUME NEW R, NEW a \in Seq(R), NEW b \in Seq(R)
  PROVE  a \o b \in Seq(R) /\ ToSet(a) \subseteq ToSet(a \o b) /\ ToSet(b) \subseteq ToSet(a \o b)
<1>1. /\ a \o b \in Seq(R) /\ Len(a \o b) = Len(a) + Len(b) /\ Len(a) \in Nat /\ Len(b) \in Nat
      /\ \A i \in 1 .. Len(a) : (a \o b)[i] = a[i]
      /\ \A i \in 1 .. Len(b) : (a \o b)[Len(a) + i] = b[i]
  BY ConcatProperties, LenProperties
<1>2. DOMAIN a = 1 .. Len(a) /\ DOMAIN b = 1 .. Len(b) /\ DOMAIN (a \o b) = 1 .. Len(a) + Len(b)
  BY <1>1, LenProperties
<1>3. ASSUME NEW i \in 1 .. Len(a) PROVE a[i] \in ToSet(a \o b)
  BY <1>1, <1>2 DEF ToSet
<1>4. ASSUME NEW i \in 1 .. Len(b) PROVE b[i] \in ToSet(a \o b)
  <2>1. Len(a) + i \in DOMAIN (a \o b)
    BY <1>1, <1>2
  <2> QED
    BY <1>1, <2>1 DEF ToSet
<1> QED
  BY <1>1, <1>2, <1>3, <1>4 DEF ToSet

(* Every element of every sequence is in it.                               *)
LEMMA FlattenHolds ==
  ASSUME NEW R, NEW s \in Seq(Seq(R)), Len(s) # 0
  PROVE  /\ FlattenSeq(s) \in Seq(R)
         /\ \A n \in 1 .. Len(s) : ToSet(s[n]) \subseteq ToSet(FlattenSeq(s))
<1>1. Len(s) \in Nat /\ \A n \in 1 .. Len(s) : s[n] \in Seq(R)
  <2>1. ASSUME NEW Q, NEW q \in Seq(Q) PROVE Len(q) \in Nat /\ \A n \in 1 .. Len(q) : q[n] \in Q
    BY LenProperties, ElementOfSeq
  <2> QED
    BY <2>1
<1> DEFINE All(m) == \A n \in 1 .. m : ToSet(s[n]) \subseteq ToSet(Flat(s)[m])
           T == {m \in Nat : m + 1 <= Len(s) => Flat(s)[m + 1] \in Seq(R) /\ All(m + 1)}
<1>2. 0 \in T
  <2>1. 1 \in 1 .. Len(s)
    BY <1>1
  <2>2. Flat(s)[1] = s[1]
    BY <2>1, FlatExists
  <2> QED
    BY <1>1, <2>1, <2>2
<1>3. ASSUME NEW m \in T PROVE m + 1 \in T
  <2>1. m \in Nat /\ m + 1 \in Nat /\ (m + 1) + 1 = m + 2
    OBVIOUS
  <2> SUFFICES ASSUME m + 2 <= Len(s) PROVE Flat(s)[m + 2] \in Seq(R) /\ All(m + 2)
    BY <2>1
  <2>2. m \in Nat /\ m + 2 \in 1 .. Len(s) /\ m + 2 # 1 /\ (m + 2) - 1 = m + 1 /\ m + 1 <= Len(s)
    BY <1>1
  <2>3. Flat(s)[m + 1] \in Seq(R) /\ All(m + 1) /\ s[m + 2] \in Seq(R)
    BY <1>1, <1>3, <2>2
  <2>4. Flat(s)[m + 2] = Flat(s)[m + 1] \o s[m + 2]
    BY <2>2, FlatExists
  <2>5. /\ Flat(s)[m + 2] \in Seq(R) /\ ToSet(Flat(s)[m + 1]) \subseteq ToSet(Flat(s)[m + 2])
        /\ ToSet(s[m + 2]) \subseteq ToSet(Flat(s)[m + 2])
    BY ToSetConcat, <2>3, <2>4
  <2>6. \A n \in 1 .. m + 2 : n \in 1 .. m + 1 \/ n = m + 2
    BY <2>2
  <2> QED
    BY <2>3, <2>5, <2>6
<1>4. T = Nat
  <2> HIDE DEF T
  <2>1. T \in SUBSET Nat
    BY DEF T
  <2> QED
    BY <1>2, <1>3, <2>1, NatClosed
<1>5. Len(s) - 1 \in T /\ (Len(s) - 1) + 1 = Len(s)
  <2> HIDE DEF T
  <2> QED
    BY <1>1, <1>4
<1>6. Flat(s)[Len(s)] \in Seq(R) /\ All(Len(s))
  BY <1>5
<1> QED
  BY <1>6, FlattenIsRecursive

============================================================================
