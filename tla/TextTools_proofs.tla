-------------------------- MODULE TextTools_proofs --------------------------
(***************************************************************************)
(* What holds of the text tools for every stream, every budget and every   *)
(* batch of edits: a view that lost rows is within its budget, counts what *)
(* it lost and keeps its last rows; an outline has every line that shows   *)
(* anything in one group, under its own number, and read_block finds it    *)
(* there; and an accepted batch does to the file what its spans name and   *)
(* nothing else.                                                           *)
(*                                                                         *)
(* The functions of the two tools are folds over sequences and sets of     *)
(* positions, and induction is over data here.  A lemma about a fold has   *)
(* the same shape everywhere: the values it takes after each element are a *)
(* function "run" from positions (the library's fold is the last of them), *)
(* which is an induction over Nat on a set, not on an operator.            *)
(***************************************************************************)
EXTENDS TextTools, FiniteSetTheorems, SequenceTheorems, WellFoundedInduction, TLAPS


-----------------------------------------------------------------------------
(* Numbers and folds.                                                      *)

\* Induction, over a set of numbers.
LEMMA UpFromZero ==
    ASSUME NEW G, 0 \in G, \A n \in Nat : n \in G => n + 1 \in G
    PROVE  \A n \in Nat : n \in G
<1> SUFFICES ASSUME NEW k \in Nat, k \notin G PROVE FALSE
  OBVIOUS
<1> DEFINE R == OpToRel(<, Nat)
           T == Nat \ G
<1>1. IsWellFoundedOn(R, Nat)
  BY NatLessThanWellFounded, Zenon
<1>2. \A x, y \in Nat : y < x => <<y, x>> \in R
  BY DEF OpToRel
<1>3. T \subseteq Nat /\ T # {}
  OBVIOUS
<1> HIDE DEF R
<1>4. PICK x \in T : \A y \in T : ~(<<y, x>> \in R)
  BY <1>1, <1>3, WFMin
<1>5. x \in Nat /\ x # 0
  BY <1>4
<1>6. x - 1 \in Nat /\ x - 1 < x
  BY <1>5
<1>7. x - 1 \in G
  BY <1>2, <1>4, <1>5, <1>6
<1> QED BY <1>4, <1>5, <1>6, <1>7

\* What holds at the top and is handed down by a step holds everywhere below.
LEMMA DownFrom ==
    ASSUME NEW n \in Nat, NEW G, n \in G, \A k \in 1..n : k \in G => k - 1 \in G
    PROVE  \A k \in 0..n : k \in G
<1> DEFINE H == {j \in Nat : j <= n => n - j \in G}
<1>1. 0 \in H
  OBVIOUS
<1>2. ASSUME NEW j \in Nat, j \in H PROVE j + 1 \in H
  <2>1. CASE j + 1 <= n
    <3>1. n - j \in 1..n /\ n - j \in G
      BY <1>2, <2>1
    <3>2. (n - j) - 1 \in G
      BY <3>1
    <3>3. (n - j) - 1 = n - (j + 1)
      OBVIOUS
    <3> QED BY <3>2, <3>3
  <2> QED BY <2>1
<1> HIDE DEF H
<1>3. \A j \in Nat : j \in H
  BY <1>1, <1>2, UpFromZero
<1>4. ASSUME NEW k \in 0..n PROVE k \in G
  <2>1. n - k \in Nat /\ n - k <= n /\ n - (n - k) = k
    OBVIOUS
  <2> QED BY <1>3, <2>1 DEF H
<1> QED BY <1>4

\* A bounded set of numbers has a greatest and a least element: Max and Min are elements.
LEMMA MaxIn ==
    ASSUME NEW n \in Nat, NEW A, A \subseteq 0..n, A # {}
    PROVE  Max(A) \in A /\ \A i \in A : i <= Max(A)
<1> DEFINE G == {k \in Nat : \A i \in A : i <= k}
<1>1. \E m \in A : \A i \in A : i <= m
  <2> SUFFICES ASSUME \A m \in A : \E i \in A : ~(i <= m) PROVE FALSE
    OBVIOUS
  <2>1. n \in G
    OBVIOUS
  <2>2. ASSUME NEW k \in 1..n, k \in G PROVE k - 1 \in G
    <3>1. k \notin A
      BY <2>2
    <3> QED BY <2>2, <3>1
  <2>3. \A k \in 0..n : k \in G
    <3> HIDE DEF G
    <3> QED BY <2>1, <2>2, DownFrom
  <2>4. \A i \in A : i = 0
    BY <2>3
  <2>5. PICK m \in A : TRUE
    OBVIOUS
  <2>6. PICK i \in A : ~(i <= m)
    OBVIOUS
  <2> QED BY <2>4, <2>5, <2>6
<1>2. \A i, m \in A : i <= m <=> m >= i
  OBVIOUS
<1> QED BY <1>1, <1>2 DEF Max

LEMMA MinIn ==
    ASSUME NEW A, A \subseteq Nat, A # {}
    PROVE  Min(A) \in A /\ \A i \in A : Min(A) <= i
<1>1. \E m \in A : \A i \in A : m <= i
  <2> SUFFICES ASSUME \A m \in A : \E i \in A : ~(m <= i) PROVE FALSE
    OBVIOUS
  <2> DEFINE G == {k \in Nat : \A i \in A : k <= i}
  <2>1. 0 \in G
    OBVIOUS
  <2>2. ASSUME NEW k \in Nat, k \in G PROVE k + 1 \in G
    BY <2>2
  <2>3. \A k \in Nat : k \in G
    <3> HIDE DEF G
    <3> QED BY <2>1, <2>2, UpFromZero
  <2>4. PICK m \in A : TRUE
    OBVIOUS
  <2>5. m + 1 \in G /\ m \in Nat
    BY <2>3, <2>4
  <2> QED BY <2>4, <2>5
<1> QED BY <1>1 DEF Min

LEMMA MaxIs ==
    ASSUME NEW A, A \subseteq Int, NEW m \in A, \A i \in A : i <= m
    PROVE  Max(A) = m
<1>1. PICK x : x = CHOOSE y \in A : \A i \in A : y >= i
  OBVIOUS
<1>2. m >= m /\ \A i \in A : m >= i
  OBVIOUS
<1>3. x \in A /\ \A i \in A : x >= i
  BY <1>1, <1>2
<1>4. x >= m /\ x <= m /\ x \in Int /\ m \in Int
  BY <1>3
<1> QED BY <1>1, <1>4 DEF Max

LEMMA MinIs ==
    ASSUME NEW A, A \subseteq Int, NEW m \in A, \A i \in A : m <= i
    PROVE  Min(A) = m
<1>1. PICK x : x = CHOOSE y \in A : \A i \in A : y <= i
  OBVIOUS
<1>3. x \in A /\ \A i \in A : x <= i
  BY <1>1
<1>4. x >= m /\ x <= m /\ x \in Int /\ m \in Int
  BY <1>3
<1> QED BY <1>1, <1>4 DEF Min

-----------------------------------------------------------------------------
\* A fold over a finite set has a value, whatever it folds and in whatever order.
Chooses(next, S) == \A T \in SUBSET S : T # {} => next[T] \in T
StepsIn(step, S, V) == \A x \in S, v \in V : step[<<x, v>>] \in V
FoldedBy(it, S, V, base, next, step) ==
  /\ it \in [SUBSET S -> V]
  /\ \A T \in SUBSET S : it[T] = IF T = {} THEN base ELSE step[<<next[T], it[T \ {next[T]}]>>]

LEMMA FoldHasValue ==
    ASSUME NEW S, IsFiniteSet(S), NEW V, NEW base \in V, NEW next, Chooses(next, S),
           NEW step, StepsIn(step, S, V)
    PROVE  \E it : FoldedBy(it, S, V, base, next, step)
<1> USE DEF Chooses, StepsIn
<1> DEFINE Val(it, T) == IF T = {} THEN base ELSE step[<<next[T], it[T \ {next[T]}]>>]
           Good(it, m) == \A T \in SUBSET S : Cardinality(T) <= m => it[T] = Val(it, T)
           G == {m \in Nat : \E it \in [SUBSET S -> V] : Good(it, m)}
<1>0. \A T \in SUBSET S : IsFiniteSet(T) /\ Cardinality(T) \in Nat
  BY FS_Subset, FS_CardinalityType
<1>1. 0 \in G
  <2>1. \A T \in SUBSET S : Cardinality(T) <= 0 => T = {}
    BY <1>0, FS_EmptySet
  <2>2. Good([T \in SUBSET S |-> base], 0)
    BY <2>1
  <2> QED BY <2>2
<1>2. ASSUME NEW m \in Nat, m \in G PROVE m + 1 \in G
  <2>1. PICK it \in [SUBSET S -> V] : Good(it, m)
    BY <1>2
  <2>2. PICK new : new = [T \in SUBSET S |-> IF Cardinality(T) <= m THEN it[T] ELSE Val(it, T)]
    OBVIOUS
  <2>3. new \in [SUBSET S -> V]
    <3>1. ASSUME NEW T \in SUBSET S PROVE Val(it, T) \in V
      <4>1. CASE T = {}
        BY <4>1
      <4>2. CASE T # {}
        <5>1. next[T] \in S /\ it[T \ {next[T]}] \in V
          BY <4>2
        <5> QED BY <4>2, <5>1
      <4> QED BY <4>1, <4>2
    <3> HIDE DEF Val
    <3> QED BY <2>2, <3>1
  <2>4. ASSUME NEW T \in SUBSET S, Cardinality(T) <= m + 1 PROVE new[T] = Val(new, T)
    <3>1. CASE T = {}
      <4>1. Cardinality(T) <= m
        BY <3>1, FS_EmptySet
      <4> QED BY <2>1, <2>2, <3>1, <4>1
    <3>2. CASE T # {}
      <4> DEFINE U == T \ {next[T]}
      <4>1. U \in SUBSET S /\ Cardinality(U) = Cardinality(T) - 1
        BY <1>0, <3>2, FS_RemoveElement
      <4>2. Cardinality(U) <= m
        BY <1>0, <2>4, <4>1
      <4>3. new[U] = it[U]
        BY <2>2, <4>1, <4>2
      <4>4. Val(new, T) = Val(it, T)
        BY <3>2, <4>3
      <4>5. new[T] = Val(it, T)
        BY <2>1, <2>2
      <4> QED BY <4>4, <4>5
    <3> QED BY <3>1, <3>2
  <2>5. Good(new, m + 1)
    BY <2>4
  <2> HIDE DEF Good
  <2> QED BY <2>3, <2>5
<1>3. Cardinality(S) \in G
  <2> HIDE DEF G
  <2> QED BY <1>0, <1>1, <1>2, UpFromZero
<1>4. PICK it \in [SUBSET S -> V] : Good(it, Cardinality(S))
  BY <1>3
<1>5. \A T \in SUBSET S : Cardinality(T) <= Cardinality(S)
  BY FS_Subset
<1> QED BY <1>4, <1>5 DEF FoldedBy

-----------------------------------------------------------------------------
(* The width of rows.                                                      *)

\* The form in which the two folds over a sequence use it.
\* "it" is the fold of step from the left over the first n positions.
FoldedLeft(it, n, V, base, step) ==
  /\ it \in [SUBSET (1..n) -> V]
  /\ \A T \in SUBSET (1..n) :
       it[T] = IF T = {} THEN base ELSE step[<<Max(T), it[T \ {Max(T)}]>>]

LEMMA LeftFoldHasValue ==
    ASSUME NEW n \in Nat, NEW V, NEW base \in V, NEW step, StepsIn(step, 1..n, V)
    PROVE  \E it : FoldedLeft(it, n, V, base, step)
<1>1. PICK next : next = [T \in SUBSET (1..n) |-> Max(T)]
  OBVIOUS
<1>2. Chooses(next, 1..n)
  <2>1. ASSUME NEW T \in SUBSET (1..n), T # {} PROVE next[T] \in T
    <3>1. T \subseteq 0..n
      OBVIOUS
    <3> QED BY <1>1, <2>1, <3>1, MaxIn
  <2> QED BY <2>1 DEF Chooses
<1>3. IsFiniteSet(1..n)
  BY FS_Interval
<1>4. PICK it : FoldedBy(it, 1..n, V, base, next, step)
  BY <1>2, <1>3, FoldHasValue
<1>5. \A T \in SUBSET (1..n) : next[T] = Max(T)
  BY <1>1
<1>6. /\ it \in [SUBSET (1..n) -> V]
      /\ \A T \in SUBSET (1..n) :
           it[T] = IF T = {} THEN base ELSE step[<<next[T], it[T \ {next[T]}]>>]
  BY <1>4 DEF FoldedBy
<1>7. ASSUME NEW T \in SUBSET (1..n)
      PROVE  it[T] = IF T = {} THEN base ELSE step[<<Max(T), it[T \ {Max(T)}]>>]
  BY <1>5, <1>6
<1> QED BY <1>6, <1>7 DEF FoldedLeft

\* What a fold from the left has seen after k elements, and one from the right before it.
LEMMA Positions ==
    ASSUME NEW n \in Nat, NEW k \in 1..n
    PROVE  /\ 1..k \in SUBSET (1..n) /\ 1..k # {} /\ Max(1..k) = k /\ (1..k) \ {k} = 1..(k - 1)
           /\ k..n \in SUBSET (1..n) /\ k..n # {} /\ Min(k..n) = k /\ (k..n) \ {k} = (k + 1)..n
<1>1. Max(1..k) = k
  <2>1. 1..k \subseteq Int /\ k \in 1..k /\ \A i \in 1..k : i <= k
    OBVIOUS
  <2> QED BY <2>1, MaxIs
<1>2. Min(k..n) = k
  <2>1. k..n \subseteq Int /\ k \in k..n /\ \A i \in k..n : k <= i
    OBVIOUS
  <2> QED BY <2>1, MinIs
<1> QED BY <1>1, <1>2

\* The widths of the first rows added up, row by row.
Adds(rows, sum) ==
  /\ sum \in [0..Len(rows) -> Nat] /\ sum[0] = 0
  /\ \A k \in 1..Len(rows) : sum[k] = sum[k - 1] + rows[k].width

Wide(R) == \A r \in R : r.width \in Nat

LEMMA RowsWidthIs ==
    ASSUME NEW R, Wide(R), NEW rows \in Seq(R), rows # <<>>
    PROVE  \E sum : Adds(rows, sum) /\ RowsWidth(rows) = sum[Len(rows)] + Len(rows) - 1
<1> DEFINE n == Len(rows)
           At0 == n - 1
<1>1. n \in Nat \ {0} /\ DOMAIN rows = 1..n /\ \A k \in 1..n : rows[k].width \in Nat
  BY DEF Wide
<1>2. PICK step : step = [p \in (1..n) \X Nat |-> p[2] + rows[p[1]].width]
  OBVIOUS
<1>3. \A k \in 1..n, v \in Nat : step[<<k, v>>] = v + rows[k].width /\ step[<<k, v>>] \in Nat
  BY <1>1, <1>2
<1>4. PICK it : FoldedLeft(it, n, Nat, n - 1, step)
  <2>1. n - 1 \in Nat
    BY <1>1
  <2>2. StepsIn(step, 1..n, Nat)
    BY <1>3, Zenon DEF StepsIn
  <2> HIDE DEF n
  <2> QED BY <1>1, <2>1, <2>2, LeftFoldHasValue
<1> DEFINE Is(f) == f = [T \in SUBSET DOMAIN rows |->
                           IF T = {} THEN n - 1 ELSE f[T \ {Max(T)}] + rows[Max(T)].width]
<1>5. Is(it)
  <2>1. ASSUME NEW T \in SUBSET (1..n)
        PROVE  it[T] = IF T = {} THEN n - 1 ELSE it[T \ {Max(T)}] + rows[Max(T)].width
    <3>1. CASE T # {}
      <4>1. Max(T) \in 1..n
        <5>1. T \subseteq 0..n /\ n \in Nat
          BY <1>1
        <5> QED BY <3>1, <5>1, MaxIn
      <4>2. it[T \ {Max(T)}] \in Nat
        BY <1>4 DEF FoldedLeft
      <4> QED BY <1>3, <1>4, <3>1, <4>1, <4>2 DEF FoldedLeft
    <3> QED BY <1>4, <3>1 DEF FoldedLeft
  <2> QED BY <1>1, <1>4, <2>1 DEF FoldedLeft
<1>6. PICK f : f = CHOOSE h : Is(h)
  OBVIOUS
<1>7. Is(f)
  BY <1>5, <1>6
<1>8. RowsWidth(rows) = f[1..n]
  BY <1>1, <1>6 DEF RowsWidth, FoldLeft, MapThenFoldSet
<1> HIDE DEF n
<1>9. f[1..0] = n - 1 /\ \A k \in 1..n : f[1..k] = f[1..(k - 1)] + rows[k].width
  <2>1. \A T \in SUBSET (1..n) : f[T] = IF T = {} THEN n - 1 ELSE f[T \ {Max(T)}] + rows[Max(T)].width
    BY <1>1, <1>7
  <2>2. 1..0 = {} /\ {} \in SUBSET (1..n)
    OBVIOUS
  <2>3. ASSUME NEW k \in 1..n PROVE f[1..k] = f[1..(k - 1)] + rows[k].width
    <3>1. /\ 1..k \in SUBSET (1..n) /\ 1..k # {} /\ Max(1..k) = k
          /\ (1..k) \ {k} = 1..(k - 1)
      BY <1>1, Positions
    <3> QED BY <2>1, <3>1
  <2> QED BY <2>1, <2>2, <2>3
<1>10. PICK sum : sum = [k \in 0..n |-> f[1..k] - (n - 1)]
  OBVIOUS
<1> DEFINE G == {k \in Nat : k <= n => f[1..k] - (n - 1) \in Nat /\ f[1..k] \in Nat}
<1>11. \A k \in Nat : k \in G
  <2>1. 0 \in G
    BY <1>1, <1>9
  <2>2. ASSUME NEW k \in Nat, k \in G PROVE k + 1 \in G
    <3>1. CASE k + 1 <= n
      <4>1. k + 1 \in 1..n /\ (k + 1) - 1 = k
        BY <3>1
      <4>2. f[1..(k + 1)] = f[1..k] + rows[k + 1].width /\ rows[k + 1].width \in Nat
        BY <1>1, <1>9, <4>1
      <4> QED BY <1>1, <2>2, <3>1, <4>2
    <3> QED BY <3>1
  <2> HIDE DEF G
  <2> QED BY <2>1, <2>2, UpFromZero
<1>12. \A k \in 0..n : f[1..k] - (n - 1) \in Nat /\ f[1..k] \in Nat
  BY <1>11
<1>13. sum \in [0..n -> Nat] /\ sum[0] = 0 /\ \A k \in 0..n : sum[k] = f[1..k] - (n - 1)
  BY <1>1, <1>9, <1>10, <1>12
<1>14. ASSUME NEW k \in 1..n PROVE sum[k] = sum[k - 1] + rows[k].width
  <2>1. k \in 0..n /\ k - 1 \in 0..n /\ n \in Nat /\ rows[k].width \in Nat
    BY <1>1
  <2>2. sum[k] = f[1..k] - (n - 1) /\ sum[k - 1] = f[1..(k - 1)] - (n - 1)
    BY <1>13, <2>1
  <2>3. f[1..k] \in Nat /\ f[1..(k - 1)] \in Nat
    BY <1>12, <2>1
  <2> QED BY <1>9, <2>1, <2>2, <2>3
<1>15. f[1..n] = sum[n] + n - 1
  BY <1>1, <1>12, <1>13
<1>16. Adds(rows, sum)
  BY <1>13, <1>14 DEF Adds, n
<1> QED BY <1>8, <1>15, <1>16 DEF n

\* The sums are determined by the rows.
LEMMA AddsOnce ==
    ASSUME NEW R, Wide(R), NEW rows \in Seq(R), rows # <<>>, NEW sum, Adds(rows, sum)
    PROVE  RowsWidth(rows) = sum[Len(rows)] + Len(rows) - 1
<1>1. PICK s : Adds(rows, s) /\ RowsWidth(rows) = s[Len(rows)] + Len(rows) - 1
  BY RowsWidthIs
<1> DEFINE G == {k \in Nat : k <= Len(rows) => s[k] = sum[k]}
<1>2. 0 \in G
  BY <1>1 DEF Adds
<1>3. ASSUME NEW k \in Nat, k \in G PROVE k + 1 \in G
  <2>1. CASE k + 1 <= Len(rows)
    <3>1. k + 1 \in 1..Len(rows) /\ (k + 1) - 1 = k
      BY <2>1
    <3>2. s[k + 1] = s[k] + rows[k + 1].width /\ sum[k + 1] = sum[k] + rows[k + 1].width
      BY <1>1, <3>1 DEF Adds
    <3> QED BY <1>3, <3>1, <3>2
  <2> QED BY <2>1
<1> HIDE DEF G
<1>4. \A k \in Nat : k \in G
  BY <1>2, <1>3, UpFromZero
<1> QED BY <1>1, <1>4 DEF G

Bounds == /\ Budget \in Nat /\ SeamWidth \in Nat /\ Budget \div 2 \in Nat
          /\ Budget \div 2 >= SeamWidth + 3 /\ Budget - Budget \div 2 >= Budget \div 2
          /\ LineMax \in Nat /\ ClampWidth \in Nat /\ RowWidth \in Nat

LEMMA BoundsHold == Bounds
  BY BoundsAssumption DEF BoundsAssumption, Bounds

LEMMA AddsUp ==
    ASSUME NEW R, Wide(R), NEW rows \in Seq(R), NEW f, Adds(rows, f)
    PROVE  \A i, j \in 0..Len(rows) : i <= j => f[i] <= f[j]
<1>1. PICK n \in Nat : n = Len(rows)
  OBVIOUS
<1>2. /\ \A k \in 0..n : f[k] \in Nat
      /\ \A k \in 1..n : rows[k].width \in Nat /\ f[k] = f[k - 1] + rows[k].width
  BY <1>1 DEF Wide, Adds
<1> DEFINE G == {d \in Nat : \A i \in 0..n : i + d <= n => f[i] <= f[i + d]}
<1>3. 0 \in G
  BY <1>2
<1>4. ASSUME NEW d \in Nat, d \in G PROVE d + 1 \in G
  <2>1. ASSUME NEW i \in 0..n, i + (d + 1) <= n PROVE f[i] <= f[i + (d + 1)]
    <3>1. PICK k \in 1..n : k = i + (d + 1)
      BY <2>1
    <3>2. i + d = k - 1 /\ i + d <= n /\ k - 1 \in 0..n /\ k \in 0..n
      BY <2>1, <3>1
    <3>3. f[i] <= f[k - 1]
      BY <1>4, <3>2
    <3>4. f[k] = f[k - 1] + rows[k].width /\ f[i] \in Nat /\ f[k - 1] \in Nat
          /\ rows[k].width \in Nat
      BY <1>2, <3>2
    <3>5. \A a, b, c, w \in Nat : a <= b /\ c = b + w => a <= c
      OBVIOUS
    <3>6. f[i] <= f[k]
      BY <1>2, <3>2, <3>3, <3>4, <3>5
    <3> QED BY <3>1, <3>6
  <2> QED BY <2>1
<1> HIDE DEF G
<1>5. \A d \in Nat : d \in G
  BY <1>3, <1>4, UpFromZero
<1>6. ASSUME NEW i \in 0..n, NEW j \in 0..n, i <= j PROVE f[i] <= f[j]
  <2>1. PICK d \in Nat : i + d = j
    <3>1. j - i \in Nat /\ i + (j - i) = j
      BY <1>6
    <3> QED BY <3>1
  <2>2. d \in G /\ i + d <= n
    BY <1>5, <2>1
  <2>3. f[i] <= f[i + d]
    BY <2>2 DEF G
  <2> QED BY <2>1, <2>3
<1> QED BY <1>1, <1>6

\* k elements in a row, after the first m.
LEMMA Slice ==
    ASSUME NEW R, NEW rows \in Seq(R), NEW m \in Nat, NEW k \in Nat, m + k <= Len(rows)
    PROVE  /\ SubSeq(rows, m + 1, m + k) \in Seq(R)
           /\ Len(SubSeq(rows, m + 1, m + k)) = k
           /\ \A j \in 1..k : SubSeq(rows, m + 1, m + k)[j] = rows[m + j]
<1>1. m + 1 \in Int /\ m + k \in Int /\ Len(rows) \in Nat
  OBVIOUS
<1>2. \A i \in (m + 1)..(m + k) : rows[i] \in R
  OBVIOUS
<1>3. /\ SubSeq(rows, m + 1, m + k) \in Seq(R)
      /\ Len(SubSeq(rows, m + 1, m + k))
           = IF m + 1 <= m + k THEN (m + k) - (m + 1) + 1 ELSE 0
      /\ \A i \in 1..((m + k) - (m + 1) + 1) :
            SubSeq(rows, m + 1, m + k)[i] = rows[(m + 1) + i - 1]
  BY <1>1, <1>2, SubSeqProperties
<1>4. (m + k) - (m + 1) + 1 = k /\ (m + 1 <= m + k <=> k > 0)
  OBVIOUS
<1>5. \A j \in 1..k : (m + 1) + j - 1 = m + j
  OBVIOUS
<1>6. Len(SubSeq(rows, m + 1, m + k)) = k
  BY <1>3, <1>4
<1>7. ASSUME NEW j \in 1..k PROVE SubSeq(rows, m + 1, m + k)[j] = rows[m + j]
  <2>1. j \in 1..((m + k) - (m + 1) + 1)
    BY <1>4
  <2>2. SubSeq(rows, m + 1, m + k)[j] = rows[(m + 1) + j - 1]
    BY <1>3, <2>1
  <2> QED BY <1>5, <2>2
<1> QED BY <1>3, <1>6, <1>7

\* The width of k rows in a row.
LEMMA SliceWidth ==
    ASSUME NEW R, Wide(R), NEW rows \in Seq(R), NEW f, Adds(rows, f),
           NEW m \in Nat, NEW k \in Nat, m + k <= Len(rows)
    PROVE  RowsWidth(SubSeq(rows, m + 1, m + k))
             = IF k = 0 THEN 0 ELSE f[m + k] - f[m] + k - 1
<1>1. PICK s : s = SubSeq(rows, m + 1, m + k)
  OBVIOUS
<1>2. s \in Seq(R) /\ Len(s) = k /\ \A j \in 1..k : s[j] = rows[m + j]
  BY <1>1, Slice
<1>3. CASE k = 0
  <2>1. s = <<>>
    BY <1>2, <1>3
  <2> QED BY <1>1, <1>3, <2>1, Zenon DEF RowsWidth
<1>4. CASE k # 0
  <2>0. PICK n \in Nat : n = Len(rows)
    OBVIOUS
  <2>1. PICK g : g = [j \in 0..k |-> f[m + j] - f[m]]
    OBVIOUS
  <2>2. \A i \in 0..n : f[i] \in Nat
    BY <2>0 DEF Adds
  <2>3. \A i, j \in 0..n : i <= j => f[i] <= f[j]
    BY <2>0, AddsUp
  <2>4. \A i \in 1..n : f[i] = f[i - 1] + rows[i].width /\ rows[i].width \in Nat
    BY <2>0 DEF Adds, Wide
  <2>5. m \in 0..n /\ f[m] \in Nat
    BY <2>0, <2>2
  <2>6. ASSUME NEW j \in 0..k PROVE m + j \in 0..n /\ f[m + j] \in Nat /\ f[m + j] - f[m] \in Nat
    <3>1. PICK i \in 0..n : i = m + j
      BY <2>0
    <3>2. m <= i /\ m \in 0..n
      BY <2>0, <3>1
    <3>3. f[m] <= f[i] /\ f[i] \in Nat
      BY <2>2, <2>3, <3>2
    <3>4. f[i] - f[m] \in Nat
      BY <2>5, <3>3
    <3> QED BY <3>1, <3>3, <3>4
  <2>7. g \in [0..k -> Nat] /\ g[0] = 0
    <3>1. m + 0 = m /\ 0 \in 0..k
      OBVIOUS
    <3>2. g[0] = f[m] - f[m]
      BY <2>1, <3>1
    <3>3. f[m] - f[m] = 0
      BY <2>5
    <3>4. g \in [0..k -> Nat]
      BY <2>1, <2>6
    <3> QED BY <3>2, <3>3, <3>4
  <2>8. ASSUME NEW j \in 1..k PROVE g[j] = g[j - 1] + s[j].width
    <3>1. PICK i \in 1..n : i = m + j
      BY <2>0
    <3>2. i - 1 = m + (j - 1) /\ j \in 0..k /\ j - 1 \in 0..k /\ i \in 0..n /\ i - 1 \in 0..n
      BY <3>1
    <3>3. g[j] = f[i] - f[m] /\ g[j - 1] = f[i - 1] - f[m]
      <4>1. \A h \in 0..k : g[h] = f[m + h] - f[m]
        BY <2>1
      <4>2. g[j] = f[m + j] - f[m] /\ g[j - 1] = f[m + (j - 1)] - f[m]
        BY <4>1, <3>2
      <4> QED BY <4>2, <3>1, <3>2
    <3>4. s[j] = rows[i] /\ rows[i].width \in Nat /\ f[i] = f[i - 1] + rows[i].width
      BY <1>2, <2>4, <3>1
    <3>5. f[i] \in Nat /\ f[i - 1] \in Nat
      BY <2>2, <3>2
    <3>6. f[i] - f[m] = (f[i - 1] - f[m]) + rows[i].width
      <4>1. PICK a \in Nat, b \in Nat, c \in Nat, w \in Nat :
              a = f[i] /\ b = f[i - 1] /\ c = f[m] /\ w = rows[i].width
        BY <2>5, <3>4, <3>5
      <4>2. a = b + w
        BY <3>4, <4>1
      <4>3. a \in Nat /\ b \in Nat /\ c \in Nat /\ w \in Nat
        BY <4>1
      <4>4. a - c = (b - c) + w
        BY <4>2, <4>3
      <4> QED BY <4>1, <4>4
    <3> QED BY <3>3, <3>4, <3>6
  <2>9. Adds(s, g) /\ s # <<>>
    <3>1. s # <<>>
      BY <1>2, <1>4
    <3> QED BY <1>2, <2>7, <2>8, <3>1 DEF Adds
  <2>10. RowsWidth(s) = g[k] + k - 1
    <3>1. RowsWidth(s) = g[Len(s)] + Len(s) - 1
      BY <1>2, <2>9, AddsOnce
    <3> QED BY <1>2, <3>1
  <2>11. g[k] = f[m + k] - f[m]
    BY <2>1
  <2> QED BY <1>1, <1>4, <2>10, <2>11
<1> QED BY <1>3, <1>4

LEMMA EndsWidth ==
    ASSUME NEW R, Wide(R), NEW rows \in Seq(R), NEW f, Adds(rows, f), NEW k \in 0..Len(rows)
    PROVE  /\ RowsWidth(Prefix(rows, k)) = IF k = 0 THEN 0 ELSE f[k] + k - 1
           /\ RowsWidth(Suffix(rows, k))
                = IF k = 0 THEN 0 ELSE f[Len(rows)] - f[Len(rows) - k] + k - 1
<1>1. PICK n \in Nat : n = Len(rows)
  OBVIOUS
<1>2. PICK m \in Nat : m = n - k
  <2>1. n - k \in Nat
    BY <1>1
  <2> QED BY <2>1
<1>3. m + k = n /\ n - k + 1 = m + 1 /\ k \in Nat /\ m + k <= Len(rows) /\ 0 + k <= Len(rows)
  BY <1>1, <1>2
<1>4. RowsWidth(SubSeq(rows, 0 + 1, 0 + k)) = IF k = 0 THEN 0 ELSE f[0 + k] - f[0] + k - 1
  BY <1>3, SliceWidth
<1>5. RowsWidth(SubSeq(rows, m + 1, m + k)) = IF k = 0 THEN 0 ELSE f[m + k] - f[m] + k - 1
  BY <1>3, SliceWidth
<1>6. f[0] = 0 /\ f[k] \in Nat
  BY DEF Adds
<1>7. RowsWidth(Prefix(rows, k)) = IF k = 0 THEN 0 ELSE f[k] + k - 1
  <2>1. PICK a, b : a = 0 + k /\ b = 0 + 1
    OBVIOUS
  <2>2. a = k /\ b = 1
    BY <1>3, <2>1
  <2>3. RowsWidth(SubSeq(rows, 1, k)) = IF k = 0 THEN 0 ELSE f[k] - f[0] + k - 1
    BY <1>4, <2>1, <2>2
  <2>4. f[k] - f[0] + k - 1 = f[k] + k - 1
    BY <1>3, <1>6
  <2> QED BY <2>3, <2>4 DEF Prefix
<1>8. RowsWidth(Suffix(rows, k)) = IF k = 0 THEN 0 ELSE f[n] - f[n - k] + k - 1
  BY <1>1, <1>2, <1>3, <1>5 DEF Suffix
<1> QED BY <1>1, <1>7, <1>8

LEMMA MarkerGrows ==
    /\ \A d \in Nat : MarkerLen(d) \in Nat /\ MarkerLen(d) <= SeamWidth + 2
    /\ \A c, d \in Nat : c <= d => MarkerLen(c) <= MarkerLen(d)
<1>1. SeamWidth \in Nat
  BY BoundsHold DEF Bounds
<1> QED BY <1>1 DEF MarkerLen

\* One sequence after another, element by element.
LEMMA Joined ==
    ASSUME NEW R, NEW a \in Seq(R), NEW b \in Seq(R)
    PROVE  /\ a \o b \in Seq(R) /\ Len(a \o b) = Len(a) + Len(b)
           /\ \A i \in 1..Len(a) : (a \o b)[i] = a[i]
           /\ \A i \in 1..Len(b) : (a \o b)[Len(a) + i] = b[i]
<1>1. /\ Len(a \o b) = Len(a) + Len(b)
      /\ \A i \in 1..(Len(a) + Len(b)) : (a \o b)[i] = IF i <= Len(a) THEN a[i] ELSE b[i - Len(a)]
  BY ConcatProperties
<1>2. ASSUME NEW i \in 1..Len(b) PROVE (a \o b)[Len(a) + i] = b[i]
  <2>1. PICK n \in Nat : n = Len(a)
    OBVIOUS
  <2>2. PICK k : k = n + i
    OBVIOUS
  <2>3. k \in 1..(Len(a) + Len(b)) /\ ~(k <= Len(a)) /\ k - Len(a) = i
    BY <2>1, <2>2
  <2>4. (a \o b)[k] = b[k - Len(a)]
    BY <1>1, <2>3
  <2> QED BY <2>1, <2>2, <2>3, <2>4
<1>3. ASSUME NEW i \in 1..Len(a) PROVE (a \o b)[i] = a[i]
  <2>1. i \in 1..(Len(a) + Len(b)) /\ i <= Len(a)
    OBVIOUS
  <2> QED BY <1>1, <2>1
<1> QED BY <1>1, <1>2, <1>3

LEMMA RowsWidthNat ==
    ASSUME NEW R, Wide(R), NEW rows \in Seq(R)
    PROVE  RowsWidth(rows) \in Nat
<1>1. CASE rows = <<>>
  BY <1>1, Zenon DEF RowsWidth
<1>2. CASE rows # <<>>
  <2>1. PICK f : Adds(rows, f) /\ RowsWidth(rows) = f[Len(rows)] + Len(rows) - 1
    BY <1>2, RowsWidthIs
  <2>2. Len(rows) \in Nat \ {0} /\ f[Len(rows)] \in Nat
    BY <1>2, <2>1 DEF Adds
  <2> QED BY <2>1, <2>2
<1> QED BY <1>1, <1>2

LEMMA OneWidth ==
    ASSUME NEW R, Wide(R), NEW r \in R
    PROVE  RowsWidth(<<r>>) = r.width
<1>1. <<r>> \in Seq(R) /\ <<r>> # <<>> /\ Len(<<r>>) = 1 /\ <<r>>[1] = r
  OBVIOUS
<1>2. PICK f : Adds(<<r>>, f) /\ RowsWidth(<<r>>) = f[Len(<<r>>)] + Len(<<r>>) - 1
  BY <1>1, RowsWidthIs
<1>3. f[0] = 0 /\ f[1] = f[1 - 1] + r.width /\ f[1] \in Nat
  BY <1>1, <1>2 DEF Adds
<1>4. r.width \in Nat
  BY DEF Wide
<1> QED BY <1>1, <1>2, <1>3, <1>4

LEMMA JoinedWidth ==
    ASSUME NEW R, Wide(R), NEW a \in Seq(R), NEW b \in Seq(R), a # <<>>, b # <<>>
    PROVE  RowsWidth(a \o b) = RowsWidth(a) + RowsWidth(b) + 1
<1>1. PICK f : Adds(a, f) /\ RowsWidth(a) = f[Len(a)] + Len(a) - 1
  BY RowsWidthIs
<1>2. PICK g : Adds(b, g) /\ RowsWidth(b) = g[Len(b)] + Len(b) - 1
  BY RowsWidthIs
<1>3. PICK m \in Nat, n \in Nat : m = Len(a) /\ n = Len(b) /\ m # 0 /\ n # 0
  OBVIOUS
<1>4. /\ f[0] = 0 /\ \A k \in 0..m : f[k] \in Nat
      /\ \A k \in 1..m : f[k] = f[k - 1] + a[k].width
  BY <1>1, <1>3 DEF Adds
<1>5. /\ g[0] = 0 /\ \A k \in 0..n : g[k] \in Nat
      /\ \A k \in 1..n : g[k] = g[k - 1] + b[k].width
  BY <1>2, <1>3 DEF Adds
<1>6. PICK ab : ab = a \o b
  OBVIOUS
<1>7. /\ ab \in Seq(R) /\ Len(ab) = m + n
      /\ \A i \in 1..m : ab[i] = a[i]
      /\ \A i \in 1..n : ab[m + i] = b[i]
  BY <1>3, <1>6, Joined
<1>8. PICK h : h = [k \in 0..(m + n) |-> IF k <= m THEN f[k] ELSE f[m] + g[k - m]]
  OBVIOUS
<1>9. \A k \in 0..m : h[k] = f[k]
  BY <1>8
<1>10. ASSUME NEW i \in 0..n PROVE h[m + i] = f[m] + g[i] /\ h[m + i] \in Nat
  <2>1. PICK k \in 0..(m + n) : k = m + i /\ k - m = i /\ (k <= m <=> i = 0)
    <3>1. m + i \in 0..(m + n) /\ (m + i) - m = i /\ (m + i <= m <=> i = 0)
      OBVIOUS
    <3> QED BY <3>1
  <2>2. h[k] = IF k <= m THEN f[k] ELSE f[m] + g[k - m]
    BY <1>8
  <2>3. f[m] \in Nat /\ g[i] \in Nat
    BY <1>4, <1>5
  <2>4. CASE i = 0
    <3>1. k = m /\ k <= m
      BY <2>1, <2>4
    <3>2. h[k] = f[m]
      BY <2>2, <3>1
    <3> QED BY <1>5, <2>1, <2>3, <2>4, <3>2
  <2>5. CASE i # 0
    BY <2>1, <2>2, <2>3, <2>5
  <2> QED BY <2>4, <2>5
<1>11. \A k \in 0..(m + n) : h[k] \in Nat
  <2>1. ASSUME NEW k \in 0..(m + n) PROVE h[k] \in Nat
    <3>1. CASE k <= m
      <4>1. k \in 0..m
        BY <3>1
      <4>2. f[k] \in Nat
        BY <1>4, <4>1
      <4> QED BY <1>9, <4>1, <4>2
    <3>2. CASE ~(k <= m)
      <4>1. PICK i \in 0..n : k = m + i
        <5>1. k - m \in 0..n /\ k = m + (k - m)
          BY <3>2
        <5> QED BY <5>1
      <4> QED BY <1>10, <4>1
    <3> QED BY <3>1, <3>2
  <2> QED BY <2>1
<1>12. ASSUME NEW k \in 1..(m + n) PROVE h[k] = h[k - 1] + ab[k].width
  <2>1. CASE k <= m
    <3>1. k \in 1..m /\ k \in 0..m /\ k - 1 \in 0..m
      BY <2>1
    <3> QED BY <1>4, <1>7, <1>9, <3>1
  <2>2. CASE ~(k <= m)
    <3>1. PICK i \in 1..n : k = m + i
      <4>1. k - m \in 1..n /\ k = m + (k - m)
        BY <2>2
      <4> QED BY <4>1
    <3>2. k - 1 = m + (i - 1) /\ i - 1 \in 0..n /\ i \in 0..n
      BY <3>1
    <3>3. h[k] = f[m] + g[i]
      BY <1>10, <3>1, <3>2
    <3>4. h[k - 1] = f[m] + g[i - 1]
      BY <1>10, <3>2
    <3>5. g[i] = g[i - 1] + b[i].width /\ ab[k] = b[i] /\ b[i].width \in Nat
      BY <1>3, <1>5, <1>7, <3>1 DEF Wide
    <3>6. f[m] \in Nat /\ g[i - 1] \in Nat
      BY <1>4, <1>5, <3>2
    <3> QED BY <3>3, <3>4, <3>5, <3>6
  <2> QED BY <2>1, <2>2
<1>13. Adds(ab, h)
  <2>1. h[0] = 0
    BY <1>4, <1>9
  <2>2. h \in [0..(m + n) -> Nat]
    BY <1>8, <1>11
  <2> QED BY <1>7, <1>12, <2>1, <2>2 DEF Adds
<1>14. ab # <<>>
  BY <1>3, <1>7
<1>15. RowsWidth(ab) = h[Len(ab)] + Len(ab) - 1
  BY <1>7, <1>13, <1>14, AddsOnce
<1>16. h[m + n] = f[m] + g[n] /\ f[m] \in Nat /\ g[n] \in Nat
  BY <1>4, <1>5, <1>10
<1> QED BY <1>1, <1>2, <1>3, <1>6, <1>7, <1>15, <1>16

-----------------------------------------------------------------------------
(* BudgetCap.                                                              *)

\* What BudgetCap promises of the rows it is given and of what it returns.
WholeKinds == {"line", "group", "slot"}
AllWhole(R) == \A r \in R : r.kind \in WholeKinds
KeptIn(rows) == {i \in DOMAIN rows : rows[i].kind \in WholeKinds}
NoPart(rows) == \A i \in DOMAIN rows : rows[i].kind # "part"
SaidIn(rows) == {i \in DOMAIN rows : rows[i].width > 0}
TailOf(rows) == Len(rows) - Max(SaidIn(rows)) + 1

TailFits(rows, t) ==
    RowsWidth(Suffix(rows, t)) + MarkerLen(Len(rows)) + 2 <= Budget - Budget \div 2

EndsKept(rows, res) ==
  res.dropped > 0 =>
    /\ RowsWidth(res.rows) <= Budget
    /\ NoPart(res.rows) => Cardinality(KeptIn(res.rows)) + res.dropped = Len(rows)
    /\ \A t \in 1..Len(rows) :
         TailFits(rows, t) => Suffix(rows, t) = Suffix(res.rows, t)

\* The k last elements.
LEMMA SuffixIs ==
    ASSUME NEW R, NEW rows \in Seq(R), NEW k \in 0..Len(rows)
    PROVE  /\ Suffix(rows, k) \in Seq(R) /\ Len(Suffix(rows, k)) = k
           /\ \A j \in 1..k : Suffix(rows, k)[j] = rows[(Len(rows) - k) + j]
           /\ Prefix(rows, k) \in Seq(R) /\ Len(Prefix(rows, k)) = k
           /\ \A j \in 1..k : Prefix(rows, k)[j] = rows[j]
<1>1. PICK m \in Nat : m = Len(rows) - k
  <2>1. Len(rows) - k \in Nat
    OBVIOUS
  <2> QED BY <2>1
<1>2. m + k = Len(rows) /\ Len(rows) - k + 1 = m + 1 /\ k \in Nat /\ m + k <= Len(rows)
      /\ 0 + k <= Len(rows) /\ 0 + 1 = 1 /\ 0 + k = k
  BY <1>1
<1>3. /\ SubSeq(rows, m + 1, m + k) \in Seq(R)
      /\ Len(SubSeq(rows, m + 1, m + k)) = k
      /\ \A j \in 1..k : SubSeq(rows, m + 1, m + k)[j] = rows[m + j]
  BY <1>2, Slice
<1>4. /\ SubSeq(rows, 0 + 1, 0 + k) \in Seq(R)
      /\ Len(SubSeq(rows, 0 + 1, 0 + k)) = k
      /\ \A j \in 1..k : SubSeq(rows, 0 + 1, 0 + k)[j] = rows[0 + j]
  BY <1>2, Slice
<1>5. \A j \in 1..k : 0 + j = j
  OBVIOUS
<1>6. Suffix(rows, k) = SubSeq(rows, m + 1, m + k)
  BY <1>2 DEF Suffix
<1>7. Prefix(rows, k) = SubSeq(rows, 0 + 1, 0 + k)
  <2>1. PICK a, b : a = 0 + 1 /\ b = 0 + k
    OBVIOUS
  <2> QED BY <1>2, <2>1 DEF Prefix
<1>8. \A j \in 1..k : Suffix(rows, k)[j] = rows[(Len(rows) - k) + j]
  BY <1>1, <1>3, <1>6
<1>9. \A j \in 1..k : Prefix(rows, k)[j] = rows[j]
  BY <1>4, <1>5, <1>7
<1> QED BY <1>3, <1>4, <1>6, <1>7, <1>8, <1>9

LEMMA HeadRowsFit ==
    ASSUME NEW R, Wide(R), NEW rows \in Seq(R), RowsWidth(rows) > Budget
    PROVE  /\ HeadRows(rows) \in 0..(Len(rows) - 1)
           /\ RowsWidth(Prefix(rows, HeadRows(rows))) <= Budget \div 2
<1>0. Bounds
  BY BoundsHold
<1>1. PICK n \in Nat : n = Len(rows)
  OBVIOUS
<1> DEFINE A == {h \in 0..Len(rows) : RowsWidth(Prefix(rows, h)) <= Budget \div 2}
<1>2. RowsWidth(Prefix(rows, 0)) = 0
  <2>1. Prefix(rows, 0) = <<>>
    BY <1>1, SuffixIs
  <2> QED BY <2>1, Zenon DEF RowsWidth
<1>3. A \subseteq 0..n /\ A # {}
  <2>1. 0 \in A
    BY <1>0, <1>1, <1>2 DEF Bounds
  <2> QED BY <1>1, <2>1
<1>4. Max(A) \in A
  <2> HIDE DEF A
  <2> QED BY <1>3, MaxIn
<1>5. HeadRows(rows) = Max(A)
  BY DEF HeadRows
<1>6. HeadRows(rows) \in 0..n /\ RowsWidth(Prefix(rows, HeadRows(rows))) <= Budget \div 2
  BY <1>1, <1>4, <1>5
<1>7. HeadRows(rows) # n
  <2>1. Prefix(rows, n) = rows
    BY <1>1, SubSeqFull DEF Prefix
  <2>2. RowsWidth(rows) \in Nat
    BY RowsWidthNat
  <2>3. ~(RowsWidth(rows) <= Budget \div 2)
    BY <1>0, <2>2 DEF Bounds
  <2> QED BY <1>6, <2>1, <2>3
<1> QED BY <1>1, <1>6, <1>7

\* A row more of the tail fits beside the head and the seam.
Overhead(rows, h) == IF h > 0 THEN RowsWidth(Prefix(rows, h)) + 2 ELSE 1
FitsTail(rows, h, k) ==
    Overhead(rows, h) + MarkerLen(Len(rows) - k - h) + RowsWidth(Suffix(rows, k)) <= Budget

LEMMA TailRowsFit ==
    ASSUME NEW R, NEW rows \in Seq(R), NEW h \in 0..(Len(rows) - 1)
    PROVE  /\ TailRows(rows, h) \in 0..(Len(rows) - h)
           /\ \A k \in 1..TailRows(rows, h) : FitsTail(rows, h, k)
           /\ \A t \in 0..(Len(rows) - h) :
                (\A k \in 1..t : FitsTail(rows, h, k)) => t <= TailRows(rows, h)
<1>1. PICK m \in Nat : m = Len(rows) - h
  <2>1. Len(rows) - h \in Nat
    OBVIOUS
  <2> QED BY <2>1
<1> DEFINE A == {t \in 0..(Len(rows) - h) : \A k \in 1..t : FitsTail(rows, h, k)}
<1>2. TailRows(rows, h) = Max(A)
  BY DEF TailRows, FitsTail, Overhead
<1>3. A \subseteq 0..m /\ A # {}
  <2>1. 0 \in A
    BY <1>1
  <2> QED BY <1>1, <2>1
<1>4. Max(A) \in A /\ \A t \in A : t <= Max(A)
  <2> HIDE DEF A
  <2> QED BY <1>3, MaxIn
<1> QED BY <1>2, <1>4

\* A text in two parts, and its parts.
LEMMA PartsOfText ==
    ASSUME NEW L, NEW ls \in Seq(L), NEW m \in 0..Len(ls)
    PROVE  /\ Prefix(ls, m) \in Seq(L) /\ SubSeq(ls, m + 1, Len(ls)) \in Seq(L)
           /\ ls = Prefix(ls, m) \o SubSeq(ls, m + 1, Len(ls))
<1>1. PICK n \in Nat : n = Len(ls) /\ m \in 0..n
  OBVIOUS
<1>2. Prefix(ls, m) \in Seq(L)
  BY SuffixIs
<1>3. m + 1 \in Int /\ n \in Int /\ \A i \in (m + 1)..n : ls[i] \in L
  BY <1>1
<1>4. SubSeq(ls, m + 1, n) \in Seq(L)
  BY <1>3, SubSeqProperties
<1>5. 1 \in 1..(Len(ls) + 1) /\ m \in (1 - 1)..Len(ls) /\ n \in m..Len(ls)
  BY <1>1
<1>6. SubSeq(ls, 1, m) \o SubSeq(ls, m + 1, n) = SubSeq(ls, 1, n)
  BY <1>5, ConcatAdjacentSubSeq
<1>7. SubSeq(ls, 1, n) = ls
  BY <1>1, SubSeqFull
<1> QED BY <1>1, <1>2, <1>4, <1>6, <1>7 DEF Prefix

\* Rows of a view after its budget: kept rows, seams and parts of a row.
Shortened(R) == R \cup [kind : {"seam", "cut", "part"}, of : {[none |-> 0]} \cup {r.of : r \in R}
                          \cup [dropped : Nat] \cup [later : Nat], width : Nat, cut : {0}]

LEMMA SeamIsShort ==
    ASSUME NEW R, Wide(R)
    PROVE  /\ Wide(Shortened(R)) /\ R \subseteq Shortened(R)
           /\ \A n \in Nat : Row("seam", [dropped |-> n], MarkerLen(n)) \in Shortened(R)
           /\ \A n, w \in Nat : Row("cut", [later |-> n], w) \in Shortened(R)
           /\ \A r \in R, w \in Nat : PartOf(r, w) \in Shortened(R)
<1>1. Wide(Shortened(R)) /\ R \subseteq Shortened(R)
  BY DEF Shortened, Wide
<1>2. ASSUME NEW n \in Nat PROVE Row("seam", [dropped |-> n], MarkerLen(n)) \in Shortened(R)
  <2>1. MarkerLen(n) \in Nat /\ [dropped |-> n] \in [dropped : Nat]
    BY MarkerGrows
  <2> QED BY <2>1 DEF Row, Shortened
<1>3. ASSUME NEW n \in Nat, NEW w \in Nat PROVE Row("cut", [later |-> n], w) \in Shortened(R)
  <2>1. [later |-> n] \in [later : Nat]
    OBVIOUS
  <2> QED BY <2>1 DEF Row, Shortened
<1>4. ASSUME NEW r \in R, NEW w \in Nat PROVE PartOf(r, w) \in Shortened(R)
  <2>1. {w, r.width} \subseteq Nat /\ {w, r.width} # {}
    BY DEF Wide
  <2>2. Min({w, r.width}) \in Nat
    BY <2>1, MinIn
  <2>3. r.of \in {q.of : q \in R}
    OBVIOUS
  <2> QED BY <2>2, <2>3 DEF PartOf, Row, Shortened
<1> QED BY <1>1, <1>2, <1>3, <1>4

LEMMA PartWidth ==
    ASSUME NEW R, Wide(R), NEW r \in R, NEW w \in Nat
    PROVE  PartOf(r, w).width \in Nat /\ PartOf(r, w).width <= w /\ PartOf(r, w).kind = "part"
<1>1. {w, r.width} \subseteq Nat /\ {w, r.width} # {}
  BY DEF Wide
<1>2. Min({w, r.width}) \in Nat /\ Min({w, r.width}) <= w
  BY <1>1, MinIn
<1> QED BY <1>2 DEF PartOf, Row

LEMMA ThreeInARow ==
    ASSUME NEW S, NEW a \in S, NEW b \in S, NEW c \in S
    PROVE  (<<a>> \o <<b>>) \o <<c>> = <<a, b, c>>
<1>1. PICK ab : ab = <<a>> \o <<b>>
  OBVIOUS
<1>2. ab \in Seq(S) /\ Len(ab) = 2 /\ ab[1] = a /\ ab[2] = b
  BY <1>1
<1>3. <<c>> \in Seq(S) /\ Len(<<c>>) = 1 /\ <<c>>[1] = c
  OBVIOUS
<1>4. PICK abc : abc = ab \o <<c>>
  OBVIOUS
<1>5. /\ abc \in Seq(S) /\ Len(abc) = Len(ab) + Len(<<c>>)
      /\ \A i \in 1..Len(ab) : abc[i] = ab[i]
      /\ \A i \in 1..Len(<<c>>) : abc[Len(ab) + i] = <<c>>[i]
  BY <1>2, <1>3, <1>4, Joined
<1>6. Len(abc) = 3 /\ abc[1] = a /\ abc[2] = b /\ abc[3] = c
  <2>1. abc[2 + 1] = c
    BY <1>2, <1>3, <1>5
  <2> QED BY <1>2, <1>3, <1>5, <2>1
<1>7. PICK t : t = <<a, b, c>>
  OBVIOUS
<1>8. t \in Seq(S) /\ Len(t) = 3 /\ t[1] = a /\ t[2] = b /\ t[3] = c
  BY <1>7
<1>9. Len(abc) = Len(t) /\ \A i \in 1..Len(abc) : abc[i] = t[i]
  BY <1>6, <1>8
<1>10. abc = t
  BY <1>5, <1>8, <1>9, SeqEqual
<1> QED BY <1>1, <1>4, <1>7, <1>10

LEMMA HardCutFits ==
    ASSUME NEW R, Wide(R), NEW rows \in Seq(R), rows # <<>>
    PROVE  /\ RowsWidth(HardCut(rows).rows) <= Budget
           /\ ~NoPart(HardCut(rows).rows)
<1>0. Bounds
  BY BoundsHold
<1>1. PICK r \in R : r = rows[1]
  OBVIOUS
<1>2. PICK later \in Nat : later = Len(rows) - 1
  <2>1. Len(rows) - 1 \in Nat
    OBVIOUS
  <2> QED BY <2>1
<1>3. PICK marker \in Nat : marker = SeamWidth + (IF later = 0 THEN 2 ELSE 3)
  BY <1>0 DEF Bounds
<1>4. PICK room : room = Budget - marker - 2
  OBVIOUS
<1>5. HardCut(rows).rows = PartsOf(r, later, marker, room)
  BY <1>1, <1>2, <1>3, <1>4 DEF HardCut
<1>6. Budget \in Nat
  BY <1>0 DEF Bounds
<1>77. PICK S : S = Shortened(R)
  OBVIOUS
<1>7. Wide(S) /\ \A w \in Nat : PartOf(r, w) \in S
  BY <1>77, SeamIsShort
<1>8. CASE room < 2
  <2>1. PICK p \in S : p = PartOf(r, Budget)
    BY <1>6, <1>7
  <2>2. p.width <= Budget /\ p.kind = "part"
    BY <1>6, <2>1, PartWidth
  <2>3. HardCut(rows).rows = <<p>>
    BY <1>5, <1>8, <2>1 DEF PartsOf
  <2>4. RowsWidth(<<p>>) = p.width
    BY <1>7, OneWidth
  <2>5. ~NoPart(<<p>>)
    BY <2>2 DEF NoPart
  <2> QED BY <2>2, <2>3, <2>4, <2>5
<1>9. CASE ~(room < 2)
  <2>1. room \in Nat
    BY <1>3, <1>4, <1>6, <1>9
  <2>2. PICK w \in Nat : w = (room * 4) \div 7
    BY <2>1
  <2>3. w <= room
    BY <2>1, <2>2
  <2>4. PICK v \in Nat : v = room - w
    <3>1. room - w \in Nat
      BY <2>1, <2>3
    <3> QED BY <3>1
  <2>5. PICK a \in S, b \in S : a = PartOf(r, w) /\ b = PartOf(r, v)
    BY <1>7
  <2>6. PICK c \in S : c = Row("cut", [later |-> later], marker)
    BY <1>77, SeamIsShort
  <2>7. HardCut(rows).rows = <<a, c, b>>
    BY <1>5, <1>9, <2>2, <2>4, <2>5, <2>6 DEF PartsOf
  <2>8. a.width \in Nat /\ a.width <= w /\ a.kind = "part"
    BY <2>5, PartWidth
  <2>9. b.width \in Nat /\ b.width <= v
    BY <2>5, PartWidth
  <2>10. c.width = marker
    BY <2>6 DEF Row
  <2>11. RowsWidth(<<a>>) = a.width /\ RowsWidth(<<b>>) = b.width /\ RowsWidth(<<c>>) = c.width
    BY <1>7, OneWidth
  <2>12. /\ <<a>> \in Seq(S) /\ <<b>> \in Seq(S) /\ <<c>> \in Seq(S)
         /\ <<a>> \o <<c>> \in Seq(S)
         /\ <<a>> # <<>> /\ <<b>> # <<>> /\ <<c>> # <<>> /\ <<a>> \o <<c>> # <<>>
    OBVIOUS
  <2>13. RowsWidth(<<a>> \o <<c>>) = RowsWidth(<<a>>) + RowsWidth(<<c>>) + 1
    BY <1>7, <2>12, JoinedWidth
  <2>14. RowsWidth((<<a>> \o <<c>>) \o <<b>>) = RowsWidth(<<a>> \o <<c>>) + RowsWidth(<<b>>) + 1
    BY <1>7, <2>12, JoinedWidth
  <2>15. (<<a>> \o <<c>>) \o <<b>> = <<a, c, b>>
    BY ThreeInARow
  <2>16. RowsWidth(<<a, c, b>>) = a.width + marker + b.width + 2
    <3>1. PICK x, y, z : x = RowsWidth(<<a>>) /\ y = RowsWidth(<<a>> \o <<c>>)
                         /\ z = RowsWidth((<<a>> \o <<c>>) \o <<b>>)
      OBVIOUS
    <3>2. PICK p \in Nat, q \in Nat : p = a.width /\ q = b.width
      BY <2>8, <2>9
    <3>3. x = p /\ y = x + marker + 1 /\ z = y + q + 1
      BY <2>10, <2>11, <2>13, <2>14, <3>1, <3>2
    <3>4. z = p + marker + q + 2
      BY <3>3
    <3> QED BY <2>15, <3>1, <3>2, <3>4
  <2>17. ~NoPart(<<a, c, b>>)
    <3>1. 1 \in DOMAIN <<a, c, b>> /\ <<a, c, b>>[1] = a
      OBVIOUS
    <3> QED BY <2>8, <3>1 DEF NoPart
  <2>18. w + v = room /\ room + marker + 2 = Budget
    <3>1. w + v = room
      BY <2>1, <2>4
    <3>2. room + marker + 2 = Budget
      BY <1>4, <1>6
    <3> QED BY <3>1, <3>2
  <2>19. a.width + marker + b.width + 2 <= Budget
    <3>1. PICK p \in Nat, q \in Nat : p = a.width /\ q = b.width
      BY <2>8, <2>9
    <3>2. p <= w /\ q <= v
      BY <2>8, <2>9, <3>1
    <3>3. p + marker + q + 2 <= w + marker + v + 2
      <4>1. w \in Nat /\ v \in Nat /\ marker \in Nat /\ p \in Nat /\ q \in Nat
        BY <1>6, <2>1, <3>1
      <4> QED BY <3>2, <4>1
    <3>4. w + marker + v + 2 = Budget
      BY <1>6, <2>1, <2>18
    <3> QED BY <3>1, <3>3, <3>4
  <2> QED BY <2>7, <2>16, <2>17, <2>19
<1> QED BY <1>8, <1>9

IsSeamed(out, rows, h, t, d) == out = Seamed(rows, h, t, d).rows

SeamedShape(out, R, rows, h, t, d) ==
    /\ out \in Seq(Shortened(R)) /\ Len(out) = h + 1 + t
    /\ \A j \in 1..h : out[j] = rows[j]
    /\ out[h + 1].kind = "seam"
    /\ \A j \in 1..t : out[h + 1 + j] = rows[h + d + j]

\* The rows around a seam: their places, and their width with the seam.
LEMMA SeamedIs ==
    ASSUME NEW R, Wide(R), AllWhole(R), NEW rows \in Seq(R), NEW h \in Nat, NEW t \in Nat,
           NEW d \in Nat, h + t + d = Len(rows), NEW out, IsSeamed(out, rows, h, t, d)
    PROVE  /\ SeamedShape(out, R, rows, h, t, d)
           /\ RowsWidth(out) = (IF h = 0 THEN 0 ELSE RowsWidth(Prefix(rows, h)) + 1)
                               + MarkerLen(d)
                               + (IF t = 0 THEN 0 ELSE RowsWidth(Suffix(rows, t)) + 1)
<1> USE SeamIsShort
<1>1. PICK S : S = Shortened(R)
  OBVIOUS
<1>2. Wide(S) /\ R \subseteq S
  BY <1>1
<1>3. PICK seam \in S : seam = Row("seam", [dropped |-> d], MarkerLen(d))
  BY <1>1
<1>4. seam.kind = "seam" /\ seam.width = MarkerLen(d) /\ seam.width \in Nat
  <2>1. seam.kind = "seam" /\ seam.width = MarkerLen(d)
    BY <1>3 DEF Row
  <2> QED BY <2>1, MarkerGrows
<1>5. PICK p, s : p = Prefix(rows, h) /\ s = Suffix(rows, t)
  OBVIOUS
<1>6. h \in 0..Len(rows) /\ t \in 0..Len(rows) /\ Len(rows) - t = h + d
  OBVIOUS
<1>7. p \in Seq(R) /\ Len(p) = h /\ \A j \in 1..h : p[j] = rows[j]
  BY <1>5, <1>6, SuffixIs
<1>8. s \in Seq(R) /\ Len(s) = t /\ \A j \in 1..t : s[j] = rows[(Len(rows) - t) + j]
  BY <1>5, <1>6, SuffixIs
<1>9. \A j \in 1..t : s[j] = rows[h + d + j]
  BY <1>6, <1>8
<1>10. p \in Seq(S) /\ s \in Seq(S)
  BY <1>2, <1>7, <1>8, SeqMonotonic
<1>11. <<seam>> \in Seq(S) /\ Len(<<seam>>) = 1 /\ <<seam>>[1] = seam /\ <<seam>> # <<>>
  OBVIOUS
<1>12. PICK ps : ps = p \o <<seam>>
  OBVIOUS
<1>13. /\ ps \in Seq(S) /\ Len(ps) = Len(p) + Len(<<seam>>)
       /\ \A i \in 1..Len(p) : ps[i] = p[i]
       /\ \A i \in 1..Len(<<seam>>) : ps[Len(p) + i] = <<seam>>[i]
  BY <1>10, <1>11, <1>12, Joined
<1>14. Len(ps) = h + 1 /\ ps # <<>> /\ (\A j \in 1..h : ps[j] = rows[j]) /\ ps[h + 1] = seam
  <2>1. Len(ps) = h + 1
    BY <1>7, <1>11, <1>13
  <2>2. \A j \in 1..h : ps[j] = rows[j]
    BY <1>7, <1>13
  <2>3. ps[h + 1] = seam
    BY <1>7, <1>11, <1>13
  <2>4. ps # <<>>
    BY <2>1
  <2> QED BY <2>1, <2>2, <2>3, <2>4
<1>15. PICK o : o = ps \o s
  OBVIOUS
<1>155. out = o
  BY <1>3, <1>5, <1>12, <1>15 DEF Seamed, IsSeamed
<1>16. /\ o \in Seq(S) /\ Len(o) = Len(ps) + Len(s)
       /\ \A i \in 1..Len(ps) : o[i] = ps[i]
       /\ \A i \in 1..Len(s) : o[Len(ps) + i] = s[i]
  <2>1. ps \in Seq(S) /\ s \in Seq(S)
    BY <1>10, <1>13
  <2> QED BY <1>15, <2>1, Joined
<1>17. Len(o) = h + 1 + t
  BY <1>8, <1>14, <1>16
<1>18. \A j \in 1..h : o[j] = rows[j]
  <2>1. \A j \in 1..h : j \in 1..(h + 1)
    OBVIOUS
  <2> QED BY <1>14, <1>16, <2>1
<1>19. o[h + 1] = seam
  BY <1>14, <1>16
<1>20. ASSUME NEW j \in 1..t PROVE o[h + 1 + j] = rows[h + d + j]
  <2>1. PICK m \in Nat : m = h + 1
    OBVIOUS
  <2>2. \A i \in 1..t : o[m + i] = s[i]
    BY <1>8, <1>14, <1>16, <2>1
  <2> QED BY <1>9, <2>1, <2>2
<1>21. RowsWidth(ps) = (IF h = 0 THEN 0 ELSE RowsWidth(p) + 1) + MarkerLen(d)
  <2>1. RowsWidth(<<seam>>) = MarkerLen(d)
    BY <1>2, <1>4, OneWidth
  <2>2. CASE h = 0
    <3>1. ps = <<seam>>
      BY <1>7, <1>10, <1>11, <1>12, <2>2, ConcatEmptySeq
    <3> QED BY <1>4, <2>1, <2>2, <3>1
  <2>3. CASE h # 0
    <3>1. p # <<>>
      BY <1>7, <2>3
    <3>2. RowsWidth(ps) = RowsWidth(p) + RowsWidth(<<seam>>) + 1
      BY <1>2, <1>10, <1>11, <1>12, <3>1, JoinedWidth
    <3>3. RowsWidth(p) \in Nat
      BY <1>7, RowsWidthNat
    <3> QED BY <1>4, <2>1, <2>3, <3>2, <3>3
  <2> QED BY <2>2, <2>3
<1>22. RowsWidth(o) = RowsWidth(ps) + (IF t = 0 THEN 0 ELSE RowsWidth(s) + 1)
  <2>0. RowsWidth(ps) \in Nat /\ RowsWidth(s) \in Nat
    BY <1>2, <1>10, <1>13, RowsWidthNat
  <2>2. CASE t = 0
    <3>1. o = ps
      BY <1>8, <1>13, <1>15, <2>2, ConcatEmptySeq
    <3> QED BY <2>0, <2>2, <3>1
  <2>3. CASE t # 0
    <3>1. s # <<>>
      BY <1>8, <2>3
    <3>2. RowsWidth(o) = RowsWidth(ps) + RowsWidth(s) + 1
      BY <1>2, <1>10, <1>13, <1>14, <1>15, <3>1, JoinedWidth
    <3> QED BY <2>0, <2>3, <3>2
  <2> QED BY <2>2, <2>3
<1>23. SeamedShape(out, R, rows, h, t, d)
  BY <1>1, <1>4, <1>155, <1>16, <1>17, <1>18, <1>19, <1>20 DEF SeamedShape
<1> QED BY <1>5, <1>155, <1>21, <1>22, <1>23

\* Every whole row of a seamed view is a row it was made from.
LEMMA SeamedCounts ==
    ASSUME NEW R, Wide(R), AllWhole(R), NEW rows \in Seq(R), NEW h \in Nat, NEW t \in Nat,
           NEW d \in Nat, h + t + d = Len(rows), NEW out, IsSeamed(out, rows, h, t, d)
    PROVE  Cardinality(KeptIn(out)) + d = Len(rows)
<1>1. /\ out \in Seq(Shortened(R)) /\ Len(out) = h + 1 + t
      /\ \A j \in 1..h : out[j] = rows[j]
      /\ out[h + 1].kind = "seam"
      /\ \A j \in 1..t : out[h + 1 + j] = rows[h + d + j]
  <2>1. SeamedShape(out, R, rows, h, t, d)
    BY SeamedIs
  <2> QED BY <2>1 DEF SeamedShape
<1>2. \A i \in 1..Len(rows) : rows[i].kind \in WholeKinds
  BY DEF AllWhole
<1>3. PICK n \in Nat : n = h + 1 + t
  OBVIOUS
<1>4. DOMAIN out = 1..n
  BY <1>1, <1>3
<1>5. ASSUME NEW i \in 1..n PROVE out[i].kind \in WholeKinds <=> i # h + 1
  <2>1. CASE i <= h
    <3>1. i \in 1..h /\ i \in 1..Len(rows) /\ i # h + 1
      BY <2>1
    <3> QED BY <1>1, <1>2, <3>1
  <2>2. CASE i = h + 1
    <3>1. out[i].kind = "seam"
      BY <1>1, <2>2
    <3> QED BY <2>2, <3>1 DEF WholeKinds
  <2>3. CASE i > h + 1
    <3>1. PICK j \in 1..t : i = h + 1 + j
      <4>1. i - (h + 1) \in 1..t /\ i = h + 1 + (i - (h + 1))
        BY <1>3, <2>3
      <4> QED BY <4>1
    <3>2. PICK k \in 1..Len(rows) : k = h + d + j
      OBVIOUS
    <3>3. out[h + 1 + j] = rows[h + d + j]
      BY <1>1
    <3>4. out[i] = rows[k]
      BY <3>1, <3>2, <3>3
    <3>5. i # h + 1
      BY <2>3
    <3> QED BY <1>2, <3>4, <3>5
  <2> QED BY <2>1, <2>2, <2>3
<1>6. KeptIn(out) = (1..n) \ {h + 1}
  BY <1>4, <1>5 DEF KeptIn
<1>7. IsFiniteSet(1..n) /\ Cardinality(1..n) = n
  <2>1. IsFiniteSet(1..n) /\ Cardinality(1..n) = IF 1 > n THEN 0 ELSE n - 1 + 1
    <3>1. 1 \in Int /\ n \in Int
      OBVIOUS
    <3> QED BY <3>1, FS_Interval
  <2>2. n >= 1 /\ n - 1 + 1 = n
    BY <1>3
  <2> QED BY <2>1, <2>2
<1>8. h + 1 \in 1..n
  BY <1>3
<1>9. Cardinality(KeptIn(out)) = n - 1
  BY <1>6, <1>7, <1>8, FS_RemoveElement
<1> QED BY <1>3, <1>9

\* A tail that fits its half of the budget is kept whole.
LEMMA TailIsKept ==
    ASSUME NEW R, Wide(R), NEW rows \in Seq(R), RowsWidth(rows) > Budget,
           NEW h, h = HeadRows(rows), NEW t \in 1..Len(rows), TailFits(rows, t)
    PROVE  \/ TailRows(rows, h) = Len(rows) - h
           \/ TailRows(rows, h) >= t
<1>0. Bounds
  BY BoundsHold
<1>1. h \in 0..(Len(rows) - 1) /\ RowsWidth(Prefix(rows, h)) <= Budget \div 2
  BY HeadRowsFit
<1>2. PICK n \in Nat, half \in Nat : n = Len(rows) /\ half = Budget \div 2
  BY <1>0 DEF Bounds
<1>3. PICK m \in Nat : m = IF t <= n - h THEN t ELSE n - h
  <2>1. t \in Nat /\ n - h \in Nat
    BY <1>1, <1>2
  <2> QED BY <2>1
<1>4. PICK f : Adds(rows, f)
  <2>1. rows # <<>>
    OBVIOUS
  <2> QED BY <2>1, RowsWidthIs
<1>5. /\ \A k \in 0..n : f[k] \in Nat
      /\ \A i, j \in 0..n : i <= j => f[i] <= f[j]
  BY <1>2, <1>4, AddsUp DEF Adds
<1>6. ASSUME NEW k \in 1..m PROVE RowsWidth(Suffix(rows, k)) <= RowsWidth(Suffix(rows, t))
  <2>1. k \in 1..n /\ t \in 1..n /\ k <= t
    BY <1>1, <1>2, <1>3
  <2>2. RowsWidth(Suffix(rows, k)) = IF k = 0 THEN 0 ELSE f[n] - f[n - k] + k - 1
    <3>1. k \in 0..Len(rows)
      BY <1>2, <2>1
    <3> QED BY <1>2, <1>4, <3>1, EndsWidth
  <2>3. RowsWidth(Suffix(rows, t)) = IF t = 0 THEN 0 ELSE f[n] - f[n - t] + t - 1
    <3>1. t \in 0..Len(rows)
      BY <1>2, <2>1
    <3> QED BY <1>2, <1>4, <3>1, EndsWidth
  <2>4. PICK a \in 0..n, b \in 0..n : a = n - k /\ b = n - t
    <3>1. n - k \in 0..n /\ n - t \in 0..n
      BY <2>1
    <3> QED BY <3>1
  <2>5. b <= a /\ n \in 0..n
    BY <2>1, <2>4
  <2>6. f[b] <= f[a] /\ f[a] \in Nat /\ f[b] \in Nat /\ f[n] \in Nat
    BY <1>5, <2>5
  <2>7. k # 0 /\ t # 0 /\ k \in Nat /\ t \in Nat
    BY <2>1
  <2>8. f[n] - f[a] + k - 1 <= f[n] - f[b] + t - 1
    BY <2>1, <2>6, <2>7
  <2> QED BY <2>2, <2>3, <2>4, <2>7, <2>8
<1>7. ASSUME NEW k \in 1..m PROVE FitsTail(rows, h, k)
  <2>1. PICK ov, w, v, p : ov = Overhead(rows, h) /\ w = RowsWidth(Suffix(rows, k))
                           /\ v = RowsWidth(Suffix(rows, t)) /\ p = RowsWidth(Prefix(rows, h))
    OBVIOUS
  <2>2. k \in 0..n /\ k <= n - h /\ n - k - h \in Nat /\ n - k - h <= n
    BY <1>1, <1>2, <1>3, SMTT(20)
  <2>3. MarkerLen(n - k - h) <= MarkerLen(n) /\ MarkerLen(n - k - h) \in Nat /\ MarkerLen(n) \in Nat
    BY <2>2, MarkerGrows
  <2>4. v + MarkerLen(n) + 2 <= Budget - half
    BY <1>2, <2>1 DEF TailFits
  <2>5. w <= v
    BY <1>6, <2>1
  <2>6. p \in Nat
    <3>1. Prefix(rows, h) \in Seq(R)
      <4>1. h \in 0..Len(rows)
        BY <1>1, <1>2
      <4> QED BY <4>1, SuffixIs
    <3> QED BY <2>1, <3>1, RowsWidthNat
  <2>7. ov \in Nat /\ ov <= half + 2
    <3>1. ov = IF h > 0 THEN p + 2 ELSE 1
      BY <2>1 DEF Overhead
    <3>2. p <= half
      BY <1>1, <1>2, <2>1
    <3> QED BY <2>6, <3>1, <3>2
  <2>8. w \in Nat /\ v \in Nat
    <3>1. k \in 0..Len(rows) /\ t \in 0..Len(rows)
      BY <1>2, <2>2
    <3>2. Suffix(rows, k) \in Seq(R) /\ Suffix(rows, t) \in Seq(R)
      BY <3>1, SuffixIs
    <3> QED BY <2>1, <3>2, RowsWidthNat
  <2>9. PICK x \in Nat, y \in Nat : x = MarkerLen(n - k - h) /\ y = MarkerLen(n) /\ x <= y
    BY <2>3
  <2>10. ov + x + w <= Budget
    <3>1. Budget \in Nat /\ v + y + 2 <= Budget - half
      BY <1>0, <2>4, <2>9 DEF Bounds
    <3>2. \A o, a, b, c, e, g, q \in Nat :
             o <= g + 2 /\ a <= b /\ c <= e /\ e + b + 2 <= q - g => o + a + c <= q
      OBVIOUS
    <3> QED BY <2>5, <2>7, <2>8, <2>9, <3>1, <3>2, ZenonT(30)
  <2> QED BY <1>2, <2>1, <2>9, <2>10 DEF FitsTail
<1>8. m <= TailRows(rows, h)
  <2>1. m \in 0..(Len(rows) - h)
    BY <1>1, <1>2, <1>3
  <2> QED BY <1>1, <1>7, <2>1, TailRowsFit
<1>9. TailRows(rows, h) \in 0..(Len(rows) - h)
  BY <1>1, TailRowsFit
<1> QED BY <1>1, <1>2, <1>3, <1>8, <1>9

\* A view with a seam is within its budget.
LEMMA SeamedFits ==
    ASSUME NEW R, Wide(R), AllWhole(R), NEW rows \in Seq(R), NEW h \in 0..(Len(rows) - 1),
           RowsWidth(Prefix(rows, h)) <= Budget \div 2,
           NEW t \in 0..(Len(rows) - h), \A k \in 1..t : FitsTail(rows, h, k), h # 0 \/ t # 0,
           NEW d \in Nat, h + t + d = Len(rows), NEW out, IsSeamed(out, rows, h, t, d)
    PROVE  RowsWidth(out) <= Budget
<1>0. Bounds
  BY BoundsHold
<1>1. PICK n \in Nat, half \in Nat : n = Len(rows) /\ half = Budget \div 2
  BY <1>0 DEF Bounds
<1>2. h \in Nat /\ t \in Nat /\ h \in 0..n /\ t \in 0..n
  BY <1>1
<1>3. RowsWidth(out) = (IF h = 0 THEN 0 ELSE RowsWidth(Prefix(rows, h)) + 1) + MarkerLen(d)
                       + (IF t = 0 THEN 0 ELSE RowsWidth(Suffix(rows, t)) + 1)
  BY <1>2, SeamedIs
<1>4. PICK p \in Nat, s \in Nat : p = RowsWidth(Prefix(rows, h)) /\ s = RowsWidth(Suffix(rows, t))
  <2>1. Suffix(rows, t) \in Seq(R) /\ Prefix(rows, h) \in Seq(R)
    BY <1>1, <1>2, SuffixIs
  <2>2. RowsWidth(Suffix(rows, t)) \in Nat /\ RowsWidth(Prefix(rows, h)) \in Nat
    BY <2>1, RowsWidthNat
  <2> QED BY <2>2
<1>5. PICK mk \in Nat : mk = MarkerLen(d) /\ mk <= SeamWidth + 2
  BY MarkerGrows
<1>6. p <= half /\ Budget \in Nat /\ SeamWidth \in Nat /\ half >= SeamWidth + 3
      /\ Budget - half >= half
  BY <1>0, <1>1, <1>4 DEF Bounds
<1>7. CASE t = 0
  <2>1. RowsWidth(out) = (IF h = 0 THEN 0 ELSE p + 1) + mk
    BY <1>3, <1>4, <1>5, <1>7
  <2>2. p + 1 + mk <= Budget /\ mk <= Budget
    BY <1>5, <1>6
  <2> QED BY <2>1, <2>2
<1>8. CASE t # 0
  <2>1. FitsTail(rows, h, t)
    BY <1>2, <1>8
  <2>2. n - t - h = d
    BY <1>1, <1>2
  <2>3. Overhead(rows, h) + mk + s <= Budget
    BY <1>1, <1>4, <1>5, <2>1, <2>2 DEF FitsTail
  <2>4. Overhead(rows, h) = IF h > 0 THEN p + 2 ELSE 1
    BY <1>4 DEF Overhead
  <2>5. RowsWidth(out) = (IF h = 0 THEN 0 ELSE p + 1) + mk + (s + 1)
    BY <1>3, <1>4, <1>5, <1>8
  <2>6. CASE h = 0
    <3>1. RowsWidth(out) = 0 + mk + (s + 1) /\ 1 + mk + s <= Budget
      BY <2>3, <2>4, <2>5, <2>6
    <3> QED BY <3>1
  <2>7. CASE h # 0
    <3>1. RowsWidth(out) = (p + 1) + mk + (s + 1) /\ (p + 2) + mk + s <= Budget
      BY <1>2, <2>3, <2>4, <2>5, <2>7
    <3> QED BY <3>1
  <2> QED BY <2>6, <2>7
<1> QED BY <1>7, <1>8

\* The tail of a seamed view is the tail of its rows.
LEMMA SeamedTail ==
    ASSUME NEW R, Wide(R), NEW rows \in Seq(R), NEW h \in Nat, NEW t \in Nat, NEW d \in Nat,
           h + t + d = Len(rows), NEW out, SeamedShape(out, R, rows, h, t, d), NEW k \in 0..t
    PROVE  Suffix(rows, k) = Suffix(out, k)
<1>1. /\ out \in Seq(Shortened(R)) /\ Len(out) = h + 1 + t
      /\ \A j \in 1..t : out[h + 1 + j] = rows[h + d + j]
  BY DEF SeamedShape
<1>2. k \in 0..Len(rows) /\ k \in 0..Len(out) /\ k \in Nat
  BY <1>1
<1>3. PICK a, b : a = Suffix(rows, k) /\ b = Suffix(out, k)
  OBVIOUS
<1>4. a \in Seq(R) /\ Len(a) = k /\ \A j \in 1..k : a[j] = rows[(Len(rows) - k) + j]
  BY <1>2, <1>3, SuffixIs
<1>5. b \in Seq(Shortened(R)) /\ Len(b) = k /\ \A j \in 1..k : b[j] = out[(Len(out) - k) + j]
  BY <1>1, <1>2, <1>3, SuffixIs
<1>6. ASSUME NEW j \in 1..k PROVE a[j] = b[j]
  <2>1. PICK i \in 1..t : i = t - k + j
    OBVIOUS
  <2>2. (Len(rows) - k) + j = h + d + i /\ (Len(out) - k) + j = h + 1 + i
    BY <1>1, <2>1
  <2>3. a[j] = rows[h + d + i]
    BY <1>4, <2>2
  <2>4. b[j] = out[h + 1 + i]
    BY <1>5, <2>2
  <2> QED BY <1>1, <2>3, <2>4
<1>7. R \subseteq Shortened(R)
  BY SeamIsShort
<1>8. a \in Seq(Shortened(R))
  BY <1>4, <1>7, SeqMonotonic
<1>9. a = b
  BY <1>4, <1>5, <1>6, <1>8, SeqEqual
<1> QED BY <1>3, <1>9

LEMMA BudgetCapKeepsEnds ==
    ASSUME NEW R, Wide(R), AllWhole(R), NEW rows \in Seq(R)
    PROVE  EndsKept(rows, BudgetCap(rows))
<1>1. CASE RowsWidth(rows) <= Budget
  BY <1>1 DEF EndsKept, BudgetCap
<1>2. CASE ~(RowsWidth(rows) <= Budget)
  <2>0. Budget \in Nat /\ RowsWidth(rows) \in Nat
    BY BoundsHold, RowsWidthNat DEF Bounds
  <2>1. RowsWidth(rows) > Budget /\ rows # <<>>
    <3>1. RowsWidth(rows) > Budget
      BY <1>2, <2>0
    <3>2. RowsWidth(<<>>) = 0
      BY Zenon DEF RowsWidth
    <3> QED BY <2>0, <3>1, <3>2
  <2>2. PICK h : h = HeadRows(rows)
    OBVIOUS
  <2>3. h \in 0..(Len(rows) - 1) /\ RowsWidth(Prefix(rows, h)) <= Budget \div 2
    BY <2>1, <2>2, HeadRowsFit
  <2>4. PICK t : t = TailRows(rows, h)
    OBVIOUS
  <2>5. t \in 0..(Len(rows) - h) /\ \A k \in 1..t : FitsTail(rows, h, k)
    BY <2>3, <2>4, TailRowsFit
  <2>6. BudgetCap(rows) = KeepEnds(rows, h, t)
    BY <1>2, <2>2, <2>4 DEF BudgetCap, KeepHead
  <2>7. PICK d \in Nat : h + t + d = Len(rows) /\ d = Len(rows) - h - t
    <3>1. Len(rows) - h - t \in Nat /\ h + t + (Len(rows) - h - t) = Len(rows)
      BY <2>3, <2>5
    <3> QED BY <3>1
  <2>8. ASSUME NEW k \in 1..Len(rows), TailFits(rows, k) PROVE d = 0 \/ t >= k
    <3>1. t = Len(rows) - h \/ t >= k
      BY <2>1, <2>2, <2>4, <2>8, TailIsKept
    <3> QED BY <2>3, <2>5, <2>7, <3>1
  <2>9. CASE h = 0 /\ t = 0
    <3>1. BudgetCap(rows) = HardCut(rows)
      BY <2>6, <2>9 DEF KeepEnds
    <3>2. RowsWidth(HardCut(rows).rows) <= Budget /\ ~NoPart(HardCut(rows).rows)
      BY <2>1, HardCutFits
    <3>3. \A k \in 1..Len(rows) : ~TailFits(rows, k)
      <4>1. Len(rows) \in Nat \ {0}
        BY <2>1
      <4> QED BY <2>7, <2>8, <2>9, <4>1
    <3> QED BY <3>1, <3>2, <3>3 DEF EndsKept
  <2>10. CASE ~(h = 0 /\ t = 0)
    <3>1. BudgetCap(rows) = Seamed(rows, h, t, d)
      BY <2>6, <2>7, <2>10 DEF KeepEnds
    <3>2. PICK out : out = Seamed(rows, h, t, d).rows
      OBVIOUS
    <3>3. IsSeamed(out, rows, h, t, d)
      BY <3>2 DEF IsSeamed
    <3>4. BudgetCap(rows).rows = out /\ BudgetCap(rows).dropped = d
      BY <3>1, <3>2 DEF Seamed
    <3>5. h \in Nat /\ t \in Nat /\ (h # 0 \/ t # 0) /\ h + t + d = Len(rows)
      BY <2>3, <2>5, <2>7, <2>10
    <3>6. RowsWidth(out) <= Budget
      BY <2>3, <2>5, <3>3, <3>5, SeamedFits
    <3>7. Cardinality(KeptIn(out)) + d = Len(rows)
      BY <3>3, <3>5, SeamedCounts
    <3>8. SeamedShape(out, R, rows, h, t, d)
      BY <3>3, <3>5, SeamedIs
    <3>9. ASSUME d > 0, NEW k \in 1..Len(rows), TailFits(rows, k)
          PROVE  Suffix(rows, k) = Suffix(out, k)
      <4>1. k \in 0..t
        BY <2>8, <3>5, <3>9
      <4> QED BY <3>5, <3>8, <4>1, SeamedTail
    <3> QED BY <3>4, <3>6, <3>7, <3>9 DEF EndsKept
  <2> QED BY <2>9, <2>10
<1> QED BY <1>1, <1>2

-----------------------------------------------------------------------------
(* Lines of a text, one character at a time.                               *)

\* A sequence of n elements, known by its elements.
LEMMA SeqIs ==
    ASSUME NEW R, NEW n \in Nat, NEW s, s = [i \in 1..n |-> s[i]], \A i \in 1..n : s[i] \in R
    PROVE  s \in Seq(R) /\ Len(s) = n /\ DOMAIN s = 1..n
<1>1. s \in [1..n -> R]
  OBVIOUS
<1> QED BY <1>1

\* A sequence with one element more.
OneLonger(z, s, e, n) == Len(z) = n + 1 /\ z[n + 1] = e /\ \A i \in 1..n : z[i] = s[i]

LEMMA Appended ==
    ASSUME NEW R, NEW s \in Seq(R), NEW e \in R, NEW n \in Nat, n = Len(s)
    PROVE  Append(s, e) \in Seq(R) /\ OneLonger(Append(s, e), s, e, n)
<1>1. PICK z : z = Append(s, e)
  OBVIOUS
<1>2. z \in Seq(R) /\ Len(z) = n + 1 /\ z[n + 1] = e /\ \A i \in 1..n : z[i] = s[i]
  BY <1>1, AppendProperties
<1> QED BY <1>1, <1>2 DEF OneLonger

\* The last element replaced or kept, and what comes before it.
LEMMA LastIs ==
    ASSUME NEW R, NEW s \in Seq(R), s # <<>>
    PROVE  /\ Last(s) \in R /\ Front(s) \in Seq(R) /\ Len(Front(s)) = Len(s) - 1
           /\ \A i \in 1..(Len(s) - 1) : Front(s)[i] = s[i]
<1>1. PICK n \in Nat : n + 1 = Len(s)
  <2>1. Len(s) \in Nat \ {0}
    OBVIOUS
  <2>2. Len(s) - 1 \in Nat /\ (Len(s) - 1) + 1 = Len(s)
    BY <2>1
  <2> QED BY <2>2, Zenon
<1>2. n \in 0..Len(s) /\ Len(s) - 1 = n
  BY <1>1
<1>3. Prefix(s, n) \in Seq(R) /\ Len(Prefix(s, n)) = n /\ \A j \in 1..n : Prefix(s, n)[j] = s[j]
  BY <1>2, SuffixIs
<1>4. Front(s) = Prefix(s, n)
  BY <1>2 DEF Front, Prefix
<1>5. Last(s) \in R
  BY <1>1 DEF Last
<1> QED BY <1>2, <1>3, <1>4, <1>5, SMTT(20)

\* The text of a stream, line by line.
SplitStep(ls, c) ==
    IF c = "lf" THEN Append(ls, <<>>) ELSE Append(Front(ls), Append(Last(ls), c))

SplitRun(g, C, text) ==
    /\ g \in [0..Len(text) -> Seq(Seq(C)) \ {<<>>}]
    /\ g[0] = << <<>> >>
    /\ \A k \in 1..Len(text) : g[k] = SplitStep(g[k - 1], text[k])

LEMMA SplitStepIs ==
    ASSUME NEW C, NEW ls \in Seq(Seq(C)) \ {<<>>}, NEW c \in C
    PROVE  SplitStep(ls, c) \in Seq(Seq(C)) \ {<<>>}
<1>0. PICK L : L = Seq(C)
  OBVIOUS
<1>1. <<>> \in L /\ ls \in Seq(L)
  BY <1>0
<1>2. Last(ls) \in L /\ Front(ls) \in Seq(L)
  BY <1>1, LastIs
<1>3. Append(Last(ls), c) \in L
  BY <1>0, <1>2, AppendProperties
<1>4. Append(Front(ls), Append(Last(ls), c)) \in Seq(L) \ {<<>>}
  <2>1. PICK f \in Seq(L), x \in L : f = Front(ls) /\ x = Append(Last(ls), c)
    BY <1>2, <1>3
  <2>2. f \in Seq(L) /\ x \in L
    BY <2>1
  <2>3. Append(f, x) \in Seq(L) /\ Append(f, x) # <<>>
    BY <2>2, AppendProperties
  <2> QED BY <2>1, <2>3
<1>5. Append(ls, <<>>) \in Seq(L) \ {<<>>}
  BY <1>1, AppendProperties
<1> QED BY <1>0, <1>4, <1>5 DEF SplitStep

-----------------------------------------------------------------------------
\* A fold from the left, one position after the other.
Ran(g, n, V, base, step) ==
  /\ g \in [0..n -> V] /\ g[0] = base
  /\ \A k \in 1..n : g[k] = step[<<k, g[k - 1]>>]

LEMMA FoldedRun ==
    ASSUME NEW n \in Nat, NEW V, NEW base \in V, NEW step, StepsIn(step, 1..n, V), NEW f,
           f[{}] = base,
           \A k \in 1..n : f[1..(k - 1)] \in V => f[1..k] = step[<<k, f[1..(k - 1)]>>]
    PROVE  \E g : Ran(g, n, V, base, step) /\ g[n] = f[1..n]
<1>1. PICK g : g = [k \in 0..n |-> f[1..k]]
  OBVIOUS
<1>2. \A k \in 0..n : g[k] = f[1..k]
  BY <1>1
<1>3. g[0] = base
  <2>1. 1..0 = {} /\ 0 \in 0..n
    OBVIOUS
  <2> QED BY <1>2, <2>1
<1>4. \A k \in 1..n : k \in 0..n /\ k - 1 \in 0..n
  OBVIOUS
<1> DEFINE G == {k \in Nat : k <= n => g[k] \in V}
<1>5. \A k \in Nat : k \in G
  <2>1. 0 \in G
    BY <1>3
  <2>2. ASSUME NEW k \in Nat, k \in G PROVE k + 1 \in G
    <3>1. CASE k + 1 <= n
      <4>1. PICK j \in 1..n : j = k + 1 /\ j - 1 = k
        BY <3>1
      <4>2. g[k] \in V /\ g[k] = f[1..k] /\ g[j] = f[1..j]
        BY <1>2, <1>4, <2>2, <3>1, <4>1
      <4>3. f[1..j] = step[<<j, f[1..k]>>]
        BY <4>1, <4>2
      <4>4. step[<<j, g[k]>>] \in V
        BY <4>2 DEF StepsIn
      <4> QED BY <4>1, <4>2, <4>3, <4>4
    <3> QED BY <3>1
  <2> HIDE DEF G
  <2> QED BY <2>1, <2>2, UpFromZero
<1>6. \A k \in 0..n : g[k] \in V
  BY <1>5
<1>7. \A k \in 1..n : g[k] = step[<<k, g[k - 1]>>]
  BY <1>2, <1>4, <1>6
<1> QED BY <1>1, <1>2, <1>3, <1>6, <1>7 DEF Ran

\* What the fold holds of a set of positions, and of the positions up to k.
LeftSteps(it, n, V, base, step) ==
    \A T \in SUBSET (1..n) :
       /\ T = {} => it[T] = base
       /\ T # {} => /\ Max(T) \in 1..n /\ it[T \ {Max(T)}] \in V
                    /\ it[T] = step[<<Max(T), it[T \ {Max(T)}]>>]

LEMMA LeftFoldSteps ==
    ASSUME NEW n \in Nat, NEW V, NEW base \in V, NEW step, StepsIn(step, 1..n, V)
    PROVE  \E it \in [SUBSET (1..n) -> V] : LeftSteps(it, n, V, base, step)
<1>1. PICK it : FoldedLeft(it, n, V, base, step)
  BY LeftFoldHasValue
<1>2. ASSUME NEW T \in SUBSET (1..n), T # {} PROVE Max(T) \in T
  <2>1. T \subseteq 0..n
    OBVIOUS
  <2> QED BY <1>2, <2>1, MaxIn
<1> QED BY <1>1, <1>2 DEF FoldedLeft, LeftSteps
-----------------------------------------------------------------------------

LEMMA SplitRuns ==
    ASSUME NEW C, NEW text \in Seq(C)
    PROVE  \E g : SplitRun(g, C, text) /\ Split(text) = g[Len(text)]
<1>1. PICK n \in Nat : n = Len(text) /\ DOMAIN text = 1..n
  OBVIOUS
<1>2. PICK V : V = Seq(Seq(C)) \ {<<>>}
  OBVIOUS
<1>3. PICK base \in V : base = << <<>> >>
  <2>1. << <<>> >> \in Seq(Seq(C)) \ {<<>>}
    OBVIOUS
  <2> QED BY <1>2, <2>1
<1>4. PICK step : step = [p \in (1..n) \X V |-> SplitStep(p[2], text[p[1]])]
  OBVIOUS
<1>5. \A k \in 1..n, v \in V : step[<<k, v>>] = SplitStep(v, text[k]) /\ SplitStep(v, text[k]) \in V
  <2>1. ASSUME NEW k \in 1..n, NEW v \in V
        PROVE  step[<<k, v>>] = SplitStep(v, text[k]) /\ SplitStep(v, text[k]) \in V
    <3>1. step[<<k, v>>] = SplitStep(v, text[k])
      BY <1>4
    <3>2. text[k] \in C
      BY <1>1
    <3> QED BY <1>2, <3>1, <3>2, SplitStepIs
  <2> QED BY <2>1, Zenon
<1>6. StepsIn(step, 1..n, V)
  BY <1>5, Zenon DEF StepsIn
<1> DEFINE Is(f) == f = [T \in SUBSET DOMAIN text |->
                           IF T = {} THEN << <<>> >>
                           ELSE IF text[Max(T)] = "lf" THEN Append(f[T \ {Max(T)}], <<>>)
                                ELSE Append(Front(f[T \ {Max(T)}]),
                                            Append(Last(f[T \ {Max(T)}]), text[Max(T)]))]
           Is2(f) == f = [T \in SUBSET (1..n) |->
                           IF T = {} THEN base ELSE SplitStep(f[T \ {Max(T)}], text[Max(T)])]
<1>7. \A f : Is(f) <=> Is2(f)
  BY <1>1, <1>3 DEF SplitStep
<1>8. \E f : Is2(f)
  <2>1. PICK it \in [SUBSET (1..n) -> V] : \A T \in SUBSET (1..n) :
             /\ T = {} => it[T] = base
             /\ T # {} => /\ Max(T) \in 1..n /\ it[T \ {Max(T)}] \in V
                          /\ it[T] = step[<<Max(T), it[T \ {Max(T)}]>>]
    <3>1. \E it \in [SUBSET (1..n) -> V] : LeftSteps(it, n, V, base, step)
      BY <1>6, LeftFoldSteps
    <3> QED BY <3>1 DEF LeftSteps
  <2>2. ASSUME NEW T \in SUBSET (1..n)
        PROVE  it[T] = IF T = {} THEN base ELSE SplitStep(it[T \ {Max(T)}], text[Max(T)])
    BY <1>5, <2>1
  <2> QED BY <2>2
<1>9. PICK f : f = CHOOSE h : Is(h)
  OBVIOUS
<1>10. Split(text) = f[1..n]
  BY <1>1, <1>9 DEF Split, FoldLeft, MapThenFoldSet
<1>11. Is2(f)
  <2> HIDE DEF Is, Is2
  <2> QED BY <1>7, <1>8, <1>9
<1>12. \A T \in SUBSET (1..n) :
         f[T] = IF T = {} THEN base ELSE SplitStep(f[T \ {Max(T)}], text[Max(T)])
  BY <1>11
<1> HIDE DEF Is, Is2
<1>13. f[{}] = base
  BY <1>12
<1>14. ASSUME NEW k \in 1..n, f[1..(k - 1)] \in V
       PROVE  f[1..k] = step[<<k, f[1..(k - 1)]>>]
  <2>1. 1..k \in SUBSET (1..n) /\ 1..k # {} /\ Max(1..k) = k /\ (1..k) \ {k} = 1..(k - 1)
    BY Positions
  <2>2. f[1..k] = SplitStep(f[1..(k - 1)], text[k])
    BY <1>12, <2>1
  <2> QED BY <1>5, <1>14, <2>2
<1>15. PICK g : Ran(g, n, V, base, step) /\ g[n] = f[1..n]
  BY <1>6, <1>13, <1>14, FoldedRun
<1>16. \A k \in 1..n : g[k] = SplitStep(g[k - 1], text[k])
  <2>1. ASSUME NEW k \in 1..n PROVE g[k] = SplitStep(g[k - 1], text[k])
    <3>1. g[k] = step[<<k, g[k - 1]>>] /\ g[k - 1] \in V
      <4>1. k - 1 \in 0..n
        OBVIOUS
      <4> QED BY <1>15, <4>1 DEF Ran
    <3> QED BY <1>5, <3>1
  <2> QED BY <2>1
<1>17. SplitRun(g, C, text)
  BY <1>1, <1>2, <1>3, <1>15, <1>16 DEF SplitRun, Ran
<1> QED BY <1>1, <1>10, <1>15, <1>17

-----------------------------------------------------------------------------
(* terminalNormalize keeps to the characters of the text.                  *)

LEMMA SkipIn ==
    ASSUME NEW C, NEW text \in Seq(C), NEW i \in Nat \ {0}, i <= Len(text) + 1, NEW S, "end" \notin S
    PROVE  /\ Skip(text, i, S) \in i..(Len(text) + 1) /\ At(text, Skip(text, i, S)) \notin S
           /\ \A j \in i..(Len(text) + 1) : At(text, j) \notin S => Skip(text, i, S) <= j
<1>1. PICK n \in Nat : n = Len(text)
  OBVIOUS
<1>2. PICK A : A = {j \in i..(n + 1) : At(text, j) \notin S}
  OBVIOUS
<1>3. At(text, n + 1) = "end"
  BY <1>1 DEF At
<1>4. n + 1 \in A
  BY <1>1, <1>2, <1>3
<1>5. A \subseteq Nat
  BY <1>2
<1>6. Min(A) \in A /\ \A j \in A : Min(A) <= j
  BY <1>4, <1>5, MinIn
<1>7. Skip(text, i, S) = Min(A)
  BY <1>1, <1>2 DEF Skip
<1> QED BY <1>1, <1>2, <1>6, <1>7

LEMMA AtIs ==
    ASSUME NEW C, NEW text \in Seq(C), NEW i
    PROVE  At(text, i) # "end" => i \in 1..Len(text) /\ At(text, i) = text[i]
  BY DEF At

LEMMA ControlEndIn ==
    ASSUME NEW C, NEW text \in Seq(C), NEW i \in 1..Len(text)
    PROVE  ControlEnd(text, i) = 0 \/ ControlEnd(text, i) \in (i + 1)..Len(text)
<1>1. PICK n \in Nat : n = Len(text)
  OBVIOUS
<1>2. CASE At(text, i) = "esc" /\ At(text, i + 1) = "["
  <2>1. i + 1 \in 1..n
    BY <1>1, <1>2, AtIs
  <2>2. PICK a : a = Skip(text, i + 2, Params)
    OBVIOUS
  <2>3. a \in (i + 2)..(n + 1)
    <3>1. i + 2 \in Nat \ {0} /\ i + 2 <= Len(text) + 1 /\ "end" \notin Params
      BY <1>1, <2>1 DEF Params
    <3> QED BY <1>1, <2>2, <3>1, SkipIn
  <2>4. PICK b : b = Skip(text, a, Intermediates)
    OBVIOUS
  <2>5. b \in a..(n + 1)
    <3>1. a \in Nat \ {0} /\ a <= Len(text) + 1 /\ "end" \notin Intermediates
      BY <1>1, <2>3 DEF Intermediates
    <3> QED BY <1>1, <2>4, <3>1, SkipIn
  <2>6. CSIEnd(text, i) = IF At(text, b) \in Finals THEN b ELSE 0
    BY <2>2, <2>4 DEF CSIEnd
  <2>7. At(text, b) \in Finals => b \in 1..n
    <3>1. "end" \notin Finals
      BY DEF Finals
    <3> QED BY <1>1, <3>1, AtIs
  <2>8. CSIEnd(text, i) = 0 \/ CSIEnd(text, i) \in (i + 1)..n
    BY <2>3, <2>5, <2>6, <2>7
  <2> QED BY <1>1, <1>2, <2>8 DEF ControlEnd
<1>3. CASE At(text, i) = "esc" /\ At(text, i + 1) = "]"
  <2>1. PICK stops : stops = OSCStops(text, i)
    OBVIOUS
  <2>2. CASE stops = {}
    <3>1. OSCEnd(text, i) = 0
      BY <2>1, <2>2 DEF OSCEnd
    <3> QED BY <1>3, <3>1 DEF ControlEnd
  <2>3. CASE stops # {}
    <3>1. stops \subseteq (i + 2)..n
      BY <1>1, <2>1 DEF OSCStops
    <3>2. PICK m : m = Min(stops)
      OBVIOUS
    <3>3. m \in stops
      <4>1. stops \subseteq Nat
        BY <3>1
      <4> QED BY <2>3, <3>2, <4>1, MinIn
    <3>4. m \in (i + 2)..n /\ At(text, m) = text[m]
      BY <1>1, <3>1, <3>3 DEF At
    <3>5. \/ text[m] = "bel" \/ text[m] = "lf" \/ (text[m] = "esc" /\ At(text, m + 1) = "\\")
      BY <2>1, <3>3 DEF OSCStops
    <3>6. OSCEnd(text, i) = CASE stops = {} -> 0
                              [] stops # {} /\ At(text, m) = "lf" -> 0
                              [] stops # {} /\ At(text, m) = "bel" -> m
                              [] stops # {} /\ At(text, m) = "esc" -> m + 1
      BY <2>1, <3>2 DEF OSCEnd
    <3>7. At(text, m) = "esc" => m + 1 \in 1..n
      <4>1. At(text, m) = "esc" => At(text, m + 1) # "end"
        BY <3>4, <3>5
      <4> QED BY <1>1, <4>1, AtIs
    <3>8. OSCEnd(text, i) = 0 \/ OSCEnd(text, i) \in (i + 1)..n
      <4>1. CASE At(text, m) = "lf"
        BY <2>3, <3>6, <4>1
      <4>2. CASE At(text, m) = "bel"
        BY <2>3, <3>4, <3>6, <4>2
      <4>3. CASE At(text, m) = "esc"
        <5>1. OSCEnd(text, i) = m + 1
          BY <2>3, <3>6, <4>3
        <5> QED BY <3>4, <3>7, <4>3, <5>1
      <4> QED BY <3>4, <3>5, <4>1, <4>2, <4>3
    <3> QED BY <1>1, <1>3, <3>8 DEF ControlEnd
  <2> QED BY <2>2, <2>3
<1>4. CASE ~(At(text, i) = "esc" /\ (At(text, i + 1) = "[" \/ At(text, i + 1) = "]"))
  BY <1>4 DEF ControlEnd
<1> QED BY <1>2, <1>3, <1>4

NormState(C) == {s \in [out : Seq(C), start : Nat, next : Nat] : s.start <= Len(s.out)}

LEMMA ControlEndAt ==
    ASSUME NEW C, NEW text \in Seq(C), NEW i \in 1..Len(text), ControlEnd(text, i) > 0
    PROVE  text[i] = "esc"
<1>1. At(text, i) = text[i]
  BY DEF At
<1>2. CASE At(text, i) # "esc"
  <2>1. ControlEnd(text, i) = 0
    BY <1>2 DEF ControlEnd
  <2> QED BY <2>1
<1> QED BY <1>1, <1>2

LEMMA TurnIs ==
    ASSUME NEW C, "lf" \in C, NEW text \in Seq(C), NEW i \in 1..Len(text), NEW s \in NormState(C)
    PROVE  Turn(text, s, i) \in NormState(C)
<1>1. s \in [out : Seq(C), start : Nat, next : Nat] /\ s.start <= Len(s.out)
  BY DEF NormState
<1>2. PICK o \in Seq(C), st \in Nat, nx \in Nat :
         /\ s.out = o /\ s.start = st /\ s.next = nx /\ st <= Len(o)
         /\ s = [out |-> o, start |-> st, next |-> nx]
  BY <1>1
<1>3. ASSUME NEW p \in Seq(C), NEW a \in Nat, a <= Len(p), NEW b \in Nat
      PROVE  [out |-> p, start |-> a, next |-> b] \in NormState(C)
  BY <1>3 DEF NormState
<1>4. text[i] \in C /\ i + 2 \in Nat
  OBVIOUS
<1>5. CASE i < s.next
  <2>1. ~(i >= s.next)
    BY <1>2, <1>5
  <2>2. Turn(text, s, i) = s
    BY <1>5, <2>1 DEF Turn
  <2> QED BY <2>2
<1>6. CASE ~(i < s.next) /\ ControlEnd(text, i) > 0
  <2>0. i >= s.next
    BY <1>2, <1>6
  <2>1. ControlEnd(text, i) + 1 \in Nat
    BY ControlEndIn
  <2>2. Turn(text, s, i) = [s EXCEPT !.next = ControlEnd(text, i) + 1]
    <3>1. text[i] = "esc"
      BY <1>6, ControlEndAt
    <3> QED BY <1>6, <2>0, <3>1 DEF Turn
  <2>3. Turn(text, s, i) = [out |-> o, start |-> st, next |-> ControlEnd(text, i) + 1]
    BY <1>2, <2>2
  <2> QED BY <1>2, <1>3, <2>1, <2>3
<1>7. CASE ~(i < s.next) /\ ~(ControlEnd(text, i) > 0)
  <2>0. i >= s.next
    BY <1>2, <1>7
  <2>1. CASE text[i] = "cr" /\ At(text, i + 1) = "lf"
    <3>1. Turn(text, s, i) = [out |-> Append(o, "lf"), start |-> Len(o) + 1, next |-> i + 2]
      BY <1>2, <1>7, <2>0, <2>1 DEF Turn
    <3>2. Append(o, "lf") \in Seq(C) /\ Len(o) + 1 = Len(Append(o, "lf")) /\ Len(o) + 1 \in Nat
      BY AppendProperties
    <3>3. PICK p \in Seq(C), a \in Nat : p = Append(o, "lf") /\ a = Len(o) + 1 /\ a <= Len(p)
      <4>1. PICK p \in Seq(C) : p = Append(o, "lf")
        BY <3>2
      <4>2. Len(o) + 1 \in Nat /\ Len(o) + 1 <= Len(p)
        BY <3>2, <4>1
      <4> QED BY <4>1, <4>2
    <3> QED BY <1>3, <1>4, <3>1, <3>3
  <2>2. CASE text[i] = "cr" /\ At(text, i + 1) # "lf"
    <3>1. Turn(text, s, i) = [s EXCEPT !.out = SubSeq(s.out, 1, s.start)]
      BY <1>7, <2>0, <2>2 DEF Turn
    <3>2. Turn(text, s, i) = [out |-> SubSeq(o, 1, st), start |-> st, next |-> nx]
      BY <1>2, <3>1
    <3>3. SubSeq(o, 1, st) \in Seq(C) /\ Len(SubSeq(o, 1, st)) = st
      <4>1. st \in 0..Len(o)
        BY <1>2
      <4>2. Prefix(o, st) \in Seq(C) /\ Len(Prefix(o, st)) = st
        BY <4>1, SuffixIs
      <4> QED BY <4>2 DEF Prefix
    <3>4. st <= Len(SubSeq(o, 1, st))
      BY <3>3
    <3> QED BY <1>3, <3>2, <3>3, <3>4
  <2>3. CASE text[i] = "lf"
    <3>1. Turn(text, s, i) = [s EXCEPT !.out = Append(s.out, "lf"), !.start = Len(s.out) + 1]
      BY <1>7, <2>0, <2>3 DEF Turn
    <3>2. Turn(text, s, i) = [out |-> Append(o, "lf"), start |-> Len(o) + 1, next |-> nx]
      BY <1>2, <3>1
    <3>3. Append(o, "lf") \in Seq(C) /\ Len(o) + 1 = Len(Append(o, "lf")) /\ Len(o) + 1 \in Nat
      BY AppendProperties
    <3>4. PICK p \in Seq(C), a \in Nat : p = Append(o, "lf") /\ a = Len(o) + 1 /\ a <= Len(p)
      <4>1. PICK p \in Seq(C) : p = Append(o, "lf")
        BY <3>3
      <4>2. Len(o) + 1 \in Nat /\ Len(o) + 1 <= Len(p)
        BY <3>3, <4>1
      <4> QED BY <4>1, <4>2
    <3> QED BY <1>3, <3>2, <3>4
  <2>4. CASE text[i] # "lf" /\ text[i] # "cr"
    <3>1. Turn(text, s, i) = [s EXCEPT !.out = Append(s.out, text[i])]
      BY <1>7, <2>0, <2>4 DEF Turn
    <3>2. Turn(text, s, i) = [out |-> Append(o, text[i]), start |-> st, next |-> nx]
      BY <1>2, <3>1
    <3>3. Append(o, text[i]) \in Seq(C) /\ Len(o) + 1 = Len(Append(o, text[i]))
      BY <1>4, AppendProperties
    <3>4. st <= Len(Append(o, text[i]))
      BY <1>2, <3>3
    <3> QED BY <1>3, <3>2, <3>3, <3>4
  <2> QED BY <2>1, <2>2, <2>3, <2>4
<1> QED BY <1>5, <1>6, <1>7

NormRun(g, C, text) ==
    /\ g \in [0..Len(text) -> NormState(C)]
    /\ g[0] = [out |-> <<>>, start |-> 0, next |-> 1]
    /\ \A k \in 1..Len(text) : g[k] = Turn(text, g[k - 1], k)

LEMMA NormRuns ==
    ASSUME NEW C, "lf" \in C, NEW text \in Seq(C)
    PROVE  \E g : NormRun(g, C, text) /\ terminalNormalize(text) = g[Len(text)].out
<1>1. PICK n \in Nat : n = Len(text) /\ DOMAIN text = 1..n
  OBVIOUS
<1>2. PICK V : V = NormState(C)
  OBVIOUS
<1>3. PICK base \in V : base = [out |-> <<>>, start |-> 0, next |-> 1]
  <2>1. [out |-> <<>>, start |-> 0, next |-> 1] \in NormState(C)
    BY DEF NormState
  <2> QED BY <1>2, <2>1
<1>4. PICK step : step = [p \in (1..n) \X V |-> Turn(text, p[2], p[1])]
  OBVIOUS
<1>5. \A k \in 1..n, v \in V : step[<<k, v>>] = Turn(text, v, k) /\ Turn(text, v, k) \in V
  <2>1. ASSUME NEW k \in 1..n, NEW v \in V
        PROVE  step[<<k, v>>] = Turn(text, v, k) /\ Turn(text, v, k) \in V
    <3>1. step[<<k, v>>] = Turn(text, v, k)
      BY <1>4
    <3> QED BY <1>1, <1>2, <3>1, TurnIs
  <2> QED BY <2>1, Zenon
<1>6. StepsIn(step, 1..n, V)
  BY <1>5, Zenon DEF StepsIn
<1>0. PICK ids : ids = [i \in DOMAIN text |-> i]
  OBVIOUS
<1>01. DOMAIN ids = 1..n /\ \A i \in 1..n : ids[i] = i
  BY <1>0, <1>1
<1>02. \A T \in SUBSET (1..n) : T # {} => Max(T) \in 1..n
  <2>1. ASSUME NEW T \in SUBSET (1..n), T # {} PROVE Max(T) \in T
    <3>1. T \subseteq 0..n
      OBVIOUS
    <3> QED BY <2>1, <3>1, MaxIn
  <2> QED BY <2>1
<1> DEFINE Is(f) == f = [T \in SUBSET DOMAIN ids |->
                           IF T = {} THEN [out |-> <<>>, start |-> 0, next |-> 1]
                           ELSE Turn(text, f[T \ {Max(T)}], ids[Max(T)])]
           Is2(f) == f = [T \in SUBSET (1..n) |->
                           IF T = {} THEN base ELSE Turn(text, f[T \ {Max(T)}], Max(T))]
<1>7. \A f : Is(f) <=> Is2(f)
  <2>1. ASSUME NEW f
        PROVE  [T \in SUBSET DOMAIN ids |->
                           IF T = {} THEN [out |-> <<>>, start |-> 0, next |-> 1]
                           ELSE Turn(text, f[T \ {Max(T)}], ids[Max(T)])]
               = [T \in SUBSET (1..n) |->
                           IF T = {} THEN base ELSE Turn(text, f[T \ {Max(T)}], Max(T))]
    <3>1. \A T \in SUBSET (1..n) : T # {} => ids[Max(T)] = Max(T)
      BY <1>01, <1>02
    <3> QED BY <1>01, <1>3, <3>1
  <2> QED BY <2>1
<1>8. \E f : Is2(f)
  <2>1. PICK it \in [SUBSET (1..n) -> V] : LeftSteps(it, n, V, base, step)
    BY <1>6, LeftFoldSteps
  <2>2. ASSUME NEW T \in SUBSET (1..n)
        PROVE  it[T] = IF T = {} THEN base ELSE Turn(text, it[T \ {Max(T)}], Max(T))
    BY <1>5, <2>1 DEF LeftSteps
  <2> QED BY <2>2
<1>9. PICK f : f = CHOOSE h : Is(h)
  OBVIOUS
<1>10. terminalNormalize(text) = f[1..n].out
  <2>1. terminalNormalize(text) = f[DOMAIN ids].out
    BY <1>0, <1>9 DEF terminalNormalize, FoldLeftDomain, FoldLeft, MapThenFoldSet
  <2> QED BY <1>01, <2>1
<1>11. Is2(f)
  <2> HIDE DEF Is, Is2
  <2> QED BY <1>7, <1>8, <1>9
<1>12. \A T \in SUBSET (1..n) :
         f[T] = IF T = {} THEN base ELSE Turn(text, f[T \ {Max(T)}], Max(T))
  BY <1>11
<1> HIDE DEF Is, Is2
<1>13. f[{}] = base
  BY <1>12
<1>14. ASSUME NEW k \in 1..n, f[1..(k - 1)] \in V
       PROVE  f[1..k] = step[<<k, f[1..(k - 1)]>>]
  <2>1. 1..k \in SUBSET (1..n) /\ 1..k # {} /\ Max(1..k) = k /\ (1..k) \ {k} = 1..(k - 1)
    BY Positions
  <2>2. f[1..k] = Turn(text, f[1..(k - 1)], k)
    BY <1>12, <2>1
  <2> QED BY <1>5, <1>14, <2>2
<1>15. PICK g : Ran(g, n, V, base, step) /\ g[n] = f[1..n]
  BY <1>6, <1>13, <1>14, FoldedRun
<1>16. \A k \in 1..n : g[k] = Turn(text, g[k - 1], k)
  <2>1. ASSUME NEW k \in 1..n PROVE g[k] = Turn(text, g[k - 1], k)
    <3>1. g[k] = step[<<k, g[k - 1]>>] /\ g[k - 1] \in V
      <4>1. k - 1 \in 0..n
        OBVIOUS
      <4> QED BY <1>15, <4>1 DEF Ran
    <3> QED BY <1>5, <3>1
  <2> QED BY <2>1
<1>17. NormRun(g, C, text)
  BY <1>1, <1>2, <1>3, <1>15, <1>16 DEF NormRun, Ran
<1> QED BY <1>1, <1>10, <1>15, <1>17

-----------------------------------------------------------------------------
(* Rows before the budget.                                                 *)

IsRow(r) == /\ r = [kind |-> r.kind, of |-> r.of, width |-> r.width, cut |-> r.cut]
            /\ r.width \in Nat /\ r.kind \in WholeKinds

\* What is a row by itself is a sequence of rows.
IsRows(rows) ==
    \E n \in Nat : rows = [i \in 1..n |-> rows[i]] /\ \A i \in 1..n : IsRow(rows[i])

LEMMA RowIs ==
    ASSUME NEW kind \in WholeKinds, NEW of, NEW width \in Nat
    PROVE  IsRow(Row(kind, of, width))
  BY DEF IsRow, Row

LEMMA RowsAre ==
    ASSUME NEW rows, IsRows(rows)
    PROVE  \E R : Wide(R) /\ AllWhole(R) /\ rows \in Seq(R)
<1>1. PICK n \in Nat : rows = [i \in 1..n |-> rows[i]] /\ \A i \in 1..n : IsRow(rows[i])
  BY DEF IsRows
<1>2. PICK R : R = {rows[i] : i \in 1..n}
  OBVIOUS
<1>3. rows \in Seq(R)
  BY <1>1, <1>2, SeqIs
<1>4. Wide(R) /\ AllWhole(R)
  BY <1>1, <1>2 DEF Wide, AllWhole, IsRow
<1> QED BY <1>3, <1>4

LEMMA RowsFrom ==
    ASSUME NEW n \in Nat, NEW rows, rows = [i \in 1..n |-> rows[i]], \A i \in 1..n : IsRow(rows[i])
    PROVE  IsRows(rows)
  BY DEF IsRows

LEMMA ClampRow ==
    ASSUME NEW r, IsRow(r)
    PROVE  IsRow([r EXCEPT !.width = LineMax + ClampWidth, !.cut = r.width - LineMax])
<1>1. LineMax + ClampWidth \in Nat
  BY BoundsHold DEF Bounds
<1>2. PICK q : q = [r EXCEPT !.width = LineMax + ClampWidth, !.cut = r.width - LineMax]
  OBVIOUS
<1>3. q = [kind |-> r.kind, of |-> r.of, width |-> LineMax + ClampWidth, cut |-> r.width - LineMax]
  BY <1>2 DEF IsRow
<1>4. r.kind \in WholeKinds
  BY DEF IsRow
<1>5. IsRow(q)
  BY <1>1, <1>3, <1>4 DEF IsRow
<1> QED BY <1>2, <1>5

LEMMA ClampedRows ==
    ASSUME NEW rows, IsRows(rows)
    PROVE  IsRows(ClampLines(rows))
<1>1. PICK n \in Nat : rows = [i \in 1..n |-> rows[i]] /\ \A i \in 1..n : IsRow(rows[i])
  BY DEF IsRows
<1>2. DOMAIN rows = 1..n
  BY <1>1
<1>3. PICK out : out = ClampLines(rows)
  OBVIOUS
<1>4. out = [i \in 1..n |-> IF rows[i].width > LineMax
                THEN [rows[i] EXCEPT !.width = LineMax + ClampWidth, !.cut = rows[i].width - LineMax]
                ELSE rows[i]]
  BY <1>2, <1>3, Zenon DEF ClampLines
<1>5. ASSUME NEW i \in 1..n PROVE IsRow(out[i])
  <2>1. PICK r : r = rows[i]
    OBVIOUS
  <2>2. IsRow(r)
    BY <1>1, <2>1
  <2>3. out[i] = IF r.width > LineMax
                 THEN [r EXCEPT !.width = LineMax + ClampWidth, !.cut = r.width - LineMax] ELSE r
    BY <1>4, <2>1, Zenon
  <2>4. IsRow([r EXCEPT !.width = LineMax + ClampWidth, !.cut = r.width - LineMax])
    BY <2>2, ClampRow, Zenon
  <2>5. PICK q : q = [r EXCEPT !.width = LineMax + ClampWidth, !.cut = r.width - LineMax]
    OBVIOUS
  <2> QED BY <2>2, <2>3, <2>4, <2>5
<1>6. out = [i \in 1..n |-> out[i]]
  BY <1>4, Zenon
<1>7. IsRows(out)
  BY <1>5, <1>6, RowsFrom
<1> QED BY <1>3, <1>7

LEMMA LineRowIs ==
    ASSUME NEW C, NEW line \in Seq(C)
    PROVE  IsRow(LineRow(line))
<1>1. Len(line) \in Nat /\ "line" \in WholeKinds
  BY DEF WholeKinds
<1> QED BY <1>1, RowIs DEF LineRow

LEMMA SplitIs ==
    ASSUME NEW C, NEW text \in Seq(C)
    PROVE  Split(text) \in Seq(Seq(C)) \ {<<>>}
<1>1. PICK g : SplitRun(g, C, text) /\ Split(text) = g[Len(text)]
  BY SplitRuns
<1>2. Len(text) \in 0..Len(text)
  OBVIOUS
<1> QED BY <1>1, <1>2 DEF SplitRun

LEMMA TextRowsAre ==
    ASSUME NEW C, NEW text \in Seq(C)
    PROVE  IsRows(TextRows(text))
<1>1. PICK ls \in Seq(Seq(C)) : ls = Split(text)
  BY SplitIs
<1>2. PICK n \in Nat : DOMAIN ls = 1..n /\ n = Len(ls)
  OBVIOUS
<1>3. PICK rows : rows = [i \in 1..n |-> LineRow(ls[i])]
  OBVIOUS
<1>4. ASSUME NEW i \in 1..n PROVE IsRow(rows[i])
  <2>1. ls[i] \in Seq(C)
    BY <1>2
  <2>2. IsRow(LineRow(ls[i]))
    BY <2>1, LineRowIs
  <2> QED BY <1>3, <2>2
<1>5. rows = [i \in 1..n |-> rows[i]]
  BY <1>3
<1>6. IsRows(rows)
  BY <1>4, <1>5, RowsFrom
<1>7. TextRows(text) = rows
  BY <1>1, <1>2, <1>3 DEF TextRows
<1> QED BY <1>6, <1>7

LEMMA NormIs ==
    ASSUME NEW C, "lf" \in C, NEW text \in Seq(C)
    PROVE  terminalNormalize(text) \in Seq(C)
<1>1. PICK g : NormRun(g, C, text) /\ terminalNormalize(text) = g[Len(text)].out
  BY NormRuns
<1>2. Len(text) \in 0..Len(text)
  OBVIOUS
<1>3. g[Len(text)] \in NormState(C)
  BY <1>1, <1>2 DEF NormRun
<1> QED BY <1>1, <1>3 DEF NormState

-----------------------------------------------------------------------------
(* Sets in order.                                                          *)

\* The places of a finite set in an order.
Below(L, S, x) == {y \in S : <<y, x>> \in L}

StrictOrder(L, S) ==
    /\ \A x \in S : <<x, x>> \notin L
    /\ \A x, y \in S : x = y \/ <<x, y>> \in L \/ <<y, x>> \in L
    /\ \A x, y, z \in S : <<x, y>> \in L /\ <<y, z>> \in L => <<x, z>> \in L

LEMMA RankIn ==
    ASSUME NEW S, IsFiniteSet(S), NEW L, StrictOrder(L, S)
    PROVE  /\ Cardinality(S) \in Nat
           /\ \A x \in S : Cardinality(Below(L, S, x)) \in 0..(Cardinality(S) - 1)
           /\ \A x, y \in S : <<x, y>> \in L =>
                Cardinality(Below(L, S, x)) < Cardinality(Below(L, S, y))
<1>1. Cardinality(S) \in Nat
  BY FS_CardinalityType
<1>2. ASSUME NEW x \in S
      PROVE  IsFiniteSet(Below(L, S, x)) /\ Cardinality(Below(L, S, x)) \in Nat
  <2>1. Below(L, S, x) \in SUBSET S
    BY DEF Below
  <2> QED BY <2>1, FS_Subset, FS_CardinalityType
<1>3. ASSUME NEW x \in S PROVE Cardinality(Below(L, S, x)) \in 0..(Cardinality(S) - 1)
  <2>1. Below(L, S, x) \in SUBSET (S \ {x})
    BY DEF Below, StrictOrder
  <2>2. IsFiniteSet(S \ {x}) /\ Cardinality(S \ {x}) = Cardinality(S) - 1
    BY FS_RemoveElement
  <2>3. Cardinality(Below(L, S, x)) <= Cardinality(S \ {x})
    BY <2>1, <2>2, FS_Subset
  <2> QED BY <1>1, <1>2, <2>2, <2>3
<1>4. ASSUME NEW x \in S, NEW y \in S, <<x, y>> \in L
      PROVE  Cardinality(Below(L, S, x)) < Cardinality(Below(L, S, y))
  <2>1. PICK B : B = Below(L, S, x)
    OBVIOUS
  <2>2. x \notin B /\ B \cup {x} \in SUBSET Below(L, S, y)
    BY <1>4, <2>1 DEF Below, StrictOrder
  <2>3. IsFiniteSet(B) /\ Cardinality(B) \in Nat
    BY <1>2, <2>1
  <2>4. Cardinality(B \cup {x}) = Cardinality(B) + 1
    BY <2>2, <2>3, FS_AddElement
  <2>5. Cardinality(B \cup {x}) <= Cardinality(Below(L, S, y))
    BY <1>2, <2>2, FS_Subset
  <2>6. Cardinality(Below(L, S, y)) \in Nat
    BY <1>2
  <2> QED BY <2>1, <2>3, <2>4, <2>5, <2>6
<1> QED BY <1>1, <1>3, <1>4

LEMMA Ranked ==
    ASSUME NEW S, IsFiniteSet(S), NEW L, StrictOrder(L, S), NEW k \in 1..Cardinality(S)
    PROVE  \E x \in S : Cardinality(Below(L, S, x)) = k - 1
<1>1. PICK n \in Nat : n = Cardinality(S)
  BY RankIn
<1>2. SUFFICES ASSUME \A x \in S : Cardinality(Below(L, S, x)) # k - 1 PROVE FALSE
  OBVIOUS
<1>3. PICK rank : rank = [x \in S |-> Cardinality(Below(L, S, x))]
  OBVIOUS
<1>4. PICK T : T = (0..(n - 1)) \ {k - 1}
  OBVIOUS
<1>5. rank \in [S -> T]
  <2>1. ASSUME NEW x \in S PROVE rank[x] \in T
    <3>1. rank[x] \in 0..(n - 1)
      BY <1>1, <1>3, RankIn
    <3> QED BY <1>2, <1>3, <1>4, <3>1
  <2> QED BY <1>3, <2>1
<1>6. IsFiniteSet(T) /\ Cardinality(T) = n - 1
  <2>1. 0 \in Int /\ n - 1 \in Int /\ n >= 1
    BY <1>1
  <2>2. IsFiniteSet(0..(n - 1)) /\ Cardinality(0..(n - 1)) = IF 0 > n - 1 THEN 0 ELSE (n - 1) - 0 + 1
    BY <2>1, FS_Interval
  <2>3. Cardinality(0..(n - 1)) = n /\ k - 1 \in 0..(n - 1)
    BY <1>1, <2>1, <2>2
  <2>4. /\ IsFiniteSet((0..(n - 1)) \ {k - 1})
        /\ Cardinality((0..(n - 1)) \ {k - 1}) = IF k - 1 \in 0..(n - 1)
              THEN Cardinality(0..(n - 1)) - 1 ELSE Cardinality(0..(n - 1))
    BY <2>2, FS_RemoveElement
  <2> QED BY <1>4, <2>3, <2>4
<1>7. Cardinality(T) < Cardinality(S)
  BY <1>1, <1>6
<1>8. PICK x \in S, y \in S : x # y /\ rank[x] = rank[y]
  BY <1>5, <1>6, <1>7, FS_PigeonHole
<1>9. <<x, y>> \in L \/ <<y, x>> \in L
  BY <1>8 DEF StrictOrder
<1>10. rank[x] = Cardinality(Below(L, S, x)) /\ rank[y] = Cardinality(Below(L, S, y))
  BY <1>3
<1>11. rank[x] < rank[y] \/ rank[y] < rank[x]
  BY <1>9, <1>10, RankIn
<1>12. rank[x] \in Int /\ rank[y] \in Int
  BY <1>4, <1>5
<1> QED BY <1>8, <1>11, <1>12

\* The elements of a set, each where its rank puts it.
RankedBy(a, S, L) ==
    /\ a = [k \in 1..Cardinality(S) |-> a[k]]
    /\ \A k \in 1..Cardinality(S) : a[k] \in S /\ Cardinality(Below(L, S, a[k])) = k - 1

SortedBy(a, S, L) ==
    /\ a \in Seq(S) /\ Len(a) = Cardinality(S)
    /\ \A j, k \in 1..Len(a) : j < k => <<a[j], a[k]>> \in L
    /\ \A x \in S : \E k \in 1..Len(a) : a[k] = x

LEMMA SortedIs ==
    ASSUME NEW S, IsFiniteSet(S), NEW L, StrictOrder(L, S), NEW a, RankedBy(a, S, L)
    PROVE  SortedBy(a, S, L)
<1>1. PICK n \in Nat : n = Cardinality(S)
  BY RankIn
<1>2. a = [k \in 1..n |-> a[k]]
  BY <1>1 DEF RankedBy
<1>3. \A k \in 1..n : a[k] \in S /\ Cardinality(Below(L, S, a[k])) = k - 1
  BY <1>1 DEF RankedBy
<1>4. a \in Seq(S) /\ Len(a) = n
  BY <1>2, <1>3, SeqIs
<1>5. ASSUME NEW j \in 1..n, NEW k \in 1..n, j < k PROVE <<a[j], a[k]>> \in L
  <2>1. a[j] # a[k]
    <3>1. Cardinality(Below(L, S, a[j])) = j - 1 /\ Cardinality(Below(L, S, a[k])) = k - 1
      BY <1>3
    <3>2. j - 1 # k - 1
      BY <1>5
    <3> QED BY <3>1, <3>2
  <2>2. <<a[k], a[j]>> \notin L
    <3> SUFFICES ASSUME <<a[k], a[j]>> \in L PROVE FALSE
      OBVIOUS
    <3>1. Cardinality(Below(L, S, a[k])) < Cardinality(Below(L, S, a[j]))
      BY <1>3, RankIn
    <3>2. k - 1 < j - 1
      BY <1>3, <3>1
    <3> QED BY <1>5, <3>2
  <2> QED BY <1>3, <2>1, <2>2 DEF StrictOrder
<1>6. ASSUME NEW x \in S PROVE \E k \in 1..n : a[k] = x
  <2>1. Cardinality(Below(L, S, x)) \in 0..(n - 1)
    BY <1>1, RankIn
  <2>2. PICK k \in 1..n : k - 1 = Cardinality(Below(L, S, x))
    <3>1. Cardinality(Below(L, S, x)) + 1 \in 1..n
      BY <2>1
    <3> QED BY <2>1, <3>1
  <2>3. a[k] \in S /\ Cardinality(Below(L, S, a[k])) = Cardinality(Below(L, S, x))
    BY <1>3, <2>2
  <2>4. a[k] = x
    <3> SUFFICES ASSUME a[k] # x PROVE FALSE
      OBVIOUS
    <3>1. <<a[k], x>> \in L \/ <<x, a[k]>> \in L
      BY <2>3 DEF StrictOrder
    <3>2. \/ Cardinality(Below(L, S, a[k])) < Cardinality(Below(L, S, x))
          \/ Cardinality(Below(L, S, x)) < Cardinality(Below(L, S, a[k]))
      BY <2>3, <3>1, RankIn
    <3> QED BY <2>1, <2>3, <3>2
  <2> QED BY <2>4
<1> QED BY <1>1, <1>4, <1>5, <1>6 DEF SortedBy

\* Of a set of numbers.
InSequence(a, S) ==
    /\ a \in Seq(S) /\ Len(a) = Cardinality(S)
    /\ \A j, k \in 1..Len(a) : j < k => a[j] < a[k]
    /\ \A x \in S : \E k \in 1..Len(a) : a[k] = x

LEMMA AscendingIs ==
    ASSUME NEW S, S \subseteq Int, IsFiniteSet(S)
    PROVE  InSequence(Ascending(S), S)
<1>1. PICK L : L = {p \in S \X S : p[1] < p[2]}
  OBVIOUS
<1>2. StrictOrder(L, S)
  BY <1>1 DEF StrictOrder
<1>3. \A x \in S : {m \in S : m < x} = Below(L, S, x)
  BY <1>1 DEF Below
<1>4. PICK n \in Nat : n = Cardinality(S)
  BY <1>2, RankIn
<1>5. PICK a : a = Ascending(S)
  OBVIOUS
<1>6. a = [k \in 1..n |-> CHOOSE x \in S : Cardinality({m \in S : m < x}) = k - 1]
  BY <1>4, <1>5 DEF Ascending
<1>7. ASSUME NEW k \in 1..n PROVE a[k] \in S /\ Cardinality(Below(L, S, a[k])) = k - 1
  <2>1. \E x \in S : Cardinality({m \in S : m < x}) = k - 1
    <3>1. PICK x \in S : Cardinality(Below(L, S, x)) = k - 1
      BY <1>2, <1>4, Ranked
    <3>2. {m \in S : m < x} = Below(L, S, x)
      BY <1>3
    <3> QED BY <3>1, <3>2
  <2>2. a[k] \in S /\ Cardinality({m \in S : m < a[k]}) = k - 1
    BY <1>6, <2>1
  <2> QED BY <1>3, <2>2
<1>8. a = [k \in 1..n |-> a[k]]
  <2> DEFINE Ranks(k) == CHOOSE x \in S : Cardinality({m \in S : m < x}) = k - 1
  <2>1. a = [k \in 1..n |-> Ranks(k)]
    BY <1>6
  <2> HIDE DEF Ranks
  <2> QED BY <2>1
<1>9. RankedBy(a, S, L)
  BY <1>4, <1>7, <1>8 DEF RankedBy
<1>10. SortedBy(a, S, L)
  BY <1>2, <1>9, SortedIs
<1>11. \A x, y \in S : <<x, y>> \in L => x < y
  BY <1>1
<1>12. a \in Seq(S) /\ Len(a) = n /\ \A k \in 1..n : a[k] \in S
  BY <1>7, <1>8, SeqIs
<1>13. \A j, k \in 1..n : j < k => a[j] < a[k]
  BY <1>10, <1>11, <1>12 DEF SortedBy
<1>14. InSequence(a, S)
  BY <1>4, <1>10, <1>12, <1>13 DEF InSequence, SortedBy
<1> QED BY <1>5, <1>14

-----------------------------------------------------------------------------
(* Templates.                                                              *)

\* The body of a line, character by character.
SlotsIn(template) == {j \in 1..Len(template) : template[j] = "slot"}

TemplateState(C) ==
    {t \in [template : Seq(C \cup {"slot"}), slots : Seq(Seq(C))] :
        Len(t.slots) = Cardinality(SlotsIn(t.template))}

TemplateStep(t, c) ==
    CASE c \notin Params -> [t EXCEPT !.template = Append(@, c)]
      [] c \in Params /\ t.template # <<>> /\ Last(t.template) = "slot" ->
           [t EXCEPT !.slots[Len(t.slots)] = Append(@, c)]
      [] OTHER -> [template |-> Append(t.template, "slot"), slots |-> Append(t.slots, <<c>>)]

LEMMA SlotsFinite ==
    ASSUME NEW D, NEW tp \in Seq(D)
    PROVE  IsFiniteSet(SlotsIn(tp)) /\ Cardinality(SlotsIn(tp)) \in Nat
<1>1. 1 \in Int /\ Len(tp) \in Int
  OBVIOUS
<1>2. IsFiniteSet(1..Len(tp))
  BY <1>1, FS_Interval
<1>3. SlotsIn(tp) \in SUBSET (1..Len(tp))
  BY DEF SlotsIn
<1> QED BY <1>2, <1>3, FS_Subset, FS_CardinalityType

LEMMA SlotsAppend ==
    ASSUME NEW D, NEW tp \in Seq(D), NEW d \in D
    PROVE  Cardinality(SlotsIn(Append(tp, d)))
             = IF d = "slot" THEN Cardinality(SlotsIn(tp)) + 1 ELSE Cardinality(SlotsIn(tp))
<1>1. PICK n \in Nat : n = Len(tp)
  OBVIOUS
<1>2. PICK q : q = Append(tp, d)
  OBVIOUS
<1>3. Len(q) = n + 1 /\ (\A i \in 1..n : q[i] = tp[i]) /\ q[n + 1] = d
  BY <1>1, <1>2, AppendProperties
<1>4. SlotsIn(q) = IF d = "slot" THEN SlotsIn(tp) \cup {n + 1} ELSE SlotsIn(tp)
  <2>1. \A j \in 1..(n + 1) : j \in 1..n \/ j = n + 1
    OBVIOUS
  <2>2. \A j : j \in SlotsIn(q) <=> (j \in 1..n /\ tp[j] = "slot") \/ (j = n + 1 /\ d = "slot")
    BY <1>3, <2>1 DEF SlotsIn
  <2>3. \A j : j \in SlotsIn(tp) <=> (j \in 1..n /\ tp[j] = "slot")
    BY <1>1 DEF SlotsIn
  <2> QED BY <2>2, <2>3
<1>5. n + 1 \notin SlotsIn(tp) /\ IsFiniteSet(SlotsIn(tp))
  BY <1>1, SlotsFinite DEF SlotsIn
<1>6. Cardinality(SlotsIn(tp) \cup {n + 1}) = Cardinality(SlotsIn(tp)) + 1
  BY <1>5, FS_AddElement
<1> QED BY <1>2, <1>4, <1>6

LEMMA TemplateStepIs ==
    ASSUME NEW C, "slot" \notin C, NEW t \in TemplateState(C), NEW c \in C
    PROVE  TemplateStep(t, c) \in TemplateState(C)
<1>1. PICK D : D = C \cup {"slot"}
  OBVIOUS
<1>2. PICK L : L = Seq(C)
  OBVIOUS
<1>3. PICK tp \in Seq(D), sl \in Seq(L) :
        t = [template |-> tp, slots |-> sl] /\ Len(sl) = Cardinality(SlotsIn(tp))
  BY <1>1, <1>2 DEF TemplateState
<1>4. ASSUME NEW p \in Seq(D), NEW s \in Seq(L), Len(s) = Cardinality(SlotsIn(p))
      PROVE  [template |-> p, slots |-> s] \in TemplateState(C)
  BY <1>1, <1>2, <1>4 DEF TemplateState
<1>5. c \in D /\ "slot" \in D /\ <<c>> \in L /\ c # "slot"
  BY <1>1, <1>2
<1>6. CASE c \notin Params
  <2>1. TemplateStep(t, c) = [t EXCEPT !.template = Append(@, c)]
    BY <1>6 DEF TemplateStep
  <2>2. TemplateStep(t, c) = [template |-> Append(tp, c), slots |-> sl]
    BY <1>3, <2>1
  <2>3. Append(tp, c) \in Seq(D) /\ Cardinality(SlotsIn(Append(tp, c))) = Cardinality(SlotsIn(tp))
    BY <1>5, SlotsAppend, AppendProperties
  <2> QED BY <1>3, <1>4, <2>2, <2>3
<1>7. CASE c \in Params /\ t.template # <<>> /\ Last(t.template) = "slot"
  <2>1. TemplateStep(t, c) = [t EXCEPT !.slots[Len(t.slots)] = Append(@, c)]
    BY <1>7 DEF TemplateStep
  <2>2. PICK s : s = [sl EXCEPT ![Len(sl)] = Append(sl[Len(sl)], c)]
    OBVIOUS
  <2>3. TemplateStep(t, c) = [template |-> tp, slots |-> s]
    BY <1>3, <2>1, <2>2
  <2>4. Len(sl) \in 1..Len(sl)
    <3>1. tp # <<>> /\ Last(tp) = "slot"
      BY <1>3, <1>7
    <3>2. Len(tp) \in SlotsIn(tp)
      BY <3>1 DEF SlotsIn, Last
    <3>3. IsFiniteSet(SlotsIn(tp)) /\ Cardinality(SlotsIn(tp)) \in Nat
      BY SlotsFinite
    <3>4. Cardinality(SlotsIn(tp)) # 0
      BY <3>2, <3>3, FS_EmptySet
    <3> QED BY <1>3, <3>3, <3>4
  <2>5. Append(sl[Len(sl)], c) \in L
    <3>1. sl[Len(sl)] \in L
      BY <2>4
    <3> QED BY <1>2, <3>1, AppendProperties
  <2>6. s \in Seq(L) /\ Len(s) = Len(sl)
    BY <2>2, <2>4, <2>5, ExceptSeq
  <2> QED BY <1>3, <1>4, <2>3, <2>6
<1>8. CASE ~(c \notin Params) /\ ~(c \in Params /\ t.template # <<>> /\ Last(t.template) = "slot")
  <2>1. TemplateStep(t, c) = [template |-> Append(tp, "slot"), slots |-> Append(sl, <<c>>)]
    BY <1>3, <1>8 DEF TemplateStep
  <2>2. Append(tp, "slot") \in Seq(D)
        /\ Cardinality(SlotsIn(Append(tp, "slot"))) = Cardinality(SlotsIn(tp)) + 1
    BY <1>5, SlotsAppend, AppendProperties
  <2>3. Append(sl, <<c>>) \in Seq(L) /\ Len(Append(sl, <<c>>)) = Len(sl) + 1
    BY <1>5, AppendProperties
  <2> QED BY <1>3, <1>4, <2>1, <2>2, <2>3
<1> QED BY <1>6, <1>7, <1>8

TemplateRun(g, C, body) ==
    /\ g \in [0..Len(body) -> TemplateState(C)]
    /\ g[0] = [template |-> <<>>, slots |-> <<>>]
    /\ \A k \in 1..Len(body) : g[k] = TemplateStep(g[k - 1], body[k])

LEMMA TemplateRuns ==
    ASSUME NEW C, "slot" \notin C, NEW body \in Seq(C)
    PROVE  \E g : TemplateRun(g, C, body) /\ Templatize(body) = g[Len(body)]
<1>1. PICK n \in Nat : n = Len(body) /\ DOMAIN body = 1..n
  OBVIOUS
<1>2. PICK V : V = TemplateState(C)
  OBVIOUS
<1>3. PICK base \in V : base = [template |-> <<>>, slots |-> <<>>]
  <2>1. SlotsIn(<<>>) = {}
    BY DEF SlotsIn
  <2>2. [template |-> <<>>, slots |-> <<>>] \in TemplateState(C)
    <3>1. Cardinality(SlotsIn(<<>>)) = 0
      BY <2>1, FS_EmptySet
    <3>2. <<>> \in Seq(C \cup {"slot"}) /\ <<>> \in Seq(Seq(C)) /\ Len(<<>>) = 0
      OBVIOUS
    <3> QED BY <3>1, <3>2 DEF TemplateState
  <2> QED BY <1>2, <2>2
<1>4. PICK step : step = [p \in (1..n) \X V |-> TemplateStep(p[2], body[p[1]])]
  OBVIOUS
<1>5. \A k \in 1..n, v \in V :
        step[<<k, v>>] = TemplateStep(v, body[k]) /\ TemplateStep(v, body[k]) \in V
  <2>1. ASSUME NEW k \in 1..n, NEW v \in V
        PROVE  step[<<k, v>>] = TemplateStep(v, body[k]) /\ TemplateStep(v, body[k]) \in V
    <3>1. step[<<k, v>>] = TemplateStep(v, body[k])
      BY <1>4
    <3>2. body[k] \in C
      BY <1>1
    <3> QED BY <1>2, <3>1, <3>2, TemplateStepIs
  <2> QED BY <2>1, Zenon
<1>6. StepsIn(step, 1..n, V)
  BY <1>5, Zenon DEF StepsIn
<1> DEFINE Is(f) == f = [T \in SUBSET DOMAIN body |->
                IF T = {} THEN [template |-> <<>>, slots |-> <<>>]
                ELSE CASE body[Max(T)] \notin Params ->
                            [f[T \ {Max(T)}] EXCEPT !.template = Append(@, body[Max(T)])]
                       [] /\ body[Max(T)] \in Params /\ f[T \ {Max(T)}].template # <<>>
                          /\ Last(f[T \ {Max(T)}].template) = "slot" ->
                            [f[T \ {Max(T)}] EXCEPT
                                !.slots[Len(f[T \ {Max(T)}].slots)] = Append(@, body[Max(T)])]
                       [] OTHER -> [template |-> Append(f[T \ {Max(T)}].template, "slot"),
                                    slots |-> Append(f[T \ {Max(T)}].slots, <<body[Max(T)]>>)]]
           Is2(f) == f = [T \in SUBSET (1..n) |->
                           IF T = {} THEN base ELSE TemplateStep(f[T \ {Max(T)}], body[Max(T)])]
<1>7. \A f : Is(f) <=> Is2(f)
  BY <1>1, <1>3 DEF TemplateStep
<1>8. \E f : Is2(f)
  <2>1. PICK it \in [SUBSET (1..n) -> V] : LeftSteps(it, n, V, base, step)
    BY <1>6, LeftFoldSteps
  <2>2. ASSUME NEW T \in SUBSET (1..n)
        PROVE  it[T] = IF T = {} THEN base ELSE TemplateStep(it[T \ {Max(T)}], body[Max(T)])
    BY <1>5, <2>1, ZenonT(30) DEF LeftSteps
  <2> QED BY <2>2
<1>9. PICK f : f = CHOOSE h : Is(h)
  OBVIOUS
<1>10. Templatize(body) = f[1..n]
  BY <1>1, <1>9 DEF Templatize, FoldLeft, MapThenFoldSet
<1>11. Is2(f)
  <2> HIDE DEF Is, Is2
  <2> QED BY <1>7, <1>8, <1>9
<1>12. \A T \in SUBSET (1..n) :
         f[T] = IF T = {} THEN base ELSE TemplateStep(f[T \ {Max(T)}], body[Max(T)])
  BY <1>11
<1> HIDE DEF Is, Is2
<1>13. f[{}] = base
  BY <1>12
<1>14. ASSUME NEW k \in 1..n, f[1..(k - 1)] \in V
       PROVE  f[1..k] = step[<<k, f[1..(k - 1)]>>]
  <2>1. 1..k \in SUBSET (1..n) /\ 1..k # {} /\ Max(1..k) = k /\ (1..k) \ {k} = 1..(k - 1)
    BY Positions
  <2>2. f[1..k] = TemplateStep(f[1..(k - 1)], body[k])
    BY <1>12, <2>1
  <2> QED BY <1>5, <1>14, <2>2
<1>15. PICK g : Ran(g, n, V, base, step) /\ g[n] = f[1..n]
  BY <1>6, <1>13, <1>14, FoldedRun
<1>16. \A k \in 1..n : g[k] = TemplateStep(g[k - 1], body[k])
  <2>1. ASSUME NEW k \in 1..n PROVE g[k] = TemplateStep(g[k - 1], body[k])
    <3>1. g[k] = step[<<k, g[k - 1]>>] /\ g[k - 1] \in V
      <4>1. k - 1 \in 0..n
        OBVIOUS
      <4> QED BY <1>15, <4>1 DEF Ran
    <3> QED BY <1>5, <3>1
  <2> QED BY <2>1
<1>17. TemplateRun(g, C, body)
  BY <1>1, <1>2, <1>3, <1>15, <1>16 DEF TemplateRun, Ran
<1> QED BY <1>1, <1>10, <1>15, <1>17

LEMMA TemplatizeIs ==
    ASSUME NEW C, "slot" \notin C, NEW body \in Seq(C)
    PROVE  Templatize(body) \in TemplateState(C)
<1>1. PICK g : TemplateRun(g, C, body) /\ Templatize(body) = g[Len(body)]
  BY TemplateRuns
<1>2. Len(body) \in 0..Len(body)
  OBVIOUS
<1> QED BY <1>1, <1>2 DEF TemplateRun

-----------------------------------------------------------------------------
(* Values of slots.                                                        *)

\* How wide the values of a slot's row are.
WidthStep(n, v) == n + Len(v) + 1

LEMMA WidthStepIs ==
    ASSUME NEW C, NEW n \in Nat, NEW v \in Seq(C)
    PROVE  WidthStep(n, v) \in Nat
<1>1. Len(v) \in Nat
  OBVIOUS
<1> QED BY <1>1 DEF WidthStep

WidthRun(g, values) ==
    /\ g \in [0..Len(values) -> Nat]
    /\ g[0] = 0
    /\ \A k \in 1..Len(values) : g[k] = WidthStep(g[k - 1], values[k])

LEMMA WidthRuns ==
    ASSUME NEW C, NEW values \in Seq(Seq(C))
    PROVE  \E g : WidthRun(g, values) /\ Widths(values) = g[Len(values)]
<1>1. PICK n \in Nat : n = Len(values) /\ DOMAIN values = 1..n
  OBVIOUS
<1>2. PICK V : V = Nat
  OBVIOUS
<1>3. PICK base \in V : base = 0
  <2>1. 0 \in Nat
    OBVIOUS
  <2> QED BY <1>2, <2>1
<1>4. PICK step : step = [p \in (1..n) \X V |-> WidthStep(p[2], values[p[1]])]
  OBVIOUS
<1>5. ASSUME NEW k \in 1..n, NEW v \in V
      PROVE  step[<<k, v>>] = WidthStep(v, values[k]) /\ WidthStep(v, values[k]) \in V
  <2>1. step[<<k, v>>] = WidthStep(v, values[k])
    BY <1>4
  <2>2. values[k] \in Seq(C)
    BY <1>1
  <2> QED BY <1>2, <2>1, <2>2, WidthStepIs
<1>6. StepsIn(step, 1..n, V)
  BY <1>5, Zenon DEF StepsIn
<1> DEFINE Is(f) == f = [T \in SUBSET DOMAIN values |->
                           IF T = {} THEN 0
                           ELSE WidthStep(f[T \ {Max(T)}], values[Max(T)])]
<1>7. \E f : Is(f)
  <2>1. PICK it \in [SUBSET (1..n) -> V] : LeftSteps(it, n, V, base, step)
    BY <1>6, LeftFoldSteps
  <2>2. ASSUME NEW T \in SUBSET (1..n)
        PROVE  it[T] = IF T = {} THEN 0 ELSE WidthStep(it[T \ {Max(T)}], values[Max(T)])
    BY <1>3, <1>5, <2>1 DEF LeftSteps
  <2> QED BY <1>1, <2>2
<1>8. PICK f : f = CHOOSE h : Is(h)
  OBVIOUS
<1>9. Widths(values) = f[1..n]
  BY <1>1, <1>8 DEF Widths, FoldLeft, MapThenFoldSet, WidthStep
<1>10. Is(f)
  <2> HIDE DEF Is
  <2> QED BY <1>7, <1>8
<1>11. \A T \in SUBSET (1..n) :
         f[T] = IF T = {} THEN base ELSE WidthStep(f[T \ {Max(T)}], values[Max(T)])
  BY <1>1, <1>3, <1>10
<1> HIDE DEF Is
<1>12. f[{}] = base
  BY <1>11
<1>13. ASSUME NEW k \in 1..n, f[1..(k - 1)] \in V
       PROVE  f[1..k] = step[<<k, f[1..(k - 1)]>>]
  <2>1. 1..k \in SUBSET (1..n) /\ 1..k # {} /\ Max(1..k) = k /\ (1..k) \ {k} = 1..(k - 1)
    BY Positions
  <2>2. f[1..k] = WidthStep(f[1..(k - 1)], values[k])
    BY <1>11, <2>1
  <2> QED BY <1>5, <1>13, <2>2
<1>14. PICK g : Ran(g, n, V, base, step) /\ g[n] = f[1..n]
  BY <1>6, <1>12, <1>13, FoldedRun
<1>15. ASSUME NEW k \in 1..n PROVE g[k] = WidthStep(g[k - 1], values[k])
  <2>1. g[k] = step[<<k, g[k - 1]>>] /\ g[k - 1] \in V
    <3>1. k - 1 \in 0..n
      OBVIOUS
    <3> QED BY <1>14, <3>1 DEF Ran
  <2> QED BY <1>5, <2>1
<1>16. WidthRun(g, values)
  BY <1>1, <1>2, <1>3, <1>14, <1>15 DEF WidthRun, Ran
<1> QED BY <1>1, <1>9, <1>14, <1>16

LEMMA WidthsNat ==
    ASSUME NEW C, NEW values \in Seq(Seq(C))
    PROVE  Widths(values) \in Nat
<1>1. PICK g : WidthRun(g, values) /\ Widths(values) = g[Len(values)]
  BY WidthRuns
<1>2. Len(values) \in 0..Len(values)
  OBVIOUS
<1> QED BY <1>1, <1>2 DEF WidthRun

\* The distinct elements of a sequence.
UniqStep(u, x) == IF Contains(u, x) THEN u ELSE Append(u, x)

LEMMA UniqStepIs ==
    ASSUME NEW S, NEW u \in Seq(S), NEW x \in S
    PROVE  UniqStep(u, x) \in Seq(S)
  BY AppendProperties DEF UniqStep

UniqRun(g, S, s) ==
    /\ g \in [0..Len(s) -> Seq(S)]
    /\ g[0] = <<>>
    /\ \A k \in 1..Len(s) : g[k] = UniqStep(g[k - 1], s[k])

LEMMA UniqRuns ==
    ASSUME NEW S, NEW s \in Seq(S)
    PROVE  \E g : UniqRun(g, S, s) /\ Uniq(s) = g[Len(s)]
<1>1. PICK n \in Nat : n = Len(s) /\ DOMAIN s = 1..n
  OBVIOUS
<1>2. PICK V : V = Seq(S)
  OBVIOUS
<1>3. PICK base \in V : base = <<>>
  <2>1. <<>> \in Seq(S)
    OBVIOUS
  <2> QED BY <1>2, <2>1
<1>4. PICK step : step = [p \in (1..n) \X V |-> UniqStep(p[2], s[p[1]])]
  OBVIOUS
<1>5. ASSUME NEW k \in 1..n, NEW v \in V
      PROVE  step[<<k, v>>] = UniqStep(v, s[k]) /\ UniqStep(v, s[k]) \in V
  <2>1. step[<<k, v>>] = UniqStep(v, s[k])
    BY <1>4
  <2>2. s[k] \in S
    BY <1>1
  <2> QED BY <1>2, <2>1, <2>2, UniqStepIs
<1>6. StepsIn(step, 1..n, V)
  BY <1>5, Zenon DEF StepsIn
<1> DEFINE Is(f) == f = [T \in SUBSET DOMAIN s |->
                           IF T = {} THEN <<>>
                           ELSE UniqStep(f[T \ {Max(T)}], s[Max(T)])]
<1>7. \E f : Is(f)
  <2>1. PICK it \in [SUBSET (1..n) -> V] : LeftSteps(it, n, V, base, step)
    BY <1>6, LeftFoldSteps
  <2>2. ASSUME NEW T \in SUBSET (1..n)
        PROVE  it[T] = IF T = {} THEN <<>> ELSE UniqStep(it[T \ {Max(T)}], s[Max(T)])
    BY <1>3, <1>5, <2>1 DEF LeftSteps
  <2> QED BY <1>1, <2>2
<1>8. PICK f : f = CHOOSE h : Is(h)
  OBVIOUS
<1>9. Uniq(s) = f[1..n]
  BY <1>1, <1>8 DEF Uniq, FoldLeft, MapThenFoldSet, UniqStep
<1>10. Is(f)
  <2> HIDE DEF Is
  <2> QED BY <1>7, <1>8
<1>11. \A T \in SUBSET (1..n) :
         f[T] = IF T = {} THEN base ELSE UniqStep(f[T \ {Max(T)}], s[Max(T)])
  BY <1>1, <1>3, <1>10
<1> HIDE DEF Is
<1>12. f[{}] = base
  BY <1>11
<1>13. ASSUME NEW k \in 1..n, f[1..(k - 1)] \in V
       PROVE  f[1..k] = step[<<k, f[1..(k - 1)]>>]
  <2>1. 1..k \in SUBSET (1..n) /\ 1..k # {} /\ Max(1..k) = k /\ (1..k) \ {k} = 1..(k - 1)
    BY Positions
  <2>2. f[1..k] = UniqStep(f[1..(k - 1)], s[k])
    BY <1>11, <2>1
  <2> QED BY <1>5, <1>13, <2>2
<1>14. PICK g : Ran(g, n, V, base, step) /\ g[n] = f[1..n]
  BY <1>6, <1>12, <1>13, FoldedRun
<1>15. ASSUME NEW k \in 1..n PROVE g[k] = UniqStep(g[k - 1], s[k])
  <2>1. g[k] = step[<<k, g[k - 1]>>] /\ g[k - 1] \in V
    <3>1. k - 1 \in 0..n
      OBVIOUS
    <3> QED BY <1>14, <3>1 DEF Ran
  <2> QED BY <1>5, <2>1
<1>16. UniqRun(g, S, s)
  BY <1>1, <1>2, <1>3, <1>14, <1>15 DEF UniqRun, Ran
<1> QED BY <1>1, <1>9, <1>14, <1>16

Distinct(u) == \A i, j \in 1..Len(u) : u[i] = u[j] => i = j

LEMMA UniqIs ==
    ASSUME NEW S, NEW s \in Seq(S)
    PROVE  /\ Uniq(s) \in Seq(S) /\ Distinct(Uniq(s))
           /\ \A x : (\E i \in 1..Len(Uniq(s)) : Uniq(s)[i] = x) <=> \E i \in 1..Len(s) : s[i] = x
<1>1. PICK g : UniqRun(g, S, s) /\ Uniq(s) = g[Len(s)]
  BY UniqRuns
<1>2. PICK n \in Nat : n = Len(s)
  OBVIOUS
<1>3. /\ \A k \in 0..n : g[k] \in Seq(S)
      /\ g[0] = <<>>
      /\ \A k \in 1..n : g[k] = UniqStep(g[k - 1], s[k])
  BY <1>1, <1>2 DEF UniqRun
<1> DEFINE Has(k) == /\ Distinct(g[k])
                     /\ \A x : (\E i \in 1..Len(g[k]) : g[k][i] = x) <=> \E i \in 1..k : s[i] = x
           G == {k \in Nat : k <= n => Has(k)}
<1>4. 0 \in G
  <2>1. Len(g[0]) = 0
    BY <1>3
  <2> QED BY <2>1 DEF Distinct
<1>5. ASSUME NEW k \in Nat, k \in G PROVE k + 1 \in G
  <2>1. CASE k + 1 <= n
    <3>1. PICK j \in 1..n : j = k + 1 /\ j - 1 = k
      BY <2>1
    <3>2. PICK u \in Seq(S) : u = g[k]
      BY <1>3, <2>1
    <3>3. PICK x \in S : x = s[j]
      BY <1>2
    <3>4. g[j] = UniqStep(u, x)
      BY <1>3, <3>1, <3>2, <3>3
    <3>5. Has(k)
      BY <1>5, <2>1
    <3>6. /\ \A h, i \in 1..Len(u) : u[h] = u[i] => h = i
          /\ \A y : (\E i \in 1..Len(u) : u[i] = y) <=> \E i \in 1..k : s[i] = y
      BY <3>2, <3>5 DEF Distinct
    <3>7. \A i : i \in 1..j <=> i \in 1..k \/ i = j
      BY <3>1
    <3>8. CASE Contains(u, x)
      <4>1. g[j] = u
        BY <3>4, <3>8 DEF UniqStep
      <4>2. \E i \in 1..Len(u) : u[i] = x
        BY <3>8 DEF Contains
      <4>3. \A y : (\E i \in 1..j : s[i] = y) <=> (\E i \in 1..k : s[i] = y) \/ y = x
        BY <3>3, <3>7
      <4>4. Has(j)
        <5>1. Distinct(g[j])
          BY <3>6, <4>1 DEF Distinct
        <5>2. \A y : (\E i \in 1..Len(u) : u[i] = y) <=> \E i \in 1..j : s[i] = y
          BY <3>6, <4>2, <4>3
        <5> QED BY <4>1, <5>1, <5>2
      <4>5. Has(k + 1)
        <5> HIDE DEF Has
        <5> QED BY <3>1, <4>4
      <4>6. k + 1 \in Nat /\ (k + 1 <= n => Has(k + 1))
        <5> HIDE DEF Has
        <5> QED BY <4>5
      <4> QED BY <4>6
    <3>9. CASE ~Contains(u, x)
      <4>1. PICK v \in Seq(S) : v = Append(u, x)
        BY AppendProperties
      <4>2. g[j] = v
        BY <3>4, <3>9, <4>1 DEF UniqStep
      <4>3. PICK m \in Nat : m = Len(u)
        OBVIOUS
      <4>4. Len(v) = m + 1 /\ (\A i \in 1..m : v[i] = u[i]) /\ v[m + 1] = x
        BY <4>1, <4>3, AppendProperties
      <4>5. \A i \in 1..m : u[i] # x
        BY <3>9, <4>3 DEF Contains
      <4>6. \A i : i \in 1..(m + 1) <=> i \in 1..m \/ i = m + 1
        BY <4>3
      <4>7. \A h, i \in 1..(m + 1) : v[h] = v[i] => h = i
        <5>1. ASSUME NEW h \in 1..(m + 1), NEW i \in 1..(m + 1), v[h] = v[i] PROVE h = i
          <6>1. CASE h \in 1..m /\ i \in 1..m
            BY <3>6, <4>3, <4>4, <5>1, <6>1
          <6>2. CASE h \in 1..m /\ i = m + 1
            BY <4>4, <4>5, <5>1, <6>2
          <6>3. CASE h = m + 1 /\ i \in 1..m
            BY <4>4, <4>5, <5>1, <6>3
          <6> QED BY <4>6, <5>1, <6>1, <6>2, <6>3
        <5> QED BY <5>1
      <4>8. \A y : (\E i \in 1..(m + 1) : v[i] = y) <=> (\E i \in 1..m : u[i] = y) \/ y = x
        BY <4>4, <4>6
      <4>9. \A y : (\E i \in 1..j : s[i] = y) <=> (\E i \in 1..k : s[i] = y) \/ y = x
        BY <3>3, <3>7
      <4>10. Has(j)
        <5>1. Len(v) = m + 1 /\ g[j] = v
          BY <4>2, <4>4
        <5>2. \A y : (\E i \in 1..m : u[i] = y) <=> \E i \in 1..k : s[i] = y
          BY <3>6, <4>3
        <5>3. ASSUME NEW y
              PROVE  (\E i \in 1..(m + 1) : v[i] = y) <=> \E i \in 1..j : s[i] = y
          <6>1. PICK a \in BOOLEAN, b \in BOOLEAN, c \in BOOLEAN, d \in BOOLEAN :
                  /\ a <=> \E i \in 1..(m + 1) : v[i] = y
                  /\ b <=> \E i \in 1..m : u[i] = y
                  /\ c <=> \E i \in 1..k : s[i] = y
                  /\ d <=> \E i \in 1..j : s[i] = y
            OBVIOUS
          <6>2. a <=> b \/ y = x
            BY <4>8, <6>1
          <6>3. d <=> c \/ y = x
            BY <4>9, <6>1
          <6>4. b <=> c
            BY <5>2, <6>1
          <6>5. a <=> d
            BY <6>2, <6>3, <6>4
          <6> QED BY <6>1, <6>5
        <5> QED BY <4>7, <5>1, <5>3 DEF Distinct
      <4>11. Has(k + 1)
        <5> HIDE DEF Has
        <5> QED BY <3>1, <4>10
      <4>12. k + 1 \in Nat /\ (k + 1 <= n => Has(k + 1))
        <5> HIDE DEF Has
        <5> QED BY <4>11
      <4> QED BY <4>12
    <3> QED BY <3>8, <3>9
  <2> QED BY <2>1
<1> HIDE DEF G
<1>6. \A k \in Nat : k \in G
  BY <1>4, <1>5, UpFromZero
<1>7. Has(n)
  BY <1>6 DEF G
<1>8. g[n] \in Seq(S)
  BY <1>3
<1> QED BY <1>1, <1>2, <1>7, <1>8

-----------------------------------------------------------------------------
(* Groups and their rows.                                                  *)

\* The elements of sequences, one sequence after the other.
FlatRun(g, R, ss) ==
    /\ g \in [0..Len(ss) -> Seq(R)]
    /\ g[0] = <<>>
    /\ \A k \in 1..Len(ss) : g[k] = g[k - 1] \o ss[k]

LEMMA FlatRuns ==
    ASSUME NEW R, NEW ss \in Seq(Seq(R))
    PROVE  \E g : FlatRun(g, R, ss) /\ FlattenSeq(ss) = g[Len(ss)]
<1>1. PICK n \in Nat : n = Len(ss) /\ DOMAIN ss = 1..n
  OBVIOUS
<1>2. PICK V : V = Seq(R)
  OBVIOUS
<1>3. PICK base \in V : base = <<>>
  <2>1. <<>> \in Seq(R)
    OBVIOUS
  <2> QED BY <1>2, <2>1
<1>4. PICK step : step = [p \in (1..n) \X V |-> p[2] \o ss[p[1]]]
  OBVIOUS
<1>5. ASSUME NEW k \in 1..n, NEW v \in V
      PROVE  step[<<k, v>>] = v \o ss[k] /\ v \o ss[k] \in V
  <2>1. step[<<k, v>>] = v \o ss[k]
    BY <1>4
  <2>2. PICK s \in Seq(R) : s = ss[k]
    BY <1>1
  <2>3. v \o s \in V
    BY <1>2, Joined
  <2> QED BY <2>1, <2>2, <2>3
<1>6. StepsIn(step, 1..n, V)
  BY <1>5, Zenon DEF StepsIn
<1>7. PICK it \in [SUBSET (1..n) -> V] : LeftSteps(it, n, V, base, step)
  BY <1>6, LeftFoldSteps
<1>8. PICK g : g = [k \in 0..n |-> it[1..k]]
  OBVIOUS
<1>9. \A k \in 0..n : g[k] = it[1..k] /\ g[k] \in V
  <2>1. \A k \in 0..n : 1..k \in SUBSET (1..n)
    OBVIOUS
  <2> QED BY <1>7, <1>8, <2>1
<1>10. g[0] = <<>>
  <2>1. 1..0 = {} /\ 0 \in 0..n
    OBVIOUS
  <2> QED BY <1>3, <1>7, <1>9, <2>1 DEF LeftSteps
<1>11. ASSUME NEW k \in 1..n PROVE g[k] = g[k - 1] \o ss[k] /\ g[k - 1] \in Seq(R)
  <2>1. 1..k \in SUBSET (1..n) /\ 1..k # {} /\ Max(1..k) = k /\ (1..k) \ {k} = 1..(k - 1)
    BY Positions
  <2>2. it[1..k] = step[<<k, it[1..(k - 1)]>>] /\ it[1..(k - 1)] \in V
    BY <1>7, <2>1 DEF LeftSteps
  <2>3. k \in 0..n /\ k - 1 \in 0..n
    OBVIOUS
  <2> QED BY <1>2, <1>5, <1>9, <2>2, <2>3
<1>12. FlatRun(g, R, ss)
  BY <1>1, <1>2, <1>8, <1>9, <1>10, <1>11 DEF FlatRun
<1>13. CASE n = 0
  <2>1. FlattenSeq(ss) = ss /\ ss = <<>>
    BY <1>1, <1>13 DEF FlattenSeq
  <2> QED BY <1>1, <1>10, <1>12, <1>13, <2>1
<1>14. CASE n # 0
  <2> DEFINE Is(f) == f = [i \in 1..Len(ss) |-> IF i = 1 THEN ss[i] ELSE f[i - 1] \o ss[i]]
  <2>1. \E f : Is(f)
    <3>1. PICK h : h = [i \in 1..n |-> g[i]]
      OBVIOUS
    <3>2. ASSUME NEW i \in 1..n PROVE h[i] = IF i = 1 THEN ss[i] ELSE h[i - 1] \o ss[i]
      <4>1. h[i] = g[i] /\ g[i] = g[i - 1] \o ss[i]
        BY <1>11, <3>1
      <4>2. CASE i = 1
        <5>1. PICK s \in Seq(R) : s = ss[i]
          BY <1>1
        <5>2. <<>> \o s = s
          BY ConcatEmptySeq
        <5>3. g[i - 1] = <<>>
          BY <1>10, <4>2
        <5> QED BY <4>1, <4>2, <5>1, <5>2, <5>3
      <4>3. CASE i # 1
        <5>1. i - 1 \in 1..n
          BY <4>3
        <5>2. h[i - 1] = g[i - 1]
          BY <3>1, <5>1
        <5> QED BY <4>1, <4>3, <5>2
      <4> QED BY <4>2, <4>3
    <3>3. h = [i \in 1..n |-> IF i = 1 THEN ss[i] ELSE h[i - 1] \o ss[i]]
      BY <3>1, <3>2
    <3> QED BY <1>1, <3>3
  <2>2. PICK f : f = CHOOSE h : Is(h)
    OBVIOUS
  <2>3. Is(f)
    <3> HIDE DEF Is
    <3> QED BY <2>1, <2>2
  <2>4. FlattenSeq(ss) = f[n]
    BY <1>1, <1>14, <2>2 DEF FlattenSeq
  <2>5. \A i \in 1..n : f[i] = IF i = 1 THEN ss[i] ELSE f[i - 1] \o ss[i]
    BY <1>1, <2>3
  <2> HIDE DEF Is
  <2> DEFINE G == {k \in Nat : k \in 1..n => f[k] = g[k]}
  <2>6. 0 \in G
    OBVIOUS
  <2>7. ASSUME NEW k \in Nat, k \in G PROVE k + 1 \in G
    <3>1. CASE k + 1 \in 1..n
      <4>1. PICK j \in 1..n : j = k + 1 /\ j - 1 = k
        BY <3>1
      <4>2. CASE k = 0
        <5>1. PICK s \in Seq(R) : s = ss[j]
          BY <1>1
        <5>2. <<>> \o s = s
          BY ConcatEmptySeq
        <5>3. g[j - 1] = <<>> /\ g[j] = g[j - 1] \o ss[j]
          BY <1>10, <1>11, <4>1, <4>2
        <5>4. f[j] = ss[j]
          BY <2>5, <4>1, <4>2
        <5> QED BY <4>1, <5>1, <5>2, <5>3, <5>4
      <4>3. CASE k # 0
        <5>1. k \in 1..n /\ j # 1
          BY <3>1, <4>1, <4>3
        <5>2. f[j] = f[j - 1] \o ss[j]
          BY <2>5, <5>1
        <5>3. f[j - 1] = g[j - 1] /\ g[j] = g[j - 1] \o ss[j]
          BY <1>11, <2>7, <4>1, <5>1
        <5>4. f[j] = g[j]
          BY <5>2, <5>3
        <5> QED BY <4>1, <5>4
      <4> QED BY <4>2, <4>3
    <3> QED BY <3>1
  <2> HIDE DEF G
  <2>8. n \in G
    BY <2>6, <2>7, UpFromZero
  <2>9. n \in 1..n
    BY <1>14
  <2>10. f[n] = g[n]
    BY <2>8, <2>9 DEF G
  <2> QED BY <1>1, <1>12, <2>4, <2>10
<1> QED BY <1>13, <1>14

LEMMA FlatIs ==
    ASSUME NEW R, NEW ss \in Seq(Seq(R))
    PROVE  FlattenSeq(ss) \in Seq(R)
<1>1. PICK g : FlatRun(g, R, ss) /\ FlattenSeq(ss) = g[Len(ss)]
  BY FlatRuns
<1>2. Len(ss) \in 0..Len(ss)
  OBVIOUS
<1> QED BY <1>1, <1>2 DEF FlatRun

\* The values a slot's row says are values of the slot.
LEMMA SaidValues ==
    ASSUME NEW C, NEW u \in Seq(Seq(C)), Len(u) > 1, NEW n
    PROVE  describeSlot(u, n).values \in Seq(Seq(C))
<1>0. ListMax \in Nat \ {0}
  BY BoundsAssumption DEF BoundsAssumption
<1>1. PICK L : L = Seq(C)
  OBVIOUS
<1>2. PICK m \in Nat : m = Len(u) /\ m > 1
  OBVIOUS
<1>3. u \in Seq(L)
  BY <1>1
<1>4. ASSUME NEW k \in 0..m PROVE SubSeq(u, 1, k) \in Seq(L)
  <2>1. Prefix(u, k) \in Seq(L)
    BY <1>2, <1>3, SuffixIs
  <2> QED BY <2>1 DEF Prefix
<1>5. Min({ListMax, m}) \in 0..m
  <2>1. {ListMax, m} \subseteq Nat /\ {ListMax, m} # {}
    BY <1>0
  <2>2. Min({ListMax, m}) \in {ListMax, m} /\ \A i \in {ListMax, m} : Min({ListMax, m}) <= i
    BY <2>1, MinIn
  <2> QED BY <2>1, <2>2
<1>6. CASE Len(u) > 2 /\ Rising(u)
  <2>1. describeSlot(u, n).values = <<u[1], Last(u)>>
    BY <1>6 DEF describeSlot
  <2>2. u[1] \in L /\ Last(u) \in L
    BY <1>2, <1>3, LastIs
  <2> QED BY <1>1, <2>1, <2>2
<1>7. CASE ~(Len(u) > 2 /\ Rising(u)) /\ Len(u) = n /\ Len(u) > OpaqueMin
  <2>1. describeSlot(u, n).values = SubSeq(u, 1, 2)
    BY <1>7 DEF describeSlot
  <2> QED BY <1>1, <1>2, <1>4, <2>1
<1>8. CASE ~(Len(u) > 2 /\ Rising(u)) /\ ~(Len(u) = n /\ Len(u) > OpaqueMin)
  <2>1. describeSlot(u, n).values = SubSeq(u, 1, Min({ListMax, Len(u)}))
    BY <1>8 DEF describeSlot
  <2> QED BY <1>1, <1>2, <1>4, <1>5, <2>1
<1> QED BY <1>6, <1>7, <1>8

\* A group has rows, of the values of its slots, and as many in each.
IsGroup(C, g) ==
    /\ g.template \in Seq(C \cup {"slot"})
    /\ \E n \in Nat \ {0}, m \in Nat :
          /\ DOMAIN g.rows = 1..n
          /\ \A k \in 1..n : g.rows[k] \in Seq(Seq(C)) /\ Len(g.rows[k]) = m

LEMMA GroupRows ==
    ASSUME NEW C, NEW g, IsGroup(C, g)
    PROVE  IsRows(RenderTemplateGroup(g))
<1>0. RowWidth \in Nat
  BY BoundsHold DEF Bounds
<1>1. PICK n \in Nat \ {0}, m \in Nat :
        /\ DOMAIN g.rows = 1..n
        /\ \A k \in 1..n : g.rows[k] \in Seq(Seq(C)) /\ Len(g.rows[k]) = m
  BY DEF IsGroup
<1>2. PICK L : L = Seq(C)
  OBVIOUS
<1>3. PICK col : col = [i \in 1..m |-> [k \in 1..n |-> g.rows[k][i]]]
  OBVIOUS
<1>4. ASSUME NEW i \in 1..m PROVE col[i] \in Seq(L)
  <2>1. col[i] = [k \in 1..n |-> g.rows[k][i]]
    BY <1>3
  <2>2. ASSUME NEW k \in 1..n PROVE g.rows[k][i] \in L
    BY <1>1, <1>2
  <2>3. PICK c : c = col[i]
    OBVIOUS
  <2>4. c = [k \in 1..n |-> c[k]] /\ \A k \in 1..n : c[k] \in L
    BY <2>1, <2>2, <2>3
  <2>5. c \in Seq(L)
    BY <2>4, SeqIs
  <2> QED BY <2>3, <2>5
<1>5. DOMAIN g.rows[1] = 1..m
  BY <1>1
<1>6. PICK S : S = {i \in 1..m : Len(Uniq(col[i])) > 1}
  OBVIOUS
<1>7. S \subseteq Int /\ IsFiniteSet(S)
  <2>1. S \in SUBSET (1..m) /\ 1 \in Int /\ m \in Int
    BY <1>6
  <2>2. IsFiniteSet(1..m)
    BY <2>1, FS_Interval
  <2>3. IsFiniteSet(S)
    BY <2>1, <2>2, FS_Subset
  <2>4. S \subseteq Int
    BY <2>1
  <2> QED BY <2>3, <2>4
<1>8. PICK varying : varying = Ascending(S)
  OBVIOUS
<1>9. varying \in Seq(S)
  BY <1>7, <1>8, AscendingIs DEF InSequence
<1>10. S = {i \in DOMAIN g.rows[1] : Len(Uniq([k \in DOMAIN g.rows |-> g.rows[k][i]])) > 1}
  <2>1. ASSUME NEW i \in 1..m PROVE col[i] = [k \in DOMAIN g.rows |-> g.rows[k][i]]
    BY <1>1, <1>3
  <2> QED BY <1>5, <1>6, <2>1
<1> DEFINE Said(i) == describeSlot(Uniq([k \in DOMAIN g.rows |-> g.rows[k][i]]), Len(g.rows))
           SlotRow(i) == Row("slot", [template |-> g.template, slot |-> i, said |-> Said(i)],
                             RowWidth + Widths(Said(i).values))
           Fixed == [i \in DOMAIN g.rows[1] \ ToSet(varying) |-> g.rows[1][i]]
           HeadRow == Row("group", [template |-> g.template, fixed |-> Fixed, count |-> Len(g.rows),
                                    span |-> renderLineSet(g.lines)], RowWidth + Len(g.template))
<1>11. RenderTemplateGroup(g) = <<HeadRow>> \o [v \in DOMAIN varying |-> SlotRow(varying[v])]
  BY <1>8, <1>10 DEF RenderTemplateGroup
<1>12. IsRow(HeadRow)
  <2>1. RowWidth + Len(g.template) \in Nat
    BY <1>0 DEF IsGroup
  <2>2. "group" \in WholeKinds
    BY DEF WholeKinds
  <2> QED BY <2>1, <2>2, RowIs
<1>13. ASSUME NEW i \in S PROVE IsRow(SlotRow(i))
  <2>1. i \in 1..m /\ Len(Uniq(col[i])) > 1
    BY <1>6
  <2>2. PICK u \in Seq(L) : u = Uniq(col[i])
    BY <1>4, <2>1, UniqIs
  <2>3. col[i] = [k \in DOMAIN g.rows |-> g.rows[k][i]]
    BY <1>1, <1>3, <2>1
  <2>4. Said(i) = describeSlot(u, Len(g.rows))
    BY <2>2, <2>3
  <2>5. u \in Seq(Seq(C)) /\ Len(u) > 1
    BY <1>2, <2>1, <2>2
  <2>6. PICK vs \in Seq(Seq(C)) : vs = describeSlot(u, Len(g.rows)).values
    BY <2>5, SaidValues
  <2>7. Widths(vs) \in Nat
    BY WidthsNat
  <2>8. RowWidth + Widths(Said(i).values) \in Nat
    BY <1>0, <2>4, <2>6, <2>7
  <2>9. "slot" \in WholeKinds
    BY DEF WholeKinds
  <2> HIDE DEF Said
  <2> QED BY <2>8, <2>9, RowIs
<1>14. PICK h : h = HeadRow
  OBVIOUS
<1>15. PICK rest : rest = [v \in DOMAIN varying |-> SlotRow(varying[v])]
  OBVIOUS
<1>16. PICK q \in Nat : DOMAIN varying = 1..q /\ \A v \in 1..q : varying[v] \in S
  BY <1>9
<1>17. rest = [v \in 1..q |-> rest[v]] /\ \A v \in 1..q : IsRow(rest[v])
  <2>1. \A v \in 1..q : rest[v] = SlotRow(varying[v])
    BY <1>15, <1>16
  <2>2. ASSUME NEW v \in 1..q PROVE IsRow(rest[v])
    <3>1. PICK i \in S : i = varying[v]
      BY <1>16
    <3>2. rest[v] = SlotRow(i)
      BY <2>1, <3>1
    <3> HIDE DEF SlotRow
    <3> QED BY <1>13, <3>2
  <2> QED BY <1>15, <1>16, <2>2
<1> HIDE DEF HeadRow, SlotRow
<1>18. RenderTemplateGroup(g) = <<h>> \o rest
  BY <1>11, <1>14, <1>15
<1>19. PICK R : R = {rest[v] : v \in 1..q} \cup {h}
  OBVIOUS
<1>20. \A r \in R : IsRow(r)
  BY <1>12, <1>14, <1>17, <1>19
<1>21. rest \in Seq(R) /\ <<h>> \in Seq(R)
  BY <1>17, <1>19, SeqIs
<1>22. <<h>> \o rest \in Seq(R)
  BY <1>21, Joined
<1>23. PICK o \in Seq(R) : o = RenderTemplateGroup(g)
  BY <1>18, <1>22
<1>24. IsRows(o)
  <2>1. PICK p \in Nat : p = Len(o) /\ o = [i \in 1..p |-> o[i]]
    OBVIOUS
  <2>2. \A i \in 1..p : o[i] \in R
    BY <2>1
  <2>3. \A i \in 1..p : IsRow(o[i])
    BY <1>20, <2>2
  <2> QED BY <2>1, <2>3, RowsFrom
<1> QED BY <1>23, <1>24

\* The rows of all groups.
LEMMA OutlineIs ==
    ASSUME NEW C, NEW n \in Nat, NEW gs, gs = [i \in 1..n |-> gs[i]],
           \A i \in 1..n : IsGroup(C, gs[i])
    PROVE  IsRows(OutlineRows(gs))
<1>0. DOMAIN gs = 1..n
  OBVIOUS
<1>1. CASE gs = <<>>
  <2>1. <<>> \in Seq({})
    OBVIOUS
  <2>2. PICK r : r = LineRow(<<>>)
    OBVIOUS
  <2>3. IsRow(r)
    BY <2>1, <2>2, LineRowIs
  <2>4. PICK o : o = <<r>>
    OBVIOUS
  <2>5. 1 \in Nat /\ o = [i \in 1..1 |-> o[i]] /\ \A i \in 1..1 : IsRow(o[i])
    BY <2>3, <2>4
  <2>6. IsRows(o)
    BY <2>5, RowsFrom
  <2> QED BY <1>1, <2>2, <2>4, <2>6 DEF OutlineRows
<1>2. CASE gs # <<>>
  <2>1. PICK ss : ss = [i \in 1..n |-> RenderTemplateGroup(gs[i])]
    OBVIOUS
  <2>2. ASSUME NEW i \in 1..n PROVE IsRows(ss[i])
    <3>1. PICK g : g = gs[i]
      OBVIOUS
    <3>2. IsRows(RenderTemplateGroup(g))
      BY <3>1, GroupRows
    <3> QED BY <2>1, <3>1, <3>2
  <2>3. PICK R : R = UNION {{ss[i][j] : j \in DOMAIN ss[i]} : i \in 1..n}
    OBVIOUS
  <2>4. ASSUME NEW i \in 1..n PROVE ss[i] \in Seq(R) /\ \A j \in DOMAIN ss[i] : IsRow(ss[i][j])
    <3>1. PICK s : s = ss[i]
      OBVIOUS
    <3>2. PICK m \in Nat : s = [j \in 1..m |-> s[j]] /\ \A j \in 1..m : IsRow(s[j])
      BY <2>2, <3>1 DEF IsRows
    <3>3. \A j \in 1..m : s[j] \in R
      <4>1. DOMAIN s = 1..m
        BY <3>2
      <4>2. PICK P : P = {ss[i][j] : j \in DOMAIN ss[i]}
        OBVIOUS
      <4>3. \A j \in 1..m : s[j] \in P
        BY <3>1, <4>1, <4>2
      <4>4. P \subseteq R
        BY <2>3, <4>2
      <4> QED BY <4>3, <4>4
    <3>4. s \in Seq(R) /\ DOMAIN s = 1..m
      BY <3>2, <3>3, SeqIs
    <3> QED BY <3>1, <3>2, <3>4
  <2>5. ASSUME NEW r \in R PROVE IsRow(r)
    <3>1. PICK i \in 1..n : r \in {ss[i][j] : j \in DOMAIN ss[i]}
      BY <2>3
    <3>2. PICK j \in DOMAIN ss[i] : r = ss[i][j]
      BY <3>1
    <3> QED BY <2>4, <3>1, <3>2
  <2>6. PICK L : L = Seq(R)
    OBVIOUS
  <2>7. ss = [i \in 1..n |-> ss[i]] /\ \A i \in 1..n : ss[i] \in L
    BY <2>1, <2>4, <2>6
  <2>8. ss \in Seq(Seq(R))
    BY <2>6, <2>7, SeqIs
  <2>9. PICK o \in Seq(R) : o = FlattenSeq(ss)
    BY <2>8, FlatIs
  <2>10. OutlineRows(gs) = o
    <3>1. [i \in DOMAIN gs |-> RenderTemplateGroup(gs[i])] = ss
      BY <1>0, <2>1
    <3>2. OutlineRows(gs) = FlattenSeq([i \in DOMAIN gs |-> RenderTemplateGroup(gs[i])])
      BY <1>2 DEF OutlineRows
    <3> QED BY <2>9, <3>1, <3>2
  <2>11. IsRows(o)
    <3>1. PICK p \in Nat : p = Len(o) /\ o = [i \in 1..p |-> o[i]]
      OBVIOUS
    <3>2. \A i \in 1..p : o[i] \in R
      BY <3>1
    <3>3. \A i \in 1..p : IsRow(o[i])
      BY <2>5, <3>2
    <3> QED BY <3>1, <3>3, RowsFrom
  <2> QED BY <2>10, <2>11
<1> QED BY <1>1, <1>2

\* The body of a line is part of the line.
LEMMA BodyIs ==
    ASSUME NEW C, NEW line \in Seq(C)
    PROVE  stripLinePrefix(line) \in Seq(C)
<1>1. PICK from \in Nat : from = IF At(line, 1) = "T" THEN 2 ELSE 1
  OBVIOUS
<1>2. PICK n \in Nat : n = Len(line)
  OBVIOUS
<1>3. from >= 1
  BY <1>1
<1>4. PICK text : text = {i \in from..n : line[i] # " "}
  BY Zenon
<1>5. stripLinePrefix(line) = IF text = {} THEN <<>> ELSE SubSeq(line, Min(text), Max(text))
  BY <1>1, <1>2, <1>4, Zenon DEF stripLinePrefix
<1>6. CASE text = {}
  BY <1>5, <1>6
<1>7. CASE text # {}
  <2>1. text \subseteq 0..n /\ text \subseteq Nat
    <3>1. \A i \in from..n : i \in 0..n /\ i \in Nat
      BY <1>3
    <3> QED BY <1>4, <3>1, Zenon
  <2>2. PICK a, b : a = Min(text) /\ b = Max(text)
    OBVIOUS
  <2>3. a \in text /\ b \in text
    <3>1. Min(text) \in text
      BY <1>7, <2>1, MinIn
    <3>2. Max(text) \in text
      BY <1>7, <2>1, MaxIn
    <3> QED BY <2>2, <3>1, <3>2
  <2>4. a \in from..n /\ b \in from..n
    BY <1>4, <2>3, Zenon
  <2>5. a \in Int /\ b \in Int /\ \A i \in a..b : line[i] \in C
    BY <1>2, <1>3, <2>4
  <2>6. SubSeq(line, a, b) \in Seq(C)
    BY <2>5, SubSeqProperties
  <2> QED BY <1>5, <1>7, <2>2, <2>6
<1> QED BY <1>6, <1>7

LEMMA RawLinesIs ==
    ASSUME NEW C, NEW text \in Seq(C)
    PROVE  splitRawLines(text) \in Seq(Seq(C))
<1>1. PICK ls \in Seq(Seq(C)) \ {<<>>} : ls = Split(text)
  BY SplitIs
<1>2. PICK L : L = Seq(C)
  OBVIOUS
<1>3. Front(ls) \in Seq(L)
  BY <1>1, <1>2, LastIs
<1>4. <<>> \in Seq(L)
  OBVIOUS
<1> QED BY <1>1, <1>2, <1>3, <1>4 DEF splitRawLines

\* The shapes of lines.
IsShape(C, s) ==
    /\ s.shown \in BOOLEAN
    /\ [template |-> s.template, slots |-> s.slots] \in TemplateState(C)

LEMMA ShapesAre ==
    ASSUME NEW C, "slot" \notin C, NEW ls \in Seq(Seq(C))
    PROVE  /\ DOMAIN Shapes(ls) = 1..Len(ls)
           /\ \A i \in 1..Len(ls) : IsShape(C, Shapes(ls)[i])
<1>1. PICK n \in Nat : n = Len(ls) /\ DOMAIN ls = 1..n
  OBVIOUS
<1>2. ASSUME NEW i \in 1..n PROVE IsShape(C, Shapes(ls)[i])
  <2>1. PICK b \in Seq(C) : b = stripLinePrefix(ls[i])
    <3>1. ls[i] \in Seq(C)
      BY <1>1
    <3> QED BY <3>1, BodyIs
  <2>2. Shapes(ls)[i] = ShapeOf(b)
    BY <1>1, <2>1 DEF Shapes
  <2>3. PICK t \in TemplateState(C) : t = Templatize(b)
    BY TemplatizeIs
  <2>4. ShapeOf(b) = [shown |-> b # <<>>, template |-> t.template, slots |-> t.slots]
    BY <2>3 DEF ShapeOf
  <2>5. t = [template |-> t.template, slots |-> t.slots]
    BY DEF TemplateState
  <2>6. PICK q \in BOOLEAN : q <=> b # <<>>
    OBVIOUS
  <2>7. PICK s : s = ShapeOf(b)
    OBVIOUS
  <2>8. s.shown \in BOOLEAN /\ s.template = t.template /\ s.slots = t.slots
    BY <2>4, <2>7
  <2>9. IsShape(C, s)
    BY <2>5, <2>8 DEF IsShape
  <2> QED BY <2>2, <2>7, <2>9
<1> QED BY <1>1, <1>2 DEF Shapes

\* The lines of a group are alike, so that their slots are as many.
LEMMA GroupsAreGroups ==
    ASSUME NEW C, NEW n \in Nat, NEW shapes, DOMAIN shapes = 1..n,
           \A i \in 1..n : IsShape(C, shapes[i]), NEW firstLine
    PROVE  \E p \in Nat : /\ Groups(shapes, firstLine) = [i \in 1..p |-> Groups(shapes, firstLine)[i]]
                          /\ \A i \in 1..p : IsGroup(C, Groups(shapes, firstLine)[i])
<1>1. 1 \in Int /\ n \in Int
  OBVIOUS
<1>2. IsFiniteSet(1..n)
  BY <1>1, FS_Interval
<1>3. PICK D : D = {i \in 1..n : shapes[i].shown /\ i = Min(Alike(shapes, i))}
  OBVIOUS
<1>4. D \subseteq Int
  BY <1>3
<1>5. IsFiniteSet(D)
  BY <1>2, <1>3, FS_Subset
<1>6. PICK leaders : leaders = Ascending(D)
  OBVIOUS
<1>7. leaders \in Seq(D)
  BY <1>4, <1>5, <1>6, AscendingIs DEF InSequence
<1>8. PICK p \in Nat : p = Len(leaders) /\ DOMAIN leaders = 1..p /\ \A i \in 1..p : leaders[i] \in D
  BY <1>7
<1>9. PICK gs : gs = Groups(shapes, firstLine)
  OBVIOUS
<1>10. gs = [i \in 1..p |-> Group(shapes, Ascending(Alike(shapes, leaders[i])), firstLine)]
  <2>1. {i \in DOMAIN shapes : shapes[i].shown /\ i = Min(Alike(shapes, i))} = D
    BY <1>3
  <2> QED BY <1>6, <1>8, <1>9, <2>1 DEF Groups
<1>11. ASSUME NEW i \in 1..p PROVE IsGroup(C, gs[i])
  <2>1. PICK l \in 1..n : l = leaders[i] /\ shapes[l].shown
    BY <1>3, <1>8
  <2>2. PICK A : A = Alike(shapes, l)
    OBVIOUS
  <2>3. A = {j \in 1..n : shapes[j].shown /\ shapes[j].template = shapes[l].template}
    BY <2>2 DEF Alike
  <2>4. A \subseteq Int /\ l \in A
    BY <2>1, <2>3
  <2>5. IsFiniteSet(A)
    BY <1>2, <2>3, FS_Subset
  <2>6. PICK ms : ms = Ascending(A)
    OBVIOUS
  <2>7. ms \in Seq(A) /\ \E k \in 1..Len(ms) : ms[k] = l
    BY <2>4, <2>5, <2>6, AscendingIs DEF InSequence
  <2>8. PICK q \in Nat : q = Len(ms) /\ DOMAIN ms = 1..q /\ q # 0 /\ \A k \in 1..q : ms[k] \in A
    BY <2>7
  <2>9. PICK g : g = Group(shapes, ms, firstLine)
    OBVIOUS
  <2>10. gs[i] = g
    BY <1>10, <2>1, <2>2, <2>6, <2>9
  <2>11. /\ g.template = shapes[ms[1]].template
         /\ DOMAIN g.rows = 1..q /\ \A k \in 1..q : g.rows[k] = shapes[ms[k]].slots
    BY <2>8, <2>9 DEF Group
  <2>12. PICK tp : tp = shapes[l].template
    OBVIOUS
  <2>13. ASSUME NEW k \in 1..q
         PROVE  /\ tp \in Seq(C \cup {"slot"}) /\ shapes[ms[k]].template = tp
                /\ g.rows[k] \in Seq(Seq(C)) /\ Len(g.rows[k]) = Cardinality(SlotsIn(tp))
    <3>1. PICK j \in 1..n : j = ms[k] /\ shapes[j].template = tp
      BY <2>3, <2>8, <2>12
    <3>2. PICK s : s = shapes[j]
      OBVIOUS
    <3>3. IsShape(C, s) /\ s.template = tp /\ g.rows[k] = s.slots
      BY <2>11, <3>1, <3>2
    <3>4. PICK t \in TemplateState(C) : t = [template |-> s.template, slots |-> s.slots]
      BY <3>3 DEF IsShape
    <3>5. t.template \in Seq(C \cup {"slot"}) /\ t.slots \in Seq(Seq(C))
          /\ Len(t.slots) = Cardinality(SlotsIn(t.template))
      BY DEF TemplateState
    <3>6. t.template = tp /\ t.slots = g.rows[k]
      BY <3>3, <3>4
    <3> QED BY <3>1, <3>5, <3>6
  <2>14. PICK m \in Nat : m = Cardinality(SlotsIn(tp))
    <3>1. 1 \in 1..q
      BY <2>8
    <3>2. tp \in Seq(C \cup {"slot"})
      BY <2>13, <3>1
    <3> QED BY <3>2, SlotsFinite
  <2>15. g.template \in Seq(C \cup {"slot"})
    <3>1. 1 \in 1..q
      BY <2>8
    <3> QED BY <2>11, <2>13, <3>1
  <2>16. \A k \in 1..q : g.rows[k] \in Seq(Seq(C)) /\ Len(g.rows[k]) = m
    BY <2>13, <2>14
  <2>17. IsGroup(C, g)
    BY <2>8, <2>11, <2>15, <2>16 DEF IsGroup
  <2> QED BY <2>10, <2>17
<1>12. gs = [i \in 1..p |-> gs[i]]
  BY <1>10
<1> QED BY <1>9, <1>11, <1>12

-----------------------------------------------------------------------------
(* Views.                                                                  *)

\* A view is one of a stream or of a window, of the bytes the buffer holds.
IsView(v, raw, f) ==
    \E off, stored \in BOOLEAN : v = Compact(raw, f, off, stored) \/ v = compactWindow(raw, f, off, stored)

\* What is delivered: the whole text, the bounded text or the outline.
IsWhole(res, raw) == ~res.outlined /\ res.rows = TextRows(raw) /\ res.dropped = 0
IsBounded(res, raw) ==
    /\ ~res.outlined
    /\ res.rows = Bounded(terminalNormalize(raw)).rows
    /\ res.dropped = Bounded(terminalNormalize(raw)).dropped
IsOutline(res, raw, f) ==
    /\ res.outlined
    /\ res.groups = GroupTemplates(splitRawLines(terminalNormalize(raw)), f)
    /\ res.rows = Outline(res.groups).rows /\ res.dropped = Outline(res.groups).dropped

DeliversWhat(d, rows, raw, q, dropped, groups) ==
    /\ d.rows = rows /\ (d.outlined <=> q) /\ d.dropped = dropped /\ d.groups = groups
    /\ ~d.elided => d.rows = TextRows(raw)

LEMMA DeliverIs ==
    ASSUME NEW rows, NEW raw, NEW q \in BOOLEAN, NEW dropped, NEW groups
    PROVE  DeliversWhat(deliver(rows, raw, q, dropped, groups), rows, raw, q, dropped, groups)
<1>0. PICK d : d = deliver(rows, raw, q, dropped, groups)
  OBVIOUS
<1>1. PICK e \in BOOLEAN : e <=> rows # TextRows(raw)
  OBVIOUS
<1>2. d = [rows |-> rows, elided |-> e, outlined |-> q, dropped |-> dropped, groups |-> groups]
  BY <1>0, <1>1 DEF deliver
<1>3. DeliversWhat(d, rows, raw, q, dropped, groups)
  BY <1>1, <1>2 DEF DeliversWhat
<1> QED BY <1>0, <1>3

LEMMA AnalyzeIs ==
    ASSUME NEW raw, NEW f, NEW res, res = Analyze(raw, f)
    PROVE  /\ IsWhole(res, raw) \/ IsBounded(res, raw) \/ IsOutline(res, raw, f)
           /\ ~res.elided => res.rows = TextRows(raw)
<1>1. PICK norm : norm = terminalNormalize(raw)
  OBVIOUS
<1>2. PICK ls : ls = splitRawLines(norm)
  OBVIOUS
<1>3. PICK groups : groups = GroupTemplates(ls, f)
  OBVIOUS
<1>4. PICK b, o : b = Bounded(norm) /\ o = Outline(groups)
  OBVIOUS
<1>5. \/ res = deliver(TextRows(raw), raw, FALSE, 0, <<>>)
      \/ res = deliver(b.rows, raw, FALSE, b.dropped, groups)
      \/ res = deliver(o.rows, raw, TRUE, o.dropped, groups)
  BY <1>1, <1>2, <1>3, <1>4 DEF Analyze, AnalyzeText, AnalyzeLines, ViewOf, Shorter
<1>6. CASE res = deliver(TextRows(raw), raw, FALSE, 0, <<>>)
  <2>1. PICK t : t = TextRows(raw)
    OBVIOUS
  <2>2. res = deliver(t, raw, FALSE, 0, <<>>)
    BY <1>6, <2>1
  <2>4. DeliversWhat(res, t, raw, FALSE, 0, <<>>)
    BY <2>2, DeliverIs
  <2>3. ~res.outlined /\ res.rows = t /\ res.dropped = 0 /\ (~res.elided => res.rows = TextRows(raw))
    BY <2>4 DEF DeliversWhat
  <2> QED BY <2>1, <2>3 DEF IsWhole
<1>7. CASE res = deliver(b.rows, raw, FALSE, b.dropped, groups)
  <2>1. PICK r, d : r = b.rows /\ d = b.dropped
    OBVIOUS
  <2>2. res = deliver(r, raw, FALSE, d, groups)
    BY <1>7, <2>1
  <2>5. DeliversWhat(res, r, raw, FALSE, d, groups)
    BY <2>2, DeliverIs
  <2>3. res.rows = r /\ ~res.outlined /\ res.dropped = d /\ (~res.elided => res.rows = TextRows(raw))
    BY <2>5 DEF DeliversWhat
  <2>4. IsBounded(res, raw)
    BY <1>1, <1>4, <2>1, <2>3 DEF IsBounded
  <2> QED BY <2>3, <2>4
<1>8. CASE res = deliver(o.rows, raw, TRUE, o.dropped, groups)
  <2>1. PICK r, d : r = o.rows /\ d = o.dropped
    OBVIOUS
  <2>2. res = deliver(r, raw, TRUE, d, groups)
    BY <1>8, <2>1
  <2>7. DeliversWhat(res, r, raw, TRUE, d, groups)
    BY <2>2, DeliverIs
  <2>3. /\ res.rows = r /\ res.outlined /\ res.dropped = d /\ res.groups = groups
        /\ ~res.elided => res.rows = TextRows(raw)
    BY <2>7 DEF DeliversWhat
  <2>4. Outline(res.groups) = o
    BY <1>4, <2>3
  <2>5. res.groups = GroupTemplates(splitRawLines(terminalNormalize(raw)), f)
    BY <1>1, <1>2, <1>3, <2>3
  <2>6. IsOutline(res, raw, f)
    BY <2>1, <2>3, <2>4, <2>5 DEF IsOutline
  <2> QED BY <2>3, <2>6
<1> QED BY <1>5, <1>6, <1>7, <1>8

\* The result a view shows, and the spill that backs it.
Shows(v, res, raw) ==
    /\ v.rows = res.rows /\ (v.outlined <=> res.outlined) /\ v.dropped = res.dropped
    /\ v.groups = res.groups
    /\ v.spill = <<raw>> \/ (~res.elided /\ v.spill = <<>>)

LEMMA BackedIs ==
    ASSUME NEW raw, NEW res, NEW off \in BOOLEAN, NEW stored \in BOOLEAN
    PROVE  Backed(raw, res, off, stored) = exact(raw) \/ Shows(Backed(raw, res, off, stored), res, raw)
<1>0. PICK v : v = Backed(raw, res, off, stored)
  OBVIOUS
<1>1. CASE off
  BY <1>0, <1>1 DEF Backed
<1>2. CASE ~off /\ ~res.elided
  <2>1. v = Stream(res, <<>>, FALSE)
    BY <1>0, <1>2 DEF Backed
  <2>2. /\ v.rows = res.rows /\ v.outlined = res.outlined /\ v.dropped = res.dropped
        /\ v.groups = res.groups /\ v.spill = <<>>
    BY <2>1 DEF Stream
  <2> QED BY <1>0, <1>2, <2>2 DEF Shows
<1>3. CASE ~off /\ res.elided /\ ~stored
  <2>1. v = exact(raw)
    BY <1>0, <1>3 DEF Backed
  <2> QED BY <1>0, <2>1
<1>4. CASE ~off /\ res.elided /\ stored
  <2>1. PICK sp : sp = <<raw>>
    OBVIOUS
  <2>2. v = Stream(res, sp, FALSE)
    BY <1>0, <1>4, <2>1 DEF Backed
  <2>3. /\ v.rows = res.rows /\ v.outlined = res.outlined /\ v.dropped = res.dropped
        /\ v.groups = res.groups /\ v.spill = sp
    BY <2>2 DEF Stream
  <2>4. Shows(v, res, raw)
    BY <2>1, <2>3 DEF Shows
  <2> QED BY <1>0, <2>4
<1> QED BY <1>1, <1>2, <1>3, <1>4

LEMMA ExactIs ==
    ASSUME NEW raw
    PROVE  /\ exact(raw).made /\ exact(raw).skipped /\ exact(raw).rows = TextRows(raw)
           /\ ~exact(raw).outlined /\ exact(raw).spill = <<>>
<1>1. PICK t, d : t = TextRows(raw) /\ d = deliver(t, raw, FALSE, 0, <<>>)
  OBVIOUS
<1>2. d.rows = t /\ ~d.outlined
  <2>1. DeliversWhat(d, t, raw, FALSE, 0, <<>>)
    BY <1>1, DeliverIs
  <2> QED BY <2>1 DEF DeliversWhat
<1>4. exact(raw) = Stream(d, <<>>, TRUE)
  BY <1>1 DEF exact
<1>5. PICK v : v = exact(raw)
  OBVIOUS
<1>6. v.made /\ v.skipped /\ v.rows = d.rows /\ v.outlined = d.outlined /\ v.spill = <<>>
  BY <1>4, <1>5 DEF Stream
<1>7. v.made /\ v.skipped /\ v.rows = TextRows(raw) /\ ~v.outlined /\ v.spill = <<>>
  BY <1>1, <1>2, <1>6
<1> QED BY <1>5, <1>7

LEMMA ViewIs ==
    ASSUME NEW raw, NEW f, NEW v, IsView(v, raw, f)
    PROVE  v = exact(raw) \/ Shows(v, Analyze(raw, f), raw)
<1>1. PICK off \in BOOLEAN, stored \in BOOLEAN :
        v = Compact(raw, f, off, stored) \/ v = compactWindow(raw, f, off, stored)
  BY DEF IsView
<1>2. PICK res, b : res = Analyze(raw, f) /\ b = Backed(raw, res, off, stored)
  OBVIOUS
<1>3. b = exact(raw) \/ Shows(b, res, raw)
  BY <1>2, BackedIs
<1>4. v = b \/ v = exact(raw)
  BY <1>1, <1>2 DEF Compact, compactWindow, WindowOf, Window
<1> QED BY <1>2, <1>3, <1>4

\* The rows a view shows are the rows before the budget, capped.
BeforeBudget(v, raw) ==
    ClampLines(IF v.outlined THEN OutlineRows(v.groups) ELSE TextRows(terminalNormalize(raw)))

LEMMA TokensAre == "lf" \in Token /\ "slot" \notin Token
  BY DEF Token, Params, Intermediates, Finals

LEMMA ShownRows ==
    ASSUME NEW raw \in Seq(Token), NEW f, NEW v, IsView(v, raw, f), ~v.skipped, v.dropped > 0
    PROVE  \E all : /\ all = BeforeBudget(v, raw) /\ IsRows(all)
                    /\ v.rows = BudgetCap(all).rows /\ v.dropped = BudgetCap(all).dropped
<1>1. PICK res : res = Analyze(raw, f)
  OBVIOUS
<1>2. Shows(v, res, raw)
  <2>1. v = exact(raw) \/ Shows(v, res, raw)
    BY <1>1, ViewIs
  <2>2. exact(raw).skipped
    BY ExactIs
  <2> QED BY <2>1, <2>2
<1>3. v.rows = res.rows /\ (v.outlined <=> res.outlined) /\ v.dropped = res.dropped /\ v.groups = res.groups
  BY <1>2 DEF Shows
<1>4. PICK norm \in Seq(Token) : norm = terminalNormalize(raw)
  BY TokensAre, NormIs
<1>5. IsBounded(res, raw) \/ IsOutline(res, raw, f)
  <2>1. IsWhole(res, raw) \/ IsBounded(res, raw) \/ IsOutline(res, raw, f)
    BY <1>1, AnalyzeIs
  <2>2. res.dropped # 0
    BY <1>3
  <2> QED BY <2>1, <2>2 DEF IsWhole
<1>6. CASE IsBounded(res, raw)
  <2>1. PICK rows : rows = TextRows(norm)
    OBVIOUS
  <2>2. PICK all : all = ClampLines(rows)
    OBVIOUS
  <2>3. IsRows(all)
    BY <2>1, <2>2, TextRowsAre, ClampedRows
  <2>4. Bounded(norm) = BudgetCap(all)
    BY <2>1, <2>2 DEF Bounded
  <2>5. all = BeforeBudget(v, raw)
    <3>1. ~v.outlined
      BY <1>3, <1>6 DEF IsBounded
    <3> QED BY <1>4, <2>1, <2>2, <3>1 DEF BeforeBudget
  <2>6. v.rows = BudgetCap(all).rows /\ v.dropped = BudgetCap(all).dropped
    BY <1>3, <1>4, <1>6, <2>4 DEF IsBounded
  <2> QED BY <2>3, <2>5, <2>6
<1>7. CASE IsOutline(res, raw, f)
  <2>1. PICK ls \in Seq(Seq(Token)) : ls = splitRawLines(norm)
    BY RawLinesIs
  <2>2. PICK shapes : shapes = Shapes(ls)
    OBVIOUS
  <2>3. PICK n \in Nat : n = Len(ls)
    OBVIOUS
  <2>4. DOMAIN shapes = 1..n /\ \A i \in 1..n : IsShape(Token, shapes[i])
    BY <2>2, <2>3, TokensAre, ShapesAre
  <2>5. PICK gs : gs = Groups(shapes, f)
    OBVIOUS
  <2>6. PICK p \in Nat : gs = [i \in 1..p |-> gs[i]] /\ \A i \in 1..p : IsGroup(Token, gs[i])
    BY <2>4, <2>5, GroupsAreGroups
  <2>7. PICK rows : rows = OutlineRows(gs)
    OBVIOUS
  <2>8. IsRows(rows)
    BY <2>6, <2>7, OutlineIs
  <2>9. PICK all : all = ClampLines(rows)
    OBVIOUS
  <2>10. IsRows(all)
    BY <2>8, <2>9, ClampedRows
  <2>11. res.groups = gs
    BY <1>4, <1>7, <2>1, <2>2, <2>5 DEF IsOutline, GroupTemplates
  <2>12. Outline(gs) = BudgetCap(all)
    BY <2>7, <2>9 DEF Outline
  <2>13. all = BeforeBudget(v, raw)
    <3>1. v.outlined /\ v.groups = gs
      BY <1>3, <1>7, <2>11 DEF IsOutline
    <3> QED BY <2>7, <2>9, <3>1 DEF BeforeBudget
  <2>14. v.rows = BudgetCap(all).rows /\ v.dropped = BudgetCap(all).dropped
    BY <1>3, <1>7, <2>11, <2>12 DEF IsOutline
  <2> QED BY <2>10, <2>13, <2>14
<1> QED BY <1>5, <1>6, <1>7

-----------------------------------------------------------------------------
\* The lines a read_block returned are those of a row of the view, from its spill.
IsGot ==
    /\ view.made /\ view.spill # <<>>
    /\ \E i \in DOMAIN view.rows :
          /\ view.rows[i].kind = "group"
          /\ got = [row |-> i, lines |-> selectRanges(view.spill[1], view.rows[i].of.span.listed)]

\* The invariant: the buffer holds tokens, a view is one of the buffer, and what was
\* read back is of the view.
ViewInv ==
    /\ buf \in Seq(Token)
    /\ first \in FirstLines
    /\ view.made => IsView(view, buf, first)
    /\ got # NoGot => IsGot

LEMMA ViewIsMade ==
    ASSUME NEW raw, NEW f, NEW off \in BOOLEAN, NEW stored \in BOOLEAN
    PROVE  IsView(Compact(raw, f, off, stored), raw, f) /\ IsView(compactWindow(raw, f, off, stored), raw, f)
  BY DEF IsView

LEMMA TextInitView == TextInit => ViewInv
<1> SUFFICES ASSUME TextInit PROVE ViewInv
  OBVIOUS
<1>1. buf = <<>> /\ first \in FirstLines /\ ~view.made /\ got = NoGot
  BY DEF TextInit, Init, NoView
<1> QED BY <1>1 DEF ViewInv

LEMMA TextNextView ==
    ASSUME ViewInv, [TextNext]_<<vars, editVars, tool>>
    PROVE  ViewInv'
<1>1. CASE UNCHANGED vars
  BY <1>1 DEF ViewInv, IsGot, vars
<1>0. first \in FirstLines /\ (got # NoGot => IsGot) /\ (~view.made => got = NoGot)
  BY DEF ViewInv, IsGot
<1>2. ASSUME NEW chunk \in Chunks, Write(chunk) PROVE ViewInv'
  <2>1. PICK k : k = Min({Max({CaptureLimit - Len(buf), 0}), Len(chunk)})
    OBVIOUS
  <2>2. /\ buf' = buf \o SubSeq(chunk, 1, k) /\ ~view.made /\ view' = view
        /\ first' = first /\ got' = got
    BY <1>2, <2>1 DEF Write
  <2>3. chunk \in Seq(Token) /\ buf \in Seq(Token)
    BY ChunksAssumption DEF ChunksAssumption, ViewInv
  <2>4. k \in 0..Len(chunk)
    <3>1. PICK n \in Nat, m \in Nat : n = Len(buf) /\ m = Len(chunk)
      BY <2>3
    <3>2. CaptureLimit \in Nat
      BY BoundsAssumption DEF BoundsAssumption
    <3>3. PICK room : room = Max({CaptureLimit - Len(buf), 0})
      OBVIOUS
    <3>4. room \in Nat
      <4>1. CASE CaptureLimit - n >= 0
        <5>1. {CaptureLimit - n, 0} \subseteq 0..CaptureLimit /\ {CaptureLimit - n, 0} # {}
          BY <3>2, <4>1
        <5>2. Max({CaptureLimit - n, 0}) \in {CaptureLimit - n, 0}
          BY <3>2, <5>1, MaxIn
        <5> QED BY <3>1, <3>3, <5>1, <5>2
      <4>2. CASE ~(CaptureLimit - n >= 0)
        <5>1. PICK A : A = {CaptureLimit - n, 0}
          OBVIOUS
        <5>2. A \subseteq Int /\ 0 \in A /\ \A i \in A : i <= 0
          BY <3>2, <4>2, <5>1
        <5>3. Max(A) = 0
          BY <5>2, MaxIs
        <5> QED BY <3>1, <3>3, <5>1, <5>3
      <4> QED BY <4>1, <4>2
    <3>5. {room, m} \subseteq Nat /\ {room, m} # {}
      BY <3>4
    <3>6. Min({room, m}) \in {room, m} /\ \A i \in {room, m} : Min({room, m}) <= i
      BY <3>5, MinIn
    <3>7. k = Min({room, m})
      BY <2>1, <3>1, <3>3
    <3> QED BY <3>1, <3>4, <3>6, <3>7
  <2>5. PICK s \in Seq(Token) : s = SubSeq(chunk, 1, k)
    <3>1. Prefix(chunk, k) \in Seq(Token)
      BY <2>3, <2>4, SuffixIs
    <3> QED BY <3>1 DEF Prefix
  <2>6. buf \o s \in Seq(Token)
    BY <2>3, <2>5, Joined
  <2>7. buf' \in Seq(Token) /\ ~view'.made
    BY <2>2, <2>5, <2>6
  <2>8. first' \in FirstLines /\ got' = NoGot
    BY <1>0, <2>2 DEF NoGot
  <2> QED BY <2>7, <2>8 DEF ViewInv, NoGot
<1>3. ASSUME NEW off \in BOOLEAN, NEW stored \in BOOLEAN, ShowStream(off, stored) PROVE ViewInv'
  <2>1. view' = Compact(buf, first, off, stored) /\ buf' = buf /\ first' = first
    BY <1>3 DEF ShowStream
  <2>2. IsView(view', buf', first')
    BY <2>1, ViewIsMade
  <2>3. got' = got /\ ~view.made
    BY <1>3 DEF ShowStream
  <2>4. first' \in FirstLines /\ got' = NoGot
    BY <1>0, <2>1, <2>3 DEF NoGot
  <2> QED BY <2>1, <2>2, <2>4 DEF ViewInv, NoGot
<1>4. ASSUME NEW off \in BOOLEAN, NEW stored \in BOOLEAN, ShowWindow(off, stored) PROVE ViewInv'
  <2>1. view' = compactWindow(buf, first, off, stored) /\ buf' = buf /\ first' = first
    BY <1>4 DEF ShowWindow
  <2>2. IsView(view', buf', first')
    BY <2>1, ViewIsMade
  <2>3. got' = got /\ ~view.made
    BY <1>4 DEF ShowWindow
  <2>4. first' \in FirstLines /\ got' = NoGot
    BY <1>0, <2>1, <2>3 DEF NoGot
  <2> QED BY <2>1, <2>2, <2>4 DEF ViewInv, NoGot
<1>5. ASSUME NEW i, ReadBlock(i) PROVE ViewInv'
  <2>1. view.made /\ view.spill # <<>> /\ i \in DOMAIN view.rows /\ view.rows[i].kind = "group"
    BY <1>5 DEF ReadBlock
  <2>2. /\ got' = [row |-> i, lines |-> selectRanges(view.spill[1], view.rows[i].of.span.listed)]
        /\ buf' = buf /\ first' = first /\ view' = view
    BY <1>5 DEF ReadBlock
  <2>3. IsGot'
    BY <2>1, <2>2 DEF IsGot
  <2>4. buf' \in Seq(Token) /\ first' \in FirstLines /\ (view'.made => IsView(view', buf', first'))
    BY <2>2 DEF ViewInv
  <2> QED BY <2>3, <2>4 DEF ViewInv
<1> QED BY <1>1, <1>2, <1>3, <1>4, <1>5 DEF TextNext, EditStep, ViewStep, Next, vars

\* Every reachable view is Compact's or compactWindow's of the bytes the buffer
\* retained (boundedBuffer.Write), whatever was written and wherever it was cut.
THEOREM ViewsAreOfTheBuffer == TextSpec => []ViewInv
<1>1. TextInit => ViewInv
  BY TextInitView
<1>2. ViewInv /\ [TextNext]_<<vars, editVars, tool>> => ViewInv'
  BY TextNextView
<1> QED BY <1>1, <1>2, PTL DEF TextSpec

LEMMA ViewEnds ==
    ASSUME ViewInv
    PROVE  EndsSurvive
<1> SUFFICES ASSUME view.made, ~view.skipped, view.dropped > 0 PROVE
        LET all == RowsBeforeBudget
            kept == {i \in DOMAIN view.rows : view.rows[i].kind \in {"line", "group", "slot"}}
            said == {i \in DOMAIN all : all[i].width > 0}
            tail == Len(all) - Max(said) + 1
        IN  /\ RowsWidth(view.rows) <= Budget
            /\ (\A i \in DOMAIN view.rows : view.rows[i].kind # "part") =>
                    Cardinality(kept) + view.dropped = Len(all)
            /\ said # {} /\ RowsWidth(Suffix(all, tail)) + MarkerLen(Len(all)) + 2
                              <= Budget - Budget \div 2 =>
                    Suffix(all, tail) = Suffix(view.rows, tail)
  BY DEF EndsSurvive
<1>1. buf \in Seq(Token) /\ IsView(view, buf, first)
  BY DEF ViewInv
<1>2. PICK all : /\ all = BeforeBudget(view, buf) /\ IsRows(all)
                 /\ view.rows = BudgetCap(all).rows /\ view.dropped = BudgetCap(all).dropped
  BY <1>1, ShownRows
<1>3. all = RowsBeforeBudget
  BY <1>2 DEF RowsBeforeBudget, BeforeBudget
<1>4. PICK R : Wide(R) /\ AllWhole(R) /\ all \in Seq(R)
  BY <1>2, RowsAre
<1>5. PICK res : res = BudgetCap(all)
  OBVIOUS
<1>6. EndsKept(all, res)
  BY <1>4, <1>5, BudgetCapKeepsEnds
<1>7. res.rows = view.rows /\ res.dropped = view.dropped
  BY <1>2, <1>5
<1>8. /\ RowsWidth(res.rows) <= Budget
      /\ NoPart(res.rows) => Cardinality(KeptIn(res.rows)) + res.dropped = Len(all)
      /\ \A t \in 1..Len(all) : TailFits(all, t) => Suffix(all, t) = Suffix(res.rows, t)
  BY <1>6, <1>7 DEF EndsKept
<1>9. PICK said : said = {i \in DOMAIN all : all[i].width > 0}
  OBVIOUS
<1>10. said # {} => TailOf(all) \in 1..Len(all)
  <2>1. PICK n \in Nat : n = Len(all) /\ DOMAIN all = 1..n
    BY <1>4
  <2>2. said \subseteq 0..n /\ said \subseteq 1..n
    BY <1>9, <2>1
  <2>3. SUFFICES ASSUME said # {} PROVE TailOf(all) \in 1..Len(all)
    OBVIOUS
  <2>4. Max(said) \in said
    BY <2>2, <2>3, MaxIn
  <2>5. PICK m \in 1..n : m = Max(said)
    BY <2>2, <2>4
  <2>6. TailOf(all) = n - m + 1
    BY <1>9, <2>1, <2>5 DEF TailOf, SaidIn
  <2> QED BY <2>1, <2>5, <2>6
<1>11. PICK tail : tail = TailOf(all)
  OBVIOUS
<1>12. tail = Len(all) - Max(said) + 1
  BY <1>9, <1>11 DEF TailOf, SaidIn
<1>13. said # {} /\ RowsWidth(Suffix(all, tail)) + MarkerLen(Len(all)) + 2 <= Budget - Budget \div 2
          => Suffix(all, tail) = Suffix(view.rows, tail)
  BY <1>7, <1>8, <1>10, <1>11 DEF TailFits
<1>14. RowsWidth(view.rows) <= Budget
  BY <1>7, <1>8
<1>15. (\A i \in DOMAIN view.rows : view.rows[i].kind # "part") =>
          Cardinality({i \in DOMAIN view.rows : view.rows[i].kind \in {"line", "group", "slot"}})
             + view.dropped = Len(all)
  BY <1>7, <1>8 DEF NoPart, KeptIn, WholeKinds
<1> QED BY <1>3, <1>9, <1>12, <1>13, <1>14, <1>15

\* A view that lost rows is within its budget, counts what it lost, and has the last
\* rows that say anything whenever they fit the tail's half (BudgetCap).
THEOREM ViewKeepsItsEnds == TextSpec => []EndsSurvive
<1>1. ViewInv => EndsSurvive
  BY ViewEnds
<1> QED BY <1>1, ViewsAreOfTheBuffer, PTL

-----------------------------------------------------------------------------
(* A terminal reads the first line of a text as it reads the line alone.   *)

LEMMA EndIsNone == "end" \notin Token
  BY DEF Token, Params, Intermediates, Finals

\* m characters of two texts are the same, a further on in the first, and both
\* go no further than the end of the line or of the text.
SameText(T, U, a, m) ==
    /\ a \in Nat /\ m \in Nat /\ m <= Len(U) /\ a + m <= Len(T)
    /\ \A j \in 1..m : At(T, a + j) = At(U, j)
    /\ At(T, a + m + 1) \in {"lf", "end"} /\ At(U, m + 1) \in {"lf", "end"}

Shifted(a, e) == IF e = 0 THEN 0 ELSE a + e

LEMMA SkipSame ==
    ASSUME NEW T \in Seq(Token), NEW U \in Seq(Token), NEW a, NEW m, SameText(T, U, a, m),
           NEW i \in 1..(m + 1), NEW S, "lf" \notin S, "end" \notin S
    PROVE  Skip(U, i, S) \in i..(m + 1) /\ Skip(T, a + i, S) = a + Skip(U, i, S)
<1>1. /\ a \in Nat /\ m \in Nat /\ m <= Len(U) /\ a + m <= Len(T)
      /\ \A j \in 1..m : At(T, a + j) = At(U, j)
      /\ At(T, a + m + 1) \notin S /\ At(U, m + 1) \notin S
  BY DEF SameText
<1>2. i \in Nat \ {0} /\ i <= Len(U) + 1 /\ a + i \in Nat \ {0} /\ a + i <= Len(T) + 1
  BY <1>1
<1>3. PICK x : x = Skip(U, i, S)
  OBVIOUS
<1>4. /\ x \in i..(Len(U) + 1) /\ At(U, x) \notin S
      /\ \A j \in i..(Len(U) + 1) : At(U, j) \notin S => x <= j
  BY <1>2, <1>3, SkipIn
<1>5. x \in i..(m + 1)
  <2>1. m + 1 \in i..(Len(U) + 1)
    BY <1>1
  <2> QED BY <1>1, <1>4, <2>1
<1>6. PICK y : y = Skip(T, a + i, S)
  OBVIOUS
<1>7. /\ y \in (a + i)..(Len(T) + 1) /\ At(T, y) \notin S
      /\ \A j \in (a + i)..(Len(T) + 1) : At(T, j) \notin S => y <= j
  BY <1>2, <1>6, SkipIn
<1>8. ASSUME NEW j \in 1..(m + 1) PROVE At(T, a + j) \notin S <=> At(U, j) \notin S
  <2>1. CASE j = m + 1
    <3>1. a + j = a + m + 1
      BY <1>1, <2>1
    <3> QED BY <1>1, <2>1, <3>1
  <2>2. CASE j # m + 1
    <3>1. j \in 1..m
      BY <1>1, <2>2
    <3> QED BY <1>1, <3>1
  <2> QED BY <2>1, <2>2
<1>9. y <= a + x
  <2>1. x \in 1..(m + 1) /\ a + x \in (a + i)..(Len(T) + 1)
    BY <1>1, <1>5
  <2>2. At(T, a + x) \notin S
    BY <1>4, <1>8, <2>1
  <2> QED BY <1>7, <2>1, <2>2
<1>10. PICK z \in i..(m + 1) : y = a + z
  <2>1. y - a \in i..(m + 1) /\ y = a + (y - a)
    BY <1>1, <1>5, <1>7, <1>9
  <2> QED BY <2>1
<1>11. x <= z
  <2>1. z \in 1..(m + 1) /\ z \in i..(Len(U) + 1)
    BY <1>1, <1>10
  <2>2. At(U, z) \notin S
    BY <1>7, <1>8, <1>10, <2>1
  <2> QED BY <1>4, <2>1, <2>2
<1>12. y = a + x
  BY <1>1, <1>5, <1>9, <1>10, <1>11
<1> QED BY <1>3, <1>5, <1>6, <1>12

\* The control sequences of a text lie before its first m + 1 characters' end.
LEMMA CSISame ==
    ASSUME NEW T \in Seq(Token), NEW U \in Seq(Token), NEW a, NEW m, SameText(T, U, a, m),
           NEW i \in 1..m, i + 2 <= m + 1
    PROVE  CSIEnd(U, i) \in 0..m /\ CSIEnd(T, a + i) = Shifted(a, CSIEnd(U, i))
<1>1. /\ a \in Nat /\ m \in Nat /\ m <= Len(U) /\ a + m <= Len(T)
      /\ \A j \in 1..m : At(T, a + j) = At(U, j)
      /\ At(T, a + m + 1) \in {"lf", "end"} /\ At(U, m + 1) \in {"lf", "end"}
  BY DEF SameText
<1>2. PICK p : p = Skip(U, i + 2, Params)
  OBVIOUS
<1>3. p \in (i + 2)..(m + 1) /\ Skip(T, a + (i + 2), Params) = a + p
  <2>1. i + 2 \in 1..(m + 1) /\ "lf" \notin Params /\ "end" \notin Params
    BY <1>1 DEF Params
  <2> QED BY <1>2, <2>1, SkipSame
<1>4. PICK q : q = Skip(U, p, Intermediates)
  OBVIOUS
<1>5. q \in p..(m + 1) /\ Skip(T, a + p, Intermediates) = a + q
  <2>1. p \in 1..(m + 1) /\ "lf" \notin Intermediates /\ "end" \notin Intermediates
    BY <1>1, <1>3 DEF Intermediates
  <2> QED BY <1>4, <2>1, SkipSame
<1>6. CSIEnd(U, i) = IF At(U, q) \in Finals THEN q ELSE 0
  BY <1>2, <1>4 DEF CSIEnd
<1>7. CSIEnd(T, a + i) = IF At(T, a + q) \in Finals THEN a + q ELSE 0
  <2>1. (a + i) + 2 = a + (i + 2)
    BY <1>1
  <2> QED BY <1>3, <1>5, <2>1 DEF CSIEnd
<1>8. "lf" \notin Finals /\ "end" \notin Finals
  BY DEF Finals
<1>9. CASE q = m + 1
  <2>1. At(U, q) \notin Finals /\ At(T, a + q) \notin Finals
    <3>1. a + q = a + m + 1
      BY <1>1, <1>9
    <3> QED BY <1>1, <1>8, <1>9, <3>1
  <2>2. CSIEnd(U, i) = 0 /\ CSIEnd(T, a + i) = 0
    BY <1>6, <1>7, <2>1
  <2> QED BY <1>1, <2>2 DEF Shifted
<1>10. CASE q # m + 1
  <2>1. q \in 1..m
    BY <1>1, <1>3, <1>5, <1>10
  <2>2. At(T, a + q) = At(U, q)
    BY <1>1, <2>1
  <2>3. CASE At(U, q) \in Finals
    <3>1. CSIEnd(U, i) = q /\ CSIEnd(T, a + i) = a + q /\ q # 0 /\ q \in 0..m
      BY <1>6, <1>7, <2>1, <2>2, <2>3
    <3> QED BY <3>1 DEF Shifted
  <2>4. CASE At(U, q) \notin Finals
    <3>1. CSIEnd(U, i) = 0 /\ CSIEnd(T, a + i) = 0
      BY <1>6, <1>7, <2>2, <2>4
    <3> QED BY <1>1, <3>1 DEF Shifted
  <2> QED BY <2>3, <2>4
<1> QED BY <1>9, <1>10

IsStop(text, j) ==
    text[j] \in {"bel", "lf"} \/ (text[j] = "esc" /\ At(text, j + 1) = "\\")

\* An operating system command that meets no stop before its line ends stays.
LEMMA OSCNone ==
    ASSUME NEW text \in Seq(Token), NEW i \in Nat, NEW k \in Nat, i + 2 <= k, k <= Len(text) + 1,
           At(text, k) \in {"lf", "end"}, \A j \in (i + 2)..(k - 1) : ~IsStop(text, j)
    PROVE  OSCEnd(text, i) = 0
<1>1. PICK n \in Nat : n = Len(text)
  OBVIOUS
<1>2. PICK stops : stops = OSCStops(text, i)
  OBVIOUS
<1>3. \A j : j \in stops <=> j \in (i + 2)..n /\ IsStop(text, j)
  BY <1>1, <1>2 DEF OSCStops, IsStop
<1>4. CASE stops = {}
  BY <1>2, <1>4 DEF OSCEnd
<1>5. CASE stops # {}
  <2>1. PICK x : x = Min(stops)
    OBVIOUS
  <2>2. stops \subseteq Nat
    BY <1>3
  <2>3. x \in stops /\ \A j \in stops : x <= j
    BY <1>5, <2>1, <2>2, MinIn
  <2>4. x \in k..n
    <3>1. x \in (i + 2)..n /\ IsStop(text, x)
      BY <1>3, <2>3
    <3>2. ~(x \in (i + 2)..(k - 1))
      BY <3>1
    <3> QED BY <3>1, <3>2
  <2>5. k \in 1..n /\ At(text, k) = text[k]
    BY <1>1, <2>4 DEF At
  <2>6. text[k] = "lf"
    <3>1. text[k] \in Token
      BY <1>1, <2>5
    <3> QED BY <2>5, <3>1, EndIsNone
  <2>7. k \in stops
    BY <1>3, <2>4, <2>6 DEF IsStop
  <2>8. x = k
    BY <2>3, <2>4, <2>7
  <2>9. At(text, Min(stops)) = "lf"
    BY <2>1, <2>5, <2>6, <2>8
  <2> QED BY <1>2, <1>5, <2>9 DEF OSCEnd
<1> QED BY <1>4, <1>5

\* What follows a first stop.
OSCAfter(c, p) == IF c = "lf" THEN 0 ELSE IF c = "bel" THEN p ELSE p + 1

LEMMA OSCFirst ==
    ASSUME NEW text \in Seq(Token), NEW i \in Nat, NEW p \in (i + 2)..Len(text), IsStop(text, p),
           \A j \in (i + 2)..(p - 1) : ~IsStop(text, j)
    PROVE  OSCEnd(text, i) = OSCAfter(text[p], p)
<1>1. PICK n \in Nat : n = Len(text)
  OBVIOUS
<1>2. PICK stops : stops = OSCStops(text, i)
  OBVIOUS
<1>3. \A j : j \in stops <=> j \in (i + 2)..n /\ IsStop(text, j)
  BY <1>1, <1>2 DEF OSCStops, IsStop
<1>4. p \in stops /\ stops # {} /\ stops \subseteq Int
  BY <1>1, <1>3
<1>5. \A j \in stops : p <= j
  BY <1>1, <1>3
<1>6. Min(stops) = p
  BY <1>4, <1>5, MinIs
<1>7. At(text, p) = text[p]
  BY DEF At
<1>8. text[p] \in {"bel", "lf", "esc"}
  BY DEF IsStop
<1>9. OSCEnd(text, i) = CASE stops = {} -> 0
                          [] stops # {} /\ At(text, p) = "lf" -> 0
                          [] stops # {} /\ At(text, p) = "bel" -> p
                          [] stops # {} /\ At(text, p) = "esc" -> p + 1
  BY <1>2, <1>6 DEF OSCEnd
<1>10. CASE text[p] = "lf"
  <2>1. OSCEnd(text, i) = 0
    BY <1>4, <1>7, <1>9, <1>10
  <2> QED BY <1>10, <2>1 DEF OSCAfter
<1>11. CASE text[p] = "bel"
  <2>1. OSCEnd(text, i) = p
    BY <1>4, <1>7, <1>9, <1>11
  <2> QED BY <1>11, <2>1 DEF OSCAfter
<1>12. CASE text[p] = "esc"
  <2>1. OSCEnd(text, i) = p + 1
    BY <1>4, <1>7, <1>9, <1>12
  <2> QED BY <1>12, <2>1 DEF OSCAfter
<1> QED BY <1>8, <1>10, <1>11, <1>12

LEMMA StopSame ==
    ASSUME NEW T \in Seq(Token), NEW U \in Seq(Token), NEW a, NEW m, SameText(T, U, a, m),
           NEW j \in 1..m
    PROVE  /\ T[a + j] = U[j] /\ (IsStop(T, a + j) <=> IsStop(U, j))
           /\ IsStop(U, j) /\ U[j] = "esc" => j + 1 <= m
<1>1. /\ a \in Nat /\ m \in Nat /\ m <= Len(U) /\ a + m <= Len(T)
      /\ \A k \in 1..m : At(T, a + k) = At(U, k)
      /\ At(T, a + m + 1) \in {"lf", "end"} /\ At(U, m + 1) \in {"lf", "end"}
  BY DEF SameText
<1>2. j \in 1..Len(U) /\ a + j \in 1..Len(T)
  BY <1>1
<1>3. T[a + j] = U[j]
  <2>1. At(T, a + j) = T[a + j] /\ At(U, j) = U[j]
    BY <1>2 DEF At
  <2> QED BY <1>1, <2>1
<1>4. At(T, (a + j) + 1) = "\\" <=> At(U, j + 1) = "\\"
  <2>1. CASE j = m
    <3>1. (a + j) + 1 = a + m + 1 /\ j + 1 = m + 1
      BY <1>1, <2>1
    <3> QED BY <1>1, <3>1
  <2>2. CASE j # m
    <3>1. j + 1 \in 1..m /\ (a + j) + 1 = a + (j + 1)
      BY <1>1, <2>2
    <3> QED BY <1>1, <3>1
  <2> QED BY <2>1, <2>2
<1>5. j = m => At(U, j + 1) # "\\"
  BY <1>1
<1>6. IsStop(T, a + j) <=> IsStop(U, j)
  BY <1>3, <1>4 DEF IsStop
<1>7. IsStop(U, j) /\ U[j] = "esc" => j + 1 <= m
  BY <1>1, <1>5 DEF IsStop
<1> QED BY <1>3, <1>6, <1>7

LEMMA OSCSame ==
    ASSUME NEW T \in Seq(Token), NEW U \in Seq(Token), NEW a, NEW m, SameText(T, U, a, m),
           NEW i \in 1..m, i + 2 <= m + 1
    PROVE  OSCEnd(U, i) \in 0..m /\ OSCEnd(T, a + i) = Shifted(a, OSCEnd(U, i))
<1>1. /\ a \in Nat /\ m \in Nat /\ m <= Len(U) /\ a + m <= Len(T)
      /\ At(T, a + m + 1) \in {"lf", "end"} /\ At(U, m + 1) \in {"lf", "end"}
  BY DEF SameText
<1>2. \A j \in 1..m : IsStop(T, a + j) <=> IsStop(U, j)
  BY StopSame
<1>3. PICK A : A = {j \in (i + 2)..m : IsStop(U, j)}
  OBVIOUS
<1>4. CASE A = {}
  <2>1. \A j \in (i + 2)..m : ~IsStop(U, j)
    BY <1>3, <1>4
  <2>2. OSCEnd(U, i) = 0
    <3>1. /\ m + 1 \in Nat /\ i \in Nat /\ i + 2 <= m + 1 /\ m + 1 <= Len(U) + 1
          /\ At(U, m + 1) \in {"lf", "end"}
      BY <1>1
    <3>2. \A j \in (i + 2)..((m + 1) - 1) : ~IsStop(U, j)
      BY <1>1, <2>1
    <3> QED BY <3>1, <3>2, OSCNone
  <2>3. OSCEnd(T, a + i) = 0
    <3>1. PICK k \in Nat : k = a + m + 1
      BY <1>1
    <3>2. /\ a + i \in Nat /\ (a + i) + 2 <= k /\ k <= Len(T) + 1
          /\ At(T, k) \in {"lf", "end"}
      BY <1>1, <3>1
    <3>3. ASSUME NEW j \in ((a + i) + 2)..(k - 1) PROVE ~IsStop(T, j)
      <4>1. PICK h \in (i + 2)..m : j = a + h
        <5>1. j - a \in (i + 2)..m /\ j = a + (j - a)
          BY <1>1, <3>1
        <5> QED BY <5>1
      <4>2. h \in 1..m
        BY <1>1, <4>1
      <4> QED BY <1>2, <2>1, <4>1, <4>2
    <3> QED BY <3>1, <3>2, <3>3, OSCNone
  <2> QED BY <1>1, <2>2, <2>3 DEF Shifted
<1>5. CASE A # {}
  <2>1. PICK p : p = Min(A)
    OBVIOUS
  <2>2. p \in A /\ \A j \in A : p <= j
    <3>1. A \subseteq Nat
      BY <1>3
    <3> QED BY <1>5, <2>1, <3>1, MinIn
  <2>3. p \in (i + 2)..m /\ p \in 1..m /\ IsStop(U, p) /\ U[p] \in {"bel", "lf", "esc"}
    <3>1. p \in (i + 2)..m /\ IsStop(U, p)
      BY <1>3, <2>2
    <3> QED BY <1>1, <3>1 DEF IsStop
  <2>4. \A j \in (i + 2)..(p - 1) : ~IsStop(U, j)
    BY <1>1, <1>3, <2>2, <2>3
  <2>5. OSCEnd(U, i) = OSCAfter(U[p], p)
    <3>1. i \in Nat /\ p \in (i + 2)..Len(U)
      BY <1>1, <2>3
    <3> QED BY <2>3, <2>4, <3>1, OSCFirst
  <2>6. T[a + p] = U[p] /\ IsStop(T, a + p) /\ (U[p] = "esc" => p + 1 <= m)
    BY <2>3, StopSame
  <2>7. OSCEnd(T, a + i) = OSCAfter(T[a + p], a + p)
    <3>1. a + i \in Nat /\ a + p \in ((a + i) + 2)..Len(T)
      BY <1>1, <2>3
    <3>2. ASSUME NEW j \in ((a + i) + 2)..((a + p) - 1) PROVE ~IsStop(T, j)
      <4>1. PICK h \in (i + 2)..(p - 1) : j = a + h
        <5>1. j - a \in (i + 2)..(p - 1) /\ j = a + (j - a)
          BY <1>1, <2>3
        <5> QED BY <5>1
      <4>2. h \in 1..m
        BY <1>1, <2>3, <4>1
      <4> QED BY <1>2, <2>4, <4>1, <4>2
    <3> QED BY <2>6, <3>1, <3>2, OSCFirst
  <2>8. OSCAfter(U[p], p) \in 0..m /\ OSCAfter(U[p], a + p) = Shifted(a, OSCAfter(U[p], p))
    BY <1>1, <2>3, <2>6 DEF OSCAfter, Shifted
  <2> QED BY <2>5, <2>6, <2>7, <2>8
<1> QED BY <1>4, <1>5

\* Control sequences do not reach over the end of a line.
LEMMA ControlSame ==
    ASSUME NEW T \in Seq(Token), NEW U \in Seq(Token), NEW a, NEW m, SameText(T, U, a, m),
           NEW i \in 1..m
    PROVE  ControlEnd(U, i) \in 0..m /\ ControlEnd(T, a + i) = Shifted(a, ControlEnd(U, i))
<1>1. /\ a \in Nat /\ m \in Nat /\ m <= Len(U) /\ a + m <= Len(T)
      /\ \A j \in 1..m : At(T, a + j) = At(U, j)
      /\ At(T, a + m + 1) \in {"lf", "end"} /\ At(U, m + 1) \in {"lf", "end"}
  BY DEF SameText
<1>2. At(T, a + i) = At(U, i)
  BY <1>1
<1>3. ASSUME NEW c \in {"[", "]"}
      PROVE  /\ At(T, (a + i) + 1) = c <=> At(U, i + 1) = c
             /\ At(U, i + 1) = c => i + 2 <= m + 1
  <2>1. CASE i = m
    <3>1. (a + i) + 1 = a + m + 1 /\ i + 1 = m + 1
      BY <1>1, <2>1
    <3> QED BY <1>1, <3>1
  <2>2. CASE i # m
    <3>1. i + 1 \in 1..m /\ (a + i) + 1 = a + (i + 1)
      BY <1>1, <2>2
    <3> QED BY <1>1, <3>1
  <2> QED BY <2>1, <2>2
<1>4. CASE At(U, i) = "esc" /\ At(U, i + 1) = "["
  <2>1. ControlEnd(U, i) = CSIEnd(U, i) /\ ControlEnd(T, a + i) = CSIEnd(T, a + i)
    BY <1>2, <1>3, <1>4 DEF ControlEnd
  <2>2. i + 2 <= m + 1
    BY <1>3, <1>4
  <2> QED BY <2>1, <2>2, CSISame
<1>5. CASE At(U, i) = "esc" /\ At(U, i + 1) = "]"
  <2>1. ControlEnd(U, i) = OSCEnd(U, i) /\ ControlEnd(T, a + i) = OSCEnd(T, a + i)
    BY <1>2, <1>3, <1>5 DEF ControlEnd
  <2>2. i + 2 <= m + 1
    BY <1>3, <1>5
  <2> QED BY <2>1, <2>2, OSCSame
<1>6. CASE /\ ~(At(U, i) = "esc" /\ At(U, i + 1) = "[")
           /\ ~(At(U, i) = "esc" /\ At(U, i + 1) = "]")
  <2>1. ControlEnd(U, i) = 0 /\ ControlEnd(T, a + i) = 0
    BY <1>2, <1>3, <1>6 DEF ControlEnd
  <2> QED BY <1>1, <2>1 DEF Shifted
<1> QED BY <1>4, <1>5, <1>6

\* A run over U, k characters on, and one over T that was at a with "base" put out.
Joins(s, t, base, a, k) ==
    /\ s.out = base \o t.out
    /\ s.start = Len(base) + t.start
    /\ s.next = a + t.next \/ (s.next <= a + k + 1 /\ t.next <= k + 1)

\* The k-th character of U and the one a further on in T take the same turn.
SameTurn(T, U, a, k, t) ==
    /\ T[a + k] = U[k]
    /\ ControlEnd(T, a + k) = Shifted(a, ControlEnd(U, k))
    /\ At(T, a + k + 1) = At(U, k + 1) \/ U[k] # "cr" \/ k < t.next

LEMMA StateIs ==
    ASSUME NEW s \in NormState(Token)
    PROVE  /\ s = [out |-> s.out, start |-> s.start, next |-> s.next]
           /\ s.out \in Seq(Token) /\ s.start \in Nat /\ s.next \in Nat /\ s.start <= Len(s.out)
  BY DEF NormState

\* What a turn does, by cases.
LEMMA TurnSkips ==
    ASSUME NEW text \in Seq(Token), NEW i \in 1..Len(text), NEW s \in NormState(Token), i < s.next
    PROVE  Turn(text, s, i) = s
<1>1. ~(i >= s.next)
  BY StateIs
<1> QED BY <1>1 DEF Turn

LEMMA TurnJumps ==
    ASSUME NEW text \in Seq(Token), NEW i \in 1..Len(text), NEW s \in NormState(Token),
           ~(i < s.next), ControlEnd(text, i) > 0
    PROVE  /\ Turn(text, s, i).out = s.out /\ Turn(text, s, i).start = s.start
           /\ Turn(text, s, i).next = ControlEnd(text, i) + 1
<1>1. i >= s.next
  BY StateIs
<1>2. text[i] = "esc"
  BY ControlEndAt
<1>3. Turn(text, s, i) = [s EXCEPT !.next = ControlEnd(text, i) + 1]
  BY <1>1, <1>2 DEF Turn
<1> QED BY <1>3, StateIs

LEMMA TurnBreaks ==
    ASSUME NEW text \in Seq(Token), NEW i \in 1..Len(text), NEW s \in NormState(Token),
           ~(i < s.next), text[i] = "lf" \/ (text[i] = "cr" /\ At(text, i + 1) = "lf")
    PROVE  /\ Turn(text, s, i).out = Append(s.out, "lf")
           /\ Turn(text, s, i).start = Len(s.out) + 1
           /\ Turn(text, s, i).next = IF text[i] = "lf" THEN s.next ELSE i + 2
<1>1. i >= s.next
  BY StateIs
<1>2. ~(ControlEnd(text, i) > 0)
  BY ControlEndAt
<1>3. CASE text[i] = "lf"
  <2>1. Turn(text, s, i) = [s EXCEPT !.out = Append(s.out, "lf"), !.start = Len(s.out) + 1]
    BY <1>1, <1>2, <1>3 DEF Turn
  <2> QED BY <1>3, <2>1, StateIs
<1>4. CASE text[i] = "cr" /\ At(text, i + 1) = "lf"
  <2>1. Turn(text, s, i) = [out |-> Append(s.out, "lf"), start |-> Len(s.out) + 1, next |-> i + 2]
    BY <1>1, <1>2, <1>4 DEF Turn
  <2> QED BY <1>4, <2>1
<1> QED BY <1>3, <1>4

LEMMA TurnRedraws ==
    ASSUME NEW text \in Seq(Token), NEW i \in 1..Len(text), NEW s \in NormState(Token),
           ~(i < s.next), text[i] = "cr", At(text, i + 1) # "lf"
    PROVE  /\ Turn(text, s, i).out = Prefix(s.out, s.start)
           /\ Turn(text, s, i).start = s.start /\ Turn(text, s, i).next = s.next
<1>1. i >= s.next
  BY StateIs
<1>2. ~(ControlEnd(text, i) > 0)
  BY ControlEndAt
<1>3. Turn(text, s, i) = [s EXCEPT !.out = SubSeq(s.out, 1, s.start)]
  BY <1>1, <1>2 DEF Turn
<1> QED BY <1>3, StateIs DEF Prefix

LEMMA TurnCopies ==
    ASSUME NEW text \in Seq(Token), NEW i \in 1..Len(text), NEW s \in NormState(Token),
           ~(i < s.next), ~(ControlEnd(text, i) > 0), text[i] # "cr", text[i] # "lf"
    PROVE  /\ Turn(text, s, i).out = Append(s.out, text[i])
           /\ Turn(text, s, i).start = s.start /\ Turn(text, s, i).next = s.next
<1>1. i >= s.next
  BY StateIs
<1>2. Turn(text, s, i) = [s EXCEPT !.out = Append(s.out, text[i])]
  BY <1>1 DEF Turn
<1> QED BY <1>2, StateIs

AppendedTo(b, o, c) == Append(b \o o, c) = b \o Append(o, c)

LEMMA AppendJoins ==
    ASSUME NEW C, NEW b \in Seq(C), NEW o \in Seq(C), NEW c \in C
    PROVE  AppendedTo(b, o, c)
<1>1. PICK l \in Seq(C) : l = <<c>>
  <2>1. <<c>> \in Seq(C)
    OBVIOUS
  <2> QED BY <2>1
<1>2. PICK x \in Seq(C) : x = b \o o
  BY ConcatProperties
<1>3. Append(x, c) = x \o l
  BY <1>1, <1>2, AppendIsConcat
<1>4. Append(o, c) = o \o l
  BY <1>1, AppendIsConcat
<1>5. (b \o o) \o l = b \o (o \o l)
  BY <1>1, ConcatAssociative
<1> QED BY <1>2, <1>3, <1>4, <1>5 DEF AppendedTo

\* A text cut after its first part.
LEMMA PrefixJoins ==
    ASSUME NEW C, NEW b \in Seq(C), NEW o \in Seq(C), NEW k \in 0..Len(o)
    PROVE  Prefix(b \o o, Len(b) + k) = b \o Prefix(o, k)
<1>1. PICK l \in Nat : l = Len(b)
  OBVIOUS
<1>2. PICK x \in Seq(C) : x = b \o o /\ Len(x) = l + Len(o)
                          /\ (\A i \in 1..l : x[i] = b[i]) /\ (\A i \in 1..Len(o) : x[l + i] = o[i])
  <2>1. /\ b \o o \in Seq(C) /\ Len(b \o o) = Len(b) + Len(o)
        /\ \A i \in 1..Len(b) : (b \o o)[i] = b[i]
        /\ \A i \in 1..Len(o) : (b \o o)[Len(b) + i] = o[i]
    BY Joined
  <2> QED BY <1>1, <2>1
<1>3. PICK p \in Seq(C) : p = Prefix(o, k) /\ Len(p) = k /\ \A j \in 1..k : p[j] = o[j]
  BY SuffixIs, SMTT(20)
<1>4. PICK y \in Seq(C) : y = Prefix(x, l + k) /\ Len(y) = l + k /\ \A j \in 1..(l + k) : y[j] = x[j]
  <2>1. x \in Seq(C) /\ l + k \in 0..Len(x)
    BY <1>1, <1>2
  <2> QED BY <2>1, SuffixIs
<1>5. PICK z \in Seq(C) : z = b \o p /\ Len(z) = l + k
                          /\ (\A i \in 1..l : z[i] = b[i]) /\ (\A i \in 1..k : z[l + i] = p[i])
  <2>1. p \in Seq(C) /\ Len(p) = k
    BY <1>3
  <2>2. /\ b \o p \in Seq(C) /\ Len(b \o p) = Len(b) + Len(p)
        /\ \A i \in 1..Len(b) : (b \o p)[i] = b[i]
        /\ \A i \in 1..Len(p) : (b \o p)[Len(b) + i] = p[i]
    <3>1. p \in Seq(C) /\ b \in Seq(C)
      BY <2>1
    <3> QED BY <3>1, Joined
  <2> QED BY <1>1, <2>1, <2>2
<1>6. ASSUME NEW i \in 1..(l + k) PROVE y[i] = z[i]
  <2>1. CASE i <= l
    <3>1. i \in 1..l
      BY <1>1, <2>1
    <3> QED BY <1>2, <1>4, <1>5, <3>1
  <2>2. CASE i > l
    <3>1. PICK j \in 1..k : i = l + j
      <4>1. i - l \in 1..k /\ i = l + (i - l)
        BY <1>1, <2>2
      <4> QED BY <4>1
    <3>2. j \in 1..Len(o)
      BY <3>1
    <3>3. y[i] = o[j]
      BY <1>2, <1>4, <1>6, <3>1, <3>2
    <3>4. z[i] = o[j]
      BY <1>3, <1>5, <3>1
    <3> QED BY <3>3, <3>4
  <2> QED BY <1>1, <2>1, <2>2
<1>7. y = z
  <2>1. y \in Seq(C) /\ z \in Seq(C) /\ Len(y) = Len(z) /\ \A i \in 1..Len(y) : y[i] = z[i]
    BY <1>4, <1>5, <1>6
  <2> QED BY <2>1, SeqEqual
<1> QED BY <1>1, <1>2, <1>3, <1>4, <1>5, <1>7

LEMMA TurnJoins ==
    ASSUME NEW T \in Seq(Token), NEW U \in Seq(Token), NEW a \in Nat, NEW k \in 1..Len(U),
           a + k \in 1..Len(T), NEW s \in NormState(Token), NEW t \in NormState(Token),
           SameTurn(T, U, a, k, t), NEW base \in Seq(Token), Joins(s, t, base, a, k - 1)
    PROVE  Joins(Turn(T, s, a + k), Turn(U, t, k), base, a, k)
<1>1. /\ s.out = base \o t.out /\ s.start = Len(base) + t.start
      /\ s.next = a + t.next \/ (s.next <= a + k /\ t.next <= k)
  BY DEF Joins
<1>2. /\ s.out \in Seq(Token) /\ s.start \in Nat /\ s.next \in Nat
      /\ t.out \in Seq(Token) /\ t.start \in Nat /\ t.next \in Nat /\ t.start <= Len(t.out)
      /\ Len(base) \in Nat
  BY StateIs
<1>3. T[a + k] = U[k] /\ U[k] \in Token
  BY DEF SameTurn
<1>4. PICK e \in Nat : e = ControlEnd(U, k) /\ ControlEnd(T, a + k) = Shifted(a, e)
  BY ControlEndIn DEF SameTurn
<1>5. k < t.next <=> a + k < s.next
  BY <1>1, <1>2
<1>6. s.next = a + t.next \/ (s.next <= a + k + 1 /\ t.next <= k + 1)
  <2>1. PICK n \in Nat, m \in Nat : n = s.next /\ m = t.next
    BY <1>2
  <2>2. n = a + m \/ (n <= a + k /\ m <= k)
    BY <1>1, <2>1
  <2>3. n = a + m \/ (n <= a + k + 1 /\ m <= k + 1)
    BY <2>2
  <2> QED BY <2>1, <2>3
<1>7. Len(s.out) = Len(base) + Len(t.out)
  BY <1>1, <1>2, Joined
<1>8. PICK v : v = Turn(U, t, k)
  OBVIOUS
<1>9. PICK w : w = Turn(T, s, a + k)
  OBVIOUS
<1>10. CASE k < t.next
  <2>1. v = t /\ w = s
    BY <1>5, <1>8, <1>9, <1>10, TurnSkips
  <2> QED BY <1>1, <1>6, <1>8, <1>9, <2>1 DEF Joins
<1>11. CASE ~(k < t.next) /\ e > 0
  <2>1. v.out = t.out /\ v.start = t.start /\ v.next = e + 1
    BY <1>4, <1>8, <1>11, TurnJumps
  <2>2. ControlEnd(T, a + k) = a + e /\ a + e > 0
    BY <1>4, <1>11 DEF Shifted
  <2>3. w.out = s.out /\ w.start = s.start /\ w.next = a + e + 1
    BY <1>5, <1>9, <1>11, <2>2, TurnJumps
  <2>4. w.next = a + v.next
    BY <2>1, <2>3
  <2> QED BY <1>1, <1>8, <1>9, <2>1, <2>3, <2>4 DEF Joins
<1>12. CASE ~(k < t.next) /\ ~(e > 0)
  <2>0. ~(a + k < s.next) /\ ~(ControlEnd(U, k) > 0) /\ ~(ControlEnd(T, a + k) > 0)
    BY <1>4, <1>5, <1>12 DEF Shifted
  <2>1. CASE U[k] = "lf" \/ (U[k] = "cr" /\ At(U, k + 1) = "lf")
    <3>1. T[a + k] = "lf" \/ (T[a + k] = "cr" /\ At(T, (a + k) + 1) = "lf")
      <4>1. U[k] = "cr" => At(T, a + k + 1) = At(U, k + 1)
        BY <1>12 DEF SameTurn
      <4> QED BY <1>3, <2>1, <4>1
    <3>2. /\ v.out = Append(t.out, "lf") /\ v.start = Len(t.out) + 1
          /\ v.next = IF U[k] = "lf" THEN t.next ELSE k + 2
      BY <1>8, <1>12, <2>1, TurnBreaks
    <3>3. /\ w.out = Append(s.out, "lf") /\ w.start = Len(s.out) + 1
          /\ w.next = IF T[a + k] = "lf" THEN s.next ELSE (a + k) + 2
      BY <1>9, <2>0, <3>1, TurnBreaks
    <3>4. w.out = base \o v.out
      <4>1. "lf" \in Token
        BY TokensAre
      <4>2. Append(base \o t.out, "lf") = base \o Append(t.out, "lf")
        <5>1. t.out \in Seq(Token) /\ base \in Seq(Token)
          BY <1>2
        <5>2. AppendedTo(base, t.out, "lf")
          BY <4>1, <5>1, AppendJoins
        <5> QED BY <5>2 DEF AppendedTo
      <4> QED BY <1>1, <3>2, <3>3, <4>2
    <3>5. w.start = Len(base) + v.start
      BY <1>2, <1>7, <3>2, <3>3
    <3>6. w.next = a + v.next \/ (w.next <= a + k + 1 /\ v.next <= k + 1)
      <4>1. CASE U[k] = "lf"
        BY <1>3, <1>6, <3>2, <3>3, <4>1
      <4>2. CASE U[k] # "lf"
        <5>1. v.next = k + 2 /\ w.next = (a + k) + 2
          BY <1>3, <3>2, <3>3, <4>2
        <5> QED BY <5>1
      <4> QED BY <4>1, <4>2
    <3> QED BY <1>8, <1>9, <3>4, <3>5, <3>6 DEF Joins
  <2>2. CASE U[k] = "cr" /\ At(U, k + 1) # "lf"
    <3>1. T[a + k] = "cr" /\ At(T, (a + k) + 1) # "lf"
      <4>1. At(T, a + k + 1) = At(U, k + 1)
        BY <1>12, <2>2 DEF SameTurn
      <4> QED BY <1>3, <2>2, <4>1
    <3>2. v.out = Prefix(t.out, t.start) /\ v.start = t.start /\ v.next = t.next
      BY <1>8, <1>12, <2>2, TurnRedraws
    <3>3. w.out = Prefix(s.out, s.start) /\ w.start = s.start /\ w.next = s.next
      BY <1>9, <2>0, <3>1, TurnRedraws
    <3>4. Prefix(base \o t.out, Len(base) + t.start) = base \o Prefix(t.out, t.start)
      <4>1. t.out \in Seq(Token) /\ t.start \in 0..Len(t.out)
        BY <1>2
      <4> QED BY <4>1, PrefixJoins
    <3>5. w.out = base \o v.out
      BY <1>1, <3>2, <3>3, <3>4
    <3> QED BY <1>1, <1>6, <1>8, <1>9, <3>2, <3>3, <3>5 DEF Joins
  <2>3. CASE U[k] # "lf" /\ U[k] # "cr"
    <3>1. T[a + k] # "lf" /\ T[a + k] # "cr"
      BY <1>3, <2>3
    <3>2. v.out = Append(t.out, U[k]) /\ v.start = t.start /\ v.next = t.next
      BY <1>8, <1>12, <2>0, <2>3, TurnCopies
    <3>3. w.out = Append(s.out, T[a + k]) /\ w.start = s.start /\ w.next = s.next
      BY <1>9, <2>0, <3>1, TurnCopies
    <3>4. Append(base \o t.out, U[k]) = base \o Append(t.out, U[k])
      <4>1. t.out \in Seq(Token) /\ base \in Seq(Token) /\ U[k] \in Token
        BY <1>2, <1>3
      <4>2. AppendedTo(base, t.out, U[k])
        BY <4>1, AppendJoins
      <4> QED BY <4>2 DEF AppendedTo
    <3>5. w.out = base \o v.out
      BY <1>1, <1>3, <3>2, <3>3, <3>4
    <3> QED BY <1>1, <1>6, <1>8, <1>9, <3>2, <3>3, <3>5 DEF Joins
  <2> QED BY <2>1, <2>2, <2>3
<1> QED BY <1>10, <1>11, <1>12

LEMMA RunJoins ==
    ASSUME NEW T \in Seq(Token), NEW U \in Seq(Token), NEW a, NEW m, SameText(T, U, a, m),
           NEW g, NormRun(g, Token, T), NEW h, NormRun(h, Token, U),
           g[a].start = Len(g[a].out), g[a].next <= a + 1, NEW n \in 0..m,
           n < m \/ At(T, a + m + 1) = At(U, m + 1) \/ U[m] # "cr" \/ m < h[m - 1].next
    PROVE  \A k \in 0..n : Joins(g[a + k], h[k], g[a].out, a, k)
<1>1. a \in Nat /\ m \in Nat /\ m <= Len(U) /\ a + m <= Len(T)
  BY DEF SameText
<1>2. /\ \A k \in 0..Len(T) : g[k] \in NormState(Token)
      /\ \A k \in 0..Len(U) : h[k] \in NormState(Token)
      /\ h[0] = [out |-> <<>>, start |-> 0, next |-> 1]
      /\ \A k \in 1..Len(T) : g[k] = Turn(T, g[k - 1], k)
      /\ \A k \in 1..Len(U) : h[k] = Turn(U, h[k - 1], k)
  BY DEF NormRun
<1>3. PICK base \in Seq(Token) : base = g[a].out /\ g[a].start = Len(base)
  <2>1. a \in 0..Len(T)
    BY <1>1
  <2> QED BY <1>2, <2>1, StateIs
<1> DEFINE G == {k \in Nat : k <= n => Joins(g[a + k], h[k], base, a, k)}
<1>4. 0 \in G
  <2>1. a + 0 = a /\ h[0].out = <<>> /\ h[0].start = 0 /\ h[0].next = 1
    BY <1>1, <1>2
  <2>2. base \o <<>> = base
    BY <1>3, ConcatEmptySeq
  <2>3. g[a].out = base \o h[0].out
    BY <1>3, <2>1, <2>2
  <2>4. g[a].start = Len(base) + h[0].start
    BY <1>3, <2>1
  <2>5. g[a].next <= a + 0 + 1 /\ h[0].next <= 0 + 1
    BY <1>1, <2>1
  <2>6. Joins(g[a + 0], h[0], base, a, 0)
    BY <2>1, <2>3, <2>4, <2>5 DEF Joins
  <2> QED BY <2>6
<1>5. ASSUME NEW k \in Nat, k \in G PROVE k + 1 \in G
  <2>1. CASE k + 1 <= n
    <3>1. PICK j \in 1..n : j = k + 1 /\ j - 1 = k
      BY <2>1
    <3>2. /\ j \in 1..m /\ j \in 1..Len(U) /\ a + j \in 1..Len(T)
          /\ j - 1 \in 0..Len(U) /\ a + (j - 1) \in 0..Len(T) /\ (a + j) - 1 = a + (j - 1)
      BY <1>1, <3>1
    <3>3. PICK s \in NormState(Token), t \in NormState(Token) : s = g[a + (j - 1)] /\ t = h[j - 1]
      BY <1>2, <3>2
    <3>4. Joins(s, t, base, a, j - 1)
      BY <1>5, <2>1, <3>1, <3>3
    <3>5. SameTurn(T, U, a, j, t)
      <4>1. T[a + j] = U[j]
        BY <3>2, StopSame
      <4>2. ControlEnd(T, a + j) = Shifted(a, ControlEnd(U, j))
        BY <3>2, ControlSame
      <4>3. At(T, a + j + 1) = At(U, j + 1) \/ U[j] # "cr" \/ j < t.next
        <5>1. CASE j = m
          <6>1. ~(n < m)
            BY <1>1, <3>1, <5>1
          <6> QED BY <3>3, <5>1, <6>1
        <5>2. CASE j # m
          <6>1. j + 1 \in 1..m /\ a + j + 1 = a + (j + 1)
            BY <1>1, <3>2, <5>2
          <6> QED BY <6>1 DEF SameText
        <5> QED BY <5>1, <5>2
      <4> QED BY <4>1, <4>2, <4>3 DEF SameTurn
    <3>6. Joins(Turn(T, s, a + j), Turn(U, t, j), base, a, j)
      <4>1. base \in Seq(Token) /\ s \in NormState(Token) /\ t \in NormState(Token)
        BY <1>3, <3>3
      <4> QED BY <1>1, <3>2, <3>4, <3>5, <4>1, TurnJoins
    <3>7. g[a + j] = Turn(T, s, a + j) /\ h[j] = Turn(U, t, j)
      BY <1>2, <3>2, <3>3
    <3>8. Joins(g[a + j], h[j], base, a, j)
      BY <3>6, <3>7
    <3>9. Joins(g[a + (k + 1)], h[k + 1], base, a, k + 1)
      BY <3>1, <3>8
    <3> QED BY <3>9
  <2>2. CASE ~(k + 1 <= n)
    BY <2>2
  <2> QED BY <2>1, <2>2
<1>6. \A k \in Nat : k \in G
  <2> HIDE DEF G
  <2> QED BY <1>4, <1>5, UpFromZero
<1>7. ASSUME NEW k \in 0..n PROVE Joins(g[a + k], h[k], base, a, k)
  BY <1>1, <1>6
<1> QED BY <1>3, <1>7

NoLf(w) == \A i \in 1..Len(w) : w[i] # "lf"

\* A line being put out, and one whose carriage return has ended it.
Inline(s, m) == NoLf(s.out) /\ s.start = 0 /\ s.next <= m + 1
Ended(s) == s.start = Len(s.out) /\ \E v \in Seq(Token) : NoLf(v) /\ s.out = Append(v, "lf")

LEMMA NoLfAppend ==
    ASSUME NEW w \in Seq(Token), NoLf(w), NEW c \in Token
    PROVE  /\ c # "lf" => NoLf(Append(w, c))
           /\ ~NoLf(Append(w, "lf"))
<1>1. PICK x \in Seq(Token) : x = Append(w, c) /\ Len(x) = Len(w) + 1
                              /\ (\A i \in 1..Len(w) : x[i] = w[i]) /\ x[Len(w) + 1] = c
  BY AppendProperties
<1>2. c # "lf" => NoLf(x)
  <2>1. ASSUME c # "lf", NEW i \in 1..Len(x) PROVE x[i] # "lf"
    <3>1. i \in 1..Len(w) \/ i = Len(w) + 1
      BY <1>1
    <3> QED BY <1>1, <2>1, <3>1 DEF NoLf
  <2> QED BY <2>1 DEF NoLf
<1>3. PICK y \in Seq(Token) : y = Append(w, "lf") /\ Len(y) = Len(w) + 1 /\ y[Len(w) + 1] = "lf"
  BY TokensAre, AppendProperties
<1>4. ~NoLf(y)
  <2>1. Len(w) + 1 \in 1..Len(y)
    BY <1>3
  <2> QED BY <1>3, <2>1 DEF NoLf
<1> QED BY <1>1, <1>2, <1>3, <1>4

\* The turns of a line, up to its end.
LEMMA LineRun ==
    ASSUME NEW X \in Seq(Token), NEW m \in Nat, m <= Len(X), \A j \in 1..m : X[j] # "lf",
           At(X, m + 1) \in {"lf", "end"}, NEW g, NormRun(g, Token, X)
    PROVE  \A k \in 0..m : \/ Inline(g[k], m)
                           \/ k = m /\ At(X, m + 1) = "lf" /\ Ended(g[k]) /\ g[k].next = m + 2
<1>1. /\ \A k \in 0..Len(X) : g[k] \in NormState(Token)
      /\ g[0] = [out |-> <<>>, start |-> 0, next |-> 1]
      /\ \A k \in 1..Len(X) : g[k] = Turn(X, g[k - 1], k)
  BY DEF NormRun
<1>2. SameText(X, X, 0, m)
  BY DEF SameText
<1> DEFINE Stands(k) == \/ Inline(g[k], m)
                        \/ k = m /\ At(X, m + 1) = "lf" /\ Ended(g[k]) /\ g[k].next = m + 2
           G == {k \in Nat : k <= m => Stands(k)}
<1>3. 0 \in G
  <2>1. g[0].out = <<>> /\ g[0].start = 0 /\ g[0].next = 1 /\ NoLf(<<>>)
    BY <1>1 DEF NoLf
  <2>2. Inline(g[0], m)
    BY <2>1 DEF Inline
  <2> QED BY <2>2
<1>4. ASSUME NEW k \in Nat, k \in G PROVE k + 1 \in G
  <2>1. CASE k + 1 <= m
    <3>1. PICK j \in 1..m : j = k + 1 /\ j - 1 = k
      BY <2>1
    <3>2. j \in 1..Len(X) /\ k \in 0..Len(X) /\ k # m
      BY <2>1, <3>1
    <3>3. PICK s \in NormState(Token) : s = g[k]
      BY <1>1, <3>2
    <3>4. NoLf(s.out) /\ s.start = 0 /\ s.next <= m + 1
      <4>1. Stands(k)
        BY <1>4, <2>1
      <4> QED BY <3>2, <3>3, <4>1 DEF Inline
    <3>5. s.out \in Seq(Token) /\ s.next \in Nat
      BY StateIs
    <3>6. PICK v : v = Turn(X, s, j)
      OBVIOUS
    <3>7. g[j] = v
      BY <1>1, <3>1, <3>2, <3>3, <3>6
    <3>8. Stands(j)
      <4>1. CASE j < s.next
        <5>1. v = s
          BY <3>2, <3>6, <4>1, TurnSkips
        <5>2. Inline(v, m)
          BY <3>4, <5>1 DEF Inline
        <5> QED BY <3>7, <5>2
      <4>2. CASE ~(j < s.next) /\ ControlEnd(X, j) > 0
        <5>1. ControlEnd(X, j) \in 0..m
          BY <1>2, ControlSame
        <5>2. v.out = s.out /\ v.start = s.start /\ v.next = ControlEnd(X, j) + 1
          BY <3>2, <3>6, <4>2, TurnJumps
        <5>3. Inline(v, m)
          BY <3>4, <5>1, <5>2 DEF Inline
        <5> QED BY <3>7, <5>3
      <4>3. CASE ~(j < s.next) /\ ~(ControlEnd(X, j) > 0)
        <5>1. CASE X[j] = "cr" /\ At(X, j + 1) = "lf"
          <6>1. /\ v.out = Append(s.out, "lf") /\ v.start = Len(s.out) + 1
                /\ v.next = IF X[j] = "lf" THEN s.next ELSE j + 2
            BY <3>2, <3>6, <4>3, <5>1, TurnBreaks
          <6>2. j = m
            <7>1. j # m => j + 1 \in 1..m /\ At(X, j + 1) = X[j + 1]
              BY DEF At
            <7> QED BY <5>1, <7>1
          <6>3. v.start = Len(v.out)
            BY <3>5, <6>1, TokensAre, AppendProperties
          <6>4. Ended(v)
            BY <3>4, <3>5, <6>1, <6>3 DEF Ended
          <6>5. v.next = m + 2 /\ At(X, m + 1) = "lf"
            BY <5>1, <6>1, <6>2
          <6> QED BY <3>7, <6>2, <6>4, <6>5
        <5>2. CASE X[j] = "cr" /\ At(X, j + 1) # "lf"
          <6>1. v.out = Prefix(s.out, s.start) /\ v.start = s.start /\ v.next = s.next
            BY <3>2, <3>6, <4>3, <5>2, TurnRedraws
          <6>2. Len(v.out) = 0
            <7>1. 0 \in 0..Len(s.out)
              BY <3>5
            <7>2. Len(Prefix(s.out, 0)) = 0
              BY <3>5, <7>1, SuffixIs
            <7> QED BY <3>4, <6>1, <7>2
          <6>3. Inline(v, m)
            BY <3>4, <6>1, <6>2 DEF Inline, NoLf
          <6> QED BY <3>7, <6>3
        <5>3. CASE X[j] # "cr"
          <6>1. X[j] # "lf" /\ X[j] \in Token
            BY <3>2
          <6>2. v.out = Append(s.out, X[j]) /\ v.start = s.start /\ v.next = s.next
            BY <3>2, <3>6, <4>3, <5>3, <6>1, TurnCopies
          <6>3. NoLf(v.out)
            BY <3>4, <3>5, <6>1, <6>2, NoLfAppend
          <6>4. Inline(v, m)
            BY <3>4, <6>2, <6>3 DEF Inline
          <6> QED BY <3>7, <6>4
        <5> QED BY <5>1, <5>2, <5>3
      <4> QED BY <4>1, <4>2, <4>3
    <3>9. Stands(k + 1)
      <4> HIDE DEF Stands
      <4> QED BY <3>1, <3>8
    <3>10. k + 1 \in Nat /\ (k + 1 <= m => Stands(k + 1))
      <4> HIDE DEF Stands
      <4> QED BY <3>9
    <3> QED BY <3>10
  <2>2. CASE ~(k + 1 <= m)
    BY <2>2
  <2> QED BY <2>1, <2>2
<1>5. \A k \in Nat : k \in G
  <2> HIDE DEF G
  <2> QED BY <1>3, <1>4, UpFromZero
<1> QED BY <1>5

\* The newline after a line.
LEMMA LineCloses ==
    ASSUME NEW X \in Seq(Token), NEW m \in Nat, m + 1 <= Len(X), \A j \in 1..m : X[j] # "lf",
           X[m + 1] = "lf", NEW g, NormRun(g, Token, X)
    PROVE  /\ Ended(g[m + 1]) /\ g[m + 1].next <= m + 2
           /\ NoLf(g[m].out) => g[m + 1].out = Append(g[m].out, "lf")
<1>1. /\ \A k \in 0..Len(X) : g[k] \in NormState(Token)
      /\ \A k \in 1..Len(X) : g[k] = Turn(X, g[k - 1], k)
  BY DEF NormRun
<1>2. At(X, m + 1) = "lf"
  BY DEF At
<1>3. Inline(g[m], m) \/ (Ended(g[m]) /\ g[m].next = m + 2)
  <2>1. m <= Len(X) /\ At(X, m + 1) \in {"lf", "end"} /\ m \in 0..m
    BY <1>2
  <2>2. \A k \in 0..m : \/ Inline(g[k], m)
                        \/ k = m /\ At(X, m + 1) = "lf" /\ Ended(g[k]) /\ g[k].next = m + 2
    BY <2>1, LineRun
  <2> QED BY <2>1, <2>2
<1>4. PICK k \in 1..Len(X) : k = m + 1 /\ k - 1 = m
  <2>1. m + 1 \in 1..Len(X) /\ (m + 1) - 1 = m
    OBVIOUS
  <2> QED BY <2>1
<1>5. PICK s \in NormState(Token) : s = g[m]
  <2>1. m \in 0..Len(X)
    OBVIOUS
  <2> QED BY <1>1, <2>1
<1>6. s.out \in Seq(Token) /\ s.next \in Nat
  BY <1>5, StateIs
<1>7. PICK v : v = Turn(X, s, k) /\ v = g[m + 1]
  BY <1>1, <1>4, <1>5
<1>8. CASE Inline(s, m)
  <2>1. NoLf(s.out) /\ ~(k < s.next)
    BY <1>4, <1>6, <1>8 DEF Inline
  <2>2. /\ v.out = Append(s.out, "lf") /\ v.start = Len(s.out) + 1 /\ v.next = s.next
    <3>1. X[k] = "lf" /\ s \in NormState(Token) /\ k \in 1..Len(X)
      BY <1>4, <1>5
    <3>2. /\ Turn(X, s, k).out = Append(s.out, "lf") /\ Turn(X, s, k).start = Len(s.out) + 1
          /\ Turn(X, s, k).next = IF X[k] = "lf" THEN s.next ELSE k + 2
      BY <2>1, <3>1, TurnBreaks
    <3> QED BY <1>7, <3>1, <3>2
  <2>3. v.start = Len(v.out)
    BY <1>6, <2>2, TokensAre, AppendProperties
  <2>4. Ended(v)
    BY <1>6, <2>1, <2>2, <2>3 DEF Ended
  <2>5. v.next <= m + 2
    BY <1>6, <1>8, <2>2 DEF Inline
  <2> QED BY <1>5, <1>7, <2>2, <2>4, <2>5
<1>9. CASE Ended(s) /\ s.next = m + 2
  <2>1. v = s
    <3>1. k < s.next /\ s \in NormState(Token) /\ k \in 1..Len(X)
      BY <1>4, <1>5, <1>9
    <3> QED BY <1>7, <3>1, TurnSkips
  <2>2. ~NoLf(s.out)
    <3>1. PICK w \in Seq(Token) : NoLf(w) /\ s.out = Append(w, "lf")
      BY <1>9 DEF Ended
    <3> QED BY <3>1, TokensAre, NoLfAppend
  <2>3. v.next <= m + 2
    BY <1>9, <2>1
  <2> QED BY <1>5, <1>7, <1>9, <2>1, <2>2, <2>3
<1> QED BY <1>3, <1>5, <1>8, <1>9

\* T is a text whose first line is w, and U that line with its newline.
FirstOf(T, U, w, t, m) ==
    /\ m \in Nat /\ U \in Seq(Token) /\ Len(U) = m + 1
    /\ \A j \in 1..m : U[j] # "lf" /\ U[j] = w[j]
    /\ U[m + 1] = "lf"
    /\ T \in Seq(Token) /\ Len(T) = m + 1 + Len(t)
    /\ \A j \in 1..(m + 1) : T[j] = U[j]
    /\ \A j \in 1..Len(t) : T[(m + 1) + j] = t[j]

LEMMA LineAndRest ==
    ASSUME NEW w \in Seq(Token), NoLf(w), NEW t \in Seq(Token), NEW m, m = Len(w),
           NEW U, U = Append(w, "lf"), NEW T, T = U \o t
    PROVE  FirstOf(T, U, w, t, m)
<1>1. m \in Nat /\ "lf" \in Token
  BY TokensAre
<1>2. /\ U \in Seq(Token) /\ Len(U) = m + 1 /\ U[m + 1] = "lf"
      /\ \A j \in 1..m : U[j] = w[j]
  BY <1>1, AppendProperties
<1>3. \A j \in 1..m : U[j] # "lf"
  BY <1>2 DEF NoLf
<1>4. /\ T \in Seq(Token) /\ Len(T) = Len(U) + Len(t)
      /\ (\A j \in 1..Len(U) : T[j] = U[j]) /\ (\A j \in 1..Len(t) : T[Len(U) + j] = t[j])
  <2>1. U \in Seq(Token) /\ t \in Seq(Token)
    BY <1>2
  <2> QED BY <2>1, Joined
<1> QED BY <1>1, <1>2, <1>3, <1>4 DEF FirstOf

\* What a terminal leaves of a text, its first line first.
LEMMA NormPeels ==
    ASSUME NEW w \in Seq(Token), NoLf(w), NEW t \in Seq(Token)
    PROVE  \E v \in Seq(Token) :
              /\ NoLf(v)
              /\ terminalNormalize(Append(w, "lf")) = Append(v, "lf")
              /\ terminalNormalize(Append(w, "lf") \o t) = Append(v, "lf") \o terminalNormalize(t)
<1>1. PICK m : m = Len(w)
  OBVIOUS
<1>2. PICK U : U = Append(w, "lf")
  OBVIOUS
<1>3. PICK T : T = U \o t
  OBVIOUS
<1>4. /\ m \in Nat /\ U \in Seq(Token) /\ Len(U) = m + 1
      /\ (\A j \in 1..m : U[j] # "lf" /\ U[j] = w[j])
      /\ U[m + 1] = "lf"
      /\ T \in Seq(Token) /\ Len(T) = m + 1 + Len(t)
      /\ (\A j \in 1..(m + 1) : T[j] = U[j])
      /\ (\A j \in 1..Len(t) : T[(m + 1) + j] = t[j])
  <2>1. w \in Seq(Token) /\ NoLf(w) /\ t \in Seq(Token)
    OBVIOUS
  <2>2. FirstOf(T, U, w, t, m)
    BY <1>1, <1>2, <1>3, <2>1, LineAndRest
  <2> QED BY <2>2 DEF FirstOf
<1>5. PICK g : NormRun(g, Token, T) /\ terminalNormalize(T) = g[Len(T)].out
  BY <1>4, TokensAre, NormRuns
<1>6. PICK h : NormRun(h, Token, U) /\ terminalNormalize(U) = h[Len(U)].out
  BY <1>4, TokensAre, NormRuns
<1>7. PICK r : NormRun(r, Token, t) /\ terminalNormalize(t) = r[Len(t)].out
  BY TokensAre, NormRuns
<1>8. PICK n \in Nat : n = Len(t)
  OBVIOUS
<1>9. PICK p \in Nat : p = m + 1 /\ p - 1 = m /\ p \in 1..Len(U) /\ p \in 1..Len(T) /\ p \in 0..Len(T)
  <2>1. m + 1 \in Nat /\ (m + 1) - 1 = m /\ m + 1 \in 1..Len(U) /\ m + 1 \in 1..Len(T) /\ m + 1 \in 0..Len(T)
    BY <1>4
  <2> QED BY <2>1
<1>10. /\ Ended(h[p]) /\ Ended(g[p]) /\ g[p].next <= p + 1
  <2>1. Ended(h[m + 1])
    <3>1. m + 1 <= Len(U) /\ \A j \in 1..m : U[j] # "lf"
      BY <1>4
    <3> QED BY <1>4, <1>6, <3>1, LineCloses
  <2>2. Ended(g[m + 1]) /\ g[m + 1].next <= m + 2
    <3>1. m + 1 <= Len(T) /\ (\A j \in 1..m : T[j] # "lf") /\ T[m + 1] = "lf"
      BY <1>4
    <3> QED BY <1>4, <1>5, <3>1, LineCloses
  <2> QED BY <1>4, <1>9, <2>1, <2>2
<1>11. SameText(T, U, 0, m) /\ At(T, 0 + m + 1) = At(U, m + 1)
  <2>1. ASSUME NEW j \in 1..(m + 1) PROVE At(T, 0 + j) = At(U, j) /\ At(U, j) = U[j]
    BY <1>4 DEF At
  <2>2. m + 1 \in 1..(m + 1) /\ 0 + m + 1 = 0 + (m + 1) /\ \A j \in 1..m : j \in 1..(m + 1)
    BY <1>4
  <2>3. At(T, 0 + m + 1) = "lf" /\ At(U, m + 1) = "lf"
    BY <1>4, <2>1, <2>2
  <2>4. \A j \in 1..m : At(T, 0 + j) = At(U, j)
    BY <2>1, <2>2
  <2> QED BY <1>4, <2>3, <2>4 DEF SameText
<1>12. PICK s \in NormState(Token), u \in NormState(Token) : s = g[m] /\ u = h[m]
  <2>1. m \in 0..Len(T) /\ m \in 0..Len(U)
    BY <1>4
  <2> QED BY <1>5, <1>6, <2>1 DEF NormRun
<1>13. Joins(s, u, <<>>, 0, p - 1)
  <2>1. g[0].start = Len(g[0].out) /\ g[0].next <= 0 + 1 /\ g[0].out = <<>>
    BY <1>5 DEF NormRun
  <2>2. m \in 0..m
    BY <1>4
  <2>3. \A k \in 0..m : Joins(g[0 + k], h[k], g[0].out, 0, k)
    BY <1>4, <1>5, <1>6, <1>11, <2>1, <2>2, RunJoins, ZenonT(30)
  <2>4. Joins(g[0 + m], h[m], g[0].out, 0, m) /\ 0 + m = m
    BY <1>4, <2>2, <2>3
  <2> QED BY <1>9, <1>12, <2>1, <2>4
<1>14. g[p].out = h[p].out
  <2>1. T[0 + p] = U[p] /\ U[p] = "lf" /\ T[p] = "lf"
    BY <1>4, <1>9
  <2>2. ControlEnd(U, p) = 0 /\ ControlEnd(T, 0 + p) = 0
    <3>1. ~(ControlEnd(U, p) > 0) /\ ~(ControlEnd(T, p) > 0)
      BY <1>4, <1>9, <2>1, ControlEndAt
    <3>2. ControlEnd(U, p) \in Nat /\ ControlEnd(T, p) \in Nat
      BY <1>4, <1>9, ControlEndIn
    <3> QED BY <1>9, <3>1, <3>2
  <2>3. SameTurn(T, U, 0, p, u)
    BY <2>1, <2>2 DEF SameTurn, Shifted
  <2>4. /\ p \in 1..Len(U) /\ 0 + p \in 1..Len(T) /\ 0 \in Nat /\ <<>> \in Seq(Token)
        /\ s \in NormState(Token) /\ u \in NormState(Token)
    BY <1>9, <1>12
  <2>5. Joins(Turn(T, s, 0 + p), Turn(U, u, p), <<>>, 0, p)
    BY <1>4, <1>13, <2>3, <2>4, TurnJoins
  <2>6. g[p] = Turn(T, s, 0 + p) /\ h[p] = Turn(U, u, p)
    BY <1>5, <1>6, <1>9, <1>12 DEF NormRun
  <2>7. g[p].out = <<>> \o h[p].out
    BY <2>5, <2>6 DEF Joins
  <2>8. h[p].out \in Seq(Token)
    <3>1. p \in 0..Len(U)
      BY <1>9
    <3> QED BY <1>6, <3>1, StateIs DEF NormRun
  <2> QED BY <2>7, <2>8, ConcatEmptySeq
<1>15. PICK v \in Seq(Token) : NoLf(v) /\ h[p].out = Append(v, "lf")
  BY <1>10 DEF Ended
<1>16. g[p].start = Len(g[p].out)
  BY <1>10 DEF Ended
<1>17. SameText(T, t, p, n) /\ At(T, p + n + 1) = At(t, n + 1)
  <2>1. \A j \in 1..n : At(T, p + j) = At(t, j)
    <3>1. ASSUME NEW j \in 1..n PROVE At(T, p + j) = At(t, j)
      <4>1. p + j \in 1..Len(T) /\ j \in 1..Len(t) /\ T[p + j] = t[j]
        BY <1>4, <1>8, <1>9
      <4> QED BY <4>1 DEF At
    <3> QED BY <3>1
  <2>2. At(T, p + n + 1) = "end" /\ At(t, n + 1) = "end"
    <3>1. p + n + 1 \notin 1..Len(T) /\ n + 1 \notin 1..Len(t)
      BY <1>4, <1>8, <1>9
    <3> QED BY <3>1 DEF At
  <2>3. n <= Len(t) /\ p + n <= Len(T)
    BY <1>4, <1>8, <1>9
  <2> QED BY <2>1, <2>2, <2>3 DEF SameText
<1>18. g[p + n].out = g[p].out \o r[n].out
  <2>1. n \in 0..n
    OBVIOUS
  <2>2. \A k \in 0..n : Joins(g[p + k], r[k], g[p].out, p, k)
    BY <1>4, <1>5, <1>7, <1>10, <1>16, <1>17, <2>1, RunJoins, ZenonT(30)
  <2> QED BY <2>1, <2>2 DEF Joins
<1>19. p + n = Len(T)
  BY <1>4, <1>8, <1>9
<1>20. terminalNormalize(T) = Append(v, "lf") \o terminalNormalize(t)
  BY <1>5, <1>7, <1>8, <1>14, <1>15, <1>18, <1>19
<1>21. terminalNormalize(U) = Append(v, "lf")
  BY <1>4, <1>6, <1>9, <1>15
<1> QED BY <1>2, <1>3, <1>15, <1>20, <1>21

\* What it leaves of a line that does not end, and of the same line ended.
LEMMA NormAlone ==
    ASSUME NEW w \in Seq(Token), NoLf(w)
    PROVE  /\ NoLf(terminalNormalize(w))
           /\ \/ terminalNormalize(w) = <<>>
              \/ terminalNormalize(Append(w, "lf")) = Append(terminalNormalize(w), "lf")
<1>1. PICK m \in Nat : m = Len(w)
  OBVIOUS
<1>2. PICK U : U = Append(w, "lf")
  OBVIOUS
<1>3. /\ U \in Seq(Token) /\ Len(U) = m + 1
      /\ (\A j \in 1..m : U[j] # "lf" /\ U[j] = w[j] /\ w[j] # "lf")
      /\ U[m + 1] = "lf"
  <2>1. /\ U \in Seq(Token) /\ Len(U) = m + 1 /\ U[m + 1] = "lf"
        /\ (\A j \in 1..m : U[j] = w[j])
    BY <1>1, <1>2, TokensAre, AppendProperties
  <2> QED BY <1>1, <2>1 DEF NoLf
<1>4. PICK g : NormRun(g, Token, U) /\ terminalNormalize(U) = g[Len(U)].out
  BY <1>3, TokensAre, NormRuns
<1>5. PICK h : NormRun(h, Token, w) /\ terminalNormalize(w) = h[Len(w)].out
  BY TokensAre, NormRuns
<1>6. At(w, m + 1) = "end" /\ At(U, m + 1) = "lf"
  BY <1>1, <1>3 DEF At
<1>7. \A k \in 0..m : Inline(h[k], m)
  <2>1. m <= Len(w) /\ (\A j \in 1..m : w[j] # "lf") /\ At(w, m + 1) \in {"lf", "end"}
    BY <1>1, <1>3, <1>6
  <2>2. \A k \in 0..m : \/ Inline(h[k], m)
                        \/ k = m /\ At(w, m + 1) = "lf" /\ Ended(h[k]) /\ h[k].next = m + 2
    BY <1>1, <1>5, <2>1, LineRun
  <2> QED BY <1>6, <2>2
<1>8. NoLf(h[m].out)
  BY <1>1, <1>7 DEF Inline
<1>9. SameText(U, w, 0, m)
  <2>1. \A j \in 1..m : At(U, 0 + j) = At(w, j)
    BY <1>1, <1>3 DEF At
  <2>2. 0 + m + 1 = m + 1 /\ m <= Len(w) /\ 0 + m <= Len(U)
    BY <1>1, <1>3
  <2> QED BY <1>1, <1>6, <2>1, <2>2 DEF SameText
<1>10. CASE m = 0 \/ w[m] # "cr" \/ m < h[m - 1].next
  <2>1. g[0].start = Len(g[0].out) /\ g[0].next <= 0 + 1 /\ g[0].out = <<>>
        /\ h[0].out = <<>>
    BY <1>4, <1>5 DEF NormRun
  <2>2. g[m].out = h[m].out
    <3>1. CASE m = 0
      BY <2>1, <3>1
    <3>2. CASE m # 0
      <4>1. m \in 0..m /\ 0 + m = m
        BY <1>1
      <4>2. w[m] # "cr" \/ m < h[m - 1].next
        BY <1>10, <3>2
      <4>3. \A k \in 0..m : Joins(g[0 + k], h[k], g[0].out, 0, k)
        BY <1>3, <1>4, <1>5, <1>9, <2>1, <4>1, <4>2, RunJoins
      <4>4. g[m].out = <<>> \o h[m].out
        <5>1. Joins(g[0 + m], h[m], g[0].out, 0, m)
          BY <4>1, <4>3
        <5> QED BY <2>1, <4>1, <5>1 DEF Joins
      <4>5. h[m].out \in Seq(Token)
        <5>1. m \in 0..Len(w)
          BY <1>1
        <5> QED BY <1>5, <5>1, StateIs DEF NormRun
      <4> QED BY <4>4, <4>5, ConcatEmptySeq
    <3> QED BY <3>1, <3>2
  <2>3. g[m + 1].out = Append(g[m].out, "lf")
    <3>1. m + 1 <= Len(U) /\ (\A j \in 1..m : U[j] # "lf") /\ NoLf(g[m].out)
      BY <1>3, <1>8, <2>2
    <3> QED BY <1>1, <1>3, <1>4, <3>1, LineCloses
  <2> QED BY <1>1, <1>2, <1>3, <1>4, <1>5, <1>8, <2>2, <2>3
<1>11. CASE m # 0 /\ w[m] = "cr" /\ ~(m < h[m - 1].next)
  <2>1. m \in 1..Len(w) /\ m - 1 \in 0..m /\ m - 1 \in 0..Len(w)
    BY <1>1, <1>11
  <2>2. PICK s \in NormState(Token) : s = h[m - 1]
    BY <1>5, <2>1 DEF NormRun
  <2>3. s.start = 0 /\ s.out \in Seq(Token)
    BY <1>7, <2>1, <2>2, StateIs DEF Inline
  <2>4. h[m] = Turn(w, s, m)
    BY <1>5, <2>1, <2>2 DEF NormRun
  <2>5. Turn(w, s, m).out = Prefix(s.out, s.start)
    <3>1. s \in NormState(Token) /\ ~(m < s.next) /\ At(w, m + 1) # "lf"
      BY <1>6, <1>11, <2>2
    <3> QED BY <1>11, <2>1, <3>1, TurnRedraws
  <2>6. Prefix(s.out, 0) = <<>>
    <3>1. SubSeq(s.out, 1, 0) = <<>>
      BY SubSeqEmpty
    <3> QED BY <3>1 DEF Prefix
  <2>7. h[m].out = <<>>
    BY <2>3, <2>4, <2>5, <2>6
  <2> QED BY <1>1, <1>5, <1>8, <2>7
<1> QED BY <1>10, <1>11

-----------------------------------------------------------------------------
(* The lines of a text, and of what a terminal leaves of it.               *)

\* A text is one line, or a line that ends and what is after it.
LEMMA FirstLine ==
    ASSUME NEW text \in Seq(Token), ~NoLf(text)
    PROVE  \E w \in Seq(Token), t \in Seq(Token) :
              NoLf(w) /\ text = Append(w, "lf") \o t /\ Len(t) < Len(text)
<1>1. PICK n \in Nat : n = Len(text)
  OBVIOUS
<1>2. PICK S : S = {i \in 1..n : text[i] = "lf"}
  OBVIOUS
<1>3. S \subseteq Nat /\ S # {}
  BY <1>1, <1>2 DEF NoLf
<1>4. PICK k : k = Min(S)
  OBVIOUS
<1>5. k \in S /\ \A i \in S : k <= i
  BY <1>3, <1>4, MinIn
<1>6. k \in 1..n /\ text[k] = "lf"
  BY <1>2, <1>5
<1>7. PICK m \in 0..n : m = k - 1 /\ m + 1 = k
  <2>1. k - 1 \in 0..n /\ (k - 1) + 1 = k
    BY <1>1, <1>6
  <2> QED BY <2>1
<1>8. PICK w \in Seq(Token) : w = Prefix(text, m) /\ Len(w) = m /\ \A j \in 1..m : w[j] = text[j]
  BY <1>1, <1>7, SuffixIs
<1>9. NoLf(w)
  <2>1. ASSUME NEW j \in 1..m PROVE text[j] # "lf"
    <3>1. j \in 1..n /\ ~(k <= j)
      BY <1>1, <1>6, <1>7
    <3> QED BY <1>2, <1>5, <3>1
  <2> QED BY <1>8, <2>1 DEF NoLf
<1>10. PICK t \in Seq(Token) : t = SubSeq(text, k + 1, n) /\ text = Prefix(text, k) \o t
  <2>1. k \in 0..Len(text)
    BY <1>1, <1>6
  <2>2. /\ SubSeq(text, k + 1, Len(text)) \in Seq(Token)
        /\ text = Prefix(text, k) \o SubSeq(text, k + 1, Len(text))
    BY <2>1, PartsOfText
  <2> QED BY <1>1, <2>2
<1>11. Prefix(text, k) = Append(w, "lf")
  <2>1. PICK p \in Seq(Token) : p = Prefix(text, k) /\ Len(p) = k /\ \A j \in 1..k : p[j] = text[j]
    <3>1. k \in 0..Len(text)
      BY <1>1, <1>6
    <3> QED BY <3>1, SuffixIs
  <2>2. PICK q \in Seq(Token) : q = Append(w, "lf") /\ Len(q) = m + 1 /\ q[m + 1] = "lf"
                                /\ \A j \in 1..m : q[j] = w[j]
    <3>1. w \in Seq(Token) /\ "lf" \in Token
      BY <1>8, TokensAre
    <3>2. /\ Append(w, "lf") \in Seq(Token) /\ Len(Append(w, "lf")) = Len(w) + 1
          /\ Append(w, "lf")[Len(w) + 1] = "lf" /\ \A j \in 1..Len(w) : Append(w, "lf")[j] = w[j]
      BY <3>1, AppendProperties
    <3> QED BY <1>8, <3>2
  <2>3. ASSUME NEW j \in 1..k PROVE p[j] = q[j]
    <3>1. CASE j = k
      BY <1>6, <1>7, <2>1, <2>2, <3>1
    <3>2. CASE j # k
      <4>1. j \in 1..m
        BY <1>6, <1>7, <3>2
      <4> QED BY <1>8, <2>1, <2>2, <4>1
    <3> QED BY <3>1, <3>2
  <2>4. p \in Seq(Token) /\ q \in Seq(Token) /\ Len(p) = Len(q) /\ \A j \in 1..Len(p) : p[j] = q[j]
    BY <1>7, <2>1, <2>2, <2>3
  <2>5. p = q
    BY <2>4, SeqEqual
  <2> QED BY <2>1, <2>2, <2>5
<1>12. Len(t) < Len(text)
  BY <1>1, <1>6, <1>10
<1> QED BY <1>9, <1>10, <1>11, <1>12

\* Lines after a first one.
Led(w, ls) == <<w>> \o ls

LedBy(x, w, ls, n) == Len(x) = n + 1 /\ x[1] = w /\ \A i \in 1..n : x[i + 1] = ls[i]

LEMMA LedIs ==
    ASSUME NEW L, NEW w \in L, NEW ls \in Seq(L), NEW n \in Nat, n = Len(ls)
    PROVE  Led(w, ls) \in Seq(L) /\ LedBy(Led(w, ls), w, ls, n)
<1>1. PICK s \in Seq(L) : s = <<w>> /\ Len(s) = 1 /\ s[1] = w
  <2>1. <<w>> \in Seq(L)
    OBVIOUS
  <2> QED BY <2>1
<1>2. /\ s \o ls \in Seq(L) /\ Len(s \o ls) = Len(s) + Len(ls)
      /\ \A i \in 1..Len(s) : (s \o ls)[i] = s[i]
      /\ \A i \in 1..Len(ls) : (s \o ls)[Len(s) + i] = ls[i]
  <2>1. s \in Seq(L) /\ ls \in Seq(L)
    BY <1>1
  <2> QED BY <2>1, Joined
<1>3. PICK x \in Seq(L) : x = Led(w, ls) /\ x = s \o ls
  BY <1>1, <1>2 DEF Led
<1>4. Len(x) = Len(ls) + 1 /\ x[1] = w
  BY <1>1, <1>2, <1>3
<1>5. ASSUME NEW i \in 1..Len(ls) PROVE x[i + 1] = ls[i]
  <2>1. i + 1 = Len(s) + i
    BY <1>1
  <2> QED BY <1>2, <1>3, <2>1
<1>6. LedBy(x, w, ls, n)
  BY <1>4, <1>5 DEF LedBy
<1> QED BY <1>3, <1>6

\* Characters that are no newlines stay on one line.
LEMMA SplitRunAlone ==
    ASSUME NEW T \in Seq(Token), NEW m \in 0..Len(T), \A j \in 1..m : T[j] # "lf",
           NEW g, SplitRun(g, Token, T)
    PROVE  \A k \in 0..m : g[k] = <<Prefix(T, k)>>
<1> DEFINE Alone(k) == k <= m => g[k] = <<Prefix(T, k)>>
           G == {k \in Nat : Alone(k)}
<1>1. g[0] = << <<>> >> /\ \A k \in 1..Len(T) : g[k] = SplitStep(g[k - 1], T[k])
  BY DEF SplitRun
<1>2. 0 \in G
  <2>1. Prefix(T, 0) = <<>>
    <3>1. SubSeq(T, 1, 0) = <<>>
      BY SubSeqEmpty
    <3> QED BY <3>1 DEF Prefix
  <2>2. Alone(0)
    BY <1>1, <2>1
  <2> QED BY <2>2
<1>3. ASSUME NEW k \in Nat, k \in G PROVE k + 1 \in G
  <2>1. CASE k + 1 <= m
    <3>1. PICK j \in 1..Len(T) : j = k + 1 /\ j - 1 = k /\ j \in 1..m /\ k \in 0..Len(T)
      <4>1. k + 1 \in 1..Len(T) /\ (k + 1) - 1 = k /\ k + 1 \in 1..m /\ k \in 0..Len(T)
        BY <2>1
      <4> QED BY <4>1
    <3>2. PICK p \in Seq(Token) : p = Prefix(T, k) /\ Len(p) = k /\ \A i \in 1..k : p[i] = T[i]
      BY <3>1, SuffixIs
    <3>3. g[k] = <<p>>
      BY <1>3, <2>1, <3>2
    <3>4. T[j] # "lf" /\ T[j] \in Token
      BY <3>1
    <3>5. g[j] = Append(Front(<<p>>), Append(Last(<<p>>), T[j]))
      BY <1>1, <3>1, <3>3, <3>4 DEF SplitStep
    <3>6. Front(<<p>>) = <<>> /\ Last(<<p>>) = p
      <4>1. Len(<<p>>) = 1 /\ <<p>>[1] = p /\ SubSeq(<<p>>, 1, 0) = <<>>
        BY SubSeqEmpty
      <4> QED BY <4>1 DEF Front, Last
    <3>7. Append(p, T[j]) = Prefix(T, j)
      <4>1. PICK q \in Seq(Token) : q = Prefix(T, j) /\ Len(q) = j /\ \A i \in 1..j : q[i] = T[i]
        <5>1. j \in 0..Len(T)
          BY <3>1
        <5> QED BY <5>1, SuffixIs
      <4>2. PICK r \in Seq(Token) : r = Append(p, T[j]) /\ Len(r) = k + 1 /\ r[k + 1] = T[j]
                                    /\ \A i \in 1..k : r[i] = p[i]
        <5>1. p \in Seq(Token) /\ T[j] \in Token
          BY <3>2, <3>4
        <5>2. /\ Append(p, T[j]) \in Seq(Token) /\ Len(Append(p, T[j])) = Len(p) + 1
              /\ Append(p, T[j])[Len(p) + 1] = T[j]
              /\ \A i \in 1..Len(p) : Append(p, T[j])[i] = p[i]
          BY <5>1, AppendProperties
        <5> QED BY <3>2, <5>2
      <4>3. ASSUME NEW i \in 1..j PROVE q[i] = r[i]
        <5>1. CASE i = j
          BY <3>1, <4>1, <4>2, <5>1
        <5>2. CASE i # j
          <6>1. i \in 1..k
            BY <3>1, <5>2
          <6> QED BY <3>2, <4>1, <4>2, <6>1
        <5> QED BY <5>1, <5>2
      <4>4. q \in Seq(Token) /\ r \in Seq(Token) /\ Len(q) = Len(r) /\ \A i \in 1..Len(q) : q[i] = r[i]
        BY <3>1, <4>1, <4>2, <4>3
      <4>5. q = r
        BY <4>4, SeqEqual
      <4> QED BY <4>1, <4>2, <4>5
    <3>8. g[j] = <<Prefix(T, j)>>
      <4>1. PICK q : q = Prefix(T, j)
        OBVIOUS
      <4>2. g[j] = Append(<<>>, q)
        BY <3>5, <3>6, <3>7, <4>1
      <4>3. Append(<<>>, q) = <<q>>
        OBVIOUS
      <4> QED BY <4>1, <4>2, <4>3
    <3>9. Alone(k + 1)
      BY <3>1, <3>8
    <3> QED BY <3>9
  <2>2. CASE ~(k + 1 <= m)
    BY <2>2
  <2> QED BY <2>1, <2>2
<1>4. \A k \in Nat : k \in G
  <2> HIDE DEF G
  <2> QED BY <1>2, <1>3, UpFromZero
<1> QED BY <1>4

LEMMA PrefixAll ==
    ASSUME NEW C, NEW w \in Seq(C)
    PROVE  Prefix(w, Len(w)) = w
<1>1. PICK p \in Seq(C) : p = Prefix(w, Len(w)) /\ Len(p) = Len(w) /\ \A j \in 1..Len(w) : p[j] = w[j]
  BY SuffixIs
<1>2. p = w
  BY <1>1, SeqEqual
<1> QED BY <1>1, <1>2

LEMMA SplitAlone ==
    ASSUME NEW w \in Seq(Token), NoLf(w)
    PROVE  Split(w) = <<w>>
<1>1. PICK g : SplitRun(g, Token, w) /\ Split(w) = g[Len(w)]
  BY SplitRuns
<1>2. PICK m \in 0..Len(w) : m = Len(w)
  <2>1. Len(w) \in 0..Len(w)
    OBVIOUS
  <2> QED BY <2>1
<1>3. \A j \in 1..m : w[j] # "lf"
  BY <1>2 DEF NoLf
<1>4. \A k \in 0..m : g[k] = <<Prefix(w, k)>>
  BY <1>1, <1>3, SplitRunAlone
<1>5. m \in 0..m
  BY <1>2
<1> QED BY <1>1, <1>2, <1>4, <1>5, PrefixAll

\* A line put before lines stays before them.
LEMMA SplitStepLed ==
    ASSUME NEW w \in Seq(Token), NEW ls \in Seq(Seq(Token)) \ {<<>>}, NEW c \in Token
    PROVE  SplitStep(Led(w, ls), c) = Led(w, SplitStep(ls, c))
<1>1. PICK L : L = Seq(Token)
  OBVIOUS
<1>2. ls \in Seq(L) /\ w \in L /\ <<>> \in L
  BY <1>1
<1>3. PICK n \in Nat : n = Len(ls) /\ n # 0
  BY <1>2
<1>4. PICK x \in Seq(L) : x = Led(w, ls) /\ Len(x) = n + 1 /\ x[1] = w
                          /\ \A i \in 1..n : x[i + 1] = ls[i]
  <2>1. w \in L /\ ls \in Seq(L) /\ n \in Nat /\ n = Len(ls)
    BY <1>2, <1>3
  <2>2. Led(w, ls) \in Seq(L) /\ LedBy(Led(w, ls), w, ls, n)
    BY <2>1, LedIs
  <2> QED BY <2>2 DEF LedBy
<1>5. PICK y \in Seq(L) : y = SplitStep(ls, c)
  BY <1>1, SplitStepIs
<1>6. PICK z \in Seq(L) : z = SplitStep(x, c)
  <2>1. x \in Seq(Seq(Token)) \ {<<>>}
    BY <1>1, <1>3, <1>4
  <2> QED BY <1>1, <2>1, SplitStepIs
<1>7. PICK u \in Seq(L) : u = Led(w, y) /\ Len(u) = Len(y) + 1 /\ u[1] = w
                          /\ \A i \in 1..Len(y) : u[i + 1] = y[i]
  <2>1. PICK m \in Nat : m = Len(y)
    BY <1>5
  <2>2. w \in L /\ y \in Seq(L) /\ m \in Nat
    BY <1>2, <1>5, <2>1
  <2>3. Led(w, y) \in Seq(L) /\ LedBy(Led(w, y), w, y, m)
    BY <2>1, <2>2, LedIs
  <2> QED BY <2>1, <2>3 DEF LedBy
<1>8. CASE c = "lf"
  <2>1. y = Append(ls, <<>>) /\ z = Append(x, <<>>)
    BY <1>5, <1>6, <1>8 DEF SplitStep
  <2>2. Len(y) = n + 1 /\ y[n + 1] = <<>> /\ \A i \in 1..n : y[i] = ls[i]
    <3>1. ls \in Seq(L) /\ <<>> \in L /\ n \in Nat /\ n = Len(ls)
      BY <1>2, <1>3
    <3>2. OneLonger(Append(ls, <<>>), ls, <<>>, n)
      BY <3>1, Appended
    <3> QED BY <2>1, <3>2 DEF OneLonger
  <2>3. Len(z) = n + 2 /\ z[n + 2] = <<>> /\ \A i \in 1..(n + 1) : z[i] = x[i]
    <3>1. x \in Seq(L) /\ <<>> \in L /\ n + 1 \in Nat /\ n + 1 = Len(x)
      BY <1>2, <1>3, <1>4
    <3>2. OneLonger(Append(x, <<>>), x, <<>>, n + 1)
      BY <3>1, Appended
    <3>3. (n + 1) + 1 = n + 2
      BY <1>3
    <3> QED BY <2>1, <3>2, <3>3 DEF OneLonger
  <2>4. ASSUME NEW i \in 1..(n + 2) PROVE z[i] = u[i]
    <3>1. CASE i = 1
      BY <1>3, <1>4, <1>7, <2>3, <3>1
    <3>2. CASE i = n + 2
      <4>1. PICK j \in 1..Len(y) : j = n + 1 /\ i = j + 1
        <5>1. n + 1 \in 1..Len(y) /\ i = (n + 1) + 1
          BY <1>3, <2>2, <3>2
        <5> QED BY <5>1
      <4>2. u[i] = y[j]
        BY <1>7, <4>1
      <4> QED BY <2>2, <2>3, <3>2, <4>1, <4>2
    <3>3. CASE i # 1 /\ i # n + 2
      <4>1. PICK j \in 1..n : i = j + 1 /\ i \in 1..(n + 1)
        <5>1. i - 1 \in 1..n /\ i = (i - 1) + 1 /\ i \in 1..(n + 1)
          BY <1>3, <3>3
        <5> QED BY <5>1
      <4>2. z[i] = ls[j]
        BY <1>4, <2>3, <4>1
      <4>3. j \in 1..Len(y)
        BY <1>3, <2>2, <4>1
      <4>4. u[i] = ls[j]
        BY <1>7, <2>2, <4>1, <4>3
      <4> QED BY <4>2, <4>4
    <3> QED BY <3>1, <3>2, <3>3
  <2>5. z \in Seq(L) /\ u \in Seq(L) /\ Len(z) = Len(u) /\ \A i \in 1..Len(z) : z[i] = u[i]
    BY <1>3, <1>6, <1>7, <2>2, <2>3, <2>4
  <2>6. z = u
    BY <2>5, SeqEqual
  <2> QED BY <1>4, <1>5, <1>6, <1>7, <2>6
<1>9. CASE c # "lf"
  <2>1. PICK q : q = Append(ls[n], c) /\ q \in L
    <3>1. n \in 1..Len(ls)
      BY <1>3
    <3>2. ls[n] \in L
      BY <1>2, <3>1
    <3>3. Append(ls[n], c) \in L
      BY <1>1, <3>2, AppendProperties
    <3> QED BY <3>3
  <2>2. y = Append(Front(ls), Append(Last(ls), c)) /\ z = Append(Front(x), Append(Last(x), c))
    BY <1>5, <1>6, <1>9 DEF SplitStep
  <2>3. Last(ls) = ls[n] /\ Last(x) = ls[n]
    <3>1. n \in 1..n
      BY <1>3
    <3> QED BY <1>3, <1>4, <3>1 DEF Last
  <2>4. PICK a \in Seq(L) : a = Front(ls) /\ Len(a) = n - 1 /\ \A i \in 1..(n - 1) : a[i] = ls[i]
    <3>1. n - 1 \in 0..Len(ls)
      BY <1>3
    <3>2. PICK a \in Seq(L) : a = Prefix(ls, n - 1) /\ Len(a) = n - 1 /\ \A i \in 1..(n - 1) : a[i] = ls[i]
      BY <1>2, <3>1, SuffixIs, SMTT(20)
    <3> QED BY <1>3, <3>2 DEF Front, Prefix
  <2>5. PICK b \in Seq(L) : b = Front(x) /\ Len(b) = n /\ \A i \in 1..n : b[i] = x[i]
    <3>1. n \in 0..Len(x)
      BY <1>3, <1>4
    <3>2. PICK b \in Seq(L) : b = Prefix(x, n) /\ Len(b) = n /\ \A i \in 1..n : b[i] = x[i]
      <4>1. x \in Seq(L)
        BY <1>4
      <4> QED BY <3>1, <4>1, SuffixIs
    <3>3. Len(x) - 1 = n
      BY <1>3, <1>4
    <3> QED BY <3>2, <3>3 DEF Front, Prefix
  <2>6. y = Append(a, q) /\ z = Append(b, q)
    BY <2>1, <2>2, <2>3, <2>4, <2>5
  <2>7. Len(y) = n /\ y[n] = q /\ \A i \in 1..(n - 1) : y[i] = ls[i]
    <3>1. PICK m \in Nat : m = n - 1 /\ m + 1 = n
      <4>1. n - 1 \in Nat /\ (n - 1) + 1 = n
        BY <1>3
      <4> QED BY <4>1
    <3>2. a \in Seq(L) /\ q \in L /\ m \in Nat /\ m = Len(a)
      BY <2>1, <2>4, <3>1
    <3>3. OneLonger(Append(a, q), a, q, m)
      BY <3>2, Appended
    <3> QED BY <2>4, <2>6, <3>1, <3>3 DEF OneLonger
  <2>8. Len(z) = n + 1 /\ z[n + 1] = q /\ \A i \in 1..n : z[i] = x[i]
    <3>1. b \in Seq(L) /\ q \in L /\ n \in Nat /\ n = Len(b)
      BY <1>3, <2>1, <2>5
    <3>2. OneLonger(Append(b, q), b, q, n)
      BY <3>1, Appended
    <3> QED BY <2>5, <2>6, <3>2 DEF OneLonger
  <2>9. ASSUME NEW i \in 1..(n + 1) PROVE z[i] = u[i]
    <3>1. CASE i = 1
      <4>1. i \in 1..n
        BY <1>3, <3>1
      <4> QED BY <1>4, <1>7, <2>8, <3>1, <4>1
    <3>2. CASE i # 1
      <4>1. PICK j \in 1..n : i = j + 1
        <5>1. i - 1 \in 1..n /\ i = (i - 1) + 1
          BY <1>3, <3>2
        <5> QED BY <5>1
      <4>2. u[i] = y[j]
        <5>1. j \in 1..Len(y)
          BY <2>7, <4>1
        <5> QED BY <1>7, <4>1, <5>1
      <4>3. CASE j = n
        BY <2>7, <2>8, <4>1, <4>2, <4>3
      <4>4. CASE j # n
        <5>1. j \in 1..(n - 1) /\ i \in 1..n
          BY <1>3, <4>1, <4>4
        <5> QED BY <1>4, <2>7, <2>8, <4>1, <4>2, <5>1
      <4> QED BY <4>3, <4>4
    <3> QED BY <3>1, <3>2
  <2>10. z \in Seq(L) /\ u \in Seq(L) /\ Len(z) = Len(u) /\ \A i \in 1..Len(z) : z[i] = u[i]
    BY <1>3, <1>6, <1>7, <2>7, <2>8, <2>9
  <2>11. z = u
    BY <2>10, SeqEqual
  <2> QED BY <1>4, <1>5, <1>6, <1>7, <2>11
<1> QED BY <1>8, <1>9

\* The lines of a text are its first line and those of the rest.
LEMMA SplitPeels ==
    ASSUME NEW w \in Seq(Token), NoLf(w), NEW t \in Seq(Token)
    PROVE  Split(Append(w, "lf") \o t) = Led(w, Split(t))
<1>1. PICK m : m = Len(w)
  OBVIOUS
<1>2. PICK U : U = Append(w, "lf")
  OBVIOUS
<1>3. PICK T : T = U \o t
  OBVIOUS
<1>4. FirstOf(T, U, w, t, m)
  <2>1. w \in Seq(Token) /\ NoLf(w) /\ t \in Seq(Token)
    OBVIOUS
  <2> QED BY <1>1, <1>2, <1>3, <2>1, LineAndRest
<1>5. /\ m \in Nat /\ T \in Seq(Token) /\ Len(T) = m + 1 + Len(t)
      /\ (\A j \in 1..m : T[j] = w[j] /\ T[j] # "lf") /\ T[m + 1] = "lf"
      /\ (\A j \in 1..Len(t) : T[(m + 1) + j] = t[j])
  <2>1. m \in Nat /\ (\A j \in 1..m : j \in 1..(m + 1)) /\ m + 1 \in 1..(m + 1)
    BY <1>1
  <2> QED BY <1>4, <2>1 DEF FirstOf
<1>6. PICK g : SplitRun(g, Token, T) /\ Split(T) = g[Len(T)]
  BY <1>5, SplitRuns
<1>7. PICK h : SplitRun(h, Token, t) /\ Split(t) = h[Len(t)]
  BY SplitRuns
<1>8. g[m] = <<w>>
  <2>1. m \in 0..Len(T) /\ m \in 0..m
    BY <1>5
  <2>2. \A k \in 0..m : g[k] = <<Prefix(T, k)>>
    BY <1>5, <1>6, <2>1, SplitRunAlone
  <2>3. PICK p \in Seq(Token) : p = Prefix(T, m) /\ Len(p) = m /\ \A j \in 1..m : p[j] = T[j]
    BY <1>5, <2>1, SuffixIs
  <2>4. p \in Seq(Token) /\ w \in Seq(Token) /\ Len(p) = Len(w) /\ \A j \in 1..Len(p) : p[j] = w[j]
    BY <1>1, <1>5, <2>3
  <2>5. p = w
    BY <2>4, SeqEqual
  <2> QED BY <2>1, <2>2, <2>3, <2>5
<1>9. PICK a \in Nat : a = m + 1 /\ a \in 1..Len(T) /\ a - 1 = m
  <2>1. m + 1 \in 1..Len(T) /\ (m + 1) - 1 = m /\ m + 1 \in Nat
    BY <1>5
  <2> QED BY <2>1
<1>10. g[a] = Led(w, << <<>> >>)
  <2>1. g[a] = Append(<<w>>, <<>>)
    BY <1>5, <1>6, <1>8, <1>9 DEF SplitRun, SplitStep
  <2> QED BY <2>1 DEF Led
<1>11. \A k \in 0..Len(t) : h[k] \in Seq(Seq(Token)) \ {<<>>}
  BY <1>7 DEF SplitRun
<1> DEFINE Same(k) == k <= Len(t) => g[a + k] = Led(w, h[k])
           G == {k \in Nat : Same(k)}
<1>12. 0 \in G
  <2>1. h[0] = << <<>> >> /\ a + 0 = a
    BY <1>7, <1>9 DEF SplitRun
  <2>2. Same(0)
    BY <1>10, <2>1
  <2> HIDE DEF Same
  <2> QED BY <2>2
<1>13. ASSUME NEW k \in Nat, k \in G PROVE k + 1 \in G
  <2>1. CASE k + 1 <= Len(t)
    <3>1. PICK j \in 1..Len(t) : j = k + 1 /\ j - 1 = k /\ k \in 0..Len(t)
      <4>1. k + 1 \in 1..Len(t) /\ (k + 1) - 1 = k /\ k \in 0..Len(t)
        BY <2>1
      <4> QED BY <4>1
    <3>2. g[a + k] = Led(w, h[k])
      BY <1>13, <2>1
    <3>3. h[j] = SplitStep(h[k], t[j])
      BY <1>7, <3>1 DEF SplitRun
    <3>4. a + j \in 1..Len(T) /\ (a + j) - 1 = a + k /\ T[a + j] = t[j]
      BY <1>5, <1>9, <3>1
    <3>5. g[a + j] = SplitStep(g[a + k], t[j])
      BY <1>6, <3>4 DEF SplitRun
    <3>6. SplitStep(Led(w, h[k]), t[j]) = Led(w, SplitStep(h[k], t[j]))
      <4>1. h[k] \in Seq(Seq(Token)) \ {<<>>} /\ t[j] \in Token
        BY <1>11, <3>1
      <4> QED BY <4>1, SplitStepLed
    <3>7. g[a + j] = Led(w, h[j])
      BY <3>2, <3>3, <3>5, <3>6
    <3>8. Same(k + 1)
      BY <3>1, <3>7
    <3> HIDE DEF Same
    <3> QED BY <3>8
  <2>2. CASE ~(k + 1 <= Len(t))
    BY <2>2
  <2> QED BY <2>1, <2>2
<1>14. \A k \in Nat : k \in G
  <2> HIDE DEF G
  <2> QED BY <1>12, <1>13, UpFromZero
<1>15. g[a + Len(t)] = Led(w, h[Len(t)]) /\ a + Len(t) = Len(T)
  BY <1>5, <1>9, <1>14
<1> QED BY <1>2, <1>3, <1>6, <1>7, <1>15

-----------------------------------------------------------------------------
\* The lines of a text and those a terminal leaves of it.
LinesAgree(R, N) ==
    /\ Len(N) = Len(R)
    /\ \A i \in 1..Len(R) : NoLf(R[i])
    /\ \A i \in 1..(Len(R) - 1) : Append(N[i], "lf") = terminalNormalize(Append(R[i], "lf"))
    /\ N[Len(R)] = terminalNormalize(R[Len(R)])

LEMMA LedAgree ==
    ASSUME NEW w \in Seq(Token), NoLf(w), NEW v \in Seq(Token),
           terminalNormalize(Append(w, "lf")) = Append(v, "lf"),
           NEW R \in Seq(Seq(Token)) \ {<<>>}, NEW N \in Seq(Seq(Token)), LinesAgree(R, N)
    PROVE  LinesAgree(Led(w, R), Led(v, N))
<1>1. PICK L : L = Seq(Token)
  OBVIOUS
<1>2. R \in Seq(L) /\ N \in Seq(L) /\ w \in L /\ v \in L
  BY <1>1
<1>3. PICK n \in Nat : n = Len(R) /\ n = Len(N) /\ n # 0
  BY <1>2 DEF LinesAgree
<1>4. PICK x \in Seq(L) : x = Led(w, R) /\ Len(x) = n + 1 /\ x[1] = w
                          /\ \A i \in 1..n : x[i + 1] = R[i]
  <2>1. w \in L /\ R \in Seq(L) /\ n \in Nat /\ n = Len(R)
    BY <1>2, <1>3
  <2>2. Led(w, R) \in Seq(L) /\ LedBy(Led(w, R), w, R, n)
    BY <2>1, LedIs
  <2> QED BY <2>2 DEF LedBy
<1>5. PICK y \in Seq(L) : y = Led(v, N) /\ Len(y) = n + 1 /\ y[1] = v
                          /\ \A i \in 1..n : y[i + 1] = N[i]
  <2>1. v \in L /\ N \in Seq(L) /\ n \in Nat /\ n = Len(N)
    BY <1>2, <1>3
  <2>2. Led(v, N) \in Seq(L) /\ LedBy(Led(v, N), v, N, n)
    BY <2>1, LedIs
  <2> QED BY <2>2 DEF LedBy
<1>6. /\ \A i \in 1..n : NoLf(R[i])
      /\ \A i \in 1..(n - 1) : Append(N[i], "lf") = terminalNormalize(Append(R[i], "lf"))
      /\ N[n] = terminalNormalize(R[n])
  BY <1>3 DEF LinesAgree
<1>7. ASSUME NEW i \in 1..(n + 1)
      PROVE  i = 1 \/ \E j \in 1..n : i = j + 1
  <2>1. i = 1 \/ (i - 1 \in 1..n /\ i = (i - 1) + 1)
    BY <1>3
  <2> QED BY <2>1
<1>8. ASSUME NEW i \in 1..(n + 1) PROVE NoLf(x[i])
  BY <1>4, <1>6, <1>7
<1>9. ASSUME NEW i \in 1..n PROVE Append(y[i], "lf") = terminalNormalize(Append(x[i], "lf"))
  <2>1. CASE i = 1
    BY <1>4, <1>5, <2>1
  <2>2. CASE i # 1
    <3>1. PICK j \in 1..(n - 1) : i = j + 1 /\ j \in 1..n
      <4>1. i - 1 \in 1..(n - 1) /\ i = (i - 1) + 1 /\ i - 1 \in 1..n
        BY <1>3, <2>2
      <4> QED BY <4>1
    <3> QED BY <1>4, <1>5, <1>6, <3>1
  <2> QED BY <2>1, <2>2
<1>10. y[n + 1] = terminalNormalize(x[n + 1])
  <2>1. n \in 1..n
    BY <1>3
  <2> QED BY <1>4, <1>5, <1>6, <2>1
<1>11. (n + 1) - 1 = n
  BY <1>3
<1>12. LinesAgree(x, y)
  BY <1>4, <1>5, <1>8, <1>9, <1>10, <1>11 DEF LinesAgree
<1> QED BY <1>4, <1>5, <1>12

LEMMA LinesOfText ==
    ASSUME NEW text \in Seq(Token)
    PROVE  LinesAgree(Split(text), Split(terminalNormalize(text)))
<1> DEFINE Agree(t) == LinesAgree(Split(t), Split(terminalNormalize(t)))
           UpTo(k) == \A t \in Seq(Token) : Len(t) < k => Agree(t)
           G == {k \in Nat : UpTo(k)}
<1>1. 0 \in G
  OBVIOUS
<1>2. ASSUME NEW k \in Nat, k \in G PROVE k + 1 \in G
  <2>1. ASSUME NEW s \in Seq(Token), Len(s) < k + 1 PROVE Agree(s)
    <3>1. CASE NoLf(s)
      <4>1. NoLf(terminalNormalize(s)) /\ terminalNormalize(s) \in Seq(Token)
        BY <3>1, NormAlone, NormIs, TokensAre
      <4>2. Split(s) = <<s>> /\ Split(terminalNormalize(s)) = <<terminalNormalize(s)>>
        BY <3>1, <4>1, SplitAlone
      <4>3. PICK v : v = terminalNormalize(s)
        OBVIOUS
      <4>4. LinesAgree(<<s>>, <<v>>)
        <5>1. Len(<<s>>) = 1 /\ Len(<<v>>) = 1 /\ <<s>>[1] = s /\ <<v>>[1] = v
          OBVIOUS
        <5>2. PICK R, N : R = <<s>> /\ N = <<v>> /\ Len(R) = 1 /\ Len(N) = 1 /\ R[1] = s /\ N[1] = v
          BY <5>1
        <5>3. LinesAgree(R, N)
          BY <3>1, <4>3, <5>2 DEF LinesAgree
        <5> QED BY <5>2, <5>3
      <4> QED BY <4>2, <4>3, <4>4
    <3>2. CASE ~NoLf(s)
      <4>1. PICK w \in Seq(Token), t \in Seq(Token) :
               NoLf(w) /\ s = Append(w, "lf") \o t /\ Len(t) < Len(s)
        BY <3>2, FirstLine
      <4>2. PICK v \in Seq(Token) :
              /\ terminalNormalize(Append(w, "lf")) = Append(v, "lf") /\ NoLf(v)
              /\ terminalNormalize(s) = Append(v, "lf") \o terminalNormalize(t)
        BY <4>1, NormPeels
      <4>3. terminalNormalize(t) \in Seq(Token)
        BY NormIs, TokensAre
      <4>4. Split(s) = Led(w, Split(t))
        BY <4>1, SplitPeels
      <4>5. Split(terminalNormalize(s)) = Led(v, Split(terminalNormalize(t)))
        BY <4>2, <4>3, SplitPeels
      <4>6. Agree(t)
        <5>1. Len(t) \in Nat /\ Len(s) \in Nat
          OBVIOUS
        <5>2. Len(t) < k
          BY <2>1, <4>1, <5>1
        <5> HIDE DEF Agree
        <5> QED BY <1>2, <5>2
      <4>7. PICK R, N : R = Split(t) /\ N = Split(terminalNormalize(t))
        OBVIOUS
      <4>8. R \in Seq(Seq(Token)) \ {<<>>} /\ N \in Seq(Seq(Token))
        BY <4>3, <4>7, SplitIs
      <4>9. LinesAgree(Led(w, R), Led(v, N))
        BY <4>1, <4>2, <4>6, <4>7, <4>8, LedAgree
      <4> QED BY <4>4, <4>5, <4>7, <4>9
    <3> QED BY <3>1, <3>2
  <2>2. UpTo(k + 1)
    <3> HIDE DEF Agree
    <3> QED BY <2>1
  <2> HIDE DEF UpTo
  <2> QED BY <2>2
<1>3. \A k \in Nat : k \in G
  <2> HIDE DEF G
  <2> QED BY <1>1, <1>2, UpFromZero
<1>4. Len(text) + 1 \in Nat /\ Len(text) < Len(text) + 1
  OBVIOUS
<1>5. UpTo(Len(text) + 1)
  <2> HIDE DEF UpTo
  <2> QED BY <1>3, <1>4
<1>6. Agree(text)
  <2> HIDE DEF Agree
  <2> QED BY <1>4, <1>5
<1> QED BY <1>6

LEMMA FrontAppended ==
    ASSUME NEW C, NEW v \in Seq(C), NEW c \in C
    PROVE  Front(Append(v, c)) = v
<1>1. PICK n \in Nat : n = Len(v)
  OBVIOUS
<1>2. /\ Append(v, c) \in Seq(C) /\ Len(Append(v, c)) = Len(v) + 1
      /\ \A i \in 1..Len(v) : Append(v, c)[i] = v[i]
  BY AppendProperties
<1>3. PICK x \in Seq(C) : x = Append(v, c) /\ Len(x) = n + 1 /\ \A i \in 1..n : x[i] = v[i]
  BY <1>1, <1>2
<1>4. n \in 0..Len(x) /\ Len(x) - 1 = n
  BY <1>3
<1>5. PICK p \in Seq(C) : p = Prefix(x, n) /\ Len(p) = n /\ \A i \in 1..n : p[i] = x[i]
  BY <1>4, SuffixIs
<1>6. p \in Seq(C) /\ v \in Seq(C) /\ Len(p) = Len(v) /\ \A i \in 1..Len(p) : p[i] = v[i]
  BY <1>1, <1>3, <1>5
<1>7. p = v
  BY <1>6, SeqEqual
<1>8. Front(x) = p
  BY <1>4, <1>5 DEF Front, Prefix
<1> QED BY <1>3, <1>7, <1>8

\* The raw lines of a text are its lines, but for a last one that is empty.
ButForEmpty(ls, N) ==
    \E p \in 0..Len(N) : /\ DOMAIN ls = 1..p /\ \A i \in 1..p : ls[i] = N[i]
                         /\ \A i \in (p + 1)..Len(N) : N[i] = <<>>

LEMMA RawLinesAre ==
    ASSUME NEW text \in Seq(Token)
    PROVE  ButForEmpty(splitRawLines(text), Split(text))
<1>1. PICK L : L = Seq(Token)
  OBVIOUS
<1>2. PICK N \in Seq(L) : N = Split(text) /\ N # <<>>
  BY <1>1, SplitIs
<1>3. PICK n \in Nat : n = Len(N) /\ n # 0
  BY <1>2
<1>4. CASE text = <<>>
  <2>1. NoLf(text)
    BY <1>4 DEF NoLf
  <2>2. Split(text) = <<text>>
    BY <2>1, SplitAlone
  <2>3. n = 1 /\ N[1] = <<>>
    BY <1>2, <1>3, <1>4, <2>2
  <2>4. PICK ls : ls = splitRawLines(text) /\ ls = <<>>
    BY <1>4 DEF splitRawLines
  <2>5. DOMAIN ls = 1..0
    BY <2>4
  <2>6. \A i \in 1..Len(N) : N[i] = <<>>
    BY <1>3, <2>3
  <2>7. 0 \in 0..Len(N) /\ 0 + 1 = 1
    BY <1>3
  <2>8. ButForEmpty(ls, N)
    BY <2>5, <2>6, <2>7 DEF ButForEmpty
  <2> QED BY <1>2, <2>4, <2>8
<1>5. CASE text # <<>> /\ Last(N) = <<>>
  <2>1. PICK ls : ls = splitRawLines(text) /\ ls = Front(N)
    BY <1>2, <1>5 DEF splitRawLines
  <2>2. PICK m \in 0..n : m = n - 1 /\ m + 1 = n
    <3>1. n - 1 \in 0..n /\ (n - 1) + 1 = n
      BY <1>3
    <3> QED BY <3>1
  <2>3. m \in 0..Len(N)
    BY <1>3
  <2>4. PICK p \in Seq(L) : p = Prefix(N, m) /\ Len(p) = m /\ \A i \in 1..m : p[i] = N[i]
    BY <2>3, SuffixIs
  <2>5. p = ls
    BY <1>3, <2>1, <2>2, <2>4 DEF Front, Prefix
  <2>6. DOMAIN ls = 1..m /\ \A i \in 1..m : ls[i] = N[i]
    BY <2>4, <2>5
  <2>7. \A i \in (m + 1)..Len(N) : N[i] = <<>>
    BY <1>3, <1>5, <2>2 DEF Last
  <2>8. ButForEmpty(ls, N)
    BY <2>3, <2>6, <2>7 DEF ButForEmpty
  <2> QED BY <1>2, <2>1, <2>8
<1>6. CASE text # <<>> /\ Last(N) # <<>>
  <2>1. splitRawLines(text) = N
    BY <1>2, <1>6 DEF splitRawLines
  <2>2. n \in 0..Len(N) /\ DOMAIN N = 1..n /\ \A i \in (n + 1)..Len(N) : FALSE
    BY <1>2, <1>3
  <2>3. ButForEmpty(N, N)
    BY <2>2 DEF ButForEmpty
  <2> QED BY <1>2, <2>1, <2>3
<1> QED BY <1>4, <1>5, <1>6

LEMMA EmptyBody == stripLinePrefix(<<>>) = <<>>
<1>1. PICK from \in Nat \ {0} : from = IF At(<<>>, 1) = "T" THEN 2 ELSE 1
  OBVIOUS
<1>2. Len(<<>>) = 0
  OBVIOUS
<1>3. from..0 = {}
  BY <1>1
<1>4. {i \in from..Len(<<>>) : <<>>[i] # " "} = {}
  BY <1>2, <1>3, Zenon
<1> QED BY <1>1, <1>4, Zenon DEF stripLinePrefix

LEMMA EmptyNormal == terminalNormalize(<<>>) = <<>>
<1>1. PICK e \in Seq(Token) : e = <<>> /\ Len(e) = 0
  <2>1. <<>> \in Seq(Token) /\ Len(<<>>) = 0
    OBVIOUS
  <2> QED BY <2>1
<1>2. PICK g : NormRun(g, Token, e) /\ terminalNormalize(e) = g[Len(e)].out
  BY TokensAre, NormRuns
<1> QED BY <1>1, <1>2 DEF NormRun

\* What the lines of a stream say is what the lines a terminal leaves say.
Telling(raw) == {i \in DOMAIN splitRawLines(raw) : BodyOf(raw, i) # <<>>}
Showing(ls) == {i \in DOMAIN ls : stripLinePrefix(ls[i]) # <<>>}

LEMMA BodyOfLine ==
    ASSUME NEW raw \in Seq(Token), NEW i \in 1..Len(Split(raw))
    PROVE  BodyOf(raw, i) = stripLinePrefix(Split(terminalNormalize(raw))[i])
<1>1. PICK L : L = Seq(Token)
  OBVIOUS
<1>2. PICK R \in Seq(L) : R = Split(raw) /\ R # <<>>
  BY <1>1, SplitIs
<1>3. terminalNormalize(raw) \in Seq(Token)
  BY NormIs, TokensAre
<1>4. PICK N \in Seq(L) : N = Split(terminalNormalize(raw))
  BY <1>1, <1>3, SplitIs
<1>5. PICK n \in Nat : n = Len(R) /\ n = Len(N) /\ i \in 1..n
  BY <1>2, <1>4, LinesOfText DEF LinesAgree
<1>6. /\ \A j \in 1..(n - 1) : Append(N[j], "lf") = terminalNormalize(Append(R[j], "lf"))
      /\ N[n] = terminalNormalize(R[n])
  BY <1>2, <1>4, <1>5, LinesOfText DEF LinesAgree
<1>7. CASE i < n
  <2>1. BodyOf(raw, i) = EndedBody(R[i])
    BY <1>2, <1>5, <1>7 DEF BodyOf
  <2>2. i \in 1..(n - 1)
    BY <1>5, <1>7
  <2>3. Append(N[i], "lf") = terminalNormalize(Append(R[i], "lf"))
    BY <1>6, <2>2
  <2>4. N[i] \in Seq(Token)
    BY <1>1, <1>4, <1>5
  <2>5. Front(Append(N[i], "lf")) = N[i]
    BY <2>4, TokensAre, FrontAppended
  <2>6. EndedBody(R[i]) = stripLinePrefix(N[i])
    BY <2>3, <2>5 DEF EndedBody
  <2> QED BY <1>4, <2>1, <2>6
<1>8. CASE ~(i < n)
  <2>1. i = n
    BY <1>5, <1>8
  <2>2. BodyOf(raw, i) = stripLinePrefix(terminalNormalize(R[i]))
    BY <1>2, <1>5, <1>8 DEF BodyOf
  <2> QED BY <1>4, <1>6, <2>1, <2>2
<1> QED BY <1>7, <1>8

LEMMA TellingLines ==
    ASSUME NEW raw \in Seq(Token), NEW ls, ls = splitRawLines(terminalNormalize(raw))
    PROVE  /\ Telling(raw) = Showing(ls)
           /\ \A i \in Telling(raw) : BodyOf(raw, i) = stripLinePrefix(ls[i])
<1>1. PICK L : L = Seq(Token)
  OBVIOUS
<1>2. PICK R \in Seq(L) : R = Split(raw) /\ R # <<>>
  BY <1>1, SplitIs
<1>3. terminalNormalize(raw) \in Seq(Token)
  BY NormIs, TokensAre
<1>4. PICK N \in Seq(L) : N = Split(terminalNormalize(raw))
  BY <1>1, <1>3, SplitIs
<1>5. PICK n \in Nat : n = Len(R) /\ n = Len(N)
  BY <1>2, <1>4, LinesOfText DEF LinesAgree
<1>6. \A j \in 1..(n - 1) : Append(N[j], "lf") = terminalNormalize(Append(R[j], "lf"))
  BY <1>2, <1>4, <1>5, LinesOfText DEF LinesAgree
<1>7. PICK p \in 0..n : /\ DOMAIN ls = 1..p /\ \A i \in 1..p : ls[i] = N[i]
                        /\ \A i \in (p + 1)..n : N[i] = <<>>
  <2>1. ButForEmpty(ls, N)
    BY <1>3, <1>4, RawLinesAre
  <2> QED BY <1>5, <2>1 DEF ButForEmpty
<1>8. PICK rl : rl = splitRawLines(raw)
  OBVIOUS
<1>9. PICK q \in 0..n : /\ DOMAIN rl = 1..q /\ \A i \in (q + 1)..n : R[i] = <<>>
  <2>1. ButForEmpty(rl, R)
    BY <1>2, <1>8, RawLinesAre
  <2> QED BY <1>5, <2>1 DEF ButForEmpty
<1>10. \A i \in 1..n : BodyOf(raw, i) = stripLinePrefix(N[i])
  BY <1>2, <1>4, <1>5, BodyOfLine
<1>11. ASSUME NEW i \in 1..n, stripLinePrefix(N[i]) # <<>> PROVE i <= p /\ i <= q
  <2>1. i <= p
    <3>1. CASE ~(i <= p)
      <4>1. i \in (p + 1)..n
        BY <3>1
      <4> QED BY <1>7, <1>11, <4>1, EmptyBody
    <3> QED BY <3>1
  <2>2. i <= q
    <3>1. CASE ~(i <= q)
      <4>1. i \in (q + 1)..n
        BY <3>1
      <4>2. R[i] = <<>>
        BY <1>9, <4>1
      <4>3. BodyOf(raw, i) # <<>>
        BY <1>10, <1>11
      <4>4. CASE i < n
        <5>1. BodyOf(raw, i) = EndedBody(<<>>)
          BY <1>2, <1>5, <4>2, <4>4 DEF BodyOf
        <5>2. EndedBody(<<>>) = <<>>
          <6>1. PICK e \in Seq(Token) : e = <<>> /\ NoLf(e)
            <7>1. <<>> \in Seq(Token) /\ NoLf(<<>>)
              BY DEF NoLf
            <7> QED BY <7>1
          <6>2. Append(e, "lf") \in Seq(Token)
            BY <6>1, TokensAre
          <6>3. PICK g : NormRun(g, Token, Append(e, "lf"))
                         /\ terminalNormalize(Append(e, "lf")) = g[Len(Append(e, "lf"))].out
            BY <6>2, TokensAre, NormRuns
          <6>4. PICK X \in Seq(Token) : X = Append(e, "lf") /\ Len(X) = 1 /\ X[1] = "lf"
            <7>1. Append(e, "lf") = <<"lf">>
              BY <6>1
            <7>2. Len(<<"lf">>) = 1 /\ <<"lf">>[1] = "lf"
              OBVIOUS
            <7> QED BY <6>2, <7>1, <7>2
          <6>5. g[0] = [out |-> <<>>, start |-> 0, next |-> 1]
            BY <6>3 DEF NormRun
          <6>6. g[0 + 1].out = Append(g[0].out, "lf")
            <7>1. NoLf(g[0].out)
              BY <6>1, <6>5
            <7>2. 0 \in Nat /\ 0 + 1 <= Len(X) /\ (\A j \in 1..0 : X[j] # "lf") /\ X[0 + 1] = "lf"
                  /\ NormRun(g, Token, X)
              BY <6>3, <6>4
            <7> QED BY <6>4, <7>1, <7>2, LineCloses
          <6>7. terminalNormalize(Append(e, "lf")) = Append(e, "lf")
            <7>1. Len(Append(e, "lf")) = 0 + 1
              BY <6>4
            <7>2. terminalNormalize(Append(e, "lf")) = g[0 + 1].out
              BY <6>3, <7>1
            <7>3. g[0].out = e
              BY <6>1, <6>5
            <7> QED BY <6>6, <7>2, <7>3
          <6>8. Front(Append(e, "lf")) = e
            BY <6>1, TokensAre, FrontAppended
          <6> QED BY <6>1, <6>7, <6>8, EmptyBody DEF EndedBody
        <5> QED BY <4>3, <5>1, <5>2
      <4>5. CASE ~(i < n)
        <5>1. BodyOf(raw, i) = stripLinePrefix(terminalNormalize(<<>>))
          BY <1>2, <1>5, <4>2, <4>5 DEF BodyOf
        <5> QED BY <4>3, <5>1, EmptyNormal, EmptyBody
      <4> QED BY <4>4, <4>5
    <3> QED BY <3>1
  <2> QED BY <2>1, <2>2
<1>12. ASSUME NEW i \in Telling(raw)
       PROVE  i \in Showing(ls) /\ BodyOf(raw, i) = stripLinePrefix(ls[i])
  <2>1. i \in 1..n /\ BodyOf(raw, i) # <<>>
    BY <1>8, <1>9 DEF Telling
  <2>2. stripLinePrefix(N[i]) # <<>> /\ BodyOf(raw, i) = stripLinePrefix(N[i])
    BY <1>10, <2>1
  <2>3. i \in 1..p
    BY <1>11, <2>1, <2>2
  <2> QED BY <1>7, <2>2, <2>3 DEF Showing
<1>13. ASSUME NEW i \in Showing(ls) PROVE i \in Telling(raw)
  <2>1. i \in 1..p /\ stripLinePrefix(N[i]) # <<>>
    BY <1>7 DEF Showing
  <2>2. i \in 1..n
    BY <2>1
  <2>3. i \in 1..q /\ BodyOf(raw, i) # <<>>
    BY <1>10, <1>11, <2>1, <2>2
  <2> QED BY <1>8, <1>9, <2>3 DEF Telling
<1> QED BY <1>12, <1>13

-----------------------------------------------------------------------------
(* Groups partition the lines.                                             *)

\* The shape of a line says what its body is.
IsShapeOf(s, body) ==
    /\ s.shown <=> body # <<>>
    /\ Templatize(body) = [template |-> s.template, slots |-> s.slots]

LEMMA ShapesOfLines ==
    ASSUME NEW ls \in Seq(Seq(Token)), NEW i \in 1..Len(ls)
    PROVE  IsShapeOf(Shapes(ls)[i], stripLinePrefix(ls[i]))
<1>1. PICK n \in Nat : n = Len(ls) /\ DOMAIN ls = 1..n
  OBVIOUS
<1>2. PICK b \in Seq(Token) : b = stripLinePrefix(ls[i])
  <2>1. ls[i] \in Seq(Token)
    BY <1>1
  <2> QED BY <2>1, BodyIs
<1>3. Shapes(ls)[i] = ShapeOf(b)
  BY <1>1, <1>2 DEF Shapes
<1>4. PICK t \in TemplateState(Token) : t = Templatize(b)
  BY <1>2, TemplatizeIs, TokensAre
<1>5. PICK q \in BOOLEAN : q = (b # <<>>)
  OBVIOUS
<1>6. PICK s : s = ShapeOf(b) /\ s = [shown |-> q, template |-> t.template, slots |-> t.slots]
  BY <1>4, <1>5 DEF ShapeOf
<1>7. s.shown = q /\ s.template = t.template /\ s.slots = t.slots
  BY <1>6
<1>8. t = [template |-> t.template, slots |-> t.slots]
  BY <1>4 DEF TemplateState
<1>9. Templatize(b) = [template |-> s.template, slots |-> s.slots]
  BY <1>4, <1>7, <1>8
<1>10. s.shown <=> b # <<>>
  BY <1>5, <1>7
<1> QED BY <1>2, <1>3, <1>6, <1>9, <1>10 DEF IsShapeOf

\* A group is of the lines A: their numbers, counted from f, and their values.
HoldsLine(g, k, line, number) ==
    /\ g.lines[k] = number
    /\ Templatize(stripLinePrefix(line)) = [template |-> g.template, slots |-> g.rows[k]]

IsGroupOf(g, ms, A, ls, f) ==
    /\ InSequence(ms, A) /\ Len(ms) # 0
    /\ DOMAIN g.lines = 1..Len(ms) /\ g.lines = [k \in 1..Len(ms) |-> g.lines[k]]
    /\ DOMAIN g.rows = 1..Len(ms) /\ g.rows = [k \in 1..Len(ms) |-> g.rows[k]]
    /\ \A k \in 1..Len(ms) : HoldsLine(g, k, ls[ms[k]], f + ms[k] - 1)

GroupOf(g, A, ls, f) ==
    /\ A \subseteq Showing(ls) /\ IsFiniteSet(A)
    /\ \E ms : IsGroupOf(g, ms, A, ls, f)

\* Each line that shows anything is in one group.
Partition(gs, p, As, ls, f) ==
    /\ gs = [i \in 1..p |-> gs[i]]
    /\ \A i \in 1..p : GroupOf(gs[i], As[i], ls, f)
    /\ \A i, j \in 1..p : i < j => As[i] \cap As[j] = {}
    /\ \A l \in Showing(ls) : \E i \in 1..p : l \in As[i]

LinesAlike(A, shapes, n, l) ==
    /\ A \subseteq 1..n /\ IsFiniteSet(A) /\ l \in A
    /\ \A j \in A : /\ shapes[j].shown /\ shapes[j].template = shapes[l].template
                    /\ Alike(shapes, j) = A

LEMMA AlikeLines ==
    ASSUME NEW n \in Nat, NEW shapes, DOMAIN shapes = 1..n, NEW l \in 1..n, shapes[l].shown
    PROVE  LinesAlike(Alike(shapes, l), shapes, n, l)
<1>1. PICK A : A = Alike(shapes, l)
  OBVIOUS
<1>2. A = {j \in 1..n : shapes[j].shown /\ shapes[j].template = shapes[l].template}
  BY <1>1 DEF Alike
<1>3. A \subseteq 1..n /\ l \in A
  BY <1>2
<1>4. IsFiniteSet(A)
  <2>1. 1 \in Int /\ n \in Int
    OBVIOUS
  <2>2. IsFiniteSet(1..n)
    BY <2>1, FS_Interval
  <2> QED BY <1>3, <2>2, FS_Subset
<1>5. ASSUME NEW j \in A
      PROVE  shapes[j].shown /\ shapes[j].template = shapes[l].template /\ Alike(shapes, j) = A
  <2>1. j \in 1..n /\ shapes[j].shown /\ shapes[j].template = shapes[l].template
    BY <1>2
  <2>2. Alike(shapes, j) = {k \in 1..n : shapes[k].shown /\ shapes[k].template = shapes[j].template}
    BY DEF Alike
  <2>3. {k \in 1..n : shapes[k].shown /\ shapes[k].template = shapes[j].template} = A
    BY <1>2, <2>1
  <2> QED BY <2>1, <2>2, <2>3
<1>6. LinesAlike(A, shapes, n, l)
  BY <1>3, <1>4, <1>5 DEF LinesAlike
<1> QED BY <1>1, <1>6

LEMMA GroupsPartition ==
    ASSUME NEW ls \in Seq(Seq(Token)), NEW f \in Nat, NEW gs, gs = GroupTemplates(ls, f)
    PROVE  \E p \in Nat : \E As : Partition(gs, p, As, ls, f)
<1>1. PICK n \in Nat : n = Len(ls) /\ DOMAIN ls = 1..n
  OBVIOUS
<1>2. PICK shapes : shapes = Shapes(ls)
  OBVIOUS
<1>3. DOMAIN shapes = 1..n
  BY <1>1, <1>2 DEF Shapes
<1>4. \A i \in 1..n : IsShapeOf(shapes[i], stripLinePrefix(ls[i]))
  BY <1>1, <1>2, ShapesOfLines
<1>5. \A i : i \in Showing(ls) <=> i \in 1..n /\ shapes[i].shown
  BY <1>1, <1>4 DEF IsShapeOf, Showing
<1>6. PICK D : D = {i \in 1..n : shapes[i].shown /\ i = Min(Alike(shapes, i))}
  OBVIOUS
<1>7. D \subseteq Int /\ D \subseteq 1..n
  BY <1>6
<1>8. IsFiniteSet(D)
  <2>1. 1 \in Int /\ n \in Int
    OBVIOUS
  <2>2. IsFiniteSet(1..n)
    BY <2>1, FS_Interval
  <2> QED BY <1>7, <2>2, FS_Subset
<1>9. PICK leaders : leaders = Ascending(D)
  OBVIOUS
<1>10. InSequence(leaders, D)
  BY <1>7, <1>8, <1>9, AscendingIs
<1>11. PICK p \in Nat : /\ p = Len(leaders) /\ DOMAIN leaders = 1..p
                        /\ \A i \in 1..p : leaders[i] \in D
                        /\ \A i, j \in 1..p : i < j => leaders[i] < leaders[j]
                        /\ \A l \in D : \E i \in 1..p : leaders[i] = l
  BY <1>10 DEF InSequence
<1>12. gs = [i \in 1..p |-> Group(shapes, Ascending(Alike(shapes, leaders[i])), f)]
  <2>1. {i \in DOMAIN shapes : shapes[i].shown /\ i = Min(Alike(shapes, i))} = D
    BY <1>3, <1>6
  <2>2. gs = Groups(shapes, f)
    BY <1>2 DEF GroupTemplates
  <2> QED BY <1>9, <1>11, <2>1, <2>2 DEF Groups
<1>13. PICK As : As = [i \in 1..p |-> Alike(shapes, leaders[i])]
  OBVIOUS
<1>14. ASSUME NEW i \in 1..p PROVE GroupOf(gs[i], As[i], ls, f)
  <2>1. PICK l \in 1..n : l = leaders[i] /\ shapes[l].shown
    BY <1>6, <1>11
  <2>2. PICK A : A = Alike(shapes, l) /\ A = As[i]
    BY <1>13, <2>1
  <2>3. /\ A \subseteq 1..n /\ IsFiniteSet(A) /\ l \in A
        /\ \A j \in A : shapes[j].shown /\ shapes[j].template = shapes[l].template
    <3>1. LinesAlike(Alike(shapes, l), shapes, n, l)
      BY <1>3, <2>1, AlikeLines
    <3> QED BY <2>2, <3>1 DEF LinesAlike
  <2>4. A \subseteq Int
    BY <2>3
  <2>5. PICK ms : ms = Ascending(A)
    OBVIOUS
  <2>6. InSequence(ms, A)
    BY <2>3, <2>4, <2>5, AscendingIs
  <2>7. PICK q \in Nat : q = Len(ms) /\ DOMAIN ms = 1..q /\ q # 0 /\ \A k \in 1..q : ms[k] \in A
    BY <2>3, <2>6 DEF InSequence
  <2>8. PICK g : g = Group(shapes, ms, f)
    OBVIOUS
  <2>9. gs[i] = g
    BY <1>12, <2>1, <2>2, <2>5, <2>8
  <2>10. /\ g.template = shapes[ms[1]].template
         /\ g.rows = [k \in 1..q |-> shapes[ms[k]].slots]
         /\ g.lines = [k \in 1..q |-> f + ms[k] - 1]
    BY <2>7, <2>8 DEF Group
  <2>11. g.template = shapes[l].template
    <3>1. 1 \in 1..q
      BY <2>7
    <3> QED BY <2>3, <2>7, <2>10, <3>1
  <2>12. ASSUME NEW k \in 1..q PROVE HoldsLine(g, k, ls[ms[k]], f + ms[k] - 1)
    <3>1. PICK j \in 1..n : j = ms[k] /\ shapes[j].template = g.template
      BY <2>3, <2>7, <2>11
    <3>2. g.rows[k] = shapes[j].slots
      BY <2>10, <3>1
    <3>3. Templatize(stripLinePrefix(ls[j])) = [template |-> shapes[j].template, slots |-> shapes[j].slots]
      BY <1>4 DEF IsShapeOf
    <3>4. Templatize(stripLinePrefix(ls[j])) = [template |-> g.template, slots |-> g.rows[k]]
      BY <3>1, <3>2, <3>3
    <3>5. g.lines[k] = f + j - 1
      BY <2>10, <3>1
    <3> QED BY <3>1, <3>4, <3>5 DEF HoldsLine
  <2>13. /\ DOMAIN g.lines = 1..q /\ g.lines = [k \in 1..q |-> g.lines[k]]
         /\ DOMAIN g.rows = 1..q /\ g.rows = [k \in 1..q |-> g.rows[k]]
    BY <2>10
  <2>14. IsGroupOf(g, ms, A, ls, f)
    BY <2>6, <2>7, <2>12, <2>13 DEF IsGroupOf
  <2>15. A \subseteq Showing(ls)
    BY <1>5, <2>3
  <2> QED BY <2>2, <2>3, <2>9, <2>14, <2>15 DEF GroupOf
<1>15. ASSUME NEW i \in 1..p, NEW j \in 1..p, i < j PROVE As[i] \cap As[j] = {}
  <2>1. leaders[i] \in D /\ leaders[j] \in D /\ leaders[i] < leaders[j]
    BY <1>11, <1>15
  <2>2. PICK a \in 1..n, b \in 1..n : /\ a = leaders[i] /\ b = leaders[j] /\ a < b
                                      /\ shapes[a].shown /\ shapes[b].shown
                                      /\ a = Min(Alike(shapes, a)) /\ b = Min(Alike(shapes, b))
    BY <1>6, <2>1
  <2>3. ASSUME NEW c \in As[i], c \in As[j] PROVE FALSE
    <3>1. c \in Alike(shapes, a) /\ c \in Alike(shapes, b)
      BY <1>13, <2>2, <2>3
    <3>2. Alike(shapes, c) = Alike(shapes, a)
      <4>1. LinesAlike(Alike(shapes, a), shapes, n, a)
        BY <1>3, <2>2, AlikeLines
      <4> QED BY <3>1, <4>1 DEF LinesAlike
    <3>3. Alike(shapes, c) = Alike(shapes, b)
      <4>1. LinesAlike(Alike(shapes, b), shapes, n, b)
        BY <1>3, <2>2, AlikeLines
      <4> QED BY <3>1, <4>1 DEF LinesAlike
    <3>4. a = b
      BY <2>2, <3>2, <3>3
    <3> QED BY <2>2, <3>4
  <2> QED BY <2>3
<1>16. ASSUME NEW l \in Showing(ls) PROVE \E i \in 1..p : l \in As[i]
  <2>1. l \in 1..n /\ shapes[l].shown
    BY <1>5
  <2>2. PICK A : A = Alike(shapes, l)
    OBVIOUS
  <2>3. /\ A \subseteq 1..n /\ l \in A
        /\ \A j \in A : shapes[j].shown /\ Alike(shapes, j) = A
    <3>1. LinesAlike(Alike(shapes, l), shapes, n, l)
      BY <1>3, <2>1, AlikeLines
    <3> QED BY <2>2, <3>1 DEF LinesAlike
  <2>4. PICK m : m = Min(A)
    OBVIOUS
  <2>5. m \in A
    <3>1. A \subseteq Nat /\ A # {}
      BY <2>3
    <3> QED BY <2>4, <3>1, MinIn
  <2>6. m \in 1..n /\ shapes[m].shown /\ Alike(shapes, m) = A
    BY <2>3, <2>5
  <2>7. m \in D
    BY <1>6, <2>4, <2>6
  <2>8. PICK i \in 1..p : leaders[i] = m
    BY <1>11, <2>7
  <2>9. As[i] = A
    BY <1>13, <2>6, <2>8
  <2> QED BY <2>3, <2>8, <2>9
<1>17. gs = [i \in 1..p |-> gs[i]]
  BY <1>12
<1>18. Partition(gs, p, As, ls, f)
  BY <1>14, <1>15, <1>16, <1>17 DEF Partition
<1> QED BY <1>11, <1>18

\* How many lines groups have.
Counted(gs) == FoldLeft(LAMBDA n, g : n + Len(g.lines), 0, gs)

CountStep(n, g) == n + Len(g.lines)

Lined(R) == \A r \in R : Len(r.lines) \in Nat

LEMMA CountStepIs ==
    ASSUME NEW R, Lined(R), NEW n \in Nat, NEW g \in R
    PROVE  CountStep(n, g) \in Nat
<1>1. PICK m \in Nat : m = Len(g.lines)
  BY DEF Lined
<1> QED BY <1>1 DEF CountStep

CountRun(g, gs) ==
    /\ g \in [0..Len(gs) -> Nat]
    /\ g[0] = 0
    /\ \A k \in 1..Len(gs) : g[k] = CountStep(g[k - 1], gs[k])

LEMMA CountRuns ==
    ASSUME NEW R, Lined(R), NEW gs \in Seq(R)
    PROVE  \E g : CountRun(g, gs) /\ Counted(gs) = g[Len(gs)]
<1>1. PICK n \in Nat : n = Len(gs) /\ DOMAIN gs = 1..n
  OBVIOUS
<1>2. PICK V : V = Nat
  OBVIOUS
<1>3. PICK base \in V : base = 0
  <2>1. 0 \in Nat
    OBVIOUS
  <2> QED BY <1>2, <2>1
<1>4. PICK step : step = [p \in (1..n) \X V |-> CountStep(p[2], gs[p[1]])]
  OBVIOUS
<1>5. ASSUME NEW k \in 1..n, NEW v \in V
      PROVE  step[<<k, v>>] = CountStep(v, gs[k]) /\ CountStep(v, gs[k]) \in V
  <2>1. step[<<k, v>>] = CountStep(v, gs[k])
    BY <1>4
  <2>2. gs[k] \in R
    BY <1>1
  <2> QED BY <1>2, <2>1, <2>2, CountStepIs
<1>6. StepsIn(step, 1..n, V)
  BY <1>5, Zenon DEF StepsIn
<1> DEFINE Is(f) == f = [T \in SUBSET DOMAIN gs |->
                           IF T = {} THEN 0
                           ELSE CountStep(f[T \ {Max(T)}], gs[Max(T)])]
<1>7. \E f : Is(f)
  <2>1. PICK it \in [SUBSET (1..n) -> V] : LeftSteps(it, n, V, base, step)
    BY <1>6, LeftFoldSteps
  <2>2. ASSUME NEW T \in SUBSET (1..n)
        PROVE  it[T] = IF T = {} THEN 0 ELSE CountStep(it[T \ {Max(T)}], gs[Max(T)])
    BY <1>3, <1>5, <2>1 DEF LeftSteps
  <2> QED BY <1>1, <2>2
<1>8. PICK f : f = CHOOSE h : Is(h)
  OBVIOUS
<1>9. Counted(gs) = f[1..n]
  BY <1>1, <1>8 DEF Counted, FoldLeft, MapThenFoldSet, CountStep
<1>10. Is(f)
  <2> HIDE DEF Is
  <2> QED BY <1>7, <1>8
<1>11. \A T \in SUBSET (1..n) :
         f[T] = IF T = {} THEN base ELSE CountStep(f[T \ {Max(T)}], gs[Max(T)])
  BY <1>1, <1>3, <1>10
<1> HIDE DEF Is
<1>12. f[{}] = base
  BY <1>11
<1>13. ASSUME NEW k \in 1..n, f[1..(k - 1)] \in V
       PROVE  f[1..k] = step[<<k, f[1..(k - 1)]>>]
  <2>1. 1..k \in SUBSET (1..n) /\ 1..k # {} /\ Max(1..k) = k /\ (1..k) \ {k} = 1..(k - 1)
    BY Positions
  <2>2. f[1..k] = CountStep(f[1..(k - 1)], gs[k])
    BY <1>11, <2>1
  <2> QED BY <1>5, <1>13, <2>2
<1>14. PICK g : Ran(g, n, V, base, step) /\ g[n] = f[1..n]
  BY <1>6, <1>12, <1>13, FoldedRun
<1>15. ASSUME NEW k \in 1..n PROVE g[k] = CountStep(g[k - 1], gs[k])
  <2>1. g[k] = step[<<k, g[k - 1]>>] /\ g[k - 1] \in V
    <3>1. k - 1 \in 0..n
      OBVIOUS
    <3> QED BY <1>14, <3>1 DEF Ran
  <2> QED BY <1>5, <2>1
<1>16. CountRun(g, gs)
  BY <1>1, <1>2, <1>3, <1>14, <1>15 DEF CountRun, Ran
<1> QED BY <1>1, <1>9, <1>14, <1>16

LEMMA GroupSize ==
    ASSUME NEW g, NEW A, NEW ls, NEW f, GroupOf(g, A, ls, f)
    PROVE  IsFiniteSet(A) /\ Cardinality(A) \in Nat /\ Len(g.lines) = Cardinality(A) /\ A # {}
<1>1. PICK ms : IsGroupOf(g, ms, A, ls, f)
  BY DEF GroupOf
<1>2. ms \in Seq(A) /\ Len(ms) = Cardinality(A) /\ Len(ms) # 0
  BY <1>1 DEF IsGroupOf, InSequence
<1>3. PICK q \in Nat : q = Len(ms) /\ q # 0
  BY <1>2
<1>4. PICK gl : gl = g.lines /\ gl = [k \in 1..q |-> gl[k]]
  BY <1>1, <1>3 DEF IsGroupOf
<1>5. PICK V : V = {gl[k] : k \in 1..q}
  OBVIOUS
<1>6. gl \in Seq(V) /\ Len(gl) = q
  <2>1. [k \in 1..q |-> gl[k]] \in Seq(V) /\ Len([k \in 1..q |-> gl[k]]) = q
    BY <1>5
  <2> QED BY <1>4, <2>1
<1>7. IsFiniteSet(A)
  BY DEF GroupOf
<1>8. A # {}
  <2>1. 1 \in 1..q
    BY <1>3
  <2> QED BY <1>2, <1>3, <2>1
<1> QED BY <1>2, <1>3, <1>4, <1>6, <1>7, <1>8

\* The lines of the groups up to the k-th.
UpToGroup(As, k) == UNION {As[i] : i \in 1..k}

LEMMA CountedIs ==
    ASSUME NEW p \in Nat, NEW gs, NEW As, NEW ls, NEW f, Partition(gs, p, As, ls, f)
    PROVE  Counted(gs) = Cardinality(Showing(ls))
<1>1. /\ gs = [i \in 1..p |-> gs[i]]
      /\ \A i \in 1..p : GroupOf(gs[i], As[i], ls, f)
      /\ \A i, j \in 1..p : i < j => As[i] \cap As[j] = {}
      /\ \A l \in Showing(ls) : \E i \in 1..p : l \in As[i]
  BY DEF Partition
<1>2. ASSUME NEW i \in 1..p
      PROVE  IsFiniteSet(As[i]) /\ Cardinality(As[i]) \in Nat /\ Len(gs[i].lines) = Cardinality(As[i])
  BY <1>1, GroupSize
<1>3. PICK R : R = {gs[i] : i \in 1..p}
  OBVIOUS
<1>4. gs \in Seq(R) /\ Len(gs) = p
  <2>1. [i \in 1..p |-> gs[i]] \in Seq(R) /\ Len([i \in 1..p |-> gs[i]]) = p
    BY <1>3
  <2> QED BY <1>1, <2>1
<1>5. Lined(R)
  BY <1>2, <1>3 DEF Lined
<1>6. PICK g : CountRun(g, gs) /\ Counted(gs) = g[Len(gs)]
  BY <1>4, <1>5, CountRuns
<1>7. g[0] = 0 /\ \A k \in 1..p : g[k] = g[k - 1] + Len(gs[k].lines)
  BY <1>4, <1>6 DEF CountRun, CountStep
<1> DEFINE Sums(k) == k <= p => /\ IsFiniteSet(UpToGroup(As, k))
                                /\ g[k] = Cardinality(UpToGroup(As, k)) /\ g[k] \in Nat
           G == {k \in Nat : Sums(k)}
<1>8. 0 \in G
  <2>1. UpToGroup(As, 0) = {}
    BY DEF UpToGroup
  <2>2. IsFiniteSet(UpToGroup(As, 0)) /\ Cardinality(UpToGroup(As, 0)) = 0
    BY <2>1, FS_EmptySet
  <2>3. g[0] = 0
    BY <1>7
  <2>4. Sums(0)
    BY <2>2, <2>3
  <2> HIDE DEF Sums
  <2> QED BY <2>4
<1>9. ASSUME NEW k \in Nat, k \in G PROVE k + 1 \in G
  <2>1. CASE k + 1 <= p
    <3>1. PICK j \in 1..p : j = k + 1 /\ j - 1 = k
      <4>1. k + 1 \in 1..p /\ (k + 1) - 1 = k
        BY <2>1
      <4> QED BY <4>1
    <3>2. PICK S : S = UpToGroup(As, k)
      OBVIOUS
    <3>3. IsFiniteSet(S) /\ g[k] = Cardinality(S) /\ g[k] \in Nat
      BY <1>9, <2>1, <3>2
    <3>4. UpToGroup(As, j) = S \cup As[j]
      <4>1. 1..j = (1..k) \cup {j}
        BY <3>1
      <4> QED BY <3>2, <4>1 DEF UpToGroup
    <3>5. S \cap As[j] = {}
      <4>1. ASSUME NEW i \in 1..k PROVE As[i] \cap As[j] = {}
        <5>1. i \in 1..p /\ i < j
          BY <3>1
        <5> QED BY <1>1, <5>1
      <4> QED BY <3>2, <4>1 DEF UpToGroup
    <3>6. /\ IsFiniteSet(S \cup As[j])
          /\ Cardinality(S \cup As[j]) = Cardinality(S) + Cardinality(As[j]) - Cardinality(S \cap As[j])
      BY <1>2, <3>3, FS_Union
    <3>7. Cardinality(S \cap As[j]) = 0
      BY <3>5, FS_EmptySet
    <3>8. g[j] = g[k] + Cardinality(As[j])
      BY <1>2, <1>7, <3>1
    <3>9. Cardinality(As[j]) \in Nat
      BY <1>2
    <3>10. g[j] = Cardinality(S \cup As[j]) /\ g[j] \in Nat
      BY <3>3, <3>6, <3>7, <3>8, <3>9
    <3>11. Sums(k + 1)
      BY <3>1, <3>4, <3>6, <3>10
    <3> HIDE DEF Sums
    <3> QED BY <3>11
  <2>2. CASE ~(k + 1 <= p)
    BY <2>2
  <2> QED BY <2>1, <2>2
<1>10. \A k \in Nat : k \in G
  <2> HIDE DEF G
  <2> QED BY <1>8, <1>9, UpFromZero
<1>11. g[p] = Cardinality(UpToGroup(As, p))
  BY <1>10
<1>12. UpToGroup(As, p) = Showing(ls)
  <2>1. \A i \in 1..p : As[i] \subseteq Showing(ls)
    BY <1>1 DEF GroupOf
  <2> QED BY <1>1, <2>1 DEF UpToGroup
<1> QED BY <1>4, <1>6, <1>11, <1>12

\* The groups of a stream are its lines, each counted from "first".
LEMMA GroupsOfStream ==
    ASSUME NEW raw \in Seq(Token), first \in Nat,
           NEW gs, gs = GroupTemplates(splitRawLines(terminalNormalize(raw)), first)
    PROVE  GroupsAre(gs, raw)
<1>1. PICK ls \in Seq(Seq(Token)) : ls = splitRawLines(terminalNormalize(raw))
  <2>1. terminalNormalize(raw) \in Seq(Token)
    BY NormIs, TokensAre
  <2> QED BY <2>1, RawLinesIs
<1>2. PICK p \in Nat : \E Bs : Partition(gs, p, Bs, ls, first)
  BY <1>1, GroupsPartition
<1>2a. PICK As : Partition(gs, p, As, ls, first)
  BY <1>2
<1>3. Telling(raw) = Showing(ls) /\ \A i \in Telling(raw) : BodyOf(raw, i) = stripLinePrefix(ls[i])
  BY <1>1, TellingLines
<1>4. DOMAIN gs = 1..p
  BY <1>2a DEF Partition
<1>5. ASSUME NEW i \in Telling(raw)
      PROVE  \E g \in DOMAIN gs : \E k \in DOMAIN gs[g].lines :
                /\ gs[g].lines[k] = i + first - 1
                /\ [template |-> gs[g].template, slots |-> gs[g].rows[k]] = Templatize(BodyOf(raw, i))
  <2>1. PICK g \in 1..p : i \in As[g]
    BY <1>2a, <1>3 DEF Partition
  <2>2. PICK ms : IsGroupOf(gs[g], ms, As[g], ls, first)
    BY <1>2a DEF Partition, GroupOf
  <2>3. PICK k \in 1..Len(ms) : ms[k] = i
    BY <2>1, <2>2 DEF IsGroupOf, InSequence
  <2>4. HoldsLine(gs[g], k, ls[i], first + i - 1)
    BY <2>2, <2>3 DEF IsGroupOf
  <2>5. i \in 1..Len(ls)
    BY <1>1, <1>3 DEF Showing
  <2>6. gs[g].lines[k] = i + first - 1
    BY <2>4, <2>5 DEF HoldsLine
  <2>7. [template |-> gs[g].template, slots |-> gs[g].rows[k]] = Templatize(BodyOf(raw, i))
    BY <1>3, <2>4 DEF HoldsLine
  <2>8. k \in DOMAIN gs[g].lines
    BY <2>2, <2>3 DEF IsGroupOf
  <2> QED BY <1>4, <2>6, <2>7, <2>8
<1>6. Counted(gs) = Cardinality(Telling(raw))
  BY <1>2a, <1>3, CountedIs
<1>7. FoldLeft(LAMBDA n, g : n + Len(g.lines), 0, gs) = Cardinality(Telling(raw))
  BY <1>6, Zenon DEF Counted
<1>8. \A i \in Telling(raw) : \E g \in DOMAIN gs : \E k \in DOMAIN gs[g].lines :
                /\ gs[g].lines[k] = i + first - 1
                /\ [template |-> gs[g].template, slots |-> gs[g].rows[k]] = Templatize(BodyOf(raw, i))
  BY <1>5
<1> QED BY <1>7, <1>8, Zenon DEF GroupsAre, Telling

-----------------------------------------------------------------------------
(* Runs of numbers.                                                        *)

\* As many lines are named as the runs are long.
TotalStep(n, r) == n + r.hi - r.lo + 1

SpansOf(R) == \A r \in R : r.lo \in Int /\ r.hi \in Int

LEMMA TotalStepIs ==
    ASSUME NEW R, SpansOf(R), NEW n \in Int, NEW r \in R
    PROVE  TotalStep(n, r) \in Int
<1>1. PICK a \in Int, b \in Int : a = r.lo /\ b = r.hi
  BY DEF SpansOf
<1> QED BY <1>1 DEF TotalStep

TotalRun(g, rs) ==
    /\ g \in [0..Len(rs) -> Int]
    /\ g[0] = 0
    /\ \A k \in 1..Len(rs) : g[k] = TotalStep(g[k - 1], rs[k])

LEMMA TotalRuns ==
    ASSUME NEW R, SpansOf(R), NEW rs \in Seq(R)
    PROVE  \E g : TotalRun(g, rs) /\ RunTotal(rs) = g[Len(rs)]
<1>1. PICK n \in Nat : n = Len(rs) /\ DOMAIN rs = 1..n
  OBVIOUS
<1>2. PICK V : V = Int
  OBVIOUS
<1>3. PICK base \in V : base = 0
  <2>1. 0 \in Int
    OBVIOUS
  <2> QED BY <1>2, <2>1
<1>4. PICK step : step = [p \in (1..n) \X V |-> TotalStep(p[2], rs[p[1]])]
  OBVIOUS
<1>5. ASSUME NEW k \in 1..n, NEW v \in V
      PROVE  step[<<k, v>>] = TotalStep(v, rs[k]) /\ TotalStep(v, rs[k]) \in V
  <2>1. step[<<k, v>>] = TotalStep(v, rs[k])
    BY <1>4
  <2>2. rs[k] \in R
    BY <1>1
  <2> QED BY <1>2, <2>1, <2>2, TotalStepIs
<1>6. StepsIn(step, 1..n, V)
  BY <1>5, Zenon DEF StepsIn
<1> DEFINE Is(f) == f = [T \in SUBSET DOMAIN rs |->
                           IF T = {} THEN 0
                           ELSE TotalStep(f[T \ {Max(T)}], rs[Max(T)])]
<1>7. \E f : Is(f)
  <2>1. PICK it \in [SUBSET (1..n) -> V] : LeftSteps(it, n, V, base, step)
    BY <1>6, LeftFoldSteps
  <2>2. ASSUME NEW T \in SUBSET (1..n)
        PROVE  it[T] = IF T = {} THEN 0 ELSE TotalStep(it[T \ {Max(T)}], rs[Max(T)])
    BY <1>3, <1>5, <2>1 DEF LeftSteps
  <2> QED BY <1>1, <2>2
<1>8. PICK f : f = CHOOSE h : Is(h)
  OBVIOUS
<1>9. RunTotal(rs) = f[1..n]
  BY <1>1, <1>8 DEF RunTotal, FoldLeft, MapThenFoldSet, TotalStep
<1>10. Is(f)
  <2> HIDE DEF Is
  <2> QED BY <1>7, <1>8
<1>11. \A T \in SUBSET (1..n) :
         f[T] = IF T = {} THEN base ELSE TotalStep(f[T \ {Max(T)}], rs[Max(T)])
  BY <1>1, <1>3, <1>10
<1> HIDE DEF Is
<1>12. f[{}] = base
  BY <1>11
<1>13. ASSUME NEW k \in 1..n, f[1..(k - 1)] \in V
       PROVE  f[1..k] = step[<<k, f[1..(k - 1)]>>]
  <2>1. 1..k \in SUBSET (1..n) /\ 1..k # {} /\ Max(1..k) = k /\ (1..k) \ {k} = 1..(k - 1)
    BY Positions
  <2>2. f[1..k] = TotalStep(f[1..(k - 1)], rs[k])
    BY <1>11, <2>1
  <2> QED BY <1>5, <1>13, <2>2
<1>14. PICK g : Ran(g, n, V, base, step) /\ g[n] = f[1..n]
  BY <1>6, <1>12, <1>13, FoldedRun
<1>15. ASSUME NEW k \in 1..n PROVE g[k] = TotalStep(g[k - 1], rs[k])
  <2>1. g[k] = step[<<k, g[k - 1]>>] /\ g[k - 1] \in V
    <3>1. k - 1 \in 0..n
      OBVIOUS
    <3> QED BY <1>14, <3>1 DEF Ran
  <2> QED BY <1>5, <2>1
<1>16. TotalRun(g, rs)
  BY <1>1, <1>2, <1>3, <1>14, <1>15 DEF TotalRun, Ran
<1> QED BY <1>1, <1>9, <1>14, <1>16

\* Runs in order, with numbers between them that are in none.
Apart(rs, n) ==
    /\ rs = [i \in 1..n |-> rs[i]]
    /\ \A i \in 1..n : rs[i].lo \in Int /\ rs[i].hi \in Int /\ rs[i].lo <= rs[i].hi
    /\ \A i, j \in 1..n : i < j => rs[i].hi < rs[j].lo

NamedUpTo(rs, k) == UNION {rs[i].lo .. rs[i].hi : i \in 1..k}

LEMMA ApartSeq ==
    ASSUME NEW n \in Nat, NEW rs, Apart(rs, n)
    PROVE  \E R : SpansOf(R) /\ rs \in Seq(R) /\ Len(rs) = n /\ NamedIn(rs) = NamedUpTo(rs, n)
<1>1. PICK R : R = {rs[i] : i \in 1..n}
  OBVIOUS
<1>2. rs \in Seq(R) /\ Len(rs) = n
  <2>1. [i \in 1..n |-> rs[i]] \in Seq(R) /\ Len([i \in 1..n |-> rs[i]]) = n
    BY <1>1
  <2> QED BY <2>1 DEF Apart
<1>3. SpansOf(R)
  BY <1>1 DEF Apart, SpansOf
<1>4. ToSet(rs) = R
  BY <1>1, <1>2 DEF ToSet
<1>5. NamedIn(rs) = NamedUpTo(rs, n)
  BY <1>1, <1>4 DEF NamedIn, NamedUpTo
<1> QED BY <1>2, <1>3, <1>5

LEMMA NamedNext ==
    ASSUME NEW n \in Nat, NEW rs, Apart(rs, n), NEW k \in Nat, NEW j \in 1..n, j = k + 1,
           IsFiniteSet(NamedUpTo(rs, k)), NEW c \in Int, c = Cardinality(NamedUpTo(rs, k))
    PROVE  /\ NamedUpTo(rs, j) = NamedUpTo(rs, k) \cup (rs[j].lo .. rs[j].hi)
           /\ IsFiniteSet(NamedUpTo(rs, j))
           /\ Cardinality(NamedUpTo(rs, j)) = c + rs[j].hi - rs[j].lo + 1
<1>1. PICK S : S = NamedUpTo(rs, k)
  OBVIOUS
<1>2. PICK a \in Int, b \in Int : a = rs[j].lo /\ b = rs[j].hi /\ a <= b
  BY DEF Apart
<1>3. NamedUpTo(rs, j) = S \cup (a..b)
  <2>1. 1..j = (1..k) \cup {j}
    OBVIOUS
  <2> QED BY <1>1, <1>2, <2>1 DEF NamedUpTo
<1>4. S \cap (a..b) = {}
  <2>1. ASSUME NEW i \in 1..k PROVE (rs[i].lo .. rs[i].hi) \cap (a..b) = {}
    <3>1. i \in 1..n /\ i < j
      OBVIOUS
    <3>2. rs[i].hi < a /\ rs[i].hi \in Int /\ rs[i].lo \in Int
      BY <1>2, <3>1 DEF Apart
    <3> QED BY <1>2, <3>2
  <2> QED BY <1>1, <2>1 DEF NamedUpTo
<1>5. IsFiniteSet(a..b) /\ Cardinality(a..b) = b - a + 1
  BY <1>2, FS_Interval
<1>6. /\ IsFiniteSet(S \cup (a..b))
      /\ Cardinality(S \cup (a..b)) = Cardinality(S) + Cardinality(a..b) - Cardinality(S \cap (a..b))
  BY <1>1, <1>5, FS_Union
<1>7. Cardinality(S \cap (a..b)) = 0
  BY <1>4, FS_EmptySet
<1>8. Cardinality(S \cup (a..b)) = c + b - a + 1
  BY <1>1, <1>2, <1>5, <1>6, <1>7, SMTT(20)
<1> QED BY <1>1, <1>2, <1>3, <1>6, <1>8

LEMMA NamedNone ==
    ASSUME NEW rs
    PROVE  NamedUpTo(rs, 0) = {} /\ IsFiniteSet(NamedUpTo(rs, 0)) /\ Cardinality(NamedUpTo(rs, 0)) = 0
<1>1. NamedUpTo(rs, 0) = {}
  BY DEF NamedUpTo
<1> QED BY <1>1, FS_EmptySet

LEMMA TotalIs ==
    ASSUME NEW n \in Nat, NEW rs, Apart(rs, n)
    PROVE  IsFiniteSet(NamedIn(rs)) /\ RunTotal(rs) = Cardinality(NamedIn(rs))
<1>1. PICK R : SpansOf(R) /\ rs \in Seq(R) /\ Len(rs) = n /\ NamedIn(rs) = NamedUpTo(rs, n)
  BY ApartSeq
<1>2. PICK g : TotalRun(g, rs) /\ RunTotal(rs) = g[Len(rs)]
  BY <1>1, TotalRuns
<1>3. g[0] = 0 /\ \A k \in 1..n : g[k] = g[k - 1] + rs[k].hi - rs[k].lo + 1
  BY <1>1, <1>2 DEF TotalRun, TotalStep
<1> DEFINE Sums(k) == k <= n => /\ IsFiniteSet(NamedUpTo(rs, k))
                                /\ g[k] = Cardinality(NamedUpTo(rs, k)) /\ g[k] \in Int
           G == {k \in Nat : Sums(k)}
<1>4. 0 \in G
  <2>1. Sums(0)
    BY <1>3, NamedNone
  <2> HIDE DEF Sums
  <2> QED BY <2>1
<1>5. ASSUME NEW k \in Nat, k \in G PROVE k + 1 \in G
  <2>1. CASE k + 1 <= n
    <3>1. PICK j \in 1..n : j = k + 1 /\ j - 1 = k
      <4>1. k + 1 \in 1..n /\ (k + 1) - 1 = k
        BY <2>1
      <4> QED BY <4>1
    <3>2. PICK c \in Int : c = g[k] /\ c = Cardinality(NamedUpTo(rs, k)) /\ IsFiniteSet(NamedUpTo(rs, k))
      BY <1>5, <2>1
    <3>3. IsFiniteSet(NamedUpTo(rs, j)) /\ Cardinality(NamedUpTo(rs, j)) = c + rs[j].hi - rs[j].lo + 1
      BY <3>1, <3>2, NamedNext
    <3>4. g[j] = c + rs[j].hi - rs[j].lo + 1
      BY <1>3, <3>1, <3>2
    <3>5. g[j] \in Int
      BY <3>1, <3>2, <3>4 DEF Apart
    <3>6. Sums(k + 1)
      BY <3>1, <3>3, <3>4, <3>5
    <3> HIDE DEF Sums
    <3> QED BY <3>6
  <2>2. CASE ~(k + 1 <= n)
    BY <2>2
  <2> QED BY <2>1, <2>2
<1>6. \A k \in Nat : k \in G
  <2> HIDE DEF G
  <2> QED BY <1>4, <1>5, UpFromZero
<1>7. IsFiniteSet(NamedUpTo(rs, n)) /\ g[n] = Cardinality(NamedUpTo(rs, n))
  BY <1>6
<1> QED BY <1>1, <1>2, <1>7

-----------------------------------------------------------------------------
\* A run is in the set and ends where the set does.
RunIn(r, S) ==
    /\ r.lo \in S /\ r.lo - 1 \notin S
    /\ r.hi \in S /\ r.lo <= r.hi /\ r.hi + 1 \notin S
    /\ \A x \in r.lo .. r.hi : x \in S

\* The runs of a set are in it and hold all of it.
LEMMA RunsAre ==
    ASSUME NEW b \in Nat, NEW S, S \subseteq 0..b, IsFiniteSet(S), NEW rs, rs = RunsOf(S)
    PROVE  \E n \in Nat : Apart(rs, n) /\ NamedUpTo(rs, n) = S
<1>0. S \subseteq Nat /\ \A a \in S : a \in Int
  OBVIOUS
<1>1. PICK D : D = {n \in S : n - 1 \notin S}
  OBVIOUS
<1>2. D \subseteq Int /\ IsFiniteSet(D)
  <2>1. D \subseteq S
    BY <1>1
  <2>2. IsFiniteSet(D)
    BY <2>1, FS_Subset
  <2> QED BY <2>1, <2>2
<1>3. PICK los : los = Ascending(D)
  OBVIOUS
<1>4. InSequence(los, D)
  BY <1>2, <1>3, AscendingIs
<1>5. PICK n \in Nat : /\ n = Len(los) /\ DOMAIN los = 1..n /\ \A i \in 1..n : los[i] \in D
                       /\ \A i, j \in 1..n : i < j => los[i] < los[j]
                       /\ \A x \in D : \E i \in 1..n : los[i] = x
  BY <1>4 DEF InSequence
<1>6. PICK End : End = [a \in S |-> {m \in S : m >= a /\ m + 1 \notin S}]
  OBVIOUS
<1>7. rs = [i \in 1..n |-> [lo |-> los[i], hi |-> Min(End[los[i]])]]
  <2>1. ASSUME NEW i \in 1..n PROVE End[los[i]] = {m \in S : m >= los[i] /\ m + 1 \notin S}
    BY <1>1, <1>5, <1>6
  <2>2. rs = [i \in 1..n |-> [lo |-> los[i], hi |-> Min({m \in S : m >= los[i] /\ m + 1 \notin S})]]
    BY <1>1, <1>3, <1>5 DEF RunsOf
  <2> QED BY <2>1, <2>2
<1>8. ASSUME NEW a \in S
      PROVE  /\ Min(End[a]) \in S /\ Min(End[a]) >= a /\ Min(End[a]) + 1 \notin S
             /\ a .. Min(End[a]) \subseteq S
  <2>1. PICK E : E = End[a] /\ E = {m \in S : m >= a /\ m + 1 \notin S}
    BY <1>6
  <2>2. S # {}
    OBVIOUS
  <2>3. PICK t \in S : \A x \in S : x <= t
    <3>1. Max(S) \in S /\ \A x \in S : x <= Max(S)
      BY <2>2, MaxIn
    <3> QED BY <3>1
  <2>4. t \in E
    <3>1. t >= a /\ ~(t + 1 <= t) /\ t \in Nat
      BY <1>0, <2>3
    <3> QED BY <2>1, <2>3, <3>1
  <2>5. PICK e : e = Min(E)
    OBVIOUS
  <2>6. e \in E /\ \A x \in E : e <= x
    <3>1. E \subseteq Nat /\ E # {}
      BY <1>0, <2>1, <2>4
    <3> QED BY <2>5, <3>1, MinIn
  <2>7. e \in S /\ e >= a /\ e + 1 \notin S
    BY <2>1, <2>6
  <2> DEFINE In(k) == a + k <= e => a + k \in S
             G == {k \in Nat : In(k)}
  <2>8. 0 \in G
    BY <2>7
  <2>9. ASSUME NEW k \in Nat, k \in G PROVE k + 1 \in G
    <3>1. CASE a + (k + 1) <= e
      <4>1. a + k \in S /\ ~(e <= a + k)
        BY <2>7, <2>9, <3>1
      <4>2. (a + k) + 1 \in S
        BY <2>1, <2>6, <4>1
      <4>3. In(k + 1)
        BY <4>2
      <4> HIDE DEF In
      <4> QED BY <4>3
    <3>2. CASE ~(a + (k + 1) <= e)
      BY <3>2
    <3> QED BY <3>1, <3>2
  <2>10. \A k \in Nat : k \in G
    <3> HIDE DEF G
    <3> QED BY <2>8, <2>9, UpFromZero
  <2>11. ASSUME NEW x \in a..e PROVE x \in S
    <3>1. x - a \in Nat /\ a + (x - a) = x
      OBVIOUS
    <3> QED BY <2>10, <3>1
  <2> QED BY <2>1, <2>5, <2>7, <2>11
<1>9. ASSUME NEW i \in 1..n PROVE rs[i].lo = los[i] /\ RunIn(rs[i], S)
  <2>1. PICK a \in S : a = los[i] /\ a - 1 \notin S
    BY <1>1, <1>5
  <2>2. PICK e \in S : e = Min(End[a]) /\ e >= a /\ e + 1 \notin S /\ a..e \subseteq S
    BY <1>8
  <2>3. rs[i] = [lo |-> a, hi |-> e]
    BY <1>7, <2>1, <2>2
  <2>4. rs[i].lo = a /\ rs[i].hi = e
    BY <2>3
  <2>5. a <= e /\ \A x \in a..e : x \in S
    BY <2>2
  <2>6. RunIn(rs[i], S)
    BY <2>1, <2>2, <2>4, <2>5 DEF RunIn
  <2> QED BY <2>1, <2>4, <2>6
<1>10. ASSUME NEW i \in 1..n, NEW j \in 1..n, i < j PROVE rs[i].hi < rs[j].lo
  <2>1. RunIn(rs[i], S) /\ RunIn(rs[j], S) /\ rs[i].lo < rs[j].lo
    <3>1. los[i] < los[j]
      BY <1>5, <1>10
    <3> QED BY <1>9, <3>1
  <2>3. rs[i].lo \in Int /\ rs[j].lo \in Int /\ rs[i].hi \in Int
    BY <1>0, <2>1 DEF RunIn
  <2>2. CASE rs[j].lo <= rs[i].hi
    <3>1. rs[j].lo - 1 \in rs[i].lo .. rs[i].hi
      BY <2>1, <2>2, <2>3
    <3> QED BY <2>1, <3>1 DEF RunIn
  <2> QED BY <2>1, <2>2, <2>3
<1>11. Apart(rs, n)
  <2>1. rs = [i \in 1..n |-> rs[i]]
    <3> DEFINE r(i) == [lo |-> los[i], hi |-> Min(End[los[i]])]
    <3>1. rs = [i \in 1..n |-> r(i)]
      BY <1>7
    <3> HIDE DEF r
    <3> QED BY <3>1
  <2>2. \A i \in 1..n : rs[i].lo \in Int /\ rs[i].hi \in Int /\ rs[i].lo <= rs[i].hi
    BY <1>0, <1>9 DEF RunIn
  <2> QED BY <1>10, <2>1, <2>2 DEF Apart
<1>12. ASSUME NEW x \in S PROVE \E i \in 1..n : x \in rs[i].lo .. rs[i].hi
  <2>1. PICK B : B = {m \in S : m..x \subseteq S /\ m <= x}
    OBVIOUS
  <2>2. x \in B
    BY <2>1
  <2>3. PICK a : a = Min(B)
    OBVIOUS
  <2>4. a \in B /\ \A m \in B : a <= m
    <3>1. B \subseteq Nat /\ B # {}
      BY <1>0, <2>1, <2>2
    <3> QED BY <2>3, <3>1, MinIn
  <2>5. a \in S /\ a..x \subseteq S /\ a <= x
    BY <2>1, <2>4
  <2>6. a - 1 \notin S
    <3>1. CASE a - 1 \in S
      <4>1. (a - 1)..x = (a..x) \cup {a - 1}
        BY <2>5
      <4>2. a - 1 \in B
        BY <2>1, <2>5, <3>1, <4>1
      <4> QED BY <2>4, <2>5, <4>2
    <3> QED BY <3>1
  <2>7. a \in D
    BY <1>1, <2>5, <2>6
  <2>8. PICK i \in 1..n : los[i] = a
    BY <1>5, <2>7
  <2>9. rs[i].lo = a /\ rs[i].hi \in Int /\ rs[i].hi >= a /\ rs[i].hi + 1 \notin S
    BY <1>0, <1>9, <2>8 DEF RunIn
  <2>10. ~(rs[i].hi < x)
    <3>1. CASE rs[i].hi < x
      <4>1. rs[i].hi + 1 \in a..x
        BY <2>5, <2>9, <3>1
      <4> QED BY <2>5, <2>9, <4>1
    <3> QED BY <3>1
  <2> QED BY <2>5, <2>8, <2>9, <2>10
<1>13. NamedUpTo(rs, n) = S
  <2>1. \A i \in 1..n : \A x \in rs[i].lo .. rs[i].hi : x \in S
    BY <1>9 DEF RunIn
  <2> QED BY <1>12, <2>1 DEF NamedUpTo
<1> QED BY <1>11, <1>13

LEMMA NamedApart ==
    ASSUME NEW n \in Nat, NEW rs, Apart(rs, n)
    PROVE  NamedIn(rs) = NamedUpTo(rs, n)
  BY ApartSeq

\* Some of the runs, those after the first m, and the first m.
LEMMA ApartSlice ==
    ASSUME NEW n \in Nat, NEW rs, Apart(rs, n), NEW m \in Nat, NEW k \in Nat, m + k <= n,
           NEW s, s = [j \in 1..k |-> s[j]], \A j \in 1..k : s[j] = rs[m + j]
    PROVE  Apart(s, k)
<1>1. ASSUME NEW j \in 1..k PROVE s[j].lo \in Int /\ s[j].hi \in Int /\ s[j].lo <= s[j].hi
  <2>1. m + j \in 1..n /\ s[j] = rs[m + j]
    OBVIOUS
  <2> QED BY <2>1 DEF Apart
<1>2. ASSUME NEW i \in 1..k, NEW j \in 1..k, i < j PROVE s[i].hi < s[j].lo
  <2>1. m + j \in 1..n /\ s[j] = rs[m + j] /\ m + i \in 1..n /\ s[i] = rs[m + i] /\ m + i < m + j
    BY <1>2
  <2> QED BY <2>1 DEF Apart
<1> QED BY <1>1, <1>2 DEF Apart

LEMMA ApartPrefix ==
    ASSUME NEW n \in Nat, NEW rs, Apart(rs, n), NEW m \in 0..n,
           NEW s, s = [j \in 1..m |-> s[j]], \A j \in 1..m : s[j] = rs[j]
    PROVE  Apart(s, m)
<1>1. ASSUME NEW j \in 1..m PROVE s[j].lo \in Int /\ s[j].hi \in Int /\ s[j].lo <= s[j].hi
  <2>1. j \in 1..n /\ s[j] = rs[j]
    OBVIOUS
  <2> QED BY <2>1 DEF Apart
<1>2. ASSUME NEW i \in 1..m, NEW j \in 1..m, i < j PROVE s[i].hi < s[j].lo
  <2>1. j \in 1..n /\ s[j] = rs[j] /\ i \in 1..n /\ s[i] = rs[i]
    OBVIOUS
  <2> QED BY <1>2, <2>1 DEF Apart
<1> QED BY <1>1, <1>2 DEF Apart

\* A span names lines of the set only, and counts the others.
SpanOf(span, S) ==
    /\ NamedIn(span.listed) \subseteq S
    /\ Cardinality(NamedIn(span.listed)) + span.overflow = Cardinality(S)
    /\ \E n \in Nat : Apart(span.listed, n)

LEMMA LineSetIs ==
    ASSUME NEW b \in Nat, NEW S, S \subseteq 0..b, IsFiniteSet(S), NEW nums, ToSet(nums) = S
    PROVE  SpanOf(renderLineSet(nums), S)
<1>1. PICK rs : rs = RunsOf(S)
  OBVIOUS
<1>2. PICK n \in Nat : Apart(rs, n) /\ NamedUpTo(rs, n) = S
  BY <1>1, RunsAre
<1>3. PICK R : SpansOf(R) /\ rs \in Seq(R) /\ Len(rs) = n
  BY <1>2, ApartSeq
<1>4. PICK m : m = Min({RunCap, n})
  OBVIOUS
<1>5. m \in 0..n
  <2>1. {RunCap, n} \subseteq Nat /\ {RunCap, n} # {}
    BY BoundsAssumption DEF BoundsAssumption
  <2>2. m \in {RunCap, n} /\ \A i \in {RunCap, n} : m <= i
    BY <1>4, <2>1, MinIn
  <2> QED BY <2>1, <2>2
<1>6. PICK listed : listed = Prefix(rs, m)
  OBVIOUS
<1>7. listed \in Seq(R) /\ Len(listed) = m /\ \A j \in 1..m : listed[j] = rs[j]
  BY <1>3, <1>5, <1>6, SuffixIs
<1>30. PICK k \in Nat : k = n - m /\ m + k = n
  BY <1>5
<1>31. PICK rest : rest = SubSeq(rs, m + 1, m + k)
  OBVIOUS
<1>8. rest = SubSeq(rs, m + 1, n) /\ k = n - m /\ k \in Nat /\ m + k = n
  BY <1>30, <1>31
<1>9. rest \in Seq(R) /\ Len(rest) = k /\ \A j \in 1..k : rest[j] = rs[m + j]
  <2>1. m \in Nat /\ k \in Nat /\ m + k <= Len(rs) /\ rs \in Seq(R)
    BY <1>3, <1>5, <1>8
  <2>2. /\ SubSeq(rs, m + 1, m + k) \in Seq(R)
        /\ Len(SubSeq(rs, m + 1, m + k)) = k
        /\ \A j \in 1..k : SubSeq(rs, m + 1, m + k)[j] = rs[m + j]
    BY <2>1, Slice
  <2> QED BY <1>31, <2>2
<1>10. Apart(listed, m)
  <2>1. listed = [j \in 1..m |-> listed[j]] /\ \A j \in 1..m : listed[j] = rs[j]
    BY <1>7
  <2>2. m \in 0..n /\ Apart(rs, n)
    BY <1>2, <1>5
  <2> QED BY <2>1, <2>2, ApartPrefix
<1>11. Apart(rest, k)
  <2>1. rest = [j \in 1..k |-> rest[j]] /\ \A j \in 1..k : rest[j] = rs[m + j]
    BY <1>9
  <2>2. m \in Nat /\ k \in Nat /\ m + k <= n
    BY <1>5, <1>8
  <2> QED BY <1>2, <2>1, <2>2, ApartSlice
<1>12. PICK A, B : A = NamedIn(listed) /\ B = NamedIn(rest)
  OBVIOUS
<1>13. A = NamedUpTo(listed, m) /\ B = NamedUpTo(rest, k)
  BY <1>5, <1>8, <1>10, <1>11, <1>12, NamedApart
<1>14. IsFiniteSet(A) /\ IsFiniteSet(B) /\ RunTotal(rest) = Cardinality(B)
  <2>1. m \in Nat /\ k \in Nat
    BY <1>5, <1>8
  <2> QED BY <1>10, <1>11, <1>12, <2>1, TotalIs
<1>15. A \cup B = S
  <2>1. \A x : x \in A <=> \E i \in 1..m : x \in rs[i].lo .. rs[i].hi
    BY <1>7, <1>13 DEF NamedUpTo
  <2>2. \A x : x \in B <=> \E i \in 1..k : x \in rs[m + i].lo .. rs[m + i].hi
    BY <1>9, <1>13 DEF NamedUpTo
  <2>3. \A x : x \in S <=> \E i \in 1..n : x \in rs[i].lo .. rs[i].hi
    BY <1>2 DEF NamedUpTo
  <2>4. \A i \in 1..n : i \in 1..m \/ (i - m \in 1..k /\ m + (i - m) = i)
    BY <1>5, <1>8
  <2>5. (\A i \in 1..m : i \in 1..n) /\ \A i \in 1..k : m + i \in 1..n
    BY <1>5, <1>8
  <2>6. ASSUME NEW x \in S PROVE x \in A \/ x \in B
    <3>1. PICK i \in 1..n : x \in rs[i].lo .. rs[i].hi
      BY <2>3
    <3>2. CASE i \in 1..m
      BY <2>1, <3>1, <3>2
    <3>3. CASE i - m \in 1..k /\ m + (i - m) = i
      BY <2>2, <3>1, <3>3
    <3> QED BY <2>4, <3>2, <3>3
  <2>7. A \subseteq S
    BY <2>1, <2>3, <2>5
  <2>8. B \subseteq S
    BY <2>2, <2>3, <2>5
  <2> QED BY <2>6, <2>7, <2>8
<1>16. A \cap B = {}
  <2>1. ASSUME NEW i \in 1..m, NEW j \in 1..k
        PROVE  (listed[i].lo .. listed[i].hi) \cap (rest[j].lo .. rest[j].hi) = {}
    <3>1. i \in 1..n /\ m + j \in 1..n /\ i < m + j /\ listed[i] = rs[i] /\ rest[j] = rs[m + j]
      BY <1>5, <1>7, <1>8, <1>9
    <3>2. rs[i].hi < rs[m + j].lo /\ rs[i].hi \in Int /\ rs[m + j].lo \in Int
      BY <1>2, <3>1 DEF Apart
    <3>3. rs[i].lo \in Int /\ rs[m + j].hi \in Int
      BY <1>2, <3>1 DEF Apart
    <3> QED BY <3>1, <3>2, <3>3
  <2> QED BY <1>13, <2>1 DEF NamedUpTo
<1>17. Cardinality(A \cup B) = Cardinality(A) + Cardinality(B) - Cardinality(A \cap B)
  BY <1>14, FS_Union
<1>18. Cardinality(A \cap B) = 0 /\ Cardinality(A) \in Nat /\ Cardinality(B) \in Nat
  BY <1>14, <1>16, FS_EmptySet, FS_CardinalityType
<1>19. PICK span : span = renderLineSet(nums)
  OBVIOUS
<1>20. span.listed = listed /\ span.overflow = RunTotal(rest)
  <2>1. span = [listed |-> SubSeq(rs, 1, m), overflow |-> RunTotal(SubSeq(rs, Len(SubSeq(rs, 1, m)) + 1, n))]
    BY <1>1, <1>3, <1>4, <1>19 DEF renderLineSet
  <2>2. SubSeq(rs, 1, m) = listed
    BY <1>6 DEF Prefix
  <2>3. SubSeq(rs, m + 1, n) = rest
    BY <1>8
  <2> QED BY <1>7, <2>1, <2>2, <2>3
<1>21. Cardinality(A) + span.overflow = Cardinality(S)
  <2>1. Cardinality(S) = Cardinality(A) + Cardinality(B) - Cardinality(A \cap B)
    BY <1>15, <1>17
  <2>2. span.overflow = Cardinality(B)
    BY <1>14, <1>20
  <2> QED BY <1>18, <2>1, <2>2
<1>22. m \in Nat
  BY <1>5
<1>23. SpanOf(span, S)
  BY <1>10, <1>12, <1>15, <1>20, <1>21, <1>22 DEF SpanOf
<1> QED BY <1>19, <1>23

-----------------------------------------------------------------------------
\* As many numbers as a group has, in order.
LEMMA OrderedCount ==
    ASSUME NEW n \in Nat, NEW b \in Nat, NEW s, s = [i \in 1..n |-> s[i]], \A i \in 1..n : s[i] \in 0..b,
           \A i, j \in 1..n : i < j => s[i] < s[j]
    PROVE  ToSet(s) \subseteq 0..b /\ IsFiniteSet(ToSet(s)) /\ Cardinality(ToSet(s)) = n
<1>1. PICK S : S = ToSet(s)
  OBVIOUS
<1>2. S = {s[i] : i \in 1..n}
  BY <1>1 DEF ToSet
<1>3. S \subseteq 0..b /\ IsFiniteSet(S)
  <2>1. S \subseteq 0..b
    BY <1>2
  <2>2. 0 \in Int /\ b \in Int
    OBVIOUS
  <2>3. IsFiniteSet(0..b)
    BY <2>2, FS_Interval
  <2> QED BY <2>1, <2>3, FS_Subset
<1>4. s \in Bijection(1..n, S)
  <2>1. s \in [1..n -> S]
    BY <1>2
  <2>2. \A i, j \in 1..n : s[i] = s[j] => i = j
    <3>1. \A i, j \in 1..n : i # j => i < j \/ j < i
      OBVIOUS
    <3>2. \A i \in 1..n : s[i] \in Int
      OBVIOUS
    <3> QED BY <3>1, <3>2
  <2>3. \A t \in S : \E i \in 1..n : s[i] = t
    BY <1>2
  <2> QED BY <2>1, <2>2, <2>3 DEF Bijection, Injection, Surjection, IsInjective
<1>5. ExistsBijection(1..n, S)
  BY <1>4 DEF ExistsBijection
<1>6. Cardinality(S) = n
  BY <1>3, <1>5, FS_CountingElements
<1> QED BY <1>1, <1>3, <1>6

-----------------------------------------------------------------------------
(* The values of a slot.                                                   *)

\* The number a value is.
NumberStep(n, c) == 10 * n + (IF c = "1" THEN 1 ELSE 2)

LEMMA NumberStepIs ==
    ASSUME NEW n \in Nat, NEW c
    PROVE  NumberStep(n, c) \in Nat
<1>1. PICK d \in Nat : d = IF c = "1" THEN 1 ELSE 2
  OBVIOUS
<1>2. NumberStep(n, c) = 10 * n + d
  BY <1>1 DEF NumberStep
<1> QED BY <1>2

NumberRun(g, digits) ==
    /\ g \in [0..Len(digits) -> Nat]
    /\ g[0] = 0
    /\ \A k \in 1..Len(digits) : g[k] = NumberStep(g[k - 1], digits[k])

LEMMA NumberRuns ==
    ASSUME NEW C, NEW digits \in Seq(C)
    PROVE  \E g : NumberRun(g, digits) /\ Number(digits) = g[Len(digits)]
<1>1. PICK n \in Nat : n = Len(digits) /\ DOMAIN digits = 1..n
  OBVIOUS
<1>2. PICK V : V = Nat
  OBVIOUS
<1>3. PICK base \in V : base = 0
  <2>1. 0 \in Nat
    OBVIOUS
  <2> QED BY <1>2, <2>1
<1>4. PICK step : step = [p \in (1..n) \X V |-> NumberStep(p[2], digits[p[1]])]
  OBVIOUS
<1>5. ASSUME NEW k \in 1..n, NEW v \in V
      PROVE  step[<<k, v>>] = NumberStep(v, digits[k]) /\ NumberStep(v, digits[k]) \in V
  <2>1. step[<<k, v>>] = NumberStep(v, digits[k])
    BY <1>4
  <2>2. digits[k] \in C
    BY <1>1
  <2> QED BY <1>2, <2>1, <2>2, NumberStepIs
<1>6. StepsIn(step, 1..n, V)
  BY <1>5, Zenon DEF StepsIn
<1> DEFINE Is(f) == f = [T \in SUBSET DOMAIN digits |->
                           IF T = {} THEN 0
                           ELSE NumberStep(f[T \ {Max(T)}], digits[Max(T)])]
<1>7. \E f : Is(f)
  <2>1. PICK it \in [SUBSET (1..n) -> V] : LeftSteps(it, n, V, base, step)
    BY <1>6, LeftFoldSteps
  <2>2. ASSUME NEW T \in SUBSET (1..n)
        PROVE  it[T] = IF T = {} THEN 0 ELSE NumberStep(it[T \ {Max(T)}], digits[Max(T)])
    BY <1>3, <1>5, <2>1 DEF LeftSteps
  <2> QED BY <1>1, <2>2
<1>8. PICK f : f = CHOOSE h : Is(h)
  OBVIOUS
<1>9. Number(digits) = f[1..n]
  BY <1>1, <1>8 DEF Number, FoldLeft, MapThenFoldSet, NumberStep
<1>10. Is(f)
  <2> HIDE DEF Is
  <2> QED BY <1>7, <1>8
<1>11. \A T \in SUBSET (1..n) :
         f[T] = IF T = {} THEN base ELSE NumberStep(f[T \ {Max(T)}], digits[Max(T)])
  BY <1>1, <1>3, <1>10
<1> HIDE DEF Is
<1>12. f[{}] = base
  BY <1>11
<1>13. ASSUME NEW k \in 1..n, f[1..(k - 1)] \in V
       PROVE  f[1..k] = step[<<k, f[1..(k - 1)]>>]
  <2>1. 1..k \in SUBSET (1..n) /\ 1..k # {} /\ Max(1..k) = k /\ (1..k) \ {k} = 1..(k - 1)
    BY Positions
  <2>2. f[1..k] = NumberStep(f[1..(k - 1)], digits[k])
    BY <1>11, <2>1
  <2> QED BY <1>5, <1>13, <2>2
<1>14. PICK g : Ran(g, n, V, base, step) /\ g[n] = f[1..n]
  BY <1>6, <1>12, <1>13, FoldedRun
<1>15. ASSUME NEW k \in 1..n PROVE g[k] = NumberStep(g[k - 1], digits[k])
  <2>1. g[k] = step[<<k, g[k - 1]>>] /\ g[k - 1] \in V
    <3>1. k - 1 \in 0..n
      OBVIOUS
    <3> QED BY <1>14, <3>1 DEF Ran
  <2> QED BY <1>5, <2>1
<1>16. NumberRun(g, digits)
  BY <1>1, <1>2, <1>3, <1>14, <1>15 DEF NumberRun, Ran
<1> QED BY <1>1, <1>9, <1>14, <1>16

LEMMA NumberNat ==
    ASSUME NEW C, NEW digits \in Seq(C)
    PROVE  Number(digits) \in Nat
<1>1. PICK g : NumberRun(g, digits) /\ Number(digits) = g[Len(digits)]
  BY NumberRuns
<1> QED BY <1>1 DEF NumberRun

LEMMA RisesAll ==
    ASSUME NEW C, NEW u \in Seq(Seq(C)), Rising(u), NEW i \in 1..Len(u), NEW j \in i..Len(u)
    PROVE  Number(u[i]) <= Number(u[j])
<1>1. PICK n \in Nat : n = Len(u)
  OBVIOUS
<1>2. PICK h : h = [k \in 1..n |-> Number(u[k])]
  OBVIOUS
<1>3. ASSUME NEW k \in 1..n PROVE h[k] = Number(u[k]) /\ h[k] \in Nat
  <2>1. PICK d \in Seq(C) : d = u[k]
    BY <1>1
  <2>2. Number(d) \in Nat
    BY NumberNat
  <2> QED BY <1>2, <2>1, <2>2
<1>4. \A k \in 1..(n - 1) : h[k] < h[k + 1]
  <2>1. \A k \in 1..(n - 1) : Number(u[k]) < Number(u[k + 1])
    BY <1>1 DEF Rising
  <2>2. ASSUME NEW k \in 1..(n - 1) PROVE h[k] < h[k + 1]
    <3>1. k \in 1..n /\ k + 1 \in 1..n
      OBVIOUS
    <3>2. h[k] = Number(u[k]) /\ h[k + 1] = Number(u[k + 1])
      BY <1>3, <3>1
    <3> QED BY <2>1, <3>2
  <2> QED BY <2>2
<1>5. i \in 1..n /\ j \in 1..n /\ i <= j
  BY <1>1
<1> DEFINE Least(k) == i + k <= n => h[i] <= h[i + k]
           G == {k \in Nat : Least(k)}
<1>6. 0 \in G
  BY <1>3, <1>5
<1>7. ASSUME NEW k \in Nat, k \in G PROVE k + 1 \in G
  <2>1. CASE i + (k + 1) <= n
    <3>1. PICK m \in 1..(n - 1) : m = i + k /\ m + 1 = i + (k + 1)
      BY <1>5, <2>1
    <3>2. h[i] <= h[m] /\ h[m] < h[m + 1]
      BY <1>4, <1>7, <3>1
    <3>3. h[i] \in Nat /\ h[m] \in Nat /\ h[m + 1] \in Nat
      BY <1>3, <1>5, <3>1
    <3>4. Least(k + 1)
      BY <3>1, <3>2, <3>3
    <3> HIDE DEF Least
    <3> QED BY <3>4
  <2>2. CASE ~(i + (k + 1) <= n)
    BY <2>2
  <2> QED BY <2>1, <2>2
<1>8. \A k \in Nat : k \in G
  <2> HIDE DEF G
  <2> QED BY <1>6, <1>7, UpFromZero
<1>9. PICK k \in Nat : k = j - i /\ i + k = j
  BY <1>5
<1>10. h[i] <= h[j]
  <2>1. k \in G
    BY <1>8
  <2>2. Least(k)
    BY <2>1
  <2> QED BY <1>5, <1>9, <2>2
<1> QED BY <1>3, <1>5, <1>10

-----------------------------------------------------------------------------
LEMMA DistinctCount ==
    ASSUME NEW L, NEW u \in Seq(L), Distinct(u)
    PROVE  IsFiniteSet(ToSet(u)) /\ Cardinality(ToSet(u)) = Len(u)
<1>1. PICK n \in Nat : n = Len(u) /\ DOMAIN u = 1..n
  OBVIOUS
<1>2. PICK S : S = ToSet(u)
  OBVIOUS
<1>3. S = {u[i] : i \in 1..n}
  BY <1>1, <1>2 DEF ToSet
<1>4. u \in Bijection(1..n, S)
  <2>1. u \in [1..n -> S]
    BY <1>1, <1>3
  <2>2. \A i, j \in 1..n : u[i] = u[j] => i = j
    BY <1>1 DEF Distinct
  <2>3. \A t \in S : \E i \in 1..n : u[i] = t
    BY <1>3
  <2> QED BY <2>1, <2>2, <2>3 DEF Bijection, Injection, Surjection, IsInjective
<1>5. ExistsBijection(1..n, S)
  BY <1>4 DEF ExistsBijection
<1>6. IsFiniteSet(1..n) /\ Cardinality(1..n) = n
  <2>1. 1 \in Int /\ n \in Int
    OBVIOUS
  <2> QED BY <2>1, FS_Interval
<1>7. u \in Surjection(1..n, S)
  BY <1>4 DEF Bijection
<1>8. IsFiniteSet(S)
  BY <1>6, <1>7, FS_Surjection
<1>9. Cardinality(S) = n
  BY <1>5, <1>8, FS_CountingElements
<1> QED BY <1>1, <1>2, <1>8, <1>9

\* What is said of the values of a slot is so.
SaidOf(said, values) ==
    /\ ToSet(said.values) \subseteq values
    /\ Len(said.values) + said.more = Cardinality(values)
    /\ said.shape = "range" =>
          \A v \in values : Number(v) \in Number(said.values[1])..Number(said.values[2])

LEMMA SomeSaid ==
    ASSUME NEW L, NEW u \in Seq(L), Distinct(u), NEW k \in 0..Len(u), NEW said,
           said.values = SubSeq(u, 1, k), said.more = Len(u) - k, said.shape # "range"
    PROVE  SaidOf(said, ToSet(u))
<1>1. PICK n \in Nat : n = Len(u) /\ DOMAIN u = 1..n
  OBVIOUS
<1>2. PICK vs : vs = Prefix(u, k)
  OBVIOUS
<1>3. vs \in Seq(L) /\ Len(vs) = k /\ \A j \in 1..k : vs[j] = u[j]
  BY <1>2, SuffixIs
<1>4. said.values = vs
  BY <1>2 DEF Prefix
<1>5. PICK S : S = ToSet(u)
  OBVIOUS
<1>6. Cardinality(S) = n
  BY <1>1, <1>5, DistinctCount
<1>7. ToSet(vs) \subseteq S
  <2>1. DOMAIN vs = 1..k /\ \A j \in 1..k : j \in 1..n
    BY <1>1, <1>3
  <2> QED BY <1>1, <1>3, <1>5, <2>1 DEF ToSet
<1>8. k + (n - k) = n
  BY <1>1
<1>9. SaidOf(said, S)
  BY <1>1, <1>3, <1>4, <1>6, <1>7, <1>8 DEF SaidOf
<1> QED BY <1>5, <1>9

LEMMA SaidIs ==
    ASSUME NEW C, NEW u \in Seq(Seq(C)), Distinct(u), Len(u) > 1, NEW nrows
    PROVE  SaidOf(describeSlot(u, nrows), ToSet(u))
<1>1. PICK L : L = Seq(C)
  OBVIOUS
<1>2. PICK n \in Nat : n = Len(u) /\ DOMAIN u = 1..n /\ n > 1
  OBVIOUS
<1>3. u \in Seq(L)
  BY <1>1
<1>4. PICK said : said = describeSlot(u, nrows)
  OBVIOUS
<1>5. CASE Len(u) > 2 /\ Rising(u)
  <2>1. PICK a \in L, b \in L : a = u[1] /\ b = Last(u)
    BY <1>2, <1>3, LastIs
  <2>2. b = u[n]
    BY <1>2, <2>1 DEF Last
  <2>3. said = [shape |-> "range", values |-> <<a, b>>, more |-> n - 2]
    BY <1>2, <1>4, <1>5, <2>1 DEF describeSlot
  <2>4. PICK vs : vs = <<a, b>>
    OBVIOUS
  <2>5. said.values = vs /\ said.more = n - 2
    BY <2>3, <2>4
  <2>6. Len(vs) = 2 /\ vs[1] = a /\ vs[2] = b /\ DOMAIN vs = 1..2
    BY <2>4
  <2>7. PICK S : S = ToSet(u)
    OBVIOUS
  <2>8. S = {u[i] : i \in 1..n}
    BY <1>2, <2>7 DEF ToSet
  <2>9. ToSet(vs) \subseteq S
    <3>1. a \in S /\ b \in S
      BY <1>2, <2>1, <2>2, <2>8
    <3>2. \A i \in 1..2 : i = 1 \/ i = 2
      OBVIOUS
    <3> QED BY <2>6, <3>1, <3>2 DEF ToSet
  <2>10. Cardinality(S) = n
    BY <1>2, <1>3, <2>7, DistinctCount
  <2>11. ASSUME NEW v \in S PROVE Number(v) \in Number(a)..Number(b)
    <3>1. PICK i \in 1..n : u[i] = v
      BY <2>8
    <3>2. Number(u[1]) <= Number(u[i])
      <4>1. 1 \in 1..Len(u) /\ i \in 1..Len(u)
        BY <1>2
      <4> QED BY <1>5, <4>1, RisesAll
    <3>3. Number(u[i]) <= Number(u[n])
      <4>1. i \in 1..Len(u) /\ n \in i..Len(u)
        BY <1>2
      <4> QED BY <1>5, <4>1, RisesAll
    <3>4. a \in Seq(C) /\ b \in Seq(C) /\ v \in Seq(C)
      BY <1>1, <1>2, <2>1, <3>1
    <3>5. Number(a) \in Nat /\ Number(b) \in Nat /\ Number(v) \in Nat
      BY <3>4, NumberNat
    <3>6. Number(a) <= Number(v) /\ Number(v) <= Number(b)
      BY <2>1, <2>2, <3>1, <3>2, <3>3
    <3> QED BY <3>5, <3>6
  <2>12. SaidOf(said, S)
    <3>1. Len(said.values) + said.more = Cardinality(S)
      BY <1>2, <2>5, <2>6, <2>10
    <3>2. ToSet(said.values) \subseteq S
      BY <2>5, <2>9
    <3>3. \A v \in S : Number(v) \in Number(said.values[1])..Number(said.values[2])
      BY <2>5, <2>6, <2>11
    <3> QED BY <3>1, <3>2, <3>3 DEF SaidOf
  <2> QED BY <1>4, <2>7, <2>12
<1>6. Min({ListMax, n}) \in 0..n
  <2>1. {ListMax, n} \subseteq Nat /\ {ListMax, n} # {}
    BY BoundsAssumption DEF BoundsAssumption
  <2>2. Min({ListMax, n}) \in {ListMax, n} /\ \A i \in {ListMax, n} : Min({ListMax, n}) <= i
    BY <2>1, MinIn
  <2> QED BY <2>1, <2>2
<1>7. CASE ~(Len(u) > 2 /\ Rising(u)) /\ Len(u) = nrows /\ Len(u) > OpaqueMin
  <2>1. PICK vs : vs = SubSeq(u, 1, 2)
    OBVIOUS
  <2>2. said = [shape |-> "sample", values |-> vs, more |-> n - 2]
    BY <1>2, <1>4, <1>7, <2>1 DEF describeSlot
  <2>3. said.values = SubSeq(u, 1, 2) /\ said.more = Len(u) - 2 /\ said.shape # "range"
    BY <1>2, <2>1, <2>2
  <2>4. 2 \in 0..Len(u)
    BY <1>2
  <2> QED BY <1>3, <1>4, <2>3, <2>4, SomeSaid
<1>8. CASE ~(Len(u) > 2 /\ Rising(u)) /\ ~(Len(u) = nrows /\ Len(u) > OpaqueMin)
  <2>1. PICK k \in 0..n : k = Min({ListMax, n})
    BY <1>6
  <2>2. PICK vs : vs = SubSeq(u, 1, k)
    OBVIOUS
  <2>3. said = [shape |-> "list", values |-> vs, more |-> n - k]
    BY <1>2, <1>4, <1>8, <2>1, <2>2 DEF describeSlot
  <2>4. said.values = SubSeq(u, 1, k) /\ said.more = Len(u) - k /\ said.shape # "range"
    BY <1>2, <2>2, <2>3
  <2>5. k \in 0..Len(u)
    BY <1>2
  <2> QED BY <1>3, <1>4, <2>4, <2>5, SomeSaid
<1> QED BY <1>5, <1>7, <1>8

-----------------------------------------------------------------------------
(* Rows are true of their groups.                                          *)

\* What a row says of its group.
HeadOf(of, g) ==
    /\ of.count = Len(g.lines)
    /\ NamedIn(of.span.listed) \subseteq ToSet(g.lines)
    /\ Cardinality(NamedIn(of.span.listed)) + of.span.overflow = Len(g.lines)
    /\ \A k \in DOMAIN g.rows, i \in DOMAIN of.fixed : g.rows[k][i] = of.fixed[i]

ValuesOf(of, g) == SaidOf(of.said, {g.rows[k][of.slot] : k \in DOMAIN g.rows})

Tells(row, g) ==
    /\ row.kind \in {"group", "slot"} /\ row.of.template = g.template
    /\ row.kind = "group" => HeadOf(row.of, g) /\ \E n \in Nat : Apart(row.of.span.listed, n)
    /\ row.kind = "slot" => ValuesOf(row.of, g)

LEMMA TellsIs ==
    ASSUME NEW row, NEW g, Tells(row, g)
    PROVE  RowIsOf(row, g)
<1>1. CASE row.kind = "group"
  <2>1. HeadOf(row.of, g)
    BY <1>1 DEF Tells
  <2> QED BY <1>1, <2>1 DEF HeadOf, RowIsOf
<1>2. CASE row.kind = "slot"
  <2>1. ValuesOf(row.of, g)
    BY <1>2 DEF Tells
  <2> QED BY <1>2, <2>1 DEF ValuesOf, SaidOf, RowIsOf
<1> QED BY <1>1, <1>2 DEF Tells

\* The numbers of a group's lines.
LEMMA GroupNumbers ==
    ASSUME NEW ls \in Seq(Seq(Token)), NEW f \in Nat, NEW g, NEW A, GroupOf(g, A, ls, f)
    PROVE  /\ SpanOf(renderLineSet(g.lines), ToSet(g.lines))
           /\ Cardinality(ToSet(g.lines)) = Len(g.lines)
           /\ DOMAIN g.rows = 1..Len(g.lines) /\ Len(g.lines) \in Nat \ {0}
<1>1. PICK ms : IsGroupOf(g, ms, A, ls, f)
  BY DEF GroupOf
<1>2. PICK q \in Nat : /\ q = Len(ms) /\ q # 0 /\ \A k \in 1..q : ms[k] \in A
                       /\ \A j, k \in 1..q : j < k => ms[j] < ms[k]
  BY <1>1 DEF IsGroupOf, InSequence
<1>3. PICK n \in Nat : n = Len(ls)
  OBVIOUS
<1>4. A \subseteq 1..n
  BY <1>3 DEF GroupOf, Showing
<1>5. PICK b \in Nat : b = f + n
  OBVIOUS
<1>6. PICK gl : gl = g.lines /\ gl = [k \in 1..q |-> gl[k]] /\ \A k \in 1..q : gl[k] = f + ms[k] - 1
  BY <1>1, <1>2 DEF IsGroupOf, HoldsLine
<1>7. ASSUME NEW k \in 1..q PROVE gl[k] \in 0..b /\ ms[k] \in Nat
  <2>1. PICK m \in 1..n : m = ms[k]
    BY <1>2, <1>4
  <2>2. gl[k] = f + m - 1
    BY <1>6, <2>1
  <2> QED BY <1>5, <2>1, <2>2
<1>8. \A j, k \in 1..q : j < k => gl[j] < gl[k]
  BY <1>2, <1>6, <1>7
<1>9. PICK S : S = ToSet(gl)
  OBVIOUS
<1>10. S \subseteq 0..b /\ IsFiniteSet(S) /\ Cardinality(S) = q
  BY <1>6, <1>7, <1>8, <1>9, OrderedCount
<1>11. SpanOf(renderLineSet(gl), S)
  BY <1>9, <1>10, LineSetIs
<1>12. Len(gl) = q
  <2>1. PICK V : V = {gl[k] : k \in 1..q}
    OBVIOUS
  <2>2. [k \in 1..q |-> gl[k]] \in Seq(V) /\ Len([k \in 1..q |-> gl[k]]) = q
    BY <2>1
  <2> QED BY <1>6, <2>2
<1>13. DOMAIN g.rows = 1..q
  BY <1>1, <1>2 DEF IsGroupOf
<1>14. /\ SpanOf(renderLineSet(gl), ToSet(gl)) /\ Cardinality(ToSet(gl)) = Len(gl)
       /\ DOMAIN g.rows = 1..Len(gl) /\ Len(gl) \in Nat \ {0}
  BY <1>2, <1>9, <1>10, <1>11, <1>12, <1>13
<1> QED BY <1>6, <1>14

\* A column that has one value has it everywhere.
LEMMA SameValue ==
    ASSUME NEW L, NEW s \in Seq(L), ~(Len(Uniq(s)) > 1), NEW j \in 1..Len(s), NEW k \in 1..Len(s)
    PROVE  s[j] = s[k]
<1>1. PICK u \in Seq(L) : /\ u = Uniq(s)
                          /\ \A x : (\E i \in 1..Len(u) : u[i] = x) <=> \E i \in 1..Len(s) : s[i] = x
  <2>1. /\ Uniq(s) \in Seq(L)
        /\ \A x : (\E i \in 1..Len(Uniq(s)) : Uniq(s)[i] = x) <=> \E i \in 1..Len(s) : s[i] = x
    BY UniqIs
  <2> QED BY <2>1
<1>2. PICK a \in 1..Len(u) : u[a] = s[j]
  BY <1>1
<1>3. PICK b \in 1..Len(u) : u[b] = s[k]
  BY <1>1
<1>4. PICK m \in Nat : m = Len(u) /\ ~(m > 1)
  BY <1>1
<1>5. a = b
  BY <1>4
<1> QED BY <1>2, <1>3, <1>5

\* The rows of a group: its head, then its slots, all true of it.
GroupTold(rows, g) ==
    \E q \in Nat \ {0} : /\ rows = [i \in 1..q |-> rows[i]]
                         /\ rows[1].kind = "group"
                         /\ \A i \in 1..q : Tells(rows[i], g)

LEMMA UniqSame ==
    ASSUME NEW L, NEW s \in Seq(L)
    PROVE  Uniq(s) \in Seq(L) /\ Distinct(Uniq(s)) /\ ToSet(Uniq(s)) = ToSet(s)
<1>1. /\ Uniq(s) \in Seq(L) /\ Distinct(Uniq(s))
      /\ \A x : (\E i \in 1..Len(Uniq(s)) : Uniq(s)[i] = x) <=> \E i \in 1..Len(s) : s[i] = x
  BY UniqIs
<1>2. PICK u \in Seq(L) : u = Uniq(s)
  BY <1>1
<1>3. \A x : (\E i \in 1..Len(u) : u[i] = x) <=> \E i \in 1..Len(s) : s[i] = x
  BY <1>1, <1>2
<1>4. DOMAIN u = 1..Len(u) /\ DOMAIN s = 1..Len(s)
  BY <1>2
<1>5. \A x : x \in ToSet(u) <=> x \in ToSet(s)
  BY <1>3, <1>4 DEF ToSet
<1>6. ToSet(u) = ToSet(s)
  BY <1>5
<1> QED BY <1>1, <1>2, <1>6

\* What is fixed in a head is so in every row, and what varies has a row of its own.
LEMMA GroupRowsTell ==
    ASSUME NEW ls \in Seq(Seq(Token)), NEW f \in Nat, NEW g, NEW A, GroupOf(g, A, ls, f), IsGroup(Token, g)
    PROVE  GroupTold(RenderTemplateGroup(g), g)
<1>1. PICK n \in Nat \ {0}, m \in Nat :
        /\ DOMAIN g.rows = 1..n
        /\ \A k \in 1..n : g.rows[k] \in Seq(Seq(Token)) /\ Len(g.rows[k]) = m
  BY DEF IsGroup
<1>2. PICK L : L = Seq(Token)
  OBVIOUS
<1>3. /\ SpanOf(renderLineSet(g.lines), ToSet(g.lines)) /\ Cardinality(ToSet(g.lines)) = Len(g.lines)
      /\ Len(g.lines) = n
  <2>1. /\ SpanOf(renderLineSet(g.lines), ToSet(g.lines))
        /\ Cardinality(ToSet(g.lines)) = Len(g.lines)
        /\ DOMAIN g.rows = 1..Len(g.lines) /\ Len(g.lines) \in Nat \ {0}
    BY GroupNumbers
  <2>2. PICK c \in Nat \ {0} : c = Len(g.lines)
    BY <2>1
  <2>3. 1..n = 1..c
    BY <1>1, <2>1, <2>2
  <2>4. n = c
    <3>1. n \in 1..c /\ c \in 1..n
      BY <2>3
    <3> QED BY <3>1
  <2> QED BY <2>1, <2>2, <2>4
<1>4. Len(g.rows) = n
  <2>1. PICK ms : IsGroupOf(g, ms, A, ls, f)
    BY DEF GroupOf
  <2>2. PICK k \in Nat : k = Len(ms)
    BY <2>1 DEF IsGroupOf, InSequence
  <2>3. DOMAIN g.rows = 1..k /\ g.rows = [i \in 1..k |-> g.rows[i]]
    BY <2>1, <2>2 DEF IsGroupOf
  <2>4. g.rows = [i \in 1..n |-> g.rows[i]]
    BY <1>1, <2>3
  <2>5. PICK V : V = {g.rows[i] : i \in 1..n}
    OBVIOUS
  <2>6. [i \in 1..n |-> g.rows[i]] \in Seq(V) /\ Len([i \in 1..n |-> g.rows[i]]) = n
    BY <2>5
  <2> QED BY <2>4, <2>6
<1>5. PICK col : col = [i \in 1..m |-> [k \in 1..n |-> g.rows[k][i]]]
  OBVIOUS
<1>6. ASSUME NEW i \in 1..m
      PROVE  /\ col[i] \in Seq(L) /\ Len(col[i]) = n /\ \A k \in 1..n : col[i][k] = g.rows[k][i]
             /\ col[i] = [k \in DOMAIN g.rows |-> g.rows[k][i]]
  <2>1. col[i] = [k \in 1..n |-> g.rows[k][i]]
    BY <1>5
  <2>2. ASSUME NEW k \in 1..n PROVE g.rows[k][i] \in L
    BY <1>1, <1>2
  <2>3. PICK c : c = col[i]
    OBVIOUS
  <2>4. c = [k \in 1..n |-> c[k]] /\ \A k \in 1..n : c[k] \in L /\ c[k] = g.rows[k][i]
    BY <2>1, <2>2, <2>3
  <2>5. c \in Seq(L) /\ Len(c) = n
    BY <2>4, SeqIs
  <2>6. col[i] = [k \in DOMAIN g.rows |-> g.rows[k][i]]
    BY <1>1, <2>1
  <2> QED BY <2>3, <2>4, <2>5, <2>6
<1>7. DOMAIN g.rows[1] = 1..m
  BY <1>1
<1>8. PICK S : S = {i \in 1..m : Len(Uniq(col[i])) > 1}
  OBVIOUS
<1>9. S \subseteq Int /\ IsFiniteSet(S)
  <2>1. S \in SUBSET (1..m) /\ 1 \in Int /\ m \in Int
    BY <1>8
  <2>2. IsFiniteSet(1..m)
    BY <2>1, FS_Interval
  <2>3. IsFiniteSet(S)
    BY <2>1, <2>2, FS_Subset
  <2>4. S \subseteq Int
    BY <2>1
  <2> QED BY <2>3, <2>4
<1>10. PICK varying : varying = Ascending(S)
  OBVIOUS
<1>11. InSequence(varying, S)
  BY <1>9, <1>10, AscendingIs
<1>12. PICK q \in Nat : /\ DOMAIN varying = 1..q /\ \A v \in 1..q : varying[v] \in S
                        /\ \A x \in S : \E v \in 1..q : varying[v] = x
  BY <1>11 DEF InSequence
<1>13. ToSet(varying) = S
  BY <1>12 DEF ToSet
<1>14. S = {i \in DOMAIN g.rows[1] : Len(Uniq([k \in DOMAIN g.rows |-> g.rows[k][i]])) > 1}
  <2>1. ASSUME NEW i \in 1..m PROVE col[i] = [k \in DOMAIN g.rows |-> g.rows[k][i]]
    BY <1>6
  <2> QED BY <1>7, <1>8, <2>1
<1> DEFINE Said(i) == describeSlot(Uniq([k \in DOMAIN g.rows |-> g.rows[k][i]]), Len(g.rows))
           SlotRow(i) == Row("slot", [template |-> g.template, slot |-> i, said |-> Said(i)],
                             RowWidth + Widths(Said(i).values))
           Fixed == [i \in DOMAIN g.rows[1] \ ToSet(varying) |-> g.rows[1][i]]
           HeadRow == Row("group", [template |-> g.template, fixed |-> Fixed, count |-> Len(g.rows),
                                    span |-> renderLineSet(g.lines)], RowWidth + Len(g.template))
<1>15. RenderTemplateGroup(g) = <<HeadRow>> \o [v \in DOMAIN varying |-> SlotRow(varying[v])]
  BY <1>10, <1>14 DEF RenderTemplateGroup
<1>16. PICK h : h = HeadRow
  OBVIOUS
<1>17. Tells(h, g) /\ h.kind = "group"
  <2>1. PICK span : span = renderLineSet(g.lines)
    OBVIOUS
  <2>2. PICK fixed : fixed = Fixed
    OBVIOUS
  <2>3. PICK w : w = RowWidth + Len(g.template)
    OBVIOUS
  <2>4. PICK of : of = [template |-> g.template, fixed |-> fixed, count |-> Len(g.rows), span |-> span]
    OBVIOUS
  <2>5. h = Row("group", of, w)
    BY <1>16, <2>1, <2>2, <2>3, <2>4
  <2>6. h.kind = "group" /\ h.of = of
    BY <2>5 DEF Row
  <2>7. of.template = g.template /\ of.fixed = fixed /\ of.count = n /\ of.span = span
    BY <1>4, <2>4
  <2>8. DOMAIN fixed = 1..m \ S /\ \A i \in 1..m \ S : fixed[i] = g.rows[1][i]
    BY <1>7, <1>13, <2>2
  <2>9. ASSUME NEW k \in 1..n, NEW i \in 1..m \ S PROVE g.rows[k][i] = fixed[i]
    <3>1. PICK c \in Seq(L) : c = col[i] /\ Len(c) = n /\ \A j \in 1..n : c[j] = g.rows[j][i]
      BY <1>6
    <3>2. ~(Len(Uniq(c)) > 1)
      BY <1>8, <3>1
    <3>3. 1 \in 1..Len(c) /\ k \in 1..Len(c)
      BY <3>1
    <3>4. c[1] = c[k]
      BY <3>1, <3>2, <3>3, SameValue
    <3> QED BY <2>8, <3>1, <3>3, <3>4
  <2>10. SpanOf(span, ToSet(g.lines))
    BY <1>3, <2>1
  <2>11. HeadOf(of, g)
    <3>1. of.count = Len(g.lines)
      BY <1>3, <2>7
    <3>2. /\ NamedIn(of.span.listed) \subseteq ToSet(g.lines)
          /\ Cardinality(NamedIn(of.span.listed)) + of.span.overflow = Len(g.lines)
      BY <1>3, <2>7, <2>10 DEF SpanOf
    <3>3. \A k \in DOMAIN g.rows, i \in DOMAIN of.fixed : g.rows[k][i] = of.fixed[i]
      BY <1>1, <2>7, <2>8, <2>9
    <3> QED BY <3>1, <3>2, <3>3 DEF HeadOf
  <2>12. \E p \in Nat : Apart(of.span.listed, p)
    BY <2>7, <2>10 DEF SpanOf
  <2> QED BY <2>6, <2>7, <2>11, <2>12 DEF Tells
<1>18. ASSUME NEW i \in S PROVE Tells(SlotRow(i), g)
  <2>1. i \in 1..m /\ Len(Uniq(col[i])) > 1
    BY <1>8
  <2>2. PICK c \in Seq(L) : c = col[i] /\ Len(c) = n /\ \A k \in 1..n : c[k] = g.rows[k][i]
    BY <1>6, <2>1
  <2>3. PICK u \in Seq(L) : u = Uniq(c) /\ Distinct(u) /\ ToSet(u) = ToSet(c)
    <3>1. Uniq(c) \in Seq(L) /\ Distinct(Uniq(c)) /\ ToSet(Uniq(c)) = ToSet(c)
      BY <2>2, UniqSame
    <3> QED BY <3>1
  <2>4. PICK vals : vals = {g.rows[k][i] : k \in DOMAIN g.rows}
    OBVIOUS
  <2>5. ToSet(u) = vals
    <3>1. DOMAIN c = 1..n
      BY <2>2
    <3>2. ToSet(c) = vals
      BY <1>1, <2>2, <2>4, <3>1 DEF ToSet
    <3> QED BY <2>3, <3>2
  <2>6. PICK said : said = describeSlot(u, Len(g.rows))
    OBVIOUS
  <2>7. SaidOf(said, vals)
    <3>1. u \in Seq(Seq(Token)) /\ Len(u) > 1 /\ Distinct(u)
      BY <1>2, <2>1, <2>2, <2>3
    <3>2. SaidOf(describeSlot(u, Len(g.rows)), ToSet(u))
      BY <3>1, SaidIs
    <3> QED BY <2>5, <2>6, <3>2
  <2>8. Said(i) = said
    <3>1. u = Uniq([k \in DOMAIN g.rows |-> g.rows[k][i]])
      BY <1>6, <2>1, <2>2, <2>3
    <3> QED BY <2>6, <3>1
  <2>9. PICK w : w = RowWidth + Widths(Said(i).values)
    OBVIOUS
  <2>10. PICK of : of = [template |-> g.template, slot |-> i, said |-> said]
    OBVIOUS
  <2>11. PICK row : row = SlotRow(i)
    OBVIOUS
  <2>12. row = Row("slot", of, w)
    BY <2>8, <2>9, <2>10, <2>11
  <2>13. row.kind = "slot" /\ row.of = of
    BY <2>12 DEF Row
  <2>14. of.template = g.template /\ of.slot = i /\ of.said = said
    BY <2>10
  <2>15. ValuesOf(of, g)
    BY <2>4, <2>7, <2>14 DEF ValuesOf
  <2>16. Tells(row, g)
    BY <2>13, <2>14, <2>15 DEF Tells
  <2> QED BY <2>11, <2>16
<1>19. PICK rest : rest = [v \in DOMAIN varying |-> SlotRow(varying[v])]
  OBVIOUS
<1>20. rest = [v \in 1..q |-> rest[v]] /\ \A v \in 1..q : Tells(rest[v], g)
  <2>1. \A v \in 1..q : rest[v] = SlotRow(varying[v])
    BY <1>12, <1>19
  <2>2. ASSUME NEW v \in 1..q PROVE Tells(rest[v], g)
    <3>1. PICK i \in S : i = varying[v]
      BY <1>12
    <3>2. rest[v] = SlotRow(i)
      BY <2>1, <3>1
    <3> HIDE DEF SlotRow
    <3> QED BY <1>18, <3>2
  <2> QED BY <1>12, <1>19, <2>2
<1> HIDE DEF HeadRow, SlotRow
<1>21. RenderTemplateGroup(g) = <<h>> \o rest
  BY <1>15, <1>16, <1>19
<1>22. PICK R : R = {rest[v] : v \in 1..q} \cup {h}
  OBVIOUS
<1>23. rest \in Seq(R) /\ Len(rest) = q /\ <<h>> \in Seq(R) /\ Len(<<h>>) = 1 /\ <<h>>[1] = h
  <2>1. rest \in Seq(R) /\ Len(rest) = q
    <3>1. rest = [v \in 1..q |-> rest[v]] /\ \A v \in 1..q : rest[v] \in R
      BY <1>20, <1>22
    <3>2. q \in Nat
      BY <1>12
    <3> QED BY <3>1, <3>2, SeqIs
  <2>2. h \in R
    BY <1>22
  <2> QED BY <2>1, <2>2
<1>24. PICK rows : rows = <<h>> \o rest
  OBVIOUS
<1>25. PICK one : one = <<h>>
  OBVIOUS
<1>26. one \in Seq(R) /\ Len(one) = 1 /\ one[1] = h /\ rows = one \o rest
  BY <1>23, <1>24, <1>25
<1>27. /\ one \o rest \in Seq(R) /\ Len(one \o rest) = Len(one) + Len(rest)
       /\ \A i \in 1..Len(one) : (one \o rest)[i] = one[i]
       /\ \A i \in 1..Len(rest) : (one \o rest)[Len(one) + i] = rest[i]
  <2>1. one \in Seq(R) /\ rest \in Seq(R)
    BY <1>23, <1>26
  <2> QED BY <2>1, Joined
<1>28. rows \in Seq(R) /\ Len(rows) = 1 + q /\ rows[1] = h
  BY <1>23, <1>26, <1>27
<1>29. \A r \in R : Tells(r, g)
  BY <1>17, <1>20, <1>22
<1>30. PICK p \in Nat \ {0} : p = 1 + q
  OBVIOUS
<1>31. rows = [i \in 1..p |-> rows[i]] /\ \A i \in 1..p : rows[i] \in R
  BY <1>28, <1>30
<1>32. GroupTold(rows, g)
  BY <1>17, <1>28, <1>29, <1>31 DEF GroupTold
<1> QED BY <1>21, <1>24, <1>32

-----------------------------------------------------------------------------
(* The rows of an outline.                                                 *)

\* The elements of sequences put one after the other are those of the sequences.
ElementsOf(ss, k) == UNION {ToSet(ss[i]) : i \in 1..k}

LEMMA JoinedElements ==
    ASSUME NEW R, NEW a \in Seq(R), NEW b \in Seq(R)
    PROVE  ToSet(a \o b) = ToSet(a) \cup ToSet(b)
<1>1. /\ a \o b \in Seq(R) /\ Len(a \o b) = Len(a) + Len(b)
      /\ \A i \in 1..Len(a) : (a \o b)[i] = a[i]
      /\ \A i \in 1..Len(b) : (a \o b)[Len(a) + i] = b[i]
  BY Joined
<1>2. PICK c \in Seq(R) : c = a \o b
  BY <1>1
<1>3. PICK m \in Nat, n \in Nat : m = Len(a) /\ n = Len(b)
  OBVIOUS
<1>4. /\ DOMAIN a = 1..m /\ DOMAIN b = 1..n /\ DOMAIN c = 1..(m + n)
      /\ \A i \in 1..m : c[i] = a[i]
      /\ \A i \in 1..n : c[m + i] = b[i]
  BY <1>1, <1>2, <1>3
<1>5. ASSUME NEW x \in ToSet(c) PROVE x \in ToSet(a) \cup ToSet(b)
  <2>1. PICK i \in 1..(m + n) : x = c[i]
    BY <1>4 DEF ToSet
  <2>2. CASE i \in 1..m
    BY <1>4, <2>1, <2>2 DEF ToSet
  <2>3. CASE i \notin 1..m
    <3>1. i - m \in 1..n /\ m + (i - m) = i
      BY <2>3
    <3> QED BY <1>1, <1>2, <1>3, <1>4, <2>1, <3>1 DEF ToSet
  <2> QED BY <2>2, <2>3
<1>6. ASSUME NEW x \in ToSet(a) PROVE x \in ToSet(c)
  <2>1. PICK i \in 1..m : x = a[i]
    BY <1>4 DEF ToSet
  <2>2. i \in 1..(m + n) /\ c[i] = x
    BY <1>4, <2>1
  <2> QED BY <1>4, <2>2 DEF ToSet
<1>7. ASSUME NEW x \in ToSet(b) PROVE x \in ToSet(c)
  <2>1. PICK i \in 1..n : x = b[i]
    BY <1>4 DEF ToSet
  <2>2. m + i \in 1..(m + n) /\ c[m + i] = x
    BY <1>1, <1>2, <1>3, <2>1
  <2> QED BY <1>4, <2>2 DEF ToSet
<1>8. ToSet(c) = ToSet(a) \cup ToSet(b)
  BY <1>5, <1>6, <1>7
<1> QED BY <1>2, <1>8

LEMMA FlatElements ==
    ASSUME NEW R, NEW ss \in Seq(Seq(R))
    PROVE  ToSet(FlattenSeq(ss)) = ElementsOf(ss, Len(ss))
<1>1. PICK g : FlatRun(g, R, ss) /\ FlattenSeq(ss) = g[Len(ss)]
  BY FlatRuns
<1>2. PICK n \in Nat : n = Len(ss)
  OBVIOUS
<1>3. PICK L : L = Seq(R)
  OBVIOUS
<1>4. /\ \A k \in 0..n : g[k] \in L
      /\ g[0] = <<>>
      /\ \A k \in 1..n : g[k] = g[k - 1] \o ss[k]
      /\ \A k \in 1..n : ss[k] \in L
  <2>1. g \in [0..n -> L] /\ g[0] = <<>> /\ \A k \in 1..n : g[k] = g[k - 1] \o ss[k]
    BY <1>1, <1>2, <1>3 DEF FlatRun
  <2>2. ss \in Seq(L)
    BY <1>3
  <2> QED BY <1>2, <2>1, <2>2
<1> DEFINE Has(k) == k <= n => ToSet(g[k]) = ElementsOf(ss, k)
           G == {k \in Nat : Has(k)}
<1>5. 0 \in G
  <2>1. ToSet(g[0]) = {}
    BY <1>4 DEF ToSet
  <2>2. ElementsOf(ss, 0) = {}
    BY DEF ElementsOf
  <2> QED BY <2>1, <2>2
<1>6. ASSUME NEW k \in Nat, k \in G PROVE k + 1 \in G
  <2>1. CASE k + 1 <= n
    <3>1. PICK j \in 1..n : j = k + 1 /\ j - 1 = k
      BY <2>1
    <3>2. PICK a \in Seq(R) : a = g[k]
      BY <1>3, <1>4, <2>1
    <3>3. PICK b \in Seq(R) : b = ss[j]
      BY <1>3, <1>4
    <3>4. g[j] = a \o b
      BY <1>4, <3>1, <3>2, <3>3
    <3>5. ToSet(g[j]) = ToSet(a) \cup ToSet(b)
      BY <3>4, JoinedElements
    <3>6. Has(k)
      BY <1>6
    <3>7. ToSet(a) = ElementsOf(ss, k)
      BY <2>1, <3>2, <3>6
    <3>8. ElementsOf(ss, j) = ElementsOf(ss, k) \cup ToSet(ss[j])
      <4>1. 1..j = (1..k) \cup {j}
        BY <3>1
      <4> QED BY <4>1 DEF ElementsOf
    <3>9. ToSet(g[j]) = ElementsOf(ss, j)
      BY <3>3, <3>5, <3>7, <3>8
    <3>10. Has(k + 1)
      BY <3>1, <3>9
    <3> HIDE DEF Has
    <3> QED BY <3>10
  <2>2. CASE ~(k + 1 <= n)
    BY <2>2
  <2> QED BY <2>1, <2>2
<1>7. \A k \in Nat : k \in G
  <2> HIDE DEF G
  <2> QED BY <1>5, <1>6, UpFromZero
<1>8. Has(n)
  BY <1>7
<1> QED BY <1>1, <1>2, <1>8

-----------------------------------------------------------------------------
\* Every row of an outline that says something of a group says what is so, and
\* every group has a head.
OutlineTold(rows, p, gs) ==
    /\ \A r \in ToSet(rows) : r.kind \in {"group", "slot"} => \E j \in 1..p : Tells(r, gs[j])
    /\ \A j \in 1..p : \E r \in ToSet(rows) : r.kind = "group" /\ r.of.template = gs[j].template

LEMMA OutlineTells ==
    ASSUME NEW ls \in Seq(Seq(Token)), NEW f \in Nat, NEW p \in Nat, NEW gs, NEW As,
           Partition(gs, p, As, ls, f), \A i \in 1..p : IsGroup(Token, gs[i])
    PROVE  OutlineTold(OutlineRows(gs), p, gs)
<1>0. gs = [i \in 1..p |-> gs[i]] /\ \A i \in 1..p : GroupOf(gs[i], As[i], ls, f)
  BY DEF Partition
<1>1. CASE gs = <<>>
  <2>1. p = 0
    <3>1. DOMAIN gs = 1..p
      BY <1>0
    <3>3. gs \in Seq({}) /\ Len(gs) = 0
      BY <1>1
    <3>4. DOMAIN gs = 1..0
      BY <3>3
    <3>2. 1 \notin 1..p
      BY <3>1, <3>4
    <3> QED BY <3>2
  <2>2. PICK r : r = LineRow(<<>>)
    OBVIOUS
  <2>3. r.kind = "line"
    BY <2>2 DEF LineRow, Row
  <2>4. PICK o : o = <<r>>
    OBVIOUS
  <2>5. OutlineRows(gs) = o
    BY <1>1, <2>2, <2>4 DEF OutlineRows
  <2>6. ToSet(o) = {r}
    BY <2>4 DEF ToSet
  <2>7. OutlineTold(o, p, gs)
    BY <2>1, <2>3, <2>6 DEF OutlineTold
  <2> QED BY <2>5, <2>7
<1>2. CASE gs # <<>>
  <2>1. PICK ss : ss = [i \in 1..p |-> RenderTemplateGroup(gs[i])]
    OBVIOUS
  <2>2. ASSUME NEW i \in 1..p PROVE GroupTold(ss[i], gs[i])
    <3>1. PICK g, A : g = gs[i] /\ A = As[i]
      OBVIOUS
    <3>2. GroupOf(g, A, ls, f) /\ IsGroup(Token, g)
      BY <1>0, <3>1
    <3>3. GroupTold(RenderTemplateGroup(g), g)
      BY <3>2, GroupRowsTell
    <3> QED BY <2>1, <3>1, <3>3
  <2>3. PICK R : R = UNION {{ss[i][j] : j \in DOMAIN ss[i]} : i \in 1..p}
    OBVIOUS
  <2>4. ASSUME NEW i \in 1..p
        PROVE  /\ ss[i] \in Seq(R) /\ \A r \in ToSet(ss[i]) : Tells(r, gs[i])
               /\ \E r \in ToSet(ss[i]) : Tells(r, gs[i]) /\ r.kind = "group"
    <3>1. PICK s : s = ss[i]
      OBVIOUS
    <3>2. PICK m \in Nat \ {0} : /\ s = [j \in 1..m |-> s[j]] /\ s[1].kind = "group"
                                 /\ \A j \in 1..m : Tells(s[j], gs[i])
      BY <2>2, <3>1 DEF GroupTold
    <3>3. DOMAIN s = 1..m
      BY <3>2
    <3>4. \A j \in 1..m : s[j] \in R
      <4>1. PICK P : P = {ss[i][j] : j \in DOMAIN ss[i]}
        OBVIOUS
      <4>2. \A j \in 1..m : s[j] \in P
        BY <3>1, <3>3, <4>1
      <4>3. P \subseteq R
        BY <2>3, <4>1
      <4> QED BY <4>2, <4>3
    <3>5. s \in Seq(R)
      <4>1. m \in Nat
        OBVIOUS
      <4> QED BY <3>2, <3>4, <4>1, SeqIs
    <3>6. \A r \in ToSet(s) : Tells(r, gs[i])
      BY <3>2, <3>3 DEF ToSet
    <3>7. s[1] \in ToSet(s)
      <4>1. 1 \in 1..m
        OBVIOUS
      <4> QED BY <3>3, <4>1 DEF ToSet
    <3> QED BY <3>1, <3>2, <3>5, <3>6, <3>7
  <2>5. PICK L : L = Seq(R)
    OBVIOUS
  <2>6. ss = [i \in 1..p |-> ss[i]] /\ \A i \in 1..p : ss[i] \in L
    BY <2>1, <2>4, <2>5
  <2>7. ss \in Seq(L) /\ Len(ss) = p
    BY <2>6, SeqIs
  <2>8. PICK o : o = FlattenSeq(ss)
    OBVIOUS
  <2>9. ToSet(o) = ElementsOf(ss, p)
    BY <2>5, <2>7, <2>8, FlatElements
  <2>10. OutlineRows(gs) = o
    <3>1. [i \in DOMAIN gs |-> RenderTemplateGroup(gs[i])] = ss
      BY <1>0, <2>1
    <3>2. OutlineRows(gs) = FlattenSeq([i \in DOMAIN gs |-> RenderTemplateGroup(gs[i])])
      BY <1>2 DEF OutlineRows
    <3> QED BY <2>8, <3>1, <3>2
  <2>11. ASSUME NEW r \in ToSet(o) PROVE \E j \in 1..p : Tells(r, gs[j])
    <3>1. PICK i \in 1..p : r \in ToSet(ss[i])
      BY <2>9 DEF ElementsOf
    <3> QED BY <2>4, <3>1
  <2>12. ASSUME NEW j \in 1..p PROVE \E r \in ToSet(o) : r.kind = "group" /\ r.of.template = gs[j].template
    <3>1. PICK r \in ToSet(ss[j]) : Tells(r, gs[j]) /\ r.kind = "group"
      BY <2>4
    <3>2. r \in ToSet(o)
      BY <2>9 DEF ElementsOf
    <3> QED BY <3>1, <3>2 DEF Tells
  <2>13. OutlineTold(o, p, gs)
    BY <2>11, <2>12 DEF OutlineTold
  <2> QED BY <2>10, <2>13
<1> QED BY <1>1, <1>2

\* Rows that say something of a group.
GroupKinds == {"group", "slot"}

\* A row after the budget is one of those before it, unless it is a seam or a part.
CappedOf(res, rows) ==
    /\ \A r \in ToSet(res.rows) : r.kind \in GroupKinds => r \in ToSet(rows)
    /\ res.dropped = 0 /\ NoPart(res.rows) => ToSet(rows) \subseteq ToSet(res.rows)

LEMMA HardCutRows ==
    ASSUME NEW rows, rows # <<>>
    PROVE  \A r \in ToSet(HardCut(rows).rows) : r.kind \in {"part", "cut"}
<1>1. PICK later, marker, room : HardCut(rows).rows = PartsOf(rows[1], later, marker, room)
  BY DEF HardCut
<1>2. PICK r : r = rows[1]
  OBVIOUS
<1>3. PICK a, b, c, e : /\ a = PartOf(r, Budget) /\ b = PartOf(r, (room * 4) \div 7)
                        /\ c = Row("cut", [later |-> later], marker)
                        /\ e = PartOf(r, room - (room * 4) \div 7)
  OBVIOUS
<1>4. a.kind = "part" /\ b.kind = "part" /\ c.kind = "cut" /\ e.kind = "part"
  BY <1>3 DEF PartOf, Row
<1>5. HardCut(rows).rows = <<a>> \/ HardCut(rows).rows = <<b, c, e>>
  BY <1>1, <1>2, <1>3 DEF PartsOf
<1>6. ToSet(<<a>>) = {a} /\ ToSet(<<b, c, e>>) = {b, c, e}
  <2>1. PICK s, t : s = <<a>> /\ t = <<b, c, e>>
    OBVIOUS
  <2>2. DOMAIN s = 1..1 /\ s[1] = a /\ DOMAIN t = 1..3 /\ t[1] = b /\ t[2] = c /\ t[3] = e
    BY <2>1
  <2>3. 1..1 = {1} /\ 1..3 = {1, 2, 3}
    OBVIOUS
  <2>4. ToSet(s) = {a} /\ ToSet(t) = {b, c, e}
    BY <2>2, <2>3 DEF ToSet
  <2> QED BY <2>1, <2>4
<1> QED BY <1>4, <1>5, <1>6

LEMMA SeamedRows ==
    ASSUME NEW R, Wide(R), AllWhole(R), NEW rows \in Seq(R), NEW h \in Nat, NEW t \in Nat,
           NEW d \in Nat, h + t + d = Len(rows), NEW res, res = Seamed(rows, h, t, d)
    PROVE  CappedOf(res, rows)
<1>1. PICK out : out = res.rows
  OBVIOUS
<1>2. res.dropped = d
  BY DEF Seamed
<1>3. SeamedShape(out, R, rows, h, t, d)
  <2>1. IsSeamed(out, rows, h, t, d)
    BY <1>1 DEF IsSeamed
  <2> QED BY <2>1, SeamedIs
<1>4. /\ out \in Seq(Shortened(R)) /\ Len(out) = h + 1 + t
      /\ \A j \in 1..h : out[j] = rows[j]
      /\ out[h + 1].kind = "seam"
      /\ \A j \in 1..t : out[h + 1 + j] = rows[h + d + j]
  BY <1>3 DEF SeamedShape
<1>5. PICK n \in Nat, p \in Nat : n = Len(rows) /\ n = h + t + d /\ p = h + 1 + t
  OBVIOUS
<1>6. DOMAIN out = 1..p /\ DOMAIN rows = 1..n
  <2>1. PICK S : S = Shortened(R)
    OBVIOUS
  <2>2. out \in Seq(S) /\ Len(out) = p
    BY <1>4, <1>5, <2>1
  <2>3. DOMAIN out = 1..p
    BY <2>2
  <2>4. DOMAIN rows = 1..n
    <3>1. DOMAIN rows = 1..Len(rows)
      OBVIOUS
    <3> QED BY <1>5, <3>1
  <2> QED BY <2>3, <2>4
<1>7. ASSUME NEW r \in ToSet(out), r.kind \in GroupKinds PROVE r \in ToSet(rows)
  <2>1. PICK i \in 1..p : r = out[i]
    BY <1>6 DEF ToSet
  <2>2. CASE i \in 1..h
    <3>1. i \in 1..n /\ r = rows[i]
      BY <1>4, <1>5, <2>1, <2>2
    <3> QED BY <1>6, <3>1 DEF ToSet
  <2>3. CASE i = h + 1
    BY <1>4, <1>7, <2>1, <2>3 DEF GroupKinds
  <2>4. CASE i > h + 1
    <3>1. PICK j \in 1..t : h + 1 + j = i
      <4>1. i - (h + 1) \in 1..t /\ h + 1 + (i - (h + 1)) = i
        BY <1>5, <2>4
      <4> QED BY <4>1
    <3>4. h + d + j \in 1..n
      BY <1>5
    <3>2. out[h + 1 + j] = rows[h + d + j] /\ h + d + j \in 1..n
      BY <1>4, <3>4
    <3>3. r = rows[h + d + j]
      BY <2>1, <3>1, <3>2
    <3> QED BY <1>6, <3>2, <3>3 DEF ToSet
  <2>5. i \in 1..h \/ i = h + 1 \/ i > h + 1
    OBVIOUS
  <2> QED BY <2>2, <2>3, <2>4, <2>5
<1>8. ASSUME d = 0, NEW r \in ToSet(rows) PROVE r \in ToSet(out)
  <2>1. PICK i \in 1..n : r = rows[i]
    BY <1>6 DEF ToSet
  <2>2. CASE i \in 1..h
    <3>1. i \in 1..p /\ out[i] = r
      BY <1>4, <1>5, <2>1, <2>2
    <3> QED BY <1>6, <3>1 DEF ToSet
  <2>3. CASE i \notin 1..h
    <3>1. PICK j \in 1..t : h + j = i
      <4>1. i - h \in 1..t /\ h + (i - h) = i
        BY <1>5, <1>8, <2>3
      <4> QED BY <4>1
    <3>2. h + d + j = i /\ h + 1 + j \in 1..p
      BY <1>5, <1>8, <3>1
    <3>3. out[h + 1 + j] = rows[h + d + j]
      BY <1>4
    <3>4. out[h + 1 + j] = r
      BY <2>1, <3>2, <3>3
    <3> QED BY <1>6, <3>2, <3>4 DEF ToSet
  <2> QED BY <2>2, <2>3
<1> QED BY <1>1, <1>2, <1>7, <1>8 DEF CappedOf

LEMMA CappedRows ==
    ASSUME NEW R, Wide(R), AllWhole(R), NEW rows \in Seq(R)
    PROVE  CappedOf(BudgetCap(rows), rows)
<1>0. PICK res : res = BudgetCap(rows)
  OBVIOUS
<1>1. CASE RowsWidth(rows) <= Budget
  <2>1. res.rows = rows
    BY <1>0, <1>1 DEF BudgetCap
  <2> QED BY <1>0, <2>1 DEF CappedOf
<1>2. CASE ~(RowsWidth(rows) <= Budget)
  <2>0. Budget \in Nat /\ RowsWidth(rows) \in Nat
    BY BoundsHold, RowsWidthNat DEF Bounds
  <2>1. RowsWidth(rows) > Budget /\ rows # <<>>
    <3>1. RowsWidth(rows) > Budget
      BY <1>2, <2>0
    <3>2. RowsWidth(<<>>) = 0
      BY Zenon DEF RowsWidth
    <3> QED BY <2>0, <3>1, <3>2
  <2>2. PICK h : h = HeadRows(rows)
    OBVIOUS
  <2>3. h \in 0..(Len(rows) - 1)
    BY <2>1, <2>2, HeadRowsFit
  <2>4. PICK t : t = TailRows(rows, h)
    OBVIOUS
  <2>5. t \in 0..(Len(rows) - h)
    BY <2>3, <2>4, TailRowsFit
  <2>6. res = KeepEnds(rows, h, t)
    BY <1>0, <1>2, <2>2, <2>4 DEF BudgetCap, KeepHead
  <2>7. PICK d \in Nat : h + t + d = Len(rows) /\ d = Len(rows) - h - t
    <3>1. Len(rows) - h - t \in Nat /\ h + t + (Len(rows) - h - t) = Len(rows)
      BY <2>3, <2>5
    <3> QED BY <3>1
  <2>8. CASE h = 0 /\ t = 0
    <3>1. res = HardCut(rows)
      BY <2>6, <2>8 DEF KeepEnds
    <3>2. ~NoPart(res.rows)
      BY <2>1, <3>1, HardCutFits
    <3>3. \A r \in ToSet(res.rows) : r.kind \in {"part", "cut"}
      BY <2>1, <3>1, HardCutRows
    <3>4. CappedOf(res, rows)
      BY <3>2, <3>3 DEF CappedOf, GroupKinds
    <3> QED BY <1>0, <3>4
  <2>9. CASE ~(h = 0 /\ t = 0)
    <3>1. res = Seamed(rows, h, t, d)
      BY <2>6, <2>7, <2>9 DEF KeepEnds
    <3>2. h \in Nat /\ t \in Nat /\ h + t + d = Len(rows)
      BY <2>3, <2>5, <2>7
    <3>3. CappedOf(res, rows)
      BY <3>1, <3>2, SeamedRows
    <3> QED BY <1>0, <3>3
  <2> QED BY <2>8, <2>9
<1> QED BY <1>1, <1>2

-----------------------------------------------------------------------------
\* A clamped row says what it said.
SaysAs(a, b) == a.kind = b.kind /\ a.of = b.of

LEMMA ClampSays ==
    ASSUME NEW rows, IsRows(rows)
    PROVE  /\ \A r \in ToSet(ClampLines(rows)) : \E s \in ToSet(rows) : SaysAs(r, s)
           /\ \A s \in ToSet(rows) : \E r \in ToSet(ClampLines(rows)) : SaysAs(r, s)
<1>1. PICK n \in Nat : rows = [i \in 1..n |-> rows[i]] /\ \A i \in 1..n : IsRow(rows[i])
  BY DEF IsRows
<1>2. DOMAIN rows = 1..n
  BY <1>1
<1>3. PICK out : out = ClampLines(rows)
  OBVIOUS
<1>4. out = [i \in 1..n |-> IF rows[i].width > LineMax
                THEN [rows[i] EXCEPT !.width = LineMax + ClampWidth, !.cut = rows[i].width - LineMax]
                ELSE rows[i]]
  BY <1>2, <1>3, Zenon DEF ClampLines
<1>5. ASSUME NEW i \in 1..n PROVE SaysAs(out[i], rows[i])
  <2>1. PICK r : r = rows[i]
    OBVIOUS
  <2>2. r = [kind |-> r.kind, of |-> r.of, width |-> r.width, cut |-> r.cut]
    BY <1>1, <2>1 DEF IsRow
  <2>3. out[i] = IF r.width > LineMax
                 THEN [r EXCEPT !.width = LineMax + ClampWidth, !.cut = r.width - LineMax] ELSE r
    BY <1>4, <2>1, Zenon
  <2>4. PICK q : q = [r EXCEPT !.width = LineMax + ClampWidth, !.cut = r.width - LineMax]
    OBVIOUS
  <2>5. q.kind = r.kind /\ q.of = r.of
    BY <2>2, <2>4
  <2> QED BY <2>1, <2>3, <2>4, <2>5 DEF SaysAs
<1>6. DOMAIN out = 1..n
  BY <1>4, Zenon
<1>7. ASSUME NEW r \in ToSet(out) PROVE \E s \in ToSet(rows) : SaysAs(r, s)
  <2>1. PICK i \in 1..n : r = out[i]
    BY <1>6 DEF ToSet
  <2>2. rows[i] \in ToSet(rows)
    BY <1>2 DEF ToSet
  <2> QED BY <1>5, <2>1, <2>2
<1>8. ASSUME NEW s \in ToSet(rows) PROVE \E r \in ToSet(out) : SaysAs(r, s)
  <2>1. PICK i \in 1..n : s = rows[i]
    BY <1>2 DEF ToSet
  <2>2. out[i] \in ToSet(out)
    BY <1>6 DEF ToSet
  <2> QED BY <1>5, <2>1, <2>2
<1> QED BY <1>3, <1>7, <1>8

LEMMA TellsAlso ==
    ASSUME NEW r, NEW s, NEW g, SaysAs(r, s), Tells(s, g)
    PROVE  Tells(r, g)
<1>1. PICK kind, of : kind = s.kind /\ of = s.of
  OBVIOUS
<1>2. r.kind = kind /\ r.of = of
  BY <1>1 DEF SaysAs
<1>3. /\ kind \in {"group", "slot"} /\ of.template = g.template
      /\ kind = "group" => HeadOf(of, g) /\ \E n \in Nat : Apart(of.span.listed, n)
      /\ kind = "slot" => ValuesOf(of, g)
  BY <1>1 DEF Tells
<1> QED BY <1>2, <1>3 DEF Tells

-----------------------------------------------------------------------------
(* Outlines name every line.                                               *)

\* The groups of an outline partition the lines of the stream, and its rows tell of them.
OutlineOf(v, raw, f, p, As) ==
    /\ Partition(v.groups, p, As, splitRawLines(terminalNormalize(raw)), f)
    /\ \A r \in ToSet(v.rows) : r.kind \in GroupKinds => \E j \in 1..p : Tells(r, v.groups[j])
    /\ v.dropped = 0 /\ NoPart(v.rows) =>
          \A j \in 1..p : \E r \in ToSet(v.rows) : r.kind = "group" /\ r.of.template = v.groups[j].template

LEMMA OutlineShown ==
    ASSUME NEW raw \in Seq(Token), NEW f \in Nat, NEW v, IsView(v, raw, f), v.outlined
    PROVE  /\ v.groups = GroupTemplates(splitRawLines(terminalNormalize(raw)), f)
           /\ \E p \in Nat : \E As : OutlineOf(v, raw, f, p, As)
<1>1. PICK res : res = Analyze(raw, f)
  OBVIOUS
<1>2. Shows(v, res, raw)
  <2>1. v = exact(raw) \/ Shows(v, res, raw)
    BY <1>1, ViewIs
  <2>2. ~exact(raw).outlined
    BY ExactIs
  <2> QED BY <2>1, <2>2
<1>3. v.rows = res.rows /\ (v.outlined <=> res.outlined) /\ v.dropped = res.dropped /\ v.groups = res.groups
  BY <1>2 DEF Shows
<1>4. IsOutline(res, raw, f)
  <2>1. IsWhole(res, raw) \/ IsBounded(res, raw) \/ IsOutline(res, raw, f)
    BY <1>1, AnalyzeIs
  <2> QED BY <1>3, <2>1 DEF IsWhole, IsBounded
<1>5. PICK norm \in Seq(Token) : norm = terminalNormalize(raw)
  BY TokensAre, NormIs
<1>6. PICK ls \in Seq(Seq(Token)) : ls = splitRawLines(norm)
  BY <1>5, RawLinesIs
<1>7. PICK gs : gs = GroupTemplates(ls, f)
  OBVIOUS
<1>8. res.groups = gs
  BY <1>4, <1>5, <1>6, <1>7 DEF IsOutline
<1>9. PICK p \in Nat : \E As : Partition(gs, p, As, ls, f)
  BY <1>6, <1>7, GroupsPartition
<1>10. PICK As : Partition(gs, p, As, ls, f)
  BY <1>9
<1>11. \A i \in 1..p : IsGroup(Token, gs[i])
  <2>1. PICK shapes, n : shapes = Shapes(ls) /\ n = Len(ls)
    OBVIOUS
  <2>2. n \in Nat /\ DOMAIN shapes = 1..n /\ \A i \in 1..n : IsShape(Token, shapes[i])
    BY <1>6, <2>1, TokensAre, ShapesAre
  <2>3. gs = Groups(shapes, f)
    BY <1>7, <2>1 DEF GroupTemplates
  <2>4. PICK q \in Nat : gs = [i \in 1..q |-> gs[i]] /\ \A i \in 1..q : IsGroup(Token, gs[i])
    BY <2>2, <2>3, GroupsAreGroups, ZenonT(30)
  <2>5. 1..p = 1..q
    <3>1. gs = [i \in 1..p |-> gs[i]]
      BY <1>10 DEF Partition
    <3>2. DOMAIN gs = 1..p
      BY <3>1
    <3>3. DOMAIN gs = 1..q
      BY <2>4
    <3> QED BY <3>2, <3>3
  <2> QED BY <2>4, <2>5
<1>12. PICK rows : rows = OutlineRows(gs)
  OBVIOUS
<1>13. OutlineTold(rows, p, gs)
  <2>1. ls \in Seq(Seq(Token)) /\ f \in Nat /\ p \in Nat
    BY <1>6, <1>9
  <2> QED BY <1>10, <1>11, <1>12, <2>1, OutlineTells
<1>14. IsRows(rows)
  <2>1. gs = [i \in 1..p |-> gs[i]]
    BY <1>10 DEF Partition
  <2> QED BY <1>9, <1>11, <1>12, <2>1, OutlineIs
<1>15. PICK all : all = ClampLines(rows)
  OBVIOUS
<1>16. IsRows(all)
  BY <1>14, <1>15, ClampedRows
<1>17. PICK R : Wide(R) /\ AllWhole(R) /\ all \in Seq(R)
  BY <1>16, RowsAre
<1>18. PICK cap : cap = BudgetCap(all)
  OBVIOUS
<1>19. CappedOf(cap, all)
  BY <1>17, <1>18, CappedRows
<1>20. v.rows = cap.rows /\ v.dropped = cap.dropped
  <2>1. Outline(gs) = cap
    BY <1>12, <1>15, <1>18 DEF Outline
  <2> QED BY <1>3, <1>4, <1>8, <2>1 DEF IsOutline
<1>21. /\ \A r \in ToSet(all) : \E s \in ToSet(rows) : SaysAs(r, s)
       /\ \A s \in ToSet(rows) : \E r \in ToSet(all) : SaysAs(r, s)
  BY <1>14, <1>15, ClampSays
<1>22. ASSUME NEW r \in ToSet(v.rows), r.kind \in GroupKinds PROVE \E j \in 1..p : Tells(r, gs[j])
  <2>1. r \in ToSet(all)
    BY <1>19, <1>20, <1>22 DEF CappedOf
  <2>2. PICK s \in ToSet(rows) : SaysAs(r, s)
    BY <1>21, <2>1
  <2>3. s.kind \in {"group", "slot"}
    BY <1>22, <2>2 DEF SaysAs, GroupKinds
  <2>4. PICK j \in 1..p : Tells(s, gs[j])
    BY <1>13, <2>3 DEF OutlineTold
  <2>5. Tells(r, gs[j])
    BY <2>2, <2>4, TellsAlso
  <2> QED BY <2>5
<1>23. ASSUME v.dropped = 0, NoPart(v.rows), NEW j \in 1..p
       PROVE  \E r \in ToSet(v.rows) : r.kind = "group" /\ r.of.template = gs[j].template
  <2>1. PICK s \in ToSet(rows) : s.kind = "group" /\ s.of.template = gs[j].template
    BY <1>13 DEF OutlineTold
  <2>2. PICK r \in ToSet(all) : SaysAs(r, s)
    BY <1>21
  <2>3. r \in ToSet(v.rows)
    BY <1>19, <1>20, <1>23 DEF CappedOf
  <2>4. r.kind = "group" /\ r.of.template = gs[j].template
    BY <2>1, <2>2 DEF SaysAs
  <2> QED BY <2>3, <2>4
<1>24. v.groups = gs
  BY <1>3, <1>8
<1>25. OutlineOf(v, raw, f, p, As)
  BY <1>5, <1>6, <1>10, <1>22, <1>23, <1>24 DEF OutlineOf
<1> QED BY <1>5, <1>6, <1>7, <1>24, <1>25

\* The templates of the heads in a view, and of its groups.
HeadTemplates == {view.rows[i].of.template : i \in {k \in DOMAIN view.rows : view.rows[k].kind = "group"}}

RowsTrue ==
    \A i \in DOMAIN view.rows : view.rows[i].kind \in {"group", "slot"} =>
        \E g \in ToSet(view.groups) : g.template = view.rows[i].of.template /\ RowIsOf(view.rows[i], g)

HeadsAll ==
    view.dropped = 0 /\ (\A i \in DOMAIN view.rows : view.rows[i].kind # "part") =>
        HeadTemplates = {g.template : g \in ToSet(view.groups)}

LEMMA ViewNames ==
    ASSUME ViewInv
    PROVE  OutlineNamesEveryLine
<1> SUFFICES ASSUME view.made, view.outlined PROVE GroupsAre(view.groups, buf) /\ RowsTrue /\ HeadsAll
  BY DEF OutlineNamesEveryLine, RowsTrue, HeadsAll, HeadTemplates
<1>1. buf \in Seq(Token) /\ IsView(view, buf, first) /\ first \in Nat
  <2>1. FirstLines \subseteq Nat \ {0}
    BY BoundsAssumption DEF BoundsAssumption
  <2> QED BY <2>1 DEF ViewInv
<1>2. /\ view.groups = GroupTemplates(splitRawLines(terminalNormalize(buf)), first)
      /\ \E p \in Nat : \E As : OutlineOf(view, buf, first, p, As)
  BY <1>1, OutlineShown
<1>3. PICK p \in Nat : \E As : OutlineOf(view, buf, first, p, As)
  BY <1>2
<1>4. PICK As : OutlineOf(view, buf, first, p, As)
  BY <1>3
<1>5. PICK gs : gs = view.groups
  OBVIOUS
<1>6. DOMAIN gs = 1..p
  <2>1. gs = [i \in 1..p |-> gs[i]]
    BY <1>4, <1>5 DEF OutlineOf, Partition
  <2> QED BY <2>1
<1>7. GroupsAre(gs, buf)
  BY <1>1, <1>2, <1>5, GroupsOfStream
<1>8. RowsTrue
  <2>1. SUFFICES ASSUME NEW i \in DOMAIN view.rows, view.rows[i].kind \in {"group", "slot"}
                 PROVE  \E g \in ToSet(gs) : g.template = view.rows[i].of.template /\ RowIsOf(view.rows[i], g)
    BY <1>5 DEF RowsTrue
  <2>2. PICK r : r = view.rows[i]
    OBVIOUS
  <2>3. r \in ToSet(view.rows) /\ r.kind \in GroupKinds
    BY <2>1, <2>2 DEF ToSet, GroupKinds
  <2>4. PICK j \in 1..p : Tells(r, gs[j])
    BY <1>4, <1>5, <2>3 DEF OutlineOf
  <2>5. PICK g : g = gs[j]
    OBVIOUS
  <2>6. g \in ToSet(gs)
    BY <1>6, <2>5 DEF ToSet
  <2>7. RowIsOf(r, g)
    BY <2>4, <2>5, TellsIs
  <2>8. g.template = r.of.template
    BY <2>4, <2>5 DEF Tells
  <2> QED BY <2>2, <2>6, <2>7, <2>8
<1>9. HeadsAll
  <2>1. SUFFICES ASSUME view.dropped = 0, \A i \in DOMAIN view.rows : view.rows[i].kind # "part"
                 PROVE  HeadTemplates = {g.template : g \in ToSet(gs)}
    BY <1>5 DEF HeadsAll
  <2>2. ASSUME NEW g \in ToSet(gs) PROVE g.template \in HeadTemplates
    <3>1. PICK j \in 1..p : g = gs[j]
      BY <1>6 DEF ToSet
    <3>2. PICK r \in ToSet(view.rows) : r.kind = "group" /\ r.of.template = g.template
      BY <1>4, <1>5, <2>1, <3>1 DEF OutlineOf, NoPart
    <3>3. PICK i \in DOMAIN view.rows : view.rows[i] = r
      BY DEF ToSet
    <3> QED BY <3>2, <3>3 DEF HeadTemplates
  <2>3. ASSUME NEW t \in HeadTemplates PROVE \E g \in ToSet(gs) : t = g.template
    <3>1. PICK i \in DOMAIN view.rows : view.rows[i].kind = "group" /\ view.rows[i].of.template = t
      BY DEF HeadTemplates
    <3>2. PICK g \in ToSet(gs) : g.template = view.rows[i].of.template
      BY <1>5, <1>8, <3>1 DEF RowsTrue
    <3> QED BY <3>1, <3>2
  <2>4. \A t : t \in HeadTemplates <=> \E g \in ToSet(gs) : t = g.template
    BY <2>2, <2>3
  <2> QED BY <2>4
<1> QED BY <1>5, <1>7, <1>8, <1>9

\* An outline has every line of the stream that shows anything in exactly one group, under
\* the number it has in the stream, and its rows are true of their groups (Analyze, collapse.go).
THEOREM OutlineIsTrue == TextSpec => []OutlineNamesEveryLine
<1>1. ViewInv => OutlineNamesEveryLine
  BY ViewNames
<1> QED BY <1>1, ViewsAreOfTheBuffer, PTL

-----------------------------------------------------------------------------
(* Lines read back from the spill.                                         *)

\* A line that shows something, read back, shows the same.
LEMMA ReadBackBody ==
    ASSUME NEW raw \in Seq(Token), NEW ls, ls = splitRawLines(terminalNormalize(raw)), NEW i \in Showing(ls)
    PROVE  i \in 1..Len(Split(raw)) /\ EndedBody(Split(raw)[i]) = stripLinePrefix(ls[i])
<1>1. PICK L : L = Seq(Token)
  OBVIOUS
<1>2. PICK R \in Seq(L) : R = Split(raw) /\ R # <<>>
  BY <1>1, SplitIs
<1>3. PICK n \in Nat : n = Len(R) /\ DOMAIN R = 1..n
  BY <1>2
<1>4. Telling(raw) = Showing(ls) /\ \A k \in Telling(raw) : BodyOf(raw, k) = stripLinePrefix(ls[k])
  BY TellingLines
<1>5. BodyOf(raw, i) = stripLinePrefix(ls[i]) /\ stripLinePrefix(ls[i]) # <<>>
  BY <1>4 DEF Showing
<1>6. i \in 1..n
  <2>1. PICK p \in 0..n : DOMAIN splitRawLines(raw) = 1..p
    BY <1>2, <1>3, RawLinesAre DEF ButForEmpty
  <2>2. i \in DOMAIN splitRawLines(raw)
    BY <1>4 DEF Telling
  <2> QED BY <1>3, <2>1, <2>2
<1>7. CASE i < n
  <2>1. BodyOf(raw, i) = EndedBody(R[i])
    BY <1>2, <1>3, <1>7 DEF BodyOf
  <2> QED BY <1>2, <1>3, <1>5, <1>6, <2>1
<1>8. CASE ~(i < n)
  <2>1. PICK w \in Seq(Token) : w = R[i]
    BY <1>1, <1>2, <1>3, <1>6
  <2>2. BodyOf(raw, i) = stripLinePrefix(terminalNormalize(w))
    BY <1>2, <1>3, <1>8, <2>1 DEF BodyOf
  <2>3. NoLf(w)
    BY <1>2, <1>3, <1>6, <2>1, LinesOfText DEF LinesAgree
  <2>4. PICK v \in Seq(Token) : v = terminalNormalize(w)
    BY TokensAre, NormIs
  <2>5. v # <<>>
    BY <1>5, <2>2, <2>4, EmptyBody
  <2>6. terminalNormalize(Append(w, "lf")) = Append(v, "lf")
    BY <2>3, <2>4, <2>5, NormAlone
  <2>7. Front(Append(v, "lf")) = v
    BY TokensAre, FrontAppended
  <2>8. EndedBody(w) = stripLinePrefix(v)
    BY <2>6, <2>7 DEF EndedBody
  <2> QED BY <1>2, <1>3, <1>5, <1>6, <2>1, <2>2, <2>4, <2>8
<1> QED BY <1>7, <1>8

-----------------------------------------------------------------------------
\* The lines of a value that the first k runs name.
LinesNamed(o, R, runs, k) ==
    /\ Len(o) = Cardinality(NamedUpTo(runs, k))
    /\ \A l \in ToSet(o) : \E x \in NamedUpTo(runs, k) : l = R[x]

LinesSoFar(o, L, R, runs, k) ==
    o \in Seq(L) /\ LinesNamed(o, R, runs, k) /\ IsFiniteSet(NamedUpTo(runs, k))

LinesWithin(o, R, lo, hi) == \A l \in ToSet(o) : \E x \in lo..hi : l = R[x]

LEMMA PartOfLines ==
    ASSUME NEW L, NEW R \in Seq(L), NEW lo \in 1..Len(R), NEW hi \in 1..Len(R), lo <= hi
    PROVE  /\ SubSeq(R, lo, hi) \in Seq(L) /\ Len(SubSeq(R, lo, hi)) = hi - lo + 1
           /\ LinesWithin(SubSeq(R, lo, hi), R, lo, hi)
<1>1. PICK m \in Nat, k \in Nat : m = lo - 1 /\ k = hi - lo + 1 /\ m + 1 = lo /\ m + k = hi
  OBVIOUS
<1>2. m + k <= Len(R)
  BY <1>1
<1>3. /\ SubSeq(R, m + 1, m + k) \in Seq(L)
      /\ Len(SubSeq(R, m + 1, m + k)) = k
      /\ \A j \in 1..k : SubSeq(R, m + 1, m + k)[j] = R[m + j]
  BY <1>2, Slice
<1>4. PICK s \in Seq(L) : s = SubSeq(R, lo, hi)
  BY <1>1, <1>3
<1>5. Len(s) = k /\ DOMAIN s = 1..k /\ \A j \in 1..k : s[j] = R[m + j]
  BY <1>1, <1>3, <1>4
<1>6. ASSUME NEW l \in ToSet(s) PROVE \E x \in lo..hi : l = R[x]
  <2>1. PICK j \in 1..k : l = s[j]
    BY <1>5 DEF ToSet
  <2>2. m + j \in lo..hi /\ l = R[m + j]
    BY <1>1, <1>5, <2>1
  <2> QED BY <2>2
<1>7. LinesWithin(s, R, lo, hi)
  BY <1>6 DEF LinesWithin
<1> QED BY <1>1, <1>4, <1>5, <1>7

LEMMA JoinedLines ==
    ASSUME NEW L, NEW R \in Seq(L), NEW n \in Nat, NEW runs, Apart(runs, n),
           NEW k \in Nat, NEW j \in 1..n, j = k + 1, NEW a, LinesSoFar(a, L, R, runs, k),
           NEW lo \in 1..Len(R), NEW hi \in 1..Len(R), lo = runs[j].lo, hi = runs[j].hi,
           NEW b, b = SubSeq(R, lo, hi)
    PROVE  LinesSoFar(a \o b, L, R, runs, j)
<1>1. lo <= hi /\ lo = runs[j].lo /\ hi = runs[j].hi
  BY DEF Apart
<1>2. PICK c \in Int : c = Len(a)
  BY DEF LinesSoFar
<1>3. c = Cardinality(NamedUpTo(runs, k))
  BY <1>2 DEF LinesNamed, LinesSoFar
<1>4. /\ NamedUpTo(runs, j) = NamedUpTo(runs, k) \cup (runs[j].lo .. runs[j].hi)
      /\ IsFiniteSet(NamedUpTo(runs, j))
      /\ Cardinality(NamedUpTo(runs, j)) = c + runs[j].hi - runs[j].lo + 1
  <2>1. c \in Int /\ j \in 1..n /\ j = k + 1 /\ Apart(runs, n) /\ IsFiniteSet(NamedUpTo(runs, k))
    BY <1>2 DEF LinesSoFar
  <2> QED BY <1>3, <2>1, NamedNext
<1>5. b = SubSeq(R, lo, hi)
  OBVIOUS
<1>6. PICK d \in Seq(L) : d = b
  <2>1. lo \in 1..Len(R) /\ hi \in 1..Len(R) /\ lo <= hi
    BY <1>1
  <2>2. SubSeq(R, lo, hi) \in Seq(L)
    BY <2>1, PartOfLines
  <2> QED BY <1>5, <2>2
<1>7. Len(d) = hi - lo + 1 /\ \A l \in ToSet(d) : \E x \in lo..hi : l = R[x]
  <2>1. lo \in 1..Len(R) /\ hi \in 1..Len(R) /\ lo <= hi
    BY <1>1
  <2>2. /\ Len(SubSeq(R, lo, hi)) = hi - lo + 1
        /\ LinesWithin(SubSeq(R, lo, hi), R, lo, hi)
    BY <2>1, PartOfLines
  <2>3. d = SubSeq(R, lo, hi)
    BY <1>5, <1>6
  <2> QED BY <2>2, <2>3 DEF LinesWithin
<1>8. a \o d \in Seq(L) /\ Len(a \o d) = Len(a) + Len(d)
  <2>1. a \in Seq(L) /\ d \in Seq(L)
    BY <1>6 DEF LinesSoFar
  <2> QED BY <2>1, Joined
<1>9. ToSet(a \o d) = ToSet(a) \cup ToSet(d)
  <2>1. a \in Seq(L) /\ d \in Seq(L)
    BY <1>6 DEF LinesSoFar
  <2> QED BY <2>1, JoinedElements
<1>10. Len(a \o d) = Cardinality(NamedUpTo(runs, j))
  <2>1. Cardinality(NamedUpTo(runs, j)) = c + hi - lo + 1
    BY <1>1, <1>4
  <2>2. PICK x \in Int, y \in Int : x = lo /\ y = hi
    BY <1>1
  <2>3. Cardinality(NamedUpTo(runs, j)) = c + y - x + 1
    BY <2>1, <2>2
  <2>4. Len(d) = y - x + 1
    BY <1>7, <2>2
  <2>5. Len(a \o d) = c + (y - x + 1)
    BY <1>2, <1>8, <2>4
  <2>6. c + (y - x + 1) = c + y - x + 1
    <3>1. c \in Int /\ x \in Int /\ y \in Int
      BY <1>2, <2>2
    <3> QED BY <3>1
  <2> QED BY <2>3, <2>5, <2>6
<1>11. ASSUME NEW l \in ToSet(a \o d) PROVE \E x \in NamedUpTo(runs, j) : l = R[x]
  <2>1. CASE l \in ToSet(a)
    <3>1. PICK x \in NamedUpTo(runs, k) : l = R[x]
      BY <2>1 DEF LinesNamed, LinesSoFar
    <3>2. x \in NamedUpTo(runs, j)
      BY <1>4, <3>1
    <3> QED BY <3>1, <3>2
  <2>2. CASE l \in ToSet(d)
    <3>1. PICK x \in lo..hi : l = R[x]
      BY <1>7, <2>2
    <3>2. x \in NamedUpTo(runs, j)
      BY <1>1, <1>4, <3>1
    <3> QED BY <3>1, <3>2
  <2>3. l \in ToSet(a) \/ l \in ToSet(d)
    BY <1>9, <1>11
  <2> QED BY <2>1, <2>2, <2>3
<1>12. LinesNamed(a \o d, R, runs, j)
  BY <1>10, <1>11 DEF LinesNamed
<1> QED BY <1>4, <1>6, <1>8, <1>12 DEF LinesSoFar

LEMMA SelectedLines ==
    ASSUME NEW value \in Seq(Token), NEW n \in Nat, NEW runs, Apart(runs, n),
           NamedIn(runs) \subseteq 1..Len(Split(value))
    PROVE  /\ Len(selectRanges(value, runs)) = Cardinality(NamedIn(runs))
           /\ \A l \in ToSet(selectRanges(value, runs)) : \E x \in NamedIn(runs) : l = Split(value)[x]
<1>1. PICK L : L = Seq(Token)
  OBVIOUS
<1>2. PICK R \in Seq(L) : R = Split(value)
  BY <1>1, SplitIs
<1>3. PICK m \in Nat : m = Len(R)
  BY <1>2
<1>4. NamedIn(runs) = NamedUpTo(runs, n)
  BY NamedApart
<1>5. DOMAIN runs = 1..n
  BY DEF Apart
<1>6. ASSUME NEW i \in 1..n
      PROVE  runs[i].lo \in 1..m /\ runs[i].hi \in 1..m /\ runs[i].lo <= runs[i].hi
  <2>1. PICK lo \in Int, hi \in Int : lo = runs[i].lo /\ hi = runs[i].hi /\ lo <= hi
    BY DEF Apart
  <2>2. lo \in lo..hi /\ hi \in lo..hi
    BY <2>1
  <2>3. lo..hi \subseteq NamedUpTo(runs, n)
    BY <2>1 DEF NamedUpTo
  <2>4. NamedUpTo(runs, n) \subseteq 1..m
    BY <1>2, <1>3, <1>4
  <2> QED BY <2>1, <2>2, <2>3, <2>4
<1>7. ASSUME NEW i \in 1..n
      PROVE  /\ SubSeq(R, runs[i].lo, runs[i].hi) \in Seq(L)
             /\ SubSeq(R, runs[i].lo, Min({runs[i].hi, m})) = SubSeq(R, runs[i].lo, runs[i].hi)
             /\ ~(runs[i].lo > m)
  <2>1. PICK lo, hi : lo = runs[i].lo /\ hi = runs[i].hi
    OBVIOUS
  <2>2. lo \in 1..Len(R) /\ hi \in 1..Len(R) /\ lo <= hi
    BY <1>3, <1>6, <2>1
  <2>3. SubSeq(R, lo, hi) \in Seq(L)
    BY <2>2, PartOfLines
  <2>4. Min({hi, m}) = hi
    <3>1. PICK A : A = {hi, m}
      OBVIOUS
    <3>2. A \subseteq Int /\ hi \in A /\ \A x \in A : hi <= x
      BY <1>3, <2>2, <3>1
    <3> QED BY <3>1, <3>2, MinIs
  <2>5. ~(lo > m)
    BY <1>3, <2>2
  <2> QED BY <2>1, <2>3, <2>4, <2>5
<1> DEFINE Part(r) == IF r.lo > m THEN <<>> ELSE SubSeq(R, r.lo, Min({r.hi, m}))
           ss == [r \in DOMAIN runs |-> Part(runs[r])]
<1>8. selectRanges(value, runs) = FlattenSeq(ss)
  BY <1>2, <1>3 DEF selectRanges
<1>9. ASSUME NEW i \in 1..n PROVE ss[i] = SubSeq(R, runs[i].lo, runs[i].hi) /\ ss[i] \in Seq(L)
  BY <1>5, <1>7
<1>10. ss \in Seq(Seq(L)) /\ Len(ss) = n
  <2>1. DOMAIN ss = 1..n
    BY <1>5
  <2>2. ss = [i \in 1..n |-> ss[i]]
    BY <2>1
  <2>3. PICK W : W = Seq(L)
    OBVIOUS
  <2> HIDE DEF ss
  <2>4. \A i \in 1..n : ss[i] \in W
    BY <1>9, <2>3
  <2>5. ss \in Seq(W) /\ Len(ss) = n
    BY <2>2, <2>4
  <2> QED BY <2>3, <2>5
<1> HIDE DEF ss
<1>11. PICK g : FlatRun(g, L, ss) /\ FlattenSeq(ss) = g[Len(ss)]
  BY <1>10, FlatRuns
<1>12. PICK W : W = Seq(L)
  OBVIOUS
<1>13. /\ \A k \in 0..n : g[k] \in W
       /\ g[0] = <<>>
       /\ \A k \in 1..n : g[k] = g[k - 1] \o ss[k]
  <2>1. g \in [0..n -> W] /\ g[0] = <<>> /\ \A k \in 1..n : g[k] = g[k - 1] \o ss[k]
    BY <1>10, <1>11, <1>12 DEF FlatRun
  <2> QED BY <2>1
<1> DEFINE Has(k) == k <= n => LinesSoFar(g[k], L, R, runs, k)
           G == {k \in Nat : Has(k)}
<1>14. 0 \in G
  <2>1. ToSet(g[0]) = {} /\ Len(g[0]) = 0
    BY <1>13 DEF ToSet
  <2>2. IsFiniteSet(NamedUpTo(runs, 0)) /\ Cardinality(NamedUpTo(runs, 0)) = 0
    BY NamedNone
  <2>3. LinesNamed(g[0], R, runs, 0)
    BY <2>1, <2>2 DEF LinesNamed
  <2>4. g[0] \in Seq(L)
    BY <1>12, <1>13
  <2> QED BY <2>2, <2>3, <2>4 DEF LinesSoFar
<1>15. ASSUME NEW k \in Nat, k \in G PROVE k + 1 \in G
  <2>1. CASE k + 1 <= n
    <3>1. PICK j \in 1..n : j = k + 1 /\ j - 1 = k
      BY <2>1
    <3>2. PICK a \in Seq(L) : a = g[k]
      BY <1>12, <1>13, <2>1
    <3>3. PICK lo \in 1..Len(R), hi \in 1..Len(R) : lo = runs[j].lo /\ hi = runs[j].hi
      BY <1>3, <1>6
    <3>4. PICK b : b = SubSeq(R, lo, hi)
      OBVIOUS
    <3>5. g[j] = a \o b
      <4>1. g[j] = g[k] \o ss[j]
        BY <1>13, <3>1
      <4> QED BY <1>9, <3>2, <3>3, <3>4, <4>1
    <3>6. LinesSoFar(a, L, R, runs, k)
      BY <1>15, <2>1, <3>2
    <3>7. LinesSoFar(a \o b, L, R, runs, j)
      <4>1. /\ R \in Seq(L) /\ n \in Nat /\ k \in Nat /\ j \in 1..n /\ j = k + 1 /\ Apart(runs, n)
            /\ lo \in 1..Len(R) /\ hi \in 1..Len(R)
        BY <1>2, <3>1, <3>3
      <4> QED BY <3>3, <3>4, <3>6, <4>1, JoinedLines
    <3>8. Has(j)
      BY <3>5, <3>7
    <3> HIDE DEF Has
    <3> QED BY <3>1, <3>8
  <2>2. CASE ~(k + 1 <= n)
    BY <2>2
  <2> QED BY <2>1, <2>2
<1> HIDE DEF Has
<1>16. n \in G
  <2>1. 0 \in G /\ \A k \in G : k + 1 \in G
    BY <1>14, <1>15
  <2> HIDE DEF G
  <2> QED BY <2>1, UpFromZero
<1>17. LinesNamed(g[n], R, runs, n)
  BY <1>16 DEF Has, LinesSoFar
<1>18. selectRanges(value, runs) = g[n]
  BY <1>8, <1>10, <1>11
<1>19. LinesNamed(selectRanges(value, runs), R, runs, n)
  BY <1>17, <1>18
<1> QED BY <1>2, <1>4, <1>19 DEF LinesNamed

\* The rows of a text shown as it is are lines.
LinesOnly(rows) == \A r \in ToSet(rows) : r.kind \notin GroupKinds

LEMMA LinesOnlyOfText ==
    ASSUME NEW C, NEW text \in Seq(C)
    PROVE  LinesOnly(TextRows(text))
<1>1. PICK L \in Seq(Seq(C)) : L = Split(text)
  BY SplitIs
<1>2. PICK rows : rows = [i \in DOMAIN L |-> LineRow(L[i])]
  OBVIOUS
<1>3. rows = TextRows(text)
  BY <1>1, <1>2 DEF TextRows
<1>4. ASSUME NEW r \in ToSet(rows) PROVE r.kind \notin GroupKinds
  <2>1. PICK i \in DOMAIN L : r = rows[i]
    BY <1>2 DEF ToSet
  <2>2. r = LineRow(L[i])
    BY <1>2, <2>1
  <2>3. r.kind = "line"
    BY <2>2 DEF LineRow, Row
  <2> QED BY <2>3 DEF GroupKinds
<1>5. LinesOnly(rows)
  BY <1>4 DEF LinesOnly
<1> QED BY <1>3, <1>5

LEMMA LinesOnlyBounded ==
    ASSUME NEW raw \in Seq(Token), NEW res, IsBounded(res, raw)
    PROVE  LinesOnly(res.rows)
<1>1. PICK norm \in Seq(Token) : norm = terminalNormalize(raw)
  BY TokensAre, NormIs
<1>2. PICK rows : rows = TextRows(norm)
  OBVIOUS
<1>3. IsRows(rows) /\ LinesOnly(rows)
  BY <1>1, <1>2, TextRowsAre, LinesOnlyOfText
<1>4. PICK all : all = ClampLines(rows)
  OBVIOUS
<1>5. PICK R : Wide(R) /\ AllWhole(R) /\ all \in Seq(R)
  <2>1. IsRows(all)
    BY <1>3, <1>4, ClampedRows
  <2> QED BY <2>1, RowsAre
<1>6. PICK cap : cap = BudgetCap(all)
  OBVIOUS
<1>7. CappedOf(cap, all)
  BY <1>5, <1>6, CappedRows
<1>8. res.rows = cap.rows
  <2>1. Bounded(norm) = cap
    BY <1>2, <1>4, <1>6 DEF Bounded
  <2> QED BY <1>1, <2>1 DEF IsBounded
<1>9. \A r \in ToSet(all) : \E s \in ToSet(rows) : SaysAs(r, s)
  BY <1>3, <1>4, ClampSays
<1>10. ASSUME NEW r \in ToSet(res.rows) PROVE r.kind \notin GroupKinds
  <2>1. SUFFICES ASSUME r.kind \in GroupKinds PROVE FALSE
    OBVIOUS
  <2>2. r \in ToSet(all)
    BY <1>7, <1>8, <2>1 DEF CappedOf, GroupKinds
  <2>3. PICK s \in ToSet(rows) : SaysAs(r, s)
    BY <1>9, <2>2
  <2>4. s.kind \in GroupKinds
    BY <2>1, <2>3 DEF SaysAs
  <2> QED BY <1>3, <2>3, <2>4 DEF LinesOnly
<1> QED BY <1>10 DEF LinesOnly

\* A view with a head in it is an outline.
LEMMA HeadsOfOutlines ==
    ASSUME NEW raw \in Seq(Token), NEW f, NEW v, IsView(v, raw, f), v.spill # <<>>,
           NEW r \in ToSet(v.rows), r.kind \in GroupKinds
    PROVE  v.outlined /\ v.spill = <<raw>>
<1>1. PICK res : res = Analyze(raw, f)
  OBVIOUS
<1>2. v = exact(raw) \/ Shows(v, res, raw)
  BY <1>1, ViewIs
<1>3. exact(raw).spill = <<>>
  BY ExactIs
<1>4. Shows(v, res, raw)
  BY <1>2, <1>3
<1>5. v.rows = res.rows /\ (v.outlined <=> res.outlined) /\ v.spill = <<raw>>
  BY <1>4 DEF Shows
<1>6. IsWhole(res, raw) \/ IsBounded(res, raw) \/ IsOutline(res, raw, f)
  BY <1>1, AnalyzeIs
<1>7. CASE IsWhole(res, raw)
  <2>1. LinesOnly(TextRows(raw))
    BY LinesOnlyOfText
  <2>2. v.rows = TextRows(raw)
    BY <1>5, <1>7 DEF IsWhole
  <2> QED BY <2>1, <2>2 DEF LinesOnly
<1>8. CASE IsBounded(res, raw)
  <2>1. LinesOnly(res.rows)
    BY <1>8, LinesOnlyBounded
  <2> QED BY <1>5, <2>1 DEF LinesOnly
<1>9. CASE IsOutline(res, raw, f)
  BY <1>5, <1>9 DEF IsOutline
<1> QED BY <1>6, <1>7, <1>8, <1>9

-----------------------------------------------------------------------------
\* The numbers of a group of a whole stream are of its lines.
LEMMA GroupLines ==
    ASSUME NEW ls, NEW g, NEW A, GroupOf(g, A, ls, 1)
    PROVE  \A x \in ToSet(g.lines) :
              x \in Showing(ls) /\ Templatize(stripLinePrefix(ls[x])).template = g.template
<1>1. PICK ms : IsGroupOf(g, ms, A, ls, 1)
  BY DEF GroupOf
<1>2. ASSUME NEW x \in ToSet(g.lines)
      PROVE  x \in Showing(ls) /\ Templatize(stripLinePrefix(ls[x])).template = g.template
  <2>1. PICK k \in 1..Len(ms) : x = g.lines[k]
    BY <1>1 DEF ToSet, IsGroupOf
  <2>2. PICK m \in A : m = ms[k]
    BY <1>1 DEF IsGroupOf, InSequence
  <2>3. m \in Showing(ls) /\ m \in Nat
    BY DEF GroupOf, Showing
  <2>4. HoldsLine(g, k, ls[m], 1 + m - 1)
    BY <1>1, <2>2 DEF IsGroupOf
  <2>5. 1 + m - 1 = m
    BY <2>3
  <2>6. x = m /\ Templatize(stripLinePrefix(ls[m])) = [template |-> g.template, slots |-> g.rows[k]]
    BY <2>1, <2>4, <2>5 DEF HoldsLine
  <2> QED BY <2>3, <2>6
<1> QED BY <1>2

LEMMA ReadBack ==
    ASSUME NEW raw \in Seq(Token), NEW ls, ls = splitRawLines(terminalNormalize(raw)), NEW g, NEW A,
           GroupOf(g, A, ls, 1),
           NEW runs, NEW n \in Nat, Apart(runs, n), NamedIn(runs) \subseteq ToSet(g.lines)
    PROVE  /\ Len(selectRanges(raw, runs)) = Cardinality(NamedIn(runs))
           /\ \A l \in ToSet(selectRanges(raw, runs)) : Templatize(EndedBody(l)).template = g.template
<1>1. \A x \in NamedIn(runs) : x \in Showing(ls) /\ Templatize(stripLinePrefix(ls[x])).template = g.template
  BY GroupLines
<1>2. PICK R : R = Split(raw)
  OBVIOUS
<1>3. \A x \in NamedIn(runs) : x \in 1..Len(R) /\ EndedBody(R[x]) = stripLinePrefix(ls[x])
  BY <1>1, <1>2, ReadBackBody
<1>4. NamedIn(runs) \subseteq 1..Len(Split(raw))
  BY <1>2, <1>3
<1>5. PICK o : o = selectRanges(raw, runs)
  OBVIOUS
<1>6. /\ Len(o) = Cardinality(NamedIn(runs))
      /\ \A l \in ToSet(o) : \E x \in NamedIn(runs) : l = R[x]
  BY <1>2, <1>4, <1>5, SelectedLines
<1>7. ASSUME NEW l \in ToSet(o) PROVE Templatize(EndedBody(l)).template = g.template
  <2>1. PICK x \in NamedIn(runs) : l = R[x]
    BY <1>6
  <2>2. EndedBody(l) = stripLinePrefix(ls[x])
    BY <1>3, <2>1
  <2> QED BY <1>1, <2>1, <2>2
<1> QED BY <1>5, <1>6, <1>7

LEMMA ViewRecovers ==
    ASSUME ViewInv
    PROVE  ElisionRecoverable
<1> SUFFICES ASSUME view.made
             PROVE  /\ view.spill = <<buf>> \/ view.rows = TextRows(buf)
                    /\ first = 1 /\ got # NoGot => GotMatches
  BY DEF ElisionRecoverable
<1>1. buf \in Seq(Token) /\ IsView(view, buf, first)
  BY DEF ViewInv
<1>2. view.spill = <<buf>> \/ view.rows = TextRows(buf)
  <2>1. PICK res : res = Analyze(buf, first)
    OBVIOUS
  <2>2. view = exact(buf) \/ Shows(view, res, buf)
    BY <1>1, <2>1, ViewIs
  <2>3. exact(buf).rows = TextRows(buf)
    BY ExactIs
  <2>4. ~res.elided => res.rows = TextRows(buf)
    BY <2>1, AnalyzeIs
  <2> QED BY <2>2, <2>3, <2>4 DEF Shows
<1>3. ASSUME first = 1, got # NoGot PROVE GotMatches
  <2>1. PICK i \in DOMAIN view.rows :
          /\ view.spill # <<>> /\ view.rows[i].kind = "group"
          /\ got = [row |-> i, lines |-> selectRanges(view.spill[1], view.rows[i].of.span.listed)]
    BY <1>3 DEF ViewInv, IsGot
  <2>2. PICK r : r = view.rows[i]
    OBVIOUS
  <2>3. r \in ToSet(view.rows) /\ r.kind \in GroupKinds /\ r.kind = "group"
    BY <2>1, <2>2 DEF ToSet, GroupKinds
  <2>4. view.outlined /\ view.spill = <<buf>>
    BY <1>1, <2>1, <2>3, HeadsOfOutlines
  <2>5. PICK ls : ls = splitRawLines(terminalNormalize(buf))
    OBVIOUS
  <2>6. PICK p \in Nat : \E As : OutlineOf(view, buf, 1, p, As)
    BY <1>1, <1>3, <2>4, OutlineShown
  <2>7. PICK As : OutlineOf(view, buf, 1, p, As)
    BY <2>6
  <2>8. PICK j \in 1..p : Tells(r, view.groups[j])
    BY <2>3, <2>7 DEF OutlineOf
  <2>9. PICK g : g = view.groups[j]
    OBVIOUS
  <2>10. GroupOf(g, As[j], ls, 1)
    BY <2>5, <2>7, <2>9 DEF OutlineOf, Partition
  <2>11. PICK runs : runs = r.of.span.listed
    OBVIOUS
  <2>12. HeadOf(r.of, g) /\ r.of.template = g.template
    BY <2>3, <2>8, <2>9 DEF Tells
  <2>13. PICK n \in Nat : Apart(runs, n)
    BY <2>3, <2>8, <2>11 DEF Tells
  <2>14. NamedIn(runs) \subseteq ToSet(g.lines)
    BY <2>11, <2>12 DEF HeadOf
  <2>15. PICK o : o = selectRanges(buf, runs)
    OBVIOUS
  <2>16. /\ Len(o) = Cardinality(NamedIn(runs))
         /\ \A l \in ToSet(o) : Templatize(EndedBody(l)).template = g.template
    BY <1>1, <2>5, <2>10, <2>13, <2>14, <2>15, ReadBack
  <2>17. got.row = i /\ got.lines = o
    BY <2>1, <2>2, <2>4, <2>11, <2>15
  <2>18. view.rows[got.row].of = r.of
    BY <2>2, <2>17
  <2>19. \A k \in DOMAIN got.lines : Templatize(EndedBody(got.lines[k])).template = r.of.template
    BY <2>12, <2>16, <2>17 DEF ToSet
  <2> QED BY <2>11, <2>16, <2>17, <2>18, <2>19 DEF GotMatches
<1> QED BY <1>2, <1>3

\* A view is the bytes of the buffer or is backed by a spill of them, and for a whole stream
\* read_block finds under the numbers of a head the lines it names (deliver.go, collapse.go).
THEOREM ViewIsRecoverable == TextSpec => []ElisionRecoverable
<1>1. ViewInv => ElisionRecoverable
  BY ViewRecovers
<1> QED BY <1>1, ViewsAreOfTheBuffer, PTL

-----------------------------------------------------------------------------
(* Spans over a text.                                                      *)

\* The instance of EditTransforms has the library's operators under names of its own.
LEMMA EditsCount ==
    ASSUME NEW S
    PROVE  Edits!Cardinality(S) = Cardinality(S)
  BY DEF Edits!Cardinality, Cardinality

LEMMA EditsMin ==
    ASSUME NEW S
    PROVE  Edits!Min(S) = Min(S)
  BY DEF Edits!Min, Min

LEMMA EditsMax ==
    ASSUME NEW S
    PROVE  Edits!Max(S) = Max(S)
  BY DEF Edits!Max, Max

LEMMA EditsFlat ==
    ASSUME NEW ss
    PROVE  Edits!FlattenSeq(ss) = FlattenSeq(ss)
  BY DEF Edits!FlattenSeq, FlattenSeq

LEMMA EditsEnds ==
    ASSUME NEW s
    PROVE  Edits!Last(s) = Last(s) /\ Edits!ToSet(s) = ToSet(s)
  BY DEF Edits!Last, Edits!ToSet, Last, ToSet

Associates(s, t, u) == (s \o t) \o u = s \o (t \o u)

LEMMA AssociatesIs ==
    ASSUME NEW L, NEW s \in Seq(L), NEW t \in Seq(L), NEW u \in Seq(L)
    PROVE  Associates(s, t, u)
  BY ConcatAssociative DEF Associates

\* What replaceLines makes of a text whose first lines are those of the file.
Replaces(ls, rest, new, before, from, to) ==
    Edits!replaceLines(Prefix(ls, to) \o rest, from, to, new)
      = Prefix(ls, before) \o ((SubSeq(ls, before + 1, from - 1) \o new) \o rest)

LEMMA ReplacedIs ==
    ASSUME NEW L, NEW ls \in Seq(L), NEW rest \in Seq(L), NEW new \in Seq(L),
           NEW before \in 0..Len(ls), NEW from \in Int, NEW to \in 0..Len(ls),
           before < from, from <= to
    PROVE  Replaces(ls, rest, new, before, from, to)
<1>1. PICK a \in Seq(L) : a = Prefix(ls, to) /\ Len(a) = to /\ \A j \in 1..to : a[j] = ls[j]
  BY SuffixIs
<1>2. PICK t \in Seq(L) : t = a \o rest
  BY Joined
<1>3. PICK n \in Nat, r \in Nat : n = Len(ls) /\ r = Len(rest)
  OBVIOUS
<1>4. Len(t) = to + r /\ (\A i \in 1..to : t[i] = a[i]) /\ \A i \in 1..r : t[to + i] = rest[i]
  <2>1. /\ Len(a \o rest) = Len(a) + Len(rest)
        /\ \A i \in 1..Len(a) : (a \o rest)[i] = a[i]
        /\ \A i \in 1..Len(rest) : (a \o rest)[Len(a) + i] = rest[i]
    <3>1. a \in Seq(L) /\ rest \in Seq(L)
      BY <1>1
    <3> QED BY <3>1, Joined
  <2> QED BY <1>1, <1>2, <1>3, <2>1
<1>5. PICK p \in Nat : p = from - 1 /\ p >= before /\ p <= to /\ p <= n
  <2>1. from - 1 \in Nat /\ from - 1 >= before /\ from - 1 <= to /\ from - 1 <= n
    BY <1>3
  <2> QED BY <2>1
<1>6. SubSeq(t, 1, p) = Prefix(ls, p)
  <2>1. p \in 0..Len(t) /\ p \in 0..Len(ls)
    BY <1>3, <1>4, <1>5
  <2>2. PICK u \in Seq(L) : u = Prefix(t, p) /\ Len(u) = p /\ \A j \in 1..p : u[j] = t[j]
    BY <2>1, SuffixIs
  <2>3. PICK v \in Seq(L) : v = Prefix(ls, p) /\ Len(v) = p /\ \A j \in 1..p : v[j] = ls[j]
    BY <2>1, SuffixIs
  <2>4. \A j \in 1..p : u[j] = v[j]
    <3>1. \A j \in 1..p : j \in 1..to
      BY <1>5
    <3> QED BY <1>1, <1>4, <2>2, <2>3, <3>1
  <2>5. u = v
    BY <2>2, <2>3, <2>4, SeqEqual
  <2> QED BY <2>2, <2>3, <2>5 DEF Prefix
<1>7. SubSeq(t, to + 1, Len(t)) = rest
  <2>1. PICK m \in Nat : m = to + r /\ m = Len(t)
    BY <1>4
  <2>2. to + r <= Len(t) /\ to \in Nat
    BY <2>1
  <2>3. /\ SubSeq(t, to + 1, to + r) \in Seq(L)
        /\ Len(SubSeq(t, to + 1, to + r)) = r
        /\ \A j \in 1..r : SubSeq(t, to + 1, to + r)[j] = t[to + j]
    BY <2>2, Slice
  <2>4. PICK u \in Seq(L) : u = SubSeq(t, to + 1, to + r)
    BY <2>3
  <2>5. Len(u) = Len(rest) /\ \A j \in 1..Len(u) : u[j] = rest[j]
    BY <1>3, <1>4, <2>3, <2>4
  <2>6. u = rest
    BY <2>5, SeqEqual
  <2> QED BY <2>1, <2>4, <2>6
<1>8. Edits!replaceLines(t, from, to, new) = (Prefix(ls, p) \o new) \o rest
  BY <1>5, <1>6, <1>7 DEF Edits!replaceLines
<1>9. PICK b \in Seq(L), gap \in Seq(L) :
        /\ b = Prefix(ls, before) /\ gap = SubSeq(ls, before + 1, p) /\ Prefix(ls, p) = b \o gap
  <2>1. 1 \in 1..(Len(ls) + 1) /\ before \in (1 - 1)..Len(ls) /\ p \in before..Len(ls)
    BY <1>3, <1>5
  <2>2. SubSeq(ls, 1, before) \o SubSeq(ls, before + 1, p) = SubSeq(ls, 1, p)
    BY <2>1, ConcatAdjacentSubSeq
  <2>3. before + 1 \in Int /\ p \in Int /\ \A i \in (before + 1)..p : ls[i] \in L
    BY <1>3, <1>5
  <2>4. SubSeq(ls, before + 1, p) \in Seq(L)
    BY <2>3, SubSeqProperties
  <2>5. Prefix(ls, before) \in Seq(L)
    BY SuffixIs
  <2> QED BY <2>2, <2>4, <2>5 DEF Prefix
<1>10. ((b \o gap) \o new) \o rest = b \o ((gap \o new) \o rest)
  <2>1. (b \o gap) \o new = b \o (gap \o new)
    <3>1. b \in Seq(L) /\ gap \in Seq(L) /\ new \in Seq(L)
      BY <1>9
    <3>2. Associates(b, gap, new)
      BY <3>1, AssociatesIs
    <3> QED BY <3>2 DEF Associates
  <2>2. PICK x \in Seq(L) : x = gap \o new
    BY <1>9, Joined
  <2>3. (b \o x) \o rest = b \o (x \o rest)
    <3>1. b \in Seq(L) /\ x \in Seq(L) /\ rest \in Seq(L)
      BY <1>9, <2>2
    <3>2. Associates(b, x, rest)
      BY <3>1, AssociatesIs
    <3> QED BY <3>2 DEF Associates
  <2> QED BY <2>1, <2>2, <2>3
<1>11. SubSeq(ls, before + 1, from - 1) = gap
  BY <1>5, <1>9
<1>12. (Prefix(ls, p) \o new) \o rest = b \o ((gap \o new) \o rest)
  BY <1>9, <1>10
<1> QED BY <1>1, <1>2, <1>8, <1>9, <1>11, <1>12 DEF Replaces

\* Spans in the order of the lines they replace, none over another.
InPlace(L, ls, edits, n) ==
    /\ DOMAIN edits = 1..n
    /\ \A k \in 1..n : /\ edits[k].start \in 1..Len(ls) /\ edits[k].end \in edits[k].start..Len(ls)
                       /\ edits[k].new \in Seq(L)
    /\ \A k \in 2..n : edits[k - 1].end < edits[k].start

EndAt(edits, k) == IF k = 0 THEN 0 ELSE edits[k].end

LEMMA PlacesOfEdits ==
    ASSUME NEW L, NEW ls \in Seq(L), NEW edits, NEW n \in Nat, InPlace(L, ls, edits, n)
    PROVE  /\ \A k \in 0..n : EndAt(edits, k) \in 0..Len(ls)
           /\ \A k \in 1..n : /\ EndAt(edits, k - 1) < edits[k].start
                              /\ edits[k].start <= EndAt(edits, k) /\ EndAt(edits, k) = edits[k].end
                              /\ edits[k].start \in Int /\ edits[k].new \in Seq(L)
<1>1. PICK l \in Nat : l = Len(ls)
  OBVIOUS
<1>2. ASSUME NEW k \in 1..n
      PROVE  /\ edits[k].start \in 1..l /\ edits[k].end \in edits[k].start..l
             /\ edits[k].new \in Seq(L)
  BY <1>1 DEF InPlace
<1>3. ASSUME NEW k \in 1..n PROVE EndAt(edits, k) = edits[k].end
  BY DEF EndAt
<1>4. ASSUME NEW k \in 0..n PROVE EndAt(edits, k) \in 0..l
  <2>1. CASE k = 0
    BY <2>1 DEF EndAt
  <2>2. CASE k # 0
    <3>1. k \in 1..n
      BY <2>2
    <3> QED BY <1>2, <1>3, <3>1
  <2> QED BY <2>1, <2>2
<1>5. ASSUME NEW k \in 1..n PROVE EndAt(edits, k - 1) < edits[k].start
  <2>1. CASE k = 1
    <3>1. EndAt(edits, k - 1) = 0
      BY <2>1 DEF EndAt
    <3> QED BY <1>2, <3>1
  <2>2. CASE k # 1
    <3>1. k \in 2..n /\ k - 1 \in 1..n
      BY <2>2
    <3>2. edits[k - 1].end < edits[k].start
      BY <3>1 DEF InPlace
    <3> QED BY <1>3, <3>1, <3>2
  <2> QED BY <2>1, <2>2
<1>6. ASSUME NEW k \in 1..n PROVE edits[k].start <= EndAt(edits, k) /\ edits[k].start \in Int
  BY <1>2, <1>3
<1> QED BY <1>1, <1>2, <1>3, <1>4, <1>5, <1>6

\* A text whose lines up to the end of the k-th span are still those of the file.
KeptUpTo(v, L, ls, e) == \E r \in Seq(L) : v = Prefix(ls, e) \o r

LEMMA KeptUpToLess ==
    ASSUME NEW L, NEW ls \in Seq(L), NEW e \in 0..Len(ls), NEW d \in 0..Len(ls), d <= e,
           NEW v, KeptUpTo(v, L, ls, e)
    PROVE  KeptUpTo(v, L, ls, d) /\ v \in Seq(L)
<1>1. PICK r \in Seq(L) : v = Prefix(ls, e) \o r
  BY DEF KeptUpTo
<1>2. PICK a \in Seq(L), b \in Seq(L), c \in Seq(L) :
        a = Prefix(ls, d) /\ b = SubSeq(ls, d + 1, e) /\ c = Prefix(ls, e)
  <2>1. d + 1 \in Int /\ e \in Int /\ \A i \in (d + 1)..e : ls[i] \in L
    OBVIOUS
  <2>2. SubSeq(ls, d + 1, e) \in Seq(L)
    BY <2>1, SubSeqProperties
  <2> QED BY <2>2, SuffixIs
<1>3. c = a \o b
  <2>1. 1 \in 1..(Len(ls) + 1) /\ d \in (1 - 1)..Len(ls) /\ e \in d..Len(ls)
    OBVIOUS
  <2>2. SubSeq(ls, 1, d) \o SubSeq(ls, d + 1, e) = SubSeq(ls, 1, e)
    BY <2>1, ConcatAdjacentSubSeq
  <2> QED BY <1>2, <2>2 DEF Prefix
<1>4. Associates(a, b, r)
  <2>1. a \in Seq(L) /\ b \in Seq(L) /\ r \in Seq(L)
    BY <1>1, <1>2
  <2> QED BY <2>1, AssociatesIs
<1>5. PICK q \in Seq(L) : q = b \o r
  <2>1. b \in Seq(L) /\ r \in Seq(L)
    BY <1>1, <1>2
  <2> QED BY <2>1, Joined
<1>6. v = a \o q
  BY <1>1, <1>2, <1>3, <1>4, <1>5 DEF Associates
<1>7. a \o q \in Seq(L)
  <2>1. a \in Seq(L) /\ q \in Seq(L)
    BY <1>2, <1>5
  <2> QED BY <2>1, Joined
<1> QED BY <1>2, <1>5, <1>6, <1>7 DEF KeptUpTo

LEMMA KeptWhole ==
    ASSUME NEW L, NEW ls \in Seq(L), NEW e \in 0..Len(ls)
    PROVE  KeptUpTo(ls, L, ls, e)
<1>1. PICK r \in Seq(L) : r = SubSeq(ls, e + 1, Len(ls))
  BY PartsOfText
<1>2. ls = Prefix(ls, e) \o SubSeq(ls, e + 1, Len(ls))
  BY PartsOfText
<1> QED BY <1>1, <1>2 DEF KeptUpTo

Turned(v, e) == Edits!replaceLines(v, e.start, e.end, e.new)

LEMMA TurnedKeeps ==
    ASSUME NEW L, NEW ls \in Seq(L), NEW edits, NEW n \in Nat, InPlace(L, ls, edits, n),
           NEW k \in 1..n, NEW v, KeptUpTo(v, L, ls, EndAt(edits, k))
    PROVE  KeptUpTo(Turned(v, edits[k]), L, ls, EndAt(edits, k - 1)) /\ Turned(v, edits[k]) \in Seq(L)
<1>1. PICK r \in Seq(L) : v = Prefix(ls, EndAt(edits, k)) \o r
  BY DEF KeptUpTo
<1>2. k \in 0..n /\ k - 1 \in 0..n
  OBVIOUS
<1>3. PICK before \in 0..Len(ls), from \in Int, to \in 0..Len(ls), new \in Seq(L) :
        /\ before = EndAt(edits, k - 1) /\ from = edits[k].start /\ to = EndAt(edits, k)
        /\ to = edits[k].end /\ new = edits[k].new /\ before < from /\ from <= to
  <2>1. EndAt(edits, k - 1) \in 0..Len(ls) /\ EndAt(edits, k) \in 0..Len(ls)
    BY <1>2, PlacesOfEdits
  <2>2. /\ EndAt(edits, k - 1) < edits[k].start
        /\ edits[k].start <= EndAt(edits, k) /\ EndAt(edits, k) = edits[k].end
        /\ edits[k].start \in Int /\ edits[k].new \in Seq(L)
    BY PlacesOfEdits
  <2> QED BY <2>1, <2>2
<1>4. Replaces(ls, r, new, before, from, to)
  <2>1. /\ r \in Seq(L) /\ before \in 0..Len(ls) /\ from \in Int /\ to \in 0..Len(ls)
        /\ new \in Seq(L) /\ before < from /\ from <= to
    BY <1>1, <1>3
  <2> QED BY <2>1, ReplacedIs
<1>5. PICK gap \in Seq(L) : gap = SubSeq(ls, before + 1, from - 1)
  <2>1. before + 1 \in Int /\ from - 1 \in Int /\ \A i \in (before + 1)..(from - 1) : ls[i] \in L
    <3>1. before \in 0..Len(ls) /\ to \in 0..Len(ls) /\ from \in Int /\ from <= to
      BY <1>3
    <3>2. ASSUME NEW i \in (before + 1)..(from - 1) PROVE ls[i] \in L
      <4>1. i \in 1..Len(ls)
        BY <3>1
      <4> QED BY <4>1
    <3> QED BY <3>1, <3>2
  <2> QED BY <2>1, SubSeqProperties
<1>6. PICK g2 \in Seq(L) : g2 = gap \o new
  <2>1. gap \in Seq(L) /\ new \in Seq(L)
    BY <1>3, <1>5
  <2> QED BY <2>1, Joined
<1>7. PICK q \in Seq(L) : q = g2 \o r
  <2>1. g2 \in Seq(L) /\ r \in Seq(L)
    BY <1>1, <1>6
  <2> QED BY <2>1, Joined
<1>8. PICK t : t = Turned(v, edits[k])
  BY SMTT(20)
<1>9. t = Prefix(ls, before) \o q
  BY <1>1, <1>3, <1>4, <1>5, <1>6, <1>7, <1>8, Zenon DEF Turned, Replaces
<1>10. KeptUpTo(t, L, ls, before)
  BY <1>7, <1>9 DEF KeptUpTo
<1>11. t \in Seq(L)
  BY <1>3, <1>10, KeptUpToLess
<1> QED BY <1>3, <1>8, <1>10, <1>11

\* The spans of T applied, from the last to the first.
TotalBy(it, n, ls, edits, step) ==
    \A T \in SUBSET (1..n) :
        it[T] = IF T = {} THEN ls ELSE step[<<Min(T), it[T \ {Min(T)}]>>]

\* Positions after the k-th.
After(k, n) == SUBSET ((k + 1)..n)

LEMMA AfterIs ==
    ASSUME NEW n \in Nat, NEW k \in 1..n, NEW T \in After(k - 1, n)
    PROVE  /\ T \in SUBSET (1..n)
           /\ k \notin T => T \in After(k, n)
           /\ k \in T => T # {} /\ Min(T) = k /\ T \ {k} \in After(k, n)
<1>1. (k - 1) + 1 = k
  OBVIOUS
<1>2. T \in SUBSET (k..n)
  BY <1>1 DEF After
<1>3. \A i \in k..n : i # k => i \in (k + 1)..n
  OBVIOUS
<1>4. k \in T => Min(T) = k
  <2> SUFFICES ASSUME k \in T PROVE Min(T) = k
    OBVIOUS
  <2>1. T \subseteq Int /\ \A i \in T : k <= i
    BY <1>2
  <2> QED BY <2>1, MinIs
<1> QED BY <1>2, <1>3, <1>4 DEF After

LEMMA TextsKept ==
    ASSUME NEW L, NEW ls \in Seq(L), NEW edits, NEW n \in Nat, InPlace(L, ls, edits, n),
           NEW it, NEW step,
           \A k \in 1..n, v \in Seq(L) :
             Turned(v, edits[k]) \in Seq(L) => step[<<k, v>>] = Turned(v, edits[k]),
           TotalBy(it, n, ls, edits, step)
    PROVE  \A k \in 0..n : \A T \in After(k, n) : KeptUpTo(it[T], L, ls, EndAt(edits, k))
<1> DEFINE G == {k \in 0..n : \A T \in After(k, n) : KeptUpTo(it[T], L, ls, EndAt(edits, k))}
<1>1. \A k \in 0..n : EndAt(edits, k) \in 0..Len(ls)
  BY PlacesOfEdits
<1>2. n \in G
  <2>1. \A T \in After(n, n) : T = {}
    BY DEF After
  <2>2. it[{}] = ls
    BY DEF TotalBy
  <2>3. KeptUpTo(ls, L, ls, EndAt(edits, n))
    <3>1. PICK m \in 0..Len(ls) : m = EndAt(edits, n)
      BY <1>1
    <3>2. KeptUpTo(ls, L, ls, m)
      BY <3>1, KeptWhole
    <3> QED BY <3>1, <3>2
  <2>4. ASSUME NEW T \in After(n, n) PROVE KeptUpTo(it[T], L, ls, EndAt(edits, n))
    <3>1. T = {}
      BY <2>1
    <3>2. it[T] = ls
      BY <2>2, <3>1
    <3> QED BY <2>3, <3>2
  <2>5. n \in 0..n
    OBVIOUS
  <2> QED BY <2>4, <2>5
<1>3. ASSUME NEW k \in 1..n, k \in G PROVE k - 1 \in G
  <2>0. k - 1 \in 0..n /\ k \in 0..n
    OBVIOUS
  <2>1. ASSUME NEW T \in After(k - 1, n) PROVE KeptUpTo(it[T], L, ls, EndAt(edits, k - 1))
    <3>1. CASE k \notin T
      <4>1. KeptUpTo(it[T], L, ls, EndAt(edits, k))
        BY <1>3, <3>1, AfterIs
      <4>2. PICK e \in 0..Len(ls), d \in 0..Len(ls) :
              e = EndAt(edits, k) /\ d = EndAt(edits, k - 1)
        BY <1>1, <2>0
      <4>3. d <= e
        <5>1. EndAt(edits, k - 1) < edits[k].start /\ edits[k].start <= EndAt(edits, k)
              /\ edits[k].start \in Int
          BY PlacesOfEdits
        <5> QED BY <4>2, <5>1
      <4>4. KeptUpTo(it[T], L, ls, d)
        BY <4>1, <4>2, <4>3, KeptUpToLess
      <4> QED BY <4>2, <4>4
    <3>2. CASE k \in T
      <4>1. T \in SUBSET (1..n) /\ T # {} /\ Min(T) = k /\ T \ {k} \in After(k, n)
        BY <3>2, AfterIs
      <4>2. PICK v : v = it[T \ {k}]
        OBVIOUS
      <4>3. KeptUpTo(v, L, ls, EndAt(edits, k))
        BY <1>3, <4>1, <4>2
      <4>4. /\ KeptUpTo(Turned(v, edits[k]), L, ls, EndAt(edits, k - 1))
            /\ Turned(v, edits[k]) \in Seq(L)
        BY <4>3, TurnedKeeps
      <4>5. v \in Seq(L)
        <5>1. PICK e \in 0..Len(ls) : e = EndAt(edits, k)
          BY <1>1, <2>0
        <5>2. e <= e
          BY <5>1
        <5> QED BY <4>3, <5>1, <5>2, KeptUpToLess
      <4>6. it[T] = step[<<k, v>>]
        BY <4>1, <4>2 DEF TotalBy
      <4>7. it[T] = Turned(v, edits[k])
        BY <4>4, <4>5, <4>6
      <4> QED BY <4>4, <4>7
    <3> QED BY <3>1, <3>2
  <2> QED BY <2>0, <2>1
<1> HIDE DEF G
<1>4. \A k \in 0..n : k \in G
  BY <1>2, <1>3, DownFrom
<1> QED BY <1>4 DEF G

TurnsInto(it, n, ls, edits) ==
    it = [T \in SUBSET (1..n) |->
             IF T = {} THEN ls ELSE Turned(it[T \ {Min(T)}], edits[Min(T)])]

LEMMA TurnedHasValue ==
    ASSUME NEW L, NEW ls \in Seq(L), NEW edits, NEW n \in Nat, InPlace(L, ls, edits, n)
    PROVE  \E it : TurnsInto(it, n, ls, edits)
<1>1. PICK V : V = Seq(L)
  OBVIOUS
<1>2. PICK step : step = [p \in (1..n) \X V |->
                    IF Turned(p[2], edits[p[1]]) \in V THEN Turned(p[2], edits[p[1]]) ELSE ls]
  OBVIOUS
<1>3. \A k \in 1..n, v \in V :
        step[<<k, v>>] = IF Turned(v, edits[k]) \in V THEN Turned(v, edits[k]) ELSE ls
  BY <1>2
<1>4. StepsIn(step, 1..n, V)
  BY <1>1, <1>3, Zenon DEF StepsIn
<1>5. PICK next : next = [T \in SUBSET (1..n) |-> Min(T)]
  OBVIOUS
<1>6. \A T \in SUBSET (1..n) : T # {} => Min(T) \in T
  <2>1. ASSUME NEW T \in SUBSET (1..n), T # {} PROVE Min(T) \in T
    <3>1. T \subseteq Nat
      OBVIOUS
    <3> QED BY <2>1, <3>1, MinIn
  <2> QED BY <2>1
<1>7. Chooses(next, 1..n)
  BY <1>5, <1>6 DEF Chooses
<1>8. IsFiniteSet(1..n)
  BY FS_Interval
<1>9. PICK it : FoldedBy(it, 1..n, V, ls, next, step)
  BY <1>1, <1>4, <1>7, <1>8, FoldHasValue
<1>10. TotalBy(it, n, ls, edits, step)
  BY <1>5, <1>9 DEF FoldedBy, TotalBy
<1>11. \A k \in 0..n : \A T \in After(k, n) : KeptUpTo(it[T], L, ls, EndAt(edits, k))
  <2>1. \A k \in 1..n, v \in Seq(L) :
          Turned(v, edits[k]) \in Seq(L) => step[<<k, v>>] = Turned(v, edits[k])
    BY <1>1, <1>3
  <2> QED BY <1>10, <2>1, TextsKept
<1>12. ASSUME NEW T \in SUBSET (1..n), T # {}
       PROVE  it[T] = Turned(it[T \ {Min(T)}], edits[Min(T)])
  <2>1. PICK k \in 1..n : k = Min(T) /\ k \in T
    BY <1>6, <1>12
  <2>2. T \ {k} \in After(k, n)
    <3>1. \A i \in T : k <= i
      <4>1. T \subseteq Nat
        OBVIOUS
      <4> QED BY <1>12, <2>1, <4>1, MinIn
    <3>2. \A i \in T \ {k} : i \in (k + 1)..n
      BY <2>1, <3>1
    <3> QED BY <3>2 DEF After
  <2>3. PICK v : v = it[T \ {k}]
    OBVIOUS
  <2>4. KeptUpTo(v, L, ls, EndAt(edits, k))
    BY <1>11, <2>1, <2>2, <2>3
  <2>5. Turned(v, edits[k]) \in V
    BY <1>1, <2>1, <2>4, TurnedKeeps
  <2>6. v \in V
    BY <1>9, <2>3 DEF FoldedBy
  <2>7. it[T] = step[<<k, v>>]
    BY <1>10, <1>12, <2>1, <2>3 DEF TotalBy
  <2>8. it[T] = Turned(v, edits[k])
    BY <1>3, <2>1, <2>5, <2>6, <2>7
  <2> QED BY <2>1, <2>3, <2>8
<1>13. it[{}] = ls
  BY <1>10 DEF TotalBy
<1>14. it = [T \in SUBSET (1..n) |-> it[T]]
  BY <1>9 DEF FoldedBy
<1>15. TurnsInto(it, n, ls, edits)
  BY <1>12, <1>13, <1>14 DEF TurnsInto
<1> QED BY <1>15

\* A span's place in the woven text: the lines before it and its own.
PieceOf(ls, edits, k) ==
    SubSeq(ls, IF k = 1 THEN 1 ELSE edits[k - 1].end + 1, edits[k].start - 1) \o edits[k].new

IsPiece(p, ls, edits, k) ==
    p = SubSeq(ls, EndAt(edits, k - 1) + 1, edits[k].start - 1) \o edits[k].new

LEMMA PieceIs ==
    ASSUME NEW L, NEW ls \in Seq(L), NEW edits, NEW n \in Nat, InPlace(L, ls, edits, n),
           NEW k \in 1..n
    PROVE  IsPiece(PieceOf(ls, edits, k), ls, edits, k) /\ PieceOf(ls, edits, k) \in Seq(L)
<1>0. k - 1 \in 0..n /\ k \in 0..n
  OBVIOUS
<1>1. PICK a : a = IF k = 1 THEN 1 ELSE edits[k - 1].end + 1
  OBVIOUS
<1>2. a = EndAt(edits, k - 1) + 1
  <2>1. k = 1 <=> k - 1 = 0
    OBVIOUS
  <2> QED BY <1>1, <2>1 DEF EndAt
<1>3. PICK d \in 0..Len(ls) : d = EndAt(edits, k - 1)
  BY <1>0, PlacesOfEdits
<1>4. PICK e \in Int : e = edits[k].start - 1 /\ e <= Len(ls)
  <2>1. edits[k].start \in 1..Len(ls)
    BY DEF InPlace
  <2> QED BY <2>1
<1>5. d + 1 \in Int /\ \A i \in (d + 1)..e : ls[i] \in L
  BY <1>3, <1>4
<1>6. PICK gap \in Seq(L) : gap = SubSeq(ls, d + 1, e)
  BY <1>4, <1>5, SubSeqProperties
<1>7. PICK new \in Seq(L) : new = edits[k].new
  BY DEF InPlace
<1>8. gap \o new \in Seq(L)
  <2>1. gap \in Seq(L) /\ new \in Seq(L)
    BY <1>6, <1>7, SMTT(20)
  <2> QED BY <2>1, Joined
<1>9. PieceOf(ls, edits, k) = gap \o new
  BY <1>1, <1>2, <1>3, <1>4, <1>6, <1>7 DEF PieceOf
<1>10. SubSeq(ls, EndAt(edits, k - 1) + 1, edits[k].start - 1) \o edits[k].new = gap \o new
  BY <1>3, <1>4, <1>6, <1>7
<1> QED BY <1>8, <1>9, <1>10 DEF IsPiece

\* A text of which the spans after the k-th are done, and what is woven of them.
WovenAfter(h, L, ls, woven, g, e) ==
    \E r \in Seq(L) : h = Prefix(ls, e) \o r /\ woven = g \o r

LEMMA WovenStep ==
    ASSUME NEW L, NEW ls \in Seq(L), NEW edits, NEW n \in Nat, InPlace(L, ls, edits, n),
           NEW k \in 1..n, NEW v, NEW woven, NEW g0 \in Seq(L), NEW g, g = g0 \o PieceOf(ls, edits, k),
           WovenAfter(v, L, ls, woven, g, EndAt(edits, k))
    PROVE  WovenAfter(Turned(v, edits[k]), L, ls, woven, g0, EndAt(edits, k - 1))
<1>1. PICK r \in Seq(L) : v = Prefix(ls, EndAt(edits, k)) \o r /\ woven = g \o r
  BY DEF WovenAfter
<1>2. k \in 0..n /\ k - 1 \in 0..n
  OBVIOUS
<1>3. PICK before \in 0..Len(ls), from \in Int, to \in 0..Len(ls), new \in Seq(L) :
        /\ before = EndAt(edits, k - 1) /\ from = edits[k].start /\ to = EndAt(edits, k)
        /\ to = edits[k].end /\ new = edits[k].new /\ before < from /\ from <= to
  <2>1. EndAt(edits, k - 1) \in 0..Len(ls) /\ EndAt(edits, k) \in 0..Len(ls)
    BY <1>2, PlacesOfEdits
  <2>2. /\ EndAt(edits, k - 1) < edits[k].start
        /\ edits[k].start <= EndAt(edits, k) /\ EndAt(edits, k) = edits[k].end
        /\ edits[k].start \in Int /\ edits[k].new \in Seq(L)
    BY PlacesOfEdits
  <2> QED BY <2>1, <2>2
<1>4. Replaces(ls, r, new, before, from, to)
  <2>1. /\ r \in Seq(L) /\ before \in 0..Len(ls) /\ from \in Int /\ to \in 0..Len(ls)
        /\ new \in Seq(L) /\ before < from /\ from <= to
    BY <1>1, <1>3
  <2> QED BY <2>1, ReplacedIs
<1>5. PICK piece \in Seq(L) : piece = PieceOf(ls, edits, k) /\ IsPiece(piece, ls, edits, k)
  BY PieceIs
<1>6. piece = SubSeq(ls, before + 1, from - 1) \o new
  <2>1. piece = SubSeq(ls, EndAt(edits, k - 1) + 1, edits[k].start - 1) \o edits[k].new
    BY <1>5 DEF IsPiece
  <2> QED BY <1>3, <2>1, SMTT(20)
<1>7. PICK q \in Seq(L) : q = piece \o r
  <2>1. piece \in Seq(L) /\ r \in Seq(L)
    BY <1>1, <1>5, SMTT(20)
  <2> QED BY <2>1, Joined, ZenonT(30)
<1>8. Turned(v, edits[k]) = Prefix(ls, before) \o q
  BY <1>1, <1>3, <1>4, <1>6, <1>7, Zenon DEF Turned, Replaces
<1>9. Associates(g0, piece, r)
  <2>1. g0 \in Seq(L) /\ piece \in Seq(L) /\ r \in Seq(L)
    BY <1>1, <1>5
  <2> QED BY <2>1, AssociatesIs
<1>10. woven = g0 \o q
  BY <1>1, <1>5, <1>7, <1>9 DEF Associates
<1> QED BY <1>3, <1>7, <1>8, <1>10 DEF WovenAfter

\* Applied to a text, spans in place weave it.
LEMMA AppliedIsWoven ==
    ASSUME NEW L, NEW ls \in Seq(L), NEW edits, NEW n \in Nat, n # 0, InPlace(L, ls, edits, n),
           Len(edits) = n
    PROVE  Edits!Applied(ls, edits) = Edits!Woven(ls, edits)
<1> DEFINE Is(f) == f = [T \in SUBSET DOMAIN edits |->
                           IF T = {} THEN ls
                           ELSE Edits!replaceLines(f[T \ {Edits!Min(T)}], edits[Edits!Min(T)].start,
                                                   edits[Edits!Min(T)].end, edits[Edits!Min(T)].new)]
<1>1. DOMAIN edits = 1..n
  BY DEF InPlace
<1>2. \A f : Is(f) <=> TurnsInto(f, n, ls, edits)
  BY <1>1 DEF Turned, TurnsInto, Edits!Min, Min
<1>3. \E f : TurnsInto(f, n, ls, edits)
  BY TurnedHasValue
<1>4. PICK f : f = CHOOSE h : Is(h)
  OBVIOUS
<1>5. Edits!Applied(ls, edits) = f[1..n]
  BY <1>1, <1>4 DEF Edits!Applied, Edits!FoldRight, Edits!MapThenFoldSet
<1>6. TurnsInto(f, n, ls, edits)
  <2> HIDE DEF Is
  <2> QED BY <1>2, <1>3, <1>4
<1>7. f[{}] = ls /\ \A T \in SUBSET (1..n) : T # {} => f[T] = Turned(f[T \ {Min(T)}], edits[Min(T)])
  BY <1>6 DEF TurnsInto
<1> HIDE DEF Is
<1>8. PICK ss : ss = [k \in 1..n |-> PieceOf(ls, edits, k)]
  OBVIOUS
<1>9. ss \in Seq(Seq(L)) /\ Len(ss) = n
  <2>1. PICK M : M = Seq(L)
    OBVIOUS
  <2>2. \A k \in 1..n : ss[k] \in M
    BY <1>8, <2>1, PieceIs
  <2>3. ss = [k \in 1..n |-> ss[k]]
    BY <1>8
  <2>4. ss \in Seq(M) /\ Len(ss) = n
    BY <2>2, <2>3, SeqIs
  <2> QED BY <2>1, <2>4
<1>10. PICK g : FlatRun(g, L, ss) /\ FlattenSeq(ss) = g[Len(ss)]
  BY <1>9, FlatRuns
<1>11. PICK flat \in Seq(L) : flat = FlattenSeq(ss)
  BY <1>9, FlatIs
<1>12. /\ g[n] = flat /\ g[0] = <<>>
       /\ \A k \in 0..n : g[k] \in Seq(L)
       /\ \A k \in 1..n : g[k] = g[k - 1] \o PieceOf(ls, edits, k)
  BY <1>8, <1>9, <1>10, <1>11 DEF FlatRun
<1>13. PICK m \in 0..Len(ls) : m = EndAt(edits, n) /\ m = edits[n].end
  <2>1. n \in 0..n /\ n \in 1..n
    OBVIOUS
  <2>2. EndAt(edits, n) \in 0..Len(ls) /\ EndAt(edits, n) = edits[n].end
    BY <2>1, PlacesOfEdits
  <2> QED BY <2>2
<1>14. PICK rest \in Seq(L) : rest = SubSeq(ls, m + 1, Len(ls)) /\ ls = Prefix(ls, m) \o rest
  <2>1. SubSeq(ls, m + 1, Len(ls)) \in Seq(L)
    BY <1>13, PartsOfText
  <2>2. ls = Prefix(ls, m) \o SubSeq(ls, m + 1, Len(ls))
    BY <1>13, PartsOfText, Zenon
  <2> QED BY <2>1, <2>2
<1>15. PICK woven : woven = flat \o rest
  BY Zenon
<1>16. Edits!Woven(ls, edits) = woven
  <2>1. [k \in DOMAIN edits |->
            SubSeq(ls, IF k = 1 THEN 1 ELSE edits[k - 1].end + 1, edits[k].start - 1) \o edits[k].new] = ss
    BY <1>1, <1>8 DEF PieceOf
  <2>2. Edits!FlattenSeq(ss) = flat
    BY <1>11, EditsFlat
  <2>3. Edits!Last(edits).end = m
    BY <1>13 DEF Edits!Last
  <2>4. SubSeq(ls, Edits!Last(edits).end + 1, Len(ls)) = rest
    BY <1>14, <2>3
  <2>5. Edits!Woven(ls, edits) = Edits!FlattenSeq([k \in DOMAIN edits |->
            SubSeq(ls, IF k = 1 THEN 1 ELSE edits[k - 1].end + 1, edits[k].start - 1) \o edits[k].new])
          \o SubSeq(ls, Edits!Last(edits).end + 1, Len(ls))
    BY DEF Edits!Woven
  <2> QED BY <1>15, <2>1, <2>2, <2>4, <2>5, Zenon
<1> DEFINE G == {k \in 0..n : WovenAfter(f[(k + 1)..n], L, ls, woven, g[k], EndAt(edits, k))}
<1>17. n \in G
  <2>1. (n + 1)..n = {} /\ n \in 0..n
    OBVIOUS
  <2>2. WovenAfter(ls, L, ls, woven, flat, m)
    BY <1>14, <1>15 DEF WovenAfter
  <2> QED BY <1>7, <1>12, <1>13, <2>1, <2>2
<1>18. ASSUME NEW k \in 1..n, k \in G PROVE k - 1 \in G
  <2>1. k..n \in SUBSET (1..n) /\ k..n # {} /\ Min(k..n) = k /\ (k..n) \ {k} = (k + 1)..n
    BY Positions
  <2>2. PICK v, g0, g1 : v = f[(k + 1)..n] /\ g0 = g[k - 1] /\ g1 = g[k]
    OBVIOUS
  <2>3. f[k..n] = Turned(v, edits[k])
    BY <1>7, <2>1, <2>2
  <2>4. k - 1 \in 0..n /\ (k - 1) + 1 = k
    OBVIOUS
  <2>5. g0 \in Seq(L) /\ g1 = g0 \o PieceOf(ls, edits, k)
    BY <1>12, <2>2, <2>4
  <2>6. WovenAfter(v, L, ls, woven, g1, EndAt(edits, k))
    BY <1>18, <2>2
  <2>7. WovenAfter(Turned(v, edits[k]), L, ls, woven, g0, EndAt(edits, k - 1))
    BY <2>5, <2>6, WovenStep
  <2> QED BY <2>2, <2>3, <2>4, <2>7
<1>19. 0 \in G
  <2> HIDE DEF G
  <2>1. \A k \in 0..n : k \in G
    BY <1>17, <1>18, DownFrom
  <2>2. 0 \in 0..n
    OBVIOUS
  <2> QED BY <2>1, <2>2
<1>20. PICK r \in Seq(L) : f[1..n] = Prefix(ls, 0) \o r /\ woven = <<>> \o r
  <2>1. EndAt(edits, 0) = 0 /\ 0 + 1 = 1
    BY DEF EndAt
  <2> QED BY <1>12, <1>19, <2>1 DEF WovenAfter
<1>21. Prefix(ls, 0) = <<>>
  BY SubSeqEmpty DEF Prefix
<1>22. <<>> \o r = r
  BY <1>20, ConcatEmptySeq
<1> QED BY <1>5, <1>16, <1>20, <1>21, <1>22

-----------------------------------------------------------------------------
(* Spans resolved against a preimage.                                      *)

\* The first line from i on that is g.
LEMMA FirstFromIs ==
    ASSUME NEW L, NEW ls \in Seq(L), NEW i \in 1..Len(ls), NEW g
    PROVE  LET j == Edits!FirstFrom(ls, i, g)
           IN  /\ j # 0 => j \in i..Len(ls) /\ ls[j] = g
               /\ j = 0 => \A k \in i..Len(ls) : ls[k] # g
<1>1. PICK n \in Nat : n = Len(ls) /\ i \in 1..n
  OBVIOUS
<1>2. PICK found : found = {k \in i..n : ls[k] = g}
  OBVIOUS
<1>3. PICK j : j = Edits!FirstFrom(ls, i, g)
  OBVIOUS
<1>4. j = IF found = {} THEN 0 ELSE Min(found)
  BY <1>1, <1>2, <1>3, EditsMin DEF Edits!FirstFrom
<1>5. CASE found = {}
  BY <1>1, <1>2, <1>3, <1>4, <1>5
<1>6. CASE found # {}
  <2>1. found \subseteq Nat
    BY <1>1, <1>2
  <2>2. j \in found
    BY <1>4, <1>6, <2>1, MinIn
  <2>3. j \in i..n /\ ls[j] = g /\ j # 0
    BY <1>1, <1>2, <2>2
  <2> QED BY <1>1, <1>3, <2>3
<1> QED BY <1>5, <1>6

\* A line a guard may mean.
Meant(ls, i, start, end) == ls[i] = start /\ (end = <<>> \/ \E j \in i..Len(ls) : ls[j] = end)

LEMMA LocateIs ==
    ASSUME NEW L, NEW ls \in Seq(L), NEW start, NEW end
    PROVE  LET s == Edits!locateGuard(ls, start, end)
           IN  s # 0 => /\ s \in 1..Len(ls) /\ Meant(ls, s, start, end)
                        /\ \A i \in 1..Len(ls) \ {s} : ~Meant(ls, i, start, end)
<1>1. PICK n \in Nat : n = Len(ls) /\ DOMAIN ls = 1..n
  OBVIOUS
<1>2. PICK found : found = Edits!Candidates(ls, start, end)
  OBVIOUS
<1>3. found = {i \in 1..n : Meant(ls, i, start, end)}
  <2>1. ASSUME NEW i \in 1..n
        PROVE  Edits!FirstFrom(ls, i, end) # 0 <=> \E j \in i..n : ls[j] = end
    <3>1. PICK j : j = Edits!FirstFrom(ls, i, end)
      OBVIOUS
    <3>2. /\ j # 0 => j \in i..n /\ ls[j] = end
          /\ j = 0 => \A k \in i..n : ls[k] # end
      BY <1>1, <3>1, FirstFromIs
    <3> QED BY <3>1, <3>2
  <2> QED BY <1>1, <1>2, <2>1 DEF Edits!Candidates, Meant
<1>4. PICK s : s = Edits!locateGuard(ls, start, end)
  OBVIOUS
<1>5. s = IF Cardinality(found) = 1 THEN Min(found) ELSE 0
  BY <1>2, <1>4, EditsMin, EditsCount DEF Edits!locateGuard
<1>6. ASSUME s # 0
      PROVE  /\ s \in 1..n /\ Meant(ls, s, start, end)
             /\ \A i \in 1..n \ {s} : ~Meant(ls, i, start, end)
  <2>1. Cardinality(found) = 1
    BY <1>5, <1>6
  <2>2. IsFiniteSet(found)
    <3>1. 1 \in Int /\ n \in Int /\ found \in SUBSET (1..n)
      BY <1>1, <1>3
    <3>2. IsFiniteSet(1..n)
      BY <3>1, FS_Interval
    <3> QED BY <3>1, <3>2, FS_Subset
  <2>3. PICK x : found = {x}
    BY <2>1, <2>2, FS_Singleton
  <2>4. found \subseteq Nat /\ found # {}
    <3>1. n \in Nat
      BY <1>1
    <3>2. found \subseteq 1..n
      BY <1>3
    <3>3. 1..n \subseteq Nat
      BY <3>1
    <3> QED BY <2>3, <3>2, <3>3
  <2>5. s \in found
    BY <1>5, <2>1, <2>4, MinIn
  <2> QED BY <1>3, <2>3, <2>5
<1> QED BY <1>1, <1>4, <1>6

\* The edit of a span, before it is snapped.
Resolves(L, ls, e) ==
    /\ e.start \in 1..Len(ls) /\ e.end \in e.start..Len(ls) /\ e.new \in Seq(L)
    /\ e = [ok |-> TRUE, start |-> e.start, end |-> e.end, new |-> e.new,
            asked |-> e.asked, adjusted |-> FALSE]

\* It is of the lines its span names.
Names(ls, e) ==
    LET asked == e.asked
        Ends(k) == asked.endGuard # <<>> => ls[k] = asked.endGuard
    IN  /\ asked.startGuard # <<>> => ls[e.start] = asked.startGuard
        /\ e.start # asked.start =>
                \A i \in DOMAIN ls \ {e.start} :
                    ls[i] = asked.startGuard => ~ \E j \in i..Len(ls) : Ends(j)
        /\ Ends(e.end)
        /\ asked.end # 0 /\ asked.endGuard = <<>> => e.end - e.start = asked.end - asked.start

LEMMA ResolveIs ==
    ASSUME NEW L, NEW ls \in Seq(L), NEW span, span.start \in Int, span.end \in Int,
           span.new \in Seq(L), Edits!resolveEdit(ls, span).ok
    PROVE  LET e == Edits!resolveEdit(ls, span) IN Resolves(L, ls, e) /\ Names(ls, e) /\ e.asked = span
<1>1. PICK n \in Nat : n = Len(ls) /\ DOMAIN ls = 1..n
  OBVIOUS
<1>2. PICK moved \in BOOLEAN : moved <=> span.startGuard # <<>> /\ ls[span.start] # span.startGuard
  OBVIOUS
<1>3. PICK start : start = IF moved THEN Edits!locateGuard(ls, span.startGuard, span.endGuard) ELSE span.start
  OBVIOUS
<1>4. PICK bound : bound = CASE span.end = 0 /\ span.endGuard = <<>> -> start
                             [] span.end = 0 /\ span.endGuard # <<>> ->
                                    Edits!FirstFrom(ls, start, span.endGuard)
                             [] span.end # 0 /\ moved -> start + span.end - span.start
                             [] OTHER -> span.end
  OBVIOUS
<1>5. PICK missed \in BOOLEAN : missed <=> span.endGuard # <<>> /\ ls[bound] # span.endGuard
  OBVIOUS
<1>6. PICK end : end = IF missed THEN Edits!FirstFrom(ls, start, span.endGuard) ELSE bound
  OBVIOUS
<1>7. PICK e : e = Edits!resolveEdit(ls, span)
  OBVIOUS
<1>8. e = CASE span.start \notin DOMAIN ls -> Edits!NoEdit
            [] span.start \in DOMAIN ls /\ start = 0 -> Edits!NoEdit
            [] OTHER -> IF bound \notin start..Len(ls) \/ end = 0 THEN Edits!NoEdit
                        ELSE [ok |-> TRUE, start |-> start, end |-> end, new |-> span.new,
                              asked |-> span, adjusted |-> FALSE]
  BY <1>2, <1>3, <1>4, <1>5, <1>6, <1>7 DEF Edits!resolveEdit
<1>9. ~Edits!NoEdit.ok
  BY DEF Edits!NoEdit
<1>10. e # Edits!NoEdit
  BY <1>7, <1>9
<1>11. span.start \in 1..n /\ start # 0
  <2>1. CASE span.start \notin DOMAIN ls
    BY <1>8, <1>10, <2>1
  <2>2. CASE span.start \in DOMAIN ls /\ start = 0
    BY <1>8, <1>10, <2>2
  <2> QED BY <1>1, <2>1, <2>2
<1>12. /\ bound \in start..n /\ end # 0
       /\ e = [ok |-> TRUE, start |-> start, end |-> end, new |-> span.new,
               asked |-> span, adjusted |-> FALSE]
  BY <1>1, <1>8, <1>10, <1>11
<1>13. /\ e.start = start /\ e.end = end /\ e.new = span.new /\ e.asked = span
  BY <1>12
<1>14. start \in 1..n /\ (span.startGuard # <<>> => ls[start] = span.startGuard)
  <2>1. CASE moved
    <3>1. start = Edits!locateGuard(ls, span.startGuard, span.endGuard)
      BY <1>3, <2>1
    <3>2. start \in 1..n /\ Meant(ls, start, span.startGuard, span.endGuard)
      BY <1>1, <1>11, <3>1, LocateIs
    <3> QED BY <3>2 DEF Meant
  <2>2. CASE ~moved
    BY <1>2, <1>3, <1>11, <2>2
  <2> QED BY <2>1, <2>2
<1>15. start # span.start =>
          \A i \in 1..n \ {start} : ls[i] = span.startGuard =>
              ~ \E j \in i..n : span.endGuard # <<>> => ls[j] = span.endGuard
  <2> SUFFICES ASSUME start # span.start, NEW i \in 1..n \ {start}, ls[i] = span.startGuard,
                      NEW j \in i..n, span.endGuard # <<>> => ls[j] = span.endGuard
               PROVE  FALSE
    OBVIOUS
  <2>1. start = Edits!locateGuard(ls, span.startGuard, span.endGuard)
    BY <1>3
  <2>2. ~Meant(ls, i, span.startGuard, span.endGuard)
    BY <1>1, <1>11, <2>1, LocateIs
  <2> QED BY <1>1, <2>2 DEF Meant
<1>16. end \in start..n /\ (span.endGuard # <<>> => ls[end] = span.endGuard)
  <2>1. CASE missed
    <3>1. end = Edits!FirstFrom(ls, start, span.endGuard)
      BY <1>6, <2>1
    <3>2. end \in start..n /\ ls[end] = span.endGuard
      BY <1>1, <1>12, <1>14, <3>1, FirstFromIs
    <3> QED BY <3>2
  <2>2. CASE ~missed
    BY <1>5, <1>6, <1>12, <2>2
  <2> QED BY <2>1, <2>2
<1>17. span.end # 0 /\ span.endGuard = <<>> => end - start = span.end - span.start
  <2> SUFFICES ASSUME span.end # 0, span.endGuard = <<>> PROVE end - start = span.end - span.start
    OBVIOUS
  <2>1. end = bound
    BY <1>5, <1>6
  <2>2. CASE moved
    <3>1. bound = start + span.end - span.start
      BY <1>4, <2>2
    <3> QED BY <1>14, <2>1, <3>1
  <2>3. CASE ~moved
    <3>1. bound = span.end /\ start = span.start
      BY <1>3, <1>4, <2>3
    <3> QED BY <2>1, <3>1
  <2> QED BY <2>2, <2>3
<1>18. Resolves(L, ls, e)
  BY <1>1, <1>12, <1>13, <1>14, <1>16 DEF Resolves
<1>19. Names(ls, e)
  BY <1>1, <1>13, <1>14, <1>15, <1>16, <1>17 DEF Names
<1> QED BY <1>7, <1>13, <1>18, <1>19

-----------------------------------------------------------------------------
(* Batches in order.                                                       *)

\* A permutation of a batch, or a selection from it.
Picks(a, es, n, order) ==
    /\ order \in [1..n -> 1..n]
    /\ a = [k \in 1..n |-> es[order[k]]]

LEMMA InOrderIs ==
    ASSUME NEW n \in Nat, NEW es, DOMAIN es = 1..n, \A k \in 1..n : es[k].start \in Int
    PROVE  \E order : Picks(Edits!InOrder(es), es, n, order)
<1>1. PICK S : S = 1..n
  OBVIOUS
<1>2. IsFiniteSet(S) /\ Cardinality(S) = n
  <2>1. 1 \in Int /\ n \in Int
    OBVIOUS
  <2>2. IsFiniteSet(1..n) /\ Cardinality(1..n) = IF 1 > n THEN 0 ELSE n - 1 + 1
    BY <2>1, FS_Interval
  <2> QED BY <1>1, <2>2
<1>3. PICK at : at = [k \in S |-> es[k].start]
  OBVIOUS
<1>4. at \in [S -> Int]
  BY <1>1, <1>3
<1>5. PICK L : L = {p \in S \X S : at[p[1]] < at[p[2]] \/ (at[p[1]] = at[p[2]] /\ p[1] < p[2])}
  OBVIOUS
<1>6. \A i, j \in S : <<i, j>> \in L <=> (at[i] < at[j] \/ (at[i] = at[j] /\ i < j))
  BY <1>5
<1>7. StrictOrder(L, S)
  <2>1. S \subseteq Int
    BY <1>1
  <2>2. \A x \in S : <<x, x>> \notin L
    BY <1>4, <1>6, <2>1
  <2>3. ASSUME NEW x \in S, NEW y \in S
        PROVE  x = y \/ <<x, y>> \in L \/ <<y, x>> \in L
    <3>1. at[x] \in Int /\ at[y] \in Int /\ x \in Int /\ y \in Int
      BY <1>4, <2>1
    <3> QED BY <1>6, <3>1
  <2>4. \A x, y, z \in S : <<x, y>> \in L /\ <<y, z>> \in L => <<x, z>> \in L
    BY <1>4, <1>6, <2>1
  <2> QED BY <2>2, <2>3, <2>4 DEF StrictOrder
<1>8. \A x \in S : {y \in S : es[y].start < es[x].start \/ (es[y].start = es[x].start /\ y < x)}
                     = Below(L, S, x)
  <2>1. ASSUME NEW x \in S, NEW y \in S
        PROVE  (es[y].start < es[x].start \/ (es[y].start = es[x].start /\ y < x)) <=> <<y, x>> \in L
    BY <1>3, <1>6
  <2> QED BY <2>1 DEF Below
<1>9. PICK order : order = [k \in 1..n |-> CHOOSE x \in S : Edits!Cardinality(
                     {y \in S : es[y].start < es[x].start \/ (es[y].start = es[x].start /\ y < x)}) = k - 1]
  OBVIOUS
<1>10. ASSUME NEW k \in 1..n PROVE order[k] \in 1..n
  <2>1. PICK x \in S : Cardinality(Below(L, S, x)) = k - 1
    BY <1>2, <1>7, Ranked
  <2>2. {y \in S : es[y].start < es[x].start \/ (es[y].start = es[x].start /\ y < x)} = Below(L, S, x)
    BY <1>8
  <2>3. Edits!Cardinality({y \in S : es[y].start < es[x].start
                                      \/ (es[y].start = es[x].start /\ y < x)}) = k - 1
    BY <2>1, <2>2, EditsCount
  <2> QED BY <1>1, <1>9, <2>3
<1>11. Edits!InOrder(es) = [k \in 1..n |-> es[order[k]]]
  <2>1. Edits!Cardinality(1..n) = n
    BY <1>1, <1>2, EditsCount
  <2>2. DOMAIN order = 1..n
    BY <1>9
  <2> QED BY <1>1, <1>9, <2>1, <2>2 DEF Edits!InOrder, Edits!Sorted
<1>12. order \in [1..n -> 1..n]
  BY <1>9, <1>10
<1> QED BY <1>11, <1>12 DEF Picks

\* The edits a batch comes to: each that of a span, in place.
BatchOf(L, ls, edits, n) ==
    /\ edits = [k \in 1..n |-> edits[k]]
    /\ \A k \in 1..n : Resolves(L, ls, edits[k]) /\ Names(ls, edits[k])

LEMMA BatchIsInPlace ==
    ASSUME NEW L, NEW ls \in Seq(L), NEW n \in Nat, NEW edits, BatchOf(L, ls, edits, n),
           ~Edits!Overlap(edits)
    PROVE  Len(edits) = n /\ InPlace(L, ls, edits, n)
<1>1. Len(edits) = n /\ DOMAIN edits = 1..n
  BY DEF BatchOf
<1>2. ASSUME NEW k \in 1..n
      PROVE  /\ edits[k].start \in 1..Len(ls) /\ edits[k].end \in edits[k].start..Len(ls)
             /\ edits[k].new \in Seq(L)
  <2>1. Resolves(L, ls, edits[k])
    BY DEF BatchOf
  <2> QED BY <2>1 DEF Resolves
<1>3. ASSUME NEW k \in 2..n PROVE edits[k - 1].end < edits[k].start
  <2>1. ~(edits[k].start <= edits[k - 1].end)
    BY <1>1 DEF Edits!Overlap
  <2>2. k \in 1..n /\ k - 1 \in 1..n
    OBVIOUS
  <2>3. PICK l \in Nat : l = Len(ls)
    OBVIOUS
  <2>4. edits[k].start \in Int /\ edits[k - 1].end \in Int
    BY <1>2, <2>2, <2>3
  <2> QED BY <2>1, <2>4
<1> QED BY <1>1, <1>2, <1>3 DEF InPlace

-----------------------------------------------------------------------------
(* Ends that are snapped.                                                  *)

\* One span applied.
LEMMA AppliedOne ==
    ASSUME NEW L, NEW ls \in Seq(L), NEW edits, InPlace(L, ls, edits, 1)
    PROVE  Edits!Applied(ls, edits) = Turned(ls, edits[1])
<1> DEFINE Is(f) == f = [T \in SUBSET DOMAIN edits |->
                           IF T = {} THEN ls
                           ELSE Edits!replaceLines(f[T \ {Edits!Min(T)}], edits[Edits!Min(T)].start,
                                                   edits[Edits!Min(T)].end, edits[Edits!Min(T)].new)]
<1>1. DOMAIN edits = 1..1
  BY DEF InPlace
<1>2. \A f : Is(f) <=> TurnsInto(f, 1, ls, edits)
  BY <1>1 DEF Turned, TurnsInto, Edits!Min, Min
<1>3. \E f : TurnsInto(f, 1, ls, edits)
  BY TurnedHasValue
<1>4. PICK f : f = CHOOSE h : Is(h)
  OBVIOUS
<1>5. Edits!Applied(ls, edits) = f[1..1]
  BY <1>1, <1>4 DEF Edits!Applied, Edits!FoldRight, Edits!MapThenFoldSet
<1>6. TurnsInto(f, 1, ls, edits)
  <2> HIDE DEF Is
  <2> QED BY <1>2, <1>3, <1>4
<1>7. f[{}] = ls /\ \A T \in SUBSET (1..1) : T # {} => f[T] = Turned(f[T \ {Min(T)}], edits[Min(T)])
  BY <1>6 DEF TurnsInto
<1>8. Min(1..1) = 1
  BY MinIs
<1>9. (1..1) \ {1} = {} /\ 1..1 # {}
  OBVIOUS
<1> QED BY <1>5, <1>7, <1>8, <1>9

\* What lies beside two lines does not depend on their order.
LEMMA BesideIs ==
    ASSUME NEW i \in Int, NEW j \in Int
    PROVE  Edits!Beside(i, i) = {} /\ Edits!Beside(i, j) = Edits!Beside(j, i)
<1>1. Edits!Min({i, i}) = i /\ Edits!Max({i, i}) = i
  <2>1. Min({i}) = i /\ {i, i} = {i}
    BY MinIs
  <2>2. Max({i}) = i
    BY DEF Max
  <2> QED BY <2>1, <2>2, EditsMin, EditsMax
<1>2. {i, j} = {j, i}
  OBVIOUS
<1> QED BY <1>1, <1>2 DEF Edits!Beside

\* The end of a span moved over lines of closing brackets.
Moves(ls, e, d) ==
    /\ e.end + d \in e.start..Len(ls)
    /\ \A i \in Edits!Beside(e.end, e.end + d) : Edits!closerOnly(ls[i])
    /\ Edits!balanced(Edits!replaceLines(ls, e.start, e.end + d, e.new))

MovedBy(e, d) ==
    [ok |-> TRUE, start |-> e.start, end |-> e.end + d, new |-> e.new,
     asked |-> e.asked, adjusted |-> TRUE]

LEMMA SnapIs ==
    ASSUME NEW L, NEW ls \in Seq(L), NEW e, Resolves(L, ls, e), Edits!autoSnap(ls, e).ok
    PROVE  \E d \in Int : Moves(ls, e, d) /\ Edits!autoSnap(ls, e) = MovedBy(e, d)
<1>1. PICK moves : moves = {d \in (-3..3) \ {0} : Moves(ls, e, d)}
  OBVIOUS
<1>2. PICK s : s = Edits!autoSnap(ls, e)
  OBVIOUS
<1>3. s = IF Cardinality(moves) = 1
          THEN [e EXCEPT !.end = @ + Min(moves), !.adjusted = TRUE] ELSE Edits!NoEdit
  BY <1>1, <1>2, EditsCount, EditsMin DEF Edits!autoSnap, Moves
<1>4. Cardinality(moves) = 1
  BY <1>2, <1>3 DEF Edits!NoEdit
<1>5. moves \subseteq Int
  BY <1>1
<1>6. IsFiniteSet(moves)
  <2>1. -3 \in Int /\ 3 \in Int
    OBVIOUS
  <2>2. IsFiniteSet(-3..3)
    BY <2>1, FS_Interval
  <2>3. moves \in SUBSET (-3..3)
    BY <1>1
  <2> QED BY <2>2, <2>3, FS_Subset
<1>7. PICK d : moves = {d}
  BY <1>4, <1>6, FS_Singleton
<1>8. d \in Int /\ Moves(ls, e, d)
  BY <1>1, <1>5, <1>7
<1>9. Min(moves) = d
  <2>1. d \in moves /\ \A x \in moves : d <= x
    BY <1>7, <1>8
  <2> QED BY <1>5, <2>1, MinIs
<1>10. s = [e EXCEPT !.end = @ + d, !.adjusted = TRUE]
  BY <1>3, <1>4, <1>9
<1>11. e = [ok |-> TRUE, start |-> e.start, end |-> e.end, new |-> e.new,
            asked |-> e.asked, adjusted |-> FALSE]
  BY DEF Resolves
<1>12. s = MovedBy(e, d)
  <2>1. PICK a, b, c, g : a = e.start /\ b = e.end /\ c = e.new /\ g = e.asked
    OBVIOUS
  <2>2. e = [ok |-> TRUE, start |-> a, end |-> b, new |-> c, asked |-> g, adjusted |-> FALSE]
    BY <1>11, <2>1
  <2>3. s = [ok |-> TRUE, start |-> a, end |-> b + d, new |-> c, asked |-> g, adjusted |-> TRUE]
    BY <1>10, <2>2
  <2> QED BY <2>1, <2>3 DEF MovedBy
<1> QED BY <1>2, <1>8, <1>12

\* An edit that is of the lines its span names.
LEMMA NamedIsGuarded ==
    ASSUME NEW L, NEW ls \in Seq(L), NEW e, Resolves(L, ls, e), Names(ls, e)
    PROVE  Edits!Guarded(ls, e)
<1>1. PICK l \in Nat : l = Len(ls)
  OBVIOUS
<1>2. e.start \in 1..l /\ e.end \in e.start..l
  BY <1>1 DEF Resolves
<1>3. e.end \in Int
  BY <1>2
<1>4. Edits!Beside(e.end, e.end) = {}
  BY <1>3, BesideIs
<1> QED BY <1>1, <1>2, <1>4 DEF Names, Edits!Guarded

LEMMA MovedIsGuarded ==
    ASSUME NEW L, NEW ls \in Seq(L), NEW e, Resolves(L, ls, e), Names(ls, e),
           NEW d \in Int, Moves(ls, e, d), NEW m, m = MovedBy(e, d)
    PROVE  Edits!Guarded(ls, m)
<1>1. PICK l \in Nat : l = Len(ls)
  OBVIOUS
<1>2. e.start \in 1..l /\ e.end \in e.start..l
  BY <1>1 DEF Resolves
<1>3. /\ m.start = e.start /\ m.end = e.end + d /\ m.asked = e.asked /\ m.adjusted = TRUE
  BY DEF MovedBy
<1>4. \A i \in Edits!Beside(e.end, m.end) : Edits!closerOnly(ls[i])
  BY <1>3 DEF Moves
<1> QED BY <1>1, <1>2, <1>3, <1>4 DEF Names, Edits!Guarded

-----------------------------------------------------------------------------
(* Find and replace.                                                       *)

IsPlace(ls, p) == p = <<p[1], p[2]>> /\ p[1] \in DOMAIN ls /\ p[2] \in DOMAIN ls[p[1]]

LEMMA PlacesAre ==
    ASSUME NEW C, NEW ls \in Seq(Seq(C))
    PROVE  /\ IsFiniteSet(Edits!Places(ls))
           /\ \A p \in Edits!Places(ls) : IsPlace(ls, p) /\ p[1] \in Int /\ p[2] \in Int
           /\ \A i \in DOMAIN ls : \A k \in DOMAIN ls[i] : <<i, k>> \in Edits!Places(ls)
<1>1. PICK M : M = Seq(C)
  OBVIOUS
<1>2. PICK n \in Nat : n = Len(ls) /\ DOMAIN ls = 1..n /\ \A i \in 1..n : ls[i] \in M
  BY <1>1
<1>3. PICK rows : rows = [i \in 1..n |-> {<<i, k>> : k \in DOMAIN ls[i]}]
  OBVIOUS
<1>4. PICK R : R = {rows[i] : i \in 1..n}
  OBVIOUS
<1>5. Edits!Places(ls) = UNION R
  BY <1>2, <1>3, <1>4 DEF Edits!Places
<1>6. \A i \in 1..n : DOMAIN ls[i] = 1..Len(ls[i]) /\ Len(ls[i]) \in Nat
  BY <1>1, <1>2
<1>7. IsFiniteSet(1..n)
  BY FS_Interval
<1>8. IsFiniteSet(R)
  <2>1. rows \in Surjection(1..n, R)
    BY <1>3, <1>4 DEF Surjection
  <2> QED BY <1>7, <2>1, FS_Surjection
<1>9. ASSUME NEW T \in R PROVE IsFiniteSet(T)
  <2>1. PICK i \in 1..n : T = rows[i]
    BY <1>4
  <2>2. PICK m \in Nat : m = Len(ls[i]) /\ DOMAIN ls[i] = 1..m
    BY <1>6
  <2>3. IsFiniteSet({i}) /\ IsFiniteSet(1..m)
    <3>1. 1 \in Int /\ m \in Int
      OBVIOUS
    <3>2. IsFiniteSet(1..m)
      BY <3>1, FS_Interval
    <3>3. IsFiniteSet({i})
      BY FS_Singleton
    <3> QED BY <3>2, <3>3
  <2>4. IsFiniteSet({i} \X (1..m))
    BY <2>3, FS_Product
  <2>5. T \in SUBSET ({i} \X (1..m))
    BY <1>3, <2>1, <2>2
  <2> QED BY <2>4, <2>5, FS_Subset
<1>10. IsFiniteSet(Edits!Places(ls))
  BY <1>5, <1>8, <1>9, FS_UNION
<1>11. ASSUME NEW p \in Edits!Places(ls)
       PROVE  IsPlace(ls, p) /\ p[1] \in Int /\ p[2] \in Int
  <2>1. PICK i \in 1..n : p \in rows[i]
    BY <1>4, <1>5
  <2>2. PICK k \in DOMAIN ls[i] : p = <<i, k>>
    BY <1>3, <2>1
  <2>3. k \in Int
    BY <1>6, <2>2
  <2> QED BY <1>2, <2>2, <2>3 DEF IsPlace
<1>12. ASSUME NEW i \in DOMAIN ls, NEW k \in DOMAIN ls[i]
       PROVE  <<i, k>> \in Edits!Places(ls)
  <2>1. <<i, k>> \in rows[i] /\ rows[i] \in R
    BY <1>2, <1>3, <1>4
  <2> QED BY <1>5, <2>1
<1> QED BY <1>10, <1>11, <1>12

\* The places of a character: each is found.
FindsAll(M, a, ls, c) ==
    /\ \A i \in DOMAIN ls : \A k \in DOMAIN ls[i] : <<i, k>> \in M <=> ls[i][k] = c
    /\ Len(a) \in Nat /\ M = {a[k] : k \in 1..Len(a)}

LEMMA MatchesAre ==
    ASSUME NEW C, NEW ls \in Seq(Seq(C)), NEW c
    PROVE  \E M : FindsAll(M, Edits!Matches(ls, c), ls, c)
<1>1. PICK M : M = {p \in Edits!Places(ls) : ls[p[1]][p[2]] = c}
  OBVIOUS
<1>2. IsFiniteSet(M)
  <2>1. M \in SUBSET Edits!Places(ls) /\ IsFiniteSet(Edits!Places(ls))
    BY <1>1, PlacesAre
  <2> QED BY <2>1, FS_Subset
<1>3. \A p \in M : p[1] \in Int /\ p[2] \in Int /\ p = <<p[1], p[2]>>
  BY <1>1, PlacesAre DEF IsPlace
<1>4. \A i \in DOMAIN ls : \A k \in DOMAIN ls[i] : <<i, k>> \in M <=> ls[i][k] = c
  <2>1. ASSUME NEW i \in DOMAIN ls, NEW k \in DOMAIN ls[i]
        PROVE  <<i, k>> \in M <=> ls[i][k] = c
    <3>1. <<i, k>> \in Edits!Places(ls)
      BY PlacesAre
    <3> QED BY <1>1, <3>1
  <2> QED BY <2>1, Zenon
<1>5. PICK L : L = {p \in M \X M :
                      p[1][1] < p[2][1] \/ (p[1][1] = p[2][1] /\ p[1][2] < p[2][2])}
  OBVIOUS
<1>6. ASSUME NEW p \in M, NEW q \in M
      PROVE  <<p, q>> \in L <=> (p[1] < q[1] \/ (p[1] = q[1] /\ p[2] < q[2]))
  <2>1. PICK z : z = <<p, q>>
    OBVIOUS
  <2>2. z \in M \X M /\ z[1] = p /\ z[2] = q
    BY <2>1
  <2>3. z \in L <=> (z[1][1] < z[2][1] \/ (z[1][1] = z[2][1] /\ z[1][2] < z[2][2]))
    BY <1>5, <2>2
  <2> QED BY <2>1, <2>2, <2>3
<1>7. StrictOrder(L, M)
  <2>1. ASSUME NEW x \in M PROVE <<x, x>> \notin L
    <3>1. x[1] \in Int /\ x[2] \in Int
      BY <1>3
    <3>2. <<x, x>> \in L <=> (x[1] < x[1] \/ (x[1] = x[1] /\ x[2] < x[2]))
      BY <1>6
    <3> QED BY <3>1, <3>2
  <2>2. ASSUME NEW x \in M, NEW y \in M PROVE x = y \/ <<x, y>> \in L \/ <<y, x>> \in L
    <3>1. /\ x[1] \in Int /\ x[2] \in Int /\ y[1] \in Int /\ y[2] \in Int
          /\ x = <<x[1], x[2]>> /\ y = <<y[1], y[2]>>
      BY <1>3
    <3> QED BY <1>6, <3>1
  <2>3. ASSUME NEW x \in M, NEW y \in M, NEW z \in M, <<x, y>> \in L, <<y, z>> \in L
        PROVE  <<x, z>> \in L
    <3>1. x[1] < y[1] \/ (x[1] = y[1] /\ x[2] < y[2])
      BY <1>6, <2>3
    <3>2. y[1] < z[1] \/ (y[1] = z[1] /\ y[2] < z[2])
      BY <1>6, <2>3
    <3>3. /\ x[1] \in Int /\ x[2] \in Int /\ y[1] \in Int /\ y[2] \in Int
          /\ z[1] \in Int /\ z[2] \in Int
      BY <1>3
    <3>4. x[1] < z[1] \/ (x[1] = z[1] /\ x[2] < z[2])
      BY <3>1, <3>2, <3>3
    <3> QED BY <1>6, <3>4
  <2> QED BY <2>1, <2>2, <2>3 DEF StrictOrder
<1>8. ASSUME NEW x \in M
      PROVE  {y \in M : y[1] < x[1] \/ (y[1] = x[1] /\ y[2] < x[2])} = Below(L, M, x)
  <2>1. ASSUME NEW y \in M
        PROVE  (y[1] < x[1] \/ (y[1] = x[1] /\ y[2] < x[2])) <=> <<y, x>> \in L
    BY <1>6
  <2> QED BY <2>1 DEF Below
<1>9. PICK n \in Nat : n = Cardinality(M)
  BY <1>2, FS_CardinalityType
<1>10. PICK a : a = Edits!Matches(ls, c)
  OBVIOUS
<1>11. a = [k \in 1..n |-> CHOOSE x \in M :
              Edits!Cardinality({y \in M : y[1] < x[1] \/ (y[1] = x[1] /\ y[2] < x[2])}) = k - 1]
  <2>1. Edits!Cardinality(M) = n
    BY <1>9, EditsCount
  <2> QED BY <1>1, <1>10, <2>1 DEF Edits!Matches, Edits!Sorted
<1> DEFINE Site(k) == CHOOSE x \in M :
              Edits!Cardinality({y \in M : y[1] < x[1] \/ (y[1] = x[1] /\ y[2] < x[2])}) = k - 1
<1>17. a = [k \in 1..n |-> Site(k)]
  BY <1>11
<1>18. a = [k \in 1..n |-> a[k]]
  <2> HIDE DEF Site
  <2> QED BY <1>17
<1>12. ASSUME NEW k \in 1..n PROVE a[k] \in M /\ Cardinality(Below(L, M, a[k])) = k - 1
  <2>1. PICK x \in M : Cardinality(Below(L, M, x)) = k - 1
    BY <1>2, <1>7, <1>9, Ranked
  <2>2. {y \in M : y[1] < x[1] \/ (y[1] = x[1] /\ y[2] < x[2])} = Below(L, M, x)
    BY <1>8
  <2>3. Edits!Cardinality({y \in M : y[1] < x[1] \/ (y[1] = x[1] /\ y[2] < x[2])}) = k - 1
    BY <2>1, <2>2, EditsCount
  <2>4. PICK b : b = a[k]
    OBVIOUS
  <2>5. b \in M /\ Edits!Cardinality(
                     {y \in M : y[1] < b[1] \/ (y[1] = b[1] /\ y[2] < b[2])}) = k - 1
    BY <1>11, <2>3, <2>4
  <2>6. {y \in M : y[1] < b[1] \/ (y[1] = b[1] /\ y[2] < b[2])} = Below(L, M, b)
    BY <1>8, <2>5
  <2>7. Cardinality(Below(L, M, b)) = k - 1
    BY <2>5, <2>6, EditsCount
  <2> QED BY <2>4, <2>5, <2>7
<1>13. RankedBy(a, M, L)
  <2> HIDE DEF Site
  <2> QED BY <1>9, <1>12, <1>18 DEF RankedBy
<1>14. SortedBy(a, M, L)
  BY <1>2, <1>7, <1>13, SortedIs
<1>15. Len(a) = n
  BY <1>9, <1>14, SMTT(20) DEF SortedBy
<1>16. M = {a[k] : k \in 1..n}
  BY <1>12, <1>14, <1>15, SMTT(20) DEF SortedBy
<1>19. FindsAll(M, a, ls, c)
  BY <1>4, <1>9, <1>15, <1>16, Zenon DEF FindsAll
<1> QED BY <1>10, <1>19

\* Every place of the character has the other.
ReplacesAll(after, ls, sed) ==
    after = [i \in DOMAIN ls |-> [k \in DOMAIN ls[i] |->
                IF ls[i][k] = sed.find THEN sed.replace ELSE ls[i][k]]]

LEMMA SedIs ==
    ASSUME NEW C, NEW ls \in Seq(Seq(C)), NEW sed, sed.count \in Nat, sed.all \in BOOLEAN,
           Edits!sedText(ls, sed).ok
    PROVE  ReplacesAll(Edits!sedText(ls, sed).lines, ls, sed)
<1>1. PICK a : a = Edits!Matches(ls, sed.find)
  OBVIOUS
<1>2. PICK M : FindsAll(M, a, ls, sed.find)
  BY <1>1, MatchesAre
<1>11. /\ \A i \in DOMAIN ls : \A k \in DOMAIN ls[i] : <<i, k>> \in M <=> ls[i][k] = sed.find
       /\ Len(a) \in Nat /\ M = {a[k] : k \in 1..Len(a)}
  BY <1>2 DEF FindsAll
<1>3. PICK limit : limit = IF sed.all THEN Len(a) ELSE IF sed.count > 0 THEN sed.count ELSE 1
  OBVIOUS
<1>4. PICK after : after = [i \in DOMAIN ls |-> [k \in DOMAIN ls[i] |->
                     IF <<i, k>> \in {a[j] : j \in 1..limit} THEN sed.replace ELSE ls[i][k]]]
  OBVIOUS
<1>5. PICK r : r = Edits!sedText(ls, sed)
  OBVIOUS
<1>6. r = IF ~Edits!validateMatchCount(Len(a), sed) THEN Edits!NoEdit ELSE Edits!Done(after, <<>>)
  BY <1>1, <1>3, <1>4, <1>5 DEF Edits!sedText
<1>7. Edits!validateMatchCount(Len(a), sed)
  BY <1>5, <1>6 DEF Edits!NoEdit
<1>8. r.lines = after
  BY <1>6, <1>7 DEF Edits!Done
<1>9. limit = Len(a)
  <2>1. PICK n \in Nat : n = Len(a)
    BY <1>11
  <2>2. /\ n > 0 /\ (sed.count > 0 => n = sed.count)
        /\ (n > 1 => sed.all \/ sed.count > 0)
    BY <1>7, <2>1 DEF Edits!validateMatchCount
  <2>3. CASE sed.all
    BY <1>3, <2>3
  <2>4. CASE ~sed.all /\ sed.count > 0
    BY <1>3, <2>1, <2>2, <2>4
  <2>5. CASE ~sed.all /\ ~(sed.count > 0)
    <3>1. ~(n > 1) /\ limit = 1
      BY <1>3, <2>2, <2>5
    <3> QED BY <2>1, <2>2, <3>1
  <2> QED BY <2>3, <2>4, <2>5
<1>10. after = [i \in DOMAIN ls |-> [k \in DOMAIN ls[i] |->
                  IF ls[i][k] = sed.find THEN sed.replace ELSE ls[i][k]]]
  <2>1. after = [i \in DOMAIN ls |-> [k \in DOMAIN ls[i] |->
                  IF <<i, k>> \in M THEN sed.replace ELSE ls[i][k]]]
    BY <1>4, <1>9, <1>11
  <2> QED BY <1>11, <2>1
<1> QED BY <1>5, <1>8, <1>10 DEF ReplacesAll

-----------------------------------------------------------------------------
(* Batches.                                                                *)

\* A batch done: what is said of the result.
IsExact(r, ls, count, allow) ==
    /\ r.lines = Edits!Woven(ls, r.edits)
    /\ Len(r.edits) = count
    /\ \A e \in Edits!ToSet(r.edits) : Edits!Guarded(ls, e)
    /\ allow \/ Edits!balanced(r.lines)

\* The edits as they resolved, when they balance or need not.
LEMMA BatchIsExact ==
    ASSUME NEW L, NEW ls \in Seq(L), NEW n \in Nat, n # 0, NEW edits, BatchOf(L, ls, edits, n),
           ~Edits!Overlap(edits), NEW r, r = Edits!Done(Edits!Applied(ls, edits), edits), NEW allow,
           allow \/ Edits!balanced(Edits!Applied(ls, edits))
    PROVE  IsExact(r, ls, n, allow)
<1>1. Len(edits) = n /\ InPlace(L, ls, edits, n)
  BY BatchIsInPlace
<1>2. Edits!Applied(ls, edits) = Edits!Woven(ls, edits)
  BY <1>1, AppliedIsWoven
<1>3. r.lines = Edits!Applied(ls, edits) /\ r.edits = edits
  BY DEF Edits!Done
<1>4. ASSUME NEW e \in Edits!ToSet(edits) PROVE Edits!Guarded(ls, e)
  <2>1. PICK k \in 1..n : e = edits[k]
    BY <1>1 DEF Edits!ToSet, InPlace
  <2>2. Resolves(L, ls, e) /\ Names(ls, e)
    BY <2>1 DEF BatchOf
  <2> QED BY <2>2, NamedIsGuarded
<1> QED BY <1>1, <1>2, <1>3, <1>4 DEF IsExact

\* The one edit, its end snapped.
LEMMA SnapIsExact ==
    ASSUME NEW L, NEW ls \in Seq(L), NEW e, Resolves(L, ls, e), Names(ls, e),
           NEW snap, snap = Edits!autoSnap(ls, e), snap.ok,
           NEW r, r = Edits!Done(Edits!Applied(ls, <<snap>>), <<snap>>), NEW allow
    PROVE  IsExact(r, ls, 1, allow)
<1>1. PICK d \in Int : Moves(ls, e, d) /\ snap = MovedBy(e, d)
  BY SnapIs
<1>2. /\ snap.start = e.start /\ snap.end = e.end + d /\ snap.new = e.new
  BY <1>1 DEF MovedBy
<1>3. PICK edits : edits = <<snap>>
  OBVIOUS
<1>4. DOMAIN edits = 1..1 /\ Len(edits) = 1 /\ edits[1] = snap
  BY <1>3
<1>5. /\ snap.start \in 1..Len(ls) /\ snap.end \in snap.start..Len(ls) /\ snap.new \in Seq(L)
  BY <1>1, <1>2 DEF Resolves, Moves
<1>6. InPlace(L, ls, edits, 1)
  BY <1>4, <1>5 DEF InPlace
<1>7. Edits!Applied(ls, edits) = Edits!Woven(ls, edits)
  <2>1. 1 \in Nat /\ 1 # 0
    OBVIOUS
  <2>2. InPlace(L, ls, edits, 1) /\ Len(edits) = 1
    BY <1>4, <1>6
  <2> QED BY <2>1, <2>2, AppliedIsWoven
<1>8. Edits!Applied(ls, edits) = Edits!replaceLines(ls, e.start, e.end + d, e.new)
  BY <1>2, <1>4, <1>6, AppliedOne DEF Turned
<1>9. Edits!balanced(Edits!Applied(ls, edits))
  BY <1>1, <1>8 DEF Moves
<1>10. r.lines = Edits!Applied(ls, edits) /\ r.edits = edits
  BY <1>3 DEF Edits!Done
<1>11. Edits!Guarded(ls, snap)
  BY <1>1, MovedIsGuarded
<1>12. ASSUME NEW m \in Edits!ToSet(edits) PROVE Edits!Guarded(ls, m)
  <2>1. m = snap
    BY <1>4, <1>12 DEF Edits!ToSet
  <2> QED BY <1>11, <2>1
<1> QED BY <1>4, <1>7, <1>9, <1>10, <1>12 DEF IsExact

LEMMA TransformIs ==
    ASSUME NEW ls \in Seq(Seq(Char)), NEW batch \in Seq(Edits!Spans), batch # <<>>,
           NEW allow \in BOOLEAN, NEW r, r = Edits!TransformEdits(batch, allow, ls), r.ok
    PROVE  IsExact(r, ls, Len(batch), allow)
<1>1. PICK L : L = Seq(Char)
  OBVIOUS
<1>2. PICK n \in Nat : n = Len(batch) /\ DOMAIN batch = 1..n /\ n # 0
  OBVIOUS
<1>3. ASSUME NEW k \in 1..n
      PROVE  /\ batch[k].start \in Int /\ batch[k].end \in Int /\ batch[k].new \in Seq(L)
  <2>1. batch[k] \in Edits!Spans
    BY <1>2
  <2> QED BY <1>1, <2>1 DEF Edits!Spans
<1>4. PICK resolved : resolved = [k \in 1..n |-> Edits!resolveEdit(ls, batch[k])]
  OBVIOUS
<1>5. PICK edits : edits = Edits!InOrder(resolved)
  OBVIOUS
<1>6. PICK candidate : candidate = Edits!Applied(ls, edits)
  OBVIOUS
<1>7. r = CASE \E k \in 1..n : ~resolved[k].ok -> Edits!NoEdit
            [] OTHER -> IF Edits!Overlap(edits) THEN Edits!NoEdit
                        ELSE IF allow THEN Edits!Done(candidate, edits)
                        ELSE Edits!Snapped(ls, edits, candidate)
  BY <1>2, <1>4, <1>5, <1>6 DEF Edits!TransformEdits
<1>8. r # Edits!NoEdit
  BY DEF Edits!NoEdit
<1>9. \A k \in 1..n : resolved[k].ok
  BY <1>7, <1>8
<1>10. /\ ~Edits!Overlap(edits)
       /\ r = IF allow THEN Edits!Done(candidate, edits) ELSE Edits!Snapped(ls, edits, candidate)
  BY <1>7, <1>8, <1>9
<1>11. ASSUME NEW k \in 1..n PROVE Resolves(L, ls, resolved[k]) /\ Names(ls, resolved[k])
  <2>1. PICK span : span = batch[k]
    OBVIOUS
  <2>2. /\ span.start \in Int /\ span.end \in Int /\ span.new \in Seq(L) /\ ls \in Seq(L)
    BY <1>1, <1>3, <2>1
  <2>3. resolved[k] = Edits!resolveEdit(ls, span)
    BY <1>4, <2>1
  <2>4. Edits!resolveEdit(ls, span).ok
    BY <1>9, <2>3
  <2>5. /\ Resolves(L, ls, Edits!resolveEdit(ls, span)) /\ Names(ls, Edits!resolveEdit(ls, span))
    BY <2>2, <2>4, ResolveIs
  <2> QED BY <2>3, <2>5
<1>12. PICK order : Picks(edits, resolved, n, order)
  <2>1. DOMAIN resolved = 1..n
    BY <1>4
  <2>2. ASSUME NEW k \in 1..n PROVE resolved[k].start \in Int
    <3>1. resolved[k].start \in 1..Len(ls)
      BY <1>11 DEF Resolves
    <3> QED BY <3>1
  <2> QED BY <1>5, <2>1, <2>2, InOrderIs
<1>13. BatchOf(L, ls, edits, n)
  <2>1. edits = [k \in 1..n |-> edits[k]]
    BY <1>12 DEF Picks
  <2>2. ASSUME NEW k \in 1..n PROVE Resolves(L, ls, edits[k]) /\ Names(ls, edits[k])
    <3>1. PICK j \in 1..n : edits[k] = resolved[j]
      BY <1>12 DEF Picks
    <3> QED BY <1>11, <3>1
  <2> QED BY <2>1, <2>2 DEF BatchOf
<1>14. ls \in Seq(L)
  BY <1>1
<1>15. CASE allow \/ (r = Edits!Done(candidate, edits) /\ Edits!balanced(candidate))
  <2>1. r = Edits!Done(Edits!Applied(ls, edits), edits)
    BY <1>6, <1>10, <1>15
  <2>2. allow \/ Edits!balanced(Edits!Applied(ls, edits))
    BY <1>6, <1>15
  <2> QED BY <1>2, <1>10, <1>13, <1>14, <2>1, <2>2, BatchIsExact
<1>16. CASE ~allow /\ ~Edits!balanced(candidate)
  <2>1. PICK snap : snap = IF Len(edits) = 1 /\ Edits!balanced(edits[1].new)
                           THEN Edits!autoSnap(ls, edits[1]) ELSE Edits!NoEdit
    OBVIOUS
  <2>2. r = IF snap.ok THEN Edits!Done(Edits!Applied(ls, <<snap>>), <<snap>>) ELSE Edits!NoEdit
    BY <1>10, <1>16, <2>1 DEF Edits!Snapped
  <2>3. snap.ok /\ r = Edits!Done(Edits!Applied(ls, <<snap>>), <<snap>>)
    BY <1>8, <2>2
  <2>4. Len(edits) = 1 /\ snap = Edits!autoSnap(ls, edits[1])
    BY <2>1, <2>3 DEF Edits!NoEdit
  <2>5. n = 1
    BY <1>13, <2>4 DEF BatchOf
  <2>6. PICK e : e = edits[1] /\ Resolves(L, ls, e) /\ Names(ls, e)
    BY <1>13, <2>5 DEF BatchOf
  <2>7. snap = Edits!autoSnap(ls, e)
    BY <2>4, <2>6
  <2>8. IsExact(r, ls, 1, allow)
    BY <1>14, <2>3, <2>6, <2>7, SnapIsExact
  <2> QED BY <1>2, <2>5, <2>8
<1>17. CASE ~allow /\ Edits!balanced(candidate)
  <2>1. r = Edits!Done(candidate, edits)
    BY <1>10, <1>17 DEF Edits!Snapped
  <2> QED BY <1>15, <1>17, <2>1
<1>18. PICK q \in BOOLEAN : q <=> Edits!balanced(candidate)
  OBVIOUS
<1>19. CASE allow
  BY <1>15, <1>19
<1>20. CASE ~allow /\ q
  BY <1>17, <1>18, <1>20
<1>21. CASE ~allow /\ ~q
  BY <1>16, <1>18, <1>21
<1> QED BY <1>19, <1>20, <1>21

\* Until it is answered a request has the file it was sent for.
EditInv ==
    answer = Edits!NoAnswer => lines \in Seq(Seq(Char)) /\ eol \in {"lf", "crlf", "mixed"}

LEMMA EditStepIs ==
    ASSUME EditInv, Edits!Next
    PROVE  /\ answer' # Edits!NoAnswer
           /\ answer'.verb = "edit" => /\ IsExact([lines |-> lines', edits |-> answer'.edits], lines,
                                                  answer'.spans, answer'.allow)
           /\ answer'.verb = "sed" => ReplacesAll(lines', lines, answer'.sed)
           /\ answer'.verb \in {"edit", "sed"} => eol' = Edits!Endings(lines')
<1>1. ASSUME NEW batch \in Batches, NEW allow \in BOOLEAN, Edits!Edit(batch, allow)
      PROVE  /\ answer' # Edits!NoAnswer
             /\ answer'.verb # "sed"
             /\ answer'.verb = "edit" => IsExact([lines |-> lines', edits |-> answer'.edits], lines,
                                                  answer'.spans, answer'.allow)
             /\ answer'.verb \in {"edit", "sed"} => eol' = Edits!Endings(lines')
  <2>1. PICK r : /\ r = Edits!TransformEdits(batch, allow, lines)
                 /\ Edits!Answer(r, IF r.ok THEN [verb |-> "edit", edits |-> r.edits,
                                                   spans |-> Len(batch), allow |-> allow]
                                    ELSE Edits!Refused)
    BY <1>1 DEF Edits!Edit
  <2>2. CASE ~r.ok
    <3>1. answer' = Edits!Refused
      BY <2>1, <2>2 DEF Edits!Answer
    <3> QED BY <3>1 DEF Edits!Refused, Edits!NoAnswer
  <2>3. CASE r.ok
    <3>1. /\ lines' = r.lines /\ eol' = Edits!Endings(r.lines)
          /\ answer' = [verb |-> "edit", edits |-> r.edits, spans |-> Len(batch), allow |-> allow]
      BY <2>1, <2>3 DEF Edits!Answer
    <3>2. /\ lines \in Seq(Seq(Char)) /\ batch \in Seq(Edits!Spans) /\ batch # <<>>
      BY <1>1, InputsAssumption DEF EditInv, Edits!Edit, Edits!InputsAreTyped
    <3>3. IsExact(r, lines, Len(batch), allow)
      BY <2>1, <2>3, <3>2, TransformIs
    <3>4. /\ answer'.verb = "edit" /\ answer'.edits = r.edits /\ answer'.spans = Len(batch)
          /\ answer'.allow = allow
      BY <3>1
    <3>5. answer' # Edits!NoAnswer
      BY <3>4 DEF Edits!NoAnswer
    <3>6. IsExact([lines |-> lines', edits |-> answer'.edits], lines, answer'.spans, answer'.allow)
      BY <3>1, <3>3, <3>4 DEF IsExact
    <3> QED BY <3>1, <3>4, <3>5, <3>6
  <2> QED BY <2>2, <2>3
<1>2. ASSUME NEW sed \in Seds, Edits!Sed(sed)
      PROVE  /\ answer' # Edits!NoAnswer
             /\ answer'.verb # "edit"
             /\ answer'.verb = "sed" => ReplacesAll(lines', lines, answer'.sed)
             /\ answer'.verb \in {"edit", "sed"} => eol' = Edits!Endings(lines')
  <2>1. PICK r : /\ r = Edits!sedText(lines, sed)
                 /\ Edits!Answer(r, [verb |-> "sed", sed |-> sed])
    BY <1>2 DEF Edits!Sed
  <2>2. CASE ~r.ok
    <3>1. answer' = Edits!Refused
      BY <2>1, <2>2 DEF Edits!Answer
    <3> QED BY <3>1 DEF Edits!Refused, Edits!NoAnswer
  <2>3. CASE r.ok
    <3>1. /\ lines' = r.lines /\ eol' = Edits!Endings(r.lines)
          /\ answer' = [verb |-> "sed", sed |-> sed]
      BY <2>1, <2>3 DEF Edits!Answer
    <3>2. lines \in Seq(Seq(Char)) /\ sed.count \in Nat /\ sed.all \in BOOLEAN
      BY <1>2, InputsAssumption DEF EditInv, Edits!Sed, Edits!InputsAreTyped
    <3>3. Edits!sedText(lines, sed).ok
      BY <2>1, <2>3
    <3>4. ReplacesAll(Edits!sedText(lines, sed).lines, lines, sed)
      BY <3>2, <3>3, SedIs
    <3>5. answer'.verb = "sed" /\ answer'.sed = sed
      BY <3>1
    <3>6. ReplacesAll(lines', lines, answer'.sed)
      BY <2>1, <3>1, <3>4, <3>5
    <3>7. answer' # Edits!NoAnswer
      BY <3>5 DEF Edits!NoAnswer
    <3> QED BY <3>1, <3>5, <3>6, <3>7
  <2> QED BY <2>2, <2>3
<1> QED BY <1>1, <1>2 DEF Edits!Next

\* An accepted batch replaces the lines its spans and guards name, each span by its own
\* lines, and a find and replace every occurrence (TransformEdits, autoSnap, sedText).
THEOREM BatchesAreExact == TextSpec => EditsExact
<1>1. TextInit => EditInv
  BY InputsAssumption DEF TextInit, Edits!Init, Edits!InputsAreTyped, EditInv
<1>2. EditInv /\ [TextNext]_<<vars, editVars, tool>> => EditInv'
  <2>1. ASSUME EditInv, UNCHANGED editVars PROVE EditInv'
    BY <2>1 DEF EditInv, editVars
  <2>2. ASSUME EditInv, Edits!Next PROVE EditInv'
    <3>1. answer' # Edits!NoAnswer
      BY <2>2, EditStepIs
    <3> QED BY <3>1 DEF EditInv
  <2> QED BY <2>1, <2>2 DEF TextNext, EditStep, ViewStep
<1>3. EditInv /\ [TextNext]_<<vars, editVars, tool>> =>
        [/\ answer'.verb = "edit" =>
            /\ lines' = Edits!Woven(lines, answer'.edits)
            /\ Len(answer'.edits) = answer'.spans
            /\ \A e \in Edits!ToSet(answer'.edits) : Edits!Guarded(lines, e)
            /\ answer'.allow \/ Edits!balanced(lines')
         /\ answer'.verb = "sed" =>
            lines' = [i \in DOMAIN lines |-> [k \in DOMAIN lines[i] |->
                        IF lines[i][k] = answer'.sed.find
                        THEN answer'.sed.replace ELSE lines[i][k]]]
         /\ answer'.verb \in {"edit", "sed"} /\ Len(lines) > 1 /\ Len(lines') > 1 /\ eol # "mixed" =>
            eol' = eol]_(Edits!vars)
  <2>1. UNCHANGED editVars => UNCHANGED Edits!vars
    BY DEF editVars, Edits!vars
  <2>2. ASSUME EditInv, Edits!Next
        PROVE  /\ answer'.verb = "edit" =>
                    /\ lines' = Edits!Woven(lines, answer'.edits)
                    /\ Len(answer'.edits) = answer'.spans
                    /\ \A e \in Edits!ToSet(answer'.edits) : Edits!Guarded(lines, e)
                    /\ answer'.allow \/ Edits!balanced(lines')
               /\ answer'.verb = "sed" =>
                    lines' = [i \in DOMAIN lines |-> [k \in DOMAIN lines[i] |->
                                IF lines[i][k] = answer'.sed.find
                                THEN answer'.sed.replace ELSE lines[i][k]]]
               /\ answer'.verb \in {"edit", "sed"} /\ Len(lines) > 1 /\ Len(lines') > 1 /\ eol # "mixed" =>
                    eol' = eol
    <3>1. answer'.verb = "edit" =>
             IsExact([lines |-> lines', edits |-> answer'.edits], lines, answer'.spans, answer'.allow)
      BY <2>2, EditStepIs
    <3>2. answer'.verb = "sed" => ReplacesAll(lines', lines, answer'.sed)
      BY <2>2, EditStepIs
    <3>3. answer'.verb \in {"edit", "sed"} => eol' = Edits!Endings(lines')
      BY <2>2, EditStepIs
    <3>4. eol \in {"lf", "crlf", "mixed"}
      BY <2>2 DEF EditInv, Edits!Next, Edits!Edit, Edits!Sed
    <3>5. answer'.verb \in {"edit", "sed"} /\ Len(lines) > 1 /\ Len(lines') > 1 /\ eol # "mixed" =>
             eol' = eol
      BY <3>3, <3>4 DEF Edits!Endings
    <3>6. answer'.verb = "edit" =>
             /\ lines' = Edits!Woven(lines, answer'.edits)
             /\ Len(answer'.edits) = answer'.spans
             /\ \A e \in Edits!ToSet(answer'.edits) : Edits!Guarded(lines, e)
             /\ answer'.allow \/ Edits!balanced(lines')
      BY <3>1 DEF IsExact
    <3> QED BY <3>2, <3>5, <3>6 DEF ReplacesAll
  <2> QED BY <2>1, <2>2 DEF TextNext, EditStep, ViewStep
<1> QED BY <1>1, <1>2, <1>3, PTL DEF TextSpec, EditsExact, Edits!EditsExact
=============================================================================
