-------------------------- MODULE ReadDedup_proofs --------------------------
(***************************************************************************)
(* Proofs about the read lane of light_file and its ledger, for every set  *)
(* of files, windows, versions, batches and every value of the bounds.     *)
(*                                                                         *)
(* The inductive invariant has three parts.  TypeInv: the types, and the   *)
(* ledger as a list of live-or-expired windows in order of their last use. *)
(* StubInv: what the ledger knows is backed by bytes received, or is on    *)
(* the page that is being put together, or was marked by an answer that    *)
(* did not carry it whole.  BatchInv: while no file changes, a forced      *)
(* batch goes on exactly where its pages left off.                         *)
(***************************************************************************)
EXTENDS ReadDedup, FiniteSetTheorems, SequenceTheorems, WellFoundedInduction, TLAPS

-----------------------------------------------------------------------------
(* The ledger, at time t: entries of windows, in order of their last use, no more than fit. *)

EntryAt(t) == [key : Windows, expires : 1..(t + TTL), delivered : 0..Budget]

Ordered(l) ==
  \A m, n \in 1..Len(l) : m < n => l[m].expires >= l[n].expires /\ l[m].key # l[n].key

LedgerAt(l, t) == l \in Seq(EntryAt(t)) /\ Len(l) <= Capacity /\ Ordered(l)

Alive(l, t) == \A n \in 1..Len(l) : l[n].expires > t

KeysIn(l) == {l[n].key : n \in 1..Len(l)}

LEMMA Constants ==
    /\ TTL \in Nat \ {0} /\ Capacity \in Nat \ {0} /\ Budget \in Nat \ {0} /\ StubLen \in Nat \ {0}
    /\ MaxTime \in Nat /\ MaxReads \in Nat /\ MaxWrites \in Nat
    /\ PathOf \in [Items -> Paths] /\ SecLen \in [Items -> [Versions -> Nat \ {0}]]
    /\ Gone \notin Versions
  BY LedgerAssumption, ReadAssumption DEF LedgerAssumption, ReadAssumption

\* A set of positions, with 0, has a last one.
LEMMA LastOne ==
    ASSUME NEW n \in Nat, NEW A, A \subseteq 1..n
    PROVE  \E m \in {0} \union A : \A i \in A : i <= m
<1> DEFINE R == OpToRel(<, Nat)
           T == {n - i : i \in {0} \union A}
<1>1. IsWellFoundedOn(R, Nat)
  BY NatLessThanWellFounded
<1>2. \A x, y \in Nat : y < x => <<y, x>> \in R
  BY DEF OpToRel
<1>3. T \subseteq Nat /\ T # {}
  OBVIOUS
<1> HIDE DEF R
<1>4. PICK x \in T : \A y \in T : ~(<<y, x>> \in R)
  BY <1>1, <1>3, WFMin
<1>5. PICK m \in {0} \union A : x = n - m
  BY <1>4
<1>6. ASSUME NEW i \in A PROVE i <= m
  <2>0. i \in 1..n /\ m \in 0..n
    BY <1>5
  <2>1. n - i \in T /\ n - i \in Nat /\ n - m \in Nat
    BY <2>0
  <2>2. ~(n - i < n - m)
    BY <1>2, <1>4, <1>5, <2>1
  <2> QED BY <2>0, <2>2
<1> QED BY <1>6

LEMMA PrefixKeeps ==
    ASSUME NEW t \in Nat, NEW l, LedgerAt(l, t), NEW n \in 0..Len(l)
    PROVE  /\ LedgerAt(SubSeq(l, 1, n), t) /\ Len(SubSeq(l, 1, n)) = n
           /\ \A i \in 1..n : SubSeq(l, 1, n)[i] = l[i]
           /\ KeysIn(SubSeq(l, 1, n)) \subseteq KeysIn(l)
<1>1. l \in Seq(EntryAt(t)) /\ Len(l) \in Nat /\ Len(l) <= Capacity
  BY DEF LedgerAt
<1>2. PICK s : s = SubSeq(l, 1, n)
  OBVIOUS
<1>3. s \in Seq(EntryAt(t)) /\ Len(s) = n /\ \A i \in 1..n : s[i] = l[i]
  BY <1>1, <1>2
<1>4. Ordered(s)
  BY <1>1, <1>3 DEF LedgerAt, Ordered
<1>5. n <= Capacity
  BY <1>1, Constants
<1>6. KeysIn(s) \subseteq KeysIn(l)
  BY <1>1, <1>3 DEF KeysIn
<1> QED BY <1>2, <1>3, <1>4, <1>5, <1>6 DEF LedgerAt

\* Expire leaves exactly what is alive, because the list is in order.
LEMMA ExpireKeeps ==
    ASSUME NEW t \in Nat, NEW l, LedgerAt(l, t)
    PROVE  /\ LedgerAt(Expire(l, t), t) /\ Alive(Expire(l, t), t)
           /\ KeysIn(Expire(l, t)) \subseteq KeysIn(l)
<1> DEFINE A == {i \in 1..Len(l) : l[i].expires > t}
           Last(m) == \A i \in A : i <= m
<1>1. l \in Seq(EntryAt(t)) /\ Len(l) \in Nat
  BY DEF LedgerAt
<1>2. \E m \in {0} \union A : Last(m)
  BY <1>1, LastOne
<1>3. PICK n : n = CHOOSE m \in {0} \union A : Last(m)
  OBVIOUS
<1>4. n \in {0} \union A /\ Last(n)
  BY <1>2, <1>3
<1>5. n \in 0..Len(l)
  BY <1>1, <1>4
<1>6. Expire(l, t) = SubSeq(l, 1, n)
  BY <1>3 DEF Expire
<1>7. PICK s : s = SubSeq(l, 1, n)
  OBVIOUS
<1>8. /\ LedgerAt(s, t) /\ Len(s) = n /\ KeysIn(s) \subseteq KeysIn(l)
      /\ \A i \in 1..n : s[i] = l[i]
  BY <1>5, <1>7, PrefixKeeps
<1>9. ASSUME NEW i \in 1..n PROVE l[i].expires > t
  <2>1. n \in A /\ l[n].expires > t /\ i \in 1..Len(l) /\ n \in 1..Len(l)
    BY <1>4, <1>5
  <2>2. l[i].expires \in Nat /\ l[n].expires \in Nat
    <3>1. l[i] \in EntryAt(t) /\ l[n] \in EntryAt(t)
      BY <1>1, <2>1
    <3>2. \A x \in EntryAt(t) : x.expires \in Nat
      BY DEF EntryAt
    <3> QED BY <3>1, <3>2
  <2>3. i = n \/ l[i].expires >= l[n].expires
    BY <2>1 DEF LedgerAt, Ordered
  <2> QED BY <2>1, <2>2, <2>3
<1>10. Alive(s, t)
  BY <1>8, <1>9 DEF Alive
<1> QED BY <1>6, <1>7, <1>8, <1>10

\* The list without one of its entries.
LEMMA WithoutKeeps ==
    ASSUME NEW t \in Nat, NEW l, LedgerAt(l, t), NEW j \in 1..Len(l)
    PROVE  /\ LedgerAt(Without(l, j), t)
           /\ KeysIn(Without(l, j)) \subseteq KeysIn(l) \ {l[j].key}
           /\ \A i \in 1..Len(Without(l, j)) : \E m \in 1..Len(l) : Without(l, j)[i] = l[m]
<1>1. l \in Seq(EntryAt(t)) /\ Len(l) \in Nat /\ Len(l) <= Capacity /\ j \in Nat
  BY DEF LedgerAt
<1>2. PICK front : front = SubSeq(l, 1, j - 1)
  OBVIOUS
<1>3. PICK back : back = SubSeq(l, j + 1, Len(l))
  OBVIOUS
<1>4. front \in Seq(EntryAt(t)) /\ Len(front) = j - 1 /\ \A i \in 1..j - 1 : front[i] = l[i]
  BY <1>1, <1>2
<1>5. /\ back \in Seq(EntryAt(t)) /\ Len(back) = Len(l) - j
      /\ \A i \in 1..Len(l) - j : back[i] = l[j + i]
  BY <1>1, <1>3
<1>6. PICK s : s = front \o back
  OBVIOUS
<1>7. /\ s \in Seq(EntryAt(t)) /\ Len(s) = Len(l) - 1
      /\ \A i \in 1..Len(s) : s[i] = IF i < j THEN l[i] ELSE l[i + 1]
  <2>1. /\ s \in Seq(EntryAt(t)) /\ Len(s) = Len(front) + Len(back)
        /\ \A i \in 1..Len(front) + Len(back) :
             s[i] = IF i <= Len(front) THEN front[i] ELSE back[i - Len(front)]
    BY <1>4, <1>5, <1>6, ConcatProperties
  <2>2. ASSUME NEW i \in 1..Len(s) PROVE s[i] = IF i < j THEN l[i] ELSE l[i + 1]
    <3>1. CASE i < j
      BY <1>1, <1>4, <1>5, <2>1, <3>1
    <3>2. CASE i >= j
      <4>1. PICK x : x = i - (j - 1)
        OBVIOUS
      <4>2. s[i] = back[x] /\ x \in 1..Len(l) - j /\ j + x = i + 1
        BY <1>1, <1>4, <1>5, <2>1, <3>2, <4>1
      <4>3. back[x] = l[j + x]
        BY <1>5, <4>2
      <4> QED BY <3>2, <4>2, <4>3
    <3> QED BY <1>1, <2>1, <3>1, <3>2
  <2> QED BY <1>1, <1>4, <1>5, <2>1, <2>2
<1>8. Ordered(s)
  <2> SUFFICES ASSUME NEW m \in 1..Len(s), NEW n \in 1..Len(s), m < n
               PROVE  s[m].expires >= s[n].expires /\ s[m].key # s[n].key
    BY DEF Ordered
  <2>1. PICK m0 : m0 = IF m < j THEN m ELSE m + 1
    OBVIOUS
  <2>2. PICK n0 : n0 = IF n < j THEN n ELSE n + 1
    OBVIOUS
  <2>3. m0 \in 1..Len(l) /\ n0 \in 1..Len(l) /\ m0 < n0
    BY <1>1, <1>7, <2>1, <2>2
  <2>4. s[m] = l[m0] /\ s[n] = l[n0]
    BY <1>1, <1>7, <2>1, <2>2
  <2> QED BY <2>3, <2>4 DEF LedgerAt, Ordered
<1>9. KeysIn(s) \subseteq KeysIn(l) \ {l[j].key}
  <2> SUFFICES ASSUME NEW i \in 1..Len(s)
               PROVE  s[i].key \in KeysIn(l) \ {l[j].key}
    BY DEF KeysIn
  <2>1. PICK i0 \in 1..Len(l) : s[i] = l[i0] /\ i0 # j
    BY <1>1, <1>7
  <2>2. l[i0].key # l[j].key
    BY <1>1, <2>1 DEF LedgerAt, Ordered
  <2> QED BY <2>1, <2>2 DEF KeysIn
<1>10. Len(s) <= Capacity
  BY <1>1, <1>7, Constants
<1>11. Without(l, j) = s
  BY <1>2, <1>3, <1>6 DEF Without
<1>12. ASSUME NEW i \in 1..Len(s) PROVE \E m \in 1..Len(l) : s[i] = l[m]
  <2>1. i \in 1..Len(l) /\ i + 1 \in 1..Len(l)
    BY <1>1, <1>7
  <2> QED BY <1>7, <2>1
<1> QED BY <1>7, <1>8, <1>9, <1>10, <1>11, <1>12 DEF LedgerAt

\* The entry of k comes first, with the lifetime it has from now.
LEMMA ToFrontKeeps ==
    ASSUME NEW t \in Nat, NEW l, LedgerAt(l, t), Alive(l, t),
           NEW k \in Windows, NEW size \in 0..Budget
    PROVE  /\ LedgerAt(ToFront(l, k, t, size), t) /\ Alive(ToFront(l, k, t, size), t)
           /\ KeysIn(ToFront(l, k, t, size)) \subseteq KeysIn(l) \union {k}
<1>1. PICK new : new = [key |-> k, expires |-> t + TTL, delivered |-> size]
  OBVIOUS
<1>2. /\ new \in EntryAt(t) /\ new.key = k /\ new.expires = t + TTL /\ new.expires > t
      /\ t + TTL \in Nat
  <2>1. t + TTL \in 1..(t + TTL) /\ t + TTL > t
    BY Constants
  <2> QED BY <1>1, <2>1 DEF EntryAt
<1>3. PICK rest : rest = IF Positions(l, k) = {} THEN l
                         ELSE Without(l, CHOOSE i \in Positions(l, k) : TRUE)
  OBVIOUS
<1>4. LedgerAt(rest, t) /\ KeysIn(rest) \subseteq KeysIn(l) \ {k}
  <2>1. CASE Positions(l, k) = {}
    BY <1>3, <2>1 DEF Positions, KeysIn
  <2>2. CASE Positions(l, k) # {}
    <3>1. PICK j : j = CHOOSE i \in Positions(l, k) : TRUE
      OBVIOUS
    <3>2. j \in 1..Len(l) /\ l[j].key = k /\ rest = Without(l, j)
      BY <1>3, <2>2, <3>1 DEF Positions
    <3> QED BY <3>2, WithoutKeeps
  <2> QED BY <2>1, <2>2
<1>5. rest \in Seq(EntryAt(t)) /\ Len(rest) \in Nat /\ Ordered(rest)
  BY <1>4 DEF LedgerAt
<1>6. ASSUME NEW i \in 1..Len(rest)
      PROVE  rest[i].expires \in 1..(t + TTL) /\ rest[i].key \in KeysIn(rest) /\ rest[i].key # k
  <2>1. rest[i] \in EntryAt(t)
    BY <1>5
  <2>2. \A x \in EntryAt(t) : x.expires \in 1..(t + TTL)
    BY DEF EntryAt
  <2>3. rest[i].key \in KeysIn(rest)
    BY DEF KeysIn
  <2> QED BY <1>4, <2>1, <2>2, <2>3
<1>7. Alive(rest, t)
  <2> SUFFICES ASSUME NEW i \in 1..Len(rest) PROVE rest[i].expires > t
    BY DEF Alive
  <2>1. CASE rest = l
    BY <2>1 DEF Alive
  <2>2. CASE rest # l
    <3>1. PICK j : j = CHOOSE m \in Positions(l, k) : TRUE
      OBVIOUS
    <3>2. j \in 1..Len(l) /\ rest = Without(l, j)
      BY <1>3, <2>2, <3>1 DEF Positions
    <3>3. \E m \in 1..Len(l) : rest[i] = l[m]
      BY <3>2, WithoutKeeps
    <3> QED BY <3>3 DEF Alive
  <2> QED BY <2>1, <2>2
<1>8. PICK all : all = <<new>> \o rest
  OBVIOUS
<1>9. /\ all \in Seq(EntryAt(t)) /\ Len(all) = Len(rest) + 1 /\ all[1] = new
      /\ \A i \in 1..Len(rest) : all[i + 1] = rest[i]
  BY <1>2, <1>5, <1>8
<1>10. PICK n : n = IF Len(all) < Capacity THEN Len(all) ELSE Capacity
  OBVIOUS
<1>11. n \in 1..Len(all) /\ n <= Capacity
  BY <1>5, <1>9, <1>10, Constants
<1>12. PICK s : s = SubSeq(all, 1, n)
  OBVIOUS
<1>13. s \in Seq(EntryAt(t)) /\ Len(s) = n /\ \A i \in 1..n : s[i] = all[i]
  BY <1>9, <1>11, <1>12
<1>14. ASSUME NEW i \in 1..n, i # 1 PROVE i - 1 \in 1..Len(rest) /\ s[i] = rest[i - 1]
  <2>1. i - 1 \in 1..Len(rest) /\ (i - 1) + 1 = i
    BY <1>9, <1>11, <1>14
  <2> QED BY <1>9, <1>13, <2>1
<1>15. Ordered(s)
  <2> SUFFICES ASSUME NEW a \in 1..Len(s), NEW b \in 1..Len(s), a < b
               PROVE  s[a].expires >= s[b].expires /\ s[a].key # s[b].key
    BY DEF Ordered
  <2>1. b # 1 /\ b \in 1..n /\ a \in 1..n /\ b - 1 \in 1..Len(rest) /\ s[b] = rest[b - 1]
    BY <1>11, <1>13, <1>14
  <2>2. CASE a = 1
    <3>1. s[a] = new
      BY <1>9, <1>13, <2>1, <2>2
    <3> QED BY <1>2, <1>6, <2>1, <3>1
  <2>3. CASE a # 1
    <3>1. a - 1 \in 1..Len(rest) /\ s[a] = rest[a - 1] /\ a - 1 < b - 1
      BY <1>11, <1>14, <2>1, <2>3
    <3> QED BY <1>5, <2>1, <3>1 DEF Ordered
  <2> QED BY <2>2, <2>3
<1>16. ASSUME NEW i \in 1..Len(s) PROVE s[i].expires > t /\ s[i].key \in KeysIn(l) \union {k}
  <2>1. CASE i = 1
    BY <1>2, <1>9, <1>11, <1>13, <2>1
  <2>2. CASE i # 1
    <3>1. i - 1 \in 1..Len(rest) /\ s[i] = rest[i - 1]
      BY <1>13, <1>14, <2>2
    <3> QED BY <1>4, <1>6, <1>7, <3>1 DEF Alive
  <2> QED BY <2>1, <2>2
<1>17. ToFront(l, k, t, size) = s
  BY <1>1, <1>3, <1>8, <1>10, <1>12 DEF ToFront, Clipped
<1> QED BY <1>11, <1>13, <1>15, <1>16, <1>17 DEF LedgerAt, Alive, KeysIn

\* What the caller is answered with a stub for is in the ledger.
LEMMA ElidedIsKnown ==
    ASSUME NEW t \in Nat, NEW l, LedgerAt(l, t), NEW k, NEW force, Elides(l, k, t, force)
    PROVE  k \in KeysIn(l) /\ ~force
<1>1. Positions(Expire(l, t), k) # {} /\ ~force
  BY DEF Elides, Known
<1>2. k \in KeysIn(Expire(l, t))
  BY <1>1 DEF Positions, KeysIn
<1> QED BY <1>1, <1>2, ExpireKeeps

LEMMA MarkedKeeps ==
    ASSUME NEW t \in Nat, NEW l, LedgerAt(l, t), NEW k \in Windows
    PROVE  /\ LedgerAt(Marked(l, k, t), t) /\ Alive(Marked(l, k, t), t)
           /\ KeysIn(Marked(l, k, t)) \subseteq KeysIn(l) \union {k}
<1>1. PICK live : live = Expire(l, t)
  OBVIOUS
<1>2. LedgerAt(live, t) /\ Alive(live, t) /\ KeysIn(live) \subseteq KeysIn(l)
  BY <1>1, ExpireKeeps
<1>3. PICK size : size = SizeOf(live, k)
  OBVIOUS
<1>4. size \in 0..Budget
  <2>1. CASE Positions(live, k) = {}
    BY <1>3, <2>1, Constants DEF SizeOf
  <2>2. CASE Positions(live, k) # {}
    <3>1. PICK j : j = CHOOSE i \in Positions(live, k) : TRUE
      OBVIOUS
    <3>2. j \in 1..Len(live) /\ size = live[j].delivered
      BY <1>3, <2>2, <3>1 DEF SizeOf, Positions
    <3>3. live[j] \in EntryAt(t)
      BY <1>2, <3>2 DEF LedgerAt
    <3> QED BY <3>2, <3>3 DEF EntryAt
  <2> QED BY <2>1, <2>2
<1>5. Marked(l, k, t) = ToFront(live, k, t, size)
  BY <1>1, <1>3 DEF Marked
<1> QED BY <1>2, <1>4, <1>5, ToFrontKeeps

LEMMA RecordedKeeps ==
    ASSUME NEW t \in Nat, NEW l, LedgerAt(l, t), NEW k \in Windows, NEW size \in 0..Budget
    PROVE  /\ LedgerAt(Recorded(l, k, t, size), t)
           /\ Recorded(l, k, t, size) = l \/ Alive(Recorded(l, k, t, size), t)
           /\ KeysIn(Recorded(l, k, t, size)) \subseteq KeysIn(l) \union {k}
<1>1. CASE size <= 0
  BY <1>1 DEF Recorded
<1>2. CASE ~(size <= 0)
  <2>1. Recorded(l, k, t, size) = ToFront(Expire(l, t), k, t, size)
    BY <1>2 DEF Recorded
  <2>2. /\ LedgerAt(Expire(l, t), t) /\ Alive(Expire(l, t), t)
        /\ KeysIn(Expire(l, t)) \subseteq KeysIn(l)
    BY ExpireKeeps
  <2> QED BY <2>1, <2>2, ToFrontKeeps
<1> QED BY <1>1, <1>2

\* Ranks number the members of a finite set of numbers, in their order.
LEMMA Ranks ==
    ASSUME NEW n \in Nat, NEW kept, kept \subseteq 1..n
    PROVE  /\ IsFiniteSet(kept) /\ Cardinality(kept) \in Nat /\ Cardinality(kept) <= n
           /\ \A i, j \in kept : i < j => Rank(kept, i) < Rank(kept, j)
           /\ \A i \in kept : Rank(kept, i) \in 1..Cardinality(kept)
           /\ \A m \in 1..Cardinality(kept) : \E i \in kept : Rank(kept, i) = m
<1>1. IsFiniteSet(1..n) /\ Cardinality(1..n) = n
  BY FS_Interval
<1>2. IsFiniteSet(kept) /\ Cardinality(kept) \in Nat /\ Cardinality(kept) <= n
  BY <1>1, FS_Subset, FS_CardinalityType
<1>3. PICK c : c = Cardinality(kept)
  OBVIOUS
<1>4. ASSUME NEW i \in kept
      PROVE  /\ IsFiniteSet({x \in kept : x <= i}) /\ Rank(kept, i) = Cardinality({x \in kept : x <= i})
             /\ Rank(kept, i) \in 1..c
  <2>1. PICK S : S = {x \in kept : x <= i}
    OBVIOUS
  <2>2. IsFiniteSet(S) /\ Cardinality(S) <= c /\ Cardinality(S) \in Nat
    BY <1>2, <1>3, <2>1, FS_Subset, FS_CardinalityType
  <2>3. i \in S
    BY <2>1
  <2>4. Cardinality(S) # 0
    BY <2>2, <2>3, FS_EmptySet
  <2> QED BY <1>2, <1>3, <2>1, <2>2, <2>4 DEF Rank
<1>5. ASSUME NEW i \in kept, NEW j \in kept, i < j
      PROVE  Rank(kept, i) < Rank(kept, j)
  <2>1. PICK S : S = {x \in kept : x <= i}
    OBVIOUS
  <2>2. PICK T : T = {x \in kept : x <= j}
    OBVIOUS
  <2>3. S \subseteq T /\ j \in T /\ j \notin S
    <3>1. \A x \in kept : x \in Nat
      OBVIOUS
    <3>2. i \in Nat /\ j \in Nat /\ i < j
      BY <1>5, <3>1
    <3>3. \A x \in kept : x <= i => x <= j
      BY <3>1, <3>2
    <3>4. j <= j /\ ~(j <= i)
      BY <3>2
    <3> QED BY <2>1, <2>2, <3>3, <3>4
  <2>4. IsFiniteSet(T) /\ Rank(kept, i) = Cardinality(S) /\ Rank(kept, j) = Cardinality(T)
    BY <1>4, <2>1, <2>2
  <2>5. Cardinality(S) <= Cardinality(T) /\ Cardinality(S) # Cardinality(T)
    BY <2>3, <2>4, FS_Subset
  <2>6. Rank(kept, i) \in Nat /\ Rank(kept, j) \in Nat
    <3>1. Rank(kept, i) \in 1..c /\ Rank(kept, j) \in 1..c
      BY <1>4
    <3> QED BY <1>2, <1>3, <3>1
  <2> QED BY <2>4, <2>5, <2>6
<1>6. \A m \in 1..c : \E i \in kept : Rank(kept, i) = m
  <2>1. PICK f : f = [i \in kept |-> Rank(kept, i)]
    OBVIOUS
  <2>2. f \in [kept -> 1..c] /\ \A i \in kept : f[i] = Rank(kept, i)
    BY <1>4, <2>1
  <2>3. \A i, j \in kept : f[i] = f[j] => i = j
    <3> SUFFICES ASSUME NEW i \in kept, NEW j \in kept, f[i] = f[j] PROVE i = j
      OBVIOUS
    <3>1. i \in Nat /\ j \in Nat /\ Rank(kept, i) = Rank(kept, j) /\ Rank(kept, i) \in Nat
      BY <1>2, <1>3, <1>4, <2>2
    <3> QED BY <1>5, <3>1
  <2>4. f \in Injection(kept, 1..c)
    BY <2>2, <2>3 DEF Injection, IsInjective
  <2>5. IsFiniteSet(1..c) /\ Cardinality(1..c) = c
    BY <1>2, <1>3, FS_Interval
  <2>6. f \in Surjection(kept, 1..c)
    BY <1>3, <2>4, <2>5, FS_Injection
  <2> QED BY <2>2, <2>6 DEF Surjection
<1> QED BY <1>2, <1>3, <1>4, <1>5, <1>6

LEMMA InvalidatedKeeps ==
    ASSUME NEW t \in Nat, NEW l, LedgerAt(l, t), NEW stale
    PROVE  /\ LedgerAt(Invalidated(l, stale), t)
           /\ KeysIn(Invalidated(l, stale)) \subseteq KeysIn(l) \ stale
<1>1. l \in Seq(EntryAt(t)) /\ Len(l) \in Nat /\ Len(l) <= Capacity
  BY DEF LedgerAt
<1>2. PICK kept : kept = {i \in 1..Len(l) : l[i].key \notin stale}
  OBVIOUS
<1>3. /\ Cardinality(kept) \in Nat /\ Cardinality(kept) <= Len(l)
      /\ \A i, j \in kept : i < j => Rank(kept, i) < Rank(kept, j)
      /\ \A i \in kept : Rank(kept, i) \in 1..Cardinality(kept)
      /\ \A m \in 1..Cardinality(kept) : \E i \in kept : Rank(kept, i) = m
  <2>1. kept \subseteq 1..Len(l)
    BY <1>2
  <2> QED BY <1>1, <2>1, Ranks
<1>4. PICK nth : nth = [m \in 1..Cardinality(kept) |-> CHOOSE i \in kept : Rank(kept, i) = m]
  OBVIOUS
<1>5. ASSUME NEW m \in 1..Cardinality(kept)
      PROVE  nth[m] \in kept /\ Rank(kept, nth[m]) = m
  <2>1. nth[m] = CHOOSE i \in kept : Rank(kept, i) = m
    BY <1>4
  <2> QED BY <1>3, <2>1
<1>6. PICK s : s = [m \in 1..Cardinality(kept) |-> l[nth[m]]]
  OBVIOUS
<1>7. ASSUME NEW m \in 1..Cardinality(kept)
      PROVE  nth[m] \in 1..Len(l) /\ l[nth[m]] \in EntryAt(t) /\ l[nth[m]].key \notin stale
  <2>1. nth[m] \in kept
    BY <1>5
  <2>2. nth[m] \in 1..Len(l) /\ l[nth[m]].key \notin stale
    BY <1>2, <2>1
  <2> QED BY <1>1, <2>2
<1>8. s \in Seq(EntryAt(t)) /\ Len(s) = Cardinality(kept) /\ \A m \in 1..Len(s) : s[m] = l[nth[m]]
  BY <1>3, <1>6, <1>7
<1>9. Ordered(s)
  <2> SUFFICES ASSUME NEW a \in 1..Len(s), NEW b \in 1..Len(s), a < b
               PROVE  s[a].expires >= s[b].expires /\ s[a].key # s[b].key
    BY DEF Ordered
  <2>1. PICK i \in kept : i = nth[a] /\ Rank(kept, i) = a /\ s[a] = l[i]
    BY <1>5, <1>8
  <2>2. PICK j \in kept : j = nth[b] /\ Rank(kept, j) = b /\ s[b] = l[j]
    BY <1>5, <1>8
  <2>3. i \in 1..Len(l) /\ j \in 1..Len(l)
    BY <1>2
  <2>4. ~(j < i) /\ i # j
    BY <1>3, <2>1, <2>2
  <2>5. i < j
    BY <2>3, <2>4
  <2> QED BY <2>1, <2>2, <2>3, <2>5 DEF LedgerAt, Ordered
<1>10. KeysIn(s) \subseteq KeysIn(l) \ stale
  <2> SUFFICES ASSUME NEW m \in 1..Len(s) PROVE s[m].key \in KeysIn(l) \ stale
    BY DEF KeysIn
  <2> QED BY <1>7, <1>8 DEF KeysIn
<1>11. Len(s) <= Capacity
  BY <1>1, <1>3, <1>8, Constants
<1>12. Invalidated(l, stale) = s
  <2>1. s = [m \in 1..Cardinality(kept) |-> l[CHOOSE i \in kept : Rank(kept, i) = m]]
    BY <1>4, <1>6
  <2> QED BY <1>2, <2>1 DEF Invalidated
<1> QED BY <1>8, <1>9, <1>10, <1>11, <1>12 DEF LedgerAt

\* Time that passes takes nothing from the order.
LEMMA LaterKeeps ==
    ASSUME NEW t \in Nat, NEW l, LedgerAt(l, t)
    PROVE  LedgerAt(l, t + 1)
<1>1. EntryAt(t) \subseteq EntryAt(t + 1)
  BY Constants DEF EntryAt
<1>2. l \in Seq(EntryAt(t + 1))
  BY <1>1, SeqMonotonic DEF LedgerAt
<1> QED BY <1>2 DEF LedgerAt

-----------------------------------------------------------------------------
(* The invariant. *)

TypeInv ==
  /\ file \in [Paths -> Versions \union {Gone}]
  /\ now \in 0..MaxTime /\ writes \in 0..MaxWrites /\ reads \in 0..MaxReads
  /\ LedgerAt(ledger, now)
  /\ req # None => /\ req \in Request /\ req.item \in 1..Len(req.items)
                   /\ Len(req.out) = req.used
  /\ cursor # None => cursor \in Cursor /\ cursor.item \in 1..Len(cursor.items)
  /\ received \subseteq (Windows \X Nat) /\ cut \subseteq Windows /\ stubbed \subseteq Windows

\* The caller has all of a window, or some answer marked it without carrying it whole.
Backed(w) == Units(w) \subseteq received \/ w \in cut

\* A page holds every unit of a window.
Holds(page, w) ==
  \A u \in 1..SecLen[w[2]][w[3]] : \E n \in 1..Len(page) :
    page[n].win = w /\ page[n].unit = u /\ ~page[n].stub

\* What the ledger knows is backed, or is in the page of the request in progress.
StubInv ==
  /\ \A k \in KeysIn(ledger) : Backed(k) \/ (req # None /\ k \in req.marked)
  /\ \A w \in stubbed : Backed(w)
  /\ req # None => /\ \A w \in req.stubs : Backed(w) \/ w \in req.marked
                   /\ \A w \in req.marked : w \in cut \/ Holds(req.out, w)

\* Where the pages of a batch go on, after the last unit that was put into one: at the start, inside
\* a section as it is now, or at the section after one that was carried to its end.
Place(items, item, byte, last) ==
  \/ item = 1 /\ byte = 0 /\ last = None
  \/ /\ byte > 0 /\ last \in Unit /\ last.at = item /\ last.unit = byte
     /\ file[PathOf[items[item]]] # Gone
     /\ byte < SecLen[items[item]][file[PathOf[items[item]]]]
  \/ /\ byte = 0 /\ item > 1 /\ last \in Unit /\ last.at = item - 1
     /\ last.unit = SecLen[items[item - 1]][last.win[3]]

\* The last unit of a page, or of the pages before it.
LastOf(page) == IF page = <<>> THEN got ELSE page[Len(page)]
LastUnit == LastOf(req.out)

InOrder(page, items) ==
  \A n \in 1..Len(page) : Follows(IF n = 1 THEN got ELSE page[n - 1], page[n], items)

\* A forced batch under which no file changed has its units in order so far.
BatchInv ==
  steady =>
    /\ (req # None /\ req.force) => /\ whole /\ InOrder(req.out, req.items)
                                    /\ Place(req.items, req.item, req.byte, LastUnit)
    /\ (req = None /\ cursor # None /\ cursor.force)
         => whole /\ Place(cursor.items, cursor.item, cursor.byte, got)

-----------------------------------------------------------------------------
(* The item a request is at, and the part of it that goes into the page. *)

LEMMA WindowIsKey ==
    /\ \A e, i, v : Key(e, i, v) = Window(e, i, v) /\ Window(e, i, v) = <<e, i, v>>
    /\ \A e \in Epochs, i \in Items, v \in Versions : Window(e, i, v) \in Windows
  BY DEF Key, Window, Windows

LEMMA SectionLength ==
    ASSUME NEW w \in Windows
    PROVE  w[2] \in Items /\ w[3] \in Versions /\ SecLen[w[2]][w[3]] \in Nat \ {0}
  BY Constants DEF Windows

\* The fields of the request in progress.
LEMMA RequestHolds ==
    ASSUME TypeInv, req # None
    PROVE  /\ req.epoch \in Epochs /\ req.items \in Batches /\ req.force \in BOOLEAN
           /\ req.item \in 1..Len(req.items) /\ req.byte \in Nat /\ req.used \in 0..Budget
           /\ req.out \in Seq(Unit) /\ Len(req.out) = req.used
           /\ req.marked \subseteq Windows /\ req.stubs \subseteq Windows
           /\ req.items \in Seq(Items) /\ Len(req.items) \in Nat /\ Item \in Items
           /\ req = [epoch |-> req.epoch, items |-> req.items, force |-> req.force,
                     item |-> req.item, byte |-> req.byte, used |-> req.used, out |-> req.out,
                     marked |-> req.marked, stubs |-> req.stubs]
<1>1. req \in Request /\ req.item \in 1..Len(req.items) /\ Len(req.out) = req.used
  BY DEF TypeInv
<1>2. req.items \in Seq(Items)
  BY <1>1, ReadAssumption DEF ReadAssumption, Request
<1> QED BY <1>1, <1>2 DEF Request, Item

LEMMA ItemHolds ==
    ASSUME TypeInv, req # None, Readable
    PROVE  /\ Version \in Versions /\ ItemKey = ItemWindow /\ ItemWindow \in Windows
           /\ ItemWindow = <<req.epoch, Item, Version>>
           /\ SecLen[Item][Version] \in Nat \ {0} /\ Length \in Nat
           /\ ~Stubbed => Length = SecLen[Item][Version]
           /\ Carried \in Nat /\ req.used + Carried \in 0..Budget /\ Carried \in 0..Budget
           /\ req.byte + Carried <= Length
           /\ Fits => req.byte + Carried = Length
           /\ ~Fits => req.byte + Carried < Length
<1>1. /\ req.epoch \in Epochs /\ req.byte \in Nat /\ req.used \in 0..Budget /\ Item \in Items
      /\ Budget \in Nat
  BY RequestHolds, Constants
<1>2. Version \in Versions /\ req.byte <= Length
  <2>1. PathOf[Item] \in Paths
    BY <1>1, Constants
  <2> QED BY <2>1 DEF Readable, Version, TypeInv
<1>3. ItemKey = ItemWindow /\ ItemWindow \in Windows /\ ItemWindow = <<req.epoch, Item, Version>>
  BY <1>1, <1>2, WindowIsKey DEF ItemKey, ItemWindow
<1>4. SecLen[Item][Version] \in Nat \ {0}
  BY <1>1, <1>2, Constants
<1>5. Length \in Nat /\ (~Stubbed => Length = SecLen[Item][Version])
  BY <1>4, Constants DEF Length
<1>6. Room = Budget - req.used /\ Room \in 0..Budget
  BY <1>1 DEF Room
<1>7. Fits <=> Length - req.byte <= Room
  BY DEF Fits
<1>8. Carried = IF Fits THEN Length - req.byte ELSE Room
  BY DEF Carried
<1>9. /\ Carried \in Nat /\ req.used + Carried \in 0..Budget /\ Carried \in 0..Budget
      /\ req.byte + Carried <= Length
      /\ Fits => req.byte + Carried = Length
      /\ ~Fits => req.byte + Carried < Length
  BY <1>1, <1>2, <1>5, <1>6, <1>7, <1>8
<1> QED BY <1>2, <1>3, <1>4, <1>5, <1>9

\* The units of the part, one by one.
LEMMA PartHolds ==
    ASSUME TypeInv, req # None, Readable
    PROVE  /\ Part \in Seq(Unit) /\ Len(Part) = Carried
           /\ \A n \in 1..Carried :
                /\ Part[n].at = req.item /\ Part[n].unit = req.byte + n /\ Part[n].win = ItemWindow
                /\ Part[n].stub <=> Stubbed
<1>1. PICK q \in BOOLEAN : q <=> Stubbed
  OBVIOUS
<1>2. /\ Carried \in Nat /\ req.item \in Nat /\ req.byte \in Nat /\ ItemWindow \in Windows
      /\ \A n \in 1..Carried : req.byte + n \in Nat
  BY ItemHolds, RequestHolds
<1>3. PICK w : w = ItemWindow
  OBVIOUS
<1>4. PICK at : at = req.item
  OBVIOUS
<1>5. PICK from : from = req.byte
  OBVIOUS
<1>6. PICK len : len = Carried
  OBVIOUS
<1>7. Part = [n \in 1..len |-> [at |-> at, unit |-> from + n, win |-> w, stub |-> q]]
  BY <1>1, <1>3, <1>4, <1>5, <1>6 DEF Part
<1>8. ASSUME NEW n \in 1..len
      PROVE  [at |-> at, unit |-> from + n, win |-> w, stub |-> q] \in Unit
  BY <1>2, <1>3, <1>4, <1>5, <1>6 DEF Unit
<1>9. Part \in Seq(Unit) /\ Len(Part) = len
  BY <1>2, <1>6, <1>7, <1>8
<1>10. ASSUME NEW n \in 1..len
       PROVE  Part[n].at = at /\ Part[n].unit = from + n /\ Part[n].win = w /\ Part[n].stub = q
  BY <1>7
<1> QED BY <1>1, <1>3, <1>4, <1>5, <1>6, <1>9, <1>10

\* The page with this part.
LEMMA PageHolds ==
    ASSUME TypeInv, req # None, Readable, NEW page, page = req.out \o Part
    PROVE  /\ page \in Seq(Unit) /\ Len(page) = req.used + Carried
           /\ \A n \in 1..req.used : page[n] = req.out[n]
           /\ \A n \in 1..Carried : page[req.used + n] = Part[n]
<1>1. req.out \in Seq(Unit) /\ Len(req.out) = req.used /\ req.used \in Nat
  BY RequestHolds, Constants
<1>2. Part \in Seq(Unit) /\ Len(Part) = Carried /\ Carried \in Nat
  BY PartHolds, ItemHolds
<1>3. PICK part : part = Part
  OBVIOUS
<1>4. PICK out : out = req.out
  OBVIOUS
<1>5. PICK len : len = Carried
  OBVIOUS
<1>6. PICK used : used = req.used
  OBVIOUS
<1>7. /\ out \in Seq(Unit) /\ Len(out) = used /\ part \in Seq(Unit) /\ Len(part) = len
      /\ used \in Nat /\ len \in Nat /\ page = out \o part
  BY <1>1, <1>2, <1>3, <1>4, <1>5, <1>6
<1>8. /\ page \in Seq(Unit) /\ Len(page) = used + len
      /\ \A n \in 1..used + len : page[n] = IF n <= used THEN out[n] ELSE part[n - used]
  BY <1>7, ConcatProperties
<1>9. ASSUME NEW n \in 1..used PROVE page[n] = out[n]
  BY <1>7, <1>8
<1>10. ASSUME NEW n \in 1..len PROVE page[used + n] = part[n]
  <2>1. used + n \in 1..used + len /\ ~(used + n <= used) /\ (used + n) - used = n
    BY <1>7
  <2> QED BY <1>8, <2>1
<1> QED BY <1>3, <1>4, <1>5, <1>6, <1>8, <1>9, <1>10

\* What an item does to the ledger: it is asked, and told of what was carried.
LEMMA RememberKeeps ==
    ASSUME TypeInv, req # None, Readable, Remember
    PROVE  /\ LedgerAt(ledger', now)
           /\ ledger' = ledger \/ Alive(ledger', now)
           /\ KeysIn(ledger') \subseteq KeysIn(ledger) \union {ItemWindow}
           /\ Stubbed => ItemWindow \in KeysIn(ledger) /\ ~req.force
<1>1. /\ now \in Nat /\ LedgerAt(ledger, now)
  BY Constants DEF TypeInv
<1>2. ItemKey = ItemWindow /\ ItemWindow \in Windows /\ Carried \in 0..Budget
  BY ItemHolds
<1>3. PICK k : k = ItemWindow
  OBVIOUS
<1>4. PICK asked : asked = Asked
  OBVIOUS
<1>5. /\ asked = IF req.byte = 0 THEN Marked(ledger, k, now) ELSE ledger
      /\ Stubbed <=> req.byte = 0 /\ Elides(ledger, k, now, req.force)
      /\ ledger' = IF Stubbed THEN asked ELSE Recorded(asked, k, now, Carried)
  BY <1>2, <1>3, <1>4 DEF Asked, Stubbed, Remember
<1>6. /\ LedgerAt(asked, now) /\ KeysIn(asked) \subseteq KeysIn(ledger) \union {k}
      /\ asked = ledger \/ Alive(asked, now)
      /\ req.byte = 0 => Alive(asked, now)
  BY <1>1, <1>2, <1>3, <1>5, MarkedKeeps
<1>7. CASE Stubbed
  <2>1. k \in KeysIn(ledger) /\ ~req.force
    BY <1>1, <1>5, <1>7, ElidedIsKnown
  <2> QED BY <1>3, <1>5, <1>6, <1>7, <2>1
<1>8. CASE ~Stubbed
  <2>1. PICK size : size = Carried
    OBVIOUS
  <2>2. /\ LedgerAt(Recorded(asked, k, now, size), now)
        /\ Recorded(asked, k, now, size) = asked \/ Alive(Recorded(asked, k, now, size), now)
        /\ KeysIn(Recorded(asked, k, now, size)) \subseteq KeysIn(asked) \union {k}
    BY <1>1, <1>2, <1>3, <1>6, <2>1, RecordedKeeps
  <2>3. ledger' = Recorded(asked, k, now, size)
    BY <1>5, <1>8, <2>1
  <2> QED BY <1>3, <1>6, <1>8, <2>2, <2>3
<1> QED BY <1>7, <1>8

-----------------------------------------------------------------------------
(* Every step keeps the types and the order of the ledger. *)

LEMMA InitTypes == Init => TypeInv
<1> SUFFICES ASSUME Init PROVE TypeInv
  OBVIOUS
<1>1. LedgerAt(<<>>, 0)
  BY Constants DEF LedgerAt, Ordered
<1> QED BY <1>1, Constants DEF Init, TypeInv

\* What a request leaves to its reader.
LEMMA WholeRequest ==
    ASSUME NEW e \in Epochs, NEW items \in Batches, NEW force \in BOOLEAN, NEW item \in 1..Len(items),
           NEW byte \in Nat, NEW used \in 0..Budget, NEW out \in Seq(Unit), Len(out) = used,
           NEW marked \in SUBSET Windows, NEW stubs \in SUBSET Windows, NEW r,
           r = [epoch |-> e, items |-> items, force |-> force, item |-> item, byte |-> byte,
                used |-> used, out |-> out, marked |-> marked, stubs |-> stubs]
    PROVE  r \in Request /\ r.item \in 1..Len(r.items) /\ Len(r.out) = r.used
<1>1. item \in Nat
  BY ReadAssumption DEF ReadAssumption
<1> QED BY <1>1 DEF Request

\* A batch that starts or goes on has an empty page.
LEMMA FreshRequest ==
    ASSUME NEW e \in Epochs, NEW items \in Batches, NEW force \in BOOLEAN, NEW item \in 1..Len(items),
           NEW byte \in Nat, NEW r,
           r = [epoch |-> e, items |-> items, force |-> force, item |-> item, byte |-> byte,
                used |-> 0, out |-> <<>>, marked |-> {}, stubs |-> {}]
    PROVE  r \in Request /\ r.item \in 1..Len(r.items) /\ Len(r.out) = r.used
<1>1. 0 \in 0..Budget /\ <<>> \in Seq(Unit) /\ Len(<<>>) = 0
  BY Constants
<1>2. item \in Nat
  BY ReadAssumption DEF ReadAssumption
<1> QED BY <1>1, <1>2 DEF Request

\* One window is answered with a stub for what is known, or else with its units.
LEMMA ReadWindowDoes ==
    ASSUME TypeInv, NEW e \in Epochs, NEW i \in Items, NEW force \in BOOLEAN, NEW spilled \in BOOLEAN,
           ReadWindow(e, i, force, spilled)
    PROVE  \E w \in Windows :
             /\ LedgerAt(ledger', now) /\ Alive(ledger', now)
             /\ KeysIn(ledger') \subseteq KeysIn(ledger) \union {w}
             /\ received \subseteq received' /\ received' \subseteq (Windows \X Nat)
             /\ cut \subseteq cut' /\ cut' \subseteq Windows
             /\ \/ w \in KeysIn(ledger) /\ stubbed' = {w}
                \/ stubbed' = {} /\ (Units(w) \subseteq received' \/ w \in cut')
<1>1. PICK v : v = file[PathOf[i]]
  OBVIOUS
<1>2. PICK len : len = SecLen[i][v]
  OBVIOUS
<1>3. PICK shipped : shipped = Least(len, Budget)
  OBVIOUS
<1>4. PICK readable : readable = IF spilled THEN len ELSE shipped
  OBVIOUS
<1>5. PICK w : w = Window(e, i, v)
  OBVIOUS
<1>6. /\ v # Gone
      /\ IF Elides(ledger, w, now, force)
         THEN /\ ledger' = Marked(ledger, w, now)
              /\ stubbed' = {w}
              /\ UNCHANGED <<received, cut>>
         ELSE /\ ledger' = Recorded(Marked(ledger, w, now), w, now, shipped)
              /\ stubbed' = {}
              /\ received' = received \cup {<<w, u>> : u \in 1..readable}
              /\ cut' = IF readable < len THEN cut \cup {w} ELSE cut
  BY <1>1, <1>2, <1>3, <1>4, <1>5, WindowIsKey DEF ReadWindow
<1>7. v \in Versions
  <2>1. PathOf[i] \in Paths
    BY Constants
  <2> QED BY <1>1, <1>6, <2>1 DEF TypeInv
<1>8. w \in Windows /\ w = <<e, i, v>> /\ len \in Nat \ {0} /\ Units(w) = {<<w, u>> : u \in 1..len}
  BY <1>2, <1>5, <1>7, WindowIsKey, Constants DEF Units
<1>9. shipped \in 0..Budget /\ shipped <= len /\ readable \in Nat /\ readable <= len
  BY <1>3, <1>4, <1>8, Constants DEF Least
<1>10. now \in Nat /\ LedgerAt(ledger, now) /\ received \subseteq (Windows \X Nat) /\ cut \subseteq Windows
  BY Constants DEF TypeInv
<1>11. PICK asked : asked = Marked(ledger, w, now)
  OBVIOUS
<1>12. LedgerAt(asked, now) /\ Alive(asked, now) /\ KeysIn(asked) \subseteq KeysIn(ledger) \union {w}
  BY <1>8, <1>10, <1>11, MarkedKeeps
<1>13. CASE Elides(ledger, w, now, force)
  <2>1. w \in KeysIn(ledger)
    BY <1>10, <1>13, ElidedIsKnown
  <2> QED BY <1>6, <1>8, <1>10, <1>11, <1>12, <1>13, <2>1
<1>14. CASE ~Elides(ledger, w, now, force)
  <2>1. PICK told : told = Recorded(asked, w, now, shipped)
    OBVIOUS
  <2>2. /\ LedgerAt(told, now) /\ (told = asked \/ Alive(told, now))
        /\ KeysIn(told) \subseteq KeysIn(asked) \union {w}
    BY <1>8, <1>9, <1>10, <1>12, <2>1, RecordedKeeps
  <2>3. ledger' = told
    BY <1>6, <1>11, <1>14, <2>1
  <2>4. {<<w, u>> : u \in 1..readable} \subseteq (Windows \X Nat)
    BY <1>8, <1>9
  <2>5. readable < len \/ readable = len
    BY <1>8, <1>9
  <2>6. Units(w) \subseteq received' \/ w \in cut'
    BY <1>6, <1>8, <1>14, <2>5
  <2> QED BY <1>6, <1>8, <1>10, <1>12, <1>14, <2>2, <2>3, <2>4, <2>6
<1> QED BY <1>13, <1>14

\* Who waits for a batch and who does not is not changed by what happens beside it.
LEMMA OtherStepsTypes ==
    ASSUME TypeInv, UNCHANGED <<req, cursor>>,
           file' \in [Paths -> Versions \union {Gone}], now' \in 0..MaxTime, writes' \in 0..MaxWrites,
           reads' \in 0..MaxReads, LedgerAt(ledger', now'),
           received' \subseteq (Windows \X Nat), cut' \subseteq Windows, stubbed' \subseteq Windows
    PROVE  TypeInv'
<1>1. LedgerAt(ledger, now)'
  BY DEF LedgerAt, EntryAt, Ordered, Windows
<1> QED BY <1>1 DEF TypeInv, Request, Cursor, Windows, Unit

LEMMA ReadWindowTypes ==
    ASSUME TypeInv, NEW e \in Epochs, NEW i \in Items, NEW force \in BOOLEAN, NEW spilled \in BOOLEAN,
           ReadWindow(e, i, force, spilled)
    PROVE  TypeInv' /\ Alive(ledger', now)
<1>1. /\ UNCHANGED <<file, now, writes, req, cursor>> /\ reads' \in 0..MaxReads
  BY Constants DEF ReadWindow, world, TypeInv
<1>2. PICK w \in Windows :
         /\ LedgerAt(ledger', now) /\ Alive(ledger', now)
         /\ received' \subseteq (Windows \X Nat) /\ cut' \subseteq Windows
         /\ stubbed' = {w} \/ stubbed' = {}
  BY ReadWindowDoes
<1>3. file' \in [Paths -> Versions \union {Gone}] /\ now' \in 0..MaxTime /\ writes' \in 0..MaxWrites
  BY <1>1 DEF TypeInv
<1>4. LedgerAt(ledger', now') /\ stubbed' \subseteq Windows
  BY <1>1, <1>2
<1>5. UNCHANGED <<req, cursor>>
  BY <1>1
<1> QED BY <1>1, <1>2, <1>3, <1>4, <1>5, OtherStepsTypes

LEMMA ToolWritesTypes ==
    ASSUME TypeInv, NEW p \in Paths, NEW v \in Versions, ToolWrites(p, v)
    PROVE  /\ TypeInv' /\ file' # file /\ KeysIn(ledger') \subseteq KeysIn(ledger)
<1>1. /\ file' = [file EXCEPT ![p] = v] /\ file[p] # v /\ ledger' = Invalidated(ledger, KeysOf(p))
      /\ UNCHANGED <<now, req, cursor, reads, received, cut, stubbed>>
      /\ writes < MaxWrites /\ writes' = writes + 1
  BY DEF ToolWrites, client
<1>2. file \in [Paths -> Versions \union {Gone}]
  BY DEF TypeInv
<1>3. file' \in [Paths -> Versions \union {Gone}] /\ file'[p] = v
  BY <1>1, <1>2
<1>4. LedgerAt(ledger, now) /\ now \in Nat
  BY Constants DEF TypeInv
<1>5. LedgerAt(ledger', now) /\ KeysIn(ledger') \subseteq KeysIn(ledger)
  BY <1>1, <1>4, InvalidatedKeeps
<1>6. /\ now' \in 0..MaxTime /\ writes' \in 0..MaxWrites /\ reads' \in 0..MaxReads
      /\ LedgerAt(ledger', now')
      /\ received' \subseteq (Windows \X Nat) /\ cut' \subseteq Windows /\ stubbed' \subseteq Windows
  BY <1>1, <1>5, Constants DEF TypeInv
<1>7. TypeInv'
  BY <1>1, <1>3, <1>6, OtherStepsTypes
<1> QED BY <1>1, <1>3, <1>5, <1>7

LEMMA OutsideWritesTypes ==
    ASSUME TypeInv, NEW p \in Paths, NEW v \in Versions \union {Gone}, OutsideWrites(p, v)
    PROVE  TypeInv'
<1>1. /\ file' = [file EXCEPT ![p] = v]
      /\ UNCHANGED <<now, ledger, req, cursor, reads, received, cut, stubbed>>
      /\ writes < MaxWrites /\ writes' = writes + 1
  BY DEF OutsideWrites, client
<1>2. file' \in [Paths -> Versions \union {Gone}]
  BY <1>1 DEF TypeInv
<1>3. /\ now' \in 0..MaxTime /\ writes' \in 0..MaxWrites /\ reads' \in 0..MaxReads
      /\ LedgerAt(ledger', now')
      /\ received' \subseteq (Windows \X Nat) /\ cut' \subseteq Windows /\ stubbed' \subseteq Windows
  BY <1>1, Constants DEF TypeInv
<1> QED BY <1>1, <1>2, <1>3, OtherStepsTypes

LEMMA TickTypes ==
    ASSUME TypeInv, Tick
    PROVE  TypeInv'
<1>1. /\ now < MaxTime /\ now' = now + 1
      /\ UNCHANGED <<file, writes, ledger, req, cursor, reads, received, cut, stubbed>>
  BY DEF Tick, client
<1>2. LedgerAt(ledger, now + 1) /\ now + 1 \in 0..MaxTime
  BY <1>1, LaterKeeps, Constants DEF TypeInv
<1>3. /\ now' \in 0..MaxTime /\ writes' \in 0..MaxWrites /\ reads' \in 0..MaxReads
      /\ LedgerAt(ledger', now') /\ file' \in [Paths -> Versions \union {Gone}]
      /\ received' \subseteq (Windows \X Nat) /\ cut' \subseteq Windows /\ stubbed' \subseteq Windows
  BY <1>1, <1>2 DEF TypeInv
<1> QED BY <1>1, <1>3, OtherStepsTypes

\* The request of a batch that starts, and of one that goes on at its cursor.
LEMMA StartBatchTypes ==
    ASSUME TypeInv, NEW e \in Epochs, NEW items \in Batches, NEW force \in BOOLEAN,
           StartBatch(e, items, force)
    PROVE  TypeInv'
<1>1. PICK r : r = [epoch |-> e, items |-> items, force |-> force, item |-> 1, byte |-> 0,
                    used |-> 0, out |-> <<>>, marked |-> {}, stubs |-> {}]
  OBVIOUS
<1>2. /\ req' = r /\ cursor' = None /\ reads' = reads + 1 /\ reads < MaxReads
      /\ UNCHANGED <<file, now, writes, ledger, received, cut, stubbed>>
  BY <1>1 DEF StartBatch, world
<1>3. 1 \in 1..Len(items) /\ 0 \in Nat
  <2>1. items \in Seq(Items) /\ items # <<>>
    BY ReadAssumption DEF ReadAssumption
  <2> QED BY <2>1
<1>4. r \in Request /\ r.item \in 1..Len(r.items) /\ Len(r.out) = r.used
  BY <1>1, <1>3, FreshRequest
<1>5. reads' \in 0..MaxReads
  BY <1>2, Constants DEF TypeInv
<1>6. LedgerAt(ledger, now)'
  BY <1>2 DEF TypeInv, LedgerAt, EntryAt, Ordered, Windows
<1> QED BY <1>2, <1>4, <1>5, <1>6 DEF TypeInv, Request, Unit, Windows

LEMMA ContinueBatchTypes ==
    ASSUME TypeInv, ContinueBatch
    PROVE  /\ TypeInv'
           /\ req' # None /\ req'.marked = {} /\ req'.stubs = {} /\ req'.out = <<>>
           /\ req'.items = cursor.items /\ req'.item = cursor.item /\ req'.byte = cursor.byte
           /\ req'.force = cursor.force
<1>1. cursor # None /\ cursor \in Cursor /\ cursor.item \in 1..Len(cursor.items)
  BY DEF ContinueBatch, TypeInv
<1>2. /\ cursor.epoch \in Epochs /\ cursor.items \in Batches /\ cursor.force \in BOOLEAN
      /\ cursor.byte \in Nat
  BY <1>1 DEF Cursor
<1>3. PICK r : r = [epoch |-> cursor.epoch, items |-> cursor.items, force |-> cursor.force,
                    item |-> cursor.item, byte |-> cursor.byte,
                    used |-> 0, out |-> <<>>, marked |-> {}, stubs |-> {}]
  OBVIOUS
<1>4. /\ req' = r /\ UNCHANGED <<file, now, writes, ledger, cursor, reads, received, cut, stubbed>>
  BY <1>3 DEF ContinueBatch, world
<1>5. r \in Request /\ r.item \in 1..Len(r.items) /\ Len(r.out) = r.used
  BY <1>1, <1>2, <1>3, FreshRequest
<1>6. LedgerAt(ledger, now)'
  BY <1>4 DEF TypeInv, LedgerAt, EntryAt, Ordered, Windows
<1>7. TypeInv'
  BY <1>4, <1>5, <1>6 DEF TypeInv, Request, Cursor, Unit, Windows
<1>8. r # None
  BY <1>5, NoneAssumption DEF NoneAssumption
<1> QED BY <1>3, <1>4, <1>7, <1>8

LEMMA FailBatchTypes ==
    ASSUME TypeInv, FailBatch
    PROVE  TypeInv'
<1>1. /\ req' = None /\ cursor' = None /\ stubbed' = {} /\ cut' = cut \union req.marked
      /\ req # None /\ UNCHANGED <<file, now, writes, ledger, reads, received>>
  BY DEF FailBatch, world
<1>2. cut' \subseteq Windows
  BY <1>1, RequestHolds DEF TypeInv
<1>3. LedgerAt(ledger, now)'
  BY <1>1 DEF TypeInv, LedgerAt, EntryAt, Ordered, Windows
<1> QED BY <1>1, <1>2, <1>3 DEF TypeInv, Windows

\* What a page delivers.
LEMMA DeliverGives ==
    ASSUME TypeInv, req # None, Readable, Deliver, NEW page, page = req.out \o Part
    PROVE  /\ received' = received \union {<<page[n].win, page[n].unit>> :
                                             n \in {m \in 1..Len(page) : ~page[m].stub}}
           /\ received' \subseteq (Windows \X Nat)
           /\ got' = IF page = <<>> THEN got ELSE page[Len(page)]
           /\ whole' = (whole /\ InOrder(page, req.items))
<1>1. /\ received' = received \union {<<page[n].win, page[n].unit>> :
                                        n \in {m \in 1..Len(page) : ~page[m].stub}}
      /\ got' = IF page = <<>> THEN got ELSE page[Len(page)]
      /\ whole' = (whole /\ InOrder(page, req.items))
  BY DEF Deliver, InOrder
<1>2. page \in Seq(Unit)
  BY PageHolds
<1>3. ASSUME NEW n \in 1..Len(page) PROVE page[n].win \in Windows /\ page[n].unit \in Nat
  <2>1. page[n] \in Unit
    BY <1>2
  <2> QED BY <2>1 DEF Unit
<1>4. received' \subseteq (Windows \X Nat)
  <2>1. {<<page[n].win, page[n].unit>> : n \in {m \in 1..Len(page) : ~page[m].stub}}
          \subseteq (Windows \X Nat)
    BY <1>3
  <2> QED BY <1>1, <2>1 DEF TypeInv
<1> QED BY <1>1, <1>4

\* The request after an item that was not the last.
LEMMA NextItem ==
    ASSUME TypeInv, req # None, Readable, Fits, req.item < Len(req.items), NEW r,
           r = [req EXCEPT !.item = req.item + 1, !.byte = 0,
                  !.used = req.used + Carried, !.out = req.out \o Part,
                  !.marked = IF Stubbed THEN @ ELSE @ \cup {ItemWindow},
                  !.stubs = IF Stubbed THEN @ \cup {ItemWindow} ELSE @]
    PROVE  /\ r \in Request /\ r.item \in 1..Len(r.items) /\ Len(r.out) = r.used /\ r # None
           /\ r.item = req.item + 1 /\ r.byte = 0 /\ r.items = req.items
           /\ r.force = req.force /\ r.out = req.out \o Part
           /\ r.marked = (IF Stubbed THEN req.marked ELSE req.marked \union {ItemWindow})
           /\ r.stubs = (IF Stubbed THEN req.stubs \union {ItemWindow} ELSE req.stubs)
<1>1. /\ req.epoch \in Epochs /\ req.items \in Batches /\ req.force \in BOOLEAN
      /\ req.item \in 1..Len(req.items) /\ Len(req.items) \in Nat
      /\ req.marked \subseteq Windows /\ req.stubs \subseteq Windows
      /\ req = [epoch |-> req.epoch, items |-> req.items, force |-> req.force,
                item |-> req.item, byte |-> req.byte, used |-> req.used, out |-> req.out,
                marked |-> req.marked, stubs |-> req.stubs]
  BY RequestHolds
<1>2. PICK out : out = req.out \o Part
  OBVIOUS
<1>3. out \in Seq(Unit) /\ Len(out) = req.used + Carried
  BY <1>2, PageHolds
<1>4. PICK marked : marked = IF Stubbed THEN req.marked ELSE req.marked \union {ItemWindow}
  OBVIOUS
<1>5. PICK stubs : stubs = IF Stubbed THEN req.stubs \union {ItemWindow} ELSE req.stubs
  OBVIOUS
<1>6. PICK item : item = req.item + 1
  OBVIOUS
<1>7. PICK used : used = req.used + Carried
  OBVIOUS
<1>8. /\ item \in 1..Len(req.items) /\ used \in 0..Budget /\ Len(out) = used /\ 0 \in Nat
      /\ marked \in SUBSET Windows /\ stubs \in SUBSET Windows
  BY <1>1, <1>3, <1>4, <1>5, <1>6, <1>7, ItemHolds
<1>9. r = [epoch |-> req.epoch, items |-> req.items, force |-> req.force, item |-> item,
           byte |-> 0, used |-> used, out |-> out, marked |-> marked, stubs |-> stubs]
  <2>1. r = [req EXCEPT !.item = item, !.byte = 0, !.used = used, !.out = out,
                        !.marked = marked, !.stubs = stubs]
    BY <1>2, <1>4, <1>5, <1>6, <1>7
  <2> QED BY <1>1, <2>1
<1>10. r \in Request /\ r.item \in 1..Len(r.items) /\ Len(r.out) = r.used
  <2>1. item \in Nat
    BY <1>1, <1>8
  <2>2. PICK e, items, force, byte :
          e = req.epoch /\ items = req.items /\ force = req.force /\ byte = 0
    OBVIOUS
  <2>3. r = [epoch |-> e, items |-> items, force |-> force, item |-> item, byte |-> byte,
             used |-> used, out |-> out, marked |-> marked, stubs |-> stubs]
    BY <1>9, <2>2
  <2>4. /\ e \in Epochs /\ items \in Batches /\ force \in BOOLEAN /\ byte \in Nat
        /\ item \in Nat /\ item \in 1..Len(items) /\ used \in 0..Budget /\ out \in Seq(Unit)
        /\ Len(out) = used /\ marked \in SUBSET Windows /\ stubs \in SUBSET Windows
    BY <1>1, <1>3, <1>7, <1>8, <2>1, <2>2
  <2>5. r \in Request
    BY <2>3, <2>4 DEF Request
  <2>6. r.item = item
    BY <1>1, <1>6
  <2>7. r.items = items
    BY <1>1, <2>2
  <2>8. r.out = out
    BY <1>1, <1>2
  <2>9. r.used = used
    BY <1>1, <1>7
  <2> QED BY <2>4, <2>5, <2>6, <2>7, <2>8, <2>9
<1>11. r # None
  BY <1>10, NoneAssumption DEF NoneAssumption
<1> QED BY <1>2, <1>4, <1>5, <1>6, <1>9, <1>10, <1>11

LEMMA AppendItemTypes ==
    ASSUME TypeInv, AppendItem
    PROVE  TypeInv'
<1>1. /\ req # None /\ Readable /\ Fits /\ Remember
      /\ UNCHANGED <<file, now, writes, reads>>
      /\ cut' = IF Partial THEN cut \cup {ItemWindow} ELSE cut
  BY DEF AppendItem, world
<1>2. LedgerAt(ledger', now) /\ ItemWindow \in Windows
  <2>1. LedgerAt(ledger', now)
    BY <1>1, RememberKeeps
  <2>2. ItemWindow \in Windows
    BY <1>1, ItemHolds
  <2> QED BY <2>1, <2>2
<1>3. LedgerAt(ledger, now)' /\ cut' \subseteq Windows
  BY <1>1, <1>2 DEF TypeInv, LedgerAt, EntryAt, Ordered, Windows
<1>4. CASE req.item < Len(req.items)
  <2>1. PICK r : r = [req EXCEPT !.item = req.item + 1, !.byte = 0,
                        !.used = req.used + Carried, !.out = req.out \o Part,
                        !.marked = IF Stubbed THEN @ ELSE @ \cup {ItemWindow},
                        !.stubs = IF Stubbed THEN @ \cup {ItemWindow} ELSE @]
    OBVIOUS
  <2>2. req' = r /\ UNCHANGED <<cursor, received, stubbed>>
    BY <1>4, <2>1 DEF AppendItem
  <2>3. r \in Request /\ r.item \in 1..Len(r.items) /\ Len(r.out) = r.used
    BY <1>1, <1>4, <2>1, NextItem
  <2> QED BY <1>1, <1>3, <2>2, <2>3 DEF TypeInv, Request, Cursor, Unit, Windows
<1>5. CASE ~(req.item < Len(req.items))
  <2>1. /\ Deliver /\ req' = None /\ cursor' = None
        /\ stubbed' = IF Stubbed THEN req.stubs \cup {ItemWindow} ELSE req.stubs
    BY <1>5 DEF AppendItem
  <2>2. received' \subseteq (Windows \X Nat)
    BY <1>1, <2>1, DeliverGives
  <2>3. stubbed' \subseteq Windows
    BY <1>1, <1>2, <2>1, RequestHolds
  <2> QED BY <1>1, <1>3, <2>1, <2>2, <2>3 DEF TypeInv, Windows
<1> QED BY <1>4, <1>5

LEMMA CutPageTypes ==
    ASSUME TypeInv, CutPage
    PROVE  /\ TypeInv'
           /\ cursor' # None /\ cursor'.items = req.items /\ cursor'.item = req.item
           /\ cursor'.force = req.force /\ cursor'.byte = req.byte + Carried
<1>1. /\ req # None /\ Readable /\ ~Fits /\ Remember /\ Deliver /\ req' = None
      /\ UNCHANGED <<file, now, writes, reads>> /\ stubbed' = req.stubs
      /\ cut' = IF Partial THEN cut \cup {ItemWindow} ELSE cut
  BY DEF CutPage, world
<1>2. LedgerAt(ledger', now) /\ ItemWindow \in Windows
  <2>1. LedgerAt(ledger', now)
    BY <1>1, RememberKeeps
  <2>2. ItemWindow \in Windows
    BY <1>1, ItemHolds
  <2> QED BY <2>1, <2>2
<1>3. LedgerAt(ledger, now)' /\ cut' \subseteq Windows
  BY <1>1, <1>2 DEF TypeInv, LedgerAt, EntryAt, Ordered, Windows
<1>4. received' \subseteq (Windows \X Nat) /\ stubbed' \subseteq Windows
  BY <1>1, DeliverGives, RequestHolds
<1>5. PICK q \in BOOLEAN : q <=> Stubbed
  OBVIOUS
<1>6. PICK byte : byte = req.byte + Carried
  OBVIOUS
<1>7. PICK c : c = [epoch |-> req.epoch, items |-> req.items, force |-> req.force,
                    item |-> req.item, byte |-> byte, instub |-> q]
  OBVIOUS
<1>8. cursor' = c
  BY <1>5, <1>6, <1>7 DEF CutPage, NextByte
<1>9. /\ req.epoch \in Epochs /\ req.items \in Batches /\ req.force \in BOOLEAN
      /\ req.item \in 1..Len(req.items) /\ req.item \in Nat /\ byte \in Nat
  BY <1>1, <1>6, RequestHolds, ItemHolds
<1>10. c \in Cursor /\ c.item \in 1..Len(c.items)
  BY <1>7, <1>9 DEF Cursor
<1>11. c # None
  BY <1>10, NoneAssumption DEF NoneAssumption
<1>12. TypeInv'
  BY <1>1, <1>3, <1>4, <1>8, <1>10 DEF TypeInv, Cursor, Windows
<1> QED BY <1>6, <1>7, <1>8, <1>11, <1>12

LEMMA NextTypes ==
    ASSUME TypeInv, [Next]_vars
    PROVE  TypeInv'
<1>1. CASE UNCHANGED vars
  <2>1. LedgerAt(ledger, now)'
    BY <1>1 DEF vars, TypeInv, LedgerAt, EntryAt, Ordered, Windows
  <2> QED BY <1>1, <2>1 DEF vars, TypeInv, Request, Cursor, Unit, Windows
<1>2. CASE Next
  BY <1>2, ReadWindowTypes, StartBatchTypes, ContinueBatchTypes, FailBatchTypes, AppendItemTypes,
     CutPageTypes, ToolWritesTypes, OutsideWritesTypes, TickTypes
  DEF Next, ServeBatch
<1> QED BY <1>1, <1>2

-----------------------------------------------------------------------------
(* Every stub stands for something. *)

LEMMA InitStubs == Init => StubInv
  BY DEF Init, StubInv, KeysIn

\* More received, or more cut, backs what was backed.
LEMMA BackedStays ==
    ASSUME received \subseteq received', cut \subseteq cut', NEW w, Backed(w)
    PROVE  Backed(w)'
  BY DEF Backed, Units

\* A request that starts or goes on has promised nothing yet.
LEMMA FreshStubs ==
    ASSUME StubInv, req = None, req'.marked = {}, req'.stubs = {},
           UNCHANGED <<ledger, received, cut, stubbed>>
    PROVE  StubInv'
<1>1. received \subseteq received' /\ cut \subseteq cut'
  OBVIOUS
<1>2. ASSUME NEW k \in KeysIn(ledger)' PROVE Backed(k)'
  <2>1. k \in KeysIn(ledger)
    BY <1>2 DEF KeysIn
  <2> QED BY <1>1, <2>1, BackedStays DEF StubInv
<1>3. ASSUME NEW w \in stubbed' PROVE Backed(w)'
  BY <1>1, BackedStays DEF StubInv
<1> QED BY <1>2, <1>3 DEF StubInv

\* A step outside a batch, or of the clock or a file, that learns nothing it cannot back.
LEMMA OtherStepsStubs ==
    ASSUME StubInv, UNCHANGED req, received \subseteq received', cut \subseteq cut',
           \A k \in KeysIn(ledger') : k \in KeysIn(ledger) \/ Backed(k)',
           \A w \in stubbed' : w \in stubbed \/ Backed(w)'
    PROVE  StubInv'
<1>1. ASSUME NEW k \in KeysIn(ledger)' PROVE Backed(k)' \/ (req' # None /\ k \in req'.marked)
  <2>1. k \in KeysIn(ledger')
    BY <1>1 DEF KeysIn
  <2> QED BY <2>1, BackedStays DEF StubInv
<1>2. ASSUME NEW w \in stubbed' PROVE Backed(w)'
  BY <1>2, BackedStays DEF StubInv
<1>3. ASSUME req' # None
      PROVE  /\ \A w \in req'.stubs : Backed(w)' \/ w \in req'.marked
             /\ \A w \in req'.marked : w \in cut' \/ Holds(req.out, w)'
  <2>1. \A w \in req.stubs : Backed(w) \/ w \in req.marked
    BY <1>3 DEF StubInv
  <2>2. \A w \in req.marked : w \in cut \/ Holds(req.out, w)
    BY <1>3 DEF StubInv
  <2>3. ASSUME NEW w, Holds(req.out, w) PROVE Holds(req.out, w)'
    BY <2>3 DEF Holds
  <2> QED BY <2>1, <2>2, <2>3, BackedStays
<1> QED BY <1>1, <1>2, <1>3 DEF StubInv

LEMMA ReadWindowStubs ==
    ASSUME TypeInv, StubInv, NEW e \in Epochs, NEW i \in Items, NEW force \in BOOLEAN,
           NEW spilled \in BOOLEAN, ReadWindow(e, i, force, spilled)
    PROVE  StubInv'
<1>1. PICK w \in Windows :
         /\ KeysIn(ledger') \subseteq KeysIn(ledger) \union {w}
         /\ received \subseteq received' /\ cut \subseteq cut'
         /\ \/ w \in KeysIn(ledger) /\ stubbed' = {w}
            \/ stubbed' = {} /\ (Units(w) \subseteq received' \/ w \in cut')
  BY ReadWindowDoes
<1>2. req = None /\ req' = req
  BY DEF ReadWindow
<1>3. Backed(w)'
  <2>1. CASE w \in KeysIn(ledger)
    <3>1. Backed(w)
      BY <1>2, <2>1 DEF StubInv
    <3> QED BY <1>1, <3>1, BackedStays
  <2>2. CASE Units(w) \subseteq received' \/ w \in cut'
    BY <2>2 DEF Backed, Units
  <2> QED BY <1>1, <2>1, <2>2
<1>4. \A k \in KeysIn(ledger') : k \in KeysIn(ledger) \/ Backed(k)'
  BY <1>1, <1>3
<1>5. \A v \in stubbed' : v \in stubbed \/ Backed(v)'
  BY <1>1, <1>3
<1>6. received \subseteq received' /\ cut \subseteq cut' /\ UNCHANGED req
  BY <1>1, <1>2
<1> QED BY <1>4, <1>5, <1>6, OtherStepsStubs

LEMMA FailBatchStubs ==
    ASSUME TypeInv, StubInv, FailBatch
    PROVE  StubInv'
<1>1. /\ req # None /\ req' = None /\ stubbed' = {} /\ cut' = cut \union req.marked
      /\ UNCHANGED <<ledger, received>>
  BY DEF FailBatch
<1>2. received \subseteq received' /\ cut \subseteq cut'
  BY <1>1
<1>3. ASSUME NEW k \in KeysIn(ledger)' PROVE Backed(k)'
  <2>1. k \in KeysIn(ledger)
    BY <1>1, <1>3 DEF KeysIn
  <2>2. CASE Backed(k)
    BY <1>2, <2>2, BackedStays
  <2>3. CASE k \in req.marked
    BY <1>1, <2>3 DEF Backed
  <2> QED BY <2>1, <2>2, <2>3 DEF StubInv
<1> QED BY <1>1, <1>3 DEF StubInv

\* A page that holds a window holds it when it is longer.
LEMMA HoldsStays ==
    ASSUME TypeInv, req # None, Readable, NEW page, page = req.out \o Part, NEW w, Holds(req.out, w)
    PROVE  Holds(page, w)
<1>1. /\ Len(page) = req.used + Carried /\ Len(req.out) = req.used
      /\ req.used \in Nat /\ Carried \in Nat
      /\ \A n \in 1..req.used : page[n] = req.out[n]
  <2>1. Len(page) = req.used + Carried /\ \A n \in 1..req.used : page[n] = req.out[n]
    BY PageHolds
  <2>2. Len(req.out) = req.used /\ req.used \in Nat
    BY RequestHolds, Constants
  <2>3. Carried \in Nat
    BY ItemHolds
  <2> QED BY <2>1, <2>2, <2>3
<1>2. ASSUME NEW n \in 1..Len(req.out) PROVE n \in 1..Len(page) /\ page[n] = req.out[n]
  BY <1>1
<1> QED BY <1>2 DEF Holds

\* A section that is carried whole is in the page.
LEMMA WholeIsHeld ==
    ASSUME TypeInv, req # None, Readable, NEW page, page = req.out \o Part, ~Stubbed, ~Partial
    PROVE  Holds(page, ItemWindow)
<1>1. req.byte = 0 /\ Fits
  BY RequestHolds DEF Partial
<1>2. /\ Carried = SecLen[Item][Version] /\ Carried \in Nat
      /\ ItemWindow = <<req.epoch, Item, Version>>
  BY <1>1, ItemHolds
<1>3. /\ Len(page) = req.used + Carried /\ req.used \in Nat
      /\ \A n \in 1..Carried : page[req.used + n] = Part[n]
  <2>1. Len(page) = req.used + Carried /\ \A n \in 1..Carried : page[req.used + n] = Part[n]
    BY PageHolds
  <2>2. req.used \in Nat
    BY RequestHolds, Constants
  <2> QED BY <2>1, <2>2
<1>4. \A n \in 1..Carried : Part[n].unit = req.byte + n /\ Part[n].win = ItemWindow /\ ~Part[n].stub
  BY PartHolds
<1>5. PICK w : w = ItemWindow
  OBVIOUS
<1>6. SecLen[w[2]][w[3]] = Carried
  BY <1>2, <1>5
<1>7. ASSUME NEW u \in 1..Carried
      PROVE  \E n \in 1..Len(page) : page[n].win = w /\ page[n].unit = u /\ ~page[n].stub
  <2>1. req.used + u \in 1..Len(page) /\ 0 + u = u
    BY <1>2, <1>3
  <2>2. page[req.used + u] = Part[u]
    BY <1>3
  <2> QED BY <1>1, <1>4, <1>5, <2>1, <2>2
<1> QED BY <1>5, <1>6, <1>7 DEF Holds

\* What is delivered holds every window of the page.
LEMMA DeliveredIsBacked ==
    ASSUME TypeInv, req # None, Readable, Deliver, NEW w, Holds(req.out \o Part, w)
    PROVE  Units(w) \subseteq received'
<1>1. PICK page : page = req.out \o Part
  OBVIOUS
<1>2. received' = received \union {<<page[n].win, page[n].unit>> :
                                     n \in {m \in 1..Len(page) : ~page[m].stub}}
  BY <1>1 DEF Deliver
<1> SUFFICES ASSUME NEW u \in 1..SecLen[w[2]][w[3]] PROVE <<w, u>> \in received'
  BY DEF Units
<1>3. PICK n \in 1..Len(page) : page[n].win = w /\ page[n].unit = u /\ ~page[n].stub
  BY <1>1 DEF Holds
<1> QED BY <1>2, <1>3

\* After an item: what the ledger has, and what the page has, is backed or in the page.
LEMMA ItemStubs ==
    ASSUME TypeInv, StubInv, req # None, Readable, Remember,
           cut' = IF Partial THEN cut \union {ItemWindow} ELSE cut,
           NEW page, page = req.out \o Part
    PROVE  /\ \A k \in KeysIn(ledger') : Backed(k) \/ k \in cut' \/ Holds(page, k)
           /\ \A w \in req.marked : w \in cut' \/ Holds(page, w)
           /\ \A w \in req.stubs : Backed(w) \/ w \in cut' \/ Holds(page, w)
           /\ Stubbed => Backed(ItemWindow) \/ ItemWindow \in req.marked
           /\ ~Stubbed => ItemWindow \in cut' \/ Holds(page, ItemWindow)
           /\ \A k \in KeysIn(ledger') : k = ItemWindow \/ Backed(k) \/ k \in req.marked
<1>1. /\ KeysIn(ledger') \subseteq KeysIn(ledger) \union {ItemWindow}
      /\ Stubbed => ItemWindow \in KeysIn(ledger)
  BY RememberKeeps
<1>2. /\ \A k \in KeysIn(ledger) : Backed(k) \/ k \in req.marked
      /\ \A w \in req.stubs : Backed(w) \/ w \in req.marked
      /\ \A w \in req.marked : w \in cut \/ Holds(req.out, w)
  BY DEF StubInv
<1>3. \A w \in req.marked : w \in cut' \/ Holds(page, w)
  BY <1>2, HoldsStays
<1>4. ASSUME ~Stubbed PROVE ItemWindow \in cut' \/ Holds(page, ItemWindow)
  BY <1>4, WholeIsHeld
<1>5. Stubbed => Backed(ItemWindow) \/ ItemWindow \in req.marked
  BY <1>1, <1>2
<1>6. \A w \in req.stubs : Backed(w) \/ w \in cut' \/ Holds(page, w)
  BY <1>2, <1>3
<1>7. \A k \in KeysIn(ledger') : k = ItemWindow \/ Backed(k) \/ k \in req.marked
  BY <1>1, <1>2
<1>8. \A k \in KeysIn(ledger') : Backed(k) \/ k \in cut' \/ Holds(page, k)
  BY <1>3, <1>4, <1>5, <1>7
<1> QED BY <1>3, <1>4, <1>5, <1>6, <1>7, <1>8

\* A page is delivered and the request is over.
LEMMA DeliveredStubs ==
    ASSUME TypeInv, StubInv, req # None, Readable, Remember, Deliver, req' = None,
           cut' = IF Partial THEN cut \union {ItemWindow} ELSE cut,
           stubbed' = req.stubs \/ (Stubbed /\ stubbed' = req.stubs \union {ItemWindow})
    PROVE  StubInv'
<1>1. PICK page : page = req.out \o Part
  OBVIOUS
<1>2. received \subseteq received' /\ cut \subseteq cut'
  BY <1>1, DeliverGives
<1>3. ASSUME NEW w, Backed(w) \/ w \in cut' \/ Holds(page, w) PROVE Backed(w)'
  <2>1. CASE Backed(w)
    BY <1>2, <2>1, BackedStays
  <2>2. CASE w \in cut'
    BY <2>2 DEF Backed
  <2>3. CASE Holds(page, w)
    <3>1. Units(w) \subseteq received'
      BY <1>1, <2>3, DeliveredIsBacked
    <3> QED BY <3>1 DEF Backed, Units
  <2> QED BY <1>3, <2>1, <2>2, <2>3
<1>4. /\ \A k \in KeysIn(ledger') : Backed(k) \/ k \in cut' \/ Holds(page, k)
      /\ \A w \in req.marked : w \in cut' \/ Holds(page, w)
      /\ \A w \in req.stubs : Backed(w) \/ w \in cut' \/ Holds(page, w)
      /\ Stubbed => Backed(ItemWindow) \/ ItemWindow \in req.marked
  BY <1>1, ItemStubs
<1>5. \A w \in stubbed' : Backed(w)'
  BY <1>3, <1>4
<1>6. \A k \in KeysIn(ledger)' : Backed(k)'
  <2>1. KeysIn(ledger)' = KeysIn(ledger')
    BY DEF KeysIn
  <2> QED BY <1>3, <1>4, <2>1
<1> QED BY <1>5, <1>6 DEF StubInv

LEMMA AppendItemStubs ==
    ASSUME TypeInv, StubInv, AppendItem
    PROVE  StubInv'
<1>1. /\ req # None /\ Readable /\ Fits /\ Remember
      /\ cut' = IF Partial THEN cut \cup {ItemWindow} ELSE cut
  BY DEF AppendItem
<1>2. CASE req.item < Len(req.items)
  <2>1. PICK r : r = [req EXCEPT !.item = req.item + 1, !.byte = 0,
                        !.used = req.used + Carried, !.out = req.out \o Part,
                        !.marked = IF Stubbed THEN @ ELSE @ \cup {ItemWindow},
                        !.stubs = IF Stubbed THEN @ \cup {ItemWindow} ELSE @]
    OBVIOUS
  <2>2. req' = r /\ UNCHANGED <<received, stubbed>>
    BY <1>2, <2>1 DEF AppendItem
  <2>3. PICK page : page = req.out \o Part
    OBVIOUS
  <2>4. /\ r # None /\ r.out = page
        /\ r.marked = (IF Stubbed THEN req.marked ELSE req.marked \union {ItemWindow})
        /\ r.stubs = (IF Stubbed THEN req.stubs \union {ItemWindow} ELSE req.stubs)
    BY <1>1, <1>2, <2>1, <2>3, NextItem
  <2>5. /\ \A k \in KeysIn(ledger') : k = ItemWindow \/ Backed(k) \/ k \in req.marked
        /\ \A w \in req.marked : w \in cut' \/ Holds(page, w)
        /\ Stubbed => Backed(ItemWindow) \/ ItemWindow \in req.marked
        /\ ~Stubbed => ItemWindow \in cut' \/ Holds(page, ItemWindow)
    BY <1>1, <2>3, ItemStubs
  <2>6. \A w \in req.stubs : Backed(w) \/ w \in req.marked
    BY <1>1 DEF StubInv
  <2>7. \A w : Backed(w) => Backed(w)'
    BY <1>1, <2>2, BackedStays
  <2>8. ASSUME NEW k \in KeysIn(ledger)' PROVE Backed(k)' \/ k \in r.marked
    <3>1. k \in KeysIn(ledger')
      BY <2>8 DEF KeysIn
    <3> QED BY <2>4, <2>5, <2>7, <3>1
  <2>9. \A w \in stubbed' : Backed(w)'
    BY <2>2, <2>7 DEF StubInv
  <2>10. \A w \in r.stubs : Backed(w)' \/ w \in r.marked
    BY <2>4, <2>5, <2>6, <2>7
  <2>11. ASSUME NEW w \in r.marked PROVE w \in cut' \/ Holds(req.out, w)'
    <3>1. w \in cut' \/ Holds(page, w)
      BY <2>4, <2>5
    <3>2. Holds(req.out, w)' <=> Holds(page, w)
      BY <2>2, <2>4 DEF Holds
    <3> QED BY <3>1, <3>2
  <2> QED BY <2>2, <2>4, <2>8, <2>9, <2>10, <2>11 DEF StubInv
<1>3. CASE ~(req.item < Len(req.items))
  <2>1. /\ Deliver /\ req' = None
        /\ stubbed' = req.stubs \/ (Stubbed /\ stubbed' = req.stubs \union {ItemWindow})
    BY <1>3 DEF AppendItem
  <2> QED BY <1>1, <2>1, DeliveredStubs
<1> QED BY <1>2, <1>3

LEMMA NextStubs ==
    ASSUME TypeInv, StubInv, [Next]_vars
    PROVE  StubInv'
<1>1. CASE \E e \in Epochs, force \in BOOLEAN, i \in Items, spilled \in BOOLEAN :
             ReadWindow(e, i, force, spilled)
  BY <1>1, ReadWindowStubs
<1>2. CASE \E e \in Epochs, force \in BOOLEAN, items \in Batches : StartBatch(e, items, force)
  <2>1. /\ req = None /\ req'.marked = {} /\ req'.stubs = {}
        /\ UNCHANGED <<ledger, received, cut, stubbed>>
    BY <1>2 DEF StartBatch
  <2> QED BY <2>1, FreshStubs
<1>3. CASE ContinueBatch
  <2>1. /\ req = None /\ req'.marked = {} /\ req'.stubs = {}
        /\ UNCHANGED <<ledger, received, cut, stubbed>>
    BY <1>3 DEF ContinueBatch
  <2> QED BY <2>1, FreshStubs
<1>4. CASE FailBatch
  BY <1>4, FailBatchStubs
<1>5. CASE AppendItem
  BY <1>5, AppendItemStubs
<1>6. CASE CutPage
  <2>1. /\ req # None /\ Readable /\ Remember /\ Deliver /\ req' = None /\ stubbed' = req.stubs
        /\ cut' = IF Partial THEN cut \union {ItemWindow} ELSE cut
    BY <1>6 DEF CutPage
  <2> QED BY <2>1, DeliveredStubs
<1>7. CASE \E p \in Paths, v \in Versions : ToolWrites(p, v)
  <2>1. KeysIn(ledger') \subseteq KeysIn(ledger)
    BY <1>7, ToolWritesTypes
  <2>2. UNCHANGED <<req, received, cut, stubbed>>
    BY <1>7 DEF ToolWrites
  <2> QED BY <2>1, <2>2, OtherStepsStubs
<1>8. CASE (\E p \in Paths, v \in Versions \union {Gone} : OutsideWrites(p, v)) \/ Tick
           \/ UNCHANGED vars
  <2>1. UNCHANGED <<req, ledger, received, cut, stubbed>>
    BY <1>8 DEF OutsideWrites, Tick, vars
  <2> QED BY <2>1, OtherStepsStubs
<1> QED BY <1>1, <1>2, <1>3, <1>4, <1>5, <1>6, <1>7, <1>8 DEF Next, ServeBatch

-----------------------------------------------------------------------------
(* The pages of a forced batch, one after the other. *)

LEMMA NoneIsNoUnit == ASSUME NEW x \in Unit PROVE x # None
  BY NoneAssumption DEF NoneAssumption

\* A forced batch whose item can be read carries some of it if the item fits.
LEMMA ForcedItem ==
    ASSUME TypeInv, BatchInv, steady, req # None, req.force
    PROVE  /\ whole /\ InOrder(req.out, req.items)
           /\ Place(req.items, req.item, req.byte, LastUnit) /\ ~Stubbed
           /\ req.byte = 0 \/ (req.byte \in Nat /\ Version # Gone /\ req.byte < SecLen[Item][Version])
           /\ Readable => Length = SecLen[Item][Version] /\ Carried \in Nat
                          /\ (Carried = 0 => ~Fits)
<1>1. /\ whole /\ InOrder(req.out, req.items)
      /\ Place(req.items, req.item, req.byte, LastUnit)
  BY DEF BatchInv
<1>2. ~Stubbed
  BY DEF Stubbed, Elides
<1>3. req.byte = 0 \/ (req.byte \in Nat /\ Version # Gone /\ req.byte < SecLen[Item][Version])
  BY <1>1, RequestHolds DEF Place, Item, Version
<1>4. ASSUME Readable
      PROVE  Length = SecLen[Item][Version] /\ Carried \in Nat /\ (Carried = 0 => ~Fits)
  <2>1. /\ SecLen[Item][Version] \in Nat \ {0} /\ Length = SecLen[Item][Version]
        /\ Carried \in Nat /\ (Fits => req.byte + Carried = Length)
    BY <1>2, <1>4, ItemHolds
  <2>2. Carried = 0 => ~Fits
    BY <1>3, <2>1
  <2> QED BY <2>1, <2>2
<1> QED BY <1>1, <1>2, <1>3, <1>4

\* The part goes on where the page, or the page before it, left off.
LEMMA PartGoesOn ==
    ASSUME TypeInv, BatchInv, steady, req # None, req.force, Readable, Carried > 0
    PROVE  Follows(LastUnit, Part[1], req.items)
<1>1. Place(req.items, req.item, req.byte, LastUnit)
  BY ForcedItem
<1>2. Carried \in Nat /\ 1 \in 1..Carried
  BY ItemHolds
<1>3. Part[1].at = req.item /\ Part[1].unit = req.byte + 1
  BY <1>2, PartHolds
<1>4. req.item \in Nat /\ req.item > 0 /\ req.byte \in Nat
  BY RequestHolds
<1>5. PICK x : x = LastUnit
  OBVIOUS
<1>6. PICK y : y = Part[1]
  OBVIOUS
<1>7. CASE x = None
  <2>1. req.item = 1 /\ req.byte = 0
    BY <1>1, <1>5, <1>7, NoneIsNoUnit DEF Place
  <2>2. y.at = 1 /\ y.unit = 1
    BY <1>3, <1>6, <2>1
  <2> QED BY <1>5, <1>6, <1>7, <2>2 DEF Follows
<1>8. CASE x # None
  <2>1. \/ x.at = req.item /\ x.unit = req.byte
        \/ req.byte = 0 /\ x.at = req.item - 1 /\ x.unit = SecLen[req.items[req.item - 1]][x.win[3]]
    BY <1>1, <1>5, <1>8 DEF Place
  <2>2. CASE x.at = req.item /\ x.unit = req.byte
    <3>1. y.at = x.at /\ y.unit = x.unit + 1
      BY <1>3, <1>6, <2>2
    <3> QED BY <1>5, <1>6, <1>8, <3>1 DEF Follows
  <2>3. CASE req.byte = 0 /\ x.at = req.item - 1 /\ x.unit = SecLen[req.items[req.item - 1]][x.win[3]]
    <3>1. y.at = x.at + 1 /\ y.unit = 1 /\ x.unit = SecLen[req.items[x.at]][x.win[3]]
      BY <1>3, <1>4, <1>6, <2>3
    <3> QED BY <1>5, <1>6, <1>8, <3>1 DEF Follows
  <2> QED BY <2>1, <2>2, <2>3
<1> QED BY <1>7, <1>8

\* A unit of the part follows the one before it.
LEMMA PartFollows ==
    ASSUME TypeInv, req # None, Readable, NEW m \in 1..Carried, m > 1
    PROVE  Follows(Part[m - 1], Part[m], req.items)
<1>1. Carried \in Nat /\ m - 1 \in 1..Carried /\ req.byte \in Nat
  BY ItemHolds, RequestHolds
<1>2. Part[m - 1] \in Unit
  BY <1>1, PartHolds
<1>3. /\ Part[m - 1].at = req.item /\ Part[m - 1].unit = req.byte + (m - 1)
      /\ Part[m].at = req.item /\ Part[m].unit = req.byte + m
  BY <1>1, PartHolds
<1>4. PICK x : x = Part[m - 1]
  OBVIOUS
<1>5. PICK y : y = Part[m]
  OBVIOUS
<1>6. y.at = x.at /\ y.unit = x.unit + 1
  BY <1>1, <1>3, <1>4, <1>5
<1>7. x # None
  BY <1>2, <1>4, NoneIsNoUnit
<1> QED BY <1>4, <1>5, <1>6, <1>7 DEF Follows

\* The page with the part is in order.
LEMMA PageInOrder ==
    ASSUME TypeInv, BatchInv, steady, req # None, req.force, Readable, NEW page, page = req.out \o Part
    PROVE  InOrder(page, req.items)
<1>1. /\ Len(page) = req.used + Carried /\ \A n \in 1..req.used : page[n] = req.out[n]
      /\ \A n \in 1..Carried : page[req.used + n] = Part[n]
  BY PageHolds
<1>2. req.used \in Nat /\ Len(req.out) = req.used /\ req.out \in Seq(Unit)
  BY RequestHolds, Constants
<1>3. Carried \in Nat
  BY ItemHolds
<1>4. InOrder(req.out, req.items)
  BY ForcedItem
<1> SUFFICES ASSUME NEW n \in 1..Len(page)
             PROVE  Follows(IF n = 1 THEN got ELSE page[n - 1], page[n], req.items)
  BY DEF InOrder
<1>5. CASE n <= req.used
  <2>1. n \in 1..Len(req.out) /\ page[n] = req.out[n] /\ (n # 1 => page[n - 1] = req.out[n - 1])
    BY <1>1, <1>2, <1>5
  <2>2. Follows(IF n = 1 THEN got ELSE req.out[n - 1], req.out[n], req.items)
    BY <1>4, <2>1 DEF InOrder
  <2>3. (IF n = 1 THEN got ELSE page[n - 1]) = (IF n = 1 THEN got ELSE req.out[n - 1])
    BY <2>1
  <2> QED BY <2>1, <2>2, <2>3
<1>6. CASE n > req.used
  <2>1. PICK m \in 1..Carried : n = req.used + m
    <3>1. n - req.used \in 1..Carried /\ n = req.used + (n - req.used)
      BY <1>1, <1>2, <1>3, <1>6
    <3> QED BY <3>1
  <2>2. page[n] = Part[m]
    BY <1>1, <2>1
  <2>3. CASE m = 1
    <3>1. (IF n = 1 THEN got ELSE page[n - 1]) = LastUnit
      <4>1. CASE req.used = 0
        BY <1>2, <2>1, <2>3, <4>1 DEF LastUnit, LastOf
      <4>2. CASE req.used > 0
        <5>1. n # 1 /\ n - 1 = req.used /\ req.used \in 1..req.used /\ req.out # <<>>
          BY <1>2, <2>1, <2>3, <4>2
        <5> QED BY <1>1, <1>2, <5>1 DEF LastUnit, LastOf
      <4>3. req.used = 0 \/ req.used > 0
        BY <1>2
      <4> QED BY <4>1, <4>2, <4>3
    <3>2. Follows(LastUnit, Part[1], req.items)
      BY <1>3, <2>1, PartGoesOn
    <3> QED BY <2>2, <2>3, <3>1, <3>2
  <2>4. CASE m > 1
    <3>1. n # 1 /\ m - 1 \in 1..Carried /\ n - 1 = req.used + (m - 1)
      BY <1>2, <1>3, <2>1, <2>4
    <3>2. page[n - 1] = Part[m - 1]
      BY <1>1, <3>1
    <3>3. Follows(Part[m - 1], Part[m], req.items)
      BY <2>4, PartFollows
    <3>4. (IF n = 1 THEN got ELSE page[n - 1]) = Part[m - 1]
      BY <3>1, <3>2
    <3> QED BY <2>2, <3>3, <3>4
  <2>5. m = 1 \/ m > 1
    BY <1>3
  <2> QED BY <2>3, <2>4, <2>5
<1>7. n <= req.used \/ n > req.used
  BY <1>2
<1> QED BY <1>5, <1>6, <1>7

\* The last unit of the page with the part.
LEMMA LastOfPage ==
    ASSUME TypeInv, req # None, Readable, NEW page, page = req.out \o Part
    PROVE  /\ Carried > 0 => /\ LastOf(page) \in Unit /\ LastOf(page).at = req.item
                             /\ LastOf(page).unit = req.byte + Carried
                             /\ LastOf(page).win = ItemWindow
           /\ Carried = 0 => LastOf(page) = LastUnit
<1>0. PICK last : last = LastOf(page)
  OBVIOUS
<1>1. /\ page \in Seq(Unit) /\ Len(page) = req.used + Carried
      /\ \A n \in 1..req.used : page[n] = req.out[n]
      /\ \A n \in 1..Carried : page[req.used + n] = Part[n]
  BY PageHolds
<1>2. req.used \in Nat /\ Len(req.out) = req.used /\ req.out \in Seq(Unit)
  BY RequestHolds, Constants
<1>3. Carried \in Nat
  BY ItemHolds
<1>4. ASSUME Carried > 0
      PROVE  /\ last \in Unit /\ last.at = req.item
             /\ last.unit = req.byte + Carried /\ last.win = ItemWindow
  <2>1. Carried \in 1..Carried /\ page # <<>> /\ Len(page) = req.used + Carried
    BY <1>1, <1>2, <1>3, <1>4
  <2>2. last = Part[Carried]
    BY <1>0, <1>1, <2>1 DEF LastOf
  <2>3. Part \in Seq(Unit) /\ Len(Part) = Carried
    BY PartHolds
  <2>4. Part[Carried] \in Unit
    BY <2>1, <2>3
  <2>5. /\ Part[Carried].at = req.item /\ Part[Carried].unit = req.byte + Carried
        /\ Part[Carried].win = ItemWindow
    BY <2>1, PartHolds
  <2> QED BY <2>2, <2>4, <2>5
<1>5. ASSUME Carried = 0
      PROVE  last = LastUnit
  <2>1. CASE req.used = 0
    <3>1. page = <<>> /\ req.out = <<>>
      BY <1>1, <1>2, <1>5, <2>1
    <3> QED BY <1>0, <3>1 DEF LastUnit, LastOf
  <2>2. CASE req.used > 0
    <3>1. page # <<>> /\ req.out # <<>> /\ Len(page) = req.used /\ req.used \in 1..req.used
      BY <1>1, <1>2, <1>5, <2>2
    <3> QED BY <1>0, <1>1, <1>2, <3>1 DEF LastUnit, LastOf
  <2> QED BY <1>2, <2>1, <2>2
<1> QED BY <1>0, <1>4, <1>5

\* After a page has been delivered: whole so far, and the last unit of the page is the last received.
LEMMA ForcedDelivery ==
    ASSUME TypeInv, BatchInv, steady, req # None, req.force, Readable, Deliver
    PROVE  /\ whole'
           /\ Carried > 0 => /\ got' \in Unit /\ got'.at = req.item
                             /\ got'.unit = req.byte + Carried /\ got'.win = ItemWindow
           /\ Carried = 0 => got' = LastUnit
<1>1. PICK page : page = req.out \o Part
  OBVIOUS
<1>2. got' = LastOf(page) /\ whole' = (whole /\ InOrder(page, req.items))
  BY <1>1 DEF Deliver, InOrder, LastOf
<1>3. whole /\ InOrder(page, req.items)
  BY <1>1, ForcedItem, PageInOrder
<1>4. Carried > 0 => /\ LastOf(page) \in Unit /\ LastOf(page).at = req.item
                     /\ LastOf(page).unit = req.byte + Carried
                     /\ LastOf(page).win = ItemWindow
  BY <1>1, LastOfPage
<1>5. Carried = 0 => LastOf(page) = LastUnit
  BY <1>1, LastOfPage
<1>6. PICK last : last = LastOf(page)
  OBVIOUS
<1> QED BY <1>2, <1>3, <1>4, <1>5, <1>6

LEMMA InitBatch == Init => BatchInv
  BY DEF Init, BatchInv

\* A batch that starts is at its first unit; one that goes on is where its cursor says.
LEMMA StartBatchOrder ==
    ASSUME NEW e \in Epochs, NEW items \in Batches, NEW force \in BOOLEAN, StartBatch(e, items, force)
    PROVE  BatchInv'
<1>1. PICK r : r = [epoch |-> e, items |-> items, force |-> force, item |-> 1, byte |-> 0,
                    used |-> 0, out |-> <<>>, marked |-> {}, stubs |-> {}]
  OBVIOUS
<1>2. req' = r /\ cursor' = None /\ got' = None /\ whole'
  BY <1>1 DEF StartBatch
<1>3. r.out = <<>> /\ r.item = 1 /\ r.byte = 0
  BY <1>1
<1>4. InOrder(req.out, req.items)' /\ LastUnit' = None
  BY <1>2, <1>3 DEF InOrder, LastUnit, LastOf
<1>5. Place(req.items, req.item, req.byte, LastUnit)'
  BY <1>2, <1>3, <1>4 DEF Place
<1> QED BY <1>2, <1>4, <1>5 DEF BatchInv

LEMMA ContinueBatchOrder ==
    ASSUME TypeInv, BatchInv, ContinueBatch
    PROVE  BatchInv'
<1>1. /\ req' # None /\ req'.out = <<>> /\ req'.items = cursor.items /\ req'.item = cursor.item
      /\ req'.byte = cursor.byte /\ req'.force = cursor.force
  BY ContinueBatchTypes
<1>2. req = None /\ cursor # None /\ UNCHANGED <<file, got, whole, steady>>
  BY DEF ContinueBatch, world
<1> SUFFICES ASSUME steady', req'.force
             PROVE  /\ whole' /\ InOrder(req.out, req.items)'
                    /\ Place(req.items, req.item, req.byte, LastUnit)'
  BY <1>1 DEF BatchInv
<1>3. whole /\ Place(cursor.items, cursor.item, cursor.byte, got)
  BY <1>1, <1>2 DEF BatchInv
<1>4. InOrder(req.out, req.items)' /\ LastUnit' = got
  BY <1>1, <1>2 DEF InOrder, LastUnit, LastOf
<1>5. Place(req.items, req.item, req.byte, LastUnit)'
  BY <1>1, <1>2, <1>3, <1>4 DEF Place, Unit, Windows
<1> QED BY <1>2, <1>3, <1>4, <1>5

\* An item that is not the last leaves the batch at the next.
LEMMA AppendItemOrder ==
    ASSUME TypeInv, BatchInv, AppendItem
    PROVE  BatchInv'
<1>1. /\ req # None /\ Readable /\ Fits /\ UNCHANGED <<file, steady>>
  BY DEF AppendItem, world
<1>2. CASE ~(req.item < Len(req.items))
  BY <1>2 DEF AppendItem, BatchInv
<1>3. CASE req.item < Len(req.items)
  <2>1. PICK r : r = [req EXCEPT !.item = req.item + 1, !.byte = 0,
                        !.used = req.used + Carried, !.out = req.out \o Part,
                        !.marked = IF Stubbed THEN @ ELSE @ \cup {ItemWindow},
                        !.stubs = IF Stubbed THEN @ \cup {ItemWindow} ELSE @]
    OBVIOUS
  <2>2. req' = r /\ UNCHANGED <<got, whole>>
    BY <1>3, <2>1 DEF AppendItem
  <2>3. PICK page : page = req.out \o Part
    OBVIOUS
  <2>4. /\ r # None /\ r.item = req.item + 1 /\ r.byte = 0 /\ r.items = req.items
        /\ r.force = req.force /\ r.out = page
    BY <1>1, <1>3, <2>1, <2>3, NextItem
  <2>5. ASSUME steady', r.force
        PROVE  /\ whole' /\ InOrder(req.out, req.items)'
               /\ Place(req.items, req.item, req.byte, LastUnit)'
    <3>1. steady /\ req.force
      BY <1>1, <2>4, <2>5
    <3>2. whole /\ Length = SecLen[Item][Version] /\ Carried \in Nat /\ Carried > 0
      BY <1>1, <3>1, ForcedItem
    <3>3. InOrder(page, req.items)
      BY <1>1, <2>3, <3>1, PageInOrder
    <3>4. InOrder(req.out, req.items)'
      BY <2>2, <2>4, <3>3 DEF InOrder, Follows
    <3>5. PICK last : last = LastOf(page)
      OBVIOUS
    <3>6. LastUnit' = last
      BY <2>2, <2>4, <3>5 DEF LastUnit, LastOf
    <3>7. /\ last \in Unit /\ last.at = req.item
          /\ last.unit = req.byte + Carried /\ last.win = ItemWindow
      BY <1>1, <2>3, <3>2, <3>5, LastOfPage
    <3>8. /\ req.byte + Carried = Length /\ ItemWindow = <<req.epoch, Item, Version>>
      BY <1>1, ItemHolds
    <3>9. last.unit = SecLen[req.items[req.item]][last.win[3]]
      BY <3>2, <3>7, <3>8 DEF Item
    <3>10. req.item \in Nat /\ req.item > 0 /\ r.item > 1 /\ r.item - 1 = req.item
      BY <1>1, <2>4, RequestHolds
    <3>11. Place(req.items, req.item, req.byte, LastUnit)'
      BY <2>2, <2>4, <3>6, <3>7, <3>9, <3>10 DEF Place, Unit, Windows
    <3> QED BY <2>2, <3>2, <3>4, <3>11
  <2> QED BY <2>2, <2>4, <2>5 DEF BatchInv
<1> QED BY <1>2, <1>3

\* The cursor of a page that is cut names the unit after the last of the page.
LEMMA CutPageOrder ==
    ASSUME TypeInv, BatchInv, CutPage
    PROVE  BatchInv'
<1>1. /\ req # None /\ Readable /\ ~Fits /\ Deliver /\ req' = None /\ UNCHANGED <<file, steady>>
  BY DEF CutPage, world
<1>2. PICK q \in BOOLEAN : q <=> Stubbed
  OBVIOUS
<1>3. PICK byte : byte = req.byte + Carried
  OBVIOUS
<1>4. cursor' = [epoch |-> req.epoch, items |-> req.items, force |-> req.force,
                 item |-> req.item, byte |-> byte, instub |-> q]
  BY <1>2, <1>3 DEF CutPage, NextByte
<1>5. /\ cursor'.items = req.items /\ cursor'.force = req.force /\ cursor'.item = req.item
      /\ cursor'.byte = byte
  BY <1>4
<1> SUFFICES ASSUME steady', cursor'.force
             PROVE  whole' /\ Place(cursor.items, cursor.item, cursor.byte, got)'
  BY <1>1 DEF BatchInv
<1>6. steady /\ req.force
  BY <1>1, <1>5
<1>7. /\ Place(req.items, req.item, req.byte, LastUnit)
      /\ Length = SecLen[Item][Version] /\ Carried \in Nat
  BY <1>1, <1>6, ForcedItem
<1>8. whole' /\ (Carried = 0 => got' = LastUnit)
  BY <1>1, <1>6, ForcedDelivery
<1>9. Carried > 0 => got' \in Unit /\ got'.at = req.item /\ got'.unit = req.byte + Carried
  BY <1>1, <1>6, ForcedDelivery
<1>10. req.byte + Carried < Length /\ req.byte \in Nat
  BY <1>1, ItemHolds, RequestHolds
<1>11. CASE Carried = 0
  <2>1. byte = req.byte
    BY <1>3, <1>10, <1>11
  <2>2. got' = LastUnit
    BY <1>8, <1>11
  <2>3. Place(cursor.items, cursor.item, cursor.byte, got)' <=> Place(req.items, req.item, req.byte, LastUnit)
    BY <1>1, <1>5, <2>1, <2>2 DEF Place, Unit, Windows
  <2> QED BY <1>7, <1>8, <2>3
<1>12. CASE Carried > 0
  <2>1. byte > 0 /\ byte < SecLen[req.items[req.item]][file[PathOf[req.items[req.item]]]]
    <3>1. byte > 0 /\ byte < SecLen[Item][Version]
      BY <1>3, <1>7, <1>10, <1>12
    <3> QED BY <3>1 DEF Item, Version
  <2>2. file[PathOf[req.items[req.item]]] # Gone
    BY <1>1 DEF Readable, Item, Version
  <2>3. got' \in Unit /\ got'.at = req.item /\ got'.unit = byte
    BY <1>3, <1>9, <1>12
  <2>4. Place(cursor.items, cursor.item, cursor.byte, got)'
    BY <1>1, <1>5, <2>1, <2>2, <2>3 DEF Place, Unit, Windows
  <2> QED BY <1>8, <2>4
<1> QED BY <1>7, <1>11, <1>12

LEMMA NextOrder ==
    ASSUME TypeInv, BatchInv, [Next]_vars
    PROVE  BatchInv'
<1>1. CASE \E e \in Epochs, force \in BOOLEAN, items \in Batches : StartBatch(e, items, force)
  BY <1>1, StartBatchOrder
<1>2. CASE ContinueBatch
  BY <1>2, ContinueBatchOrder
<1>3. CASE FailBatch
  BY <1>3 DEF FailBatch, BatchInv
<1>4. CASE AppendItem
  BY <1>4, AppendItemOrder
<1>5. CASE CutPage
  BY <1>5, CutPageOrder
<1>6. CASE \E p \in Paths : (\E v \in Versions : ToolWrites(p, v))
                            \/ (\E v \in Versions \cup {Gone} : OutsideWrites(p, v))
  BY <1>6 DEF ToolWrites, OutsideWrites, BatchInv
<1>7. CASE (\E e \in Epochs, force \in BOOLEAN, i \in Items, spilled \in BOOLEAN :
              ReadWindow(e, i, force, spilled)) \/ Tick \/ UNCHANGED vars
  <2>1. UNCHANGED <<file, req, cursor, got, whole, steady>>
    <3>1. CASE \E e \in Epochs, force \in BOOLEAN, i \in Items, spilled \in BOOLEAN :
                 ReadWindow(e, i, force, spilled)
      BY <3>1 DEF ReadWindow, world
    <3>2. CASE Tick
      BY <3>2 DEF Tick, client
    <3>3. CASE UNCHANGED vars
      BY <3>3 DEF vars
    <3> QED BY <1>7, <3>1, <3>2, <3>3
  <2>2. LastUnit' = LastUnit
    BY <2>1 DEF LastUnit, LastOf
  <2>3. InOrder(req.out, req.items)' <=> InOrder(req.out, req.items)
    BY <2>1 DEF InOrder, Follows
  <2>4. Place(req.items, req.item, req.byte, LastUnit)'
          <=> Place(req.items, req.item, req.byte, LastUnit)
    BY <2>1, <2>2 DEF Place, Unit, Windows
  <2>5. Place(cursor.items, cursor.item, cursor.byte, got)'
          <=> Place(cursor.items, cursor.item, cursor.byte, got)
    BY <2>1 DEF Place, Unit, Windows
  <2> QED BY <2>1, <2>3, <2>4, <2>5 DEF BatchInv
<1> QED BY <1>1, <1>2, <1>3, <1>4, <1>5, <1>6, <1>7 DEF Next, ServeBatch

-----------------------------------------------------------------------------
(* What each step promises. *)

\* The ledger, where it changes beside a write to a file, has been used.
LEMMA UseLeavesAlive ==
    ASSUME TypeInv, [Next]_vars
    PROVE  ledger' # ledger => \/ file' # file
                               \/ \A n \in 1..Len(ledger') : ledger'[n].expires > now
<1> SUFFICES ASSUME ledger' # ledger, file' = file
             PROVE  Alive(ledger', now)
  BY DEF Alive
<1>1. CASE \E e \in Epochs, force \in BOOLEAN, i \in Items, spilled \in BOOLEAN :
             ReadWindow(e, i, force, spilled)
  BY <1>1, ReadWindowTypes
<1>2. CASE \E e \in Epochs, force \in BOOLEAN, items \in Batches : StartBatch(e, items, force)
  BY <1>2 DEF StartBatch
<1>3. CASE ContinueBatch \/ FailBatch
  BY <1>3 DEF ContinueBatch, FailBatch
<1>4. CASE AppendItem \/ CutPage
  <2>1. req # None /\ Readable /\ Remember
    BY <1>4 DEF AppendItem, CutPage
  <2> QED BY <2>1, RememberKeeps
<1>5. CASE \E p \in Paths, v \in Versions : ToolWrites(p, v)
  BY <1>5, ToolWritesTypes
<1>6. CASE (\E p \in Paths, v \in Versions \union {Gone} : OutsideWrites(p, v)) \/ Tick
           \/ UNCHANGED vars
  BY <1>6 DEF OutsideWrites, Tick, vars
<1> QED BY <1>1, <1>2, <1>3, <1>4, <1>5, <1>6 DEF Next, ServeBatch

\* A forced batch that ends, and was not failed by a missing file, has been received whole.
LEMMA EndIsWhole ==
    ASSUME TypeInv, BatchInv, [Next]_vars
    PROVE  (req # None /\ req' = None /\ cursor' = None /\ req.force /\ steady
              /\ \A n \in 1..Len(req.items) : file[PathOf[req.items[n]]] # Gone)
           => got' # None /\ whole' /\ got'.at = Len(req.items)
              /\ got'.unit = SecLen[got'.win[2]][got'.win[3]]
<1> SUFFICES ASSUME req # None, req' = None, cursor' = None, req.force, steady,
                    \A n \in 1..Len(req.items) : file[PathOf[req.items[n]]] # Gone
             PROVE  got' # None /\ whole' /\ got'.at = Len(req.items)
                    /\ got'.unit = SecLen[got'.win[2]][got'.win[3]]
  OBVIOUS
<1>1. CASE FailBatch
  <2>1. Version # Gone
    BY RequestHolds DEF Version, Item
  <2>2. req.byte > Length \/ ~(req.byte <= Length)
    BY <1>1, <2>1 DEF FailBatch, Readable
  <2>3. ~Stubbed /\ (req.byte = 0 \/ (req.byte \in Nat /\ req.byte < SecLen[Item][Version]))
    BY ForcedItem
  <2>4. PathOf[Item] \in Paths /\ Item \in Items
    BY RequestHolds, Constants
  <2>5. Version \in Versions
    BY <2>1, <2>4 DEF Version, TypeInv
  <2>6. SecLen[Item][Version] \in Nat \ {0} /\ Length = SecLen[Item][Version]
    BY <2>3, <2>4, <2>5, Constants DEF Length
  <2> QED BY <2>2, <2>3, <2>6
<1>2. CASE AppendItem
  <2>1. Readable /\ Fits
    BY <1>2 DEF AppendItem
  <2>2. Deliver /\ ~(req.item < Len(req.items))
    <3>1. CASE req.item < Len(req.items)
      <4>1. PICK r : r = [req EXCEPT !.item = req.item + 1, !.byte = 0,
                            !.used = req.used + Carried, !.out = req.out \o Part,
                            !.marked = IF Stubbed THEN @ ELSE @ \cup {ItemWindow},
                            !.stubs = IF Stubbed THEN @ \cup {ItemWindow} ELSE @]
        OBVIOUS
      <4>2. req' = r
        BY <1>2, <3>1, <4>1 DEF AppendItem
      <4>3. r # None
        BY <2>1, <3>1, <4>1, NextItem
      <4> QED BY <4>2, <4>3
    <3> QED BY <1>2, <3>1 DEF AppendItem
  <2>3. Length = SecLen[Item][Version] /\ Carried \in Nat /\ Carried > 0
    BY <2>1, ForcedItem
  <2>4. /\ whole' /\ got' \in Unit /\ got'.at = req.item
        /\ got'.unit = req.byte + Carried /\ got'.win = ItemWindow
    BY <2>1, <2>2, <2>3, ForcedDelivery
  <2>5. req.byte + Carried = Length /\ ItemWindow = <<req.epoch, Item, Version>>
    BY <2>1, ItemHolds
  <2>6. got'.unit = SecLen[got'.win[2]][got'.win[3]]
    BY <2>3, <2>4, <2>5
  <2>7. req.item = Len(req.items)
    BY <2>2, RequestHolds
  <2>8. got' # None
    BY <2>4, NoneIsNoUnit DEF Unit, Windows
  <2> QED BY <2>4, <2>6, <2>7, <2>8
<1>3. CASE CutPage
  <2>1. PICK q \in BOOLEAN : q <=> Stubbed
    OBVIOUS
  <2>2. PICK byte : byte = req.byte + Carried
    OBVIOUS
  <2>3. /\ Readable
        /\ cursor' = [epoch |-> req.epoch, items |-> req.items, force |-> req.force,
                      item |-> req.item, byte |-> byte, instub |-> q]
    BY <1>3, <2>1, <2>2 DEF CutPage, NextByte
  <2>4. /\ req.epoch \in Epochs /\ req.items \in Batches /\ req.force \in BOOLEAN
        /\ req.item \in Nat /\ byte \in Nat
    BY <2>2, <2>3, RequestHolds, ItemHolds
  <2>5. cursor' \in Cursor
    BY <2>1, <2>3, <2>4 DEF Cursor
  <2> QED BY <2>5, NoneAssumption DEF NoneAssumption
<1>4. CASE (\E e \in Epochs, force \in BOOLEAN :
              \/ \E i \in Items, spilled \in BOOLEAN : ReadWindow(e, i, force, spilled)
              \/ \E items \in Batches : StartBatch(e, items, force)) \/ ContinueBatch
  BY <1>4 DEF ReadWindow, StartBatch, ContinueBatch
<1>5. CASE (\E p \in Paths : (\E v \in Versions : ToolWrites(p, v))
                             \/ (\E v \in Versions \cup {Gone} : OutsideWrites(p, v)))
           \/ Tick \/ UNCHANGED vars
  <2>1. req' = req
    BY <1>5 DEF ToolWrites, OutsideWrites, Tick, vars
  <2> QED BY <2>1
<1> QED BY <1>1, <1>2, <1>3, <1>4, <1>5 DEF Next, ServeBatch

-----------------------------------------------------------------------------
(* The theorems. *)

\* The inductive invariant of the read lane: the types, with the ledger in order; a stub
\* stands for bytes received, or in the page that is being put together, or for a window that was
\* marked without being carried whole; and a forced batch is where its pages left off.
THEOREM ReadInvHolds == Spec => [](TypeInv /\ StubInv /\ BatchInv)
<1>1. Init => TypeInv /\ StubInv /\ BatchInv
  BY InitTypes, InitStubs, InitBatch
<1>2. (TypeInv /\ StubInv /\ BatchInv) /\ [Next]_vars => (TypeInv /\ StubInv /\ BatchInv)'
  BY NextTypes, NextStubs, NextOrder
<1> QED BY <1>1, <1>2, PTL DEF Spec

\* Types, the read budget on every page, and requests and cursors that name an item of their list.
THEOREM TypeCorrect == Spec => []TypeOK
<1>1. TypeInv => TypeOK
  <2> SUFFICES ASSUME TypeInv PROVE TypeOK
    OBVIOUS
  <2>1. ASSUME NEW n \in 1..Len(ledger)
        PROVE  ledger[n] \in [key: Windows, expires: 1..(MaxTime + TTL), delivered: 0..Budget]
    <3>1. ledger \in Seq(EntryAt(now)) /\ now \in 0..MaxTime
      BY DEF TypeInv, LedgerAt
    <3>2. ledger[n] \in EntryAt(now)
      BY <2>1, <3>1
    <3>3. \A x \in 1..(now + TTL) : x \in 1..(MaxTime + TTL)
      BY <3>1, Constants
    <3> QED BY <3>2, <3>3 DEF EntryAt
  <2>2. req # None => req \in Request /\ req.item <= Len(req.items) /\ Len(req.out) = req.used
    <3> SUFFICES ASSUME req # None
                 PROVE  req \in Request /\ req.item <= Len(req.items) /\ Len(req.out) = req.used
      OBVIOUS
    <3>1. req \in Request /\ Len(req.out) = req.used
      BY DEF TypeInv
    <3> QED BY <3>1, RequestHolds
  <2>3. cursor # None => cursor \in Cursor /\ cursor.item <= Len(cursor.items)
    <3> SUFFICES ASSUME cursor # None
                 PROVE  cursor \in Cursor /\ cursor.item <= Len(cursor.items)
      OBVIOUS
    <3>1. cursor \in Cursor /\ cursor.item \in 1..Len(cursor.items)
      BY DEF TypeInv
    <3>2. cursor.items \in Seq(Items)
      BY <3>1, ReadAssumption DEF ReadAssumption, Cursor
    <3> QED BY <3>1, <3>2
  <2> QED BY <2>1, <2>2, <2>3 DEF TypeInv, TypeOK
<1> QED BY <1>1, ReadInvHolds, PTL

\* The LRU list is in order of last use, has one entry for a key, and no more than its capacity.
THEOREM LedgerStaysOrdered == Spec => []LedgerOrdered
<1>1. TypeInv => LedgerOrdered
  BY DEF TypeInv, LedgerAt, Ordered, LedgerOrdered
<1> QED BY <1>1, ReadInvHolds, PTL

\* A use of the ledger, by a read or by an item of a batch, leaves no entry that has expired.
THEOREM UsesLeaveOnlyAlive == Spec => NoExpiredAfterUse
<1>1. TypeInv /\ [Next]_vars => [ledger' # ledger =>
         \/ file' # file
         \/ \A n \in 1..Len(ledger') : ledger'[n].expires > now]_vars
  BY UseLeavesAlive
<1> QED BY <1>1, ReadInvHolds, PTL DEF Spec, NoExpiredAfterUse

\* A stub stands for bytes the caller has received, or for a window an answer marked without
\* carrying it whole.
THEOREM StubsAreBacked == Spec => []StubBackedUnlessCut
<1>1. StubInv => StubBackedUnlessCut
  BY DEF StubInv, Backed, StubBackedUnlessCut
<1> QED BY <1>1, ReadInvHolds, PTL

\* The pages of a forced batch under which no file changes are its sections, every unit once.
THEOREM ForcedBatchesAreWhole == Spec => ForcedBatchWhole
<1>1. TypeInv /\ BatchInv /\ [Next]_vars
      => [(req # None /\ req' = None /\ cursor' = None /\ req.force /\ steady
          /\ \A n \in 1..Len(req.items) : file[PathOf[req.items[n]]] # Gone)
         => got' # None /\ whole' /\ got'.at = Len(req.items)
            /\ got'.unit = SecLen[got'.win[2]][got'.win[3]]]_vars
  BY EndIsWhole
<1> QED BY <1>1, ReadInvHolds, PTL DEF Spec, ForcedBatchWhole
=============================================================================
