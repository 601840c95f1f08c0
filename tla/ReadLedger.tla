----------------------------- MODULE ReadLedger -----------------------------
(***************************************************************************)
(* readcache.Ledger: which windows a caller already holds.  The ledger is  *)
(* the LRU list itself, most recently used entry first; the Go map from    *)
(* key to list element is the lookup PositionOf.  Every operation holds    *)
(* the ledger's mutex for its whole body, so each is one function of the   *)
(* list, the key and the time.                                             *)
(***************************************************************************)
EXTENDS Integers, Sequences, FiniteSets

CONSTANTS TTL,       \* lifetime of an entry since its last use
          Capacity   \* entries kept

ASSUME LedgerAssumption == TTL \in Nat \ {0} /\ Capacity \in Nat \ {0}

Positions(l, k) == {i \in 1..Len(l) : l[i].key = k}
Without(l, i)   == SubSeq(l, 1, i - 1) \o SubSeq(l, i + 1, Len(l))
Clipped(l)      == SubSeq(l, 1, IF Len(l) < Capacity THEN Len(l) ELSE Capacity)

\* expire walks from the back and stops at the first entry still alive.
ExpireAtDeadline(l, now) ==                                     \* mutant
    LET alive == {i \in 1..Len(l) : l[i].expires >= now}
    IN  SubSeq(l, 1, CHOOSE n \in {0} \cup alive : \A i \in alive : i <= n)
Expire(l, now) ==
    LET alive == {i \in 1..Len(l) : l[i].expires > now}
    IN  SubSeq(l, 1, CHOOSE n \in {0} \cup alive : \A i \in alive : i <= n)

\* The entry of k, alive or new, moves to the front with a new lifetime.
RefreshInPlace(l, k, now, size) ==                              \* mutant
    IF Positions(l, k) # {}
    THEN [i \in 1..Len(l) |-> IF l[i].key = k
             THEN [key |-> k, expires |-> now + TTL, delivered |-> size] ELSE l[i]]
    ELSE Clipped(<<[key |-> k, expires |-> now + TTL, delivered |-> size]>> \o l)
ToFront(l, k, now, size) ==
    LET rest == IF Positions(l, k) = {} THEN l
                ELSE Without(l, CHOOSE i \in Positions(l, k) : TRUE)
    IN  Clipped(<<[key |-> k, expires |-> now + TTL, delivered |-> size]>> \o rest)

Known(l, k, now) == Positions(Expire(l, now), k) # {}
SizeOf(l, k) == IF Positions(l, k) = {} THEN 0
                ELSE l[CHOOSE i \in Positions(l, k) : TRUE].delivered

\* ShouldElide marks the key whether or not it was known; force only changes the
\* answer.
Elides(l, k, now, force) == Known(l, k, now) /\ ~force
Marked(l, k, now) ==
    LET live == Expire(l, now) IN ToFront(live, k, now, SizeOf(live, k))

\* RecordDelivery is an upsert; a delivery of nothing is not recorded.
Recorded(l, k, now, size) ==
    IF size <= 0 THEN l ELSE ToFront(Expire(l, now), k, now, size)

\* Invalidate drops every entry of a path, whatever its epoch and window, and
\* leaves the others in their order; stale is the set of the path's keys.
Rank(kept, i) == Cardinality({j \in kept : j <= i})
Invalidated(l, stale) ==
    LET kept == {i \in 1..Len(l) : l[i].key \notin stale}
    IN  [n \in 1..Cardinality(kept) |-> l[CHOOSE i \in kept : Rank(kept, i) = n]]
=============================================================================
