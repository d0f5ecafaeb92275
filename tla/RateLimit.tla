------------------------------ MODULE RateLimit -----------------------------
(***************************************************************************)
(* FixedWindowRateLimiter (src/cmdboss/ratelimit.py), as a function of the *)
(* buckets of one process: each principal that has one, with the time its  *)
(* window began and the hits in it, refused ones included.                 *)
(***************************************************************************)
EXTENDS Naturals, FiniteSets

CONSTANTS Limit,   \* rate_limit_requests
          Window,  \* rate_limit_window_seconds
          MaxKeys  \* buckets kept before stale ones are evicted

ASSUME LimiterAssumption == Limit \in Nat \ {0} /\ Window \in Nat \ {0} /\ MaxKeys \in Nat

NoBuckets == [p \in {} |-> [start |-> 0, count |-> 0]]

(* Fault: the window is over only after its last moment.                   *)
OverLate(bucket, now) == now - bucket.start > Window

Over(bucket, now) == now - bucket.start >= Window

(* The bucket of p once a hit of p at time now has been counted.           *)
Counted(buckets, p, now) ==
  IF p \in DOMAIN buckets /\ ~Over(buckets[p], now)
    THEN [buckets[p] EXCEPT !.count = @ + 1]
    ELSE [start |-> now, count |-> 1]

(* Fault: too many buckets are made room for by dropping any others.       *)
KeptOnlyNew(buckets, p, now) == {p}

(* The principals whose buckets stay: _evict takes the stale ones.         *)
Kept(buckets, p, now) ==
  LET all == DOMAIN buckets \cup {p}
  IN  IF Cardinality(all) > MaxKeys
        THEN {q \in all : q = p \/ ~Over(buckets[q], now)}
        ELSE all

(* check: the buckets after the hit, whether it is allowed, and otherwise  *)
(* for how long the client should wait, to the moment.  The answer's       *)
(* header rounds that up; its body, to hundredths of a second.             *)
Check(buckets, p, now) ==
  LET mine == Counted(buckets, p, now)
  IN  [buckets |-> [q \in Kept(buckets, p, now) |-> IF q = p THEN mine ELSE buckets[q]],
       allowed |-> mine.count <= Limit,
       retryAfter |-> Window - (now - mine.start)]
=============================================================================
