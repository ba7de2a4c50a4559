---------------------------- MODULE SiteRateLimiter ----------------------------
(***************************************************************************)
(* persistentSiteAPIRateLimiter of internal/service/site_rate_limiter.go:  *)
(* the requests to a tracker's API that it has let through, counted in     *)
(* one setting per bucket, as Unix seconds.                                *)
(*                                                                         *)
(* Allow runs under one mutex, so it is one step; its writes may fail one  *)
(* by one, and the settings survive a restart, which is no step for that   *)
(* reason.  Time is counted in parts of a second, since requests do not    *)
(* come on the second; the clock is never set back.                        *)
(***************************************************************************)
EXTENDS Integers, Sequences, FiniteSets

CONSTANTS
  Endpoints,        \* the operations of the API
  BucketsOf,        \* the buckets that count each, in order
  Quota, Window,    \* Limit and Window, in seconds, of each bucket
  PartsOfSecond,    \* bound: the moments told apart in a second
  LastSecond        \* bound: the last second of a behaviour

Buckets == DOMAIN Quota

ASSUME RateAssumption ==
  /\ \A e \in Endpoints : BucketsOf[e] \in Seq(Buckets)
  /\ \A b \in Buckets : Quota[b] \in Nat \ {0} /\ Window[b] \in Nat \ {0}
  /\ PartsOfSecond \in Nat \ {0} /\ LastSecond \in Nat

VARIABLES
  rateClock,   \* the time, in parts of a second
  stamps,      \* the setting of each bucket
  admitted     \* history: when the requests each bucket counts were let through

RateVars == <<rateClock, stamps, admitted>>

RateTypeOK ==
  /\ rateClock \in Nat
  /\ stamps \in [Buckets -> Seq(Nat)]
  /\ admitted \in [Buckets -> Seq(Nat)]

RateInit ==
  /\ rateClock = 0
  /\ stamps = [b \in Buckets |-> <<>>]
  /\ admitted = [b \in Buckets |-> <<>>]

Second == rateClock \div PartsOfSecond

(* What is left of the stamps of bucket b without those up to a second:    *)
(* they are in order, so that those come first.                            *)
StampsAfter(b, second) ==
  SubSeq(stamps[b], Cardinality({i \in DOMAIN stamps[b] : stamps[b][i] <= second}) + 1, Len(stamps[b]))

(* Variant: an entry is forgotten a second too early. *)
PrunedEarly(b) == StampsAfter(b, Second - Window[b] + 1)

(* pruneSiteAPIRateTimestamps, for stamps that are not in the future; the  *)
(* clock is never set back, so that the sort at its end changes nothing.   *)
Pruned(b) == StampsAfter(b, Second - Window[b])

(* checkSiteAPIRateLimit *)
Full(b) == Len(Pruned(b)) >= Quota[b]

Counts(e, b) == \E i \in DOMAIN BucketsOf[e] : BucketsOf[e][i] = b

(* The first n buckets of the endpoint are written. *)
Count(e, n) ==
  stamps' = [b \in Buckets |-> IF \E i \in 1 .. n : BucketsOf[e][i] = b
                               THEN Append(Pruned(b), Second) ELSE stamps[b]]

(* All the buckets are asked before one is written. *)
Allow(e) ==
  /\ \A b \in Buckets : Counts(e, b) => ~Full(b)
  /\ Count(e, Len(BucketsOf[e]))
  /\ admitted' = [b \in Buckets |-> IF Counts(e, b) THEN Append(admitted[b], rateClock) ELSE admitted[b]]
  /\ UNCHANGED rateClock

(* A write fails: the request is refused, though the buckets before it     *)
(* have counted it.                                                        *)
AllowFails(e) ==
  /\ \A b \in Buckets : Counts(e, b) => ~Full(b)
  /\ \E n \in 0 .. Len(BucketsOf[e]) - 1 : Count(e, n)
  /\ UNCHANGED <<rateClock, admitted>>

RateTick ==
  /\ Second < LastSecond
  /\ rateClock' = rateClock + 1
  /\ UNCHANGED <<stamps, admitted>>

RateNext == RateTick \/ \E e \in Endpoints : Allow(e) \/ AllowFails(e)

RateSpec == RateInit /\ [][RateNext]_RateVars

-----------------------------------------------------------------------------
(* "hard limits" (site_rate_limiter.go:158): in no bucket are more than    *)
(* Quota requests let through within its window, less the second that      *)
(* counting in whole seconds may lose.                                     *)
QuotaHeld ==
  \A b \in Buckets : \A i \in DOMAIN admitted[b] :
    i > Quota[b] => admitted[b][i] - admitted[b][i - Quota[b]] > (Window[b] - 1) * PartsOfSecond
=============================================================================
