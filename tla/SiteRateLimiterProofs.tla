------------------------- MODULE SiteRateLimiterProofs -------------------------
(***************************************************************************)
(* Theorems about SiteRateLimiter, for any buckets, quotas and windows.    *)
(*                                                                         *)
(* The limiter reads the stamps of a bucket, never the requests it let     *)
(* through, so that the quota needs a relation of the two (Counted): the   *)
(* stamps are in order and not ahead of the clock, and counted from their  *)
(* ends the k-th stamp is no older than the k-th request let through, as   *)
(* long as that one is in the window.  A write that fails later in the     *)
(* same call only adds stamps, which makes the others older in that count. *)
(***************************************************************************)
EXTENDS SiteRateLimiter, FiniteSetTheorems, SequenceTheorems, WellFoundedInduction, TLAPS

SecondOf(m) == m \div PartsOfSecond

InOrder(s) == \A i, j \in 1 .. Len(s) : i <= j => s[i] <= s[j]

(* The stamps of s after second c. *)
Left(s, c) == SubSeq(s, Cardinality({i \in DOMAIN s : s[i] <= c}) + 1, Len(s))

FromEnd(s, k) == s[Len(s) + 1 - k]

(* The stamps s of a bucket of window w count the requests a it let        *)
(* through, at the moment t.                                               *)
Counted(s, a, w, t) ==
  /\ s \in Seq(Nat) /\ a \in Seq(Nat)
  /\ InOrder(s)
  /\ \A i \in 1 .. Len(s) : s[i] <= SecondOf(t)
  /\ \A i \in 1 .. Len(a) : a[i] <= t
  /\ \A k \in 1 .. Len(a) :
       SecondOf(FromEnd(a, k)) > SecondOf(t) - w
         => k <= Len(s) /\ FromEnd(s, k) >= SecondOf(FromEnd(a, k))

(* Any q + 1 of the requests a take longer than the window w, less a       *)
(* second.                                                                 *)
Spaced(a, q, w) ==
  \A i \in 1 .. Len(a) : i > q => a[i] - a[i - q] > (w - 1) * PartsOfSecond

RateInv ==
  /\ RateTypeOK
  /\ \A b \in Buckets : Counted(stamps[b], admitted[b], Window[b], rateClock)
  /\ \A b \in Buckets : Spaced(admitted[b], Quota[b], Window[b])

-----------------------------------------------------------------------------
(* Seconds, numbers and sequences.                                         *)

LEMMA WholeParts ==
  ASSUME NEW m \in Nat, NEW d \in Nat \ {0}
  PROVE  m \div d \in Nat /\ (m \div d) * d <= m /\ m < (m \div d) * d + d
OBVIOUS

LEMMA SmallerFactor ==
  ASSUME NEW x \in Int, NEW y \in Int, NEW d \in Nat \ {0}, x * d < y * d
  PROVE  x < y
OBVIOUS

(* A moment is in its second. *)
LEMMA WholeSeconds ==
  ASSUME NEW m \in Nat
  PROVE  /\ SecondOf(m) \in Nat
         /\ SecondOf(m) * PartsOfSecond <= m
         /\ m < (SecondOf(m) + 1) * PartsOfSecond
<1>1. PartsOfSecond \in Nat \ {0}
  BY RateAssumption
<1>2. /\ SecondOf(m) \in Nat
      /\ SecondOf(m) * PartsOfSecond <= m
      /\ m < SecondOf(m) * PartsOfSecond + PartsOfSecond
  BY <1>1, WholeParts DEF SecondOf
<1>3. (SecondOf(m) + 1) * PartsOfSecond = SecondOf(m) * PartsOfSecond + PartsOfSecond
  BY <1>1, <1>2
<1> QED
  BY <1>2, <1>3

(* Moments no more than w - 1 seconds apart are in seconds no more than    *)
(* w - 1 apart; with w = 1 this says that seconds do not decrease.         *)
LEMMA SecondsApart ==
  ASSUME NEW m \in Nat, NEW t \in Nat, NEW w \in Nat \ {0},
         t - m <= (w - 1) * PartsOfSecond
  PROVE  SecondOf(m) > SecondOf(t) - w
<1> DEFINE P == PartsOfSecond  x == SecondOf(t)  y == SecondOf(m)
<1>1. P \in Nat \ {0}
  BY RateAssumption
<1>2. /\ x \in Nat /\ x * P <= t
      /\ y \in Nat /\ m < (y + 1) * P
  BY WholeSeconds
<1> HIDE DEF P, x, y
<1>3. (y + 1) * P + (w - 1) * P = (y + w) * P
  BY <1>1, <1>2
<1>4. /\ (y + 1) * P \in Int /\ (w - 1) * P \in Int
      /\ x * P \in Int /\ (y + w) * P \in Int
  BY <1>1, <1>2
<1>5. x * P < (y + w) * P
  <2>1. t <= m + (w - 1) * P
    BY <1>4 DEF P
  <2> QED
    BY <2>1, <1>2, <1>3, <1>4
<1>6. x < y + w
  BY <1>1, <1>2, <1>5, SmallerFactor
<1> QED
  BY <1>2, <1>6 DEF x, y

LEMMA SecondsGrow ==
  ASSUME NEW m \in Nat, NEW t \in Nat, m <= t
  PROVE  SecondOf(m) <= SecondOf(t)
<1>1. PartsOfSecond \in Nat
  BY RateAssumption
<1>2. m - t <= (1 - 1) * PartsOfSecond
  BY <1>1
<1>3. SecondOf(t) > SecondOf(m) - 1
  BY <1>2, SecondsApart
<1> QED
  BY <1>3, WholeSeconds

LEMMA Suffix ==
  ASSUME NEW s \in Seq(Nat), NEW n \in 0 .. Len(s)
  PROVE  /\ SubSeq(s, n + 1, Len(s)) \in Seq(Nat)
         /\ Len(SubSeq(s, n + 1, Len(s))) = Len(s) - n
         /\ \A i \in 1 .. Len(s) - n : SubSeq(s, n + 1, Len(s))[i] = s[n + i]
<1> DEFINE m == n + 1
           l == Len(s)
<1>1. m \in Int /\ l \in Int /\ \A i \in m .. l : s[i] \in Nat
  OBVIOUS
<1>2. l - m + 1 = l - n /\ \A i \in Int : m + i - 1 = n + i
  OBVIOUS
<1>3. (IF m <= l THEN l - m + 1 ELSE 0) = l - n
  <2>1. l \in Nat /\ n \in Nat /\ n <= l
    OBVIOUS
  <2> HIDE DEF l
  <2>2. CASE m <= l
    BY <1>2, <2>2
  <2>3. CASE ~(m <= l)
    BY <2>1, <2>3
  <2> QED
    BY <2>2, <2>3
<1> HIDE DEF m, l
<1>4. /\ SubSeq(s, m, l) \in Seq(Nat)
      /\ Len(SubSeq(s, m, l)) = IF m <= l THEN l - m + 1 ELSE 0
      /\ \A i \in 1 .. l - m + 1 : SubSeq(s, m, l)[i] = s[m + i - 1]
  BY <1>1, SubSeqProperties
<1>5. \A i \in 1 .. l - n : SubSeq(s, m, l)[i] = s[n + i]
  <2>1. 1 .. l - n \subseteq Int
    OBVIOUS
  <2> QED
    BY <1>2, <1>4, <2>1
<1> QED
  BY <1>3, <1>4, <1>5 DEF m, l

LEMMA Appended ==
  ASSUME NEW s \in Seq(Nat), NEW x \in Nat
  PROVE  /\ Append(s, x) \in Seq(Nat)
         /\ Len(Append(s, x)) = Len(s) + 1
         /\ Append(s, x)[Len(s) + 1] = x
         /\ \A i \in 1 .. Len(s) : Append(s, x)[i] = s[i]
OBVIOUS

LEMMA IndexFromEnd ==
  ASSUME NEW s \in Seq(Nat), NEW k \in 1 .. Len(s)
  PROVE  /\ Len(s) + 1 - k \in 1 .. Len(s)
         /\ FromEnd(s, k) = s[Len(s) + 1 - k]
         /\ FromEnd(s, k) \in Nat
<1>1. Len(s) \in Nat /\ \A i \in 1 .. Len(s) : s[i] \in Nat
  OBVIOUS
<1>2. Len(s) + 1 - k \in 1 .. Len(s)
  BY <1>1
<1> QED
  BY <1>1, <1>2 DEF FromEnd

(* A set of positive numbers up to a bound that holds, with a number, all  *)
(* the smaller ones is an interval from 1.                                 *)
LEMMA DownwardClosed ==
  ASSUME NEW L \in Nat, NEW D \in SUBSET (1 .. L),
         \A i \in D : \A j \in 1 .. L : j <= i => j \in D
  PROVE  \E n \in 0 .. L : D = 1 .. n
<1> DEFINE T == {n \in Nat : \A i \in D : i <= n}
           R == OpToRel(<, Nat)
<1>1. L \in T
  OBVIOUS
<1>2. IsWellFoundedOn(R, Nat)
  BY NatLessThanWellFounded
<1>3. PICK n \in T : \A m \in T : ~(<<m, n>> \in R)
  <2> HIDE DEF R
  <2>1. T \subseteq Nat /\ T # {}
    BY <1>1
  <2> HIDE DEF T
  <2> QED
    BY <1>2, <2>1, WFMin
<1>4. \A m \in T : ~(m < n)
  BY <1>3 DEF R, OpToRel
<1>5. n \in Nat /\ \A i \in D : i \in 1 .. L /\ i <= n
  BY <1>3
<1>6. \A m \in Nat : m < n => \E i \in D : ~(i <= m)
  BY <1>4
<1> HIDE DEF T, R
<1>7. CASE n = 0
  <2>1. D = {}
    BY <1>5, <1>7
  <2>2. 1 .. 0 = {}
    OBVIOUS
  <2> QED
    BY <2>1, <2>2
<1>8. CASE n # 0
  <2>1. n - 1 \in Nat /\ n - 1 < n
    BY <1>5, <1>8
  <2>2. PICK i \in D : ~(i <= n - 1)
    BY <1>6, <2>1
  <2>3. i = n /\ n \in 1 .. L
    BY <1>5, <2>1, <2>2
  <2>4. 1 .. n \subseteq D
    BY <2>2, <2>3
  <2>5. D \subseteq 1 .. n
    BY <1>5
  <2>6. D = 1 .. n
    BY <2>4, <2>5
  <2>7. n \in 0 .. L
    BY <2>3
  <2> QED
    BY <2>6, <2>7
<1> QED
  BY <1>5, <1>7, <1>8

(* What is left after a second is the end of the sequence that holds the   *)
(* later stamps.                                                           *)
LEMMA LeftIsLater ==
  ASSUME NEW s \in Seq(Nat), InOrder(s), NEW c \in Int
  PROVE  \E n \in 0 .. Len(s) :
           /\ Left(s, c) \in Seq(Nat)
           /\ Len(Left(s, c)) = Len(s) - n
           /\ \A i \in 1 .. Len(s) - n : Left(s, c)[i] = s[n + i]
           /\ \A i \in 1 .. Len(s) : s[i] <= c <=> i <= n
<1> DEFINE D == {i \in DOMAIN s : s[i] <= c}
<1>1. DOMAIN s = 1 .. Len(s) /\ Len(s) \in Nat /\ \A i \in 1 .. Len(s) : s[i] \in Nat
  OBVIOUS
<1>2. PICK n \in 0 .. Len(s) : D = 1 .. n
  <2>1. D \in SUBSET (1 .. Len(s))
    BY <1>1
  <2>2. \A i \in D : \A j \in 1 .. Len(s) : j <= i => j \in D
    BY <1>1 DEF InOrder
  <2> HIDE DEF D
  <2> QED
    BY <1>1, <2>1, <2>2, DownwardClosed
<1>3. Cardinality(D) = n
  <2> HIDE DEF D
  <2>1. Cardinality(1 .. n) = n
    BY <1>2, FS_Interval
  <2> QED
    BY <1>2, <2>1
<1>4. Left(s, c) = SubSeq(s, n + 1, Len(s))
  BY <1>3 DEF Left
<1>5. \A i \in 1 .. Len(s) : s[i] <= c <=> i <= n
  BY <1>1, <1>2
<1> HIDE DEF D
<1> QED
  BY <1>2, <1>4, <1>5, Suffix

-----------------------------------------------------------------------------
(* What each step does to one bucket.                                      *)

(* A stamp written now keeps the count, whether the request is then let    *)
(* through or refused because a later write fails.                         *)
LEMMA StampCounts ==
  ASSUME NEW s, NEW a, NEW w \in Nat \ {0}, NEW t \in Nat, Counted(s, a, w, t),
         NEW r, r = Append(Left(s, SecondOf(t) - w), SecondOf(t))
  PROVE  /\ Counted(r, a, w, t)
         /\ Counted(r, Append(a, t), w, t)
<1> DEFINE now == SecondOf(t)
           l == Left(s, now - w)
<1>1. now \in Nat
  BY WholeSeconds
<1>2. /\ s \in Seq(Nat) /\ a \in Seq(Nat) /\ InOrder(s)
      /\ \A i \in 1 .. Len(s) : s[i] \in Nat /\ s[i] <= now
      /\ \A i \in 1 .. Len(a) : a[i] \in Nat /\ a[i] <= t
      /\ Len(s) \in Nat /\ Len(a) \in Nat
  BY DEF Counted
<1>3. \A k \in 1 .. Len(a) :
        SecondOf(FromEnd(a, k)) > now - w
          => k <= Len(s) /\ FromEnd(s, k) >= SecondOf(FromEnd(a, k))
  BY DEF Counted
<1>4. \A k \in 1 .. Len(a) : FromEnd(a, k) \in Nat /\ SecondOf(FromEnd(a, k)) \in Nat
  BY <1>2, IndexFromEnd, WholeSeconds
<1>5. r = Append(l, now)
  OBVIOUS
<1> HIDE DEF now
<1>c. now - w \in Int
  BY <1>1
<1>6. PICK n \in 0 .. Len(s) :
        /\ l \in Seq(Nat)
        /\ Len(l) = Len(s) - n
        /\ \A i \in 1 .. Len(s) - n : l[i] = s[n + i]
        /\ \A i \in 1 .. Len(s) : s[i] <= now - w <=> i <= n
  BY <1>2, <1>c, LeftIsLater
<1> HIDE DEF l
<1>7. /\ r \in Seq(Nat)
      /\ Len(r) = Len(s) - n + 1
      /\ r[Len(r)] = now
      /\ \A i \in 1 .. Len(s) - n : r[i] = s[n + i]
  <2>1. Len(l) = Len(s) - n /\ Len(l) \in Nat
    BY <1>2, <1>6
  <2>2. /\ r \in Seq(Nat) /\ Len(r) = Len(l) + 1
        /\ r[Len(l) + 1] = now
        /\ \A i \in 1 .. Len(l) : r[i] = l[i]
    <3>1. l \in Seq(Nat)
      BY <1>6
    <3>2. /\ Append(l, now) \in Seq(Nat) /\ Len(Append(l, now)) = Len(l) + 1
          /\ Append(l, now)[Len(l) + 1] = now
          /\ \A i \in 1 .. Len(l) : Append(l, now)[i] = l[i]
      BY <1>1, <3>1, Appended
    <3> QED
      BY <1>5, <3>2, Zenon
  <2> QED
    BY <1>6, <2>1, <2>2
<1>8. Len(r) \in Nat /\ \A i \in 1 .. Len(r) : i = Len(r) \/ i \in 1 .. Len(s) - n
  BY <1>2, <1>6, <1>7
<1>9. \A i \in 1 .. Len(r) : r[i] <= now
  <2>1. \A i \in 1 .. Len(s) - n : n + i \in 1 .. Len(s)
    BY <1>2, <1>6
  <2> QED
    <3>1. SUFFICES ASSUME NEW i \in 1 .. Len(r) PROVE r[i] <= now
      OBVIOUS
    <3>2. CASE i = Len(r)
      BY <1>1, <1>7, <3>2
    <3>3. CASE i \in 1 .. Len(s) - n
      BY <1>2, <1>7, <2>1, <3>3
    <3> QED
      BY <1>8, <3>2, <3>3
<1>10. InOrder(r)
  <2> SUFFICES ASSUME NEW i \in 1 .. Len(r), NEW j \in 1 .. Len(r), i <= j
               PROVE  r[i] <= r[j]
    BY DEF InOrder
  <2>1. CASE j = Len(r)
    BY <1>7, <1>9, <2>1
  <2>2. CASE j # Len(r)
    <3>1. i \in 1 .. Len(s) - n /\ j \in 1 .. Len(s) - n
      BY <1>7, <1>8, <2>2
    <3>2. n + i \in 1 .. Len(s) /\ n + j \in 1 .. Len(s) /\ n + i <= n + j
      BY <1>2, <1>6, <3>1
    <3> QED
      BY <1>2, <1>7, <3>1, <3>2 DEF InOrder
  <2> QED
    BY <2>1, <2>2
(* The k-th stamp from the end is now one further from it. *)
<1>11. ASSUME NEW k \in 1 .. Len(s), NEW y \in Nat, FromEnd(s, k) >= y, y > now - w
       PROVE  k + 1 <= Len(r) /\ FromEnd(r, k + 1) >= y
  <2>1. Len(s) + 1 - k \in 1 .. Len(s) /\ s[Len(s) + 1 - k] > now - w
    BY <1>1, <1>2, <1>11 DEF FromEnd
  <2>2. Len(s) + 1 - k > n
    <3>1. ~(s[Len(s) + 1 - k] <= now - w)
      BY <1>1, <1>2, <2>1
    <3>2. ~(Len(s) + 1 - k <= n)
      BY <1>6, <2>1, <3>1
    <3> QED
      BY <1>2, <3>2
  <2>3. Len(s) + 1 - k - n \in 1 .. Len(s) - n
    BY <1>2, <1>6, <2>1, <2>2
  <2>4. r[Len(s) + 1 - k - n] = s[n + (Len(s) + 1 - k - n)]
    BY <1>7, <2>3
  <2>5. n + (Len(s) + 1 - k - n) = Len(s) + 1 - k /\ Len(r) + 1 - (k + 1) = Len(s) + 1 - k - n
    BY <1>2, <1>6, <1>7
  <2> QED
    <3>1. k + 1 <= Len(r)
      BY <1>2, <1>6, <1>7, <2>2
    <3>2. FromEnd(r, k + 1) = FromEnd(s, k)
      BY <2>4, <2>5 DEF FromEnd
    <3> QED
      BY <1>11, <3>1, <3>2
<1>12. Counted(r, a, w, t)
  <2> SUFFICES ASSUME NEW k \in 1 .. Len(a), SecondOf(FromEnd(a, k)) > now - w
               PROVE  k <= Len(r) /\ FromEnd(r, k) >= SecondOf(FromEnd(a, k))
    BY <1>2, <1>7, <1>9, <1>10 DEF Counted, now
  <2>1. k \in 1 .. Len(s) /\ FromEnd(s, k) >= SecondOf(FromEnd(a, k))
    BY <1>2, <1>3
  <2>2. k + 1 <= Len(r) /\ FromEnd(r, k + 1) >= SecondOf(FromEnd(a, k))
    BY <1>4, <1>11, <2>1
  <2>3. /\ Len(r) + 1 - (k + 1) \in 1 .. Len(r) /\ Len(r) + 1 - k \in 1 .. Len(r)
        /\ Len(r) + 1 - (k + 1) <= Len(r) + 1 - k
    BY <1>7, <2>1, <2>2
  <2>4. FromEnd(r, k + 1) <= FromEnd(r, k)
    BY <1>10, <2>3 DEF InOrder, FromEnd
  <2>5. FromEnd(r, k + 1) \in Nat /\ FromEnd(r, k) \in Nat
    <3>1. k + 1 \in 1 .. Len(r) /\ k \in 1 .. Len(r)
      BY <1>8, <2>1, <2>2
    <3> QED
      BY <1>7, <3>1, IndexFromEnd
  <2> QED
    BY <1>4, <2>2, <2>3, <2>4, <2>5
<1>13. Counted(r, Append(a, t), w, t)
  <2> DEFINE b == Append(a, t)
  <2>1. /\ b \in Seq(Nat) /\ Len(b) = Len(a) + 1
        /\ \A i \in 1 .. Len(b) : b[i] <= t
        /\ b[Len(b)] = t
        /\ \A i \in 1 .. Len(a) : b[i] = a[i]
    <3>1. /\ b \in Seq(Nat) /\ Len(b) = Len(a) + 1
          /\ b[Len(a) + 1] = t
          /\ \A i \in 1 .. Len(a) : b[i] = a[i]
      BY <1>2, Appended
    <3> HIDE DEF b
    <3>2. \A i \in 1 .. Len(b) : i = Len(a) + 1 \/ i \in 1 .. Len(a)
      BY <1>2, <3>1
    <3>3. \A i \in 1 .. Len(b) : b[i] <= t
      <4> SUFFICES ASSUME NEW i \in 1 .. Len(b) PROVE b[i] <= t
        OBVIOUS
      <4>1. CASE i = Len(a) + 1
        BY <3>1, <4>1
      <4>2. CASE i \in 1 .. Len(a)
        BY <1>2, <3>1, <4>2
      <4> QED
        BY <3>2, <4>1, <4>2
    <3> QED
      BY <1>2, <3>1, <3>3
  <2> HIDE DEF b
  <2> SUFFICES ASSUME NEW k \in 1 .. Len(b), SecondOf(FromEnd(b, k)) > now - w
               PROVE  k <= Len(r) /\ FromEnd(r, k) >= SecondOf(FromEnd(b, k))
    BY <1>2, <1>7, <1>9, <1>10, <2>1 DEF Counted, now, b
  <2>2. CASE k = 1
    <3>1. FromEnd(b, 1) = t /\ FromEnd(r, 1) = now
      BY <1>7, <2>1, <1>2 DEF FromEnd
    <3> QED
      BY <1>1, <1>6, <1>7, <2>2, <3>1 DEF now
  <2>3. CASE k # 1
    <3>1. k - 1 \in 1 .. Len(a)
      BY <1>2, <2>1, <2>3
    <3>2. FromEnd(b, k) = FromEnd(a, k - 1)
      <4>1. Len(b) + 1 - k = Len(a) + 1 - (k - 1) /\ Len(a) + 1 - (k - 1) \in 1 .. Len(a)
        BY <1>2, <2>1, <3>1
      <4> QED
        BY <2>1, <4>1 DEF FromEnd
    <3>3. k - 1 \in 1 .. Len(s) /\ FromEnd(s, k - 1) >= SecondOf(FromEnd(a, k - 1))
      BY <1>2, <1>3, <3>1, <3>2
    <3>4. (k - 1) + 1 <= Len(r) /\ FromEnd(r, (k - 1) + 1) >= SecondOf(FromEnd(a, k - 1))
      BY <1>4, <1>11, <3>1, <3>2, <3>3
    <3>5. (k - 1) + 1 = k
      OBVIOUS
    <3> QED
      BY <3>2, <3>4, <3>5
  <2> QED
    BY <2>2, <2>3
<1> QED
  BY <1>12, <1>13

(* A bucket that is not full has let through a request q before the next   *)
(* one, if any, that far ago that it is out of the window.                 *)
LEMMA RoomMeansSpace ==
  ASSUME NEW s, NEW a, NEW w \in Nat \ {0}, NEW q \in Nat \ {0}, NEW t \in Nat,
         Counted(s, a, w, t), Spaced(a, q, w),
         ~(Len(Left(s, SecondOf(t) - w)) >= q)
  PROVE  Spaced(Append(a, t), q, w)
<1> DEFINE now == SecondOf(t)
           l == Left(s, now - w)
           b == Append(a, t)
<1>1. now \in Nat /\ now - w \in Int
  BY WholeSeconds
<1>2. /\ s \in Seq(Nat) /\ a \in Seq(Nat) /\ InOrder(s)
      /\ Len(s) \in Nat /\ Len(a) \in Nat
      /\ \A i \in 1 .. Len(s) : s[i] \in Nat
  BY DEF Counted
<1>3. /\ b \in Seq(Nat) /\ Len(b) = Len(a) + 1
      /\ b[Len(a) + 1] = t
      /\ \A i \in 1 .. Len(a) : b[i] = a[i]
  BY <1>2, Appended
<1> HIDE DEF b
<1>4. ASSUME q <= Len(a)
      PROVE  t - FromEnd(a, q) > (w - 1) * PartsOfSecond
  <2> DEFINE m == FromEnd(a, q)
  <2>1. q \in 1 .. Len(a) /\ m \in Nat
    BY <1>2, <1>4, IndexFromEnd
  <2>2. (w - 1) * PartsOfSecond \in Int
    BY RateAssumption
  <2> HIDE DEF m
  <2> SUFFICES ASSUME t - m <= (w - 1) * PartsOfSecond
               PROVE  FALSE
    BY <2>1, <2>2 DEF m
  <2>3. SecondOf(m) > now - w /\ SecondOf(m) \in Nat
    BY <2>1, SecondsApart, WholeSeconds
  <2>4. q \in 1 .. Len(s) /\ FromEnd(s, q) >= SecondOf(m)
    BY <1>2, <2>1, <2>3 DEF Counted, m
  <2>5. PICK n \in 0 .. Len(s) :
          /\ Len(l) = Len(s) - n
          /\ \A i \in 1 .. Len(s) : s[i] <= now - w <=> i <= n
    BY <1>1, <1>2, LeftIsLater
  <2>6. /\ Len(s) + 1 - q \in 1 .. Len(s) /\ FromEnd(s, q) \in Nat
        /\ FromEnd(s, q) = s[Len(s) + 1 - q]
    BY <1>2, <2>4, IndexFromEnd
  <2>7. ~(Len(l) >= q)
    OBVIOUS
  <2> HIDE DEF now, l
  <2>8. ~(s[Len(s) + 1 - q] <= now - w)
    BY <1>1, <2>3, <2>4, <2>6
  <2>9. ~(Len(s) + 1 - q <= n)
    BY <2>5, <2>6, <2>8
  <2> QED
    BY <1>2, <2>5, <2>7, <2>9
<1>5. ASSUME NEW i \in 1 .. Len(b), i > q
      PROVE  b[i] - b[i - q] > (w - 1) * PartsOfSecond
  <2>1. i - q \in 1 .. Len(a)
    BY <1>2, <1>3, <1>5
  <2>2. CASE i \in 1 .. Len(a)
    <3>1. a[i] - a[i - q] > (w - 1) * PartsOfSecond
      BY <1>5, <2>2 DEF Spaced
    <3> QED
      BY <1>3, <2>1, <2>2, <3>1
  <2>3. CASE i = Len(a) + 1
    <3>1. q <= Len(a) /\ FromEnd(a, q) = a[i - q]
      BY <1>2, <2>1, <2>3 DEF FromEnd
    <3> QED
      BY <1>3, <1>4, <2>1, <2>3, <3>1
  <2> QED
    BY <1>2, <1>3, <2>2, <2>3
<1> QED
  BY <1>5 DEF Spaced, b

(* Time passes: what was in the window may leave it. *)
LEMMA TimeCounts ==
  ASSUME NEW s, NEW a, NEW w \in Nat \ {0}, NEW t \in Nat, Counted(s, a, w, t)
  PROVE  Counted(s, a, w, t + 1)
<1>1. t + 1 \in Nat /\ SecondOf(t) \in Nat /\ SecondOf(t + 1) \in Nat /\ SecondOf(t) <= SecondOf(t + 1)
  BY WholeSeconds, SecondsGrow
<1>2. /\ s \in Seq(Nat) /\ a \in Seq(Nat)
      /\ \A i \in 1 .. Len(s) : s[i] \in Nat
      /\ \A i \in 1 .. Len(a) : a[i] \in Nat
  BY DEF Counted
<1>3. \A i \in 1 .. Len(s) : s[i] <= SecondOf(t + 1)
  BY <1>1, <1>2 DEF Counted
<1>4. \A i \in 1 .. Len(a) : a[i] <= t + 1
  BY <1>1, <1>2 DEF Counted
<1>5. ASSUME NEW k \in 1 .. Len(a), SecondOf(FromEnd(a, k)) > SecondOf(t + 1) - w
      PROVE  k <= Len(s) /\ FromEnd(s, k) >= SecondOf(FromEnd(a, k))
  <2>1. SecondOf(FromEnd(a, k)) \in Nat
    BY <1>2, IndexFromEnd, WholeSeconds
  <2>2. SecondOf(FromEnd(a, k)) > SecondOf(t) - w
    BY <1>1, <1>5, <2>1
  <2> QED
    BY <2>2 DEF Counted
<1> QED
  BY <1>3, <1>4, <1>5 DEF Counted

-----------------------------------------------------------------------------
(* The steps of the limiter.                                               *)

LEMMA PrunedIsLeft ==
  ASSUME NEW b \in Buckets
  PROVE  Pruned(b) = Left(stamps[b], SecondOf(rateClock) - Window[b])
BY DEF Pruned, StampsAfter, Left, Second, SecondOf

LEMMA InitiallyHolds == RateInit => RateInv
<1> SUFFICES ASSUME RateInit PROVE RateInv
  OBVIOUS
<1>1. /\ rateClock = 0
      /\ stamps \in [Buckets -> Seq(Nat)] /\ admitted \in [Buckets -> Seq(Nat)]
      /\ \A b \in Buckets : stamps[b] = <<>> /\ admitted[b] = <<>>
  BY DEF RateInit
<1>2. <<>> \in Seq(Nat) /\ Len(<<>>) = 0
  OBVIOUS
<1>3. \A w, t : Counted(<<>>, <<>>, w, t)
  BY <1>2 DEF Counted, InOrder
<1>4. \A q, w : Spaced(<<>>, q, w)
  BY <1>2 DEF Spaced
<1> QED
  BY <1>1, <1>3, <1>4 DEF RateInv, RateTypeOK

(* A bucket that the call writes, and one that it leaves alone. *)
LEMMA CountStep ==
  ASSUME RateInv, NEW e \in Endpoints, NEW n \in 0 .. Len(BucketsOf[e]), Count(e, n)
  PROVE  /\ stamps' \in [Buckets -> Seq(Nat)]
         /\ \A b \in Buckets :
              Counted(stamps'[b], admitted[b], Window[b], rateClock)
         /\ \A b \in Buckets : (\E i \in 1 .. n : BucketsOf[e][i] = b) =>
              Counted(stamps'[b], Append(admitted[b], rateClock), Window[b], rateClock)
<1> DEFINE new(b) == Append(Pruned(b), Second)
<1>1. rateClock \in Nat /\ \A b \in Buckets : Window[b] \in Nat \ {0}
  BY RateAssumption DEF RateInv, RateTypeOK
<1>2. \A b \in Buckets : new(b) = Append(Left(stamps[b], SecondOf(rateClock) - Window[b]), SecondOf(rateClock))
  BY PrunedIsLeft DEF Second, SecondOf
<1>3. \A b \in Buckets : Counted(stamps[b], admitted[b], Window[b], rateClock)
  BY DEF RateInv
<1> HIDE DEF new
<1>4. \A b \in Buckets :
        /\ Counted(new(b), admitted[b], Window[b], rateClock)
        /\ Counted(new(b), Append(admitted[b], rateClock), Window[b], rateClock)
  BY <1>1, <1>2, <1>3, StampCounts
<1>5. stamps' = [b \in Buckets |-> IF \E i \in 1 .. n : BucketsOf[e][i] = b
                                   THEN new(b) ELSE stamps[b]]
  BY DEF Count, new
<1>6. \A b \in Buckets :
        stamps'[b] = IF \E i \in 1 .. n : BucketsOf[e][i] = b THEN new(b) ELSE stamps[b]
  BY <1>5
<1>7. \A b \in Buckets : Counted(stamps'[b], admitted[b], Window[b], rateClock)
  BY <1>3, <1>4, <1>6
<1>8. \A b \in Buckets : stamps'[b] \in Seq(Nat)
  BY <1>7 DEF Counted
<1>9. stamps' \in [Buckets -> Seq(Nat)]
  BY <1>5, <1>8
<1> QED
  BY <1>4, <1>6, <1>7, <1>9

LEMMA Preserved == RateInv /\ [RateNext]_RateVars => RateInv'
<1> SUFFICES ASSUME RateInv, [RateNext]_RateVars PROVE RateInv'
  OBVIOUS
<1>1. /\ rateClock \in Nat
      /\ stamps \in [Buckets -> Seq(Nat)]
      /\ admitted \in [Buckets -> Seq(Nat)]
      /\ \A b \in Buckets : Counted(stamps[b], admitted[b], Window[b], rateClock)
      /\ \A b \in Buckets : Spaced(admitted[b], Quota[b], Window[b])
  BY DEF RateInv, RateTypeOK
<1>2. \A b \in Buckets : Window[b] \in Nat \ {0} /\ Quota[b] \in Nat \ {0}
  BY RateAssumption
<1>3. CASE RateTick
  <2>1. rateClock' = rateClock + 1 /\ stamps' = stamps /\ admitted' = admitted
    BY <1>3 DEF RateTick
  <2>2. rateClock + 1 \in Nat
    BY <1>1
  <2>3. \A b \in Buckets : Counted(stamps[b], admitted[b], Window[b], rateClock + 1)
    BY <1>1, <1>2, TimeCounts
  <2> QED
    BY <1>1, <2>1, <2>2, <2>3 DEF RateInv, RateTypeOK
<1>4. ASSUME NEW e \in Endpoints, Allow(e)
      PROVE  RateInv'
  <2> DEFINE n == Len(BucketsOf[e])
             new(b) == IF Counts(e, b) THEN Append(admitted[b], rateClock) ELSE admitted[b]
  <2>1. BucketsOf[e] \in Seq(Buckets) /\ n \in 0 .. n /\ DOMAIN BucketsOf[e] = 1 .. n
    BY RateAssumption
  <2>2. /\ stamps' \in [Buckets -> Seq(Nat)]
        /\ \A b \in Buckets : Counted(stamps'[b], admitted[b], Window[b], rateClock)
        /\ \A b \in Buckets : Counts(e, b) =>
             Counted(stamps'[b], Append(admitted[b], rateClock), Window[b], rateClock)
    <3>1. Count(e, n)
      BY <1>4 DEF Allow
    <3> QED
      BY <2>1, <3>1, CountStep DEF Counts
  <2>3. rateClock' = rateClock /\ admitted' = [b \in Buckets |-> new(b)]
    BY <1>4 DEF Allow
  <2>4. \A b \in Buckets : Counted(stamps'[b], new(b), Window[b], rateClock)
    BY <2>2
  <2>5. \A b \in Buckets : Spaced(new(b), Quota[b], Window[b])
    <3> SUFFICES ASSUME NEW b \in Buckets, Counts(e, b)
                 PROVE  Spaced(Append(admitted[b], rateClock), Quota[b], Window[b])
      BY <1>1
    <3>1. ~(Len(Left(stamps[b], SecondOf(rateClock) - Window[b])) >= Quota[b])
      BY <1>4, PrunedIsLeft DEF Allow, Full
    <3> QED
      BY <1>1, <1>2, <3>1, RoomMeansSpace
  <2> HIDE DEF new
  <2>6. \A b \in Buckets : admitted'[b] = new(b) /\ new(b) \in Seq(Nat)
    BY <2>3, <2>4 DEF Counted
  <2>7. admitted' \in [Buckets -> Seq(Nat)]
    BY <2>3, <2>6
  <2> QED
    BY <1>1, <2>2, <2>3, <2>4, <2>5, <2>6, <2>7 DEF RateInv, RateTypeOK
<1>5. ASSUME NEW e \in Endpoints, AllowFails(e)
      PROVE  RateInv'
  <2>1. PICK n \in 0 .. Len(BucketsOf[e]) - 1 : Count(e, n)
    BY <1>5 DEF AllowFails
  <2>2. n \in 0 .. Len(BucketsOf[e])
    BY <2>1, RateAssumption
  <2>3. rateClock' = rateClock /\ admitted' = admitted
    BY <1>5 DEF AllowFails
  <2>4. /\ stamps' \in [Buckets -> Seq(Nat)]
        /\ \A b \in Buckets : Counted(stamps'[b], admitted[b], Window[b], rateClock)
    BY <2>1, <2>2, CountStep
  <2> QED
    BY <1>1, <2>3, <2>4 DEF RateInv, RateTypeOK
<1>6. CASE UNCHANGED RateVars
  BY <1>1, <1>6 DEF RateVars, RateInv, RateTypeOK
<1> QED
  BY <1>3, <1>4, <1>5, <1>6 DEF RateNext

-----------------------------------------------------------------------------
(* No bucket lets more requests through in its window than its quota: the  *)
(* check before the first write and the stamps, with those of the calls    *)
(* that failed half way, are enough for that.                              *)
THEOREM QuotaKept == RateSpec => [](RateTypeOK /\ QuotaHeld)
<1>1. RateInv => RateTypeOK /\ QuotaHeld
  <2> SUFFICES ASSUME RateInv PROVE RateTypeOK /\ QuotaHeld
    OBVIOUS
  <2>1. \A b \in Buckets : DOMAIN admitted[b] = 1 .. Len(admitted[b])
    BY DEF RateInv, RateTypeOK
  <2> QED
    BY <2>1 DEF RateInv, QuotaHeld, Spaced
<1> QED
  BY <1>1, InitiallyHolds, Preserved, PTL DEF RateSpec
=============================================================================
