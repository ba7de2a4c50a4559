-------------------------- MODULE RefreshTokenProofs --------------------------
(***************************************************************************)
(* Proofs about RefreshToken: its types, that no token is lost, the        *)
(* session limit, and that a replaced token does not come back.            *)
(*                                                                         *)
(* Whether a token is lost is decided where its store is (StoreShape).  The     *)
(* session limit rests on the order in which rows are created: of a finite *)
(* set of rows at most MaxSessions have fewer than MaxSessions newer ones  *)
(* (FewNewest), and what a store has found to evict stays enough for the   *)
(* rows no newer than its own, since a row added later is newer (Limits).  *)
(***************************************************************************)
EXTENDS RefreshToken, Integers, FiniteSetTheorems, WellFoundedInduction, TLAPS

StoreRec == [pc : StorePC, login : BOOLEAN, tries : 0 .. MaxStores, victims : SUBSET Token]

StoreShape(t) ==
  /\ store[t].pc \in {"evict", "enforce", "settle", "stored"} <=> row[t] > 0
  /\ store[t].login /\ store[t].pc \in {"create", "wait", "abort"} => t \in pending \union rotated
  /\ store[t].pc \in {"wait", "dropped"} => store[t].login
  /\ store[t].pc = "dropped" => t \in rotated
  /\ store[t].pc = "wait" => store[t].tries < MaxStores
  /\ t \in known => store[t].pc = "stored" \/ (store[t].login /\ store[t].pc # "none")
  /\ t \in enforced => store[t].pc \in {"settle", "stored"}

Holds == \A q \in Refreshers : refresher[q].pc # "idle" => refresher[q].tok \in Token

Ordered ==
  /\ \A t \in Token : row[t] <= created
  /\ \A t, u \in Token : row[t] = row[u] => t = u \/ row[t] = 0

Limits ==
  /\ \A t \in Token : store[t].pc = "enforce" =>
       Cardinality(NoNewer(t, Active \ store[t].victims)) <= MaxSessions
  /\ SessionLimit

TokenInv == TokenTypeOK /\ (\A t \in Token : StoreShape(t)) /\ Holds /\ Ordered /\ Limits

LEMMA InitTokenInv == TokenInit => TokenInv
<1> SUFFICES ASSUME TokenInit PROVE TokenInv OBVIOUS
<1> USE TokenAssumption DEF TokenInit, NotIssued, RefresherIdle
<1>1. TokenTypeOK BY DEF TokenTypeOK, StorePC
<1>2. \A t \in Token : StoreShape(t) BY DEF StoreShape
<1>3. Holds /\ Ordered BY DEF Holds, Ordered
<1>4. Limits BY DEF Limits, SessionLimit
<1> QED BY <1>1, <1>2, <1>3, <1>4 DEF TokenInv

-----------------------------------------------------------------------------
(* Numbers of rows *)

LEMMA Least ==
  ASSUME NEW R \in SUBSET Nat, R # {}
  PROVE  \E m \in R : \A n \in R : m <= n
<1> DEFINE less == OpToRel(<, Nat)
<1>1. IsWellFoundedOn(less, Nat) BY NatLessThanWellFounded
<1>2. \A m, n \in Nat : n < m => <<n, m>> \in less BY DEF OpToRel
<1> HIDE DEF less
<1>3. PICK m \in R : \A n \in R : ~(<<n, m>> \in less) BY <1>1, WFMin
<1>4. \A n \in R : ~(n < m) BY <1>2, <1>3
<1>5. m \in Nat /\ \A n \in R : n \in Nat OBVIOUS
<1>6. \A n \in R : m <= n BY <1>4, <1>5
<1> QED BY <1>6

(* All of the rows with few newer ones but the oldest are newer than it. *)
LEMMA FewNewest ==
  ASSUME TokenInv
  PROVE  LET few == {u \in Active : Cardinality(Newer(u)) < MaxSessions}
         IN  IsFiniteSet(few) /\ Cardinality(few) <= MaxSessions
<1> DEFINE few == {u \in Active : Cardinality(Newer(u)) < MaxSessions}
<1>1. Active \in SUBSET Token /\ few \in SUBSET Token BY DEF Active, Stored
<1>2. IsFiniteSet(few) /\ Cardinality(few) \in Nat
  BY <1>1, TokenAssumption, FS_Subset, FS_CardinalityType
<1>3. MaxSessions \in Nat BY TokenAssumption
<1>4. CASE few = {}
  <2>1. Cardinality(few) = 0 BY <1>4, FS_EmptySet
  <2> QED BY <1>2, <1>3, <2>1
<1>5. CASE few # {}
  <2> DEFINE R == {row[u] : u \in few}
  <2>1. R \in SUBSET Nat /\ R # {} BY <1>1, <1>5 DEF TokenInv, TokenTypeOK
  <2>2. PICK m \in R : \A n \in R : m <= n BY <2>1, Least
  <2>3. PICK o \in few : row[o] = m BY <2>2
  <2>4. \A u \in few : row[o] <= row[u] BY <2>2, <2>3
  <2>5. \A u \in few \ {o} : u \in Newer(o)
    <3> SUFFICES ASSUME NEW u \in few \ {o} PROVE row[u] > row[o] BY DEF Newer
    <3>1. row[u] # row[o] BY <1>1 DEF TokenInv, Ordered, Active, Stored
    <3>2. row[u] \in Nat /\ row[o] \in Nat BY <1>1 DEF TokenInv, TokenTypeOK
    <3> QED BY <2>4, <3>1, <3>2
  <2>6. IsFiniteSet(Newer(o)) /\ Cardinality(Newer(o)) \in Nat
    <3>1. Newer(o) \in SUBSET Token BY <1>1 DEF Newer
    <3> QED BY <3>1, TokenAssumption, FS_Subset, FS_CardinalityType
  <2>7. few \ {o} \in SUBSET Newer(o) BY <2>5
  <2>8. Cardinality(few \ {o}) <= Cardinality(Newer(o)) BY <2>6, <2>7, FS_Subset
  <2>9. Cardinality(few \ {o}) = Cardinality(few) - 1 BY <1>2, <2>3, FS_RemoveElement
  <2>10. Cardinality(Newer(o)) < MaxSessions BY <2>3
  <2> QED BY <1>2, <1>3, <2>6, <2>8, <2>9, <2>10
<1> QED BY <1>2, <1>4, <1>5

(* Revoking only takes away from what a limit counts. *)
LEMMA Shrinks ==
  ASSUME TokenInv, NEW S \in SUBSET Active, NEW T \in SUBSET S, Cardinality(S) <= MaxSessions
  PROVE  Cardinality(T) <= MaxSessions
<1>1. S \in SUBSET Token BY DEF Active, Stored
<1>2. IsFiniteSet(S) BY <1>1, TokenAssumption, FS_Subset
<1>3. IsFiniteSet(T) /\ Cardinality(T) <= Cardinality(S) BY <1>2, FS_Subset
<1>4. Cardinality(T) \in Nat /\ Cardinality(S) \in Nat BY <1>2, <1>3, FS_CardinalityType
<1>5. MaxSessions \in Nat BY TokenAssumption
<1> QED BY <1>3, <1>4, <1>5

(* A step that adds no row and revokes some at most. *)
LEMMA LimitsKept ==
  ASSUME TokenInv, UNCHANGED <<row, created>>, revoked \subseteq revoked',
         \A t \in Token : store'[t].pc = "enforce" =>
           \/ store[t].pc = "enforce" /\ store'[t].victims = store[t].victims
           \/ Cardinality(NoNewer(t, Active \ store'[t].victims)) <= MaxSessions,
         enforced' \subseteq Token,
         \A t \in enforced' : t \in enforced \/ Cardinality(NoNewer(t, Active')) <= MaxSessions
  PROVE  Limits'
<1>1. Active' \subseteq Active BY DEF Active, Stored
<1>2. ASSUME NEW t \in Token, store'[t].pc = "enforce"
      PROVE  Cardinality(NoNewer(t, Active \ store[t].victims)') <= MaxSessions
  <2> DEFINE S == NoNewer(t, Active \ store'[t].victims)
             T == NoNewer(t, Active \ store[t].victims)'
  <2>1. Cardinality(S) <= MaxSessions BY <1>2 DEF TokenInv, Limits
  <2>2. S \in SUBSET Active /\ T \in SUBSET S BY <1>1 DEF NoNewer
  <2> HIDE DEF S, T
  <2>3. Cardinality(T) <= MaxSessions BY <2>1, <2>2, Shrinks
  <2> QED BY <2>3 DEF T
<1>3. ASSUME NEW t \in enforced' PROVE Cardinality(NoNewer(t, Active)') <= MaxSessions
  <2>1. NoNewer(t, Active)' = NoNewer(t, Active') BY DEF NoNewer
  <2>2. CASE t \in enforced
    <3> DEFINE S == NoNewer(t, Active)
               T == NoNewer(t, Active')
    <3>1. Cardinality(S) <= MaxSessions BY <2>2 DEF TokenInv, Limits, SessionLimit
    <3>2. S \in SUBSET Active /\ T \in SUBSET S BY <1>1 DEF NoNewer
    <3> HIDE DEF S, T
    <3>3. Cardinality(T) <= MaxSessions BY <3>1, <3>2, Shrinks
    <3> QED BY <2>1, <3>3 DEF T
  <2>3. CASE Cardinality(NoNewer(t, Active')) <= MaxSessions BY <2>1, <2>3
  <2> QED BY <2>2, <2>3
<1> QED BY <1>2, <1>3 DEF Limits, SessionLimit

-----------------------------------------------------------------------------
(* The store of one token *)

(* A step of a token's store that writes no row. *)
LEMMA StoreMoves ==
  ASSUME TokenInv, NEW t \in Token, NEW s \in StoreRec,
         store' = [store EXCEPT ![t] = s],
         UNCHANGED <<row, created, known, rotated, refresher>>,
         revoked \subseteq revoked', revoked' \subseteq Token,
         pending' \subseteq Token, \A u \in Token \ {t} : u \in pending => u \in pending',
         enforced \subseteq enforced', enforced' \subseteq enforced \union {t},
         StoreShape(t)',
         s.pc = "enforce" =>
           \/ store[t].pc = "enforce" /\ s.victims = store[t].victims
           \/ Cardinality(NoNewer(t, Active \ s.victims)) <= MaxSessions,
         t \in enforced' \ enforced => Cardinality(NoNewer(t, Active')) <= MaxSessions
  PROVE  TokenInv'
<1>1. store'[t] = s /\ \A u \in Token \ {t} : store'[u] = store[u] BY DEF TokenInv, TokenTypeOK
<1>2. TokenTypeOK' BY DEF TokenInv, TokenTypeOK, StoreRec
<1>3. ASSUME NEW u \in Token PROVE StoreShape(u)'
  <2>1. CASE u # t BY <1>1, <2>1 DEF TokenInv, StoreShape
  <2> QED BY <2>1
<1>4. Holds' /\ Ordered' BY DEF TokenInv, Holds, Ordered
<1>5. Limits'
  <2>1. \A u \in Token : store'[u].pc = "enforce" =>
           \/ store[u].pc = "enforce" /\ store'[u].victims = store[u].victims
           \/ Cardinality(NoNewer(u, Active \ store'[u].victims)) <= MaxSessions
    BY <1>1
  <2>2. enforced' \subseteq Token BY DEF TokenInv, TokenTypeOK
  <2>3. \A u \in enforced' : u \in enforced \/ Cardinality(NoNewer(u, Active')) <= MaxSessions
    OBVIOUS
  <2> QED BY <2>1, <2>2, <2>3, LimitsKept
<1> QED BY <1>2, <1>3, <1>4, <1>5 DEF TokenInv

(* The new row is the newest: no other store's limit counts it.            *)
LEMMA CreateRowInv ==
  ASSUME TokenInv, NEW t \in Token, CreateRow(t)
  PROVE  TokenInv'
<1> USE DEF CreateRow, At, history
<1>1. /\ created \in Nat /\ row \in [Token -> Nat] /\ store[t] \in StoreRec
      /\ \A u \in Token : row[u] <= created
  BY DEF TokenInv, TokenTypeOK, StoreRec, Ordered
<1>2. /\ row'[t] = created + 1 /\ \A u \in Token \ {t} : row'[u] = row[u]
      /\ store'[t] = [store[t] EXCEPT !.pc = "evict"]
      /\ \A u \in Token \ {t} : store'[u] = store[u]
  BY <1>1 DEF TokenInv, TokenTypeOK
<1>3. store'[t].pc = "evict" /\ store'[t].login = store[t].login /\ store'[t] \in StoreRec
  BY <1>1, <1>2 DEF StoreRec, StorePC
<1>4. TokenTypeOK'
  <2>1. store' \in [Token -> StoreRec] BY <1>1, <1>3 DEF TokenInv, TokenTypeOK, StoreRec
  <2>2. created' \in Nat /\ row' \in [Token -> Nat] BY <1>1
  <2> QED BY <2>1, <2>2 DEF TokenInv, TokenTypeOK, StoreRec
<1>5. ASSUME NEW u \in Token PROVE StoreShape(u)'
  <2>1. CASE u = t BY <1>1, <1>2, <1>3, <2>1 DEF TokenInv, StoreShape
  <2>2. CASE u # t BY <1>2, <2>2 DEF TokenInv, StoreShape
  <2> QED BY <2>1, <2>2
<1>6. Holds' BY DEF TokenInv, Holds
<1>7. Ordered' BY <1>1, <1>2 DEF TokenInv, Ordered
<1>8. Limits'
  <2>1. t \notin enforced /\ enforced \subseteq Token BY DEF TokenInv, StoreShape, TokenTypeOK
  <2>2. ASSUME NEW u \in Token \ {t}, NEW V, Cardinality(NoNewer(u, Active \ V)) <= MaxSessions
        PROVE  Cardinality(NoNewer(u, Active \ V)') <= MaxSessions
    <3> DEFINE S == NoNewer(u, Active \ V)
               T == NoNewer(u, Active \ V)'
    <3>1. ASSUME NEW k \in T PROVE k \in S
      <4>1. k \in Token /\ row'[k] <= row[u] /\ row[u] <= created
        BY <1>1, <1>2 DEF NoNewer, Active, Stored
      <4>2. k # t BY <1>1, <1>2, <4>1
      <4> QED BY <1>2, <4>1, <4>2 DEF NoNewer, Active, Stored
    <3>2. S \in SUBSET Active /\ T \in SUBSET S BY <3>1 DEF NoNewer
    <3> HIDE DEF S, T
    <3>3. Cardinality(S) <= MaxSessions BY <2>2 DEF S
    <3>4. Cardinality(T) <= MaxSessions BY <3>2, <3>3, Shrinks
    <3> QED BY <3>4 DEF T
  <2>3. ASSUME NEW u \in Token, store'[u].pc = "enforce"
        PROVE  Cardinality(NoNewer(u, Active \ store[u].victims)') <= MaxSessions
    <3>1. u # t /\ store'[u] = store[u] BY <1>2, <1>3, <2>3
    <3>2. Cardinality(NoNewer(u, Active \ store[u].victims)) <= MaxSessions
      BY <2>3, <3>1 DEF TokenInv, Limits
    <3> QED BY <2>2, <3>1, <3>2 DEF NoNewer
  <2>4. ASSUME NEW u \in enforced PROVE Cardinality(NoNewer(u, Active)') <= MaxSessions
    <3>1. Cardinality(NoNewer(u, Active \ {})) <= MaxSessions
      BY <2>4 DEF TokenInv, Limits, SessionLimit
    <3>2. Cardinality(NoNewer(u, Active \ {})') <= MaxSessions BY <2>1, <2>2, <3>1
    <3> QED BY <3>2
  <2> QED BY <2>3, <2>4 DEF Limits, SessionLimit
<1> QED BY <1>4, <1>5, <1>6, <1>7, <1>8 DEF TokenInv

(* Steps that only move the store on. *)
LEMMA MoveInv ==
  ASSUME TokenInv, NEW t \in Token,
         CreateFails(t) \/ DatabaseBusy(t) \/ RetryStore(t) \/ UntrackDelayedStore(t)
  PROVE  TokenInv'
<1> DEFINE s == store'[t]
<1>0. /\ store \in [Token -> StoreRec] /\ store[t] \in StoreRec /\ MaxStores \in Nat
      /\ pending \subseteq Token /\ enforced \subseteq Token /\ revoked \subseteq Token /\ StoreShape(t)
  BY TokenAssumption DEF TokenInv, TokenTypeOK, StoreRec
<1>1. CASE CreateFails(t)
  <2>1. store' = [store EXCEPT ![t] = s] /\ s = [store[t] EXCEPT !.pc = "abort"]
    BY <1>0, <1>1 DEF CreateFails, At
  <2>2. s \in StoreRec /\ s.pc = "abort" /\ s.login = store[t].login
    BY <1>0, <2>1 DEF StoreRec, StorePC
  <2>3. StoreShape(t)' BY <1>0, <1>1, <2>2 DEF CreateFails, StoreShape, table, history
  <2> HIDE DEF s
  <2> QED BY <1>0, <1>1, <2>1, <2>2, <2>3, StoreMoves DEF CreateFails, table, history
<1>2. CASE DatabaseBusy(t)
  <2>1. /\ store' = [store EXCEPT ![t] = s]
        /\ s = [store[t] EXCEPT !.pc = IF store[t].login /\ store[t].tries < MaxStores THEN "wait" ELSE "abort"]
    BY <1>0, <1>2 DEF DatabaseBusy, At
  <2>2. /\ s \in StoreRec /\ s.login = store[t].login /\ s.tries = store[t].tries
        /\ s.pc \in {"wait", "abort"} /\ (s.pc = "wait" => store[t].login /\ store[t].tries < MaxStores)
    BY <1>0, <2>1 DEF StoreRec, StorePC
  <2>3. StoreShape(t)' BY <1>0, <1>2, <2>2 DEF DatabaseBusy, StoreShape, table, history
  <2> HIDE DEF s
  <2> QED BY <1>0, <1>2, <2>1, <2>2, <2>3, StoreMoves DEF DatabaseBusy, table, history
<1>3. CASE RetryStore(t) /\ t \in pending
  <2>1. /\ store' = [store EXCEPT ![t] = s]
        /\ s = [store[t] EXCEPT !.pc = "create", !.tries = @ + 1]
    BY <1>0, <1>3 DEF RetryStore
  <2>2. store[t].tries + 1 \in 0 .. MaxStores BY <1>0, <1>3 DEF RetryStore, StoreShape, StoreRec
  <2>3. s \in StoreRec /\ s.pc = "create" /\ s.login = store[t].login
    BY <1>0, <2>1, <2>2 DEF StoreRec, StorePC
  <2>4. StoreShape(t)' BY <1>0, <1>3, <2>3 DEF RetryStore, StoreShape, table, history
  <2> HIDE DEF s
  <2> QED BY <1>0, <1>3, <2>1, <2>3, <2>4, StoreMoves DEF RetryStore, table, history
<1>4. CASE RetryStore(t) /\ t \notin pending
  <2>1. store' = [store EXCEPT ![t] = s] /\ s = [store[t] EXCEPT !.pc = "dropped"]
    BY <1>0, <1>4 DEF RetryStore, At
  <2>2. s \in StoreRec /\ s.pc = "dropped" /\ s.login = store[t].login
    BY <1>0, <2>1 DEF StoreRec, StorePC
  <2>3. StoreShape(t)' BY <1>0, <1>4, <2>2 DEF RetryStore, StoreShape, table, history
  <2> HIDE DEF s
  <2> QED BY <1>0, <1>4, <2>1, <2>2, <2>3, StoreMoves DEF RetryStore, table, history
<1>5. CASE UntrackDelayedStore(t)
  <2>1. /\ store' = [store EXCEPT ![t] = s]
        /\ s = [store[t] EXCEPT !.pc = IF store[t].pc = "settle" THEN "stored" ELSE "failed"]
    BY <1>0, <1>5 DEF UntrackDelayedStore, At
  <2>2. /\ s \in StoreRec /\ s.login = store[t].login
        /\ s.pc = IF store[t].pc = "settle" THEN "stored" ELSE "failed"
    BY <1>0, <2>1 DEF StoreRec, StorePC
  <2>3. StoreShape(t)' BY <1>0, <1>5, <2>2 DEF UntrackDelayedStore, StoreShape, table, history
  <2>4. /\ UNCHANGED <<row, created, revoked, known, rotated, enforced, refresher>>
        /\ pending' = pending \ {t}
    BY <1>5 DEF UntrackDelayedStore, table, history
  <2>5. s.pc # "enforce" BY <2>2
  <2> HIDE DEF s
  <2> QED BY <1>0, <2>1, <2>2, <2>3, <2>4, <2>5, StoreMoves
<1> QED BY <1>1, <1>2, <1>3, <1>4, <1>5

(* The rows found to evict are those with enough newer ones. *)
LEMMA EvictInv ==
  ASSUME TokenInv, NEW t \in Token, FindOldest(t) \/ RevokeOldest(t) \/ EvictionFails(t)
  PROVE  TokenInv'
<1> DEFINE s == store'[t]
<1>0. /\ store \in [Token -> StoreRec] /\ store[t] \in StoreRec
      /\ pending \subseteq Token /\ enforced \subseteq Token /\ revoked \subseteq Token /\ StoreShape(t)
      /\ Active \subseteq Token
  BY DEF TokenInv, TokenTypeOK, StoreRec, Active, Stored
<1>1. CASE FindOldest(t)
  <2> DEFINE v == {u \in Active : Cardinality(Newer(u)) >= MaxSessions}
  <2>1. store' = [store EXCEPT ![t] = s] /\ s = [store[t] EXCEPT !.pc = "enforce", !.victims = v]
    BY <1>0, <1>1 DEF FindOldest
  <2>2. v \in SUBSET Token BY <1>0
  <2>3. s \in StoreRec /\ s.pc = "enforce" /\ s.login = store[t].login /\ s.victims = v
    BY <1>0, <2>1, <2>2 DEF StoreRec, StorePC
  <2>4. Cardinality(NoNewer(t, Active \ v)) <= MaxSessions
    <3>1. ASSUME NEW u \in Active PROVE Cardinality(Newer(u)) \in Nat
      <4>1. Newer(u) \in SUBSET Token BY <1>0 DEF Newer
      <4> QED BY <4>1, TokenAssumption, FS_Subset, FS_CardinalityType
    <3>2. MaxSessions \in Nat BY TokenAssumption
    <3> DEFINE S == {u \in Active : Cardinality(Newer(u)) < MaxSessions}
               T == NoNewer(t, Active \ v)
    <3>3. S \in SUBSET Active /\ T \in SUBSET S BY <3>1, <3>2 DEF NoNewer
    <3>4. Cardinality(S) <= MaxSessions BY FewNewest
    <3> HIDE DEF S, T
    <3>5. Cardinality(T) <= MaxSessions BY <3>3, <3>4, Shrinks
    <3> QED BY <3>5 DEF T
  <2>5. StoreShape(t)' BY <1>0, <1>1, <2>3 DEF FindOldest, StoreShape, table, history
  <2> HIDE DEF s, v
  <2> QED BY <1>0, <1>1, <2>1, <2>3, <2>4, <2>5, StoreMoves DEF FindOldest, table, history
<1>2. CASE RevokeOldest(t)
  <2>1. store' = [store EXCEPT ![t] = s] /\ s = [store[t] EXCEPT !.pc = "settle", !.victims = {}]
    BY <1>0, <1>2 DEF RevokeOldest
  <2>2. s \in StoreRec /\ s.pc = "settle" /\ s.login = store[t].login
    BY <1>0, <2>1 DEF StoreRec, StorePC
  <2>3. Cardinality(NoNewer(t, Active')) <= MaxSessions
    <3>1. Active' = Active \ store[t].victims BY <1>2 DEF RevokeOldest, Active, Stored
    <3>2. Cardinality(NoNewer(t, Active \ store[t].victims)) <= MaxSessions
      BY <1>2 DEF RevokeOldest, TokenInv, Limits
    <3> QED BY <3>1, <3>2
  <2>4. /\ revoked \subseteq revoked' /\ revoked' \subseteq Token
        /\ enforced \subseteq enforced' /\ enforced' \subseteq enforced \union {t}
    BY <1>0, <1>2 DEF RevokeOldest, StoreRec
  <2>5. StoreShape(t)' BY <1>0, <1>2, <2>2 DEF RevokeOldest, StoreShape
  <2> HIDE DEF s
  <2> QED BY <1>0, <1>2, <2>1, <2>2, <2>3, <2>4, <2>5, StoreMoves DEF RevokeOldest
<1>3. CASE EvictionFails(t)
  <2>1. store' = [store EXCEPT ![t] = s] /\ s = [store[t] EXCEPT !.pc = "settle", !.victims = {}]
    BY <1>0, <1>3 DEF EvictionFails
  <2>2. s \in StoreRec /\ s.pc = "settle" /\ s.login = store[t].login
    BY <1>0, <2>1 DEF StoreRec, StorePC
  <2>3. StoreShape(t)' BY <1>0, <1>3, <2>2 DEF EvictionFails, StoreShape, table, history
  <2> HIDE DEF s
  <2> QED BY <1>0, <1>3, <2>1, <2>2, <2>3, StoreMoves DEF EvictionFails, table, history
<1> QED BY <1>1, <1>2, <1>3

(* A new token: nobody has it yet. *)
LEMMA IssueInv ==
  ASSUME TokenInv, NEW t \in Token, Register(t) \/ Login(t)
  PROVE  TokenInv'
<1> DEFINE s == store'[t]
<1>0. /\ store \in [Token -> StoreRec] /\ 0 \in 0 .. MaxStores
      /\ pending \subseteq Token /\ enforced \subseteq Token /\ revoked \subseteq Token /\ StoreShape(t)
  BY TokenAssumption DEF TokenInv, TokenTypeOK, StoreRec
<1>1. store[t].pc = "none" BY DEF Register, Login, Track, Generated
<1>2. CASE Register(t)
  <2>1. store' = [store EXCEPT ![t] = s] /\ s = [NotIssued EXCEPT !.pc = "create"]
    BY <1>0, <1>2 DEF Register
  <2>2. s \in StoreRec /\ s.pc = "create" /\ s.login = FALSE
    BY <1>0, <2>1 DEF StoreRec, StorePC, NotIssued
  <2>3. StoreShape(t)' BY <1>0, <1>1, <1>2, <2>2 DEF Register, StoreShape, table, history
  <2> HIDE DEF s
  <2> QED BY <1>0, <1>2, <2>1, <2>2, <2>3, StoreMoves DEF Register, table, history
<1>3. CASE Login(t)
  <2>1. store' = [store EXCEPT ![t] = s] /\ s = [NotIssued EXCEPT !.pc = "create", !.login = TRUE]
    BY <1>0, <1>3 DEF Login, Track
  <2>2. s \in StoreRec /\ s.pc = "create"
    BY <1>0, <2>1 DEF StoreRec, StorePC, NotIssued
  <2>3. StoreShape(t)' BY <1>0, <1>1, <1>3, <2>2 DEF Login, Track, StoreShape, table, history
  <2> HIDE DEF s
  <2> QED BY <1>0, <1>3, <2>1, <2>2, <2>3, StoreMoves DEF Login, Track, table, history
<1> QED BY <1>2, <1>3

-----------------------------------------------------------------------------
(* Requests *)

(* A step that moves no store and forgets no token that is not rotated. *)
LEMMA RequestStep ==
  ASSUME TokenInv,
         UNCHANGED <<row, created, store, enforced>>,
         revoked \subseteq revoked', revoked' \subseteq Token,
         known' \subseteq Token, rotated \subseteq rotated', rotated' \subseteq Token,
         pending' \subseteq Token, pending \subseteq pending' \union rotated',
         refresher' \in [Refreshers -> [pc : {"idle", "lookup", "revoke", "untrack", "issue"},
                                        tok : Token \union {NoToken}]],
         Holds',
         \A t \in known' \ known : store[t].pc = "stored" \/ (store[t].login /\ store[t].pc # "none")
  PROVE  TokenInv'
<1>1. TokenTypeOK' BY DEF TokenInv, TokenTypeOK
<1>2. ASSUME NEW t \in Token PROVE StoreShape(t)'
  <2>1. t \in known' => store[t].pc = "stored" \/ (store[t].login /\ store[t].pc # "none")
    BY DEF TokenInv, StoreShape
  <2>2. t \in pending \union rotated => t \in pending' \union rotated' OBVIOUS
  <2> QED BY <2>1, <2>2 DEF TokenInv, StoreShape
<1>3. Ordered' BY DEF TokenInv, Ordered
<1>4. Limits'
  <2>1. enforced \subseteq Token BY DEF TokenInv, TokenTypeOK
  <2>2. /\ UNCHANGED <<row, created>> /\ revoked \subseteq revoked'
        /\ \A t \in Token : store'[t].pc = "enforce" =>
             \/ store[t].pc = "enforce" /\ store'[t].victims = store[t].victims
             \/ Cardinality(NoNewer(t, Active \ store'[t].victims)) <= MaxSessions
        /\ enforced' \subseteq Token
        /\ \A t \in enforced' : t \in enforced \/ Cardinality(NoNewer(t, Active')) <= MaxSessions
    BY <2>1
  <2> QED BY <2>2, LimitsKept
<1> QED BY <1>1, <1>2, <1>3, <1>4 DEF TokenInv

LEMMA RequestInv ==
  ASSUME TokenInv,
         \/ RevokeAll
         \/ \E t \in Token : ReturnPair(t)
         \/ \E q \in Refreshers :
              \/ RefreshLookup(q) \/ RefreshRefuse(q) \/ RefreshRevoke(q) \/ RefreshUntrack(q)
              \/ \E t \in Token : RefreshFind(q, t)
  PROVE  TokenInv'
<1>0. /\ pending \subseteq Token /\ revoked \subseteq Token /\ known \subseteq Token /\ rotated \subseteq Token
      /\ Stored \subseteq Token /\ Holds
      /\ refresher \in [Refreshers -> [pc : {"idle", "lookup", "revoke", "untrack", "issue"},
                                       tok : Token \union {NoToken}]]
  BY DEF TokenInv, TokenTypeOK, Stored
<1>1. CASE RevokeAll
  <2>1. /\ UNCHANGED <<row, created, store, pending, known, rotated, enforced, refresher>>
        /\ revoked \subseteq revoked' /\ revoked' \subseteq Token
    BY <1>0, <1>1 DEF RevokeAll, history
  <2>2. Holds' BY <1>0, <2>1 DEF Holds
  <2> QED BY <1>0, <2>1, <2>2, RequestStep
<1>2. ASSUME NEW t \in Token, ReturnPair(t) PROVE TokenInv'
  <2>1. /\ UNCHANGED <<row, created, revoked, store, pending, rotated, enforced, refresher>>
        /\ known' = known \union {t}
        /\ store[t].pc = "stored" \/ (store[t].login /\ store[t].pc # "none")
    BY <1>2 DEF ReturnPair, table, history
  <2>2. Holds' BY <1>0, <2>1 DEF Holds
  <2> QED BY <1>0, <2>1, <2>2, RequestStep
<1>3. ASSUME NEW q \in Refreshers, NEW t \in Token, RefreshFind(q, t) PROVE TokenInv'
  <2>1. /\ UNCHANGED <<row, created, revoked, store, pending, known, rotated, enforced>>
        /\ refresher' = [refresher EXCEPT ![q] = [pc |-> IF t \in Stored THEN "revoke" ELSE "lookup", tok |-> t]]
    BY <1>3 DEF RefreshFind, table, history
  <2>2. /\ refresher' \in [Refreshers -> [pc : {"idle", "lookup", "revoke", "untrack", "issue"},
                                         tok : Token \union {NoToken}]]
        /\ Holds'
    BY <1>0, <2>1 DEF Holds
  <2> QED BY <1>0, <2>1, <2>2, RequestStep
<1>4. ASSUME NEW q \in Refreshers, RefreshLookup(q) \/ RefreshRefuse(q) PROVE TokenInv'
  <2>1. /\ UNCHANGED <<row, created, revoked, store, pending, known, rotated, enforced>>
        /\ refresher' = [refresher EXCEPT ![q].pc = "revoke"] \/ refresher' = [refresher EXCEPT ![q] = RefresherIdle]
        /\ refresher[q].pc \in {"lookup", "revoke"}
    BY <1>4 DEF RefreshLookup, RefreshRefuse, Goes, table, history
  <2>2. /\ refresher' \in [Refreshers -> [pc : {"idle", "lookup", "revoke", "untrack", "issue"},
                                         tok : Token \union {NoToken}]]
        /\ Holds'
    BY <1>0, <2>1 DEF Holds, RefresherIdle
  <2> QED BY <1>0, <2>1, <2>2, RequestStep
<1>5. ASSUME NEW q \in Refreshers, RefreshRevoke(q) PROVE TokenInv'
  <2>1. /\ UNCHANGED <<row, created, store, pending, known, rotated, enforced>>
        /\ revoked \subseteq revoked' /\ revoked' \subseteq Token
        /\ refresher' = [refresher EXCEPT ![q].pc = "untrack"] /\ refresher[q].pc = "revoke"
    BY <1>0, <1>5 DEF RefreshRevoke, Goes, history
  <2>2. /\ refresher' \in [Refreshers -> [pc : {"idle", "lookup", "revoke", "untrack", "issue"},
                                         tok : Token \union {NoToken}]]
        /\ Holds'
    BY <1>0, <2>1 DEF Holds
  <2> QED BY <1>0, <2>1, <2>2, RequestStep
<1>6. ASSUME NEW q \in Refreshers, RefreshUntrack(q) PROVE TokenInv'
  <2>1. /\ UNCHANGED <<row, created, revoked, store, known, enforced>>
        /\ refresher' = [refresher EXCEPT ![q].pc = "issue"] /\ refresher[q].pc = "untrack"
        /\ pending' = pending \ {refresher[q].tok} /\ rotated' = rotated \union {refresher[q].tok}
    BY <1>6 DEF RefreshUntrack, Goes, table
  <2>2. refresher[q].tok \in Token BY <1>0, <2>1 DEF Holds
  <2>3. /\ refresher' \in [Refreshers -> [pc : {"idle", "lookup", "revoke", "untrack", "issue"},
                                         tok : Token \union {NoToken}]]
        /\ Holds'
    BY <1>0, <2>1 DEF Holds
  <2> QED BY <1>0, <2>1, <2>2, <2>3, RequestStep
<1> QED BY <1>1, <1>2, <1>3, <1>4, <1>5, <1>6

(* The end of a Refresh is a login, by a request that then rests. *)
LEMMA RefreshIssueInv ==
  ASSUME TokenInv, NEW q \in Refreshers, NEW t \in Token, RefreshIssue(q, t)
  PROVE  TokenInv'
<1> DEFINE s == store'[t]
<1>0. /\ store \in [Token -> StoreRec] /\ 0 \in 0 .. MaxStores
      /\ pending \subseteq Token /\ enforced \subseteq Token /\ StoreShape(t)
  BY TokenAssumption DEF TokenInv, TokenTypeOK, StoreRec
<1>1. /\ UNCHANGED <<row, created, revoked, known, rotated, enforced>>
      /\ store[t].pc = "none" /\ pending' = pending \union {t}
      /\ store' = [store EXCEPT ![t] = [NotIssued EXCEPT !.pc = "create", !.login = TRUE]]
      /\ refresher' = [refresher EXCEPT ![q] = RefresherIdle]
  BY DEF RefreshIssue, Track, Generated, table, history
<1>2. /\ s \in StoreRec /\ s.pc = "create" /\ s.login
      /\ \A u \in Token \ {t} : store'[u] = store[u]
  BY <1>0, <1>1 DEF StoreRec, StorePC, NotIssued
<1>3. TokenTypeOK'
  <2>1. store' \in [Token -> StoreRec] BY <1>0, <1>1, <1>2
  <2>2. refresher' \in [Refreshers -> [pc : {"idle", "lookup", "revoke", "untrack", "issue"},
                                      tok : Token \union {NoToken}]]
    BY <1>1 DEF TokenInv, TokenTypeOK, RefresherIdle
  <2> QED BY <1>1, <2>1, <2>2 DEF TokenInv, TokenTypeOK, StoreRec
<1> HIDE DEF s
<1>4. ASSUME NEW u \in Token PROVE StoreShape(u)'
  <2>1. CASE u = t BY <1>0, <1>1, <1>2, <2>1 DEF StoreShape, s
  <2>2. CASE u # t BY <1>1, <1>2, <2>2 DEF TokenInv, StoreShape
  <2> QED BY <2>1, <2>2
<1>5. Holds' BY <1>1 DEF TokenInv, TokenTypeOK, Holds, RefresherIdle
<1>6. Ordered' BY <1>1 DEF TokenInv, Ordered
<1>7. Limits'
  <2>1. \A u \in Token : store'[u].pc = "enforce" => store[u].pc = "enforce" /\ store'[u].victims = store[u].victims
    BY <1>2 DEF s
  <2> QED BY <1>0, <1>1, <2>1, LimitsKept
<1> QED BY <1>3, <1>4, <1>5, <1>6, <1>7 DEF TokenInv

-----------------------------------------------------------------------------
LEMMA StepTokenInv == TokenInv /\ [TokenNext]_TokenVars => TokenInv'
<1> SUFFICES ASSUME TokenInv, [TokenNext]_TokenVars PROVE TokenInv' OBVIOUS
<1>1. ASSUME NEW t \in Token, Register(t) \/ Login(t) PROVE TokenInv' BY <1>1, IssueInv
<1>2. ASSUME NEW t \in Token, CreateRow(t) PROVE TokenInv' BY <1>2, CreateRowInv
<1>3. ASSUME NEW t \in Token, CreateFails(t) \/ DatabaseBusy(t) \/ RetryStore(t) \/ UntrackDelayedStore(t)
      PROVE  TokenInv'
  BY <1>3, MoveInv
<1>4. ASSUME NEW t \in Token, FindOldest(t) \/ RevokeOldest(t) \/ EvictionFails(t) PROVE TokenInv'
  BY <1>4, EvictInv
<1>5. ASSUME \/ RevokeAll
             \/ \E t \in Token : ReturnPair(t)
             \/ \E q \in Refreshers :
                  \/ RefreshLookup(q) \/ RefreshRefuse(q) \/ RefreshRevoke(q) \/ RefreshUntrack(q)
                  \/ \E t \in Token : RefreshFind(q, t)
      PROVE  TokenInv'
  BY <1>5, RequestInv
<1>6. ASSUME NEW q \in Refreshers, NEW t \in Token, RefreshIssue(q, t) PROVE TokenInv' BY <1>6, RefreshIssueInv
<1>7. CASE UNCHANGED TokenVars
  <2> USE <1>7 DEF TokenVars, TokenInv
  <2>1. TokenTypeOK' BY DEF TokenTypeOK
  <2>2. \A t \in Token : StoreShape(t)' BY DEF StoreShape
  <2>3. Holds' /\ Ordered' BY DEF Holds, Ordered
  <2>4. Limits' BY DEF Limits, SessionLimit, NoNewer, Active, Stored
  <2> QED BY <2>1, <2>2, <2>3, <2>4
<1> QED BY <1>1, <1>2, <1>3, <1>4, <1>5, <1>6, <1>7 DEF TokenNext, StoreStep

(* For any tokens, requests and retries: the variables have their types,   *)
(* and a token the client has is stored, pending, replaced, or failed.     *)
THEOREM TokensNotLost == TokenSpec => [](TokenTypeOK /\ TokenNotLost)
<1>1. TokenInit => TokenInv BY InitTokenInv
<1>2. TokenInv /\ [TokenNext]_TokenVars => TokenInv' BY StepTokenInv
<1>3. TokenInv => TokenTypeOK /\ TokenNotLost
  <2> SUFFICES ASSUME TokenInv, NEW t \in known
               PROVE  t \in Stored \/ t \in pending \/ t \in rotated \/ store[t].pc = "failed"
    BY DEF TokenInv, TokenNotLost
  <2>1. t \in Token /\ StoreShape(t) /\ store[t].pc \in StorePC BY DEF TokenInv, TokenTypeOK
  <2> QED BY <2>1 DEF StoreShape, StorePC, Stored
<1> QED BY <1>1, <1>2, <1>3, PTL DEF TokenSpec

(* For any tokens and any limit: once the store of a row has enforced the  *)
(* session limit, it holds for this row and the older ones.                *)
THEOREM SessionsLimited == TokenSpec => []SessionLimit
<1>1. TokenInit => TokenInv BY InitTokenInv
<1>2. TokenInv /\ [TokenNext]_TokenVars => TokenInv' BY StepTokenInv
<1>3. TokenInv => SessionLimit BY DEF TokenInv, Limits
<1> QED BY <1>1, <1>2, <1>3, PTL DEF TokenSpec

-----------------------------------------------------------------------------
(* Replaced tokens                                                         *)

(* A token that a Refresh has replaced is not pending, and never will be:  *)
(* only a token that nobody has yet becomes pending.                       *)
Replaced ==
  /\ \A t \in rotated : t \notin pending /\ store[t].pc # "none"
  /\ \A q \in Refreshers : refresher[q].pc # "idle" => refresher[q].tok \in known

(* It was replaced while its store waited. *)
GivenUp(t) == t \in rotated /\ store[t].pc \in {"wait", "dropped"}

(* Where the store of a token goes in one step. *)
StoreGoes(t) ==
  /\ store[t].pc # "none" => store'[t].pc # "none"
  /\ store[t].pc = "wait" => store'[t].pc \in {"wait", "dropped"} \/ t \in pending
  /\ store[t].pc = "dropped" => store'[t].pc = "dropped"

LEMMA StoresGo ==
  ASSUME TokenInv, [TokenNext]_TokenVars, NEW t \in Token
  PROVE  StoreGoes(t)
<1>0. store \in [Token -> StoreRec] BY DEF TokenInv, TokenTypeOK, StoreRec
<1>1. ASSUME NEW u \in Token, NEW s, store' = [store EXCEPT ![u] = s],
             store[u].pc \notin {"wait", "dropped"}, s.pc # "none"
      PROVE  StoreGoes(t)
  <2>1. CASE u = t BY <1>0, <1>1, <2>1 DEF StoreGoes
  <2>2. CASE u # t
    <3>1. store'[t] = store[t] BY <1>0, <1>1, <2>2
    <3> QED BY <3>1 DEF StoreGoes
  <2> QED BY <2>1, <2>2
<1>2. CASE store' = store BY <1>2 DEF StoreGoes
<1>3. ASSUME NEW u \in Token, Register(u) \/ Login(u) \/ \E q \in Refreshers : RefreshIssue(q, u)
      PROVE  StoreGoes(t)
  <2> DEFINE s == store'[u]
  <2>1. /\ store[u].pc = "none"
        /\ \/ store' = [store EXCEPT ![u] = [NotIssued EXCEPT !.pc = "create"]]
           \/ store' = [store EXCEPT ![u] = [NotIssued EXCEPT !.pc = "create", !.login = TRUE]]
    BY <1>3 DEF Register, Login, RefreshIssue, Track, Generated
  <2>2. store' = [store EXCEPT ![u] = s] /\ s.pc = "create"
    BY <1>0, <2>1 DEF NotIssued
  <2> HIDE DEF s
  <2> QED BY <1>1, <2>1, <2>2
<1>4. ASSUME NEW u \in Token, StoreStep(u), ~RetryStore(u) PROVE StoreGoes(t)
  <2> DEFINE s == store'[u]
  <2>1. /\ store[u].pc \notin {"wait", "dropped"}
        /\ \/ \E p \in StorePC \ {"none"} : store' = [store EXCEPT ![u].pc = p]
           \/ \E p \in StorePC \ {"none"} : \E v : store' = [store EXCEPT ![u].pc = p, ![u].victims = v]
    BY <1>4 DEF StoreStep, CreateRow, CreateFails, DatabaseBusy, FindOldest, RevokeOldest, EvictionFails,
                UntrackDelayedStore, At, StorePC
  <2>2. store' = [store EXCEPT ![u] = s] /\ s.pc # "none"
    BY <1>0, <2>1 DEF StoreRec
  <2> HIDE DEF s
  <2> QED BY <1>1, <2>1, <2>2
<1>5. ASSUME NEW u \in Token, RetryStore(u) PROVE StoreGoes(t)
  <2>1. CASE u # t
    <3>1. store'[t] = store[t] BY <1>0, <1>5, <2>1 DEF RetryStore, At
    <3> QED BY <3>1 DEF StoreGoes
  <2>2. CASE u = t
    <3>1. store[t].pc = "wait" /\ store'[t].pc = IF t \in pending THEN "create" ELSE "dropped"
      BY <1>0, <1>5, <2>2 DEF RetryStore, At, StoreRec
    <3> QED BY <3>1 DEF StoreGoes
  <2> QED BY <2>1, <2>2
<1>6. CASE \/ UNCHANGED TokenVars \/ RevokeAll
           \/ \E u \in Token : ReturnPair(u)
           \/ \E q \in Refreshers :
                \/ RefreshLookup(q) \/ RefreshRefuse(q) \/ RefreshRevoke(q) \/ RefreshUntrack(q)
                \/ \E u \in Token : RefreshFind(q, u)
  BY <1>2, <1>6 DEF TokenVars, RevokeAll, ReturnPair, RefreshLookup, RefreshRefuse, RefreshRevoke,
                    RefreshUntrack, RefreshFind
<1> QED BY <1>3, <1>4, <1>5, <1>6 DEF TokenNext

LEMMA StepReplaced == TokenInv /\ Replaced /\ [TokenNext]_TokenVars => Replaced'
<1> SUFFICES ASSUME TokenInv, Replaced, [TokenNext]_TokenVars PROVE Replaced' OBVIOUS
<1>0. /\ rotated \subseteq Token /\ pending \subseteq Token /\ known \subseteq Token
      /\ refresher \in [Refreshers -> [pc : {"idle", "lookup", "revoke", "untrack", "issue"},
                                       tok : Token \union {NoToken}]]
      /\ \A t \in known : store[t].pc # "none"
  BY DEF TokenInv, TokenTypeOK, StoreShape
<1>1. \A t \in Token : store[t].pc # "none" => store'[t].pc # "none" BY StoresGo DEF StoreGoes
(* The steps of stores and of other requests replace no token. *)
<1>2. ASSUME UNCHANGED <<rotated, refresher>>, known \subseteq known',
             \A t \in pending' \ pending : store[t].pc = "none"
      PROVE  Replaced'
  BY <1>0, <1>1, <1>2 DEF Replaced
<1>3. ASSUME NEW q \in Refreshers, UNCHANGED known,
             \A t \in pending' \ pending : store[t].pc = "none",
             \A t \in rotated' : t \in rotated \/ (t \in known /\ t \notin pending'),
             \A p \in Refreshers \ {q} : refresher'[p] = refresher[p],
             refresher'[q].pc # "idle" => refresher'[q].tok \in known
      PROVE  Replaced'
  BY <1>0, <1>1, <1>3 DEF Replaced
<1>4. ASSUME NEW t \in Token, Register(t) \/ Login(t) \/ StoreStep(t) \/ ReturnPair(t)
      PROVE  Replaced'
  <2>1. /\ UNCHANGED <<rotated, refresher>> /\ known \subseteq known'
        /\ (pending' = pending \union {t} /\ store[t].pc = "none") \/ pending' \subseteq pending
    BY <1>4 DEF Register, Login, Track, Generated, ReturnPair, StoreStep, CreateRow, CreateFails, DatabaseBusy,
                RetryStore, FindOldest, RevokeOldest, EvictionFails, UntrackDelayedStore, table, history
  <2> QED BY <1>2, <2>1
<1>5. ASSUME NEW q \in Refreshers, RefreshLookup(q) \/ RefreshRefuse(q) \/ RefreshRevoke(q)
      PROVE  Replaced'
  <2>1. /\ UNCHANGED <<known, pending, rotated>> /\ refresher[q].pc # "idle"
        /\ \/ \E p \in {"revoke", "untrack"} : refresher' = [refresher EXCEPT ![q].pc = p]
           \/ refresher' = [refresher EXCEPT ![q] = RefresherIdle]
    BY <1>5 DEF RefreshLookup, RefreshRefuse, RefreshRevoke, Goes, table, history
  <2>2. /\ \A p \in Refreshers \ {q} : refresher'[p] = refresher[p]
        /\ refresher'[q].pc # "idle" => refresher'[q].tok = refresher[q].tok
    BY <1>0, <2>1 DEF RefresherIdle
  <2> QED BY <1>3, <2>1, <2>2 DEF Replaced
<1>6. ASSUME NEW q \in Refreshers, RefreshUntrack(q) PROVE Replaced'
  <2>1. /\ UNCHANGED known /\ refresher[q].pc = "untrack"
        /\ pending' = pending \ {refresher[q].tok} /\ rotated' = rotated \union {refresher[q].tok}
        /\ refresher' = [refresher EXCEPT ![q].pc = "issue"]
    BY <1>6 DEF RefreshUntrack, Goes, table
  <2>2. /\ \A p \in Refreshers \ {q} : refresher'[p] = refresher[p]
        /\ refresher'[q].tok = refresher[q].tok /\ refresher[q].tok \in known
    BY <1>0, <2>1 DEF Replaced
  <2> QED BY <1>3, <2>1, <2>2
<1>7. ASSUME NEW q \in Refreshers, NEW t \in Token, RefreshFind(q, t) \/ RefreshIssue(q, t)
      PROVE  Replaced'
  <2>1. /\ UNCHANGED <<known, rotated>>
        /\ \A p \in Refreshers \ {q} : refresher'[p] = refresher[p]
        /\ refresher'[q].pc # "idle" => refresher'[q].tok \in known
        /\ (pending' = pending \union {t} /\ store[t].pc = "none") \/ pending' \subseteq pending
    BY <1>0, <1>7 DEF RefreshFind, RefreshIssue, Track, Generated, table, history, RefresherIdle
  <2> QED BY <1>3, <2>1
<1>8. CASE RevokeAll \/ UNCHANGED TokenVars
  BY <1>2, <1>8 DEF RevokeAll, TokenVars, history
<1> QED BY <1>4, <1>5, <1>6, <1>7, <1>8 DEF TokenNext

LEMMA StaysGivenUp ==
  ASSUME NEW t \in Token
  PROVE  TokenInv /\ Replaced /\ GivenUp(t) /\ [TokenNext]_TokenVars => GivenUp(t)'
<1> SUFFICES ASSUME TokenInv, Replaced, GivenUp(t), [TokenNext]_TokenVars PROVE GivenUp(t)' OBVIOUS
<1>1. store'[t].pc \in {"wait", "dropped"} BY StoresGo DEF StoreGoes, GivenUp, Replaced
<1>2. rotated \subseteq rotated'
  BY DEF TokenNext, Register, Login, Track, ReturnPair, StoreStep, CreateRow, CreateFails, DatabaseBusy,
         RetryStore, FindOldest, RevokeOldest, EvictionFails, UntrackDelayedStore, RevokeAll,
         RefreshLookup, RefreshRefuse, RefreshRevoke, RefreshUntrack, RefreshFind, RefreshIssue,
         TokenVars, table, history
<1> QED BY <1>1, <1>2 DEF GivenUp

(* For any tokens, requests and retries: a token replaced while its store  *)
(* waited for the next attempt never becomes a session, since the attempt  *)
(* looks for its pending entry, which the Refresh removed for good.        *)
THEOREM ReplacedStayOut == TokenSpec => ReplacedNotRevived
<1>1. TokenInit => TokenInv BY InitTokenInv
<1>2. TokenInv /\ [TokenNext]_TokenVars => TokenInv' BY StepTokenInv
<1>3. TokenInit => Replaced BY DEF TokenInit, Replaced, RefresherIdle
<1>4. TokenInv /\ Replaced /\ [TokenNext]_TokenVars => Replaced' BY StepReplaced
<1>5. ASSUME NEW t \in Token
      PROVE  TokenSpec => [](t \in rotated /\ store[t].pc = "wait" => [](t \notin Active))
  <2>1. TokenInv /\ Replaced /\ GivenUp(t) /\ [TokenNext]_TokenVars => GivenUp(t)' BY StaysGivenUp
  <2>2. t \in rotated /\ store[t].pc = "wait" => GivenUp(t) BY DEF GivenUp
  <2>3. TokenInv /\ GivenUp(t) => t \notin Active BY DEF TokenInv, StoreShape, GivenUp, Active, Stored
  <2> QED BY <1>1, <1>2, <1>3, <1>4, <2>1, <2>2, <2>3, PTL DEF TokenSpec
<1>6. TokenSpec => \A t \in Token : [](t \in rotated /\ store[t].pc = "wait" => [](t \notin Active))
  BY <1>5
<1> QED BY <1>6 DEF ReplacedNotRevived
=============================================================================
