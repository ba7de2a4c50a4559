----------------------------- MODULE RefreshToken -----------------------------
(***************************************************************************)
(* The refresh tokens of one user: token_svc.go and token_svc_pending.go   *)
(* in internal/service, over refresh_token_repository.go; no operation     *)
(* touches two users.                                                      *)
(*                                                                         *)
(* A login must not fail because the database is busy: its token is        *)
(* remembered as pending, stored by a goroutine, and retried when the      *)
(* database was busy; the client has the token before that.  Refresh takes *)
(* a stored or a pending token and issues the next one.  Logins, refreshes,*)
(* the storing goroutines and "revoke all" share the table and, under a    *)
(* mutex, the map of pending tokens.                                       *)
(***************************************************************************)
EXTENDS Naturals, FiniteSets

CONSTANTS
  Token,         \* bound: the tokens ever generated
  NoToken,
  Refreshers,    \* bound: requests that run Refresh at one time
  MaxSessions,   \* maxActiveRefreshTokens
  MaxStores      \* the retries of storeRefreshTokenEventually

ASSUME TokenAssumption ==
  /\ NoToken \notin Token /\ IsFiniteSet(Token)
  /\ MaxSessions \in Nat \ {0} /\ MaxStores \in Nat \ {0}

VARIABLES
  row,       \* when each token's row was created, 0: it has none
  created,   \* how many rows were
  revoked,   \* the rows with revoked set
  pending,   \* the keys of delayedStores
  store,     \* where the storing of each token is
  known,     \* the tokens the client has been given
  rotated,   \* history: the tokens a Refresh has replaced
  enforced,  \* history: the tokens whose store enforced the session limit
  refresher  \* the requests that run Refresh

TokenVars == <<row, created, revoked, pending, store, known, rotated, enforced, refresher>>

Stored == {t \in Token : row[t] > 0}
Active == Stored \ revoked

StorePC == {"none", "create", "evict", "enforce", "wait", "settle", "abort",
            "stored", "failed", "dropped"}

TokenTypeOK ==
  /\ row \in [Token -> Nat] /\ created \in Nat
  /\ revoked \subseteq Token /\ pending \subseteq Token
  /\ store \in [Token -> [pc : StorePC, login : BOOLEAN, tries : 0 .. MaxStores, victims : SUBSET Token]]
  /\ known \subseteq Token /\ rotated \subseteq Token /\ enforced \subseteq Token
  /\ refresher \in [Refreshers -> [pc : {"idle", "lookup", "revoke", "untrack", "issue"},
                                   tok : Token \union {NoToken}]]

NotIssued == [pc |-> "none", login |-> FALSE, tries |-> 0, victims |-> {}]
RefresherIdle == [pc |-> "idle", tok |-> NoToken]

TokenInit ==
  /\ row = [t \in Token |-> 0] /\ created = 0
  /\ revoked = {} /\ pending = {}
  /\ store = [t \in Token |-> NotIssued]
  /\ known = {} /\ rotated = {} /\ enforced = {}
  /\ refresher = [q \in Refreshers |-> RefresherIdle]

table   == <<row, created, revoked>>
history == <<rotated, enforced>>

-----------------------------------------------------------------------------
(* Issuing and storing *)

(* generateRefreshToken: no two are the same. *)
Generated(t) == store[t].pc = "none" /\ t = CHOOSE u \in Token : store[u].pc = "none"

(* IssuePair: the request waits for the store. *)
Register(t) ==
  /\ Generated(t)
  /\ store' = [store EXCEPT ![t] = [NotIssued EXCEPT !.pc = "create"]]
  /\ UNCHANGED <<table, pending, known, history, refresher>>

(* IssuePairBestEffort, up to the start of the storing goroutine *)
Track(t) ==
  /\ Generated(t)
  /\ store' = [store EXCEPT ![t] = [NotIssued EXCEPT !.pc = "create", !.login = TRUE]]
  /\ pending' = pending \union {t}

Login(t) == Track(t) /\ UNCHANGED <<table, known, history, refresher>>

At(t, pc) == [store EXCEPT ![t].pc = pc]

CreateRow(t) ==
  /\ store[t].pc = "create"
  /\ created' = created + 1
  /\ row' = [row EXCEPT ![t] = created']
  /\ store' = At(t, "evict")
  /\ UNCHANGED <<revoked, pending, known, history, refresher>>

(* finishBestEffortRefreshTokenStore and the loop of                       *)
(* storeRefreshTokenEventually tell a busy database from other errors.     *)
CreateFails(t) ==
  /\ store[t].pc = "create"
  /\ store' = At(t, "abort")
  /\ UNCHANGED <<table, pending, known, history, refresher>>

(* Variant: the pending token is forgotten before the retries. *)
ForgetBusy(t) ==
  /\ store[t].pc = "create"
  /\ store' = At(t, IF store[t].login /\ store[t].tries < MaxStores THEN "wait" ELSE "abort")
  /\ pending' = pending \ {t}
  /\ UNCHANGED <<table, known, history, refresher>>

(* Variant: one retry too many. *)
BusyOnceMore(t) ==
  /\ store[t].pc = "create"
  /\ store' = At(t, IF store[t].login /\ store[t].tries <= MaxStores THEN "wait" ELSE "abort")
  /\ UNCHANGED <<table, pending, known, history, refresher>>

DatabaseBusy(t) ==
  /\ store[t].pc = "create"
  /\ store' = At(t, IF store[t].login /\ store[t].tries < MaxStores THEN "wait" ELSE "abort")
  /\ UNCHANGED <<table, pending, known, history, refresher>>

(* Variant: no second look at the pending map. *)
StoreRegardless(t) ==
  /\ store[t].pc = "wait"
  /\ store' = [store EXCEPT ![t].pc = "create", ![t].tries = @ + 1]
  /\ UNCHANGED <<table, pending, known, history, refresher>>

(* The timer of the next attempt. *)
RetryStore(t) ==
  /\ store[t].pc = "wait"
  /\ store' = IF t \in pending THEN [store EXCEPT ![t].pc = "create", ![t].tries = @ + 1]
                               ELSE At(t, "dropped")
  /\ UNCHANGED <<table, pending, known, history, refresher>>

Newer(t) == {u \in Active : row[u] > row[t]}

(* Variant: one session too many is left. *)
LimitOffByOne(t) ==
  /\ store[t].pc = "evict"
  /\ store' = [store EXCEPT ![t].pc = "enforce",
                            ![t].victims = {u \in Active : Cardinality(Newer(u)) > MaxSessions}]
  /\ UNCHANGED <<table, pending, known, history, refresher>>

(* RevokeOldestActiveByUserID reads the rows, then updates. *)
FindOldest(t) ==
  /\ store[t].pc = "evict"
  /\ store' = [store EXCEPT ![t].pc = "enforce",
                            ![t].victims = {u \in Active : Cardinality(Newer(u)) >= MaxSessions}]
  /\ UNCHANGED <<table, pending, known, history, refresher>>

RevokeOldest(t) ==
  /\ store[t].pc = "enforce"
  /\ revoked' = revoked \union store[t].victims
  /\ enforced' = enforced \union {t}
  /\ store' = [store EXCEPT ![t].pc = "settle", ![t].victims = {}]
  /\ UNCHANGED <<row, created, pending, known, rotated, refresher>>

(* Only logged. *)
EvictionFails(t) ==
  /\ store[t].pc \in {"evict", "enforce"}
  /\ store' = [store EXCEPT ![t].pc = "settle", ![t].victims = {}]
  /\ UNCHANGED <<table, pending, known, history, refresher>>

(* Variant: a store that failed for good leaves its pending entry. *)
UntrackStored(t) ==
  /\ store[t].pc \in {"settle", "abort"}
  /\ pending' = IF store[t].pc = "settle" THEN pending \ {t} ELSE pending
  /\ store' = At(t, IF store[t].pc = "settle" THEN "stored" ELSE "failed")
  /\ UNCHANGED <<table, known, history, refresher>>

UntrackDelayedStore(t) ==
  /\ store[t].pc \in {"settle", "abort"}
  /\ pending' = pending \ {t}
  /\ store' = At(t, IF store[t].pc = "settle" THEN "stored" ELSE "failed")
  /\ UNCHANGED <<table, known, history, refresher>>

(* The request answers its client: after the store, or, for a login, after *)
(* waiting long enough for the first attempt.                              *)
ReturnPair(t) ==
  /\ t \notin known
  /\ \/ store[t].pc = "stored"
     \/ store[t].login /\ store[t].pc \in {"failed", "dropped"}
     \/ store[t].login /\ store[t].tries = 0 /\ store[t].pc \in {"create", "evict", "enforce", "settle", "abort"}
  /\ known' = known \union {t}
  /\ UNCHANGED <<table, pending, store, history, refresher>>

-----------------------------------------------------------------------------
(* Refresh *)

Goes(q, pc) == [refresher EXCEPT ![q].pc = pc]

(* FindByHash; a revoked token is refused. *)
RefreshFind(q, t) ==
  /\ refresher[q].pc = "idle" /\ t \in known \ revoked
  /\ refresher' = [refresher EXCEPT ![q] = [pc |-> IF t \in Stored THEN "revoke" ELSE "lookup", tok |-> t]]
  /\ UNCHANGED <<table, pending, store, known, history>>

(* pendingDelayedStore; a token that is not there either is refused. *)
RefreshLookup(q) ==
  /\ refresher[q].pc = "lookup"
  /\ refresher' = IF refresher[q].tok \in pending THEN Goes(q, "revoke")
                  ELSE [refresher EXCEPT ![q] = RefresherIdle]
  /\ UNCHANGED <<table, pending, store, known, history>>

(* The token has expired, or its user is gone, inactive or expired. *)
RefreshRefuse(q) ==
  /\ refresher[q].pc = "revoke"
  /\ refresher' = [refresher EXCEPT ![q] = RefresherIdle]
  /\ UNCHANGED <<table, pending, store, known, history>>

(* Revoke updates the rows there are; its failure is only logged. *)
RefreshRevoke(q) ==
  /\ refresher[q].pc = "revoke"
  /\ revoked' \in {revoked, revoked \union ({refresher[q].tok} \intersect Stored)}
  /\ refresher' = Goes(q, "untrack")
  /\ UNCHANGED <<row, created, pending, store, known, history>>

RefreshUntrack(q) ==
  /\ refresher[q].pc = "untrack"
  /\ pending' = pending \ {refresher[q].tok}
  /\ rotated' = rotated \union {refresher[q].tok}
  /\ refresher' = Goes(q, "issue")
  /\ UNCHANGED <<table, store, known, enforced>>

RefreshIssue(q, t) ==
  /\ refresher[q].pc = "issue"
  /\ Track(t)
  /\ refresher' = [refresher EXCEPT ![q] = RefresherIdle]
  /\ UNCHANGED <<table, known, history>>

RevokeAll ==
  /\ revoked' = revoked \union Stored
  /\ UNCHANGED <<row, created, pending, store, known, history, refresher>>

-----------------------------------------------------------------------------
StoreStep(t) ==
  \/ CreateRow(t) \/ CreateFails(t) \/ DatabaseBusy(t) \/ RetryStore(t)
  \/ FindOldest(t) \/ RevokeOldest(t) \/ EvictionFails(t) \/ UntrackDelayedStore(t)

TokenNext ==
  \/ \E t \in Token : Register(t) \/ Login(t) \/ StoreStep(t) \/ ReturnPair(t)
  \/ \E q \in Refreshers :
       \/ RefreshLookup(q) \/ RefreshRefuse(q) \/ RefreshRevoke(q) \/ RefreshUntrack(q)
       \/ \E t \in Token : RefreshFind(q, t) \/ RefreshIssue(q, t)
  \/ RevokeAll

TokenSpec == TokenInit /\ [][TokenNext]_TokenVars

-----------------------------------------------------------------------------
(* A token the client was given is never unknown to the server while its   *)
(* store has neither failed for good nor been replaced by a Refresh: it    *)
(* has a row, or it is pending; otherwise a valid login ends an hour later *)
(* (token_svc.go:41-45).                                                   *)
TokenNotLost ==
  \A t \in known : t \in Stored \/ t \in pending \/ t \in rotated \/ store[t].pc = "failed"

NoNewer(t, S) == {u \in S : row[u] <= row[t]}

(* Once the store of a row has enforced it, the session limit holds for    *)
(* this row and the older ones, however many logins have written rows      *)
(* between its two statements, and whatever evictions fail: what has been  *)
(* read of the sessions is never too little for the update.                *)
SessionLimit == \A t \in enforced : Cardinality(NoNewer(t, Active)) <= MaxSessions

(* token_svc_pending.go:77-78: a token that was replaced while its store   *)
(* waited for the next attempt is never written.                           *)
ReplacedNotRevived ==
  [](\A t \in Token : t \in rotated /\ store[t].pc = "wait" => [](t \notin Active))

(* The map of pending tokens does not grow for ever: every entry goes, for *)
(* the store ends or is given up.                                          *)
PendingSettles == \A t \in Token : t \in pending ~> t \notin pending
=============================================================================
