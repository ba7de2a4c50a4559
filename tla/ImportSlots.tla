---------------------------- MODULE ImportSlots ------------------------------
(***************************************************************************)
(* How many imports are watched at once: schedule, acquire and release of  *)
(* internal/service/resource_import.go.  A job is registered in the map    *)
(* executing and gets a goroutine; the goroutine takes a place in the      *)
(* channel globalSem, then one in its user's channel, keeps both for as    *)
(* long as it polls, and gives them back on its way out.  ResourceImport   *)
(* models what it does while it polls.                                     *)
(***************************************************************************)
EXTENDS Naturals, FiniteSets

CONSTANTS
  Imports,
  Monitors,              \* goroutines that may run monitor()
  NoImport,
  UserOf,                \* the user a job belongs to
  MaxConcurrent,         \* capacity of globalSem
  MaxConcurrentPerUser   \* capacity of each user's channel

ASSUME MonitorAssumption == IsFiniteSet(Monitors) /\ NoImport \notin Imports
ASSUME CapacityAssumption ==   \* the constructor replaces what is not positive
  MaxConcurrent \in Nat \ {0} /\ MaxConcurrentPerUser \in Nat \ {0}

Users == {UserOf[j] : j \in Imports}

VARIABLES
  mon,         \* where each goroutine is, and for which job
  executing,   \* the set of job ids that schedule() looks at
  globalSem,   \* how many places of the global channel are taken
  userSems,    \* how many of each user's
  stopped      \* has the service's context been canceled

SlotsVars == <<mon, executing, globalSem, userSems, stopped>>

NotRunning == [pc |-> "idle", job |-> NoImport]
At(m, pc) == mon' = [mon EXCEPT ![m].pc = pc]
User(m) == UserOf[mon[m].job]

-----------------------------------------------------------------------------
(* Variant: nobody looks whether the job has a goroutine. *)
ScheduleMonitorAgain(j) ==
  /\ executing' = executing \cup {j}
  /\ \E m \in Monitors : mon[m].pc = "idle" /\ mon' = [mon EXCEPT ![m] = [pc |-> "load", job |-> j]]
  /\ UNCHANGED <<globalSem, userSems, stopped>>

ScheduleMonitor(j) ==
  /\ j \notin executing
  /\ executing' = executing \cup {j}
  /\ \E m \in Monitors : mon[m].pc = "idle" /\ mon' = [mon EXCEPT ![m] = [pc |-> "load", job |-> j]]
  /\ UNCHANGED <<globalSem, userSems, stopped>>

(* The row may be gone, and nothing can be read once the context is over. *)
Load(m) ==
  /\ mon[m].pc = "load"
  /\ \/ At(m, "unregister")
     \/ ~stopped /\ At(m, "global")
  /\ UNCHANGED <<executing, globalSem, userSems, stopped>>

(* Variant: the global channel has no capacity. *)
AcquireGlobalUnbounded(m) ==
  /\ mon[m].pc = "global"
  /\ globalSem' = globalSem + 1
  /\ At(m, "user")
  /\ UNCHANGED <<executing, userSems, stopped>>

AcquireGlobal(m) ==
  /\ mon[m].pc = "global" /\ globalSem < MaxConcurrent
  /\ globalSem' = globalSem + 1
  /\ At(m, "user")
  /\ UNCHANGED <<executing, userSems, stopped>>

GiveUpGlobal(m) ==
  /\ mon[m].pc = "global" /\ stopped
  /\ At(m, "unregister")
  /\ UNCHANGED <<executing, globalSem, userSems, stopped>>

AcquireUser(m) ==
  /\ mon[m].pc = "user" /\ userSems[User(m)] < MaxConcurrentPerUser
  /\ userSems' = [userSems EXCEPT ![User(m)] = @ + 1]
  /\ At(m, "poll")
  /\ UNCHANGED <<executing, globalSem, stopped>>

(* Variant: the place in the global channel is forgotten. *)
GiveUpUserLeaks(m) ==
  /\ mon[m].pc = "user" /\ stopped
  /\ At(m, "unregister")
  /\ UNCHANGED <<executing, globalSem, userSems, stopped>>

GiveUpUser(m) ==
  /\ mon[m].pc = "user" /\ stopped /\ globalSem > 0
  /\ globalSem' = globalSem - 1
  /\ At(m, "unregister")
  /\ UNCHANGED <<executing, userSems, stopped>>

(* The row is final, or cannot be read. *)
Leave(m) ==
  /\ mon[m].pc = "poll"
  /\ At(m, "releaseUser")
  /\ UNCHANGED <<executing, globalSem, userSems, stopped>>

(* Variant: only the global place is given back. *)
ReleaseUserSkipped(m) ==
  /\ mon[m].pc = "releaseUser"
  /\ At(m, "releaseGlobal")
  /\ UNCHANGED <<executing, globalSem, userSems, stopped>>

ReleaseUser(m) ==
  /\ mon[m].pc = "releaseUser" /\ userSems[User(m)] > 0
  /\ userSems' = [userSems EXCEPT ![User(m)] = @ - 1]
  /\ At(m, "releaseGlobal")
  /\ UNCHANGED <<executing, globalSem, stopped>>

ReleaseGlobal(m) ==
  /\ mon[m].pc = "releaseGlobal" /\ globalSem > 0
  /\ globalSem' = globalSem - 1
  /\ At(m, "unregister")
  /\ UNCHANGED <<executing, userSems, stopped>>

Unregister(m) ==
  /\ mon[m].pc = "unregister"
  /\ executing' = executing \ {mon[m].job}
  /\ mon' = [mon EXCEPT ![m] = NotRunning]
  /\ UNCHANGED <<globalSem, userSems, stopped>>

StopService ==
  /\ ~stopped /\ stopped' = TRUE
  /\ UNCHANGED <<mon, executing, globalSem, userSems>>

SlotsInit ==
  /\ mon = [m \in Monitors |-> NotRunning]
  /\ executing = {}
  /\ globalSem = 0
  /\ userSems = [u \in Users |-> 0]
  /\ stopped = FALSE

Runs(m) ==
  \/ Load(m) \/ AcquireGlobal(m) \/ GiveUpGlobal(m) \/ AcquireUser(m) \/ GiveUpUser(m)
  \/ Leave(m) \/ ReleaseUser(m) \/ ReleaseGlobal(m) \/ Unregister(m)

SlotsNext == (\E j \in Imports : ScheduleMonitor(j)) \/ (\E m \in Monitors : Runs(m)) \/ StopService

SlotsSpec == SlotsInit /\ [][SlotsNext]_SlotsVars

(* A channel serves its blocked senders in the order they came, so nobody   *)
(* is passed over for ever; an import that is watched ends some day.        *)
SlotsFairness ==
  \A m \in Monitors : WF_SlotsVars(Runs(m)) /\ SF_SlotsVars(AcquireGlobal(m)) /\ SF_SlotsVars(AcquireUser(m))

-----------------------------------------------------------------------------
InGlobal == {m \in Monitors : mon[m].pc \in {"user", "poll", "releaseUser", "releaseGlobal"}}
InUser(u) == {m \in Monitors : mon[m].pc \in {"poll", "releaseUser"} /\ User(m) = u}

SlotsTypeOK ==
  /\ mon \in [Monitors -> [pc : {"idle", "load", "global", "user", "poll", "releaseUser",
                                 "releaseGlobal", "unregister"},
                           job : Imports \cup {NoImport}]]
  /\ executing \in SUBSET Imports
  /\ globalSem \in 0..MaxConcurrent
  /\ userSems \in [Users -> 0..MaxConcurrentPerUser]
  /\ stopped \in BOOLEAN

(* The places taken in the channels are exactly those of the goroutines    *)
(* between acquire and release, on every way out, so that no slot is lost  *)
(* and a receive in release never blocks a goroutine that holds its slot.  *)
SlotsAccounted ==
  /\ globalSem = Cardinality(InGlobal)
  /\ \A u \in Users : userSems[u] = Cardinality(InUser(u))

(* No two goroutines watch the same job, and a job counts as executing     *)
(* exactly while it has one: a schedule() that finds the job registered    *)
(* may rely on a goroutine that has not returned yet.                      *)
OneMonitorPerJob ==
  /\ \A m, n \in Monitors : mon[m].job = mon[n].job /\ mon[m].job # NoImport => m = n
  /\ executing = {mon[m].job : m \in Monitors} \ {NoImport}

(* A goroutine that waits for its slot gets to poll, however many jobs of  *)
(* the same or of other users come and go, unless the service stops; and   *)
(* then the channels drain for good.                                       *)
SlotsProgress ==
  /\ \A m \in Monitors : mon[m].pc = "global" ~> mon[m].pc = "poll" \/ stopped
  /\ stopped ~> [](globalSem = 0)
=============================================================================
