-------------------------- MODULE ImportServicesProofs -------------------------
(***************************************************************************)
(* Proofs about what ImportServices composes with the import jobs: their   *)
(* concurrency slots (ImportSlots) and the ingest jobs (PipelineIngest),   *)
(* for any number of goroutines, jobs, users and requests.  A behaviour of *)
(* ImportServices is, by its definition, one of the part it follows, with  *)
(* the others at rest, so that what is proved of the parts carries over.   *)
(***************************************************************************)
EXTENDS ImportServices, ResourceImportProofs, FiniteSetTheorems

(* A goroutine has a job exactly while it runs. *)
Busy == \A m \in Monitors : mon[m].pc = "idle" <=> mon[m].job = NoImport

IInv == SlotsTypeOK /\ Busy /\ SlotsAccounted /\ OneMonitorPerJob

SlotsPc == {"idle", "load", "global", "user", "poll", "releaseUser", "releaseGlobal", "unregister"}

LEMMA Finite ==
  /\ IsFiniteSet(InGlobal)
  /\ \A u \in Users : IsFiniteSet(InUser(u))
<1>1. InGlobal \in SUBSET Monitors /\ \A u \in Users : InUser(u) \in SUBSET Monitors
  BY DEF InGlobal, InUser
<1> QED BY <1>1, FS_Subset, MonitorAssumption

(* A move of one goroutine that runs leaves all the jobs where they are. *)
LEMMA Move ==
  ASSUME SlotsTypeOK, Busy, OneMonitorPerJob, NEW m \in Monitors, mon[m].pc # "idle",
         NEW pc \in SlotsPc \ {"idle"}, At(m, pc), UNCHANGED executing
  PROVE  /\ mon' \in [Monitors -> [pc : SlotsPc, job : Imports \cup {NoImport}]]
         /\ mon'[m].pc = pc
         /\ \A n \in Monitors : mon'[n].job = mon[n].job
         /\ \A n \in Monitors \ {m} : mon'[n].pc = mon[n].pc
         /\ Busy'
         /\ OneMonitorPerJob'
<1>1. mon' \in [Monitors -> [pc : SlotsPc, job : Imports \cup {NoImport}]]
  BY DEF SlotsTypeOK, At, SlotsPc
<1>2. /\ mon'[m].pc = pc
      /\ \A n \in Monitors : mon'[n].job = mon[n].job
      /\ \A n \in Monitors \ {m} : mon'[n].pc = mon[n].pc
  BY DEF SlotsTypeOK, At
<1>3. Busy'
  BY <1>2 DEF Busy
<1>4. {mon'[n].job : n \in Monitors} = {mon[n].job : n \in Monitors}
  BY <1>2
<1>5. OneMonitorPerJob'
  BY <1>2, <1>4 DEF OneMonitorPerJob
<1> QED BY <1>1, <1>2, <1>3, <1>5

LEMMA UserOfJob ==
  ASSUME SlotsTypeOK, Busy, NEW m \in Monitors, mon[m].pc # "idle"
  PROVE  User(m) \in Users
BY DEF SlotsTypeOK, Busy, User, Users

LEMMA InitInv == SlotsInit => IInv
<1> SUFFICES ASSUME SlotsInit PROVE IInv
  OBVIOUS
<1>1. SlotsTypeOK /\ Busy
  <2>1. 0 \in 0..MaxConcurrent /\ 0 \in 0..MaxConcurrentPerUser
    BY CapacityAssumption
  <2>2. NotRunning \in [pc : SlotsPc, job : Imports \cup {NoImport}]
    BY DEF NotRunning, SlotsPc
  <2>3. Busy
    BY DEF SlotsInit, Busy, NotRunning
  <2> QED BY <2>1, <2>2, <2>3 DEF SlotsInit, SlotsTypeOK, SlotsPc
<1>2. InGlobal = {} /\ \A u \in Users : InUser(u) = {}
  BY DEF SlotsInit, NotRunning, InGlobal, InUser
<1>3. SlotsAccounted
  BY <1>2, FS_EmptySet DEF SlotsInit, SlotsAccounted
<1>4. OneMonitorPerJob
  BY DEF SlotsInit, NotRunning, OneMonitorPerJob
<1> QED BY <1>1, <1>3, <1>4 DEF IInv

LEMMA ScheduleInv ==
  ASSUME IInv, NEW j \in Imports, ScheduleMonitor(j)
  PROVE  IInv'
<1> USE DEF IInv
<1>1. PICK m \in Monitors : /\ mon[m].pc = "idle"
                            /\ mon' = [mon EXCEPT ![m] = [pc |-> "load", job |-> j]]
  BY DEF ScheduleMonitor
<1>2. SlotsTypeOK' /\ Busy'
  BY <1>1, MonitorAssumption DEF ScheduleMonitor, SlotsTypeOK, Busy
<1>3. InGlobal' = InGlobal /\ \A u \in Users : InUser(u)' = InUser(u)
  BY <1>1 DEF SlotsTypeOK, InGlobal, InUser, User
<1>4. SlotsAccounted'
  BY <1>3 DEF ScheduleMonitor, SlotsAccounted
<1>5. \A n \in Monitors : mon[n].job # j
  BY MonitorAssumption DEF ScheduleMonitor, OneMonitorPerJob
<1>6. \A n \in Monitors \ {m} : mon'[n] = mon[n]
  BY <1>1 DEF SlotsTypeOK
<1>7. mon'[m].job = j /\ mon[m].job = NoImport
  BY <1>1 DEF SlotsTypeOK, Busy
<1>8. OneMonitorPerJob'
  <2>1. \A k, n \in Monitors : mon'[k].job = mon'[n].job /\ mon'[k].job # NoImport => k = n
    BY <1>5, <1>6, <1>7 DEF OneMonitorPerJob
  <2>2. executing' = {mon'[n].job : n \in Monitors} \ {NoImport}
    BY <1>6, <1>7, MonitorAssumption DEF ScheduleMonitor, OneMonitorPerJob
  <2> QED BY <2>1, <2>2 DEF OneMonitorPerJob
<1> QED BY <1>2, <1>4, <1>8

LEMMA UnregisterInv ==
  ASSUME IInv, NEW m \in Monitors, Unregister(m)
  PROVE  IInv'
<1> USE DEF IInv
<1>1. SlotsTypeOK' /\ Busy'
  BY DEF Unregister, SlotsTypeOK, Busy, NotRunning
<1>2. InGlobal' = InGlobal /\ \A u \in Users : InUser(u)' = InUser(u)
  BY DEF Unregister, SlotsTypeOK, InGlobal, InUser, User, NotRunning
<1>3. SlotsAccounted'
  BY <1>2 DEF Unregister, SlotsAccounted
<1>4. (\A n \in Monitors \ {m} : mon'[n] = mon[n]) /\ mon'[m].job = NoImport
  BY DEF Unregister, SlotsTypeOK, NotRunning
<1>5. mon[m].job # NoImport
  BY DEF Unregister, Busy
<1>6. OneMonitorPerJob'
  <2>1. \A k, n \in Monitors : mon'[k].job = mon'[n].job /\ mon'[k].job # NoImport => k = n
    BY <1>4 DEF OneMonitorPerJob
  <2>2. executing' = {mon'[n].job : n \in Monitors} \ {NoImport}
    BY <1>4, <1>5 DEF Unregister, OneMonitorPerJob
  <2> QED BY <2>1, <2>2 DEF OneMonitorPerJob
<1> QED BY <1>1, <1>3, <1>6

(* The places of a goroutine that neither takes nor gives one. *)
LEMMA KeepInv ==
  ASSUME IInv, NEW m \in Monitors, Load(m) \/ GiveUpGlobal(m)
  PROVE  IInv'
<1> USE DEF IInv
<1>1. PICK pc \in {"global", "unregister"} : At(m, pc)
  BY DEF Load, GiveUpGlobal
<1>2. mon[m].pc \in {"load", "global"} /\ UNCHANGED <<executing, globalSem, userSems, stopped>>
  BY DEF Load, GiveUpGlobal
<1>3. /\ mon' \in [Monitors -> [pc : SlotsPc, job : Imports \cup {NoImport}]]
      /\ mon'[m].pc = pc
      /\ \A n \in Monitors : mon'[n].job = mon[n].job
      /\ \A n \in Monitors \ {m} : mon'[n].pc = mon[n].pc
      /\ Busy'
      /\ OneMonitorPerJob'
  BY <1>1, <1>2, Move DEF SlotsPc
<1>4. InGlobal' = InGlobal /\ \A u \in Users : InUser(u)' = InUser(u)
  BY <1>2, <1>3 DEF InGlobal, InUser, User
<1>5. SlotsAccounted'
  BY <1>2, <1>4 DEF SlotsAccounted
<1> QED BY <1>2, <1>3, <1>5 DEF SlotsTypeOK, SlotsPc

LEMMA AcquireGlobalInv ==
  ASSUME IInv, NEW m \in Monitors, AcquireGlobal(m)
  PROVE  IInv'
<1> USE DEF IInv
<1>1. mon[m].pc = "global" /\ UNCHANGED <<executing, userSems, stopped>>
  BY DEF AcquireGlobal
<1>2. /\ mon' \in [Monitors -> [pc : SlotsPc, job : Imports \cup {NoImport}]]
      /\ mon'[m].pc = "user"
      /\ \A n \in Monitors : mon'[n].job = mon[n].job
      /\ \A n \in Monitors \ {m} : mon'[n].pc = mon[n].pc
      /\ Busy'
      /\ OneMonitorPerJob'
  BY <1>1, Move DEF SlotsPc, AcquireGlobal
<1>3. InGlobal' = InGlobal \cup {m} /\ m \notin InGlobal /\ \A u \in Users : InUser(u)' = InUser(u)
  BY <1>1, <1>2 DEF InGlobal, InUser, User
<1>4. Cardinality(InGlobal') = Cardinality(InGlobal) + 1
  BY <1>3, Finite, FS_AddElement
<1>5. SlotsAccounted'
  BY <1>1, <1>3, <1>4 DEF SlotsAccounted, AcquireGlobal
<1>6. globalSem' \in 0..MaxConcurrent
  BY CapacityAssumption DEF AcquireGlobal, SlotsTypeOK
<1> QED BY <1>1, <1>2, <1>5, <1>6 DEF SlotsTypeOK, SlotsPc

LEMMA ReleaseGlobalInv ==
  ASSUME IInv, NEW m \in Monitors, GiveUpUser(m) \/ ReleaseGlobal(m)
  PROVE  IInv'
<1> USE DEF IInv
<1>1. /\ mon[m].pc \in {"user", "releaseGlobal"} /\ At(m, "unregister")
      /\ globalSem > 0 /\ globalSem' = globalSem - 1
      /\ UNCHANGED <<executing, userSems, stopped>>
  BY DEF GiveUpUser, ReleaseGlobal
<1>2. /\ mon' \in [Monitors -> [pc : SlotsPc, job : Imports \cup {NoImport}]]
      /\ mon'[m].pc = "unregister"
      /\ \A n \in Monitors : mon'[n].job = mon[n].job
      /\ \A n \in Monitors \ {m} : mon'[n].pc = mon[n].pc
      /\ Busy'
      /\ OneMonitorPerJob'
  BY <1>1, Move DEF SlotsPc
<1>3. InGlobal' = InGlobal \ {m} /\ m \in InGlobal /\ \A u \in Users : InUser(u)' = InUser(u)
  BY <1>1, <1>2 DEF InGlobal, InUser, User
<1>4. Cardinality(InGlobal') = Cardinality(InGlobal) - 1
  BY <1>3, Finite, FS_RemoveElement
<1>5. SlotsAccounted'
  BY <1>1, <1>3, <1>4 DEF SlotsAccounted
<1>6. globalSem' \in 0..MaxConcurrent
  BY <1>1, CapacityAssumption DEF SlotsTypeOK
<1> QED BY <1>1, <1>2, <1>5, <1>6 DEF SlotsTypeOK, SlotsPc

LEMMA AcquireUserInv ==
  ASSUME IInv, NEW m \in Monitors, AcquireUser(m)
  PROVE  IInv'
<1> USE DEF IInv
<1>1. mon[m].pc = "user" /\ UNCHANGED <<executing, globalSem, stopped>>
  BY DEF AcquireUser
<1>2. /\ mon' \in [Monitors -> [pc : SlotsPc, job : Imports \cup {NoImport}]]
      /\ mon'[m].pc = "poll"
      /\ \A n \in Monitors : mon'[n].job = mon[n].job
      /\ \A n \in Monitors \ {m} : mon'[n].pc = mon[n].pc
      /\ Busy'
      /\ OneMonitorPerJob'
  BY <1>1, Move DEF SlotsPc, AcquireUser
<1>3. PICK v \in Users : v = User(m)
  BY <1>1, UserOfJob
<1>4. /\ InGlobal' = InGlobal
      /\ InUser(v)' = InUser(v) \cup {m} /\ m \notin InUser(v)
      /\ \A u \in Users \ {v} : InUser(u)' = InUser(u)
  BY <1>1, <1>2, <1>3 DEF InGlobal, InUser, User
<1>5. Cardinality(InUser(v)') = Cardinality(InUser(v)) + 1
  BY <1>3, <1>4, Finite, FS_AddElement
<1>6. userSems' \in [Users -> 0..MaxConcurrentPerUser]
  BY <1>3, CapacityAssumption DEF AcquireUser, SlotsTypeOK
<1>7. userSems'[v] = userSems[v] + 1 /\ \A u \in Users \ {v} : userSems'[u] = userSems[u]
  BY <1>3 DEF AcquireUser, SlotsTypeOK
<1>8. SlotsAccounted'
  <2>1. ASSUME NEW u \in Users
        PROVE  userSems'[u] = Cardinality(InUser(u)')
    <3>1. CASE u = v
      BY <1>3, <1>5, <1>7, <3>1 DEF SlotsAccounted
    <3>2. CASE u # v
      BY <1>4, <1>7, <3>2 DEF SlotsAccounted
    <3> QED BY <3>1, <3>2
  <2> QED BY <1>1, <1>4, <2>1 DEF SlotsAccounted
<1> QED BY <1>1, <1>2, <1>6, <1>8 DEF SlotsTypeOK, SlotsPc

LEMMA LeaveInv ==
  ASSUME IInv, NEW m \in Monitors, Leave(m)
  PROVE  IInv'
<1> USE DEF IInv
<1>1. mon[m].pc = "poll" /\ UNCHANGED <<executing, globalSem, userSems, stopped>>
  BY DEF Leave
<1>2. /\ mon' \in [Monitors -> [pc : SlotsPc, job : Imports \cup {NoImport}]]
      /\ mon'[m].pc = "releaseUser"
      /\ \A n \in Monitors : mon'[n].job = mon[n].job
      /\ \A n \in Monitors \ {m} : mon'[n].pc = mon[n].pc
      /\ Busy'
      /\ OneMonitorPerJob'
  BY <1>1, Move DEF SlotsPc, Leave
<1>3. InGlobal' = InGlobal /\ \A u \in Users : InUser(u)' = InUser(u)
  BY <1>1, <1>2 DEF InGlobal, InUser, User
<1>4. SlotsAccounted'
  BY <1>1, <1>3 DEF SlotsAccounted
<1> QED BY <1>1, <1>2, <1>4 DEF SlotsTypeOK, SlotsPc

LEMMA ReleaseUserInv ==
  ASSUME IInv, NEW m \in Monitors, ReleaseUser(m)
  PROVE  IInv'
<1> USE DEF IInv
<1>1. mon[m].pc = "releaseUser" /\ UNCHANGED <<executing, globalSem, stopped>>
  BY DEF ReleaseUser
<1>2. /\ mon' \in [Monitors -> [pc : SlotsPc, job : Imports \cup {NoImport}]]
      /\ mon'[m].pc = "releaseGlobal"
      /\ \A n \in Monitors : mon'[n].job = mon[n].job
      /\ \A n \in Monitors \ {m} : mon'[n].pc = mon[n].pc
      /\ Busy'
      /\ OneMonitorPerJob'
  BY <1>1, Move DEF SlotsPc, ReleaseUser
<1>3. PICK v \in Users : v = User(m)
  BY <1>1, UserOfJob
<1>4. /\ InGlobal' = InGlobal
      /\ InUser(v)' = InUser(v) \ {m} /\ m \in InUser(v)
      /\ \A u \in Users \ {v} : InUser(u)' = InUser(u)
  BY <1>1, <1>2, <1>3 DEF InGlobal, InUser, User
<1>5. Cardinality(InUser(v)') = Cardinality(InUser(v)) - 1
  BY <1>3, <1>4, Finite, FS_RemoveElement
<1>6. userSems' \in [Users -> 0..MaxConcurrentPerUser]
  BY <1>3, CapacityAssumption DEF ReleaseUser, SlotsTypeOK
<1>7. userSems'[v] = userSems[v] - 1 /\ \A u \in Users \ {v} : userSems'[u] = userSems[u]
  BY <1>3 DEF ReleaseUser, SlotsTypeOK
<1>8. SlotsAccounted'
  <2>1. ASSUME NEW u \in Users
        PROVE  userSems'[u] = Cardinality(InUser(u)')
    <3>1. CASE u = v
      BY <1>3, <1>5, <1>7, <3>1 DEF SlotsAccounted
    <3>2. CASE u # v
      BY <1>4, <1>7, <3>2 DEF SlotsAccounted
    <3> QED BY <3>1, <3>2
  <2> QED BY <1>1, <1>4, <2>1 DEF SlotsAccounted
<1> QED BY <1>1, <1>2, <1>6, <1>8 DEF SlotsTypeOK, SlotsPc

LEMMA NextInv == IInv /\ [SlotsNext]_SlotsVars => IInv'
<1> SUFFICES ASSUME IInv, [SlotsNext]_SlotsVars PROVE IInv'
  OBVIOUS
<1>1. CASE UNCHANGED <<mon, executing, globalSem, userSems>> /\ stopped' \in BOOLEAN
  <2>1. InGlobal' = InGlobal /\ \A u \in Users : InUser(u)' = InUser(u)
    BY <1>1 DEF InGlobal, InUser, User
  <2> QED BY <1>1, <2>1 DEF IInv, SlotsTypeOK, Busy, SlotsAccounted, OneMonitorPerJob
<1>2. CASE UNCHANGED SlotsVars \/ StopService
  BY <1>1, <1>2 DEF SlotsVars, StopService, IInv, SlotsTypeOK
<1>3. ASSUME NEW m \in Monitors, Runs(m) PROVE IInv'
  BY <1>3, KeepInv, AcquireGlobalInv, ReleaseGlobalInv, AcquireUserInv, LeaveInv,
     ReleaseUserInv, UnregisterInv DEF Runs
<1> QED BY <1>2, <1>3, ScheduleInv DEF SlotsNext

(* The variables keep their types: no channel holds more values than it    *)
(* has places.                                                             *)
THEOREM SlotsTyped == SlotsSpec => []SlotsTypeOK
<1>1. IInv => SlotsTypeOK
  BY DEF IInv
<1> QED BY <1>1, InitInv, NextInv, PTL DEF SlotsSpec

(* The channels' lengths are the numbers of goroutines that hold a place.  *)
THEOREM NoSlotLost == SlotsSpec => []SlotsAccounted
<1>1. IInv => SlotsAccounted
  BY DEF IInv
<1> QED BY <1>1, InitInv, NextInv, PTL DEF SlotsSpec

(* A job never has two goroutines, and is registered exactly while it has  *)
(* one.                                                                    *)
THEOREM OneGoroutine == SlotsSpec => []OneMonitorPerJob
<1>1. IInv => OneMonitorPerJob
  BY DEF IInv
<1> QED BY <1>1, InitInv, NextInv, PTL DEF SlotsSpec

(* A goroutine that gives a place back finds one in the channel: the       *)
(* receives of release and of acquire's second way out never block.        *)
ReleaseNeverBlocks ==
  \A m \in Monitors : /\ mon[m].pc = "releaseUser" => userSems[User(m)] > 0
                      /\ mon[m].pc \in {"user", "releaseGlobal"} => globalSem > 0

(* No goroutine is stuck in a receive of release or of acquire's way out. *)
THEOREM NeverBlocks == SlotsSpec => []ReleaseNeverBlocks
<1>1. IInv => ReleaseNeverBlocks
  <2> SUFFICES ASSUME IInv, NEW m \in Monitors
               PROVE  /\ mon[m].pc = "releaseUser" => userSems[User(m)] > 0
                      /\ mon[m].pc \in {"user", "releaseGlobal"} => globalSem > 0
    BY DEF ReleaseNeverBlocks
  <2>1. ASSUME mon[m].pc = "releaseUser" PROVE userSems[User(m)] > 0
    <3>1. User(m) \in Users /\ m \in InUser(User(m))
      BY <2>1, UserOfJob DEF IInv, InUser
    <3>2. Cardinality(InUser(User(m))) # 0
      BY <3>1, Finite, FS_EmptySet
    <3>3. userSems[User(m)] \in 0..MaxConcurrentPerUser
      BY <3>1 DEF IInv, SlotsTypeOK
    <3> QED BY <3>1, <3>2, <3>3, CapacityAssumption DEF IInv, SlotsAccounted
  <2>2. ASSUME mon[m].pc \in {"user", "releaseGlobal"} PROVE globalSem > 0
    <3>1. m \in InGlobal
      BY <2>2 DEF InGlobal
    <3>2. Cardinality(InGlobal) # 0
      BY <3>1, Finite, FS_EmptySet
    <3> QED BY <3>2, CapacityAssumption DEF IInv, SlotsAccounted, SlotsTypeOK
  <2> QED BY <2>1, <2>2
<1> QED BY <1>1, InitInv, NextInv, PTL DEF SlotsSpec

(* Nobody waits for ever on somebody who waits: when a user's channel is   *)
(* full, one of the user's goroutines watches its job or is giving the     *)
(* place back; when the global one is, one of those in it does so or finds *)
(* a place in its user's channel.  The order of the two channels is what   *)
(* SlotsProgress rests on.                                                 *)
SomebodyMoves ==
  \A m \in Monitors :
    /\ mon[m].pc = "user" /\ userSems[User(m)] = MaxConcurrentPerUser =>
         \E n \in Monitors : mon[n].pc \in {"poll", "releaseUser"} /\ User(n) = User(m)
    /\ mon[m].pc = "global" /\ globalSem = MaxConcurrent =>
         \E n \in Monitors : \/ mon[n].pc \in {"poll", "releaseUser", "releaseGlobal"}
                             \/ mon[n].pc = "user" /\ userSems[User(n)] < MaxConcurrentPerUser

(* For any jobs, users, goroutines and capacities, no wait is circular. *)
THEOREM NoCircularWait == SlotsSpec => []SomebodyMoves
<1>1. IInv => SomebodyMoves
  <2> SUFFICES ASSUME IInv PROVE SomebodyMoves
    OBVIOUS
  <2>1. ASSUME NEW m \in Monitors, mon[m].pc = "user", userSems[User(m)] = MaxConcurrentPerUser
        PROVE  \E n \in Monitors : mon[n].pc \in {"poll", "releaseUser"} /\ User(n) = User(m)
    <3>1. User(m) \in Users
      BY <2>1, UserOfJob DEF IInv
    <3>2. Cardinality(InUser(User(m))) # 0
      BY <2>1, <3>1, CapacityAssumption DEF IInv, SlotsAccounted
    <3>3. InUser(User(m)) # {}
      BY <3>2, FS_EmptySet
    <3> QED BY <3>3 DEF InUser
  <2>2. ASSUME NEW m \in Monitors, globalSem = MaxConcurrent
        PROVE  \E n \in Monitors : \/ mon[n].pc \in {"poll", "releaseUser", "releaseGlobal"}
                                   \/ mon[n].pc = "user" /\ userSems[User(n)] < MaxConcurrentPerUser
    <3>1. Cardinality(InGlobal) # 0
      BY <2>2, CapacityAssumption DEF IInv, SlotsAccounted
    <3>2. InGlobal # {}
      BY <3>1, FS_EmptySet
    <3>3. PICK n \in Monitors : mon[n].pc \in {"user", "poll", "releaseUser", "releaseGlobal"}
      BY <3>2 DEF InGlobal
    <3>4. CASE mon[n].pc = "user" /\ ~(userSems[User(n)] < MaxConcurrentPerUser)
      <4>1. User(n) \in Users
        BY <3>4, UserOfJob DEF IInv
      <4>2. userSems[User(n)] \in 0..MaxConcurrentPerUser
        BY <4>1 DEF IInv, SlotsTypeOK
      <4>3. userSems[User(n)] = MaxConcurrentPerUser
        BY <3>4, <4>2, CapacityAssumption
      <4> QED BY <2>1, <3>4, <4>3
    <3> QED BY <3>3, <3>4
  <2> QED BY <2>1, <2>2 DEF SomebodyMoves
<1> QED BY <1>1, InitInv, NextInv, PTL DEF SlotsSpec

-----------------------------------------------------------------------------
(***************************************************************************)
(* A job that has ended stays as it ended, for any jobs, requests, crashes *)
(* and refused writes, as long as no client repeats the request of a job   *)
(* that runs.  The invariant says what everyone who holds a copy of the    *)
(* record may hold, given what the row says.                               *)
(***************************************************************************)
Run(k) == thread[<<"run", k>>]
Enhance(k) == thread[<<"enhance", k>>]

Running(job) == job # NoRecord /\ job.status = "running"
Completed(job) == job # NoRecord /\ job.status = "completed"

(* The records are records; a thread and a request have the fields they    *)
(* are made of.                                                            *)
ThreadsTyped ==
  thread = [g \in Goroutines |-> [pc |-> thread[g].pc, stage |-> thread[g].stage, job |-> thread[g].job]]
CallersTyped ==
  caller = [c \in Callers |-> [pc |-> caller[c].pc, key |-> caller[c].key, job |-> caller[c].job]]
IngestTyped ==
  /\ jobRow \in [Keys -> Record \union {NoRecord}]
  /\ cache \in [Keys -> Record \union {NoRecord}]
  /\ found \in [Keys -> Record \union {NoRecord}]
  /\ ThreadsTyped /\ CallersTyped

(* What the map holds is of the row; an end in it is the row's. *)
CacheFits(k) ==
  cache[k] # NoRecord =>
    jobRow[k] # NoRecord /\ (cache[k].status # "running" => cache[k].status = jobRow[k].status)

(* The goroutine works on a job that runs, until it has stored the end. *)
RunFits(k) ==
  /\ Run(k).pc \in {"off", "work", "scan", "read", "persist", "cache", "return"}
  /\ Run(k).pc # "off" => jobRow[k] # NoRecord /\ cache[k] # NoRecord
  /\ Run(k).pc \in {"scan", "read", "persist"} \/ (Run(k).pc = "work" /\ Run(k).stage # "completed")
       => Running(jobRow[k]) /\ Running(cache[k])
  /\ Run(k).pc \in {"persist", "cache"} =>
       /\ Run(k).job \in Record
       /\ Run(k).job.status =
            IF Run(k).stage \in {"completed", "failed"} THEN Run(k).stage ELSE "running"
  /\ Run(k).pc = "cache" => Run(k).job.status = jobRow[k].status

(* Subtitles are fetched for a completed job only. *)
EnhanceFits(k) ==
  /\ Enhance(k).pc \in {"off", "look", "work", "read", "persist", "cache", "return"}
  /\ Enhance(k).pc # "off" => cache[k] # NoRecord
  /\ Enhance(k).pc \in {"work", "read", "persist", "cache"} =>
       Completed(jobRow[k]) /\ Completed(cache[k])
  /\ Enhance(k).pc \in {"read", "persist", "cache"} => Enhance(k).stage \in {"fetching", "fetched"}
  /\ Enhance(k).pc \in {"persist", "cache"} =>
       Enhance(k).job \in Record /\ Enhance(k).job.status = "completed"

(* A request is the only one for its job, and what it has read is so. *)
CallerFits(c) ==
  LET k == caller[c].key IN
  \/ caller[c] = NoCall
  \/ /\ k \in Keys /\ recovery = "up" /\ \A d \in Callers \ {c} : caller[d].key # k
     /\ \/ caller[c].pc = "find" /\ ~Running(jobRow[k])
        \/ caller[c].pc = "create" /\ jobRow[k] = NoRecord
        \/ /\ caller[c].pc = "cache" /\ caller[c].job \in Record
           /\ jobRow[k] # NoRecord /\ caller[c].job.status = jobRow[k].status
           /\ Running(jobRow[k]) => Run(k).pc = "off"
        \/ /\ caller[c].pc = "schedule" /\ Running(jobRow[k]) /\ Running(cache[k])
           /\ Run(k).pc = "off"

(* Recover holds what the rows say, and is alone at first. *)
FoundFits(k) ==
  /\ recovery = "down" => Run(k).pc = "off" /\ Enhance(k).pc = "off"
  /\ found[k] # NoRecord =>
       \/ recovery = "running" /\ Running(found[k]) /\ Running(jobRow[k]) /\ Run(k).pc = "off"
       \/ recovery = "completed" /\ Completed(found[k]) /\ Completed(jobRow[k])

KeyFits(k) == CacheFits(k) /\ RunFits(k) /\ EnhanceFits(k) /\ FoundFits(k)

IngestInv ==
  /\ IngestTyped
  /\ \A k \in Keys : KeyFits(k)
  /\ \A c \in Callers : CallerFits(c)

(* What EndedStays says of a step. *)
StaysAt(k) ==
  /\ Ended(jobRow[k]) => jobRow'[k] # NoRecord /\ jobRow'[k].status = jobRow[k].status
  /\ Ended(Answer(k)) => Answer(k)' # NoRecord /\ Answer(k)'.status = Answer(k).status
Stays == \A k \in Keys : StaysAt(k)

Place(v) == v = [pc |-> v.pc, stage |-> v.stage, job |-> v.job]
Request(v) == v = [pc |-> v.pc, key |-> v.key, job |-> v.job]

LEMMA InitIngestInv == IngestInit => IngestInv
<1> SUFFICES ASSUME IngestInit PROVE IngestInv OBVIOUS
<1>1. IngestTyped BY DEF IngestInit, IngestTyped, ThreadsTyped, CallersTyped, Nothing, Off, NoCall
<1>2. ASSUME NEW k \in Keys PROVE KeyFits(k)
  <2>1. <<"run", k>> \in Goroutines /\ <<"enhance", k>> \in Goroutines BY DEF Goroutines
  <2>2. Run(k) = Off /\ Enhance(k) = Off BY <2>1 DEF IngestInit, Run, Enhance
  <2>3. cache[k] = NoRecord /\ found[k] = NoRecord BY DEF IngestInit, Nothing
  <2> QED BY <2>2, <2>3 DEF KeyFits, CacheFits, RunFits, EnhanceFits, FoundFits, Off
<1>3. \A c \in Callers : CallerFits(c) BY DEF IngestInit, CallerFits
<1> QED BY <1>1, <1>2, <1>3 DEF IngestInv

(* A step that leaves alone what a job is made of leaves its facts alone. *)
LEMMA KeyKept ==
  ASSUME NEW k \in Keys, KeyFits(k), jobRow'[k] = jobRow[k], cache'[k] = cache[k],
         found'[k] = found[k], Run(k)' = Run(k), Enhance(k)' = Enhance(k), recovery' = recovery
  PROVE  KeyFits(k)'
BY DEF KeyFits, CacheFits, RunFits, EnhanceFits, FoundFits, Running, Completed

(* EXCEPT, once and again. *)
LEMMA SetTwice ==
  ASSUME NEW S, NEW f, f = [h \in S |-> f[h]], NEW g \in S, NEW v, NEW w
  PROVE  [[f EXCEPT ![g] = v] EXCEPT ![g] = w] = [f EXCEPT ![g] = w]
OBVIOUS

LEMMA TwoFields ==
  ASSUME NEW S, NEW f, f = [h \in S |-> f[h]], NEW g \in S, NEW a, NEW b
  PROVE  [f EXCEPT ![g].pc = a, ![g].job = b]
           = [f EXCEPT ![g] = [f[g] EXCEPT !.pc = a, !.job = b]]
<1> DEFINE v == [f[g] EXCEPT !.pc = a]
           t == [f EXCEPT ![g] = v]
<1>1. t[g] = v OBVIOUS
<1>2. [f EXCEPT ![g].pc = a, ![g].job = b] = [t EXCEPT ![g] = [t[g] EXCEPT !.job = b]] OBVIOUS
<1>3. [t[g] EXCEPT !.job = b] = [f[g] EXCEPT !.pc = a, !.job = b] BY <1>1
<1> QED BY <1>2, <1>3, SetTwice

LEMMA TwoSet ==
  ASSUME NEW r, Place(r), NEW a, NEW b
  PROVE  [r EXCEPT !.pc = a, !.job = b] = [pc |-> a, stage |-> r.stage, job |-> b]
<1> DEFINE p == r.pc  s == r.stage  j == r.job
           t == [r EXCEPT !.pc = a, !.job = b]
<1>1. r \in [pc : {p}, stage : {s}, job : {j}] BY DEF Place
<1> HIDE DEF p, s, j
<1>2. t \in [pc : {a}, stage : {s}, job : {b}] BY <1>1
<1> HIDE DEF t
<1>3. t = [pc |-> a, stage |-> s, job |-> b] BY <1>2
<1> QED BY <1>3 DEF s, t

LEMMA OneSet ==
  ASSUME NEW r, Place(r), NEW a
  PROVE  [r EXCEPT !.pc = a] = [pc |-> a, stage |-> r.stage, job |-> r.job]
<1> DEFINE p == r.pc  s == r.stage  j == r.job
           t == [r EXCEPT !.pc = a]
<1>1. r \in [pc : {p}, stage : {s}, job : {j}] BY DEF Place
<1> HIDE DEF p, s, j
<1>2. t \in [pc : {a}, stage : {s}, job : {j}] BY <1>1
<1> HIDE DEF t
<1>3. t = [pc |-> a, stage |-> s, job |-> j] BY <1>2
<1> QED BY <1>3 DEF s, j, t

LEMMA TwoSetOfCall ==
  ASSUME NEW r, Request(r), NEW a, NEW b
  PROVE  [r EXCEPT !.pc = a, !.job = b] = [pc |-> a, key |-> r.key, job |-> b]
<1> DEFINE p == r.pc  s == r.key  j == r.job
           t == [r EXCEPT !.pc = a, !.job = b]
<1>1. r \in [pc : {p}, key : {s}, job : {j}] BY DEF Request
<1> HIDE DEF p, s, j
<1>2. t \in [pc : {a}, key : {s}, job : {b}] BY <1>1
<1> HIDE DEF t
<1>3. t = [pc |-> a, key |-> s, job |-> b] BY <1>2
<1> QED BY <1>3 DEF s, t

(* A table of records after one of them was written. *)
LEMMA RecordOfOne ==
  ASSUME NEW f \in [Keys -> Record \union {NoRecord}], NEW k \in Keys, NEW r \in Record
  PROVE  [f EXCEPT ![k] = r] \in [Keys -> Record \union {NoRecord}]
OBVIOUS

(* The threads after one has moved. *)
LEMMA OneThread ==
  ASSUME IngestTyped, NEW g \in Goroutines, NEW v, Place(v), thread' = [thread EXCEPT ![g] = v]
  PROVE  ThreadsTyped' /\ thread'[g] = v /\ \A h \in Goroutines \ {g} : thread'[h] = thread[h]
<1>1. thread = [h \in Goroutines |-> thread[h]]
      /\ \A h \in Goroutines : Place(thread[h])
  BY DEF IngestTyped, ThreadsTyped, Place
<1>2. thread'[g] = v /\ \A h \in Goroutines \ {g} : thread'[h] = thread[h] BY <1>1
<1>3. thread' = [h \in Goroutines |-> thread'[h]] BY <1>1
<1>4. \A h \in Goroutines : Place(thread'[h]) BY <1>1, <1>2
<1>5. ThreadsTyped' BY <1>3, <1>4 DEF Place, ThreadsTyped
<1> QED BY <1>2, <1>5

LEMMA OneCaller ==
  ASSUME IngestTyped, NEW c \in Callers, NEW w, Request(w), caller' = [caller EXCEPT ![c] = w]
  PROVE  CallersTyped' /\ caller'[c] = w /\ \A d \in Callers \ {c} : caller'[d] = caller[d]
<1>1. caller = [d \in Callers |-> caller[d]]
      /\ \A d \in Callers : Request(caller[d])
  BY DEF IngestTyped, CallersTyped, Request
<1>2. caller'[c] = w /\ \A d \in Callers \ {c} : caller'[d] = caller[d] BY <1>1
<1>3. caller' = [d \in Callers |-> caller'[d]] BY <1>1
<1>4. \A d \in Callers : Request(caller'[d]) BY <1>1, <1>2
<1>5. CallersTyped' BY <1>3, <1>4 DEF Request, CallersTyped
<1> QED BY <1>2, <1>5

LEMMA Pairs ==
  ASSUME NEW k \in Keys
  PROVE  /\ <<"run", k>> \in Goroutines /\ <<"enhance", k>> \in Goroutines
         /\ \A j \in Keys : <<"run", k>> # <<"enhance", j>> /\ <<"run", j>> # <<"enhance", k>>
         /\ \A j \in Keys \ {k} : <<"run", j>> # <<"run", k>> /\ <<"enhance", j>> # <<"enhance", k>>
BY DEF Goroutines

(* The goroutine of a job moves: those who need it to be off had left.     *)
LEMMA RunMoves ==
  ASSUME IngestInv, NEW k \in Keys, NEW v, Place(v), thread' = [thread EXCEPT ![<<"run", k>>] = v],
         Run(k).pc # "off", RunFits(k)', UNCHANGED <<jobRow, cache, caller, recovery, found>>
  PROVE  IngestInv' /\ Stays
<1>1. /\ Run(k)' = v /\ \A j \in Keys : Enhance(j)' = Enhance(j)
      /\ \A j \in Keys \ {k} : Run(j)' = Run(j)
  BY OneThread, Pairs DEF Run, Enhance, IngestInv
<1>2. IngestTyped' BY OneThread, Pairs DEF IngestTyped, IngestInv, CallersTyped
<1>3. KeyFits(k)'
  <2>1. KeyFits(k) BY DEF IngestInv
  <2>2. CacheFits(k)' BY <2>1 DEF KeyFits, CacheFits
  <2>3. EnhanceFits(k)' BY <2>1, <1>1 DEF KeyFits, EnhanceFits, Completed
  <2>4. FoundFits(k)' BY <2>1, <1>1 DEF KeyFits, FoundFits, Running, Completed
  <2> QED BY <2>2, <2>3, <2>4 DEF KeyFits
<1>4. \A j \in Keys : KeyFits(j)' BY <1>1, <1>3, KeyKept DEF IngestInv
<1>5. ASSUME NEW c \in Callers PROVE CallerFits(c)'
  <2>1. CallerFits(c) BY DEF IngestInv
  <2> QED BY <2>1, <1>1 DEF CallerFits, Running
<1>6. Stays BY DEF Stays, StaysAt, Answer, Ended
<1> QED BY <1>2, <1>4, <1>5, <1>6 DEF IngestInv

LEMMA EnhanceMoves ==
  ASSUME IngestInv, NEW k \in Keys, NEW v, Place(v),
         thread' = [thread EXCEPT ![<<"enhance", k>>] = v],
         Enhance(k).pc # "off", EnhanceFits(k)', UNCHANGED <<jobRow, cache, caller, recovery, found>>
  PROVE  IngestInv' /\ Stays
<1>1. /\ Enhance(k)' = v /\ \A j \in Keys : Run(j)' = Run(j)
      /\ \A j \in Keys \ {k} : Enhance(j)' = Enhance(j)
  BY OneThread, Pairs DEF Run, Enhance, IngestInv
<1>2. IngestTyped' BY OneThread, Pairs DEF IngestTyped, IngestInv, CallersTyped
<1>3. KeyFits(k)'
  <2>1. KeyFits(k) BY DEF IngestInv
  <2>2. CacheFits(k)' BY <2>1 DEF KeyFits, CacheFits
  <2>3. RunFits(k)' BY <2>1, <1>1 DEF KeyFits, RunFits, Running
  <2>4. FoundFits(k)' BY <2>1, <1>1 DEF KeyFits, FoundFits, Running, Completed
  <2> QED BY <2>2, <2>3, <2>4 DEF KeyFits
<1>4. \A j \in Keys : KeyFits(j)' BY <1>1, <1>3, KeyKept DEF IngestInv
<1>5. ASSUME NEW c \in Callers PROVE CallerFits(c)'
  <2>1. CallerFits(c) BY DEF IngestInv
  <2> QED BY <2>1, <1>1 DEF CallerFits, Running
<1>6. Stays BY DEF Stays, StaysAt, Answer, Ended
<1> QED BY <1>2, <1>4, <1>5, <1>6 DEF IngestInv

(* How a copy of a record is changed. *)
LEMMA UpdatedRecord ==
  ASSUME NEW job \in Record, NEW stage,
         job.status = "running" \/ (job.status = "completed" /\ stage \in {"fetching", "fetched"})
  PROVE  /\ Updated(job, stage) \in Record
         /\ Updated(job, stage).status =
              IF stage \in {"completed", "failed"} THEN stage ELSE job.status
BY DEF Updated, Record

(* The two goroutines of a job, one by one. *)
LEMMA TwoGoroutines ==
  ASSUME NEW g \in Goroutines
  PROVE  \E k \in Keys : g = <<"run", k>> \/ g = <<"enhance", k>>
BY DEF Goroutines

LEMMA ReadJobInv ==
  ASSUME IngestInv, NEW g \in Goroutines, ReadJob(g)
  PROVE  IngestInv' /\ Stays
<1> PICK k \in Keys : g = <<"run", k>> \/ g = <<"enhance", k>> BY TwoGoroutines
<1> DEFINE v == [pc |-> "persist", stage |-> thread[g].stage, job |-> Updated(cache[k], thread[g].stage)]
<1>1. g[2] = k OBVIOUS
<1>2. Place(thread[g]) /\ Place(v) /\ thread' = [thread EXCEPT ![g] = v]
  <2>1. Place(thread[g]) BY DEF IngestInv, IngestTyped, ThreadsTyped, Place
  <2>2. Place(v) BY DEF Place
  <2>3. thread' = [thread EXCEPT ![g].pc = "persist", ![g].job = Updated(cache[k], thread[g].stage)]
    BY <1>1 DEF ReadJob
  <2>4. [thread[g] EXCEPT !.pc = "persist", !.job = Updated(cache[k], thread[g].stage)] = v
    BY <2>1, TwoSet, Zenon
  <2>5. thread = [h \in Goroutines |-> thread[h]] BY DEF IngestInv, IngestTyped, ThreadsTyped
  <2>6. thread' = [thread EXCEPT ![g] =
                    [thread[g] EXCEPT !.pc = "persist", !.job = Updated(cache[k], thread[g].stage)]]
    BY <2>3, <2>5, TwoFields, Zenon
  <2>7. thread' = [thread EXCEPT ![g] = v] BY <2>4, <2>6, Zenon
  <2> QED BY <2>1, <2>2, <2>7
<1>3. thread'[g] = v BY <1>2, OneThread DEF IngestInv
<1>4. UNCHANGED <<jobRow, cache, caller, recovery, found>> /\ thread[g].pc = "read"
  BY DEF ReadJob, Is
<1>5. KeyFits(k) /\ cache[k] \in Record \union {NoRecord} BY DEF IngestInv, IngestTyped
<1>6. CASE g = <<"run", k>>
  <2>1. Run(k) = thread[g] /\ Run(k)' = v BY <1>6, <1>3 DEF Run
  <2>2. Running(jobRow[k]) /\ Running(cache[k]) BY <1>4, <1>5, <2>1 DEF KeyFits, RunFits
  <2>3. v.job \in Record
        /\ v.job.status = IF v.stage \in {"completed", "failed"} THEN v.stage ELSE "running"
    BY <1>5, <2>2, UpdatedRecord DEF Running
  <2>4. RunFits(k)' BY <1>4, <2>1, <2>2, <2>3 DEF RunFits, Running
  <2> QED BY <1>2, <1>4, <1>6, <2>1, <2>4, RunMoves
<1>7. CASE g = <<"enhance", k>>
  <2>1. Enhance(k) = thread[g] /\ Enhance(k)' = v BY <1>7, <1>3 DEF Enhance
  <2>2. Completed(jobRow[k]) /\ Completed(cache[k]) /\ thread[g].stage \in {"fetching", "fetched"}
    BY <1>4, <1>5, <2>1 DEF KeyFits, EnhanceFits
  <2>3. v.job \in Record /\ v.job.status = "completed"
    BY <1>5, <2>2, UpdatedRecord DEF Completed
  <2>4. EnhanceFits(k)' BY <1>4, <2>1, <2>2, <2>3 DEF EnhanceFits, Completed
  <2> QED BY <1>2, <1>4, <1>7, <2>1, <2>4, EnhanceMoves
<1> QED BY <1>6, <1>7

LEMMA RefuseJobInv ==
  ASSUME IngestInv, NEW g \in Goroutines, RefuseJob(g)
  PROVE  IngestInv' /\ Stays
<1> PICK k \in Keys : g = <<"run", k>> \/ g = <<"enhance", k>> BY TwoGoroutines
<1> DEFINE again == g[1] = "run" /\ thread[g].stage # "failed"
           v == IF again THEN [pc |-> "read", stage |-> "failed", job |-> NoRecord]
                         ELSE [pc |-> "return", stage |-> "none", job |-> NoRecord]
<1>1. Place(v) /\ thread' = [thread EXCEPT ![g] = v] BY DEF RefuseJob, Moved, Place
<1>2. thread'[g] = v
  <2> HIDE DEF v
  <2> QED BY <1>1, OneThread DEF IngestInv
<1>3. UNCHANGED <<jobRow, cache, caller, recovery, found>> /\ thread[g].pc = "persist"
  BY DEF RefuseJob, Is
<1>4. KeyFits(k) BY DEF IngestInv
<1>5. CASE g = <<"run", k>>
  <2>1. Run(k) = thread[g] /\ Run(k)' = v BY <1>5, <1>2 DEF Run
  <2>2. RunFits(k)' BY <1>3, <1>4, <2>1 DEF KeyFits, RunFits, Running
  <2> QED BY <1>1, <1>3, <1>5, <2>1, <2>2, RunMoves
<1>6. CASE g = <<"enhance", k>>
  <2>1. Enhance(k) = thread[g] /\ Enhance(k)' = v /\ ~again BY <1>6, <1>2 DEF Enhance
  <2>2. EnhanceFits(k)' BY <1>3, <1>4, <2>1 DEF KeyFits, EnhanceFits, Completed
  <2> QED BY <1>1, <1>3, <1>6, <2>1, <2>2, EnhanceMoves
<1> QED BY <1>5, <1>6

LEMMA ReturnInv ==
  ASSUME IngestInv, NEW g \in Goroutines, Return(g)
  PROVE  IngestInv' /\ Stays
<1> PICK k \in Keys : g = <<"run", k>> \/ g = <<"enhance", k>> BY TwoGoroutines
<1>1. Place(Off) /\ thread' = [thread EXCEPT ![g] = Off] BY DEF Return, Off, Place
<1>2. thread'[g] = Off BY <1>1, OneThread DEF IngestInv
<1>3. UNCHANGED <<jobRow, cache, caller, recovery, found>> /\ thread[g].pc = "return"
  BY DEF Return, Is
<1>4. CASE g = <<"run", k>>
  <2>1. Run(k) = thread[g] /\ Run(k)' = Off BY <1>4, <1>2 DEF Run
  <2>2. RunFits(k)' BY <2>1 DEF RunFits, Off
  <2> QED BY <1>1, <1>3, <1>4, <2>1, <2>2, RunMoves
<1>5. CASE g = <<"enhance", k>>
  <2>1. Enhance(k) = thread[g] /\ Enhance(k)' = Off BY <1>5, <1>2 DEF Enhance
  <2>2. EnhanceFits(k)' BY <2>1 DEF EnhanceFits, Off
  <2> QED BY <1>1, <1>3, <1>5, <2>1, <2>2, EnhanceMoves
<1> QED BY <1>4, <1>5

(* Between two updates a job that is at work goes on, scans or is about to *)
(* store its failure.                                                      *)
LEMMA GoesInv ==
  ASSUME IngestInv, NEW k \in Keys, NEW pc \in {"read", "scan"}, NEW stage, Goes(k, pc, stage),
         Run(k).pc = "scan" \/ (Run(k).pc = "work" /\ Run(k).stage # "completed")
  PROVE  IngestInv' /\ Stays
<1> DEFINE v == [pc |-> pc, stage |-> stage, job |-> NoRecord]
<1>1. Place(v) /\ thread' = [thread EXCEPT ![<<"run", k>>] = v]
      /\ UNCHANGED <<jobRow, cache, caller, recovery, found>>
  BY DEF Goes, Moved, Place
<1>2. Run(k)' = v BY <1>1, OneThread, Pairs DEF IngestInv, Run
<1>3. RunFits(k) BY DEF IngestInv, KeyFits
<1>4. RunFits(k)' BY <1>1, <1>2, <1>3 DEF RunFits, Running
<1> QED BY <1>1, <1>4, RunMoves

LEMMA RunStepInv ==
  ASSUME IngestInv, NEW k \in Keys,
         Advance(k) \/ FailJob(k) \/ BeginIngestScan(k) \/ EndIngestScan(k)
  PROVE  IngestInv' /\ Stays
<1>1. CASE Advance(k) BY <1>1, GoesInv DEF Advance, Is, Works, Run
<1>2. CASE FailJob(k) BY <1>2, GoesInv DEF FailJob, Is, Works, Run, MayFail
<1>3. CASE BeginIngestScan(k) BY <1>3, GoesInv DEF BeginIngestScan, Is, Works, Run
<1>4. CASE EndIngestScan(k) BY <1>4, GoesInv DEF EndIngestScan, Is, Run
<1> QED BY <1>1, <1>2, <1>3, <1>4

LEMMA EnhanceStepInv ==
  ASSUME IngestInv, NEW k \in Keys, EnhanceStep(k)
  PROVE  IngestInv' /\ Stays
<1> DEFINE stage == IF Enhance(k).pc = "work" THEN "fetched"
                    ELSE IF WantsSubtitles(cache[k]) THEN "fetching" ELSE "none"
           v == [pc |-> IF stage = "none" THEN "return" ELSE "read", stage |-> stage, job |-> NoRecord]
<1>1. /\ Place(v) /\ thread' = [thread EXCEPT ![<<"enhance", k>>] = v]
      /\ UNCHANGED <<jobRow, cache, caller, recovery, found>> /\ Enhance(k).pc \in {"look", "work"}
  BY DEF EnhanceStep, LookAtSubtitles, FetchSubtitles, Is, Moved, Place, Enhance
<1>2. Enhance(k)' = v
  <2> HIDE DEF v
  <2> QED BY <1>1, OneThread, Pairs DEF IngestInv, Enhance
<1>3. KeyFits(k) /\ jobRow[k] \in Record \union {NoRecord} BY DEF IngestInv, IngestTyped
<1>4. v.pc = "read" => Completed(jobRow[k]) /\ Completed(cache[k])
  <2>1. CASE Enhance(k).pc = "work" BY <2>1, <1>3 DEF KeyFits, EnhanceFits
  <2>2. CASE Enhance(k).pc = "look" /\ WantsSubtitles(cache[k])
    <3>1. cache[k] \in Record \union {NoRecord} BY DEF IngestInv, IngestTyped
    <3>2. cache[k] # NoRecord BY <2>2, <1>3 DEF KeyFits, EnhanceFits
    <3> QED BY <2>2, <3>1, <3>2, <1>3 DEF KeyFits, CacheFits, Completed, WantsSubtitles
  <2> QED BY <1>1, <2>1, <2>2
<1>5. EnhanceFits(k)' BY <1>1, <1>2, <1>3, <1>4 DEF KeyFits, EnhanceFits, Completed
<1> HIDE DEF v
<1> QED BY <1>1, <1>5, EnhanceMoves

-----------------------------------------------------------------------------
(* What a step leaves alone stays fit, so that a step is about one job.    *)
LEMMA OneKey ==
  ASSUME IngestInv, NEW k \in Keys, IngestTyped', KeyFits(k)', StaysAt(k), recovery' = recovery,
         \A j \in Keys \ {k} : /\ jobRow'[j] = jobRow[j] /\ cache'[j] = cache[j]
                              /\ found'[j] = found[j]
                              /\ Run(j)' = Run(j) /\ Enhance(j)' = Enhance(j),
         \A c \in Callers : CallerFits(c)'
  PROVE  IngestInv' /\ Stays
<1>1. \A j \in Keys \ {k} : KeyFits(j)' BY KeyKept DEF IngestInv
<1>2. \A j \in Keys \ {k} : StaysAt(j) BY DEF StaysAt, Answer, Ended
<1> QED BY <1>1, <1>2 DEF IngestInv, Stays

LEMMA CallerKept ==
  ASSUME NEW c \in Callers, CallerFits(c), recovery' = recovery, caller'[c] = caller[c],
         caller[c].key \in Keys => \A d \in Callers \ {c} :
           caller'[d].key = caller[d].key \/ caller'[d].key # caller[c].key,
         NEW k \in Keys, caller[c].key # k,
         \A j \in Keys \ {k} : /\ jobRow'[j] = jobRow[j] /\ cache'[j] = cache[j]
                              /\ Run(j)' = Run(j)
  PROVE  CallerFits(c)'
BY DEF CallerFits, Running

LEMMA PersistJobInv ==
  ASSUME IngestInv, NEW g \in Goroutines, PersistJob(g)
  PROVE  IngestInv' /\ Stays
<1> PICK k \in Keys : g = <<"run", k>> \/ g = <<"enhance", k>> BY TwoGoroutines
<1> DEFINE v == [thread[g] EXCEPT !.pc = "cache"]
<1>1. g[2] = k OBVIOUS
<1>2. /\ thread[g].pc = "persist" /\ UNCHANGED <<cache, caller, recovery, found>>
      /\ jobRow' = [jobRow EXCEPT ![k] = thread[g].job] /\ thread' = [thread EXCEPT ![g] = v]
  BY <1>1 DEF PersistJob, Is
<1>3. v = [pc |-> "cache", stage |-> thread[g].stage, job |-> thread[g].job]
  <2>1. Place(thread[g]) BY DEF IngestInv, IngestTyped, ThreadsTyped, Place
  <2> QED BY <2>1, OneSet
<1>4. Place(v) BY <1>3 DEF Place
<1> HIDE DEF v
<1>5. ThreadsTyped' /\ thread'[g] = v /\ \A h \in Goroutines \ {g} : thread'[h] = thread[h]
  BY <1>2, <1>4, OneThread DEF IngestInv
<1>6. KeyFits(k) /\ jobRow[k] \in Record \union {NoRecord} /\ cache[k] \in Record \union {NoRecord}
      /\ jobRow'[k] = thread[g].job /\ \A j \in Keys \ {k} : jobRow'[j] = jobRow[j]
  BY <1>2 DEF IngestInv, IngestTyped
<1>7. \A j \in Keys \ {k} : Run(j)' = Run(j) /\ Enhance(j)' = Enhance(j)
  BY <1>5, Pairs DEF Run, Enhance
<1>8. CASE g = <<"run", k>>
  <2>1. Run(k) = thread[g] /\ Run(k)' = v /\ Enhance(k)' = Enhance(k)
    BY <1>5, <1>8, Pairs DEF Run, Enhance
  <2>2. /\ Running(jobRow[k]) /\ Running(cache[k]) /\ thread[g].job \in Record
        /\ thread[g].job.status =
             IF thread[g].stage \in {"completed", "failed"} THEN thread[g].stage ELSE "running"
    BY <1>2, <1>6, <2>1 DEF KeyFits, RunFits
  <2>3. jobRow'[k] # NoRecord BY <1>6, <2>2, RecordAssumption
  <2>4. IngestTyped'
    BY <1>2, <1>5, <2>2, RecordOfOne DEF IngestInv, IngestTyped, CallersTyped
  <2>5. KeyFits(k)'
    <3>1. CacheFits(k)' BY <1>2, <2>2, <2>3 DEF CacheFits, Running
    <3>2. RunFits(k)' BY <1>2, <1>3, <1>6, <2>1, <2>2, <2>3 DEF RunFits, Running
    <3>3. EnhanceFits(k)'
      <4>1. Enhance(k).pc \notin {"work", "read", "persist", "cache"}
        BY <1>6, <2>2 DEF KeyFits, EnhanceFits, Completed, Running
      <4> QED BY <1>2, <1>6, <2>1, <4>1 DEF KeyFits, EnhanceFits
    <3>4. FoundFits(k)' BY <1>2, <1>3, <1>6, <2>1, <2>2 DEF KeyFits, FoundFits, Completed, Running
    <3> QED BY <3>1, <3>2, <3>3, <3>4 DEF KeyFits
  <2>6. StaysAt(k) BY <1>2, <2>2 DEF StaysAt, Answer, Ended, Running
  <2>7. ASSUME NEW c \in Callers PROVE CallerFits(c)'
    <3>1. CallerFits(c) BY DEF IngestInv
    <3>2. CASE caller[c].key = k /\ caller[c] # NoCall
      BY <1>2, <2>1, <2>2, <3>1, <3>2 DEF CallerFits, Running
    <3>3. CASE caller[c] = NoCall BY <1>2, <3>3 DEF CallerFits
    <3>4. CASE caller[c].key # k
      BY <1>2, <1>6, <1>7, <3>1, <3>4, CallerKept
    <3> QED BY <3>2, <3>3, <3>4
  <2> QED BY <1>2, <1>6, <1>7, <2>4, <2>5, <2>6, <2>7, OneKey
<1>9. CASE g = <<"enhance", k>>
  <2>1. Enhance(k) = thread[g] /\ Enhance(k)' = v /\ Run(k)' = Run(k)
    BY <1>5, <1>9, Pairs DEF Run, Enhance
  <2>2. /\ Completed(jobRow[k]) /\ Completed(cache[k]) /\ thread[g].job \in Record
        /\ thread[g].job.status = "completed" /\ thread[g].stage \in {"fetching", "fetched"}
    BY <1>2, <1>6, <2>1 DEF KeyFits, EnhanceFits
  <2>3. Completed(jobRow'[k]) BY <1>6, <2>2, RecordAssumption DEF Completed
  <2>4. IngestTyped'
    BY <1>2, <1>5, <2>2, RecordOfOne DEF IngestInv, IngestTyped, CallersTyped
  <2>5. KeyFits(k)'
    <3>1. CacheFits(k)' BY <1>2, <2>2, <2>3 DEF CacheFits, Completed
    <3>2. RunFits(k)' BY <1>2, <1>6, <2>1, <2>2, <2>3 DEF KeyFits, RunFits, Running, Completed
    <3>3. EnhanceFits(k)' BY <1>2, <1>3, <2>1, <2>2, <2>3 DEF EnhanceFits, Completed
    <3>4. FoundFits(k)' BY <1>2, <1>3, <1>6, <2>1, <2>2, <2>3 DEF KeyFits, FoundFits, Completed, Running
    <3> QED BY <3>1, <3>2, <3>3, <3>4 DEF KeyFits
  <2>6. StaysAt(k) BY <1>2, <2>2, <2>3 DEF StaysAt, Answer, Ended, Completed
  <2>7. ASSUME NEW c \in Callers PROVE CallerFits(c)'
    <3>1. CallerFits(c) BY DEF IngestInv
    <3>2. CASE caller[c].key = k /\ caller[c] # NoCall
      BY <1>2, <2>1, <2>2, <2>3, <3>1, <3>2 DEF CallerFits, Running, Completed
    <3>3. CASE caller[c] = NoCall BY <1>2, <3>3 DEF CallerFits
    <3>4. CASE caller[c].key # k
      BY <1>2, <1>6, <1>7, <3>1, <3>4, CallerKept
    <3> QED BY <3>2, <3>3, <3>4
  <2> QED BY <1>2, <1>6, <1>7, <2>4, <2>5, <2>6, <2>7, OneKey
<1> QED BY <1>8, <1>9

(* What is put into the map agrees with the row by now. *)
LEMMA StoreJobInv ==
  ASSUME IngestInv, NEW g \in Goroutines, StoreJob(g)
  PROVE  IngestInv' /\ Stays
<1> PICK k \in Keys : g = <<"run", k>> \/ g = <<"enhance", k>> BY TwoGoroutines
<1> DEFINE last == thread[g].stage \in {"failed", "fetched"}
           v == IF last THEN [pc |-> "return", stage |-> "none", job |-> NoRecord]
                        ELSE [pc |-> "work", stage |-> thread[g].stage, job |-> NoRecord]
<1>1. g[2] = k OBVIOUS
<1>2. /\ thread[g].pc = "cache" /\ UNCHANGED <<jobRow, caller, recovery, found>>
      /\ cache' = [cache EXCEPT ![k] = thread[g].job] /\ thread' = [thread EXCEPT ![g] = v]
  BY <1>1 DEF StoreJob, Is, Moved
<1>3. /\ v.pc = IF last THEN "return" ELSE "work"
      /\ v.stage = IF last THEN "none" ELSE thread[g].stage
      /\ Place(v)
  BY DEF Place
<1> HIDE DEF v
<1>5. ThreadsTyped' /\ thread'[g] = v /\ \A h \in Goroutines \ {g} : thread'[h] = thread[h]
  BY <1>2, <1>3, OneThread DEF IngestInv
<1>6. KeyFits(k) /\ jobRow[k] \in Record \union {NoRecord} /\ cache[k] \in Record \union {NoRecord}
      /\ cache'[k] = thread[g].job /\ \A j \in Keys \ {k} : cache'[j] = cache[j]
  BY <1>2 DEF IngestInv, IngestTyped
<1>7. \A j \in Keys \ {k} : Run(j)' = Run(j) /\ Enhance(j)' = Enhance(j)
  BY <1>5, Pairs DEF Run, Enhance
<1>8. CASE g = <<"run", k>>
  <2>1. Run(k) = thread[g] /\ Run(k)' = v /\ Enhance(k)' = Enhance(k)
    BY <1>5, <1>8, Pairs DEF Run, Enhance
  <2>2. /\ jobRow[k] # NoRecord /\ thread[g].job \in Record
        /\ thread[g].job.status = jobRow[k].status
        /\ thread[g].job.status =
             IF thread[g].stage \in {"completed", "failed"} THEN thread[g].stage ELSE "running"
    BY <1>2, <1>6, <2>1 DEF KeyFits, RunFits
  <2>3. cache'[k] # NoRecord /\ cache'[k].status = jobRow[k].status BY <1>6, <2>2, RecordAssumption
  <2>4. IngestTyped'
    BY <1>2, <1>5, <2>2, RecordOfOne DEF IngestInv, IngestTyped, CallersTyped
  <2>5. KeyFits(k)'
    <3>1. CacheFits(k)' BY <1>2, <2>2, <2>3 DEF CacheFits
    <3>2. RunFits(k)' BY <1>2, <1>3, <1>6, <2>1, <2>2, <2>3 DEF RunFits, Running
    <3>3. EnhanceFits(k)' BY <1>2, <1>6, <2>1, <2>3 DEF KeyFits, EnhanceFits, Completed
    <3>4. FoundFits(k)' BY <1>2, <1>6, <2>1 DEF KeyFits, FoundFits, Completed, Running
    <3> QED BY <3>1, <3>2, <3>3, <3>4 DEF KeyFits
  <2>6. StaysAt(k) BY <1>2, <1>6, <2>3 DEF StaysAt, Answer, Ended, KeyFits, CacheFits
  <2>7. ASSUME NEW c \in Callers PROVE CallerFits(c)'
    <3>1. CallerFits(c) BY DEF IngestInv
    <3>2. CASE caller[c].key = k /\ caller[c] # NoCall
      BY <1>2, <2>1, <2>2, <2>3, <3>1, <3>2 DEF CallerFits, Running
    <3>3. CASE caller[c] = NoCall BY <1>2, <3>3 DEF CallerFits
    <3>4. CASE caller[c].key # k
      BY <1>2, <1>6, <1>7, <3>1, <3>4, CallerKept
    <3> QED BY <3>2, <3>3, <3>4
  <2> QED BY <1>2, <1>6, <1>7, <2>4, <2>5, <2>6, <2>7, OneKey
<1>9. CASE g = <<"enhance", k>>
  <2>1. Enhance(k) = thread[g] /\ Enhance(k)' = v /\ Run(k)' = Run(k)
    BY <1>5, <1>9, Pairs DEF Run, Enhance
  <2>2. /\ Completed(jobRow[k]) /\ Completed(cache[k]) /\ thread[g].job \in Record
        /\ thread[g].job.status = "completed" /\ thread[g].stage \in {"fetching", "fetched"}
    BY <1>2, <1>6, <2>1 DEF KeyFits, EnhanceFits
  <2>3. Completed(cache'[k]) BY <1>6, <2>2, RecordAssumption DEF Completed
  <2>4. IngestTyped'
    BY <1>2, <1>5, <2>2, RecordOfOne DEF IngestInv, IngestTyped, CallersTyped
  <2>5. KeyFits(k)'
    <3>1. CacheFits(k)' BY <1>2, <2>2, <2>3 DEF CacheFits, Completed
    <3>2. RunFits(k)' BY <1>2, <1>6, <2>1, <2>2, <2>3 DEF KeyFits, RunFits, Running, Completed
    <3>3. EnhanceFits(k)' BY <1>2, <1>3, <2>1, <2>2, <2>3 DEF EnhanceFits, Completed
    <3>4. FoundFits(k)' BY <1>2, <1>3, <1>6, <2>1, <2>2, <2>3 DEF KeyFits, FoundFits, Completed, Running
    <3> QED BY <3>1, <3>2, <3>3, <3>4 DEF KeyFits
  <2>6. StaysAt(k) BY <1>2, <2>2, <2>3 DEF StaysAt, Answer, Ended, Completed
  <2>7. ASSUME NEW c \in Callers PROVE CallerFits(c)'
    <3>1. CallerFits(c) BY DEF IngestInv
    <3>2. CASE caller[c].key = k /\ caller[c] # NoCall
      BY <1>2, <2>1, <2>2, <2>3, <3>1, <3>2 DEF CallerFits, Running, Completed
    <3>3. CASE caller[c] = NoCall BY <1>2, <3>3 DEF CallerFits
    <3>4. CASE caller[c].key # k
      BY <1>2, <1>6, <1>7, <3>1, <3>4, CallerKept
    <3> QED BY <3>2, <3>3, <3>4
  <2> QED BY <1>2, <1>6, <1>7, <2>4, <2>5, <2>6, <2>7, OneKey
<1> QED BY <1>8, <1>9

(* The goroutines once one of them is scheduled. *)
LEMMA ScheduledThread ==
  ASSUME IngestTyped, NEW g \in Goroutines, thread' = Scheduled(g)
  PROVE  /\ ThreadsTyped' /\ \A h \in Goroutines \ {g} : thread'[h] = thread[h]
         /\ thread[g].pc # "off" => thread'[g] = thread[g]
         /\ thread[g].pc = "off" =>
              /\ thread'[g].pc = IF g[1] = "run" THEN "work" ELSE "look"
              /\ thread'[g].stage = IF g[1] = "run" THEN "start" ELSE "none"
<1>1. CASE thread[g].pc # "off" BY <1>1 DEF Scheduled, Is, IngestTyped, ThreadsTyped
<1>2. CASE thread[g].pc = "off"
  <2> DEFINE v == IF g[1] = "run" THEN [pc |-> "work", stage |-> "start", job |-> NoRecord]
                                  ELSE [pc |-> "look", stage |-> "none", job |-> NoRecord]
  <2>1. thread' = [thread EXCEPT ![g] = v] BY <1>2 DEF Scheduled, Is, Moved
  <2>2. /\ Place(v) /\ v.pc = IF g[1] = "run" THEN "work" ELSE "look"
        /\ v.stage = IF g[1] = "run" THEN "start" ELSE "none"
    BY DEF Place
  <2> HIDE DEF v
  <2>3. ThreadsTyped' /\ thread'[g] = v /\ \A h \in Goroutines \ {g} : thread'[h] = thread[h]
    BY <2>1, <2>2, OneThread
  <2> QED BY <1>2, <2>2, <2>3
<1> QED BY <1>1, <1>2

LEMMA CompleteJobInv ==
  ASSUME IngestInv, NEW k \in Keys, CompleteJob(k)
  PROVE  IngestInv' /\ Stays
<1> DEFINE r == <<"run", k>>  e == <<"enhance", k>>  t == Scheduled(e)
           v == [pc |-> "return", stage |-> "none", job |-> NoRecord]
           w == [pc |-> "look", stage |-> "none", job |-> NoRecord]
<1>1. /\ Run(k).pc = "work" /\ UNCHANGED <<jobRow, cache, caller, recovery, found>>
      /\ thread' = [t EXCEPT ![r] = v]
  BY DEF CompleteJob, Works, Is, Run
<1>2. /\ r \in Goroutines /\ e \in Goroutines /\ r # e
      /\ \A j \in Keys \ {k} : <<"run", j>> \notin {r, e} /\ <<"enhance", j>> \notin {r, e}
      /\ \A j \in Keys \ {k} : <<"run", j>> \in Goroutines /\ <<"enhance", j>> \in Goroutines
  BY Pairs DEF Goroutines
<1>3. /\ thread = [h \in Goroutines |-> thread[h]] /\ \A h \in Goroutines : Place(thread[h])
      /\ Place(v) /\ Place(w) /\ v.pc = "return" /\ w.pc = "look"
  BY DEF IngestInv, IngestTyped, ThreadsTyped, Place
<1>4. t = IF thread[e].pc = "off" THEN [thread EXCEPT ![e] = w] ELSE thread
  BY DEF Scheduled, Is, Moved
<1> HIDE DEF v, w, t, r, e
<1>5. /\ thread' = [h \in Goroutines |-> thread'[h]] /\ thread'[r] = v
      /\ thread'[e] = IF thread[e].pc = "off" THEN w ELSE thread[e]
      /\ \A h \in Goroutines \ {r, e} : thread'[h] = thread[h]
  <2>1. CASE thread[e].pc = "off" BY <1>1, <1>2, <1>3, <1>4, <2>1
  <2>2. CASE thread[e].pc # "off" BY <1>1, <1>2, <1>3, <1>4, <2>2
  <2> QED BY <2>1, <2>2
<1>6. \A h \in Goroutines : Place(thread'[h]) BY <1>3, <1>5
<1>7. ThreadsTyped' BY <1>5, <1>6 DEF ThreadsTyped, Place
<1>8. IngestTyped' BY <1>1, <1>7 DEF IngestInv, IngestTyped, CallersTyped
<1>9. KeyFits(k) BY DEF IngestInv
<1>10. /\ Run(k)' = v /\ Enhance(k)' = IF Enhance(k).pc = "off" THEN w ELSE Enhance(k)
       /\ \A j \in Keys \ {k} : Run(j)' = Run(j) /\ Enhance(j)' = Enhance(j)
  BY <1>2, <1>5 DEF Run, Enhance, r, e
<1>11. KeyFits(k)'
  <2>1. CacheFits(k)' BY <1>1, <1>9 DEF KeyFits, CacheFits
  <2>2. RunFits(k)' BY <1>1, <1>3, <1>9, <1>10 DEF KeyFits, RunFits
  <2>3. EnhanceFits(k)'
    <3>1. cache[k] # NoRecord BY <1>1, <1>9 DEF KeyFits, RunFits
    <3> QED BY <1>1, <1>3, <1>9, <1>10, <3>1 DEF KeyFits, EnhanceFits, Completed
  <2>4. FoundFits(k)' BY <1>1, <1>3, <1>9, <1>10 DEF KeyFits, FoundFits, Running, Completed
  <2> QED BY <2>1, <2>2, <2>3, <2>4 DEF KeyFits
<1>12. StaysAt(k) BY <1>1 DEF StaysAt, Answer, Ended
<1>13. ASSUME NEW c \in Callers PROVE CallerFits(c)'
  <2>1. CallerFits(c) BY DEF IngestInv
  <2>2. CASE caller[c].key = k BY <1>1, <1>10, <2>1, <2>2 DEF CallerFits, Running
  <2>3. CASE caller[c].key # k BY <1>1, <1>10, <2>1, <2>3, CallerKept
  <2> QED BY <2>2, <2>3
<1> QED BY <1>1, <1>8, <1>10, <1>11, <1>12, <1>13, OneKey

-----------------------------------------------------------------------------
(* A request moves, and nothing else: the others are for other jobs.       *)
LEMMA CallerMoves ==
  ASSUME IngestInv, NEW c \in Callers, NEW w, Request(w), caller' = [caller EXCEPT ![c] = w],
         UNCHANGED <<jobRow, cache, thread, recovery, found>>, CallerFits(c)',
         w.key \in {caller[c].key, NoKey} \/ \A d \in Callers \ {c} : caller[d].key # w.key
  PROVE  IngestInv' /\ Stays
<1>1. CallersTyped' /\ caller'[c] = w /\ \A d \in Callers \ {c} : caller'[d] = caller[d]
  BY OneCaller DEF IngestInv
<1>2. IngestTyped' BY <1>1 DEF IngestInv, IngestTyped, ThreadsTyped
<1>3. \A k \in Keys : KeyFits(k)' BY KeyKept DEF IngestInv, Run, Enhance
<1>4. ASSUME NEW d \in Callers \ {c} PROVE CallerFits(d)'
  <2>1. CallerFits(d) /\ CallerFits(c) BY DEF IngestInv
  <2>2. caller'[d] = caller[d] BY <1>1
  <2>3. CASE caller[d] = NoCall BY <2>2, <2>3 DEF CallerFits
  <2>4. CASE caller[d] # NoCall
    <3>1. caller[d].key \in Keys /\ \A b \in Callers \ {d} : caller[b].key # caller[d].key
      BY <2>1, <2>4 DEF CallerFits
    <3>2. \A b \in Callers \ {d} : caller'[b].key # caller[d].key
      BY <1>1, <3>1, IngestAssumption
    <3> QED BY <2>1, <2>2, <2>4, <3>2 DEF CallerFits, Running, Run
  <2> QED BY <2>3, <2>4
<1>5. Stays BY DEF Stays, StaysAt, Answer, Ended
<1> QED BY <1>2, <1>3, <1>4, <1>5 DEF IngestInv

LEMMA CallIs ==
  ASSUME IngestInv, NEW c \in Callers, NEW pc, NEW job, Call(c, pc, job)
  PROVE  caller' = [caller EXCEPT ![c] = [pc |-> pc, key |-> caller[c].key, job |-> job]]
<1>1. caller = [d \in Callers |-> caller[d]] /\ Request(caller[c])
  BY DEF IngestInv, IngestTyped, CallersTyped, Request
<1>2. [caller[c] EXCEPT !.pc = pc, !.job = job] = [pc |-> pc, key |-> caller[c].key, job |-> job]
  BY <1>1, TwoSetOfCall, Zenon
<1>3. caller' = [caller EXCEPT ![c] = [caller[c] EXCEPT !.pc = pc, !.job = job]]
  <2>1. caller' = [caller EXCEPT ![c].pc = pc, ![c].job = job] BY DEF Call
  <2> QED BY <2>1, <1>1, TwoFields, Zenon
<1> QED BY <1>2, <1>3, Zenon

LEMMA IsRequest ==
  ASSUME NEW pc, NEW key, NEW job
  PROVE  Request([pc |-> pc, key |-> key, job |-> job])
BY DEF Request

LEMMA StartInv ==
  ASSUME IngestInv, NEW c \in Callers, NEW k \in Keys, ~Repeats, Start(c, k)
  PROVE  IngestInv' /\ Stays
<1> DEFINE w == [pc |-> "find", key |-> k, job |-> NoRecord]
<1>1. /\ recovery = "up" /\ Alone(c, k) /\ (jobRow[k] = NoRecord \/ Ended(jobRow[k]))
      /\ caller' = [caller EXCEPT ![c] = w] /\ UNCHANGED <<jobRow, cache, thread, recovery, found>>
  BY DEF Start
<1>2. Request(w) /\ w.pc = "find" /\ w.key = k BY DEF Request
<1> HIDE DEF w
<1>3. caller'[c] = w /\ \A d \in Callers \ {c} : caller'[d] = caller[d]
  BY <1>1, <1>2, OneCaller DEF IngestInv
<1>4. \A d \in Callers \ {c} : caller[d].key # k BY <1>1 DEF Alone
<1>5. CallerFits(c)'
  BY <1>1, <1>2, <1>3, <1>4 DEF CallerFits, Ended, Running
<1> QED BY <1>1, <1>2, <1>4, <1>5, CallerMoves

LEMMA FindJobInv ==
  ASSUME IngestInv, NEW c \in Callers, FindJob(c)
  PROVE  IngestInv' /\ Stays
<1> DEFINE k == caller[c].key  job == jobRow[k]  pc == IF job = NoRecord THEN "create" ELSE "cache"
           w == [pc |-> pc, key |-> k, job |-> job]
<1>1. caller[c].pc = "find" /\ Call(c, pc, job) /\ UNCHANGED <<jobRow, cache, thread, recovery, found>>
  BY DEF FindJob
<1>2. caller' = [caller EXCEPT ![c] = w] BY <1>1, CallIs, Zenon
<1>3. Request(w) /\ w.pc = pc /\ w.key = k /\ w.job = job BY DEF Request
<1> HIDE DEF w
<1>4. caller'[c] = w /\ \A d \in Callers \ {c} : caller'[d] = caller[d]
  BY <1>2, <1>3, OneCaller DEF IngestInv
<1>5. /\ k \in Keys /\ recovery = "up" /\ \A d \in Callers \ {c} : caller[d].key # k
      /\ ~Running(jobRow[k])
  BY <1>1 DEF IngestInv, CallerFits, NoCall
<1>6. jobRow[k] \in Record \union {NoRecord} BY <1>5 DEF IngestInv, IngestTyped
<1>7. CallerFits(c)' BY <1>1, <1>3, <1>4, <1>5, <1>6 DEF CallerFits, Running
<1> QED BY <1>1, <1>2, <1>3, <1>7, CallerMoves

LEMMA AbandonInv ==
  ASSUME IngestInv, NEW c \in Callers, Abandon(c)
  PROVE  IngestInv' /\ Stays
<1>1. caller' = [caller EXCEPT ![c] = NoCall] /\ UNCHANGED <<jobRow, cache, thread, recovery, found>>
  BY DEF Abandon
<1>2. Request(NoCall) /\ NoCall.key = NoKey BY DEF Request, NoCall
<1>3. caller'[c] = NoCall BY <1>1, <1>2, OneCaller DEF IngestInv
<1>4. CallerFits(c)' BY <1>3 DEF CallerFits
<1> QED BY <1>1, <1>2, <1>4, CallerMoves

LEMMA CreateJobInv ==
  ASSUME IngestInv, NEW c \in Callers, CreateJob(c)
  PROVE  IngestInv' /\ Stays
<1>1. caller[c].pc = "create" /\ UNCHANGED <<cache, thread, recovery, found>> BY DEF CreateJob
<1>0. caller[c].key \in Keys BY <1>1 DEF IngestInv, CallerFits, NoCall
<1> PICK k \in Keys : k = caller[c].key BY <1>0
<1> DEFINE w == [pc |-> "cache", key |-> k, job |-> NewRecord]
<1>2. /\ recovery = "up" /\ \A d \in Callers \ {c} : caller[d].key # k
      /\ jobRow[k] = NoRecord
  BY <1>1 DEF IngestInv, CallerFits, NoCall
<1>3. jobRow' = [jobRow EXCEPT ![k] = NewRecord] /\ Call(c, "cache", NewRecord)
  BY <1>2 DEF CreateJob
<1>4. caller' = [caller EXCEPT ![c] = w] BY <1>3, CallIs, Zenon
<1>5. Request(w) /\ w.pc = "cache" /\ w.key = k /\ w.job = NewRecord BY DEF Request
<1> HIDE DEF w
<1>6. CallersTyped' /\ caller'[c] = w /\ \A d \in Callers \ {c} : caller'[d] = caller[d]
  BY <1>4, <1>5, OneCaller DEF IngestInv
<1>7. NewRecord \in Record /\ NewRecord.status = "running" /\ NewRecord # NoRecord
  BY RecordAssumption DEF NewRecord, Record
<1>8. jobRow'[k] = NewRecord /\ \A j \in Keys \ {k} : jobRow'[j] = jobRow[j]
  BY <1>2, <1>3 DEF IngestInv, IngestTyped
<1>9. IngestTyped'
  BY <1>1, <1>2, <1>3, <1>6, <1>7, RecordOfOne DEF IngestInv, IngestTyped, ThreadsTyped
<1>10. \A j \in Keys : Run(j)' = Run(j) /\ Enhance(j)' = Enhance(j) BY <1>1 DEF Run, Enhance
<1>11. KeyFits(k) /\ cache[k] = NoRecord /\ Run(k).pc = "off"
  BY <1>2 DEF IngestInv, KeyFits, CacheFits, RunFits
<1>12. KeyFits(k)'
  BY <1>1, <1>2, <1>8, <1>10, <1>11
  DEF KeyFits, CacheFits, RunFits, EnhanceFits, FoundFits, Running, Completed
<1>13. StaysAt(k) BY <1>1, <1>2, <1>8, <1>11 DEF StaysAt, Answer, Ended
<1>14. ASSUME NEW d \in Callers PROVE CallerFits(d)'
  <2>1. CASE d = c
    BY <1>1, <1>2, <1>5, <1>6, <1>7, <1>8, <1>10, <1>11, <2>1 DEF CallerFits, Running
  <2>2. CASE d # c
    <3>1. caller[d].key # k /\ caller'[c].key = caller[c].key /\ CallerFits(d)
      BY <1>2, <1>5, <1>6, <2>2 DEF IngestInv
    <3> QED BY <1>1, <1>2, <1>6, <1>8, <1>10, <2>2, <3>1, CallerKept
  <2> QED BY <2>1, <2>2
<1> QED BY <1>1, <1>2, <1>8, <1>9, <1>10, <1>12, <1>13, <1>14, OneKey

LEMMA CacheFoundInv ==
  ASSUME IngestInv, NEW c \in Callers, CacheFound(c)
  PROVE  IngestInv' /\ Stays
<1>1. caller[c].pc = "cache" /\ UNCHANGED <<jobRow, thread, recovery, found>> BY DEF CacheFound
<1>2. caller[c].key \in Keys BY <1>1 DEF IngestInv, CallerFits, NoCall
<1> PICK k \in Keys : k = caller[c].key BY <1>2
<1>3. /\ recovery = "up" /\ \A d \in Callers \ {c} : caller[d].key # k
      /\ caller[c].job \in Record /\ jobRow[k] # NoRecord
      /\ caller[c].job.status = jobRow[k].status
      /\ Running(jobRow[k]) => Run(k).pc = "off"
  BY <1>1 DEF IngestInv, CallerFits, NoCall
<1> DEFINE w == IF Ended(caller[c].job) THEN NoCall
                ELSE [pc |-> "schedule", key |-> k, job |-> NoRecord]
<1>4. cache' = [cache EXCEPT ![k] = caller[c].job] /\ caller' = [caller EXCEPT ![c] = w]
  <2>1. CASE Ended(caller[c].job) BY <2>1 DEF CacheFound
  <2>2. CASE ~Ended(caller[c].job)
    <3>1. Call(c, "schedule", NoRecord) BY <2>2 DEF CacheFound
    <3>2. caller' = [caller EXCEPT ![c] = [pc |-> "schedule", key |-> caller[c].key, job |-> NoRecord]]
      BY <3>1, CallIs, Zenon
    <3> QED BY <2>2, <3>2 DEF CacheFound
  <2> QED BY <2>1, <2>2
<1>5. Request(w) /\ w.key \in {k, NoKey}
      /\ (w = NoCall \/ (w.pc = "schedule" /\ w.key = k /\ ~Ended(caller[c].job)))
  BY DEF Request, NoCall
<1> HIDE DEF w
<1>6. CallersTyped' /\ caller'[c] = w /\ \A d \in Callers \ {c} : caller'[d] = caller[d]
  BY <1>4, <1>5, OneCaller DEF IngestInv
<1>7. cache'[k] = caller[c].job /\ \A j \in Keys \ {k} : cache'[j] = cache[j]
  BY <1>4 DEF IngestInv, IngestTyped
<1>8. cache'[k] # NoRecord /\ cache'[k].status = jobRow[k].status BY <1>3, <1>7, RecordAssumption
<1>9. IngestTyped'
  BY <1>1, <1>3, <1>4, <1>6, RecordOfOne DEF IngestInv, IngestTyped, ThreadsTyped
<1>10. \A j \in Keys : Run(j)' = Run(j) /\ Enhance(j)' = Enhance(j) BY <1>1 DEF Run, Enhance
<1>11. KeyFits(k) BY DEF IngestInv
<1>12. KeyFits(k)'
  <2>1. CacheFits(k)' BY <1>1, <1>3, <1>8 DEF CacheFits
  <2>2. RunFits(k)' BY <1>1, <1>3, <1>8, <1>10, <1>11 DEF KeyFits, RunFits, Running
  <2>3. EnhanceFits(k)' BY <1>1, <1>8, <1>10, <1>11 DEF KeyFits, EnhanceFits, Completed
  <2>4. FoundFits(k)' BY <1>1, <1>10, <1>11 DEF KeyFits, FoundFits, Running, Completed
  <2> QED BY <2>1, <2>2, <2>3, <2>4 DEF KeyFits
<1>13. StaysAt(k) BY <1>1, <1>3, <1>8, <1>11 DEF StaysAt, Answer, Ended, KeyFits, CacheFits
<1>14. ASSUME NEW d \in Callers PROVE CallerFits(d)'
  <2>1. CASE d = c
    BY <1>1, <1>3, <1>5, <1>6, <1>7, <1>8, <1>10, <2>1 DEF CallerFits, Running, Ended
  <2>2. CASE d # c
    <3>1. caller[d].key # k /\ CallerFits(d) BY <1>3, <2>2 DEF IngestInv
    <3>2. caller[d].key \in Keys => caller'[c].key # caller[d].key
      BY <1>5, <1>6, <3>1, IngestAssumption
    <3> QED BY <1>1, <1>6, <1>7, <1>10, <2>2, <3>1, <3>2, CallerKept
  <2> QED BY <2>1, <2>2
<1> QED BY <1>1, <1>7, <1>9, <1>10, <1>12, <1>13, <1>14, OneKey

LEMMA ScheduleJobInv ==
  ASSUME IngestInv, NEW c \in Callers, ScheduleJob(c)
  PROVE  IngestInv' /\ Stays
<1>1. caller[c].pc = "schedule" /\ caller' = [caller EXCEPT ![c] = NoCall]
      /\ UNCHANGED <<jobRow, cache, recovery, found>>
  BY DEF ScheduleJob
<1>2. caller[c].key \in Keys BY <1>1 DEF IngestInv, CallerFits, NoCall
<1> PICK k \in Keys : k = caller[c].key BY <1>2
<1>3. /\ recovery = "up" /\ \A d \in Callers \ {c} : caller[d].key # k
      /\ Running(jobRow[k]) /\ Running(cache[k]) /\ Run(k).pc = "off"
  BY <1>1 DEF IngestInv, CallerFits, NoCall
<1>4. thread' = Scheduled(<<"run", k>>) BY DEF ScheduleJob
<1>5. ThreadsTyped' /\ Run(k)'.pc = "work" /\ Run(k)'.stage = "start"
      /\ \A h \in Goroutines \ {<<"run", k>>} : thread'[h] = thread[h]
  BY <1>3, <1>4, ScheduledThread, Pairs DEF Run, IngestInv
<1>6. Enhance(k)' = Enhance(k) /\ \A j \in Keys \ {k} : Run(j)' = Run(j) /\ Enhance(j)' = Enhance(j)
  BY <1>5, Pairs DEF Run, Enhance
<1>7. Request(NoCall) /\ NoCall.key = NoKey BY DEF Request, NoCall
<1>8. CallersTyped' /\ caller'[c] = NoCall /\ \A d \in Callers \ {c} : caller'[d] = caller[d]
  BY <1>1, <1>7, OneCaller DEF IngestInv
<1>9. IngestTyped' BY <1>1, <1>5, <1>8 DEF IngestInv, IngestTyped
<1>10. KeyFits(k) BY DEF IngestInv
<1>11. KeyFits(k)'
  <2>1. CacheFits(k)' BY <1>1, <1>10 DEF KeyFits, CacheFits
  <2>2. RunFits(k)' BY <1>1, <1>3, <1>5 DEF RunFits, Running
  <2>3. EnhanceFits(k)' BY <1>1, <1>6, <1>10 DEF KeyFits, EnhanceFits, Completed
  <2>4. FoundFits(k)' BY <1>1, <1>3, <1>10 DEF KeyFits, FoundFits
  <2> QED BY <2>1, <2>2, <2>3, <2>4 DEF KeyFits
<1>12. StaysAt(k) BY <1>1 DEF StaysAt, Answer, Ended
<1>13. ASSUME NEW d \in Callers PROVE CallerFits(d)'
  <2>1. CASE d = c BY <1>8, <2>1 DEF CallerFits
  <2>2. CASE d # c
    <3>1. caller[d].key # k /\ CallerFits(d) BY <1>3, <2>2 DEF IngestInv
    <3>2. caller[d].key \in Keys => caller'[c].key # caller[d].key
      BY <1>7, <1>8, IngestAssumption
    <3> QED BY <1>1, <1>6, <1>8, <2>2, <3>1, <3>2, CallerKept
  <2> QED BY <2>1, <2>2
<1> QED BY <1>1, <1>6, <1>9, <1>11, <1>12, <1>13, OneKey

LEMMA LoadJobInv ==
  ASSUME IngestInv, NEW k \in Keys, LoadJob(k)
  PROVE  IngestInv' /\ Stays
<1>1. /\ cache[k] = NoRecord /\ jobRow[k] # NoRecord /\ cache' = [cache EXCEPT ![k] = jobRow[k]]
      /\ UNCHANGED <<jobRow, thread, caller, recovery, found>>
  BY DEF LoadJob
<1>2. KeyFits(k) /\ jobRow[k] \in Record BY <1>1 DEF IngestInv, IngestTyped
<1>3. cache'[k] = jobRow[k] /\ \A j \in Keys \ {k} : cache'[j] = cache[j]
  BY <1>1 DEF IngestInv, IngestTyped
<1>4. IngestTyped'
  BY <1>1, <1>2, RecordOfOne DEF IngestInv, IngestTyped, ThreadsTyped, CallersTyped
<1>5. \A j \in Keys : Run(j)' = Run(j) /\ Enhance(j)' = Enhance(j) BY <1>1 DEF Run, Enhance
<1>6. KeyFits(k)'
  <2>1. CacheFits(k)' BY <1>1, <1>3 DEF CacheFits
  <2>2. RunFits(k)' BY <1>1, <1>2, <1>5 DEF KeyFits, RunFits, Running
  <2>3. EnhanceFits(k)' BY <1>1, <1>2, <1>5 DEF KeyFits, EnhanceFits, Completed
  <2>4. FoundFits(k)' BY <1>1, <1>2, <1>5 DEF KeyFits, FoundFits, Running, Completed
  <2> QED BY <2>1, <2>2, <2>3, <2>4 DEF KeyFits
<1>7. StaysAt(k) BY <1>1, <1>3 DEF StaysAt, Answer, Ended
<1>8. ASSUME NEW c \in Callers PROVE CallerFits(c)'
  <2>1. CallerFits(c) BY DEF IngestInv
  <2>2. CASE caller[c].key = k BY <1>1, <1>5, <2>1, <2>2 DEF CallerFits, Running
  <2>3. CASE caller[c].key # k BY <1>1, <1>3, <1>5, <2>1, <2>3, CallerKept
  <2> QED BY <2>2, <2>3
<1> QED BY <1>1, <1>3, <1>4, <1>5, <1>6, <1>7, <1>8, OneKey

-----------------------------------------------------------------------------
LEMMA CrashInv ==
  ASSUME IngestInv, IngestCrash
  PROVE  IngestInv' /\ Stays
<1>1. /\ recovery' = "down" /\ cache' = Nothing /\ found' = Nothing /\ UNCHANGED jobRow
      /\ thread' = [g \in Goroutines |-> Off] /\ caller' = [c \in Callers |-> NoCall]
  BY DEF IngestCrash
<1>2. ThreadsTyped' /\ CallersTyped' BY <1>1 DEF ThreadsTyped, CallersTyped, Off, NoCall
<1>3. IngestTyped' BY <1>1, <1>2 DEF IngestInv, IngestTyped, Nothing
<1>4. ASSUME NEW k \in Keys PROVE KeyFits(k)' /\ StaysAt(k)
  <2>1. Run(k)' = Off /\ Enhance(k)' = Off BY <1>1, Pairs DEF Run, Enhance
  <2>2. cache'[k] = NoRecord /\ found'[k] = NoRecord BY <1>1 DEF Nothing
  <2>3. KeyFits(k)' BY <2>1, <2>2 DEF KeyFits, CacheFits, RunFits, EnhanceFits, FoundFits, Off
  <2>4. CacheFits(k) BY DEF IngestInv, KeyFits
  <2>5. StaysAt(k) BY <1>1, <2>2, <2>4 DEF StaysAt, Answer, Ended, CacheFits
  <2> QED BY <2>3, <2>5
<1>5. \A c \in Callers : CallerFits(c)' BY <1>1 DEF CallerFits
<1> QED BY <1>3, <1>4, <1>5 DEF IngestInv, Stays

(* A look at the table finds rows as they are, before a request is served. *)
LEMMA FindInv ==
  ASSUME IngestInv, recovery # "up", UNCHANGED <<jobRow, cache, thread, caller>>,
         found' \in [Keys -> Record \union {NoRecord}],
         \A k \in Keys : FoundFits(k)'
  PROVE  IngestInv' /\ Stays
<1>1. IngestTyped' BY DEF IngestInv, IngestTyped, ThreadsTyped, CallersTyped
<1>2. ASSUME NEW k \in Keys PROVE KeyFits(k)'
  <2>1. Run(k)' = Run(k) /\ Enhance(k)' = Enhance(k) BY DEF Run, Enhance
  <2>2. KeyFits(k) BY DEF IngestInv
  <2> QED BY <2>1, <2>2 DEF KeyFits, CacheFits, RunFits, EnhanceFits, Running, Completed
<1>3. \A c \in Callers : CallerFits(c)' BY DEF IngestInv, CallerFits
<1>4. Stays BY DEF Stays, StaysAt, Answer, Ended
<1> QED BY <1>1, <1>2, <1>3, <1>4 DEF IngestInv

LEMMA FindRunningInv ==
  ASSUME IngestInv, FindRunning
  PROVE  IngestInv' /\ Stays
<1>1. /\ recovery = "down" /\ recovery' = "running" /\ UNCHANGED <<jobRow, cache, thread, caller>>
      /\ found' = [k \in Keys |-> IF jobRow[k] # NoRecord /\ ~Ended(jobRow[k]) THEN jobRow[k] ELSE NoRecord]
  BY DEF FindRunning
<1>2. found' \in [Keys -> Record \union {NoRecord}] BY <1>1 DEF IngestInv, IngestTyped
<1>3. ASSUME NEW k \in Keys PROVE FoundFits(k)'
  <2>1. Run(k).pc = "off" /\ Run(k)' = Run(k) BY <1>1 DEF IngestInv, KeyFits, FoundFits, Run
  <2> QED BY <1>1, <2>1 DEF FoundFits, Running, Ended
<1> QED BY <1>1, <1>2, <1>3, FindInv

LEMMA FindCompletedInv ==
  ASSUME IngestInv, FindCompleted
  PROVE  IngestInv' /\ Stays
<1>1. /\ recovery = "running" /\ recovery' = "completed" /\ UNCHANGED <<jobRow, cache, thread, caller>>
      /\ found' = [k \in Keys |-> IF jobRow[k] # NoRecord /\ WantsSubtitles(jobRow[k]) THEN jobRow[k] ELSE NoRecord]
  BY DEF FindCompleted
<1>2. found' \in [Keys -> Record \union {NoRecord}] BY <1>1 DEF IngestInv, IngestTyped
<1>3. \A k \in Keys : FoundFits(k)' BY <1>1 DEF FoundFits, Completed, WantsSubtitles
<1> QED BY <1>1, <1>2, <1>3, FindInv

LEMMA ServeInv ==
  ASSUME IngestInv, Serve
  PROVE  IngestInv' /\ Stays
<1>1. /\ recovery = "completed" /\ found = Nothing /\ recovery' = "up"
      /\ UNCHANGED <<jobRow, cache, thread, caller, found>>
  BY DEF Serve
<1>2. found' \in [Keys -> Record \union {NoRecord}] BY <1>1 DEF IngestInv, IngestTyped
<1>3. \A k \in Keys : FoundFits(k)' BY <1>1 DEF FoundFits, Nothing
<1> QED BY <1>1, <1>2, <1>3, FindInv

LEMMA RecoverJobInv ==
  ASSUME IngestInv, NEW k \in Keys, RecoverJob(k)
  PROVE  IngestInv' /\ Stays
<1> DEFINE name == IF recovery = "running" THEN "run" ELSE "enhance"
           g == <<name, k>>
<1>1. /\ found[k] # NoRecord /\ cache' = [cache EXCEPT ![k] = found[k]]
      /\ thread' = Scheduled(g) /\ found' = [found EXCEPT ![k] = NoRecord]
      /\ UNCHANGED <<jobRow, caller, recovery>>
  BY DEF RecoverJob
<1>2. KeyFits(k) /\ found[k] \in Record /\ jobRow[k] # NoRecord
      /\ cache[k] \in Record \union {NoRecord}
  BY <1>1 DEF IngestInv, IngestTyped, KeyFits, FoundFits, Running, Completed
<1>3. recovery \in {"running", "completed"} BY <1>1, <1>2 DEF KeyFits, FoundFits
<1>4. /\ cache'[k] = found[k] /\ \A j \in Keys \ {k} : cache'[j] = cache[j]
      /\ found'[k] = NoRecord /\ \A j \in Keys \ {k} : found'[j] = found[j]
  BY <1>1 DEF IngestInv, IngestTyped
<1>5. /\ ThreadsTyped' /\ \A h \in Goroutines \ {g} : thread'[h] = thread[h]
      /\ thread[g].pc # "off" => thread'[g] = thread[g]
      /\ thread[g].pc = "off" =>
           /\ thread'[g].pc = IF name = "run" THEN "work" ELSE "look"
           /\ thread'[g].stage = IF name = "run" THEN "start" ELSE "none"
  <2>1. g \in Goroutines /\ g[1] = name BY Pairs
  <2> QED BY <1>1, <2>1, ScheduledThread DEF IngestInv
<1>6. \A j \in Keys \ {k} : Run(j)' = Run(j) /\ Enhance(j)' = Enhance(j)
  BY <1>5, Pairs DEF Run, Enhance
<1>7. IngestTyped'
  <2>1. cache' \in [Keys -> Record \union {NoRecord}] /\ found' \in [Keys -> Record \union {NoRecord}]
    BY <1>1, <1>2 DEF IngestInv, IngestTyped
  <2> QED BY <1>1, <1>5, <2>1 DEF IngestInv, IngestTyped, CallersTyped
<1>8. found[k].status = jobRow[k].status BY <1>1, <1>2 DEF KeyFits, FoundFits, Running, Completed
<1>9. CacheFits(k)' BY <1>1, <1>2, <1>4, <1>8 DEF CacheFits
<1>10. FoundFits(k)' BY <1>1, <1>3, <1>4 DEF FoundFits
<1>11. KeyFits(k)'
  <2>1. CASE recovery = "running"
    <3>1. g = <<"run", k>> /\ name = "run" BY <2>1
    <3>2. Running(found[k]) /\ Running(jobRow[k]) /\ Run(k).pc = "off"
      BY <1>1, <1>2, <2>1 DEF KeyFits, FoundFits
    <3>3. Run(k)'.pc = "work" /\ Run(k)'.stage = "start" /\ Enhance(k)' = Enhance(k)
      BY <1>5, <3>1, <3>2, Pairs DEF Run, Enhance
    <3>4. RunFits(k)' BY <1>1, <1>4, <3>2, <3>3 DEF RunFits, Running
    <3>5. EnhanceFits(k)' BY <1>1, <1>2, <1>4, <3>2, <3>3 DEF KeyFits, EnhanceFits, Completed, Running
    <3> QED BY <1>9, <1>10, <3>4, <3>5 DEF KeyFits
  <2>2. CASE recovery = "completed"
    <3>1. g = <<"enhance", k>> /\ name = "enhance" BY <2>2
    <3>2. Completed(found[k]) /\ Completed(jobRow[k]) BY <1>1, <1>2, <2>2 DEF KeyFits, FoundFits
    <3>3. /\ Run(k)' = Run(k)
          /\ Enhance(k).pc # "off" => Enhance(k)' = Enhance(k)
          /\ Enhance(k).pc = "off" => Enhance(k)'.pc = "look"
      BY <1>5, <3>1, Pairs DEF Run, Enhance
    <3>4. RunFits(k)' BY <1>1, <1>2, <1>4, <3>2, <3>3 DEF KeyFits, RunFits, Running, Completed
    <3>5. EnhanceFits(k)' BY <1>1, <1>2, <1>4, <3>2, <3>3 DEF KeyFits, EnhanceFits, Completed
    <3> QED BY <1>9, <1>10, <3>4, <3>5 DEF KeyFits
  <2> QED BY <1>3, <2>1, <2>2
<1>12. StaysAt(k) BY <1>1, <1>2, <1>4, <1>8 DEF StaysAt, Answer, Ended, KeyFits, CacheFits
<1>13. \A c \in Callers : CallerFits(c)' BY <1>1, <1>3 DEF IngestInv, CallerFits
<1> QED BY <1>1, <1>4, <1>6, <1>7, <1>11, <1>12, <1>13, OneKey

LEMMA IngestStep ==
  ASSUME IngestInv, ~Repeats, IngestNext
  PROVE  IngestInv' /\ Stays
<1>1. ASSUME NEW g \in Goroutines, Updates(g) PROVE IngestInv' /\ Stays
  BY <1>1, ReadJobInv, PersistJobInv, RefuseJobInv, StoreJobInv, ReturnInv DEF Updates
<1>2. ASSUME NEW k \in Keys, RunStep(k) PROVE IngestInv' /\ Stays
  BY <1>2, RunStepInv, CompleteJobInv DEF RunStep
<1>3. ASSUME NEW k \in Keys, EnhanceStep(k) PROVE IngestInv' /\ Stays BY <1>3, EnhanceStepInv
<1>4. ASSUME NEW c \in Callers, StartStep(c) PROVE IngestInv' /\ Stays
  BY <1>4, FindJobInv, CreateJobInv, CacheFoundInv, ScheduleJobInv, AbandonInv DEF StartStep
<1>5. CASE RecoverStep
  BY <1>5, FindRunningInv, FindCompletedInv, ServeInv, RecoverJobInv DEF RecoverStep
<1> QED BY <1>1, <1>2, <1>3, <1>4, <1>5, LoadJobInv, StartInv, CrashInv DEF IngestNext

LEMMA IngestStutters ==
  ASSUME IngestInv, UNCHANGED IngestVars
  PROVE  IngestInv'
<1>1. IngestTyped' BY DEF IngestVars, IngestInv, IngestTyped, ThreadsTyped, CallersTyped
<1>2. \A k \in Keys : KeyFits(k)' BY KeyKept DEF IngestVars, IngestInv, Run, Enhance
<1>3. \A c \in Callers : CallerFits(c)' BY DEF IngestVars, IngestInv, CallerFits, Running, Run
<1> QED BY <1>1, <1>2, <1>3 DEF IngestInv

(* For any jobs, requests, crashes and refused writes: neither the row of  *)
(* an ended job nor what Get answers for it goes back, unless a client     *)
(* repeats the request of a job that runs.                                 *)
THEOREM EndedJobsStay ==
  ASSUME ~Repeats
  PROVE  IngestSpec => EndedStays
<1>1. IngestInv /\ [IngestNext]_IngestVars => IngestInv' BY IngestStutters, IngestStep
<1>2. IngestInv /\ [IngestNext]_IngestVars => [Stays]_IngestVars BY IngestStep
<1>3. IngestSpec => [][Stays]_IngestVars BY <1>1, <1>2, InitIngestInv, PTL DEF IngestSpec
<1> QED BY <1>3 DEF EndedStays, Stays, StaysAt

-----------------------------------------------------------------------------
(* The types of the ingest jobs, also when clients repeat requests.  That  *)
(* an update changes a record needs that a goroutine at work has a copy in *)
(* the map, that the next stage is one needs that it is on the plan.       *)

ThreadRec ==
  [pc : {"off", "work", "scan", "look", "read", "persist", "cache", "return"},
   stage : {"none", "start", "prune", "pruned", "scan", "scanned", "find", "media", "extras",
            "extrasDone", "visibility", "visibilityDone", "completed", "failed",
            "fetching", "fetched"},
   job : Record \union {NoRecord}]

CallRec == [pc : {"idle", "find", "create", "cache", "schedule"},
            key : Keys \union {NoKey}, job : Record \union {NoRecord}]

Members(s) == {s[i] : i \in 1 .. Len(s)}

(* A goroutine g that is at v, when the map holds job for it. *)
InPlace(g, v, job) ==
  /\ v.pc # "off" => job # NoRecord
  /\ v.pc \in {"persist", "cache"} => v.job # NoRecord
  /\ g[1] = "run" =>
       /\ v.pc = "scan" => g[2] \in Scan
       /\ v.pc = "work" => v.stage \in Members(Plan(g[2]))
       /\ v.pc \in {"read", "persist", "cache"} => v.stage \in Members(Plan(g[2])) \union {"failed"}

CallInPlace(c) ==
  /\ caller[c].pc # "idle" => caller[c].key \in Keys
  /\ caller[c].pc = "cache" => caller[c].job # NoRecord
  /\ caller[c].pc = "schedule" => cache[caller[c].key] # NoRecord

InPlaces ==
  /\ IngestTypeOK
  /\ \A g \in Goroutines : InPlace(g, thread[g], cache[g[2]])
  /\ \A c \in Callers : CallInPlace(c)

(* IngestTypeOK, with names for the sets of records. *)
LEMMA TypesNamed ==
  IngestTypeOK <=>
    /\ jobRow \in [Keys -> Record \union {NoRecord}]
    /\ cache \in [Keys -> Record \union {NoRecord}]
    /\ thread \in [Goroutines -> ThreadRec]
    /\ caller \in [Callers -> CallRec]
    /\ recovery \in {"down", "running", "completed", "up"}
    /\ found \in [Keys -> Record \union {NoRecord}]
    /\ restarts \in 0 .. MaxRestarts /\ refused \in 0 .. MaxRefused
BY DEF IngestTypeOK, ThreadRec, CallRec

-----------------------------------------------------------------------------
(* The plan                                                                *)

LEMMA Joined ==
  ASSUME NEW S, NEW s \in Seq(S), NEW t \in Seq(S)
  PROVE  /\ s \o t \in Seq(S)
         /\ Members(s \o t) = Members(s) \union Members(t)
         /\ Len(t) > 0 => Len(s \o t) > 0 /\ (s \o t)[Len(s \o t)] = t[Len(t)]
<1>1. /\ s \o t \in Seq(S) /\ Len(s \o t) = Len(s) + Len(t)
      /\ Len(s) \in Nat /\ Len(t) \in Nat
      /\ \A i \in 1 .. Len(s) + Len(t) : (s \o t)[i] = IF i <= Len(s) THEN s[i] ELSE t[i - Len(s)]
  OBVIOUS
<1>2. Members(s \o t) \subseteq Members(s) \union Members(t)
  <2> SUFFICES ASSUME NEW i \in 1 .. Len(s) + Len(t)
               PROVE  (s \o t)[i] \in Members(s) \union Members(t)
    BY <1>1 DEF Members
  <2>1. i \in 1 .. Len(s) \/ i - Len(s) \in 1 .. Len(t)
    BY <1>1
  <2>2. (s \o t)[i] = IF i <= Len(s) THEN s[i] ELSE t[i - Len(s)]
    BY <1>1
  <2> QED BY <1>1, <2>1, <2>2 DEF Members
<1>3. Members(s) \subseteq Members(s \o t)
  <2>1. \A i \in 1 .. Len(s) : i \in 1 .. Len(s) + Len(t) /\ (s \o t)[i] = s[i] BY <1>1
  <2> QED BY <1>1, <2>1 DEF Members
<1>4. Members(t) \subseteq Members(s \o t)
  <2> SUFFICES ASSUME NEW i \in 1 .. Len(t) PROVE t[i] \in Members(s \o t) BY DEF Members
  <2>1. Len(s) + i \in 1 .. Len(s) + Len(t) /\ ~(Len(s) + i <= Len(s)) /\ Len(s) + i - Len(s) = i BY <1>1
  <2>2. (s \o t)[Len(s) + i] = t[i] BY <1>1, <2>1
  <2> QED BY <1>1, <2>1, <2>2 DEF Members
<1>5. ASSUME Len(t) > 0 PROVE Len(s \o t) > 0 /\ (s \o t)[Len(s \o t)] = t[Len(t)]
  <2>1. /\ Len(s) + Len(t) \in 1 .. Len(s) + Len(t) /\ ~(Len(s) + Len(t) <= Len(s))
        /\ Len(s) + Len(t) - Len(s) = Len(t)
    BY <1>1, <1>5
  <2> QED BY <1>1, <1>5, <2>1
<1> QED BY <1>1, <1>2, <1>3, <1>4, <1>5

LEMMA PairMembers ==
  ASSUME NEW S, NEW a \in S, NEW b \in S
  PROVE  <<a, b>> \in Seq(S) /\ Members(<<a, b>>) = {a, b}
<1> DEFINE p == <<a, b>>
<1>1. p \in Seq(S) /\ Len(p) = 2 /\ p[1] = a /\ p[2] = b OBVIOUS
<1> HIDE DEF p
<1>2. 1 .. 2 = {1, 2} OBVIOUS
<1>3. Members(p) = {p[i] : i \in {1, 2}} BY <1>1, <1>2 DEF Members
<1> QED BY <1>1, <1>3 DEF p

LEMMA NoMembers ==
  ASSUME NEW S
  PROVE  <<>> \in Seq(S) /\ Members(<<>>) = {}
<1>1. <<>> \in Seq(S) /\ Len(<<>>) = 0 OBVIOUS
<1>2. 1 .. 0 = {} OBVIOUS
<1> QED BY <1>1, <1>2 DEF Members

LEMMA OneMember ==
  ASSUME NEW S, NEW a \in S
  PROVE  <<a>> \in Seq(S) /\ Len(<<a>>) = 1 /\ <<a>>[1] = a /\ Members(<<a>>) = {a}
<1>1. <<a>> \in Seq(S) /\ Len(<<a>>) = 1 /\ <<a>>[1] = a OBVIOUS
<1>2. 1 .. 1 = {1} OBVIOUS
<1> QED BY <1>1, <1>2 DEF Members

PlanStages == {"start", "prune", "pruned", "scan", "scanned", "find", "media", "extras", "extrasDone",
               "visibility", "visibilityDone", "completed"}

LEMMA PlanOf ==
  ASSUME NEW k \in Keys
  PROVE  /\ Plan(k) \in Seq(PlanStages)
         /\ Plan(k)[Len(Plan(k))] = "completed"
         /\ "start" \in Members(Plan(k))
         /\ "scan" \in Members(Plan(k)) => k \in Scan
         /\ k \in Scan => "scanned" \in Members(Plan(k))
<1> DEFINE S == PlanStages
           a == IF k \in Prune THEN <<"prune", "pruned">> ELSE <<>>
           b == IF k \in Scan THEN <<"scan", "scanned">> ELSE <<>>
           m == <<"find", "media">>
           c == IF k \in Extras THEN <<"extras", "extrasDone">> ELSE <<>>
           d == IF k \in Visibility THEN <<"visibility", "visibilityDone">> ELSE <<>>
           first == <<"start">>
           last == <<"completed">>
           p1 == first \o a
           p2 == p1 \o b
           p3 == p2 \o m
           p4 == p3 \o c
           p5 == p4 \o d
           p6 == p5 \o last
<1>1. Plan(k) = p6
  BY DEF Plan
<1>2. a \in Seq(S) /\ Members(a) \subseteq {"prune", "pruned"}
  <2>1. <<"prune", "pruned">> \in Seq(S) /\ Members(<<"prune", "pruned">>) = {"prune", "pruned"}
    BY PairMembers DEF PlanStages
  <2> QED BY <2>1, NoMembers
<1>3. b \in Seq(S) /\ Members(b) = IF k \in Scan THEN {"scan", "scanned"} ELSE {}
  <2>1. <<"scan", "scanned">> \in Seq(S) /\ Members(<<"scan", "scanned">>) = {"scan", "scanned"}
    BY PairMembers DEF PlanStages
  <2> QED BY <2>1, NoMembers
<1>4. m \in Seq(S) /\ Members(m) = {"find", "media"}
  BY PairMembers DEF PlanStages
<1>5. c \in Seq(S) /\ Members(c) \subseteq {"extras", "extrasDone"}
  <2>1. <<"extras", "extrasDone">> \in Seq(S) /\ Members(<<"extras", "extrasDone">>) = {"extras", "extrasDone"}
    BY PairMembers DEF PlanStages
  <2> QED BY <2>1, NoMembers
<1>6. d \in Seq(S) /\ Members(d) \subseteq {"visibility", "visibilityDone"}
  <2>1. /\ <<"visibility", "visibilityDone">> \in Seq(S)
        /\ Members(<<"visibility", "visibilityDone">>) = {"visibility", "visibilityDone"}
    BY PairMembers DEF PlanStages
  <2> QED BY <2>1, NoMembers
<1>7. first \in Seq(S) /\ Members(first) = {"start"}
  BY OneMember DEF PlanStages
<1>8. /\ last \in Seq(S) /\ Len(last) > 0 /\ last[Len(last)] = "completed"
      /\ Members(last) = {"completed"}
  <2>1. /\ last \in Seq(S) /\ Len(last) = 1 /\ last[1] = "completed"
        /\ Members(last) = {"completed"}
    BY OneMember DEF PlanStages
  <2> HIDE DEF last
  <2> QED BY <2>1
<1> HIDE DEF S, a, b, c, d, m, first, last
<1>10. p1 \in Seq(S) /\ Members(p1) = {"start"} \union Members(a) BY <1>2, <1>7, Joined
<1> HIDE DEF p1
<1>11. p2 \in Seq(S) /\ Members(p2) = Members(p1) \union Members(b) BY <1>3, <1>10, Joined
<1> HIDE DEF p2
<1>12. p3 \in Seq(S) /\ Members(p3) = Members(p2) \union Members(m) BY <1>4, <1>11, Joined
<1> HIDE DEF p3
<1>13. p4 \in Seq(S) /\ Members(p4) = Members(p3) \union Members(c) BY <1>5, <1>12, Joined
<1> HIDE DEF p4
<1>14. p5 \in Seq(S) /\ Members(p5) = Members(p4) \union Members(d) BY <1>6, <1>13, Joined
<1> HIDE DEF p5
<1>15. /\ p6 \in Seq(S) /\ Members(p6) = Members(p5) \union {"completed"}
       /\ p6[Len(p6)] = "completed"
  BY <1>8, <1>14, Joined
<1> HIDE DEF p6
<1>16. "start" \in Members(p6) BY <1>10, <1>11, <1>12, <1>13, <1>14, <1>15
<1>17. k \in Scan => "scanned" \in Members(p6) BY <1>3, <1>11, <1>12, <1>13, <1>14, <1>15
<1>18. "scan" \in Members(p6) => k \in Scan
  <2>1. "scan" \in Members(p6) => "scan" \in Members(b)
    BY <1>2, <1>4, <1>5, <1>6, <1>10, <1>11, <1>12, <1>13, <1>14, <1>15
  <2> QED BY <1>3, <2>1
<1> QED BY <1>1, <1>15, <1>16, <1>17, <1>18 DEF S

(* There is a next stage on the plan after each but the last. *)
LEMMA NextOnPlan ==
  ASSUME NEW k \in Keys, NEW stage \in Members(Plan(k)), stage # "completed"
  PROVE  After(k, stage) \in Members(Plan(k))
<1> DEFINE p == Plan(k)
           i == CHOOSE j \in 1 .. Len(p) : p[j] = stage
<1>1. p \in Seq(PlanStages) /\ p[Len(p)] = "completed" BY PlanOf
<1>2. i \in 1 .. Len(p) /\ p[i] = stage BY DEF Members
<1>3. After(k, stage) = p[1 + i] BY DEF After
<1> HIDE DEF p, i
<1>4. Len(p) \in Nat BY <1>1
<1>5. i # Len(p) BY <1>1, <1>2
<1>6. 1 + i \in 1 .. Len(p) BY <1>2, <1>4, <1>5
<1> QED BY <1>3, <1>6 DEF Members, p

-----------------------------------------------------------------------------
(* The steps                                                               *)

(* One goroutine moves. *)
LEMMA ThreadTypes ==
  ASSUME InPlaces, NEW g \in Goroutines, NEW v \in ThreadRec, InPlace(g, v, cache[g[2]]),
         thread' = [thread EXCEPT ![g] = v],
         UNCHANGED <<cache, caller, recovery, found, restarts>>,
         jobRow' \in [Keys -> Record \union {NoRecord}], refused' \in 0 .. MaxRefused
  PROVE  InPlaces'
<1>1. thread \in [Goroutines -> ThreadRec] BY TypesNamed DEF InPlaces
<1>2. thread'[g] = v /\ \A h \in Goroutines \ {g} : thread'[h] = thread[h] BY <1>1
<1>3. thread' \in [Goroutines -> ThreadRec] BY <1>1
<1>4. IngestTypeOK' BY <1>3, TypesNamed DEF InPlaces, IngestTypeOK, ThreadRec
<1>5. \A h \in Goroutines : InPlace(h, thread'[h], cache'[h[2]]) BY <1>2 DEF InPlaces
<1>6. \A c \in Callers : CallInPlace(c)' BY DEF InPlaces, CallInPlace
<1> QED BY <1>4, <1>5, <1>6 DEF InPlaces

(* One request moves. *)
LEMMA CallTypes ==
  ASSUME InPlaces, NEW c \in Callers, NEW w \in CallRec,
         caller' = [caller EXCEPT ![c] = w],
         w.pc # "idle" => w.key \in Keys,
         w.pc = "cache" => w.job # NoRecord,
         w.pc = "schedule" => cache'[w.key] # NoRecord,
         UNCHANGED <<recovery, found, restarts, refused>>,
         jobRow' \in [Keys -> Record \union {NoRecord}],
         cache' \in [Keys -> Record \union {NoRecord}],
         \A k \in Keys : cache[k] # NoRecord => cache'[k] # NoRecord,
         thread' \in [Goroutines -> ThreadRec],
         \A g \in Goroutines : InPlace(g, thread'[g], cache'[g[2]])
  PROVE  InPlaces'
<1>1. caller \in [Callers -> CallRec] BY TypesNamed DEF InPlaces
<1>2. caller'[c] = w /\ \A d \in Callers \ {c} : caller'[d] = caller[d] BY <1>1
<1>3. caller' \in [Callers -> CallRec] BY <1>1
<1>4. IngestTypeOK' BY <1>3 DEF InPlaces, IngestTypeOK, ThreadRec, CallRec
<1>5. ASSUME NEW d \in Callers PROVE CallInPlace(d)'
  <2>1. CASE d = c BY <1>2, <2>1 DEF CallInPlace
  <2>2. CASE d # c
    <3>1. CallInPlace(d) /\ caller'[d] = caller[d] BY <1>2, <2>2 DEF InPlaces
    <3>2. caller[d].pc = "schedule" => caller[d].key \in Keys /\ cache'[caller[d].key] # NoRecord
      BY <3>1 DEF CallInPlace
    <3> QED BY <3>1, <3>2 DEF CallInPlace
  <2> QED BY <2>1, <2>2
<1> QED BY <1>4, <1>5 DEF InPlaces

(* A copy comes to the map; a job that had one has one. *)
LEMMA CopyPlaces ==
  ASSUME InPlaces, NEW k \in Keys, NEW r \in Record, cache' = [cache EXCEPT ![k] = r]
  PROVE  /\ cache' \in [Keys -> Record \union {NoRecord}]
         /\ \A j \in Keys : cache[j] # NoRecord => cache'[j] # NoRecord
         /\ cache'[k] = r /\ r # NoRecord
         /\ \A g \in Goroutines : InPlace(g, thread[g], cache'[g[2]])
<1>1. cache \in [Keys -> Record \union {NoRecord}] BY DEF InPlaces, IngestTypeOK
<1>2. r # NoRecord BY RecordAssumption
<1>3. /\ cache' \in [Keys -> Record \union {NoRecord}] /\ cache'[k] = r
      /\ \A j \in Keys \ {k} : cache'[j] = cache[j]
  BY <1>1
<1>4. \A j \in Keys : cache[j] # NoRecord => cache'[j] # NoRecord BY <1>2, <1>3
<1>5. \A g \in Goroutines : g[2] \in Keys BY DEF Goroutines
<1>6. \A g \in Goroutines : InPlace(g, thread[g], cache'[g[2]])
  BY <1>4, <1>5 DEF InPlaces, InPlace
<1> QED BY <1>2, <1>3, <1>4, <1>6

LEMMA MovedPlaces ==
  ASSUME NEW pc, NEW stage,
         pc \in {"off", "work", "scan", "look", "read", "return"},
         stage \in PlanStages \union {"none", "failed", "fetching", "fetched"}
  PROVE  [pc |-> pc, stage |-> stage, job |-> NoRecord] \in ThreadRec
BY DEF ThreadRec, PlanStages

LEMMA OnPlan == ASSUME NEW k \in Keys PROVE Members(Plan(k)) \subseteq PlanStages
BY PlanOf DEF Members

(* updateJob *)
LEMMA UpdatesTypes ==
  ASSUME InPlaces, NEW g \in Goroutines, Updates(g)
  PROVE  InPlaces'
<1> DEFINE k == g[2]
           v == thread[g]
<1>0. /\ k \in Keys /\ v \in ThreadRec /\ InPlace(g, v, cache[k])
      /\ thread \in [Goroutines -> ThreadRec]
      /\ jobRow \in [Keys -> Record \union {NoRecord}] /\ cache \in [Keys -> Record \union {NoRecord}]
      /\ refused \in 0 .. MaxRefused /\ MaxRefused \in Nat
  <2>1. k \in Keys BY DEF Goroutines
  <2> QED BY <2>1, TypesNamed, IngestAssumption DEF InPlaces
<1> HIDE DEF k, v
<1>1. CASE ReadJob(g)
  <2> DEFINE job == Updated(cache[k], v.stage)
             w == thread'[g]
  <2>1. /\ v.pc = "read" /\ thread' = [thread EXCEPT ![g].pc = "persist", ![g].job = job]
        /\ UNCHANGED <<jobRow, cache, caller, recovery, found, restarts, refused>>
    BY <1>1 DEF ReadJob, Is, v, k
  <2>2. cache[k] \in Record /\ job \in Record
    <3>1. cache[k] \in Record BY <1>0, <2>1 DEF InPlace
    <3>2. \A r \in Record : \A stage : Updated(r, stage) \in Record BY DEF Updated, Record
    <3> QED BY <3>1, <3>2
  <2> HIDE DEF job
  <2>3. thread' = [thread EXCEPT ![g] = w] BY <1>0, <2>1
  <2>4. w.pc = "persist" /\ w.stage = v.stage /\ w.job = job /\ w \in ThreadRec
    BY <1>0, <2>1, <2>2 DEF ThreadRec, v
  <2> HIDE DEF w
  <2>5. InPlace(g, w, cache[k]) BY <1>0, <2>1, <2>2, <2>4, RecordAssumption DEF InPlace
  <2> QED BY <1>0, <2>1, <2>3, <2>4, <2>5, ThreadTypes DEF k
<1>2. CASE PersistJob(g)
  <2> DEFINE w == thread'[g]
  <2>1. /\ v.pc = "persist" /\ thread' = [thread EXCEPT ![g].pc = "cache"]
        /\ jobRow' = [jobRow EXCEPT ![k] = v.job]
        /\ UNCHANGED <<cache, caller, recovery, found, restarts, refused>>
    BY <1>2 DEF PersistJob, Is, v, k
  <2>2. v.job \in Record \union {NoRecord} BY <1>0 DEF ThreadRec
  <2>3. thread' = [thread EXCEPT ![g] = w] BY <1>0, <2>1
  <2>4. w.pc = "cache" /\ w.stage = v.stage /\ w.job = v.job /\ w \in ThreadRec
    BY <1>0, <2>1 DEF ThreadRec, v
  <2> HIDE DEF w
  <2>5. InPlace(g, w, cache[k]) BY <1>0, <2>1, <2>4 DEF InPlace
  <2>6. jobRow' \in [Keys -> Record \union {NoRecord}] BY <1>0, <2>1, <2>2
  <2> QED BY <1>0, <2>1, <2>3, <2>4, <2>5, <2>6, ThreadTypes DEF k
<1>3. CASE RefuseJob(g)
  <2> DEFINE w == IF g[1] = "run" /\ v.stage # "failed"
                  THEN [pc |-> "read", stage |-> "failed", job |-> NoRecord]
                  ELSE [pc |-> "return", stage |-> "none", job |-> NoRecord]
  <2>1. /\ v.pc = "persist" /\ thread' = [thread EXCEPT ![g] = w]
        /\ refused < MaxRefused /\ refused' = refused + 1
        /\ UNCHANGED <<jobRow, cache, caller, recovery, found, restarts>>
    BY <1>3 DEF RefuseJob, Is, Moved, v
  <2>2. w \in ThreadRec BY MovedPlaces
  <2>3. InPlace(g, w, cache[k]) BY <1>0, <2>1 DEF InPlace
  <2> HIDE DEF w
  <2>4. refused' \in 0 .. MaxRefused BY <1>0, <2>1
  <2> QED BY <1>0, <2>1, <2>2, <2>3, <2>4, ThreadTypes DEF k
<1>4. CASE StoreJob(g)
  <2> DEFINE w == IF v.stage \in {"failed", "fetched"}
                  THEN [pc |-> "return", stage |-> "none", job |-> NoRecord]
                  ELSE [pc |-> "work", stage |-> v.stage, job |-> NoRecord]
  <2>1. /\ v.pc = "cache" /\ thread' = [thread EXCEPT ![g] = w]
        /\ cache' = [cache EXCEPT ![k] = v.job]
        /\ UNCHANGED <<jobRow, caller, recovery, found, restarts, refused>>
    BY <1>4 DEF StoreJob, Is, Moved, v, k
  <2>2. v.job \in Record BY <1>0, <2>1 DEF InPlace, ThreadRec
  <2>3. w \in ThreadRec BY <1>0 DEF ThreadRec
  <2>4. /\ cache' \in [Keys -> Record \union {NoRecord}] /\ cache'[k] # NoRecord
        /\ \A j \in Keys : cache[j] # NoRecord => cache'[j] # NoRecord
        /\ \A h \in Goroutines : InPlace(h, thread[h], cache'[h[2]])
    BY <1>0, <2>1, <2>2, CopyPlaces
  <2>5. InPlace(g, w, cache'[k]) BY <1>0, <2>1, <2>4 DEF InPlace
  <2> HIDE DEF w
  <2>6. thread'[g] = w /\ \A h \in Goroutines \ {g} : thread'[h] = thread[h] BY <1>0, <2>1
  <2>7. thread' \in [Goroutines -> ThreadRec] BY <1>0, <2>1, <2>3
  <2>8. \A h \in Goroutines : InPlace(h, thread'[h], cache'[h[2]]) BY <2>4, <2>5, <2>6 DEF k
  <2>9. IngestTypeOK' BY <2>1, <2>4, <2>7 DEF InPlaces, IngestTypeOK, ThreadRec
  <2>10. ASSUME NEW c \in Callers PROVE CallInPlace(c)'
    <3>1. CallInPlace(c) BY DEF InPlaces
    <3> QED BY <2>1, <2>4, <3>1 DEF CallInPlace
  <2> QED BY <2>8, <2>9, <2>10 DEF InPlaces
<1>5. CASE Return(g)
  <2>1. /\ thread' = [thread EXCEPT ![g] = Off]
        /\ UNCHANGED <<jobRow, cache, caller, recovery, found, restarts, refused>>
    BY <1>5 DEF Return
  <2>2. Off \in ThreadRec /\ Off.pc = "off" BY MovedPlaces DEF Off
  <2>3. InPlace(g, Off, cache[k]) BY <2>2 DEF InPlace
  <2> QED BY <1>0, <2>1, <2>2, <2>3, ThreadTypes DEF k
<1> QED BY <1>1, <1>2, <1>3, <1>4, <1>5 DEF Updates

(* runJob and the fetching of subtitles *)
LEMMA GoesTypes ==
  ASSUME InPlaces, NEW k \in Keys, NEW pc, NEW stage, Goes(k, pc, stage),
         Run(k).pc # "off",
         \/ pc = "read" /\ stage \in Members(Plan(k)) \union {"failed"}
         \/ pc = "scan" /\ stage = "scan" /\ k \in Scan
  PROVE  InPlaces'
<1> DEFINE g == <<"run", k>>
           v == [pc |-> pc, stage |-> stage, job |-> NoRecord]
<1>1. g \in Goroutines /\ g[1] = "run" /\ g[2] = k BY Pairs
<1>2. /\ thread' = [thread EXCEPT ![g] = v]
      /\ UNCHANGED <<jobRow, cache, caller, recovery, found, restarts, refused>>
  BY DEF Goes, Moved
<1>3. stage \in PlanStages \union {"none", "failed", "fetching", "fetched"}
  BY OnPlan DEF PlanStages
<1>4. v \in ThreadRec BY <1>3, MovedPlaces
<1>5. InPlace(g, thread[g], cache[k]) /\ thread[g].pc # "off" BY <1>1 DEF InPlaces, Run
<1>6. InPlace(g, v, cache[k]) BY <1>1, <1>5 DEF InPlace
<1>7. jobRow \in [Keys -> Record \union {NoRecord}] /\ refused \in 0 .. MaxRefused
  BY DEF InPlaces, IngestTypeOK
<1> HIDE DEF g, v
<1> QED BY <1>1, <1>2, <1>4, <1>6, <1>7, ThreadTypes

LEMMA RunStepTypes ==
  ASSUME InPlaces, NEW k \in Keys, Advance(k) \/ FailJob(k) \/ BeginIngestScan(k) \/ EndIngestScan(k)
  PROVE  InPlaces'
<1>0. InPlace(<<"run", k>>, Run(k), cache[k]) BY Pairs DEF InPlaces, Run
<1>1. CASE Advance(k)
  <2>1. /\ Run(k).pc = "work" /\ Run(k).stage # "completed"
        /\ Goes(k, "read", After(k, Run(k).stage))
    BY <1>1 DEF Advance, Works, Is, Run
  <2>2. Run(k).stage \in Members(Plan(k)) BY <1>0, <2>1 DEF InPlace
  <2>3. After(k, Run(k).stage) \in Members(Plan(k)) BY <2>1, <2>2, NextOnPlan
  <2> QED BY <2>1, <2>3, GoesTypes
<1>2. CASE FailJob(k)
  <2>1. Run(k).pc = "work" /\ Goes(k, "read", "failed") BY <1>2 DEF FailJob, Works, Is, Run
  <2> QED BY <2>1, GoesTypes
<1>3. CASE BeginIngestScan(k)
  <2>1. /\ Run(k).pc = "work" /\ Run(k).stage = "scan"
        /\ Goes(k, "scan", "scan") \/ Goes(k, "read", "failed")
    BY <1>3 DEF BeginIngestScan, Works, Is, Run
  <2>2. k \in Scan BY <1>0, <2>1, PlanOf DEF InPlace
  <2> QED BY <2>1, <2>2, GoesTypes
<1>4. CASE EndIngestScan(k)
  <2>1. /\ Run(k).pc = "scan"
        /\ Goes(k, "read", "scanned") \/ Goes(k, "read", "failed")
    BY <1>4 DEF EndIngestScan, Is, Run
  <2>2. "scanned" \in Members(Plan(k)) BY <1>0, <2>1, PlanOf DEF InPlace
  <2> QED BY <2>1, <2>2, GoesTypes
<1> QED BY <1>1, <1>2, <1>3, <1>4

(* The goroutines once one is scheduled for a job the map holds. *)
LEMMA ScheduledPlaces ==
  ASSUME NEW g \in Goroutines, thread \in [Goroutines -> ThreadRec], NEW jobs,
         jobs[g[2]] # NoRecord,
         \A h \in Goroutines : InPlace(h, thread[h], jobs[h[2]])
  PROVE  /\ Scheduled(g) \in [Goroutines -> ThreadRec]
         /\ \A h \in Goroutines : InPlace(h, Scheduled(g)[h], jobs[h[2]])
<1>1. CASE thread[g].pc # "off"
  <2>1. Scheduled(g) = thread BY <1>1 DEF Scheduled, Is
  <2> QED BY <2>1
<1>2. CASE thread[g].pc = "off"
  <2> DEFINE v == IF g[1] = "run" THEN [pc |-> "work", stage |-> "start", job |-> NoRecord]
                                  ELSE [pc |-> "look", stage |-> "none", job |-> NoRecord]
             t == Scheduled(g)
  <2>1. t = [thread EXCEPT ![g] = v] BY <1>2 DEF Scheduled, Is, Moved
  <2>2. v \in ThreadRec BY MovedPlaces DEF PlanStages
  <2>3. InPlace(g, v, jobs[g[2]])
    <3>1. g[2] \in Keys BY DEF Goroutines
    <3>2. "start" \in Members(Plan(g[2])) BY <3>1, PlanOf
    <3> QED BY <3>2 DEF InPlace
  <2> HIDE DEF v, t
  <2>4. t \in [Goroutines -> ThreadRec] BY <2>1, <2>2
  <2>5. t[g] = v /\ \A h \in Goroutines \ {g} : t[h] = thread[h] BY <2>1
  <2>6. \A h \in Goroutines : InPlace(h, t[h], jobs[h[2]]) BY <2>3, <2>5
  <2> QED BY <2>4, <2>6 DEF t
<1> QED BY <1>1, <1>2

LEMMA CompleteJobTypes ==
  ASSUME InPlaces, NEW k \in Keys, CompleteJob(k)
  PROVE  InPlaces'
<1> DEFINE r == <<"run", k>>
           e == <<"enhance", k>>
           t == Scheduled(e)
           v == [pc |-> "return", stage |-> "none", job |-> NoRecord]
<1>1. /\ r \in Goroutines /\ e \in Goroutines /\ r[1] = "run" /\ r[2] = k /\ e[2] = k
      /\ thread[r].pc # "off"
      /\ thread' = [t EXCEPT ![r] = v]
      /\ UNCHANGED <<jobRow, cache, caller, recovery, found, restarts, refused>>
  BY Pairs DEF CompleteJob, Works, Is
<1>2. thread \in [Goroutines -> ThreadRec] /\ \A h \in Goroutines : InPlace(h, thread[h], cache[h[2]])
  BY TypesNamed DEF InPlaces
<1>3. cache[k] # NoRecord BY <1>1, <1>2 DEF InPlace
<1> HIDE DEF r, e
<1>4. t \in [Goroutines -> ThreadRec] /\ \A h \in Goroutines : InPlace(h, t[h], cache[h[2]])
  BY <1>1, <1>2, <1>3, ScheduledPlaces
<1> HIDE DEF t
<1>5. v \in ThreadRec BY MovedPlaces
<1>6. InPlace(r, v, cache[k]) BY <1>3 DEF InPlace
<1> HIDE DEF v
<1>7. thread' \in [Goroutines -> ThreadRec] BY <1>1, <1>4, <1>5
<1>8. \A h \in Goroutines : InPlace(h, thread'[h], cache'[h[2]])
  <2>1. thread'[r] = v /\ \A h \in Goroutines \ {r} : thread'[h] = t[h] BY <1>1, <1>4
  <2> QED BY <1>1, <1>4, <1>6, <2>1
<1>9. IngestTypeOK' BY <1>1, <1>7 DEF InPlaces, IngestTypeOK, ThreadRec
<1>10. \A c \in Callers : CallInPlace(c)' BY <1>1 DEF InPlaces, CallInPlace
<1> QED BY <1>8, <1>9, <1>10 DEF InPlaces

LEMMA EnhanceTypes ==
  ASSUME InPlaces, NEW k \in Keys, EnhanceStep(k)
  PROVE  InPlaces'
<1> DEFINE g == <<"enhance", k>>
<1>1. PICK pc, stage :
        /\ \/ pc = "read" /\ stage \in {"fetching", "fetched"}
           \/ pc = "return" /\ stage = "none"
        /\ thread' = [thread EXCEPT ![g] = [pc |-> pc, stage |-> stage, job |-> NoRecord]]
        /\ thread[g].pc # "off"
        /\ UNCHANGED <<jobRow, cache, caller, recovery, found, restarts, refused>>
  BY DEF EnhanceStep, LookAtSubtitles, FetchSubtitles, Is, Moved
<1> DEFINE v == [pc |-> pc, stage |-> stage, job |-> NoRecord]
<1>2. g \in Goroutines /\ g[1] = "enhance" /\ g[2] = k BY Pairs
<1>3. v \in ThreadRec BY <1>1, MovedPlaces
<1>4. InPlace(g, thread[g], cache[k]) BY <1>2 DEF InPlaces
<1>5. InPlace(g, v, cache[k]) BY <1>1, <1>2, <1>4 DEF InPlace
<1>6. jobRow \in [Keys -> Record \union {NoRecord}] /\ refused \in 0 .. MaxRefused
  BY DEF InPlaces, IngestTypeOK
<1> HIDE DEF g, v
<1>7. thread' = [thread EXCEPT ![g] = v] BY <1>1 DEF v
<1> QED BY <1>1, <1>2, <1>3, <1>5, <1>6, <1>7, ThreadTypes

(* Requests *)
LEMMA RequestTypes ==
  ASSUME InPlaces, NEW c \in Callers, StartStep(c) \/ \E k \in Keys : Start(c, k)
  PROVE  InPlaces'
<1> DEFINE v == caller[c]
<1>0. /\ caller \in [Callers -> CallRec] /\ v \in CallRec /\ CallInPlace(c)
      /\ thread \in [Goroutines -> ThreadRec]
      /\ jobRow \in [Keys -> Record \union {NoRecord}] /\ cache \in [Keys -> Record \union {NoRecord}]
      /\ \A g \in Goroutines : InPlace(g, thread[g], cache[g[2]])
  BY TypesNamed DEF InPlaces
<1>n. NoCall \in CallRec /\ NoCall.pc = "idle" BY DEF NoCall, CallRec
<1>e. \A pc \in {"idle", "find", "create", "cache", "schedule"} : \A job \in Record \union {NoRecord} :
        Call(c, pc, job) => \E w \in CallRec : /\ caller' = [caller EXCEPT ![c] = w]
                                              /\ w.pc = pc /\ w.key = v.key /\ w.job = job
  <2> SUFFICES ASSUME NEW pc \in {"idle", "find", "create", "cache", "schedule"},
                      NEW job \in Record \union {NoRecord}, Call(c, pc, job)
               PROVE  \E w \in CallRec : /\ caller' = [caller EXCEPT ![c] = w]
                                         /\ w.pc = pc /\ w.key = v.key /\ w.job = job
    OBVIOUS
  <2> DEFINE w == [caller[c] EXCEPT !.pc = pc, !.job = job]
  <2>1. w \in CallRec /\ w.pc = pc /\ w.key = v.key /\ w.job = job BY <1>0 DEF CallRec
  <2>2. caller' = [caller EXCEPT ![c] = w]
    <3>1. caller' = [caller EXCEPT ![c].pc = pc, ![c].job = job] BY DEF Call
    <3>2. caller = [d \in Callers |-> caller[d]] BY <1>0
    <3> QED BY <3>1, <3>2, TwoFields, Zenon
  <2> HIDE DEF w
  <2> QED BY <2>1, <2>2
<1> HIDE DEF v
<1>1. ASSUME NEW k \in Keys, Start(c, k) PROVE InPlaces'
  <2> DEFINE w == [pc |-> "find", key |-> k, job |-> NoRecord]
  <2>1. /\ caller' = [caller EXCEPT ![c] = w]
        /\ UNCHANGED <<jobRow, cache, thread, recovery, found, restarts, refused>>
    BY <1>1 DEF Start
  <2>2. w \in CallRec /\ w.pc = "find" /\ w.key \in Keys BY DEF CallRec
  <2> HIDE DEF w
  <2> QED BY <1>0, <2>1, <2>2, CallTypes
<1>2. CASE FindJob(c)
  <2> DEFINE job == jobRow[v.key]
  <2>1. /\ v.pc = "find" /\ Call(c, IF job = NoRecord THEN "create" ELSE "cache", job)
        /\ UNCHANGED <<jobRow, cache, thread, recovery, found, restarts, refused>>
    BY <1>2 DEF FindJob, v
  <2>2. v.key \in Keys /\ job \in Record \union {NoRecord} BY <1>0, <2>1 DEF CallInPlace, v
  <2> HIDE DEF job
  <2>3. PICK w \in CallRec :
          /\ caller' = [caller EXCEPT ![c] = w] /\ w.key = v.key /\ w.job = job
          /\ w.pc = IF job = NoRecord THEN "create" ELSE "cache"
    BY <1>e, <2>1, <2>2
  <2> QED BY <1>0, <2>1, <2>2, <2>3, CallTypes
<1>3. CASE CreateJob(c)
  <2>1. v.pc = "create" /\ v.key \in Keys BY <1>0, <1>3 DEF CreateJob, CallInPlace, v
  <2>2. UNCHANGED <<cache, thread, recovery, found, restarts, refused>> BY <1>3 DEF CreateJob
  <2>3. NewRecord \in Record /\ NewRecord # NoRecord BY RecordAssumption DEF NewRecord, Record
  <2>4. CASE jobRow[v.key] = NoRecord
    <3>1. jobRow' = [jobRow EXCEPT ![v.key] = NewRecord] /\ Call(c, "cache", NewRecord)
      BY <1>3, <2>4 DEF CreateJob, v
    <3>2. jobRow' \in [Keys -> Record \union {NoRecord}] BY <1>0, <2>1, <2>3, <3>1
    <3>3. PICK w \in CallRec : /\ caller' = [caller EXCEPT ![c] = w]
                              /\ w.pc = "cache" /\ w.key = v.key /\ w.job = NewRecord
      BY <1>e, <2>3, <3>1
    <3> QED BY <1>0, <2>1, <2>2, <2>3, <3>2, <3>3, CallTypes
  <2>5. CASE jobRow[v.key] # NoRecord
    <3>1. UNCHANGED jobRow /\ Call(c, "find", NoRecord) BY <1>3, <2>5 DEF CreateJob, v
    <3>2. PICK w \in CallRec : /\ caller' = [caller EXCEPT ![c] = w]
                              /\ w.pc = "find" /\ w.key = v.key /\ w.job = NoRecord
      BY <1>e, <3>1
    <3> QED BY <1>0, <2>1, <2>2, <3>1, <3>2, CallTypes
  <2> QED BY <2>4, <2>5
<1>4. CASE CacheFound(c)
  <2>1. /\ v.pc = "cache" /\ cache' = [cache EXCEPT ![v.key] = v.job]
        /\ \/ caller' = [caller EXCEPT ![c] = NoCall]
           \/ Call(c, "schedule", NoRecord)
        /\ UNCHANGED <<jobRow, thread, recovery, found, restarts, refused>>
    BY <1>4 DEF CacheFound, v
  <2>2. v.key \in Keys /\ v.job \in Record BY <1>0, <2>1 DEF CallInPlace, CallRec, v
  <2>3. /\ cache' \in [Keys -> Record \union {NoRecord}] /\ cache'[v.key] # NoRecord
        /\ \A j \in Keys : cache[j] # NoRecord => cache'[j] # NoRecord
        /\ \A g \in Goroutines : InPlace(g, thread[g], cache'[g[2]])
    BY <2>1, <2>2, CopyPlaces
  <2>4. CASE caller' = [caller EXCEPT ![c] = NoCall]
    BY <1>0, <1>n, <2>1, <2>3, <2>4, CallTypes
  <2>5. CASE Call(c, "schedule", NoRecord)
    <3>1. PICK w \in CallRec : /\ caller' = [caller EXCEPT ![c] = w]
                              /\ w.pc = "schedule" /\ w.key = v.key
      BY <1>e, <2>5
    <3> QED BY <1>0, <2>1, <2>2, <2>3, <3>1, CallTypes
  <2> QED BY <2>1, <2>4, <2>5
<1>5. CASE ScheduleJob(c)
  <2> DEFINE g == <<"run", v.key>>
  <2>1. /\ v.pc = "schedule" /\ thread' = Scheduled(g)
        /\ caller' = [caller EXCEPT ![c] = NoCall]
        /\ UNCHANGED <<jobRow, cache, recovery, found, restarts, refused>>
    BY <1>5 DEF ScheduleJob, v
  <2>2. v.key \in Keys /\ cache[v.key] # NoRecord BY <1>0, <2>1 DEF CallInPlace, v
  <2>3. g \in Goroutines /\ g[2] = v.key BY <2>2, Pairs
  <2> HIDE DEF g
  <2>4. /\ thread' \in [Goroutines -> ThreadRec]
        /\ \A h \in Goroutines : InPlace(h, thread'[h], cache'[h[2]])
    BY <1>0, <2>1, <2>2, <2>3, ScheduledPlaces
  <2> QED BY <1>0, <1>n, <2>1, <2>4, CallTypes
<1>6. CASE Abandon(c)
  <2>1. /\ caller' = [caller EXCEPT ![c] = NoCall]
        /\ UNCHANGED <<jobRow, cache, thread, recovery, found, restarts, refused>>
    BY <1>6 DEF Abandon
  <2> QED BY <1>0, <1>n, <2>1, CallTypes
<1> QED BY <1>1, <1>2, <1>3, <1>4, <1>5, <1>6 DEF StartStep

(* What leaves the goroutines and the requests where they are. *)
LEMMA RestTypes ==
  ASSUME InPlaces, UNCHANGED <<jobRow, cache, thread, caller, restarts, refused>>,
         recovery' \in {"down", "running", "completed", "up"},
         found' \in [Keys -> Record \union {NoRecord}]
  PROVE  InPlaces'
<1>1. IngestTypeOK' BY DEF InPlaces, IngestTypeOK
<1>2. \A c \in Callers : CallInPlace(c)' BY DEF InPlaces, CallInPlace
<1> QED BY <1>1, <1>2 DEF InPlaces

(* Get, and what Recover reads and puts back. *)
LEMMA LoadTypes ==
  ASSUME InPlaces, NEW k \in Keys, LoadJob(k) \/ RecoverJob(k)
  PROVE  InPlaces'
<1>0. /\ thread \in [Goroutines -> ThreadRec] /\ jobRow \in [Keys -> Record \union {NoRecord}]
      /\ found \in [Keys -> Record \union {NoRecord}]
  BY TypesNamed DEF InPlaces
<1>1. PICK r \in Record :
        /\ cache' = [cache EXCEPT ![k] = r]
        /\ \/ UNCHANGED <<thread, found>>
           \/ /\ thread' = Scheduled(<<IF recovery = "running" THEN "run" ELSE "enhance", k>>)
              /\ found' = [found EXCEPT ![k] = NoRecord]
        /\ UNCHANGED <<jobRow, caller, recovery, restarts, refused>>
  <2>1. CASE LoadJob(k)
    <3>1. jobRow[k] \in Record BY <1>0, <2>1 DEF LoadJob
    <3> QED BY <2>1, <3>1 DEF LoadJob
  <2>2. CASE RecoverJob(k)
    <3>1. found[k] \in Record BY <1>0, <2>2 DEF RecoverJob
    <3> QED BY <2>2, <3>1 DEF RecoverJob
  <2> QED BY <2>1, <2>2
<1>2. /\ cache' \in [Keys -> Record \union {NoRecord}] /\ cache'[k] # NoRecord
      /\ \A j \in Keys : cache[j] # NoRecord => cache'[j] # NoRecord
      /\ \A g \in Goroutines : InPlace(g, thread[g], cache'[g[2]])
  BY <1>1, CopyPlaces
<1>3. /\ thread' \in [Goroutines -> ThreadRec]
      /\ \A g \in Goroutines : InPlace(g, thread'[g], cache'[g[2]])
  <2>1. CASE UNCHANGED <<thread, found>> BY <1>0, <1>2, <2>1
  <2>2. CASE thread' = Scheduled(<<IF recovery = "running" THEN "run" ELSE "enhance", k>>)
    <3> DEFINE g == <<IF recovery = "running" THEN "run" ELSE "enhance", k>>
    <3>1. g \in Goroutines /\ g[2] = k BY Pairs
    <3>2. thread' = Scheduled(g) BY <2>2
    <3> HIDE DEF g
    <3> QED BY <1>0, <1>2, <3>1, <3>2, ScheduledPlaces
  <2> QED BY <1>1, <2>1, <2>2
<1>4. found' \in [Keys -> Record \union {NoRecord}] BY <1>0, <1>1
<1>5. IngestTypeOK' BY <1>1, <1>2, <1>3, <1>4 DEF InPlaces, IngestTypeOK, ThreadRec
<1>6. ASSUME NEW c \in Callers PROVE CallInPlace(c)'
  <2>1. CallInPlace(c) BY DEF InPlaces
  <2> QED BY <1>1, <1>2, <2>1 DEF CallInPlace
<1> QED BY <1>3, <1>5, <1>6 DEF InPlaces

LEMMA RecoverTypes ==
  ASSUME InPlaces, FindRunning \/ FindCompleted \/ Serve
  PROVE  InPlaces'
<1>1. jobRow \in [Keys -> Record \union {NoRecord}] /\ found \in [Keys -> Record \union {NoRecord}]
  BY DEF InPlaces, IngestTypeOK
<1>2. found' \in [Keys -> Record \union {NoRecord}]
  BY <1>1 DEF FindRunning, FindCompleted, Serve
<1> QED BY <1>2, RestTypes DEF FindRunning, FindCompleted, Serve

LEMMA NothingHolds ==
  ASSUME thread = [g \in Goroutines |-> Off], caller = [c \in Callers |-> NoCall]
  PROVE  /\ thread \in [Goroutines -> ThreadRec] /\ caller \in [Callers -> CallRec]
         /\ \A g \in Goroutines : InPlace(g, thread[g], cache[g[2]])
         /\ \A c \in Callers : CallInPlace(c)
<1>1. Off \in ThreadRec /\ Off.pc = "off" BY MovedPlaces DEF Off
<1>2. NoCall \in CallRec /\ NoCall.pc = "idle" BY DEF NoCall, CallRec
<1>3. \A g \in Goroutines : thread[g] = Off BY DEF Goroutines
<1>4. \A g \in Goroutines : InPlace(g, thread[g], cache[g[2]]) BY <1>1, <1>3 DEF InPlace
<1>5. \A c \in Callers : CallInPlace(c) BY <1>2 DEF CallInPlace
<1> QED BY <1>1, <1>2, <1>4, <1>5

LEMMA InitPlaces == IngestInit => InPlaces
<1> SUFFICES ASSUME IngestInit PROVE InPlaces OBVIOUS
<1>1. Nothing \in [Keys -> Record \union {NoRecord}] BY DEF Nothing
<1>2. IngestTypeOK BY <1>1, NothingHolds, TypesNamed, IngestAssumption DEF IngestInit
<1> QED BY <1>2, NothingHolds DEF InPlaces, IngestInit

LEMMA CrashTypes ==
  ASSUME InPlaces, IngestCrash
  PROVE  InPlaces'
<1>1. Nothing \in [Keys -> Record \union {NoRecord}] BY DEF Nothing
<1>2. restarts' \in 0 .. MaxRestarts
  BY IngestAssumption DEF IngestCrash, InPlaces, IngestTypeOK
<1>3. /\ thread' \in [Goroutines -> ThreadRec] /\ caller' \in [Callers -> CallRec]
      /\ \A g \in Goroutines : InPlace(g, thread'[g], cache'[g[2]])
      /\ \A c \in Callers : CallInPlace(c)'
  <2>1. Off \in ThreadRec /\ Off.pc = "off" BY MovedPlaces DEF Off
  <2>2. NoCall \in CallRec /\ NoCall.pc = "idle" BY DEF NoCall, CallRec
  <2>3. thread' = [g \in Goroutines |-> Off] /\ caller' = [c \in Callers |-> NoCall] BY DEF IngestCrash
  <2>4. \A g \in Goroutines : InPlace(g, thread'[g], cache'[g[2]]) BY <2>1, <2>3 DEF InPlace
  <2>5. \A c \in Callers : CallInPlace(c)' BY <2>2, <2>3 DEF CallInPlace
  <2> QED BY <2>1, <2>2, <2>3, <2>4, <2>5
<1>4. IngestTypeOK' BY <1>1, <1>2, <1>3 DEF IngestCrash, InPlaces, IngestTypeOK, ThreadRec, CallRec
<1> QED BY <1>3, <1>4 DEF InPlaces

LEMMA NextPlaces == InPlaces /\ [IngestNext]_IngestVars => InPlaces'
<1> SUFFICES ASSUME InPlaces, [IngestNext]_IngestVars PROVE InPlaces' OBVIOUS
<1>1. ASSUME NEW g \in Goroutines, Updates(g) PROVE InPlaces' BY <1>1, UpdatesTypes
<1>2. ASSUME NEW k \in Keys, RunStep(k) PROVE InPlaces'
  BY <1>2, RunStepTypes, CompleteJobTypes DEF RunStep
<1>3. ASSUME NEW k \in Keys, EnhanceStep(k) PROVE InPlaces' BY <1>3, EnhanceTypes
<1>4. ASSUME NEW k \in Keys, LoadJob(k) PROVE InPlaces' BY <1>4, LoadTypes
<1>5. ASSUME NEW c \in Callers, StartStep(c) \/ \E k \in Keys : Start(c, k) PROVE InPlaces'
  BY <1>5, RequestTypes
<1>6. CASE RecoverStep BY <1>6, RecoverTypes, LoadTypes DEF RecoverStep
<1>7. CASE UNCHANGED IngestVars
  <2>1. UNCHANGED <<jobRow, cache, thread, caller, restarts, refused, recovery, found>>
    BY <1>7 DEF IngestVars
  <2> QED BY <2>1, RestTypes DEF InPlaces, IngestTypeOK
<1> QED BY <1>1, <1>2, <1>3, <1>4, <1>5, <1>6, <1>7, CrashTypes DEF IngestNext

(* Whatever is repeated, refused or cut off, the ingest jobs stay within   *)
(* the stages of their plans, and no goroutine works on a job that the map *)
(* does not hold.                                                          *)
THEOREM IngestOnPlan == IngestSpec => [](IngestTypeOK /\ InPlaces)
<1>1. InPlaces => IngestTypeOK BY DEF InPlaces
<1> QED BY <1>1, InitPlaces, NextPlaces, PTL DEF IngestSpec

-----------------------------------------------------------------------------
(***************************************************************************)
(* The composition: a step moves what the behaviour follows and leaves the *)
(* rest alone, so that it implements each part, and what is proved of the  *)
(* parts, here and in ResourceImportProofs, holds in it.                   *)
(***************************************************************************)

LEMMA ImportsStarts == ImportsInit => Init /\ SlotsInit /\ IngestInit
BY DEF ImportsInit

LEMMA ImportsSteps ==
  [ImportsNext]_<<focus, vars, SlotsVars, IngestVars>> =>
    [Next]_vars /\ [SlotsNext]_SlotsVars /\ [IngestNext]_IngestVars
BY DEF ImportsNext

LEMMA ImportsImplement == ImportsSpec => Spec /\ SlotsSpec /\ IngestSpec
BY ImportsStarts, ImportsSteps, PTL DEF ImportsSpec, Spec, SlotsSpec, IngestSpec

(* The type invariant of the runs of ImportServices, for every value of    *)
(* the constants.                                                          *)
THEOREM ImportsTyped == ImportsSpec => []ImportTypesOK
<1>1. SlotsTypeOK /\ IngestTypeOK => ImportTypesOK BY DEF ImportTypesOK
<1> QED BY <1>1, ImportsImplement, SlotsTyped, IngestOnPlan, PTL

(* The promises of the parts, in the specification that TLC runs and under *)
(* every fault: no slot is lost, no job has two goroutines, no season two  *)
(* reservations, no success is recorded that the pipeline did not report.  *)
THEOREM ImportsKeepPromises ==
  ImportsSpec =>
    [](TypeOK /\ OneReservation /\ SuccessIsReal /\ SlotsAccounted /\ OneMonitorPerJob /\ InPlaces)
BY ImportsImplement, TypeCorrect, ReservationUnique, SuccessesReal, NoSlotLost, OneGoroutine,
   IngestOnPlan, PTL

(* Without cancels and manual retries, crashes, lost answers and requests  *)
(* that are repeated while their job runs, the promises that rest on this  *)
(* do, too: they are those of the run import_fair, for any instance.       *)
THEOREM ImportsKeepOwnership ==
  ASSUME Uninterrupted, 1 <= MaxAuto, ~Repeats
  PROVE  ImportsSpec =>
           [](ReservationOwned /\ NoOrphanTask /\ BoundedAuto) /\ AttemptGrows /\ EndedStays
<1>1. Undisturbed /\ {"cancel", "retry"} \cap Ops = {} BY DEF Uninterrupted, Undisturbed
<1>2. Spec => []ReservationOwned BY <1>1, ReservationsOwned
<1>3. Spec => []NoOrphanTask BY TasksRecorded
<1>4. Spec => []BoundedAuto BY <1>1, AttemptsBounded
<1>5. Spec => AttemptGrows BY <1>1, AttemptsGrow
<1>6. IngestSpec => EndedStays BY EndedJobsStay
<1> QED BY <1>2, <1>3, <1>4, <1>5, <1>6, ImportsImplement, PTL

-----------------------------------------------------------------------------
(***************************************************************************)
(* No job is forgotten: whoever accepted it, or read of it after a crash,  *)
(* has it in hand until its end is stored, and a completed one until its   *)
(* subtitles are; unless the database has refused a write, or a client     *)
(* repeats the request of a job that runs.  It is what IngestSettles       *)
(* rests on.                                                               *)
(***************************************************************************)
Fetched(job) == job # NoRecord /\ job.subtitles = "settled"

(* The goroutine of a running job is at work, a request or Recover is about *)
(* to schedule it; the subtitles of a completed one are being fetched, or  *)
(* run, or Recover, is about to see to them.                               *)
Attended(k) ==
  /\ Running(jobRow[k]) =>
       \/ Run(k).pc \notin {"off", "return"}
       \/ \E c \in Callers : caller[c].key = k /\ caller[c].pc \in {"cache", "schedule"}
       \/ recovery = "down" \/ (recovery = "running" /\ found[k] # NoRecord)
  /\ Completed(jobRow[k]) /\ ~Fetched(jobRow[k]) =>
       \/ Enhance(k).pc \notin {"off", "return"}
       \/ Run(k).pc \in {"cache", "work"} /\ Run(k).stage = "completed"
       \/ recovery \in {"down", "running"} \/ found[k] # NoRecord

NoneForgotten == refused = 0 => \A k \in Keys : Attended(k)

(* Subtitles are asked for before a job completes, and settle after that. *)
Sound(job) ==
  /\ Completed(job) => job.subtitles # "none"
  /\ Fetched(job) => job.status = "completed"

(* The subtitles of the row have settled, or the goroutine is past its look *)
(* at them and will settle them, again if need be.                         *)
RowSettles(k) == Fetched(jobRow[k]) \/ Enhance(k).pc \in {"work", "read", "persist", "cache"}

CopiesSound(k) ==
  /\ Sound(jobRow[k]) /\ Sound(cache[k]) /\ Sound(found[k])
  /\ Fetched(cache[k]) => RowSettles(k)
  /\ found[k] # NoRecord /\ recovery = "completed" => ~Fetched(found[k])

LateStages == {"media", "extras", "extrasDone", "visibility", "visibilityDone", "completed"}

(* Past the stage "media", run has asked for subtitles. *)
RunAsks(k) ==
  /\ Run(k).pc = "work" /\ Run(k).stage \in LateStages => cache[k].subtitles # "none"
  /\ Run(k).pc = "read" /\ Run(k).stage \in LateStages \ {"media"} => cache[k].subtitles # "none"
  /\ Run(k).pc \in {"persist", "cache"} =>
       ~Fetched(Run(k).job) /\ (Run(k).stage \in LateStages => Run(k).job.subtitles # "none")

RunEnds(k) ==
  /\ Running(jobRow[k]) => Enhance(k).pc = "off"
  /\ Run(k).pc \in {"cache", "work"} /\ Run(k).stage = "completed" => Completed(jobRow[k])
  /\ Run(k).pc = "work" /\ Run(k).stage = "completed" => Completed(cache[k])

EnhanceSettles(k) ==
  /\ Enhance(k).pc = "look" => Completed(jobRow[k]) /\ Completed(cache[k])
  /\ Enhance(k).pc = "return" => Fetched(jobRow[k])
  /\ Enhance(k).pc \in {"persist", "cache"} =>
       Enhance(k).job.subtitles = IF Enhance(k).stage = "fetched" THEN "settled" ELSE "running"
  /\ Enhance(k).pc = "cache" /\ Enhance(k).stage = "fetched" => Fetched(jobRow[k])

CallerSound(c) ==
  caller[c].pc = "cache" =>
    Sound(caller[c].job) /\ (Fetched(caller[c].job) => RowSettles(caller[c].key))

HeldAt(k) == Attended(k) /\ CopiesSound(k) /\ RunAsks(k) /\ RunEnds(k) /\ EnhanceSettles(k)

Held == /\ IngestInv /\ InPlaces
        /\ refused = 0 => (\A k \in Keys : HeldAt(k)) /\ \A c \in Callers : CallerSound(c)

-----------------------------------------------------------------------------
(* The order of the plan                                                   *)

Ordered(s) == \A i \in 1 .. Len(s) - 1 : s[i + 1] \in LateStages \ {"media"} => s[i] \in LateStages

LEMMA JoinedOrdered ==
  ASSUME NEW s \in Seq(PlanStages), NEW t \in Seq(PlanStages), Ordered(s), Ordered(t),
         Len(s) > 0, s[Len(s)] \in LateStages \/ Members(t) \cap (LateStages \ {"media"}) = {}
  PROVE  Ordered(s \o t)
<1>1. /\ Len(s \o t) = Len(s) + Len(t) /\ Len(s) \in Nat /\ Len(t) \in Nat
      /\ \A i \in 1 .. Len(s) + Len(t) : (s \o t)[i] = IF i <= Len(s) THEN s[i] ELSE t[i - Len(s)]
  OBVIOUS
<1> SUFFICES ASSUME NEW i \in 1 .. Len(s) + Len(t) - 1,
                    (s \o t)[i + 1] \in LateStages \ {"media"}
             PROVE  (s \o t)[i] \in LateStages
  BY <1>1 DEF Ordered
<1>2. /\ (s \o t)[i + 1] = IF i + 1 <= Len(s) THEN s[i + 1] ELSE t[i + 1 - Len(s)]
      /\ (s \o t)[i] = IF i <= Len(s) THEN s[i] ELSE t[i - Len(s)]
  BY <1>1
<1>3. CASE i + 1 <= Len(s)
  <2>1. i \in 1 .. Len(s) - 1 /\ i <= Len(s) BY <1>1, <1>3
  <2> QED BY <1>2, <1>3, <2>1 DEF Ordered
<1>4. CASE i = Len(s)
  <2>1. t[1] \in LateStages \ {"media"} /\ 1 \in 1 .. Len(t) BY <1>1, <1>2, <1>4
  <2>2. t[1] \in Members(t) BY <2>1 DEF Members
  <2>3. (s \o t)[i] = s[Len(s)] BY <1>1, <1>2, <1>4
  <2> QED BY <2>1, <2>2, <2>3
<1>5. CASE i > Len(s)
  <2> DEFINE n == i - Len(s)
  <2>1. n \in 1 .. Len(t) - 1 /\ i + 1 - Len(s) = n + 1 /\ ~(i <= Len(s)) /\ ~(i + 1 <= Len(s))
    BY <1>1, <1>5
  <2>2. t[n + 1] \in LateStages \ {"media"} /\ (s \o t)[i] = t[n] BY <1>2, <2>1
  <2> HIDE DEF n
  <2> QED BY <2>1, <2>2 DEF Ordered
<1> QED BY <1>1, <1>3, <1>4, <1>5

LEMMA PairOrdered ==
  ASSUME NEW a, NEW b, b \in LateStages \ {"media"} => a \in LateStages
  PROVE  Ordered(<<a, b>>) /\ Len(<<a, b>>) = 2 /\ <<a, b>>[2] = b
<1> DEFINE p == <<a, b>>
<1>1. Len(p) = 2 /\ p[1] = a /\ p[2] = b OBVIOUS
<1> HIDE DEF p
<1>2. 1 .. 2 - 1 = {1} OBVIOUS
<1> QED BY <1>1, <1>2 DEF Ordered, p

LEMMA ShortOrdered ==
  /\ Ordered(<<>>) /\ Len(<<>>) = 0
  /\ \A a : Ordered(<<a>>)
<1>1. Ordered(<<>>) /\ Len(<<>>) = 0
  <2>1. Len(<<>>) = 0 /\ 1 .. 0 - 1 = {} OBVIOUS
  <2> QED BY <2>1 DEF Ordered
<1>2. ASSUME NEW a PROVE Ordered(<<a>>)
  <2>1. Len(<<a>>) = 1 /\ 1 .. 1 - 1 = {} OBVIOUS
  <2> QED BY <2>1 DEF Ordered
<1> QED BY <1>1, <1>2

(* What asks for subtitles, "media", is on every plan, and all that is late *)
(* comes after it.                                                         *)
LEMMA PlanOrdered ==
  ASSUME NEW k \in Keys
  PROVE  Ordered(Plan(k))
<1> DEFINE S == PlanStages
           a == IF k \in Prune THEN <<"prune", "pruned">> ELSE <<>>
           b == IF k \in Scan THEN <<"scan", "scanned">> ELSE <<>>
           m == <<"find", "media">>
           c == IF k \in Extras THEN <<"extras", "extrasDone">> ELSE <<>>
           d == IF k \in Visibility THEN <<"visibility", "visibilityDone">> ELSE <<>>
           first == <<"start">>
           last == <<"completed">>
           p1 == first \o a
           p2 == p1 \o b
           p3 == p2 \o m
           p4 == p3 \o c
           p5 == p4 \o d
           Late(s) == Len(s) > 0 /\ s[Len(s)] \in LateStages
           Early(s) == Members(s) \cap (LateStages \ {"media"}) = {}
           p6 == p5 \o last
<1>1. Plan(k) = p6 BY DEF Plan
<1>2. a \in Seq(S) /\ Ordered(a) /\ Early(a)
  <2> DEFINE p == <<"prune", "pruned">>
  <2>1. p \in Seq(S) /\ Members(p) = {"prune", "pruned"} /\ Ordered(p)
    BY PairMembers, PairOrdered DEF PlanStages, LateStages
  <2>2. <<>> \in Seq(S) /\ Members(<<>>) = {} /\ Ordered(<<>>) BY NoMembers, ShortOrdered
  <2> HIDE DEF p
  <2>3. a = p \/ a = <<>> BY DEF p
  <2> QED BY <2>1, <2>2, <2>3 DEF LateStages
<1>3. b \in Seq(S) /\ Ordered(b) /\ Early(b)
  <2> DEFINE p == <<"scan", "scanned">>
  <2>1. p \in Seq(S) /\ Members(p) = {"scan", "scanned"} /\ Ordered(p)
    BY PairMembers, PairOrdered DEF PlanStages, LateStages
  <2>2. <<>> \in Seq(S) /\ Members(<<>>) = {} /\ Ordered(<<>>) BY NoMembers, ShortOrdered
  <2> HIDE DEF p
  <2>3. b = p \/ b = <<>> BY DEF p
  <2> QED BY <2>1, <2>2, <2>3 DEF LateStages
<1>4. m \in Seq(S) /\ Ordered(m) /\ Early(m) /\ Late(m)
  <2>1. /\ m \in Seq(S) /\ Members(m) = {"find", "media"} /\ Ordered(m)
        /\ Len(m) = 2 /\ m[2] = "media"
    BY PairMembers, PairOrdered DEF PlanStages, LateStages
  <2> HIDE DEF m
  <2> QED BY <2>1 DEF LateStages
<1>5. c \in Seq(S) /\ Ordered(c) /\ (c = <<>> \/ Late(c))
  <2> DEFINE p == <<"extras", "extrasDone">>
  <2>1. p \in Seq(S) /\ Ordered(p) /\ Len(p) = 2 /\ p[2] = "extrasDone"
    BY PairMembers, PairOrdered DEF PlanStages, LateStages
  <2>2. <<>> \in Seq(S) /\ Ordered(<<>>) BY NoMembers, ShortOrdered
  <2> HIDE DEF p
  <2>3. c = p \/ c = <<>> BY DEF p
  <2> HIDE DEF c
  <2>4. Late(p) BY <2>1 DEF LateStages
  <2> QED BY <2>1, <2>2, <2>3, <2>4
<1>6. d \in Seq(S) /\ Ordered(d) /\ (d = <<>> \/ Late(d))
  <2> DEFINE p == <<"visibility", "visibilityDone">>
  <2>1. p \in Seq(S) /\ Ordered(p) /\ Len(p) = 2 /\ p[2] = "visibilityDone"
    BY PairMembers, PairOrdered DEF PlanStages, LateStages
  <2>2. <<>> \in Seq(S) /\ Ordered(<<>>) BY NoMembers, ShortOrdered
  <2> HIDE DEF p
  <2>3. d = p \/ d = <<>> BY DEF p
  <2> HIDE DEF d
  <2>4. Late(p) BY <2>1 DEF LateStages
  <2> QED BY <2>1, <2>2, <2>3, <2>4
<1>7. first \in Seq(S) /\ Ordered(first) /\ Len(first) = 1
  BY OneMember, ShortOrdered DEF PlanStages
<1>8. last \in Seq(S) /\ Ordered(last)
  BY OneMember, ShortOrdered DEF PlanStages
<1>9. \A s \in Seq(S) : \A t \in Seq(S) :
        /\ s \o t \in Seq(S) /\ s \o <<>> = s /\ (Len(s) > 0 => Len(s \o t) > 0)
        /\ Late(t) => Late(s \o t)
        /\ Ordered(s) /\ Ordered(t) /\ Len(s) > 0 /\ (Late(s) \/ Early(t)) => Ordered(s \o t)
  <2> SUFFICES ASSUME NEW s \in Seq(S), NEW t \in Seq(S)
               PROVE  /\ s \o t \in Seq(S) /\ s \o <<>> = s /\ (Len(s) > 0 => Len(s \o t) > 0)
                      /\ Late(t) => Late(s \o t)
                      /\ Ordered(s) /\ Ordered(t) /\ Len(s) > 0 /\ (Late(s) \/ Early(t)) => Ordered(s \o t)
    OBVIOUS
  <2>1. s \o t \in Seq(S) /\ s \o <<>> = s /\ (Len(s) > 0 => Len(s \o t) > 0) OBVIOUS
  <2>2. Late(t) => Late(s \o t) BY Joined
  <2>3. Ordered(s) /\ Ordered(t) /\ Len(s) > 0 /\ (Late(s) \/ Early(t)) => Ordered(s \o t)
    BY JoinedOrdered
  <2> QED BY <2>1, <2>2, <2>3
<1> HIDE DEF a, b, c, d, m, first, last
<1>10. p1 \in Seq(S) /\ Ordered(p1) /\ Len(p1) > 0
  <2>1. Len(first) > 0 BY <1>7
  <2>2. p1 \in Seq(S) /\ Len(p1) > 0 BY <1>2, <1>7, <1>9, <2>1
  <2>3. Ordered(p1) BY <1>2, <1>7, <1>9, <2>1
  <2> QED BY <2>2, <2>3
<1> HIDE DEF p1
<1>11. p2 \in Seq(S) /\ Ordered(p2) /\ Len(p2) > 0 BY <1>3, <1>9, <1>10
<1> HIDE DEF p2
<1>12. p3 \in Seq(S) /\ Ordered(p3) /\ Late(p3) BY <1>4, <1>9, <1>11
<1> HIDE DEF p3
<1>13. p4 \in Seq(S) /\ Ordered(p4) /\ Late(p4) BY <1>5, <1>9, <1>12
<1> HIDE DEF p4
<1>14. p5 \in Seq(S) /\ Ordered(p5) /\ Late(p5) BY <1>6, <1>9, <1>13
<1> HIDE DEF p5
<1>15. Ordered(p6) BY <1>8, <1>9, <1>14
<1> HIDE DEF p6
<1> QED BY <1>1, <1>15

LEMMA AfterLate ==
  ASSUME NEW k \in Keys, NEW stage \in Members(Plan(k)), stage # "completed",
         After(k, stage) \in LateStages \ {"media"}
  PROVE  stage \in LateStages
<1> DEFINE p == Plan(k)
           i == CHOOSE j \in 1 .. Len(p) : p[j] = stage
<1>1. p \in Seq(PlanStages) /\ p[Len(p)] = "completed" /\ Ordered(p) BY PlanOf, PlanOrdered
<1>2. i \in 1 .. Len(p) /\ p[i] = stage BY DEF Members
<1>3. After(k, stage) = p[1 + i] BY DEF After
<1> HIDE DEF p, i
<1>4. Len(p) \in Nat BY <1>1
<1>5. i # Len(p) BY <1>1, <1>2
<1>6. i \in 1 .. Len(p) - 1 /\ 1 + i = i + 1 BY <1>2, <1>4, <1>5
<1>7. p[i + 1] \in LateStages \ {"media"} BY <1>3, <1>6
<1> QED BY <1>1, <1>2, <1>6, <1>7 DEF Ordered

-----------------------------------------------------------------------------
(* The steps, one job at a time                                            *)

LEMMA RunMotion ==
  ASSUME thread \in [Goroutines -> ThreadRec], NEW k \in Keys, NEW v,
         thread' = [thread EXCEPT ![<<"run", k>>] = v]
  PROVE  /\ Run(k)' = v /\ Enhance(k)' = Enhance(k)
         /\ \A j \in Keys \ {k} : Run(j)' = Run(j) /\ Enhance(j)' = Enhance(j)
BY Pairs DEF Run, Enhance

LEMMA EnhanceMotion ==
  ASSUME thread \in [Goroutines -> ThreadRec], NEW k \in Keys, NEW v,
         thread' = [thread EXCEPT ![<<"enhance", k>>] = v]
  PROVE  /\ Enhance(k)' = v /\ Run(k)' = Run(k)
         /\ \A j \in Keys \ {k} : Run(j)' = Run(j) /\ Enhance(j)' = Enhance(j)
BY Pairs DEF Run, Enhance

(* What Held says of a job and of the table, before a write was refused.   *)
LEMMA HeldFacts ==
  ASSUME Held, refused = 0, NEW k \in Keys
  PROVE  /\ KeyFits(k) /\ HeldAt(k)
         /\ thread \in [Goroutines -> ThreadRec]
         /\ Run(k) \in ThreadRec /\ Enhance(k) \in ThreadRec
         /\ InPlace(<<"run", k>>, Run(k), cache[k])
         /\ jobRow \in [Keys -> Record \union {NoRecord}] /\ cache \in [Keys -> Record \union {NoRecord}]
         /\ found \in [Keys -> Record \union {NoRecord}]
         /\ jobRow[k] \in Record \union {NoRecord} /\ cache[k] \in Record \union {NoRecord}
         /\ found[k] \in Record \union {NoRecord}
<1>1. <<"run", k>> \in Goroutines /\ <<"enhance", k>> \in Goroutines /\ <<"run", k>>[2] = k BY Pairs
<1>2. /\ thread \in [Goroutines -> ThreadRec]
      /\ jobRow \in [Keys -> Record \union {NoRecord}] /\ cache \in [Keys -> Record \union {NoRecord}]
      /\ found \in [Keys -> Record \union {NoRecord}]
  BY TypesNamed DEF Held, InPlaces
<1>3. InPlace(<<"run", k>>, Run(k), cache[k]) BY <1>1 DEF Held, InPlaces, Run
<1>4. KeyFits(k) /\ HeldAt(k) BY DEF Held, IngestInv
<1> QED BY <1>1, <1>2, <1>3, <1>4 DEF Run, Enhance

(* A job no step touches. *)
LEMMA HeldKept ==
  ASSUME NEW k \in Keys, HeldAt(k), jobRow'[k] = jobRow[k], cache'[k] = cache[k],
         found'[k] = found[k], Run(k)' = Run(k), Enhance(k)' = Enhance(k), recovery' = recovery,
         \A c \in Callers : caller[c].key = k /\ caller[c].pc \in {"cache", "schedule"} =>
                              caller'[c].key = k /\ caller'[c].pc \in {"cache", "schedule"}
  PROVE  HeldAt(k)'
<1>1. Attended(k)' BY DEF HeldAt, Attended, Running, Completed, Fetched
<1>2. CopiesSound(k)' BY DEF HeldAt, CopiesSound, RowSettles, Sound, Completed, Fetched
<1>3. RunAsks(k)' BY DEF HeldAt, RunAsks, Fetched
<1>4. RunEnds(k)' BY DEF HeldAt, RunEnds, Running, Completed
<1>5. EnhanceSettles(k)' BY DEF HeldAt, EnhanceSettles, Completed, Fetched
<1> QED BY <1>1, <1>2, <1>3, <1>4, <1>5 DEF HeldAt

(* A step of one job that leaves the requests alone. *)
LEMMA OneKeyHeld ==
  ASSUME Held, refused = 0, IngestInv', InPlaces', NEW k \in Keys, HeldAt(k)',
         RowSettles(k) => RowSettles(k)', UNCHANGED <<caller, recovery>>,
         \A j \in Keys \ {k} : /\ jobRow'[j] = jobRow[j] /\ cache'[j] = cache[j] /\ found'[j] = found[j]
                              /\ Run(j)' = Run(j) /\ Enhance(j)' = Enhance(j)
  PROVE  Held'
<1>1. \A j \in Keys \ {k} : HeldAt(j)' BY HeldKept DEF Held
<1>2. ASSUME NEW c \in Callers PROVE CallerSound(c)'
  <2>1. CallerSound(c) BY DEF Held
  <2>2. caller[c].pc = "cache" => caller[c].key \in Keys BY DEF Held, InPlaces, CallInPlace
  <2>3. \A j \in Keys : RowSettles(j) => RowSettles(j)' BY DEF RowSettles, Fetched
  <2> QED BY <2>1, <2>2, <2>3 DEF CallerSound, Sound, Completed, Fetched
<1> QED BY <1>1, <1>2 DEF Held

(* How updates change a copy. *)
LEMMA UpdatedSubtitles ==
  ASSUME NEW job \in Record, NEW stage
  PROVE  /\ Updated(job, stage).subtitles =
              IF stage = "media" /\ job.subtitles = "none" THEN "pending"
              ELSE IF stage = "fetching" THEN "running"
              ELSE IF stage = "fetched" THEN "settled" ELSE job.subtitles
         /\ Updated(job, stage) # NoRecord
<1>1. Updated(job, stage) \in Record BY DEF Updated, Record
<1>2. Updated(job, stage) # NoRecord BY <1>1, RecordAssumption
<1> QED BY <1>2 DEF Updated, Record

LEMMA ReadHeld ==
  ASSUME Held, refused = 0, IngestInv', InPlaces', NEW g \in Goroutines, ReadJob(g)
  PROVE  Held'
<1> PICK k \in Keys : g = <<"run", k>> \/ g = <<"enhance", k>> BY TwoGoroutines
<1> DEFINE v == thread'[g]
           job == Updated(cache[k], thread[g].stage)
<1>1. /\ thread[g].pc = "read" /\ UNCHANGED <<jobRow, cache, caller, recovery, found>>
      /\ thread' = [thread EXCEPT ![g].pc = "persist", ![g].job = job]
  <2>1. g[2] = k OBVIOUS
  <2> QED BY <2>1 DEF ReadJob, Is
<1>2. thread \in [Goroutines -> ThreadRec] /\ thread[g] \in ThreadRec BY HeldFacts
<1>3. thread' = [thread EXCEPT ![g] = v] BY <1>1, <1>2
<1>4. KeyFits(k) /\ HeldAt(k) /\ InPlace(<<"run", k>>, Run(k), cache[k])
      /\ cache[k] \in Record \union {NoRecord} /\ jobRow[k] \in Record \union {NoRecord}
  BY HeldFacts
<1>5. v.pc = "persist" /\ v.stage = thread[g].stage /\ v.job = job
  <2> HIDE DEF job
  <2> QED BY <1>1, <1>2 DEF ThreadRec
<1> HIDE DEF v
<1>6. CASE g = <<"run", k>>
  <2>1. /\ Run(k)' = v /\ Enhance(k)' = Enhance(k) /\ Run(k) = thread[g]
        /\ \A j \in Keys \ {k} : Run(j)' = Run(j) /\ Enhance(j)' = Enhance(j)
    BY <1>2, <1>3, <1>6, RunMotion DEF Run
  <2>2. Running(jobRow[k]) /\ Running(cache[k]) /\ cache[k] \in Record
    BY <1>1, <1>4, <2>1 DEF KeyFits, RunFits, Running
  <2>3. v.stage \in PlanStages \union {"failed"} BY <1>1, <1>4, <1>5, <2>1, OnPlan DEF InPlace
  <2>4. ~Fetched(cache[k]) BY <1>4, <2>2 DEF HeldAt, CopiesSound, Sound, Running
  <2>5. /\ ~Fetched(v.job)
        /\ v.stage \in LateStages => v.job.subtitles # "none"
    <3>1. v.stage \in LateStages \ {"media"} => cache[k].subtitles # "none"
      BY <1>1, <1>4, <1>5, <2>1 DEF HeldAt, RunAsks
    <3> QED BY <1>5, <2>2, <2>3, <2>4, <3>1, UpdatedSubtitles DEF Fetched, PlanStages, Running
  <2>6. HeldAt(k)'
    <3>1. Attended(k)' BY <1>1, <1>5, <2>1, <2>2 DEF Attended, Running, Completed
    <3>2. CopiesSound(k)' BY <1>1, <1>4, <2>1 DEF HeldAt, CopiesSound, RowSettles, Sound, Completed, Fetched
    <3>3. RunAsks(k)' BY <1>1, <1>5, <2>1, <2>5 DEF RunAsks, Fetched
    <3>4. RunEnds(k)' BY <1>1, <1>4, <1>5, <2>1 DEF HeldAt, RunEnds, Running
    <3>5. EnhanceSettles(k)' BY <1>1, <1>4, <2>1 DEF HeldAt, EnhanceSettles, Completed, Fetched
    <3> QED BY <3>1, <3>2, <3>3, <3>4, <3>5 DEF HeldAt
  <2>7. RowSettles(k) => RowSettles(k)' BY <1>1, <2>1 DEF RowSettles, Fetched
  <2> QED BY <1>1, <2>1, <2>6, <2>7, OneKeyHeld
<1>7. CASE g = <<"enhance", k>>
  <2>1. /\ Enhance(k)' = v /\ Run(k)' = Run(k) /\ Enhance(k) = thread[g]
        /\ \A j \in Keys \ {k} : Run(j)' = Run(j) /\ Enhance(j)' = Enhance(j)
    BY <1>2, <1>3, <1>7, EnhanceMotion DEF Enhance
  <2>2. /\ Completed(jobRow[k]) /\ Completed(cache[k]) /\ cache[k] \in Record
        /\ v.stage \in {"fetching", "fetched"}
    BY <1>1, <1>4, <1>5, <2>1 DEF KeyFits, EnhanceFits, Completed
  <2>3. v.job.subtitles = IF v.stage = "fetched" THEN "settled" ELSE "running"
    BY <1>5, <2>2, UpdatedSubtitles
  <2>4. HeldAt(k)'
    <3>1. Attended(k)' BY <1>1, <1>5, <2>1, <2>2 DEF Attended, Running, Completed
    <3>2. CopiesSound(k)'
      BY <1>1, <1>4, <1>5, <2>1 DEF HeldAt, CopiesSound, RowSettles, Sound, Completed, Fetched
    <3>3. RunAsks(k)' BY <1>1, <1>4, <2>1 DEF HeldAt, RunAsks, Fetched
    <3>4. RunEnds(k)' BY <1>1, <1>4, <2>1, <2>2 DEF HeldAt, RunEnds, Running, Completed
    <3>5. EnhanceSettles(k)' BY <1>5, <2>1, <2>3 DEF EnhanceSettles
    <3> QED BY <3>1, <3>2, <3>3, <3>4, <3>5 DEF HeldAt
  <2>5. RowSettles(k) => RowSettles(k)' BY <1>1, <1>5, <2>1 DEF RowSettles, Fetched
  <2> QED BY <1>1, <2>1, <2>4, <2>5, OneKeyHeld
<1> QED BY <1>6, <1>7

LEMMA PersistHeld ==
  ASSUME Held, refused = 0, IngestInv', InPlaces', NEW g \in Goroutines, PersistJob(g)
  PROVE  Held'
<1> PICK k \in Keys : g = <<"run", k>> \/ g = <<"enhance", k>> BY TwoGoroutines
<1> DEFINE v == thread'[g]
<1>1. /\ thread[g].pc = "persist" /\ UNCHANGED <<cache, caller, recovery, found>>
      /\ jobRow' = [jobRow EXCEPT ![k] = thread[g].job]
      /\ thread' = [thread EXCEPT ![g].pc = "cache"]
  <2>1. g[2] = k OBVIOUS
  <2> QED BY <2>1 DEF PersistJob, Is
<1>2. /\ thread \in [Goroutines -> ThreadRec] /\ thread[g] \in ThreadRec
      /\ KeyFits(k) /\ HeldAt(k) /\ jobRow \in [Keys -> Record \union {NoRecord}]
  BY HeldFacts
<1>3. thread' = [thread EXCEPT ![g] = v] BY <1>1, <1>2
<1>4. v.pc = "cache" /\ v.stage = thread[g].stage /\ v.job = thread[g].job BY <1>1, <1>2 DEF ThreadRec
<1>5. jobRow'[k] = v.job /\ \A j \in Keys \ {k} : jobRow'[j] = jobRow[j] BY <1>1, <1>2, <1>4
<1> HIDE DEF v
<1>6. CASE g = <<"run", k>>
  <2>1. /\ Run(k)' = v /\ Enhance(k)' = Enhance(k) /\ Run(k) = thread[g]
        /\ \A j \in Keys \ {k} : Run(j)' = Run(j) /\ Enhance(j)' = Enhance(j)
    BY <1>2, <1>3, <1>6, RunMotion DEF Run
  <2>2. /\ Running(jobRow[k]) /\ Running(cache[k]) /\ v.job \in Record /\ v.job # NoRecord
        /\ v.job.status = IF v.stage \in {"completed", "failed"} THEN v.stage ELSE "running"
    BY <1>1, <1>2, <1>4, <2>1, RecordAssumption DEF KeyFits, RunFits
  <2>3. ~Fetched(v.job) /\ (v.stage \in LateStages => v.job.subtitles # "none")
    BY <1>1, <1>2, <1>4, <2>1 DEF HeldAt, RunAsks
  <2>4. Enhance(k).pc = "off" BY <1>2, <2>2 DEF HeldAt, RunEnds
  <2>5. ~Fetched(jobRow[k]) /\ ~Fetched(cache[k])
    BY <1>2, <2>2 DEF HeldAt, CopiesSound, Sound, Running
  <2>6. HeldAt(k)'
    <3>1. Attended(k)' BY <1>4, <1>5, <2>1, <2>2 DEF Attended, Running, Completed
    <3>2. CopiesSound(k)'
      BY <1>1, <1>2, <1>5, <2>2, <2>3, <2>5
      DEF HeldAt, CopiesSound, RowSettles, Sound, Completed, Fetched, LateStages
    <3>3. RunAsks(k)' BY <1>4, <2>1, <2>3 DEF RunAsks, Fetched
    <3>4. RunEnds(k)' BY <1>4, <1>5, <2>1, <2>2, <2>4 DEF RunEnds, Running, Completed
    <3>5. EnhanceSettles(k)' BY <2>1, <2>4 DEF EnhanceSettles
    <3> QED BY <3>1, <3>2, <3>3, <3>4, <3>5 DEF HeldAt
  <2>7. RowSettles(k) => RowSettles(k)' BY <2>4, <2>5 DEF RowSettles
  <2> QED BY <1>1, <1>5, <2>1, <2>6, <2>7, OneKeyHeld
<1>7. CASE g = <<"enhance", k>>
  <2>1. /\ Enhance(k)' = v /\ Run(k)' = Run(k) /\ Enhance(k) = thread[g]
        /\ \A j \in Keys \ {k} : Run(j)' = Run(j) /\ Enhance(j)' = Enhance(j)
    BY <1>2, <1>3, <1>7, EnhanceMotion DEF Enhance
  <2>2. /\ v.job \in Record /\ v.job # NoRecord /\ v.job.status = "completed"
        /\ v.stage \in {"fetching", "fetched"}
        /\ v.job.subtitles = IF v.stage = "fetched" THEN "settled" ELSE "running"
    BY <1>1, <1>2, <1>4, <2>1, RecordAssumption DEF KeyFits, EnhanceFits, HeldAt, EnhanceSettles
  <2>3. HeldAt(k)'
    <3>1. Attended(k)' BY <1>4, <1>5, <2>1, <2>2 DEF Attended, Running, Completed
    <3>2. CopiesSound(k)'
      BY <1>1, <1>2, <1>4, <1>5, <2>1, <2>2 DEF HeldAt, CopiesSound, RowSettles, Sound, Completed, Fetched
    <3>3. RunAsks(k)' BY <1>1, <1>2, <2>1 DEF HeldAt, RunAsks, Fetched
    <3>4. RunEnds(k)' BY <1>1, <1>2, <1>5, <2>1, <2>2 DEF HeldAt, RunEnds, Running, Completed
    <3>5. EnhanceSettles(k)' BY <1>4, <1>5, <2>1, <2>2 DEF EnhanceSettles, Fetched
    <3> QED BY <3>1, <3>2, <3>3, <3>4, <3>5 DEF HeldAt
  <2>4. RowSettles(k)' BY <1>4, <2>1 DEF RowSettles
  <2> QED BY <1>1, <1>5, <2>1, <2>3, <2>4, OneKeyHeld
<1> QED BY <1>6, <1>7

LEMMA StoreHeld ==
  ASSUME Held, refused = 0, IngestInv', InPlaces', NEW g \in Goroutines, StoreJob(g)
  PROVE  Held'
<1> PICK k \in Keys : g = <<"run", k>> \/ g = <<"enhance", k>> BY TwoGoroutines
<1> DEFINE v == IF thread[g].stage \in {"failed", "fetched"}
                THEN [pc |-> "return", stage |-> "none", job |-> NoRecord]
                ELSE [pc |-> "work", stage |-> thread[g].stage, job |-> NoRecord]
<1>1. /\ thread[g].pc = "cache" /\ UNCHANGED <<jobRow, caller, recovery, found>>
      /\ cache' = [cache EXCEPT ![k] = thread[g].job] /\ thread' = [thread EXCEPT ![g] = v]
  <2>1. g[2] = k OBVIOUS
  <2> QED BY <2>1 DEF StoreJob, Is, Moved
<1>2. /\ thread \in [Goroutines -> ThreadRec] /\ KeyFits(k) /\ HeldAt(k)
      /\ cache \in [Keys -> Record \union {NoRecord}]
  BY HeldFacts
<1>3. cache'[k] = thread[g].job /\ \A j \in Keys \ {k} : cache'[j] = cache[j] BY <1>1, <1>2
<1>4. /\ thread[g].stage \in {"failed", "fetched"} => v.pc = "return"
      /\ thread[g].stage \notin {"failed", "fetched"} => v.pc = "work" /\ v.stage = thread[g].stage
  OBVIOUS
<1> HIDE DEF v
<1>5. CASE g = <<"run", k>>
  <2>1. /\ Run(k)' = v /\ Enhance(k)' = Enhance(k) /\ Run(k) = thread[g]
        /\ \A j \in Keys \ {k} : Run(j)' = Run(j) /\ Enhance(j)' = Enhance(j)
    BY <1>1, <1>2, <1>5, RunMotion DEF Run
  <2>2. /\ Run(k).job \in Record /\ Run(k).job # NoRecord /\ jobRow[k] # NoRecord
        /\ Run(k).job.status =
             IF Run(k).stage \in {"completed", "failed"} THEN Run(k).stage ELSE "running"
        /\ Run(k).job.status = jobRow[k].status
    BY <1>1, <1>2, <2>1, RecordAssumption DEF KeyFits, RunFits
  <2>3. /\ ~Fetched(Run(k).job) /\ (Run(k).stage \in LateStages => Run(k).job.subtitles # "none")
        /\ Run(k).stage = "completed" => Completed(jobRow[k])
    BY <1>1, <1>2, <2>1 DEF HeldAt, RunAsks, RunEnds
  <2>4. HeldAt(k)'
    <3>1. Attended(k)'
      <4>1. Run(k).stage # "failed" => v.pc = "work" /\ v.stage = Run(k).stage
        <5>1. Run(k).stage \in PlanStages \union {"failed"}
          BY <1>1, <2>1, HeldFacts, OnPlan DEF InPlace
        <5> QED BY <1>4, <2>1, <5>1 DEF PlanStages
      <4>2. Running(jobRow[k]) => Run(k).stage # "failed" BY <2>2 DEF Running
      <4>3. Completed(jobRow[k]) /\ ~Fetched(jobRow[k]) =>
              \/ Enhance(k).pc \notin {"off", "return"} \/ Run(k).stage = "completed"
              \/ recovery \in {"down", "running"} \/ found[k] # NoRecord
        BY <1>2 DEF HeldAt, Attended
      <4>4. Running(jobRow[k]) => v.pc = "work" BY <4>1, <4>2
      <4> QED BY <1>1, <2>1, <4>1, <4>3, <4>4 DEF Attended, Running, Completed, Fetched
    <3>2. CopiesSound(k)'
      BY <1>1, <1>2, <1>3, <2>1, <2>2, <2>3
      DEF HeldAt, CopiesSound, RowSettles, Sound, Completed, Fetched, LateStages
    <3>3. RunAsks(k)' BY <1>3, <1>4, <2>1, <2>3 DEF RunAsks
    <3>4. RunEnds(k)'
      BY <1>1, <1>2, <1>3, <1>4, <2>1, <2>2, <2>3 DEF HeldAt, RunEnds, Running, Completed
    <3>5. EnhanceSettles(k)'
      BY <1>1, <1>2, <1>3, <2>1, <2>2 DEF HeldAt, EnhanceSettles, Completed, Fetched
    <3> QED BY <3>1, <3>2, <3>3, <3>4, <3>5 DEF HeldAt
  <2>5. RowSettles(k) => RowSettles(k)' BY <1>1, <2>1 DEF RowSettles, Fetched
  <2> QED BY <1>1, <1>3, <2>1, <2>4, <2>5, OneKeyHeld
<1>6. CASE g = <<"enhance", k>>
  <2>1. /\ Enhance(k)' = v /\ Run(k)' = Run(k) /\ Enhance(k) = thread[g]
        /\ \A j \in Keys \ {k} : Run(j)' = Run(j) /\ Enhance(j)' = Enhance(j)
    BY <1>1, <1>2, <1>6, EnhanceMotion DEF Enhance
  <2>2. /\ Completed(jobRow[k]) /\ cache'[k] # NoRecord /\ cache'[k].status = "completed"
        /\ Enhance(k).stage \in {"fetching", "fetched"}
        /\ cache'[k].subtitles = IF Enhance(k).stage = "fetched" THEN "settled" ELSE "running"
        /\ Enhance(k).stage = "fetched" => Fetched(jobRow[k])
    BY <1>1, <1>2, <1>3, <2>1, RecordAssumption DEF KeyFits, EnhanceFits, HeldAt, EnhanceSettles
  <2>3. RowSettles(k)' BY <1>1, <1>4, <2>1, <2>2 DEF RowSettles, Fetched
  <2>4. HeldAt(k)'
    <3>1. Attended(k)' BY <1>1, <1>4, <2>1, <2>2 DEF Attended, Running, Completed, Fetched
    <3>2. CopiesSound(k)'
      BY <1>1, <1>2, <2>2, <2>3 DEF HeldAt, CopiesSound, Sound, Completed, Fetched
    <3>3. RunAsks(k)' BY <1>2, <2>1, <2>2 DEF HeldAt, RunAsks, Fetched
    <3>4. RunEnds(k)' BY <1>1, <1>2, <2>1, <2>2 DEF HeldAt, RunEnds, Running, Completed
    <3>5. EnhanceSettles(k)' BY <1>1, <1>4, <2>1, <2>2 DEF EnhanceSettles, Fetched
    <3> QED BY <3>1, <3>2, <3>3, <3>4, <3>5 DEF HeldAt
  <2> QED BY <1>1, <1>3, <2>1, <2>3, <2>4, OneKeyHeld
<1> QED BY <1>5, <1>6

LEMMA ReturnHeld ==
  ASSUME Held, refused = 0, IngestInv', InPlaces', NEW g \in Goroutines, Return(g)
  PROVE  Held'
<1> PICK k \in Keys : g = <<"run", k>> \/ g = <<"enhance", k>> BY TwoGoroutines
<1>1. /\ thread[g].pc = "return" /\ UNCHANGED <<jobRow, cache, caller, recovery, found>>
      /\ thread' = [thread EXCEPT ![g] = Off] /\ Off.pc = "off"
  BY DEF Return, Is, Off
<1>2. thread \in [Goroutines -> ThreadRec] /\ HeldAt(k) BY HeldFacts
<1>3. CASE g = <<"run", k>>
  <2>1. /\ Run(k)' = Off /\ Enhance(k)' = Enhance(k) /\ Run(k) = thread[g]
        /\ \A j \in Keys \ {k} : Run(j)' = Run(j) /\ Enhance(j)' = Enhance(j)
    BY <1>1, <1>2, <1>3, RunMotion DEF Run
  <2>2. HeldAt(k)'
    BY <1>1, <1>2, <2>1
    DEF HeldAt, Attended, CopiesSound, RunAsks, RunEnds, EnhanceSettles, RowSettles, Sound, Running,
        Completed, Fetched
  <2>3. RowSettles(k) => RowSettles(k)' BY <1>1, <2>1 DEF RowSettles, Fetched
  <2> QED BY <1>1, <2>1, <2>2, <2>3, OneKeyHeld
<1>4. CASE g = <<"enhance", k>>
  <2>1. /\ Enhance(k)' = Off /\ Run(k)' = Run(k) /\ Enhance(k) = thread[g]
        /\ \A j \in Keys \ {k} : Run(j)' = Run(j) /\ Enhance(j)' = Enhance(j)
    BY <1>1, <1>2, <1>4, EnhanceMotion DEF Enhance
  <2>2. HeldAt(k)'
    BY <1>1, <1>2, <2>1
    DEF HeldAt, Attended, CopiesSound, RunAsks, RunEnds, EnhanceSettles, RowSettles, Sound, Running,
        Completed, Fetched
  <2>3. RowSettles(k) => RowSettles(k)' BY <1>1, <2>1 DEF RowSettles, Fetched
  <2> QED BY <1>1, <2>1, <2>2, <2>3, OneKeyHeld
<1> QED BY <1>3, <1>4

(* run goes from one update to the next. *)
LEMMA GoesHeld ==
  ASSUME Held, refused = 0, IngestInv', InPlaces', NEW k \in Keys, NEW pc, NEW stage,
         Goes(k, pc, stage), Run(k).pc \in {"work", "scan"},
         Run(k).pc = "work" => Run(k).stage # "completed", pc \in {"read", "scan"},
         pc = "read" /\ stage \in LateStages \ {"media"} => cache[k].subtitles # "none"
  PROVE  Held'
<1> DEFINE v == [pc |-> pc, stage |-> stage, job |-> NoRecord]
<1>1. /\ thread' = [thread EXCEPT ![<<"run", k>>] = v]
      /\ UNCHANGED <<jobRow, cache, caller, recovery, found>>
  BY DEF Goes, Moved
<1>2. thread \in [Goroutines -> ThreadRec] /\ KeyFits(k) /\ HeldAt(k) BY HeldFacts
<1>3. v.pc = pc /\ v.stage = stage OBVIOUS
<1> HIDE DEF v
<1>4. /\ Run(k)' = v /\ Enhance(k)' = Enhance(k)
      /\ \A j \in Keys \ {k} : Run(j)' = Run(j) /\ Enhance(j)' = Enhance(j)
  BY <1>1, <1>2, RunMotion
<1>5. Running(jobRow[k]) BY <1>2 DEF KeyFits, RunFits
<1>6. HeldAt(k)'
  <2>1. Attended(k)' BY <1>1, <1>3, <1>4, <1>5 DEF Attended, Running, Completed
  <2>2. CopiesSound(k)' BY <1>1, <1>2, <1>4 DEF HeldAt, CopiesSound, RowSettles, Sound, Completed, Fetched
  <2>3. RunAsks(k)' BY <1>1, <1>3, <1>4 DEF RunAsks
  <2>4. RunEnds(k)' BY <1>1, <1>2, <1>3, <1>4 DEF HeldAt, RunEnds, Running
  <2>5. EnhanceSettles(k)' BY <1>1, <1>2, <1>4 DEF HeldAt, EnhanceSettles, Completed, Fetched
  <2> QED BY <2>1, <2>2, <2>3, <2>4, <2>5 DEF HeldAt
<1>7. RowSettles(k) => RowSettles(k)' BY <1>1, <1>4 DEF RowSettles, Fetched
<1> QED BY <1>1, <1>4, <1>6, <1>7, OneKeyHeld

LEMMA RunStepHeld ==
  ASSUME Held, refused = 0, IngestInv', InPlaces', NEW k \in Keys,
         Advance(k) \/ FailJob(k) \/ BeginIngestScan(k) \/ EndIngestScan(k)
  PROVE  Held'
<1>0. HeldAt(k) /\ InPlace(<<"run", k>>, Run(k), cache[k]) BY HeldFacts
<1>1. CASE Advance(k)
  <2> DEFINE stage == After(k, Run(k).stage)
  <2>1. Run(k).pc = "work" /\ Run(k).stage # "completed" /\ Goes(k, "read", stage)
    BY <1>1 DEF Advance, Is, Works, Run
  <2>2. stage \in LateStages \ {"media"} => Run(k).stage \in LateStages
    BY <1>0, <2>1, AfterLate DEF InPlace
  <2> HIDE DEF stage
  <2>3. stage \in LateStages \ {"media"} => cache[k].subtitles # "none"
    BY <1>0, <2>1, <2>2 DEF HeldAt, RunAsks
  <2> QED BY <2>1, <2>3, GoesHeld
<1>2. CASE FailJob(k)
  <2>1. Run(k).pc = "work" /\ Run(k).stage # "completed" /\ Goes(k, "read", "failed")
    BY <1>2 DEF FailJob, Works, Is, MayFail, Run
  <2> QED BY <2>1, GoesHeld DEF LateStages
<1>3. CASE BeginIngestScan(k)
  <2>1. /\ Run(k).pc = "work" /\ Run(k).stage # "completed"
        /\ Goes(k, "scan", "scan") \/ Goes(k, "read", "failed")
    BY <1>3 DEF BeginIngestScan, Works, Is, Run
  <2> QED BY <2>1, GoesHeld DEF LateStages
<1>4. CASE EndIngestScan(k)
  <2>1. Run(k).pc = "scan" /\ (Goes(k, "read", "scanned") \/ Goes(k, "read", "failed"))
    BY <1>4 DEF EndIngestScan, Is, Run
  <2> QED BY <2>1, GoesHeld DEF LateStages
<1> QED BY <1>1, <1>2, <1>3, <1>4

(* The subtitles' goroutine goes from one step to the next. *)
LEMMA EnhanceHeld ==
  ASSUME Held, refused = 0, IngestInv', InPlaces', NEW k \in Keys, EnhanceStep(k)
  PROVE  Held'
<1>0. thread \in [Goroutines -> ThreadRec] /\ KeyFits(k) /\ HeldAt(k) BY HeldFacts
<1> DEFINE v == IF Enhance(k).pc = "look" /\ ~WantsSubtitles(cache[k])
                THEN [pc |-> "return", stage |-> "none", job |-> NoRecord]
                ELSE [pc |-> "read", stage |-> IF Enhance(k).pc = "look" THEN "fetching" ELSE "fetched",
                      job |-> NoRecord]
<1>1. /\ thread' = [thread EXCEPT ![<<"enhance", k>>] = v]
      /\ UNCHANGED <<jobRow, cache, caller, recovery, found>>
      /\ Enhance(k).pc \in {"look", "work"}
      /\ \/ v.pc = "read"
         \/ Enhance(k).pc = "look" /\ v.pc = "return" /\ ~WantsSubtitles(cache[k])
  <2>1. CASE LookAtSubtitles(k) BY <2>1 DEF LookAtSubtitles, Moved, Is, Enhance
  <2>2. CASE FetchSubtitles(k) BY <2>2 DEF FetchSubtitles, Moved, Is, Enhance
  <2> QED BY <2>1, <2>2 DEF EnhanceStep
<1> HIDE DEF v
<1>2. /\ Enhance(k)' = v /\ Run(k)' = Run(k)
      /\ \A j \in Keys \ {k} : Run(j)' = Run(j) /\ Enhance(j)' = Enhance(j)
  BY <1>0, <1>1, EnhanceMotion
<1>3. Completed(jobRow[k]) /\ Completed(cache[k]) /\ cache[k] \in Record
  <2>1. Completed(jobRow[k]) /\ Completed(cache[k])
    BY <1>0, <1>1 DEF KeyFits, EnhanceFits, HeldAt, EnhanceSettles
  <2> QED BY <2>1, HeldFacts DEF Completed
<1>4. CASE v.pc = "read"
  <2>1. RowSettles(k) => RowSettles(k)' BY <1>1, <1>2, <1>4 DEF RowSettles, Fetched
  <2>2. HeldAt(k)'
    <3>1. Attended(k)' BY <1>1, <1>2, <1>3, <1>4 DEF Attended, Running, Completed
    <3>2. CopiesSound(k)'
      BY <1>0, <1>1, <1>2, <1>4 DEF HeldAt, CopiesSound, RowSettles, Sound, Completed, Fetched
    <3>3. RunAsks(k)' BY <1>0, <1>1, <1>2 DEF HeldAt, RunAsks, Fetched
    <3>4. RunEnds(k)' BY <1>0, <1>1, <1>2, <1>3 DEF HeldAt, RunEnds, Running, Completed
    <3>5. EnhanceSettles(k)' BY <1>2, <1>4 DEF EnhanceSettles
    <3> QED BY <3>1, <3>2, <3>3, <3>4, <3>5 DEF HeldAt
  <2> QED BY <1>1, <1>2, <2>1, <2>2, OneKeyHeld
<1>5. CASE Enhance(k).pc = "look" /\ v.pc = "return" /\ ~WantsSubtitles(cache[k])
  <2>1. cache[k].subtitles = "settled"
    BY <1>0, <1>3, <1>5 DEF HeldAt, CopiesSound, Sound, Completed, WantsSubtitles, Record
  <2>2. Fetched(jobRow[k]) BY <1>0, <1>3, <1>5, <2>1 DEF HeldAt, CopiesSound, RowSettles, Fetched, Completed
  <2>3. RowSettles(k)' BY <1>1, <2>2 DEF RowSettles, Fetched
  <2>4. HeldAt(k)'
    <3>1. Attended(k)' BY <1>1, <1>3, <2>2 DEF Attended, Running, Completed, Fetched
    <3>2. CopiesSound(k)'
      BY <1>0, <1>1, <2>3 DEF HeldAt, CopiesSound, Sound, Completed, Fetched
    <3>3. RunAsks(k)' BY <1>0, <1>1, <1>2 DEF HeldAt, RunAsks, Fetched
    <3>4. RunEnds(k)' BY <1>0, <1>1, <1>2, <1>3 DEF HeldAt, RunEnds, Running, Completed
    <3>5. EnhanceSettles(k)' BY <1>1, <1>2, <1>5, <2>2 DEF EnhanceSettles, Fetched
    <3> QED BY <3>1, <3>2, <3>3, <3>4, <3>5 DEF HeldAt
  <2> QED BY <1>1, <1>2, <2>3, <2>4, OneKeyHeld
<1> QED BY <1>1, <1>4, <1>5

(* run hands the completed job over to the subtitles' goroutine. *)
LEMMA CompleteHeld ==
  ASSUME Held, refused = 0, IngestInv', InPlaces', NEW k \in Keys, CompleteJob(k)
  PROVE  Held'
<1> DEFINE r == <<"run", k>>  e == <<"enhance", k>>  t == Scheduled(e)
           v == [pc |-> "return", stage |-> "none", job |-> NoRecord]
           w == [pc |-> "look", stage |-> "none", job |-> NoRecord]
<1>0. thread \in [Goroutines -> ThreadRec] /\ KeyFits(k) /\ HeldAt(k) BY HeldFacts
<1>1. /\ Run(k).pc = "work" /\ Run(k).stage = "completed"
      /\ UNCHANGED <<jobRow, cache, caller, recovery, found>> /\ thread' = [t EXCEPT ![r] = v]
  BY DEF CompleteJob, Works, Is, Run
<1>2. t = IF Enhance(k).pc = "off" THEN [thread EXCEPT ![e] = w] ELSE thread
  BY DEF Scheduled, Is, Moved, Enhance
<1>3. v.pc = "return" /\ w.pc = "look" OBVIOUS
<1>4. /\ r \in Goroutines /\ e \in Goroutines /\ r # e
      /\ \A j \in Keys \ {k} : /\ <<"run", j>> \notin {r, e} /\ <<"enhance", j>> \notin {r, e}
                              /\ <<"run", j>> \in Goroutines /\ <<"enhance", j>> \in Goroutines
  BY Pairs DEF Goroutines
<1> HIDE DEF v, w, t, r, e
<1>5. /\ thread'[r] = v /\ thread'[e] = IF Enhance(k).pc = "off" THEN w ELSE thread[e]
      /\ \A h \in Goroutines \ {r, e} : thread'[h] = thread[h]
  <2>1. CASE Enhance(k).pc = "off" BY <1>0, <1>1, <1>2, <1>4, <2>1
  <2>2. CASE Enhance(k).pc # "off" BY <1>0, <1>1, <1>2, <1>4, <2>2
  <2> QED BY <2>1, <2>2
<1>6. /\ Run(k)' = v /\ Enhance(k)' = IF Enhance(k).pc = "off" THEN w ELSE Enhance(k)
      /\ \A j \in Keys \ {k} : Run(j)' = Run(j) /\ Enhance(j)' = Enhance(j)
  BY <1>4, <1>5 DEF Run, Enhance, r, e
<1>7. Completed(jobRow[k]) /\ Completed(cache[k]) BY <1>0, <1>1 DEF HeldAt, RunEnds
<1>8. RowSettles(k) => RowSettles(k)' BY <1>1, <1>6 DEF RowSettles, Fetched
<1>9. HeldAt(k)'
  <2>1. Attended(k)'
    <3>1. ~Fetched(jobRow[k]) => Enhance(k)'.pc \notin {"off", "return"}
      BY <1>0, <1>3, <1>6 DEF HeldAt, EnhanceSettles
    <3> QED BY <1>1, <1>7, <3>1 DEF Attended, Running, Completed, Fetched
  <2>2. CopiesSound(k)' BY <1>0, <1>1, <1>8 DEF HeldAt, CopiesSound, Sound, Completed, Fetched
  <2>3. RunAsks(k)' BY <1>3, <1>6 DEF RunAsks
  <2>4. RunEnds(k)' BY <1>1, <1>3, <1>6, <1>7 DEF RunEnds, Running, Completed
  <2>5. EnhanceSettles(k)' BY <1>0, <1>1, <1>3, <1>6, <1>7 DEF HeldAt, EnhanceSettles, Completed, Fetched
  <2> QED BY <2>1, <2>2, <2>3, <2>4, <2>5 DEF HeldAt
<1> QED BY <1>1, <1>6, <1>8, <1>9, OneKeyHeld

(* Get reads a job for which there is no goroutine. *)
LEMMA LoadHeld ==
  ASSUME Held, refused = 0, IngestInv', InPlaces', NEW k \in Keys, LoadJob(k)
  PROVE  Held'
<1>1. /\ cache[k] = NoRecord /\ cache' = [cache EXCEPT ![k] = jobRow[k]]
      /\ UNCHANGED <<jobRow, thread, caller, recovery, found>>
  BY DEF LoadJob
<1>2. KeyFits(k) /\ HeldAt(k) /\ cache \in [Keys -> Record \union {NoRecord}] BY HeldFacts
<1>3. \A j \in Keys : Run(j)' = Run(j) /\ Enhance(j)' = Enhance(j) BY <1>1 DEF Run, Enhance
<1>4. Run(k).pc = "off" /\ Enhance(k).pc = "off" BY <1>1, <1>2 DEF KeyFits, RunFits, EnhanceFits
<1>5. cache'[k] = jobRow[k] /\ \A j \in Keys \ {k} : cache'[j] = cache[j] BY <1>1, <1>2
<1>6. HeldAt(k)'
  <2>1. Attended(k)' BY <1>1, <1>2, <1>3 DEF HeldAt, Attended, Running, Completed, Fetched
  <2>2. CopiesSound(k)'
    BY <1>1, <1>2, <1>3, <1>5 DEF HeldAt, CopiesSound, RowSettles, Sound, Completed, Fetched
  <2>3. RunAsks(k)' BY <1>3, <1>4 DEF RunAsks
  <2>4. RunEnds(k)' BY <1>3, <1>4 DEF RunEnds
  <2>5. EnhanceSettles(k)' BY <1>3, <1>4 DEF EnhanceSettles
  <2> QED BY <2>1, <2>2, <2>3, <2>4, <2>5 DEF HeldAt
<1>7. RowSettles(k) => RowSettles(k)' BY <1>1, <1>3 DEF RowSettles, Fetched
<1> QED BY <1>1, <1>3, <1>5, <1>6, <1>7, OneKeyHeld

(* What is refused may be forgotten. *)
LEMMA RefuseHeld ==
  ASSUME Held, IngestInv', InPlaces', NEW g \in Goroutines, RefuseJob(g)
  PROVE  Held'
<1>1. refused \in Nat /\ refused' = refused + 1
  BY IngestAssumption DEF RefuseJob, Held, InPlaces, IngestTypeOK
<1>2. refused' # 0 BY <1>1
<1> QED BY <1>2 DEF Held

-----------------------------------------------------------------------------
(* The steps of a request: it moves, and with it at most its job. *)
LEMMA OneCallHeld ==
  ASSUME Held, refused = 0, IngestInv', InPlaces', NEW k \in Keys, HeldAt(k)',
         NEW c \in Callers, CallerSound(c)', caller[c].key = k \/ caller[c].pc = "idle",
         \A d \in Callers \ {c} : caller'[d] = caller[d],
         RowSettles(k) => RowSettles(k)', UNCHANGED recovery,
         \A j \in Keys \ {k} : /\ jobRow'[j] = jobRow[j] /\ cache'[j] = cache[j] /\ found'[j] = found[j]
                              /\ Run(j)' = Run(j) /\ Enhance(j)' = Enhance(j)
  PROVE  Held'
<1>1. ASSUME NEW j \in Keys \ {k} PROVE HeldAt(j)'
  <2>1. \A d \in Callers : caller[d].key = j /\ caller[d].pc \in {"cache", "schedule"} =>
                             caller'[d].key = j /\ caller'[d].pc \in {"cache", "schedule"}
    OBVIOUS
  <2>2. HeldAt(j) BY DEF Held
  <2> QED BY <2>1, <2>2, HeldKept
<1>2. ASSUME NEW d \in Callers \ {c} PROVE CallerSound(d)'
  <2>1. CallerSound(d) /\ caller'[d] = caller[d] BY DEF Held
  <2>2. caller[d].pc = "cache" => caller[d].key \in Keys BY DEF Held, InPlaces, CallInPlace
  <2>3. \A j \in Keys : RowSettles(j) => RowSettles(j)' BY DEF RowSettles, Fetched
  <2> QED BY <2>1, <2>2, <2>3 DEF CallerSound, Sound, Completed, Fetched
<1> QED BY <1>1, <1>2 DEF Held

(* A request that only moves. *)
LEMMA CallHeld ==
  ASSUME Held, refused = 0, IngestInv', InPlaces', NEW k \in Keys,
         NEW c \in Callers, NEW w, caller' = [caller EXCEPT ![c] = w],
         UNCHANGED <<jobRow, cache, thread, recovery, found>>,
         caller[c].key = k \/ caller[c].pc = "idle", caller[c].pc \notin {"cache", "schedule"},
         w.pc = "cache" => w.key = k /\ w.job = jobRow[k]
  PROVE  Held'
<1>1. caller \in [Callers -> CallRec] BY TypesNamed DEF Held, InPlaces
<1>2. caller'[c] = w /\ \A d \in Callers \ {c} : caller'[d] = caller[d] BY <1>1
<1>3. \A j \in Keys : Run(j)' = Run(j) /\ Enhance(j)' = Enhance(j) BY DEF Run, Enhance
<1>4. HeldAt(k) BY HeldFacts
<1>5. \A d \in Callers : caller[d].key = k /\ caller[d].pc \in {"cache", "schedule"} =>
                           caller'[d].key = k /\ caller'[d].pc \in {"cache", "schedule"}
  BY <1>2
<1>6. HeldAt(k)' BY <1>3, <1>4, <1>5, HeldKept
<1>7. RowSettles(k) => RowSettles(k)' BY <1>3 DEF RowSettles, Fetched
<1>8. CallerSound(c)'
  <2>1. Sound(jobRow[k]) BY <1>4 DEF HeldAt, CopiesSound
  <2>2. w.pc = "cache" => Sound(w.job) /\ (Fetched(w.job) => RowSettles(k)') /\ w.key = k
    BY <2>1, <1>7 DEF RowSettles
  <2> QED BY <1>2, <2>2 DEF CallerSound, Sound, Completed, Fetched, RowSettles, Enhance
<1> QED BY <1>2, <1>3, <1>6, <1>7, <1>8, OneCallHeld

LEMMA StartHeld ==
  ASSUME Held, refused = 0, IngestInv', InPlaces', NEW c \in Callers, NEW k \in Keys, Start(c, k)
  PROVE  Held'
<1> DEFINE w == [pc |-> "find", key |-> k, job |-> NoRecord]
<1>1. /\ caller' = [caller EXCEPT ![c] = w] /\ caller[c].pc = "idle"
      /\ UNCHANGED <<jobRow, cache, thread, recovery, found>>
  BY DEF Start, NoCall
<1>2. w.pc = "find" OBVIOUS
<1> HIDE DEF w
<1> QED BY <1>1, <1>2, CallHeld

LEMMA FindHeld ==
  ASSUME Held, refused = 0, IngestInv', InPlaces', NEW c \in Callers, FindJob(c)
  PROVE  Held'
<1> DEFINE k == caller[c].key  job == jobRow[k]  pc == IF job = NoRecord THEN "create" ELSE "cache"
           w == [pc |-> pc, key |-> k, job |-> job]
<1>1. caller[c].pc = "find" /\ Call(c, pc, job) /\ UNCHANGED <<jobRow, cache, thread, recovery, found>>
  BY DEF FindJob
<1>2. caller' = [caller EXCEPT ![c] = w]
  <2>1. IngestInv BY DEF Held
  <2> QED BY <1>1, <2>1, CallIs, Zenon
<1>3. k \in Keys BY <1>1 DEF Held, InPlaces, CallInPlace
<1>4. w.key = k /\ w.job = jobRow[k] OBVIOUS
<1> HIDE DEF w
<1> QED BY <1>1, <1>2, <1>3, <1>4, CallHeld

LEMMA AbandonHeld ==
  ASSUME Held, refused = 0, IngestInv', InPlaces', NEW c \in Callers, Abandon(c)
  PROVE  Held'
<1>1. /\ caller[c].pc \in {"find", "create"} /\ caller' = [caller EXCEPT ![c] = NoCall]
      /\ UNCHANGED <<jobRow, cache, thread, recovery, found>> /\ NoCall.pc = "idle"
  BY DEF Abandon, NoCall
<1>2. caller[c].key \in Keys BY <1>1 DEF Held, InPlaces, CallInPlace
<1> QED BY <1>1, <1>2, CallHeld

LEMMA CreateHeld ==
  ASSUME Held, refused = 0, IngestInv', InPlaces', NEW c \in Callers, CreateJob(c)
  PROVE  Held'
<1>1. caller[c].pc = "create" /\ UNCHANGED <<cache, thread, recovery, found>> BY DEF CreateJob
<1>2. caller[c].key \in Keys BY <1>1 DEF Held, InPlaces, CallInPlace
<1> PICK k \in Keys : k = caller[c].key BY <1>2
<1> DEFINE w == [pc |-> "cache", key |-> k, job |-> NewRecord]
<1>3. IngestInv BY DEF Held
<1>4. jobRow[k] = NoRecord BY <1>1, <1>3 DEF IngestInv, CallerFits, NoCall
<1>5. jobRow' = [jobRow EXCEPT ![k] = NewRecord] /\ Call(c, "cache", NewRecord) BY <1>4 DEF CreateJob
<1>6. caller' = [caller EXCEPT ![c] = w] BY <1>3, <1>5, CallIs, Zenon
<1>7. w.pc = "cache" /\ w.key = k /\ w.job = NewRecord OBVIOUS
<1> HIDE DEF w
<1>8. caller'[c] = w /\ \A d \in Callers \ {c} : caller'[d] = caller[d]
  <2>1. caller \in [Callers -> CallRec] BY TypesNamed DEF Held, InPlaces
  <2> QED BY <1>6, <2>1
<1>9. /\ KeyFits(k) /\ HeldAt(k)
      /\ jobRow'[k] = NewRecord /\ \A j \in Keys \ {k} : jobRow'[j] = jobRow[j]
  BY <1>5, HeldFacts
<1>10. NewRecord.status = "running" /\ NewRecord.subtitles = "none" BY DEF NewRecord
<1>11. \A j \in Keys : Run(j)' = Run(j) /\ Enhance(j)' = Enhance(j) BY <1>1 DEF Run, Enhance
<1>12. cache[k] = NoRecord /\ Run(k).pc = "off" /\ Enhance(k).pc = "off"
  BY <1>4, <1>9 DEF KeyFits, CacheFits, RunFits, EnhanceFits
<1>13. ~RowSettles(k) BY <1>4, <1>12 DEF RowSettles, Fetched
<1>14. HeldAt(k)'
  <2>1. Attended(k)' BY <1>7, <1>8, <1>9, <1>10 DEF Attended, Completed
  <2>2. CopiesSound(k)'
    BY <1>1, <1>9, <1>10, <1>12 DEF HeldAt, CopiesSound, Sound, Completed, Fetched
  <2>3. RunAsks(k)' BY <1>11, <1>12 DEF RunAsks
  <2>4. RunEnds(k)' BY <1>11, <1>12 DEF RunEnds
  <2>5. EnhanceSettles(k)' BY <1>11, <1>12 DEF EnhanceSettles
  <2> QED BY <2>1, <2>2, <2>3, <2>4, <2>5 DEF HeldAt
<1>15. CallerSound(c)' BY <1>7, <1>8, <1>10 DEF CallerSound, Sound, Completed, Fetched
<1> QED BY <1>1, <1>8, <1>9, <1>11, <1>13, <1>14, <1>15, OneCallHeld

LEMMA CacheFoundHeld ==
  ASSUME Held, refused = 0, IngestInv', InPlaces', NEW c \in Callers, CacheFound(c)
  PROVE  Held'
<1>1. caller[c].pc = "cache" /\ UNCHANGED <<jobRow, thread, recovery, found>> BY DEF CacheFound
<1>2. caller[c].key \in Keys BY <1>1 DEF Held, InPlaces, CallInPlace
<1> PICK k \in Keys : k = caller[c].key BY <1>2
<1> DEFINE job == caller[c].job  w == [pc |-> "schedule", key |-> k, job |-> NoRecord]
<1>3. IngestInv BY DEF Held
<1>4. cache' = [cache EXCEPT ![k] = job]
      /\ caller' = IF Ended(job) THEN [caller EXCEPT ![c] = NoCall] ELSE [caller EXCEPT ![c] = w]
  <2>1. CASE Ended(job) BY <2>1 DEF CacheFound
  <2>2. CASE ~Ended(job)
    <3>1. Call(c, "schedule", NoRecord) BY <2>2 DEF CacheFound
    <3>2. caller' = [caller EXCEPT ![c] = w] BY <1>3, <3>1, CallIs, Zenon
    <3> QED BY <2>2, <3>2 DEF CacheFound
  <2> QED BY <2>1, <2>2
<1>5. /\ recovery = "up" /\ job \in Record /\ job # NoRecord
      /\ jobRow[k] # NoRecord /\ job.status = jobRow[k].status
      /\ Running(jobRow[k]) => Run(k).pc = "off"
  BY <1>1, <1>3, RecordAssumption DEF IngestInv, CallerFits, NoCall
<1>6. Sound(job) /\ (Fetched(job) => RowSettles(k)) BY <1>1 DEF Held, CallerSound
<1>7. w.pc = "schedule" /\ w.key = k /\ NoCall.pc = "idle" BY DEF NoCall
<1> HIDE DEF job, w
<1>8. /\ caller'[c] = (IF Ended(job) THEN NoCall ELSE w)
      /\ \A d \in Callers \ {c} : caller'[d] = caller[d]
  <2>1. caller \in [Callers -> CallRec] BY TypesNamed DEF Held, InPlaces
  <2> QED BY <1>4, <2>1
<1>9. /\ KeyFits(k) /\ HeldAt(k) /\ cache'[k] = job /\ \A j \in Keys \ {k} : cache'[j] = cache[j]
  BY <1>4, HeldFacts
<1>10. \A j \in Keys : Run(j)' = Run(j) /\ Enhance(j)' = Enhance(j) BY <1>1 DEF Run, Enhance
<1>11. RowSettles(k) => RowSettles(k)' BY <1>1, <1>10 DEF RowSettles, Fetched
<1>12. Run(k).pc # "read" /\ (Run(k).pc = "work" => Completed(jobRow[k]))
  BY <1>5, <1>9 DEF KeyFits, RunFits, HeldAt, RunEnds
<1>13. HeldAt(k)'
  <2>1. Attended(k)'
    <3>1. Running(jobRow[k]) => caller'[c] = w BY <1>5, <1>8 DEF Ended, Running
    <3> QED BY <1>1, <1>7, <1>9, <1>10, <3>1 DEF HeldAt, Attended, Running, Completed, Fetched
  <2>2. CopiesSound(k)' BY <1>1, <1>6, <1>9, <1>11 DEF HeldAt, CopiesSound, Sound, Completed, Fetched
  <2>3. RunAsks(k)' BY <1>5, <1>6, <1>9, <1>10, <1>12 DEF HeldAt, RunAsks, Sound, Completed, Fetched
  <2>4. RunEnds(k)' BY <1>1, <1>5, <1>9, <1>10 DEF HeldAt, RunEnds, Running, Completed
  <2>5. EnhanceSettles(k)' BY <1>1, <1>5, <1>9, <1>10 DEF HeldAt, EnhanceSettles, Completed, Fetched
  <2> QED BY <2>1, <2>2, <2>3, <2>4, <2>5 DEF HeldAt
<1>14. CallerSound(c)' BY <1>7, <1>8 DEF CallerSound
<1> QED BY <1>1, <1>8, <1>9, <1>10, <1>11, <1>13, <1>14, OneCallHeld

LEMMA ScheduleHeld ==
  ASSUME Held, refused = 0, IngestInv', InPlaces', NEW c \in Callers, ScheduleJob(c)
  PROVE  Held'
<1>1. /\ caller[c].pc = "schedule" /\ UNCHANGED <<jobRow, cache, recovery, found>>
      /\ caller' = [caller EXCEPT ![c] = NoCall] /\ thread' = Scheduled(<<"run", caller[c].key>>)
  BY DEF ScheduleJob
<1>2. caller[c].key \in Keys BY <1>1 DEF Held, InPlaces, CallInPlace
<1> PICK k \in Keys : k = caller[c].key BY <1>2
<1> DEFINE v == [pc |-> "work", stage |-> "start", job |-> NoRecord]
<1>3. IngestInv BY DEF Held
<1>4. Running(jobRow[k]) /\ Run(k).pc = "off" BY <1>1, <1>3 DEF IngestInv, CallerFits, NoCall
<1>5. thread' = [thread EXCEPT ![<<"run", k>>] = v] BY <1>1, <1>4 DEF Scheduled, Is, Moved, Run
<1>6. v.pc = "work" /\ v.stage = "start" /\ NoCall.pc = "idle" BY DEF NoCall
<1> HIDE DEF v
<1>7. HeldAt(k) /\ thread \in [Goroutines -> ThreadRec] BY HeldFacts
<1>8. /\ Run(k)' = v /\ Enhance(k)' = Enhance(k)
      /\ \A j \in Keys \ {k} : Run(j)' = Run(j) /\ Enhance(j)' = Enhance(j)
  BY <1>5, <1>7, RunMotion
<1>9. caller'[c] = NoCall /\ \A d \in Callers \ {c} : caller'[d] = caller[d]
  <2>1. caller \in [Callers -> CallRec] BY TypesNamed DEF Held, InPlaces
  <2> QED BY <1>1, <2>1
<1>10. HeldAt(k)'
  <2>1. Attended(k)' BY <1>1, <1>4, <1>6, <1>8 DEF Attended, Running, Completed
  <2>2. CopiesSound(k)'
    BY <1>1, <1>7, <1>8 DEF HeldAt, CopiesSound, RowSettles, Sound, Completed, Fetched
  <2>3. RunAsks(k)' BY <1>6, <1>8 DEF RunAsks, LateStages
  <2>4. RunEnds(k)' BY <1>1, <1>6, <1>7, <1>8 DEF HeldAt, RunEnds, Running
  <2>5. EnhanceSettles(k)' BY <1>1, <1>7, <1>8 DEF HeldAt, EnhanceSettles, Completed, Fetched
  <2> QED BY <2>1, <2>2, <2>3, <2>4, <2>5 DEF HeldAt
<1>11. RowSettles(k) => RowSettles(k)' BY <1>1, <1>8 DEF RowSettles, Fetched
<1>12. CallerSound(c)' BY <1>6, <1>9 DEF CallerSound
<1> QED BY <1>1, <1>8, <1>9, <1>10, <1>11, <1>12, OneCallHeld

-----------------------------------------------------------------------------
(* Crash and Recover *)

(* Steps that leave the requests alone and start nothing. *)
LEMMA AllKeysHeld ==
  ASSUME Held, refused = 0, IngestInv', InPlaces', UNCHANGED <<jobRow, thread, caller>>,
         \A k \in Keys : HeldAt(k)'
  PROVE  Held'
<1>1. ASSUME NEW c \in Callers PROVE CallerSound(c)'
  <2>1. CallerSound(c) BY DEF Held
  <2> QED BY <2>1 DEF CallerSound, RowSettles, Enhance, Sound, Completed, Fetched
<1> QED BY <1>1 DEF Held

LEMMA FindRunningHeld ==
  ASSUME Held, refused = 0, IngestInv', InPlaces', FindRunning
  PROVE  Held'
<1>1. recovery = "down" /\ recovery' = "running" /\ UNCHANGED <<jobRow, cache, thread, caller>>
  BY DEF FindRunning
<1>2. ASSUME NEW k \in Keys PROVE HeldAt(k)'
  <2>1. KeyFits(k) /\ HeldAt(k) BY HeldFacts
  <2>2. found'[k] = IF jobRow[k] # NoRecord /\ ~Ended(jobRow[k]) THEN jobRow[k] ELSE NoRecord
    BY DEF FindRunning
  <2>3. Run(k)' = Run(k) /\ Enhance(k)' = Enhance(k) BY <1>1 DEF Run, Enhance
  <2>4. Run(k).pc = "off" /\ Enhance(k).pc = "off" BY <1>1, <2>1 DEF KeyFits, FoundFits
  <2>5. Attended(k)' BY <1>1, <2>2 DEF Attended, Running, Ended
  <2>6. CopiesSound(k)'
    BY <1>1, <2>1, <2>2, <2>3 DEF HeldAt, CopiesSound, RowSettles, Sound, Completed, Fetched
  <2>7. RunAsks(k)' /\ RunEnds(k)' /\ EnhanceSettles(k)'
    BY <2>3, <2>4 DEF RunAsks, RunEnds, EnhanceSettles
  <2> QED BY <2>5, <2>6, <2>7 DEF HeldAt
<1> QED BY <1>1, <1>2, AllKeysHeld

LEMMA FindCompletedHeld ==
  ASSUME Held, refused = 0, IngestInv', InPlaces', FindCompleted
  PROVE  Held'
<1>1. /\ recovery = "running" /\ recovery' = "completed" /\ found = Nothing
      /\ UNCHANGED <<jobRow, cache, thread, caller>>
  BY DEF FindCompleted
<1>2. ASSUME NEW k \in Keys PROVE HeldAt(k)'
  <2>1. HeldAt(k) /\ jobRow[k] \in Record \union {NoRecord} BY HeldFacts
  <2>2. found'[k] = (IF jobRow[k] # NoRecord /\ WantsSubtitles(jobRow[k]) THEN jobRow[k] ELSE NoRecord)
        /\ found[k] = NoRecord
    BY <1>1 DEF FindCompleted, Nothing
  <2>3. Run(k)' = Run(k) /\ Enhance(k)' = Enhance(k) BY <1>1 DEF Run, Enhance
  <2>4. Completed(jobRow[k]) /\ ~Fetched(jobRow[k]) => found'[k] # NoRecord
    <3>1. Completed(jobRow[k]) /\ ~Fetched(jobRow[k]) => jobRow[k].subtitles \in {"pending", "running"}
      BY <2>1 DEF HeldAt, CopiesSound, Sound, Completed, Fetched, Record
    <3> QED BY <2>2, <3>1 DEF Completed, WantsSubtitles
  <2>5. Attended(k)'
    BY <1>1, <2>1, <2>2, <2>3, <2>4 DEF HeldAt, Attended, Running, Completed, Fetched
  <2>6. CopiesSound(k)'
    BY <1>1, <2>1, <2>2, <2>3
    DEF HeldAt, CopiesSound, RowSettles, Sound, Completed, Fetched, WantsSubtitles
  <2>7. RunAsks(k)' BY <1>1, <2>1, <2>3 DEF HeldAt, RunAsks, Fetched
  <2>8. RunEnds(k)' BY <1>1, <2>1, <2>3 DEF HeldAt, RunEnds, Running, Completed
  <2>9. EnhanceSettles(k)' BY <1>1, <2>1, <2>3 DEF HeldAt, EnhanceSettles, Completed, Fetched
  <2> QED BY <2>5, <2>6, <2>7, <2>8, <2>9 DEF HeldAt
<1> QED BY <1>1, <1>2, AllKeysHeld

LEMMA ServeHeld ==
  ASSUME Held, refused = 0, IngestInv', InPlaces', Serve
  PROVE  Held'
<1>1. /\ recovery = "completed" /\ recovery' = "up" /\ found = Nothing
      /\ UNCHANGED <<jobRow, cache, thread, caller, found>>
  BY DEF Serve
<1>2. ASSUME NEW k \in Keys PROVE HeldAt(k)'
  <2>1. HeldAt(k) BY HeldFacts
  <2>2. found[k] = NoRecord BY <1>1 DEF Nothing
  <2>3. Run(k)' = Run(k) /\ Enhance(k)' = Enhance(k) BY <1>1 DEF Run, Enhance
  <2>4. Attended(k)' BY <1>1, <2>1, <2>2, <2>3 DEF HeldAt, Attended, Running, Completed, Fetched
  <2>5. CopiesSound(k)'
    BY <1>1, <2>1, <2>2, <2>3 DEF HeldAt, CopiesSound, RowSettles, Sound, Completed, Fetched
  <2>6. RunAsks(k)' BY <1>1, <2>1, <2>3 DEF HeldAt, RunAsks, Fetched
  <2>7. RunEnds(k)' BY <1>1, <2>1, <2>3 DEF HeldAt, RunEnds, Running, Completed
  <2>8. EnhanceSettles(k)' BY <1>1, <2>1, <2>3 DEF HeldAt, EnhanceSettles, Completed, Fetched
  <2> QED BY <2>4, <2>5, <2>6, <2>7, <2>8 DEF HeldAt
<1> QED BY <1>1, <1>2, AllKeysHeld

LEMMA CrashHeld ==
  ASSUME Held, refused = 0, IngestInv', InPlaces', IngestCrash
  PROVE  Held'
<1>1. /\ recovery' = "down" /\ cache' = Nothing /\ found' = Nothing /\ UNCHANGED jobRow
      /\ thread' = [g \in Goroutines |-> Off] /\ caller' = [c \in Callers |-> NoCall]
      /\ Off.pc = "off" /\ NoCall.pc = "idle"
  BY DEF IngestCrash, Off, NoCall
<1>2. ASSUME NEW k \in Keys PROVE HeldAt(k)'
  <2>1. HeldAt(k) BY HeldFacts
  <2>2. cache'[k] = NoRecord /\ found'[k] = NoRecord BY <1>1 DEF Nothing
  <2>3. Run(k)'.pc = "off" /\ Enhance(k)'.pc = "off" BY <1>1, Pairs DEF Run, Enhance
  <2>4. Attended(k)' BY <1>1 DEF Attended
  <2>5. CopiesSound(k)' BY <1>1, <2>1, <2>2 DEF HeldAt, CopiesSound, Sound, Completed, Fetched
  <2>6. RunAsks(k)' /\ RunEnds(k)' /\ EnhanceSettles(k)' BY <2>3 DEF RunAsks, RunEnds, EnhanceSettles
  <2> QED BY <2>4, <2>5, <2>6 DEF HeldAt
<1>3. \A c \in Callers : CallerSound(c)' BY <1>1 DEF CallerSound
<1> QED BY <1>2, <1>3 DEF Held

LEMMA RecoverHeld ==
  ASSUME Held, refused = 0, IngestInv', InPlaces', NEW k \in Keys, RecoverJob(k)
  PROVE  Held'
<1>1. /\ found[k] # NoRecord /\ cache' = [cache EXCEPT ![k] = found[k]]
      /\ thread' = Scheduled(<<IF recovery = "running" THEN "run" ELSE "enhance", k>>)
      /\ found' = [found EXCEPT ![k] = NoRecord] /\ UNCHANGED <<jobRow, caller, recovery>>
  BY DEF RecoverJob
<1>2. KeyFits(k) /\ HeldAt(k) /\ thread \in [Goroutines -> ThreadRec] BY HeldFacts
<1>3. /\ cache'[k] = found[k] /\ found'[k] = NoRecord
      /\ \A j \in Keys \ {k} : cache'[j] = cache[j] /\ found'[j] = found[j]
  BY <1>1, HeldFacts
<1>4. Sound(found[k]) BY <1>2 DEF HeldAt, CopiesSound
<1>5. CASE recovery = "running"
  <2> DEFINE v == [pc |-> "work", stage |-> "start", job |-> NoRecord]
  <2>1. Running(found[k]) /\ Running(jobRow[k]) /\ Run(k).pc = "off"
    BY <1>1, <1>2, <1>5 DEF KeyFits, FoundFits
  <2>2. thread' = [thread EXCEPT ![<<"run", k>>] = v]
    BY <1>1, <1>5, <2>1 DEF Scheduled, Is, Moved, Run
  <2>3. v.pc = "work" /\ v.stage = "start" OBVIOUS
  <2> HIDE DEF v
  <2>4. /\ Run(k)' = v /\ Enhance(k)' = Enhance(k)
        /\ \A j \in Keys \ {k} : Run(j)' = Run(j) /\ Enhance(j)' = Enhance(j)
    BY <1>2, <2>2, RunMotion
  <2>5. Enhance(k).pc = "off" BY <1>2, <2>1 DEF HeldAt, RunEnds
  <2>6. RowSettles(k) => RowSettles(k)' BY <1>1, <2>4 DEF RowSettles, Fetched
  <2>7. HeldAt(k)'
    <3>1. Attended(k)' BY <1>1, <2>1, <2>3, <2>4 DEF Attended, Running, Completed
    <3>2. ~Fetched(found[k]) BY <1>4, <2>1 DEF Sound, Running
    <3>3. CopiesSound(k)'
      BY <1>1, <1>2, <1>3, <1>4, <3>2 DEF HeldAt, CopiesSound, Sound, Completed, Fetched
    <3>4. RunAsks(k)' BY <2>3, <2>4 DEF RunAsks, LateStages
    <3>5. RunEnds(k)' BY <2>3, <2>4, <2>5 DEF RunEnds
    <3>6. EnhanceSettles(k)' BY <2>4, <2>5 DEF EnhanceSettles
    <3> QED BY <3>1, <3>3, <3>4, <3>5, <3>6 DEF HeldAt
  <2> QED BY <1>1, <1>3, <2>4, <2>6, <2>7, OneKeyHeld
<1>6. CASE recovery # "running"
  <2> DEFINE v == IF Enhance(k).pc = "off" THEN [pc |-> "look", stage |-> "none", job |-> NoRecord]
                                           ELSE Enhance(k)
  <2>1. Completed(found[k]) /\ Completed(jobRow[k]) /\ recovery = "completed"
    BY <1>1, <1>2, <1>6 DEF KeyFits, FoundFits
  <2>2. thread' = [thread EXCEPT ![<<"enhance", k>>] = v]
    <3>1. thread' = Scheduled(<<"enhance", k>>) BY <1>1, <1>6
    <3>2. CASE Enhance(k).pc = "off" BY <3>1, <3>2 DEF Scheduled, Is, Moved, Enhance
    <3>3. CASE Enhance(k).pc # "off" BY <1>2, <3>1, <3>3, Pairs DEF Scheduled, Is, Enhance
    <3> QED BY <3>2, <3>3
  <2>3. \/ v = Enhance(k) /\ v.pc # "off"
        \/ Enhance(k).pc = "off" /\ v.pc = "look"
    OBVIOUS
  <2> HIDE DEF v
  <2>4. /\ Enhance(k)' = v /\ Run(k)' = Run(k)
        /\ \A j \in Keys \ {k} : Run(j)' = Run(j) /\ Enhance(j)' = Enhance(j)
    BY <1>2, <2>2, EnhanceMotion
  <2>5. ~Fetched(found[k]) BY <1>1, <1>2, <2>1 DEF HeldAt, CopiesSound
  <2>6. RowSettles(k) => RowSettles(k)' BY <1>1, <2>3, <2>4 DEF RowSettles, Fetched
  <2>7. HeldAt(k)'
    <3>1. Attended(k)'
      <4>1. ~Fetched(jobRow[k]) => v.pc \notin {"off", "return"}
        BY <1>2, <2>3 DEF HeldAt, EnhanceSettles
      <4> QED BY <1>1, <2>1, <2>4, <4>1 DEF Attended, Running, Completed, Fetched
    <3>2. CopiesSound(k)'
      BY <1>1, <1>2, <1>3, <1>4, <2>5 DEF HeldAt, CopiesSound, Sound, Completed, Fetched
    <3>3. RunAsks(k)' BY <1>2, <1>3, <1>4, <2>1, <2>4 DEF HeldAt, RunAsks, Sound, Fetched
    <3>4. RunEnds(k)' BY <1>1, <1>2, <1>3, <2>1, <2>4 DEF HeldAt, RunEnds, Running, Completed
    <3>5. EnhanceSettles(k)'
      BY <1>1, <1>2, <1>3, <2>1, <2>3, <2>4 DEF HeldAt, EnhanceSettles, Completed, Fetched
    <3> QED BY <3>1, <3>2, <3>3, <3>4, <3>5 DEF HeldAt
  <2> QED BY <1>1, <1>3, <2>4, <2>6, <2>7, OneKeyHeld
<1> QED BY <1>5, <1>6

LEMMA InitHeld == IngestInit => Held
<1> SUFFICES ASSUME IngestInit PROVE Held OBVIOUS
<1>1. IngestInv /\ InPlaces BY InitIngestInv, InitPlaces
<1>2. ASSUME NEW k \in Keys PROVE HeldAt(k)
  <2>1. /\ jobRow[k] = NoRecord /\ cache[k] = NoRecord /\ found[k] = NoRecord
        /\ Run(k).pc = "off" /\ Enhance(k).pc = "off"
    BY Pairs DEF IngestInit, Nothing, Off, Run, Enhance
  <2> QED BY <2>1 DEF HeldAt, Attended, CopiesSound, RowSettles, Sound, RunAsks, RunEnds, EnhanceSettles,
                      Running, Completed, Fetched
<1>3. ASSUME NEW c \in Callers PROVE CallerSound(c) BY DEF IngestInit, NoCall, CallerSound
<1> QED BY <1>1, <1>2, <1>3 DEF Held

LEMMA NextHeld ==
  ASSUME ~Repeats
  PROVE  Held /\ [IngestNext]_IngestVars => Held'
<1> SUFFICES ASSUME Held, [IngestNext]_IngestVars PROVE Held' OBVIOUS
<1>1. IngestInv' BY IngestStep, IngestStutters DEF Held
<1>2. InPlaces' BY NextPlaces DEF Held
<1>3. CASE refused # 0
  <2>1. refused \in Nat BY IngestAssumption DEF Held, InPlaces, IngestTypeOK
  <2>2. refused' = refused \/ refused' = refused + 1
    BY DEF IngestNext, Updates, ReadJob, PersistJob, RefuseJob, StoreJob, Return, RunStep, Advance,
           FailJob, BeginIngestScan, EndIngestScan, Goes, CompleteJob, EnhanceStep, LookAtSubtitles,
           FetchSubtitles, LoadJob, Start, StartStep, FindJob, CreateJob, CacheFound, ScheduleJob,
           Abandon, RecoverStep, FindRunning, FindCompleted, Serve, RecoverJob, IngestCrash, IngestVars
  <2>3. refused' # 0 BY <1>3, <2>1, <2>2
  <2> QED BY <1>1, <1>2, <2>3 DEF Held
<1>4. CASE refused = 0
  <2>1. ASSUME NEW g \in Goroutines, Updates(g) PROVE Held'
    BY <1>1, <1>2, <1>4, <2>1, ReadHeld, PersistHeld, RefuseHeld, StoreHeld, ReturnHeld DEF Updates
  <2>2. ASSUME NEW k \in Keys, RunStep(k) PROVE Held'
    BY <1>1, <1>2, <1>4, <2>2, RunStepHeld, CompleteHeld DEF RunStep
  <2>3. ASSUME NEW k \in Keys, EnhanceStep(k) \/ LoadJob(k) PROVE Held'
    BY <1>1, <1>2, <1>4, <2>3, EnhanceHeld, LoadHeld
  <2>4. ASSUME NEW c \in Callers, StartStep(c) \/ \E k \in Keys : Start(c, k) PROVE Held'
    BY <1>1, <1>2, <1>4, <2>4, StartHeld, FindHeld, CreateHeld, CacheFoundHeld, ScheduleHeld, AbandonHeld
    DEF StartStep
  <2>5. CASE RecoverStep
    BY <1>1, <1>2, <1>4, <2>5, FindRunningHeld, FindCompletedHeld, ServeHeld, RecoverHeld DEF RecoverStep
  <2>6. CASE IngestCrash BY <1>1, <1>2, <1>4, <2>6, CrashHeld
  <2>7. CASE UNCHANGED IngestVars
    <3>1. UNCHANGED <<jobRow, cache, thread, caller, recovery, found>> BY <2>7 DEF IngestVars
    <3>2. \A k \in Keys : HeldAt(k)' BY <1>4, <3>1, HeldKept DEF Held, Run, Enhance
    <3> QED BY <1>1, <1>2, <1>4, <3>1, <3>2, AllKeysHeld
  <2> QED BY <2>1, <2>2, <2>3, <2>4, <2>5, <2>6, <2>7 DEF IngestNext
<1> QED BY <1>3, <1>4

(* Until the database refuses a write: a job that is stored as running has *)
(* its goroutine at work, or the request that is about to schedule it, or  *)
(* Recover, which has found it or is yet to look; a completed job whose    *)
(* subtitles have not settled has run or the goroutine of the subtitles at *)
(* work, or Recover.  Whatever fails and wherever the program dies.        *)
THEOREM NoJobForgotten ==
  ASSUME ~Repeats
  PROVE  IngestSpec => []NoneForgotten
<1>1. Held => NoneForgotten BY DEF Held, HeldAt, NoneForgotten
<1>2. Held /\ [IngestNext]_IngestVars => Held' BY NextHeld
<1> QED BY <1>1, <1>2, InitHeld, PTL DEF IngestSpec

AtRest == /\ recovery = "up" /\ \A g \in Goroutines : thread[g].pc = "off"
          /\ \A c \in Callers : caller[c].pc = "idle"
AtItsEnd(k) ==
  \/ jobRow[k] = NoRecord
  \/ Ended(jobRow[k]) /\ (Completed(jobRow[k]) => jobRow[k].subtitles = "settled")

(* So nothing is left undone: when no goroutine runs, no request is under  *)
(* way and Recover is over, every job that was accepted has ended, and the *)
(* subtitles of each completed one have settled.                           *)
THEOREM RestIsTheEnd ==
  ASSUME ~Repeats
  PROVE  IngestSpec => [](refused = 0 /\ AtRest => \A k \in Keys : AtItsEnd(k))
<1>1. Held => (refused = 0 /\ AtRest => \A k \in Keys : AtItsEnd(k))
  <2> SUFFICES ASSUME Held, refused = 0, AtRest, NEW k \in Keys PROVE AtItsEnd(k) OBVIOUS
  <2>1. KeyFits(k) /\ HeldAt(k) /\ jobRow[k] \in Record \union {NoRecord} BY HeldFacts
  <2>2. Run(k).pc = "off" /\ Enhance(k).pc = "off" BY Pairs DEF AtRest, Run, Enhance
  <2>3. found[k] = NoRecord BY <2>1 DEF AtRest, KeyFits, FoundFits
  <2>4. ~Running(jobRow[k]) BY <2>1, <2>2 DEF HeldAt, Attended, AtRest
  <2>5. Completed(jobRow[k]) => Fetched(jobRow[k])
    BY <2>1, <2>2, <2>3 DEF HeldAt, Attended, AtRest
  <2> QED BY <2>4, <2>5 DEF AtItsEnd, Ended, Running, Fetched
<1>2. Held /\ [IngestNext]_IngestVars => Held' BY NextHeld
<1> QED BY <1>1, <1>2, InitHeld, PTL DEF IngestSpec
=============================================================================
