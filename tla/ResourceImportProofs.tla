----------------------- MODULE ResourceImportProofs -------------------------
EXTENDS ResourceImport, TLAPS

(* What holds of the threads beyond their types: a call is about some job,  *)
(* and what it is about to apply is an answer.                             *)
GoodThread(v) ==
  /\ v \in ThreadState
  /\ v.pc # "idle" => v.job \in Jobs
  /\ v.pc \in {"store", "apply", "resume"} => v.reply.st # "none"

Good(f) == f \in [Threads -> ThreadState] /\ \A t \in Threads : GoodThread(f[t])

LEMMA IdleType == Idle \in ThreadState
BY DEF Idle, ThreadState, NoReply, Reply, Pc, PipeStatus, FinalStatus

LEMMA GoodUpdate ==
  ASSUME NEW f, Good(f), NEW t \in Threads, NEW v, GoodThread(v)
  PROVE  Good([f EXCEPT ![t] = v])
BY DEF Good, GoodThread

LEMMA GotoGood ==
  ASSUME NEW f, Good(f), NEW t \in Threads, f[t].job \in Jobs, NEW pc \in Pc,
         pc \notin {"store", "apply", "resume"}
  PROVE  /\ Good(Goto(f, t, pc))
         /\ Goto(f, t, pc)[t].job = f[t].job
<1> DEFINE v == [Idle EXCEPT !.pc = pc, !.job = f[t].job, !.nested = f[t].nested,
                             !.sched = f[t].sched]
<1>1. f[t] \in ThreadState
  BY DEF Good
<1>2. GoodThread(v) /\ v.job = f[t].job
  BY <1>1, IdleType DEF ThreadState, GoodThread, Idle
<1>3. Good([f EXCEPT ![t] = v])
  <2> HIDE DEF v
  <2> QED BY <1>2, GoodUpdate
<1> QED BY <1>2, <1>3 DEF Goto, Good

LEMMA ScheduleGood ==
  ASSUME NEW f, Good(f), NEW k \in Jobs \cup {NoJob}
  PROVE  Good(Schedule(f, k))
<1> DEFINE v == [Idle EXCEPT !.pc = "poll", !.job = k]
<1>1. CASE k # NoJob
  <2>1. k \in Jobs /\ k \in Threads
    BY <1>1 DEF Threads
  <2>2. GoodThread(v)
    BY <2>1, IdleType DEF GoodThread, ThreadState, Pc, Idle
  <2>3. Good([f EXCEPT ![k] = v])
    <3> HIDE DEF v
    <3> QED BY <2>1, <2>2, GoodUpdate
  <2> QED BY <2>3 DEF Schedule
<1>2. CASE k = NoJob
  BY <1>2 DEF Schedule
<1> QED BY <1>1, <1>2

LEMMA FinishGood ==
  ASSUME NEW f, Good(f), NEW t \in Threads
  PROVE  Good(Finish(f, t))
<1>1. CASE t \in Jobs
  <2> DEFINE v == [Idle EXCEPT !.pc = "poll", !.job = t]
  <2>1. GoodThread(v)
    BY <1>1, IdleType DEF GoodThread, ThreadState, Pc, Idle
  <2>2. Good([f EXCEPT ![t] = v])
    <3> HIDE DEF v
    <3> QED BY <2>1, GoodUpdate
  <2> QED BY <1>1, <2>2 DEF Finish
<1>2. CASE t \notin Jobs
  <2>1. Good([f EXCEPT ![t] = Idle])
    <3>1. GoodThread(Idle)
      BY IdleType DEF Idle, GoodThread
    <3> QED BY <3>1, GoodUpdate
  <2>2. f[t].sched \in Jobs \cup {NoJob}
    BY DEF Good, ThreadState
  <2> QED BY <1>2, <2>1, <2>2, ScheduleGood DEF Finish
<1> QED BY <1>1, <1>2

LEMMA RefusedGood ==
  ASSUME NEW f, Good(f), NEW t \in Threads, f[t].job \in Jobs
  PROVE  Good(Refused(f, t))
<1>1. "stop" \in Pc
  BY DEF Pc
<1> QED BY <1>1, GotoGood, FinishGood DEF Refused

LEMMA LoadRetryGood ==
  ASSUME NEW f, Good(f), NEW t \in Threads, NEW j \in Jobs, TypeOK
  PROVE  Good(LoadRetry(f, t, j))
<1> DEFINE pc == IF j \in Follow THEN "reserve" ELSE "retry"
           v  == [f[t] EXCEPT !.pc = pc, !.job = j, !.att = row[j].att, !.canc = FALSE,
                              !.reply = NoReply]
<1>1. f[t] \in ThreadState
  BY DEF Good
<1>2. NoReply \in Reply
  BY DEF NoReply, Reply, PipeStatus
<1>3. row[j].att \in Nat
  BY DEF TypeOK, RowState
<1>4. pc \in Pc \ {"store", "apply", "resume"}
  BY DEF Pc
<1>5. GoodThread(v)
  <2> HIDE DEF pc
  <2> QED BY <1>1, <1>2, <1>3, <1>4 DEF ThreadState, GoodThread
<1>6. Good([f EXCEPT ![t] = v])
  <2> HIDE DEF v
  <2> QED BY <1>5, GoodUpdate
<1>7. LoadRetry(f, t, j) = [f EXCEPT ![t] = v]
  BY DEF LoadRetry, Good
<1> QED BY <1>6, <1>7

LEMMA AfterApplyGood ==
  ASSUME NEW f, Good(f), NEW t \in Threads, f[t].job \in Jobs, NEW q, NEW att
  PROVE  Good(AfterApply(f, t, q, att))
<1> DEFINE g == [f EXCEPT ![t].nested = TRUE]
<1>1. Good(g) /\ g[t].job \in Jobs
  BY ZenonT(60) DEF Good, GoodThread, ThreadState
<1>2. Good(Goto(g, t, "pick")) /\ Good(Goto(g, t, "reload")) /\ Good(Goto(f, t, "stop"))
  <2> HIDE DEF g
  <2> QED BY <1>1, GotoGood DEF Pc
<1>3. Good(Finish(f, t))
  BY FinishGood
<1> QED BY <1>2, <1>3 DEF AfterApply

LEMMA PipeTypes ==
  ASSUME NEW p \in [st : PipeStatus, canc : BOOLEAN]
  PROVE  /\ AfterCreate(p) \in [st : PipeStatus, canc : BOOLEAN]
         /\ AfterCancel(p) \in [st : PipeStatus, canc : BOOLEAN]
         /\ AfterRetry \in [st : PipeStatus, canc : BOOLEAN]
         /\ \A q \in Replies(p) : q \in Reply /\ q.st # "none"
BY DEF AfterCreate, AfterCancel, AfterRetry, Replies, Reply, PipeStatus, FinalStatus

LEMMA StateTypes ==
  ASSUME NEW s \in PipeStatus \cup {"invalid"}, s # "none"
  PROVE  MapState(s) \in Status /\ ApplyState(s) \in Status
<1>1. CASE s \in {"blocked", "hollow", "invalid"}
  BY <1>1 DEF MapState, ApplyState, Status, FinalStatus
<1>2. CASE s \notin {"blocked", "hollow", "invalid"}
  <2>1. MapState(s) = s
    BY <1>2 DEF MapState
  <2>2. s \in Status
    BY <1>2 DEF PipeStatus, Status, FinalStatus
  <2> QED BY <1>2, <2>1, <2>2 DEF ApplyState
<1> QED BY <1>1, <1>2

(* What every step must keep, and what it may do to the reservations: it   *)
(* changes those of one job at most, and sets one only on a free season.   *)
Typed == TypeOK /\ Good(th)

ResStep ==
  \/ \A k \in Jobs : row'[k].res = row[k].res
  \/ \E j \in Jobs : /\ \A k \in Jobs \ {j} : row'[k].res = row[k].res
                     /\ row'[j].res => row[j].res \/ SeasonFree(j)

LEMMA StillTyped ==
  ASSUME Typed, Good(th)', row' \in [Jobs -> RowState],
         pipe' \in [Jobs -> [st : PipeStatus, canc : BOOLEAN]],
         UNCHANGED <<sub, up, todo, crashes>>
  PROVE  Typed'
BY DEF Typed, TypeOK, Good

LEMMA RowKept ==
  ASSUME Typed, UNCHANGED row
  PROVE  row' \in [Jobs -> RowState] /\ ResStep
BY DEF Typed, TypeOK, ResStep

LEMMA PipeKept ==
  ASSUME Typed, UNCHANGED pipe
  PROVE  pipe' \in [Jobs -> [st : PipeStatus, canc : BOOLEAN]]
BY DEF Typed, TypeOK

LEMMA RowUpdate ==
  ASSUME Typed, NEW j \in Jobs, NEW w \in RowState, w.res => row[j].res \/ SeasonFree(j),
         row' = [row EXCEPT ![j] = w]
  PROVE  row' \in [Jobs -> RowState] /\ ResStep
BY DEF Typed, TypeOK, ResStep

LEMMA InsertStep ==
  ASSUME Typed, NEW t \in Threads, Insert(t)
  PROVE  Typed' /\ ResStep
<1> DEFINE j == th[t].job
<1>1. j \in Jobs
  BY DEF Typed, Good, GoodThread, Insert
<1>2. Good(Finish(th, t))
  BY FinishGood DEF Typed
<1>3. Good([th EXCEPT ![t].pc = "create"])
  BY <1>1 DEF Typed, Good, GoodThread, ThreadState, Pc
<1>4. Good(th)'
  BY <1>2, <1>3 DEF Insert
<1>5. CASE UNCHANGED row
  BY <1>4, <1>5, RowKept, PipeKept, StillTyped DEF Insert
<1>6. CASE ~UNCHANGED row
  <2> DEFINE w == [st |-> "queued", pid |-> FALSE, res |-> TRUE, canc |-> FALSE, att |-> 1]
  <2>1. row' = [row EXCEPT ![j] = w] /\ SeasonFree(j)
    BY <1>6 DEF Insert
  <2>2. w \in RowState
    BY DEF RowState, Status
  <2>3. row' \in [Jobs -> RowState] /\ ResStep
    <3> HIDE DEF w
    <3> QED BY <1>1, <2>1, <2>2, RowUpdate
  <2> QED BY <1>4, <2>3, PipeKept, StillTyped DEF Insert
<1> QED BY <1>5, <1>6

LEMMA CallCreateStep ==
  ASSUME Typed, NEW t \in Threads, CallCreate(t)
  PROVE  Typed' /\ ResStep
<1> DEFINE j == th[t].job
<1>1. j \in Jobs
  BY DEF Typed, Good, GoodThread, CallCreate
<1>2. /\ AfterCreate(pipe[j]) \in [st : PipeStatus, canc : BOOLEAN]
      /\ \A q \in Replies(AfterCreate(pipe[j])) : q \in Reply /\ q.st # "none"
  BY <1>1, PipeTypes DEF Typed, TypeOK
<1>3. pipe' \in [Jobs -> [st : PipeStatus, canc : BOOLEAN]]
  BY <1>1, <1>2 DEF CallCreate, Typed, TypeOK
<1>4. /\ Good([th EXCEPT ![t].pc = "fail"])
      /\ Good([th EXCEPT ![t].pc = "reject"])
  BY <1>1 DEF Typed, Good, GoodThread, ThreadState, Pc
<1>5. Good([th EXCEPT ![t].pc = "fail", ![t].reply.st = "blocked"])
  <2> DEFINE v == [th[t] EXCEPT !.pc = "fail", !.reply = [th[t].reply EXCEPT !.st = "blocked"]]
             r == [th[t].reply EXCEPT !.st = "blocked"]
  <2>1. GoodThread(v)
    <3>1. th[t] \in ThreadState
      BY DEF Typed, Good
    <3>2. r \in Reply
      BY <3>1 DEF ThreadState, Reply, PipeStatus
    <3>3. v = [th[t] EXCEPT !.pc = "fail", !.reply = r]
      OBVIOUS
    <3> HIDE DEF r
    <3>4. v \in ThreadState
      BY <3>1, <3>2, <3>3 DEF ThreadState, Pc
    <3>5. v.job = j /\ v.pc = "fail"
      BY <3>1, <3>3 DEF ThreadState
    <3> HIDE DEF v
    <3> QED BY <1>1, <3>4, <3>5 DEF GoodThread
  <2>2. Good([th EXCEPT ![t] = v])
    <3> HIDE DEF v
    <3> QED BY <2>1, GoodUpdate DEF Typed
  <2>3. [th EXCEPT ![t].pc = "fail", ![t].reply.st = "blocked"] = [th EXCEPT ![t] = v]
    BY DEF Typed, Good, ThreadState, GoodThread
  <2> QED BY <2>2, <2>3
<1>6. ASSUME NEW q \in Replies(AfterCreate(pipe[j]))
      PROVE  Good([th EXCEPT ![t].pc = "store", ![t].reply = q])
  <2> DEFINE v == [th[t] EXCEPT !.pc = "store", !.reply = q]
  <2>1. GoodThread(v)
    BY ZenonT(60), <1>1, <1>2, <1>6 DEF Typed, Good, GoodThread, ThreadState, Pc
  <2>2. Good([th EXCEPT ![t] = v])
    <3> HIDE DEF v
    <3> QED BY <2>1, GoodUpdate DEF Typed
  <2>3. [th EXCEPT ![t].pc = "store", ![t].reply = q] = [th EXCEPT ![t] = v]
    BY DEF Typed, Good
  <2> QED BY <2>2, <2>3
<1>7. Good(th)'
  BY <1>4, <1>5, <1>6 DEF CallCreate
<1> QED BY <1>3, <1>7, RowKept, StillTyped DEF CallCreate

LEMMA FailCreateStep ==
  ASSUME Typed, NEW t \in Threads, FailCreate(t)
  PROVE  Typed' /\ ResStep
<1> DEFINE j == th[t].job
<1>1. j \in Jobs
  BY DEF Typed, Good, GoodThread, FailCreate
<1>2. Good(th)'
  BY <1>1, FinishGood, GotoGood DEF Typed, FailCreate, Pc
<1>3. row' \in [Jobs -> RowState] /\ ResStep
  <2> DEFINE w == [row[j] EXCEPT !.st = "failed", !.res = FALSE]
  <2>1. w \in RowState /\ ~w.res
    <3>1. row[j] \in RowState
      BY <1>1 DEF Typed, TypeOK
    <3> QED BY <3>1 DEF RowState, Status, FinalStatus
  <2>2. row' = [row EXCEPT ![j] = w] \/ row' = row
    BY <1>1 DEF FailCreate, Typed, TypeOK, RowState
  <2>3. CASE row' = [row EXCEPT ![j] = w]
    <3> HIDE DEF w
    <3> QED BY <1>1, <2>1, <2>3, RowUpdate
  <2> QED BY <2>2, <2>3, RowKept
<1> QED BY <1>2, <1>3, PipeKept, StillTyped DEF FailCreate

LEMMA StoreCreateStep ==
  ASSUME Typed, NEW t \in Threads, StoreCreate(t)
  PROVE  Typed' /\ ResStep
<1> DEFINE j == th[t].job
           q == th[t].reply
           s == MapState(q.st)
<1>1. j \in Jobs /\ q \in Reply /\ q.st # "none"
  BY DEF Typed, Good, GoodThread, ThreadState, StoreCreate
<1>2. s \in Status /\ q.canc \in BOOLEAN
  BY <1>1, StateTypes DEF Reply
<1>3. Good(th)'
  <2>1. Good(Finish(th, t))
    BY FinishGood DEF Typed
  <2>2. Good(Schedule(th, j))
    BY <1>1, ScheduleGood DEF Typed
  <2>3. Good(Finish(Schedule(th, j), t))
    BY <2>2, FinishGood
  <2> QED BY <2>1, <2>3 DEF StoreCreate
<1>4. row' \in [Jobs -> RowState] /\ ResStep
  <2>1. CASE j \in Follow
    <3> DEFINE w == [row[j] EXCEPT !.st = s, !.pid = TRUE, !.canc = q.canc,
                                   !.res = @ /\ s \notin FinalStatus]
    <3>1. row[j] \in RowState
      BY <1>1 DEF Typed, TypeOK
    <3>2. w \in RowState /\ (w.res => row[j].res)
      <4> HIDE DEF s, q, j
      <4> QED BY <3>1, <1>2 DEF RowState
    <3>3. row' = [row EXCEPT ![j] = w]
      BY <2>1, <1>1 DEF StoreCreate, Typed, TypeOK, RowState
    <3> HIDE DEF w
    <3> QED BY <1>1, <3>2, <3>3, RowUpdate
  <2>2. CASE j \notin Follow /\ row[j].st = "absent"
    <3> DEFINE w == [st |-> s, pid |-> TRUE, res |-> FALSE, canc |-> q.canc, att |-> 1]
    <3>1. w \in RowState /\ ~w.res
      <4> HIDE DEF s, q
      <4> QED BY <1>2 DEF RowState
    <3>2. row' = [row EXCEPT ![j] = w]
      BY <2>2 DEF StoreCreate
    <3> HIDE DEF w
    <3> QED BY <1>1, <3>1, <3>2, RowUpdate
  <2>3. CASE j \notin Follow /\ row[j].st # "absent"
    BY <2>3, RowKept DEF StoreCreate
  <2> QED BY <2>1, <2>2, <2>3
<1> QED BY <1>3, <1>4, PipeKept, StillTyped DEF StoreCreate

LEMMA OrphanStep ==
  ASSUME Typed, NEW t \in Threads, Orphan(t)
  PROVE  Typed' /\ ResStep
<1>1. th[t].job \in Jobs
  BY DEF Typed, Good, GoodThread, Orphan
<1>2. pipe' \in [Jobs -> [st : PipeStatus, canc : BOOLEAN]]
  BY <1>1, PipeTypes DEF Orphan, Typed, TypeOK
<1>3. Good(th)'
  <2>1. Good([th EXCEPT ![t].pc = "fail"])
    BY <1>1 DEF Typed, Good, GoodThread, ThreadState, Pc
  <2> QED BY <2>1, FinishGood DEF Orphan, Typed
<1> QED BY <1>2, <1>3, RowKept, StillTyped DEF Orphan

LEMMA CallCancelStep ==
  ASSUME Typed, NEW t \in Threads, CallCancel(t)
  PROVE  Typed' /\ ResStep
<1> DEFINE j == th[t].job
           p == AfterCancel(pipe[j])
<1>1. j \in Jobs
  BY DEF Typed, Good, GoodThread, CallCancel
<1>2. p \in [st : PipeStatus, canc : BOOLEAN]
  BY <1>1, PipeTypes DEF Typed, TypeOK
<1>3. \A q \in Replies(p) : q \in Reply /\ q.st # "none"
  BY <1>2, PipeTypes
<1>4. pipe' \in [Jobs -> [st : PipeStatus, canc : BOOLEAN]]
  BY <1>1, <1>2 DEF CallCancel, Typed, TypeOK
<1>5. ASSUME NEW q \in Replies(p)
      PROVE  Good([th EXCEPT ![t].pc = "apply", ![t].reply = q, ![t].canc = FALSE])
  <2> DEFINE v == [th[t] EXCEPT !.pc = "apply", !.reply = q, !.canc = FALSE]
  <2>1. GoodThread(v)
    BY ZenonT(60), <1>1, <1>3, <1>5 DEF Typed, Good, GoodThread, ThreadState, Pc
  <2>2. Good([th EXCEPT ![t] = v])
    <3> HIDE DEF v
    <3> QED BY <2>1, GoodUpdate DEF Typed
  <2>3. [th EXCEPT ![t].pc = "apply", ![t].reply = q, ![t].canc = FALSE] = [th EXCEPT ![t] = v]
    BY DEF Typed, Good
  <2> QED BY <2>2, <2>3
<1>6. Good(th)'
  BY <1>5, FinishGood DEF CallCancel, Typed
<1>7. row' \in [Jobs -> RowState] /\ ResStep
  <2> DEFINE w == [row[j] EXCEPT !.canc = FALSE]
  <2>1. w \in RowState /\ w.res = row[j].res
    BY <1>1 DEF Typed, TypeOK, RowState
  <2>2. row' = [row EXCEPT ![j] = w] \/ row' = row
    BY <1>1 DEF CallCancel, Typed, TypeOK, RowState
  <2>3. CASE row' = [row EXCEPT ![j] = w]
    <3> HIDE DEF w
    <3> QED BY <1>1, <2>1, <2>3, RowUpdate
  <2> QED BY <2>2, <2>3, RowKept
<1> QED BY <1>4, <1>6, <1>7, StillTyped DEF CallCancel

LEMMA InvalidStep ==
  ASSUME Typed, NEW t \in Threads, Invalid(t)
  PROVE  Typed' /\ ResStep
<1> DEFINE j == th[t].job
<1>1. j \in Jobs /\ th[t].inv \in 0..2
  BY DEF Typed, Good, GoodThread, ThreadState, Invalid
<1>2. Good(th)'
  <2>1. GoodThread([Idle EXCEPT !.pc = "exit", !.job = j])
    BY <1>1, IdleType DEF GoodThread, ThreadState, Pc, Idle
  <2>2. th[t].inv < 2 => GoodThread([Idle EXCEPT !.pc = "poll", !.job = j, !.inv = th[t].inv + 1])
    <3>1. th[t].inv < 2 => th[t].inv + 1 \in 0..2
      BY <1>1
    <3> DEFINE n == th[t].inv + 1
    <3>2. n \in 0..2 => GoodThread([Idle EXCEPT !.pc = "poll", !.job = j, !.inv = n])
      <4> HIDE DEF n, j
      <4> QED BY <1>1, IdleType DEF GoodThread, ThreadState, Pc, Idle
    <3> QED BY <3>1, <3>2
  <2> QED BY <2>1, <2>2, FinishGood, GoodUpdate DEF Invalid, Typed
<1>3. row' \in [Jobs -> RowState] /\ ResStep
  <2> DEFINE w == [row[j] EXCEPT !.st = "failed", !.res = FALSE]
  <2>1. w \in RowState /\ ~w.res
    <3>1. row[j] \in RowState
      BY <1>1 DEF Typed, TypeOK
    <3> HIDE DEF j
    <3> QED BY <3>1 DEF RowState, Status, FinalStatus
  <2>2. row' = [row EXCEPT ![j] = w] \/ row' = row
    BY <1>1 DEF Invalid, Typed, TypeOK, RowState
  <2>3. CASE row' = [row EXCEPT ![j] = w]
    <3> HIDE DEF w
    <3> QED BY <1>1, <2>1, <2>3, RowUpdate
  <2> QED BY <2>2, <2>3, RowKept
<1> QED BY <1>2, <1>3, PipeKept, StillTyped DEF Invalid

LEMMA WriteStep ==
  ASSUME Typed, NEW j \in Jobs, NEW s \in Status, NEW canc \in BOOLEAN, NEW att \in Nat,
         row' = Write(j, s, canc, att)
  PROVE  row' \in [Jobs -> RowState] /\ ResStep
<1> DEFINE w == [row[j] EXCEPT !.st = s, !.canc = canc, !.att = att,
                               !.res = @ /\ s \notin FinalStatus]
<1>1. w \in RowState /\ (w.res => row[j].res)
  BY DEF Typed, TypeOK, RowState
<1>2. row' = [row EXCEPT ![j] = w] \/ row' = row
  BY DEF Write, Typed, TypeOK, RowState
<1>3. CASE row' = [row EXCEPT ![j] = w]
  <2> HIDE DEF w
  <2> QED BY <1>1, <1>3, RowUpdate
<1> QED BY <1>2, <1>3, RowKept

LEMMA ApplyStep ==
  ASSUME Typed, NEW t \in Threads, Apply(t)
  PROVE  Typed' /\ ResStep
<1> DEFINE j == th[t].job
           q == th[t].reply
<1>1. j \in Jobs /\ q \in Reply /\ q.st # "none" /\ th[t].att \in Nat
  BY DEF Typed, Good, GoodThread, ThreadState, Apply
<1>2. ApplyState(q.st) \in Status /\ q.canc \in BOOLEAN
  BY <1>1, StateTypes DEF Reply
<1>3. Good(th)'
  BY <1>1, AfterApplyGood DEF Apply, Typed
<1>4. row' \in [Jobs -> RowState] /\ ResStep
  BY <1>1, <1>2, WriteStep DEF Apply
<1> QED BY <1>3, <1>4, PipeKept, StillTyped DEF Apply

LEMMA ReloadStep ==
  ASSUME Typed, NEW t \in Threads, Reload(t)
  PROVE  Typed' /\ ResStep
<1>1. th[t].job \in Jobs
  BY DEF Typed, Good, GoodThread, Reload
<1>2. Good(th)'
  BY <1>1, LoadRetryGood, RefusedGood DEF Reload, Typed
<1> QED BY <1>2, RowKept, PipeKept, StillTyped DEF Reload

LEMMA ReserveStep ==
  ASSUME Typed, NEW t \in Threads, Reserve(t)
  PROVE  Typed' /\ ResStep
<1> DEFINE j == th[t].job
<1>1. j \in Jobs
  BY DEF Typed, Good, GoodThread, Reserve
<1>2. Good([th EXCEPT ![t].pc = "retry"])
  BY <1>1 DEF Typed, Good, GoodThread, ThreadState, Pc
<1>3. Good(th)'
  BY <1>1, <1>2, RefusedGood DEF Reserve, Typed
<1>4. CASE UNCHANGED row
  BY <1>3, <1>4, RowKept, PipeKept, StillTyped DEF Reserve
<1>5. CASE ~UNCHANGED row
  <2> DEFINE w == [row[j] EXCEPT !.res = TRUE]
  <2>1. row' = [row EXCEPT ![j] = w] /\ SeasonFree(j)
    BY <1>1, <1>5 DEF Reserve, Typed, TypeOK
  <2>2. w \in RowState
    <3>1. row[j] \in RowState
      BY <1>1 DEF Typed, TypeOK
    <3> HIDE DEF j
    <3> QED BY <3>1 DEF RowState
  <2>3. row' \in [Jobs -> RowState] /\ ResStep
    <3> HIDE DEF w
    <3> QED BY <1>1, <2>1, <2>2, RowUpdate
  <2> QED BY <1>3, <2>3, PipeKept, StillTyped DEF Reserve
<1> QED BY <1>4, <1>5

LEMMA CallRetryStep ==
  ASSUME Typed, NEW t \in Threads, CallRetry(t)
  PROVE  Typed' /\ ResStep
<1> DEFINE j == th[t].job
<1>1. j \in Jobs /\ th[t].att \in Nat
  BY DEF Typed, Good, GoodThread, ThreadState, CallRetry
<1>2. /\ AfterRetry \in [st : PipeStatus, canc : BOOLEAN]
      /\ \A q \in Replies(AfterRetry) : q \in Reply /\ q.st # "none"
  <2>1. AfterRetry \in [st : PipeStatus, canc : BOOLEAN]
    BY DEF AfterRetry, PipeStatus
  <2> QED BY <2>1, PipeTypes
<1>3. pipe' \in [Jobs -> [st : PipeStatus, canc : BOOLEAN]]
  BY <1>1, <1>2 DEF CallRetry, Typed, TypeOK
<1>4. Good(Goto(th, t, "undo"))
  BY <1>1, GotoGood DEF Typed, Pc
<1>5. ASSUME NEW q \in Replies(AfterRetry)
      PROVE  Good([th EXCEPT ![t].pc = "resume", ![t].reply = q, ![t].att = @ + 1])
  <2> DEFINE n == th[t].att + 1
             v == [th[t] EXCEPT !.pc = "resume", !.reply = q, !.att = n]
  <2>1. n \in Nat
    BY <1>1
  <2>2. GoodThread(v)
    <3> HIDE DEF n
    <3> QED BY ZenonT(60), <1>1, <1>2, <1>5, <2>1 DEF Typed, Good, GoodThread, ThreadState, Pc
  <2>3. Good([th EXCEPT ![t] = v])
    <3> HIDE DEF v
    <3> QED BY <2>2, GoodUpdate DEF Typed
  <2>4. [th EXCEPT ![t].pc = "resume", ![t].reply = q, ![t].att = @ + 1] = [th EXCEPT ![t] = v]
    BY DEF Typed, Good
  <2> QED BY <2>3, <2>4
<1>6. Good(th)'
  BY <1>4, <1>5 DEF CallRetry
<1> QED BY <1>3, <1>6, RowKept, StillTyped DEF CallRetry

LEMMA UndoReserveStep ==
  ASSUME Typed, NEW t \in Threads, UndoReserve(t)
  PROVE  Typed' /\ ResStep
<1> DEFINE j == th[t].job
           w == [row[j] EXCEPT !.res = FALSE]
<1>1. j \in Jobs
  BY DEF Typed, Good, GoodThread, UndoReserve
<1>2. Good(th)'
  BY <1>1, RefusedGood DEF UndoReserve, Typed
<1>3. w \in RowState /\ ~w.res
  <2>1. row[j] \in RowState
    BY <1>1 DEF Typed, TypeOK
  <2> HIDE DEF j
  <2> QED BY <2>1 DEF RowState
<1>4. row' = [row EXCEPT ![j] = w]
  BY <1>1 DEF UndoReserve, Typed, TypeOK
<1>5. row' \in [Jobs -> RowState] /\ ResStep
  <2> HIDE DEF w
  <2> QED BY <1>1, <1>3, <1>4, RowUpdate
<1> QED BY <1>2, <1>5, PipeKept, StillTyped DEF UndoReserve

LEMMA ResumeStep ==
  ASSUME Typed, NEW t \in Threads, Resume(t)
  PROVE  Typed' /\ ResStep
<1> DEFINE j == th[t].job
           q == th[t].reply
           f == [th EXCEPT ![t].sched = j]
<1>1. j \in Jobs /\ q \in Reply /\ q.st # "none" /\ th[t].att \in Nat
  BY DEF Typed, Good, GoodThread, ThreadState, Resume
<1>2. ApplyState(q.st) \in Status /\ q.canc \in BOOLEAN
  BY <1>1, StateTypes DEF Reply
<1>3. Good(f) /\ f[t].job = j
  BY <1>1 DEF Typed, Good, GoodThread, ThreadState
<1>4. Good(AfterApply(f, t, q, th[t].att))
  <2> HIDE DEF f
  <2> QED BY <1>1, <1>3, AfterApplyGood
<1>5. Good(th)'
  BY <1>1, <1>4, RefusedGood DEF Resume, Typed
<1>6. row' \in [Jobs -> RowState] /\ ResStep
  BY <1>1, <1>2, WriteStep, RowKept DEF Resume
<1> QED BY <1>5, <1>6, PipeKept, StillTyped DEF Resume

LEMMA StopStep ==
  ASSUME Typed, NEW t \in Threads, Stop(t)
  PROVE  Typed' /\ ResStep
<1>1. Good(th)'
  BY FinishGood DEF Stop, Typed
<1>2. sub' \in [Seasons -> BOOLEAN]
  BY DEF Stop, Typed, TypeOK
<1> QED BY <1>1, <1>2, RowKept DEF Stop, Typed, TypeOK, Good

LEMMA PickStep ==
  ASSUME Typed, NEW t \in Threads, Pick(t)
  PROVE  Typed' /\ ResStep
<1>1. ASSUME NEW k \in Jobs
      PROVE  Good([th EXCEPT ![t].pc = "insert", ![t].job = k, ![t].reply = NoReply])
  <2> DEFINE v == [th[t] EXCEPT !.pc = "insert", !.job = k, !.reply = NoReply]
  <2>1. NoReply \in Reply
    BY DEF NoReply, Reply, PipeStatus
  <2>2. GoodThread(v)
    BY ZenonT(60), <2>1 DEF Typed, Good, GoodThread, ThreadState, Pc
  <2>3. Good([th EXCEPT ![t] = v])
    <3> HIDE DEF v
    <3> QED BY <2>2, GoodUpdate DEF Typed
  <2>4. [th EXCEPT ![t].pc = "insert", ![t].job = k, ![t].reply = NoReply] = [th EXCEPT ![t] = v]
    BY DEF Typed, Good
  <2> QED BY <2>3, <2>4
<1>2. Good(th)'
  BY <1>1, FinishGood, FollowAssumption DEF Pick, Typed
<1> QED BY <1>2, RowKept, PipeKept, StillTyped DEF Pick

LEMMA MonitorStep ==
  ASSUME Typed, NEW j \in Jobs, Poll(j) \/ CallGet(j) \/ Exit(j)
  PROVE  Typed' /\ ResStep
<1>1. j \in Threads
  BY DEF Threads
<1>2. GoodThread(Idle) /\ GoodThread([Idle EXCEPT !.pc = "exit", !.job = j])
  BY IdleType DEF GoodThread, ThreadState, Pc, Idle
<1>3. CASE Poll(j)
  <2> DEFINE v == [th[j] EXCEPT !.pc = "call", !.canc = row[j].canc, !.att = row[j].att]
  <2>1. row[j].canc \in BOOLEAN /\ row[j].att \in Nat
    BY DEF Typed, TypeOK, RowState
  <2>2. GoodThread(v)
    BY ZenonT(60), <1>1, <1>3, <2>1 DEF Poll, Typed, Good, GoodThread, ThreadState, Pc
  <2>3. Good([th EXCEPT ![j] = v])
    <3> HIDE DEF v
    <3> QED BY <1>1, <2>2, GoodUpdate DEF Typed
  <2>4. [th EXCEPT ![j].pc = "call", ![j].canc = row[j].canc, ![j].att = row[j].att]
          = [th EXCEPT ![j] = v]
    BY <1>1 DEF Typed, Good
  <2>5. Good([th EXCEPT ![j] = [Idle EXCEPT !.pc = "exit", !.job = j]])
    BY <1>1, <1>2, GoodUpdate DEF Typed
  <2>6. Good(th)'
    BY <1>3, <2>3, <2>4, <2>5 DEF Poll
  <2> QED BY <1>3, <2>6, RowKept, PipeKept, StillTyped DEF Poll
<1>4. CASE CallGet(j)
  <2>1. \A q \in Replies(pipe[j]) : q \in Reply /\ q.st # "none"
    BY PipeTypes DEF Typed, TypeOK
  <2>2. ASSUME NEW q \in Replies(pipe[j])
        PROVE  Good([th EXCEPT ![j].pc = "apply", ![j].reply = q])
    <3> DEFINE v == [th[j] EXCEPT !.pc = "apply", !.reply = q]
    <3>1. GoodThread(v)
      BY ZenonT(60), <1>1, <1>4, <2>1, <2>2 DEF CallGet, Typed, Good, GoodThread, ThreadState, Pc
    <3>2. Good([th EXCEPT ![j] = v])
      <4> HIDE DEF v
      <4> QED BY <1>1, <3>1, GoodUpdate DEF Typed
    <3>3. [th EXCEPT ![j].pc = "apply", ![j].reply = q] = [th EXCEPT ![j] = v]
      BY <1>1 DEF Typed, Good
    <3> QED BY <3>2, <3>3
  <2>3. Good(th)'
    BY <1>1, <1>4, <2>2, FinishGood DEF CallGet, Typed
  <2> QED BY <1>4, <2>3, RowKept, PipeKept, StillTyped DEF CallGet
<1>5. CASE Exit(j)
  <2>1. Good(th)'
    BY <1>1, <1>2, <1>5, GoodUpdate DEF Exit, Typed
  <2> QED BY <1>5, <2>1, RowKept, PipeKept, StillTyped DEF Exit
<1> QED BY <1>3, <1>4, <1>5

LEMMA PipelineStep ==
  ASSUME Typed, NEW j \in Jobs, Pipeline(j)
  PROVE  Typed' /\ ResStep
<1>1. CASE PipeStart(j)
  <2> DEFINE p == [pipe[j] EXCEPT !.st = "running"]
  <2>1. p \in [st : PipeStatus, canc : BOOLEAN] /\ pipe' = [pipe EXCEPT ![j] = p]
    BY <1>1 DEF PipeStart, Typed, TypeOK, PipeStatus
  <2>2. pipe' \in [Jobs -> [st : PipeStatus, canc : BOOLEAN]]
    <3> HIDE DEF p
    <3> QED BY <2>1 DEF Typed, TypeOK
  <2>3. Good(th)'
    BY <1>1 DEF PipeStart, Typed, Good
  <2> QED BY <1>1, <2>2, <2>3, RowKept, StillTyped DEF PipeStart
<1>2. CASE PipeEnd(j)
  <2>1. \A o \in Outcomes \cup {"canceled"} : o \in PipeStatus
    BY ChoiceAssumption DEF PipeStatus, FinalStatus
  <2>2. PICK o \in PipeStatus : pipe' = [pipe EXCEPT ![j] = [st |-> o, canc |-> FALSE]]
    BY <1>2, <2>1 DEF PipeEnd
  <2>3. pipe' \in [Jobs -> [st : PipeStatus, canc : BOOLEAN]]
    BY <2>2 DEF Typed, TypeOK
  <2>4. Good(th)'
    BY <1>2 DEF PipeEnd, Typed, Good
  <2> QED BY <1>2, <2>3, <2>4, RowKept, StillTyped DEF PipeEnd
<1> QED BY <1>1, <1>2 DEF Pipeline

LEMMA RequestStep ==
  ASSUME Typed, NEW r \in Requests, NEW j \in Jobs,
         StartCreate(r, j) \/ StartCancel(r, j) \/ StartRetry(r, j)
  PROVE  Typed' /\ ResStep
<1>1. r \in Threads
  BY DEF Threads
<1>2. CASE StartCreate(r, j)
  <2>1. GoodThread([Idle EXCEPT !.pc = "insert", !.job = j])
    BY IdleType DEF GoodThread, ThreadState, Pc, Idle
  <2>2. Good(th)'
    BY <1>1, <1>2, <2>1, GoodUpdate DEF StartCreate, Typed
  <2> QED BY <1>2, <2>2, RowKept, PipeKept, StillTyped DEF StartCreate
<1>3. CASE StartCancel(r, j)
  <2> DEFINE w == [row[j] EXCEPT !.canc = TRUE]
             v == [Idle EXCEPT !.pc = "call", !.job = j, !.canc = TRUE, !.att = row[j].att]
  <2>1. w \in RowState /\ w.res = row[j].res
    BY DEF Typed, TypeOK, RowState
  <2>2. row' = [row EXCEPT ![j] = w]
    BY <1>3 DEF StartCancel, Typed, TypeOK
  <2>3. row' \in [Jobs -> RowState] /\ ResStep
    <3> HIDE DEF w
    <3> QED BY <2>1, <2>2, RowUpdate
  <2>4. row[j].att \in Nat
    BY DEF Typed, TypeOK, RowState
  <2>5. GoodThread(v)
    BY <2>4, IdleType DEF GoodThread, ThreadState, Pc, Idle
  <2>6. Good([th EXCEPT ![r] = v])
    <3> HIDE DEF v
    <3> QED BY <1>1, <2>5, GoodUpdate DEF Typed
  <2>7. Good(th)'
    BY <1>3, <2>6 DEF StartCancel, Typed
  <2> QED BY <1>3, <2>3, <2>7, PipeKept, StillTyped DEF StartCancel
<1>4. CASE StartRetry(r, j)
  <2>1. Good(th)'
    BY <1>1, <1>4, LoadRetryGood DEF StartRetry, Typed
  <2> QED BY <1>4, <2>1, RowKept, PipeKept, StillTyped DEF StartRetry
<1> QED BY <1>2, <1>3, <1>4

LEMMA DeleteFailedStep ==
  ASSUME Typed, NEW j \in Jobs, DeleteFailed(j)
  PROVE  Typed' /\ ResStep
<1> DEFINE w == [AbsentRow EXCEPT !.st = "deleted", !.pid = row[j].pid]
<1>1. w \in RowState /\ ~w.res
  BY DEF AbsentRow, RowState, Status, Typed, TypeOK
<1>2. row' = [row EXCEPT ![j] = w]
  BY DEF DeleteFailed
<1>3. row' \in [Jobs -> RowState] /\ ResStep
  <2> HIDE DEF w
  <2> QED BY <1>1, <1>2, RowUpdate
<1>4. Good(th)'
  BY DEF DeleteFailed, Typed, Good
<1> QED BY <1>3, <1>4, PipeKept, StillTyped DEF DeleteFailed

LEMMA AbortStep ==
  ASSUME Typed, NEW r \in Requests, Abort(r)
  PROVE  Typed' /\ ResStep
<1>1. r \in Threads
  BY DEF Threads
<1>2. th[r].pc = "store" => th[r].job \in Jobs
  BY <1>1 DEF Typed, Good, GoodThread
<1>3. Good(th)'
  BY <1>1, <1>2, FinishGood, GotoGood DEF Abort, Typed, Pc
<1> QED BY <1>3, RowKept, PipeKept, StillTyped DEF Abort

LEMMA CrashStep ==
  ASSUME Typed, Crash
  PROVE  Typed' /\ ResStep
<1>1. GoodThread(Idle)
  BY IdleType DEF GoodThread, Idle
<1>2. Good(th)'
  BY <1>1 DEF Crash, Good, GoodThread
<1>3. crashes' \in Nat
  BY DEF Crash, Typed, TypeOK
<1> QED BY <1>2, <1>3, RowKept, PipeKept DEF Crash, Typed, TypeOK, Good

LEMMA BootStep ==
  ASSUME Typed, Boot
  PROVE  Typed' /\ ResStep
<1>1. GoodThread(Idle) /\ \A k \in Jobs : GoodThread([Idle EXCEPT !.pc = "poll", !.job = k])
  BY IdleType DEF GoodThread, ThreadState, Pc, Idle
<1>2. Good(th)'
  BY <1>1 DEF Boot, Good, GoodThread
<1> QED BY <1>2, RowKept, PipeKept DEF Boot, Typed, TypeOK, Good

LEMMA RecoverRowStep ==
  ASSUME Typed, NEW j \in Jobs, RecoverRow(j)
  PROVE  Typed' /\ ResStep
<1> DEFINE p == AfterCreate(pipe[j])
<1>1. p \in [st : PipeStatus, canc : BOOLEAN] /\ \A q \in Replies(p) : q \in Reply /\ q.st # "none"
  BY PipeTypes DEF Typed, TypeOK
<1>2. pipe' \in [Jobs -> [st : PipeStatus, canc : BOOLEAN]]
  BY <1>1 DEF RecoverRow, Typed, TypeOK
<1>3. Good(th)'
  BY ScheduleGood DEF RecoverRow, Typed
<1>4. row[j] \in RowState
  BY DEF Typed, TypeOK
<1>5. \/ \E q \in Replies(p) : row' = [row EXCEPT ![j] = [row[j] EXCEPT !.pid = TRUE, !.st = MapState(q.st)]]
      \/ row' = [row EXCEPT ![j] = [row[j] EXCEPT !.st = "failed", !.res = FALSE]]
  BY <1>4 DEF RecoverRow, Typed, TypeOK
<1>6. ASSUME NEW q \in Replies(p)
      PROVE  LET w == [row[j] EXCEPT !.pid = TRUE, !.st = MapState(q.st)]
             IN  w \in RowState /\ w.res = row[j].res
  <2>1. MapState(q.st) \in Status
    BY <1>1, StateTypes DEF Reply
  <2> QED BY <1>4, <2>1 DEF RowState
<1>7. LET w == [row[j] EXCEPT !.st = "failed", !.res = FALSE]
      IN  w \in RowState /\ ~w.res
  BY <1>4 DEF RowState, Status, FinalStatus
<1>8. row' \in [Jobs -> RowState] /\ ResStep
  BY <1>5, <1>6, <1>7, RowUpdate
<1>9. todo' \in SUBSET Jobs
  BY DEF RecoverRow, Typed, TypeOK
<1> QED BY <1>2, <1>3, <1>8, <1>9 DEF RecoverRow, Typed, TypeOK, Good

LEMMA InitTyped == Init => Typed
<1> SUFFICES ASSUME Init PROVE Typed
  OBVIOUS
<1>1. AbsentRow \in RowState /\ NoReply \in [st : PipeStatus, canc : BOOLEAN]
  BY DEF AbsentRow, RowState, Status, NoReply, PipeStatus
<1>2. GoodThread(Idle)
  BY IdleType DEF GoodThread, Idle
<1> QED BY <1>1, <1>2 DEF Init, Typed, TypeOK, Good, GoodThread

LEMMA NextTyped == Typed /\ [Next]_vars => Typed' /\ ResStep
<1> SUFFICES ASSUME Typed, [Next]_vars PROVE Typed' /\ ResStep
  OBVIOUS
<1>1. ASSUME NEW t \in Threads, Step(t) PROVE Typed' /\ ResStep
  BY <1>1, InsertStep, CallCreateStep, FailCreateStep, StoreCreateStep, OrphanStep,
     CallCancelStep, InvalidStep, ApplyStep, ReloadStep, ReserveStep, CallRetryStep,
     UndoReserveStep, ResumeStep, StopStep, PickStep DEF Step
<1>2. CASE UNCHANGED vars
  BY <1>2 DEF vars, Typed, TypeOK, Good, ResStep
<1>3. ASSUME NEW r \in Requests,
             \/ \E j \in Jobs : StartCreate(r, j) \/ StartCancel(r, j) \/ StartRetry(r, j)
             \/ Step(r)
             \/ Abort(r)
      PROVE  Typed' /\ ResStep
  BY <1>1, <1>3, RequestStep, AbortStep DEF Threads
<1>4. ASSUME NEW j \in Jobs, DeleteFailed(j) \/ Monitor(j) \/ Pipeline(j) \/ RecoverRow(j)
      PROVE  Typed' /\ ResStep
  BY <1>1, <1>4, DeleteFailedStep, MonitorStep, PipelineStep, RecoverRowStep DEF Monitor, Threads
<1> QED BY <1>2, <1>3, <1>4, CrashStep, BootStep DEF Next

(* Every variable keeps its type in every reachable state, for any set of  *)
(* jobs, requests, operations and faults and any bounds.                   *)
THEOREM TypeCorrect == Spec => []TypeOK
<1>1. Typed => TypeOK
  BY DEF Typed
<1> QED BY <1>1, InitTyped, NextTyped, PTL DEF Spec

-----------------------------------------------------------------------------
LEMMA ReservationStep == Typed /\ OneReservation /\ ResStep => OneReservation'
<1> SUFFICES ASSUME OneReservation, ResStep,
                    NEW j \in Jobs, row'[j].res, NEW k \in Mates(j), row'[k].res
             PROVE  FALSE
  BY DEF OneReservation
<1>1. k \in Jobs /\ k # j /\ SeasonOf[k] = SeasonOf[j]
  BY DEF Mates
<1>2. j \in Mates(k)
  BY <1>1 DEF Mates
<1>3. ~(row[j].res /\ row[k].res)
  BY DEF OneReservation
<1>4. PICK m \in Jobs : /\ \A n \in Jobs \ {m} : row'[n].res = row[n].res
                        /\ row'[m].res => row[m].res \/ SeasonFree(m)
  BY <1>1, <1>3 DEF ResStep
<1>5. CASE m = j
  BY <1>1, <1>3, <1>4, <1>5 DEF SeasonFree
<1>6. CASE m = k
  BY <1>1, <1>2, <1>3, <1>4, <1>6 DEF SeasonFree
<1>7. CASE m # j /\ m # k
  BY <1>1, <1>3, <1>4, <1>7
<1> QED BY <1>5, <1>6, <1>7

LEMMA InitReservation == Init => OneReservation
BY DEF Init, OneReservation, AbsentRow

(* At most one job of a season holds its reservation, whatever the number  *)
(* of jobs and requests and whatever fails: every write of the column goes *)
(* through the unique index.                                               *)
THEOREM ReservationUnique == Spec => []OneReservation
<1>1. Typed /\ OneReservation /\ [Next]_vars => Typed' /\ OneReservation'
  BY NextTyped, ReservationStep
<1> QED BY <1>1, InitTyped, InitReservation, PTL DEF Spec

-----------------------------------------------------------------------------
(* The refinement.  Holder and OneReservation as functions of the table,   *)
(* so that what is known of them holds before and after a step.            *)
HolderOf(r) == [s \in Seasons |->
                  IF \E j \in Jobs : SeasonOf[j] = s /\ r[j].res
                  THEN CHOOSE j \in Jobs : SeasonOf[j] = s /\ r[j].res
                  ELSE NoJob]

LEMMA HolderFacts ==
  ASSUME NEW r, \A j \in Jobs : r[j].res => \A k \in Mates(j) : ~r[k].res
  PROVE  /\ \A j \in Jobs : r[j].res => HolderOf(r)[SeasonOf[j]] = j
         /\ \A s \in Seasons : (\A j \in Jobs : SeasonOf[j] = s => ~r[j].res)
                                  => HolderOf(r)[s] = NoJob
<1>1. ASSUME NEW j \in Jobs, r[j].res
      PROVE  HolderOf(r)[SeasonOf[j]] = j
  <2> DEFINE c == CHOOSE k \in Jobs : SeasonOf[k] = SeasonOf[j] /\ r[k].res
  <2>1. c \in Jobs /\ SeasonOf[c] = SeasonOf[j] /\ r[c].res
    BY <1>1
  <2>2. c = j
    <3> HIDE DEF c
    <3> QED BY <1>1, <2>1 DEF Mates
  <2>3. SeasonOf[j] \in Seasons
    BY DEF Seasons
  <2>4. HolderOf(r)[SeasonOf[j]] = c
    BY <1>1, <2>3 DEF HolderOf
  <2> QED BY <2>2, <2>4
<1>2. ASSUME NEW s \in Seasons, \A j \in Jobs : SeasonOf[j] = s => ~r[j].res
      PROVE  HolderOf(r)[s] = NoJob
  BY <1>2 DEF HolderOf
<1> QED BY <1>1, <1>2

LEMMA LeaseStep ==
  ASSUME Typed, Typed', OneReservation, OneReservation', ResStep
  PROVE  [Lease!Next]_Holder
<1> DEFINE h == HolderOf(row)
           g == HolderOf(row')
<1>1. Holder = h /\ Holder' = g
  BY DEF Holder, HolderOf
<1>2. /\ \A j \in Jobs : row[j].res => h[SeasonOf[j]] = j
      /\ \A s \in Seasons : (\A j \in Jobs : SeasonOf[j] = s => ~row[j].res) => h[s] = NoJob
  <2>1. \A j \in Jobs : row[j].res => \A k \in Mates(j) : ~row[k].res
    BY DEF OneReservation
  <2> QED BY <2>1, HolderFacts
<1>3. /\ \A j \in Jobs : row'[j].res => g[SeasonOf[j]] = j
      /\ \A s \in Seasons : (\A j \in Jobs : SeasonOf[j] = s => ~row'[j].res) => g[s] = NoJob
  <2>1. \A j \in Jobs : row'[j].res => \A k \in Mates(j) : ~row'[k].res
    BY DEF OneReservation, Mates
  <2> QED BY <2>1, HolderFacts
<1>4. h = [s \in Seasons |-> h[s]] /\ g = [s \in Seasons |-> g[s]]
  BY DEF HolderOf
<1> HIDE DEF h, g
<1>5. ASSUME NEW s \in Seasons,
             \A k \in Jobs : SeasonOf[k] = s => row'[k].res = row[k].res
      PROVE  g[s] = h[s]
  <2>1. CASE \E k \in Jobs : SeasonOf[k] = s /\ row[k].res
    BY <1>2, <1>3, <1>5, <2>1
  <2>2. CASE \A k \in Jobs : SeasonOf[k] = s => ~row[k].res
    BY <1>2, <1>3, <1>5, <2>2
  <2> QED BY <2>1, <2>2
<1>6. CASE \A k \in Jobs : row'[k].res = row[k].res
  <2>1. g = h
    BY <1>4, <1>5, <1>6
  <2> QED BY <1>1, <2>1
<1>7. CASE \E j \in Jobs : /\ row'[j].res # row[j].res
                           /\ \A k \in Jobs \ {j} : row'[k].res = row[k].res
                           /\ row'[j].res => row[j].res \/ SeasonFree(j)
  <2>1. PICK j \in Jobs : /\ row'[j].res # row[j].res
                          /\ \A k \in Jobs \ {j} : row'[k].res = row[k].res
                          /\ row'[j].res => row[j].res \/ SeasonFree(j)
    BY <1>7
  <2>2. SeasonOf[j] \in Seasons
    BY DEF Seasons
  <2>3. \A s \in Seasons \ {SeasonOf[j]} : g[s] = h[s]
    BY <1>5, <2>1
  <2>4. CASE row[j].res
    <3>1. ~row'[j].res /\ \A k \in Mates(j) : ~row'[k].res
      BY <2>1, <2>4 DEF OneReservation, Mates
    <3>2. g[SeasonOf[j]] = NoJob
      BY <1>3, <2>2, <3>1 DEF Mates
    <3>3. h[SeasonOf[j]] = j /\ g = [h EXCEPT ![SeasonOf[j]] = NoJob]
      BY <1>2, <1>4, <2>2, <2>3, <2>4, <3>2
    <3> QED BY <1>1, <3>3 DEF Lease!Next, Lease!Release
  <2>5. CASE ~row[j].res
    <3>1. row[j].res \in BOOLEAN /\ row'[j].res \in BOOLEAN
      BY DEF Typed, TypeOK, RowState
    <3>2. row'[j].res /\ SeasonFree(j)
      BY <2>1, <2>5, <3>1
    <3>3. h[SeasonOf[j]] = NoJob
      BY <1>2, <2>2, <2>5, <3>2 DEF SeasonFree, Mates
    <3>4. g[SeasonOf[j]] = j /\ g = [h EXCEPT ![SeasonOf[j]] = j]
      BY <1>3, <1>4, <2>2, <2>3, <3>2
    <3> QED BY <1>1, <3>3, <3>4 DEF Lease!Next, Lease!Acquire
  <2> QED BY <2>4, <2>5
<1> QED BY <1>6, <1>7 DEF ResStep

(* The reservations implement the lease: a season is taken only when it is *)
(* free and given back only by its holder, for any instance.               *)
THEOREM LeaseImplemented == Spec => LeaseSpec
<1>1. Init => Lease!Init
  BY DEF Init, AbsentRow, Lease!Init, Holder, Lease!Seasons, Seasons
<1>2. Typed /\ OneReservation /\ [Next]_vars => Typed' /\ OneReservation' /\ [Lease!Next]_Holder
  BY NextTyped, ReservationStep, LeaseStep
<1> QED BY <1>1, <1>2, InitTyped, InitReservation, PTL DEF Spec, LeaseSpec, Lease!Spec

-----------------------------------------------------------------------------
(* Who holds a reservation.  A thread that creates a follow job owns a row *)
(* that is queued, reserved and without a task; one that retries it owns a *)
(* final row with the reservation taken back, unless the row was deleted   *)
(* meanwhile.  Nobody else writes such a row: a monitor acts only on a row *)
(* the pipeline has accepted, and applies only to one still unfinished.    *)
Unfinished == {"queued", "running", "blank"}
Gone(w)    == w.st = "deleted"
Creator(v) == v.pc \in {"create", "store", "reject", "fail"} /\ v.job \in Follow
Retrier(v) == v.pc \in {"retry", "undo", "resume"} /\ v.job \in Follow
Holding(v) == Creator(v) \/ Retrier(v)

RowSound(j, w, d) ==
  /\ j \in Follow /\ w.st \in Unfinished => w.res
  /\ w.st = "absent" => ~w.pid
  /\ j \in d => w.st \in Unfinished /\ ~w.pid

Claims(v, r, d) ==
  /\ v.sched = NoJob
  /\ v.pc = "resume" => /\ v.reply.st \in {"queued", "invalid"}
                        /\ r[v.job].pid \/ Gone(r[v.job])
  /\ Creator(v) => /\ r[v.job].st = "queued" /\ r[v.job].res /\ ~r[v.job].pid
                   /\ v.job \notin d
  /\ Retrier(v) => Gone(r[v.job]) \/ (r[v.job].st \in FinalStatus /\ r[v.job].res)

Watches(t, v, r) ==
  /\ v.pc \in {"poll", "call", "apply", "exit"} => t \in Jobs /\ v.job = t
  /\ t \in Jobs /\ v.pc # "idle" => r[t].pid \/ Gone(r[t])
  /\ v.pc \in {"call", "apply"} => r[t].st \in Unfinished

HoldsAlone(f, r) ==
  \A t, u \in Threads :
    t # u /\ Holding(f[t]) /\ Holding(f[u]) /\ f[t].job = f[u].job => Gone(r[f[t].job])

Owned ==
  /\ \A j \in Jobs : RowSound(j, row[j], todo)
  /\ \A t \in Threads : Claims(th[t], row, todo) /\ Watches(t, th[t], row)
  /\ HoldsAlone(th, row)

(* A thread between two pieces of work: it owns no row and has no answer.  *)
Quiet(t, v) ==
  /\ v.sched = NoJob
  /\ v.pc \in {"idle", "insert", "orphan", "poll", "exit", "reload", "reserve", "stop",
               "pick", "next"}
  /\ v.pc \in {"poll", "exit"} => t \in Jobs /\ v.job = t

LEMMA QuietSound ==
  ASSUME NEW t \in Threads, NEW v, Quiet(t, v), NEW r, NEW d,
         t \in Jobs /\ v.pc # "idle" => r[t].pid \/ Gone(r[t])
  PROVE  Claims(v, r, d) /\ Watches(t, v, r) /\ ~Holding(v)
BY DEF Quiet, Claims, Watches, Holding, Creator, Retrier

(* What a step may do to one row and its monitor, and what it must leave.  *)
LEMMA RowChange ==
  ASSUME Typed, Typed', Owned, NEW j \in Jobs, NEW t \in Threads,
         \A k \in Jobs \ {j} : row'[k] = row[k],
         \A u \in Threads \ {t, j} : th'[u] = th[u],
         todo' \subseteq todo,
         RowSound(j, row'[j], todo'),
         Claims(th'[t], row', todo'), Watches(t, th'[t], row'),
         j # t => \/ th'[j] = th[j] /\ (th[j].pc \in {"call", "apply"} => row'[j].st \in Unfinished)
                  \/ Quiet(j, th'[j]) /\ (row'[j].pid \/ Gone(row'[j])),
         \A u \in Threads \ {t} :
            Holding(th[u]) /\ th[u].job = j => row[j].st # "queued" /\ Gone(row'[j]),
         Gone(row[j]) => Gone(row'[j]),
         row[j].pid => row'[j].pid \/ Gone(row'[j]),
         Holding(th'[t]) => \/ Holding(th[t]) /\ th'[t].job = th[t].job
                            \/ /\ th'[t].job = j
                               /\ \A u \in Threads \ {t} : ~(Holding(th[u]) /\ th[u].job = j)
  PROVE  Owned'
<1>1. \A k \in Jobs : RowSound(k, row'[k], todo')
  BY DEF Owned, RowSound
<1>2. ASSUME NEW u \in Threads, u # t, th'[u] = th[u]
      PROVE  Claims(th'[u], row', todo')
  <2>1. th[u].pc # "idle" => th[u].job \in Jobs
    BY DEF Typed, Good, GoodThread
  <2>2. Claims(th[u], row, todo)
    BY DEF Owned
  <2>3. CASE th[u].job # j
    BY <1>2, <2>1, <2>2, <2>3 DEF Claims, Creator, Retrier
  <2>4. CASE th[u].job = j
    <3>1. Creator(th[u]) => FALSE
      BY <1>2, <2>2, <2>4 DEF Claims, Holding
    <3>2. Retrier(th[u]) => Gone(row'[j])
      BY <1>2, <2>4 DEF Holding
    <3>3. th[u].pc = "resume" => row'[j].pid \/ Gone(row'[j])
      BY <2>2, <2>4 DEF Claims
    <3> QED BY <1>2, <2>2, <2>4, <3>1, <3>2, <3>3 DEF Claims
  <2> QED BY <2>3, <2>4
<1>3. ASSUME NEW u \in Threads, u # t
      PROVE  Claims(th'[u], row', todo') /\ Watches(u, th'[u], row')
  <2>1. CASE u # j
    <3>1. th'[u] = th[u] /\ Watches(u, th[u], row)
      BY <1>3, <2>1 DEF Owned
    <3>2. u \in Jobs => row'[u] = row[u]
      BY <2>1
    <3>3. Watches(u, th'[u], row')
      BY <3>1, <3>2 DEF Watches
    <3> QED BY <1>2, <1>3, <3>1, <3>3
  <2>2. CASE u = j /\ th'[j] = th[j] /\ (th[j].pc \in {"call", "apply"} => row'[j].st \in Unfinished)
    <3>1. Watches(j, th[j], row)
      BY <2>2 DEF Owned
    <3>2. Watches(j, th'[j], row')
      BY <2>2, <3>1 DEF Watches
    <3> QED BY <1>2, <1>3, <2>2, <3>2
  <2>3. CASE u = j /\ Quiet(j, th'[j]) /\ (row'[j].pid \/ Gone(row'[j]))
    BY <2>3, QuietSound
  <2> QED BY <1>3, <2>1, <2>2, <2>3
<1>4. \A u \in Threads : Claims(th'[u], row', todo') /\ Watches(u, th'[u], row')
  BY <1>3
<1>5. ASSUME NEW u \in Threads, u # t, Holding(th'[u])
      PROVE  th'[u] = th[u]
  BY <1>5, QuietSound DEF Quiet, Holding, Creator, Retrier
<1>6. ASSUME NEW u \in Threads, NEW w \in Threads, u # w, w # t,
             Holding(th'[u]), Holding(th'[w]), th'[u].job = th'[w].job
      PROVE  Gone(row'[th'[u].job])
  <2>1. th'[w] = th[w] /\ Holding(th[w])
    BY <1>5, <1>6
  <2>2. th[w].job \in Jobs
    BY <2>1 DEF Typed, Good, GoodThread, Holding, Creator, Retrier
  <2>3. CASE th[w].job = j
    BY <1>6, <2>1, <2>3
  <2>4. CASE th[w].job # j
    <3>1. Holding(th[u]) /\ th[u].job = th[w].job
      BY <1>5, <1>6, <2>1, <2>4
    <3>2. Gone(row[th[u].job])
      BY <1>6, <2>1, <3>1 DEF Owned, HoldsAlone
    <3> QED BY <1>6, <2>1, <2>2, <2>4, <3>1, <3>2
  <2> QED BY <2>3, <2>4
<1>7. HoldsAlone(th', row')
  <2> SUFFICES ASSUME NEW u \in Threads, NEW w \in Threads, u # w,
                      Holding(th'[u]), Holding(th'[w]), th'[u].job = th'[w].job
               PROVE  Gone(row'[th'[u].job])
    BY DEF HoldsAlone
  <2>1. w # t \/ u # t
    OBVIOUS
  <2> QED BY <1>6, <2>1
<1> QED BY <1>1, <1>4, <1>7 DEF Owned

(* A step of one thread that leaves the table alone. *)
LEMMA ThreadMove ==
  ASSUME Owned, NEW t \in Threads, NEW v, th \in [Threads -> ThreadState],
         th' = [th EXCEPT ![t] = v], row' = row, todo' = todo,
         Claims(v, row, todo), Watches(t, v, row),
         Holding(v) => Holding(th[t]) /\ v.job = th[t].job
  PROVE  Owned'
<1>1. th'[t] = v /\ \A u \in Threads \ {t} : th'[u] = th[u]
  OBVIOUS
<1>2. \A u \in Threads : Claims(th'[u], row', todo') /\ Watches(u, th'[u], row')
  BY <1>1 DEF Owned
<1>3. \A u \in Threads : Holding(th'[u]) => Holding(th[u]) /\ th'[u].job = th[u].job
  BY <1>1
<1>4. HoldsAlone(th', row')
  BY <1>3 DEF Owned, HoldsAlone
<1> QED BY <1>2, <1>4 DEF Owned

LEMMA QuietMove ==
  ASSUME Typed, Owned, NEW t \in Threads, NEW v, Quiet(t, v),
         th[t].pc # "idle" \/ t \notin Jobs \/ v.pc = "idle",
         th' = [th EXCEPT ![t] = v], row' = row, todo' = todo
  PROVE  Owned'
<1>1. t \in Jobs /\ v.pc # "idle" => row[t].pid \/ Gone(row[t])
  BY DEF Owned, Watches
<1>2. Claims(v, row, todo) /\ Watches(t, v, row) /\ ~Holding(v)
  BY <1>1, QuietSound
<1> QED BY <1>2, ThreadMove DEF Typed, TypeOK

(* The ways a call goes on without owning a row. *)
QuietAt(f, t, g) == \E v : Quiet(t, v) /\ g = [f EXCEPT ![t] = v]

LEMMA FinishQuiet ==
  ASSUME NEW f, NEW t \in Threads, f[t].sched = NoJob
  PROVE  QuietAt(f, t, Finish(f, t))
<1>1. CASE t \in Jobs
  <2> DEFINE v == [Idle EXCEPT !.pc = "poll", !.job = t]
  <2>1. Quiet(t, v)
    BY <1>1 DEF Quiet, Idle
  <2> QED BY <1>1, <2>1 DEF Finish, QuietAt
<1>2. CASE t \notin Jobs
  <2>1. Quiet(t, Idle)
    BY DEF Quiet, Idle
  <2>2. Finish(f, t) = [f EXCEPT ![t] = Idle]
    BY <1>2 DEF Finish, Schedule
  <2> QED BY <2>1, <2>2 DEF QuietAt
<1> QED BY <1>1, <1>2

LEMMA GotoQuiet ==
  ASSUME NEW f, NEW t \in Threads, f[t].sched = NoJob,
         NEW pc \in {"orphan", "reload", "stop", "pick", "next"}
  PROVE  QuietAt(f, t, Goto(f, t, pc))
<1> DEFINE v == [Idle EXCEPT !.pc = pc, !.job = f[t].job, !.nested = f[t].nested,
                             !.sched = f[t].sched]
<1>1. Quiet(t, v)
  BY DEF Quiet, Idle
<1> QED BY <1>1 DEF QuietAt, Goto

LEMMA RefusedQuiet ==
  ASSUME NEW f, NEW t \in Threads, f[t].sched = NoJob
  PROVE  QuietAt(f, t, Refused(f, t))
BY FinishQuiet, GotoQuiet DEF Refused

LEMMA AfterApplyQuiet ==
  ASSUME NEW f \in [Threads -> ThreadState], NEW t \in Threads, f[t].sched = NoJob, NEW q, NEW att
  PROVE  QuietAt(f, t, AfterApply(f, t, q, att))
<1> DEFINE g == [f EXCEPT ![t].nested = TRUE]
<1>1. g[t].sched = NoJob /\ (\A v : [g EXCEPT ![t] = v] = [f EXCEPT ![t] = v])
  BY DEF ThreadState
<1> HIDE DEF g
<1>2. QuietAt(g, t, Goto(g, t, "pick")) /\ QuietAt(g, t, Goto(g, t, "reload"))
  BY <1>1, GotoQuiet
<1>3. QuietAt(f, t, Goto(g, t, "pick")) /\ QuietAt(f, t, Goto(g, t, "reload"))
  BY <1>1, <1>2 DEF QuietAt
<1>4. QuietAt(f, t, Goto(f, t, "stop")) /\ QuietAt(f, t, Finish(f, t))
  BY GotoQuiet, FinishQuiet
<1>5. \/ AfterApply(f, t, q, att) = Goto(g, t, "pick")
      \/ AfterApply(f, t, q, att) = Goto(g, t, "reload")
      \/ AfterApply(f, t, q, att) = Goto(f, t, "stop")
      \/ AfterApply(f, t, q, att) = Finish(f, t)
  BY DEF AfterApply, g
<1> QED BY <1>3, <1>4, <1>5

(* A call that returns, or goes on, without touching the table. *)
LEMMA QuietReturn ==
  ASSUME Typed, Owned, NEW t \in Threads, th[t].pc # "idle", QuietAt(th, t, th'),
         row' = row, todo' = todo
  PROVE  Owned'
BY QuietMove DEF QuietAt

LEMMA Thread ==
  ASSUME Typed, Owned, NEW t \in Threads, th[t].pc # "idle"
  PROVE  /\ th[t].sched = NoJob /\ th[t].job \in Jobs
         /\ th \in [Threads -> ThreadState]
         /\ t \in Jobs => row[t].pid \/ Gone(row[t])
BY DEF Typed, TypeOK, Good, GoodThread, Owned, Claims, Watches

(* Nobody else holds the row of a thread that does, unless it is deleted.  *)
LEMMA HolderAlone ==
  ASSUME Owned, NEW t \in Threads, Holding(th[t]), ~Gone(row[th[t].job]),
         NEW u \in Threads \ {t}
  PROVE  ~(Holding(th[u]) /\ th[u].job = th[t].job)
BY DEF Owned, HoldsAlone

(* Nobody holds a row that is absent, that is unfinished and accepted, or  *)
(* that recovery has listed; nor a final row without its reservation.      *)
LEMMA HeldRow ==
  ASSUME Typed, Owned, NEW u \in Threads, Holding(th[u])
  PROVE  LET w == row[th[u].job] IN
         /\ w.st # "absent"
         /\ w.st \in Unfinished => w.st = "queued" /\ ~w.pid
         /\ th[u].job \notin todo
         /\ w.st \in FinalStatus \cup Unfinished => w.res
<1>1. Claims(th[u], row, todo)
  BY DEF Owned
<1>2. CASE Creator(th[u])
  BY <1>1, <1>2 DEF Claims, Unfinished, FinalStatus
<1>3. CASE Retrier(th[u])
  <2>1. th[u].job \in todo => row[th[u].job].st \in Unfinished
    BY DEF Typed, TypeOK, Owned, RowSound
  <2> QED BY <1>1, <1>3, <2>1 DEF Claims, Unfinished, FinalStatus, Gone
<1> QED BY <1>2, <1>3 DEF Holding

LEMMA InsertOwned ==
  ASSUME Typed, Typed', Owned, NEW t \in Threads, Insert(t)
  PROVE  Owned'
<1> DEFINE j == th[t].job
<1>1. /\ th[t].pc = "insert" /\ j \in Jobs /\ th[t].sched = NoJob
      /\ th \in [Threads -> ThreadState] /\ todo' = todo
      /\ t \in Jobs => row[t].pid \/ Gone(row[t])
  BY Thread DEF Insert
<1> DEFINE v == [th[t] EXCEPT !.pc = "create"]
<1>2. /\ v.pc = "create" /\ v.job = j /\ v.sched = NoJob
      /\ [th EXCEPT ![t].pc = "create"] = [th EXCEPT ![t] = v]
  BY <1>1 DEF ThreadState
<1>3. CASE j \notin Follow
  <2>1. ~Holding(v) /\ Claims(v, row, todo) /\ Watches(t, v, row)
    <3> HIDE DEF v
    <3> QED BY <1>1, <1>2, <1>3 DEF Holding, Creator, Retrier, Claims, Watches
  <2>2. th' = [th EXCEPT ![t] = v] /\ row' = row
    BY <1>2, <1>3 DEF Insert
  <2> HIDE DEF v
  <2> QED BY <1>1, <2>1, <2>2, ThreadMove
<1>4. CASE j \in Follow /\ row[j].st = "absent" /\ SeasonFree(j)
  <2> DEFINE w == [st |-> "queued", pid |-> FALSE, res |-> TRUE, canc |-> FALSE, att |-> 1]
  <2>1. th' = [th EXCEPT ![t] = v] /\ row' = [row EXCEPT ![j] = w]
    BY <1>2, <1>4 DEF Insert
  <2>2. RowSound(j, row[j], todo) /\ Watches(j, th[j], row)
    BY <1>1 DEF Owned, Threads
  <2>3. j # t /\ j \notin todo /\ th[j].pc = "idle" /\ ~row[j].pid
    BY <1>1, <1>4, <2>2 DEF RowSound, Watches, Unfinished, Gone
  <2>4. \A u \in Threads : ~(Holding(th[u]) /\ th[u].job = j)
    BY <1>4, HeldRow
  <2>5. /\ row'[j] = w /\ \A k \in Jobs \ {j} : row'[k] = row[k]
        /\ th'[t] = v /\ \A u \in Threads \ {t} : th'[u] = th[u]
    <3> HIDE DEF v, w
    <3> QED BY <1>1, <2>1 DEF Typed, TypeOK
  <2>6. RowSound(j, w, todo) /\ w.st = "queued" /\ w.res /\ ~w.pid
    BY <2>3 DEF RowSound
  <2>7. Claims(v, row', todo') /\ Watches(t, v, row')
    <3> HIDE DEF v, w
    <3> QED BY <1>1, <1>2, <2>3, <2>5, <2>6 DEF Claims, Creator, Retrier, Watches
  <2> HIDE DEF v, w
  <2> QED BY <1>1, <1>2, <1>4, <2>3, <2>4, <2>5, <2>6, <2>7, RowChange DEF Threads, Gone
<1>5. CASE j \in Follow /\ ~(row[j].st = "absent" /\ SeasonFree(j))
  BY <1>1, <1>5, FinishQuiet, QuietReturn DEF Insert
<1> QED BY <1>3, <1>4, <1>5

LEMMA CallCreateMove ==
  ASSUME Typed, NEW t \in Threads, CallCreate(t)
  PROVE  \E v : /\ th' = [th EXCEPT ![t] = v]
                /\ v.pc \in {"store", "reject", "fail"}
                /\ v.job = th[t].job /\ v.sched = th[t].sched
<1>1. th \in [Threads -> ThreadState]
  BY DEF Typed, TypeOK
<1>2. PICK pc \in {"store", "reject", "fail"} :
         \E q : th' = [th EXCEPT ![t].pc = pc, ![t].reply = q]
  <2>1. /\ [th EXCEPT ![t].pc = "fail"] = [th EXCEPT ![t].pc = "fail", ![t].reply = th[t].reply]
        /\ [th EXCEPT ![t].pc = "reject"]
             = [th EXCEPT ![t].pc = "reject", ![t].reply = th[t].reply]
    BY <1>1 DEF ThreadState
  <2>2. [th EXCEPT ![t].pc = "fail", ![t].reply.st = "blocked"]
          = [th EXCEPT ![t].pc = "fail", ![t].reply = [th[t].reply EXCEPT !.st = "blocked"]]
    BY <1>1 DEF ThreadState
  <2> QED BY <2>1, <2>2 DEF CallCreate
<1>3. PICK q : th' = [th EXCEPT ![t].pc = pc, ![t].reply = q]
  BY <1>2
<1> DEFINE v == [th[t] EXCEPT !.pc = pc, !.reply = q]
<1>4. v.pc = pc /\ v.job = th[t].job /\ v.sched = th[t].sched /\ th' = [th EXCEPT ![t] = v]
  BY <1>1, <1>3 DEF ThreadState
<1> HIDE DEF v
<1> QED BY <1>4

LEMMA CallCreateOwned ==
  ASSUME Typed, Owned, NEW t \in Threads, CallCreate(t)
  PROVE  Owned'
<1>1. /\ th[t].pc = "create" /\ th[t].job \in Jobs /\ th[t].sched = NoJob
      /\ th \in [Threads -> ThreadState] /\ todo' = todo /\ row' = row
      /\ t \in Jobs => row[t].pid \/ Gone(row[t])
  BY Thread DEF CallCreate
<1>2. Claims(th[t], row, todo)
  BY DEF Owned
<1>3. PICK v : /\ th' = [th EXCEPT ![t] = v]
               /\ v.pc \in {"store", "reject", "fail"} /\ v.job = th[t].job /\ v.sched = NoJob
  BY <1>1, CallCreateMove
<1>4. /\ Claims(v, row, todo) /\ Watches(t, v, row)
      /\ Holding(v) => Holding(th[t]) /\ v.job = th[t].job
  BY <1>1, <1>2, <1>3 DEF Claims, Watches, Holding, Creator, Retrier
<1> QED BY <1>1, <1>3, <1>4, ThreadMove

(* A call that writes one row and owns none afterwards. *)
LEMMA QuietChange ==
  ASSUME Typed, Typed', Owned, NEW j \in Jobs, NEW t \in Threads, th[t].pc # "idle",
         \A k \in Jobs \ {j} : row'[k] = row[k],
         \A u \in Threads \ {t, j} : th'[u] = th[u],
         todo' \subseteq todo,
         RowSound(j, row'[j], todo'),
         Quiet(t, th'[t]),
         j # t => \/ th'[j] = th[j] /\ (th[j].pc \in {"call", "apply"} => row'[j].st \in Unfinished)
                  \/ Quiet(j, th'[j]) /\ (row'[j].pid \/ Gone(row'[j])),
         \A u \in Threads \ {t} :
            Holding(th[u]) /\ th[u].job = j => row[j].st # "queued" /\ Gone(row'[j]),
         Gone(row[j]) => Gone(row'[j]),
         row[j].pid => row'[j].pid \/ Gone(row'[j])
  PROVE  Owned'
<1>1. t \in Jobs => row[t].pid \/ Gone(row[t])
  BY Thread
<1>2. t \in Jobs => row'[t].pid \/ Gone(row'[t])
  BY <1>1
<1>3. Claims(th'[t], row', todo') /\ Watches(t, th'[t], row') /\ ~Holding(th'[t])
  BY <1>2, QuietSound
<1> QED BY <1>3, RowChange

LEMMA FailCreateOwned ==
  ASSUME Typed, Typed', Owned, NEW t \in Threads, FailCreate(t)
  PROVE  Owned'
<1> DEFINE j == th[t].job
<1>1. /\ th[t].pc = "fail" /\ j \in Jobs /\ th[t].sched = NoJob
      /\ th \in [Threads -> ThreadState] /\ todo' = todo
      /\ t \in Jobs => row[t].pid \/ Gone(row[t])
  BY Thread DEF FailCreate
<1>2. QuietAt(th, t, th')
  BY <1>1, FinishQuiet, GotoQuiet DEF FailCreate
<1>3. CASE j \notin Follow
  BY <1>1, <1>2, <1>3, QuietReturn DEF FailCreate
<1>4. CASE j \in Follow
  <2> DEFINE w == [row[j] EXCEPT !.st = "failed", !.res = FALSE]
  <2>1. row' = [row EXCEPT ![j] = w] /\ w.st = "failed"
    BY <1>1, <1>4 DEF FailCreate, Typed, TypeOK, RowState
  <2>2. /\ Holding(th[t])
        /\ row[j].st = "queued" /\ ~row[j].pid /\ j \notin todo
    BY <1>1, <1>4 DEF Holding, Creator, Owned, Claims
  <2>3. j # t /\ th[j].pc = "idle"
    <3>1. Watches(j, th[j], row)
      BY <1>1 DEF Owned, Threads
    <3> QED BY <1>1, <2>2, <3>1 DEF Watches, Gone
  <2>4. \A u \in Threads \ {t} : ~(Holding(th[u]) /\ th[u].job = j)
    BY <2>2, HolderAlone DEF Gone
  <2>5. /\ row'[j] = w /\ \A k \in Jobs \ {j} : row'[k] = row[k]
        /\ Quiet(t, th'[t]) /\ \A u \in Threads \ {t} : th'[u] = th[u]
    <3> HIDE DEF w
    <3> QED BY <1>1, <1>2, <2>1 DEF QuietAt, Typed, TypeOK
  <2>6. RowSound(j, w, todo)
    <3> HIDE DEF w
    <3> QED BY <2>1, <2>2 DEF RowSound, Unfinished
  <2> HIDE DEF w
  <2> QED BY <1>1, <2>2, <2>3, <2>4, <2>5, <2>6, QuietChange DEF Gone, Threads
<1> QED BY <1>3, <1>4

LEMMA StoreCreateOwned ==
  ASSUME Typed, Typed', Owned, NEW t \in Threads, StoreCreate(t)
  PROVE  Owned'
<1> DEFINE j == th[t].job
           q == th[t].reply
           s == MapState(q.st)
           p == [Idle EXCEPT !.pc = "poll", !.job = j]
<1>1. /\ th[t].pc = "store" /\ j \in Jobs /\ th[t].sched = NoJob
      /\ th \in [Threads -> ThreadState] /\ todo' = todo
      /\ t \in Jobs => row[t].pid \/ Gone(row[t])
  BY Thread DEF StoreCreate
<1>2. s \in Status \ {"absent", "deleted"}
  <2>1. q \in Reply /\ q.st # "none"
    BY <1>1 DEF Typed, Good, GoodThread, ThreadState
  <2> QED BY <2>1 DEF MapState, Reply, PipeStatus, Status, FinalStatus
<1>3. CASE j \notin Follow /\ row[j].st # "absent"
  BY <1>1, <1>3, FinishQuiet, QuietReturn DEF StoreCreate
<1>4. CASE j \in Follow \/ row[j].st = "absent"
  <2>1. PICK w : /\ row' = [row EXCEPT ![j] = w] /\ th' = Finish(Schedule(th, j), t)
                 /\ w.st = s /\ w.pid
                 /\ j \in Follow => w.res = (row[j].res /\ s \notin FinalStatus)
    <3>1. row[j] \in RowState
      BY <1>1 DEF Typed, TypeOK
    <3> DEFINE w1 == [row[j] EXCEPT !.st = s, !.pid = TRUE, !.canc = q.canc,
                                    !.res = @ /\ s \notin FinalStatus]
               w2 == [st |-> s, pid |-> TRUE, res |-> FALSE, canc |-> q.canc, att |-> 1]
    <3>2. w1.st = s /\ w1.pid /\ w1.res = (row[j].res /\ s \notin FinalStatus)
      <4> HIDE DEF s
      <4> QED BY <3>1 DEF RowState
    <3>3. CASE j \in Follow
      <4>1. row' = [row EXCEPT ![j] = w1] /\ th' = Finish(Schedule(th, j), t)
        <5> HIDE DEF s, q
        <5> QED BY <1>1, <3>3 DEF StoreCreate, Typed, TypeOK, s, q
      <4> HIDE DEF w1
      <4> QED BY <3>2, <4>1
    <3>4. CASE j \notin Follow
      <4>1. row' = [row EXCEPT ![j] = w2] /\ th' = Finish(Schedule(th, j), t)
        BY <1>4, <3>4 DEF StoreCreate
      <4>2. w2.st = s /\ w2.pid
        OBVIOUS
      <4> HIDE DEF w2
      <4> QED BY <3>4, <4>1, <4>2
    <3> QED BY <3>3, <3>4
  <2>2. /\ ~row[j].pid /\ ~Gone(row[j])
        /\ j \in Follow => row[j].res /\ j \notin todo /\ Holding(th[t])
    BY <1>1, <1>4 DEF Owned, Claims, RowSound, Holding, Creator, Gone
  <2>3. j # t /\ th[j].pc = "idle"
    <3>1. Watches(j, th[j], row)
      BY <1>1 DEF Owned, Threads
    <3> QED BY <1>1, <2>2, <3>1 DEF Watches, Gone
  <2>4. \A u \in Threads \ {t} : ~(Holding(th[u]) /\ th[u].job = j)
    BY <2>2, HolderAlone DEF Holding, Creator, Retrier
  <2>5. Schedule(th, j) = [th EXCEPT ![j] = p]
    BY <1>1, <2>3, JobsAssumption DEF Schedule
  <2>6. /\ row'[j] = w /\ \A k \in Jobs \ {j} : row'[k] = row[k]
        /\ Quiet(t, th'[t]) /\ th'[j] = p
        /\ \A u \in Threads \ {t, j} : th'[u] = th[u]
    <3> HIDE DEF p
    <3>1. Schedule(th, j)[t].sched = NoJob
      BY <1>1, <2>3, <2>5
    <3>2. QuietAt([th EXCEPT ![j] = p], t, th')
      BY <2>1, <2>5, <3>1, FinishQuiet
    <3> QED BY <1>1, <2>1, <2>3, <3>2 DEF QuietAt, Typed, TypeOK, Threads
  <2>7. Quiet(j, p)
    BY <1>1 DEF Quiet, Idle
  <2>8. RowSound(j, row'[j], todo)
    <3>1. j \notin todo
      BY <1>1, <1>4, <2>2 DEF Owned, RowSound, Unfinished
    <3> HIDE DEF s
    <3> QED BY <1>2, <2>1, <2>2, <2>6, <3>1 DEF RowSound, Status, Unfinished, FinalStatus
  <2> HIDE DEF p
  <2> QED BY <1>1, <2>1, <2>2, <2>3, <2>4, <2>6, <2>7, <2>8, QuietChange DEF Gone
<1> QED BY <1>3, <1>4

(* After the cancel of a task of unknown status the call goes on to fail *)
(* its row, which stays its own.                                         *)
LEMMA RejectMove ==
  ASSUME Typed, NEW t \in Threads, Orphan(t), th[t].pc = "reject"
  PROVE  \E v : /\ th' = [th EXCEPT ![t] = v]
                /\ v.pc = "fail" /\ v.job = th[t].job /\ v.sched = th[t].sched
<1> DEFINE v == [th[t] EXCEPT !.pc = "fail"]
<1>1. v.pc = "fail" /\ v.job = th[t].job /\ v.sched = th[t].sched
  BY DEF Typed, TypeOK, ThreadState
<1>2. th' = [th EXCEPT ![t] = v]
  BY DEF Orphan, Typed, TypeOK
<1> HIDE DEF v
<1> QED BY <1>1, <1>2

LEMMA OrphanOwned ==
  ASSUME Typed, Owned, NEW t \in Threads, Orphan(t)
  PROVE  Owned'
<1>1. /\ th[t].job \in Jobs /\ th[t].sched = NoJob
      /\ th \in [Threads -> ThreadState] /\ todo' = todo /\ row' = row
      /\ t \in Jobs => row[t].pid \/ Gone(row[t])
  BY Thread DEF Orphan
<1>2. CASE th[t].pc = "orphan"
  BY <1>2, Thread, FinishQuiet, QuietReturn DEF Orphan
<1>3. CASE th[t].pc = "reject"
  <2>1. Claims(th[t], row, todo)
    BY DEF Owned
  <2>2. PICK v : /\ th' = [th EXCEPT ![t] = v]
                 /\ v.pc = "fail" /\ v.job = th[t].job /\ v.sched = NoJob
    BY <1>1, <1>3, RejectMove
  <2>3. /\ Claims(v, row, todo) /\ Watches(t, v, row)
        /\ Holding(v) => Holding(th[t]) /\ v.job = th[t].job
    BY <1>1, <1>3, <2>1, <2>2 DEF Claims, Watches, Holding, Creator, Retrier
  <2> QED BY <1>1, <1>3, <2>2, <2>3, ThreadMove
<1> QED BY <1>2, <1>3 DEF Orphan

LEMMA StopOwned ==
  ASSUME Typed, Owned, NEW t \in Threads, Stop(t)
  PROVE  Owned'
BY Thread, FinishQuiet, QuietReturn DEF Stop

LEMMA PickOwned ==
  ASSUME Typed, Owned, NEW t \in Threads, Pick(t)
  PROVE  Owned'
<1>1. /\ th[t].pc # "idle" /\ th[t].sched = NoJob /\ th \in [Threads -> ThreadState]
      /\ row' = row /\ todo' = todo
  BY Thread DEF Pick
<1>2. ASSUME NEW k \in Jobs
      PROVE  QuietAt(th, t, [th EXCEPT ![t].pc = "insert", ![t].job = k, ![t].reply = NoReply])
  <2> DEFINE v == [th[t] EXCEPT !.pc = "insert", !.job = k, !.reply = NoReply]
  <2>1. Quiet(t, v)
    BY <1>1 DEF Quiet, ThreadState
  <2>2. [th EXCEPT ![t].pc = "insert", ![t].job = k, ![t].reply = NoReply] = [th EXCEPT ![t] = v]
    BY <1>1
  <2> QED BY <2>1, <2>2 DEF QuietAt
<1>3. \/ \E k \in Jobs : th' = [th EXCEPT ![t].pc = "insert", ![t].job = k, ![t].reply = NoReply]
      \/ th' = Finish(th, t)
  BY FollowAssumption DEF Pick
<1>4. QuietAt(th, t, th')
  BY <1>1, <1>2, <1>3, FinishQuiet
<1> QED BY <1>1, <1>4, QuietReturn

(* A thread that asks the pipeline, or applies its answer, is the monitor  *)
(* of an accepted, unfinished row, which no other thread owns.             *)
LEMMA MonitoredRow ==
  ASSUME Typed, Owned, NEW t \in Threads, th[t].pc \in {"call", "apply"}
  PROVE  /\ t \in Jobs /\ th[t].job = t
         /\ row[t].st \in Unfinished /\ row[t].pid /\ t \notin todo
         /\ t \in Follow => row[t].res
         /\ \A u \in Threads : ~(Holding(th[u]) /\ th[u].job = t)
<1>1. Watches(t, th[t], row)
  BY DEF Owned
<1>2. t \in Jobs /\ th[t].job = t /\ row[t].st \in Unfinished /\ row[t].pid
  BY <1>1 DEF Watches, Unfinished, Gone
<1>3. t \notin todo /\ (t \in Follow => row[t].res)
  BY <1>2 DEF Owned, RowSound
<1>4. \A u \in Threads : ~(Holding(th[u]) /\ th[u].job = t)
  BY <1>2, HeldRow
<1> QED BY <1>2, <1>3, <1>4

(* A monitor that writes its own row and owns none afterwards. *)
LEMMA MonitorWrites ==
  ASSUME Typed, Typed', Owned, NEW t \in Threads, th[t].pc \in {"call", "apply"},
         QuietAt(th, t, th'), todo' = todo, NEW w, row' = [row EXCEPT ![t] = w], w.pid,
         w.st # "absent", ~Gone(w), t \in Follow /\ w.st \in Unfinished => w.res
  PROVE  Owned'
<1>1. /\ t \in Jobs /\ row[t].st \in Unfinished /\ t \notin todo
      /\ \A u \in Threads : ~(Holding(th[u]) /\ th[u].job = t)
  BY MonitoredRow
<1>2. /\ row'[t] = w /\ \A k \in Jobs \ {t} : row'[k] = row[k]
      /\ Quiet(t, th'[t]) /\ \A u \in Threads \ {t} : th'[u] = th[u]
  BY <1>1 DEF QuietAt, Typed, TypeOK
<1>3. RowSound(t, w, todo)
  BY <1>1 DEF RowSound
<1> QED BY <1>1, <1>2, <1>3, QuietChange DEF Gone, Unfinished

LEMMA CallCancelOwned ==
  ASSUME Typed, Typed', Owned, NEW t \in Threads, CallCancel(t)
  PROVE  Owned'
<1>1. /\ th[t].pc = "call" /\ th[t].sched = NoJob /\ th \in [Threads -> ThreadState]
      /\ todo' = todo
  BY Thread DEF CallCancel
<1>2. /\ t \in Jobs /\ th[t].job = t
      /\ row[t].st \in Unfinished /\ row[t].pid /\ t \notin todo
      /\ t \in Follow => row[t].res
  BY <1>1, MonitoredRow
<1>3. CASE \E q : /\ th' = [th EXCEPT ![t].pc = "apply", ![t].reply = q, ![t].canc = FALSE]
                  /\ row' = row
  <2>1. PICK q : th' = [th EXCEPT ![t].pc = "apply", ![t].reply = q, ![t].canc = FALSE]
    BY <1>3
  <2> DEFINE v == [th[t] EXCEPT !.pc = "apply", !.reply = q, !.canc = FALSE]
  <2>4. v.pc = "apply" /\ v.job = t /\ v.sched = NoJob
    <3>1. th[t] \in ThreadState
      BY <1>1
    <3> QED BY <1>1, <1>2, <3>1 DEF ThreadState
  <2>5. th' = [th EXCEPT ![t] = v]
    BY <1>1, <2>1
  <2>2. v.pc = "apply" /\ v.job = t /\ v.sched = NoJob /\ th' = [th EXCEPT ![t] = v]
    BY <2>4, <2>5
  <2> HIDE DEF v
  <2>3. Claims(v, row, todo) /\ Watches(t, v, row) /\ ~Holding(v)
    BY <1>2, <2>2 DEF Claims, Watches, Holding, Creator, Retrier
  <2> QED BY <1>1, <1>3, <2>2, <2>3, ThreadMove
<1>4. CASE th' = Finish(th, t) /\ row' = row
  BY <1>1, <1>4, FinishQuiet, QuietReturn
<1>5. CASE th' = Finish(th, t) /\ row' = [row EXCEPT ![t].canc = FALSE]
  <2> DEFINE w == [row[t] EXCEPT !.canc = FALSE]
  <2>1. row' = [row EXCEPT ![t] = w] /\ w.st = row[t].st /\ w.pid = row[t].pid /\ w.res = row[t].res
    <3>1. row[t] \in RowState /\ row' = [row EXCEPT ![t] = w]
      BY <1>2, <1>5 DEF Typed, TypeOK
    <3> QED BY <3>1 DEF RowState
  <2> HIDE DEF w
  <2> QED BY <1>1, <1>2, <1>5, <2>1, FinishQuiet, MonitorWrites DEF Gone, Unfinished
<1> QED BY <1>2, <1>3, <1>4, <1>5 DEF CallCancel

LEMMA InvalidOwned ==
  ASSUME Typed, Typed', Owned, NEW t \in Threads, Invalid(t)
  PROVE  Owned'
<1>1. /\ th[t].pc = "apply" /\ th[t].sched = NoJob /\ th \in [Threads -> ThreadState]
      /\ todo' = todo
  BY Thread DEF Invalid
<1>2. t \in Jobs /\ th[t].job = t /\ row[t].st \in Unfinished /\ row[t].pid
  BY <1>1, MonitoredRow
<1>3. /\ Quiet(t, [Idle EXCEPT !.pc = "exit", !.job = t])
      /\ \A n : Quiet(t, [Idle EXCEPT !.pc = "poll", !.job = t, !.inv = n])
  BY <1>2 DEF Quiet, Idle
<1>4. QuietAt(th, t, th')
  BY <1>1, <1>2, <1>3 DEF Invalid, QuietAt
<1>5. CASE row' = row
  BY <1>1, <1>4, <1>5, QuietReturn
<1>6. CASE row' # row
  <2> DEFINE w == [row[t] EXCEPT !.st = "failed", !.res = FALSE]
  <2>1. row' = [row EXCEPT ![t] = w] /\ w.st = "failed" /\ w.pid
    <3>1. row[t] \in RowState
      BY <1>2 DEF Typed, TypeOK
    <3>2. row' = [row EXCEPT ![t].st = "failed", ![t].res = FALSE]
      BY <1>2, <1>6 DEF Invalid
    <3>3. row' = [row EXCEPT ![t] = w]
      BY <1>2, <3>2 DEF Typed, TypeOK
    <3> QED BY <1>2, <3>1, <3>3 DEF RowState
  <2> HIDE DEF w
  <2> QED BY <1>1, <1>4, <2>1, MonitorWrites DEF Gone, Unfinished
<1> QED BY <1>5, <1>6

LEMMA WriteRow ==
  ASSUME Typed, NEW j \in Jobs, Stored(j), NEW s, NEW canc, NEW att, row' = Write(j, s, canc, att)
  PROVE  \E w : /\ row' = [row EXCEPT ![j] = w]
                /\ w.st = s /\ w.pid = row[j].pid
                /\ w.res = (row[j].res /\ s \notin FinalStatus)
<1> DEFINE w == [row[j] EXCEPT !.st = s, !.canc = canc, !.att = att,
                               !.res = @ /\ s \notin FinalStatus]
<1>1. row[j] \in RowState
  BY DEF Typed, TypeOK
<1>2. w.st = s /\ w.pid = row[j].pid /\ w.res = (row[j].res /\ s \notin FinalStatus)
  BY <1>1 DEF RowState
<1>3. row' = [row EXCEPT ![j] = w]
  BY DEF Write, Typed, TypeOK, RowState
<1> HIDE DEF w
<1> QED BY <1>2, <1>3

LEMMA ApplyOwned ==
  ASSUME Typed, Typed', Owned, NEW t \in Threads, Apply(t)
  PROVE  Owned'
<1> DEFINE q == th[t].reply
           s == ApplyState(q.st)
<1>1. /\ th[t].pc = "apply" /\ th[t].sched = NoJob /\ th \in [Threads -> ThreadState]
      /\ todo' = todo
  BY Thread DEF Apply
<1>2. /\ t \in Jobs /\ th[t].job = t /\ row[t].st \in Unfinished /\ row[t].pid
      /\ t \in Follow => row[t].res
  BY <1>1, MonitoredRow
<1>3. QuietAt(th, t, th')
  BY <1>1, AfterApplyQuiet DEF Apply
<1>4. s \in Status \ {"absent", "deleted"}
  <2>1. q \in Reply /\ q.st # "none"
    BY <1>1 DEF Typed, Good, GoodThread, ThreadState
  <2> QED BY <2>1 DEF ApplyState, MapState, Reply, PipeStatus, Status, FinalStatus
<1>5. PICK w : /\ row' = [row EXCEPT ![t] = w]
               /\ w.st = s /\ w.pid = row[t].pid
               /\ w.res = (row[t].res /\ s \notin FinalStatus)
  <2>1. Stored(t)
    BY <1>2 DEF Stored, Unfinished
  <2>2. row' = Write(t, s, q.canc, th[t].att)
    BY <1>2 DEF Apply
  <2> HIDE DEF s, q
  <2> QED BY <1>2, <2>1, <2>2, WriteRow
<1> HIDE DEF s
<1> QED BY <1>1, <1>2, <1>3, <1>4, <1>5, MonitorWrites DEF Gone, Unfinished, FinalStatus

LEMMA LoadRetryOwned ==
  ASSUME Typed, Owned, NEW t \in Threads, NEW j \in Jobs, th' = LoadRetry(th, t, j),
         t \in Jobs => th[t].pc # "idle", row' = row, todo' = todo
  PROVE  Owned'
<1> DEFINE pc == IF j \in Follow THEN "reserve" ELSE "retry"
           v  == [th[t] EXCEPT !.pc = pc, !.job = j, !.att = row[j].att, !.canc = FALSE,
                               !.reply = NoReply]
<1>1. th[t] \in ThreadState /\ th \in [Threads -> ThreadState]
  BY DEF Typed, TypeOK
<1>2. th' = [th EXCEPT ![t] = v]
  BY <1>1 DEF LoadRetry
<1>3. Claims(th[t], row, todo) /\ Watches(t, th[t], row)
  BY DEF Owned
<1>4. v.pc = pc /\ v.job = j /\ v.sched = NoJob
  <2> HIDE DEF pc
  <2> QED BY <1>1, <1>3 DEF ThreadState, Claims
<1> HIDE DEF v
<1>5. Claims(v, row, todo) /\ Watches(t, v, row) /\ ~Holding(v)
  BY <1>3, <1>4 DEF Claims, Watches, Holding, Creator, Retrier
<1> QED BY <1>1, <1>2, <1>5, ThreadMove

LEMMA ReloadOwned ==
  ASSUME Typed, Owned, NEW t \in Threads, Reload(t)
  PROVE  Owned'
<1>1. /\ th[t].pc = "reload" /\ th[t].job \in Jobs /\ th[t].sched = NoJob
      /\ row' = row /\ todo' = todo
  BY Thread DEF Reload
<1>2. th' = LoadRetry(th, t, th[t].job) \/ th' = Refused(th, t)
  BY DEF Reload
<1> QED BY <1>1, <1>2, LoadRetryOwned, RefusedQuiet, QuietReturn

(* A thread other than t at which the step of t leaves the monitor alone. *)
LEMMA MonitorKept ==
  ASSUME Owned, NEW j \in Jobs, th[j].pc \in {"call", "apply"}
  PROVE  row[j].st \in Unfinished
BY DEF Owned, Watches, Threads

LEMMA ReserveOwned ==
  ASSUME Typed, Typed', Owned, NEW t \in Threads, Reserve(t)
  PROVE  Owned'
<1> DEFINE j == th[t].job
<1>1. /\ th[t].pc = "reserve" /\ j \in Jobs /\ th[t].sched = NoJob
      /\ th \in [Threads -> ThreadState] /\ todo' = todo
      /\ t \in Jobs => row[t].pid \/ Gone(row[t])
  BY Thread DEF Reserve
<1>2. CASE ~(Stored(j) /\ ~row[j].res /\ SeasonFree(j))
  BY <1>1, <1>2, RefusedQuiet, QuietReturn DEF Reserve
<1>3. CASE Stored(j) /\ ~row[j].res /\ SeasonFree(j)
  <2> DEFINE v == [th[t] EXCEPT !.pc = "retry"]
             w == [row[j] EXCEPT !.res = TRUE]
  <2>1. th' = [th EXCEPT ![t] = v] /\ row' = [row EXCEPT ![j] = w]
    BY <1>1, <1>3 DEF Reserve, Typed, TypeOK
  <2>2. v.pc = "retry" /\ v.job = j /\ v.sched = NoJob
    BY <1>1 DEF ThreadState
  <2>3. w.st = row[j].st /\ w.pid = row[j].pid /\ w.res
    <3>1. row[j] \in RowState
      BY <1>1 DEF Typed, TypeOK
    <3> HIDE DEF j
    <3> QED BY <3>1 DEF RowState
  <2>4. /\ row'[j] = w /\ \A k \in Jobs \ {j} : row'[k] = row[k]
        /\ th'[t] = v /\ \A u \in Threads \ {t} : th'[u] = th[u]
    <3> HIDE DEF v, w
    <3> QED BY <1>1, <2>1 DEF Typed, TypeOK
  <2>5. row[j].st \in Status /\ row[j].st \notin {"absent", "deleted"}
    BY <1>1, <1>3 DEF Stored, Typed, TypeOK, RowState
  <2>6. RowSound(j, row[j], todo)
    BY <1>1 DEF Owned
  <2>7. j \in Follow => row[j].st \in FinalStatus
    BY <1>3, <2>5, <2>6 DEF RowSound, Status, Unfinished
  <2>8. \A u \in Threads : ~(Holding(th[u]) /\ th[u].job = j)
    BY <1>3, <2>5, HeldRow DEF Status, Unfinished
  <2>9. Claims(v, row', todo') /\ Watches(t, v, row')
    <3> HIDE DEF v, w
    <3>1. t \in Jobs => row'[t].pid \/ Gone(row'[t])
      BY <1>1, <2>3, <2>4 DEF Gone
    <3> QED BY <1>1, <2>2, <2>3, <2>4, <2>7, <3>1 DEF Claims, Creator, Retrier, Watches
  <2>10. RowSound(j, w, todo)
    <3> HIDE DEF w
    <3> QED BY <2>3, <2>6 DEF RowSound
  <2>11. th[j].pc \in {"call", "apply"} => w.st \in Unfinished
    <3> HIDE DEF w
    <3> QED BY <1>1, <2>3, MonitorKept
  <2> HIDE DEF v, w
  <2> QED BY <1>1, <2>2, <2>3, <2>4, <2>8, <2>9, <2>10, <2>11, RowChange DEF Gone, Threads
<1> QED BY <1>2, <1>3

LEMMA CallRetryOwned ==
  ASSUME Typed, Owned, NEW t \in Threads, CallRetry(t)
  PROVE  Owned'
<1> DEFINE j == th[t].job
<1>1. /\ th[t].pc = "retry" /\ j \in Jobs /\ th[t].sched = NoJob
      /\ th \in [Threads -> ThreadState] /\ row' = row /\ todo' = todo
      /\ t \in Jobs => row[t].pid \/ Gone(row[t])
  BY Thread DEF CallRetry
<1>2. Claims(th[t], row, todo)
  BY DEF Owned
<1>3. PICK v : /\ th' = [th EXCEPT ![t] = v]
               /\ v.job = j /\ v.sched = NoJob
               /\ \/ v.pc = "undo"
                  \/ v.pc = "resume" /\ v.reply.st \in {"queued", "invalid"} /\ row[j].pid
  <2>1. CASE th' = Goto(th, t, "undo")
    <3> DEFINE v == [Idle EXCEPT !.pc = "undo", !.job = th[t].job, !.nested = th[t].nested,
                                 !.sched = th[t].sched]
    <3>1. v.pc = "undo" /\ v.job = j /\ v.sched = NoJob
      BY <1>1 DEF Idle
    <3>2. th' = [th EXCEPT ![t] = v]
      BY <2>1 DEF Goto
    <3> HIDE DEF v
    <3> QED BY <3>1, <3>2
  <2>2. CASE row[j].pid /\ \E q \in Replies(AfterRetry) :
               th' = [th EXCEPT ![t].pc = "resume", ![t].reply = q, ![t].att = @ + 1]
    <3>1. PICK q \in Replies(AfterRetry) :
               th' = [th EXCEPT ![t].pc = "resume", ![t].reply = q, ![t].att = @ + 1]
      BY <2>2
    <3>2. q.st \in {"queued", "invalid"}
      BY DEF Replies, AfterRetry
    <3> DEFINE n == th[t].att + 1
               v == [th[t] EXCEPT !.pc = "resume", !.reply = q, !.att = n]
    <3>3. th' = [th EXCEPT ![t] = v]
      BY <1>1, <3>1
    <3>4. v.pc = "resume" /\ v.job = j /\ v.sched = NoJob /\ v.reply = q
      <4> HIDE DEF n
      <4> QED BY <1>1 DEF ThreadState
    <3> HIDE DEF v
    <3> QED BY <2>2, <3>2, <3>3, <3>4
  <2> QED BY <2>1, <2>2 DEF CallRetry
<1>4. /\ Claims(v, row, todo) /\ Watches(t, v, row)
      /\ Holding(v) => Holding(th[t]) /\ v.job = th[t].job
  BY <1>1, <1>2, <1>3 DEF Claims, Watches, Holding, Creator, Retrier
<1> QED BY <1>1, <1>3, <1>4, ThreadMove

LEMMA UndoReserveOwned ==
  ASSUME Typed, Typed', Owned, NEW t \in Threads, UndoReserve(t)
  PROVE  Owned'
<1> DEFINE j == th[t].job
           w == [row[j] EXCEPT !.res = FALSE]
<1>1. /\ th[t].pc = "undo" /\ j \in Jobs /\ th[t].sched = NoJob
      /\ th \in [Threads -> ThreadState] /\ todo' = todo
  BY Thread DEF UndoReserve
<1>2. row' = [row EXCEPT ![j] = w]
  BY <1>1 DEF UndoReserve, Typed, TypeOK
<1>3. w.st = row[j].st /\ w.pid = row[j].pid
  <2>1. row[j] \in RowState
    BY <1>1 DEF Typed, TypeOK
  <2> HIDE DEF j
  <2> QED BY <2>1 DEF RowState
<1>4. QuietAt(th, t, th')
  BY <1>1, RefusedQuiet DEF UndoReserve
<1> HIDE DEF w
<1>5. /\ row'[j] = w /\ \A k \in Jobs \ {j} : row'[k] = row[k]
      /\ Quiet(t, th'[t]) /\ \A u \in Threads \ {t} : th'[u] = th[u]
  BY <1>1, <1>2, <1>4 DEF QuietAt, Typed, TypeOK
<1>6. j \in Follow => Holding(th[t]) /\ (Gone(row[j]) \/ row[j].st \in FinalStatus)
  BY <1>1 DEF Holding, Retrier, Owned, Claims
<1>7. RowSound(j, w, todo)
  <2>1. RowSound(j, row[j], todo)
    BY <1>1 DEF Owned
  <2> QED BY <1>3, <1>6, <2>1 DEF RowSound, Unfinished, FinalStatus, Gone
<1>8. \A u \in Threads \ {t} :
         Holding(th[u]) /\ th[u].job = j => row[j].st # "queued" /\ Gone(row'[j])
  <2> SUFFICES ASSUME NEW u \in Threads \ {t}, Holding(th[u]), th[u].job = j
               PROVE  row[j].st # "queued" /\ Gone(row'[j])
    OBVIOUS
  <2>1. Holding(th[t])
    BY <1>6 DEF Holding, Creator, Retrier
  <2>2. Gone(row[j])
    BY <2>1, HolderAlone
  <2> QED BY <1>3, <1>5, <2>2 DEF Gone
<1>9. th[j].pc \in {"call", "apply"} => w.st \in Unfinished
  BY <1>1, <1>3, MonitorKept
<1> QED BY <1>1, <1>3, <1>5, <1>7, <1>8, <1>9, QuietChange DEF Gone, Threads

LEMMA ResumeOwned ==
  ASSUME Typed, Typed', Owned, NEW t \in Threads, Resume(t)
  PROVE  Owned'
<1> DEFINE j == th[t].job
           q == th[t].reply
           f == [th EXCEPT ![t].sched = j]
           p == [Idle EXCEPT !.pc = "poll", !.job = j]
<1>1. /\ th[t].pc = "resume" /\ j \in Jobs /\ th[t].sched = NoJob
      /\ th \in [Threads -> ThreadState] /\ todo' = todo
      /\ t \in Jobs => row[t].pid \/ Gone(row[t])
  BY Thread DEF Resume
<1>2. /\ q.st \in {"queued", "invalid"} /\ (row[j].pid \/ Gone(row[j]))
      /\ j \in Follow => Gone(row[j]) \/ (row[j].st \in FinalStatus /\ row[j].res)
  BY <1>1 DEF Owned, Claims, Retrier
<1>3. CASE q.st = "invalid"
  BY <1>1, <1>3, RefusedQuiet, QuietReturn DEF Resume
<1>4. CASE q.st = "queued"
  <2>1. ApplyState(q.st) = "queued"
    BY <1>4 DEF ApplyState, MapState
  <2>2. row' = Write(j, "queued", q.canc, th[t].att) /\ th' = AfterApply(f, t, q, th[t].att)
    BY <1>4, <2>1 DEF Resume
  <2>3. th' = Finish(f, t)
    BY <1>1, <1>4, <2>2 DEF AfterApply, Failing
  <2>4. /\ Quiet(t, th'[t]) /\ \A u \in Threads \ {t, j} : th'[u] = th[u]
        /\ j # t => th'[j] = th[j] \/ Quiet(j, th'[j])
    <3>1. Quiet(j, p) /\ Quiet(t, Idle)
      BY <1>1 DEF Quiet, Idle
    <3>2. CASE t \in Jobs
      <4> DEFINE v == [Idle EXCEPT !.pc = "poll", !.job = t]
      <4>1. Quiet(t, v)
        BY <3>2 DEF Quiet, Idle
      <4>2. th' = [th EXCEPT ![t] = v]
        BY <1>1, <2>3, <3>2 DEF Finish
      <4> HIDE DEF v
      <4> QED BY <1>1, <4>1, <4>2 DEF Threads
    <3>3. CASE t \notin Jobs
      <4>1. th' = Schedule([th EXCEPT ![t] = Idle], j)
        <5>1. f[t].sched = j /\ [f EXCEPT ![t] = Idle] = [th EXCEPT ![t] = Idle]
          BY <1>1 DEF ThreadState
        <5>2. Finish(f, t) = Schedule([f EXCEPT ![t] = Idle], f[t].sched)
          BY <3>3 DEF Finish
        <5> QED BY <2>3, <5>1, <5>2
      <4> DEFINE g == [th EXCEPT ![t] = Idle]
      <4>2. th' = g \/ th' = [g EXCEPT ![j] = p]
        BY <4>1 DEF Schedule
      <4> HIDE DEF p
      <4> QED BY <1>1, <3>1, <3>3, <4>2 DEF Threads
    <3> QED BY <3>2, <3>3
  <2>5. PICK w : /\ row' = [row EXCEPT ![j] = w]
                 /\ \/ Gone(row[j]) /\ w = row[j]
                    \/ ~Gone(row[j]) /\ w.st = "queued" /\ w.pid /\ w.res = row[j].res
    <3>1. CASE Gone(row[j])
      <4>1. row' = row
        BY <2>2, <3>1 DEF Write, Stored, Gone
      <4>2. row' = [row EXCEPT ![j] = row[j]]
        BY <1>1, <4>1 DEF Typed, TypeOK
      <4> QED BY <3>1, <4>2
    <3>2. CASE ~Gone(row[j])
      <4>1. Stored(j)
        BY <1>1, <1>2, <3>2 DEF Stored, Gone, Owned, RowSound
      <4>2. PICK w : /\ row' = [row EXCEPT ![j] = w]
                     /\ w.st = "queued" /\ w.pid = row[j].pid
                     /\ w.res = (row[j].res /\ "queued" \notin FinalStatus)
        <5> HIDE DEF q, j
        <5> QED BY <1>1, <2>2, <4>1, WriteRow
      <4>3. row[j].res \in BOOLEAN /\ "queued" \notin FinalStatus
        BY <1>1 DEF Typed, TypeOK, RowState, FinalStatus
      <4> QED BY <1>2, <3>2, <4>2, <4>3
    <3> QED BY <3>1, <3>2
  <2>6. row'[j] = w /\ \A k \in Jobs \ {j} : row'[k] = row[k]
    BY <1>1, <2>5 DEF Typed, TypeOK
  <2>7. RowSound(j, w, todo)
    <3>1. RowSound(j, row[j], todo)
      BY <1>1 DEF Owned
    <3> QED BY <1>2, <2>5, <3>1 DEF RowSound, Gone, Unfinished
  <2>8. \A u \in Threads \ {t} :
           Holding(th[u]) /\ th[u].job = j => row[j].st # "queued" /\ Gone(row'[j])
    <3> SUFFICES ASSUME NEW u \in Threads \ {t}, Holding(th[u]), th[u].job = j
                 PROVE  row[j].st # "queued" /\ Gone(row'[j])
      OBVIOUS
    <3>1. Holding(th[t])
      BY <1>1 DEF Holding, Creator, Retrier
    <3>2. Gone(row[j])
      BY <3>1, HolderAlone
    <3> QED BY <2>5, <2>6, <3>2 DEF Gone
  <2>9. th[j].pc \in {"call", "apply"} => w.st \in Unfinished
    BY <1>1, <2>5, MonitorKept DEF Gone, Unfinished
  <2>10. w.pid \/ Gone(w)
    BY <1>2, <2>5
  <2> HIDE DEF j
  <2> QED BY <1>1, <2>4, <2>5, <2>6, <2>7, <2>8, <2>9, <2>10, QuietChange
<1> QED BY <1>2, <1>3, <1>4

LEMMA MonitorOwned ==
  ASSUME Typed, Owned, NEW j \in Jobs, Poll(j) \/ CallGet(j) \/ Exit(j)
  PROVE  Owned'
<1>1. /\ j \in Threads /\ th[j].pc # "idle" /\ th[j].sched = NoJob
      /\ th \in [Threads -> ThreadState] /\ th[j] \in ThreadState
      /\ row' = row /\ todo' = todo
      /\ row[j].pid \/ Gone(row[j])
  BY Thread DEF Threads, Poll, CallGet, Exit, Typed, TypeOK
<1>2. th[j].pc \in {"poll", "call"} => th[j].job = j
  BY <1>1 DEF Owned, Watches
<1>3. /\ Quiet(j, Idle) /\ Quiet(j, [Idle EXCEPT !.pc = "exit", !.job = j])
  BY DEF Quiet, Idle
<1>4. CASE Poll(j)
  <2>1. CASE Active(j)
    <3> DEFINE v == [th[j] EXCEPT !.pc = "call", !.canc = row[j].canc, !.att = row[j].att]
    <3>1. th' = [th EXCEPT ![j] = v]
      BY <1>1, <1>4, <2>1 DEF Poll
    <3>2. v.pc = "call" /\ v.job = j /\ v.sched = NoJob
      BY <1>1, <1>2, <1>4 DEF Poll, ThreadState
    <3> HIDE DEF v
    <3>3. row[j].st \in Unfinished
      BY <2>1 DEF Active, Unfinished
    <3>4. Claims(v, row, todo) /\ Watches(j, v, row) /\ ~Holding(v)
      BY <1>1, <3>2, <3>3 DEF Claims, Watches, Holding, Creator, Retrier
    <3> QED BY <1>1, <3>1, <3>4, ThreadMove
  <2>2. CASE ~Active(j)
    <3>1. QuietAt(th, j, th')
      BY <1>3, <1>4, <2>2 DEF Poll, QuietAt
    <3> QED BY <1>1, <3>1, QuietReturn
  <2> QED BY <2>1, <2>2
<1>5. CASE CallGet(j)
  <2>1. row[j].st \in Unfinished
    BY <1>5, MonitorKept DEF CallGet
  <2>2. CASE th' = Finish(th, j)
    BY <1>1, <2>2, FinishQuiet, QuietReturn
  <2>3. CASE \E q \in Replies(pipe[j]) : th' = [th EXCEPT ![j].pc = "apply", ![j].reply = q]
    <3>1. PICK q : th' = [th EXCEPT ![j].pc = "apply", ![j].reply = q]
      BY <2>3
    <3> DEFINE v == [th[j] EXCEPT !.pc = "apply", !.reply = q]
    <3>2. th' = [th EXCEPT ![j] = v]
      BY <1>1, <3>1
    <3>3. v.pc = "apply" /\ v.job = j /\ v.sched = NoJob
      BY <1>1, <1>2, <1>5 DEF CallGet, ThreadState
    <3> HIDE DEF v
    <3>4. Claims(v, row, todo) /\ Watches(j, v, row) /\ ~Holding(v)
      BY <1>1, <2>1, <3>3 DEF Claims, Watches, Holding, Creator, Retrier
    <3> QED BY <1>1, <3>2, <3>4, ThreadMove
  <2> QED BY <1>5, <2>2, <2>3 DEF CallGet
<1>6. CASE Exit(j)
  <2>1. QuietAt(th, j, th')
    BY <1>3, <1>6 DEF Exit, QuietAt
  <2> QED BY <1>1, <2>1, QuietReturn
<1> QED BY <1>4, <1>5, <1>6

LEMMA RequestOwned ==
  ASSUME Typed, Owned, NEW r \in Requests, NEW j \in Jobs, "cancel" \notin Ops,
         StartCreate(r, j) \/ StartCancel(r, j) \/ StartRetry(r, j) \/ Abort(r)
  PROVE  Owned'
<1>1. r \in Threads /\ r \notin Jobs /\ row' = row /\ todo' = todo
  BY JobsAssumption DEF Threads, StartCreate, StartCancel, StartRetry, Abort
<1>2. CASE StartCreate(r, j)
  <2> DEFINE v == [Idle EXCEPT !.pc = "insert", !.job = j]
  <2>1. Quiet(r, v) /\ th' = [th EXCEPT ![r] = v]
    BY <1>2 DEF StartCreate, Quiet, Idle
  <2> HIDE DEF v
  <2> QED BY <1>1, <2>1, QuietMove
<1>3. CASE StartRetry(r, j)
  BY <1>1, <1>3, LoadRetryOwned DEF StartRetry
<1>4. CASE Abort(r)
  <2>1. th[r].pc # "idle" /\ th[r].sched = NoJob
    BY <1>1, <1>4, Thread DEF Abort
  <2>2. QuietAt(th, r, th')
    BY <1>1, <1>4, <2>1, FinishQuiet, GotoQuiet DEF Abort
  <2> QED BY <1>1, <2>1, <2>2, QuietReturn
<1>5. ~StartCancel(r, j)
  BY DEF StartCancel
<1> QED BY <1>2, <1>3, <1>4, <1>5

LEMMA DeleteFailedOwned ==
  ASSUME Typed, Typed', Owned, NEW j \in Jobs, DeleteFailed(j)
  PROVE  Owned'
<1>1. /\ j \in Threads /\ th' = th /\ todo' = todo /\ row[j].st = "failed"
      /\ Gone(row'[j]) /\ \A k \in Jobs \ {j} : row'[k] = row[k]
  BY DEF DeleteFailed, Threads, Typed, TypeOK, AbsentRow, Gone
<1>2. Claims(th[j], row, todo) /\ Watches(j, th[j], row) /\ RowSound(j, row[j], todo)
  BY <1>1 DEF Owned
<1>3. RowSound(j, row'[j], todo')
  BY <1>1, <1>2 DEF RowSound, Gone, Unfinished
<1>4. Claims(th'[j], row', todo')
  <2>1. th[j].pc # "idle" => th[j].job \in Jobs
    BY <1>1 DEF Typed, Good, GoodThread
  <2>2. CASE th[j].job = j
    BY <1>1, <1>2, <2>2 DEF Claims, Gone
  <2>3. CASE th[j].job # j
    BY <1>1, <1>2, <2>1, <2>3 DEF Claims, Creator, Retrier
  <2> QED BY <2>2, <2>3
<1>5. Watches(j, th'[j], row')
  BY <1>1, <1>2 DEF Watches, Unfinished
<1> QED BY <1>1, <1>3, <1>4, <1>5, RowChange DEF Gone

LEMMA RecoverRowOwned ==
  ASSUME Typed, Typed', Owned, NEW j \in Jobs, RecoverRow(j)
  PROVE  Owned'
<1> DEFINE p == [Idle EXCEPT !.pc = "poll", !.job = j]
<1>1. j \in Threads /\ j \in todo /\ todo' = todo \ {j} /\ row[j] \in RowState
  BY DEF RecoverRow, Threads, Typed, TypeOK
<1>2. /\ RowSound(j, row[j], todo) /\ Watches(j, th[j], row) /\ Claims(th[j], row, todo)
  BY <1>1 DEF Owned
<1>3. /\ row[j].st \in Unfinished /\ ~row[j].pid /\ th[j].pc = "idle" /\ th[j].sched = NoJob
      /\ j \in Follow => row[j].res
  BY <1>1, <1>2 DEF RowSound, Watches, Claims, Gone, Unfinished
<1>4. \A u \in Threads : ~(Holding(th[u]) /\ th[u].job = j)
  BY <1>1, HeldRow
<1>5. PICK w : /\ row' = [row EXCEPT ![j] = w]
               /\ w.st \in Status \ {"absent", "deleted"}
               /\ \/ th' = Schedule(th, j) /\ w.pid /\ w.res = row[j].res
                  \/ th' = th /\ w.st = "failed"
  <2>1. CASE \E q \in Replies(AfterCreate(pipe[j])) :
               /\ row' = [row EXCEPT ![j].pid = TRUE, ![j].st = MapState(q.st)]
               /\ th' = Schedule(th, j)
    <3>1. PICK q \in Replies(AfterCreate(pipe[j])) :
               row' = [row EXCEPT ![j].pid = TRUE, ![j].st = MapState(q.st)]
      BY <2>1
    <3> DEFINE s == MapState(q.st)
               w == [row[j] EXCEPT !.pid = TRUE, !.st = s]
    <3>2. q \in Reply /\ q.st # "none"
      BY PipeTypes DEF Typed, TypeOK
    <3>3. s \in Status \ {"absent", "deleted"}
      BY <3>2 DEF MapState, Reply, PipeStatus, Status, FinalStatus
    <3>4. row' = [row EXCEPT ![j] = w]
      BY <3>1 DEF Typed, TypeOK
    <3>5. w.st = s /\ w.pid /\ w.res = row[j].res
      <4> HIDE DEF s
      <4> QED BY <1>1 DEF RowState
    <3> HIDE DEF w
    <3> QED BY <2>1, <3>3, <3>4, <3>5
  <2>2. CASE row' = [row EXCEPT ![j].st = "failed", ![j].res = FALSE] /\ th' = th
    <3> DEFINE w == [row[j] EXCEPT !.st = "failed", !.res = FALSE]
    <3>1. row' = [row EXCEPT ![j] = w]
      BY <2>2 DEF Typed, TypeOK
    <3>2. w.st = "failed" /\ "failed" \in Status
      BY <1>1 DEF RowState, Status, FinalStatus
    <3> HIDE DEF w
    <3> QED BY <2>2, <3>1, <3>2
  <2> QED BY <2>1, <2>2 DEF RecoverRow
<1>6. row'[j] = w /\ \A k \in Jobs \ {j} : row'[k] = row[k]
  BY <1>5 DEF Typed, TypeOK
<1>7. /\ Quiet(j, th'[j]) /\ \A u \in Threads \ {j} : th'[u] = th[u]
      /\ th'[j].pc # "idle" => w.pid
  <2>1. Quiet(j, p) /\ Quiet(j, th[j])
    BY <1>3 DEF Quiet, Idle
  <2>2. CASE th' = th
    BY <1>3, <2>1, <2>2
  <2>3. CASE th' = Schedule(th, j) /\ w.pid
    <3>1. th' = [th EXCEPT ![j] = p]
      BY <1>3, <2>3, JobsAssumption DEF Schedule
    <3> HIDE DEF p
    <3> QED BY <1>1, <2>1, <2>3, <3>1 DEF Typed, TypeOK
  <2> QED BY <1>5, <2>2, <2>3
<1>8. Claims(th'[j], row', todo') /\ Watches(j, th'[j], row') /\ ~Holding(th'[j])
  BY <1>1, <1>6, <1>7, QuietSound
<1>9. RowSound(j, w, todo')
  BY <1>1, <1>3, <1>5 DEF RowSound, Unfinished
<1> QED BY <1>1, <1>3, <1>4, <1>6, <1>7, <1>8, <1>9, RowChange DEF Gone, Unfinished

LEMMA CrashOwned ==
  ASSUME Owned, Crash
  PROVE  Owned'
<1>1. /\ row' = row /\ todo' = {} /\ \A t \in Threads : th'[t] = Idle
  BY DEF Crash
<1>2. \A t \in Threads : Quiet(t, Idle) /\ Idle.pc = "idle"
  BY DEF Quiet, Idle
<1>3. \A t \in Threads : Claims(th'[t], row', todo') /\ Watches(t, th'[t], row') /\ ~Holding(th'[t])
  BY <1>1, <1>2, QuietSound
<1>4. \A j \in Jobs : RowSound(j, row'[j], todo')
  BY <1>1 DEF Owned, RowSound
<1> QED BY <1>3, <1>4 DEF Owned, HoldsAlone

LEMMA BootOwned ==
  ASSUME Owned, Boot
  PROVE  Owned'
<1>1. row' = row /\ todo' = {j \in Jobs : Active(j) /\ ~row[j].pid}
  BY DEF Boot
<1>2. ASSUME NEW t \in Threads
      PROVE  Claims(th'[t], row', todo') /\ Watches(t, th'[t], row') /\ ~Holding(th'[t])
  <2> DEFINE p == [Idle EXCEPT !.pc = "poll", !.job = t]
  <2>1. CASE t \in Jobs /\ row[t].pid /\ Active(t)
    <3>1. th'[t] = p
      BY <2>1 DEF Boot
    <3>2. Quiet(t, p)
      BY <2>1 DEF Quiet, Idle
    <3> HIDE DEF p
    <3> QED BY <1>1, <2>1, <3>1, <3>2, QuietSound
  <2>2. CASE ~(t \in Jobs /\ row[t].pid /\ Active(t))
    <3>1. th'[t] = Idle
      BY <2>2 DEF Boot
    <3>2. Quiet(t, Idle) /\ Idle.pc = "idle"
      BY DEF Quiet, Idle
    <3> QED BY <1>1, <3>1, <3>2, QuietSound
  <2> QED BY <2>1, <2>2
<1>3. \A j \in Jobs : RowSound(j, row'[j], todo')
  BY <1>1 DEF Owned, RowSound, Active, Unfinished
<1> QED BY <1>2, <1>3 DEF Owned, HoldsAlone

LEMMA InitOwned == Init => Owned
<1> SUFFICES ASSUME Init PROVE Owned
  OBVIOUS
<1>1. \A t \in Threads : th[t] = Idle /\ Quiet(t, Idle) /\ Idle.pc = "idle"
  BY DEF Init, Quiet, Idle
<1>2. \A t \in Threads : Claims(th[t], row, todo) /\ Watches(t, th[t], row) /\ ~Holding(th[t])
  BY <1>1, QuietSound
<1>3. \A j \in Jobs : RowSound(j, row[j], todo)
  BY DEF Init, AbsentRow, RowSound, Unfinished
<1> QED BY <1>2, <1>3 DEF Owned, HoldsAlone

LEMMA NextOwned ==
  ASSUME "cancel" \notin Ops, Typed, Owned, [Next]_vars
  PROVE  Owned'
<1>1. Typed'
  BY NextTyped
<1>2. ASSUME NEW t \in Threads, Step(t) PROVE Owned'
  BY <1>1, <1>2, InsertOwned, CallCreateOwned, FailCreateOwned, StoreCreateOwned, OrphanOwned,
     CallCancelOwned, InvalidOwned, ApplyOwned, ReloadOwned, ReserveOwned, CallRetryOwned,
     UndoReserveOwned, ResumeOwned, StopOwned, PickOwned DEF Step
<1>3. CASE UNCHANGED <<row, th, todo>>
  BY <1>3 DEF Owned, HoldsAlone, RowSound, Claims, Watches, Gone
<1>4. ASSUME NEW r \in Requests,
             \/ \E j \in Jobs : StartCreate(r, j) \/ StartCancel(r, j) \/ StartRetry(r, j)
             \/ Step(r)
             \/ Abort(r)
      PROVE  Owned'
  <2>1. CASE Abort(r)
    <3>1. th[r].pc # "idle" /\ r \in Threads
      BY <2>1 DEF Abort, Threads
    <3>2. th[r].job \in Jobs
      BY <3>1, Thread
    <3> QED BY <2>1, <3>2, RequestOwned
  <2> QED BY <1>2, <1>4, <2>1, RequestOwned DEF Threads
<1>5. ASSUME NEW j \in Jobs, DeleteFailed(j) \/ Monitor(j) \/ Pipeline(j) \/ RecoverRow(j)
      PROVE  Owned'
  <2>1. Pipeline(j) => UNCHANGED <<row, th, todo>>
    BY DEF Pipeline, PipeStart, PipeEnd
  <2> QED BY <1>1, <1>2, <1>3, <1>5, <2>1, DeleteFailedOwned, MonitorOwned, RecoverRowOwned
       DEF Monitor, Threads
<1> QED BY <1>3, <1>4, <1>5, CrashOwned, BootOwned DEF Next, vars

(* Without cancels, an unfinished follow row always holds its season,      *)
(* whatever fails, aborts or crashes, for any number of jobs and requests.  *)
THEOREM ActiveHolds ==
  ASSUME "cancel" \notin Ops
  PROVE  Spec => []ActiveReserved
<1>1. Typed /\ Owned /\ [Next]_vars => Typed' /\ Owned'
  BY NextTyped, NextOwned
<1>2. Owned => ActiveReserved
  BY FollowAssumption DEF Owned, RowSound, ActiveReserved, Active, Unfinished
<1> QED BY <1>1, <1>2, InitTyped, InitOwned, PTL DEF Spec

(* Hence at most one follow row of a season is unfinished: the reservation *)
(* is unique, and every unfinished row has one.                            *)
THEOREM SeasonExclusive ==
  ASSUME "cancel" \notin Ops
  PROVE  Spec => []OneActive
<1>1. ActiveReserved /\ OneReservation => OneActive
  BY FollowAssumption DEF ActiveReserved, OneReservation, OneActive, Mates
<1> QED BY <1>1, ActiveHolds, ReservationUnique, PTL

(* A step that makes a final row unfinished again is the one that records  *)
(* an accepted retry: monitors, creations and recovery write to unfinished *)
(* rows only.                                                              *)
LEMMA FinalStep ==
  ASSUME Typed, Typed', Owned, Next,
         NEW j \in Jobs, row[j].st \in FinalStatus, row'[j].st \notin FinalStatus \cup {"deleted"}
  PROVE  \E t \in Threads : th[t].job = j /\ th[t].pc = "resume"
<1>1. row[j] \in RowState /\ row \in [Jobs -> RowState]
  BY SMTT(30) DEF Typed, TypeOK
<1>2. ASSUME NEW t \in Threads, Step(t), ~Resume(t) PROVE FALSE
  <2>1. CASE Insert(t)
    <3>1. row' = row \/ th[t].job # j
      BY <2>1 DEF Insert, FinalStatus
    <3>2. th[t].job # j => row'[j] = row[j]
      BY <1>1, <2>1 DEF Insert
    <3> QED BY <3>1, <3>2
  <2>2. CASE FailCreate(t)
    BY <1>1, <2>2 DEF FailCreate, FinalStatus, RowState
  <2>3. CASE StoreCreate(t)
    <3>1. CASE th[t].job # j
      BY <1>1, <2>3, <3>1 DEF StoreCreate
    <3>2. CASE th[t].job = j
      <4>1. j \in Follow => row[j].st = "queued"
        BY <2>3, <3>2 DEF StoreCreate, Owned, Claims, Creator
      <4>2. j \notin Follow
        BY <4>1 DEF FinalStatus
      <4> QED BY <1>1, <2>3, <3>2, <4>2 DEF StoreCreate, FinalStatus
    <3> QED BY <3>1, <3>2
  <2>4. CASE CallCancel(t)
    <3> DEFINE k == th[t].job
    <3>1. row' = row \/ row' = [row EXCEPT ![k].canc = FALSE]
      BY <2>4 DEF CallCancel
    <3> HIDE DEF k
    <3>2. row'[j].st = row[j].st
      BY <1>1, <3>1 DEF RowState
    <3> QED BY <3>2
  <2>5. CASE Invalid(t)
    BY <1>1, <2>5 DEF Invalid, RowState, FinalStatus
  <2>6. CASE Apply(t)
    <3>1. th[t].job = t /\ row[t].st \in Unfinished
      BY <2>6, MonitoredRow DEF Apply
    <3>2. t # j
      BY <3>1 DEF Unfinished, FinalStatus
    <3>3. row'[j] = row[j]
      BY <1>1, <2>6, <3>1, <3>2 DEF Apply, Write
    <3> QED BY <3>3
  <2>7. CASE Reserve(t)
    BY <1>1, <2>7 DEF Reserve, RowState
  <2>8. CASE UndoReserve(t)
    BY <1>1, <2>8 DEF UndoReserve, RowState
  <2>9. CASE row' = row
    BY <2>9
  <2> QED BY <1>2, <2>1, <2>2, <2>3, <2>4, <2>5, <2>6, <2>7, <2>8, <2>9
       DEF Step, CallCreate, Orphan, Reload, CallRetry, Stop, Pick
<1>3. ASSUME NEW t \in Threads, Resume(t) PROVE th[t].job = j /\ th[t].pc = "resume"
  <2>1. th[t].job # j => row'[j] = row[j]
    BY <1>1, <1>3 DEF Resume, Write
  <2> QED BY <1>3, <2>1 DEF Resume
<1>4. ASSUME NEW r \in Requests, NEW k \in Jobs,
             StartCreate(r, k) \/ StartCancel(r, k) \/ StartRetry(r, k) \/ Abort(r)
      PROVE  FALSE
  BY <1>1, <1>4 DEF StartCreate, StartCancel, StartRetry, Abort, RowState
<1>5. ASSUME NEW k \in Jobs, RecoverRow(k) PROVE FALSE
  <2>1. k \in todo
    BY <1>5 DEF RecoverRow
  <2>2. RowSound(k, row[k], todo)
    BY DEF Owned
  <2>3. k # j
    BY <2>1, <2>2 DEF RowSound, Unfinished, FinalStatus
  <2> QED BY <1>1, <1>5, <2>3 DEF RecoverRow
<1>6. ASSUME NEW k \in Jobs, DeleteFailed(k) \/ Pipeline(k) \/ Poll(k) \/ CallGet(k) \/ Exit(k)
      PROVE  FALSE
  BY <1>1, <1>6 DEF DeleteFailed, AbsentRow, Pipeline, PipeStart, PipeEnd, Poll, CallGet, Exit
<1>7. ~Crash /\ ~Boot
  BY DEF Crash, Boot
<1>8. ASSUME NEW r \in Requests, Abort(r) PROVE FALSE
  BY <1>8 DEF Abort
<1>9. PICK t \in Threads : Step(t)
  BY <1>4, <1>5, <1>6, <1>7, <1>8 DEF Next, Monitor, Threads
<1> QED BY <1>2, <1>3, <1>9

(* A final row becomes unfinished again only by an accepted retry, which   *)
(* the reservation serializes, for any instance without cancels.           *)
THEOREM FinalKept ==
  ASSUME "cancel" \notin Ops
  PROVE  Spec => FinalLeftByRetry
<1> DEFINE Kept == \A j \in Jobs :
              row[j].st \in FinalStatus /\ row'[j].st \notin FinalStatus \cup {"deleted"}
                => \E t \in Threads : th[t].job = j /\ th[t].pc = "resume"
<1>1. Typed /\ Owned /\ [Next]_vars => Typed' /\ Owned' /\ [Kept]_vars
  <2> SUFFICES ASSUME Typed, Owned, [Next]_vars PROVE Typed' /\ Owned' /\ [Kept]_vars
    OBVIOUS
  <2>1. Typed' /\ Owned'
    BY NextTyped, NextOwned
  <2>2. CASE Next
    BY <2>1, <2>2, FinalStep
  <2> QED BY <2>1, <2>2
<1> QED BY <1>1, InitTyped, InitOwned, PTL DEF Spec, FinalLeftByRetry

-----------------------------------------------------------------------------
(* What a row and an answer under way say of a success.  A task that has   *)
(* ended in success stays so: the pipeline cancels and retries no such     *)
(* task, and creating it again answers with it.                            *)
Success(s)   == s \in {"completed", "hollow"}
Answering(v) == v.pc \in {"store", "apply", "resume"}
Truthful(v, p) == Answering(v) /\ Success(v.reply.st) => Success(p[v.job].st)

(* A monitor polls for its own job. *)
OwnJob(u, v) == u \in Jobs /\ v.pc \in {"poll", "call"} => v.job = u
Settled(u, v) == ~Answering(v) /\ OwnJob(u, v)

Real ==
  /\ \A j \in Jobs : row[j].st = "completed" => Success(pipe[j].st)
  /\ \A t \in Threads : Truthful(th[t], pipe) /\ OwnJob(t, th[t])

(* Each thread of g is the one of f or has no answer in hand. *)
Settles(f, g) == \A u \in Threads : g[u] = f[u] \/ Settled(u, g[u])

LEMMA SettleOne ==
  ASSUME NEW f \in [Threads -> ThreadState], NEW t, NEW v, Settled(t, v)
  PROVE  Settles(f, [f EXCEPT ![t] = v])
BY DEF Settles

LEMMA ScheduleSettles ==
  ASSUME NEW f \in [Threads -> ThreadState], NEW k
  PROVE  Settles(f, Schedule(f, k))
<1> DEFINE v == [Idle EXCEPT !.pc = "poll", !.job = k]
<1>1. Settled(k, v)
  BY DEF Settled, OwnJob, Answering, Idle
<1>2. Settles(f, [f EXCEPT ![k] = v])
  <2> HIDE DEF v
  <2> QED BY <1>1, SettleOne
<1>3. Settles(f, f)
  BY DEF Settles
<1> QED BY <1>2, <1>3 DEF Schedule

LEMMA FinishSettles ==
  ASSUME NEW f, Good(f), NEW t \in Threads
  PROVE  Settles(f, Finish(f, t))
<1>1. Settled(t, Idle) /\ Settled(t, [Idle EXCEPT !.pc = "poll", !.job = t])
  BY DEF Settled, OwnJob, Answering, Idle
<1>2. CASE t \in Jobs
  <2> DEFINE v == [Idle EXCEPT !.pc = "poll", !.job = t]
  <2>1. Settled(t, v)
    BY <1>1
  <2>2. Settles(f, [f EXCEPT ![t] = v])
    <3> HIDE DEF v
    <3> QED BY <2>1, SettleOne DEF Good
  <2> QED BY <1>2, <2>2 DEF Finish
<1>3. CASE t \notin Jobs
  <2> DEFINE g == [f EXCEPT ![t] = Idle]
  <2>1. g \in [Threads -> ThreadState]
    BY IdleType DEF Good
  <2>2. Settles(f, g)
    BY <1>1, SettleOne DEF Good
  <2>3. Settles(g, Schedule(g, f[t].sched))
    <3> HIDE DEF g
    <3> QED BY <2>1, ScheduleSettles
  <2>4. Finish(f, t) = Schedule(g, f[t].sched)
    BY <1>3 DEF Finish
  <2> QED BY <2>2, <2>3, <2>4 DEF Settles
<1> QED BY <1>2, <1>3

LEMMA GotoSettles ==
  ASSUME NEW f \in [Threads -> ThreadState], NEW t \in Threads,
         NEW pc \in Pc \ {"store", "apply", "resume", "poll", "call"}
  PROVE  Settles(f, Goto(f, t, pc))
<1> DEFINE v == [Idle EXCEPT !.pc = pc, !.job = f[t].job, !.nested = f[t].nested,
                             !.sched = f[t].sched]
<1>1. Settled(t, v)
  BY DEF Settled, OwnJob, Answering, Idle
<1>2. Settles(f, [f EXCEPT ![t] = v])
  <2> HIDE DEF v
  <2> QED BY <1>1, SettleOne
<1> QED BY <1>2 DEF Goto

LEMMA GotoThere ==
  ASSUME NEW f \in [Threads -> ThreadState], NEW t \in Threads,
         NEW pc \in Pc \ {"store", "apply", "resume", "poll", "call"}
  PROVE  Settled(t, Goto(f, t, pc)[t])
<1> DEFINE v == [Idle EXCEPT !.pc = pc, !.job = f[t].job, !.nested = f[t].nested,
                             !.sched = f[t].sched]
<1>1. Settled(t, v)
  BY DEF Settled, OwnJob, Answering, Idle
<1>2. Goto(f, t, pc)[t] = v
  BY DEF Goto
<1> QED BY <1>1, <1>2

LEMMA RefusedSettles ==
  ASSUME NEW f, Good(f), NEW t \in Threads
  PROVE  Settles(f, Refused(f, t))
BY FinishSettles, GotoSettles DEF Refused, Good, Pc

LEMMA AfterApplySettles ==
  ASSUME NEW f, Good(f), NEW t \in Threads, NEW q, NEW att
  PROVE  Settles(f, AfterApply(f, t, q, att))
<1> DEFINE g == [f EXCEPT ![t].nested = TRUE]
<1>1. g \in [Threads -> ThreadState] /\ \A v : [g EXCEPT ![t] = v] = [f EXCEPT ![t] = v]
  BY DEF Good, ThreadState
<1>2. g[t].job = f[t].job /\ g[t].sched = f[t].sched /\ g[t].nested = TRUE
  BY DEF Good, ThreadState
<1>3. ASSUME NEW pc \in Pc \ {"store", "apply", "resume", "poll", "call"}
      PROVE  Settles(f, Goto(g, t, pc))
  <2> DEFINE v == [Idle EXCEPT !.pc = pc, !.job = g[t].job, !.nested = g[t].nested,
                               !.sched = g[t].sched]
  <2>1. Settled(t, v)
    BY DEF Settled, OwnJob, Answering, Idle
  <2>2. Goto(g, t, pc) = [f EXCEPT ![t] = v]
    <3>1. Goto(g, t, pc) = [g EXCEPT ![t] = v]
      BY DEF Goto
    <3> HIDE DEF g, v
    <3> QED BY <1>1, <3>1
  <2>3. Settles(f, [f EXCEPT ![t] = v])
    <3> HIDE DEF v, g
    <3> QED BY <2>1, SettleOne DEF Good
  <2> HIDE DEF v, g
  <2> QED BY <2>2, <2>3
<1>4. Settles(f, Goto(f, t, "stop")) /\ Settles(f, Finish(f, t))
  BY GotoSettles, FinishSettles DEF Good, Pc
<1>5. Settles(f, Goto(g, t, "pick")) /\ Settles(f, Goto(g, t, "reload"))
  BY <1>3 DEF Pc
<1>6. \/ AfterApply(f, t, q, att) = Goto(g, t, "pick")
      \/ AfterApply(f, t, q, att) = Goto(g, t, "reload")
      \/ AfterApply(f, t, q, att) = Goto(f, t, "stop")
      \/ AfterApply(f, t, q, att) = Finish(f, t)
  BY DEF AfterApply
<1> HIDE DEF g
<1> QED BY <1>4, <1>5, <1>6

(* A success stays one, whatever the client asks of the pipeline. *)
LEMMA SuccessStays ==
  ASSUME NEW p, Success(p.st)
  PROVE  AfterCreate(p) = p /\ AfterCancel(p) = p /\ ~CanRetryPipe(p)
<1>1. p.st \notin {"none", "queued", "running", "failed", "blocked", "canceled", "warning"}
  BY DEF Success
<1>2. AfterCreate(p) = p
  BY <1>1 DEF AfterCreate
<1>3. AfterCancel(p) = p
  BY <1>1 DEF AfterCancel
<1>4. ~CanRetryPipe(p)
  BY <1>1 DEF CanRetryPipe
<1> QED BY <1>2, <1>3, <1>4

LEMMA AnswerTrue ==
  ASSUME NEW p \in [st : PipeStatus, canc : BOOLEAN], NEW q \in Replies(p), Success(q.st)
  PROVE  Success(p.st)
BY DEF Replies, Success

LEMMA SuccessStates ==
  ASSUME NEW s, MapState(s) = "completed" \/ ApplyState(s) = "completed"
  PROVE  Success(s)
<1>1. CASE s \in {"blocked", "hollow", "invalid"}
  BY <1>1 DEF MapState, ApplyState, Success
<1>2. CASE s \notin {"blocked", "hollow", "invalid"}
  BY <1>2 DEF MapState, ApplyState, Success
<1> QED BY <1>1, <1>2

(* The step of one thread: what it must show. *)
LEMMA RealKept ==
  ASSUME Typed, Real,
         \A j \in Jobs : Success(pipe[j].st) => Success(pipe'[j].st),
         \A j \in Jobs : row'[j].st = "completed" =>
                            row[j].st = "completed" \/ Success(pipe'[j].st),
         \A u \in Threads : \/ th'[u] = th[u] \/ Settled(u, th'[u])
                            \/ /\ Answering(th'[u])
                               /\ Success(th'[u].reply.st) => Success(pipe'[th'[u].job].st)
  PROVE  Real'
<1>1. ASSUME NEW u \in Threads, th'[u] = th[u]
      PROVE  Truthful(th[u], pipe')
  <2>1. Truthful(th[u], pipe)
    BY DEF Real
  <2>2. Answering(th[u]) => th[u].job \in Jobs
    BY DEF Typed, Good, GoodThread, Answering
  <2> QED BY <2>1, <2>2 DEF Truthful
<1>2. \A u \in Threads : Truthful(th'[u], pipe') /\ OwnJob(u, th'[u])
  BY <1>1 DEF Truthful, Settled, Answering, OwnJob, Real
<1>3. \A j \in Jobs : row'[j].st = "completed" => Success(pipe'[j].st)
  BY DEF Real
<1> QED BY <1>2, <1>3 DEF Real

LEMMA Caller ==
  ASSUME Typed, NEW t \in Threads, th[t].pc # "idle"
  PROVE  /\ th[t].job \in Jobs /\ th[t] \in ThreadState
         /\ th \in [Threads -> ThreadState] /\ Good(th)
         /\ row \in [Jobs -> RowState] /\ row[th[t].job] \in RowState
         /\ pipe \in [Jobs -> [st : PipeStatus, canc : BOOLEAN]]
         /\ pipe[th[t].job] \in [st : PipeStatus, canc : BOOLEAN]
BY DEF Typed, TypeOK, Good, GoodThread

(* The steps that neither answer nor make a row completed. *)
LEMMA SilentReal ==
  ASSUME Typed, Real, Settles(th, th'),
         pipe' = pipe \/ \E j \in Jobs : pipe' = [pipe EXCEPT ![j] = AfterCancel(pipe[j])],
         \A j \in Jobs : row'[j].st = "completed" => row[j].st = "completed"
  PROVE  Real'
<1>1. \A j \in Jobs : Success(pipe[j].st) => Success(pipe'[j].st)
  BY SuccessStays DEF Typed, TypeOK
<1> QED BY <1>1, RealKept DEF Settles

LEMMA InsertReal ==
  ASSUME Typed, Real, NEW t \in Threads, Insert(t)
  PROVE  Real'
<1>1. Settles(th, Finish(th, t))
  BY FinishSettles DEF Typed
<1>2. Settles(th, [th EXCEPT ![t].pc = "create"])
  BY Caller DEF Insert, Settles, Settled, OwnJob, Answering, ThreadState
<1>3. \A j \in Jobs : row'[j].st = "completed" => row[j].st = "completed"
  BY Caller DEF Insert
<1> QED BY <1>1, <1>2, <1>3, SilentReal DEF Insert

LEMMA CallCreateReal ==
  ASSUME Typed, Real, NEW t \in Threads, CallCreate(t)
  PROVE  Real'
<1> DEFINE j == th[t].job
           p == AfterCreate(pipe[j])
<1>1. /\ j \in Jobs /\ th \in [Threads -> ThreadState] /\ th[t] \in ThreadState
      /\ pipe \in [Jobs -> [st : PipeStatus, canc : BOOLEAN]] /\ row' = row
  BY Caller DEF CallCreate
<1>2. p \in [st : PipeStatus, canc : BOOLEAN]
  BY <1>1, PipeTypes
<1>3. pipe' = pipe \/ pipe' = [pipe EXCEPT ![j] = p]
  BY DEF CallCreate
<1>4. Success(pipe[j].st) => p = pipe[j]
  BY SuccessStays
<1>5. \A k \in Jobs : Success(pipe[k].st) => Success(pipe'[k].st)
  <2> HIDE DEF p, j
  <2> QED BY <1>1, <1>3, <1>4
<1>6. CASE Settles(th, th')
  BY <1>1, <1>5, <1>6, RealKept DEF Settles
<1>7. CASE \E q \in Replies(p) : /\ th' = [th EXCEPT ![t].pc = "store", ![t].reply = q]
                                 /\ pipe' = [pipe EXCEPT ![j] = p]
  <2>1. PICK q \in Replies(p) : th' = [th EXCEPT ![t].pc = "store", ![t].reply = q]
    BY <1>7
  <2>2. /\ Answering(th'[t]) /\ th'[t].job = j /\ th'[t].reply = q
        /\ \A u \in Threads \ {t} : th'[u] = th[u]
    BY <1>1, <2>1 DEF ThreadState, Answering
  <2>3. pipe'[j] = p
    <3> HIDE DEF p, j
    <3> QED BY <1>1, <1>7
  <2>4. Success(q.st) => Success(pipe'[j].st)
    BY <1>2, <2>3, AnswerTrue
  <2> QED BY <1>1, <1>5, <2>2, <2>4, RealKept
<1>8. /\ Settles(th, [th EXCEPT ![t].pc = "fail"])
      /\ Settles(th, [th EXCEPT ![t].pc = "reject"])
      /\ Settles(th, [th EXCEPT ![t].pc = "fail", ![t].reply.st = "blocked"])
  BY <1>1 DEF Settles, Settled, OwnJob, Answering, ThreadState
<1> QED BY <1>6, <1>7, <1>8 DEF CallCreate

LEMMA FailCreateReal ==
  ASSUME Typed, Real, NEW t \in Threads, FailCreate(t)
  PROVE  Real'
<1>1. Settles(th, th')
  BY FinishSettles, GotoSettles DEF FailCreate, Typed, Good, Pc
<1>2. \A j \in Jobs : row'[j].st = "completed" => row[j].st = "completed"
  BY Caller DEF FailCreate, RowState
<1> QED BY <1>1, <1>2, SilentReal DEF FailCreate

LEMMA StoreCreateReal ==
  ASSUME Typed, Real, NEW t \in Threads, StoreCreate(t)
  PROVE  Real'
<1> DEFINE j == th[t].job
           q == th[t].reply
           s == MapState(q.st)
<1>1. /\ j \in Jobs /\ th \in [Threads -> ThreadState] /\ Good(th)
      /\ row \in [Jobs -> RowState] /\ row[j] \in RowState /\ pipe' = pipe
  BY Caller DEF StoreCreate
<1>2. Settles(th, th')
  <2>1. Settles(th, Finish(th, t)) /\ Settles(th, Schedule(th, j))
    BY <1>1, FinishSettles, ScheduleSettles
  <2>2. Settles(Schedule(th, j), Finish(Schedule(th, j), t))
    BY <1>1, ScheduleGood, FinishSettles
  <2>3. th' = Finish(th, t) \/ th' = Finish(Schedule(th, j), t)
    BY DEF StoreCreate
  <2> QED BY <2>1, <2>2, <2>3 DEF Settles
<1>3. s = "completed" => Success(pipe[j].st)
  BY SuccessStates DEF Real, Truthful, Answering, StoreCreate
<1>4. /\ \A k \in Jobs \ {j} : row'[k] = row[k]
      /\ row'[j] = row[j] \/ row'[j].st = s
  <2> HIDE DEF s, q
  <2> QED BY <1>1 DEF StoreCreate, RowState, s, q
<1>5. \A k \in Jobs : row'[k].st = "completed" =>
                        row[k].st = "completed" \/ Success(pipe'[k].st)
  <2> HIDE DEF s, q, j
  <2> QED BY <1>1, <1>3, <1>4
<1> QED BY <1>1, <1>2, <1>5, RealKept DEF Settles

LEMMA CallCancelReal ==
  ASSUME Typed, Real, NEW t \in Threads, CallCancel(t)
  PROVE  Real'
<1> DEFINE j == th[t].job
           p == AfterCancel(pipe[j])
<1>1. /\ j \in Jobs /\ th \in [Threads -> ThreadState] /\ th[t] \in ThreadState /\ Good(th)
      /\ row \in [Jobs -> RowState] /\ row[j] \in RowState
      /\ pipe \in [Jobs -> [st : PipeStatus, canc : BOOLEAN]]
  BY Caller DEF CallCancel
<1>2. pipe' = pipe \/ \E k \in Jobs : pipe' = [pipe EXCEPT ![k] = AfterCancel(pipe[k])]
  BY <1>1 DEF CallCancel
<1>3. \A k \in Jobs : row'[k].st = row[k].st
  <2>1. row' = row \/ row' = [row EXCEPT ![j].canc = FALSE]
    BY DEF CallCancel
  <2> HIDE DEF j
  <2> QED BY <1>1, <2>1 DEF RowState
<1>4. CASE th' = Finish(th, t)
  BY <1>1, <1>2, <1>3, <1>4, FinishSettles, SilentReal
<1>5. CASE \E q \in Replies(p) :
             /\ th' = [th EXCEPT ![t].pc = "apply", ![t].reply = q, ![t].canc = FALSE]
             /\ pipe' = [pipe EXCEPT ![j] = p]
  <2>1. PICK q \in Replies(p) : th' = [th EXCEPT ![t].pc = "apply", ![t].reply = q, ![t].canc = FALSE]
    BY <1>5
  <2>2. /\ Answering(th'[t]) /\ th'[t].job = j /\ th'[t].reply = q
        /\ \A u \in Threads \ {t} : th'[u] = th[u]
    BY <1>1, <2>1 DEF ThreadState, Answering
  <2>3. pipe'[j] = p
    <3> HIDE DEF p, j
    <3> QED BY <1>1, <1>5
  <2>4. p \in [st : PipeStatus, canc : BOOLEAN]
    BY <1>1, PipeTypes
  <2>5. Success(q.st) => Success(pipe'[j].st)
    BY <2>3, <2>4, AnswerTrue
  <2>6. \A k \in Jobs : Success(pipe[k].st) => Success(pipe'[k].st)
    BY <1>1, <1>2, SuccessStays
  <2> QED BY <1>3, <2>2, <2>5, <2>6, RealKept
<1> QED BY <1>4, <1>5 DEF CallCancel

LEMMA LoadRetrySettles ==
  ASSUME Typed, NEW t \in Threads, NEW j
  PROVE  Settles(th, LoadRetry(th, t, j))
<1> DEFINE pc == IF j \in Follow THEN "reserve" ELSE "retry"
           v  == [th[t] EXCEPT !.pc = pc, !.job = j, !.att = row[j].att, !.canc = FALSE,
                               !.reply = NoReply]
<1>1. th[t] \in ThreadState /\ th \in [Threads -> ThreadState]
  BY DEF Typed, TypeOK
<1>2. LoadRetry(th, t, j) = [th EXCEPT ![t] = v]
  BY <1>1 DEF LoadRetry
<1>3. Settled(t, v)
  <2> HIDE DEF pc
  <2>1. v.pc = pc
    BY <1>1 DEF ThreadState
  <2> QED BY <2>1 DEF Settled, OwnJob, Answering, pc
<1>4. Settles(th, [th EXCEPT ![t] = v])
  <2> HIDE DEF v
  <2> QED BY <1>1, <1>3, SettleOne
<1> QED BY <1>2, <1>4

(* The writes of an answer: the row takes a success only from a true one.  *)
LEMMA WriteReal ==
  ASSUME Typed, Real, NEW t \in Threads, th[t].pc \in {"apply", "resume"},
         LET q == th[t].reply
         IN  row' = Write(th[t].job, ApplyState(q.st), q.canc, th[t].att),
         pipe' = pipe, Settles(th, th')
  PROVE  Real'
<1> DEFINE j == th[t].job
           q == th[t].reply
           s == ApplyState(q.st)
<1>1. j \in Jobs /\ row \in [Jobs -> RowState] /\ row[j] \in RowState
  BY Caller
<1>2. s = "completed" => Success(pipe[j].st)
  BY SuccessStates DEF Real, Truthful, Answering
<1>3. row' = Write(j, s, q.canc, th[t].att)
  OBVIOUS
<1>4. /\ \A k \in Jobs \ {j} : row'[k] = row[k]
      /\ row'[j] = row[j] \/ row'[j].st = s
  <2>1. \/ row' = row
        \/ row' = [row EXCEPT ![j].st = s, ![j].canc = q.canc, ![j].att = th[t].att,
                              ![j].res = @ /\ s \notin FinalStatus]
    BY <1>3 DEF Write
  <2> DEFINE w == [row[j] EXCEPT !.st = s, !.canc = q.canc, !.att = th[t].att,
                                 !.res = @ /\ s \notin FinalStatus]
  <2>2. row' = row \/ row' = [row EXCEPT ![j] = w]
    <3> HIDE DEF s, q, j
    <3> QED BY <1>1, <2>1 DEF w
  <2>3. w.st = s
    <3> HIDE DEF s, q, j
    <3> QED BY <1>1 DEF w, RowState
  <2> HIDE DEF w, s, q, j
  <2> QED BY <1>1, <2>2, <2>3
<1>5. \A k \in Jobs : row'[k].st = "completed" =>
                        row[k].st = "completed" \/ Success(pipe'[k].st)
  <2> HIDE DEF s, q, j
  <2> QED BY <1>1, <1>2, <1>4
<1>6. \A k \in Jobs : Success(pipe[k].st) => Success(pipe'[k].st)
  OBVIOUS
<1> QED BY <1>5, <1>6, RealKept DEF Settles

LEMMA ApplyReal ==
  ASSUME Typed, Real, NEW t \in Threads, Apply(t)
  PROVE  Real'
<1>1. Settles(th, th')
  BY AfterApplySettles DEF Apply, Typed, Settles
<1> QED BY <1>1, WriteReal DEF Apply

LEMMA ResumeReal ==
  ASSUME Typed, Real, NEW t \in Threads, Resume(t)
  PROVE  Real'
<1> DEFINE j == th[t].job
           q == th[t].reply
           f == [th EXCEPT ![t].sched = j]
<1>1. j \in Jobs /\ Good(th) /\ th \in [Threads -> ThreadState] /\ th[t] \in ThreadState
  BY Caller DEF Resume
<1>2. CASE q.st = "invalid"
  BY <1>1, <1>2, RefusedSettles, SilentReal DEF Resume
<1>3. CASE q.st # "invalid"
  <2>1. th' = AfterApply(f, t, q, th[t].att)
    BY <1>3 DEF Resume
  <2>2. Good(f) /\ \A u \in Threads \ {t} : f[u] = th[u]
    BY <1>1 DEF Good, GoodThread, ThreadState
  <2>3. Settles(f, th')
    <3> HIDE DEF f
    <3> QED BY <2>1, <2>2, AfterApplySettles
  <2>4. Settled(t, th'[t])
    <3> DEFINE g == [f EXCEPT ![t].nested = TRUE]
    <3>1. Good(f) /\ f[t].sched = j /\ g \in [Threads -> ThreadState] /\ t \in DOMAIN g /\ t \in DOMAIN f
      BY <1>1, <2>2 DEF Good, ThreadState
    <3>2. \/ th' = Goto(g, t, "pick") \/ th' = Goto(g, t, "reload")
          \/ th' = Goto(f, t, "stop") \/ th' = Finish(f, t)
      <4> HIDE DEF f
      <4> QED BY <2>1 DEF AfterApply
    <3>3. CASE th' \in {Goto(g, t, "pick"), Goto(g, t, "reload"), Goto(f, t, "stop")}
      <4> HIDE DEF f, g
      <4> QED BY <3>1, <3>3, GotoThere DEF Good, Pc
    <3>4. CASE th' = Finish(f, t)
      <4> HIDE DEF f
      <4>1. CASE t \in Jobs
        BY <3>1, <3>4, <4>1 DEF Finish, Settled, OwnJob, Answering, Idle
      <4>2. CASE t \notin Jobs
        <5> DEFINE h == [f EXCEPT ![t] = Idle]
                   p == [Idle EXCEPT !.pc = "poll", !.job = j]
        <5>1. th' = h \/ th' = [h EXCEPT ![j] = p]
          BY <3>1, <3>4, <4>2 DEF Finish, Schedule
        <5>2. th'[t] = Idle
          <6> HIDE DEF p
          <6> QED BY <1>1, <3>1, <4>2, <5>1
        <5> QED BY <5>2 DEF Settled, OwnJob, Answering, Idle
      <4> QED BY <4>1, <4>2
    <3> QED BY <3>2, <3>3, <3>4
  <2>5. Settles(th, th')
    <3> HIDE DEF f
    <3> QED BY <2>2, <2>3, <2>4 DEF Settles
  <2> QED BY <1>3, <2>5, WriteReal DEF Resume
<1> QED BY <1>2, <1>3

LEMMA CallRetryReal ==
  ASSUME Typed, Real, NEW t \in Threads, CallRetry(t)
  PROVE  Real'
<1> DEFINE j == th[t].job
<1>1. /\ j \in Jobs /\ th \in [Threads -> ThreadState] /\ th[t] \in ThreadState
      /\ pipe \in [Jobs -> [st : PipeStatus, canc : BOOLEAN]] /\ row' = row
  BY Caller DEF CallRetry
<1>2. \A k \in Jobs : Success(pipe[k].st) => Success(pipe'[k].st)
  BY <1>1, SuccessStays DEF CallRetry
<1>3. CASE th' = Goto(th, t, "undo")
  BY <1>1, <1>2, <1>3, GotoSettles, RealKept DEF Settles, Pc
<1>4. CASE \E q \in Replies(AfterRetry) :
             th' = [th EXCEPT ![t].pc = "resume", ![t].reply = q, ![t].att = @ + 1]
  <2>1. PICK q \in Replies(AfterRetry) :
             th' = [th EXCEPT ![t].pc = "resume", ![t].reply = q, ![t].att = @ + 1]
    BY <1>4
  <2>2. ~Success(q.st)
    BY DEF Replies, AfterRetry, Success
  <2>3. Answering(th'[t]) /\ th'[t].reply = q /\ \A u \in Threads \ {t} : th'[u] = th[u]
    BY <1>1, <2>1 DEF ThreadState, Answering
  <2> QED BY <1>1, <1>2, <2>2, <2>3, RealKept
<1> QED BY <1>3, <1>4 DEF CallRetry

(* The remaining steps of a call read no answer. *)
LEMMA OtherStepReal ==
  ASSUME Typed, Real, NEW t \in Threads,
         \/ Orphan(t) \/ Invalid(t) \/ Reload(t) \/ Reserve(t) \/ UndoReserve(t)
         \/ Stop(t) \/ Pick(t)
  PROVE  Real'
<1> DEFINE j == th[t].job
<1>1. /\ j \in Jobs /\ th \in [Threads -> ThreadState] /\ th[t] \in ThreadState /\ Good(th)
      /\ row \in [Jobs -> RowState] /\ row[j] \in RowState
  BY Caller DEF Orphan, Invalid, Reload, Reserve, UndoReserve, Stop, Pick
<1>2. /\ Settles(th, Finish(th, t)) /\ Settles(th, Refused(th, t))
      /\ Settles(th, LoadRetry(th, t, j))
  BY <1>1, FinishSettles, RefusedSettles, LoadRetrySettles
<1>3. CASE Orphan(t)
  <2>1. Settles(th, [th EXCEPT ![t].pc = "fail"])
    BY <1>1 DEF Settles, Settled, OwnJob, Answering, ThreadState
  <2> QED BY <1>1, <1>2, <1>3, <2>1, SilentReal DEF Orphan
<1>4. CASE Invalid(t)
  <2>1. /\ Settled(t, [Idle EXCEPT !.pc = "exit", !.job = j])
        /\ \A n : t = j => Settled(t, [Idle EXCEPT !.pc = "poll", !.job = j, !.inv = n])
    BY DEF Settled, OwnJob, Answering, Idle
  <2>5. \/ th' = [th EXCEPT ![t] = [Idle EXCEPT !.pc = "exit", !.job = j]]
        \/ t = j /\ th' = [th EXCEPT ![t] = [Idle EXCEPT !.pc = "poll", !.job = j, !.inv = th[t].inv + 1]]
        \/ th' = Finish(th, t)
    BY <1>4 DEF Invalid
  <2>2. Settles(th, th')
    <3>1. Settles(th, [th EXCEPT ![t] = [Idle EXCEPT !.pc = "exit", !.job = j]])
      BY <1>1, <2>1, SettleOne
    <3> DEFINE v == [Idle EXCEPT !.pc = "poll", !.job = j, !.inv = th[t].inv + 1]
    <3>2. t = j => Settled(t, v)
      BY <2>1
    <3>3. t = j => Settles(th, [th EXCEPT ![t] = v])
      <4> HIDE DEF v, j
      <4> QED BY <1>1, <3>2, SettleOne
    <3> QED BY <1>2, <2>5, <3>1, <3>3
  <2>3. row' = row \/ row' = [row EXCEPT ![j].st = "failed", ![j].res = FALSE]
    BY <1>4 DEF Invalid
  <2>4. \A k \in Jobs : row'[k].st = "completed" => row[k].st = "completed"
    <3> HIDE DEF j
    <3> QED BY <1>1, <2>3 DEF RowState
  <2> QED BY <1>4, <2>2, <2>4, SilentReal DEF Invalid
<1>5. CASE Reload(t)
  BY <1>2, <1>5, SilentReal DEF Reload
<1>6. CASE Reserve(t)
  <2>1. Settles(th, [th EXCEPT ![t].pc = "retry"])
    BY <1>1 DEF Settles, Settled, OwnJob, Answering, ThreadState
  <2>2. row' = row \/ row' = [row EXCEPT ![j].res = TRUE]
    BY <1>6 DEF Reserve
  <2>3. \A k \in Jobs : row'[k].st = row[k].st
    <3> HIDE DEF j
    <3> QED BY <1>1, <2>2 DEF RowState
  <2> QED BY <1>2, <1>6, <2>1, <2>3, SilentReal DEF Reserve
<1>7. CASE UndoReserve(t)
  <2>1. row' = [row EXCEPT ![j].res = FALSE]
    BY <1>7 DEF UndoReserve
  <2>2. \A k \in Jobs : row'[k].st = row[k].st
    <3> HIDE DEF j
    <3> QED BY <1>1, <2>1 DEF RowState
  <2> QED BY <1>2, <1>7, <2>2, SilentReal DEF UndoReserve
<1>8. CASE Stop(t)
  BY <1>2, <1>8, SilentReal DEF Stop
<1>9. CASE Pick(t)
  <2>1. \A k : Settles(th, [th EXCEPT ![t].pc = "insert", ![t].job = k, ![t].reply = NoReply])
    BY <1>1 DEF Settles, Settled, OwnJob, Answering, ThreadState
  <2>2. Settles(th, th')
    BY <1>2, <1>9, <2>1 DEF Pick
  <2> QED BY <1>9, <2>2, SilentReal DEF Pick
<1> QED BY SMTT(30), <1>3, <1>4, <1>5, <1>6, <1>7, <1>8, <1>9

LEMMA MonitorReal ==
  ASSUME Typed, Real, NEW j \in Jobs, Poll(j) \/ CallGet(j) \/ Exit(j)
  PROVE  Real'
<1>1. /\ j \in Threads /\ th \in [Threads -> ThreadState] /\ th[j] \in ThreadState /\ Good(th)
      /\ pipe \in [Jobs -> [st : PipeStatus, canc : BOOLEAN]] /\ row' = row /\ pipe' = pipe
  BY Caller DEF Threads, Poll, CallGet, Exit
<1>2. CASE Poll(j)
  <2>1. Settled(j, [Idle EXCEPT !.pc = "exit", !.job = j])
    BY DEF Settled, OwnJob, Answering, Idle
  <2>4. th[j].job = j
    BY <1>1, <1>2 DEF Poll, Real, OwnJob
  <2>2. Settles(th, [th EXCEPT ![j].pc = "call", ![j].canc = row[j].canc, ![j].att = row[j].att])
    BY <1>1, <2>4 DEF Settles, Settled, OwnJob, Answering, ThreadState
  <2>3. Settles(th, th')
    BY <1>1, <1>2, <2>1, <2>2, SettleOne DEF Poll
  <2> QED BY <1>1, <2>3, SilentReal
<1>3. CASE Exit(j)
  <2>1. Settles(th, th')
    BY <1>1, <1>3, SettleOne DEF Exit, Settled, OwnJob, Answering, Idle
  <2> QED BY <1>1, <2>1, SilentReal
<1>4. CASE CallGet(j)
  <2>1. CASE th' = Finish(th, j)
    BY <1>1, <2>1, FinishSettles, SilentReal
  <2>2. CASE \E q \in Replies(pipe[j]) : th' = [th EXCEPT ![j].pc = "apply", ![j].reply = q]
    <3>1. PICK q \in Replies(pipe[j]) : th' = [th EXCEPT ![j].pc = "apply", ![j].reply = q]
      BY <2>2
    <3>2. /\ Answering(th'[j]) /\ th'[j].job = th[j].job /\ th'[j].reply = q
          /\ \A u \in Threads \ {j} : th'[u] = th[u]
      BY <1>1, <3>1 DEF ThreadState, Answering
    <3>3. Success(q.st) => Success(pipe[j].st)
      BY <1>1, AnswerTrue
    <3>4. th[j].job = j
      BY <1>1, <1>4 DEF CallGet, Real, OwnJob
    <3> QED BY <1>1, <3>2, <3>3, <3>4, RealKept
  <2> QED BY <1>4, <2>1, <2>2 DEF CallGet
<1> QED BY <1>2, <1>3, <1>4

LEMMA PipelineReal ==
  ASSUME Typed, Real, NEW j \in Jobs, Pipeline(j)
  PROVE  Real'
<1>1. pipe \in [Jobs -> [st : PipeStatus, canc : BOOLEAN]] /\ row' = row /\ th' = th
  BY DEF Typed, TypeOK, Pipeline, PipeStart, PipeEnd
<1>2. pipe[j].st \in {"queued", "running"} /\ \A k \in Jobs \ {j} : pipe'[k] = pipe[k]
  BY <1>1 DEF Pipeline, PipeStart, PipeEnd
<1>3. \A k \in Jobs : Success(pipe[k].st) => Success(pipe'[k].st)
  BY <1>2 DEF Success
<1> QED BY <1>1, <1>3, RealKept

LEMMA RequestReal ==
  ASSUME Typed, Real, NEW r \in Requests, NEW j \in Jobs,
         StartCreate(r, j) \/ StartCancel(r, j) \/ StartRetry(r, j)
  PROVE  Real'
<1>1. /\ r \in Threads /\ r \notin Jobs /\ th \in [Threads -> ThreadState] /\ pipe' = pipe
      /\ row \in [Jobs -> RowState]
  BY JobsAssumption DEF Threads, Typed, TypeOK, StartCreate, StartCancel, StartRetry
<1>2. /\ Settled(r, [Idle EXCEPT !.pc = "insert", !.job = j])
      /\ \A att : Settled(r, [Idle EXCEPT !.pc = "call", !.job = j, !.canc = TRUE, !.att = att])
  BY <1>1 DEF Settled, OwnJob, Answering, Idle
<1>3. CASE StartCreate(r, j)
  <2>1. Settles(th, th')
    BY <1>1, <1>2, <1>3, SettleOne DEF StartCreate
  <2> QED BY <1>1, <1>3, <2>1, SilentReal DEF StartCreate
<1>4. CASE StartCancel(r, j)
  <2> DEFINE v == [Idle EXCEPT !.pc = "call", !.job = j, !.canc = TRUE, !.att = row[j].att]
  <2>1. Settled(r, v) /\ (th' = th \/ th' = [th EXCEPT ![r] = v])
    BY <1>2, <1>4 DEF StartCancel
  <2>2. Settles(th, th')
    <3> HIDE DEF v
    <3>1. Settles(th, [th EXCEPT ![r] = v])
      BY <1>1, <2>1, SettleOne
    <3> QED BY <2>1, <3>1 DEF Settles
  <2>3. \A k \in Jobs : row'[k].st = row[k].st
    BY <1>1, <1>4 DEF StartCancel, RowState
  <2> QED BY <1>1, <2>2, <2>3, SilentReal
<1>5. CASE StartRetry(r, j)
  <2>1. Settles(th, th')
    BY <1>1, <1>5, LoadRetrySettles DEF StartRetry
  <2> QED BY <1>1, <1>5, <2>1, SilentReal DEF StartRetry
<1> QED BY <1>3, <1>4, <1>5

LEMMA RecoverRowReal ==
  ASSUME Typed, Real, NEW j \in Jobs, RecoverRow(j)
  PROVE  Real'
<1> DEFINE p == AfterCreate(pipe[j])
<1>1. /\ th \in [Threads -> ThreadState] /\ row \in [Jobs -> RowState] /\ row[j] \in RowState
      /\ pipe \in [Jobs -> [st : PipeStatus, canc : BOOLEAN]]
      /\ p \in [st : PipeStatus, canc : BOOLEAN]
  BY PipeTypes DEF Typed, TypeOK
<1>2. Settles(th, th')
  BY <1>1, ScheduleSettles DEF RecoverRow, Settles
<1>3. pipe' = pipe \/ pipe' = [pipe EXCEPT ![j] = p]
  BY DEF RecoverRow
<1>4. \A k \in Jobs : Success(pipe[k].st) => Success(pipe'[k].st)
  <2>1. Success(pipe[j].st) => p = pipe[j]
    BY SuccessStays
  <2> HIDE DEF p
  <2> QED BY <1>1, <1>3, <2>1
<1>5. CASE row' = [row EXCEPT ![j].st = "failed", ![j].res = FALSE]
  <2>1. \A k \in Jobs : row'[k].st = "completed" => row[k].st = "completed"
    BY <1>1, <1>5 DEF RowState
  <2> QED BY <1>2, <1>4, <2>1, RealKept DEF Settles
<1>6. CASE \E q \in Replies(p) : /\ row' = [row EXCEPT ![j].pid = TRUE, ![j].st = MapState(q.st)]
                                 /\ pipe' = [pipe EXCEPT ![j] = p]
  <2>1. PICK q \in Replies(p) : row' = [row EXCEPT ![j].pid = TRUE, ![j].st = MapState(q.st)]
    BY <1>6
  <2> DEFINE s == MapState(q.st)
  <2>2. row'[j].st = s /\ \A k \in Jobs \ {j} : row'[k] = row[k]
    <3> HIDE DEF p
    <3> QED BY <1>1, <2>1 DEF RowState
  <2>3. s = "completed" => Success(q.st)
    BY SuccessStates
  <2>4. Success(q.st) => Success(p.st)
    <3> HIDE DEF p
    <3> QED BY <1>1, AnswerTrue
  <2>5. pipe'[j] = p
    <3> HIDE DEF p
    <3> QED BY <1>1, <1>6
  <2> HIDE DEF s, p
  <2>6. \A k \in Jobs : row'[k].st = "completed" =>
                          row[k].st = "completed" \/ Success(pipe'[k].st)
    BY <2>2, <2>3, <2>4, <2>5
  <2> QED BY <1>2, <1>4, <2>6, RealKept DEF Settles
<1> QED BY <1>5, <1>6 DEF RecoverRow

LEMMA DeleteFailedReal ==
  ASSUME Typed, Real, NEW j \in Jobs, DeleteFailed(j)
  PROVE  Real'
<1>1. \A k \in Jobs : row'[k].st = "completed" => row[k].st = "completed"
  BY DEF DeleteFailed, AbsentRow, Typed, TypeOK
<1> QED BY <1>1, SilentReal DEF DeleteFailed, Settles

LEMMA BootOrCrashReal ==
  ASSUME Typed, Real, Boot \/ Crash
  PROVE  Real'
<1>1. /\ \A t \in Threads : Settled(t, Idle)
      /\ \A t \in Threads : Settled(t, [Idle EXCEPT !.pc = "poll", !.job = t])
  BY DEF Settled, OwnJob, Answering, Idle
<1>2. Settles(th, th') /\ row' = row /\ pipe' = pipe
  BY <1>1 DEF Boot, Crash, Settles
<1> QED BY <1>2, SilentReal

LEMMA AbortReal ==
  ASSUME Typed, Real, NEW r \in Requests, Abort(r)
  PROVE  Real'
<1>1. Settles(th, th')
  BY FinishSettles, GotoSettles DEF Abort, Typed, Good, Threads, Pc
<1> QED BY <1>1, SilentReal DEF Abort

LEMMA InitReal == Init => Real
BY DEF Init, Real, AbsentRow, Truthful, OwnJob, Answering, Idle

LEMMA NextReal == Typed /\ Real /\ [Next]_vars => Real'
<1> SUFFICES ASSUME Typed, Real, [Next]_vars PROVE Real'
  OBVIOUS
<1>1. ASSUME NEW t \in Threads, Step(t) PROVE Real'
  BY <1>1, InsertReal, CallCreateReal, FailCreateReal, StoreCreateReal, CallCancelReal,
     ApplyReal, CallRetryReal, ResumeReal, OtherStepReal DEF Step
<1>2. CASE UNCHANGED vars
  BY <1>2 DEF vars, Real, Truthful, OwnJob, Answering
<1>3. ASSUME NEW r \in Requests,
             \/ \E j \in Jobs : StartCreate(r, j) \/ StartCancel(r, j) \/ StartRetry(r, j)
             \/ Step(r)
             \/ Abort(r)
      PROVE  Real'
  BY <1>1, <1>3, RequestReal, AbortReal DEF Threads
<1>4. ASSUME NEW j \in Jobs, DeleteFailed(j) \/ Monitor(j) \/ Pipeline(j) \/ RecoverRow(j)
      PROVE  Real'
  BY <1>1, <1>4, DeleteFailedReal, MonitorReal, PipelineReal, RecoverRowReal DEF Monitor, Threads
<1> QED BY <1>2, <1>3, <1>4, BootOrCrashReal DEF Next

(* A completed row stands for a task that has ended in success: for every  *)
(* set of jobs, requests, operations and faults, late answers, cancels,    *)
(* retries, lost replies, crashes and recovery included.                   *)
THEOREM SuccessesReal == Spec => []SuccessIsReal
<1>1. Typed /\ Real /\ [Next]_vars => Typed' /\ Real'
  BY NextTyped, NextReal
<1>2. Real => SuccessIsReal
  BY DEF Real, SuccessIsReal, Success
<1> QED BY <1>1, <1>2, InitTyped, InitReal, PTL DEF Spec

-----------------------------------------------------------------------------
(* How often a job has been tried.  Only the job's own monitor retries it  *)
(* when nobody retries by hand, and from the failure to the recorded retry *)
(* the row's attempt is the one the monitor has read, below the limit.     *)
Plain(v) == v.pc \notin {"call", "apply", "reload", "reserve", "retry", "undo", "resume"}

RowCounted(w) == w.att <= MaxAuto /\ (w.st = "absent" => w.att = 0)

Counting(t, v, r) ==
  /\ ~Plain(v) => t \in Jobs /\ v.job = t
  /\ v.pc \in {"call", "apply"} => v.att = r[t].att
  /\ v.pc = "reload" => r[t].att < MaxAuto \/ Gone(r[t])
  /\ v.pc \in {"reserve", "retry"} => (v.att = r[t].att /\ v.att < MaxAuto) \/ Gone(r[t])
  /\ v.pc = "resume" => (v.att = r[t].att + 1 /\ v.att <= MaxAuto) \/ Gone(r[t])

Counted ==
  /\ \A j \in Jobs : RowCounted(row[j])
  /\ \A t \in Threads : Counting(t, th[t], row)

(* What the property says of a step. *)
Grown == \A j \in Jobs : row'[j].st # "deleted" => row[j].att <= row'[j].att

(* The other threads of g are those of f or have read nothing. *)
Calm(f, t, g) == Plain(g[t]) /\ \A u \in Threads \ {t} : g[u] = f[u] \/ Plain(g[u])

LEMMA ScheduleCalm ==
  ASSUME NEW f \in [Threads -> ThreadState], NEW k
  PROVE  \A u \in Threads : Schedule(f, k)[u] = f[u] \/ Plain(Schedule(f, k)[u])
<1> DEFINE v == [Idle EXCEPT !.pc = "poll", !.job = k]
<1>1. Plain(v)
  BY DEF Plain, Idle
<1>2. Schedule(f, k) = f \/ Schedule(f, k) = [f EXCEPT ![k] = v]
  BY DEF Schedule
<1> HIDE DEF v
<1> QED BY <1>1, <1>2

LEMMA FinishCalm ==
  ASSUME NEW f \in [Threads -> ThreadState], NEW t \in Threads
  PROVE  Calm(f, t, Finish(f, t))
<1>1. CASE t \in Jobs
  <2> DEFINE v == [Idle EXCEPT !.pc = "poll", !.job = t]
  <2>1. Plain(v) /\ Finish(f, t) = [f EXCEPT ![t] = v]
    BY <1>1 DEF Plain, Idle, Finish
  <2> HIDE DEF v
  <2> QED BY <2>1 DEF Calm
<1>2. CASE t \notin Jobs
  <2> DEFINE g == [f EXCEPT ![t] = Idle]
  <2>1. g \in [Threads -> ThreadState] /\ Plain(g[t]) /\ \A u \in Threads \ {t} : g[u] = f[u]
    BY IdleType DEF Plain, Idle
  <2>2. Finish(f, t) = Schedule(g, f[t].sched)
    BY <1>2 DEF Finish
  <2> HIDE DEF g
  <2> QED BY <2>1, <2>2, ScheduleCalm DEF Calm
<1> QED BY <1>1, <1>2

LEMMA GotoCalm ==
  ASSUME NEW f \in [Threads -> ThreadState], NEW t \in Threads,
         NEW pc \in {"orphan", "stop", "pick", "next"}
  PROVE  Calm(f, t, Goto(f, t, pc))
<1> DEFINE v == [Idle EXCEPT !.pc = pc, !.job = f[t].job, !.nested = f[t].nested,
                             !.sched = f[t].sched]
<1>1. Plain(v) /\ Goto(f, t, pc) = [f EXCEPT ![t] = v]
  BY DEF Plain, Idle, Goto
<1> HIDE DEF v
<1> QED BY <1>1 DEF Calm

LEMMA RefusedCalm ==
  ASSUME NEW f \in [Threads -> ThreadState], NEW t \in Threads
  PROVE  Calm(f, t, Refused(f, t))
BY FinishCalm, GotoCalm DEF Refused

(* What a step may do to the attempt of one row. *)
LEMMA CountChange ==
  ASSUME Typed, Counted, NEW j \in Jobs, NEW t \in Threads,
         \A k \in Jobs \ {j} : row'[k] = row[k],
         \A u \in Threads \ {t} : th'[u] = th[u] \/ Plain(th'[u]),
         Counting(t, th'[t], row'),
         RowCounted(row'[j]),
         Gone(row[j]) => Gone(row'[j]),
         Gone(row'[j]) \/ row[j].att <= row'[j].att,
         j # t => \/ row'[j].att = row[j].att
                  \/ Plain(th[j])
                  \/ Gone(row'[j]) /\ th[j].pc \notin {"call", "apply"}
  PROVE  Counted' /\ Grown
<1>1. \A k \in Jobs : RowCounted(row'[k])
  BY DEF Counted
<1>2. ASSUME NEW u \in Threads \ {t} PROVE Counting(u, th'[u], row')
  <2>1. CASE Plain(th'[u])
    BY <2>1 DEF Plain, Counting
  <2>2. CASE th'[u] = th[u] /\ ~Plain(th[u])
    <3>1. Counting(u, th[u], row)
      BY DEF Counted
    <3>2. CASE u # j
      <4>1. u \in Jobs /\ row'[u] = row[u]
        BY <2>2, <3>1, <3>2 DEF Counting
      <4> QED BY <2>2, <3>1, <4>1 DEF Counting
    <3>3. CASE u = j
      BY <2>2, <3>1, <3>3 DEF Counting
    <3> QED BY <3>2, <3>3
  <2> QED BY <2>1, <2>2
<1>3. Grown
  <2> SUFFICES ASSUME NEW k \in Jobs PROVE Gone(row'[k]) \/ row[k].att <= row'[k].att
    BY DEF Grown, Gone
  <2>1. row[k].att \in Nat
    BY DEF Typed, TypeOK, RowState
  <2> QED BY <2>1
<1> QED BY <1>1, <1>2, <1>3 DEF Counted

(* A step that touches no attempt, and after which its thread has read none. *)
LEMMA CountKept ==
  ASSUME Typed, Counted, NEW t \in Threads, Calm(th, t, th') \/ UNCHANGED th,
         row' = row \/ \E j \in Jobs : \E w : /\ row' = [row EXCEPT ![j] = w]
                                              /\ w.att = row[j].att /\ w.st # "absent"
                                              /\ Gone(row[j]) => Gone(w)
  PROVE  Counted' /\ Grown
<1>1. \A u \in Threads : th'[u] = th[u] \/ Plain(th'[u])
  BY DEF Calm
<1>2. \A k \in Jobs : /\ row'[k].att = row[k].att
                      /\ row'[k].st = "absent" => row[k].st = "absent"
                      /\ Gone(row[k]) => Gone(row'[k])
  <2>1. CASE row' = row
    BY <2>1
  <2>2. CASE row' # row
    <3>1. PICK j \in Jobs : \E w : /\ row' = [row EXCEPT ![j] = w]
                                   /\ w.att = row[j].att /\ w.st # "absent"
                                   /\ Gone(row[j]) => Gone(w)
      BY <2>2
    <3>2. PICK w : /\ row' = [row EXCEPT ![j] = w]
                   /\ w.att = row[j].att /\ w.st # "absent"
                   /\ Gone(row[j]) => Gone(w)
      BY <3>1
    <3>3. row'[j] = w /\ \A k \in Jobs \ {j} : row'[k] = row[k]
      BY <3>2 DEF Typed, TypeOK
    <3> QED BY <3>2, <3>3
  <2> QED BY <2>1, <2>2
<1>3. \A k \in Jobs : RowCounted(row'[k])
  BY <1>2 DEF Counted, RowCounted
<1>4. ASSUME NEW u \in Threads PROVE Counting(u, th'[u], row')
  <2>1. Counting(u, th[u], row)
    BY DEF Counted
  <2>2. CASE Plain(th'[u])
    BY <2>2 DEF Plain, Counting
  <2>3. CASE th'[u] = th[u] /\ ~Plain(th[u])
    <3>1. u \in Jobs
      BY <2>1, <2>3 DEF Counting
    <3> QED BY <1>2, <2>1, <2>3, <3>1 DEF Counting
  <2> QED BY <1>1, <2>2, <2>3
<1>5. Grown
  <2> SUFFICES ASSUME NEW k \in Jobs PROVE row[k].att <= row'[k].att
    BY DEF Grown
  <2>1. row[k].att \in Nat /\ row'[k].att = row[k].att
    BY <1>2 DEF Typed, TypeOK, RowState
  <2> QED BY <2>1
<1> QED BY <1>3, <1>4, <1>5 DEF Counted

(* A step of one thread that leaves the table alone. *)
LEMMA CountMove ==
  ASSUME Typed, Counted, NEW t \in Threads, NEW v, th' = [th EXCEPT ![t] = v],
         row' = row, Counting(t, v, row)
  PROVE  Counted' /\ Grown
<1>1. \A u \in Threads : Counting(u, th'[u], row')
  BY DEF Counted, Typed, TypeOK
<1>2. Grown
  <2>1. \A k \in Jobs : row[k].att \in Nat
    BY DEF Typed, TypeOK, RowState
  <2> QED BY <2>1 DEF Grown
<1> QED BY <1>1, <1>2 DEF Counted

LEMMA InsertCounted ==
  ASSUME Typed, Owned, Counted, 1 <= MaxAuto, NEW t \in Threads, Insert(t)
  PROVE  Counted' /\ Grown
<1> DEFINE j == th[t].job
           v == [th[t] EXCEPT !.pc = "create"]
<1>1. /\ th[t].pc = "insert" /\ j \in Jobs /\ th \in [Threads -> ThreadState]
      /\ t \in Jobs => row[t].pid \/ Gone(row[t])
  BY Thread DEF Insert
<1>2. Plain(v) /\ [th EXCEPT ![t].pc = "create"] = [th EXCEPT ![t] = v]
  BY <1>1 DEF Plain, ThreadState
<1>3. CASE row' = row
  <2>1. th' = [th EXCEPT ![t] = v] \/ th' = Finish(th, t)
    BY <1>2 DEF Insert
  <2>2. Calm(th, t, [th EXCEPT ![t] = v])
    <3> HIDE DEF v
    <3> QED BY <1>1, <1>2 DEF Calm
  <2> QED BY <1>1, <1>3, <2>1, <2>2, FinishCalm, CountKept
<1>4. CASE row' # row
  <2> DEFINE w == [st |-> "queued", pid |-> FALSE, res |-> TRUE, canc |-> FALSE, att |-> 1]
  <2>1. /\ row' = [row EXCEPT ![j] = w] /\ th' = [th EXCEPT ![t] = v] /\ row[j].st = "absent"
    BY <1>2, <1>4 DEF Insert
  <2>2. w.att = 1 /\ w.st # "absent" /\ row[j].att = 0
    BY <1>1, <2>1 DEF Counted, RowCounted
  <2> HIDE DEF v, w
  <2>3. row'[j] = w /\ \A k \in Jobs \ {j} : row'[k] = row[k]
    BY <1>1, <2>1 DEF Typed, TypeOK
  <2>4. th'[t] = v /\ \A u \in Threads \ {t} : th'[u] = th[u]
    BY <1>1, <2>1
  <2>5. j # t /\ Plain(th[j])
    <3>1. RowSound(j, row[j], todo) /\ Watches(j, th[j], row)
      BY <1>1 DEF Owned, Threads
    <3> QED BY <1>1, <2>1, <3>1 DEF RowSound, Watches, Gone, Plain
  <2>6. Counting(t, v, row')
    BY <1>2 DEF Counting, Plain
  <2>7. RowCounted(w)
    BY <2>2 DEF RowCounted
  <2>8. ~Gone(row[j]) /\ row[j].att <= row'[j].att
    BY <2>1, <2>2, <2>3 DEF Gone
  <2> HIDE DEF j
  <2> QED BY <1>1, <2>3, <2>4, <2>5, <2>6, <2>7, <2>8, CountChange
<1> QED BY <1>3, <1>4

LEMMA FailCreateCounted ==
  ASSUME Typed, Owned, Counted, NEW t \in Threads, FailCreate(t)
  PROVE  Counted' /\ Grown
<1> DEFINE j == th[t].job
           w == [row[j] EXCEPT !.st = "failed", !.res = FALSE]
<1>1. j \in Jobs /\ th \in [Threads -> ThreadState]
  BY Thread DEF FailCreate
<1>2. row[j] \in RowState
  BY <1>1 DEF Typed, TypeOK
<1>3. w.att = row[j].att /\ w.st = "failed"
  BY <1>2 DEF RowState
<1>4. row' = row \/ (row' = [row EXCEPT ![j] = w] /\ j \in Follow)
  BY <1>1 DEF FailCreate, Typed, TypeOK
<1>5. j \in Follow => ~Gone(row[j])
  BY DEF FailCreate, Owned, Claims, Creator, Gone
<1> HIDE DEF w
<1>6. Calm(th, t, th')
  BY <1>1, FinishCalm, GotoCalm DEF FailCreate
<1> QED BY <1>1, <1>3, <1>4, <1>5, <1>6, CountKept

LEMMA StoreCreateCounted ==
  ASSUME Typed, Owned, Counted, 1 <= MaxAuto, NEW t \in Threads, StoreCreate(t)
  PROVE  Counted' /\ Grown
<1> DEFINE j == th[t].job
           q == th[t].reply
           s == MapState(q.st)
<1>1. /\ th[t].pc = "store" /\ j \in Jobs /\ th \in [Threads -> ThreadState]
      /\ t \in Jobs => row[t].pid \/ Gone(row[t])
  BY Thread DEF StoreCreate
<1>2. s # "absent"
  <2>1. q \in Reply
    BY <1>1 DEF ThreadState
  <2> QED BY <2>1 DEF MapState, Reply, PipeStatus, FinalStatus
<1>3. Calm(th, t, th')
  <2>1. Schedule(th, j) \in [Threads -> ThreadState]
    BY <1>1, ScheduleGood DEF Typed, Good
  <2>2. Calm(Schedule(th, j), t, Finish(Schedule(th, j), t))
    BY <2>1, FinishCalm
  <2>3. Calm(th, t, Finish(Schedule(th, j), t))
    BY <1>1, <2>2, ScheduleCalm DEF Calm
  <2>4. Calm(th, t, Finish(th, t))
    BY <1>1, FinishCalm
  <2> QED BY <2>3, <2>4 DEF StoreCreate
<1>4. CASE row' = row
  BY <1>3, <1>4, CountKept
<1>5. CASE j \in Follow
  <2> DEFINE w == [row[j] EXCEPT !.st = s, !.pid = TRUE, !.canc = q.canc,
                                 !.res = @ /\ s \notin FinalStatus]
  <2>1. row[j] \in RowState
    BY <1>1 DEF Typed, TypeOK
  <2>2. w.att = row[j].att /\ w.st = s
    <3> HIDE DEF s, q
    <3> QED BY <2>1 DEF RowState
  <2>3. row' = [row EXCEPT ![j] = w]
    <3> HIDE DEF s, q
    <3> QED BY <1>1, <1>5 DEF StoreCreate, Typed, TypeOK, s, q
  <2>4. ~Gone(row[j])
    BY <1>1, <1>5 DEF Owned, Claims, Creator, Gone
  <2> HIDE DEF w, s
  <2> QED BY <1>1, <1>2, <1>3, <2>2, <2>3, <2>4, CountKept
<1>6. CASE j \notin Follow /\ row' # row
  <2> DEFINE w == [st |-> s, pid |-> TRUE, res |-> FALSE, canc |-> q.canc, att |-> 1]
  <2>1. row' = [row EXCEPT ![j] = w] /\ row[j].st = "absent"
    BY <1>6 DEF StoreCreate
  <2>2. w.att = 1 /\ w.st # "absent" /\ row[j].att = 0
    BY <1>1, <1>2, <2>1 DEF Counted, RowCounted
  <2> HIDE DEF w, s
  <2>3. row'[j] = w /\ \A k \in Jobs \ {j} : row'[k] = row[k]
    BY <1>1, <2>1 DEF Typed, TypeOK
  <2>5. j # t /\ Plain(th[j])
    <3>1. RowSound(j, row[j], todo) /\ Watches(j, th[j], row)
      BY <1>1 DEF Owned, Threads
    <3> QED BY <1>1, <2>1, <3>1 DEF RowSound, Watches, Gone, Plain
  <2>6. Counting(t, th'[t], row') /\ \A u \in Threads \ {t} : th'[u] = th[u] \/ Plain(th'[u])
    BY <1>3 DEF Counting, Plain, Calm
  <2>7. RowCounted(w)
    BY <2>2 DEF RowCounted
  <2>8. ~Gone(row[j]) /\ row[j].att <= row'[j].att
    BY <2>1, <2>2, <2>3 DEF Gone
  <2> HIDE DEF j
  <2> QED BY <1>1, <2>3, <2>5, <2>6, <2>7, <2>8, CountChange
<1> QED BY <1>4, <1>5, <1>6

LEMMA InvalidCounted ==
  ASSUME Typed, Owned, Counted, NEW t \in Threads, Invalid(t)
  PROVE  Counted' /\ Grown
<1>1. /\ th[t].pc = "apply" /\ t \in Jobs /\ th[t].job = t /\ row[t].st \in Unfinished
      /\ th \in [Threads -> ThreadState] /\ row[t] \in RowState
  BY MonitoredRow DEF Invalid, Typed, TypeOK
<1>2. Calm(th, t, th')
  <2>1. /\ Plain([Idle EXCEPT !.pc = "exit", !.job = t])
        /\ \A n : Plain([Idle EXCEPT !.pc = "poll", !.job = t, !.inv = n])
    BY DEF Plain, Idle
  <2>2. PICK v : Plain(v) /\ th' = [th EXCEPT ![t] = v]
    BY <1>1, <2>1 DEF Invalid
  <2> QED BY <1>1, <2>2 DEF Calm
<1> DEFINE w == [row[t] EXCEPT !.st = "failed", !.res = FALSE]
<1>3. row' = row \/ row' = [row EXCEPT ![t] = w]
  BY <1>1 DEF Invalid, Typed, TypeOK
<1>4. w.att = row[t].att /\ w.st = "failed" /\ ~Gone(row[t])
  BY <1>1 DEF RowState, Gone, Unfinished
<1> HIDE DEF w
<1> QED BY <1>1, <1>2, <1>3, <1>4, CountKept

LEMMA CallCancelCounted ==
  ASSUME Typed, Owned, Counted, NEW t \in Threads, CallCancel(t)
  PROVE  Counted' /\ Grown
<1>1. /\ th[t].pc = "call" /\ t \in Jobs /\ th[t].job = t
      /\ th \in [Threads -> ThreadState] /\ th[t] \in ThreadState /\ row[t] \in RowState
      /\ row[t].st \in Unfinished /\ th[t].att = row[t].att
  <2>1. Counting(t, th[t], row)
    BY DEF Counted
  <2> QED BY <2>1, MonitoredRow DEF CallCancel, Counting, Typed, TypeOK
<1>2. CASE \E q : /\ th' = [th EXCEPT ![t].pc = "apply", ![t].reply = q, ![t].canc = FALSE]
                  /\ row' = row
  <2>1. PICK q : th' = [th EXCEPT ![t].pc = "apply", ![t].reply = q, ![t].canc = FALSE]
    BY <1>2
  <2> DEFINE v == [th[t] EXCEPT !.pc = "apply", !.reply = q, !.canc = FALSE]
  <2>2. th' = [th EXCEPT ![t] = v] /\ v.pc = "apply" /\ v.job = t /\ v.att = row[t].att
    BY <1>1, <2>1 DEF ThreadState
  <2> HIDE DEF v
  <2>3. Counting(t, v, row)
    BY <1>1, <2>2 DEF Counting, Plain
  <2> QED BY <1>2, <2>2, <2>3, CountMove
<1>3. CASE th' = Finish(th, t) /\ row' \in {row, [row EXCEPT ![t].canc = FALSE]}
  <2> DEFINE w == [row[t] EXCEPT !.canc = FALSE]
  <2>1. row' = row \/ row' = [row EXCEPT ![t] = w]
    BY <1>1, <1>3 DEF Typed, TypeOK
  <2>2. w.att = row[t].att /\ w.st # "absent" /\ ~Gone(row[t])
    BY <1>1 DEF RowState, Gone, Unfinished
  <2> HIDE DEF w
  <2> QED BY <1>1, <1>3, <2>1, <2>2, FinishCalm, CountKept
<1> QED BY <1>1, <1>2, <1>3 DEF CallCancel

(* The attempt a monitor writes is the one of its row. *)
LEMMA AttWritten ==
  ASSUME Typed, NEW j \in Jobs, Stored(j), NEW s, NEW canc, NEW att, row' = Write(j, s, canc, att)
  PROVE  \E w : row' = [row EXCEPT ![j] = w] /\ w.st = s /\ w.att = att
<1> DEFINE w == [row[j] EXCEPT !.st = s, !.canc = canc, !.att = att,
                               !.res = @ /\ s \notin FinalStatus]
<1>1. row[j] \in RowState
  BY DEF Typed, TypeOK
<1>2. w.st = s /\ w.att = att
  BY <1>1 DEF RowState
<1>3. row' = [row EXCEPT ![j] = w]
  BY DEF Write, Typed, TypeOK, RowState
<1> HIDE DEF w
<1> QED BY <1>2, <1>3

LEMMA ApplyCounted ==
  ASSUME Typed, Owned, Counted, NEW t \in Threads, Apply(t)
  PROVE  Counted' /\ Grown
<1> DEFINE q == th[t].reply
           s == ApplyState(q.st)
           n == th[t].att
           f == [th EXCEPT ![t].nested = TRUE]
<1>1. /\ th[t].pc = "apply" /\ t \in Jobs /\ th[t].job = t /\ row[t].st \in Unfinished
      /\ th \in [Threads -> ThreadState] /\ row[t] \in RowState /\ n = row[t].att
  <2>1. Counting(t, th[t], row)
    BY DEF Counted
  <2> QED BY <2>1, MonitoredRow DEF Apply, Counting, Typed, TypeOK
<1>2. s \notin {"absent", "deleted"}
  <2>1. q \in Reply /\ q.st # "none"
    BY <1>1 DEF Typed, Good, GoodThread, ThreadState
  <2> QED BY <2>1 DEF ApplyState, MapState, Reply, PipeStatus, FinalStatus
<1>3. PICK w : row' = [row EXCEPT ![t] = w] /\ w.st = s /\ w.att = row[t].att
  <2>1. Stored(t)
    BY <1>1 DEF Stored, Unfinished
  <2>2. row' = Write(t, s, q.canc, n)
    BY <1>1 DEF Apply
  <2>3. t \in Jobs /\ n = row[t].att
    BY <1>1
  <2> HIDE DEF s, q, n
  <2>4. \E w : row' = [row EXCEPT ![t] = w] /\ w.st = s /\ w.att = n
    BY <2>1, <2>2, <2>3, AttWritten
  <2> QED BY <2>3, <2>4
<1>4. row'[t] = w /\ ~Gone(row[t])
  BY <1>1, <1>3 DEF Typed, TypeOK, Gone, Unfinished
<1>5. CASE Calm(th, t, th')
  <2> HIDE DEF s
  <2> QED BY <1>1, <1>2, <1>3, <1>4, <1>5, CountKept DEF Gone
<1>6. CASE n < MaxAuto /\ th' = Goto(f, t, "reload")
  <2> DEFINE v == [Idle EXCEPT !.pc = "reload", !.job = f[t].job, !.nested = f[t].nested,
                               !.sched = f[t].sched]
  <2>1. v.pc = "reload" /\ v.job = t
    BY <1>1 DEF Idle
  <2>2. th'[t] = v /\ \A u \in Threads \ {t} : th'[u] = th[u]
    BY <1>1, <1>6 DEF Goto
  <2> HIDE DEF v, s
  <2>3. Counting(t, v, row')
    BY <1>1, <1>3, <1>4, <1>6, <2>1 DEF Counting, Plain
  <2>4. RowCounted(w) /\ row[t].att <= row'[t].att
    BY <1>1, <1>2, <1>3, <1>4 DEF RowCounted, Counted, RowState
  <2>5. \A k \in Jobs \ {t} : row'[k] = row[k]
    BY <1>3 DEF Typed, TypeOK
  <2> QED BY <1>1, <1>4, <2>2, <2>3, <2>4, <2>5, CountChange
<1>7. Calm(th, t, th') \/ (n < MaxAuto /\ th' = Goto(f, t, "reload"))
  <2>1. f \in [Threads -> ThreadState] /\ \A u \in Threads \ {t} : f[u] = th[u]
    BY <1>1 DEF ThreadState
  <2>2. Calm(th, t, Goto(f, t, "pick"))
    <3> HIDE DEF f
    <3> QED BY <2>1, GotoCalm DEF Calm
  <2>3. Calm(th, t, Goto(th, t, "stop")) /\ Calm(th, t, Finish(th, t))
    BY <1>1, GotoCalm, FinishCalm
  <2>4. th' = AfterApply(th, t, q, n)
    BY DEF Apply
  <2>5. \/ th' = Goto(f, t, "pick") \/ th' = Goto(th, t, "stop") \/ th' = Finish(th, t)
        \/ n < MaxAuto /\ th' = Goto(f, t, "reload")
    <3> HIDE DEF q, n
    <3> QED BY <2>4 DEF AfterApply, f
  <2> QED BY <2>2, <2>3, <2>5
<1> QED BY <1>5, <1>6, <1>7

LEMMA ReloadCounted ==
  ASSUME Typed, Owned, Counted, NEW t \in Threads, Reload(t)
  PROVE  Counted' /\ Grown
<1>1. /\ th[t].pc = "reload" /\ row' = row /\ th \in [Threads -> ThreadState]
      /\ th[t] \in ThreadState
  BY DEF Reload, Typed, TypeOK
<1>2. t \in Jobs /\ th[t].job = t /\ (row[t].att < MaxAuto \/ Gone(row[t]))
  <2>1. Counting(t, th[t], row)
    BY DEF Counted
  <2> QED BY <1>1, <2>1 DEF Counting, Plain
<1>3. CASE th' = Refused(th, t)
  BY <1>1, <1>3, RefusedCalm, CountKept
<1>4. CASE th' = LoadRetry(th, t, t)
  <2> DEFINE pc == IF t \in Follow THEN "reserve" ELSE "retry"
             v  == [th[t] EXCEPT !.pc = pc, !.job = t, !.att = row[t].att, !.canc = FALSE,
                                 !.reply = NoReply]
  <2>1. th' = [th EXCEPT ![t] = v]
    BY <1>1, <1>4 DEF LoadRetry
  <2>2. v.pc = pc /\ v.job = t /\ v.att = row[t].att
    <3> HIDE DEF pc
    <3> QED BY <1>1 DEF ThreadState
  <2> HIDE DEF v
  <2>3. Counting(t, v, row)
    BY <1>2, <2>2 DEF Counting, Plain
  <2> QED BY <1>1, <2>1, <2>3, CountMove
<1> QED BY <1>2, <1>3, <1>4 DEF Reload

LEMMA ReserveCounted ==
  ASSUME Typed, Owned, Counted, NEW t \in Threads, Reserve(t)
  PROVE  Counted' /\ Grown
<1>1. /\ th[t].pc = "reserve" /\ th \in [Threads -> ThreadState] /\ th[t] \in ThreadState
  BY DEF Reserve, Typed, TypeOK
<1>2. t \in Jobs /\ th[t].job = t /\ ((th[t].att = row[t].att /\ th[t].att < MaxAuto) \/ Gone(row[t]))
  <2>1. Counting(t, th[t], row)
    BY DEF Counted
  <2> QED BY <1>1, <2>1 DEF Counting, Plain
<1>3. CASE th' = Refused(th, t) /\ row' = row
  BY <1>1, <1>3, RefusedCalm, CountKept
<1>4. CASE /\ Stored(t) /\ row' = [row EXCEPT ![t].res = TRUE]
           /\ th' = [th EXCEPT ![t].pc = "retry"]
  <2> DEFINE v == [th[t] EXCEPT !.pc = "retry"]
             w == [row[t] EXCEPT !.res = TRUE]
  <2>1. th' = [th EXCEPT ![t] = v] /\ row' = [row EXCEPT ![t] = w]
    BY <1>1, <1>2, <1>4 DEF Typed, TypeOK
  <2>2. v.pc = "retry" /\ v.job = t /\ v.att = th[t].att
    BY <1>1, <1>2 DEF ThreadState
  <2>3. row[t] \in RowState
    BY <1>2 DEF Typed, TypeOK
  <2>4. w.att = row[t].att /\ w.st = row[t].st
    BY <2>3 DEF RowState
  <2> HIDE DEF v, w
  <2>5. row'[t] = w /\ \A k \in Jobs \ {t} : row'[k] = row[k]
    BY <1>2, <2>1 DEF Typed, TypeOK
  <2>6. th'[t] = v /\ \A u \in Threads \ {t} : th'[u] = th[u]
    BY <1>1, <2>1
  <2>7. ~Gone(row[t]) /\ Counting(t, v, row')
    BY <1>2, <1>4, <2>2, <2>4, <2>5 DEF Counting, Plain, Gone, Stored
  <2>8. RowCounted(w) /\ row[t].att <= row'[t].att
    BY <1>2, <1>4, <2>3, <2>4, <2>5 DEF RowCounted, Counted, RowState
  <2> QED BY <1>2, <2>5, <2>6, <2>7, <2>8, CountChange
<1> QED BY <1>2, <1>3, <1>4 DEF Reserve

LEMMA CallRetryCounted ==
  ASSUME Typed, Owned, Counted, NEW t \in Threads, CallRetry(t)
  PROVE  Counted' /\ Grown
<1>1. /\ th[t].pc = "retry" /\ row' = row /\ th \in [Threads -> ThreadState]
      /\ th[t] \in ThreadState
  BY DEF CallRetry, Typed, TypeOK
<1>2. t \in Jobs /\ th[t].job = t /\ ((th[t].att = row[t].att /\ th[t].att < MaxAuto) \/ Gone(row[t]))
  <2>1. Counting(t, th[t], row)
    BY DEF Counted
  <2> QED BY <1>1, <2>1 DEF Counting, Plain
<1>3. CASE th' = Goto(th, t, "undo")
  <2> DEFINE v == [Idle EXCEPT !.pc = "undo", !.job = th[t].job, !.nested = th[t].nested,
                               !.sched = th[t].sched]
  <2>1. v.pc = "undo" /\ v.job = t /\ th' = [th EXCEPT ![t] = v]
    BY <1>2, <1>3 DEF Idle, Goto
  <2> HIDE DEF v
  <2>2. Counting(t, v, row)
    BY <1>2, <2>1 DEF Counting, Plain
  <2> QED BY <1>1, <2>1, <2>2, CountMove
<1>4. CASE \E q : th' = [th EXCEPT ![t].pc = "resume", ![t].reply = q, ![t].att = @ + 1]
  <2>1. PICK q : th' = [th EXCEPT ![t].pc = "resume", ![t].reply = q, ![t].att = @ + 1]
    BY <1>4
  <2> DEFINE n == th[t].att + 1
             v == [th[t] EXCEPT !.pc = "resume", !.reply = q, !.att = n]
  <2>2. th' = [th EXCEPT ![t] = v]
    BY <1>1, <2>1
  <2>3. v.pc = "resume" /\ v.job = t /\ v.att = n
    <3> HIDE DEF n
    <3> QED BY <1>1, <1>2 DEF ThreadState
  <2> HIDE DEF v
  <2>4. th[t].att \in Nat /\ MaxAuto \in Nat
    BY <1>1, BoundAssumption DEF ThreadState
  <2>5. Counting(t, v, row)
    BY <1>2, <2>3, <2>4 DEF Counting, Plain
  <2> HIDE DEF n
  <2> QED BY <1>1, <2>2, <2>5, CountMove
<1> QED BY <1>3, <1>4 DEF CallRetry

LEMMA UndoReserveCounted ==
  ASSUME Typed, Owned, Counted, NEW t \in Threads, UndoReserve(t)
  PROVE  Counted' /\ Grown
<1>1. th[t].pc = "undo" /\ th \in [Threads -> ThreadState]
  BY DEF UndoReserve, Typed, TypeOK
<1>2. t \in Jobs /\ th[t].job = t /\ (row[t].pid \/ Gone(row[t]))
  <2>1. Counting(t, th[t], row)
    BY DEF Counted
  <2> QED BY <1>1, <2>1, Thread DEF Counting, Plain
<1> DEFINE w == [row[t] EXCEPT !.res = FALSE]
<1>3. row' = [row EXCEPT ![t] = w]
  BY <1>2 DEF UndoReserve, Typed, TypeOK
<1>4. w.att = row[t].att /\ w.st = row[t].st
  <2>1. row[t] \in RowState
    BY <1>2 DEF Typed, TypeOK
  <2> QED BY <2>1 DEF RowState
<1>5. row[t].st # "absent"
  BY <1>2 DEF Owned, RowSound, Gone
<1> HIDE DEF w
<1>6. Calm(th, t, th')
  BY <1>1, RefusedCalm DEF UndoReserve
<1> QED BY <1>2, <1>3, <1>4, <1>5, <1>6, CountKept DEF Gone

LEMMA ResumeCounted ==
  ASSUME Typed, Owned, Counted, NEW t \in Threads, Resume(t)
  PROVE  Counted' /\ Grown
<1> DEFINE q == th[t].reply
           n == th[t].att
           f == [th EXCEPT ![t].sched = t]
<1>1. /\ th[t].pc = "resume" /\ th \in [Threads -> ThreadState] /\ n \in Nat
      /\ q.st \in {"queued", "invalid"}
  BY DEF Resume, Typed, TypeOK, ThreadState, Owned, Claims
<1>2. /\ t \in Jobs /\ th[t].job = t
      /\ (n = row[t].att + 1 /\ n <= MaxAuto) \/ Gone(row[t])
      /\ row[t].pid \/ Gone(row[t])
  <2>1. Counting(t, th[t], row)
    BY DEF Counted
  <2> QED BY <1>1, <2>1, Thread DEF Counting, Plain
<1>3. CASE q.st = "invalid"
  BY <1>1, <1>3, RefusedCalm, CountKept DEF Resume
<1>4. CASE q.st = "queued"
  <2>1. row' = Write(t, "queued", q.canc, n) /\ th' = AfterApply(f, t, q, n)
    BY <1>2, <1>4 DEF Resume, ApplyState, MapState
  <2>2. th' = Finish(f, t)
    BY <1>4, <2>1 DEF AfterApply, Failing
  <2>3. Calm(th, t, th')
    <3>1. f \in [Threads -> ThreadState] /\ \A u \in Threads \ {t} : f[u] = th[u]
      BY <1>1, <1>2 DEF ThreadState
    <3> HIDE DEF f
    <3> QED BY <2>2, <3>1, FinishCalm DEF Calm
  <2>4. CASE Gone(row[t])
    <3>1. row' = row
      BY <2>1, <2>4 DEF Write, Stored, Gone
    <3> QED BY <2>3, <3>1, CountKept
  <2>5. CASE ~Gone(row[t])
    <3>1. Stored(t)
      BY <1>2, <2>5 DEF Stored, Gone, Owned, RowSound
    <3> HIDE DEF q, n
    <3>2. PICK w : row' = [row EXCEPT ![t] = w] /\ w.st = "queued" /\ w.att = n
      BY <1>2, <2>1, <3>1, AttWritten
    <3>3. row'[t] = w /\ \A k \in Jobs \ {t} : row'[k] = row[k]
      BY <1>2, <3>2 DEF Typed, TypeOK
    <3>4. row[t].att \in Nat
      BY <1>2 DEF Typed, TypeOK, RowState
    <3>5. RowCounted(w) /\ row[t].att <= row'[t].att
      BY <1>2, <2>5, <3>2, <3>3, <3>4 DEF RowCounted
    <3>6. Counting(t, th'[t], row') /\ \A u \in Threads \ {t} : th'[u] = th[u] \/ Plain(th'[u])
      BY <2>3 DEF Counting, Plain, Calm
    <3> QED BY <1>2, <2>5, <3>3, <3>5, <3>6, CountChange
  <2> QED BY <2>4, <2>5
<1> QED BY <1>1, <1>3, <1>4

LEMMA OtherStepCounted ==
  ASSUME Typed, Owned, Counted, NEW t \in Threads,
         CallCreate(t) \/ Orphan(t) \/ Stop(t) \/ Pick(t)
  PROVE  Counted' /\ Grown
<1>1. row' = row /\ th \in [Threads -> ThreadState] /\ th[t] \in ThreadState
  BY DEF CallCreate, Orphan, Stop, Pick, Typed, TypeOK
<1>2. CASE Calm(th, t, th')
  BY <1>1, <1>2, CountKept
<1>3. CASE CallCreate(t)
  <2>1. PICK v : th' = [th EXCEPT ![t] = v] /\ v.pc \in {"store", "reject", "fail"}
    BY <1>3, CallCreateMove
  <2>2. Counting(t, v, row)
    BY <2>1 DEF Counting, Plain
  <2> QED BY <1>1, <2>1, <2>2, CountMove
<1>4. CASE Pick(t)
  <2>1. CASE th' = Finish(th, t)
    BY <1>1, <1>2, <2>1, FinishCalm
  <2>2. CASE \E k : th' = [th EXCEPT ![t].pc = "insert", ![t].job = k, ![t].reply = NoReply]
    <3>1. PICK k : th' = [th EXCEPT ![t].pc = "insert", ![t].job = k, ![t].reply = NoReply]
      BY <2>2
    <3> DEFINE v == [th[t] EXCEPT !.pc = "insert", !.job = k, !.reply = NoReply]
    <3>2. th' = [th EXCEPT ![t] = v] /\ v.pc = "insert"
      BY <1>1, <3>1 DEF ThreadState
    <3> HIDE DEF v
    <3>3. Counting(t, v, row)
      BY <3>2 DEF Counting, Plain
    <3> QED BY <1>1, <3>2, <3>3, CountMove
  <2> QED BY <1>4, <2>1, <2>2 DEF Pick
<1>5. CASE Orphan(t) /\ th[t].pc = "reject"
  <2>1. PICK v : th' = [th EXCEPT ![t] = v] /\ v.pc = "fail"
    BY <1>5, RejectMove
  <2>2. Counting(t, v, row)
    BY <2>1 DEF Counting, Plain
  <2> QED BY <1>1, <2>1, <2>2, CountMove
<1> QED BY <1>1, <1>2, <1>3, <1>4, <1>5, FinishCalm DEF Orphan, Stop

LEMMA MonitorCounted ==
  ASSUME Typed, Owned, Counted, NEW j \in Jobs, Poll(j) \/ CallGet(j) \/ Exit(j)
  PROVE  Counted' /\ Grown
<1>1. /\ j \in Threads /\ row' = row /\ th \in [Threads -> ThreadState]
      /\ th[j] \in ThreadState /\ th[j].pc \in {"poll", "call"} => th[j].job = j
  BY DEF Poll, CallGet, Exit, Typed, TypeOK, Threads, Owned, Watches
<1>2. CASE Poll(j) /\ Active(j)
  <2> DEFINE v == [th[j] EXCEPT !.pc = "call", !.canc = row[j].canc, !.att = row[j].att]
  <2>1. th' = [th EXCEPT ![j] = v]
    BY <1>1, <1>2 DEF Poll
  <2>2. v.pc = "call" /\ v.job = j /\ v.att = row[j].att
    BY <1>1, <1>2 DEF Poll, ThreadState
  <2> HIDE DEF v
  <2>3. Counting(j, v, row)
    BY <2>2 DEF Counting, Plain
  <2> QED BY <1>1, <2>1, <2>3, CountMove
<1>3. CASE \E q : th[j].pc = "call" /\ th' = [th EXCEPT ![j].pc = "apply", ![j].reply = q]
  <2>1. PICK q : th' = [th EXCEPT ![j].pc = "apply", ![j].reply = q]
    BY <1>3
  <2> DEFINE v == [th[j] EXCEPT !.pc = "apply", !.reply = q]
  <2>2. v.pc = "apply" /\ v.job = j /\ v.att = th[j].att
    <3>1. th[j] \in ThreadState /\ th[j].job = j
      BY <1>1, <1>3
    <3> QED BY <3>1 DEF ThreadState
  <2>4. th' = [th EXCEPT ![j] = v]
    BY <1>1, <2>1
  <2> HIDE DEF v
  <2>3. Counting(j, v, row)
    BY <1>1, <1>3, <2>2 DEF Counted, Counting, Plain
  <2> QED BY <1>1, <2>3, <2>4, CountMove
<1>4. CASE Calm(th, j, th')
  BY <1>1, <1>4, CountKept
<1>5. ASSUME Exit(j) \/ (Poll(j) /\ ~Active(j)) PROVE Calm(th, j, th')
  <2>1. Plain(Idle) /\ Plain([Idle EXCEPT !.pc = "exit", !.job = j])
    BY DEF Plain, Idle
  <2>2. PICK v : Plain(v) /\ th' = [th EXCEPT ![j] = v]
    BY <1>5, <2>1 DEF Exit, Poll
  <2> QED BY <1>1, <2>2 DEF Calm
<1> QED BY <1>1, <1>2, <1>3, <1>4, <1>5, FinishCalm DEF CallGet

LEMMA RequestCounted ==
  ASSUME Typed, Owned, Counted, {"cancel", "retry"} \cap Ops = {}, NEW r \in Requests,
         NEW j \in Jobs, StartCreate(r, j) \/ StartCancel(r, j) \/ StartRetry(r, j) \/ Abort(r)
  PROVE  Counted' /\ Grown
<1>1. r \in Threads /\ th \in [Threads -> ThreadState]
  BY DEF Threads, Typed, TypeOK
<1>2. CASE StartCreate(r, j)
  <2> DEFINE v == [Idle EXCEPT !.pc = "insert", !.job = j]
  <2>1. Plain(v) /\ th' = [th EXCEPT ![r] = v] /\ row' = row
    BY <1>2 DEF StartCreate, Plain, Idle
  <2> HIDE DEF v
  <2> QED BY <1>1, <2>1, CountKept DEF Calm
<1>3. CASE Abort(r)
  BY <1>1, <1>3, FinishCalm, GotoCalm, CountKept DEF Abort
<1>4. ~StartCancel(r, j) /\ ~StartRetry(r, j)
  BY DEF StartCancel, StartRetry
<1> QED BY <1>2, <1>3, <1>4

LEMMA DeleteFailedCounted ==
  ASSUME Typed, Owned, Counted, NEW j \in Jobs, DeleteFailed(j)
  PROVE  Counted' /\ Grown
<1> DEFINE w == [AbsentRow EXCEPT !.st = "deleted", !.pid = row[j].pid]
<1>1. /\ j \in Threads /\ th' = th /\ row[j].st = "failed" /\ row' = [row EXCEPT ![j] = w]
      /\ w.st = "deleted" /\ w.att = 0
  BY DEF DeleteFailed, Threads, AbsentRow
<1> HIDE DEF w
<1>2. row'[j] = w /\ \A k \in Jobs \ {j} : row'[k] = row[k]
  BY <1>1 DEF Typed, TypeOK
<1>3. th[j].pc \notin {"call", "apply"}
  BY <1>1, MonitorKept DEF Unfinished
<1>4. Counting(j, th'[j], row')
  <2>1. Counting(j, th[j], row)
    BY <1>1 DEF Counted
  <2> QED BY <1>1, <1>2, <1>3, <2>1 DEF Counting, Gone
<1>5. RowCounted(w)
  BY <1>1, BoundAssumption DEF RowCounted
<1>6. Gone(row'[j])
  BY <1>1, <1>2 DEF Gone
<1> QED BY <1>1, <1>2, <1>4, <1>5, <1>6, CountChange

LEMMA RecoverRowCounted ==
  ASSUME Typed, Owned, Counted, NEW j \in Jobs, RecoverRow(j)
  PROVE  Counted' /\ Grown
<1>1. /\ j \in Threads /\ row[j] \in RowState /\ th \in [Threads -> ThreadState]
      /\ row[j].st \in Unfinished
  BY DEF RecoverRow, Threads, Typed, TypeOK, Owned, RowSound
<1>2. ~Gone(row[j])
  BY <1>1 DEF Unfinished, Gone
<1>3. \E w : row' = [row EXCEPT ![j] = w] /\ w.att = row[j].att /\ w.st # "absent"
  <2>1. CASE \E q \in Replies(AfterCreate(pipe[j])) :
               row' = [row EXCEPT ![j].pid = TRUE, ![j].st = MapState(q.st)]
    <3>1. PICK q \in Replies(AfterCreate(pipe[j])) :
               row' = [row EXCEPT ![j].pid = TRUE, ![j].st = MapState(q.st)]
      BY <2>1
    <3> DEFINE s == MapState(q.st)
               w == [row[j] EXCEPT !.pid = TRUE, !.st = s]
    <3>2. q \in Reply /\ q.st # "none"
      BY PipeTypes DEF Typed, TypeOK
    <3>3. s # "absent"
      BY <3>2 DEF MapState, Reply, PipeStatus, FinalStatus
    <3>4. row' = [row EXCEPT ![j] = w]
      BY <3>1 DEF Typed, TypeOK
    <3>5. w.att = row[j].att /\ w.st = s
      <4> HIDE DEF s
      <4> QED BY <1>1 DEF RowState
    <3> HIDE DEF w, s
    <3> QED BY <3>3, <3>4, <3>5
  <2>2. CASE row' = [row EXCEPT ![j].st = "failed", ![j].res = FALSE]
    <3> DEFINE w == [row[j] EXCEPT !.st = "failed", !.res = FALSE]
    <3>1. row' = [row EXCEPT ![j] = w] /\ w.att = row[j].att /\ w.st = "failed"
      BY <1>1, <2>2 DEF Typed, TypeOK, RowState
    <3> HIDE DEF w
    <3> QED BY <3>1
  <2> QED BY <2>1, <2>2 DEF RecoverRow
<1>4. Calm(th, j, th') \/ UNCHANGED th
  <2> DEFINE p == [Idle EXCEPT !.pc = "poll", !.job = j]
  <2>1. Plain(p) /\ (th' = th \/ th' = [th EXCEPT ![j] = p])
    BY DEF RecoverRow, Schedule, Plain, Idle
  <2> HIDE DEF p
  <2> QED BY <1>1, <2>1 DEF Calm
<1> QED BY <1>1, <1>2, <1>3, <1>4, CountKept

LEMMA BootOrCrashCounted ==
  ASSUME Typed, Counted, Crash \/ Boot
  PROVE  Counted' /\ Grown
<1>1. row' = row /\ \A t \in Threads : Plain(th'[t])
  <2>1. Plain(Idle) /\ \A j : Plain([Idle EXCEPT !.pc = "poll", !.job = j])
    BY DEF Plain, Idle
  <2> QED BY <2>1 DEF Crash, Boot
<1>2. \A t \in Threads : Counting(t, th'[t], row')
  BY <1>1 DEF Counting, Plain
<1>3. \A k \in Jobs : row[k].att \in Nat
  BY DEF Typed, TypeOK, RowState
<1> QED BY <1>1, <1>2, <1>3 DEF Counted, Grown

LEMMA InitCounted == Init => Counted
BY BoundAssumption DEF Init, AbsentRow, Idle, Counted, RowCounted, Counting, Plain

LEMMA NextCounted ==
  ASSUME {"cancel", "retry"} \cap Ops = {}, 1 <= MaxAuto, Typed, Owned, Counted, [Next]_vars
  PROVE  Counted' /\ Grown
<1>1. ASSUME NEW t \in Threads, Step(t) PROVE Counted' /\ Grown
  BY <1>1, InsertCounted, FailCreateCounted, StoreCreateCounted, CallCancelCounted,
     InvalidCounted, ApplyCounted, ReloadCounted, ReserveCounted, CallRetryCounted,
     UndoReserveCounted, ResumeCounted, OtherStepCounted DEF Step
<1>2. ASSUME UNCHANGED <<row, th>> PROVE Counted' /\ Grown
  <2>1. \A k \in Jobs : row[k].att \in Nat
    BY DEF Typed, TypeOK, RowState
  <2> QED BY <1>2, <2>1 DEF Counted, Grown
<1>3. ASSUME NEW r \in Requests, Abort(r) PROVE Counted' /\ Grown
  <2>1. th[r].job \in Jobs
    BY <1>3, Thread DEF Abort, Threads
  <2> QED BY <1>3, <2>1, RequestCounted
<1>4. ASSUME NEW j \in Jobs, Pipeline(j) PROVE Counted' /\ Grown
  BY <1>2, <1>4 DEF Pipeline, PipeStart, PipeEnd
<1> QED BY <1>1, <1>2, <1>3, <1>4, RequestCounted, DeleteFailedCounted, MonitorCounted,
           RecoverRowCounted, BootOrCrashCounted DEF Next, vars, Monitor, Threads

(* Without manual retries and cancels no job is tried more often than the  *)
(* policy allows, over any failures, restarts and deletions.               *)
THEOREM AttemptsBounded ==
  ASSUME {"cancel", "retry"} \cap Ops = {}, 1 <= MaxAuto
  PROVE  Spec => []BoundedAuto
<1>1. Typed /\ Owned /\ Counted /\ [Next]_vars => Typed' /\ Owned' /\ Counted'
  BY NextTyped, NextOwned, NextCounted
<1>2. Counted => BoundedAuto
  BY DEF Counted, RowCounted, BoundedAuto
<1> QED BY <1>1, <1>2, InitTyped, InitOwned, InitCounted, PTL DEF Spec

(* And no step takes the recorded attempt back, although each write of the *)
(* pipeline's state carries a copy of it read earlier.                     *)
THEOREM AttemptsGrow ==
  ASSUME {"cancel", "retry"} \cap Ops = {}, 1 <= MaxAuto
  PROVE  Spec => AttemptGrows
<1>1. Typed /\ Owned /\ Counted /\ [Next]_vars
        => Typed' /\ Owned' /\ Counted'
           /\ [\A j \in Jobs : row'[j].st # "deleted" => row[j].att <= row'[j].att]_vars
  BY NextTyped, NextOwned, NextCounted DEF Grown
<1> QED BY <1>1, InitTyped, InitOwned, InitCounted, PTL DEF Spec, AttemptGrows

-----------------------------------------------------------------------------
(* Who gives a reservation back, while nothing crashes or goes away and    *)
(* only the policy retries: the thread that holds the row, or else the     *)
(* monitor of the unfinished row, which leaves only a final one.           *)
Guarded(j, w, f) ==
  w.res => \/ \E t \in Threads : Holding(f[t]) /\ f[t].job = j
           \/ w.st \in Unfinished /\ f[j].pc # "idle"

Guarding(t, v, r) ==
  /\ v.pc \in {"reload", "reserve", "retry", "undo", "resume"} => t \in Follow /\ v.job = t
  /\ v.pc \in {"apply", "resume"} => v.reply.st # "invalid"
  /\ v.pc = "exit" /\ t \in Jobs => r[t].st \notin Unfinished

Guard ==
  /\ up /\ todo = {}
  /\ \A j \in Jobs : Guarded(j, row[j], th) /\ (Gone(row[j]) => ~row[j].res)
  /\ \A t \in Threads : Guarding(t, th[t], row)

Undisturbed ==
  {"cancel", "retry"} \cap Ops = {} /\ {"abort", "crash", "invalid"} \cap Faults = {}

(* A thread that goes on without a row; the others stay as they are, but a *)
(* monitor may be started.                                                 *)
Returns(f, t, g) ==
  /\ g[t].pc \in {"idle", "poll", "orphan", "stop", "pick", "next"}
  /\ t \in Jobs => g[t].pc # "idle"
  /\ \A u \in Threads \ {t} : g[u] = f[u] \/ (f[u].pc = "idle" /\ g[u].pc = "poll")

LEMMA FinishReturns ==
  ASSUME NEW f \in [Threads -> ThreadState], NEW t \in Threads
  PROVE  Returns(f, t, Finish(f, t))
<1>1. CASE t \in Jobs
  <2> DEFINE v == [Idle EXCEPT !.pc = "poll", !.job = t]
  <2>1. v.pc = "poll" /\ Finish(f, t) = [f EXCEPT ![t] = v]
    BY <1>1 DEF Idle, Finish
  <2> HIDE DEF v
  <2> QED BY <2>1 DEF Returns
<1>2. CASE t \notin Jobs
  <2> DEFINE g == [f EXCEPT ![t] = Idle]
             k == f[t].sched
             p == [Idle EXCEPT !.pc = "poll", !.job = k]
  <2>1. g[t].pc = "idle" /\ p.pc = "poll" /\ \A u \in Threads \ {t} : g[u] = f[u]
    BY DEF Idle
  <2>2. Finish(f, t) = g \/ (g[k].pc = "idle" /\ Finish(f, t) = [g EXCEPT ![k] = p])
    BY <1>2 DEF Finish, Schedule
  <2>3. \A u \in Threads : [g EXCEPT ![k] = p][u] = IF u = k THEN p ELSE g[u]
    <3> HIDE DEF p
    <3> QED OBVIOUS
  <2> HIDE DEF g, p, k
  <2> QED BY <1>2, <2>1, <2>2, <2>3 DEF Returns
<1> QED BY <1>1, <1>2

LEMMA GotoReturns ==
  ASSUME NEW f \in [Threads -> ThreadState], NEW t \in Threads,
         NEW pc \in {"orphan", "stop", "pick", "next"}
  PROVE  Returns(f, t, Goto(f, t, pc))
<1> DEFINE v == [Idle EXCEPT !.pc = pc, !.job = f[t].job, !.nested = f[t].nested,
                             !.sched = f[t].sched]
<1>1. v.pc = pc /\ Goto(f, t, pc) = [f EXCEPT ![t] = v]
  BY DEF Idle, Goto
<1> HIDE DEF v
<1> QED BY <1>1 DEF Returns

LEMMA RefusedReturns ==
  ASSUME NEW f \in [Threads -> ThreadState], NEW t \in Threads
  PROVE  Returns(f, t, Refused(f, t))
BY FinishReturns, GotoReturns DEF Refused

(* What a step may do to one row and to the thread that takes it. *)
LEMMA GuardChange ==
  ASSUME Typed, Typed', Guard, NEW j \in Jobs, NEW t \in Threads,
         up' = up, todo' = todo,
         \A k \in Jobs \ {j} : row'[k] = row[k],
         \A u \in Threads \ {t} : th'[u] = th[u] \/ (th[u].pc = "idle" /\ th'[u].pc = "poll"),
         Guarding(t, th'[t], row'),
         Holding(th[t]) => \/ Holding(th'[t]) /\ th'[t].job = th[t].job
                           \/ th[t].job = j /\ (row'[j].res => row'[j].st \in Unfinished
                                                               /\ th'[j].pc # "idle"),
         t \in Jobs => th[t].pc \in {"idle", "exit"} \/ th'[t].pc # "idle",
         row'[j].res => row[j].res \/ (Holding(th'[t]) /\ th'[t].job = j),
         row[j].st \in Unfinished => row'[j].st \in Unfinished \/ ~row'[j].res,
         row'[j].st \in Unfinished => row[j].st \in Unfinished \/ th'[j].pc # "exit",
         Gone(row'[j]) => ~row'[j].res
  PROVE  Guard'
<1>1. ASSUME NEW u \in Threads PROVE Guarding(u, th'[u], row')
  <2>1. CASE u = t
    BY <2>1
  <2>2. CASE u # t /\ th'[u].pc = "poll"
    BY <2>2 DEF Guarding
  <2>3. CASE u # t /\ th'[u] = th[u]
    <3>1. Guarding(u, th[u], row)
      BY DEF Guard
    <3>2. u \in Jobs /\ th[u].pc = "exit" => row'[u].st \notin Unfinished
      BY <2>3, <3>1 DEF Guarding
    <3> QED BY <2>3, <3>1, <3>2 DEF Guarding
  <2> QED BY <2>1, <2>2, <2>3
<1>2. ASSUME NEW u \in Threads, Holding(th[u]), NEW k, th[u].job = k
      PROVE  \/ \E v \in Threads : Holding(th'[v]) /\ th'[v].job = k
             \/ k = j /\ (row'[j].res => row'[j].st \in Unfinished /\ th'[j].pc # "idle")
  <2>1. CASE u = t
    BY <1>2, <2>1
  <2>2. CASE u # t
    BY <1>2, <2>2 DEF Holding, Creator, Retrier
  <2> QED BY <2>1, <2>2
<1>3. ASSUME NEW k \in Jobs, row[k].st \in Unfinished, th[k].pc # "idle"
      PROVE  th'[k].pc # "idle"
  <2>1. k \in Threads /\ Guarding(k, th[k], row)
    BY DEF Guard, Threads
  <2> QED BY <1>3, <2>1 DEF Guarding
<1>4. ASSUME NEW k \in Jobs PROVE Guarded(k, row'[k], th') /\ (Gone(row'[k]) => ~row'[k].res)
  <2>1. Guarded(k, row[k], th) /\ (Gone(row[k]) => ~row[k].res)
    BY DEF Guard
  <2>2. CASE k # j
    BY <1>2, <1>3, <2>1, <2>2 DEF Guarded
  <2>3. CASE k = j
    BY <1>2, <1>3, <2>1, <2>3 DEF Guarded
  <2> QED BY <2>2, <2>3
<1> QED BY <1>1, <1>4 DEF Guard

(* A step of one thread that leaves the table alone. *)
LEMMA GuardMove ==
  ASSUME Typed, Typed', Guard, NEW t \in Threads, NEW j \in Jobs, NEW v,
         up' = up, todo' = todo, row' = row, th' = [th EXCEPT ![t] = v],
         Guarding(t, v, row),
         Holding(th[t]) => Holding(v) /\ v.job = th[t].job,
         t \in Jobs => th[t].pc \in {"idle", "exit"} \/ v.pc # "idle"
  PROVE  Guard'
<1>1. th'[t] = v /\ \A u \in Threads \ {t} : th'[u] = th[u]
  BY DEF Typed, TypeOK
<1>2. Gone(row[j]) => ~row[j].res
  BY DEF Guard
<1> QED BY <1>1, <1>2, GuardChange

(* A call that returns without having held a row. *)
LEMMA GuardReturn ==
  ASSUME Typed, Typed', Guard, NEW t \in Threads, NEW j \in Jobs,
         up' = up, todo' = todo, row' = row, Returns(th, t, th'), ~Holding(th[t])
  PROVE  Guard'
<1>1. Guarding(t, th'[t], row')
  BY DEF Guarding, Returns
<1>2. Gone(row[j]) => ~row[j].res
  BY DEF Guard
<1> QED BY <1>1, <1>2, GuardChange DEF Returns

(* A call that returns after it has written one row, and keeps none. *)
LEMMA GuardWrite ==
  ASSUME Typed, Typed', Guard, NEW t \in Threads, NEW j \in Jobs, NEW w,
         up' = up, todo' = todo, row' = [row EXCEPT ![j] = w], Returns(th, t, th'),
         Holding(th[t]) => th[t].job = j,
         w.res => row[j].res /\ w.st \in Unfinished /\ th'[j].pc # "idle",
         w.st \in Unfinished => row[j].st \in Unfinished \/ th'[j].pc # "exit"
  PROVE  Guard'
<1>1. row'[j] = w /\ \A k \in Jobs \ {j} : row'[k] = row[k]
  BY DEF Typed, TypeOK
<1>2. Guarding(t, th'[t], row')
  BY DEF Guarding, Returns
<1>3. Gone(w) => ~w.res
  BY DEF Gone, Unfinished
<1> QED BY <1>1, <1>2, <1>3, GuardChange DEF Returns

LEMMA InsertGuard ==
  ASSUME Typed, Typed', Owned, Guard, NEW t \in Threads, Insert(t)
  PROVE  Guard'
<1> DEFINE j == th[t].job
           v == [th[t] EXCEPT !.pc = "create"]
<1>1. /\ th[t].pc = "insert" /\ j \in Jobs /\ th \in [Threads -> ThreadState]
      /\ t \in Jobs => row[t].pid \/ Gone(row[t])
      /\ up' = up /\ todo' = todo
  BY Thread DEF Insert
<1>2. /\ v.pc = "create" /\ v.job = j
      /\ [th EXCEPT ![t].pc = "create"] = [th EXCEPT ![t] = v]
  BY <1>1 DEF ThreadState
<1>3. ~Holding(th[t])
  BY <1>1 DEF Holding, Creator, Retrier
<1> HIDE DEF v
<1>4. \A r : Guarding(t, v, r)
  BY <1>2 DEF Guarding
<1>5. CASE row' = row
  <2>1. th' = [th EXCEPT ![t] = v] \/ Returns(th, t, th')
    BY <1>1, <1>2, FinishReturns DEF Insert
  <2> QED BY <1>1, <1>2, <1>3, <1>4, <1>5, <2>1, GuardMove, GuardReturn
<1>6. CASE row' # row
  <2> DEFINE w == [st |-> "queued", pid |-> FALSE, res |-> TRUE, canc |-> FALSE, att |-> 1]
  <2>1. /\ row' = [row EXCEPT ![j] = w] /\ th' = [th EXCEPT ![t] = v]
        /\ row[j].st = "absent" /\ j \in Follow
    BY <1>2, <1>6 DEF Insert
  <2>2. w.st = "queued"
    OBVIOUS
  <2> HIDE DEF w
  <2>3. row'[j] = w /\ \A k \in Jobs \ {j} : row'[k] = row[k]
    BY <1>1, <2>1 DEF Typed, TypeOK
  <2>4. th'[t] = v /\ \A u \in Threads \ {t} : th'[u] = th[u]
    BY <1>1, <2>1
  <2>5. th'[j].pc # "exit"
    <3>1. RowSound(j, row[j], todo) /\ Watches(j, th[j], row) /\ j \in Threads
      BY <1>1 DEF Owned, Threads
    <3> QED BY <1>2, <2>1, <2>4, <3>1 DEF RowSound, Watches, Gone
  <2>6. Holding(th'[t]) /\ th'[t].job = j
    BY <1>2, <2>1, <2>4 DEF Holding, Creator
  <2>7. ~Gone(w) /\ w.st \in Unfinished /\ row[j].st \notin Unfinished
    BY <2>1, <2>2 DEF Gone, Unfinished
  <2> HIDE DEF j
  <2>8. t \in Jobs => th'[t].pc # "idle"
    BY <1>2, <2>4
  <2> QED BY <1>1, <1>3, <1>4, <2>3, <2>4, <2>5, <2>6, <2>7, <2>8, GuardChange
<1> QED BY <1>5, <1>6

LEMMA CallCreateGuard ==
  ASSUME Typed, Typed', Owned, Guard, NEW t \in Threads, CallCreate(t)
  PROVE  Guard'
<1>1. th[t].pc = "create" /\ th[t].job \in Jobs /\ up' = up /\ todo' = todo /\ row' = row
  BY Thread DEF CallCreate
<1>2. PICK v : /\ th' = [th EXCEPT ![t] = v]
               /\ v.pc \in {"store", "reject", "fail"} /\ v.job = th[t].job
  BY CallCreateMove
<1>3. Guarding(t, v, row) /\ (Holding(th[t]) => Holding(v))
  BY <1>1, <1>2 DEF Guarding, Holding, Creator, Retrier
<1> QED BY <1>1, <1>2, <1>3, GuardMove

LEMMA FailCreateGuard ==
  ASSUME Typed, Typed', Owned, Guard, NEW t \in Threads, FailCreate(t)
  PROVE  Guard'
<1> DEFINE j == th[t].job
           w == [row[j] EXCEPT !.st = "failed", !.res = FALSE]
<1>1. /\ th[t].pc = "fail" /\ j \in Jobs /\ th \in [Threads -> ThreadState]
      /\ up' = up /\ todo' = todo
  BY Thread DEF FailCreate
<1>2. Returns(th, t, th')
  BY <1>1, FinishReturns, GotoReturns DEF FailCreate
<1>3. CASE j \notin Follow
  <2>1. ~Holding(th[t]) /\ row' = row
    BY <1>1, <1>3 DEF FailCreate, Holding, Creator, Retrier
  <2> QED BY <1>1, <1>2, <2>1, GuardReturn
<1>4. CASE j \in Follow
  <2>1. row[j] \in RowState
    BY <1>1 DEF Typed, TypeOK
  <2>2. w.st = "failed" /\ ~w.res /\ row' = [row EXCEPT ![j] = w]
    BY <1>1, <1>4, <2>1 DEF FailCreate, Typed, TypeOK, RowState
  <2> HIDE DEF w, j
  <2>3. w.st \notin Unfinished /\ th[t].job = j
    BY <2>2 DEF Unfinished, j
  <2> QED BY <1>1, <1>2, <2>2, <2>3, GuardWrite
<1> QED BY <1>3, <1>4

(* What storing the answer of a create leaves: the row and its monitor.     *)
LEMMA StoreCreateCases ==
  ASSUME Typed, Owned, NEW t \in Threads, StoreCreate(t)
  PROVE  LET j == th[t].job IN
         /\ Returns(th, t, th')
         /\ \/ j \notin Follow /\ row[j].st # "absent" /\ row' = row
            \/ \E w : /\ row' = [row EXCEPT ![j] = w] /\ th'[j].pc = "poll"
                      /\ w.st = MapState(th[t].reply.st)
                      /\ w.res => row[j].res /\ w.st \notin FinalStatus
<1> DEFINE j == th[t].job
           q == th[t].reply
           s == MapState(q.st)
           g == Schedule(th, j)
<1>1. /\ th[t].pc = "store" /\ j \in Jobs /\ j \in Threads
      /\ th \in [Threads -> ThreadState]
      /\ t \in Jobs => row[t].pid \/ Gone(row[t])
  BY Thread DEF StoreCreate, Threads
<1>2. CASE j \notin Follow /\ row[j].st # "absent"
  <2>1. row' = row /\ th' = Finish(th, t)
    BY <1>1, <1>2 DEF StoreCreate
  <2> QED BY <1>1, <1>2, <2>1, FinishReturns
<1>3. CASE j \in Follow \/ row[j].st = "absent"
  <2>1. ~row[j].pid /\ ~Gone(row[j])
    BY <1>1, <1>3 DEF Owned, Claims, RowSound, Creator, Gone
  <2>2. j # t /\ th[j].pc = "idle"
    <3>1. Watches(j, th[j], row)
      BY <1>1 DEF Owned
    <3> QED BY <1>1, <2>1, <3>1 DEF Watches, Gone
  <2>3. th' = Finish(g, t) /\ g \in [Threads -> ThreadState] /\ g[t] = th[t]
        /\ g[j].pc = "poll" /\ \A u \in Threads \ {j} : g[u] = th[u]
    <3> DEFINE p == [Idle EXCEPT !.pc = "poll", !.job = j]
    <3>1. g = [th EXCEPT ![j] = p] /\ p.pc = "poll"
      BY <1>1, <2>2, JobsAssumption DEF Schedule, Idle
    <3>2. th' = Finish(g, t)
      BY <1>3 DEF StoreCreate
    <3>3. g \in [Threads -> ThreadState]
      BY <1>1, ScheduleGood DEF Typed, Good
    <3> HIDE DEF g, p
    <3> QED BY <1>1, <2>2, <3>1, <3>2, <3>3
  <2>4. Returns(th, t, th') /\ th'[j].pc = "poll"
    <3> HIDE DEF g
    <3>1. Returns(g, t, th')
      BY <2>3, FinishReturns
    <3> QED BY <1>1, <2>2, <2>3, <3>1 DEF Returns
  <2>5. PICK w : /\ row' = [row EXCEPT ![j] = w] /\ w.st = s
                 /\ w.res => row[j].res /\ s \notin FinalStatus
    <3>1. row[j] \in RowState
      BY <1>1 DEF Typed, TypeOK
    <3> DEFINE w1 == [row[j] EXCEPT !.st = s, !.pid = TRUE, !.canc = q.canc,
                                    !.res = @ /\ s \notin FinalStatus]
               w2 == [st |-> s, pid |-> TRUE, res |-> FALSE, canc |-> q.canc, att |-> 1]
    <3>2. w1.st = s /\ w1.res = (row[j].res /\ s \notin FinalStatus)
      <4> HIDE DEF s
      <4> QED BY <3>1 DEF RowState
    <3>3. CASE j \in Follow
      <4>1. row' = [row EXCEPT ![j] = w1]
        <5> HIDE DEF s, q
        <5> QED BY <1>1, <3>3 DEF StoreCreate, Typed, TypeOK, s, q
      <4> HIDE DEF w1
      <4> QED BY <3>2, <4>1
    <3>4. CASE j \notin Follow
      <4>1. row' = [row EXCEPT ![j] = w2] /\ w2.st = s /\ ~w2.res
        BY <1>3, <3>4 DEF StoreCreate
      <4> HIDE DEF w2
      <4> QED BY <4>1
    <3> QED BY <3>3, <3>4
  <2> QED BY <2>4, <2>5
<1> QED BY <1>2, <1>3

LEMMA StoreCreateGuard ==
  ASSUME Typed, Typed', Owned, Guard, NEW t \in Threads, StoreCreate(t)
  PROVE  Guard'
<1> DEFINE j == th[t].job
           s == MapState(th[t].reply.st)
<1>1. th[t].pc = "store" /\ j \in Jobs /\ up' = up /\ todo' = todo /\ Returns(th, t, th')
  BY Thread, StoreCreateCases DEF StoreCreate
<1>2. s \in Status \ {"absent", "deleted"}
  <2>1. th[t].reply \in Reply /\ th[t].reply.st # "none"
    BY <1>1 DEF Typed, Good, GoodThread, ThreadState
  <2> QED BY <2>1 DEF MapState, Reply, PipeStatus, Status, FinalStatus
<1>3. CASE j \notin Follow /\ row' = row
  <2>1. ~Holding(th[t])
    BY <1>1, <1>3 DEF Holding, Creator, Retrier
  <2> QED BY <1>1, <1>3, <2>1, GuardReturn
<1>4. CASE \E w : /\ row' = [row EXCEPT ![j] = w] /\ th'[j].pc = "poll" /\ w.st = s
                  /\ w.res => row[j].res /\ w.st \notin FinalStatus
  <2>1. PICK w : /\ row' = [row EXCEPT ![j] = w] /\ th'[j].pc = "poll" /\ w.st = s
                 /\ w.res => row[j].res /\ w.st \notin FinalStatus
    BY <1>4
  <2> HIDE DEF s
  <2>2. w.res => row[j].res /\ w.st \in Unfinished /\ th'[j].pc # "idle"
    BY <1>2, <2>1 DEF Status, FinalStatus, Unfinished
  <2> QED BY <1>1, <2>1, <2>2, GuardWrite
<1> QED BY SMTT(30), <1>3, <1>4, StoreCreateCases

LEMMA ReplyKnown ==
  ASSUME "invalid" \notin Faults, NEW p \in [st : PipeStatus, canc : BOOLEAN],
         NEW q \in Replies(p)
  PROVE  q.st # "invalid"
BY DEF Replies, PipeStatus, FinalStatus

LEMMA CallCancelGuard ==
  ASSUME Typed, Typed', Owned, Guard, "invalid" \notin Faults, NEW t \in Threads, CallCancel(t)
  PROVE  Guard'
<1>1. /\ th[t].pc = "call" /\ t \in Jobs /\ th[t].job = t
      /\ th \in [Threads -> ThreadState] /\ th[t] \in ThreadState /\ row[t] \in RowState
      /\ pipe[t] \in [st : PipeStatus, canc : BOOLEAN]
      /\ up' = up /\ todo' = todo /\ ~Holding(th[t])
  BY MonitoredRow DEF CallCancel, Typed, TypeOK, Holding, Creator, Retrier
<1>2. CASE \E q \in Replies(AfterCancel(pipe[t])) :
             /\ th' = [th EXCEPT ![t].pc = "apply", ![t].reply = q, ![t].canc = FALSE]
             /\ row' = row
  <2>1. PICK q \in Replies(AfterCancel(pipe[t])) :
             th' = [th EXCEPT ![t].pc = "apply", ![t].reply = q, ![t].canc = FALSE]
    BY <1>2
  <2> DEFINE v == [th[t] EXCEPT !.pc = "apply", !.reply = q, !.canc = FALSE]
  <2>2. th' = [th EXCEPT ![t] = v] /\ v.pc = "apply" /\ v.reply = q
    BY <1>1, <2>1 DEF ThreadState
  <2>3. q.st # "invalid"
    BY <1>1, PipeTypes, ReplyKnown
  <2> HIDE DEF v
  <2>4. Guarding(t, v, row)
    BY <2>2, <2>3 DEF Guarding
  <2> QED BY <1>1, <1>2, <2>2, <2>4, GuardMove
<1>3. CASE th' = Finish(th, t) /\ row' = row
  BY <1>1, <1>3, FinishReturns, GuardReturn
<1>4. CASE th' = Finish(th, t) /\ row' = [row EXCEPT ![t].canc = FALSE]
  <2> DEFINE w == [row[t] EXCEPT !.canc = FALSE]
  <2>1. row' = [row EXCEPT ![t] = w] /\ w.st = row[t].st /\ w.res = row[t].res
    BY <1>1, <1>4 DEF Typed, TypeOK, RowState
  <2>2. Returns(th, t, th') /\ row[t].st \in Unfinished
    BY <1>1, <1>4, FinishReturns, MonitoredRow
  <2> HIDE DEF w
  <2> QED BY <1>1, <2>1, <2>2, GuardWrite DEF Returns
<1> QED BY <1>1, <1>2, <1>3, <1>4 DEF CallCancel

LEMMA AfterApplyCases ==
  ASSUME NEW f, NEW t, NEW q, NEW att
  PROVE  LET g == [f EXCEPT ![t].nested = TRUE] IN
         \/ AfterApply(f, t, q, att) = Goto(g, t, "pick")
         \/ AfterApply(f, t, q, att) = Goto(f, t, "stop")
         \/ AfterApply(f, t, q, att) = Finish(f, t)
         \/ f[t].job \in Subscribed /\ AfterApply(f, t, q, att) = Goto(g, t, "reload")
<1> DEFINE j == f[t].job
           g == [f EXCEPT ![t].nested = TRUE]
           stop == Goto(f, t, "stop")
           done == Finish(f, t)
           pick == Goto(g, t, "pick")
           again == Goto(g, t, "reload")
<1>1. CASE j \in Subscribed
  <2>1. \/ AfterApply(f, t, q, att) = pick \/ AfterApply(f, t, q, att) = stop
        \/ AfterApply(f, t, q, att) = done \/ AfterApply(f, t, q, att) = again
    BY <1>1 DEF AfterApply
  <2> QED BY <1>1, <2>1
<1>2. CASE j \notin Subscribed
  BY <1>2 DEF AfterApply, Failing
<1> QED BY <1>1, <1>2

(* After an answer was applied, a monitor goes on without a row, or it      *)
(* retries its own job at once.                                            *)
LEMMA ApplyReturns ==
  ASSUME Typed, Owned, NEW t \in Threads, Apply(t)
  PROVE  \/ Returns(th, t, th')
         \/ t \in Subscribed /\ th' = Goto([th EXCEPT ![t].nested = TRUE], t, "reload")
<1> DEFINE f == [th EXCEPT ![t].nested = TRUE]
<1>1. th[t].job = t /\ th \in [Threads -> ThreadState]
  BY MonitoredRow DEF Apply, Typed, TypeOK
<1>2. f \in [Threads -> ThreadState] /\ \A u \in Threads \ {t} : f[u] = th[u]
  BY <1>1 DEF ThreadState
<1>3. Returns(th, t, Goto(f, t, "pick"))
  <2> HIDE DEF f
  <2> QED BY <1>2, GotoReturns DEF Returns
<1>4. Returns(th, t, Goto(th, t, "stop")) /\ Returns(th, t, Finish(th, t))
  BY <1>1, GotoReturns, FinishReturns
<1>5. \/ th' = Goto(f, t, "pick") \/ th' = Goto(th, t, "stop") \/ th' = Finish(th, t)
      \/ t \in Subscribed /\ th' = Goto(f, t, "reload")
  <2>1. \A q, n : LET g == [th EXCEPT ![t].nested = TRUE] IN
            \/ AfterApply(th, t, q, n) = Goto(g, t, "pick")
            \/ AfterApply(th, t, q, n) = Goto(th, t, "stop")
            \/ AfterApply(th, t, q, n) = Finish(th, t)
            \/ th[t].job \in Subscribed /\ AfterApply(th, t, q, n) = Goto(g, t, "reload")
    BY AfterApplyCases
  <2>2. th' = AfterApply(th, t, th[t].reply, th[t].att)
    BY DEF Apply
  <2> QED BY ONLY <1>1, <2>1, <2>2 DEF f
<1> QED BY <1>3, <1>4, <1>5

LEMMA ApplyGuard ==
  ASSUME Typed, Typed', Owned, Guard, NEW t \in Threads, Apply(t)
  PROVE  Guard'
<1> DEFINE q == th[t].reply
           s == ApplyState(q.st)
           f == [th EXCEPT ![t].nested = TRUE]
<1>1. /\ th[t].pc = "apply" /\ t \in Jobs /\ th[t].job = t /\ row[t].st \in Unfinished
      /\ th \in [Threads -> ThreadState] /\ up' = up /\ todo' = todo /\ ~Holding(th[t])
  BY MonitoredRow DEF Apply, Typed, TypeOK, Holding, Creator, Retrier
<1>2. s \in Status \ {"absent", "deleted"}
  <2>1. q \in Reply /\ q.st # "none"
    BY <1>1 DEF Typed, Good, GoodThread, ThreadState
  <2> QED BY <2>1 DEF ApplyState, MapState, Reply, PipeStatus, Status, FinalStatus
<1>3. PICK w : /\ row' = [row EXCEPT ![t] = w]
               /\ w.st = s /\ w.res = (row[t].res /\ s \notin FinalStatus)
  <2>1. Stored(t)
    BY <1>1 DEF Stored, Unfinished
  <2>2. row' = Write(t, s, q.canc, th[t].att)
    BY <1>1 DEF Apply
  <2> HIDE DEF s, q
  <2> QED BY <1>1, <2>1, <2>2, WriteRow
<1> HIDE DEF s
<1>4. w.res => row[t].res /\ w.st \in Unfinished
  BY <1>2, <1>3 DEF Status, FinalStatus, Unfinished
<1>5. CASE Returns(th, t, th')
  BY <1>1, <1>3, <1>4, <1>5, GuardWrite DEF Returns
<1>6. CASE t \in Subscribed /\ th' = Goto(f, t, "reload")
  <2> DEFINE v == [Idle EXCEPT !.pc = "reload", !.job = f[t].job, !.nested = f[t].nested,
                               !.sched = f[t].sched]
  <2>1. v.pc = "reload" /\ v.job = t
    BY <1>1 DEF Idle
  <2>2. th'[t] = v /\ \A u \in Threads \ {t} : th'[u] = th[u]
    BY <1>1, <1>6 DEF Goto
  <2> HIDE DEF v
  <2>3. row'[t] = w /\ \A k \in Jobs \ {t} : row'[k] = row[k]
    BY <1>1, <1>3 DEF Typed, TypeOK
  <2>4. Guarding(t, v, row')
    BY <1>6, <2>1, FollowAssumption DEF Guarding
  <2>5. Gone(w) => ~w.res
    BY <1>4 DEF Gone, Unfinished
  <2> QED BY <1>1, <1>4, <2>1, <2>2, <2>3, <2>4, <2>5, GuardChange
<1> QED BY <1>5, <1>6, ApplyReturns

LEMMA ReloadGuard ==
  ASSUME Typed, Typed', Owned, Guard, NEW t \in Threads, Reload(t)
  PROVE  Guard'
<1>1. /\ th[t].pc = "reload" /\ th \in [Threads -> ThreadState] /\ th[t] \in ThreadState
      /\ up' = up /\ todo' = todo /\ row' = row /\ ~Holding(th[t])
  BY DEF Reload, Typed, TypeOK, Holding, Creator, Retrier
<1>2. t \in Follow /\ t \in Jobs /\ th[t].job = t
  BY <1>1, FollowAssumption DEF Guard, Guarding
<1>3. CASE th' = Refused(th, t)
  BY <1>1, <1>2, <1>3, RefusedReturns, GuardReturn
<1>4. CASE th' = LoadRetry(th, t, t)
  <2> DEFINE v == [th[t] EXCEPT !.pc = "reserve", !.job = t, !.att = row[t].att, !.canc = FALSE,
                                !.reply = NoReply]
  <2>1. th' = [th EXCEPT ![t] = v] /\ v.pc = "reserve" /\ v.job = t
    BY <1>1, <1>2, <1>4 DEF LoadRetry, ThreadState
  <2> HIDE DEF v
  <2>2. Guarding(t, v, row)
    BY <1>2, <2>1 DEF Guarding
  <2> QED BY <1>1, <1>2, <2>1, <2>2, GuardMove
<1> QED BY <1>2, <1>3, <1>4 DEF Reload

LEMMA ReserveGuard ==
  ASSUME Typed, Typed', Owned, Guard, NEW t \in Threads, Reserve(t)
  PROVE  Guard'
<1>1. /\ th[t].pc = "reserve" /\ th \in [Threads -> ThreadState] /\ th[t] \in ThreadState
      /\ up' = up /\ todo' = todo /\ ~Holding(th[t])
  BY DEF Reserve, Typed, TypeOK, Holding, Creator, Retrier
<1>2. t \in Follow /\ t \in Jobs /\ th[t].job = t
  BY <1>1, FollowAssumption DEF Guard, Guarding
<1>3. CASE th' = Refused(th, t) /\ row' = row
  BY <1>1, <1>2, <1>3, RefusedReturns, GuardReturn
<1>4. CASE /\ Stored(t) /\ row' = [row EXCEPT ![t].res = TRUE]
           /\ th' = [th EXCEPT ![t].pc = "retry"]
  <2> DEFINE v == [th[t] EXCEPT !.pc = "retry"]
             w == [row[t] EXCEPT !.res = TRUE]
  <2>1. th' = [th EXCEPT ![t] = v] /\ row' = [row EXCEPT ![t] = w]
    BY <1>1, <1>2, <1>4 DEF Typed, TypeOK
  <2>2. v.pc = "retry" /\ v.job = t
    BY <1>1, <1>2 DEF ThreadState
  <2>3. row[t] \in RowState
    BY <1>2 DEF Typed, TypeOK
  <2>4. w.st = row[t].st
    BY <2>3 DEF RowState
  <2> HIDE DEF v, w
  <2>5. row'[t] = w /\ \A k \in Jobs \ {t} : row'[k] = row[k]
    BY <1>2, <2>1 DEF Typed, TypeOK
  <2>6. th'[t] = v /\ \A u \in Threads \ {t} : th'[u] = th[u]
    BY <1>1, <2>1
  <2>7. Guarding(t, v, row') /\ Holding(v)
    BY <1>2, <2>2 DEF Guarding, Holding, Retrier
  <2>8. ~Gone(w)
    BY <1>4, <2>4 DEF Gone, Stored
  <2> QED BY <1>1, <1>2, <2>2, <2>4, <2>5, <2>6, <2>7, <2>8, GuardChange
<1> QED BY <1>2, <1>3, <1>4 DEF Reserve

LEMMA CallRetryGuard ==
  ASSUME Typed, Typed', Owned, Guard, "invalid" \notin Faults, NEW t \in Threads, CallRetry(t)
  PROVE  Guard'
<1>1. /\ th[t].pc = "retry" /\ th \in [Threads -> ThreadState] /\ th[t] \in ThreadState
      /\ up' = up /\ todo' = todo /\ row' = row
  BY DEF CallRetry, Typed, TypeOK
<1>2. t \in Follow /\ t \in Jobs /\ th[t].job = t
  BY <1>1, FollowAssumption DEF Guard, Guarding
<1>3. CASE th' = Goto(th, t, "undo")
  <2> DEFINE v == [Idle EXCEPT !.pc = "undo", !.job = th[t].job, !.nested = th[t].nested,
                               !.sched = th[t].sched]
  <2>1. v.pc = "undo" /\ v.job = t /\ th' = [th EXCEPT ![t] = v]
    BY <1>2, <1>3 DEF Idle, Goto
  <2> HIDE DEF v
  <2>2. Guarding(t, v, row) /\ Holding(v)
    BY <1>2, <2>1 DEF Guarding, Holding, Retrier
  <2> QED BY <1>1, <1>2, <2>1, <2>2, GuardMove
<1>4. CASE \E q \in Replies(AfterRetry) :
             th' = [th EXCEPT ![t].pc = "resume", ![t].reply = q, ![t].att = @ + 1]
  <2>1. PICK q \in Replies(AfterRetry) :
             th' = [th EXCEPT ![t].pc = "resume", ![t].reply = q, ![t].att = @ + 1]
    BY <1>4
  <2> DEFINE n == th[t].att + 1
             v == [th[t] EXCEPT !.pc = "resume", !.reply = q, !.att = n]
  <2>2. th' = [th EXCEPT ![t] = v]
    BY <1>1, <2>1
  <2>3. v.pc = "resume" /\ v.job = t /\ v.reply = q
    <3> HIDE DEF n
    <3> QED BY <1>1, <1>2 DEF ThreadState
  <2> HIDE DEF v, n
  <2>4. q.st # "invalid"
    BY ReplyKnown DEF AfterRetry, PipeStatus
  <2>5. Guarding(t, v, row) /\ Holding(v)
    BY <1>2, <2>3, <2>4 DEF Guarding, Holding, Retrier
  <2> QED BY <1>1, <1>2, <2>2, <2>3, <2>5, GuardMove
<1> QED BY <1>3, <1>4 DEF CallRetry

LEMMA UndoReserveGuard ==
  ASSUME Typed, Typed', Owned, Guard, NEW t \in Threads, UndoReserve(t)
  PROVE  Guard'
<1>1. /\ th[t].pc = "undo" /\ th \in [Threads -> ThreadState] /\ up' = up /\ todo' = todo
  BY DEF UndoReserve, Typed, TypeOK
<1>2. t \in Jobs /\ th[t].job = t
  BY <1>1, FollowAssumption DEF Guard, Guarding
<1> DEFINE w == [row[t] EXCEPT !.res = FALSE]
<1>3. row' = [row EXCEPT ![t] = w]
  BY <1>2 DEF UndoReserve, Typed, TypeOK
<1>4. ~w.res /\ w.st = row[t].st
  <2>1. row[t] \in RowState
    BY <1>2 DEF Typed, TypeOK
  <2> QED BY <2>1 DEF RowState
<1> HIDE DEF w
<1>5. Returns(th, t, th')
  BY <1>1, RefusedReturns DEF UndoReserve
<1> QED BY <1>1, <1>2, <1>3, <1>4, <1>5, GuardWrite

LEMMA ResumeGuard ==
  ASSUME Typed, Typed', Owned, Guard, NEW t \in Threads, Resume(t)
  PROVE  Guard'
<1> DEFINE q == th[t].reply
           f == [th EXCEPT ![t].sched = t]
<1>1. /\ th[t].pc = "resume" /\ th \in [Threads -> ThreadState] /\ up' = up /\ todo' = todo
      /\ q.st = "queued"
  BY DEF Resume, Typed, TypeOK, Owned, Claims, Guard, Guarding
<1>2. /\ t \in Jobs /\ th[t].job = t /\ (row[t].pid \/ Gone(row[t]))
      /\ Gone(row[t]) => ~row[t].res
  BY <1>1, FollowAssumption, Thread DEF Guard, Guarding
<1>3. row' = Write(t, "queued", q.canc, th[t].att) /\ th' = AfterApply(f, t, q, th[t].att)
  BY <1>1, <1>2 DEF Resume, ApplyState, MapState
<1>4. th' = Finish(f, t)
  BY <1>1, <1>3 DEF AfterApply, Failing
<1>5. Returns(th, t, th') /\ th'[t].pc = "poll"
  <2>1. f \in [Threads -> ThreadState] /\ \A u \in Threads \ {t} : f[u] = th[u]
    BY <1>1, <1>2 DEF ThreadState
  <2> DEFINE v == [Idle EXCEPT !.pc = "poll", !.job = t]
  <2>2. v.pc = "poll" /\ th' = [f EXCEPT ![t] = v]
    BY <1>2, <1>4 DEF Idle, Finish
  <2> HIDE DEF f, v
  <2>3. Returns(f, t, th')
    BY <1>4, <2>1, FinishReturns
  <2> QED BY <2>1, <2>2, <2>3 DEF Returns
<1>6. PICK w : row' = [row EXCEPT ![t] = w] /\ (w.res => row[t].res /\ w.st \in Unfinished)
  <2>1. CASE Gone(row[t])
    <3>1. row' = row
      BY <1>3, <2>1 DEF Write, Stored, Gone
    <3>2. row' = [row EXCEPT ![t] = row[t]]
      BY <3>1 DEF Typed, TypeOK
    <3> QED BY <1>2, <2>1, <3>2
  <2>2. CASE ~Gone(row[t])
    <3>1. Stored(t)
      BY <1>2, <2>2 DEF Stored, Gone, Owned, RowSound
    <3> HIDE DEF q, f
    <3>2. \E c, n : row' = Write(t, "queued", c, n)
      BY <1>3
    <3>3. PICK w : /\ row' = [row EXCEPT ![t] = w]
                   /\ w.st = "queued" /\ w.pid = row[t].pid
                   /\ w.res = (row[t].res /\ "queued" \notin FinalStatus)
      BY <1>2, <3>1, <3>2, WriteRow
    <3> QED BY <3>3 DEF Unfinished
  <2> QED BY <2>1, <2>2
<1> QED BY <1>1, <1>2, <1>5, <1>6, GuardWrite

LEMMA OtherStepGuard ==
  ASSUME Typed, Typed', Owned, Guard, NEW t \in Threads, Orphan(t) \/ Stop(t) \/ Pick(t)
  PROVE  Guard'
<1>1. /\ row' = row /\ th \in [Threads -> ThreadState] /\ th[t].job \in Jobs
      /\ up' = up /\ todo' = todo /\ (th[t].pc # "reject" => ~Holding(th[t]))
      /\ th[t] \in ThreadState /\ th[t].pc \notin {"idle", "exit"}
  BY Thread DEF Orphan, Stop, Pick, Typed, TypeOK, Holding, Creator, Retrier
<1>2. CASE th' = Finish(th, t) /\ th[t].pc # "reject"
  BY <1>1, <1>2, FinishReturns, GuardReturn
<1>3. CASE /\ \E k : th' = [th EXCEPT ![t].pc = "insert", ![t].job = k, ![t].reply = NoReply]
           /\ th[t].pc # "reject"
  <2>1. PICK k : th' = [th EXCEPT ![t].pc = "insert", ![t].job = k, ![t].reply = NoReply]
    BY <1>3
  <2> DEFINE v == [th[t] EXCEPT !.pc = "insert", !.job = k, !.reply = NoReply]
  <2>2. th' = [th EXCEPT ![t] = v] /\ v.pc = "insert"
    BY <1>1, <2>1 DEF ThreadState
  <2> HIDE DEF v
  <2>3. Guarding(t, v, row)
    BY <2>2 DEF Guarding
  <2> QED BY <1>1, <1>3, <2>2, <2>3, GuardMove
<1>4. CASE Orphan(t) /\ th[t].pc = "reject"
  <2>1. PICK v : /\ th' = [th EXCEPT ![t] = v] /\ v.pc = "fail" /\ v.job = th[t].job
    BY <1>4, RejectMove
  <2>2. Guarding(t, v, row) /\ (Holding(th[t]) => Holding(v))
    BY <1>4, <2>1 DEF Guarding, Holding, Creator, Retrier
  <2> QED BY <1>1, <2>1, <2>2, GuardMove
<1> QED BY <1>2, <1>3, <1>4 DEF Orphan, Stop, Pick

LEMMA MonitorGuard ==
  ASSUME Typed, Typed', Owned, Guard, "invalid" \notin Faults, NEW j \in Jobs,
         Poll(j) \/ CallGet(j) \/ Exit(j)
  PROVE  Guard'
<1>1. /\ j \in Threads /\ row' = row /\ th \in [Threads -> ThreadState]
      /\ th[j] \in ThreadState /\ pipe[j] \in [st : PipeStatus, canc : BOOLEAN]
      /\ up' = up /\ todo' = todo /\ ~Holding(th[j])
  BY DEF Poll, CallGet, Exit, Typed, TypeOK, Threads, Holding, Creator, Retrier
<1>2. CASE Poll(j)
  <2>1. CASE Active(j)
    <3> DEFINE v == [th[j] EXCEPT !.pc = "call", !.canc = row[j].canc, !.att = row[j].att]
    <3>1. th' = [th EXCEPT ![j] = v] /\ v.pc = "call"
      BY <1>1, <1>2, <2>1 DEF Poll, ThreadState
    <3> HIDE DEF v
    <3>2. Guarding(j, v, row)
      BY <3>1 DEF Guarding
    <3> QED BY <1>1, <3>1, <3>2, GuardMove
  <2>2. CASE ~Active(j)
    <3> DEFINE v == [Idle EXCEPT !.pc = "exit", !.job = j]
    <3>1. th' = [th EXCEPT ![j] = v] /\ v.pc = "exit"
      BY <1>2, <2>2 DEF Poll, Idle
    <3> HIDE DEF v
    <3>2. Guarding(j, v, row)
      BY <2>2, <3>1 DEF Guarding, Active, Unfinished
    <3> QED BY <1>1, <3>1, <3>2, GuardMove
  <2> QED BY <2>1, <2>2
<1>3. CASE CallGet(j)
  <2>1. CASE th' = Finish(th, j)
    BY <1>1, <2>1, FinishReturns, GuardReturn
  <2>2. CASE \E q \in Replies(pipe[j]) : th' = [th EXCEPT ![j].pc = "apply", ![j].reply = q]
    <3>1. PICK q \in Replies(pipe[j]) : th' = [th EXCEPT ![j].pc = "apply", ![j].reply = q]
      BY <2>2
    <3> DEFINE v == [th[j] EXCEPT !.pc = "apply", !.reply = q]
    <3>2. th' = [th EXCEPT ![j] = v] /\ v.pc = "apply" /\ v.reply = q
      BY <1>1, <3>1 DEF ThreadState
    <3>3. q.st # "invalid"
      BY <1>1, ReplyKnown
    <3> HIDE DEF v
    <3>4. Guarding(j, v, row)
      BY <3>2, <3>3 DEF Guarding
    <3> QED BY <1>1, <3>2, <3>4, GuardMove
  <2> QED BY <1>3, <2>1, <2>2 DEF CallGet
<1>4. CASE Exit(j)
  <2>1. th[j].pc = "exit" /\ th' = [th EXCEPT ![j] = Idle] /\ Guarding(j, Idle, row)
    BY <1>4 DEF Exit, Idle, Guarding
  <2> QED BY <1>1, <2>1, GuardMove
<1> QED BY <1>2, <1>3, <1>4

LEMMA DeleteFailedGuard ==
  ASSUME Typed, Typed', Owned, Guard, NEW j \in Jobs, DeleteFailed(j)
  PROVE  Guard'
<1> DEFINE w == [AbsentRow EXCEPT !.st = "deleted", !.pid = row[j].pid]
<1>1. /\ j \in Threads /\ th' = th /\ up' = up /\ todo' = todo
      /\ row[j].st = "failed" /\ row' = [row EXCEPT ![j] = w]
      /\ w.st = "deleted" /\ ~w.res
  BY DEF DeleteFailed, Threads, AbsentRow
<1> HIDE DEF w
<1>2. row'[j] = w /\ \A k \in Jobs \ {j} : row'[k] = row[k]
  BY <1>1 DEF Typed, TypeOK
<1>3. Guarding(j, th'[j], row') /\ row'[j].st \notin Unfinished /\ ~row'[j].res
  BY <1>1, <1>2 DEF Guard, Guarding, Unfinished
<1>4. th[j].pc \notin {"idle", "exit"} => th'[j].pc # "idle"
  BY <1>1
<1> QED BY <1>1, <1>2, <1>3, <1>4, GuardChange

LEMMA InitGuard == Init => Guard
<1> SUFFICES ASSUME Init PROVE Guard
  OBVIOUS
<1>1. \A j \in Jobs : Guarded(j, row[j], th) /\ ~row[j].res
  BY DEF Init, AbsentRow, Guarded
<1>2. \A t \in Threads : Guarding(t, th[t], row)
  BY DEF Init, Idle, Guarding
<1> QED BY <1>1, <1>2 DEF Init, Guard

LEMMA NextGuard ==
  ASSUME Undisturbed, Typed, Owned, Guard, [Next]_vars
  PROVE  Guard'
<1>1. /\ Typed' /\ "invalid" \notin Faults /\ "abort" \notin Faults /\ "crash" \notin Faults
      /\ "cancel" \notin Ops /\ "retry" \notin Ops
  BY NextTyped DEF Undisturbed
<1>2. ASSUME NEW t \in Threads, Step(t) PROVE Guard'
  <2>1. ~Invalid(t)
    BY DEF Invalid, Guard, Guarding
  <2> QED BY <1>1, <1>2, <2>1, InsertGuard, CallCreateGuard, FailCreateGuard, StoreCreateGuard,
             CallCancelGuard, ApplyGuard, ReloadGuard, ReserveGuard, CallRetryGuard,
             UndoReserveGuard, ResumeGuard, OtherStepGuard DEF Step
<1>3. ASSUME UNCHANGED <<row, th, up, todo>> PROVE Guard'
  BY <1>3 DEF Guard
<1>4. ASSUME NEW r \in Requests, NEW j \in Jobs, StartCreate(r, j) PROVE Guard'
  <2> DEFINE v == [Idle EXCEPT !.pc = "insert", !.job = j]
  <2>1. v.pc = "insert" /\ th' = [th EXCEPT ![r] = v] /\ th[r].pc = "idle"
    BY <1>4 DEF StartCreate, Idle
  <2>2. r \in Threads /\ row' = row /\ up' = up /\ todo' = todo
    BY <1>4 DEF StartCreate, Threads
  <2> HIDE DEF v
  <2>3. Guarding(r, v, row) /\ ~Holding(th[r])
    BY <2>1 DEF Guarding, Holding, Creator, Retrier
  <2> QED BY <1>1, <2>1, <2>2, <2>3, GuardMove
<1>5. ASSUME NEW j \in Jobs, Pipeline(j) PROVE Guard'
  BY <1>3, <1>5 DEF Pipeline, PipeStart, PipeEnd
<1>6. \A r \in Requests, j \in Jobs : ~StartCancel(r, j) /\ ~StartRetry(r, j) /\ ~Abort(r)
  BY <1>1 DEF StartCancel, StartRetry, Abort
<1>7. ~Crash /\ ~Boot /\ \A j \in Jobs : ~RecoverRow(j)
  BY <1>1 DEF Crash, Boot, RecoverRow, Guard
<1>8. \A r \in Requests : ~Abort(r)
  BY <1>1 DEF Abort
<1> QED BY <1>1, <1>2, <1>3, <1>4, <1>5, <1>6, <1>7, <1>8, DeleteFailedGuard, MonitorGuard
     DEF Next, vars, Monitor, Threads

(* While nothing crashes or goes away and only the policy retries, every   *)
(* reservation is in the hands of a call under way or of a running monitor, *)
(* over refused and lost calls, failures and deletions.                    *)
THEOREM ReservationsOwned ==
  ASSUME Undisturbed
  PROVE  Spec => []ReservationOwned
<1>1. "cancel" \notin Ops
  BY DEF Undisturbed
<1>2. Typed /\ Owned /\ Guard /\ [Next]_vars => Typed' /\ Owned' /\ Guard'
  BY <1>1, NextTyped, NextOwned, NextGuard
<1>3. Guard => ReservationOwned
  BY DEF Guard, Guarded, ReservationOwned, Holding, Creator, Retrier, Creating, Retrying,
         Active, Unfinished, Executing
<1> QED BY <1>2, <1>3, InitTyped, InitOwned, InitGuard, PTL DEF Spec

-----------------------------------------------------------------------------
(* Where a task the pipeline works on is recorded, or is about to be: an    *)
(* answer is at most behind the task by its end, since nobody else can put  *)
(* the task back to work while it is carried to the row.                   *)
Working(p) == p.st \in {"queued", "running"}

Tasked(j, w, p, f) ==
  Working(p) => \/ w.st \in Unfinished
                \/ w.st = "absent" /\ \E t \in Threads : f[t].pc = "store" /\ f[t].job = j
                \/ \E t \in Threads : f[t].pc = "resume" /\ f[t].job = j

Tasking(v, p) ==
  /\ v.pc \in {"store", "apply"} => /\ v.reply.st # "invalid" /\ p[v.job].st # "none"
                                    /\ Working(p[v.job]) => Working(v.reply)
  /\ v.pc \in {"create", "fail"} /\ v.job \in Follow => p[v.job].st = "none"
  /\ v.pc # "reject"

RowTasked(j, w, p) ==
  /\ ~Gone(w)
  /\ j \in Follow /\ w.st = "absent" => p.st = "none"
  /\ j \notin Follow /\ w.st # "absent" => p.st # "none"

Tasks ==
  /\ \A j \in Jobs : RowTasked(j, row[j], pipe[j]) /\ Tasked(j, row[j], pipe[j], th)
  /\ \A t \in Threads : Tasking(th[t], pipe)

(* No failed row is deleted, and every answer the pipeline gives arrives.   *)
Uninterrupted == Undisturbed /\ "delete" \notin Ops /\ "lostReply" \notin Faults

(* A task that is not put back to work. *)
Ebb(p, q) == (q.st = "none" <=> p.st = "none") /\ (Working(q) => Working(p))

LEMMA CancelEbbs ==
  ASSUME NEW p \in [st : PipeStatus, canc : BOOLEAN]
  PROVE  Ebb(p, AfterCancel(p))
BY DEF Ebb, AfterCancel, Working

(* What a step may do to one job's row and task and to its own thread. *)
LEMMA TasksChange ==
  ASSUME Typed, Tasks, NEW j \in Jobs, NEW t \in Threads,
         \A k \in Jobs \ {j} : row'[k] = row[k] /\ pipe'[k] = pipe[k],
         \A u \in Threads \ {t} : th'[u] = th[u] \/ (th[u].pc = "idle" /\ th'[u].pc = "poll"),
         \A u \in Threads \ {t} : th[u].job = j => Tasking(th[u], pipe'),
         Tasking(th'[t], pipe'),
         RowTasked(j, row'[j], pipe'[j]),
         Tasked(j, row'[j], pipe'[j], th'),
         th[t].pc \in {"store", "resume"} => th[t].job = j
  PROVE  Tasks'
<1>1. ASSUME NEW u \in Threads PROVE Tasking(th'[u], pipe')
  <2>1. CASE u = t
    BY <2>1
  <2>2. CASE u # t /\ th'[u].pc = "poll"
    BY <2>2 DEF Tasking
  <2>3. CASE u # t /\ th'[u] = th[u]
    <3>1. Tasking(th[u], pipe) /\ (th[u].pc # "idle" => th[u].job \in Jobs)
      BY DEF Tasks, Typed, Good, GoodThread
    <3>2. CASE th[u].job = j
      BY <2>3, <3>2
    <3>3. CASE th[u].job # j
      <4>1. th[u].pc # "idle" => pipe'[th[u].job] = pipe[th[u].job]
        BY <3>1, <3>3
      <4> QED BY <2>3, <3>1, <4>1 DEF Tasking
    <3> QED BY <3>2, <3>3
  <2> QED BY <2>1, <2>2, <2>3
<1>2. ASSUME NEW k \in Jobs
      PROVE  RowTasked(k, row'[k], pipe'[k]) /\ Tasked(k, row'[k], pipe'[k], th')
  <2>1. CASE k = j
    BY <2>1
  <2>2. CASE k # j
    <3>1. RowTasked(k, row[k], pipe[k]) /\ Tasked(k, row[k], pipe[k], th)
      BY DEF Tasks
    <3>2. \A u \in Threads : th[u].pc \in {"store", "resume"} /\ th[u].job = k => th'[u] = th[u]
      BY <2>2
    <3> QED BY <2>2, <3>1, <3>2 DEF Tasked
  <2> QED BY <2>1, <2>2
<1> QED BY <1>1, <1>2 DEF Tasks

(* A step that keeps every status and puts no task back to work. *)
LEMMA TasksKeep ==
  ASSUME Typed, Tasks, NEW j \in Jobs, NEW t \in Threads,
         \A k \in Jobs \ {j} : row'[k] = row[k] /\ pipe'[k] = pipe[k],
         row'[j].st = row[j].st, Ebb(pipe[j], pipe'[j]),
         \A u \in Threads \ {t} : th'[u] = th[u] \/ (th[u].pc = "idle" /\ th'[u].pc = "poll"),
         Tasking(th'[t], pipe'),
         th[t].pc \notin {"store", "resume"}
  PROVE  Tasks'
<1>1. RowTasked(j, row'[j], pipe'[j])
  BY DEF Tasks, RowTasked, Ebb, Gone
<1>2. ASSUME NEW u \in Threads \ {t}, th[u].job = j PROVE Tasking(th[u], pipe')
  BY <1>2 DEF Tasks, Tasking, Ebb
<1>3. Tasked(j, row'[j], pipe'[j], th')
  <2>1. Tasked(j, row[j], pipe[j], th)
    BY DEF Tasks
  <2>2. \A u \in Threads : th[u].pc \in {"store", "resume"} => th'[u] = th[u]
    OBVIOUS
  <2> QED BY <2>1, <2>2 DEF Tasked, Ebb
<1> QED BY <1>1, <1>2, <1>3, TasksChange

LEMMA TasksReturn ==
  ASSUME Typed, Tasks, NEW j \in Jobs, NEW t \in Threads, row' = row, pipe' = pipe,
         Returns(th, t, th'), th[t].pc \notin {"store", "resume"}
  PROVE  Tasks'
<1>1. Tasking(th'[t], pipe') /\ Ebb(pipe[j], pipe'[j])
  BY DEF Tasking, Returns, Ebb
<1> QED BY <1>1, TasksKeep DEF Returns

LEMMA TasksMove ==
  ASSUME Typed, Tasks, NEW j \in Jobs, NEW t \in Threads, NEW v, row' = row, pipe' = pipe,
         th' = [th EXCEPT ![t] = v], Tasking(v, pipe), th[t].pc \notin {"store", "resume"}
  PROVE  Tasks'
<1>1. th'[t] = v /\ \A u \in Threads \ {t} : th'[u] = th[u]
  BY DEF Typed, TypeOK
<1>2. Ebb(pipe[j], pipe'[j])
  BY DEF Ebb
<1> QED BY <1>1, <1>2, TasksKeep

(* A call that returns after it has written the row of its job. *)
LEMMA TasksWrite ==
  ASSUME Typed, Tasks, NEW j \in Jobs, NEW t \in Threads, NEW w,
         row' = [row EXCEPT ![j] = w], pipe' = pipe, Tasking(th'[t], pipe),
         \A u \in Threads \ {t} : th'[u] = th[u] \/ (th[u].pc = "idle" /\ th'[u].pc = "poll"),
         w.st \notin {"absent", "deleted"},
         Working(pipe[j]) => w.st \in Unfinished,
         j \notin Follow => pipe[j].st # "none",
         th[t].pc \in {"store", "resume"} => th[t].job = j
  PROVE  Tasks'
<1>1. row'[j] = w /\ \A k \in Jobs \ {j} : row'[k] = row[k]
  BY DEF Typed, TypeOK
<1>2. RowTasked(j, w, pipe[j]) /\ Tasked(j, w, pipe[j], th')
  BY DEF RowTasked, Tasked, Gone
<1>3. \A u \in Threads \ {t} : Tasking(th[u], pipe)
  BY DEF Tasks
<1> QED BY <1>1, <1>2, <1>3, TasksChange

LEMMA InsertTasks ==
  ASSUME Typed, Owned, Tasks, NEW t \in Threads, Insert(t)
  PROVE  Tasks'
<1> DEFINE j == th[t].job
           v == [th[t] EXCEPT !.pc = "create"]
<1>1. /\ th[t].pc = "insert" /\ j \in Jobs /\ th \in [Threads -> ThreadState]
      /\ pipe' = pipe
  BY Thread DEF Insert
<1>2. /\ v.pc = "create" /\ v.job = j
      /\ [th EXCEPT ![t].pc = "create"] = [th EXCEPT ![t] = v]
  BY <1>1 DEF ThreadState
<1> HIDE DEF v
<1>3. CASE row' = row /\ j \notin Follow /\ th' = [th EXCEPT ![t] = v]
  <2>1. Tasking(v, pipe)
    BY <1>2, <1>3 DEF Tasking
  <2> QED BY <1>1, <1>3, <2>1, TasksMove
<1>4. CASE row' = row /\ th' = Finish(th, t)
  BY <1>1, <1>4, FinishReturns, TasksReturn
<1>5. CASE /\ j \in Follow /\ row[j].st = "absent" /\ th' = [th EXCEPT ![t] = v]
           /\ row' = [row EXCEPT ![j] =
                [st |-> "queued", pid |-> FALSE, res |-> TRUE, canc |-> FALSE, att |-> 1]]
  <2> DEFINE w == [st |-> "queued", pid |-> FALSE, res |-> TRUE, canc |-> FALSE, att |-> 1]
  <2>1. w.st = "queued" /\ row' = [row EXCEPT ![j] = w]
    BY <1>5
  <2> HIDE DEF w
  <2>2. th'[t] = v /\ \A u \in Threads \ {t} : th'[u] = th[u]
    BY <1>1, <1>5
  <2>3. pipe[j].st = "none"
    BY <1>1, <1>5 DEF Tasks, RowTasked
  <2>4. Tasking(th'[t], pipe)
    BY <1>2, <2>2, <2>3 DEF Tasking
  <2>5. w.st \in Unfinished /\ w.st \notin {"absent", "deleted"}
    BY <2>1 DEF Unfinished
  <2> QED BY <1>1, <1>5, <2>1, <2>2, <2>4, <2>5, TasksWrite
<1> QED BY <1>2, <1>3, <1>4, <1>5 DEF Insert

LEMMA CallCreateTasks ==
  ASSUME Typed, Owned, Tasks, {"invalid", "lostReply"} \cap Faults = {},
         NEW t \in Threads, CallCreate(t)
  PROVE  Tasks'
<1> DEFINE j == th[t].job
<1>1. /\ th[t].pc = "create" /\ j \in Jobs /\ th \in [Threads -> ThreadState]
      /\ th[t] \in ThreadState /\ row' = row
      /\ pipe \in [Jobs -> [st : PipeStatus, canc : BOOLEAN]]
  BY Thread DEF CallCreate, Typed, TypeOK
<1>2. RowTasked(j, row[j], pipe[j]) /\ Tasked(j, row[j], pipe[j], th) /\ Tasking(th[t], pipe)
  BY <1>1 DEF Tasks
<1>3. j \in Follow => /\ row[j].st = "queued"
                     /\ \A u \in Threads \ {t} : ~(Holding(th[u]) /\ th[u].job = j)
  <2>1. j \in Follow => Creator(th[t]) /\ Claims(th[t], row, todo)
    BY <1>1 DEF Owned, Creator
  <2> QED BY <2>1, HolderAlone DEF Claims, Holding, Gone
<1>4. CASE \E q \in Replies(AfterCreate(pipe[j])) :
             /\ pipe' = [pipe EXCEPT ![j] = AfterCreate(pipe[j])]
             /\ th' = [th EXCEPT ![t].pc = "store", ![t].reply = q]
  <2> DEFINE p == AfterCreate(pipe[j])
  <2>1. PICK q \in Replies(p) : /\ pipe' = [pipe EXCEPT ![j] = p]
                                /\ th' = [th EXCEPT ![t].pc = "store", ![t].reply = q]
    BY <1>4
  <2>2. q = p /\ p.st # "none" /\ p.st # "invalid"
        /\ (pipe[j].st # "none" => p = pipe[j]) /\ (pipe[j].st = "none" => p.st = "queued")
    <3>1. pipe[j] \in [st : PipeStatus, canc : BOOLEAN]
      BY <1>1
    <3> QED BY <2>1, <3>1 DEF Replies, AfterCreate, PipeStatus, FinalStatus
  <2> DEFINE v == [th[t] EXCEPT !.pc = "store", !.reply = q]
  <2>3. th' = [th EXCEPT ![t] = v] /\ v.pc = "store" /\ v.job = j /\ v.reply = q
    BY <1>1, <2>1 DEF ThreadState
  <2> HIDE DEF v, p
  <2>4. th'[t] = v /\ \A u \in Threads \ {t} : th'[u] = th[u]
    BY <1>1, <2>3
  <2>5. pipe'[j] = p /\ \A k \in Jobs \ {j} : pipe'[k] = pipe[k]
    BY <1>1, <2>1
  <2>6. Tasking(v, pipe')
    BY <2>2, <2>3, <2>5 DEF Tasking
  <2>7. RowTasked(j, row[j], p)
    BY <1>2, <1>3, <2>2 DEF RowTasked
  <2>8. Tasked(j, row[j], p, th')
    <3>1. CASE row[j].st = "absent"
      BY <2>3, <2>4, <3>1 DEF Tasked
    <3>2. CASE j \in Follow
      BY <1>3, <3>2 DEF Tasked, Unfinished
    <3>3. CASE j \notin Follow /\ row[j].st # "absent"
      <4>1. p = pipe[j]
        BY <1>2, <2>2, <3>3 DEF RowTasked
      <4>2. \A u \in Threads : th[u].pc = "resume" => th'[u] = th[u]
        BY <1>1, <2>4
      <4> QED BY <1>2, <3>3, <4>1, <4>2 DEF Tasked
    <3> QED BY <3>1, <3>2, <3>3
  <2>9. ASSUME NEW u \in Threads \ {t}, th[u].job = j PROVE Tasking(th[u], pipe')
    <3>1. Tasking(th[u], pipe)
      BY DEF Tasks
    <3>2. CASE pipe[j].st # "none"
      BY <2>2, <2>5, <2>9, <3>1, <3>2 DEF Tasking
    <3>3. CASE pipe[j].st = "none"
      <4>1. th[u].pc \notin {"store", "apply"}
        BY <2>9, <3>1, <3>3 DEF Tasking
      <4>2. j \in Follow => th[u].pc \notin {"create", "fail"}
        BY <1>3, <2>9 DEF Holding, Creator
      <4> QED BY <2>9, <3>1, <4>1, <4>2 DEF Tasking
    <3> QED BY <3>2, <3>3
  <2> QED BY <1>1, <2>4, <2>5, <2>6, <2>7, <2>8, <2>9, TasksChange
<1>5. CASE pipe' = pipe /\ th' = [th EXCEPT ![t].pc = "fail", ![t].reply.st = "blocked"]
  <2> DEFINE r == [th[t].reply EXCEPT !.st = "blocked"]
             v == [th[t] EXCEPT !.pc = "fail", !.reply = r]
  <2>1. th' = [th EXCEPT ![t] = v] /\ v.pc = "fail" /\ v.job = j
    BY <1>1, <1>5 DEF ThreadState
  <2> HIDE DEF v
  <2>2. Tasking(v, pipe)
    BY <1>1, <1>2, <2>1 DEF Tasking
  <2> QED BY <1>1, <1>5, <2>1, <2>2, TasksMove
<1> QED BY <1>4, <1>5 DEF CallCreate

LEMMA FailCreateTasks ==
  ASSUME Typed, Owned, Tasks, NEW t \in Threads, FailCreate(t)
  PROVE  Tasks'
<1> DEFINE j == th[t].job
           w == [row[j] EXCEPT !.st = "failed", !.res = FALSE]
<1>1. /\ th[t].pc = "fail" /\ j \in Jobs /\ th \in [Threads -> ThreadState] /\ pipe' = pipe
  BY Thread DEF FailCreate
<1>2. Returns(th, t, th')
  BY <1>1, FinishReturns, GotoReturns DEF FailCreate
<1>3. CASE j \notin Follow
  BY <1>1, <1>2, <1>3, TasksReturn DEF FailCreate
<1>4. CASE j \in Follow
  <2>1. row[j] \in RowState
    BY <1>1 DEF Typed, TypeOK
  <2>2. w.st = "failed" /\ row' = [row EXCEPT ![j] = w]
    BY <1>1, <1>4, <2>1 DEF FailCreate, Typed, TypeOK, RowState
  <2>3. ~Working(pipe[j])
    BY <1>1, <1>4 DEF Tasks, Tasking, Working
  <2> HIDE DEF w
  <2>4. Tasking(th'[t], pipe) /\ w.st \notin {"absent", "deleted"}
    BY <1>2, <2>2 DEF Returns, Tasking
  <2> QED BY <1>1, <1>2, <1>4, <2>2, <2>3, <2>4, TasksWrite DEF Returns
<1> QED BY <1>3, <1>4

LEMMA StoreCreateTasks ==
  ASSUME Typed, Owned, Tasks, NEW t \in Threads, StoreCreate(t)
  PROVE  Tasks'
<1> DEFINE j == th[t].job
           q == th[t].reply
           s == MapState(q.st)
<1>1. /\ th[t].pc = "store" /\ j \in Jobs /\ pipe' = pipe /\ th[t] \in ThreadState
  BY Thread DEF StoreCreate, Typed, TypeOK
<1>2. Tasking(th[t], pipe) /\ RowTasked(j, row[j], pipe[j]) /\ Tasked(j, row[j], pipe[j], th)
  BY <1>1 DEF Tasks
<1>3. /\ s \notin {"absent", "deleted"} /\ pipe[j].st # "none"
      /\ Working(pipe[j]) => s \in Unfinished
  <2>1. q \in Reply /\ q.st \notin {"none", "invalid"}
    BY <1>1, <1>2 DEF Typed, Good, GoodThread, ThreadState, Tasking
  <2>2. s \notin {"absent", "deleted"} /\ (Working(q) => s \in Unfinished)
    BY <2>1 DEF MapState, Reply, PipeStatus, FinalStatus, Working, Unfinished
  <2> HIDE DEF s
  <2> QED BY <1>1, <1>2, <2>2 DEF Tasking
<1>4. Returns(th, t, th')
  BY StoreCreateCases
<1>5. CASE j \notin Follow /\ row[j].st # "absent" /\ row' = row
  <2>1. Tasking(th'[t], pipe')
    BY <1>4 DEF Returns, Tasking
  <2>2. Tasked(j, row[j], pipe[j], th')
    <3>1. \A u \in Threads : th[u].pc = "resume" => th'[u] = th[u]
      BY <1>1, <1>4 DEF Returns
    <3> QED BY <1>2, <1>5, <3>1 DEF Tasked
  <2>3. \A u \in Threads \ {t} : Tasking(th[u], pipe')
    BY <1>1 DEF Tasks
  <2> QED BY <1>1, <1>2, <1>4, <1>5, <2>1, <2>2, <2>3, TasksChange DEF Returns
<1>6. CASE \E w : row' = [row EXCEPT ![j] = w] /\ w.st = s
  <2>1. PICK w : row' = [row EXCEPT ![j] = w] /\ w.st = s
    BY <1>6
  <2>2. Tasking(th'[t], pipe)
    BY <1>4 DEF Returns, Tasking
  <2> HIDE DEF s
  <2> QED BY <1>1, <1>3, <1>4, <2>1, <2>2, TasksWrite DEF Returns
<1> QED BY <1>5, <1>6, StoreCreateCases

LEMMA CallCancelTasks ==
  ASSUME Typed, Owned, Tasks, "invalid" \notin Faults, NEW t \in Threads, CallCancel(t)
  PROVE  Tasks'
<1> DEFINE p == AfterCancel(pipe[t])
<1>1. /\ th[t].pc = "call" /\ t \in Jobs /\ th[t].job = t
      /\ th \in [Threads -> ThreadState] /\ th[t] \in ThreadState /\ row[t] \in RowState
      /\ pipe \in [Jobs -> [st : PipeStatus, canc : BOOLEAN]]
      /\ pipe[t] \in [st : PipeStatus, canc : BOOLEAN]
  BY MonitoredRow DEF CallCancel, Typed, TypeOK
<1>2. CASE /\ pipe' = [pipe EXCEPT ![t] = p] /\ row' = row
           /\ \E q \in Replies(p) :
                th' = [th EXCEPT ![t].pc = "apply", ![t].reply = q, ![t].canc = FALSE]
  <2>1. PICK q \in Replies(p) :
             th' = [th EXCEPT ![t].pc = "apply", ![t].reply = q, ![t].canc = FALSE]
    BY <1>2
  <2> DEFINE v == [th[t] EXCEPT !.pc = "apply", !.reply = q, !.canc = FALSE]
  <2>2. th' = [th EXCEPT ![t] = v] /\ v.pc = "apply" /\ v.reply = q /\ v.job = t
    BY <1>1, <2>1 DEF ThreadState
  <2>3. q = p /\ p.st \notin {"none", "invalid"} /\ Ebb(pipe[t], p)
    <3>1. p \in [st : PipeStatus, canc : BOOLEAN]
      BY <1>1, PipeTypes
    <3> HIDE DEF p
    <3>2. q = p /\ p.st \notin {"none", "invalid"}
      BY <2>1, <3>1 DEF Replies, PipeStatus, FinalStatus
    <3> QED BY <1>1, <3>2, CancelEbbs DEF p
  <2> HIDE DEF v, p
  <2>4. th'[t] = v /\ \A u \in Threads \ {t} : th'[u] = th[u]
    BY <1>1, <2>2
  <2>5. pipe'[t] = p /\ \A k \in Jobs \ {t} : pipe'[k] = pipe[k]
    BY <1>1, <1>2
  <2>6. Tasking(v, pipe')
    BY <2>2, <2>3, <2>5 DEF Tasking
  <2> QED BY <1>1, <1>2, <2>3, <2>4, <2>5, <2>6, TasksKeep
<1>3. CASE th' = Finish(th, t) /\ row' = row /\ pipe' = pipe
  BY <1>1, <1>3, FinishReturns, TasksReturn
<1>4. CASE th' = Finish(th, t) /\ row' = [row EXCEPT ![t].canc = FALSE] /\ pipe' = pipe
  <2>1. row'[t].st = row[t].st /\ \A k \in Jobs \ {t} : row'[k] = row[k]
    BY <1>1, <1>4 DEF Typed, TypeOK, RowState
  <2>2. Returns(th, t, th')
    BY <1>1, <1>4, FinishReturns
  <2>3. Tasking(th'[t], pipe') /\ Ebb(pipe[t], pipe'[t])
    BY <1>4, <2>2 DEF Returns, Tasking, Ebb
  <2> QED BY <1>1, <1>4, <2>1, <2>2, <2>3, TasksKeep DEF Returns
<1> QED BY <1>1, <1>2, <1>3, <1>4 DEF CallCancel

LEMMA ApplyTasks ==
  ASSUME Typed, Owned, Tasks, NEW t \in Threads, Apply(t)
  PROVE  Tasks'
<1> DEFINE q == th[t].reply
           s == ApplyState(q.st)
           f == [th EXCEPT ![t].nested = TRUE]
<1>1. /\ th[t].pc = "apply" /\ t \in Jobs /\ th[t].job = t /\ row[t].st \in Unfinished
      /\ th \in [Threads -> ThreadState] /\ th[t] \in ThreadState /\ pipe' = pipe
  BY MonitoredRow DEF Apply, Typed, TypeOK
<1>2. /\ s \notin {"absent", "deleted"} /\ pipe[t].st # "none"
      /\ Working(pipe[t]) => s \in Unfinished
  <2>1. q \in Reply /\ q.st \notin {"none", "invalid"} /\ Tasking(th[t], pipe)
    BY <1>1 DEF Typed, Good, GoodThread, ThreadState, Tasks, Tasking
  <2>2. s \notin {"absent", "deleted"} /\ (Working(q) => s \in Unfinished)
    BY <2>1 DEF ApplyState, MapState, Reply, PipeStatus, FinalStatus, Working, Unfinished
  <2> HIDE DEF s
  <2> QED BY <1>1, <2>1, <2>2 DEF Tasking
<1>3. PICK w : row' = [row EXCEPT ![t] = w] /\ w.st = s
  <2>1. Stored(t)
    BY <1>1 DEF Stored, Unfinished
  <2>2. row' = Write(t, s, q.canc, th[t].att)
    BY <1>1 DEF Apply
  <2> HIDE DEF s, q
  <2> QED BY <1>1, <2>1, <2>2, WriteRow
<1> HIDE DEF s
<1>4. /\ th'[t].pc \in {"idle", "poll", "orphan", "stop", "pick", "next", "reload"}
      /\ \A u \in Threads \ {t} : th'[u] = th[u] \/ (th[u].pc = "idle" /\ th'[u].pc = "poll")
  <2>1. CASE th' = Goto(f, t, "reload")
    <3>1. f \in [Threads -> ThreadState] /\ \A u \in Threads \ {t} : f[u] = th[u]
      BY <1>1 DEF ThreadState
    <3> DEFINE v == [Idle EXCEPT !.pc = "reload", !.job = f[t].job, !.nested = f[t].nested,
                                 !.sched = f[t].sched]
    <3>2. v.pc = "reload" /\ th' = [f EXCEPT ![t] = v]
      BY <2>1 DEF Idle, Goto
    <3> HIDE DEF v, f
    <3> QED BY <3>1, <3>2
  <2> QED BY <2>1, ApplyReturns DEF Returns
<1>5. Tasking(th'[t], pipe)
  BY <1>4 DEF Tasking
<1> QED BY <1>1, <1>2, <1>3, <1>4, <1>5, TasksWrite

LEMMA ReloadTasks ==
  ASSUME Typed, Owned, Guard, Tasks, NEW t \in Threads, Reload(t) \/ Reserve(t)
  PROVE  Tasks'
<1>1. /\ th[t].pc \in {"reload", "reserve"} /\ th \in [Threads -> ThreadState]
      /\ th[t] \in ThreadState /\ pipe' = pipe
  BY DEF Reload, Reserve, Typed, TypeOK
<1>2. t \in Jobs /\ t \in Follow /\ th[t].job = t /\ Ebb(pipe[t], pipe'[t])
  BY <1>1, FollowAssumption DEF Guard, Guarding, Ebb
<1>3. CASE th' = Refused(th, t) /\ row' = row
  BY <1>1, <1>2, <1>3, RefusedReturns, TasksReturn
<1>4. CASE th' = LoadRetry(th, t, t) /\ row' = row
  <2> DEFINE v == [th[t] EXCEPT !.pc = "reserve", !.job = t, !.att = row[t].att, !.canc = FALSE,
                                !.reply = NoReply]
  <2>1. th' = [th EXCEPT ![t] = v] /\ v.pc = "reserve"
    BY <1>1, <1>2, <1>4 DEF LoadRetry, ThreadState
  <2> HIDE DEF v
  <2>2. Tasking(v, pipe)
    BY <2>1 DEF Tasking
  <2> QED BY <1>1, <1>2, <1>4, <2>1, <2>2, TasksMove
<1>5. CASE row' = [row EXCEPT ![t].res = TRUE] /\ th' = [th EXCEPT ![t].pc = "retry"]
  <2>1. row'[t].st = row[t].st /\ \A k \in Jobs \ {t} : row'[k] = row[k]
    BY <1>2, <1>5 DEF Typed, TypeOK, RowState
  <2>2. th'[t].pc = "retry" /\ \A u \in Threads \ {t} : th'[u] = th[u]
    BY <1>1, <1>5 DEF ThreadState
  <2>3. Tasking(th'[t], pipe')
    BY <2>2 DEF Tasking
  <2> QED BY <1>1, <1>2, <2>1, <2>2, <2>3, TasksKeep
<1> QED BY <1>2, <1>3, <1>4, <1>5 DEF Reload, Reserve

LEMMA CallRetryTasks ==
  ASSUME Typed, Owned, Guard, Tasks, {"invalid", "lostReply"} \cap Faults = {},
         NEW t \in Threads, CallRetry(t)
  PROVE  Tasks'
<1>1. /\ th[t].pc = "retry" /\ th \in [Threads -> ThreadState] /\ th[t] \in ThreadState
      /\ row' = row /\ pipe \in [Jobs -> [st : PipeStatus, canc : BOOLEAN]]
  BY DEF CallRetry, Typed, TypeOK
<1>2. t \in Follow /\ t \in Jobs /\ th[t].job = t
  BY <1>1, FollowAssumption DEF Guard, Guarding
<1>3. CASE th' = Goto(th, t, "undo") /\ pipe' = pipe
  <2> DEFINE v == [Idle EXCEPT !.pc = "undo", !.job = th[t].job, !.nested = th[t].nested,
                               !.sched = th[t].sched]
  <2>1. v.pc = "undo" /\ th' = [th EXCEPT ![t] = v]
    BY <1>2, <1>3 DEF Idle, Goto
  <2> HIDE DEF v
  <2>2. Tasking(v, pipe)
    BY <2>1 DEF Tasking
  <2> QED BY <1>1, <1>2, <1>3, <2>1, <2>2, TasksMove
<1>4. CASE /\ pipe' = [pipe EXCEPT ![t] = AfterRetry]
           /\ \E q \in Replies(AfterRetry) :
                th' = [th EXCEPT ![t].pc = "resume", ![t].reply = q, ![t].att = @ + 1]
  <2>1. PICK q \in Replies(AfterRetry) :
             th' = [th EXCEPT ![t].pc = "resume", ![t].reply = q, ![t].att = @ + 1]
    BY <1>4
  <2>2. /\ th'[t].pc = "resume" /\ th'[t].job = t
        /\ \A u \in Threads \ {t} : th'[u] = th[u]
    <3> DEFINE n == th[t].att + 1
               v == [th[t] EXCEPT !.pc = "resume", !.reply = q, !.att = n]
    <3>1. th' = [th EXCEPT ![t] = v]
      BY <1>1, <2>1
    <3>2. v.pc = "resume" /\ v.job = t
      <4> HIDE DEF n
      <4> QED BY <1>1, <1>2 DEF ThreadState
    <3> HIDE DEF v, n
    <3> QED BY <1>1, <3>1, <3>2
  <2>3. pipe'[t] = AfterRetry /\ \A k \in Jobs \ {t} : pipe'[k] = pipe[k]
    BY <1>1, <1>2, <1>4
  <2>4. RowTasked(t, row[t], pipe[t]) /\ Holding(th[t]) /\ row[t].st # "absent"
    <3>1. Holding(th[t])
      BY <1>1, <1>2 DEF Holding, Retrier
    <3> QED BY <1>2, <3>1, HeldRow DEF Tasks
  <2>5. RowTasked(t, row[t], AfterRetry) /\ Tasked(t, row[t], AfterRetry, th')
    BY <2>2, <2>4 DEF RowTasked, Tasked, AfterRetry
  <2>6. ASSUME NEW u \in Threads \ {t}, th[u].job = t PROVE Tasking(th[u], pipe')
    <3>1. ~(Holding(th[u]) /\ th[u].job = t)
      BY <1>2, <2>4, HolderAlone DEF RowTasked
    <3>2. th[u].pc \notin {"store", "create", "fail"}
      BY <1>2, <2>6, <3>1 DEF Holding, Creator
    <3>3. th[u].pc # "apply"
      BY <2>6, MonitoredRow
    <3>4. th[u].pc # "reject"
      BY <2>2, <2>6 DEF Tasks, Tasking
    <3> QED BY <3>2, <3>3, <3>4 DEF Tasking
  <2>7. Tasking(th'[t], pipe')
    BY <2>2 DEF Tasking
  <2> QED BY <1>1, <1>2, <2>2, <2>3, <2>5, <2>6, <2>7, TasksChange
<1> QED BY <1>2, <1>3, <1>4 DEF CallRetry

LEMMA UndoReserveTasks ==
  ASSUME Typed, Owned, Guard, Tasks, NEW t \in Threads, UndoReserve(t)
  PROVE  Tasks'
<1>1. th[t].pc = "undo" /\ th \in [Threads -> ThreadState] /\ pipe' = pipe
  BY DEF UndoReserve, Typed, TypeOK
<1>2. t \in Jobs /\ th[t].job = t /\ Ebb(pipe[t], pipe'[t])
  BY <1>1, FollowAssumption DEF Guard, Guarding, Ebb
<1>3. row'[t].st = row[t].st /\ \A k \in Jobs \ {t} : row'[k] = row[k]
  BY <1>2 DEF UndoReserve, Typed, TypeOK, RowState
<1>4. Returns(th, t, th')
  BY <1>1, RefusedReturns DEF UndoReserve
<1>5. Tasking(th'[t], pipe')
  BY <1>4 DEF Returns, Tasking
<1> QED BY <1>1, <1>2, <1>3, <1>4, <1>5, TasksKeep DEF Returns

LEMMA ResumeTasks ==
  ASSUME Typed, Owned, Guard, Tasks, NEW t \in Threads, Resume(t)
  PROVE  Tasks'
<1> DEFINE q == th[t].reply
           f == [th EXCEPT ![t].sched = t]
<1>1. /\ th[t].pc = "resume" /\ th \in [Threads -> ThreadState] /\ pipe' = pipe
      /\ q.st = "queued"
  BY DEF Resume, Typed, TypeOK, Owned, Claims, Guard, Guarding
<1>2. t \in Jobs /\ t \in Follow /\ th[t].job = t /\ Stored(t)
  <2>1. t \in Jobs /\ t \in Follow /\ th[t].job = t
    BY <1>1, FollowAssumption DEF Guard, Guarding
  <2>2. row[t].st # "absent" /\ ~Gone(row[t])
    BY <1>1, <2>1, HeldRow DEF Holding, Retrier, Tasks, RowTasked
  <2> QED BY <2>1, <2>2 DEF Stored, Gone
<1>3. row' = Write(t, "queued", q.canc, th[t].att) /\ th' = Finish(f, t)
  BY <1>1, <1>2 DEF Resume, ApplyState, MapState, AfterApply, Failing
<1>4. /\ th'[t].pc = "poll"
      /\ \A u \in Threads \ {t} : th'[u] = th[u]
  <2>1. f \in [Threads -> ThreadState] /\ \A u \in Threads \ {t} : f[u] = th[u]
    BY <1>1, <1>2 DEF ThreadState
  <2> DEFINE v == [Idle EXCEPT !.pc = "poll", !.job = t]
  <2>2. v.pc = "poll" /\ th' = [f EXCEPT ![t] = v]
    BY <1>2, <1>3 DEF Idle, Finish
  <2> HIDE DEF f, v
  <2> QED BY <2>1, <2>2
<1>5. PICK w : row' = [row EXCEPT ![t] = w] /\ w.st = "queued"
  <2> HIDE DEF q, f
  <2>1. \E c, n : row' = Write(t, "queued", c, n)
    BY <1>3
  <2> QED BY <1>2, <2>1, WriteRow
<1>6. Tasking(th'[t], pipe)
  BY <1>4 DEF Tasking
<1> QED BY <1>1, <1>2, <1>4, <1>5, <1>6, TasksWrite DEF Unfinished

LEMMA OtherStepTasks ==
  ASSUME Typed, Owned, Tasks, NEW t \in Threads, Orphan(t) \/ Stop(t) \/ Pick(t)
  PROVE  Tasks'
<1>1. /\ row' = row /\ th \in [Threads -> ThreadState] /\ th[t].job \in Jobs
      /\ th[t] \in ThreadState /\ th[t].pc \in {"orphan", "stop", "pick", "next"}
      /\ pipe \in [Jobs -> [st : PipeStatus, canc : BOOLEAN]]
  <2>1. th[t].pc # "reject"
    BY DEF Tasks, Tasking
  <2> QED BY <2>1, Thread DEF Orphan, Stop, Pick, Typed, TypeOK
<1>2. CASE th' = Finish(th, t) /\ pipe' = pipe
  BY <1>1, <1>2, FinishReturns, TasksReturn
<1>3. CASE Orphan(t)
  <2> DEFINE j == th[t].job
  <2>1. pipe'[j] \in {pipe[j], AfterCancel(pipe[j])} /\ \A k \in Jobs \ {j} : pipe'[k] = pipe[k]
    BY <1>1, <1>3 DEF Orphan
  <2>2. pipe[j] \in [st : PipeStatus, canc : BOOLEAN]
    BY <1>1
  <2>3. Returns(th, t, th')
    BY <1>1, <1>3, FinishReturns DEF Orphan
  <2>4. Ebb(pipe[j], pipe'[j]) /\ Tasking(th'[t], pipe')
    BY <2>1, <2>2, <2>3, CancelEbbs DEF Returns, Tasking, Ebb
  <2> HIDE DEF j
  <2> QED BY <1>1, <2>1, <2>3, <2>4, TasksKeep DEF Returns, j
<1>4. CASE /\ pipe' = pipe
           /\ \E k : th' = [th EXCEPT ![t].pc = "insert", ![t].job = k, ![t].reply = NoReply]
  <2>1. PICK k : th' = [th EXCEPT ![t].pc = "insert", ![t].job = k, ![t].reply = NoReply]
    BY <1>4
  <2> DEFINE v == [th[t] EXCEPT !.pc = "insert", !.job = k, !.reply = NoReply]
  <2>2. th' = [th EXCEPT ![t] = v] /\ v.pc = "insert"
    BY <1>1, <2>1 DEF ThreadState
  <2> HIDE DEF v
  <2>3. Tasking(v, pipe)
    BY <2>2 DEF Tasking
  <2> QED BY <1>1, <1>4, <2>2, <2>3, TasksMove
<1> QED BY <1>2, <1>3, <1>4 DEF Stop, Pick

LEMMA MonitorTasks ==
  ASSUME Typed, Owned, Tasks, "invalid" \notin Faults, NEW j \in Jobs,
         Poll(j) \/ CallGet(j) \/ Exit(j)
  PROVE  Tasks'
<1>1. /\ j \in Threads /\ row' = row /\ pipe' = pipe /\ th \in [Threads -> ThreadState]
      /\ th[j] \in ThreadState /\ pipe[j] \in [st : PipeStatus, canc : BOOLEAN]
      /\ th[j].pc \in {"poll", "call", "exit"}
  BY DEF Poll, CallGet, Exit, Typed, TypeOK, Threads
<1>2. CASE Poll(j) /\ Active(j)
  <2> DEFINE v == [th[j] EXCEPT !.pc = "call", !.canc = row[j].canc, !.att = row[j].att]
  <2>1. th' = [th EXCEPT ![j] = v] /\ v.pc = "call"
    BY <1>1, <1>2 DEF Poll, ThreadState
  <2> HIDE DEF v
  <2>2. Tasking(v, pipe)
    BY <2>1 DEF Tasking
  <2> QED BY <1>1, <2>1, <2>2, TasksMove
<1>3. CASE Poll(j) /\ ~Active(j)
  <2> DEFINE v == [Idle EXCEPT !.pc = "exit", !.job = j]
  <2>1. th' = [th EXCEPT ![j] = v] /\ v.pc = "exit"
    BY <1>3 DEF Poll, Idle
  <2> HIDE DEF v
  <2>2. Tasking(v, pipe)
    BY <2>1 DEF Tasking
  <2> QED BY <1>1, <2>1, <2>2, TasksMove
<1>4. CASE CallGet(j) /\ th' = Finish(th, j)
  BY <1>1, <1>4, FinishReturns, TasksReturn
<1>5. CASE /\ CallGet(j)
           /\ \E q \in Replies(pipe[j]) : th' = [th EXCEPT ![j].pc = "apply", ![j].reply = q]
  <2>1. PICK q \in Replies(pipe[j]) : th' = [th EXCEPT ![j].pc = "apply", ![j].reply = q]
    BY <1>5
  <2> DEFINE v == [th[j] EXCEPT !.pc = "apply", !.reply = q]
  <2>2. th' = [th EXCEPT ![j] = v] /\ v.pc = "apply" /\ v.reply = q /\ v.job = th[j].job
    BY <1>1, <2>1 DEF ThreadState
  <2>3. q = pipe[j] /\ q.st \notin {"none", "invalid"}
    BY <1>1, <2>1 DEF Replies, PipeStatus, FinalStatus
  <2>4. th[j].job = j
    BY <1>1, <1>5, MonitoredRow DEF CallGet
  <2> HIDE DEF v
  <2>5. Tasking(v, pipe)
    BY <2>2, <2>3, <2>4 DEF Tasking
  <2> QED BY <1>1, <2>2, <2>5, TasksMove
<1>6. CASE Exit(j)
  <2>1. th' = [th EXCEPT ![j] = Idle] /\ Tasking(Idle, pipe)
    BY <1>6 DEF Exit, Idle, Tasking
  <2> QED BY <1>1, <2>1, TasksMove
<1> QED BY <1>2, <1>3, <1>4, <1>5, <1>6 DEF CallGet

LEMMA PipelineTasks ==
  ASSUME Typed, Tasks, NEW j \in Jobs, Pipeline(j)
  PROVE  Tasks'
<1>1. /\ row' = row /\ th' = th /\ j \in Threads
      /\ pipe \in [Jobs -> [st : PipeStatus, canc : BOOLEAN]]
      /\ Working(pipe[j])
  BY DEF Pipeline, PipeStart, PipeEnd, Typed, TypeOK, Threads, Working
<1>2. \A k \in Jobs \ {j} : pipe'[k] = pipe[k]
  BY <1>1 DEF Pipeline, PipeStart, PipeEnd
<1>3. pipe'[j].st # "none"
  <2>1. CASE PipeStart(j)
    BY <1>1, <2>1 DEF PipeStart
  <2>2. CASE PipeEnd(j)
    <3>1. PICK o \in Outcomes \cup {"canceled"} :
             pipe' = [pipe EXCEPT ![j] = [st |-> o, canc |-> FALSE]]
      BY <2>2 DEF PipeEnd
    <3> QED BY <1>1, <3>1, ChoiceAssumption
  <2> QED BY <2>1, <2>2 DEF Pipeline
<1>4. Ebb(pipe[j], pipe'[j])
  BY <1>1, <1>3 DEF Ebb, Working
<1>5. ASSUME NEW u \in Threads PROVE Tasking(th[u], pipe')
  <2>1. Tasking(th[u], pipe) /\ (th[u].pc # "idle" => th[u].job \in Jobs)
    BY DEF Tasks, Typed, Good, GoodThread
  <2> QED BY <1>2, <1>4, <2>1 DEF Tasking, Ebb
<1>6. ASSUME NEW k \in Jobs
      PROVE  RowTasked(k, row'[k], pipe'[k]) /\ Tasked(k, row'[k], pipe'[k], th')
  <2>1. RowTasked(k, row[k], pipe[k]) /\ Tasked(k, row[k], pipe[k], th) /\ Ebb(pipe[k], pipe'[k])
    BY <1>2, <1>4 DEF Tasks, Ebb
  <2> QED BY <1>1, <2>1 DEF RowTasked, Tasked, Ebb
<1> QED BY <1>1, <1>5, <1>6 DEF Tasks

LEMMA InitTasks == Init => Tasks
<1> SUFFICES ASSUME Init PROVE Tasks
  OBVIOUS
<1>1. \A j \in Jobs : row[j].st = "absent" /\ pipe[j].st = "none"
  BY DEF Init, AbsentRow, NoReply
<1>2. \A t \in Threads : th[t].pc = "idle"
  BY DEF Init, Idle
<1> QED BY <1>1, <1>2 DEF Tasks, RowTasked, Tasked, Tasking, Gone, Working

LEMMA NextTasks ==
  ASSUME Uninterrupted, Typed, Owned, Guard, Tasks, [Next]_vars
  PROVE  Tasks'
<1>1. /\ {"invalid", "lostReply"} \cap Faults = {} /\ "invalid" \notin Faults
      /\ "abort" \notin Faults /\ "crash" \notin Faults
      /\ "cancel" \notin Ops /\ "retry" \notin Ops /\ "delete" \notin Ops
  BY DEF Uninterrupted, Undisturbed
<1>2. ASSUME NEW t \in Threads, Step(t) PROVE Tasks'
  <2>1. ~Invalid(t)
    BY DEF Invalid, Guard, Guarding
  <2> QED BY <1>1, <1>2, <2>1, InsertTasks, CallCreateTasks, FailCreateTasks, StoreCreateTasks,
             CallCancelTasks, ApplyTasks, ReloadTasks, CallRetryTasks, UndoReserveTasks,
             ResumeTasks, OtherStepTasks DEF Step
<1>3. CASE UNCHANGED vars
  BY <1>3 DEF Tasks, vars
<1>4. ASSUME NEW r \in Requests, NEW j \in Jobs, StartCreate(r, j) PROVE Tasks'
  <2> DEFINE v == [Idle EXCEPT !.pc = "insert", !.job = j]
  <2>1. v.pc = "insert" /\ th' = [th EXCEPT ![r] = v] /\ th[r].pc = "idle"
    BY <1>4 DEF StartCreate, Idle
  <2>2. r \in Threads /\ row' = row /\ pipe' = pipe
    BY <1>4 DEF StartCreate, Threads
  <2> HIDE DEF v
  <2>3. Tasking(v, pipe)
    BY <2>1 DEF Tasking
  <2> QED BY <2>1, <2>2, <2>3, TasksMove
<1>5. \A r \in Requests, j \in Jobs : ~StartCancel(r, j) /\ ~StartRetry(r, j) /\ ~DeleteFailed(j)
  BY <1>1 DEF StartCancel, StartRetry, DeleteFailed
<1>6. ~Crash /\ ~Boot /\ \A j \in Jobs : ~RecoverRow(j) /\ ~DeleteFailed(j)
  BY <1>1 DEF Crash, Boot, RecoverRow, DeleteFailed, Guard
<1>7. \A r \in Requests : ~Abort(r)
  BY <1>1 DEF Abort
<1> QED BY <1>1, <1>2, <1>3, <1>4, <1>5, <1>6, <1>7, MonitorTasks, PipelineTasks
     DEF Next, Monitor, Threads

(* As above, and no failed row is deleted while its retry is at the         *)
(* pipeline and no answer of the pipeline is lost: a task that the pipeline *)
(* works on is always one of an unfinished row, or of a call about to       *)
(* record it, over failures, hollow results, refused calls and the inline  *)
(* retries of several monitors and subscription runs.                      *)
THEOREM TasksRecorded ==
  ASSUME Uninterrupted
  PROVE  Spec => []NoOrphanTask
<1>1. Undisturbed /\ "cancel" \notin Ops
  BY DEF Uninterrupted, Undisturbed
<1>2. Typed /\ Owned /\ Guard /\ Tasks /\ [Next]_vars => Typed' /\ Owned' /\ Guard' /\ Tasks'
  BY <1>1, NextTyped, NextOwned, NextGuard, NextTasks
<1>3. Tasks => NoOrphanTask
  BY DEF Tasks, Tasked, Working, NoOrphanTask, Creating, Retrying, Active, Unfinished
<1> QED BY <1>2, <1>3, InitTyped, InitOwned, InitGuard, InitTasks, PTL DEF Spec
=============================================================================
