----------------------- MODULE DownloadCompletionProofs -----------------------
(***************************************************************************)
(* For any torrents, any queue size and any number of restarts: nothing is *)
(* announced twice, nothing is queued before qBittorrent is done with it,  *)
(* and a torrent is in hand at most once.                                  *)
(***************************************************************************)
EXTENDS DownloadCompletion, FiniteSetTheorems, TLAPS

PollerSet == [pc : {"idle", "rows", "each", "sync", "decide", "enqueue", "mark", "full"},
              live : [Torrents -> QbState], rows : [Torrents -> TaskState],
              left : SUBSET Torrents, first : BOOLEAN, cur : Torrents \cup {NoTorrent},
              needs : BOOLEAN]
WorkerSet == [pc : {"idle", "notify", "organize", "record", "done"},
              cur : Torrents \cup {NoTorrent}]
DeleterSet == [pc : {"idle", "qbit", "task", "memory"}, cur : Torrents \cup {NoTorrent},
               name : Torrents \cup {NoTorrent}]

(* Who is at work has a torrent. *)
Busy ==
  /\ poller.pc \notin {"idle", "rows", "each"} => poller.cur \in Torrents
  /\ worker.pc = "idle" <=> worker.cur = NoTorrent
  /\ deleter.pc # "idle" => deleter.cur \in Torrents

LEMMA IdleTypes ==
  PollerIdle \in PollerSet /\ WorkerIdle \in WorkerSet /\ DeleterIdle \in DeleterSet
BY DEF PollerIdle, WorkerIdle, DeleterIdle, PollerSet, WorkerSet, DeleterSet, NoSnapshot,
       QbState, TaskState

(* NextTorrent forgets; it adds nothing. *)
LEMMA NextTorrentType ==
  ASSUME NEW p \in PollerSet
  PROVE  /\ NextTorrent(p) \in PollerSet
         /\ NextTorrent(p).pc \in {"idle", "each"}
         /\ \A t \in Torrents : NextTorrent(p).live[t] \in {p.live[t], "new"}
<1>1. CASE p.left = {}
  BY <1>1, IdleTypes DEF NextTorrent, PollerIdle, NoSnapshot
<1>2. CASE p.left # {}
  <2> DEFINE live == [t \in Torrents |-> IF t \in p.left THEN p.live[t] ELSE "new"]
             rows == [t \in Torrents |-> IF t \in p.left THEN p.rows[t] ELSE "none"]
  <2>1. live \in [Torrents -> QbState] /\ rows \in [Torrents -> TaskState]
    BY DEF PollerSet, QbState, TaskState
  <2>2. NextTorrent(p) = [p EXCEPT !.pc = "each", !.cur = NoTorrent, !.needs = FALSE,
                                   !.live = live, !.rows = rows]
    BY <1>2 DEF NextTorrent
  <2>3. \A t \in Torrents : live[t] \in {p.live[t], "new"}
    OBVIOUS
  <2> HIDE DEF live, rows
  <2>4. NextTorrent(p) \in PollerSet /\ NextTorrent(p).pc = "each" /\ NextTorrent(p).live = live
    BY <2>1, <2>2 DEF PollerSet
  <2> QED BY <2>3, <2>4
<1> QED BY <1>1, <1>2

-----------------------------------------------------------------------------
LEMMA TypeInit == Init => TypeOK /\ Busy
<1> SUFFICES ASSUME Init PROVE TypeOK /\ Busy
  OBVIOUS
<1>1. poller \in PollerSet /\ worker \in WorkerSet /\ deleter \in DeleterSet
  BY IdleTypes DEF Init
<1>2. Busy
  BY DEF Init, Busy, PollerIdle, WorkerIdle, DeleterIdle
<1>3. qb \in [Torrents -> QbState]
  BY DEF Init, NoSnapshot, QbState
<1>4. queue \in Seq(Torrents) /\ Len(queue) <= QueueSize
  BY SizeAssumption DEF Init
<1>5. task \in [Torrents -> TaskState] /\ auto \in BOOLEAN
  BY DEF Init, TaskState
<1>6. /\ recorded \in [Torrents -> BOOLEAN] /\ notified \in [Torrents -> BOOLEAN]
      /\ prev \in [Torrents -> {"unseen", "no", "yes"}] /\ inited \in BOOLEAN
      /\ sent \in [Torrents -> Nat] /\ sending \in SUBSET Torrents /\ queued \in SUBSET Torrents
  BY DEF Init
<1>7. rechecks \in 0..MaxRechecks /\ restarts \in 0..MaxRestarts
  BY SizeAssumption DEF Init
<1> QED BY <1>1, <1>2, <1>3, <1>4, <1>5, <1>6, <1>7
        DEF TypeOK, PollerSet, WorkerSet, DeleterSet

LEMMA OuterType ==
  ASSUME TypeOK, Busy, NEW t \in Torrents,
         Add(t) \/ Finish(t) \/ Age(t) \/ Recheck(t) \/ CreateTask(t) \/ Send(t) \/ SetAuto
  PROVE  TypeOK' /\ Busy'
<1>1. CASE Add(t) \/ Finish(t) \/ Age(t)
  <2>1. \E from, to \in QbState : Qb(t, from, to)
    BY <1>1 DEF Add, Finish, Age, QbState
  <2>2. qb' \in [Torrents -> QbState]
    BY <2>1 DEF Qb, TypeOK
  <2>3. UNCHANGED <<disk, memory, rechecks, sending, sent, restarts, poller, worker, deleter>>
    BY <2>1 DEF Qb
  <2> QED BY <2>2, <2>3 DEF TypeOK, Busy, disk, memory
<1>2. CASE Recheck(t)
  <2>1. qb' \in [Torrents -> QbState] /\ rechecks' \in 0..MaxRechecks
    BY <1>2, SizeAssumption DEF Recheck, TypeOK, QbState
  <2>2. UNCHANGED <<disk, memory, sending, sent, restarts, poller, worker, deleter>>
    BY <1>2 DEF Recheck
  <2> QED BY <2>1, <2>2 DEF TypeOK, Busy, disk, memory
<1>3. CASE CreateTask(t)
  <2>1. task' \in [Torrents -> TaskState]
    BY <1>3 DEF CreateTask, TypeOK, TaskState
  <2>2. UNCHANGED <<recorded, notified, auto, memory, outer, poller, worker, deleter>>
    BY <1>3 DEF CreateTask
  <2> QED BY <2>1, <2>2 DEF TypeOK, Busy, memory, outer
<1>4. CASE Send(t)
  <2>1. sent' \in [Torrents -> Nat]
    BY <1>4 DEF Send, TypeOK
  <2>2. sending' \in SUBSET Torrents
    BY <1>4 DEF Send, TypeOK
  <2> QED BY <1>4, <2>1, <2>2 DEF Send, TypeOK, Busy, disk, memory
<1>5. CASE SetAuto
  BY <1>5 DEF SetAuto, TypeOK, Busy, memory, outer
<1> QED BY <1>1, <1>2, <1>3, <1>4, <1>5

LEMMA PollerTypeInv ==
  ASSUME TypeOK, Busy, Poller
  PROVE  TypeOK' /\ Busy'
<1>0. poller \in PollerSet
  BY DEF TypeOK, PollerSet
<1>1. CASE PollList
  BY <1>1 DEF PollList, TypeOK, Busy, disk, memory, outer
<1>2. CASE PollRows
  <2> DEFINE p == [poller EXCEPT !.rows = task, !.first = ~inited,
                                 !.left = {t \in Torrents : Present(poller.live[t])}]
  <2>1. p \in PollerSet
    BY <1>0 DEF TypeOK, PollerSet
  <2>2. poller' = NextTorrent(p)
    BY <1>2 DEF PollRows
  <2> HIDE DEF p
  <2>3. poller' \in PollerSet /\ poller'.pc \in {"idle", "each"}
    BY <2>1, <2>2, NextTorrentType
  <2> QED BY <1>2, <2>3 DEF PollRows, TypeOK, Busy, PollerSet, disk, outer
<1>3. ASSUME NEW t \in Torrents, PollNeeds(t) PROVE TypeOK' /\ Busy'
  <2>1. poller' \in PollerSet /\ poller'.cur = t
    BY <1>0, <1>3 DEF PollNeeds, PollerSet
  <2> QED BY <1>3, <2>1 DEF PollNeeds, TypeOK, Busy, PollerSet, disk, memory, outer
<1>4. CASE Sync
  <2>1. task' \in [Torrents -> TaskState]
    BY <1>4 DEF Sync, TypeOK, TaskState
  <2>2. poller' \in PollerSet /\ poller'.cur \in Torrents
    BY <1>0, <1>4 DEF Sync, PollerSet, Busy
  <2> QED BY <1>4, <2>1, <2>2 DEF Sync, TypeOK, Busy, PollerSet, memory, outer
<1>5. CASE Decide
  <2>1. poller' \in PollerSet /\ (poller'.pc \in {"idle", "each"} \/ poller'.cur \in Torrents)
    BY <1>0, <1>5, NextTorrentType DEF Decide, PollerSet, Busy
  <2>2. prev' \in [Torrents -> {"unseen", "no", "yes"}]
    BY <1>5 DEF Decide, TypeOK
  <2> QED BY <1>5, <2>1, <2>2 DEF Decide, TypeOK, Busy, PollerSet, disk, outer
<1>6. CASE Enqueue
  <2>1. poller' \in PollerSet /\ poller'.cur \in Torrents /\ poller.cur \in Torrents
    BY <1>0, <1>6 DEF Enqueue, PollerSet, Busy
  <2>2. queue' \in Seq(Torrents) /\ Len(queue') <= QueueSize /\ queued' \in SUBSET Torrents
    <3>1. CASE poller.cur \in queued \/ Len(queue) = QueueSize
      BY <1>6, <3>1 DEF Enqueue, TypeOK
    <3>2. CASE ~(poller.cur \in queued \/ Len(queue) = QueueSize)
      <4>1. queue' = Append(queue, poller.cur) /\ queued' = queued \cup {poller.cur}
        BY <1>6, <3>2 DEF Enqueue
      <4>2. queue \in Seq(Torrents) /\ Len(queue) <= QueueSize /\ queued \in SUBSET Torrents
        BY DEF TypeOK
      <4>3. queue' \in Seq(Torrents) /\ Len(queue') = Len(queue) + 1
        BY <2>1, <4>1, <4>2
      <4> QED BY <2>1, <3>2, <4>1, <4>2, <4>3, SizeAssumption
    <3> QED BY <3>1, <3>2
  <2> QED BY <1>6, <2>1, <2>2 DEF Enqueue, TypeOK, Busy, PollerSet, disk, outer
<1>7. CASE Mark \/ Full
  <2>1. poller' \in PollerSet /\ poller'.pc \in {"idle", "each"}
    BY <1>0, <1>7, NextTorrentType DEF Mark, Full
  <2>2. prev' \in [Torrents -> {"unseen", "no", "yes"}]
    BY <1>7 DEF Mark, Full, TypeOK, memory
  <2> QED BY <1>7, <2>1, <2>2 DEF Mark, Full, TypeOK, Busy, PollerSet, disk, memory, outer
<1> QED BY <1>1, <1>2, <1>3, <1>4, <1>5, <1>6, <1>7 DEF Poller

LEMMA WorkerTypeInv ==
  ASSUME TypeOK, Busy, Worker
  PROVE  TypeOK' /\ Busy'
<1>0. worker \in WorkerSet /\ (worker.pc # "idle" => worker.cur \in Torrents)
  BY TorrentAssumption DEF TypeOK, WorkerSet, Busy
<1>1. CASE Take
  <2>1. Head(queue) \in Torrents /\ queue' \in Seq(Torrents) /\ Len(queue') <= QueueSize
    BY <1>1, SizeAssumption DEF Take, TypeOK
  <2>2. worker' \in WorkerSet /\ worker'.pc # "idle" /\ worker'.cur # NoTorrent
    BY <1>1, <2>1, TorrentAssumption DEF Take, WorkerSet
  <2> QED BY <1>1, <2>1, <2>2 DEF Take, TypeOK, Busy, WorkerSet, disk, outer
<1>2. CASE Notify
  <2>1. notified' \in [Torrents -> BOOLEAN] /\ sending' \in SUBSET Torrents
    BY <1>0, <1>2 DEF Notify, TypeOK
  <2>2. worker' \in WorkerSet /\ worker'.pc # "idle" /\ worker'.cur # NoTorrent
    BY <1>0, <1>2, TorrentAssumption DEF Notify, WorkerSet
  <2> QED BY <1>2, <2>1, <2>2 DEF Notify, TypeOK, Busy, WorkerSet, memory
<1>3. CASE Organize
  <2>1. worker' \in WorkerSet /\ worker'.pc # "idle" /\ worker'.cur # NoTorrent
    BY <1>0, <1>3, TorrentAssumption DEF Organize, WorkerSet
  <2> QED BY <1>3, <2>1 DEF Organize, TypeOK, Busy, WorkerSet, disk, memory, outer
<1>4. CASE Record
  <2>1. worker' \in WorkerSet /\ worker'.pc # "idle" /\ worker'.cur # NoTorrent
    BY <1>0, <1>4, TorrentAssumption DEF Record, WorkerSet
  <2>2. recorded' \in [Torrents -> BOOLEAN]
    BY <1>4 DEF Record, TypeOK
  <2> QED BY <1>4, <2>1, <2>2 DEF Record, TypeOK, Busy, WorkerSet, memory, outer
<1>5. CASE Done
  BY <1>5, IdleTypes DEF Done, TypeOK, Busy, WorkerSet, WorkerIdle, disk, outer
<1> QED BY <1>1, <1>2, <1>3, <1>4, <1>5 DEF Worker

LEMMA DeleterTypeInv ==
  ASSUME TypeOK, Busy, Deleter \/ \E t \in Torrents : DeleteLookup(t)
  PROVE  TypeOK' /\ Busy'
<1>1. ASSUME NEW t \in Torrents, DeleteLookup(t) PROVE TypeOK' /\ Busy'
  BY <1>1 DEF DeleteLookup, TypeOK, Busy, disk, memory, outer
<1>2. CASE DeleteQbit
  <2>1. qb' \in [Torrents -> QbState]
    BY <1>2 DEF DeleteQbit, TypeOK, QbState
  <2>2. deleter' \in DeleterSet /\ (deleter'.pc # "idle" => deleter'.cur \in Torrents)
    BY <1>2, IdleTypes DEF DeleteQbit, TypeOK, Busy, DeleterSet, DeleterIdle
  <2> QED BY <1>2, <2>1, <2>2 DEF DeleteQbit, TypeOK, Busy, DeleterSet, disk, memory
<1>3. CASE DeleteTask
  <2>1. task' \in [Torrents -> TaskState]
    BY <1>3 DEF DeleteTask, TypeOK, TaskState
  <2>2. deleter' \in DeleterSet /\ deleter'.cur \in Torrents
    BY <1>3 DEF DeleteTask, TypeOK, Busy, DeleterSet
  <2> QED BY <1>3, <2>1, <2>2 DEF DeleteTask, TypeOK, Busy, DeleterSet, memory, outer
<1>4. CASE DeleteMemory
  BY <1>4, IdleTypes DEF DeleteMemory, TypeOK, Busy, DeleterSet, DeleterIdle, disk, outer
<1> QED BY <1>1, <1>2, <1>3, <1>4 DEF Deleter

LEMMA RestartTypeInv ==
  ASSUME TypeOK, Busy, Restart
  PROVE  TypeOK' /\ Busy'
<1>1. poller' \in PollerSet /\ worker' \in WorkerSet /\ deleter' \in DeleterSet
  BY IdleTypes DEF Restart
<1>2. Busy'
  BY DEF Restart, Busy, PollerIdle, WorkerIdle, DeleterIdle
<1>3. /\ queued' \in SUBSET Torrents /\ sending' \in SUBSET Torrents
      /\ prev' \in [Torrents -> {"unseen", "no", "yes"}] /\ inited' \in BOOLEAN
  BY DEF Restart
<1>4. queue' \in Seq(Torrents) /\ Len(queue') <= QueueSize
  <2>1. queue' = <<>>
    BY DEF Restart
  <2> QED BY <2>1, SizeAssumption
<1>5. restarts' \in 0..MaxRestarts
  BY SizeAssumption DEF Restart, TypeOK
<1>6. UNCHANGED <<disk, qb, rechecks, sent>>
  BY DEF Restart
<1> QED BY <1>1, <1>2, <1>3, <1>4, <1>5, <1>6
        DEF TypeOK, PollerSet, WorkerSet, DeleterSet, disk

LEMMA TypeStep == TypeOK /\ Busy /\ [Next]_vars => TypeOK' /\ Busy'
<1> SUFFICES ASSUME TypeOK, Busy, [Next]_vars PROVE TypeOK' /\ Busy'
  OBVIOUS
<1>1. CASE UNCHANGED vars
  BY <1>1 DEF vars, disk, memory, outer, TypeOK, Busy
<1>2. CASE Next
  <2>1. CASE Poller
    BY <2>1, PollerTypeInv
  <2>2. CASE Worker
    BY <2>2, WorkerTypeInv
  <2>3. CASE Deleter \/ \E t \in Torrents : DeleteLookup(t)
    BY <2>3, DeleterTypeInv
  <2>4. CASE Restart
    BY <2>4, RestartTypeInv
  <2>5. ASSUME NEW t \in Torrents,
               Add(t) \/ Finish(t) \/ Age(t) \/ Recheck(t) \/ CreateTask(t) \/ Send(t) \/ SetAuto
        PROVE  TypeOK' /\ Busy'
    BY <2>5, OuterType
  <2>6. CASE SetAuto
    BY <2>6 DEF SetAuto, TypeOK, Busy, memory, outer
  <2> QED BY <1>2, <2>1, <2>2, <2>3, <2>4, <2>5, <2>6 DEF Next
<1> QED BY <1>1, <1>2

(* The variables keep their types and the queue never exceeds its          *)
(* capacity: a poller that finds it full goes on.                          *)
THEOREM TypeCorrect == Spec => []TypeOK
<1>1. Spec => [](TypeOK /\ Busy)
  BY TypeInit, TypeStep, PTL DEF Spec
<1> QED BY <1>1, PTL

-----------------------------------------------------------------------------
(* An announcement that waits for its goroutine is the only one: the        *)
(* setting is stored before the goroutine is started.                      *)
AnnounceInv ==
  \A t \in Torrents : /\ sent[t] \in {0, 1}
                      /\ t \in sending => notified[t] /\ sent[t] = 0
                      /\ sent[t] = 1 => notified[t]

LEMMA AnnounceStep == TypeOK /\ Busy /\ AnnounceInv /\ [Next]_vars => AnnounceInv'
<1> SUFFICES ASSUME TypeOK, Busy, AnnounceInv, [Next]_vars PROVE AnnounceInv'
  OBVIOUS
<1>1. CASE Notify
  <2>1. worker.cur \in Torrents
    BY <1>1 DEF Notify, Busy, TypeOK
  <2> QED BY <1>1, <2>1 DEF Notify, AnnounceInv, TypeOK
<1>2. ASSUME NEW t \in Torrents, Send(t) PROVE AnnounceInv'
  BY <1>2 DEF Send, AnnounceInv, TypeOK, disk
<1>3. CASE Restart
  BY <1>3 DEF Restart, AnnounceInv, disk
<1>4. CASE UNCHANGED <<sending, sent, notified>>
  BY <1>4 DEF AnnounceInv
<1>5. ASSUME NEW t \in Torrents,
             Add(t) \/ Finish(t) \/ Age(t) \/ Recheck(t) \/ CreateTask(t) \/ DeleteLookup(t)
      PROVE  UNCHANGED <<sending, sent, notified>>
  BY <1>5 DEF Add, Finish, Age, Qb, Recheck, CreateTask, DeleteLookup, disk, outer
<1>6. CASE Poller
  <2>1. UNCHANGED <<sending, sent, notified>>
    BY <1>6 DEF Poller, PollList, PollRows, PollNeeds, Sync, Decide, Enqueue, Mark, Full,
                disk, outer
  <2> QED BY <1>4, <2>1
<1>7. CASE Take \/ Organize \/ Record \/ Done \/ Deleter \/ SetAuto \/ UNCHANGED vars
  <2>1. UNCHANGED <<sending, sent, notified>>
    BY <1>7 DEF Take, Organize, Record, Done, Deleter, DeleteQbit, DeleteTask, DeleteMemory,
                SetAuto, disk, outer, vars
  <2> QED BY <1>4, <2>1
<1> QED BY <1>1, <1>2, <1>3, <1>4, <1>5, <1>6, <1>7 DEF Next, Worker

(* A finished download is announced at most once, over any number of        *)
(* restarts, verifications and failed attempts to organize it.             *)
THEOREM NoSecondAnnouncement == Spec => []AnnouncedOnce
<1>1. Init => AnnounceInv
  BY DEF Init, AnnounceInv
<1>2. AnnounceInv => AnnouncedOnce
  BY DEF AnnounceInv, AnnouncedOnce
<1> QED BY <1>1, <1>2, TypeInit, TypeStep, AnnounceStep, PTL DEF Spec

-----------------------------------------------------------------------------
Finished == {"complete", "old", "gone"}

(* What the poller has read as complete still is, or is gone, as long as no *)
(* torrent was verified again; a torrent it is about to queue was complete *)
(* in its list.                                                            *)
FreshInv ==
  /\ poller.pc = "enqueue" => Completed(poller.live[poller.cur])
  /\ rechecks = 0 =>
       /\ \A t \in Torrents : Completed(poller.live[t]) => qb[t] \in Finished
       /\ \A t \in queued : qb[t] \in Finished

LEMMA FreshInit == Init => FreshInv
BY DEF Init, FreshInv, PollerIdle, NoSnapshot, Completed

(* qBittorrent does not take back that a torrent has finished. *)
LEMMA FinishedStays ==
  ASSUME TypeOK, [Next]_vars, rechecks' = 0, NEW t \in Torrents, qb[t] \in Finished
  PROVE  rechecks = 0 /\ qb'[t] \in Finished
<1>1. ASSUME NEW k \in Torrents, Add(k) \/ Finish(k) \/ Age(k) PROVE rechecks = 0 /\ qb'[t] \in Finished
  BY <1>1 DEF Add, Finish, Age, Qb, TypeOK, Finished
<1>2. ASSUME NEW k \in Torrents, Recheck(k) PROVE FALSE
  BY <1>2 DEF Recheck, TypeOK
<1>3. CASE DeleteQbit
  BY <1>3 DEF DeleteQbit, TypeOK, Finished
<1>4. ASSUME NEW k \in Torrents, CreateTask(k) \/ DeleteLookup(k) \/ Send(k)
      PROVE  UNCHANGED <<qb, rechecks>>
  BY <1>4 DEF CreateTask, DeleteLookup, Send, outer
<1>5. CASE Poller
  BY <1>5 DEF Poller, PollList, PollRows, PollNeeds, Sync, Decide, Enqueue, Mark, Full, outer
<1>6. CASE Worker
  BY <1>6 DEF Worker, Take, Notify, Organize, Record, Done, outer
<1>7. CASE DeleteTask \/ DeleteMemory \/ SetAuto \/ Restart \/ UNCHANGED vars
  BY <1>7 DEF DeleteTask, DeleteMemory, SetAuto, Restart, outer, vars
<1> QED BY <1>1, <1>2, <1>3, <1>4, <1>5, <1>6, <1>7 DEF Next, Deleter

LEMMA RechecksGrow == TypeOK /\ [Next]_vars /\ rechecks' = 0 => rechecks = 0
<1> SUFFICES ASSUME TypeOK, [Next]_vars, rechecks' = 0 PROVE rechecks = 0
  OBVIOUS
<1>1. ASSUME NEW k \in Torrents, Recheck(k) PROVE FALSE
  BY <1>1 DEF Recheck, TypeOK
<1>2. ASSUME NEW k \in Torrents,
             Add(k) \/ Finish(k) \/ Age(k) \/ CreateTask(k) \/ DeleteLookup(k) \/ Send(k)
      PROVE  UNCHANGED rechecks
  BY <1>2 DEF Add, Finish, Age, Qb, CreateTask, DeleteLookup, Send, outer
<1>3. CASE Poller
  BY <1>3 DEF Poller, PollList, PollRows, PollNeeds, Sync, Decide, Enqueue, Mark, Full, outer
<1>4. CASE Worker
  BY <1>4 DEF Worker, Take, Notify, Organize, Record, Done, outer
<1>5. CASE Deleter \/ SetAuto \/ Restart \/ UNCHANGED vars
  BY <1>5 DEF Deleter, DeleteQbit, DeleteTask, DeleteMemory, SetAuto, Restart, outer, vars
<1> QED BY <1>1, <1>2, <1>3, <1>4, <1>5 DEF Next

(* In a step, the poller and the set gain nothing but finished torrents. *)
GainsFinished ==
  /\ poller'.pc = "enqueue" => Completed(poller'.live[poller'.cur])
  /\ rechecks = 0 =>
       /\ \A t \in Torrents : Completed(poller'.live[t]) => qb[t] \in Finished
       /\ \A t \in queued' : t \in Torrents /\ qb[t] \in Finished

LEMMA FreshStep == TypeOK /\ Busy /\ FreshInv /\ [Next]_vars => FreshInv'
<1> SUFFICES ASSUME TypeOK, Busy, FreshInv, [Next]_vars PROVE FreshInv'
  OBVIOUS
<1>0. poller \in PollerSet
  BY DEF TypeOK, PollerSet
<1>1. SUFFICES GainsFinished
  BY FinishedStays, RechecksGrow DEF FreshInv, GainsFinished, Completed
<1>2. CASE UNCHANGED <<poller, queued>>
  BY <1>2 DEF FreshInv, GainsFinished, TypeOK
<1>3. CASE PollList
  BY <1>0, <1>3 DEF PollList, FreshInv, GainsFinished, TypeOK, memory, PollerSet, Completed, Finished
<1>4. CASE PollRows
  <2> DEFINE p == [poller EXCEPT !.rows = task, !.first = ~inited,
                                 !.left = {t \in Torrents : Present(poller.live[t])}]
  <2>1. p \in PollerSet /\ p.live = poller.live
    BY <1>0 DEF TypeOK, PollerSet
  <2>2. poller' = NextTorrent(p) /\ queued' = queued
    BY <1>4 DEF PollRows
  <2> HIDE DEF p
  <2> QED BY <2>1, <2>2, NextTorrentType DEF FreshInv, GainsFinished, TypeOK, Completed
<1>5. ASSUME NEW t \in Torrents, PollNeeds(t) PROVE GainsFinished
  <2>1. poller'.live = poller.live /\ poller'.pc = "sync" /\ queued' = queued
    BY <1>0, <1>5 DEF PollNeeds, PollerSet, memory
  <2> QED BY <2>1 DEF FreshInv, GainsFinished, TypeOK
<1>6. CASE Sync
  <2>1. poller'.live = poller.live /\ poller'.pc = "decide" /\ queued' = queued
    BY <1>0, <1>6 DEF Sync, PollerSet, memory
  <2> QED BY <2>1 DEF FreshInv, GainsFinished, TypeOK
<1>7. CASE Decide
  <2>1. CASE poller' = NextTorrent(poller)
    BY <1>0, <1>7, <2>1, NextTorrentType DEF Decide, FreshInv, GainsFinished, TypeOK, Completed
  <2>2. CASE /\ poller' = [poller EXCEPT !.pc = "enqueue"]
             /\ Completed(poller.live[poller.cur])
    BY <1>0, <1>7, <2>2 DEF Decide, FreshInv, GainsFinished, TypeOK, PollerSet
  <2> QED BY <1>7, <2>1, <2>2 DEF Decide
<1>8. CASE Enqueue
  <2>1. poller'.live = poller.live /\ poller'.pc # "enqueue"
    BY <1>0, <1>8 DEF Enqueue, PollerSet
  <2>2. queued' \subseteq queued \cup {poller.cur} /\ poller.cur \in Torrents
    BY <1>8 DEF Enqueue, Busy
  <2>3. Completed(poller.live[poller.cur])
    BY <1>8 DEF Enqueue, FreshInv
  <2> QED BY <2>1, <2>2, <2>3 DEF FreshInv, GainsFinished, TypeOK
<1>9. CASE Mark \/ Full
  BY <1>0, <1>9, NextTorrentType DEF Mark, Full, FreshInv, GainsFinished, TypeOK, memory, Completed
<1>10. CASE Done \/ DeleteMemory
  BY <1>10 DEF Done, DeleteMemory, FreshInv, GainsFinished, TypeOK
<1>11. CASE Restart
  BY <1>11 DEF Restart, FreshInv, GainsFinished, PollerIdle, NoSnapshot, Completed
<1>12. ASSUME NEW t \in Torrents,
              Add(t) \/ Finish(t) \/ Age(t) \/ Recheck(t) \/ CreateTask(t) \/ DeleteLookup(t) \/ Send(t)
       PROVE  UNCHANGED <<poller, queued>>
  BY <1>12 DEF Add, Finish, Age, Qb, Recheck, CreateTask, DeleteLookup, Send, memory
<1>13. CASE Take \/ Notify \/ Organize \/ Record \/ DeleteQbit \/ DeleteTask \/ SetAuto
            \/ UNCHANGED vars
  <2>1. UNCHANGED <<poller, queued>>
    BY <1>13 DEF Take, Notify, Organize, Record, DeleteQbit, DeleteTask, SetAuto, memory, vars
  <2> QED BY <1>2, <2>1
<1> QED BY <1>2, <1>3, <1>4, <1>5, <1>6, <1>7, <1>8, <1>9, <1>10, <1>11, <1>12, <1>13
        DEF Next, Poller, Worker, Deleter

(* Nothing is queued before qBittorrent is done with it, although the       *)
(* poller decides from a list it has read several steps earlier.           *)
THEOREM QueuedIsFinished == Spec => []NotBeforeComplete
<1>1. FreshInv => NotBeforeComplete
  BY DEF FreshInv, NotBeforeComplete, Finished
<1> QED BY <1>1, FreshInit, TypeInit, TypeStep, FreshStep, PTL DEF Spec

-----------------------------------------------------------------------------
(* OnePlace without counting.  Only Delete takes a torrent out of the set   *)
(* that may still be in the channel, and that torrent is gone.             *)
PlaceInv ==
  /\ deleter.pc \in {"task", "memory"} => qb[deleter.cur] = "gone"
  /\ \A t \in Torrents : qb[t] # "gone" =>
       /\ t \in queued <=> worker.cur = t \/ Places(t) # {}
       /\ worker.cur = t => Places(t) = {}
       /\ \A i, k \in Places(t) : i = k

LEMMA PlaceInit == Init => PlaceInv
<1> SUFFICES ASSUME Init PROVE PlaceInv
  OBVIOUS
<1>1. \A t \in Torrents : Places(t) = {}
  BY DEF Init, Places
<1> QED BY <1>1, TorrentAssumption DEF Init, PlaceInv, WorkerIdle, DeleterIdle

(* A torrent that is gone stays gone. *)
LEMMA GoneStays ==
  ASSUME TypeOK, [Next]_vars, NEW t \in Torrents, qb[t] = "gone"
  PROVE  qb'[t] = "gone"
<1>1. ASSUME NEW k \in Torrents, Add(k) \/ Finish(k) \/ Age(k) \/ Recheck(k) PROVE qb'[t] = "gone"
  BY <1>1 DEF Add, Finish, Age, Qb, Recheck, Completed, TypeOK
<1>2. CASE DeleteQbit
  BY <1>2 DEF DeleteQbit, TypeOK
<1>3. ASSUME NEW k \in Torrents, CreateTask(k) \/ DeleteLookup(k) \/ Send(k) PROVE UNCHANGED qb
  BY <1>3 DEF CreateTask, DeleteLookup, Send, outer
<1>4. CASE Poller
  BY <1>4 DEF Poller, PollList, PollRows, PollNeeds, Sync, Decide, Enqueue, Mark, Full, outer
<1>5. CASE Worker
  BY <1>5 DEF Worker, Take, Notify, Organize, Record, Done, outer
<1>6. CASE DeleteTask \/ DeleteMemory \/ SetAuto \/ Restart \/ UNCHANGED vars
  BY <1>6 DEF DeleteTask, DeleteMemory, SetAuto, Restart, outer, vars
<1> QED BY <1>1, <1>2, <1>3, <1>4, <1>5, <1>6 DEF Next, Deleter

(* Nothing moves in the channel, the set or the worker's hands. *)
LEMMA PlaceStill ==
  ASSUME TypeOK, Busy, PlaceInv, [Next]_vars, UNCHANGED <<queue, queued>>, worker'.cur = worker.cur,
         deleter'.pc \in {"task", "memory"} => qb'[deleter'.cur] = "gone"
  PROVE  PlaceInv'
<1>1. \A t \in Torrents : Places(t)' = Places(t)
  BY DEF Places
<1> QED BY <1>1, GoneStays DEF PlaceInv

LEMMA PlaceEnqueue ==
  ASSUME TypeOK, Busy, PlaceInv, Enqueue PROVE PlaceInv'
<1>1. CASE poller.cur \in queued \/ Len(queue) = QueueSize
  BY <1>1 DEF Enqueue, PlaceInv, Places, outer
<1>2. CASE ~(poller.cur \in queued \/ Len(queue) = QueueSize)
  <2>1. /\ queue' = Append(queue, poller.cur) /\ queued' = queued \cup {poller.cur}
        /\ UNCHANGED <<qb, worker, deleter>> /\ poller.cur \in Torrents
    BY <1>2 DEF Enqueue, outer, Busy
  <2>2. queue \in Seq(Torrents) /\ Len(queue) \in Nat
    BY DEF TypeOK
  <2>3. /\ Len(queue') = Len(queue) + 1 /\ queue'[Len(queue) + 1] = poller.cur
        /\ \A i \in 1..Len(queue) : queue'[i] = queue[i]
    BY <2>1, <2>2
  <2>4. \A t \in Torrents : Places(t)' = Places(t) \cup (IF t = poller.cur THEN {Len(queue) + 1} ELSE {})
    BY <2>2, <2>3 DEF Places
  <2>5. qb[poller.cur] # "gone" => Places(poller.cur) = {} /\ worker.cur # poller.cur
    BY <1>2, <2>1 DEF PlaceInv
  <2>6. ASSUME NEW t \in Torrents, qb[t] # "gone"
        PROVE  /\ t \in queued' <=> worker.cur = t \/ Places(t)' # {}
               /\ worker.cur = t => Places(t)' = {}
               /\ \A i, k \in Places(t)' : i = k
    <3>1. CASE t = poller.cur
      <4>1. Places(t)' = {Len(queue) + 1}
        BY <2>4, <2>5, <2>6, <3>1
      <4> QED BY <2>1, <2>5, <2>6, <3>1, <4>1
    <3>2. CASE t # poller.cur
      <4>1. Places(t)' = Places(t) /\ (t \in queued' <=> t \in queued)
        BY <2>1, <2>4, <3>2
      <4> QED BY <2>6, <4>1 DEF PlaceInv
    <3> QED BY <3>1, <3>2
  <2> QED BY <2>1, <2>6 DEF PlaceInv
<1> QED BY <1>1, <1>2

LEMMA PlaceTake ==
  ASSUME TypeOK, Busy, PlaceInv, Take PROVE PlaceInv'
<1>1. /\ worker.cur = NoTorrent /\ worker'.cur = Head(queue) /\ queue' = Tail(queue)
      /\ UNCHANGED <<qb, queued, deleter>>
  BY DEF Take, outer, Busy
<1>2. queue \in Seq(Torrents) /\ queue # <<>> /\ Len(queue) \in Nat \ {0} /\ Head(queue) \in Torrents
  BY DEF Take, TypeOK
<1>3. /\ Len(queue') = Len(queue) - 1 /\ queue[1] = Head(queue)
      /\ \A i \in 1..(Len(queue) - 1) : queue'[i] = queue[i + 1]
  BY <1>1, <1>2
<1>4. \A t \in Torrents : \A i \in Places(t)' : i + 1 \in Places(t) /\ i # 0 /\ i \in Nat
  BY <1>2, <1>3 DEF Places
<1>5. \A t \in Torrents : \A i \in Places(t) : i # 1 => i - 1 \in Places(t)'
  BY <1>2, <1>3 DEF Places
<1>6. \A t \in Torrents : 1 \in Places(t) <=> t = Head(queue)
  BY <1>2, <1>3 DEF Places
<1>7. ASSUME NEW t \in Torrents, qb[t] # "gone"
      PROVE  /\ t \in queued <=> worker'.cur = t \/ Places(t)' # {}
             /\ worker'.cur = t => Places(t)' = {}
             /\ \A i, k \in Places(t)' : i = k
  <2>1. /\ t \in queued <=> Places(t) # {}
        /\ \A i, k \in Places(t) : i = k
    BY <1>1, <1>7, TorrentAssumption DEF PlaceInv
  <2>2. \A i, k \in Places(t)' : i = k
    <3>1. SUFFICES ASSUME NEW i \in Places(t)', NEW k \in Places(t)' PROVE i = k
      OBVIOUS
    <3>2. i + 1 = k + 1 /\ i \in Nat /\ k \in Nat
      BY <1>4, <2>1
    <3> QED BY <3>2
  <2>3. CASE t = Head(queue)
    <3>1. 1 \in Places(t)
      BY <1>6, <2>3
    <3>2. Places(t)' = {}
      <4> SUFFICES ASSUME NEW i \in Places(t)' PROVE FALSE
        OBVIOUS
      <4>1. i + 1 = 1 /\ i \in Nat /\ i # 0
        BY <1>4, <2>1, <3>1
      <4> QED BY <4>1
    <3> QED BY <1>1, <2>1, <2>3, <3>1, <3>2
  <2>4. CASE t # Head(queue)
    <3>1. Places(t)' # {} <=> Places(t) # {}
      BY <1>4, <1>5, <1>6, <2>4
    <3> QED BY <1>1, <2>1, <2>2, <2>4, <3>1
  <2> QED BY <2>3, <2>4
<1> QED BY <1>1, <1>7 DEF PlaceInv

LEMMA PlaceStep == TypeOK /\ Busy /\ PlaceInv /\ [Next]_vars => PlaceInv'
<1> SUFFICES ASSUME TypeOK, Busy, PlaceInv, [Next]_vars PROVE PlaceInv'
  OBVIOUS
<1>1. CASE Enqueue
  BY <1>1, PlaceEnqueue
<1>2. CASE Take
  BY <1>2, PlaceTake
<1>3. CASE Done
  <2>1. /\ queued' = queued \ {worker.cur} /\ worker'.cur = NoTorrent
        /\ UNCHANGED <<queue, qb, deleter>>
    BY <1>3 DEF Done, WorkerIdle, outer
  <2>2. \A t \in Torrents : Places(t)' = Places(t)
    BY <2>1 DEF Places
  <2> QED BY <2>1, <2>2, TorrentAssumption DEF PlaceInv
<1>4. CASE DeleteMemory
  <2>1. /\ queued' = queued \ {deleter.cur} /\ qb[deleter.cur] = "gone" /\ deleter'.pc = "idle"
        /\ UNCHANGED <<queue, qb, worker>>
    BY <1>4 DEF DeleteMemory, DeleterIdle, outer, PlaceInv
  <2>2. \A t \in Torrents : Places(t)' = Places(t)
    BY <2>1 DEF Places
  <2> QED BY <2>1, <2>2 DEF PlaceInv
<1>5. CASE Restart
  <2>1. queue' = <<>> /\ queued' = {} /\ worker'.cur = NoTorrent /\ deleter'.pc = "idle"
    BY <1>5 DEF Restart, WorkerIdle, DeleterIdle
  <2>2. \A t \in Torrents : Places(t)' = {}
    BY <2>1 DEF Places
  <2> QED BY <2>1, <2>2, TorrentAssumption DEF PlaceInv
<1>6. CASE DeleteQbit
  <2>1. /\ UNCHANGED <<queue, queued, worker>>
        /\ deleter'.pc \in {"task", "memory"} => qb'[deleter'.cur] = "gone"
    <3>1. deleter.cur \in Torrents /\ DeleterIdle.pc = "idle"
      BY <1>6 DEF DeleteQbit, DeleterIdle, Busy
    <3>2. UNCHANGED <<queue, queued, worker>>
      BY <1>6 DEF DeleteQbit, memory
    <3>3. \/ /\ qb' = [qb EXCEPT ![deleter.cur] = "gone"]
             /\ deleter' = [deleter EXCEPT !.pc = "task"]
          \/ deleter' = DeleterIdle
      BY <1>6 DEF DeleteQbit
    <3>4. deleter \in DeleterSet /\ qb \in [Torrents -> QbState]
      BY DEF TypeOK, DeleterSet
    <3>5. CASE deleter' = DeleterIdle
      BY <3>1, <3>2, <3>5
    <3>6. CASE /\ qb' = [qb EXCEPT ![deleter.cur] = "gone"]
               /\ deleter' = [deleter EXCEPT !.pc = "task"]
      <4>1. deleter'.cur = deleter.cur
        BY <3>4, <3>6 DEF DeleterSet
      <4>2. qb'[deleter.cur] = "gone"
        BY <3>1, <3>4, <3>6
      <4> QED BY <3>2, <4>1, <4>2
    <3> QED BY <3>3, <3>5, <3>6
  <2> QED BY <2>1, PlaceStill
<1>7. CASE DeleteTask
  <2>1. /\ UNCHANGED <<queue, queued, worker, qb>>
        /\ deleter'.cur = deleter.cur /\ deleter.pc = "task"
    BY <1>7 DEF DeleteTask, memory, outer, TypeOK
  <2> QED BY <2>1, PlaceStill DEF PlaceInv
<1>8. ASSUME NEW t \in Torrents, DeleteLookup(t) PROVE PlaceInv'
  <2>1. UNCHANGED <<queue, queued, worker>> /\ deleter'.pc = "qbit"
    BY <1>8 DEF DeleteLookup, memory
  <2> QED BY <2>1, PlaceStill
<1>9. ASSUME UNCHANGED <<queue, queued, deleter>>, worker'.cur = worker.cur PROVE PlaceInv'
  <2>1. deleter.pc \in {"task", "memory"} => qb'[deleter.cur] = "gone"
    BY GoneStays DEF PlaceInv, Busy
  <2> QED BY <1>9, <2>1, PlaceStill
<1>10. ASSUME NEW t \in Torrents,
              Add(t) \/ Finish(t) \/ Age(t) \/ Recheck(t) \/ CreateTask(t) \/ Send(t)
       PROVE  UNCHANGED <<queue, queued, deleter, worker>>
  BY <1>10 DEF Add, Finish, Age, Qb, Recheck, CreateTask, Send, memory
<1>11. ASSUME NEW t \in Torrents,
              PollList \/ PollRows \/ PollNeeds(t) \/ Sync \/ Decide \/ Mark \/ Full
       PROVE  UNCHANGED <<queue, queued, deleter, worker>>
  BY <1>11 DEF PollList, PollRows, PollNeeds, Sync, Decide, Mark, Full, memory
<1>12. CASE PollList \/ PollRows \/ Sync \/ Decide \/ Mark \/ Full \/ SetAuto \/ UNCHANGED vars
  <2>1. UNCHANGED <<queue, queued, deleter, worker>>
    BY <1>12 DEF PollList, PollRows, Sync, Decide, Mark, Full, SetAuto, memory, vars
  <2> QED BY <1>9, <2>1
<1>13. CASE Notify \/ Organize \/ Record
  <2>1. UNCHANGED <<queue, queued, deleter>> /\ worker'.cur = worker.cur
    BY <1>13 DEF Notify, Organize, Record, memory, TypeOK
  <2> QED BY <1>9, <2>1
<1> QED BY <1>1, <1>2, <1>3, <1>4, <1>5, <1>6, <1>7, <1>8, <1>9, <1>10, <1>11, <1>12, <1>13
        DEF Next, Poller, Worker, Deleter

(* A torrent that was not deleted is in the channel or with the worker at   *)
(* most once, and exactly then in the set organizeQueued, for any queue    *)
(* size and any interleaving of poller, worker and Delete.                 *)
THEOREM NeverTwiceInHand == Spec => []OnePlace
<1>1. PlaceInv => OnePlace
  <2> SUFFICES ASSUME PlaceInv, NEW t \in Torrents, qb[t] # "gone"
               PROVE  IF t \in queued
                      THEN Cardinality(Places(t)) + (IF worker.cur = t THEN 1 ELSE 0) = 1
                      ELSE Places(t) = {} /\ worker.cur # t
    BY DEF OnePlace
  <2>1. CASE Places(t) = {}
    BY <2>1, FS_EmptySet DEF PlaceInv
  <2>2. CASE Places(t) # {}
    <3>1. PICK i \in Places(t) : TRUE
      BY <2>2
    <3>2. Places(t) = {i}
      BY <3>1 DEF PlaceInv
    <3>3. Cardinality(Places(t)) = 1
      BY <3>2, FS_Singleton
    <3> QED BY <2>2, <3>3 DEF PlaceInv
  <2> QED BY <2>1, <2>2
<1> QED BY <1>1, PlaceInit, TypeInit, TypeStep, PlaceStep, PTL DEF Spec
=============================================================================
