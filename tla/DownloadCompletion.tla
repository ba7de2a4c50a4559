-------------------------- MODULE DownloadCompletion --------------------------
(***************************************************************************)
(* What MediaStationGo does about finished downloads: download_polling.go, *)
(* download_completion.go, download_completion_state.go,                   *)
(* download_notification.go and Delete of downloads.go, all in             *)
(* internal/service.                                                       *)
(*                                                                         *)
(* A poller compares qBittorrent's list with the download tasks every five *)
(* seconds, copies the progress into the tasks and queues the torrents     *)
(* that have finished; one worker takes them from the queue, announces and *)
(* organizes them.  Delete runs on a request's thread.  They share the     *)
(* tasks, two settings per torrent, and, under a mutex, what the poller    *)
(* remembers of each torrent and which torrents are queued.  Only the      *)
(* tasks and the settings survive a restart.                               *)
(***************************************************************************)
EXTENDS Naturals, FiniteSets, Sequences

CONSTANTS
  Torrents,      \* the torrents there may be in qBittorrent, one per hash
  NoTorrent,
  Tracked,       \* those somebody added through MediaStationGo
  Timestamped,   \* those for which qBittorrent reports when they completed
  HashInURL,     \* those whose task's URL names the hash (magnet links)
  QueueSize,     \* completedTorrentOrganizeQueueSize
  Faults,        \* what may happen around the service
  MaxRestarts,   \* bound: restarts in one behaviour
  MaxRechecks    \* bound: times qBittorrent verifies a complete torrent again

ASSUME TorrentAssumption ==
  /\ NoTorrent \notin Torrents
  /\ Tracked \subseteq Torrents /\ Timestamped \subseteq Torrents /\ HashInURL \subseteq Torrents
ASSUME SizeAssumption == QueueSize \in Nat \ {0} /\ MaxRestarts \in Nat /\ MaxRechecks \in Nat
ASSUME FaultAssumption == Faults \subseteq {"delete", "organizeError", "unreachable", "admin"}

VARIABLES
  qb,         \* the state of each torrent in qBittorrent (external)
  rechecks,   \* how often one was verified again
  task,       \* status of its row in download_tasks
  recorded,   \* setting download.auto_organized.*
  notified,   \* setting download.completed_notified.*
  auto,       \* setting organizer.auto_after_download
  prev,       \* the map prevStates
  inited,     \* pollInitialized
  queue,      \* the channel organizeQueue
  queued,     \* the set organizeQueued
  poller,     \* the polling goroutine
  worker,     \* the organizing goroutine
  deleter,    \* a request that runs Delete
  sending,    \* announcements whose goroutine has not run yet
  sent,       \* how many announcements of each torrent went out
  restarts

disk   == <<task, recorded, notified, auto>>
memory == <<prev, inited, queue, queued>>
outer  == <<qb, rechecks, sending, sent, restarts>>
vars   == <<disk, memory, outer, poller, worker, deleter>>

-----------------------------------------------------------------------------
(* "checking" stands for the states in which qBittorrent still moves or     *)
(* verifies a torrent whose progress is 1; "complete" is one that finished *)
(* within the catch-up window, "old" an earlier one.                       *)
QbState   == {"new", "downloading", "checking", "complete", "old", "gone"}
TaskState == {"none", "open", "completed", "deleted"}

Present(s)   == s \notin {"new", "gone"}

(* Variant: full progress is taken for completion. *)
CompletedByProgress(s) == s \in {"checking", "complete", "old"}

(* qbitTorrentCompleted *)
Completed(s) == s \in {"complete", "old"}

(* recentlyCompletedTorrent *)
Recent(s, t) == s = "complete" /\ t \in Timestamped

NoSnapshot == [t \in Torrents |-> "new"]
PollerIdle  == [pc |-> "idle", live |-> NoSnapshot, rows |-> [t \in Torrents |-> "none"],
                left |-> {}, first |-> FALSE, cur |-> NoTorrent, needs |-> FALSE]
WorkerIdle  == [pc |-> "idle", cur |-> NoTorrent]
DeleterIdle == [pc |-> "idle", cur |-> NoTorrent, name |-> NoTorrent]

-----------------------------------------------------------------------------
(* qBittorrent, and the users that add torrents to it. *)

Qb(t, from, to) ==
  /\ qb[t] = from
  /\ qb' = [qb EXCEPT ![t] = to]
  /\ UNCHANGED <<disk, memory, rechecks, sending, sent, restarts, poller, worker, deleter>>

Add(t)    == Qb(t, "new", "downloading")
Finish(t) == Qb(t, "downloading", "checking") \/ Qb(t, "checking", "complete")
Age(t)    == Qb(t, "complete", "old")

Recheck(t) ==
  /\ Completed(qb[t]) /\ rechecks < MaxRechecks
  /\ qb' = [qb EXCEPT ![t] = "checking"]
  /\ rechecks' = rechecks + 1
  /\ UNCHANGED <<disk, memory, sending, sent, restarts, poller, worker, deleter>>

(* The task of a torrent is created after qBittorrent has accepted it, or   *)
(* when a user adds one again that is already there.                       *)
CreateTask(t) ==
  /\ t \in Tracked /\ Present(qb[t]) /\ task[t] = "none"
  /\ task' = [task EXCEPT ![t] = "open"]
  /\ UNCHANGED <<recorded, notified, auto, memory, outer, poller, worker, deleter>>

SetAuto ==
  /\ "admin" \in Faults
  /\ auto' = ~auto
  /\ UNCHANGED <<task, recorded, notified, memory, outer, poller, worker, deleter>>

-----------------------------------------------------------------------------
(* The poller *)

(* On to the next torrent, or to the end of the round; what was read of the *)
(* torrents that are done is not needed any more.                          *)
NextTorrent(p) ==
  IF p.left = {} THEN PollerIdle
  ELSE [p EXCEPT !.pc = "each", !.cur = NoTorrent, !.needs = FALSE,
                 !.live = [t \in Torrents |-> IF t \in p.left THEN p.live[t] ELSE "new"],
                 !.rows = [t \in Torrents |-> IF t \in p.left THEN p.rows[t] ELSE "none"]]

PollList ==
  /\ poller.pc = "idle"
  /\ poller' = [poller EXCEPT !.pc = "rows", !.live = qb]
  /\ UNCHANGED <<disk, memory, outer, worker, deleter>>

PollRows ==
  /\ poller.pc = "rows"
  /\ poller' = NextTorrent([poller EXCEPT !.rows = task, !.first = ~inited,
                                          !.left = {t \in Torrents : Present(poller.live[t])}])
  /\ inited' = TRUE
  /\ UNCHANGED <<disk, prev, queue, queued, outer, worker, deleter>>

(* Variant: only a task that was not complete yet. *)
PollNeedsPending(t) ==
  /\ poller.pc = "each" /\ t \in poller.left
  /\ poller' = [poller EXCEPT
       !.pc = "sync", !.cur = t, !.left = @ \ {t},
       !.needs = poller.rows[t] \notin {"none", "completed"} /\ ~recorded[t] /\ auto]
  /\ UNCHANGED <<disk, memory, outer, worker, deleter>>

(* downloadSnapshotTaskNeedsOrganize, for the next torrent of the list. *)
PollNeeds(t) ==
  /\ poller.pc = "each" /\ t \in poller.left
  /\ poller' = [poller EXCEPT
       !.pc = "sync", !.cur = t, !.left = @ \ {t},
       !.needs = /\ poller.rows[t] # "none" /\ ~recorded[t] /\ auto
                 /\ poller.rows[t] # "completed" \/ Recent(poller.live[t], t)]
  /\ UNCHANGED <<disk, memory, outer, worker, deleter>>

(* syncDownloadTaskProgress: the status is written when it differs from the *)
(* one read; "open" stands for several of qBittorrent's states.            *)
Sync ==
  LET t == poller.cur
      s == IF Completed(poller.live[t]) THEN "completed" ELSE "open"
  IN
  /\ poller.pc = "sync"
  /\ \/ /\ poller.rows[t] # "none" /\ ~(s = "completed" /\ poller.rows[t] = s)
        /\ task' = [task EXCEPT ![t] = s]
     \/ /\ poller.rows[t] \in {"none", s}
        /\ UNCHANGED task
  /\ poller' = [poller EXCEPT !.pc = "decide"]
  /\ UNCHANGED <<recorded, notified, auto, memory, outer, worker, deleter>>

(* Variant: the state is remembered before the torrent is queued. *)
DecideEager ==
  LET t == poller.cur
      c == Completed(poller.live[t])
      seen == ~poller.first /\ prev[t] # "unseen"
      should == c /\ (poller.needs \/ (seen /\ prev[t] = "no"))
  IN
  /\ poller.pc = "decide"
  /\ prev' = [prev EXCEPT ![t] = IF c THEN "yes" ELSE "no"]
  /\ poller' = IF should THEN [poller EXCEPT !.pc = "enqueue"] ELSE NextTorrent(poller)
  /\ UNCHANGED <<disk, inited, queue, queued, outer, worker, deleter>>

(* completedTorrentShouldQueue *)
Decide ==
  LET t == poller.cur
      c == Completed(poller.live[t])
      seen == ~poller.first /\ prev[t] # "unseen"
      should == c /\ (poller.needs \/ (seen /\ prev[t] = "no"))
  IN
  /\ poller.pc = "decide"
  /\ prev' = [prev EXCEPT ![t] = IF ~c THEN "no"
                                 ELSE IF ~seen \/ ~should THEN "yes" ELSE @]
  /\ poller' = IF should THEN [poller EXCEPT !.pc = "enqueue"] ELSE NextTorrent(poller)
  /\ UNCHANGED <<disk, inited, queue, queued, outer, worker, deleter>>

(* Variant: the channel has no capacity. *)
EnqueueUnbounded ==
  LET t == poller.cur IN
  /\ poller.pc = "enqueue"
  /\ IF t \in queued THEN UNCHANGED <<queue, queued>>
     ELSE queue' = Append(queue, t) /\ queued' = queued \cup {t}
  /\ poller' = [poller EXCEPT !.pc = "mark"]
  /\ UNCHANGED <<disk, prev, inited, outer, worker, deleter>>

Enqueue ==
  LET t == poller.cur IN
  /\ poller.pc = "enqueue"
  /\ IF t \in queued \/ Len(queue) = QueueSize THEN UNCHANGED <<queue, queued>>
     ELSE queue' = Append(queue, t) /\ queued' = queued \cup {t}
  /\ poller' = [poller EXCEPT
                  !.pc = IF t \notin queued /\ Len(queue) = QueueSize THEN "full" ELSE "mark"]
  /\ UNCHANGED <<disk, prev, inited, outer, worker, deleter>>

Mark ==
  /\ poller.pc = "mark"
  /\ prev' = [prev EXCEPT ![poller.cur] = "yes"]
  /\ poller' = NextTorrent(poller)
  /\ UNCHANGED <<disk, inited, queue, queued, outer, worker, deleter>>

(* "auto organize queue full; will retry completed torrent later" *)
Full ==
  /\ poller.pc = "full"
  /\ poller' = NextTorrent(poller)
  /\ UNCHANGED <<disk, memory, outer, worker, deleter>>

-----------------------------------------------------------------------------
(* The worker *)

(* Variant: the torrent is not queued any more once the worker has it. *)
TakeForgets ==
  /\ worker.pc = "idle" /\ queue # <<>>
  /\ worker' = [pc |-> "notify", cur |-> Head(queue)]
  /\ queue' = Tail(queue)
  /\ queued' = queued \ {Head(queue)}
  /\ UNCHANGED <<disk, prev, inited, outer, poller, deleter>>

Take ==
  /\ worker.pc = "idle" /\ queue # <<>>
  /\ worker' = [pc |-> "notify", cur |-> Head(queue)]
  /\ queue' = Tail(queue)
  /\ UNCHANGED <<disk, prev, inited, queued, outer, poller, deleter>>

(* Variant: that a torrent was announced is not stored. *)
NotifyUnmarked ==
  /\ worker.pc = "notify"
  /\ sending' = IF notified[worker.cur] THEN sending ELSE sending \cup {worker.cur}
  /\ worker' = [worker EXCEPT !.pc = "organize"]
  /\ UNCHANGED <<disk, memory, qb, rechecks, sent, restarts, poller, deleter>>

Notify ==
  LET t == worker.cur IN
  /\ worker.pc = "notify"
  /\ notified' = [notified EXCEPT ![t] = TRUE]
  /\ sending' = IF notified[t] THEN sending ELSE sending \cup {t}
  /\ worker' = [worker EXCEPT !.pc = "organize"]
  /\ UNCHANGED <<task, recorded, auto, memory, qb, rechecks, sent, restarts, poller, deleter>>

Send(t) ==
  /\ t \in sending
  /\ sending' = sending \ {t}
  /\ sent' = [sent EXCEPT ![t] = @ + 1]
  /\ UNCHANGED <<disk, memory, qb, rechecks, restarts, poller, worker, deleter>>

(* runCompletedTorrentOrganize: the payload is organized, or found to be of *)
(* a kind that is not organized at all, or the attempt fails.              *)
Organize ==
  /\ worker.pc = "organize"
  /\ \/ auto /\ worker' = [worker EXCEPT !.pc = "record"]
     \/ /\ ~auto \/ "organizeError" \in Faults \/ ~Present(qb[worker.cur])
        /\ worker' = [worker EXCEPT !.pc = "done"]
  /\ UNCHANGED <<disk, memory, outer, poller, deleter>>

Record ==
  /\ worker.pc = "record"
  /\ recorded' = [recorded EXCEPT ![worker.cur] = TRUE]
  /\ worker' = [worker EXCEPT !.pc = "done"]
  /\ UNCHANGED <<task, notified, auto, memory, outer, poller, deleter>>

Done ==
  /\ worker.pc = "done"
  /\ queued' = queued \ {worker.cur}
  /\ worker' = WorkerIdle
  /\ UNCHANGED <<disk, prev, inited, queue, outer, poller, deleter>>

-----------------------------------------------------------------------------
(* Delete, for a hash a user has seen in the list *)

(* The torrent's name is looked up; a list of one torrent is taken for it. *)
DeleteLookup(t) ==
  LET live == {k \in Torrents : Present(qb[k])} IN
  /\ "delete" \in Faults /\ deleter.pc = "idle" /\ qb[t] # "new"
  /\ \E name \in (IF t \in live THEN {t} ELSE IF Cardinality(live) = 1 THEN live ELSE {})
                 \cup (IF "unreachable" \in Faults \/ (t \notin live /\ Cardinality(live) # 1)
                       THEN {NoTorrent} ELSE {}) :
       deleter' = [pc |-> "qbit", cur |-> t, name |-> name]
  /\ UNCHANGED <<disk, memory, outer, poller, worker>>

DeleteQbit ==
  /\ deleter.pc = "qbit"
  /\ \/ /\ qb' = [qb EXCEPT ![deleter.cur] = "gone"]
        /\ deleter' = [deleter EXCEPT !.pc = "task"]
     \/ "unreachable" \in Faults /\ deleter' = DeleterIdle /\ UNCHANGED qb
  /\ UNCHANGED <<disk, memory, rechecks, sending, sent, restarts, poller, worker>>

(* markDownloadTaskDeleted: by the hash in its URL, else by the name. *)
DeleteTask ==
  LET byHash == deleter.cur \in HashInURL /\ task[deleter.cur] # "none"
      match  == IF byHash THEN deleter.cur ELSE deleter.name
  IN
  /\ deleter.pc = "task"
  /\ task' = IF match # NoTorrent /\ task[match] # "none"
             THEN [task EXCEPT ![match] = "deleted"] ELSE task
  /\ deleter' = [deleter EXCEPT !.pc = "memory"]
  /\ UNCHANGED <<recorded, notified, auto, memory, outer, poller, worker>>

DeleteMemory ==
  /\ deleter.pc = "memory"
  /\ prev' = [prev EXCEPT ![deleter.cur] = "unseen"]
  /\ queued' = queued \ {deleter.cur}
  /\ deleter' = DeleterIdle
  /\ UNCHANGED <<disk, inited, queue, outer, poller, worker>>

-----------------------------------------------------------------------------
Restart ==
  /\ restarts < MaxRestarts
  /\ restarts' = restarts + 1
  /\ prev' = [t \in Torrents |-> "unseen"] /\ inited' = FALSE
  /\ queue' = <<>> /\ queued' = {}
  /\ poller' = PollerIdle /\ worker' = WorkerIdle /\ deleter' = DeleterIdle
  /\ sending' = {}
  /\ UNCHANGED <<disk, qb, rechecks, sent>>

Init ==
  /\ qb = NoSnapshot /\ rechecks = 0
  /\ task = [t \in Torrents |-> "none"]
  /\ recorded = [t \in Torrents |-> FALSE] /\ notified = [t \in Torrents |-> FALSE]
  /\ auto \in IF "admin" \in Faults THEN BOOLEAN ELSE {TRUE}
  /\ prev = [t \in Torrents |-> "unseen"] /\ inited = FALSE
  /\ queue = <<>> /\ queued = {}
  /\ poller = PollerIdle /\ worker = WorkerIdle /\ deleter = DeleterIdle
  /\ sending = {} /\ sent = [t \in Torrents |-> 0]
  /\ restarts = 0

Poller == PollList \/ PollRows \/ (\E t \in Torrents : PollNeeds(t)) \/ Sync \/ Decide \/ Enqueue
          \/ Mark \/ Full
Worker == Take \/ Notify \/ Organize \/ Record \/ Done
Deleter == DeleteQbit \/ DeleteTask \/ DeleteMemory

Next ==
  \/ \E t \in Torrents : \/ Add(t) \/ Finish(t) \/ Age(t) \/ Recheck(t) \/ CreateTask(t)
                         \/ DeleteLookup(t) \/ Send(t)
  \/ SetAuto \/ Restart
  \/ Poller \/ Worker \/ Deleter

Spec == Init /\ [][Next]_vars

(* The goroutines run, and organizing does not fail for ever. *)
FairSpec ==
  /\ Spec
  /\ WF_vars(Poller) /\ WF_vars(Worker) /\ WF_vars(Deleter)
  /\ SF_vars(auto /\ Organize /\ worker'.pc = "record")
  /\ \A t \in Torrents : WF_vars(Send(t))

-----------------------------------------------------------------------------
TypeOK ==
  /\ qb \in [Torrents -> QbState] /\ rechecks \in 0..MaxRechecks
  /\ task \in [Torrents -> TaskState]
  /\ recorded \in [Torrents -> BOOLEAN] /\ notified \in [Torrents -> BOOLEAN] /\ auto \in BOOLEAN
  /\ prev \in [Torrents -> {"unseen", "no", "yes"}] /\ inited \in BOOLEAN
  /\ queue \in Seq(Torrents) /\ Len(queue) <= QueueSize
  /\ queued \in SUBSET Torrents
  /\ poller \in [pc : {"idle", "rows", "each", "sync", "decide", "enqueue", "mark", "full"},
                 live : [Torrents -> QbState], rows : [Torrents -> TaskState],
                 left : SUBSET Torrents, first : BOOLEAN, cur : Torrents \cup {NoTorrent},
                 needs : BOOLEAN]
  /\ worker \in [pc : {"idle", "notify", "organize", "record", "done"},
                 cur : Torrents \cup {NoTorrent}]
  /\ deleter \in [pc : {"idle", "qbit", "task", "memory"}, cur : Torrents \cup {NoTorrent},
                  name : Torrents \cup {NoTorrent}]
  /\ sending \in SUBSET Torrents /\ sent \in [Torrents -> Nat] /\ restarts \in 0..MaxRestarts

(* A torrent is in hand at most once: it is in the channel or with the      *)
(* worker exactly while the set organizeQueued has it, so that a round that *)
(* overlaps with the worker does not organize a payload twice at a time.   *)
(* Delete clears the mark early, of a torrent that is gone by then.        *)
Places(t) == {i \in 1..Len(queue) : queue[i] = t}
OnePlace ==
  \A t \in Torrents : qb[t] # "gone" =>
    IF t \in queued
    THEN Cardinality(Places(t)) + (IF worker.cur = t THEN 1 ELSE 0) = 1
    ELSE Places(t) = {} /\ worker.cur # t

(* Nothing is queued before qBittorrent is done with it                     *)
(* (TestProcessDownloadSnapshotDoesNotQueueActiveDownloadAtFullProgress),  *)
(* though the poller acts on a list it has read earlier: unless a complete *)
(* torrent was verified again, a queued one is complete or deleted.        *)
NotBeforeComplete ==
  rechecks = 0 => \A t \in queued : qb[t] \in {"complete", "old", "gone"}

(* A finished download is announced at most once, however often it is       *)
(* queued again: after failed attempts, verifications and restarts.        *)
AnnouncedOnce == \A t \in Torrents : sent[t] <= 1

(* A recently completed torrent with a task is organized in the end, also   *)
(* if it completed before a restart, if attempts failed or if the queue was *)
(* full (completedTorrentShouldQueue: the recently completed ones are made *)
(* up for).                                                                *)
CaughtUp ==
  \A t \in Tracked \cap Timestamped :
    qb[t] = "complete" /\ task[t] # "none" /\ auto
      ~> recorded[t] \/ qb[t] # "complete" \/ ~auto

(* A completion the poller has watched reaches the worker, tracked or not,  *)
(* whatever the queue looked like at that moment.                          *)
WatchedCompletion ==
  \A t \in Torrents :
    prev[t] = "no" /\ Completed(qb[t]) /\ ~(poller.pc = "mark" /\ poller.cur = t)
      ~> t \in queued \/ ~Completed(qb[t]) \/ prev[t] = "unseen"

(* Delete leaves the task marked as deleted                                 *)
(* (TestDeleteMarksMatchingDownloadTaskDeleted), so that it does not stand *)
(* in the way of a new download of the same title.                         *)
DeletedStays == [][\A t \in Torrents : task[t] = "deleted" => task'[t] = "deleted"]_vars
=============================================================================
