--------------------------- MODULE ResourceImport ---------------------------
(***************************************************************************)
(* The resource-import service of MediaStationGo (internal/service/        *)
(* resource_import.go) together with the failure policy subscriptions plug *)
(* into it (subscription_resource_import_failure.go).                      *)
(*                                                                         *)
(* Three parties share one database row per import job:                    *)
(*   - request threads: an HTTP handler, or the subscription loop, running *)
(*     Create, Cancel, Retry or DeleteFailed to its end;                   *)
(*   - one monitor goroutine per job, which polls the external             *)
(*     media-pipeline and copies what it says into the row;                *)
(*   - Recover, which runs at boot before anything is served.              *)
(* A call is cut into the steps it can be interrupted at: between two      *)
(* statements on the database or calls to the pipeline any other thread    *)
(* may run, the client may go away, or the process may die.                *)
(*                                                                         *)
(* A "follow" job reserves its work's season: a unique nullable column,    *)
(* active_reservation_key, of which the row keeps only whether it is set.  *)
(***************************************************************************)
EXTENDS Naturals, FiniteSets

CONSTANTS
  Jobs,         \* import jobs, one per idempotency key
  Requests,     \* threads that call the service from outside
  NoJob,        \* stands for "no job" in a thread
  SeasonOf,     \* the (library, root, work, season) a job imports
  Follow,       \* jobs with SubscriptionFollow: they reserve their season
  Subscribed,   \* follow jobs that also carry a SubscriptionID
  Ops,          \* which operations Requests may issue
  Outcomes,     \* how a pipeline task may end
  Faults,       \* what may go wrong around the service
  MaxAuto,      \* resourceImportSubscriptionMaxAutoAttempts
  MaxAttempt,   \* bound: no manual Retry of a row whose attempt reached it
  MaxCrashes    \* bound: crashes in one behaviour

ASSUME JobsAssumption ==
  /\ Jobs \cap Requests = {}
  /\ NoJob \notin Jobs \cup Requests
ASSUME FollowAssumption == Subscribed \subseteq Follow /\ Follow \subseteq Jobs
ASSUME SeasonAssumption == SeasonOf = [j \in Jobs |-> SeasonOf[j]]
ASSUME BoundAssumption  == MaxAuto \in Nat /\ MaxAttempt \in Nat /\ MaxCrashes \in Nat
ASSUME ChoiceAssumption ==
  /\ Ops \subseteq {"create", "cancel", "retry", "delete"}
  /\ Outcomes \subseteq {"completed", "warning", "failed", "blocked", "hollow"}
  /\ Faults \subseteq {"abort", "crash", "lostReply", "invalid", "refuse"}

Seasons == {SeasonOf[j] : j \in Jobs}
Threads == Requests \cup Jobs     \* thread j \in Jobs is the monitor of job j

VARIABLES
  row,      \* the resource_import_jobs table
  pipe,     \* the media-pipeline's own task for each job (external)
  sub,      \* is the season's subscription enabled
  th,       \* where each thread is, and what it has read
  up,       \* is the process running
  todo,     \* rows Recover has listed and not processed yet
  crashes   \* how often it has crashed

vars == <<row, pipe, sub, th, up, todo, crashes>>

-----------------------------------------------------------------------------
(* Status values.  "blank" is the status Recover stores when the pipeline's *)
(* answer maps to none.  A "blocked" reply is a failure whose audit reason  *)
(* is share_expired or offline_failed; its row is "failed" like any other.  *)
(* "hollow" is a completed task that names no media: applyPipelineTask      *)
(* takes it for a failure, Create and Recover for a success.                *)

FinalStatus == {"completed", "warning", "failed", "canceled"}
Status      == FinalStatus \cup {"absent", "queued", "running", "blank", "deleted"}
PipeStatus  == FinalStatus \cup {"none", "queued", "running", "blocked", "hollow"}
Retryable   == {"failed", "canceled", "warning"}

MapState(s) ==
  CASE s = "blocked" -> "failed"
    [] s = "hollow"  -> "completed"
    [] s = "invalid" -> "blank"
    [] OTHER         -> s

Failing(s) == s \in {"failed", "hollow"}

Active(j) == row[j].st \in {"queued", "running", "blank"}
Stored(j) == row[j].st \notin {"absent", "deleted"}

AbsentRow == [st |-> "absent", pid |-> FALSE, res |-> FALSE, canc |-> FALSE, att |-> 0]

NoReply == [st |-> "none", canc |-> FALSE]
Idle    == [pc |-> "idle", job |-> NoJob, att |-> 0, canc |-> FALSE, reply |-> NoReply,
            nested |-> FALSE, sched |-> NoJob, inv |-> 0]

Mates(j) == {k \in Jobs : k # j /\ SeasonOf[k] = SeasonOf[j]}

(* Variant: no unique index. *)
SeasonFreeAlways(j) == j \in Jobs

(* The unique index on active_reservation_key leaves the season free for j. *)
SeasonFree(j) == \A k \in Mates(j) : ~row[k].res

-----------------------------------------------------------------------------
(* The media-pipeline, as the client in resource_import_client.go sees it. *)

PipeStart(j) ==
  /\ pipe[j].st = "queued"
  /\ pipe' = [pipe EXCEPT ![j].st = "running"]
  /\ UNCHANGED <<row, sub, th, up, todo, crashes>>

PipeEnd(j) ==
  /\ pipe[j].st = "running"
  /\ \E o \in Outcomes \cup (IF pipe[j].canc THEN {"canceled"} ELSE {}) :
       pipe' = [pipe EXCEPT ![j] = [st |-> o, canc |-> FALSE]]
  /\ UNCHANGED <<row, sub, th, up, todo, crashes>>

(* POST /v1/imports is idempotent on the job's key. *)
AfterCreate(p) == IF p.st = "none" THEN [p EXCEPT !.st = "queued"] ELSE p

(* POST /v1/imports/ID/cancel: a queued task is canceled at once, a running *)
(* one is flagged, a finished one answers with its state.                   *)
AfterCancel(p) ==
  CASE p.st = "queued"  -> [st |-> "canceled", canc |-> FALSE]
    [] p.st = "running" -> [p EXCEPT !.canc = TRUE]
    [] OTHER            -> p

(* POST /v1/imports/ID/retry puts a task that ended without success back. *)
CanRetryPipe(p) == p.st \in {"failed", "blocked", "canceled", "warning"}
AfterRetry      == [st |-> "queued", canc |-> FALSE]

(* What the client reads: the task, if there is one, or a status no mapping *)
(* knows.                                                                  *)
Replies(p) == IF p.st = "none" THEN {}
              ELSE {p} \cup (IF "invalid" \in Faults THEN {[p EXCEPT !.st = "invalid"]} ELSE {})

-----------------------------------------------------------------------------
(* Thread control. *)

(* schedule(): start the job's monitor unless it is already executing. *)
Schedule(f, k) == IF k # NoJob /\ f[k].pc = "idle"
                  THEN [f EXCEPT ![k] = [Idle EXCEPT !.pc = "poll", !.job = k]]
                  ELSE f

(* Move to another step of the same call; what was read is not needed there. *)
Goto(f, t, pc) ==
  [f EXCEPT ![t] = [Idle EXCEPT !.pc = pc, !.job = f[t].job, !.nested = f[t].nested,
                                !.sched = f[t].sched]]

(* Variant: the monitor stops on the terminal status it has just applied. *)
FinishStops(f, t) ==
  IF t \in Jobs THEN [f EXCEPT ![t] = [Idle EXCEPT !.pc = IF f[t].nested THEN "exit" ELSE "poll",
                                                   !.job = t]]
  ELSE Schedule([f EXCEPT ![t] = Idle], f[t].sched)

(* A call returns.  A request ends; a monitor polls again (it reloads the  *)
(* row first, so an inline retry keeps it going).  An enclosing Retry that *)
(* succeeded schedules its job on the way out.                             *)
Finish(f, t) ==
  IF t \in Jobs THEN [f EXCEPT ![t] = [Idle EXCEPT !.pc = "poll", !.job = t]]
  ELSE Schedule([f EXCEPT ![t] = Idle], f[t].sched)

(* Variant: a refused automatic retry is only logged. *)
RefusedSilently(f, t) == Finish(f, t)

(* Retry returns an error: the failure policy then stops the subscription. *)
Refused(f, t) == IF f[t].nested THEN Goto(f, t, "stop") ELSE Finish(f, t)

-----------------------------------------------------------------------------
(* Create, by a request or inside a subscription run *)

StartCreate(r, j) ==
  /\ "create" \in Ops /\ up /\ todo = {}
  /\ th[r].pc = "idle"
  /\ row[j].st = "absent"
  /\ th' = [th EXCEPT ![r] = [Idle EXCEPT !.pc = "insert", !.job = j]]
  /\ UNCHANGED <<row, pipe, sub, up, todo, crashes>>

(* Variant: the row is inserted whoever holds the season. *)
InsertUnchecked(t) ==
  LET j == th[t].job IN
  /\ th[t].pc = "insert"
  /\ row' = IF j \in Follow /\ row[j].st = "absent"
            THEN [row EXCEPT ![j] =
                    [st |-> "queued", pid |-> FALSE, res |-> TRUE, canc |-> FALSE, att |-> 1]]
            ELSE row
  /\ th' = [th EXCEPT ![t].pc = "create"]
  /\ UNCHANGED <<pipe, sub, up, todo, crashes>>

(* A follow job inserts its row, with the reservation, before the pipeline *)
(* is asked; any other job inserts it afterwards.                          *)
Insert(t) ==
  LET j == th[t].job IN
  /\ th[t].pc = "insert"
  /\ IF j \notin Follow
     THEN th' = [th EXCEPT ![t].pc = "create"] /\ UNCHANGED row
     ELSE IF row[j].st = "absent" /\ SeasonFree(j)
     THEN /\ row' = [row EXCEPT ![j] =
                       [st |-> "queued", pid |-> FALSE, res |-> TRUE, canc |-> FALSE, att |-> 1]]
          /\ th' = [th EXCEPT ![t].pc = "create"]
     ELSE th' = Finish(th, t) /\ UNCHANGED row
  /\ UNCHANGED <<pipe, sub, up, todo, crashes>>

CallCreate(t) ==
  LET j == th[t].job IN
  /\ th[t].pc = "create"
  /\ \/ \E q \in Replies(AfterCreate(pipe[j])) :
          /\ q.st # "invalid"
          /\ pipe' = [pipe EXCEPT ![j] = AfterCreate(pipe[j])]
          /\ th' = [th EXCEPT ![t].pc = "store", ![t].reply = q]
     \/ /\ "invalid" \in Faults      \* an unmappable answer: the task has to go
        /\ pipe' = [pipe EXCEPT ![j] = AfterCreate(pipe[j])]
        /\ th' = [th EXCEPT ![t].pc = "reject"]
     \/ /\ "refuse" \in Faults
        /\ th' = [th EXCEPT ![t].pc = "fail", ![t].reply.st = "blocked"]
        /\ UNCHANGED pipe
     \/ /\ "lostReply" \in Faults
        /\ pipe' = [pipe EXCEPT ![j] = AfterCreate(pipe[j])]
        /\ th' = [th EXCEPT ![t].pc = "fail"]
  /\ UNCHANGED <<row, sub, up, todo, crashes>>

(* Variant: the season is released, the row stays queued. *)
FailCreateStaysQueued(t) ==
  /\ th[t].pc = "fail"
  /\ row' = [row EXCEPT ![th[t].job].res = FALSE]
  /\ th' = Finish(th, t)
  /\ UNCHANGED <<pipe, sub, up, todo, crashes>>

(* The reserved row is failed and its season released.  Inside a subscription *)
(* run a source the pipeline blocks makes the run try its next candidate.     *)
FailCreate(t) ==
  LET j == th[t].job IN
  /\ th[t].pc = "fail"
  /\ row' = IF j \in Follow
            THEN [row EXCEPT ![j].st = "failed", ![j].res = FALSE] ELSE row
  /\ \/ th' = Finish(th, t)
     \/ th[t].nested /\ th[t].reply.st = "blocked" /\ th' = Goto(th, t, "next")
  /\ UNCHANGED <<pipe, sub, up, todo, crashes>>

StoreCreate(t) ==
  LET j == th[t].job
      q == th[t].reply
      s == MapState(q.st)
  IN
  /\ th[t].pc = "store"
  /\ \/ /\ j \in Follow
        /\ row' = [row EXCEPT ![j].st = s, ![j].pid = TRUE, ![j].canc = q.canc,
                              ![j].res = @ /\ s \notin FinalStatus]
        /\ th' = Finish(Schedule(th, j), t)
     \/ /\ j \notin Follow
        /\ IF row[j].st = "absent"
           THEN /\ row' = [row EXCEPT ![j] = [st |-> s, pid |-> TRUE, res |-> FALSE,
                                              canc |-> q.canc, att |-> 1]]
                /\ th' = Finish(Schedule(th, j), t)
           ELSE th' = Finish(th, t) /\ UNCHANGED row     \* the same key was stored first
  /\ UNCHANGED <<pipe, sub, up, todo, crashes>>

(* The task could not be stored ("orphan"), or its status is unknown       *)
(* ("reject"): it is canceled on the background context, and a failure of  *)
(* that only logged.  After "reject" a reserved row is failed as well.     *)
Orphan(t) ==
  LET j == th[t].job IN
  /\ th[t].pc \in {"orphan", "reject"}
  /\ \/ pipe' = [pipe EXCEPT ![j] = AfterCancel(pipe[j])]
     \/ "refuse" \in Faults /\ UNCHANGED pipe
  /\ th' = IF th[t].pc = "reject" THEN [th EXCEPT ![t].pc = "fail"] ELSE Finish(th, t)
  /\ UNCHANGED <<row, sub, up, todo, crashes>>

-----------------------------------------------------------------------------
(* Cancel, and the monitor's poll *)

(* Cancel marks the row, then talks to the pipeline; what it read of the row *)
(* (the attempt) stays with it until it writes.                              *)
StartCancel(r, j) ==
  /\ "cancel" \in Ops /\ up /\ todo = {}
  /\ th[r].pc = "idle"
  /\ Active(j)
  /\ row' = [row EXCEPT ![j].canc = TRUE]
  /\ th' = IF row[j].pid          \* without a task id the pipeline call fails
           THEN [th EXCEPT ![r] = [Idle EXCEPT !.pc = "call", !.job = j, !.canc = TRUE,
                                               !.att = row[j].att]]
           ELSE th
  /\ UNCHANGED <<pipe, sub, up, todo, crashes>>

(* Variant: the monitor keeps polling the row it loaded when it started. *)
PollStale(j) ==
  /\ th[j].pc = "poll"
  /\ th' = IF Active(j)
           THEN [th EXCEPT ![j].pc = "call", ![j].canc = row[j].canc]
           ELSE [th EXCEPT ![j] = [Idle EXCEPT !.pc = "exit", !.job = j]]
  /\ UNCHANGED <<row, pipe, sub, up, todo, crashes>>

(* Variant: the monitor does not look whether the row is final. *)
PollFinal(j) ==
  /\ th[j].pc = "poll"
  /\ th' = [th EXCEPT ![j].pc = "call", ![j].canc = row[j].canc, ![j].att = row[j].att]
  /\ UNCHANGED <<row, pipe, sub, up, todo, crashes>>

Poll(j) ==
  /\ th[j].pc = "poll"
  /\ th' = IF Active(j)
           THEN [th EXCEPT ![j].pc = "call", ![j].canc = row[j].canc, ![j].att = row[j].att]
           ELSE [th EXCEPT ![j] = [Idle EXCEPT !.pc = "exit", !.job = j]]
  /\ UNCHANGED <<row, pipe, sub, up, todo, crashes>>

(* The monitor has seen a final row; it is still registered in executing *)
(* until its deferred delete runs.                                       *)
Exit(j) ==
  /\ th[j].pc = "exit"
  /\ th' = [th EXCEPT ![j] = Idle]
  /\ UNCHANGED <<row, pipe, sub, up, todo, crashes>>

CallGet(j) ==
  /\ th[j].pc = "call" /\ ~th[j].canc
  /\ \/ \E q \in Replies(pipe[j]) : th' = [th EXCEPT ![j].pc = "apply", ![j].reply = q]
     \/ "refuse" \in Faults /\ th' = Finish(th, j)
  /\ UNCHANGED <<row, pipe, sub, up, todo, crashes>>

CallCancel(t) ==
  LET j == th[t].job IN
  /\ th[t].pc = "call" /\ th[t].canc
  /\ \/ /\ pipe' = [pipe EXCEPT ![j] = AfterCancel(pipe[j])]
        /\ \E q \in Replies(AfterCancel(pipe[j])) :
             th' = [th EXCEPT ![t].pc = "apply", ![t].reply = q, ![t].canc = FALSE]
        /\ UNCHANGED row
     \/ /\ pipe[j].st # "queued"          \* 409: too late to cancel
        /\ th' = Finish(th, t)
        /\ row' = IF t = j THEN [row EXCEPT ![j].canc = FALSE] ELSE row
        /\ UNCHANGED pipe
     \/ "refuse" \in Faults /\ th' = Finish(th, t) /\ UNCHANGED <<row, pipe>>
  /\ UNCHANGED <<sub, up, todo, crashes>>

(* Variant: unmappable answers are counted without an end. *)
InvalidUncounted(t) ==
  LET j == th[t].job IN
  /\ th[t].pc = "apply" /\ th[t].reply.st = "invalid"
  /\ th' = IF t = j THEN [th EXCEPT ![t] = [Idle EXCEPT !.pc = "poll", !.job = j,
                                                        !.inv = th[t].inv + 1]]
           ELSE Finish(th, t)
  /\ UNCHANGED <<row, pipe, sub, up, todo, crashes>>

(* Three unmappable answers in a row fail the job. *)
Invalid(t) ==
  LET j == th[t].job IN
  /\ th[t].pc = "apply" /\ th[t].reply.st = "invalid"
  /\ \/ /\ t = j /\ th[t].inv = 2
        /\ row' = IF Stored(j) THEN [row EXCEPT ![j].st = "failed", ![j].res = FALSE] ELSE row
        /\ th' = [th EXCEPT ![t] = [Idle EXCEPT !.pc = "exit", !.job = j]]
     \/ /\ t = j /\ th[t].inv < 2
        /\ th' = [th EXCEPT ![t] = [Idle EXCEPT !.pc = "poll", !.job = j, !.inv = th[t].inv + 1]]
        /\ UNCHANGED row
     \/ /\ t # j
        /\ th' = Finish(th, t)
        /\ UNCHANGED row
  /\ UNCHANGED <<pipe, sub, up, todo, crashes>>

(* Variant: a failure that delivered something counts as a success. *)
ApplyStateLenient(s) == IF s \in {"failed", "hollow"} THEN "completed" ELSE MapState(s)

(* applyPipelineTask: one UPDATE, then the subscription's failure handler. *)
ApplyState(s) == IF s = "hollow" THEN "failed" ELSE MapState(s)

Write(j, s, canc, att) ==
  IF Stored(j)
  THEN [row EXCEPT ![j].st = s, ![j].canc = canc, ![j].att = att,
                   ![j].res = @ /\ s \notin FinalStatus]
  ELSE row

(* Variant: one attempt too many. *)
AfterApplyOnceMore(f, t, q, att) ==
  IF f[t].job \notin Subscribed THEN Finish(f, t)
  ELSE CASE q.st = "blocked" -> Goto([f EXCEPT ![t].nested = TRUE], t, "pick")
         [] Failing(q.st) /\ att <= MaxAuto -> Goto([f EXCEPT ![t].nested = TRUE], t, "reload")
         [] Failing(q.st) /\ att > MaxAuto -> Goto(f, t, "stop")
         [] OTHER -> Finish(f, t)

(* handleResourceImportSubscriptionFailure chooses what to do with a failure. *)
AfterApply(f, t, q, att) ==
  IF f[t].job \notin Subscribed THEN Finish(f, t)
  ELSE CASE q.st = "blocked" -> Goto([f EXCEPT ![t].nested = TRUE], t, "pick")
         [] Failing(q.st) /\ att < MaxAuto -> Goto([f EXCEPT ![t].nested = TRUE], t, "reload")
         [] Failing(q.st) /\ att >= MaxAuto -> Goto(f, t, "stop")
         [] OTHER -> Finish(f, t)

Apply(t) ==
  LET j == th[t].job
      q == th[t].reply
  IN
  /\ th[t].pc = "apply" /\ q.st # "invalid"
  /\ row' = Write(j, ApplyState(q.st), q.canc, th[t].att)
  /\ th' = AfterApply(th, t, q, th[t].att)
  /\ UNCHANGED <<pipe, sub, up, todo, crashes>>

-----------------------------------------------------------------------------
(* Retry, by a request or inline from the failure handler *)

MayRetry(j) ==
  /\ row[j].st \in Retryable
  /\ j \in Follow => \A k \in Mates(j) \cap Follow : ~Active(k)

LoadRetry(f, t, j) ==
  [f EXCEPT ![t].pc = IF j \in Follow THEN "reserve" ELSE "retry",
            ![t].job = j, ![t].att = row[j].att, ![t].canc = FALSE, ![t].reply = NoReply]

StartRetry(r, j) ==
  /\ "retry" \in Ops /\ up /\ todo = {}
  /\ th[r].pc = "idle"
  /\ MayRetry(j) /\ row[j].att < MaxAttempt
  /\ th' = LoadRetry(th, r, j)
  /\ UNCHANGED <<row, pipe, sub, up, todo, crashes>>

Reload(t) ==
  LET j == th[t].job IN
  /\ th[t].pc = "reload"
  /\ th' = IF MayRetry(j) THEN LoadRetry(th, t, j) ELSE Refused(th, t)
  /\ UNCHANGED <<row, pipe, sub, up, todo, crashes>>

Reserve(t) ==
  LET j == th[t].job IN
  /\ th[t].pc = "reserve"
  /\ IF Stored(j) /\ ~row[j].res /\ SeasonFree(j)
     THEN /\ row' = [row EXCEPT ![j].res = TRUE]
          /\ th' = [th EXCEPT ![t].pc = "retry"]
     ELSE th' = Refused(th, t) /\ UNCHANGED row
  /\ UNCHANGED <<pipe, sub, up, todo, crashes>>

CallRetry(t) ==
  LET j == th[t].job
      accepted == CanRetryPipe(pipe[j]) /\ row[j].pid
      undo == Goto(th, t, "undo")
  IN
  /\ th[t].pc = "retry"
  /\ \/ /\ accepted
        /\ pipe' = [pipe EXCEPT ![j] = AfterRetry]
        /\ \/ \E q \in Replies(AfterRetry) :
                th' = [th EXCEPT ![t].pc = "resume", ![t].reply = q, ![t].att = @ + 1]
           \/ "lostReply" \in Faults /\ th' = undo
     \/ /\ ~accepted \/ "refuse" \in Faults
        /\ th' = undo
        /\ UNCHANGED <<pipe>>
  /\ UNCHANGED <<row, sub, up, todo, crashes>>

(* Variant: a refused retry keeps the season. *)
UndoNothing(t) ==
  /\ th[t].pc = "undo"
  /\ th' = Refused(th, t)
  /\ UNCHANGED <<row, pipe, sub, up, todo, crashes>>

UndoReserve(t) ==
  LET j == th[t].job IN
  /\ th[t].pc = "undo"
  /\ row' = [row EXCEPT ![j].res = FALSE]
  /\ th' = Refused(th, t)
  /\ UNCHANGED <<pipe, sub, up, todo, crashes>>

(* Variant: the accepted retry is not recorded. *)
ResumeUnrecorded(t) ==
  /\ th[t].pc = "resume"
  /\ th' = Finish([th EXCEPT ![t].sched = th[t].job], t)
  /\ UNCHANGED <<row, pipe, sub, up, todo, crashes>>

(* The accepted retry clears the old result, applies the pipeline's answer *)
(* and, once the handlers are done, schedules the job.                     *)
Resume(t) ==
  LET j == th[t].job
      q == th[t].reply
  IN
  /\ th[t].pc = "resume"
  /\ IF q.st = "invalid"
     THEN th' = Refused(th, t) /\ UNCHANGED row
     ELSE /\ row' = Write(j, ApplyState(q.st), q.canc, th[t].att)
          /\ th' = AfterApply([th EXCEPT ![t].sched = j], t, q, th[t].att)
  /\ UNCHANGED <<pipe, sub, up, todo, crashes>>

-----------------------------------------------------------------------------
(* The failure policy's other two answers *)

Stop(t) ==
  /\ th[t].pc = "stop"
  /\ sub' = [sub EXCEPT ![SeasonOf[th[t].job]] = FALSE]
  /\ th' = Finish(th, t)
  /\ UNCHANGED <<row, pipe, up, todo, crashes>>

(* A blocked source: run the subscription again, which creates a job for   *)
(* the next candidate, if it is enabled and no task of its is active.      *)
Pick(t) ==
  LET s == SeasonOf[th[t].job]
      own == {k \in Subscribed : SeasonOf[k] = s}
      goes == th[t].pc = "next" \/ (sub[s] /\ \A k \in own : ~Active(k))
  IN
  /\ th[t].pc \in {"pick", "next"}
  /\ \/ goes /\ \E k \in own : /\ row[k].st = "absent"
                               /\ th' = [th EXCEPT ![t].pc = "insert", ![t].job = k,
                                                   ![t].reply = NoReply]
     \/ th' = Finish(th, t)           \* no candidate is left
  /\ UNCHANGED <<row, pipe, sub, up, todo, crashes>>

-----------------------------------------------------------------------------
(* DeleteFailed: DELETE ... WHERE id = ? AND status = 'failed'.  A Retry   *)
(* under way goes on with the task id it has loaded: pid stays for it.     *)

DeleteFailed(j) ==
  /\ "delete" \in Ops /\ up /\ todo = {}
  /\ row[j].st = "failed"
  /\ row' = [row EXCEPT ![j] = [AbsentRow EXCEPT !.st = "deleted", !.pid = row[j].pid]]
  /\ UNCHANGED <<pipe, sub, th, up, todo, crashes>>

-----------------------------------------------------------------------------
(* Clients that go away, and crashes *)

(* The request's context is canceled: every later statement and call on it *)
(* fails, the clean-up writes included.  Only the cancel of a pipeline      *)
(* task without a row and the final schedule do not use that context.       *)
Abort(r) ==
  /\ "abort" \in Faults
  /\ th[r].pc \notin {"idle", "orphan", "reject"}
  /\ \/ th' = Finish(th, r)
     \/ th[r].pc = "store" /\ th' = Goto(th, r, "orphan")
  /\ UNCHANGED <<row, pipe, sub, up, todo, crashes>>

Crash ==
  /\ "crash" \in Faults /\ up /\ crashes < MaxCrashes
  /\ up' = FALSE
  /\ th' = [t \in Threads |-> Idle]
  /\ todo' = {}
  /\ crashes' = crashes + 1
  /\ UNCHANGED <<row, pipe, sub>>

(* Variant: recovery leaves the accepted rows alone. *)
BootForgetful ==
  /\ ~up
  /\ up' = TRUE
  /\ todo' = {j \in Jobs : Active(j) /\ ~row[j].pid}
  /\ UNCHANGED <<row, pipe, sub, th, crashes>>

(* Recover lists the unfinished rows and schedules those the pipeline has *)
(* accepted; the others are processed one by one.                         *)
Boot ==
  /\ ~up
  /\ up' = TRUE
  /\ todo' = {j \in Jobs : Active(j) /\ ~row[j].pid}
  /\ th' = [t \in Threads |->
              IF t \in Jobs /\ row[t].pid /\ Active(t)
              THEN [Idle EXCEPT !.pc = "poll", !.job = t] ELSE Idle]
  /\ UNCHANGED <<row, pipe, sub, crashes>>

(* Variant: recovery drops the reservation of the row it recreates. *)
RecoverRowReleases(j) ==
  /\ j \in todo
  /\ todo' = todo \ {j}
  /\ pipe' = [pipe EXCEPT ![j] = AfterCreate(pipe[j])]
  /\ row' = [row EXCEPT ![j].pid = TRUE, ![j].res = FALSE, ![j].st = MapState(AfterCreate(pipe[j]).st)]
  /\ th' = Schedule(th, j)
  /\ UNCHANGED <<sub, up, crashes>>

(* recreateReservedPipelineImport with the row's idempotency key.  The row  *)
(* takes the pipeline's status; nothing else of it is touched.              *)
RecoverRow(j) ==
  /\ j \in todo
  /\ todo' = todo \ {j}
  /\ \/ /\ j \in Follow
        /\ pipe' = [pipe EXCEPT ![j] = AfterCreate(pipe[j])]
        /\ \E q \in Replies(AfterCreate(pipe[j])) :
             row' = [row EXCEPT ![j].pid = TRUE, ![j].st = MapState(q.st)]
        /\ th' = Schedule(th, j)
     \/ /\ \/ "refuse" \in Faults /\ UNCHANGED pipe
           \/ "lostReply" \in Faults /\ pipe' = [pipe EXCEPT ![j] = AfterCreate(pipe[j])]
        /\ row' = [row EXCEPT ![j].st = "failed", ![j].res = FALSE]
        /\ UNCHANGED th
  /\ UNCHANGED <<sub, up, crashes>>

-----------------------------------------------------------------------------
Init ==
  /\ row  = [j \in Jobs |-> AbsentRow]
  /\ pipe = [j \in Jobs |-> NoReply]
  /\ sub  = [s \in Seasons |-> TRUE]
  /\ th   = [t \in Threads |-> Idle]
  /\ up = TRUE /\ todo = {}
  /\ crashes = 0

Step(t) ==   \* the next step of the call thread t is in
  \/ Insert(t) \/ CallCreate(t) \/ FailCreate(t) \/ StoreCreate(t) \/ Orphan(t)
  \/ CallCancel(t) \/ Invalid(t) \/ Apply(t)
  \/ Reload(t) \/ Reserve(t) \/ CallRetry(t) \/ UndoReserve(t) \/ Resume(t)
  \/ Stop(t) \/ Pick(t)

Monitor(j) == Poll(j) \/ CallGet(j) \/ Exit(j) \/ Step(j)

Pipeline(j) == PipeStart(j) \/ PipeEnd(j)

Next ==
  \/ \E r \in Requests :
       \/ \E j \in Jobs : StartCreate(r, j) \/ StartCancel(r, j) \/ StartRetry(r, j)
       \/ Step(r)
       \/ Abort(r)
  \/ \E j \in Jobs : DeleteFailed(j) \/ Monitor(j) \/ Pipeline(j) \/ RecoverRow(j)
  \/ Crash
  \/ Boot

Spec == Init /\ [][Next]_vars

(* Goroutines and the pipeline keep running; nobody has to call, to go     *)
(* away or to crash.  A process that died is started again.                *)
Fairness ==
  /\ \A t \in Requests : WF_vars(Step(t))
  /\ \A j \in Jobs : WF_vars(Monitor(j)) /\ WF_vars(Pipeline(j)) /\ WF_vars(RecoverRow(j))
  /\ WF_vars(Boot)

FairSpec == Spec /\ Fairness

-----------------------------------------------------------------------------
Pc == {"idle", "insert", "create", "fail", "store", "orphan", "reject", "poll",
       "call", "apply", "exit", "reload", "reserve", "retry", "undo", "resume",
       "stop", "pick", "next"}
Reply       == [st : PipeStatus \cup {"invalid"}, canc : BOOLEAN]
RowState    == [st : Status, pid : BOOLEAN, res : BOOLEAN, canc : BOOLEAN, att : Nat]
ThreadState == [pc : Pc, job : Jobs \cup {NoJob}, att : Nat, canc : BOOLEAN, reply : Reply,
                nested : BOOLEAN, sched : Jobs \cup {NoJob}, inv : 0..2]

(* Every variable has its type; in particular a monitor never counts a    *)
(* third unmappable answer without ending.                                *)
TypeOK ==
  /\ row \in [Jobs -> RowState]
  /\ pipe \in [Jobs -> [st : PipeStatus, canc : BOOLEAN]]
  /\ sub \in [Seasons -> BOOLEAN]
  /\ th \in [Threads -> ThreadState]
  /\ up \in BOOLEAN /\ todo \in SUBSET Jobs
  /\ crashes \in Nat

(* Two jobs never hold the same season's reservation: what the unique index *)
(* on active_reservation_key enforces when Create inserts its row and when  *)
(* Retry takes the key back.                                                *)
OneReservation == \A j \in Jobs : row[j].res => \A k \in Mates(j) : ~row[k].res

(* The row of the job that holds a season stands for the season's lease:   *)
(* Create and Retry take it only when it is free, and every release, by    *)
(* whichever thread, is the release of the holder's own row.               *)
Holder == [s \in Seasons |->
             IF \E j \in Jobs : SeasonOf[j] = s /\ row[j].res
             THEN CHOOSE j \in Jobs : SeasonOf[j] = s /\ row[j].res
             ELSE NoJob]
Lease == INSTANCE SeasonLease WITH holder <- Holder
LeaseSpec == Lease!Spec

(* "One work/season has exactly one active staged-ingest task"             *)
(* (subscription_resource_import.go, createResourceImportSubscriptionJobs): *)
(* at most one follow row of a season is unfinished.                       *)
OneActive ==
  \A j \in Follow : Active(j) => \A k \in Mates(j) \cap Follow : ~Active(k)

(* An unfinished follow row holds its season's reservation, so that the    *)
(* unique index refuses a second one: Create inserts both together, and no *)
(* failure, abort, crash or recovery separates them.                       *)
ActiveReserved == \A j \in Follow : Active(j) => row[j].res

Executing(j) == th[j].pc # "idle"
Creating(j) == \E t \in Threads : th[t].job = j /\ th[t].pc \in {"create", "store", "reject", "fail"}
Retrying(j) == \E t \in Threads : th[t].job = j /\ th[t].pc \in {"retry", "resume", "undo"}

(* A reservation is always in the hands of somebody who will give it back: *)
(* a call that creates or retries the job, the recovery that has listed    *)
(* it, or the monitor of its unfinished row.  No path of Create, of the    *)
(* inline retry or of the monitor's exit leaves it on a row nobody follows. *)
ReservationOwned ==
  \A j \in Jobs : row[j].res /\ up =>
    \/ Creating(j) \/ Retrying(j) \/ j \in todo
    \/ Active(j) /\ (Executing(j) \/ \E r \in Requests : th[r].sched = j)

(* A task the pipeline still works on belongs to an unfinished row, or to a *)
(* call that is about to record it: a retry that the pipeline accepted is   *)
(* never forgotten by the row that asked for it.                            *)
NoOrphanTask ==
  \A j \in Jobs : up /\ pipe[j].st \in {"queued", "running"} =>
     \/ Active(j) \/ Creating(j) \/ Retrying(j)
     \/ \E t \in Threads : th[t].job = j /\ th[t].pc = "orphan"

(* "The initial attempt plus two retries is the bounded total"             *)
(* (subscription_resource_import_failure.go): the automatic policy never   *)
(* takes a job beyond MaxAuto attempts.                                    *)
BoundedAuto == \A j \in Jobs : row[j].att <= MaxAuto

(* The attempt a row records never goes back, whichever thread writes the  *)
(* copy of it that it has read earlier: going back would grant the policy  *)
(* above further retries.                                                  *)
AttemptGrows == [][\A j \in Jobs : row'[j].st # "deleted" => row[j].att <= row'[j].att]_vars

(* A final row becomes unfinished again only because a retry the pipeline  *)
(* accepted is recorded in it; no monitor holds an older answer by then.   *)
FinalLeftByRetry ==
  [][\A j \in Jobs : row[j].st \in FinalStatus /\ row'[j].st \notin FinalStatus \cup {"deleted"}
       => \E t \in Threads : th[t].job = j /\ th[t].pc = "resume"]_vars

(* A row reports a success only if the pipeline's task has ended in one: no *)
(* interleaving of late answers, cancels, retries and recovery makes a     *)
(* completed row of a task that failed, was canceled or runs again.        *)
SuccessIsReal ==
  \A j \in Jobs : row[j].st = "completed" => pipe[j].st \in {"completed", "hollow"}

(* A failed subscription import is always answered: the job or a successor *)
(* runs again or has completed, or the subscription is stopped.            *)
FailureAnswered ==
  \A j \in Subscribed : row[j].st = "failed" ~>
    \/ ~sub[SeasonOf[j]]
    \/ \E k \in Mates(j) \cup {j} : Active(k) \/ row[k].st \in {"completed", "warning"}

(* A reserved season becomes free again, whatever the pipeline answers: the *)
(* monitor goes on after the inline retry of its own job, and the retries   *)
(* are bounded.                                                            *)
SeasonEventuallyFree == \A j \in Jobs : row[j].res ~> ~row[j].res

(* The client left after the row was inserted and before it got the task's *)
(* id: the clean-up runs on the same dead context, so that the row stays   *)
(* queued, with its reservation, and no monitor follows it.                *)
Abandoned(j) == Active(j) /\ ~row[j].pid /\ ~Creating(j)

(* An import settles in a final status, or its client has abandoned it     *)
(* before it had a task id; and whatever the pipeline had accepted before  *)
(* a restart settles for good after it, what was abandoned included:       *)
(* Recover asks for the task again by its key, or schedules the row.       *)
AcceptedSettles ==
  \A j \in Jobs :
    /\ <>[](~Active(j) \/ Abandoned(j))
    /\ (pipe[j].st # "none" /\ ~up) ~> []~Active(j)

(* "Fix the problem, then retry by hand from the task history" (the text   *)
(* notifyResourceImportSubscriptionStopped sends): no reservation is left   *)
(* on a failed row once every call is over, since Retry refuses such a row. *)
RetryPossible ==
  \A j \in Jobs : row[j].st = "failed" /\ up /\ todo = {} /\ (\A t \in Threads : th[t].pc = "idle")
                     => ~row[j].res
=============================================================================
