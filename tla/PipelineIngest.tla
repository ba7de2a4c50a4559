---------------------------- MODULE PipelineIngest ----------------------------
(***************************************************************************)
(* The ingest jobs that media-pipeline asks for: pipeline_ingest.go and    *)
(* pipeline_ingest_store.go in internal/service.                           *)
(*                                                                         *)
(* A job is a row of the database and a copy of it in memory, the map      *)
(* jobs.  Every update reads a copy, changes it, stores it in the row and  *)
(* then in the map, and takes no lock from one to the other.  A goroutine  *)
(* brings the job from stage to stage; a second one, started at its end,   *)
(* fetches subtitles.  A request with the idempotency key of an earlier    *)
(* one finds the job in the database and puts what it found in the map.    *)
(* Keys are of different requests; they stand for their jobs, too.         *)
(***************************************************************************)
EXTENDS Naturals, Sequences

CONSTANTS
  Keys,                                   \* bound: jobs, all of one library root
  Prune, Scan, Extras, Visibility,        \* the keys whose request asks for it
  Callers,                                \* bound: requests under way at one time
  NoRecord, NoKey,
  Repeats,        \* may a client repeat a request while its job runs?
  MaxRestarts,    \* bound: crashes
  MaxRefused      \* bound: writes the database refuses

ASSUME IngestAssumption ==
  /\ {Prune, Scan, Extras, Visibility} \subseteq SUBSET Keys /\ NoKey \notin Keys
  /\ Repeats \in BOOLEAN /\ MaxRestarts \in Nat /\ MaxRefused \in Nat

VARIABLES
  jobRow,     \* the table pipeline_ingest_jobs
  cache,      \* the map jobs (fewer than 100, so that none is evicted)
  thread,     \* the goroutines run and runCloudSubtitleEnhancement of each job
  caller,     \* the requests in Start
  recovery,   \* how far the boot is
  found,      \* the records Recover has read and not dealt with
  restarts, refused

IngestVars == <<jobRow, cache, thread, caller, recovery, found, restarts, refused>>

Record == [status : {"running", "completed", "failed"},
           subtitles : {"none", "pending", "running", "settled"}]
NewRecord == [status |-> "running", subtitles |-> "none"]

ASSUME RecordAssumption == NoRecord \notin Record

Goroutines == {"run", "enhance"} \X Keys
Off == [pc |-> "off", stage |-> "none", job |-> NoRecord]
NoCall == [pc |-> "idle", key |-> NoKey, job |-> NoRecord]
Nothing == [k \in Keys |-> NoRecord]

-----------------------------------------------------------------------------
(* The updates a job goes through; "pruned", "scanned", "media" and so on  *)
(* store a stage's result.                                                 *)
Plan(k) ==
  LET When(S, stages) == IF k \in S THEN stages ELSE <<>>
  IN  <<"start">>
      \o When(Prune, <<"prune", "pruned">>) \o When(Scan, <<"scan", "scanned">>)
      \o <<"find", "media">>
      \o When(Extras, <<"extras", "extrasDone">>)
      \o When(Visibility, <<"visibility", "visibilityDone">>) \o <<"completed">>

After(k, stage) == Plan(k)[1 + CHOOSE i \in 1..Len(Plan(k)) : Plan(k)[i] = stage]

(* What comes before these updates may end in an error. *)
MayFail == {"start", "prune", "scanned", "find", "extras", "visibility"}

(* What an update changes of the copy it has read. *)
Updated(job, stage) ==
  CASE stage = "media" /\ job.subtitles = "none" -> [job EXCEPT !.subtitles = "pending"]
    [] stage \in {"completed", "failed"} -> [job EXCEPT !.status = stage]
    [] stage = "fetching" -> [job EXCEPT !.subtitles = "running"]
    [] stage = "fetched" -> [job EXCEPT !.subtitles = "settled"]
    [] OTHER -> job

(* Variant: subtitles that were being fetched are left alone. *)
WantsOnlyPending(job) == job.status = "completed" /\ job.subtitles = "pending"

WantsSubtitles(job) == job.status = "completed" /\ job.subtitles \in {"pending", "running"}

Moved(g, pc, stage) == [thread EXCEPT ![g] = [pc |-> pc, stage |-> stage, job |-> NoRecord]]
Is(g, pc) == thread[g].pc = pc

(* The threads once run, or the enhancement, is scheduled, if it is not. *)
Scheduled(g) ==
  IF ~Is(g, "off") THEN thread
  ELSE IF g[1] = "run" THEN Moved(g, "work", "start") ELSE Moved(g, "look", "none")

-----------------------------------------------------------------------------
(* updateJob *)

ReadJob(g) ==
  /\ Is(g, "read")
  /\ thread' = [thread EXCEPT ![g].pc = "persist", ![g].job = Updated(cache[g[2]], thread[g].stage)]
  /\ UNCHANGED <<jobRow, cache, caller, recovery, found, restarts, refused>>

PersistJob(g) ==
  /\ Is(g, "persist")
  /\ jobRow' = [jobRow EXCEPT ![g[2]] = thread[g].job]
  /\ thread' = [thread EXCEPT ![g].pc = "cache"]
  /\ UNCHANGED <<cache, caller, recovery, found, restarts, refused>>

(* run fails the job, and can do no more when that, too, is refused. *)
RefuseJob(g) ==
  /\ Is(g, "persist") /\ refused < MaxRefused
  /\ refused' = refused + 1
  /\ thread' = IF g[1] = "run" /\ thread[g].stage # "failed"
               THEN Moved(g, "read", "failed") ELSE Moved(g, "return", "none")
  /\ UNCHANGED <<jobRow, cache, caller, recovery, found, restarts>>

StoreJob(g) ==
  /\ Is(g, "cache")
  /\ cache' = [cache EXCEPT ![g[2]] = thread[g].job]
  /\ thread' = IF thread[g].stage \in {"failed", "fetched"}
               THEN Moved(g, "return", "none") ELSE Moved(g, "work", thread[g].stage)
  /\ UNCHANGED <<jobRow, caller, recovery, found, restarts, refused>>

Return(g) ==
  /\ Is(g, "return")
  /\ thread' = [thread EXCEPT ![g] = Off]
  /\ UNCHANGED <<jobRow, cache, caller, recovery, found, restarts, refused>>

-----------------------------------------------------------------------------
(* runJob, between two updates *)

Scanning == {k \in Keys : Is(<<"run", k>>, "scan")}

Works(k, stages) == Is(<<"run", k>>, "work") /\ thread[<<"run", k>>].stage \in stages
Goes(k, pc, stage) ==
  /\ thread' = Moved(<<"run", k>>, pc, stage)
  /\ UNCHANGED <<jobRow, cache, caller, recovery, found, restarts, refused>>

Advance(k) ==
  /\ Is(<<"run", k>>, "work") /\ ~Works(k, {"scan", "completed"})
  /\ Goes(k, "read", After(k, thread[<<"run", k>>].stage))

FailJob(k) == Works(k, MayFail) /\ Goes(k, "read", "failed")

(* TryBeginLocalScan; a job of the root that is not one of Keys may be     *)
(* scanning it at any time.                                                *)
BeginIngestScan(k) ==
  /\ Works(k, {"scan"})
  /\ \/ Scanning = {} /\ Goes(k, "scan", "scan")
     \/ Goes(k, "read", "failed")

EndIngestScan(k) ==
  /\ Is(<<"run", k>>, "scan")
  /\ \E stage \in {"scanned", "failed"} : Goes(k, "read", stage)

CompleteJob(k) ==
  /\ Works(k, {"completed"})
  /\ thread' = [Scheduled(<<"enhance", k>>) EXCEPT ![<<"run", k>>] =
                  [pc |-> "return", stage |-> "none", job |-> NoRecord]]
  /\ UNCHANGED <<jobRow, cache, caller, recovery, found, restarts, refused>>

-----------------------------------------------------------------------------
(* runCloudSubtitleEnhancement *)

LookAtSubtitles(k) ==
  /\ Is(<<"enhance", k>>, "look")
  /\ thread' = IF WantsSubtitles(cache[k])
               THEN Moved(<<"enhance", k>>, "read", "fetching")
               ELSE Moved(<<"enhance", k>>, "return", "none")
  /\ UNCHANGED <<jobRow, cache, caller, recovery, found, restarts, refused>>

(* EnsureCloudSubtitles, whatever comes of it. *)
FetchSubtitles(k) ==
  /\ Is(<<"enhance", k>>, "work")
  /\ thread' = Moved(<<"enhance", k>>, "read", "fetched")
  /\ UNCHANGED <<jobRow, cache, caller, recovery, found, restarts, refused>>

-----------------------------------------------------------------------------
(* Start *)

Ended(job) == job # NoRecord /\ job.status # "running"
Alone(c, k) == \A d \in Callers \ {c} : caller[d].key # k

Call(c, pc, job) == caller' = [caller EXCEPT ![c].pc = pc, ![c].job = job]

Start(c, k) ==
  /\ recovery = "up" /\ caller[c] = NoCall
  /\ Repeats \/ (Alone(c, k) /\ (jobRow[k] = NoRecord \/ Ended(jobRow[k])))
  /\ caller' = [caller EXCEPT ![c] = [pc |-> "find", key |-> k, job |-> NoRecord]]
  /\ UNCHANGED <<jobRow, cache, thread, recovery, found, restarts, refused>>

FindJob(c) ==
  /\ caller[c].pc = "find"
  /\ LET job == jobRow[caller[c].key] IN Call(c, IF job = NoRecord THEN "create" ELSE "cache", job)
  /\ UNCHANGED <<jobRow, cache, thread, recovery, found, restarts, refused>>

(* The key is unique: who comes too late looks again. *)
CreateJob(c) ==
  /\ caller[c].pc = "create"
  /\ LET k == caller[c].key IN
       IF jobRow[k] = NoRecord
       THEN jobRow' = [jobRow EXCEPT ![k] = NewRecord] /\ Call(c, "cache", NewRecord)
       ELSE Call(c, "find", NoRecord) /\ UNCHANGED jobRow
  /\ UNCHANGED <<cache, thread, recovery, found, restarts, refused>>

(* Variant: a job that was found is scheduled whatever its status. *)
ReuseAlways(c) ==
  /\ caller[c].pc = "cache"
  /\ cache' = [cache EXCEPT ![caller[c].key] = caller[c].job]
  /\ Call(c, "schedule", NoRecord)
  /\ UNCHANGED <<jobRow, thread, recovery, found, restarts, refused>>

CacheFound(c) ==
  /\ caller[c].pc = "cache"
  /\ cache' = [cache EXCEPT ![caller[c].key] = caller[c].job]
  /\ IF Ended(caller[c].job) THEN caller' = [caller EXCEPT ![c] = NoCall]
                             ELSE Call(c, "schedule", NoRecord)
  /\ UNCHANGED <<jobRow, thread, recovery, found, restarts, refused>>

ScheduleJob(c) ==
  /\ caller[c].pc = "schedule"
  /\ thread' = Scheduled(<<"run", caller[c].key>>)
  /\ caller' = [caller EXCEPT ![c] = NoCall]
  /\ UNCHANGED <<jobRow, cache, recovery, found, restarts, refused>>

(* A client that goes away ends a query, not what follows. *)
Abandon(c) ==
  /\ caller[c].pc \in {"find", "create"}
  /\ caller' = [caller EXCEPT ![c] = NoCall]
  /\ UNCHANGED <<jobRow, cache, thread, recovery, found, restarts, refused>>

(* Get of a job that is not in memory. *)
LoadJob(k) ==
  /\ recovery = "up" /\ cache[k] = NoRecord /\ jobRow[k] # NoRecord
  /\ cache' = [cache EXCEPT ![k] = jobRow[k]]
  /\ UNCHANGED <<jobRow, thread, caller, recovery, found, restarts, refused>>

-----------------------------------------------------------------------------
(* Crash and Recover, which ends before the first request is served *)

IngestCrash ==
  /\ recovery # "down" /\ restarts < MaxRestarts
  /\ restarts' = restarts + 1
  /\ recovery' = "down"
  /\ cache' = Nothing /\ found' = Nothing
  /\ thread' = [g \in Goroutines |-> Off]
  /\ caller' = [c \in Callers |-> NoCall]
  /\ UNCHANGED <<jobRow, refused>>

FindRunning ==
  /\ recovery = "down"
  /\ recovery' = "running"
  /\ found' = [k \in Keys |-> IF jobRow[k] # NoRecord /\ ~Ended(jobRow[k]) THEN jobRow[k] ELSE NoRecord]
  /\ UNCHANGED <<jobRow, cache, thread, caller, restarts, refused>>

FindCompleted ==
  /\ recovery = "running" /\ found = Nothing
  /\ recovery' = "completed"
  /\ found' = [k \in Keys |-> IF jobRow[k] # NoRecord /\ WantsSubtitles(jobRow[k]) THEN jobRow[k] ELSE NoRecord]
  /\ UNCHANGED <<jobRow, cache, thread, caller, restarts, refused>>

(* One of the records, and what it was read for. *)
RecoverJob(k) ==
  /\ found[k] # NoRecord
  /\ cache' = [cache EXCEPT ![k] = found[k]]
  /\ thread' = Scheduled(<<IF recovery = "running" THEN "run" ELSE "enhance", k>>)
  /\ found' = [found EXCEPT ![k] = NoRecord]
  /\ UNCHANGED <<jobRow, caller, recovery, restarts, refused>>

Serve ==
  /\ recovery = "completed" /\ found = Nothing
  /\ recovery' = "up"
  /\ UNCHANGED <<jobRow, cache, thread, caller, found, restarts, refused>>

-----------------------------------------------------------------------------
IngestTypeOK ==
  /\ jobRow \in [Keys -> Record \union {NoRecord}]
  /\ cache \in [Keys -> Record \union {NoRecord}]
  /\ thread \in [Goroutines ->
       [pc : {"off", "work", "scan", "look", "read", "persist", "cache", "return"},
        stage : {"none", "start", "prune", "pruned", "scan", "scanned", "find", "media", "extras",
                 "extrasDone", "visibility", "visibilityDone", "completed", "failed",
                 "fetching", "fetched"},
        job : Record \union {NoRecord}]]
  /\ caller \in [Callers -> [pc : {"idle", "find", "create", "cache", "schedule"},
                             key : Keys \union {NoKey}, job : Record \union {NoRecord}]]
  /\ recovery \in {"down", "running", "completed", "up"}
  /\ found \in [Keys -> Record \union {NoRecord}]
  /\ restarts \in 0..MaxRestarts /\ refused \in 0..MaxRefused

IngestInit ==
  /\ jobRow = Nothing /\ cache = Nothing /\ found = Nothing
  /\ thread = [g \in Goroutines |-> Off]
  /\ caller = [c \in Callers |-> NoCall]
  /\ recovery = "up" /\ restarts = 0 /\ refused = 0

Updates(g) == ReadJob(g) \/ PersistJob(g) \/ RefuseJob(g) \/ StoreJob(g) \/ Return(g)
RunStep(k) == Advance(k) \/ FailJob(k) \/ BeginIngestScan(k) \/ EndIngestScan(k) \/ CompleteJob(k)
EnhanceStep(k) == LookAtSubtitles(k) \/ FetchSubtitles(k)
StartStep(c) == FindJob(c) \/ CreateJob(c) \/ CacheFound(c) \/ ScheduleJob(c) \/ Abandon(c)
RecoverStep == FindRunning \/ FindCompleted \/ Serve \/ \E k \in Keys : RecoverJob(k)

IngestNext ==
  \/ \E g \in Goroutines : Updates(g)
  \/ \E k \in Keys : RunStep(k) \/ EnhanceStep(k) \/ LoadJob(k) \/ \E c \in Callers : Start(c, k)
  \/ \E c \in Callers : StartStep(c)
  \/ RecoverStep \/ IngestCrash

IngestSpec == IngestInit /\ [][IngestNext]_IngestVars

(* Goroutines that run, run on: scans and downloads of subtitles have time  *)
(* limits, and a program that died is started again.                       *)
IngestFairness ==
  /\ \A g \in Goroutines :
       WF_IngestVars(Updates(g) \/ (IF g[1] = "run" THEN RunStep(g[2]) ELSE EnhanceStep(g[2])))
  /\ \A c \in Callers : WF_IngestVars(StartStep(c))
  /\ WF_IngestVars(RecoverStep)

-----------------------------------------------------------------------------
(* What Get answers. *)
Answer(k) == IF cache[k] = NoRecord THEN jobRow[k] ELSE cache[k]

(* A job that has ended has ended the way it did: neither its row nor what *)
(* the map answers for it goes back to running or to the other end, over   *)
(* refused writes, crashes and requests that come for the job again,       *)
(* although all of them write copies they have read before.                *)
EndedStays ==
  [][\A k \in Keys :
       /\ Ended(jobRow[k]) => jobRow'[k] # NoRecord /\ jobRow'[k].status = jobRow[k].status
       /\ Ended(Answer(k)) => Answer(k)' # NoRecord /\ Answer(k)'.status = Answer(k).status]_IngestVars

(* A job that was accepted ends, and one that is completed has its         *)
(* subtitles settled, whenever the program was restarted; unless the       *)
(* database has refused a write.                                           *)
IngestSettles ==
  \A k \in Keys :
    <>[](\/ jobRow[k] = NoRecord \/ refused > 0
         \/ Ended(jobRow[k]) /\ (jobRow[k].status = "completed" => jobRow[k].subtitles = "settled"))

(* pipeline_ingest_test.go:611 asks that whoever repeats the request of a  *)
(* completed job is given the completed job: what is stored of it remains  *)
(* completed.                                                              *)
CompletedKept ==
  [][\A k \in Keys :
       jobRow[k] # NoRecord /\ jobRow[k].status = "completed"
         => jobRow'[k] # NoRecord /\ jobRow'[k].status = "completed"]_IngestVars
=============================================================================
