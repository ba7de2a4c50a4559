# MediaStationGo: specifications

TLA+ modules of the concurrent parts of MediaStationGo, the TLC configurations
that check them on small instances, and TLAPS proofs of what matters most for
every instance. `src/` below is the root of the repository; line numbers are of
the commit the modules were written from. `PROJECT.json` maps every definition
to the lines it stands for.

    tlc -config import_faults.cfg MCResourceImport   # one configuration
    tlapm ResourceImportProofs.tla                   # the proofs of one module

## 1. The system

MediaStationGo is a media server: one Go process (`cmd/server`), an SQL
database behind GORM, a web UI. Its logic lives in `internal/service`; handlers
decode a request and call a service with the request's context. Background work
is done by goroutines the services start, all under one service context that
`Container.Close` (`internal/service/service.go:177`) cancels.

| component | state it keeps | operations | what is hard about it | what makes it correct |
|---|---|---|---|---|
| **Resource import** `resource_import.go`, with the failure policy in `subscription_resource_import_failure.go` and the runs in `subscription_resource_import.go` | table `resource_import_jobs` with the unique nullable column `active_reservation_key`; the map `executing`; the subscription's `enabled` | Create, Cancel, Retry, DeleteFailed, schedule / monitor, Recover; the inline failure handler | each call is a sequence of SQL statements and HTTP calls on a context that may die; the monitor polls what Cancel and Retry change; recovery after a crash | one unfinished task per season; the reservation is always given back; retries bounded; a failure is answered; what was accepted settles |
| **Import slots** `resource_import.go:1175-1311` | channels `globalSem`, `userSems[u]`, map `executing` | schedule, acquire, release | two channels taken in order, four ways out | no slot is lost, one goroutine per job, waiters get through |
| **media-pipeline** (another program) | its tasks | create (idempotent by key), get, cancel, retry over HTTP | answers are late, lost or of an unknown kind | external |
| **Download completion** `download_polling.go`, `download_completion*.go`, `downloads.go` | snapshots, `organizeQueued`, the queue, completion rows | poll, enqueue, organize, notify, Delete | the poller compares with state the worker changes later; bounded queue; restart | every finished download is organized, and at most once at a time |
| **Cloud scan** `scanner_cloud_jobs.go`, `scanner_cloud_status.go`, `scanner_cloud_entry.go` | status entry with a cancel function per library, the slot | scan one, scan all, cancel, begin, acquire the slot, finish; the scheduler's `cloud_sync` | three kinds of starters race with cancels and time-outs; ends that arrive late | an end or a cancel meets its own scan; a queued library is scanned; a cancelled scan ends |
| **Refresh tokens** `token_svc.go`, `token_svc_pending.go` | token rows, the map of pending stores | issue, store and retry, enforce the session limit, refresh (rotate), revoke all | the row is stored asynchronously, after the client has the token | no token is lost; a replaced one stays replaced; the limit holds |
| **Site rate limiter** `site_rate_limiter.go` | one setting of time stamps per bucket | allow | several buckets per request, whole seconds, failing writes | never more than the quota per window |
| **Watcher** `watcher.go`, with `scanner_scan.go`, `scanner_local_ingest.go`, `scanner_prune.go` | the map of pending paths, watched directories, media rows | events, debounce, ingest, remove; a full scan | files change during an update | every row is what its file calls for |
| **Probe queues** `stream_cloud_probe_queue.go`, `scanner_local_probe_queue.go` | bounded channel, set of reserved media, back-off | reserve, send, probe | full queue; reserved under the lock, sent after it | a medium is probed once at a time and never reserved for nothing |
| **Scheduler** `scheduler_runner.go` | running flag per job | tick, run now | a run that never ends | a job never overlaps itself |
| **Subscription loop** `subscription.go`, `subscription_rss_run.go` | subscriptions, seen lists | sweep, run now | lost update of the seen list | an item is queued once |
| **Hubs** `sse_hub.go`, `ws_hub.go` | subscriber sets | subscribe, publish, stop | unbuffered control channels after stop | nobody blocks for ever |
| **Transcoder** `transcoder.go`, `transcoder_jobs.go`, `transcoder_ffmpeg_probe.go` | the map from media to jobs, last use | ensure, touch, stop, run and watch ffmpeg | a stopped job is off the map before its ffmpeg has ended; the watchdog stops outside the lock | one ffmpeg per medium; a tracked job runs; an unused one is stopped |
| **Pipeline ingest** `pipeline_ingest.go`, `pipeline_ingest_store.go` | table `pipeline_ingest_jobs`, the maps `jobs`, `executing`, `enhancing` | start (idempotent by key), get, run, fetch subtitles, recover | every update reads the map, writes the row, then the map, without a lock; repeated requests; crashes | a job that ended stays so; an accepted one ends and its subtitles settle |
| Others: organizer, cloud providers, image proxy, Telegram bot, license, library and recycle bin, Emby, STRM, scrapers, handlers, database, web UI | | | sequential, I/O or conversion | |

How they interact: the subscription loop and the HTTP handlers call Create and
Retry; the import service calls back into the subscription service when a job
fails (`SetSubscriptionFailureHandler`), on the goroutine that stored the
failure, and that handler calls Retry or Create again. Rows and the
pipeline's tasks are the only shared state; nothing holds a lock across a call.
A cloud scan may be started by a request, by "scan all" or by the scheduler;
the three meet in the entries and the slot, so that one module has them all. The
watcher and a full scan meet in the media rows. At the end of an import the
media-pipeline asks for an ingest job, over HTTP and with a key of its own; the
two share no state. Refresh tokens, transcodes, the
rate limiter and the probe queue share nothing with the others.

## 2. Modules

| module | models | theorems in |
|---|---|---|
| `ResourceImport` | the import service, the failure policy, the pipeline as its client sees it, clients that leave, crashes | `ResourceImportProofs` |
| `SeasonLease` | what the reservation promises: a lease on a season | |
| `ImportSlots` | schedule, acquire, release | `ImportServicesProofs` |
| `DownloadCompletion` | the poller, the organize queue and its worker, announcements, Delete, restarts | `DownloadCompletionProofs` |
| `RefreshToken` | issuing, storing, retrying, rotating and revoking refresh tokens of one user | `RefreshTokenProofs` |
| `CloudScan` | scans of cloud libraries, their cancel and the scheduler's job | `LibraryProofs` |
| `Transcoder` | HLS jobs, their ffmpeg and their watchdogs | `StreamProofs` |
| `SiteRateLimiter` | the persistent limiter of a tracker's API | `SiteRateLimiterProofs` |
| `ProbeQueue` | the queue of cloud probes | `StreamProofs` |
| `Watcher` | the disk, its events, the debouncer, a full scan, the rows | `LibraryProofs` |
| `PipelineIngest` | the ingest jobs: Start, run, subtitles, refused writes, crashes, Recover | `ImportServicesProofs` |
| `Services` | the six services `RefreshToken`, `CloudScan`, `Transcoder`, `SiteRateLimiter`, `ProbeQueue`, `Watcher` in one process | `ServicesProofs` |
| `ImportServices` | `ResourceImport`, `ImportSlots` and `PipelineIngest` in one process | `ImportServicesProofs` |
| `MCResourceImport` | the small instances of `ResourceImport` (`DownloadCompletion` needs only model values, given in its configurations) | |
| `Acquisition` | `ResourceImport` and `DownloadCompletion` in one run | |
| `TokenLogout` | `RefreshToken` with the tokens a logout is to end, for one violation run | |

### ResourceImport

`row[j]` is the row of job `j` (jobs are idempotency keys): its status, whether
it has a `pipeline_job_id` (`pid`), holds `active_reservation_key` (`res`), has
`cancel_requested` (`canc`), and its attempt. `pipe[j]` is the pipeline's task.
`th[t]` is where a thread is in a call and what it has read: requests run
Create, Cancel and Retry; thread `j` in `Jobs` is the monitor of job `j`, so
that `th[j].pc # "idle"` is membership in `executing`. An action is the code
between two points where another thread may act: one SQL statement or one HTTP
call with the computation around it.

| code | actions |
|---|---|
| `Create` :681-903 | `StartCreate`, `Insert` (follow jobs insert before the call), `CallCreate`, `FailCreate`, `StoreCreate`, `Orphan` (cancel of a task that could not be stored, :878-898, or whose status is unknown, :853-861; a cancel that fails is only logged) |
| `Cancel` :1066-1085 | `StartCancel`, `CallCancel`, `Apply` / `Invalid` |
| `Retry` :1087-1153 | `StartRetry` or `Reload` (inline), `Reserve`, `CallRetry`, `UndoReserve`, `Resume` |
| `monitor` :1193-1279 | `Poll`, `CallGet`, `CallCancel`, `Apply`, `Invalid`, `Exit` |
| `applyPipelineTask` :1313-1370 and the failure handler | `Write` and `AfterApply`, then `Reload` ... , `Pick`, `Stop` on the same thread (`nested`) |
| `DeleteFailed` :1155-1173 | `DeleteFailed` |
| `Recover` :947-1020 | `Boot`, `RecoverRow` |
| `c.Request.Context()` in the handlers | `Abort` |

Reductions, each without effect on the properties: the monitor's reload, tick
and next load are one `Poll`; Cancel's load and its mark are one step, so are
Retry's load and count, the clearing and the writing of a retried row, and the
storing of a row with its `schedule`. The semaphores are not here (they only
delay a poll) but in `ImportSlots`. `sub` only becomes FALSE: enabling a
subscription again is a user's edit. A season has one subscription (duplicates
are rejected on save). ManualReplenish jobs are `Follow \ Subscribed`: the
failure policy never retries either. SQL statements fail only by a dead
context. Recover schedules all accepted rows at once although it lists them in
order of creation. A row is never created twice for a key that was deleted; a
deleted row keeps its `pid`, which stands for the task id that a Retry under way
has loaded before (:1088) and sends (:1119).

### ImportSlots

`mon[m]` is the place of a goroutine between `go s.monitor(id)` and its
deferred delete, `executing` the map, `globalSem` and `userSems` the number of
values in the channels. A receive is an action with the guard that the channel
is not empty; that it never waits there is `NeverBlocks`, proved. The field `closed` of the service is never set by the code and is left
out.

### DownloadCompletion

`task[t]` is the status of a torrent's row in `download_tasks`, with one "open"
for all of qBittorrent's unfinished states; `recorded` and `notified` are the two
settings kept per torrent; `prev`, `inited`, `queue`, `queued` are the fields of
`DownloadService` under its mutex (`prevStates`, `pollInitialized`,
`organizeQueue`, `organizeQueued`); `poller`, `worker` and `deleter` are where the
three goroutines are and what they have read. qBittorrent is external: a
torrent is downloading, then at full progress but still moved or verified
("checking"), then complete, first within the 24 hours of
`completedTorrentCatchupWindow`, then "old".

| code | actions |
|---|---|
| `poll`, `processDownloadSnapshot` (`download_polling.go:18-63`) | `PollList`, `PollRows` |
| `processTorrentSnapshot` :65-76, for each torrent of the list | `PollNeeds`, `Sync`, `Decide`, then `Enqueue` and `Mark` or `Full` |
| `autoOrganizeWorker` :166-201, `onTorrentComplete` | `Take`, `Notify` (and `Send` in its goroutine), `Organize`, `Record`, `Done` |
| `Delete` (`downloads.go:164-221`) | `DeleteLookup`, `DeleteQbit`, `DeleteTask`, `DeleteMemory` |
| `Stop`, `NewDownloadService`, `Start` | `Restart` |

Each of the poller's steps is one access to the database, to the mutex or to
qBittorrent, so that the worker and Delete may run between any two. Reductions:
a list that cannot be read skips the round and is a stutter; titles match only
their own torrent (the code also matches titles that contain one another), so
that a torrent has one task; SQL statements succeed; a hash is not added again
after Delete; the two settings that switch organizing on are one; the cooldown
of the worker is a delay only.

### RefreshToken

One user, since no operation touches two. `row[t]` says when a token's row was
created (0: it has none), `revoked` the rows with that column set, `pending` the
keys of `delayedStores`. `store[t]` is where the storing of a token is, by the
goroutine of `storeRefreshTokenBestEffort` or by the request itself
(`IssuePair`); `refresher[q]` is a request in `Refresh`. `known` are the tokens a
client has: only those can come back.

| code | actions |
|---|---|
| `IssuePair`, `IssuePairBestEffort` (`token_svc.go:75-114`) | `Register`, `Login`, and `ReturnPair` when the client is answered |
| `storeRefreshToken` and the two goroutines (`token_svc_pending.go:21-111`) | `CreateRow`, `CreateFails`, `DatabaseBusy`, `RetryStore`, `UntrackDelayedStore` |
| `RevokeOldestActiveByUserID` | `FindOldest`, `RevokeOldest`, `EvictionFails` |
| `Refresh` (`token_svc.go:170-226`) | `RefreshFind`, `RefreshLookup`, `RefreshRefuse`, `RefreshRevoke`, `RefreshUntrack`, `RefreshIssue` |
| `RevokeAll` | `RevokeAll` |

A token expires by `RefreshRefuse`, at any time; a row that has expired is not
taken out of the session count. A read that fails is a stutter.

### CloudScan

`entry[l]` is the state of a library's entry in `cloudScans`, `holder[l]` the scan
whose cancel function it has, `slot` the value in the channel `cloudSlots`.
`scanner[r]` is a goroutine: of a single scan, of "scan all", or of the
scheduler's job; `late` says that its own time is over, `stop` that somebody
cancelled the scan it is in.

| code | actions |
|---|---|
| requests (`scanner_cloud_jobs.go:16-128`) | `StartCloudLibraryScan`, `StartAllCloudLibraryScans`, `QueueCloudLibraryScan` |
| `cancelCloudScanEntry` (`scanner_cloud_status.go:196-257`) | `CancelCloudScans`, of any set of libraries |
| `runQueuedCloudLibraryScans`, `jobSyncCloudLibraries` | `NextLibrary`, `EndScanner`, `TimeIsOver`, `BeginCloudSync` |
| `scanMountedCloudLibrary` (`scanner_cloud_entry.go:12-66`) | `RefuseCloudScan`, `BeginCloudScan`, `AcquireCloudScanSlot`, `GiveUpSlot`, `EndCloudScan`, `ReleaseCloudScanSlot` |

`forsaken` is a history variable: the libraries that a "scan all" has queued and
then left, because its time was over or the scan was refused; queueing one
again takes it out. Not here: the progress an entry shows, and scans of
one cloud root, which do not begin through `beginCloudScan`.

### Transcoder

`hlsJobs` is the map `jobs`; `ffmpeg[j]` and `watchdog[j]` are the goroutines
`runFFmpeg` and `monitorIdle` of a job, which are two threads: each may be left
when the other has gone. `cancelled` are the cancelled contexts, `idle` the jobs
not used for the idle time-out. `EnsureJob`, `TouchJob`, `StopJob` and `StopAll`
hold the mutex throughout and are one step each; `StartFFmpeg`, `FFmpegExits`
and `DropEntry` are `runFFmpeg` (`transcoder_ffmpeg_probe.go:16-66`), `Watch` and
`WatchStops` a tick of `monitorIdle` (`transcoder_jobs.go:108-137`), with the
unlock between them. The idle time-out applies to the job the medium has now, as
in the code, not to the watchdog's own.

### SiteRateLimiter

`stamps[b]` is the setting of a bucket. `Allow` runs under one mutex and is one
step: prune and check every bucket, then write them; `AllowFails` is the same
with a write that fails after some have been written. The clock advances in
parts of a second, since what counts in whole seconds may go wrong between them.
`admitted` is the history the property is about. The code drops the stamps not after
the cutoff and sorts the rest (:253-266). `Pruned` keeps the suffix after the cutoff:
the clock is not set back, so that the stamps are in order and the two are the
same.

### ProbeQueue

`Reserve` is `enqueuePlaybackCloudProbe` up to its unlock, `Send` the rest of it
(`select` on the channel, and the reservation given back if it is full),
`TakeProbe` and `EndProbe` a worker. `EndProbe` covers all ways in which
`runPlaybackCloudProbe` ends: each calls `finishPlaybackCloudProbe`, with or
without a back-off.

### Watcher

`file[p]` is the disk (external), `rowAt[p]` the data the row of a path was made
from. `settling` is the watcher's map `pending`, `due` what the debouncer has
taken off it, `updater` the path it works on and what it has read: `Process`
stats the path, then `RemovePath` and `DeleteRow` or `IngestPath` and `WriteRow`,
each one look at the disk or one statement. `ScanDecides` and `ScanApplies` are a
full scan, which collects writes and deletions and applies them later in
batches. A path whose file is a hard link of an indexed one may be skipped: the
code knows it by `file_id`, which a row has only if its file had several names.
Any failure of a stat counts as the file's absence, in `process` and in
`RemovePath`, so that a look that fails twice removes the row of a file that is
there; `IngestPath` may fail too. `excused` names the paths whose last update
went wrong for a reason other than a change during it: a failed look or write, a
lost event, a hard link, a late scan.

### PipelineIngest

`jobRow[k]` is the row of the job of key `k`, `cache[k]` its copy in the map
`jobs`: of both only the status and the state of the subtitles. `thread` has two
goroutines per job, `run` and `runCloudSubtitleEnhancement`; one that is not
"off" is in `executing` or `enhancing`. `caller[c]` is a request in `Start` with
the copy it has found, `recovery` and `found` are how far `Recover` is and what
it has read.

| code | actions |
|---|---|
| `Start` (`pipeline_ingest.go:120-206`) | `Start`, `FindJob`, `CreateJob`, `CacheFound`, `ScheduleJob`; `Abandon` when the client leaves |
| `updateJob` and what calls it (`pipeline_ingest_store.go:98-168`) | `ReadJob`, `PersistJob`, `StoreJob`; `RefuseJob` for a write the database refuses |
| `run`, `runJob` | the updates in the order of `Plan`, and between them `Advance`, `FailJob`, `BeginIngestScan`, `EndIngestScan`; at the end `CompleteJob` and `Return` |
| `runCloudSubtitleEnhancement` | `LookAtSubtitles`, `FetchSubtitles` and two updates |
| `Get` | `LoadJob` (a hit changes nothing) |
| `Recover` (`pipeline_ingest_store.go:14-58`) | `FindRunning`, `RecoverJob`, `FindCompleted`, `RecoverJob`, `Serve` |

A result of a stage that nobody reads is not in the record, but the update that
stores it is an update like any other: it writes the copy it has read. Reductions:
fewer than 100 jobs, so that `cacheJob` evicts none; reads succeed; a request
that differs from the one its key belongs to is refused and changes nothing; a
record is put into the map by Recover and its goroutine scheduled in one step. Jobs meet
only in the lock on their root's scan: `BeginIngestScan` may fail at any time
because a job that is not among `Keys` may hold it.

### Services and ImportServices

The six services share no variable, so that one run can check them all: `focus`
is chosen in the initial state and every step is of that service. The states are
the sum of the services', not the product. `ImportServices` does the same for the
import jobs, their slots and the ingest jobs, `Acquisition` for the import jobs and
the downloads. Each step of a composition is a step of the service in focus, and
the others rest: that a composition implements its parts follows from this form
alone and says nothing of the code (the lemmas `EachImplemented` and
`ImportsImplement`, which only carry the parts' theorems over). Nothing is claimed
of several services at once; they would have nothing to say about each other.

### SeasonLease

`ResourceImport` is shown to implement it under
`holder[s]` = the job of season `s` whose row has the reservation.

## 3. What TLC checks

| run | instance | properties | distinct states |
|---|---|---|---|
| `import_fair` | two follow jobs of one season, one client that creates, no faults, the pipeline ends tasks as completed, with warning, failed, or completed without media; MaxAuto 3, as in the code. Or three jobs of two users, three goroutines, two global places, one per user, stop at any time. Or one ingest job that asks for everything, two crashes, two refused writes. Fairness | `ReservationOwned`, `NoOrphanTask`, `BoundedAuto`, `AttemptGrows`, `SeasonEventuallyFree`, `FailureAnswered`; `SlotsAccounted`, `OneMonitorPerJob`, `SlotsProgress`; `EndedStays`, `IngestSettles`; `ImportTypesOK` | 31 thousand |
| `import_faults` | the same two jobs; create, retry, delete; departed client, lost reply, unknown reply, refusal, blocked source, one crash; MaxAuto 2 | `TypeOK`, `OneActive`, `ActiveReserved`, `FinalLeftByRetry` | 1.3 million |
| `import_cancel` | the same with create and cancel, refusals, one of the two jobs under a subscription | `OneReservation`, `SuccessIsReal`, `LeaseSpec` | 1.5 million |
| `acquisition` | one follow import, one ordinary one, one client that creates and may leave at every step, lost answers, tasks that fail or complete, one crash. Or two torrents, one tracked and with a completion time, and a queue of one place. Fairness | `AcceptedSettles`; `OnePlace`, `NotBeforeComplete`, `WatchedCompletion` | 145 thousand |
| `download_faults` | one such torrent, failing attempts, Delete, an unreachable qBittorrent, the setting switched, one verification, one restart; fairness | `TypeOK`, `AnnouncedOnce`, `CaughtUp` | 414 thousand |
| `services` | two tokens, one refresh, one session allowed, one retry; two libraries, two scanning goroutines; two media, two jobs, two at a time; one operation counted in two buckets of 1 per 2 s and 2 per 4 s, half seconds up to 5 s; three media, two probe workers, a queue of one; two paths, one file; fairness | `TypesOK`, `TokenNotLost`, `SessionLimit`, `ReplacedNotRevived`, `PendingSettles`; `ScanOwnsEntry`, `QueuedIsExpected`, `CancelEnds`; `TrackedRuns`, `IdleStops`; `QuotaHeld`; `ReservedOnce`, `ReservationEnds`; `IndexMatchesDisk` | 389 thousand |
| `import_cancel_stale` | create and cancel | `OneActive`, violated | |
| `import_retry_abort` | create and retry, a client that leaves | `RetryPossible`, violated | |
| `download_delete_stale` | two torrents, Delete | `DeletedStays`, violated | |
| `transcode_two_ffmpeg` | one medium, three jobs | `OneFFmpegPerMedia`, violated | |
| `token_logout` | two tokens, one refresh, one retry, logouts | `LoggedOutNotRevived`, violated | |
| `ingest_repeat` | one job that scans, one client at a time, requests repeated while the job runs | `CompletedKept`, violated | |

Bounds. Two jobs are enough for a season to be contested: the properties speak
of a job and of one other of its season, and a third would be a second
contender of the same kind. One client suffices in the large runs because the
monitors are threads of their own: with two jobs there are up to three callers.
In `acquisition` it is each import on its own that has to settle, and each has a
season of its own. `MaxAuto` is the code's constant 3 where the bound itself is the
question, and smaller elsewhere, where "may retry" and "may not retry any more"
both still occur. `MaxAttempt` stops manual retries of a row, `MaxCrashes` crashes; both
name bounds of the checking, not of the code. The download runs have a queue
of one place so that two torrents fill it (64 in the code; the proofs hold for
any); `MaxRestarts` and `MaxRechecks` bound what is outside of the service, and are 0
in `acquisition`: restarts, verifications and faults are in `download_faults`, and
`OnePlace` and `NotBeforeComplete` are proved for any of them. `CHECK_DEADLOCK FALSE` in the
import runs: once every job has been created and has settled the system is at
rest (the poller of the download runs never is). No symmetry is used, because most runs check temporal properties.

In `services`, two tokens are enough for one to be replaced, or evicted, by the
other; `MaxStores` is 1 (8 in the code), so that the retries end; two scanning
goroutines compete for an entry and for the slot while a third kind is
represented by either of them; two paths make a rename, and one file
a hard link or an overwritten path; three probes fill a queue of one with two
workers. `HlsJobs`, `Token`, `Scanners`, `LastSecond` bound the checking, not the
code: they are the goroutines, tokens and seconds of a behaviour. The proofs
hold for any of them. `CHECK_DEADLOCK FALSE` there because the tokens run out and
the clock stops.

No task of `import_fair` ends as blocked: the run of the subscription for its next
candidate is in `import_faults`, with safety properties only, since a run that
finds no candidate ends in silence, and then `FailureAnswered` promises nothing
before the subscription's own next run.
In `import_fair` one ingest job is enough: jobs meet only in the scan's lock, which
may be taken at any time. One client asks for it at a time, and not while it runs
(`Repeats` is FALSE); `ingest_repeat` shows what happens otherwise. `MaxRestarts`
and `MaxRefused` bound the surroundings.

Fairness (`FairSpec`). A goroutine that can run runs (`Step` of a request,
`Monitor` of a job: weak fairness of each thread as a whole); the pipeline works
on its tasks; a process that died is started again and goes through its list.
Nobody has to call, to go away or to crash. In `ImportSlots` taking a place is
strongly fair: Go queues the senders blocked on a channel in order of arrival,
so that each is served after finitely many others. Leaving `"poll"` is fair
because `SeasonEventuallyFree` and `AcceptedSettles` say that a watched import ends. In
`DownloadCompletion` the poller, the worker, a running Delete and the goroutines
of announcements run on (weak fairness); organizing a torrent is strongly fair
in its success, since `CaughtUp` is about attempts that fail some times, not for
ever. Neither qBittorrent nor a user has to do anything. In `PipelineIngest` a goroutine,
a request and the recovery run on: scans and downloads have time limits.

In `Services` the goroutines of stores run on, their timers included (the
retries are counted, so that the store ends); a cancelled scan runs on to its
next look at its context (nothing is assumed of one that nobody cancels, nor of
the slot); a watchdog's ticker ticks; senders and probe workers run on, since a
probe has a time limit of its own. Nobody has to log in, play, cancel or change a
file, and the debouncer is under no fairness: its property is an invariant.

Each property is accompanied by a *variant* of one definition (operators whose
comment begins with "Variant"), the mistake it exists to catch; with the variant
in place of the definition TLC finds the property violated.

### Disagreements with the code's own statements

1. `import_cancel_stale`: a poll that is answered before Cancel and applied after
   it revives the canceled row without its reservation
   (`resource_import.go:1221,1353`). Two tasks for one season can then be active,
   against `subscription_resource_import.go:109`.
2. `import_retry_abort`: Retry's clean-up runs on the context whose end made the
   call fail (`resource_import.go:1122`); the failed row keeps the reservation and
   every later Retry is refused, against the advice of
   `subscription_resource_import_failure.go:171`.
3. `download_delete_stale`: a round of the poller that read the list or the tasks
   before Delete overwrites the status "deleted" (`download_completion_state.go:180`);
   the torrent is in no later list, so the row stays "completed" or
   "downloading" and stands in the way of a new download of the title, against
   `download_delete_test.go:65`.
4. `transcode_two_ffmpeg`: `runFFmpeg` ends with deleting whatever job its medium has
   now (`transcoder_ffmpeg_probe.go:58`). A job stopped by hand is off the map at
   once; if the medium is played again before the killed ffmpeg's goroutine comes
   to that line, the new job loses its entry, goes on unseen, and the next request
   starts a second ffmpeg on the same files, against `transcoder.go:18`.
5. `ingest_repeat`: `Start` finds a job by its key and puts that copy into the map
   later (`pipeline_ingest.go:201`). If the job has completed in between, the map
   says "running" again: the subtitles' goroutine stores that in the row, or the
   job is run a second time, and a client that polls the completed job sees it
   run, against `pipeline_ingest_test.go:611`.
6. `token_logout`: a logout is `RevokeAll`, which updates rows
   (`token_svc.go:229-231`) and leaves the map of pending stores alone. A token
   whose store waits for its next attempt has no row yet: the attempt finds it
   still pending and writes it, and the session that was logged out can be
   refreshed, against `token_svc_pending.go:77-78`, which counts on a logout to
   remove the token from the map.
7. Without a run of its own: `token_svc.go:180-182` says that a token whose store
   is still under way is legitimate for the client and must not be judged
   invalid. `Refresh` looks into the table first (`RefreshFind`) and into the map
   of pending tokens second (`RefreshLookup`); a store that creates the row and
   leaves the map between the two is found in neither, and the valid token is
   refused. TLC finds this in `RefreshToken` when it is asked whether the token of
   a refused look-up is ever `Active`.

### Where properties do not extend

Explored with TLC and not contradicted by any text of the repository we know of,
therefore neither runs nor findings, but worth knowing:

- A follow client that leaves between the insertion of its row and the storing of
  the task id (`resource_import.go:891-898`, or any earlier step of the call: the
  clean-up writes at :830 and :842 run on the same dead context) abandons the row:
  queued, reserved, without a task id, and polled by nobody, it blocks its season
  until the next restart, when Recover asks for the task again by its key. The
  pipeline's task is canceled in the last of these cases only. `AcceptedSettles`
  names this case (`Abandoned`), shows that there is no other in which an import
  does not settle, and that after a restart the abandoned ones settle too.
- `ReservationOwned` fails with such a departure, and with a manual Retry: its `schedule` finds the monitor
  still registered although that has already seen the final row; the row stays
  unfinished and unwatched until the next restart. It also fails with crashes:
  Recover stores a final status without releasing (:977-981), and a crash inside
  Retry leaves the key on a final row that Recover does not list.
- `NoOrphanTask` fails with a lost answer to CreateImport, with a crash inside Retry
  and with DeleteFailed during Retry.
- `BoundedAuto` and `AttemptGrows` are of the automatic life of a job: a copy of
  the row read before a manual Retry, or by Cancel, takes the attempt back.
- A second Create with the same key whose client leaves before its row is stored
  cancels the task of the first (:878).
- An answer without a known status to a retry leaves the reservation on the
  failed row (:1148).
- A recent torrent may be organized a second time, one after the other: the poller
  reads that it is needed (`download_polling.go:67`) before the worker records
  that it was done, and looks at `organizeQueued` after the worker has left it.
- A torrent that finds the queue full, in the first round or when first seen, and
  whose completion is not recent or has no time, is remembered as complete and
  never queued, although the log says "will retry" (:157).
- Delete of a hash that is not in the list, while the list has one torrent, takes
  that torrent's name (`downloads.go:172`) and marks its task deleted if the hash is
  in no task's URL.
- An announcement whose goroutine a restart kills is never made.
- Refresh tokens. Besides the waiting stores of `ReplacedNotRevived` and of
  disagreement 6, a store past its look at the pending map
  (`token_svc_pending.go:79`), or in its first attempt, creates the row of a token
  that Refresh has replaced or a logout has missed: it is active again, though the
  look at the map is there to prevent just that. Two Refreshes of one token at once both succeed. A
  database that says "busy" at once, not after 750 ms, makes the login wait for
  all the retries (`token_svc_pending.go:36`).
- Cloud scans. A cancel between the look at a queued entry and the beginning of the
  scan (`scanner_cloud_jobs.go:137`) is overwritten and the scan runs. A "scan all"
  that runs out of time leaves entries "queued" that every later one skips; a
  scan of the single library, or a cancel, frees them.
- Transcodes. The watchdog may stop a job touched, or started, after its look
  (`transcoder_jobs.go:132`). An ffmpeg without an entry is counted by no limit and
  stopped by no StopAll.
- Rate limiter. Since an entry of the whole second `now - window` is forgotten, one
  request more than the quota fits into a window by up to a second;
  `QuotaHeld` allows for that second.
- Watcher. A hard link that was skipped gets no row when the indexed name goes,
  as nothing marks its path. A full scan may write the row of a file that has gone
  since, and prune that of one that has come back. A file that cannot be looked at
  for a moment (any error of `os.Stat`, `watcher.go:278`, `scanner_prune.go:17`)
  loses its row, until it changes again or a full scan finds it. In `services`
  there is one file, so that an overwrite by other data is not among its
  behaviours; the proof of `IndexFollowsDisk` is for any number.
- Probes. A file that changes while it is probed is refused a second probe until
  the first one ends.
- A monitor waits for its user's slot with a global slot in its hands, so that
  one user's waiting jobs delay another user's.
- Ingest jobs. A job whose failure the database, too, refuses to store stays
  "running" until a restart. A copy that a repeated Start
  (`pipeline_ingest.go:201`) puts into the map late can make Get answer
  "running", or a stale state of the subtitles, for a row that is settled. After a
  restart all running jobs of one root are scheduled at once and those that find
  another one scanning fail; a failed job is never run again under its key.

## 4. What is proved

`ResourceImportProofs` proves, for all jobs, seasons, requests, faults and bounds
(the assumptions are those of `ResourceImport`: jobs and requests are disjoint,
the follow and subscribed jobs are jobs, the bounds are naturals):

- `TypeCorrect`: `Spec => []TypeOK`. `TypeOK` is not inductive: actions use
  `row[th[t].job]`, so the strengthening `Typed` adds `Good`: a thread that is
  not idle is about a job, and one about to store, apply or resume holds an
  answer.
- `ReservationUnique`: `Spec => []OneReservation`. Every step changes the
  reservations in one of three ways, which `ResStep` states: not at all, by
  giving some back, or by taking one whose season is free. The lemmas for the
  actions prove `Typed' /\ ResStep` together; `OneReservation` follows from
  `ResStep` alone (`ReservationStep`).
- `LeaseImplemented`: `Spec => Lease!Spec`. `HolderFacts` turns a set of rows
  with at most one reservation per season into the function `Holder`; `LeaseStep`
  maps each case of `ResStep` to an acquire, a release or a stutter. It needs
  that a step releases at most one row, which `ResStep` records.

The properties about what threads carry with them rest on invariants of what a
thread has read. Each has one lemma per action, and each theorem restricts only
the operations and faults it names, as a hypothesis on `Ops` and `Faults`:

- `ActiveHolds`, `SeasonExclusive` and `FinalKept` (`ActiveReserved`, `OneActive`,
  `FinalLeftByRetry`), without Cancel, under every fault. `Owned` says who owns a
  row: a call that creates a follow job owns a queued, reserved row without a task;
  one that retries it owns a final row whose reservation it took back; two calls
  never own the same row unless it was deleted; a monitor writes only a row the
  pipeline has accepted and, once it has polled, one still unfinished. With Cancel
  it is false, which is the finding of `import_cancel_stale`.
- `SuccessesReal` (`SuccessIsReal`), unconditional. `Real` says that an answer
  under way that reports success is about a task that has ended in one; such a
  task is retried by nobody, so neither the answer nor the row can become false.
- `AttemptsBounded` and `AttemptsGrow` (`BoundedAuto`, `AttemptGrows`), without
  Cancel and manual Retry. `Counted` says that the attempt a thread carries to its write is
  the one in the row, or one more when the pipeline has accepted the retry.
- `ReservationsOwned` (`ReservationOwned`), if in addition nothing crashes, aborts
  or answers with an unknown status (`Undisturbed`). `Guard` says that every
  reservation is held by a call that owns the row or belongs to an unfinished row
  whose monitor runs, and that a monitor on its way out has seen a final row.
- `TasksRecorded` (`NoOrphanTask`), if in addition nothing is deleted and no answer
  is lost (`Uninterrupted`). `Tasks` says that an answer a thread carries
  is at most behind the task by the task's end: while the task works, so does the
  answer. Section 3 says how each of the excluded events breaks the property.

`ImportServicesProofs` first proves of the slots, for any number of jobs, users,
goroutines and any capacities, `SlotsTyped`, `NoSlotLost`, `OneGoroutine` and
`NeverBlocks` from one inductive invariant, `IInv`: the types, what a goroutine
is doing exactly when it has a job, the accounting and the uniqueness. The
accounting is on cardinalities of sets of goroutines, so that the lemmas add or
remove one goroutine from `InGlobal` or `InUser(u)` and cite `FS_AddElement` and
`FS_RemoveElement`. `NoCircularWait` follows from the accounting: while a channel is
full somebody has a place in it, and since the user's place is taken last, whoever has
one waits for nothing; whoever has a global place alone waits for such a goroutine, or
not at all. That is the safety core of `SlotsProgress`; that the goroutines do move is
the fairness of the run. What it proves of the ingest jobs is below.

`DownloadCompletionProofs` proves, for any torrents, any queue size and any
number of restarts and verifications, under every fault:

- `TypeCorrect`, with the strengthening `Busy`: a goroutine at work has a torrent.
- `NeverTwiceInHand`: `Spec => []OnePlace`. `PlaceInv` says the same without
  counting (two positions of the channel with the same torrent are one position),
  and that a Delete past its call to qBittorrent is about a torrent that is gone;
  that is what makes its early removal from `organizeQueued` harmless.
- `QueuedIsFinished`: `Spec => []NotBeforeComplete`. `FreshInv` relates the
  poller's old list to qBittorrent: what it shows as complete still has finished,
  because without verification no torrent goes back (`FinishedStays`).
- `NoSecondAnnouncement`: `Spec => []AnnouncedOnce`, from `AnnounceInv`: an
  announcement under way is the first one, and its mark is stored already.

The later modules are proved with their types in one invariant each, for any
value of their constants (bounds, limits, numbers of goroutines):

- `StreamProofs`, `TranscodesTracked`: `TrackedRuns` is inductive with the types:
  a job has one medium, so that what happens to one entry leaves the jobs of
  the others alone.
- `StreamProofs`, `ProbedOnce`: `ReservedOnce` is inductive with the types; each
  step moves one medium from one place to the next.
- `LibraryProofs`, `ScansOwnEntries` and `QueuedScansExpected`: one invariant; the
  first says that a scan under way holds its entry in both directions, the
  second needs in addition what a "scan all" still has in front of it.
- `LibraryProofs`, `IndexFollowsDisk`: the invariant says what the updater has read
  (`Informed`): either it is still so on the disk, or the path is marked again.
- `RefreshTokenProofs`, `TokensNotLost` and `SessionsLimited`: `StoreShape` says of each
  place of a store whether the row and the pending entry exist. The session limit
  needs a fact about finite sets, `FewNewest`: of distinct numbers at most n have
  fewer than n greater ones. It is the limit of a row and the older ones: rows
  written between the eviction's two statements only add to what it revokes.
- `RefreshTokenProofs`, `ReplacedStayOut`: `ReplacedNotRevived` has a box in a box.
  `Replaced` says that a token that was replaced is not pending and never will be,
  `GivenUp(t)` that it was replaced while its store waited, so that the store can only
  be dropped. Both are kept by every step; the temporal steps nest them.
- `SiteRateLimiterProofs`, `QuotaKept`: the invariant counts a bucket's requests from the
  end. `Counted` says that the k-th last request that was let through, if it is of the
  window, is matched by the k-th last stamp, which is no older; `Spaced` that any
  quota + 1 requests take longer than the window, less a second. That the stamps
  after a cutoff are a suffix of the stamps, of that length, is `DownwardClosed`: a
  bounded set of positive numbers with all smaller ones is an interval, from the
  well-foundedness of the naturals, since an induction is out of reach.

And of the ingest jobs, in `ImportServicesProofs`:

- `EndedJobsStay`: `IngestSpec => EndedStays`,
  assuming `~Repeats`, without which `CompletedKept` is violated. `IngestInv` says, for
  each place where a copy of the record is held, how it may differ from the row:
  the map may still say "running" for a row that has ended, but an end in it is the
  row's (`CacheFits`); run writes only while row and map say "running" (`RunFits`),
  the subtitles' goroutine only when both say "completed" (`EnhanceFits`); a request
  is alone with its key and finds a job that has ended, or none (`CallerFits`); what
  Recover has read still is so, and the goroutine it is about to schedule is off
  (`FoundFits`). Since a step is about one job, each lemma is, too (`OneKey`).

- `IngestOnPlan`: `IngestSpec => [](IngestTypeOK /\ InPlaces)`, without any
  assumption. The types need more than the types: that an update changes a record
  needs that a goroutine at work has a copy in the map; that the next stage is one
  needs that the goroutine is at a stage of its own job's plan (`InPlaces`).
- `NoJobForgotten` and `RestIsTheEnd`: what `IngestSettles` rests on, as a safety
  property, assuming `~Repeats`. Until the database refuses a write, a running row has
  its goroutine at work, or the request that is about to schedule it, or Recover; a
  completed row whose subtitles have not settled has the goroutine of the
  subtitles, or run on its last steps, or Recover. So, when nothing runs and nobody asks,
  every accepted job has ended and its subtitles have settled. The invariant, `Held`,
  adds to the two before it what the copies say of the subtitles: a copy that
  says "settled" is nowhere ahead of the row, unless a goroutine is past
  its look and will settle the row (`RowSettles`); a completed copy has asked for
  subtitles (`Sound`), because "media" is on every plan before the end (`PlanOrdered`,
  a fact about concatenations of short sequences). TLC refuted a first version,
  which said that the subtitles' goroutine is off until run hands the job over to
  it: Recover may schedule it (`pipeline_ingest_store.go:45`) while the goroutine of
  `run` it has scheduled before is between the row and the map.

The compositions, in `ServicesProofs` and `ImportServicesProofs`: `ServicesTyped` and
`ImportsTyped` are the type invariants of the runs `services` and `import_fair`;
`ServicesKeepPromises`, `ImportsKeepPromises` and `ImportsKeepOwnership` state for the
specifications those runs check what is proved of the parts, the last with the
conditions of `import_fair`: `Uninterrupted` (no cancel, no manual retry, no
crash, no lost answer), `1 <= MaxAuto`, `~Repeats`. The proofs about the code are
those of the parts; the step from a part to the composition is structural.

Every invariant and every action property of a passing run is stated by a
theorem. Only model-checked are the properties under fairness
(`SeasonEventuallyFree`, `FailureAnswered`, `AcceptedSettles`, `SlotsProgress`,
`IngestSettles`, `CaughtUp`, `WatchedCompletion`, `PendingSettles`, `CancelEnds`,
`IdleStops`, `ReservationEnds`), which are out of the prover's reach, and the
violations.

## 5. Not modelled

Searches and search sessions, the checks of the periodic sweep before it calls
Create, `stopFailedResourceImportSubscription` (the sweep's own late stop),
completion notices, PurgeHistory, the validation of upgrades, progress and
stages: they read the state above or change what no property looks at. Of the
modelled services: the limiter kept in memory and the queue of local
probes (the same protocols with less), scans of single cloud roots, directories
as paths of the watcher, media a user has hidden, WaitReady and the files ffmpeg
writes, the clean-up of expired tokens, which nothing calls.

The components of section 1 without a module are listed with their reason in
`PROJECT.json`. Most of the repository's lines are theirs and are not
control: parsers and clients of some forty remote services, scrapers, name
matching, HTTP handlers that decode, call and encode, SQL queries, and file
operations. A model of them would repeat the code.

## 6. Plan

1. `DownloadCompletion`, further: adding a hash again after Delete, tasks shared by
   torrents with similar titles, and an abstract specification (a torrent in hand
   is a lock on its payload) it is shown to implement.
2. An abstract specification of the refresh tokens (a token is a one-time right) and
   the steps that break it today.
3. The subscription loop's seen list and `RunNow`; the organizer's transfers.
4. Proofs: the safety cores of further liveness properties, as `NoJobForgotten` is that
   of `IngestSettles` and `NoCircularWait` that of `SlotsProgress`: a finished download
   is in hand or will be looked at again (`CaughtUp`); the refinements of 1 and 2.
