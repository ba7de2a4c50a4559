------------------------------ MODULE Transcoder ------------------------------
(***************************************************************************)
(* The on-demand HLS transcodes: transcoder.go, transcoder_jobs.go and     *)
(* runFFmpeg of transcoder_ffmpeg_probe.go in internal/service.            *)
(*                                                                         *)
(* A request for a medium's stream starts a job unless one is tracked for  *)
(* the medium.  Two goroutines serve a job: one runs ffmpeg and takes the  *)
(* medium off the map when it has ended, the other stops a job that nobody *)
(* has used for a while.  They share, under a mutex, the map from media to *)
(* jobs; a stopped job is off the map before its ffmpeg has ended.         *)
(***************************************************************************)
EXTENDS Naturals, FiniteSets

CONSTANTS
  Media,
  HlsJobs,        \* bound: jobs that have a goroutine left at one time
  NoHls, NoMedium,
  MaxConcurrent   \* maxConcurrent()

ASSUME HlsAssumption ==
  /\ NoHls \notin HlsJobs /\ NoMedium \notin Media /\ IsFiniteSet(Media)
  /\ MaxConcurrent \in Nat \ {0}

VARIABLES
  hlsJobs,    \* the map jobs
  hlsMedium,  \* mediaID of each job
  ffmpeg,     \* where the goroutine runFFmpeg of a job is
  watchdog,   \* where its goroutine monitorIdle is
  cancelled,  \* the jobs whose context is cancelled
  idle        \* the jobs whose lastAccess is idleTimeout() or more ago

HlsVars == <<hlsJobs, hlsMedium, ffmpeg, watchdog, cancelled, idle>>

Tracked == {m \in Media : hlsJobs[m] # NoHls}

HlsTypeOK ==
  /\ hlsJobs \in [Media -> HlsJobs \union {NoHls}]
  /\ hlsMedium \in [HlsJobs -> Media \union {NoMedium}]
  /\ ffmpeg \in [HlsJobs -> {"none", "start", "running", "ended"}]
  /\ watchdog \in [HlsJobs -> {"none", "watch", "stop"}]
  /\ cancelled \subseteq HlsJobs
  /\ idle \subseteq HlsJobs

HlsInit ==
  /\ hlsJobs = [m \in Media |-> NoHls]
  /\ hlsMedium = [j \in HlsJobs |-> NoMedium]
  /\ ffmpeg = [j \in HlsJobs |-> "none"]
  /\ watchdog = [j \in HlsJobs |-> "none"]
  /\ cancelled = {} /\ idle = {}

-----------------------------------------------------------------------------
(* The streaming handlers *)

EnsureJob(m, j) ==
  /\ ffmpeg[j] = "none" /\ watchdog[j] = "none"
  /\ m \notin Tracked /\ Cardinality(Tracked) < MaxConcurrent
  /\ hlsJobs' = [hlsJobs EXCEPT ![m] = j]
  /\ hlsMedium' = [hlsMedium EXCEPT ![j] = m]
  /\ ffmpeg' = [ffmpeg EXCEPT ![j] = "start"]
  /\ watchdog' = [watchdog EXCEPT ![j] = "watch"]
  /\ cancelled' = cancelled \ {j}
  /\ idle' = idle \ {j}

(* A request for the playlist or a segment. *)
TouchJob(m) ==
  /\ m \in Tracked
  /\ idle' = idle \ {hlsJobs[m]}
  /\ UNCHANGED <<hlsJobs, hlsMedium, ffmpeg, watchdog, cancelled>>

TimePasses(m) ==
  /\ m \in Tracked
  /\ idle' = idle \union {hlsJobs[m]}
  /\ UNCHANGED <<hlsJobs, hlsMedium, ffmpeg, watchdog, cancelled>>

(* What StopJob does under the mutex. *)
Stop(S) ==
  /\ cancelled' = cancelled \union {hlsJobs[m] : m \in S \intersect Tracked}
  /\ hlsJobs' = [m \in Media |-> IF m \in S THEN NoHls ELSE hlsJobs[m]]

StopJob(m) == Stop({m}) /\ UNCHANGED <<hlsMedium, ffmpeg, watchdog, idle>>

StopAll == Stop(Media) /\ UNCHANGED <<hlsMedium, ffmpeg, watchdog, idle>>

-----------------------------------------------------------------------------
(* runFFmpeg *)

(* exec.CommandContext does not start a process for a cancelled context. *)
StartFFmpeg(j) ==
  /\ ffmpeg[j] = "start"
  /\ \/ /\ j \notin cancelled
        /\ ffmpeg' = [ffmpeg EXCEPT ![j] = "running"]
     \/ ffmpeg' = [ffmpeg EXCEPT ![j] = "ended"]
  /\ UNCHANGED <<hlsJobs, hlsMedium, watchdog, cancelled, idle>>

(* At the end of the medium, after an error, or killed. *)
FFmpegExits(j) ==
  /\ ffmpeg[j] = "running"
  /\ ffmpeg' = [ffmpeg EXCEPT ![j] = "ended"]
  /\ UNCHANGED <<hlsJobs, hlsMedium, watchdog, cancelled, idle>>

(* Variant: the ended job leaves its entry behind. *)
KeepEntry(j) ==
  /\ ffmpeg[j] = "ended"
  /\ ffmpeg' = [ffmpeg EXCEPT ![j] = "none"]
  /\ UNCHANGED <<hlsJobs, hlsMedium, watchdog, cancelled, idle>>

(* Whichever job the medium has now, its entry goes. *)
DropEntry(j) ==
  /\ ffmpeg[j] = "ended"
  /\ ffmpeg' = [ffmpeg EXCEPT ![j] = "none"]
  /\ hlsJobs' = [hlsJobs EXCEPT ![hlsMedium[j]] = NoHls]
  /\ UNCHANGED <<hlsMedium, watchdog, cancelled, idle>>

-----------------------------------------------------------------------------
(* monitorIdle *)

(* Variant: the watchdog looks only once. *)
WatchOnce(j) ==
  /\ watchdog[j] = "watch"
  /\ \/ /\ j \in cancelled \/ hlsMedium[j] \notin Tracked \/ hlsJobs[hlsMedium[j]] \notin idle
        /\ watchdog' = [watchdog EXCEPT ![j] = "none"]
     \/ /\ hlsMedium[j] \in Tracked /\ hlsJobs[hlsMedium[j]] \in idle
        /\ watchdog' = [watchdog EXCEPT ![j] = "stop"]
  /\ UNCHANGED <<hlsJobs, hlsMedium, ffmpeg, cancelled, idle>>

(* A tick; it looks at the job the medium has now. *)
Watch(j) ==
  /\ watchdog[j] = "watch"
  /\ \/ /\ j \in cancelled \/ hlsMedium[j] \notin Tracked
        /\ watchdog' = [watchdog EXCEPT ![j] = "none"]
     \/ /\ hlsMedium[j] \in Tracked /\ hlsJobs[hlsMedium[j]] \in idle
        /\ watchdog' = [watchdog EXCEPT ![j] = "stop"]
  /\ UNCHANGED <<hlsJobs, hlsMedium, ffmpeg, cancelled, idle>>

(* The mutex was released in between. *)
WatchStops(j) ==
  /\ watchdog[j] = "stop"
  /\ watchdog' = [watchdog EXCEPT ![j] = "none"]
  /\ Stop({hlsMedium[j]})
  /\ UNCHANGED <<hlsMedium, ffmpeg, idle>>

-----------------------------------------------------------------------------
HlsNext ==
  \/ \E m \in Media : StopJob(m) \/ TouchJob(m) \/ TimePasses(m) \/ \E j \in HlsJobs : EnsureJob(m, j)
  \/ StopAll
  \/ \E j \in HlsJobs :
       \/ StartFFmpeg(j) \/ FFmpegExits(j) \/ DropEntry(j)
       \/ Watch(j) \/ WatchStops(j)

HlsSpec == HlsInit /\ [][HlsNext]_HlsVars

-----------------------------------------------------------------------------
(* A tracked job is one that runs: it is the medium's own, its goroutine   *)
(* has not ended, nobody has cancelled it, and its watchdog still looks.   *)
(* An entry without them would answer "busy" for ever (EnsureJob counts    *)
(* entries) or transcode for nobody to the end of the medium.              *)
TrackedRuns ==
  \A m \in Tracked : LET j == hlsJobs[m] IN
    /\ hlsMedium[j] = m
    /\ ffmpeg[j] # "none" /\ watchdog[j] # "none"
    /\ j \notin cancelled

(* A transcode that nobody uses any more does not stay tracked: its        *)
(* watchdog stops it, or a player comes back.                              *)
IdleStops == \A m \in Media : []<>(m \notin Tracked \/ hlsJobs[m] \notin idle)

(* transcoder.go:18, "Each Media has at most one active ffmpeg job": no    *)
(* two ffmpeg processes that nobody has cancelled write one medium's       *)
(* segments.                                                               *)
OneFFmpegPerMedia ==
  \A i, j \in HlsJobs :
    /\ {ffmpeg[i], ffmpeg[j]} = {"running"}
    /\ {i, j} \intersect cancelled = {}
    /\ hlsMedium[i] = hlsMedium[j]
    => i = j
=============================================================================
