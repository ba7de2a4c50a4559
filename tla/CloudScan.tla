------------------------------- MODULE CloudScan -------------------------------
(***************************************************************************)
(* The scans of cloud libraries: scanner_cloud_jobs.go,                    *)
(* scanner_cloud_status.go and scanner_cloud_entry.go, with the job        *)
(* cloud_sync of scheduler_runner.go and scheduler_cloud.go that also      *)
(* starts them, all in internal/service.                                   *)
(*                                                                         *)
(* A scan runs on a goroutine: one started for a single library, one that  *)
(* works through the libraries a "scan all" has queued, or the scheduler's *)
(* job.  The goroutines share, under a mutex, one status entry per library *)
(* and the single slot that lets one scan at a time list a provider.       *)
(* Cancelling acts on the entries.                                         *)
(***************************************************************************)
EXTENDS FiniteSets

CONSTANTS
  Libs,       \* the enabled cloud libraries
  Scanners,   \* bound: goroutines that scan at one time
  NoScanner, NoLib

ASSUME ScanAssumption == NoScanner \notin Scanners /\ NoLib \notin Libs

VARIABLES
  entry,      \* state of each library's entry in cloudScans
  holder,     \* whose cancel function the entry holds
  slot,       \* the scan in the channel cloudSlots
  scanner,    \* the goroutines
  syncing,    \* running of the scheduler's job cloud_sync
  forsaken    \* history: the queued libraries that a "scan all" has given up

ScanVars == <<entry, holder, slot, scanner, syncing, forsaken>>

ScannerIdle ==
  [pc |-> "idle", kind |-> "single", lib |-> NoLib, todo |-> {}, rest |-> {},
   late |-> FALSE, stop |-> FALSE]

ScanTypeOK ==
  /\ entry \in [Libs -> {"none", "queued", "running", "canceling", "canceled", "finished", "error"}]
  /\ holder \in [Libs -> Scanners \union {NoScanner}]
  /\ slot \in Scanners \union {NoScanner}
  /\ scanner \in [Scanners ->
       [pc : {"idle", "queueing", "next", "begin", "wait", "scan", "release"},
        kind : {"single", "all", "job"},
        lib : Libs \union {NoLib},
        todo : SUBSET Libs,    \* the libraries "scan all" has not looked at
        rest : SUBSET Libs,    \* the libraries still to be scanned
        late : BOOLEAN,        \* the time of the whole goroutine is over
        stop : BOOLEAN]]       \* the context of this scan is cancelled
  /\ syncing \in BOOLEAN
  /\ forsaken \subseteq Libs

ScanInit ==
  /\ entry = [l \in Libs |-> "none"]
  /\ holder = [l \in Libs |-> NoScanner]
  /\ slot = NoScanner
  /\ scanner = [r \in Scanners |-> ScannerIdle]
  /\ syncing = FALSE
  /\ forsaken = {}

(* cloudScanActive, cloudScanBlocksBegin *)
ScanActive(s)  == s \in {"queued", "running", "canceling"}
BlocksBegin(s) == s \in {"running", "canceling"}

ContextDone(r) == scanner[r].late \/ scanner[r].stop

-----------------------------------------------------------------------------
(* Requests and the scheduler *)

StartCloudLibraryScan(r, l) ==
  /\ scanner[r].pc = "idle" /\ ~BlocksBegin(entry[l])
  /\ scanner' = [scanner EXCEPT ![r] = [ScannerIdle EXCEPT !.pc = "begin", !.lib = l]]
  /\ UNCHANGED <<entry, holder, slot, syncing, forsaken>>

StartAllCloudLibraryScans(r) ==
  /\ scanner[r].pc = "idle"
  /\ scanner' = [scanner EXCEPT ![r] = [ScannerIdle EXCEPT !.pc = "queueing", !.kind = "all", !.todo = Libs]]
  /\ UNCHANGED <<entry, holder, slot, syncing, forsaken>>

(* One library at a time: the mutex is taken for each. *)
QueueCloudLibraryScan(r, l) ==
  /\ l \in scanner[r].todo
  /\ IF ScanActive(entry[l])
     THEN /\ scanner' = [scanner EXCEPT ![r].todo = @ \ {l}]
          /\ UNCHANGED <<entry, holder, forsaken>>
     ELSE /\ scanner' = [scanner EXCEPT ![r].todo = @ \ {l}, ![r].rest = @ \union {l}]
          /\ entry' = [entry EXCEPT ![l] = "queued"]
          /\ holder' = [holder EXCEPT ![l] = NoScanner]
          /\ forsaken' = forsaken \ {l}
  /\ UNCHANGED <<slot, syncing>>

(* beginRun, and the list of the libraries *)
BeginCloudSync(r) ==
  /\ scanner[r].pc = "idle" /\ ~syncing
  /\ syncing' = TRUE
  /\ scanner' = [scanner EXCEPT ![r] = [ScannerIdle EXCEPT !.pc = "next", !.kind = "job", !.rest = Libs]]
  /\ UNCHANGED <<entry, holder, slot, forsaken>>

(* Variant: a scan under way is marked canceled at once. *)
CancelMarkedAtOnce(S) ==
  LET hit == {l \in S : ScanActive(entry[l])} IN
  /\ entry' = [l \in Libs |-> IF l \in hit THEN "canceled" ELSE entry[l]]
  /\ scanner' = [r \in Scanners |->
       IF \E l \in hit : holder[l] = r THEN [scanner[r] EXCEPT !.stop = TRUE] ELSE scanner[r]]
  /\ UNCHANGED <<holder, slot, syncing, forsaken>>

(* CancelCloudScan, CancelAllCloudScans and CancelCloudScansForProvider,   *)
(* for the entries of one library, of all, or of those of a provider.      *)
CancelCloudScans(S) ==
  LET hit == {l \in S : ScanActive(entry[l])} IN
  /\ entry' = [l \in Libs |-> IF l \notin hit THEN entry[l]
                              ELSE IF holder[l] = NoScanner THEN "canceled" ELSE "canceling"]
  /\ scanner' = [r \in Scanners |->
       IF \E l \in hit : holder[l] = r THEN [scanner[r] EXCEPT !.stop = TRUE] ELSE scanner[r]]
  /\ UNCHANGED <<holder, slot, syncing, forsaken>>

(* cloudScanContext; the scheduler's job has no time limit. *)
TimeIsOver(r) ==
  /\ scanner[r].pc \notin {"idle", "queueing"} /\ scanner[r].kind # "job"
  /\ scanner' = [scanner EXCEPT ![r].late = TRUE]
  /\ UNCHANGED <<entry, holder, slot, syncing, forsaken>>

-----------------------------------------------------------------------------
(* The goroutines.  runQueuedCloudLibraryScans looks at its context and at *)
(* the entry before each library, the scheduler's job at neither.          *)

(* Variant: a canceled library ends the whole walk. *)
NextOrStop(r, l) ==
  /\ scanner[r].pc \in {"queueing", "next"} /\ scanner[r].todo = {} /\ l \in scanner[r].rest
  /\ ~(scanner[r].kind = "all" /\ scanner[r].late)
  /\ IF scanner[r].kind = "all" /\ entry[l] = "canceled"
     THEN scanner' = [scanner EXCEPT ![r] = ScannerIdle]
     ELSE scanner' = [scanner EXCEPT ![r].pc = "begin", ![r].rest = @ \ {l}, ![r].lib = l]
  /\ UNCHANGED <<entry, holder, slot, syncing, forsaken>>

NextLibrary(r, l) ==
  /\ scanner[r].pc \in {"queueing", "next"} /\ scanner[r].todo = {} /\ l \in scanner[r].rest
  /\ ~(scanner[r].kind = "all" /\ scanner[r].late)
  /\ IF scanner[r].kind = "all" /\ entry[l] = "canceled"
     THEN scanner' = [scanner EXCEPT ![r].pc = "next", ![r].rest = @ \ {l}]
     ELSE scanner' = [scanner EXCEPT ![r].pc = "begin", ![r].rest = @ \ {l}, ![r].lib = l]
  /\ UNCHANGED <<entry, holder, slot, syncing, forsaken>>

EndScanner(r) ==
  /\ scanner[r].pc \in {"queueing", "next"} /\ scanner[r].todo = {}
  /\ scanner[r].rest = {} \/ (scanner[r].kind = "all" /\ scanner[r].late)
  /\ scanner' = [scanner EXCEPT ![r] = ScannerIdle]
  /\ syncing' = (syncing /\ scanner[r].kind # "job")
  /\ forsaken' = forsaken \union scanner[r].rest
  /\ UNCHANGED <<entry, holder, slot>>

(* On to the next library; a goroutine that has one ends. *)
ToNext(r) ==
  [scanner EXCEPT ![r] = IF @.kind = "single" THEN ScannerIdle
                         ELSE [@ EXCEPT !.pc = "next", !.lib = NoLib, !.stop = FALSE]]

(* ScanLibrary ends before or at beginCloudScan: another scan of the       *)
(* library is under way, the time is over, or the library could not be     *)
(* read or is not to be scanned any more.  Its entry stays as it is.       *)
RefuseCloudScan(r) ==
  /\ scanner[r].pc = "begin"
  /\ scanner' = ToNext(r)
  /\ forsaken' = IF scanner[r].kind = "all" /\ ~BlocksBegin(entry[scanner[r].lib])
                 THEN forsaken \union {scanner[r].lib} ELSE forsaken
  /\ UNCHANGED <<entry, holder, slot, syncing>>

BeginCloudScan(r) ==
  LET l == scanner[r].lib IN
  /\ scanner[r].pc = "begin" /\ ~scanner[r].late /\ ~BlocksBegin(entry[l])
  /\ scanner' = [scanner EXCEPT ![r].pc = "wait"]
  /\ entry' = [entry EXCEPT ![l] = "running"]
  /\ holder' = [holder EXCEPT ![l] = r]
  /\ UNCHANGED <<slot, syncing, forsaken>>

AcquireCloudScanSlot(r) ==
  /\ scanner[r].pc = "wait" /\ slot = NoScanner
  /\ slot' = r
  /\ scanner' = [scanner EXCEPT ![r].pc = "scan"]
  /\ UNCHANGED <<entry, holder, syncing, forsaken>>

(* finishCloudScan, with the state for the scan's error. *)
FinishCloudScan(l, state) ==
  /\ entry' = [entry EXCEPT ![l] = state]
  /\ holder' = [holder EXCEPT ![l] = NoScanner]
  /\ UNCHANGED <<syncing, forsaken>>

(* Variant: nothing interrupts the wait for the slot. *)
WaitOn(r) ==
  /\ scanner[r].pc = "wait" /\ ContextDone(r) /\ slot = NoScanner
  /\ \/ scanner[r].stop /\ FinishCloudScan(scanner[r].lib, "canceled")
     \/ scanner[r].late /\ FinishCloudScan(scanner[r].lib, "error")
  /\ scanner' = ToNext(r)
  /\ UNCHANGED slot

(* The context ends the wait for the slot. *)
GiveUpSlot(r) ==
  /\ scanner[r].pc = "wait" /\ ContextDone(r)
  /\ \/ scanner[r].stop /\ FinishCloudScan(scanner[r].lib, "canceled")
     \/ scanner[r].late /\ FinishCloudScan(scanner[r].lib, "error")
  /\ scanner' = ToNext(r)
  /\ UNCHANGED slot

(* A cancelled scan may fail with an error of its own, or be done before   *)
(* it looks at its context.                                                *)
EndCloudScan(r) ==
  /\ scanner[r].pc = "scan"
  /\ \E state \in {"finished", "error"} \union (IF scanner[r].stop THEN {"canceled"} ELSE {}) :
       FinishCloudScan(scanner[r].lib, state)
  /\ scanner' = [scanner EXCEPT ![r].pc = "release"]
  /\ UNCHANGED slot

ReleaseCloudScanSlot(r) ==
  /\ scanner[r].pc = "release"
  /\ slot' = NoScanner
  /\ scanner' = ToNext(r)
  /\ UNCHANGED <<entry, holder, syncing, forsaken>>

-----------------------------------------------------------------------------
ScanNext ==
  \/ \E S \in SUBSET Libs : CancelCloudScans(S)
  \/ \E r \in Scanners :
       \/ StartAllCloudLibraryScans(r) \/ BeginCloudSync(r) \/ TimeIsOver(r)
       \/ EndScanner(r) \/ RefuseCloudScan(r) \/ BeginCloudScan(r)
       \/ AcquireCloudScanSlot(r) \/ GiveUpSlot(r) \/ EndCloudScan(r) \/ ReleaseCloudScanSlot(r)
       \/ \E l \in Libs : StartCloudLibraryScan(r, l) \/ QueueCloudLibraryScan(r, l) \/ NextLibrary(r, l)

ScanSpec == ScanInit /\ [][ScanNext]_ScanVars

(* A cancelled scan runs on to the next look at its context; nothing is    *)
(* assumed about one that nobody cancels.                                  *)
StopsWhenCancelled(r) == ContextDone(r) /\ (GiveUpSlot(r) \/ EndCloudScan(r))

-----------------------------------------------------------------------------
InProgress(r) == scanner[r].pc \in {"wait", "scan"}

(* A scan under way owns its library's entry until it has finished, and an *)
(* entry that says so has a scan under way: the end of a scan is never     *)
(* written into another scan's entry, a cancel never reaches another       *)
(* scan's context, and no library is scanned twice at a time.              *)
ScanOwnsEntry ==
  /\ \A r \in Scanners : InProgress(r) =>
       scanner[r].lib \in Libs /\ BlocksBegin(entry[scanner[r].lib]) /\ holder[scanner[r].lib] = r
  /\ \A l \in Libs : BlocksBegin(entry[l]) =>
       holder[l] # NoScanner /\ InProgress(holder[l]) /\ scanner[holder[l]].lib = l

(* Unless a "scan all" has given it up, a library marked queued is ahead   *)
(* of a goroutine that will come to it: a later "scan all" takes it for    *)
(* queued and leaves it out, so nobody else would.                         *)
QueuedIsExpected ==
  \A l \in Libs \ forsaken : entry[l] = "queued" =>
    \E r \in Scanners : l \in scanner[r].rest \/ (scanner[r].pc = "begin" /\ scanner[r].lib = l)

(* A cancelled scan ends, though it may be waiting for a slot whose scan   *)
(* never ends.                                                             *)
CancelEnds == \A l \in Libs : entry[l] = "canceling" ~> entry[l] # "canceling"
=============================================================================
