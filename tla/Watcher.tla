-------------------------------- MODULE Watcher --------------------------------
(***************************************************************************)
(* The index of a local library: watcher.go, IngestPath of scanner_scan.go *)
(* with scanner_local_ingest.go, and scanner_prune.go, internal/service.   *)
(*                                                                         *)
(* Changes in watched directories mark their paths as pending.  Every few  *)
(* seconds the debouncer takes the paths that have settled off the map,    *)
(* under its mutex, and then brings the rows of each up to date from what  *)
(* it finds on the disk, while the files go on changing and a full scan    *)
(* may write and prune the same rows.                                      *)
(***************************************************************************)
EXTENDS FiniteSets

CONSTANTS
  Paths,       \* of video files in a library
  Inodes,      \* the files' data
  NoInode, NoPath

ASSUME WatchAssumption == NoInode \notin Inodes /\ NoPath \notin Paths

VARIABLES
  file,      \* the disk: the inode at each path
  watched,   \* the paths whose directory is watched
  settling,  \* the map pending of the watcher
  due,       \* what the debouncer has taken and not come to yet
  updater,   \* the path it updates, and how far it is
  rowAt,     \* the data each path's row was made from
  scanned,   \* a write or a deletion that a full scan has decided on
  excused    \* history: the paths whose last update went wrong; see below

WatchVars == <<file, watched, settling, due, updater, rowAt, scanned, excused>>

Data == Inodes \union {NoInode}
UpdaterIdle == [pc |-> "idle", path |-> NoPath, id |-> NoInode]
NothingScanned == [what |-> "none", path |-> NoPath, id |-> NoInode]

WatchTypeOK ==
  /\ file \in [Paths -> Data] /\ rowAt \in [Paths -> Data]
  /\ watched \subseteq Paths /\ settling \subseteq Paths
  /\ due \subseteq Paths /\ excused \subseteq Paths
  /\ updater \in [pc : {"idle", "remove", "delete", "ingest", "write"},
                  path : Paths \union {NoPath}, id : Data]
  /\ scanned \in [what : {"none", "write", "prune"}, path : Paths \union {NoPath}, id : Data]

(* The start, after a full scan; a library may be partly watched. *)
WatchInit ==
  /\ file \in [Paths -> Data] /\ rowAt = file
  /\ \A p, q \in Paths : file[p] = file[q] => p = q \/ file[p] = NoInode
  /\ watched \in SUBSET Paths
  /\ settling = {} /\ due = {} /\ excused = {}
  /\ updater = UpdaterIdle /\ scanned = NothingScanned

-----------------------------------------------------------------------------
(* The disk and loop.  An event may be held up on its way, which is like   *)
(* settling for longer; it is lost when the system's queue overflows or    *)
(* the directory is not watched yet.                                       *)

(* Variant: an event for the path under way is taken for its echo. *)
MarkOthers(S) == settling' = settling \union (S \ {updater.path})

Mark(S) == settling' = settling \union S

Changed(S) ==
  \E lost \in SUBSET S :
    /\ S \ lost \subseteq watched
    /\ Mark(S \ lost)
    /\ excused' = excused \union lost

(* A new file, another name for an existing one, or one written over. *)
CreateFile(p, i) ==
  /\ file[p] # i
  /\ file' = [file EXCEPT ![p] = i]
  /\ Changed({p})
  /\ UNCHANGED <<watched, due, updater, rowAt, scanned>>

DeleteFile(p) ==
  /\ file[p] # NoInode
  /\ file' = [file EXCEPT ![p] = NoInode]
  /\ Changed({p})
  /\ UNCHANGED <<watched, due, updater, rowAt, scanned>>

RenameFile(p, q) ==
  /\ p # q /\ file[p] # NoInode
  /\ file' = [file EXCEPT ![q] = file[p], ![p] = NoInode]
  /\ Changed({p, q})
  /\ UNCHANGED <<watched, due, updater, rowAt, scanned>>

(* watchDirRecursive for a new directory, or Refresh for the directories   *)
(* of the enabled libraries.  The files that are in a directory already    *)
(* raise no event.                                                         *)
Refresh(S) ==
  /\ watched # S
  /\ watched' = S
  /\ UNCHANGED <<file, settling, due, updater, rowAt, scanned, excused>>

-----------------------------------------------------------------------------
(* The debouncer and process *)

(* S is what has not changed for five seconds. *)
TakeDue(S) ==
  /\ updater.pc = "idle" /\ due = {} /\ S # {} /\ S \subseteq settling
  /\ due' = S
  /\ settling' = settling \ S
  /\ UNCHANGED <<file, watched, updater, rowAt, scanned, excused>>

(* A look at a file may fail although the file is there; process and      *)
(* RemovePath take any failure for its absence.                           *)
Process(p) ==
  /\ updater.pc = "idle" /\ p \in due
  /\ due' = due \ {p}
  /\ \/ /\ file[p] # NoInode
        /\ updater' = [pc |-> "ingest", path |-> p, id |-> NoInode]
        /\ excused' = excused \ {p}
     \/ /\ updater' = [pc |-> "remove", path |-> p, id |-> NoInode]
        /\ excused' = IF file[p] = NoInode THEN excused \ {p} ELSE excused \union {p}
  /\ UNCHANGED <<file, watched, settling, rowAt, scanned>>

(* RemovePath looks again. *)
RemovePath ==
  /\ updater.pc = "remove"
  /\ \/ /\ file[updater.path] # NoInode
        /\ updater' = UpdaterIdle
        /\ UNCHANGED excused
     \/ /\ updater' = [updater EXCEPT !.pc = "delete"]
        /\ excused' = IF file[updater.path] = NoInode THEN excused ELSE excused \union {updater.path}
  /\ UNCHANGED <<file, watched, settling, due, rowAt, scanned>>

DeleteRow ==
  /\ updater.pc = "delete"
  /\ \/ rowAt' = [rowAt EXCEPT ![updater.path] = NoInode] /\ UNCHANGED excused
     \/ rowAt' = rowAt /\ excused' = excused \union {updater.path}
  /\ updater' = UpdaterIdle
  /\ UNCHANGED <<file, watched, settling, due, scanned>>

(* duplicateByFileID: the data is indexed under a path that still exists.  *)
(* The row has a file_id only if the file had several names when it was    *)
(* ingested, some of them perhaps outside of the library.                  *)
DuplicateByFileID(p, i) ==
  \E q \in Paths \ {p} : rowAt[q] = i /\ file[q] # NoInode

(* IngestPath, up to the write: a file that has gone again is left alone,  *)
(* a hard link of an indexed one is skipped, if their file_ids tell; and   *)
(* the library or the file may not be readable.                            *)
IngestPath ==
  LET p == updater.path IN
  /\ updater.pc = "ingest"
  /\ \/ /\ file[p] # NoInode
        /\ updater' = [updater EXCEPT !.pc = "write", !.id = file[p]]
        /\ UNCHANGED excused
     \/ /\ file[p] # NoInode /\ DuplicateByFileID(p, file[p])
        /\ updater' = UpdaterIdle
        /\ excused' = excused \union {p}
     \/ /\ file[p] # NoInode                  \* an error
        /\ updater' = UpdaterIdle
        /\ excused' = excused \union {p}
     \/ /\ file[p] = NoInode
        /\ updater' = UpdaterIdle
        /\ UNCHANGED excused
  /\ UNCHANGED <<file, watched, settling, due, rowAt, scanned>>

(* Upsert; its failure is only logged. *)
WriteRow ==
  /\ updater.pc = "write"
  /\ \/ rowAt' = [rowAt EXCEPT ![updater.path] = updater.id] /\ UNCHANGED excused
     \/ rowAt' = rowAt /\ excused' = excused \union {updater.path}
  /\ updater' = UpdaterIdle
  /\ UNCHANGED <<file, watched, settling, due, scanned>>

-----------------------------------------------------------------------------
(* A full scan.  The rows it decides on are independent of each other, so  *)
(* the model has one in hand at a time.                                    *)

(* ingestFile queues a write, unless it takes the file for unchanged or    *)
(* for a hard link; pruneMissingMediaForRoot lists a row.                  *)
ScanDecides(p) ==
  /\ scanned = NothingScanned
  /\ \/ /\ file[p] # NoInode
        /\ scanned' = [what |-> "write", path |-> p, id |-> file[p]]
     \/ /\ file[p] = NoInode /\ rowAt[p] # NoInode
        /\ scanned' = [what |-> "prune", path |-> p, id |-> NoInode]
  /\ UNCHANGED <<file, watched, settling, due, updater, rowAt, excused>>

(* Flush and deleteMediaByIDs look at no file again. *)
ScanApplies ==
  /\ scanned # NothingScanned
  /\ rowAt' = [rowAt EXCEPT ![scanned.path] = scanned.id]
  /\ excused' = IF file[scanned.path] = scanned.id THEN excused ELSE excused \union {scanned.path}
  /\ scanned' = NothingScanned
  /\ UNCHANGED <<file, watched, settling, due, updater>>

-----------------------------------------------------------------------------
WatchNext ==
  \/ \E p \in Paths :
       \/ DeleteFile(p) \/ Process(p) \/ ScanDecides(p)
       \/ \E i \in Inodes : CreateFile(p, i)
       \/ \E q \in Paths : RenameFile(p, q)
  \/ \E S \in SUBSET Paths : TakeDue(S) \/ Refresh(S)
  \/ RemovePath \/ DeleteRow \/ IngestPath \/ WriteRow \/ ScanApplies

WatchSpec == WatchInit /\ [][WatchNext]_WatchVars

-----------------------------------------------------------------------------
(* A path that nobody has still to come to has the row its file calls for, *)
(* whatever was created, renamed and deleted in the middle of an update:   *)
(* the change has marked the path again.  Excused are the paths whose last *)
(* update went wrong otherwise: an event was lost, the database or a look  *)
(* at the file failed, the file is a hard link of an indexed one, or a     *)
(* full scan applied what had changed since it looked.                     *)
IndexMatchesDisk ==
  \A p \in Paths :
    p \notin settling \union due \union excused /\ updater.path # p => rowAt[p] = file[p]
=============================================================================
